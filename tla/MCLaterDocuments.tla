--------------------------- MODULE MCLaterDocuments ---------------------------
(***************************************************************************)
(* LaterDocuments with documents whose operations need no authentication   *)
(* and which differ in the protocols, endpoints and branding they name.    *)
(***************************************************************************)
EXTENDS LaterDocuments

Descriptor(name) == [name |-> name, authentication |-> "not-required", extra |-> FALSE]

Payment(name, authentication) == [name |-> name, authentication |-> authentication, options |-> {}]

Payments == {{}, {Payment("mpp", "not-required")}, {Payment("mpp", New)}, {Payment(New, "not-required")}}

Protocols ==
  [enrollment : {{}, {"aep"}, {New}}, payments : Payments, trust : {{}, {"tap"}, {New}}]

MCDocuments ==
  [operations : {{Descriptor("list-offerings"), Descriptor("get-offering"), Descriptor(New)}},
   protocols : {None} \cup (Protocols \ {NoProtocols}),
   mcp : SUBSET {"streamable-http", New},
   branding : {None} \cup [icon : {"known", New}, logo : {"known", New}],
   capabilities : {None}, language : {"en"}, localizations : {{"en"}}]
=============================================================================
