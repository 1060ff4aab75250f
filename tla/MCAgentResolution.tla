---------------------------- MODULE MCAgentResolution ----------------------------
(***************************************************************************)
(* An instance of AgentResolution: schema graphs with chains, cycles,      *)
(* shared documents, $ids that differ from the location or clash, and one  *)
(* document too many, too deep or too large; capabilities inline and       *)
(* linked, over the limits, repeated, in loops; a host whose answers       *)
(* change, and one that is the machine itself.                             *)
(***************************************************************************)
EXTENDS AgentResolution

Doc(at, id, references) ==
  [at |-> at, id |-> id, embedded |-> {}, references |-> references, bytes |-> 1, sound |-> TRUE,
   admits |-> {"none", "red"}]

Roots == {
  Doc("root", "root", {"t", "u", "w"}), Doc("root", "root", {"t"}),
  [Doc("root", "v", {"v", "t"}) EXCEPT !.admits = {"none"}],
  Doc("root", "root", {"insecure"}), [Doc("root", "root", {}) EXCEPT !.sound = FALSE]}

MCDocuments == Roots \cup {
  Doc("t", "t", {"u"}), Doc("t", "u", {"v", "root"}), Doc("t", "root", {"w"}),
  Doc("u", "u", {"w"}), [Doc("u", "u", {"m", "root"}) EXCEPT !.embedded = {"m"}],
  [Doc("w", "w", {"v"}) EXCEPT !.bytes = 3], Doc("w", "w", {"root", "u"}),
  Doc("v", "v", {}), Doc("m", "v", {"m"})}

MCSecureLocations == {"root", "t", "u", "v", "w", "m", "openapi"}
MCLocations == MCSecureLocations \cup {"insecure"}

MCPageLocations == {"p", "q", "s"}

Page(items, next) == [kind |-> "page", items |-> items, next |-> next]

Filter(id) == [id |-> id, keys |-> <<>>]
Sort(id, filter) == [id |-> id, keys |-> <<filter>>]

Redirect(location) == [kind |-> "redirect", location |-> location]

Fault == [kind |-> "fault"]

OpenApi(version, operations) == [kind |-> "openapi", version |-> version, operations |-> operations]

DocumentsAt(u) == {[kind |-> "schema", document |-> d] : d \in {e \in MCDocuments : e.at = u}}

MCWeb ==
  [u \in MCSecureLocations \cup MCPageLocations |->
     CASE u = "root" -> DocumentsAt(u) \cup {Redirect("m"), Redirect("p"), Fault}
       [] u = "m" -> DocumentsAt(u) \cup {Redirect("root")}
       [] u = "openapi" -> {OpenApi("3.1", <<"buy", "sell">>), OpenApi("3.1", <<"buy", "buy">>),
                            OpenApi("3.0", <<"buy">>), Fault}
       [] u = "p" -> {Page(<<Filter("a")>>, "q"), Page(<<Filter("b"), Filter("c")>>, Absent),
                      Redirect("q"), Fault}
       [] u = "q" -> {Page(<<>>, "p"), Page(<<Filter("b")>>, "s"), Page(<<Filter("c")>>, Absent),
                      Page(<<>>, "mailto")}
       [] u = "s" -> {Page(<<Sort("x", "a"), Sort("y", "b")>>, Absent), Fault}
       [] OTHER -> DocumentsAt(u)]

MCOriginOf == [u \in DOMAIN MCWeb |-> IF u \in MCPageLocations THEN "service" ELSE "elsewhere"]

MCHostOf == [service |-> "localhost", elsewhere |-> "schemas"]

MCAnswers ==
  [schemas   |-> {{"public1"}, {"public1", "public2"}, {"public1", "private"}, {"loopback"}},
   localhost |-> {{"loopback"}, {"loopback", "private"}, {}}]
-----------------------------------------------------------------------------
Action(id, http, request_schema, openapi) ==
  [id |-> id, http |-> http, request_schema |-> request_schema, openapi |-> openapi,
   operation |-> "buy"]

Offering(schema, attributes, actions) ==
  [schema |-> schema, attributes |-> attributes, actions |-> actions]

MCOfferings == {
  Offering("root", "red", <<>>),
  Offering("insecure", "red", <<Action("buy", "https", Absent, Absent)>>),
  Offering(Absent, "red", <<Action("buy", "https", "root", Absent), Action("ask", "mailto", Absent, Absent)>>),
  Offering(Absent, "none", <<Action("buy", "http", Absent, Absent), Action("buy", "https", Absent, Absent)>>),
  Offering(Absent, "none", <<Action("buy", Absent, Absent, ""), Action("ask", Absent, Absent, Absent)>>),
  Offering(Absent, "none", <<Action("buy", Absent, Absent, "insecure")>>)}

Inline(values) == [inline |-> values, linked |-> Absent]
Linked(url)    == [inline |-> <<>>, linked |-> url]

Advertise(filter_source, sort_source) == [filters |-> filter_source, sorts |-> sort_source]

MCCapabilities == {Absent} \cup
  {Advertise(f, s) :
     f \in {Absent, Linked("p"), Linked("mailto"), Inline(<<Filter("a")>>),
            Inline(<<Filter("b"), Filter("b")>>), Inline(<<Filter("a"), Filter("b"), Filter("c")>>)},
     s \in {Absent, Linked("s"), Inline(<<Sort("x", "a")>>), Inline(<<Sort("x", "b"), Sort("z", "a")>>)}}
=============================================================================
