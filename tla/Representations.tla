--------------------------- MODULE Representations ---------------------------
(***************************************************************************)
(* odp-core/src/validation.rs: what a Service may publish (the parse_      *)
(* functions) and what an Agent makes of what it was sent (the parse_agent *)
(* functions, which first drop what this version of ODP does not name).    *)
(*                                                                         *)
(* New stands for any value of a vocabulary that this version does not     *)
(* name.  A list whose order says nothing is a set, and {} is a list that  *)
(* is not there.  An entry with extra carries a member ODP does not define *)
(* where no such member may be.                                            *)
(***************************************************************************)
EXTENDS Integers, Sequences, FiniteSets, Functions

CONSTANTS
  New,    \* a value of a later version
  None    \* a member that is not there

Operations == {"get-collection", "get-offering", "list-collection-offerings",
               "list-collections", "list-offerings", "search-collections", "search-offerings"}

Authentication == {"not-required", "optional", "required"}

ASSUME VocabularyAssumption ==
  /\ New # None
  /\ {New, None} \cap (Operations \cup Authentication) = {}
  /\ {New, None} \cap {"aep", "tap", "mpp", "x402", "streamable-http", "known"} = {}

\* What is left of a list: the elements at the places kept, in their order.
Kept(list, places) ==
  [n \in 1 .. Cardinality(places) |->
     list[CHOOSE i \in places : Cardinality({j \in places : j <= i}) = n]]
-----------------------------------------------------------------------------
(***************************************************************************)
(* Service Documents.                                                      *)
(***************************************************************************)
NoProtocols == [enrollment |-> {}, payments |-> {}, trust |-> {}]

Named(entries) == {e \in entries : e.name # New}

KnownAuthentication(entries) == {e \in entries : e.authentication # New}

\* filter_agent_protocols, then the payments whose authentication is unknown.
ReadProtocols(protocols) ==
  IF protocols = None THEN None
  ELSE LET named == [enrollment |-> protocols.enrollment \ {New},
                     payments   |-> Named(protocols.payments),
                     trust      |-> protocols.trust \ {New}]
           options(p) == [p EXCEPT !.options = @ \ {New}]
       IN  IF named = NoProtocols THEN None
           ELSE [named EXCEPT !.payments = {options(p) : p \in KnownAuthentication(@)}]

ReadOperations(operations) ==
  {o \in KnownAuthentication(Named(operations)) : ~o.extra}

\* An image of either kind in an unknown format takes the branding with it.
ReadBranding(branding) ==
  IF branding = None \/ New \in {branding.icon, branding.logo} THEN None
  ELSE IF branding = [icon |-> None, logo |-> None] THEN None ELSE branding

\* Inline definitions; a linked source counts as one that is known.
ReadCapabilities(capabilities) ==
  LET read == [filters |-> capabilities.filters \ {New}, sorts |-> capabilities.sorts \ {New}]
  IN  IF capabilities = None \/ read = [filters |-> {}, sorts |-> {}] THEN None ELSE read

normalize_service_document(d) ==
  [d EXCEPT !.protocols    = ReadProtocols(@),
            !.operations   = ReadOperations(@),
            !.mcp          = @ \ {New},
            !.branding     = ReadBranding(@),
            !.capabilities = ReadCapabilities(@)]

ProtocolsAllowed(p) ==
  /\ p # NoProtocols
  /\ p.enrollment \subseteq {"aep"} /\ p.trust \subseteq {"tap"}
  /\ \A x \in p.payments :
       /\ x.name \in {"mpp", "x402"}
       /\ x.authentication \in {"not-required", "required"}
       /\ New \notin x.options
       /\ \A y \in p.payments : x.name = y.name => x = y
       /\ x.authentication = "required" => p.enrollment # {}

\* search-capabilities.schema.json, over inline definitions.
CapabilitiesAllowed(c) ==
  /\ c # [filters |-> {}, sorts |-> {}]
  /\ New \notin c.filters \cup c.sorts

\* service-document.schema.json.
DocumentAllowed(d) ==
  /\ {"list-offerings", "get-offering"} \subseteq {o.name : o \in d.operations}
  /\ \A o \in d.operations :
       /\ o.name \in Operations /\ o.authentication \in Authentication /\ ~o.extra
       /\ \A other \in d.operations : o.name = other.name => o = other
       /\ o.authentication # "not-required"
            => d.protocols # None /\ d.protocols.enrollment # {}
  /\ d.protocols # None => ProtocolsAllowed(d.protocols)
  /\ d.mcp \subseteq {"streamable-http"}
  /\ d.branding # None => {d.branding.icon, d.branding.logo} = {"known"}
  /\ d.capabilities # None => CapabilitiesAllowed(d.capabilities)

Searches(d) == "search-offerings" \in {o.name : o \in d.operations}

service_document_issues(d) ==
  \/ d.language \notin d.localizations
  \/ d.capabilities # None /\ ~Searches(d)

parse_service_document(d) == DocumentAllowed(d) /\ ~service_document_issues(d)

ReadableDocument(d) == parse_service_document(normalize_service_document(d))
-----------------------------------------------------------------------------
(***************************************************************************)
(* Prices.  A decimal is its digits before and after the point.            *)
(***************************************************************************)
Digits   == 0 .. 9
Decimals == [whole : Seq(Digits), fraction : Seq(Digits)]

trim_start(s) ==
  LET kept == {i \in DOMAIN s : s[i] # 0}
  IN  IF kept = {} THEN <<>>
      ELSE SubSeq(s, CHOOSE i \in kept : \A j \in kept : i <= j, Len(s))

trim_end(s) ==
  LET kept == {i \in DOMAIN s : s[i] # 0}
  IN  IF kept = {} THEN <<>>
      ELSE SubSeq(s, 1, CHOOSE i \in kept : \A j \in kept : j <= i)

\* s before t in the order of strings.
Before(s, t) ==
  \E n \in 1 .. Len(t) :
    /\ n <= Len(s) + 1
    /\ \A i \in 1 .. n - 1 : s[i] = t[i]
    /\ n <= Len(s) => s[n] < t[n]

\* Mutant of exceeds: the whole parts are ordered as strings.
exceedsAsString(left, right) ==
  LET a == trim_start(left.whole)   b == trim_start(right.whole)
  IN  \/ Before(b, a)
      \/ a = b /\ Before(trim_end(right.fraction), trim_end(left.fraction))

\* compare_decimals(left, right).is_gt()
exceeds(left, right) ==
  LET a == trim_start(left.whole)   b == trim_start(right.whole)
  IN  \/ Len(a) > Len(b)
      \/ Len(a) = Len(b) /\ Before(b, a)
      \/ a = b /\ Before(trim_end(right.fraction), trim_end(left.fraction))

\* What a decimal is worth, in units of its places-th place: the reference.
Worth(decimal, places) ==
  LET digits == [i \in 1 .. Len(decimal.whole) + places |->
                   IF i <= Len(decimal.whole) THEN decimal.whole[i]
                   ELSE IF i - Len(decimal.whole) <= Len(decimal.fraction)
                     THEN decimal.fraction[i - Len(decimal.whole)] ELSE 0]
      sum[i \in 0 .. Len(digits)] == IF i = 0 THEN 0 ELSE 10 * sum[i - 1] + digits[i]
  IN  sum[Len(digits)]
-----------------------------------------------------------------------------
(***************************************************************************)
(* Offerings, Collections and pages of them.                               *)
(***************************************************************************)
Understood(action) == action.authentication # New /\ ~action.extra /\ action.method # New

KnownImage(image) == image.type # New

normalize_offering(o) ==
  [o EXCEPT !.images     = Kept(@, {i \in DOMAIN @ : KnownImage(@[i])}),
            !.price      = IF @ # None /\ @.type = New THEN None ELSE @,
            !.schema     = IF @ = New THEN None ELSE @,
            !.attributes = @ /\ o.schema # New,
            !.actions    = Kept(@, {i \in DOMAIN @ : Understood(@[i])})]

normalize_collection(c) ==
  [c EXCEPT !.images       = Kept(@, {i \in DOMAIN @ : KnownImage(@[i])}),
            !.capabilities = ReadCapabilities(@)]

ImagesAllowed(images) == IsInjective([i \in DOMAIN images |-> images[i].src])

OfferingAllowed(o) ==
  /\ \A i \in DOMAIN o.images : KnownImage(o.images[i])
  /\ \A i \in DOMAIN o.actions : Understood(o.actions[i])
  /\ o.price # None => o.price.type # New
  /\ o.schema # New
  /\ o.attributes => o.schema # None
  /\ ImagesAllowed(o.images)

CollectionAllowed(c) ==
  /\ \A i \in DOMAIN c.images : KnownImage(c.images[i])
  /\ c.capabilities # None => CapabilitiesAllowed(c.capabilities)
  /\ ImagesAllowed(c.images)

UniqueActions(o) == IsInjective([i \in DOMAIN o.actions |-> o.actions[i].id])

offering_issues(o) ==
  \/ ~UniqueActions(o)
  \/ o.price # None /\ o.price.type = "range" /\ exceeds(o.price.minimum, o.price.maximum)

collection_issues(c) == c.id \in c.parent_ids

refinement_issues(groups) ==
  \/ ~IsInjective([i \in DOMAIN groups |-> groups[i].filter_id])
  \/ \E i \in DOMAIN groups :
       ~IsInjective([j \in DOMAIN groups[i].values |-> groups[i].values[j].value])

parse_offering(o) == OfferingAllowed(o) /\ ~offering_issues(o)

parse_collection(c) == CollectionAllowed(c) /\ ~collection_issues(c)

\* Items of a page: an Agent reads each by itself, as normalized.
Normalized(kind, item) ==
  IF kind = "offering" THEN normalize_offering(item) ELSE normalize_collection(item)

ReadableItem(kind, item) ==
  IF kind = "offering" THEN OfferingAllowed(normalize_offering(item))
  ELSE CollectionAllowed(normalize_collection(item))

NormalizedPage(kind, page) ==
  [page EXCEPT !.items = [i \in DOMAIN @ |-> Normalized(kind, @[i])]]

ReadablePage(kind, page) == \A i \in DOMAIN page.items : ReadableItem(kind, page.items[i])
=============================================================================
