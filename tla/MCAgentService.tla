---------------------------- MODULE MCAgentService ----------------------------
(***************************************************************************)
(* AgentService with three deployments that serve, one that Service::new   *)
(* refuses, an Agent that prefers Brazilian Portuguese, other clients that *)
(* send what an Agent would not, and a Catalog that returns both sound and *)
(* unsound pages and resources.                                            *)
(***************************************************************************)
EXTENDS AgentService

en == <<"en">>
pt == <<"pt">>
br == <<"pt", "BR">>

MCSegments == STRING

MCLonger == {<<"odp", "odpx">>}

MCIdentifiers == {"a", "offerings", "search"}
-----------------------------------------------------------------------------
Document(base, localizations, protocols, capabilities) ==
  [base |-> base, language |-> en, localizations |-> localizations, protocols |-> protocols,
   mcp |-> {"streamable-http"}, branding |-> [icon |-> "known", logo |-> "known"],
   capabilities |-> capabilities, operations |-> {}]

Capabilities == [filters |-> {"size"}, sorts |-> {"price"}]

Paid == [enrollment |-> {"aep"}, trust |-> {},
         payments |-> {[name |-> "x402", authentication |-> "required", options |-> {}]}]

MCDeployments == <<
  [document   |-> Document(<<"odp">>, {en, pt, br}, None, Capabilities),
   operations |-> Operations],
  [document   |-> [Document(<<"odp">>, {en, pt}, Paid, None) EXCEPT !.operations =
                     {[name |-> "get-offering", authentication |-> "required", extra |-> FALSE]}],
   operations |-> {"list-offerings", "get-offering", "list-collections", "get-collection"}],
  [document   |-> Document(<<"api">>, {en}, None, Capabilities),
   operations |-> {"list-offerings", "get-offering", "search-offerings"}],
  [document   |-> Document(<<"odp">>, {en}, None, Capabilities),
   operations |-> {"list-offerings", "get-offering"}] >>
-----------------------------------------------------------------------------
Weighted(range, weight) == [range |-> range, weight |-> weight]

Preferred == <<Weighted(en, 1), Weighted(br, 2)>>

ACall(operation, id, representation, limit) ==
  [operation |-> operation, id |-> id, representation |-> representation, limit |-> limit,
   accept_language |-> Preferred, next |-> None]

MCCalls == {
  ACall("list-offerings", None, "terse", 1),
  ACall("list-offerings", None, "terse", 3),
  ACall("get-offering", "a", "full", 0),
  ACall("get-offering", "search", "full", 0),
  ACall("get-offering", "a b", "full", 0),
  ACall("search-offerings", None, "full", 1),
  ACall("search-offerings", None, "full", 3),
  ACall("list-collections", None, "full", 0),
  ACall("get-collection", "a", "full", 0),
  ACall("get-collection", "offerings", "full", 0),
  ACall("search-collections", None, "terse", 0),
  ACall("list-collection-offerings", "a", "terse", 0)}

Plain(method, path) ==
  [method |-> method, path |-> path, query |-> NoQuery, body |-> NoBody, accept |-> None,
   accept_language |-> None, if_none_match |-> {}]

Offerings == <<"odp", "offerings">>
Search    == <<"odp", "offerings", "search">>

Query(representation, limit, cursor) ==
  [representation |-> representation, limit |-> limit, cursor |-> cursor]

MCProbes == {
  Plain("HEAD", WellKnown), Plain("POST", WellKnown),
  [Plain("GET", WellKnown) EXCEPT !.accept_language =
     <<Weighted(<<"de">>, 3), Weighted(<<"pt", "x", "priv">>, 2), Weighted(<<"*">>, 1)>>],
  [Plain("GET", WellKnown) EXCEPT !.accept_language = <<Weighted(<<"*">>, 1), Weighted(pt, 1)>>],
  [Plain("GET", WellKnown) EXCEPT !.accept_language = <<Weighted(pt, 0)>>],
  [Plain("GET", WellKnown) EXCEPT !.if_none_match = {AnyTag}],
  [Plain("GET", Offerings) EXCEPT !.accept = <<Weighted("*/*", 1), Weighted("odp", 0)>>],
  [Plain("GET", Offerings) EXCEPT !.accept = <<Weighted("html", 2), Weighted("application/*", 1)>>],
  [Plain("HEAD", Offerings) EXCEPT !.query = Query(<<"terse">>, <<1>>, <<>>)],
  [Plain("GET", Offerings) EXCEPT !.query = Query(<<"terse", "full">>, <<>>, <<>>)],
  [Plain("GET", Offerings) EXCEPT !.query = Query(<<"short">>, <<>>, <<>>)],
  [Plain("GET", Offerings) EXCEPT !.query = Query(<<>>, <<0>>, <<>>)],
  [Plain("GET", Offerings) EXCEPT !.query = Query(<<>>, <<3>>, <<>>)],
  Plain("PUT", Offerings), Plain("PUT", Search), Plain("GET", <<"odp">>),
  Plain("GET", <<"elsewhere">>), Plain("GET", <<"odpx", "offerings">>),
  Plain("PUT", <<"odpx", "offerings">>),
  [Plain("GET", <<"odpx", "offerings">>) EXCEPT !.query = Query(<<"short">>, <<>>, <<>>)],
  Plain("GET", <<"odp", "offerings", "a", "b">>),
  Plain("GET", <<"odp", "collections", "offerings">>),
  Plain("HEAD", <<"odp", "collections", "a", "offerings">>),
  Plain("GET", <<"api", "offerings", "a">>),
  Plain("GET", Search), [Plain("GET", Search) EXCEPT !.query = Query(<<>>, <<>>, <<"c">>)],
  [Plain("POST", Search) EXCEPT !.body.size = "large"],
  [Plain("POST", Search) EXCEPT !.body.type = "json"],
  [Plain("POST", Search) EXCEPT !.body.valid = FALSE],
  [Plain("POST", Search) EXCEPT !.if_none_match = {AnyTag}]}
-----------------------------------------------------------------------------
Page(items, next, refinements) ==
  [kind |-> "page", page |-> [items |-> items, next |-> next, refinements |-> refinements]]

Resource(item) == [kind |-> "resource", item |-> item]

Offering == [id |-> "a", images |-> <<>>, price |-> None, schema |-> None, attributes |-> FALSE,
             actions |-> <<>>, detail_fields |-> FALSE]

Collection == [id |-> "a", images |-> <<>>, parent_ids |-> {"b"}, capabilities |-> None,
               detail_fields |-> FALSE]

Buy(authentication) ==
  [id |-> "buy", authentication |-> authentication, method |-> "POST", extra |-> FALSE]

Whole(n) == IF n = 9 THEN [whole |-> <<9>>, fraction |-> <<5>>]
            ELSE [whole |-> <<1, 0>>, fraction |-> <<>>]

Priced(minimum, maximum) ==
  [Offering EXCEPT !.price = [type |-> "range", minimum |-> Whole(minimum), maximum |-> Whole(maximum)]]

Picture(type) == [src |-> "p", type |-> type]

Next1 == [origin |-> "home", path |-> Offerings, query |-> Query(<<"terse">>, <<1>>, <<>>)]
Next2 == [origin |-> "home", path |-> Search, query |-> Query(<<>>, <<>>, <<"c">>)]
Away  == [Next2 EXCEPT !.origin = "away"]

Bucket(value, count) == [value |-> value, count |-> count]
Twice == <<[filter_id |-> "size", values |-> <<Bucket(1, 5), Bucket(1, 6)>>]>>

Troubles == {[kind |-> "failure"], [kind |-> "error", status |-> 429, code |-> "RATE_LIMITED"]}

\* What a Catalog without continuations answers to one.
Unavailable == {[kind |-> "error", status |-> 410, code |-> "CONTINUATION_EXPIRED"]}

OfferingPages == {
  Page(<<Offering>>, Next2, <<>>), Page(<<Offering>>, Next1, <<>>), Page(<<Offering>>, Away, <<>>),
  Page(<<Offering, Offering>>, None, <<>>), Page(<<Offering>>, None, Twice),
  Page(<<Priced(9, 10)>>, None, <<>>), Page(<<Priced(10, 9)>>, None, <<>>),
  Page(<<[Offering EXCEPT !.actions = <<Buy("required")>>]>>, None, <<>>)}

OfferingResources == {
  Resource([Offering EXCEPT !.schema = "s", !.attributes = TRUE, !.images = <<Picture("png")>>,
                            !.actions = <<Buy("required")>>]),
  Resource([Offering EXCEPT !.actions = <<Buy("required"), Buy("optional")>>]),
  Resource([Offering EXCEPT !.actions = <<Buy(New)>>]),
  Resource([Offering EXCEPT !.images = <<Picture("png"), Picture("png")>>]),
  Resource([Offering EXCEPT !.detail_fields = TRUE]),
  Resource([Offering EXCEPT !.id = "b"]), [kind |-> "none"]}

CollectionPages == {
  Page(<<Collection>>, None, <<>>),
  Page(<<[Collection EXCEPT !.parent_ids = {"a"}]>>, None, <<>>),
  Page(<<[Collection EXCEPT !.capabilities = [filters |-> {New, "size"}, sorts |-> {}]]>>, None, <<>>)}

CollectionResources == {
  Resource(Collection), Resource([Collection EXCEPT !.id = "offerings"]),
  Resource([Collection EXCEPT !.capabilities = [filters |-> {}, sorts |-> {}]]),
  Resource([Collection EXCEPT !.parent_ids = {"a"}]), [kind |-> "none"]}

MCCatalogAnswers ==
  [handler \in Handlers |->
     Troubles
     \cup (IF handler \in {"continue_offerings", "continue_collections"} THEN Unavailable ELSE {})
     \cup (IF handler = "get_offering" THEN OfferingResources
           ELSE IF handler = "get_collection" THEN CollectionResources
           ELSE IF OfOfferings(handler) THEN OfferingPages ELSE CollectionPages)]
=============================================================================
