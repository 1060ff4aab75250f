---------------------------- MODULE ServiceRouter ----------------------------
(***************************************************************************)
(* odp-service/src/service.rs: how a Service answers one HTTP request.     *)
(*                                                                         *)
(* The answer is made in two parts, before and after the Catalog is asked: *)
(* Dispatch decides who answers, and Response turns what the Catalog       *)
(* returned into the answer.  A path is the sequence of its segments, a    *)
(* query is the values each parameter was given.  A service is known by its*)
(* document, endpoint base included.  What the Catalog returns, right or   *)
(* wrong, is the choice of the modules that use this one.                  *)
(***************************************************************************)
EXTENDS Representations, SequencesExt

CONSTANTS
  Segments,         \* what a path is made of
  Longer,           \* the pairs of a segment and one that begins with its characters
  Identifiers,      \* the segments is_local_resource_identifier accepts
  MaximumLimit      \* of items on a page

Handlers == {"list_offerings", "search_offerings", "continue_offerings",
             "list_collection_offerings", "get_offering", "list_collections",
             "search_collections", "continue_collections", "get_collection"}

ASSUME RouterAssumption ==
  /\ None \notin Handlers \cup Operations \cup Identifiers
  /\ {".well-known", "odp", "offerings", "collections", "search"} \cup Identifiers \subseteq Segments
  /\ MaximumLimit \in Nat \ {0}
  /\ Longer \subseteq Segments \X Segments

WellKnown == <<".well-known", "odp">>
Reserved  == {<<"offerings", "search">>, <<"collections", "search">>}
-----------------------------------------------------------------------------
(***************************************************************************)
(* Service::new: the document is made from the builder's and the Catalog's *)
(* operations.                                                             *)
(***************************************************************************)
\* The builder's requirement for the operation, or none.
Requirement(stated, operation) ==
  LET found == {d \in stated : d.name = operation}
  IN  IF found = {} THEN "not-required" ELSE (CHOOSE d \in found : TRUE).authentication

Descriptors(stated, operations) ==
  {[name |-> o, authentication |-> Requirement(stated, o), extra |-> FALSE] : o \in operations}

ServiceDocument(config) ==
  [config.document EXCEPT !.operations = Descriptors(@, config.operations)]

Deployable(config) ==
  /\ {"list-offerings", "get-offering"} \subseteq config.operations
  /\ parse_service_document(ServiceDocument(config))
-----------------------------------------------------------------------------
(***************************************************************************)
(* Negotiation.  A field that lists ranges is a sequence of [range, weight]*)
(* in the order the client wrote them, or None.                            *)
(***************************************************************************)
Specificity == [range \in {"odp", "application/*", "*/*"} |->
                  IF range = "odp" THEN 2 ELSE IF range = "application/*" THEN 1 ELSE 0]

\* The most specific range decides, and the first of them; weight 0 refuses.
accepts_odp(field) ==
  field # None /\ field # <<>> =>
    \E i \in DOMAIN field :
      /\ field[i].range \in DOMAIN Specificity
      /\ field[i].weight > 0
      /\ \A j \in DOMAIN field : field[j].range \in DOMAIN Specificity =>
           \/ Specificity[field[j].range] < Specificity[field[i].range]
           \/ Specificity[field[j].range] = Specificity[field[i].range] /\ j >= i

\* Mutant of ranges_by_weight: the client's order, whatever the weights.
ranges_by_weight_Unsorted(field) ==
  SelectSeq(field, LAMBDA entry : entry.weight > 0)

\* Stable: of equal weights the one written first.
ranges_by_weight(field) ==
  LET acceptable == {i \in DOMAIN field : field[i].weight > 0}
      rank(i) == Cardinality({j \in acceptable :
                   \/ field[j].weight > field[i].weight
                   \/ field[j].weight = field[i].weight /\ j <= i})
  IN  [n \in 1 .. Cardinality(acceptable) |-> field[CHOOSE i \in acceptable : rank(i) = n]]

\* The lengths a range is cut to; a cut does not leave a singleton, any of which
\* is "x" here, at the end.
Cuts(range) ==
  LET cut[n \in 1 .. Len(range)] ==
        {n} \cup IF n = 1 THEN {}
                 ELSE cut[IF n > 2 /\ range[n - 1] = "x" THEN n - 2 ELSE n - 1]
  IN  cut[Len(range)]

\* The localizations a range finds, by Lookup.
Found(range, localizations) ==
  {SubSeq(range, 1, n) : n \in Cuts(range)} \cap localizations

Longest(tags) == CHOOSE tag \in tags : \A other \in tags : Len(other) <= Len(tag)

select_language(document, field) ==
  LET ranges  == IF field = None THEN <<>> ELSE ranges_by_weight(field)
      decides == {i \in DOMAIN ranges : \/ ranges[i].range = <<"*">>
                                        \/ Found(ranges[i].range, document.localizations) # {}}
      range   == ranges[CHOOSE i \in decides : \A j \in decides : i <= j].range
  IN  IF decides = {} \/ range = <<"*">> THEN document.language
      ELSE Longest(Found(range, document.localizations))
-----------------------------------------------------------------------------
(***************************************************************************)
(* Answers.  A body of another kind than a problem is a representation;    *)
(* an entity tag is the pair it is the digest of.                          *)
(***************************************************************************)
Problem(status, code) ==
  [status |-> status, body |-> code, language |-> None, etag |-> None,
   type |-> "problem", allow |-> {}, retry |-> status \in {429, 503}]

method_not_allowed(path) ==
  [Problem(405, "METHOD_NOT_ALLOWED") EXCEPT
     !.allow = {"GET", "HEAD"} \cup IF path \in Reserved THEN {"POST"} ELSE {}]

InternalError == Problem(500, "INTERNAL_ERROR")

\* Mutant of entity_tag: the variant's language is left out of its tag.
entity_tag_AnyVariant(body, language) == [body |-> body, language |-> None]

entity_tag(body, language) == [body |-> body, language |-> language]

represent(body, language) ==
  [status |-> 200, body |-> body, language |-> language, etag |-> entity_tag(body, language),
   type |-> "odp", allow |-> {}, retry |-> FALSE]

\* The whole of handle, but for what handle_result answers: conditions and HEAD.
Retrieval(request) == request.method \in {"GET", "HEAD"}

\* The entity tag * of If-None-Match, which every representation matches.
AnyTag == [any |-> "*"]

Matches(request, response) ==
  /\ response.status = 200
  /\ AnyTag \in request.if_none_match \/ response.etag \in request.if_none_match

handle(request, response) ==
  LET conditional ==
        IF ~Matches(request, response) THEN response
        ELSE [response EXCEPT !.status = IF Retrieval(request) THEN 304 ELSE 412,
                              !.body = None, !.type = None]
  IN  IF request.method = "HEAD" THEN [conditional EXCEPT !.body = None] ELSE conditional
-----------------------------------------------------------------------------
(***************************************************************************)
(* Routing.                                                                *)
(***************************************************************************)
\* handle answers a HEAD as the GET it shadows.
Method(request) == IF request.method = "HEAD" THEN "GET" ELSE request.method

\* strip_prefix goes by characters: it finds the base /odp in /odpx too.
RunsOn(base, path) ==
  /\ base # <<>> /\ Len(base) <= Len(path) /\ IsPrefix(Front(base), path)
  /\ <<Last(base), path[Len(base)]>> \in Longer

\* What is left below the base; a rest that does not begin with a slash names
\* no more than an empty one.
Rest(service, path) ==
  IF IsPrefix(service.base, path) THEN SubSeq(path, Len(service.base) + 1, Len(path)) ELSE <<>>

Under(root, path) == Len(path) > 1 /\ path[1] = root

SearchOperation == [offerings |-> "search-offerings", collections |-> "search-collections"]

ListHandler     == [offerings |-> "list_offerings", collections |-> "list_collections"]
SearchHandler   == [offerings |-> "search_offerings", collections |-> "search_collections"]
ContinueHandler == [offerings |-> "continue_offerings", collections |-> "continue_collections"]

\* The operation a path stands for: what is held against those advertised.
path_operation(method, path) ==
  CASE path \in Reserved -> IF method \in {"GET", "POST"} THEN SearchOperation[path[1]] ELSE None
    [] path \notin Reserved /\ method # "GET" -> None
    [] path = <<"offerings">> /\ method = "GET" -> "list-offerings"
    [] path = <<"collections">> /\ method = "GET" -> "list-collections"
    [] path \notin Reserved /\ method = "GET" /\ Under("offerings", path) -> "get-offering"
    [] path \notin Reserved /\ method = "GET" /\ Under("collections", path)
         -> IF Last(path) = "offerings" THEN "list-collection-offerings" ELSE "get-collection"
    [] OTHER -> None

\* The match of handle_result and get_path: the Catalog's operation for a path.
Handler(method, path) ==
  CASE path \in Reserved /\ method = "POST" -> SearchHandler[path[1]]
    [] path \in Reserved /\ method = "GET" -> ContinueHandler[path[1]]
    [] path \in {<<"offerings">>, <<"collections">>} /\ method = "GET" -> ListHandler[path[1]]
    [] path \notin Reserved /\ method = "GET" /\ Under("offerings", path) -> "get_offering"
    [] path \notin Reserved /\ method = "GET" /\ Under("collections", path)
         -> IF Len(path) > 2 /\ Last(path) = "offerings"
            THEN "list_collection_offerings" ELSE "get_collection"
    [] OTHER -> None

\* What is left of the path for an identifier; several segments are none.
Identifier(handler, path) ==
  LET n == IF handler = "list_collection_offerings" THEN 3 ELSE 2
  IN  IF Len(path) = n THEN path[2] ELSE None

NeedsIdentifier(handler) ==
  handler \in {"get_offering", "get_collection", "list_collection_offerings"}

\* Mutant of BadQuery: any number is a limit.
BadQueryUnbounded(query) ==
  \/ \E name \in DOMAIN query : Len(query[name]) > 1
  \/ \E value \in ToSet(query.representation) : value \notin {"terse", "full"}

\* catalog_request: each parameter at most once, and within its range.
BadQuery(query) ==
  \/ \E name \in DOMAIN query : Len(query[name]) > 1
  \/ \E value \in ToSet(query.representation) : value \notin {"terse", "full"}
  \/ \E value \in ToSet(query.limit) : value \notin 1 .. MaximumLimit

Single(values, default) == IF values = <<>> THEN default ELSE values[1]

Representation(operation, query) ==
  Single(query.representation,
         IF operation \in {"get-offering", "get-collection"} THEN "full" ELSE "terse")

\* What the Catalog is asked.
Asked(service, request) ==
  LET path    == Rest(service, request.path)
      handler == Handler(Method(request), path)
  IN  [handler        |-> handler,
       id             |-> IF NeedsIdentifier(handler) THEN Identifier(handler, path) ELSE None,
       representation |-> Representation(path_operation(Method(request), path), request.query),
       limit          |-> IF request.method = "POST" THEN request.body.limit
                          ELSE Single(request.query.limit, 0),
       cursor         |-> Single(request.query.cursor, None),
       language       |-> select_language(service, request.accept_language)]

Advertised(service, operation) ==
  operation \in {o.name : o \in service.operations}

Unsupported(service, operation) == operation # None /\ ~Advertised(service, operation)

\* The refusals of handle_result and get_path, in the order they are tried.  The
\* code UNSUPPORTED is NOT_FOUND, told apart by its detail.
Refusals(service, request) ==
  LET method    == Method(request)
      path      == Rest(service, request.path)
      handler   == Handler(method, path)
      operation == path_operation(method, path)
      no(holds, problem) == [holds |-> holds, problem |-> problem]
  IN  << no(~accepts_odp(request.accept), Problem(406, "NOT_ACCEPTABLE")),
         no(~IsPrefix(service.base, request.path) /\ ~RunsOn(service.base, request.path),
            Problem(404, "NOT_FOUND")),
         no(Unsupported(service, operation), Problem(404, "UNSUPPORTED")),
         no(BadQuery(request.query), Problem(400, "INVALID_REQUEST")),
         no(handler = None /\ ~(method = "GET" /\ path \notin Reserved), method_not_allowed(path)),
         no(handler = None, Problem(404, "NOT_FOUND")),
         no(method = "POST" /\ request.body.size = "large", Problem(413, "REQUEST_TOO_LARGE")),
         no(method = "POST" /\ request.body.type # "odp", Problem(415, "UNSUPPORTED_MEDIA_TYPE")),
         no(method = "POST" /\ ~request.body.valid, Problem(400, "INVALID_REQUEST")),
         no(method = "GET" /\ path \in Reserved /\ Single(request.query.cursor, "") = "",
            Problem(400, "INVALID_REQUEST")),
         no(NeedsIdentifier(handler) /\ Identifier(handler, path) \notin Identifiers,
            Problem(400, "INVALID_REQUEST")) >>

Refused(service, request) == \E i \in DOMAIN Refusals(service, request) :
                               Refusals(service, request)[i].holds

Refusal(service, request) ==
  LET all == Refusals(service, request)
      first == CHOOSE i \in DOMAIN all : all[i].holds /\ \A j \in 1 .. i - 1 : ~all[j].holds
  IN  all[first].problem

IsDocument(request) == request.path = WellKnown /\ accepts_odp(request.accept)

\* The answers the Catalog has no part in.
AnswersItself(service, request) == IsDocument(request) \/ Refused(service, request)

OwnResponse(service, request) ==
  handle(request,
    IF ~IsDocument(request) THEN Refusal(service, request)
    ELSE IF Method(request) # "GET" THEN method_not_allowed(request.path)
    ELSE represent(service, select_language(service, request.accept_language)))
-----------------------------------------------------------------------------
(***************************************************************************)
(* What the Catalog returned.  An answer is [kind |-> "page", page],       *)
(* [kind |-> "resource", item], [kind |-> "none"], [kind |-> "error",      *)
(* status, code] for an error the Catalog described, or                    *)
(* [kind |-> "failure"].                                                   *)
(***************************************************************************)
OfOfferings(handler) ==
  handler \in {"list_offerings", "search_offerings", "continue_offerings", "get_offering",
               "list_collection_offerings"}

ItemKind(handler) == IF OfOfferings(handler) THEN "offering" ELSE "collection"

RepresentationHolds(kind, item, representation) ==
  /\ kind = "offering" /\ representation = "terse" => item.actions = <<>>
  /\ representation = "full" => ~item.detail_fields

ValidItem(kind, item, representation) ==
  /\ IF kind = "offering" THEN parse_offering(item) ELSE parse_collection(item)
  /\ RepresentationHolds(kind, item, representation)

validate_page_envelope(page, limit, request) ==
  /\ limit # 0 => Len(page.items) <= limit
  /\ page.next # None => page.next # [origin |-> "home", path |-> request.path, query |-> request.query]

\* Mutant of ValidPage: items are not parsed, and refinements not looked at.
ValidPageOfAnyKind(asked, page, request) ==
  /\ validate_page_envelope(page, asked.limit, request)
  /\ \A i \in DOMAIN page.items :
       RepresentationHolds(ItemKind(asked.handler), page.items[i], asked.representation)

ValidPage(asked, page, request) ==
  /\ validate_page_envelope(page, asked.limit, request)
  /\ asked.handler \in {"search_offerings", "continue_offerings"}
       => ~refinement_issues(page.refinements)
  /\ \A i \in DOMAIN page.items :
       ValidItem(ItemKind(asked.handler), page.items[i], asked.representation)

Response(asked, request, answer) ==
  handle(request,
    CASE answer.kind = "failure" -> InternalError
      [] answer.kind = "error" -> Problem(answer.status, answer.code)
      [] answer.kind = "none" -> Problem(404, "NOT_FOUND")
      [] answer.kind = "page" ->
           IF ValidPage(asked, answer.page, request) THEN represent(answer.page, asked.language)
           ELSE InternalError
      [] answer.kind = "resource" ->
           IF /\ answer.item.id = asked.id
              /\ ValidItem(ItemKind(asked.handler), answer.item, asked.representation)
           THEN represent(answer.item, asked.language) ELSE InternalError)
=============================================================================
