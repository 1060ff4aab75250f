---------------------------- MODULE AgentService ----------------------------
(***************************************************************************)
(* An Agent (odp-agent/src/client.rs) and other HTTP clients before a      *)
(* Service (odp-service/src/service.rs) that is redeployed while they talk *)
(* to it: with other operations, localizations or another endpoint base.   *)
(*                                                                         *)
(* A call of the Agent looks at the Service Document first, unless it      *)
(* holds one that is fresh, and then sends the one request the operation   *)
(* stands for.  How long records are fresh is the subject of AgentCache;   *)
(* here a Service Document is simply forgotten at some time.               *)
(***************************************************************************)
EXTENDS ServiceRouter

CONSTANTS
  Deployments,     \* what the Service is configured with, one after the other
  Calls,           \* [operation, id, representation, limit, accept_language]
  Probes,          \* requests of clients that are no Agents
  CatalogAnswers   \* CatalogAnswers[handler]: what a Catalog may return

VARIABLES
  deployed,  \* the deployment that serves
  known,     \* the fresh Service Document the Agent holds, and whose it is
  call,      \* the Agent's call under way
  request,   \* the request under way
  server,    \* the deployment that took the request, or 0
  asked,     \* what the Catalog was asked for the request
  reply,     \* the answer on its way back, and what the Catalog returned
  held,      \* the latest representation the Agent keeps for revalidation
  outcome    \* of the latest call

vars == <<deployed, known, call, request, server, asked, reply, held, outcome>>

ServiceAt(i) == ServiceDocument(Deployments[i])
-----------------------------------------------------------------------------
(***************************************************************************)
(* What the constants are: configurations, arguments, requests and answers *)
(* as their types in the code admit them.                                  *)
(***************************************************************************)
Path      == Seq(Segments)
Queries   == [representation : Seq(STRING), limit : Seq(Nat), cursor : Seq(STRING)]
Continuations == [origin : {"home", "away"}, path : Path, query : Queries]

Media     == {None} \cup Seq([range : STRING, weight : Nat])
LanguageRanges == [range : Seq(STRING) \ {<<>>}, weight : Nat]
Languages == {None} \cup Seq(LanguageRanges)
Bodies    == [size : {"small", "large"}, type : STRING, valid : BOOLEAN, limit : Nat]

TakesIdentifier(operation) ==
  operation \in {"get-offering", "get-collection", "list-collection-offerings"}

\* An object of the Rust types has its members and no others (models.rs); a value of
\* a vocabulary is any string on the wire.
Values == {New} \cup STRING

IsObject(v) == v = [member \in DOMAIN v |-> v[member]]

IsCapabilities(c) == c = None \/ c \in [filters : SUBSET Values, sorts : SUBSET Values]

IsProtocols(p) ==
  p = None \/ p \in [enrollment : SUBSET Values, trust : SUBSET Values,
                     payments : SUBSET [name : Values, authentication : Values,
                                        options : SUBSET Values]]

DocumentMembers == {"base", "language", "localizations", "protocols", "mcp", "branding",
                    "capabilities", "operations"}

\* A localization is a language tag (validation.rs:1110-1124): it does not end in a
\* singleton.
ASSUME DeploymentsAssumption ==
  /\ 1 \in DOMAIN Deployments /\ Deployable(Deployments[1])
  /\ \A i \in DOMAIN Deployments :
       LET document == Deployments[i].document
       IN  /\ IsObject(document) /\ DOMAIN document = DocumentMembers
           /\ IsProtocols(document.protocols) /\ IsCapabilities(document.capabilities)
           /\ document.base \in Path
           /\ document.localizations \in SUBSET Seq(STRING)
           /\ IsFiniteSet(document.localizations)
           /\ \A tag \in document.localizations : tag # <<>> /\ Last(tag) # "x"

ASSUME CallsAssumption ==
  \A c \in Calls :
    /\ c \in [operation : Operations, id : {None} \cup Segments, representation : STRING,
              limit : Nat, accept_language : Languages, next : {None}]
    /\ c.representation \in {"terse", "full"}
    /\ TakesIdentifier(c.operation) <=> c.id # None

\* A body is valid only with a limit that its schema admits.
ASSUME ProbesAssumption ==
  \A r \in Probes :
    /\ r \in [method : {"GET", "HEAD", "POST", "PUT"}, path : Path, query : Queries, body : Bodies,
              accept : Media, accept_language : Languages, if_none_match : SUBSET {AnyTag}]
    /\ r.body.valid => r.body.limit <= MaximumLimit

PricedInDecimals(offering) ==
  offering.price # None /\ offering.price.type = "range" =>
    offering.price.minimum \in Decimals /\ offering.price.maximum \in Decimals

\* The bounds of a price are decimals by the schema (price-preview.schema.json:6-10).
IsItem(kind, item) ==
  /\ IsObject(item)
  /\ item.images \in Seq(Range(item.images))
  /\ kind = "offering" =>
       /\ item.actions \in Seq(Range(item.actions))
       /\ item.attributes \in BOOLEAN
       /\ PricedInDecimals(item)
  /\ kind = "collection" => IsCapabilities(item.capabilities)

\* The errors a Catalog describes are failures of the request or of its own, and
\* say nothing of the conditions that the Service evaluates.
ASSUME AnswersAssumption ==
  /\ DOMAIN CatalogAnswers = Handlers
  /\ \A handler \in Handlers : \A answer \in CatalogAnswers[handler] :
       /\ answer # None
       /\ answer.kind \in {"page", "resource", "none", "error", "failure"}
       /\ answer.kind = "error" => answer.status \in 400 .. 599 \ {412}
       /\ answer.kind = "resource" =>
            /\ IsItem(ItemKind(handler), answer.item)
            /\ "next" \notin DOMAIN answer.item
       /\ answer.kind = "page" =>
            /\ IsObject(answer.page)
            /\ answer.page.items \in Seq(Range(answer.page.items))
            /\ \A item \in Range(answer.page.items) : IsItem(ItemKind(handler), item)
            /\ answer.page.next = None \/ answer.page.next \in Continuations
-----------------------------------------------------------------------------
NoQuery == [representation |-> <<>>, limit |-> <<>>, cursor |-> <<>>]

NoBody == [size |-> "small", type |-> "odp", valid |-> TRUE, limit |-> 0]

\* request_raw: what every request of the Agent says.
AgentRequest(method, path, query, body, accept_language) ==
  [method |-> method, path |-> path, query |-> query, body |-> body,
   accept |-> <<[range |-> "odp", weight |-> 2]>>, accept_language |-> accept_language,
   if_none_match |-> {}]

\* Mutant of operation_path: the offerings of a Collection are asked for as Offerings.
operation_path_Flat(operation, id) ==
  CASE operation = "list-collections" -> <<"collections">>
    [] operation = "search-collections" -> <<"collections", "search">>
    [] operation = "get-collection" -> <<"collections", id>>
    [] operation = "list-collection-offerings" -> <<"offerings">>
    [] operation = "list-offerings" -> <<"offerings">>
    [] operation = "search-offerings" -> <<"offerings", "search">>
    [] operation = "get-offering" -> <<"offerings", id>>

operation_path(operation, id) ==
  CASE operation = "list-collections" -> <<"collections">>
    [] operation = "search-collections" -> <<"collections", "search">>
    [] operation = "get-collection" -> <<"collections", id>>
    [] operation = "list-collection-offerings" -> <<"collections", id, "offerings">>
    [] operation = "list-offerings" -> <<"offerings">>
    [] operation = "search-offerings" -> <<"offerings", "search">>
    [] operation = "get-offering" -> <<"offerings", id>>

IsSearch(operation) == operation \in {"search-offerings", "search-collections"}

\* get_page_bytes and post_search.
OperationRequest(c, base) ==
  AgentRequest(IF IsSearch(c.operation) THEN "POST" ELSE "GET",
               base \o operation_path(c.operation, c.id),
               [NoQuery EXCEPT
                  !.representation = <<c.representation>>,
                  !.limit = IF c.limit = 0 \/ IsSearch(c.operation) THEN <<>> ELSE <<c.limit>>],
               IF IsSearch(c.operation)
               THEN [NoBody EXCEPT !.limit = c.limit, !.valid = c.limit <= MaximumLimit] ELSE NoBody,
               c.accept_language)

\* A record is looked up by all that selects a representation.
Selects(r) == [path |-> r.path, query |-> r.query, accept_language |-> r.accept_language]

\* request_cached: a GET of what is held is conditional.
Conditional(r) ==
  IF r.method = "GET" /\ held # None /\ held.selects = Selects(r)
  THEN [r EXCEPT !.if_none_match = {held.etag}] ELSE r
-----------------------------------------------------------------------------
Init ==
  /\ deployed = 1
  /\ known = None /\ call = None /\ request = None /\ server = 0 /\ asked = None
  /\ reply = None /\ held = None /\ outcome = None

Idle == call = None /\ request = None

Send(r) == request' = r /\ UNCHANGED <<deployed, known, call, server, asked, reply, held, outcome>>

EndCall(result) ==
  /\ call' = None /\ request' = None /\ server' = 0 /\ asked' = None /\ reply' = None
  /\ outcome' = result

\* Another configuration serves; one that Service::new refuses never does.
Redeploy ==
  /\ \E i \in DOMAIN Deployments :
       i # deployed /\ Deployable(Deployments[i]) /\ deployed' = i
  /\ UNCHANGED <<known, call, request, server, asked, reply, held, outcome>>

\* The Service Document expires; a call under way goes on with the one it has.
Forget ==
  /\ Idle /\ known # None
  /\ known' = None
  /\ UNCHANGED <<deployed, call, request, server, asked, reply, held, outcome>>

\* An operation of the Agent is called.
Begin ==
  /\ Idle
  /\ call' \in Calls
  /\ outcome' = None
  /\ UNCHANGED <<deployed, known, request, server, asked, reply, held>>

\* continue_offerings or continue_collections, with the next of a page.
BeginContinue ==
  /\ Idle
  /\ held # None /\ held.kind # None /\ "next" \in DOMAIN held.body /\ held.body.next # None
  /\ call' = [operation |-> IF held.kind = "offering" THEN "list-offerings" ELSE "list-collections",
              id |-> None, representation |-> "terse", limit |-> 0,
              accept_language |-> held.selects.accept_language, next |-> held.body.next]
  /\ outcome' = None
  /\ UNCHANGED <<deployed, known, request, server, asked, reply, held>>

\* resolve_continuation refuses to leave the Service.
Continue ==
  /\ call # None /\ call.next # None /\ request = None
  /\ IF call.next.origin = "away"
     THEN EndCall("invalid") /\ UNCHANGED <<deployed, known, held>>
     ELSE Send(Conditional(AgentRequest("GET", call.next.path, call.next.query, NoBody,
                                        call.accept_language)))

\* inspect, when nothing fresh is held.
Inspect ==
  /\ call # None /\ call.next = None /\ known = None /\ request = None
  /\ Send(Conditional(AgentRequest("GET", WellKnown, NoQuery, NoBody, call.accept_language)))

\* Mutant of Unadvertised: require_operation lets every operation through.
UnadvertisedNever(operation) == FALSE

\* require_operation
Unadvertised(operation) == operation \notin {o.name : o \in known.document.operations}

\* require_operation and build_operation_url, then the request.
Ask ==
  /\ call # None /\ call.next = None /\ known # None /\ request = None
  /\ IF Unadvertised(call.operation)
     THEN EndCall("unsupported") /\ UNCHANGED <<deployed, known, held>>
     ELSE IF TakesIdentifier(call.operation) /\ call.id \notin Identifiers
     THEN EndCall("invalid") /\ UNCHANGED <<deployed, known, held>>
     ELSE Send(Conditional(OperationRequest(call, known.document.base)))

\* Some other client sends a request, conditional perhaps on what the Agent holds.
Probe ==
  /\ Idle
  /\ \E r \in Probes :
       \/ Send(r)
       \/ held # None /\ Send([r EXCEPT !.if_none_match = {held.etag}])

TransportFails ==
  /\ request # None
  /\ EndCall(IF call = None THEN outcome ELSE "failed")
  /\ UNCHANGED <<deployed, known, held>>
-----------------------------------------------------------------------------
\* The Service answers without its Catalog.
Answer ==
  /\ request # None /\ asked = None /\ reply = None
  /\ AnswersItself(ServiceAt(deployed), request)
  /\ server' = deployed
  /\ reply' = [response |-> OwnResponse(ServiceAt(deployed), request), answer |-> None]
  /\ UNCHANGED <<deployed, known, call, request, asked, held, outcome>>

\* The Service asks its Catalog.
AskCatalog ==
  /\ request # None /\ asked = None /\ reply = None
  /\ ~AnswersItself(ServiceAt(deployed), request)
  /\ server' = deployed
  /\ asked' = Asked(ServiceAt(deployed), request)
  /\ UNCHANGED <<deployed, known, call, request, reply, held, outcome>>

\* The Catalog returns, and what it returned is held against the request.
CatalogReturns ==
  /\ asked # None /\ reply = None
  /\ \E answer \in CatalogAnswers[asked.handler] :
       reply' = [response |-> Response(asked, request, answer), answer |-> answer]
  /\ UNCHANGED <<deployed, known, call, request, server, asked, held, outcome>>

-----------------------------------------------------------------------------
\* The answer to a client that is no Agent.
ReceiveProbe ==
  /\ call = None /\ reply # None
  /\ EndCall(outcome)
  /\ UNCHANGED <<deployed, known, held>>

\* consume: what is no success is the call's error.
ReceiveFailure ==
  /\ call # None /\ reply # None /\ reply.response.status \notin {200, 304}
  /\ EndCall("failed")
  /\ UNCHANGED <<deployed, known, held>>

\* inspect, with a document that came or, after a 304, with the one that is held.
Inspected(document) ==
  LET read == normalize_service_document(document)
  IN  IF parse_service_document(read)
      THEN /\ known' = [document |-> read, by |-> server]
           /\ request' = None /\ server' = 0 /\ reply' = None
           /\ UNCHANGED <<call, asked, outcome>>
      ELSE EndCall("unreadable") /\ UNCHANGED known

\* request_cached: a readable answer to a GET is what the next one is held against.
Keep(kind) ==
  held' = IF request.method # "GET" THEN held
          ELSE [selects |-> Selects(request), etag |-> reply.response.etag, kind |-> kind,
                body |-> reply.response.body, language |-> reply.response.language]

ReceiveDocument ==
  /\ call # None /\ reply # None /\ reply.response.status = 200 /\ request.path = WellKnown
  /\ Inspected(reply.response.body)
  /\ IF ReadableDocument(reply.response.body) THEN Keep(None) ELSE UNCHANGED held
  /\ UNCHANGED deployed

\* response_validator: every item is read by itself, as normalized.
Kind(operation) ==
  IF operation \in {"list-collections", "search-collections", "get-collection"}
  THEN "collection" ELSE "offering"

Readable(kind, body) ==
  IF "items" \in DOMAIN body THEN ReadablePage(kind, body) ELSE ReadableItem(kind, body)

ReceiveResource ==
  /\ call # None /\ reply # None /\ reply.response.status = 200 /\ request.path # WellKnown
  /\ LET readable == Readable(Kind(call.operation), reply.response.body)
     IN  /\ EndCall(IF readable THEN "read" ELSE "unreadable")
         /\ IF readable THEN Keep(Kind(call.operation)) ELSE UNCHANGED held
  /\ UNCHANGED <<deployed, known>>

\* request_cached, 304: what is held stands.
ReceiveNotModified ==
  /\ call # None /\ reply # None /\ reply.response.status = 304
  /\ IF request.path = WellKnown THEN Inspected(held.body)
     ELSE EndCall("read") /\ UNCHANGED known
  /\ UNCHANGED <<deployed, held>>

Next ==
  \/ Redeploy \/ Forget \/ Begin \/ BeginContinue \/ Continue \/ Inspect \/ Ask \/ Probe
  \/ TransportFails \/ Answer \/ AskCatalog \/ CatalogReturns
  \/ ReceiveProbe \/ ReceiveFailure \/ ReceiveDocument \/ ReceiveResource \/ ReceiveNotModified

Spec == Init /\ [][Next]_vars
-----------------------------------------------------------------------------
(***************************************************************************)
(* Properties.                                                             *)
(***************************************************************************)
\* What the variables hold; the Catalog is asked for a limit a query may have.
TypeOK ==
  /\ deployed \in DOMAIN Deployments /\ Deployable(Deployments[deployed])
  /\ server \in {0} \cup DOMAIN Deployments
  /\ known # None => known.by \in DOMAIN Deployments /\ parse_service_document(known.document)
  /\ request # None => request.method \in {"GET", "HEAD", "POST", "PUT"}
  /\ asked # None => /\ asked.limit \in 0 .. MaximumLimit
                     /\ asked.representation \in {"terse", "full"}
                     /\ asked.handler \in DOMAIN CatalogAnswers
                     /\ NeedsIdentifier(asked.handler) <=> asked.id \in Identifiers
  /\ reply # None => reply.response.status \in {200, 304} \cup 400 .. 599
  /\ outcome \in {None, "read", "unreadable", "unsupported", "invalid", "failed"}

\* The two resources whose paths the router takes for another operation's:
\* the Collection "offerings", and whatever is called "search".
Misread(c) ==
  \/ c.operation \in {"get-offering", "get-collection"} /\ c.id = "search"
  \/ c.operation = "get-collection" /\ c.id = "offerings"

Served ==
  [operation \in Operations |->
     CASE operation = "list-offerings" -> "list_offerings"
       [] operation = "get-offering" -> "get_offering"
       [] operation = "search-offerings" -> "search_offerings"
       [] operation = "list-collections" -> "list_collections"
       [] operation = "get-collection" -> "get_collection"
       [] operation = "search-collections" -> "search_collections"
       [] operation = "list-collection-offerings" -> "list_collection_offerings"]

\* The Agent's URL builder and the Service's router agree (references.rs:109-131,
\* service.rs:460-557): a call reaches the Catalog as the operation that was
\* called, with its identifier, representation, limit and language, and only if the
\* deployment that takes it advertises that operation.
AsAsked ==
  asked # None /\ call # None /\ call.next = None /\ ~Misread(call) =>
    /\ asked.handler = Served[call.operation]
    /\ asked.id = call.id
    /\ asked.representation = call.representation
    /\ asked.limit = call.limit
    /\ asked.cursor = None
    /\ asked.language \in ServiceAt(server).localizations
    /\ Advertised(ServiceAt(server), call.operation)

\* An Agent that asks only for what the document it read advertises
\* (client.rs:507-519), and for no longer pages than there may be, is answered without
\* the Catalog ("operation is not supported", or no resource below the endpoint base)
\* only by a deployment that replaced the one it read about.
RefusalIsStale ==
  reply # None /\ reply.answer = None /\ call # None /\ call.next = None =>
    \/ request.path = WellKnown
    \/ Misread(call)
    \/ call.limit > MaximumLimit
    \/ server # known.by

\* What the Catalog returned, or else the Service's own document.
Contents(answer) ==
  IF answer = None THEN ServiceAt(server)
  ELSE IF answer.kind = "page" THEN answer.page ELSE answer.item

\* "Not modified" (service.rs:439-450,1105-1142) is said of what is held only when
\* the same representation, in the same language, would be served again, across
\* every redeployment in between.
NotModifiedIsCurrent ==
  reply # None /\ reply.response.status \in {304, 412} /\ AnyTag \notin request.if_none_match =>
    /\ held.body = Contents(reply.answer)
    /\ held.language = select_language(ServiceAt(server), request.accept_language)

Places == 2

SoundOffering(offering) ==
  /\ \A i, j \in DOMAIN offering.actions :
       i # j => offering.actions[i].id # offering.actions[j].id
  /\ offering.price # None /\ offering.price.type = "range" =>
       Worth(offering.price.minimum, Places) <= Worth(offering.price.maximum, Places)

\* Whatever the Catalog returns (service.rs:825-936, validation.rs:564-660): what is
\* published has the identifier that was asked for, no more items than the limit, no
\* continuation that is the request itself, no Collection that is its own parent, no
\* two Actions of one name, and no price whose minimum is worth more than its
\* maximum.
PublishedIsSound ==
  reply # None /\ reply.answer # None /\ reply.response.status = 200 =>
    LET answer == reply.answer
        items  == IF answer.kind = "page" THEN answer.page.items ELSE <<answer.item>>
    IN  /\ asked.id # None /\ answer.kind = "resource" => answer.item.id = asked.id
        /\ asked.limit # 0 => Len(items) <= asked.limit
        /\ answer.kind = "page" /\ answer.page.next # None /\ answer.page.next.origin = "home"
             => <<answer.page.next.path, answer.page.next.query>> # <<request.path, request.query>>
        /\ \A i \in DOMAIN items :
             IF OfOfferings(asked.handler) THEN SoundOffering(items[i])
             ELSE items[i].id \notin items[i].parent_ids

\* An Agent of the same version loses nothing of what a Service publishes
\* (validation.rs:60-500): normalizing it drops nothing, and it is read.
NothingLost ==
  reply # None /\ reply.response.status = 200 /\ reply.response.body # None =>
    LET body == reply.response.body
        kind == ItemKind(asked.handler)
    IN  IF reply.answer = None THEN normalize_service_document(body) = body /\ ReadableDocument(body)
        ELSE IF reply.answer.kind = "page" THEN NormalizedPage(kind, body) = body /\ ReadablePage(kind, body)
        ELSE Normalized(kind, body) = body /\ ReadableItem(kind, body)

\* The weight the client gave the best of its ranges that is a prefix relation away
\* from the tag, or that is *: the reference of language negotiation.
Accepts(range, tag) == range # <<"*">> /\ IsPrefix(tag, range) /\ range[Len(tag)] # "x"

\* Language Lookup (service.rs:637-672,752-783) never passes over a localization the
\* client weighs more than the one it is served, nor a longer one of the same range.
BestVariant ==
  reply # None /\ reply.response.status = 200 /\ request.accept_language # None =>
    LET ranges == request.accept_language
        tags   == ServiceAt(server).localizations
        served == reply.response.language
        finds(i) == \E tag \in tags : Accepts(ranges[i].range, tag)
    IN  /\ served \in tags
        /\ \A i \in DOMAIN ranges : ranges[i].weight > 0 /\ finds(i) =>
             \/ \E j \in DOMAIN ranges :
                  /\ ranges[j].weight >= ranges[i].weight
                  /\ IF ranges[j].range = <<"*">> THEN served = ServiceAt(server).language
                     ELSE Accepts(ranges[j].range, served)
                  /\ i = j => \A tag \in tags : Accepts(ranges[i].range, tag) => Len(tag) <= Len(served)
=============================================================================
