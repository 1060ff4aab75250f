------------------------- MODULE AgentServiceProofs --------------------------
(***************************************************************************)
(* Theorems about AgentService, for any deployments, calls, requests of    *)
(* other clients and answers of a Catalog, and any number of redeployments.*)
(***************************************************************************)
EXTENDS AgentService, FiniteSetTheorems, SequenceTheorems, WellFoundedInduction, TLAPS

(***************************************************************************)
(* A set of natural numbers that is not empty has a least one.             *)
(***************************************************************************)
LEMMA LeastNumber ==
  ASSUME NEW S \in SUBSET Nat, S # {}
  PROVE  \E m \in S : \A k \in S : m <= k
<1> DEFINE Less == {ss \in Nat \X Nat : ss[1] < ss[2]}
<1>1. OpToRel(<, Nat) = Less
  BY DEF OpToRel
<1>2. IsWellFoundedOn(Less, Nat)
  BY <1>1, NatLessThanWellFounded
<1> HIDE DEF Less
<1>3. PICK m \in S : \A k \in S : <<k, m>> \notin Less
  BY <1>2, WFMin
<1>4. \A k \in S : ~(k < m)
  BY <1>3 DEF Less
<1> QED BY <1>4
-----------------------------------------------------------------------------
(***************************************************************************)
(* What the Service answers, by itself or for its Catalog.                 *)
(***************************************************************************)
\* An answer that is an error, or a representation that handle has seen.
Failures == 400 .. 599 \ {412}

Answers(response, r, body, language) == response = handle(r, represent(body, language))

LEMMA RepresentedAnswer ==
  ASSUME NEW r, NEW body, NEW language
  PROVE  LET response == handle(r, represent(body, language))
             tag      == entity_tag(body, language)
         IN  /\ response.status \in {200, 304, 412}
             /\ response.status \in {304, 412} => AnyTag \in r.if_none_match \/ tag \in r.if_none_match
             /\ response.status = 200 =>
                  /\ response.etag = tag /\ response.language = language
                  /\ r.method # "HEAD" => response.body = body
BY DEF handle, represent, Matches, Retrieval

LEMMA HandledProblem ==
  ASSUME NEW r, NEW status \in Failures, NEW code
  PROVE  handle(r, Problem(status, code)).status = status
BY DEF handle, Problem, Matches, Failures

LEMMA HandledMethodNotAllowed ==
  ASSUME NEW r, NEW path
  PROVE  /\ method_not_allowed(path).status = 405
         /\ handle(r, method_not_allowed(path)).status = 405
<1>1. method_not_allowed(path).status = 405
  BY DEF method_not_allowed, Problem
<1>2. DOMAIN method_not_allowed(path) =
        {"status", "body", "language", "etag", "type", "allow", "retry"}
  BY DEF method_not_allowed, Problem
<1> HIDE DEF method_not_allowed
<1>3. handle(r, method_not_allowed(path)).status = 405
  BY <1>1, <1>2 DEF handle, Matches
<1> QED BY <1>1, <1>3

\* What lies outside the base, or only runs on from its characters, is nobody's.
LEMMA NothingOutsideBase ==
  ASSUME NEW service, NEW r, ~IsPrefix(service.base, r.path)
  PROVE  Handler(Method(r), Rest(service, r.path)) = None
<1>1. Rest(service, r.path) = <<>>
  BY DEF Rest
<1>2. <<>> \notin Reserved /\ <<>> # <<"offerings">> /\ <<>> # <<"collections">>
  BY DEF Reserved
<1>3. ~Under("offerings", <<>>) /\ ~Under("collections", <<>>)
  BY DEF Under
<1> QED BY <1>1, <1>2, <1>3 DEF Handler

\* The conditions of Refusals, apart from the answers they lead to.
LEMMA RefusedIff ==
  ASSUME NEW service, NEW r
  PROVE  LET method    == Method(r)
             path      == Rest(service, r.path)
             handler   == Handler(method, path)
             operation == path_operation(method, path)
         IN  Refused(service, r) <=>
               \/ ~accepts_odp(r.accept)
               \/ ~IsPrefix(service.base, r.path)
               \/ Unsupported(service, operation)
               \/ BadQuery(r.query)
               \/ handler = None
               \/ method = "POST" /\ r.body.size = "large"
               \/ method = "POST" /\ r.body.type # "odp"
               \/ method = "POST" /\ ~r.body.valid
               \/ method = "GET" /\ path \in Reserved /\ Single(r.query.cursor, "") = ""
               \/ NeedsIdentifier(handler) /\ Identifier(handler, path) \notin Identifiers
<1> DEFINE method    == Method(r)
           path      == Rest(service, r.path)
           handler   == Handler(method, path)
           operation == path_operation(method, path)
           all       == Refusals(service, r)
<1>0. DOMAIN all = 1 .. 11
  BY DEF Refusals
<1>1. all[1].holds <=> ~accepts_odp(r.accept)
  BY DEF Refusals
<1>2. all[2].holds <=> ~IsPrefix(service.base, r.path) /\ ~RunsOn(service.base, r.path)
  BY DEF Refusals
<1>3. all[3].holds <=> Unsupported(service, operation)
  BY DEF Refusals
<1>4. all[4].holds <=> BadQuery(r.query)
  BY DEF Refusals
<1>5. all[5].holds <=> (handler = None /\ ~(method = "GET" /\ path \notin Reserved))
  BY DEF Refusals
<1>6. all[6].holds <=> (handler = None)
  BY DEF Refusals
<1>7. all[7].holds <=> (method = "POST" /\ r.body.size = "large")
  BY DEF Refusals
<1>8. all[8].holds <=> (method = "POST" /\ r.body.type # "odp")
  BY DEF Refusals
<1>9. all[9].holds <=> (method = "POST" /\ ~r.body.valid)
  BY DEF Refusals
<1>10. all[10].holds <=> (method = "GET" /\ path \in Reserved /\ Single(r.query.cursor, "") = "")
  BY DEF Refusals
<1>11. all[11].holds <=> (NeedsIdentifier(handler) /\ Identifier(handler, path) \notin Identifiers)
  BY DEF Refusals
<1>12. Refused(service, r) <=> \E i \in 1 .. 11 : all[i].holds
  BY <1>0 DEF Refused
<1>13. (\E i \in 1 .. 11 : all[i].holds) <=>
         \/ all[1].holds \/ all[2].holds \/ all[3].holds \/ all[4].holds \/ all[5].holds \/ all[6].holds
         \/ all[7].holds \/ all[8].holds \/ all[9].holds \/ all[10].holds \/ all[11].holds
  OBVIOUS
<1>14. ~IsPrefix(service.base, r.path) => handler = None
  BY NothingOutsideBase
<1> HIDE DEF all, method, path, handler, operation
<1>15. Refused(service, r) <=>
         \/ ~accepts_odp(r.accept)
         \/ ~IsPrefix(service.base, r.path)
         \/ Unsupported(service, operation)
         \/ BadQuery(r.query)
         \/ handler = None
         \/ method = "POST" /\ r.body.size = "large"
         \/ method = "POST" /\ r.body.type # "odp"
         \/ method = "POST" /\ ~r.body.valid
         \/ method = "GET" /\ path \in Reserved /\ Single(r.query.cursor, "") = ""
         \/ NeedsIdentifier(handler) /\ Identifier(handler, path) \notin Identifiers
  BY <1>1, <1>2, <1>3, <1>4, <1>5, <1>6, <1>7, <1>8, <1>9, <1>10, <1>11, <1>12, <1>13, <1>14
<1> QED BY <1>15 DEF method, path, handler, operation

\* The first refusal whose condition holds is one of the list, a failure.
LEMMA RefusalIsFailure ==
  ASSUME NEW service, NEW r, Refused(service, r)
  PROVE  handle(r, Refusal(service, r)).status \in Failures
<1> DEFINE all == Refusals(service, r)
<1> DEFINE holding == {i \in DOMAIN all : all[i].holds}
<1>1. DOMAIN all = 1 .. 11
  BY DEF Refusals
<1>2. holding \in SUBSET Nat /\ holding # {}
  BY <1>1 DEF Refused
<1>3. PICK m \in holding : \A k \in holding : m <= k
  BY <1>2, LeastNumber
<1>4. m \in DOMAIN all /\ all[m].holds /\ \A j \in 1 .. m - 1 : ~all[j].holds
  BY <1>1, <1>3
<1> DEFINE first == CHOOSE i \in DOMAIN all : all[i].holds /\ \A j \in 1 .. i - 1 : ~all[j].holds
<1>5. first \in 1 .. 11
  BY <1>1, <1>4
<1>6. Refusal(service, r) = all[first].problem
  BY DEF Refusal
<1> HIDE DEF first
<1>7. \/ \E status \in Failures : \E code : all[first].problem = Problem(status, code)
      \/ \E path : all[first].problem = method_not_allowed(path)
  <2> DEFINE OneOf(problem) == \/ \E status \in Failures : \E code : problem = Problem(status, code)
                              \/ \E path : problem = method_not_allowed(path)
  <2>1. \A status \in {400, 404, 406, 413, 415} : \A code : OneOf(Problem(status, code))
    BY DEF Failures
  <2>2. \A path : OneOf(method_not_allowed(path))
    OBVIOUS
  <2> HIDE DEF OneOf
  <2>3. \A i \in 1 .. 11 : OneOf(all[i].problem)
    <3>1. all[1].problem = Problem(406, "NOT_ACCEPTABLE")
      BY DEF Refusals
    <3>2. all[2].problem = Problem(404, "NOT_FOUND")
      BY DEF Refusals
    <3>3. all[3].problem = Problem(404, "UNSUPPORTED")
      BY DEF Refusals
    <3>4. all[4].problem = Problem(400, "INVALID_REQUEST")
      BY DEF Refusals
    <3>5. all[5].problem = method_not_allowed(Rest(service, r.path))
      BY DEF Refusals
    <3>6. all[6].problem = Problem(404, "NOT_FOUND")
      BY DEF Refusals
    <3>7. all[7].problem = Problem(413, "REQUEST_TOO_LARGE")
      BY DEF Refusals
    <3>8. all[8].problem = Problem(415, "UNSUPPORTED_MEDIA_TYPE")
      BY DEF Refusals
    <3>9. all[9].problem = Problem(400, "INVALID_REQUEST")
      BY DEF Refusals
    <3>10. all[10].problem = Problem(400, "INVALID_REQUEST")
      BY DEF Refusals
    <3>11. all[11].problem = Problem(400, "INVALID_REQUEST")
      BY DEF Refusals
    <3> QED BY <3>1, <3>2, <3>3, <3>4, <3>5, <3>6, <3>7, <3>8, <3>9, <3>10, <3>11, <2>1, <2>2
  <2>4. OneOf(all[first].problem)
    BY <1>5, <2>3
  <2> QED BY <2>4 DEF OneOf
<1> HIDE DEF all
<1>8. 405 \in Failures
  BY DEF Failures
<1> QED BY <1>6, <1>7, <1>8, HandledProblem, HandledMethodNotAllowed

\* Without its Catalog the Service answers with its document or with a failure.
LEMMA OwnAnswer ==
  ASSUME NEW service, NEW r, AnswersItself(service, r)
  PROVE  \/ /\ r.path = WellKnown
            /\ Answers(OwnResponse(service, r), r, service,
                       select_language(service, r.accept_language))
         \/ OwnResponse(service, r).status \in Failures
<1>1. CASE ~IsDocument(r)
  BY <1>1, RefusalIsFailure DEF AnswersItself, OwnResponse
<1>2. CASE IsDocument(r) /\ Method(r) # "GET"
  BY <1>2, HandledMethodNotAllowed DEF OwnResponse, Failures
<1>3. CASE IsDocument(r) /\ Method(r) = "GET"
  BY <1>3 DEF OwnResponse, IsDocument, Answers
<1> QED BY <1>1, <1>2, <1>3

\* What is made of an answer of the Catalog that holds against the request.
Content(answer) == IF answer.kind = "page" THEN answer.page ELSE answer.item

Holds(a, r, answer) ==
  \/ answer.kind = "page" /\ ValidPage(a, answer.page, r)
  \/ /\ answer.kind = "resource" /\ answer.item.id = a.id
     /\ ValidItem(ItemKind(a.handler), answer.item, a.representation)

LEMMA CatalogAnswer ==
  ASSUME NEW a, NEW r, NEW handler \in Handlers, NEW answer \in CatalogAnswers[handler]
  PROVE  \/ /\ Holds(a, r, answer)
            /\ Answers(Response(a, r, answer), r, Content(answer), a.language)
         \/ Response(a, r, answer).status \in Failures
<1>1. /\ answer.kind \in {"page", "resource", "none", "error", "failure"}
      /\ answer.kind = "error" => answer.status \in Failures
  BY AnswersAssumption DEF Failures, AnswersAssumption
<1>2. 404 \in Failures /\ 500 \in Failures
  BY DEF Failures
<1>3. \A code : handle(r, Problem(404, code)).status \in Failures
  BY <1>2, HandledProblem
<1>4. handle(r, InternalError).status \in Failures
  BY <1>2, HandledProblem DEF InternalError
<1>5. CASE answer.kind = "error"
  BY <1>1, <1>5, HandledProblem DEF Response
<1>6. CASE answer.kind \in {"failure", "none"}
  BY <1>3, <1>4, <1>6 DEF Response
<1>7. CASE answer.kind = "page"
  BY <1>4, <1>7 DEF Response, Holds, Answers, Content
<1>8. CASE answer.kind = "resource"
  BY <1>4, <1>8 DEF Response, Holds, Answers, Content
<1> QED BY <1>1, <1>5, <1>6, <1>7, <1>8
-----------------------------------------------------------------------------
(***************************************************************************)
(* What the Catalog is asked.                                              *)
(***************************************************************************)
\* The requests of Agents and of other clients, but for their conditions.
IsRequest(r) ==
  /\ r.method \in {"GET", "HEAD", "POST", "PUT"}
  /\ r.path \in Path /\ r.query \in Queries /\ r.accept_language \in Languages
  /\ r.body.valid => r.body.limit \in 0 .. MaximumLimit

LEMMA QueryInRange ==
  ASSUME NEW query \in Queries, ~BadQuery(query), NEW operation
  PROVE  /\ Single(query.limit, 0) \in 0 .. MaximumLimit
         /\ Representation(operation, query) \in {"terse", "full"}
<1>1. /\ query.limit \in Seq(Nat) /\ query.representation \in Seq(STRING)
      /\ MaximumLimit \in Nat
  BY RouterAssumption DEF Queries, RouterAssumption
<1>2. /\ \A value \in ToSet(query.limit) : value \in 1 .. MaximumLimit
      /\ \A value \in ToSet(query.representation) : value \in {"terse", "full"}
  BY DEF BadQuery
<1>3. query.limit # <<>> => query.limit[1] \in 1 .. MaximumLimit
  BY <1>1, <1>2 DEF ToSet
<1>4. ASSUME query.representation # <<>> PROVE query.representation[1] \in {"terse", "full"}
  <2>1. 1 \in DOMAIN query.representation
    BY <1>1, <1>4
  <2> QED BY <1>2, <2>1 DEF ToSet
<1> QED BY <1>1, <1>3, <1>4 DEF Single, Representation

LEMMA HandlerIsKnown ==
  ASSUME NEW method, NEW path
  PROVE  Handler(method, path) \in Handlers \cup {None}
BY DEF Handler, Handlers, Reserved, SearchHandler, ContinueHandler, ListHandler

LEMMA AskedInRange ==
  ASSUME NEW service, NEW r, IsRequest(r), ~AnswersItself(service, r)
  PROVE  LET a == Asked(service, r)
         IN  /\ a.limit \in 0 .. MaximumLimit
             /\ a.representation \in {"terse", "full"}
             /\ a.handler \in Handlers
             /\ NeedsIdentifier(a.handler) <=> a.id \in Identifiers
<1> DEFINE path    == Rest(service, r.path)
           handler == Handler(Method(r), path)
<1>1. /\ ~BadQuery(r.query) /\ handler # None
      /\ Method(r) = "POST" => r.body.valid
      /\ NeedsIdentifier(handler) => Identifier(handler, path) \in Identifiers
  BY RefusedIff DEF AnswersItself
<1>2. /\ Single(r.query.limit, 0) \in 0 .. MaximumLimit
      /\ Representation(path_operation(Method(r), path), r.query) \in {"terse", "full"}
  BY <1>1, QueryInRange DEF IsRequest
<1>3. r.method = "POST" => r.body.limit \in 0 .. MaximumLimit
  BY <1>1 DEF IsRequest, Method
<1>4. handler \in Handlers /\ None \notin Identifiers
  BY <1>1, HandlerIsKnown, RouterAssumption DEF RouterAssumption
<1> HIDE DEF handler
<1> QED BY <1>1, <1>2, <1>3, <1>4 DEF Asked, handler
-----------------------------------------------------------------------------
(***************************************************************************)
(* The Agent's paths, taken apart by the router.                           *)
(***************************************************************************)
LEMMA RestOfPath ==
  ASSUME NEW service, service.base \in Path, NEW path \in Path
  PROVE  /\ IsPrefix(service.base, service.base \o path)
         /\ Rest(service, service.base \o path) = path
<1> DEFINE whole == service.base \o path
<1>1. /\ whole \in Path /\ Len(whole) = Len(service.base) + Len(path)
      /\ Len(service.base) \in Nat /\ Len(path) \in Nat
  BY DEF Path
<1>2. \A i \in 1 .. Len(service.base) : whole[i] = service.base[i]
  BY DEF Path
<1>3. \A i \in 1 .. Len(path) : whole[Len(service.base) + i] = path[i]
  BY DEF Path
<1> HIDE DEF whole
<1>4. SubSeq(service.base, 1, Len(service.base)) = SubSeq(whole, 1, Len(service.base))
  BY <1>1, <1>2 DEF Path
<1>5. SubSeq(whole, Len(service.base) + 1, Len(whole)) = path
  <2> DEFINE rest == SubSeq(whole, Len(service.base) + 1, Len(whole))
  <2>1. rest \in Path /\ Len(rest) = Len(path)
    BY <1>1 DEF Path
  <2>2. \A i \in 1 .. Len(path) : rest[i] = whole[Len(service.base) + i]
    BY <1>1 DEF Path
  <2> HIDE DEF rest
  <2>3. rest = path
    BY <1>3, <2>1, <2>2, SeqEqual DEF Path
  <2> QED BY <2>3 DEF rest
<1>6. IsPrefix(service.base, whole)
  BY <1>1, <1>4 DEF IsPrefix
<1>7. Rest(service, whole) = path
  BY <1>5, <1>6 DEF Rest
<1> QED BY <1>6, <1>7 DEF whole

\* Two roots of one path: one of them is below the other.
LEMMA RootsOfOnePath ==
  ASSUME NEW a \in Path, NEW b \in Path, NEW path \in Path, IsPrefix(a, b \o path)
  PROVE  IsPrefix(a, b) \/ IsPrefix(b, a)
<1> DEFINE whole == b \o path
<1>1. /\ whole \in Path /\ Len(whole) = Len(b) + Len(path)
      /\ Len(a) \in Nat /\ Len(b) \in Nat /\ Len(path) \in Nat /\ Len(a) <= Len(whole)
  BY DEF Path, IsPrefix
<1>2. \A i \in 1 .. Len(b) : whole[i] = b[i]
  BY DEF Path
<1> HIDE DEF whole
<1>3. \A i \in 1 .. Len(a) : a[i] = whole[i]
  <2>1. SubSeq(a, 1, Len(a)) = SubSeq(whole, 1, Len(a))
    BY DEF IsPrefix, whole
  <2>2. \A i \in 1 .. Len(a) : SubSeq(a, 1, Len(a))[i] = a[i] /\ SubSeq(whole, 1, Len(a))[i] = whole[i]
    BY <1>1 DEF Path
  <2> QED BY <2>1, <2>2
<1>4. CASE Len(a) <= Len(b)
  <2>1. SubSeq(a, 1, Len(a)) = SubSeq(b, 1, Len(a))
    BY <1>1, <1>2, <1>3, <1>4 DEF Path
  <2> QED BY <1>4, <2>1 DEF IsPrefix
<1>5. CASE Len(b) <= Len(a)
  <2>1. SubSeq(b, 1, Len(b)) = SubSeq(a, 1, Len(b))
    BY <1>1, <1>2, <1>3, <1>5 DEF Path
  <2> QED BY <1>5, <2>1 DEF IsPrefix
<1> QED BY <1>1, <1>4, <1>5

LEMMA ShortSequences ==
  ASSUME NEW S, NEW a \in S, NEW b \in S, NEW d \in S
  PROVE  <<a>> \in Seq(S) /\ <<a, b>> \in Seq(S) /\ <<a, b, d>> \in Seq(S)
OBVIOUS

LEMMA AgentPaths ==
  /\ <<"offerings">> \in Path /\ <<"offerings", "search">> \in Path
  /\ <<"collections">> \in Path /\ <<"collections", "search">> \in Path
  /\ \A id \in Segments : /\ <<"offerings", id>> \in Path /\ <<"collections", id>> \in Path
                         /\ <<"collections", id, "offerings">> \in Path
<1>1. "offerings" \in Segments /\ "collections" \in Segments /\ "search" \in Segments
  BY RouterAssumption DEF RouterAssumption
<1> QED BY <1>1, ShortSequences, Zenon DEF Path

LEMMA OperationPath ==
  ASSUME NEW operation \in Operations, NEW id, TakesIdentifier(operation) => id \in Identifiers
  PROVE  operation_path(operation, id) \in Path
<1>1. \A x \in Identifiers : x \in Segments
  BY RouterAssumption DEF RouterAssumption
<1>2. CASE TakesIdentifier(operation)
  <2>1. operation_path(operation, id) \in
          {<<"offerings", id>>, <<"collections", id>>, <<"collections", id, "offerings">>}
    BY <1>2 DEF operation_path, TakesIdentifier
  <2> QED BY <1>1, <1>2, <2>1, AgentPaths, Zenon
<1>3. CASE ~TakesIdentifier(operation)
  <2>1. operation_path(operation, id) \in
          {<<"offerings">>, <<"collections">>, <<"offerings", "search">>, <<"collections", "search">>}
    BY <1>3 DEF operation_path, TakesIdentifier, Operations
  <2> QED BY <2>1, AgentPaths, Zenon
<1> QED BY <1>2, <1>3

\* Every path the Agent builds is read as what it was built for.
LEMMA RoutedAsCalled ==
  ASSUME NEW c, c.operation \in Operations, ~Misread(c),
         TakesIdentifier(c.operation) => c.id \in Identifiers
  PROVE  LET path    == operation_path(c.operation, c.id)
             method  == IF IsSearch(c.operation) THEN "POST" ELSE "GET"
             handler == Served[c.operation]
         IN  /\ path_operation(method, path) = c.operation
             /\ Handler(method, path) = handler
             /\ NeedsIdentifier(handler) <=> TakesIdentifier(c.operation)
             /\ TakesIdentifier(c.operation) => Identifier(handler, path) = c.id
             /\ method = "GET" => path \notin Reserved
<1> DEFINE path    == operation_path(c.operation, c.id)
           method  == IF IsSearch(c.operation) THEN "POST" ELSE "GET"
           handler == Served[c.operation]
<1>0. /\ path = operation_path(c.operation, c.id)
      /\ method = IF IsSearch(c.operation) THEN "POST" ELSE "GET"
      /\ handler = Served[c.operation]
  OBVIOUS
<1> SUFFICES /\ path_operation(method, path) = c.operation
             /\ Handler(method, path) = handler
             /\ NeedsIdentifier(handler) <=> TakesIdentifier(c.operation)
             /\ TakesIdentifier(c.operation) => Identifier(handler, path) = c.id
             /\ method = "GET" => path \notin Reserved
  OBVIOUS
<1> HIDE DEF path, method, handler
<1>1. CASE c.operation = "list-offerings"
  <2>1. path = <<"offerings">> /\ method = "GET" /\ handler = "list_offerings"
    BY <1>0, <1>1 DEF operation_path, IsSearch, Served, Operations
  <2>2. /\ path \notin Reserved /\ path # <<"collections">>
        /\ ~Under("offerings", path) /\ ~Under("collections", path)
    BY <2>1 DEF Reserved, Under
  <2>3. path_operation(method, path) = c.operation
    BY <1>1, <2>1, <2>2 DEF path_operation
  <2>4. Handler(method, path) = handler
    BY <1>1, <2>1, <2>2 DEF Handler, ListHandler
  <2>7. /\ NeedsIdentifier(handler) <=> TakesIdentifier(c.operation)
        /\ TakesIdentifier(c.operation) => Identifier(handler, path) = c.id
    BY <1>1, <2>1, <2>2 DEF NeedsIdentifier, TakesIdentifier, Identifier
  <2> QED BY <2>1, <2>2, <2>3, <2>4, <2>7
<1>2. CASE c.operation = "list-collections"
  <2>1. path = <<"collections">> /\ method = "GET" /\ handler = "list_collections"
    BY <1>0, <1>2 DEF operation_path, IsSearch, Served, Operations
  <2>2. /\ path \notin Reserved /\ path # <<"offerings">>
        /\ ~Under("offerings", path) /\ ~Under("collections", path)
    BY <2>1 DEF Reserved, Under
  <2>3. path_operation(method, path) = c.operation
    BY <1>2, <2>1, <2>2 DEF path_operation
  <2>4. Handler(method, path) = handler
    BY <1>2, <2>1, <2>2 DEF Handler, ListHandler
  <2>7. /\ NeedsIdentifier(handler) <=> TakesIdentifier(c.operation)
        /\ TakesIdentifier(c.operation) => Identifier(handler, path) = c.id
    BY <1>2, <2>1, <2>2 DEF NeedsIdentifier, TakesIdentifier, Identifier
  <2> QED BY <2>1, <2>2, <2>3, <2>4, <2>7
<1>3. CASE c.operation = "search-offerings"
  <2>1. path = <<"offerings", "search">> /\ method = "POST" /\ handler = "search_offerings"
    BY <1>0, <1>3 DEF operation_path, IsSearch, Served, Operations
  <2>2. path \in Reserved /\ path[1] = "offerings"
    BY <2>1 DEF Reserved
  <2>3. path_operation(method, path) = c.operation
    BY <1>3, <2>1, <2>2 DEF path_operation, SearchOperation
  <2>4. Handler(method, path) = handler
    BY <1>3, <2>1, <2>2 DEF Handler, SearchHandler
  <2>7. /\ NeedsIdentifier(handler) <=> TakesIdentifier(c.operation)
        /\ TakesIdentifier(c.operation) => Identifier(handler, path) = c.id
    BY <1>3, <2>1, <2>2 DEF NeedsIdentifier, TakesIdentifier, Identifier
  <2> QED BY <2>1, <2>2, <2>3, <2>4, <2>7
<1>4. CASE c.operation = "search-collections"
  <2>1. path = <<"collections", "search">> /\ method = "POST" /\ handler = "search_collections"
    BY <1>0, <1>4 DEF operation_path, IsSearch, Served, Operations
  <2>2. path \in Reserved /\ path[1] = "collections"
    BY <2>1 DEF Reserved
  <2>3. path_operation(method, path) = c.operation
    BY <1>4, <2>1, <2>2 DEF path_operation, SearchOperation
  <2>4. Handler(method, path) = handler
    BY <1>4, <2>1, <2>2 DEF Handler, SearchHandler
  <2>7. /\ NeedsIdentifier(handler) <=> TakesIdentifier(c.operation)
        /\ TakesIdentifier(c.operation) => Identifier(handler, path) = c.id
    BY <1>4, <2>1, <2>2 DEF NeedsIdentifier, TakesIdentifier, Identifier
  <2> QED BY <2>1, <2>2, <2>3, <2>4, <2>7
<1>5. CASE c.operation = "get-offering"
  <2>1. path = <<"offerings", c.id>> /\ method = "GET" /\ handler = "get_offering"
    BY <1>0, <1>5 DEF operation_path, IsSearch, Served, Operations
  <2>2. /\ path \notin Reserved /\ path \notin {<<"offerings">>, <<"collections">>}
        /\ Under("offerings", path) /\ ~Under("collections", path)
        /\ Len(path) = 2 /\ path[2] = c.id
    BY <1>5, <2>1 DEF Reserved, Under, Misread
  <2>3. path_operation(method, path) = c.operation
    BY <1>5, <2>1, <2>2 DEF path_operation
  <2>4. Handler(method, path) = handler
    BY <1>5, <2>1, <2>2 DEF Handler
  <2>7. /\ NeedsIdentifier(handler) <=> TakesIdentifier(c.operation)
        /\ TakesIdentifier(c.operation) => Identifier(handler, path) = c.id
    BY <1>5, <2>1, <2>2 DEF NeedsIdentifier, TakesIdentifier, Identifier
  <2> QED BY <2>1, <2>2, <2>3, <2>4, <2>7
<1>6. CASE c.operation = "get-collection"
  <2>1. path = <<"collections", c.id>> /\ method = "GET" /\ handler = "get_collection"
    BY <1>0, <1>6 DEF operation_path, IsSearch, Served, Operations
  <2>2. /\ path \notin Reserved /\ path \notin {<<"offerings">>, <<"collections">>}
        /\ Under("collections", path) /\ ~Under("offerings", path)
        /\ Len(path) = 2 /\ path[2] = c.id
    BY <1>6, <2>1 DEF Reserved, Under, Misread
  <2>5. Last(path) = "offerings" <=> FALSE
    BY <1>6, <2>1, <2>2 DEF Last, Misread
  <2>3. path_operation(method, path) = c.operation
    BY <1>6, <2>1, <2>2, <2>5 DEF path_operation
  <2>4. Handler(method, path) = handler
    BY <1>6, <2>1, <2>2, <2>5 DEF Handler
  <2>7. /\ NeedsIdentifier(handler) <=> TakesIdentifier(c.operation)
        /\ TakesIdentifier(c.operation) => Identifier(handler, path) = c.id
    BY <1>6, <2>1, <2>2 DEF NeedsIdentifier, TakesIdentifier, Identifier
  <2> QED BY <2>1, <2>2, <2>3, <2>4, <2>7
<1>7. CASE c.operation = "list-collection-offerings"
  <2>1. path = <<"collections", c.id, "offerings">> /\ method = "GET" /\ handler = "list_collection_offerings"
    BY <1>0, <1>7 DEF operation_path, IsSearch, Served, Operations
  <2>2. /\ path \notin Reserved /\ path \notin {<<"offerings">>, <<"collections">>}
        /\ Under("collections", path) /\ ~Under("offerings", path)
        /\ Len(path) = 3 /\ path[2] = c.id
    BY <1>7, <2>1 DEF Reserved, Under, Misread
  <2>5. Last(path) = "offerings" <=> TRUE
    BY <1>7, <2>1, <2>2 DEF Last, Misread
  <2>3. path_operation(method, path) = c.operation
    BY <1>7, <2>1, <2>2, <2>5 DEF path_operation
  <2>4. Handler(method, path) = handler
    BY <1>7, <2>1, <2>2, <2>5 DEF Handler
  <2>7. /\ NeedsIdentifier(handler) <=> TakesIdentifier(c.operation)
        /\ TakesIdentifier(c.operation) => Identifier(handler, path) = c.id
    BY <1>7, <2>1, <2>2 DEF NeedsIdentifier, TakesIdentifier, Identifier
  <2> QED BY <2>1, <2>2, <2>3, <2>4, <2>7
<1> QED BY <1>1, <1>2, <1>3, <1>4, <1>5, <1>6, <1>7 DEF Operations
-----------------------------------------------------------------------------
(***************************************************************************)
(* The inductive invariant: every part of the state tells the truth about  *)
(* a deployment, the one that took the request or the one that was read.   *)
(***************************************************************************)
Serves(i) == i \in DOMAIN Deployments /\ Deployable(Deployments[i])

DeployedTrue ==
  /\ Serves(deployed)
  /\ server = 0 \/ Serves(server)
  /\ outcome \in {None, "read", "unreadable", "unsupported", "invalid", "failed"}

\* What is held is named by its entity tag, and leads on to where a client may go.
HeldTrue ==
  held # None =>
    /\ held.etag = entity_tag(held.body, held.language)
    /\ held.selects.accept_language \in Languages
    /\ held.kind # None /\ "next" \in DOMAIN held.body =>
         held.body.next = None \/ held.body.next \in Continuations

\* The document that is known is what the Agent makes of the one it was read from.
KnownTrue ==
  known # None =>
    /\ Serves(known.by)
    /\ known.document = normalize_service_document(ServiceAt(known.by))
    /\ parse_service_document(known.document)

CallTrue ==
  call # None =>
    /\ call.accept_language \in Languages
    /\ IF call.next = None THEN call \in Calls ELSE call.next \in Continuations

SameButConditions(r, other) ==
  /\ r.method = other.method /\ r.path = other.path /\ r.query = other.query /\ r.body = other.body
  /\ r.accept = other.accept /\ r.accept_language = other.accept_language

\* A request of a call asks for the Service Document, or for what the document that
\* is known advertises.
Inspects(r) == r.path = WellKnown /\ accepts_odp(r.accept)

AsksAsAdvertised(r, c) ==
  /\ known # None
  /\ c.operation \in {o.name : o \in known.document.operations}
  /\ TakesIdentifier(c.operation) => c.id \in Identifiers
  /\ SameButConditions(r, OperationRequest(c, known.document.base))

RequestTrue ==
  request # None =>
    /\ IsRequest(request)
    /\ \/ request.if_none_match \subseteq {AnyTag}
       \/ held # None /\ request.if_none_match = {held.etag}
    /\ call # None =>
         /\ request.method # "HEAD" /\ AnyTag \notin request.if_none_match
         /\ call.next = None => Inspects(request) \/ AsksAsAdvertised(request, call)

AskedTrue ==
  asked # None =>
    /\ request # None /\ Serves(server)
    /\ ~AnswersItself(ServiceAt(server), request)
    /\ asked = Asked(ServiceAt(server), request)

ReplyTrue ==
  reply # None =>
    /\ request # None /\ Serves(server)
    /\ \/ /\ reply.answer = None /\ asked = None
          /\ AnswersItself(ServiceAt(server), request)
          /\ reply.response = OwnResponse(ServiceAt(server), request)
       \/ /\ asked # None /\ reply.answer \in CatalogAnswers[asked.handler]
          /\ reply.response = Response(asked, request, reply.answer)

IInv == /\ DeployedTrue /\ HeldTrue /\ KnownTrue /\ CallTrue
        /\ RequestTrue /\ AskedTrue /\ ReplyTrue
-----------------------------------------------------------------------------
(***************************************************************************)
(* What a reply is: a failure, or the representation of what Contents says *)
(* in the language of the deployment that took the request.                *)
(***************************************************************************)
LEMMA AskedIsNoDocument ==
  ASSUME IInv, asked # None
  PROVE  request.path # WellKnown /\ asked.handler \in Handlers
<1>1. /\ IsRequest(request) /\ ~AnswersItself(ServiceAt(server), request)
      /\ asked = Asked(ServiceAt(server), request)
  BY DEF IInv, AskedTrue, RequestTrue
<1>2. asked.handler \in Handlers
  BY <1>1, AskedInRange
<1>3. accepts_odp(request.accept) /\ ~IsDocument(request)
  BY <1>1, RefusedIff DEF AnswersItself
<1> QED BY <1>2, <1>3 DEF IsDocument

LEMMA ReplyIs ==
  ASSUME IInv, reply # None
  PROVE  \/ reply.response.status \in Failures
         \/ /\ Answers(reply.response, request, Contents(reply.answer),
                       select_language(ServiceAt(server), request.accept_language))
            /\ \/ reply.answer = None /\ request.path = WellKnown
               \/ /\ reply.answer # None /\ request.path # WellKnown
                  /\ asked # None /\ reply.answer \in CatalogAnswers[asked.handler]
                  /\ Holds(asked, request, reply.answer)
<1>1. CASE /\ reply.answer = None
           /\ AnswersItself(ServiceAt(server), request)
           /\ reply.response = OwnResponse(ServiceAt(server), request)
  <2>1. Contents(reply.answer) = ServiceAt(server)
    BY <1>1 DEF Contents
  <2> QED BY <1>1, <2>1, OwnAnswer
<1>2. CASE /\ asked # None /\ reply.answer \in CatalogAnswers[asked.handler]
           /\ reply.response = Response(asked, request, reply.answer)
  <2>1. /\ asked.handler \in Handlers /\ request.path # WellKnown
        /\ asked.language = select_language(ServiceAt(server), request.accept_language)
    BY <1>2, AskedIsNoDocument DEF IInv, AskedTrue, Asked
  <2>2. reply.answer # None
    BY <1>2, <2>1, AnswersAssumption DEF AnswersAssumption
  <2>3. Contents(reply.answer) = Content(reply.answer)
    BY <2>2 DEF Contents, Content
  <2> QED BY <1>2, <2>1, <2>2, <2>3, CatalogAnswer
<1> QED BY <1>1, <1>2 DEF IInv, ReplyTrue

LEMMA HeldIsCurrent ==
  ASSUME IInv, reply # None, reply.response.status \in {304, 412},
         AnyTag \notin request.if_none_match
  PROVE  /\ held # None /\ held.body = Contents(reply.answer)
         /\ held.language = select_language(ServiceAt(server), request.accept_language)
         /\ request.path = WellKnown => reply.answer = None
<1> DEFINE language == select_language(ServiceAt(server), request.accept_language)
           tag      == entity_tag(Contents(reply.answer), language)
<1>1. /\ Answers(reply.response, request, Contents(reply.answer), language)
      /\ request.path = WellKnown => reply.answer = None
  BY ReplyIs DEF Failures
<1>2. tag \in request.if_none_match
  BY <1>1, RepresentedAnswer DEF Answers
<1>3. held # None /\ request.if_none_match = {held.etag}
  BY <1>2 DEF IInv, ReplyTrue, RequestTrue
<1>4. entity_tag(held.body, held.language) = tag
  BY <1>2, <1>3 DEF IInv, HeldTrue
<1>5. held.body = Contents(reply.answer) /\ held.language = language
  BY <1>4 DEF entity_tag
<1> QED BY <1>1, <1>3, <1>5

LEMMA NewlyHeldIsTrue ==
  ASSUME IInv, reply # None, reply.response.status = 200, call # None,
         NEW kind, kind = None \/ request.path # WellKnown, Keep(kind)
  PROVE  HeldTrue'
<1>1. CASE request.method # "GET"
  BY <1>1 DEF IInv, HeldTrue, Keep
<1>2. CASE request.method = "GET"
  <2> DEFINE language == select_language(ServiceAt(server), request.accept_language)
             body     == Contents(reply.answer)
  <2>1. held' = [selects |-> Selects(request), etag |-> reply.response.etag, kind |-> kind,
                 body |-> reply.response.body, language |-> reply.response.language]
    BY <1>2 DEF Keep
  <2>2. /\ Answers(reply.response, request, body, language)
        /\ \/ request.path = WellKnown
           \/ /\ reply.answer # None /\ asked # None
              /\ reply.answer \in CatalogAnswers[asked.handler]
              /\ Holds(asked, request, reply.answer)
    BY ReplyIs DEF Failures
  <2>3. /\ reply.response.etag = entity_tag(body, language)
        /\ reply.response.language = language /\ reply.response.body = body
    BY <1>2, <2>2, RepresentedAnswer DEF Answers
  <2>4. request.accept_language \in Languages
    BY DEF IInv, ReplyTrue, RequestTrue, IsRequest
  <2>5. ASSUME kind # None, "next" \in DOMAIN body
        PROVE  body.next = None \/ body.next \in Continuations
    <3>1. /\ reply.answer # None /\ asked # None
          /\ reply.answer \in CatalogAnswers[asked.handler]
          /\ Holds(asked, request, reply.answer)
          /\ asked.handler \in Handlers
      BY <2>2, <2>5, AskedIsNoDocument
    <3>2. /\ reply.answer.kind = "resource" => "next" \notin DOMAIN reply.answer.item
          /\ reply.answer.kind = "page" =>
               reply.answer.page.next = None \/ reply.answer.page.next \in Continuations
      BY <3>1, AnswersAssumption DEF AnswersAssumption
    <3>3. CASE reply.answer.kind = "page"
      BY <3>1, <3>2, <3>3 DEF Contents
    <3>4. CASE reply.answer.kind = "resource"
      BY <2>5, <3>1, <3>2, <3>4 DEF Contents
    <3> QED BY <3>1, <3>3, <3>4 DEF Holds
  <2> HIDE DEF body, language
  <2> QED BY <2>1, <2>3, <2>4, <2>5 DEF HeldTrue, Selects
<1> QED BY <1>1, <1>2
-----------------------------------------------------------------------------
(***************************************************************************)
(* The invariant is inductive.                                             *)
(***************************************************************************)
LEMMA TagsAreNamed == \A body, language : entity_tag(body, language) # AnyTag
<1>1. \A body, language : "body" \in DOMAIN entity_tag(body, language)
  BY DEF entity_tag
<1>2. "body" \notin DOMAIN AnyTag
  BY DEF AnyTag
<1> QED BY <1>1, <1>2

LEMMA BeforeAnyRequest ==
  ASSUME IInv, request = None
  PROVE  asked = None /\ reply = None
BY DEF IInv, AskedTrue, ReplyTrue

LEMMA RequestSent ==
  ASSUME IInv, request = None, NEW r, Send(r), IsRequest(r),
         \/ r.if_none_match \subseteq {AnyTag}
         \/ held # None /\ r.if_none_match = {held.etag},
         call # None => /\ r.method # "HEAD" /\ AnyTag \notin r.if_none_match
                        /\ call.next = None => Inspects(r) \/ AsksAsAdvertised(r, call)
  PROVE  IInv'
<1>1. asked = None /\ reply = None
  BY BeforeAnyRequest
<1>2. DeployedTrue' /\ HeldTrue' /\ KnownTrue' /\ CallTrue'
  BY DEF Send, IInv, DeployedTrue, HeldTrue, KnownTrue, CallTrue
<1>3. RequestTrue'
  BY DEF Send, RequestTrue, AsksAsAdvertised
<1>4. AskedTrue' /\ ReplyTrue'
  BY <1>1 DEF Send, AskedTrue, ReplyTrue
<1> QED BY <1>2, <1>3, <1>4 DEF IInv

\* What the Agent sends, with the condition that request_cached adds.
LEMMA AgentSends ==
  ASSUME IInv, request = None, call # None,
         NEW method \in {"GET", "POST"}, NEW path \in Path, NEW query \in Queries, NEW body,
         body.valid => body.limit \in 0 .. MaximumLimit,
         LET r == AgentRequest(method, path, query, body, call.accept_language)
         IN  /\ Send(Conditional(r))
             /\ call.next = None =>
                  r.path = WellKnown \/ /\ known # None
                                        /\ call.operation \in {o.name : o \in known.document.operations}
                                        /\ TakesIdentifier(call.operation) => call.id \in Identifiers
                                        /\ r = OperationRequest(call, known.document.base)
  PROVE  IInv'
<1> DEFINE r    == AgentRequest(method, path, query, body, call.accept_language)
           sent == Conditional(r)
<1>1. /\ r.method = method /\ r.path = path /\ r.query = query /\ r.body = body
      /\ r.accept_language = call.accept_language /\ r.if_none_match = {}
      /\ r.accept = <<[range |-> "odp", weight |-> 2]>>
      /\ "if_none_match" \in DOMAIN r
  BY DEF AgentRequest
<1>2. accepts_odp(r.accept)
  BY <1>1 DEF accepts_odp, Specificity
<1>3. call.accept_language \in Languages
  BY DEF IInv, CallTrue
<1> HIDE DEF r
<1>4. /\ SameButConditions(sent, r)
      /\ \/ sent.if_none_match = {}
         \/ held # None /\ sent.if_none_match = {held.etag}
  BY <1>1 DEF Conditional, SameButConditions
<1>5. held # None => held.etag # AnyTag
  BY TagsAreNamed DEF IInv, HeldTrue
<1> HIDE DEF sent
<1>6. IsRequest(sent)
  BY <1>1, <1>3, <1>4 DEF IsRequest, SameButConditions
<1>7. call.next = None => Inspects(sent) \/ AsksAsAdvertised(sent, call)
  BY <1>2, <1>4 DEF Inspects, AsksAsAdvertised, SameButConditions, r
<1>8. sent.method # "HEAD"
  BY <1>1, <1>4 DEF SameButConditions
<1> QED BY <1>4, <1>5, <1>6, <1>7, <1>8, RequestSent DEF sent, r

LEMMA CallEnded ==
  ASSUME IInv, deployed' = deployed, KnownTrue', HeldTrue',
         NEW result \in {None, "read", "unreadable", "unsupported", "invalid", "failed"},
         EndCall(result)
  PROVE  IInv'
BY DEF EndCall, IInv, DeployedTrue, CallTrue, RequestTrue, AskedTrue, ReplyTrue, Serves

LEMMA DocumentRead ==
  ASSUME IInv, reply # None, call # None, request.path = WellKnown, reply.answer = None,
         deployed' = deployed, HeldTrue', Inspected(ServiceAt(server))
  PROVE  IInv'
<1> DEFINE read == normalize_service_document(ServiceAt(server))
<1>1. Serves(server) /\ asked = None
  BY AskedIsNoDocument DEF IInv, ReplyTrue
<1>2. CASE parse_service_document(read)
  <2>1. /\ known' = [document |-> read, by |-> server]
        /\ request' = None /\ server' = 0 /\ reply' = None
        /\ UNCHANGED <<call, asked, outcome>>
    BY <1>2 DEF Inspected
  <2>2. KnownTrue'
    BY <1>1, <1>2, <2>1 DEF KnownTrue, Serves, ServiceAt
  <2> QED BY <1>1, <2>1, <2>2
       DEF IInv, DeployedTrue, CallTrue, RequestTrue, AskedTrue, ReplyTrue, Serves
<1>3. CASE ~parse_service_document(read)
  <2>1. EndCall("unreadable") /\ UNCHANGED known
    BY <1>3 DEF Inspected
  <2>2. KnownTrue'
    BY <2>1 DEF IInv, KnownTrue, Serves, ServiceAt
  <2> QED BY <2>1, <2>2, CallEnded
<1> QED BY <1>2, <1>3

LEMMA DocumentMembersKept ==
  ASSUME NEW i, Serves(i)
  PROVE  LET service == ServiceAt(i)
             read    == normalize_service_document(service)
         IN  /\ service.base \in Path
             /\ read.base = service.base
             /\ {o.name : o \in read.operations} \subseteq {o.name : o \in service.operations}
             /\ service.language \in service.localizations
             /\ service.localizations \in SUBSET Seq(STRING)
             /\ IsFiniteSet(service.localizations)
             /\ \A tag \in service.localizations : tag # <<>> /\ Last(tag) # "x"
<1> DEFINE document == Deployments[i].document
           service  == ServiceAt(i)
           read     == normalize_service_document(service)
<1>1. /\ DOMAIN document = DocumentMembers
      /\ document.base \in Path
      /\ document.localizations \in SUBSET Seq(STRING)
      /\ IsFiniteSet(document.localizations)
      /\ \A tag \in document.localizations : tag # <<>> /\ Last(tag) # "x"
  BY DeploymentsAssumption DEF DeploymentsAssumption, Serves
<1>2. /\ DOMAIN service = DocumentMembers
      /\ service.base = document.base /\ service.localizations = document.localizations
  BY <1>1 DEF ServiceAt, ServiceDocument, DocumentMembers
<1>3. service.language \in service.localizations
  BY DEF Serves, Deployable, parse_service_document, service_document_issues, ServiceAt
<1> HIDE DEF document, service
<1>4. read.base = service.base /\ read.operations = ReadOperations(service.operations)
  BY <1>2 DEF normalize_service_document, DocumentMembers
<1>5. ReadOperations(service.operations) \subseteq service.operations
  BY DEF ReadOperations, KnownAuthentication, Named
<1> QED BY <1>1, <1>2, <1>3, <1>4, <1>5 DEF service

LEMMA NoQueryIsQuery == NoQuery \in Queries
BY DEF NoQuery, Queries

\* How the request of a call is put together.
MadeOf(c, base, query, body) ==
  /\ OperationRequest(c, base) =
       AgentRequest(IF IsSearch(c.operation) THEN "POST" ELSE "GET",
                    base \o operation_path(c.operation, c.id), query, body, c.accept_language)
  /\ query.representation = <<c.representation>> /\ query.cursor = <<>>
  /\ query.limit = IF c.limit = 0 \/ IsSearch(c.operation) THEN <<>> ELSE <<c.limit>>
  /\ body.size = "small" /\ body.type = "odp"
  /\ body.limit = IF IsSearch(c.operation) THEN c.limit ELSE 0
  /\ body.valid <=> ~IsSearch(c.operation) \/ c.limit <= MaximumLimit

LEMMA OperationRequestForm ==
  ASSUME NEW c \in Calls, NEW base
  PROVE  \E query, body : query \in Queries /\ MadeOf(c, base, query, body)
<1> DEFINE limit == IF c.limit = 0 \/ IsSearch(c.operation) THEN <<>> ELSE <<c.limit>>
           named == <<c.representation>>
           query == [NoQuery EXCEPT !.representation = named, !.limit = limit]
           body  == IF IsSearch(c.operation)
                    THEN [NoBody EXCEPT !.limit = c.limit, !.valid = c.limit <= MaximumLimit]
                    ELSE NoBody
<1>1. c.representation \in STRING /\ c.limit \in Nat
  BY CallsAssumption DEF CallsAssumption
<1>2. <<c.representation>> \in Seq(STRING) /\ <<c.limit>> \in Seq(Nat)
  BY <1>1, ShortSequences, Zenon
<1>3. query.representation = named /\ query.limit = limit /\ query.cursor = <<>>
  BY DEF NoQuery
<1>4. <<>> \in Seq(Nat) /\ <<>> \in Seq(STRING)
  OBVIOUS
<1>5. /\ body.size = "small" /\ body.type = "odp"
      /\ body.limit = IF IsSearch(c.operation) THEN c.limit ELSE 0
      /\ body.valid <=> ~IsSearch(c.operation) \/ c.limit <= MaximumLimit
  BY <1>1 DEF NoBody
<1>6. OperationRequest(c, base) =
        AgentRequest(IF IsSearch(c.operation) THEN "POST" ELSE "GET",
                     base \o operation_path(c.operation, c.id), query, body, c.accept_language)
  BY DEF OperationRequest
<1>7. query \in Queries
  <2>1. named \in Seq(STRING) /\ limit \in Seq(Nat)
    BY <1>2, <1>4
  <2> HIDE DEF named, limit
  <2> QED BY <2>1, NoQueryIsQuery DEF Queries
<1> HIDE DEF query, body
<1> QED BY <1>3, <1>5, <1>6, <1>7 DEF MadeOf

\* A document that comes to a call is that of the deployment that took the request.
LEMMA DocumentDelivered ==
  ASSUME IInv, call # None, reply # None, reply.response.status = 200,
         request.path = WellKnown
  PROVE  reply.response.body = ServiceAt(server) /\ reply.answer = None
<1>1. /\ Answers(reply.response, request, Contents(reply.answer),
                 select_language(ServiceAt(server), request.accept_language))
      /\ reply.answer = None
  BY ReplyIs DEF Failures
<1>2. request.method # "HEAD"
  BY DEF IInv, ReplyTrue, RequestTrue
<1> QED BY <1>1, <1>2, RepresentedAnswer DEF Answers, Contents

LEMMA AgentAsks ==
  ASSUME IInv, Ask, ~Unadvertised(call.operation),
         TakesIdentifier(call.operation) => call.id \in Identifiers
  PROVE  IInv'
<1> DEFINE base == known.document.base
<1>1. /\ call # None /\ call.next = None /\ known # None /\ request = None
      /\ Send(Conditional(OperationRequest(call, base)))
  BY DEF Ask
<1>2. call \in Calls /\ call.operation \in Operations /\ call.limit \in Nat
  BY <1>1, CallsAssumption DEF IInv, CallTrue, CallsAssumption
<1>3. PICK query, body : query \in Queries /\ MadeOf(call, base, query, body)
  BY <1>2, OperationRequestForm
<1>4. body.valid => body.limit \in 0 .. MaximumLimit
  BY <1>2, <1>3, RouterAssumption DEF RouterAssumption, MadeOf
<1>5. base \o operation_path(call.operation, call.id) \in Path
  <2>1. base \in Path
    BY <1>1, DocumentMembersKept DEF IInv, KnownTrue
  <2>2. operation_path(call.operation, call.id) \in Path
    BY <1>2, OperationPath
  <2> QED BY <2>1, <2>2, ConcatProperties DEF Path
<1>6. call.operation \in {o.name : o \in known.document.operations}
  BY DEF Unadvertised
<1> DEFINE method == IF IsSearch(call.operation) THEN "POST" ELSE "GET"
           path   == base \o operation_path(call.operation, call.id)
<1>7. method \in {"GET", "POST"}
  OBVIOUS
<1> HIDE DEF method, path, base
<1> QED BY <1>1, <1>3, <1>4, <1>5, <1>6, <1>7, AgentSends DEF MadeOf, method, path, base

LEMMA InitIInv == Init => IInv
BY DeploymentsAssumption DEF DeploymentsAssumption, Init, IInv, DeployedTrue, HeldTrue, KnownTrue,
   CallTrue, RequestTrue, AskedTrue, ReplyTrue, Serves

LEMMA NextIInv == IInv /\ [Next]_vars => IInv'
<1> SUFFICES ASSUME IInv, [Next]_vars PROVE IInv'
  OBVIOUS
<1>1. CASE Redeploy
  BY <1>1 DEF Redeploy, IInv, DeployedTrue, HeldTrue, KnownTrue, CallTrue, RequestTrue, AskedTrue,
              ReplyTrue, Serves, ServiceAt, AsksAsAdvertised
<1>2. CASE Forget
  BY <1>2, BeforeAnyRequest DEF Forget, Idle, IInv, DeployedTrue, HeldTrue, KnownTrue, CallTrue,
              RequestTrue, AskedTrue, ReplyTrue, Serves
<1>3. CASE Begin
  <2>1. \A c \in Calls : c.accept_language \in Languages /\ c.next = None
    BY CallsAssumption DEF CallsAssumption
  <2>2. CallTrue'
    BY <1>3, <2>1 DEF Begin, CallTrue
  <2> QED BY <1>3, <2>2, BeforeAnyRequest DEF Begin, Idle, IInv, DeployedTrue, HeldTrue, KnownTrue,
              RequestTrue, AskedTrue, ReplyTrue, Serves, ServiceAt
<1>4. CASE BeginContinue
  <2>1. CallTrue'
    BY <1>4 DEF BeginContinue, CallTrue, IInv, HeldTrue
  <2> QED BY <1>4, <2>1, BeforeAnyRequest DEF BeginContinue, Idle, IInv, DeployedTrue, HeldTrue,
              KnownTrue, RequestTrue, AskedTrue, ReplyTrue, Serves, ServiceAt
<1>5. CASE Continue
  <2>1. /\ call # None /\ call.next # None /\ request = None
        /\ call.next.path \in Path /\ call.next.query \in Queries
    BY <1>5 DEF Continue, IInv, CallTrue, Continuations
  <2>2. CASE call.next.origin = "away"
    BY <1>5, <2>2, CallEnded DEF Continue, IInv, KnownTrue, HeldTrue, Serves, ServiceAt
  <2>3. CASE call.next.origin # "away"
    <3>1. NoBody.valid => NoBody.limit \in 0 .. MaximumLimit
      BY RouterAssumption DEF NoBody, RouterAssumption
    <3>2. Send(Conditional(AgentRequest("GET", call.next.path, call.next.query, NoBody,
                                        call.accept_language)))
      BY <1>5, <2>3 DEF Continue
    <3> QED BY <2>1, <3>1, <3>2, AgentSends
  <2> QED BY <2>2, <2>3
<1>6. CASE Inspect
  <2>1. NoBody.valid => NoBody.limit \in 0 .. MaximumLimit
    BY RouterAssumption DEF NoBody, RouterAssumption
  <2>2. WellKnown \in Path
    <3>1. ".well-known" \in Segments /\ "odp" \in Segments
      BY RouterAssumption DEF RouterAssumption
    <3> QED BY <3>1, ShortSequences, Zenon DEF WellKnown, Path
  <2>3. AgentRequest("GET", WellKnown, NoQuery, NoBody, call.accept_language).path = WellKnown
    BY DEF AgentRequest
  <2> QED BY <1>6, <2>1, <2>2, <2>3, NoQueryIsQuery, AgentSends DEF Inspect
<1>7. CASE Ask
  <2>1. CASE Unadvertised(call.operation)
    BY <1>7, <2>1, CallEnded DEF Ask, IInv, KnownTrue, HeldTrue, Serves, ServiceAt
  <2>2. CASE /\ ~Unadvertised(call.operation)
             /\ TakesIdentifier(call.operation) /\ call.id \notin Identifiers
    BY <1>7, <2>2, CallEnded DEF Ask, IInv, KnownTrue, HeldTrue, Serves, ServiceAt
  <2>3. CASE /\ ~Unadvertised(call.operation)
             /\ TakesIdentifier(call.operation) => call.id \in Identifiers
    BY <1>7, <2>3, AgentAsks
  <2> QED BY <2>1, <2>2, <2>3
<1>8. CASE Probe
  <2>1. PICK r \in Probes : \/ Send(r)
                            \/ held # None /\ Send([r EXCEPT !.if_none_match = {held.etag}])
    BY <1>8 DEF Probe
  <2>2. /\ call = None /\ request = None
    BY <1>8 DEF Probe, Idle
  <2>3. /\ IsRequest(r) /\ r.if_none_match \subseteq {AnyTag}
        /\ r \in [method : {"GET", "HEAD", "POST", "PUT"}, path : Path, query : Queries, body : Bodies,
                  accept : Media, accept_language : Languages, if_none_match : SUBSET {AnyTag}]
    BY ProbesAssumption, RouterAssumption DEF ProbesAssumption, RouterAssumption, IsRequest, Bodies
  <2>4. CASE Send(r)
    BY <2>2, <2>3, <2>4, RequestSent
  <2>5. CASE held # None /\ Send([r EXCEPT !.if_none_match = {held.etag}])
    <3> DEFINE sent == [r EXCEPT !.if_none_match = {held.etag}]
    <3>1. IsRequest(sent) /\ sent.if_none_match = {held.etag}
      BY <2>3 DEF IsRequest
    <3> HIDE DEF sent
    <3> QED BY <2>2, <2>5, <3>1, RequestSent DEF sent
  <2> QED BY <2>1, <2>4, <2>5
<1>9. CASE TransportFails
  BY <1>9, CallEnded DEF TransportFails, IInv, DeployedTrue, KnownTrue, HeldTrue, Serves, ServiceAt
<1>10. CASE Answer
  BY <1>10 DEF Answer, IInv, DeployedTrue, HeldTrue, KnownTrue, CallTrue, RequestTrue, AskedTrue,
               ReplyTrue, Serves, ServiceAt, AsksAsAdvertised
<1>11. CASE AskCatalog
  BY <1>11 DEF AskCatalog, IInv, DeployedTrue, HeldTrue, KnownTrue, CallTrue, RequestTrue, AskedTrue,
               ReplyTrue, Serves, ServiceAt, AsksAsAdvertised
<1>12. CASE CatalogReturns
  BY <1>12 DEF CatalogReturns, IInv, DeployedTrue, HeldTrue, KnownTrue, CallTrue, RequestTrue,
               AskedTrue, ReplyTrue, Serves, ServiceAt, AsksAsAdvertised
<1>13. CASE ReceiveProbe
  BY <1>13, CallEnded DEF ReceiveProbe, IInv, DeployedTrue, KnownTrue, HeldTrue, Serves, ServiceAt
<1>14. CASE ReceiveFailure
  BY <1>14, CallEnded DEF ReceiveFailure, IInv, KnownTrue, HeldTrue, Serves, ServiceAt
<1>15. CASE ReceiveDocument
  <2>1. /\ call # None /\ reply # None /\ reply.response.status = 200 /\ request.path = WellKnown
        /\ Inspected(reply.response.body) /\ deployed' = deployed
    BY <1>15 DEF ReceiveDocument
  <2>2. HeldTrue'
    <3>1. CASE Keep(None)
      BY <2>1, <3>1, NewlyHeldIsTrue
    <3>2. CASE UNCHANGED held
      BY <3>2 DEF IInv, HeldTrue
    <3> QED BY <1>15, <3>1, <3>2 DEF ReceiveDocument
  <2>3. reply.response.body = ServiceAt(server) /\ reply.answer = None
    BY <2>1, DocumentDelivered
  <2> QED BY <2>1, <2>2, <2>3, DocumentRead
<1>16. CASE ReceiveResource
  <2> DEFINE readable == Readable(Kind(call.operation), reply.response.body)
  <2>1. /\ call # None /\ reply # None /\ reply.response.status = 200 /\ request.path # WellKnown
        /\ EndCall(IF readable THEN "read" ELSE "unreadable")
        /\ IF readable THEN Keep(Kind(call.operation)) ELSE UNCHANGED held
        /\ UNCHANGED <<deployed, known>>
    BY <1>16 DEF ReceiveResource
  <2>2. HeldTrue'
    <3>1. CASE readable
      BY <2>1, <3>1, NewlyHeldIsTrue
    <3>2. CASE ~readable
      BY <2>1, <3>2 DEF IInv, HeldTrue
    <3> QED BY <3>1, <3>2
  <2>3. KnownTrue'
    BY <2>1 DEF IInv, KnownTrue, Serves, ServiceAt
  <2> QED BY <2>1, <2>2, <2>3, CallEnded
<1>17. CASE ReceiveNotModified
  <2>1. /\ call # None /\ reply # None /\ reply.response.status = 304
        /\ IF request.path = WellKnown THEN Inspected(held.body)
           ELSE EndCall("read") /\ UNCHANGED known
        /\ UNCHANGED <<deployed, held>>
    BY <1>17 DEF ReceiveNotModified
  <2>2. HeldTrue'
    BY <2>1 DEF IInv, HeldTrue
  <2>3. CASE request.path = WellKnown
    <3>1. AnyTag \notin request.if_none_match
      BY <2>1 DEF IInv, ReplyTrue, RequestTrue
    <3>2. held.body = ServiceAt(server) /\ reply.answer = None
      BY <2>1, <2>3, <3>1, HeldIsCurrent DEF Contents
    <3> QED BY <2>1, <2>2, <2>3, <3>2, DocumentRead
  <2>4. CASE request.path # WellKnown
    BY <2>1, <2>2, <2>4, CallEnded DEF IInv, KnownTrue, Serves, ServiceAt
  <2> QED BY <2>3, <2>4
<1>18. CASE UNCHANGED vars
  BY <1>18 DEF vars, IInv, DeployedTrue, HeldTrue, KnownTrue, CallTrue, RequestTrue, AskedTrue,
               ReplyTrue, Serves, ServiceAt, AsksAsAdvertised
<1> QED BY <1>1, <1>2, <1>3, <1>4, <1>5, <1>6, <1>7, <1>8, <1>9, <1>10, <1>11, <1>12, <1>13,
           <1>14, <1>15, <1>16, <1>17, <1>18 DEF Next

\* What Agent, Service and requests in flight hold (service.rs:460-557, client.rs:507-560)
\* is true of some deployment in every reachable state; the properties below follow.
THEOREM Inductive == Spec => []IInv
BY InitIInv, NextIInv, PTL DEF Spec
-----------------------------------------------------------------------------
(***************************************************************************)
(* What the variables hold, and what "not modified" says.                  *)
(***************************************************************************)
LEMMA IInvTypeOK == IInv => TypeOK
<1> SUFFICES ASSUME IInv PROVE TypeOK
  OBVIOUS
<1>1. /\ deployed \in DOMAIN Deployments /\ Deployable(Deployments[deployed])
      /\ server \in {0} \cup DOMAIN Deployments
      /\ outcome \in {None, "read", "unreadable", "unsupported", "invalid", "failed"}
  BY DEF IInv, DeployedTrue, Serves
<1>2. known # None => known.by \in DOMAIN Deployments /\ parse_service_document(known.document)
  BY DEF IInv, KnownTrue, Serves
<1>3. request # None => request.method \in {"GET", "HEAD", "POST", "PUT"}
  BY DEF IInv, RequestTrue, IsRequest
<1>4. ASSUME asked # None
      PROVE  /\ asked.limit \in 0 .. MaximumLimit
             /\ asked.representation \in {"terse", "full"}
             /\ asked.handler \in DOMAIN CatalogAnswers
             /\ NeedsIdentifier(asked.handler) <=> asked.id \in Identifiers
  <2>1. /\ IsRequest(request) /\ ~AnswersItself(ServiceAt(server), request)
        /\ asked = Asked(ServiceAt(server), request)
    BY <1>4 DEF IInv, AskedTrue, RequestTrue
  <2>2. DOMAIN CatalogAnswers = Handlers
    BY AnswersAssumption DEF AnswersAssumption
  <2> QED BY <2>1, <2>2, AskedInRange
<1>5. reply # None => reply.response.status \in {200, 304} \cup 400 .. 599
  BY ReplyIs, RepresentedAnswer DEF Answers, Failures
<1> QED BY <1>1, <1>2, <1>3, <1>4, <1>5 DEF TypeOK

(***************************************************************************)
(* A Service that may be configured serves, and its Catalog is only asked  *)
(* what catalog_request and the router let through (service.rs:460-780): a *)
(* limit and a representation that are defined, an identifier where the    *)
(* operation takes one, and for one of its nine operations.                *)
(***************************************************************************)
THEOREM ServiceTypeCorrect == Spec => []TypeOK
BY Inductive, IInvTypeOK, PTL

(***************************************************************************)
(* handle (service.rs:439-450, 1105-1142) says 304 or 412 of an entity tag *)
(* the Agent holds only when what it would serve now is what is held, in   *)
(* the same language, however often the Service was redeployed since.      *)
(***************************************************************************)
THEOREM NothingStaleIsConfirmed == Spec => []NotModifiedIsCurrent
<1>1. IInv => NotModifiedIsCurrent
  BY HeldIsCurrent DEF NotModifiedIsCurrent
<1> QED BY <1>1, Inductive, PTL
-----------------------------------------------------------------------------
(***************************************************************************)
(* Calls: what the Agent asks for and how the Service takes it.            *)
(***************************************************************************)
LEMMA CallsAreOfOperations == \A c \in Calls : c.operation \in Operations
BY CallsAssumption DEF CallsAssumption

\* The request of a call that is not for the Service Document.
LEMMA OperationRequested ==
  ASSUME IInv, request # None, call # None, call.next = None, ~Inspects(request)
  PROVE  LET read == ServiceAt(known.by)
             path == operation_path(call.operation, call.id)
             searches == IsSearch(call.operation)
         IN  /\ call \in Calls /\ Serves(known.by)
             /\ call.operation \in {o.name : o \in read.operations}
             /\ TakesIdentifier(call.operation) => call.id \in Identifiers
             /\ path \in Path /\ request.path = read.base \o path
             /\ request.method = IF searches THEN "POST" ELSE "GET"
             /\ request.accept = <<[range |-> "odp", weight |-> 2]>>
             /\ request.query \in Queries
             /\ request.query.representation = <<call.representation>>
             /\ request.query.limit = IF call.limit = 0 \/ searches THEN <<>> ELSE <<call.limit>>
             /\ request.query.cursor = <<>>
             /\ request.body.size = "small" /\ request.body.type = "odp"
             /\ searches => request.body.limit = call.limit
             /\ request.body.valid <=> ~searches \/ call.limit <= MaximumLimit
<1> DEFINE base == known.document.base
           path == operation_path(call.operation, call.id)
           searches == IsSearch(call.operation)
<1>0. call \in Calls
  BY DEF IInv, CallTrue
<1>1. AsksAsAdvertised(request, call)
  BY DEF IInv, RequestTrue
<1>2. /\ known # None /\ call.operation \in {o.name : o \in known.document.operations}
      /\ TakesIdentifier(call.operation) => call.id \in Identifiers
      /\ SameButConditions(request, OperationRequest(call, base))
  BY <1>1 DEF AsksAsAdvertised
<1>3. /\ Serves(known.by) /\ base = ServiceAt(known.by).base
      /\ call.operation \in {o.name : o \in ServiceAt(known.by).operations}
  BY <1>2, DocumentMembersKept DEF IInv, KnownTrue
<1>4. PICK query, body : query \in Queries /\ MadeOf(call, base, query, body)
  BY <1>0, OperationRequestForm
<1>5. call.operation \in Operations
  BY <1>0, CallsAreOfOperations
<1>6. path \in Path
  BY <1>2, <1>5, OperationPath
<1> HIDE DEF base, path, searches
<1>7. /\ request.method = (IF searches THEN "POST" ELSE "GET")
      /\ request.path = base \o path /\ request.query = query /\ request.body = body
      /\ request.accept = <<[range |-> "odp", weight |-> 2]>>
  BY <1>2, <1>4 DEF SameButConditions, AgentRequest, MadeOf, path, searches
<1> QED BY <1>0, <1>2, <1>3, <1>4, <1>6, <1>7 DEF MadeOf, base, path, searches

\* What such a request says to whoever takes it below the base it was built for.
LEMMA TakenAsCalled ==
  ASSUME IInv, request # None, call # None, call.next = None, ~Inspects(request),
         ~Misread(call), NEW i, Serves(i), ServiceAt(i).base = ServiceAt(known.by).base
  PROVE  LET service == ServiceAt(i)
             path    == Rest(service, request.path)
             handler == Served[call.operation]
         IN  /\ IsPrefix(service.base, request.path)
             /\ Method(request) = IF IsSearch(call.operation) THEN "POST" ELSE "GET"
             /\ path_operation(Method(request), path) = call.operation
             /\ Handler(Method(request), path) = handler /\ handler \in Handlers
             /\ NeedsIdentifier(handler) <=> TakesIdentifier(call.operation)
             /\ NeedsIdentifier(handler) => Identifier(handler, path) = call.id
             /\ Method(request) = "GET" => path \notin Reserved
<1> DEFINE service == ServiceAt(i)
           path    == operation_path(call.operation, call.id)
           handler == Served[call.operation]
           method  == IF IsSearch(call.operation) THEN "POST" ELSE "GET"
<1>1. /\ TakesIdentifier(call.operation) => call.id \in Identifiers
      /\ path \in Path /\ request.path = service.base \o path /\ request.method = method
  BY OperationRequested
<1>0. call \in Calls
  BY DEF IInv, CallTrue
<1>2. call.operation \in Operations
  BY <1>0, CallsAreOfOperations
<1>3. IsPrefix(service.base, request.path) /\ Rest(service, request.path) = path
  BY <1>1, DocumentMembersKept, RestOfPath
<1>4. Method(request) = method
  BY <1>1 DEF Method
<1>5. /\ path_operation(method, path) = call.operation
      /\ Handler(method, path) = handler
      /\ NeedsIdentifier(handler) <=> TakesIdentifier(call.operation)
      /\ TakesIdentifier(call.operation) => Identifier(handler, path) = call.id
      /\ method = "GET" => path \notin Reserved
  BY <1>1, <1>2, RoutedAsCalled
<1>6. handler \in Handlers
  BY <1>2 DEF Served, Operations, Handlers
<1> HIDE DEF service, path, handler, method
<1>7. /\ IsPrefix(service.base, request.path)
      /\ Method(request) = method
      /\ path_operation(Method(request), Rest(service, request.path)) = call.operation
      /\ Handler(Method(request), Rest(service, request.path)) = handler /\ handler \in Handlers
      /\ NeedsIdentifier(handler) <=> TakesIdentifier(call.operation)
      /\ NeedsIdentifier(handler) => Identifier(handler, Rest(service, request.path)) = call.id
      /\ Method(request) = "GET" => Rest(service, request.path) \notin Reserved
  BY <1>3, <1>4, <1>5, <1>6
<1> QED BY <1>7 DEF service, handler, method

(***************************************************************************)
(* The Service (service.rs:460-557) refuses nothing that an Agent asks of  *)
(* the deployment whose document it read (client.rs:507-519): what is      *)
(* answered without the Catalog then is the document itself, one of the    *)
(* resources that the router misreads, or a page that is too long.         *)
(***************************************************************************)
THEOREM OnlyTheStaleAreRefused == Spec => []RefusalIsStale
<1>1. ASSUME IInv, reply # None, reply.answer = None, call # None, call.next = None,
             request.path # WellKnown, ~Misread(call), call.limit <= MaximumLimit,
             server = known.by
      PROVE  FALSE
  <2> DEFINE service == ServiceAt(server)
             searches == IsSearch(call.operation)
             path == Rest(service, request.path)
             handler == Handler(Method(request), path)
  <2>1. request # None /\ Serves(server)
    BY <1>1 DEF IInv, ReplyTrue
  <2>2. AnswersItself(service, request)
    <3>1. asked # None => reply.answer \notin CatalogAnswers[asked.handler]
      BY <1>1, AskedIsNoDocument, AnswersAssumption DEF AnswersAssumption
    <3> QED BY <1>1, <3>1 DEF IInv, ReplyTrue
  <2>3. Refused(service, request)
    BY <1>1, <2>2 DEF AnswersItself, IsDocument
  <2>4. ~Inspects(request)
    BY <1>1 DEF Inspects
  <2>5. /\ call \in Calls
        /\ call.operation \in {o.name : o \in service.operations}
        /\ TakesIdentifier(call.operation) => call.id \in Identifiers
        /\ request.accept = <<[range |-> "odp", weight |-> 2]>>
        /\ request.query \in Queries
        /\ request.query.representation = <<call.representation>>
        /\ request.query.limit = (IF call.limit = 0 \/ searches THEN <<>> ELSE <<call.limit>>)
        /\ request.query.cursor = <<>>
        /\ request.body.size = "small" /\ request.body.type = "odp"
        /\ request.body.valid <=> ~searches \/ call.limit <= MaximumLimit
    BY <1>1, <2>1, <2>4, OperationRequested
  <2>6. /\ IsPrefix(service.base, request.path)
        /\ Method(request) = IF searches THEN "POST" ELSE "GET"
        /\ path_operation(Method(request), path) = call.operation
        /\ handler = Served[call.operation] /\ handler \in Handlers
        /\ NeedsIdentifier(handler) <=> TakesIdentifier(call.operation)
        /\ NeedsIdentifier(handler) => Identifier(handler, path) = call.id
        /\ Method(request) = "GET" => path \notin Reserved
    BY <1>1, <2>1, <2>4, TakenAsCalled
  <2> HIDE DEF service, searches, path, handler
  <2>7. accepts_odp(request.accept)
    BY <2>5 DEF accepts_odp, Specificity
  <2>8. ~Unsupported(service, path_operation(Method(request), path))
    BY <2>5, <2>6 DEF Unsupported, Advertised
  <2>9. ~BadQuery(request.query)
    <3>1. call.representation \in {"terse", "full"} /\ call.limit \in Nat
      BY <2>5, CallsAssumption DEF CallsAssumption
    <3>2. \A x : <<x>> \in Seq({x}) /\ Len(<<x>>) = 1 /\ ToSet(<<x>>) = {x}
      BY DEF ToSet
    <3>3. Len(<<>>) = 0 /\ ToSet(<<>>) = {}
      BY DEF ToSet
    <3>4. DOMAIN request.query = {"representation", "limit", "cursor"}
      BY <2>5 DEF Queries
    <3>5. ToSet(request.query.representation) = {call.representation}
      BY <2>5, <3>2
    <3>6. \A value \in ToSet(request.query.limit) : value \in 1 .. MaximumLimit
      BY <1>1, <2>5, <3>1, <3>2, <3>3, RouterAssumption DEF RouterAssumption
    <3>7. \A values \in {<<>>, <<call.representation>>, <<call.limit>>} : ~(Len(values) > 1)
      <4>1. ~(Len(<<>>) > 1) /\ \A x : ~(Len(<<x>>) > 1)
        OBVIOUS
      <4> QED BY <4>1, Zenon
    <3>8. /\ request.query["representation"] = <<call.representation>>
          /\ request.query["limit"] \in {<<>>, <<call.limit>>} /\ request.query["cursor"] = <<>>
      BY <2>5
    <3>9. /\ ~(Len(request.query["representation"]) > 1) /\ ~(Len(request.query["limit"]) > 1)
          /\ ~(Len(request.query["cursor"]) > 1)
      BY <3>7, <3>8
    <3> QED BY <3>1, <3>4, <3>5, <3>6, <3>9 DEF BadQuery
  <2>10. handler # None
    BY <2>6, RouterAssumption DEF RouterAssumption
  <2>11. Method(request) = "POST" => request.body.valid
    BY <1>1, <2>5, <2>6
  <2>12. NeedsIdentifier(handler) => Identifier(handler, path) \in Identifiers
    BY <2>5, <2>6
  <2>13. ~(Method(request) = "GET" /\ path \in Reserved /\ Single(request.query.cursor, "") = "")
    BY <2>6
  <2> QED BY <2>3, <2>5, <2>6, <2>7, <2>8, <2>9, <2>10, <2>11, <2>12, <2>13, RefusedIff
          DEF service, path, handler
<1>2. ASSUME IInv, call # None, call.next = None, call.limit \notin Nat PROVE FALSE
  BY <1>2, CallsAssumption DEF CallsAssumption, IInv, CallTrue
<1>3. MaximumLimit \in Nat
  BY RouterAssumption DEF RouterAssumption
<1>4. IInv => RefusalIsStale
  BY <1>1, <1>2, <1>3 DEF RefusalIsStale
<1> QED BY <1>4, Inductive, PTL
-----------------------------------------------------------------------------
(***************************************************************************)
(* What Lookup selects.                                                    *)
(***************************************************************************)
\* Of finitely many tags there is a longest, by induction on how many there are.
LEMMA LongestOf ==
  ASSUME NEW tags \in SUBSET Seq(STRING), IsFiniteSet(tags), tags # {}
  PROVE  Longest(tags) \in tags /\ \A other \in tags : Len(other) <= Len(Longest(tags))
<1>1. PICK size \in Nat : ExistsSurjection(1 .. size, tags)
  BY FS_NatSurjection
<1>2. PICK listed \in [1 .. size -> tags] : \A tag \in tags : \E k \in 1 .. size : listed[k] = tag
  BY <1>1 DEF ExistsSurjection, Surjection
<1>3. \A k \in 1 .. size : Len(listed[k]) \in Nat
  <2>1. \A tag \in tags : Len(tag) \in Nat
    OBVIOUS
  <2> QED BY <1>2, <2>1
<1> DEFINE Bounds(n, b) == \A k \in 1 .. n : Len(listed[k]) <= b
           unbounded == {n \in 0 .. size : ~\E b \in Nat : Bounds(n, b)}
<1> HIDE DEF Bounds
<1>4. unbounded = {}
  <2>1. SUFFICES ASSUME unbounded # {} PROVE FALSE
    OBVIOUS
  <2>2. PICK n \in unbounded : \A k \in unbounded : n <= k
    <3>1. unbounded \in SUBSET Nat
      BY <1>1
    <3> HIDE DEF unbounded
    <3> QED BY <2>1, <3>1, LeastNumber
  <2>3. n # 0
    <3>1. Bounds(0, 0)
      BY DEF Bounds
    <3> QED BY <2>2, <3>1
  <2>4. n - 1 \in 0 .. size /\ n - 1 \notin unbounded
    BY <1>1, <2>2, <2>3
  <2>5. PICK b \in Nat : Bounds(n - 1, b)
    BY <2>4
  <2> DEFINE c == IF Len(listed[n]) <= b THEN b ELSE Len(listed[n])
  <2>6. c \in Nat /\ Bounds(n, c)
    BY <1>1, <1>3, <2>2, <2>3, <2>5 DEF Bounds
  <2> QED BY <2>2, <2>6
<1> DEFINE bounds == {b \in Nat : Bounds(size, b)}
<1>5. bounds # {} /\ bounds \in SUBSET Nat
  <2>1. size \in 0 .. size
    BY <1>1
  <2>2. \E b \in Nat : Bounds(size, b)
    BY <1>4, <2>1
  <2> QED BY <2>2
<1>6. PICK m \in bounds : \A b \in bounds : m <= b
  BY <1>5, LeastNumber
<1>7. \E k \in 1 .. size : Len(listed[k]) = m
  <2>1. size # 0
    BY <1>1, <1>2
  <2>2. CASE m = 0
    BY <1>1, <1>3, <1>6, <2>1, <2>2 DEF Bounds
  <2>3. CASE m # 0
    <3>1. m - 1 \in Nat /\ m - 1 \notin bounds
      BY <1>6, <2>3
    <3> QED BY <1>1, <1>3, <1>6, <3>1 DEF Bounds
  <2> QED BY <2>2, <2>3
<1>8. PICK k \in 1 .. size : Len(listed[k]) = m
  BY <1>7
<1>9. listed[k] \in tags /\ \A other \in tags : Len(other) <= Len(listed[k])
  BY <1>2, <1>6, <1>8 DEF Bounds
<1> QED BY <1>9 DEF Longest

\* The ranges in the order of their weights are those that are acceptable, once each.
LEMMA RangesByWeight ==
  ASSUME NEW field \in Seq(LanguageRanges)
  PROVE  LET acceptable == {i \in DOMAIN field : field[i].weight > 0}
             ranges     == ranges_by_weight(field)
         IN  /\ DOMAIN ranges \in SUBSET Nat
             /\ \E place \in [acceptable -> DOMAIN ranges], from \in [DOMAIN ranges -> acceptable] :
                  /\ \A i \in acceptable : ranges[place[i]] = field[i] /\ from[place[i]] = i
                  /\ \A n \in DOMAIN ranges : ranges[n] = field[from[n]]
                  /\ \A n, m \in DOMAIN ranges :
                       n <= m => field[from[n]].weight >= field[from[m]].weight
<1> DEFINE acceptable == {i \in DOMAIN field : field[i].weight > 0}
           ranges     == ranges_by_weight(field)
           size       == Cardinality(acceptable)
           Ahead(i)   == {j \in acceptable : \/ field[j].weight > field[i].weight
                                             \/ field[j].weight = field[i].weight /\ j <= i}
           rank       == [i \in acceptable |-> Cardinality(Ahead(i))]
           from       == [n \in 1 .. size |-> CHOOSE i \in acceptable : Cardinality(Ahead(i)) = n]
<1>0. /\ Len(field) \in Nat /\ DOMAIN field = 1 .. Len(field)
      /\ \A i \in DOMAIN field : field[i] \in LanguageRanges
  BY ElementOfSeq, LenProperties
<1>16. \A i \in DOMAIN field : field[i].weight \in Nat
  BY <1>0 DEF LanguageRanges
<1>1. IsFiniteSet(acceptable) /\ size \in Nat
  <2>1. acceptable \in SUBSET (1 .. Len(field))
    BY <1>0
  <2> HIDE DEF acceptable
  <2>2. IsFiniteSet(1 .. Len(field))
    BY <1>0, FS_Interval
  <2>3. IsFiniteSet(acceptable)
    BY <2>1, <2>2, FS_Subset
  <2> QED BY <2>3, FS_CardinalityType
<1>2. ranges = [n \in 1 .. size |-> field[CHOOSE i \in acceptable : Cardinality(Ahead(i)) = n]]
  BY DEF ranges_by_weight
<1>3. \A i \in acceptable : i \in Nat /\ field[i].weight \in Nat
  BY <1>0, <1>16
<1>4. \A i, j \in acceptable :
        /\ i \in Ahead(i) /\ Ahead(i) \in SUBSET acceptable
        /\ i \in Ahead(j) \/ j \in Ahead(i)
        /\ i \in Ahead(j) => Ahead(i) \in SUBSET Ahead(j) /\ field[i].weight >= field[j].weight
        /\ i # j => ~(i \in Ahead(j) /\ j \in Ahead(i))
  <2> HIDE DEF acceptable
  <2> QED BY <1>3
<1> HIDE DEF Ahead, ranges
<1>5. \A i \in acceptable : /\ IsFiniteSet(Ahead(i)) /\ Cardinality(Ahead(i)) \in Nat
                           /\ Cardinality(Ahead(i)) \in 1 .. size
  <2>1. SUFFICES ASSUME NEW i \in acceptable
                 PROVE  /\ IsFiniteSet(Ahead(i)) /\ Cardinality(Ahead(i)) \in Nat
                        /\ Cardinality(Ahead(i)) \in 1 .. size
    OBVIOUS
  <2>2. Ahead(i) \in SUBSET acceptable /\ i \in Ahead(i)
    BY <1>4
  <2> HIDE DEF acceptable
  <2>3. IsFiniteSet(Ahead(i)) /\ Cardinality(Ahead(i)) <= size
    BY <1>1, <2>2, FS_Subset
  <2>4. Cardinality(Ahead(i)) \in Nat /\ Cardinality(Ahead(i)) # 0
    BY <2>2, <2>3, FS_CardinalityType, FS_EmptySet
  <2> QED BY <1>1, <2>3, <2>4
<1> HIDE DEF acceptable, size
<1>6. ASSUME NEW i \in acceptable, NEW j \in acceptable, i \in Ahead(j), i # j
      PROVE  Cardinality(Ahead(i)) < Cardinality(Ahead(j))
  <2>1. Ahead(i) \in SUBSET Ahead(j) /\ Ahead(i) # Ahead(j)
    BY <1>4, <1>6
  <2>2. IsFiniteSet(Ahead(j)) /\ Cardinality(Ahead(j)) \in Nat /\ Cardinality(Ahead(i)) \in Nat
    BY <1>5
  <2> QED BY <2>1, <2>2, FS_Subset
<1>7. \A i, j \in acceptable :
        /\ Cardinality(Ahead(i)) = Cardinality(Ahead(j)) => i = j
        /\ Cardinality(Ahead(i)) <= Cardinality(Ahead(j)) => i \in Ahead(j)
  <2>1. SUFFICES ASSUME NEW i \in acceptable, NEW j \in acceptable
                 PROVE  /\ Cardinality(Ahead(i)) = Cardinality(Ahead(j)) => i = j
                        /\ Cardinality(Ahead(i)) <= Cardinality(Ahead(j)) => i \in Ahead(j)
    OBVIOUS
  <2>2. Cardinality(Ahead(i)) \in Nat /\ Cardinality(Ahead(j)) \in Nat
    BY <1>5
  <2>3. i \in Ahead(i) /\ (i \in Ahead(j) \/ j \in Ahead(i))
    BY <1>4
  <2>4. i # j /\ i \in Ahead(j) => Cardinality(Ahead(i)) < Cardinality(Ahead(j))
    BY <1>6
  <2>5. i # j /\ j \in Ahead(i) => Cardinality(Ahead(j)) < Cardinality(Ahead(i))
    BY <1>6
  <2> QED BY <2>2, <2>3, <2>4, <2>5
<1>8. \A n \in 1 .. size : \E i \in acceptable : Cardinality(Ahead(i)) = n
  <2>1. rank \in Injection(acceptable, 1 .. size)
    BY <1>5, <1>7 DEF Injection, IsInjective
  <2>2. IsFiniteSet(1 .. size) /\ Cardinality(1 .. size) = size
    BY <1>1, FS_Interval
  <2>3. rank \in Surjection(acceptable, 1 .. size)
    BY <2>1, <2>2, FS_Injection DEF size
  <2> QED BY <2>3 DEF Surjection
<1>9. \A n \in 1 .. size : from[n] \in acceptable /\ Cardinality(Ahead(from[n])) = n
  BY <1>8
<1>10. DOMAIN ranges = 1 .. size /\ \A n \in 1 .. size : ranges[n] = field[from[n]]
  <2>1. DOMAIN ranges = 1 .. size
    BY <1>2, Zenon
  <2>2. ASSUME NEW n \in 1 .. size PROVE ranges[n] = field[from[n]]
    <3>1. from[n] = CHOOSE i \in acceptable : Cardinality(Ahead(i)) = n
      BY Zenon
    <3> QED BY <1>2, <3>1, Zenon
  <2> QED BY <2>1, <2>2
<1> HIDE DEF from
<1>11. rank \in [acceptable -> DOMAIN ranges] /\ from \in [DOMAIN ranges -> acceptable]
  <2>1. from = [n \in 1 .. size |-> from[n]]
    BY DEF from
  <2> QED BY <1>5, <1>9, <1>10, <2>1
<1>12. \A i \in acceptable : from[rank[i]] = i /\ ranges[rank[i]] = field[i]
  BY <1>5, <1>7, <1>9, <1>10
<1>13. \A n, m \in DOMAIN ranges : n <= m => field[from[n]].weight >= field[from[m]].weight
  BY <1>4, <1>7, <1>9, <1>10
<1>14. DOMAIN ranges \in SUBSET Nat
  BY <1>1, <1>10
<1> HIDE DEF rank
<1>15. \E p \in [acceptable -> DOMAIN ranges], f \in [DOMAIN ranges -> acceptable] :
         /\ \A i \in acceptable : ranges[p[i]] = field[i] /\ f[p[i]] = i
         /\ \A n \in DOMAIN ranges : ranges[n] = field[f[n]]
         /\ \A n, m \in DOMAIN ranges : n <= m => field[f[n]].weight >= field[f[m]].weight
  <2> USE <1>11
  <2> WITNESS rank \in [acceptable -> DOMAIN ranges], from \in [DOMAIN ranges -> acceptable]
  <2> QED BY <1>10, <1>12, <1>13
<1> QED BY <1>14, <1>15 DEF acceptable, ranges

\* Lookup cuts a range to every length but such as leave a singleton at the end.
LEMMA CutsOfRange ==
  ASSUME NEW range \in Seq(STRING), range # <<>>
  PROVE  /\ Cuts(range) \in SUBSET (1 .. Len(range))
         /\ \A m \in 1 .. Len(range) : range[m] # "x" => m \in Cuts(range)
<1> DEFINE size == Len(range)
           Shorter(n) == IF n > 2 /\ range[n - 1] = "x" THEN n - 2 ELSE n - 1
           IsCut(c, k) == c = [n \in 1 .. k |-> {n} \cup IF n = 1 THEN {} ELSE c[Shorter(n)]]
           cut == CHOOSE c : IsCut(c, size)
           missing == {k \in 1 .. size : ~\E c : IsCut(c, k)}
<1>1. size \in Nat /\ size # 0 /\ size \in 1 .. size
  OBVIOUS
<1>2. Cuts(range) = cut[size]
  BY DEF Cuts
<1> HIDE DEF size
<1>3. \A n \in Nat : n > 1 => /\ Shorter(n) \in 1 .. n - 1
                              /\ Shorter(n) = n - 1 \/ (Shorter(n) = n - 2 /\ range[n - 1] = "x")
  OBVIOUS
<1> HIDE DEF Shorter
<1>4. missing = {}
  <2>1. SUFFICES ASSUME missing # {} PROVE FALSE
    OBVIOUS
  <2>2. missing \in SUBSET Nat
    OBVIOUS
  <2>3. PICK k \in missing : \A j \in missing : k <= j
    <3> HIDE DEF missing
    <3> QED BY <2>1, <2>2, LeastNumber
  <2>4. CASE k = 1
    <3> DEFINE c == [n \in 1 .. 1 |-> {n}]
    <3>1. c = [n \in 1 .. 1 |-> {n} \cup IF n = 1 THEN {} ELSE c[Shorter(n)]]
      OBVIOUS
    <3> HIDE DEF c
    <3> QED BY <2>3, <2>4, <3>1
  <2>5. CASE k # 1
    <3>1. k - 1 \in 1 .. size /\ k \in 2 .. size /\ k - 1 \notin missing
      <4>1. k \in 1 .. size
        BY <2>3
      <4> HIDE DEF missing
      <4>2. k - 1 \in 1 .. size /\ k \in 2 .. size /\ ~(k <= k - 1)
        BY <1>1, <2>5, <4>1
      <4> QED BY <2>3, <4>2
    <3>2. PICK c : IsCut(c, k - 1)
      BY <3>1
    <3> DEFINE d == [n \in 1 .. k |-> IF n = k THEN {k} \cup c[Shorter(k)] ELSE c[n]]
    <3>3. ASSUME NEW n \in 1 .. k
          PROVE  d[n] = {n} \cup IF n = 1 THEN {} ELSE d[Shorter(n)]
      <4>1. n # 1 => /\ Shorter(n) \in 1 .. k - 1 /\ Shorter(n) \in 1 .. k /\ Shorter(n) # k
        BY <1>3, <3>1
      <4>2. n # 1 => d[Shorter(n)] = c[Shorter(n)]
        BY <4>1
      <4>3. CASE n = k
        <5>1. d[n] = {k} \cup c[Shorter(k)] /\ n # 1
          BY <3>1, <4>3
        <5> HIDE DEF d
        <5> QED BY <4>2, <4>3, <5>1
      <4>4. CASE n # k
        <5>1. n \in 1 .. k - 1 /\ d[n] = c[n]
          BY <3>1, <4>4
        <5>2. c[n] = {n} \cup IF n = 1 THEN {} ELSE c[Shorter(n)]
          BY <3>2, <5>1
        <5> QED BY <4>2, <5>1, <5>2
      <4> QED BY <4>3, <4>4
    <3>4. d = [n \in 1 .. k |-> {n} \cup IF n = 1 THEN {} ELSE d[Shorter(n)]]
      <4>1. d = [n \in 1 .. k |-> d[n]]
        OBVIOUS
      <4> HIDE DEF d
      <4> QED BY <3>3, <4>1
    <3> HIDE DEF d
    <3> QED BY <2>3, <3>4
  <2> QED BY <2>4, <2>5
<1>5. IsCut(cut, size)
  <2>1. \E c : IsCut(c, size)
    <3>1. size \notin missing
      BY <1>4
    <3> HIDE DEF IsCut
    <3> QED BY <1>1, <3>1
  <2> HIDE DEF IsCut
  <2> QED BY <2>1
<1>6. \A n \in 1 .. size : cut[n] = {n} \cup IF n = 1 THEN {} ELSE cut[Shorter(n)]
  BY <1>5
<1> HIDE DEF cut, IsCut
<1> DEFINE Right(n) == /\ cut[n] \in SUBSET (1 .. n)
                       /\ \A m \in 1 .. n : range[m] # "x" => m \in cut[n]
           wrong == {n \in 1 .. size : ~Right(n)}
<1>7. wrong = {}
  <2>1. SUFFICES ASSUME wrong # {} PROVE FALSE
    OBVIOUS
  <2>2. wrong \in SUBSET Nat
    OBVIOUS
  <2>3. PICK n \in wrong : \A j \in wrong : n <= j
    <3> HIDE DEF wrong
    <3> QED BY <2>1, <2>2, LeastNumber
  <2>4. CASE n = 1
    BY <1>6, <2>3, <2>4
  <2>5. CASE n # 1
    <3> DEFINE s == Shorter(n)
    <3>1. n \in 2 .. size /\ s \in 1 .. n - 1 /\ (s = n - 1 \/ (s = n - 2 /\ range[n - 1] = "x"))
      BY <1>1, <1>3, <2>3, <2>5
    <3>2. Right(s)
      BY <1>1, <2>3, <3>1
    <3>3. cut[n] = {n} \cup cut[s]
      BY <1>6, <3>1
    <3> HIDE DEF s
    <3>4. cut[n] \in SUBSET (1 .. n)
      BY <3>1, <3>2, <3>3
    <3>5. ASSUME NEW m \in 1 .. n, range[m] # "x" PROVE m \in cut[n]
      <4>1. m = n \/ m \in 1 .. s
        BY <3>1, <3>5
      <4> QED BY <3>2, <3>3, <3>5, <4>1
    <3> QED BY <2>3, <3>4, <3>5
  <2> QED BY <2>4, <2>5
<1>8. Right(size)
  BY <1>1, <1>7
<1> QED BY <1>2, <1>8 DEF size

\* What a range finds is what it accepts.
LEMMA FoundIsAccepted ==
  ASSUME NEW range \in Seq(STRING), range # <<>>, range # <<"*">>,
         NEW tags \in SUBSET Seq(STRING), \A tag \in tags : tag # <<>> /\ Last(tag) # "x"
  PROVE  \A tag \in tags : tag \in Found(range, tags) <=> Accepts(range, tag)
<1>1. SUFFICES ASSUME NEW tag \in tags
               PROVE  tag \in Found(range, tags) <=> Accepts(range, tag)
  OBVIOUS
<1>2. /\ tag \in Seq(STRING) /\ tag # <<>> /\ Len(tag) \in Nat /\ Len(tag) # 0
      /\ tag[Len(tag)] # "x" /\ Len(range) \in Nat
  BY DEF Last
<1>3. ASSUME tag \in Found(range, tags) PROVE Accepts(range, tag)
  <2>1. PICK n \in Cuts(range) : tag = SubSeq(range, 1, n)
    BY <1>3 DEF Found
  <2>2. n \in 1 .. Len(range)
    BY <2>1, CutsOfRange
  <2>3. Len(tag) = n /\ \A i \in 1 .. n : tag[i] = range[i]
    BY <2>1, <2>2
  <2>4. SubSeq(tag, 1, n) = SubSeq(range, 1, n)
    BY <1>2, <2>1, <2>3, SubSeqFull
  <2>5. IsPrefix(tag, range)
    BY <2>2, <2>3, <2>4 DEF IsPrefix
  <2> QED BY <1>2, <2>2, <2>3, <2>5 DEF Accepts
<1>4. ASSUME Accepts(range, tag) PROVE tag \in Found(range, tags)
  <2>1. /\ Len(tag) <= Len(range) /\ SubSeq(tag, 1, Len(tag)) = SubSeq(range, 1, Len(tag))
        /\ range[Len(tag)] # "x"
    BY <1>4 DEF Accepts, IsPrefix
  <2>2. tag = SubSeq(range, 1, Len(tag))
    BY <1>2, <2>1, SubSeqFull
  <2>3. Len(tag) \in Cuts(range)
    BY <1>2, <2>1, CutsOfRange
  <2> QED BY <2>2, <2>3 DEF Found
<1> QED BY <1>3, <1>4

\* The language that is served is one of the document's.
LEMMA SelectedIsLocalization ==
  ASSUME NEW i, Serves(i), NEW field \in Languages
  PROVE  select_language(ServiceAt(i), field) \in ServiceAt(i).localizations
<1> DEFINE document == ServiceAt(i)
           ranges   == IF field = None THEN <<>> ELSE ranges_by_weight(field)
           decides  == {k \in DOMAIN ranges : \/ ranges[k].range = <<"*">>
                                              \/ Found(ranges[k].range, document.localizations) # {}}
           first    == CHOOSE k \in decides : \A j \in decides : k <= j
           range    == ranges[first].range
<1>1. /\ document.language \in document.localizations
      /\ document.localizations \in SUBSET Seq(STRING) /\ IsFiniteSet(document.localizations)
  BY DocumentMembersKept
<1>2. select_language(document, field) =
        IF decides = {} \/ range = <<"*">> THEN document.language
        ELSE Longest(Found(range, document.localizations))
  BY DEF select_language
<1>3. decides \in SUBSET Nat
  <2>1. CASE field = None
    BY <2>1
  <2>2. CASE field # None
    <3>1. field \in Seq(LanguageRanges)
      BY <2>2 DEF Languages
    <3>2. DOMAIN ranges_by_weight(field) \in SUBSET Nat
      BY <3>1, RangesByWeight
    <3> QED BY <2>2, <3>2
  <2> QED BY <2>1, <2>2
<1>4. ASSUME decides # {}, range # <<"*">>
      PROVE  /\ Found(range, document.localizations) # {}
             /\ Found(range, document.localizations) \in SUBSET document.localizations
  <2> HIDE DEF ranges
  <2>1. \E k \in decides : \A j \in decides : k <= j
    BY <1>3, <1>4, LeastNumber
  <2>2. first \in decides
    BY <2>1
  <2> HIDE DEF first
  <2>3. Found(range, document.localizations) # {}
    BY <1>4, <2>2
  <2> QED BY <2>3 DEF Found
<1> HIDE DEF document, decides, range
<1>5. ASSUME decides # {}, range # <<"*">>
      PROVE  Longest(Found(range, document.localizations)) \in document.localizations
  <2> DEFINE found == Found(range, document.localizations)
  <2>1. found \in SUBSET document.localizations /\ found # {}
    BY <1>4, <1>5
  <2> HIDE DEF found
  <2>2. IsFiniteSet(found) /\ found \in SUBSET Seq(STRING)
    BY <1>1, <2>1, FS_Subset
  <2>3. Longest(found) \in found
    BY <2>1, <2>2, LongestOf
  <2> QED BY <2>1, <2>3 DEF found
<1> QED BY <1>1, <1>2, <1>5 DEF document

(***************************************************************************)
(* The Agent's URL builder and the Service's router agree (references.rs:  *)
(* 109-131, service.rs:460-557): whatever deployment takes the request of a*)
(* call, the Catalog is asked for the operation that was called, or for    *)
(* nothing.  The one thing that is supposed of the deployments is that     *)
(* none has its endpoint base below another's: a path that was built for   *)
(* the one would be read as another path of the other.                     *)
(***************************************************************************)
BasesApart ==
  \A i, j \in DOMAIN Deployments :
    IsPrefix(ServiceAt(i).base, ServiceAt(j).base) => ServiceAt(i).base = ServiceAt(j).base

THEOREM CallsAreTakenAsAsked ==
  ASSUME BasesApart
  PROVE  Spec => []AsAsked
<1>1. ASSUME IInv, asked # None, call # None, call.next = None, ~Misread(call)
      PROVE  /\ asked.handler = Served[call.operation]
             /\ asked.id = call.id
             /\ asked.representation = call.representation
             /\ asked.limit = call.limit
             /\ asked.cursor = None
             /\ asked.language \in ServiceAt(server).localizations
             /\ Advertised(ServiceAt(server), call.operation)
  <2> DEFINE service == ServiceAt(server)
             searches == IsSearch(call.operation)
             sent == operation_path(call.operation, call.id)
             path == Rest(service, request.path)
             handler == Handler(Method(request), path)
  <2>1. /\ request # None /\ Serves(server) /\ IsRequest(request)
        /\ ~AnswersItself(service, request)
        /\ asked = Asked(service, request)
    BY <1>1 DEF IInv, AskedTrue, RequestTrue
  <2>2. ~Inspects(request)
    BY <1>1, AskedIsNoDocument DEF Inspects
  <2>3. call \in Calls
    BY <1>1 DEF IInv, CallTrue
  <2>4. /\ Serves(known.by)
        /\ sent \in Path /\ request.path = ServiceAt(known.by).base \o sent
        /\ request.method = IF searches THEN "POST" ELSE "GET"
        /\ request.query.representation = <<call.representation>>
        /\ request.query.limit = IF call.limit = 0 \/ searches THEN <<>> ELSE <<call.limit>>
        /\ request.query.cursor = <<>>
        /\ searches => request.body.limit = call.limit
    BY <1>1, <2>1, <2>2, OperationRequested
  <2>5. IsPrefix(service.base, request.path) /\ ~Unsupported(service, path_operation(Method(request), path))
    BY <2>1, RefusedIff DEF AnswersItself
  <2>6. service.base = ServiceAt(known.by).base
    <3>1. service.base \in Path /\ ServiceAt(known.by).base \in Path
      BY <2>1, <2>4, DocumentMembersKept
    <3>2. \/ IsPrefix(service.base, ServiceAt(known.by).base)
          \/ IsPrefix(ServiceAt(known.by).base, service.base)
      BY <2>4, <2>5, <3>1, RootsOfOnePath
    <3>3. server \in DOMAIN Deployments /\ known.by \in DOMAIN Deployments
      BY <2>1, <2>4 DEF Serves
    <3> QED BY <3>2, <3>3 DEF BasesApart
  <2>7. /\ Method(request) = IF searches THEN "POST" ELSE "GET"
        /\ path_operation(Method(request), path) = call.operation
        /\ handler = Served[call.operation]
        /\ NeedsIdentifier(handler) <=> TakesIdentifier(call.operation)
        /\ NeedsIdentifier(handler) => Identifier(handler, path) = call.id
    BY <1>1, <2>1, <2>2, <2>6, TakenAsCalled
  <2>8. asked.language \in service.localizations
    BY <2>1, SelectedIsLocalization DEF Asked, IsRequest
  <2> HIDE DEF service, searches, sent, path, handler
  <2>9. /\ call.operation \in Operations /\ call.operation # None
        /\ ~TakesIdentifier(call.operation) => call.id = None
    BY <2>3, CallsAreOfOperations, CallsAssumption, RouterAssumption
       DEF CallsAssumption, RouterAssumption
  <2>10. Advertised(service, call.operation)
    BY <2>5, <2>7, <2>9 DEF Unsupported
  <2>11. /\ asked.handler = handler
         /\ asked.id = IF NeedsIdentifier(handler) THEN Identifier(handler, path) ELSE None
         /\ asked.representation = Representation(path_operation(Method(request), path), request.query)
         /\ asked.limit = (IF request.method = "POST" THEN request.body.limit
                           ELSE Single(request.query.limit, 0))
         /\ asked.cursor = Single(request.query.cursor, None)
    BY <2>1 DEF Asked, handler, path
  <2>12. \A x, default : Single(<<x>>, default) = x /\ Single(<<>>, default) = default
    BY DEF Single
  <2>13. asked.representation = call.representation /\ asked.cursor = None
    BY <2>4, <2>11, <2>12 DEF Representation
  <2>14. asked.limit = call.limit
    BY <2>4, <2>11, <2>12
  <2> QED BY <2>7, <2>8, <2>9, <2>10, <2>11, <2>13, <2>14 DEF service
<1>2. IInv => AsAsked
  BY <1>1 DEF AsAsked
<1> QED BY <1>2, Inductive, PTL
-----------------------------------------------------------------------------
(***************************************************************************)
(* Decimals: compare_decimals against what a decimal is worth.             *)
(***************************************************************************)
DigitsOf(decimal, places) ==
  [i \in 1 .. Len(decimal.whole) + places |->
     IF i <= Len(decimal.whole) THEN decimal.whole[i]
     ELSE IF i - Len(decimal.whole) <= Len(decimal.fraction)
       THEN decimal.fraction[i - Len(decimal.whole)] ELSE 0]

\* s is the values of the first digits of d, 0, 1, ... up to n of them.
IsSum(s, d, n) ==
  /\ s \in [0 .. n -> Nat] /\ s[0] = 0
  /\ \A i \in 1 .. n : s[i] = 10 * s[i - 1] + d[i]

LEMMA SumExists ==
  ASSUME NEW n \in Nat, NEW d \in [1 .. n -> Digits]
  PROVE  \E s : IsSum(s, d, n)
<1> DEFINE Missing == {k \in 0 .. n : ~\E s : IsSum(s, d, k)}
<1>1. SUFFICES ASSUME Missing # {} PROVE FALSE
  <2>1. n \in 0 .. n
    OBVIOUS
  <2> QED BY <2>1
<1>2. Missing \in SUBSET Nat
  OBVIOUS
<1>3. PICK m \in Missing : \A k \in Missing : m <= k
  <2> HIDE DEF Missing
  <2> QED BY <1>1, <1>2, LeastNumber
<1>4. m # 0
  <2>1. IsSum([i \in 0 .. 0 |-> 0], d, 0)
    BY DEF IsSum
  <2> QED BY <1>3, <2>1
<1>5. m \in 1 .. n /\ m - 1 \in 0 .. n /\ m - 1 \notin Missing
  BY <1>3, <1>4
<1>6. PICK s : IsSum(s, d, m - 1)
  BY <1>5
<1> DEFINE t == [i \in 0 .. m |-> IF i = m THEN 10 * s[m - 1] + d[m] ELSE s[i]]
<1>7. s \in [0 .. m - 1 -> Nat] /\ s[0] = 0 /\ \A i \in 1 .. m - 1 : s[i] = 10 * s[i - 1] + d[i]
  BY <1>6 DEF IsSum
<1>8. d[m] \in Nat /\ s[m - 1] \in Nat
  <2>1. d[m] \in Digits /\ m - 1 \in 0 .. m - 1
    BY <1>5
  <2> QED BY <1>7, <2>1 DEF Digits
<1>9. IsSum(t, d, m)
  <2>1. t \in [0 .. m -> Nat]
    BY <1>5, <1>7, <1>8
  <2>2. t[0] = 0
    BY <1>5, <1>7
  <2>3. \A i \in 1 .. m : t[i] = 10 * t[i - 1] + d[i]
    BY <1>5, <1>7
  <2> HIDE DEF t
  <2> QED BY <2>1, <2>2, <2>3 DEF IsSum
<1> QED BY <1>3, <1>9

LEMMA WorthIsSum ==
  ASSUME NEW decimal \in [whole : Seq(Digits), fraction : Seq(Digits)], NEW places \in Nat
  PROVE  LET d == DigitsOf(decimal, places)
             n == Len(decimal.whole) + places
         IN  /\ d \in [1 .. n -> Digits]
             /\ \E s : IsSum(s, d, n) /\ Worth(decimal, places) = s[n]
<1> DEFINE d == DigitsOf(decimal, places)
           n == Len(decimal.whole) + places
           Sum(s) == s = [i \in 0 .. Len(d) |-> IF i = 0 THEN 0 ELSE 10 * s[i - 1] + d[i]]
           sum == CHOOSE s : Sum(s)
<1>1. Worth(decimal, places) = sum[Len(d)]
  BY DEF Worth, DigitsOf
<1>2. n \in Nat /\ Len(decimal.whole) \in Nat /\ Len(decimal.fraction) \in Nat
  OBVIOUS
<1>3. d \in [1 .. n -> Digits]
  BY <1>2 DEF DigitsOf, Digits
<1> HIDE DEF d, n
<1>4. Len(d) = n
  BY <1>2, <1>3
<1>5. PICK s : IsSum(s, d, n)
  BY <1>2, <1>3, SumExists
<1>6. Sum(s)
  BY <1>2, <1>4, <1>5 DEF IsSum
<1>7. Sum(sum)
  BY <1>6
<1>8. ASSUME NEW t, Sum(t) PROVE t = s
  <2> DEFINE Apart == {i \in 0 .. n : t[i] # s[i]}
  <2>1. /\ t = [i \in 0 .. n |-> t[i]] /\ t[0] = 0
        /\ \A i \in 1 .. n : t[i] = 10 * t[i - 1] + d[i]
    <3>1. t = [i \in 0 .. n |-> IF i = 0 THEN 0 ELSE 10 * t[i - 1] + d[i]]
      BY <1>4, <1>8
    <3>2. /\ 0 \in 0 .. n
          /\ \A i \in 1 .. n : i \in 0 .. n /\ i # 0
      BY <1>2
    <3>3. DOMAIN t = 0 .. n /\ \A i \in 0 .. n : t[i] = IF i = 0 THEN 0 ELSE 10 * t[i - 1] + d[i]
      BY <3>1, Zenon
    <3>4. t = [i \in 0 .. n |-> t[i]]
      BY <3>1, <3>3, Zenon
    <3> QED BY <3>2, <3>3, <3>4, Zenon
  <2>2. /\ s = [i \in 0 .. n |-> s[i]] /\ s[0] = 0
        /\ \A i \in 1 .. n : s[i] = 10 * s[i - 1] + d[i]
    BY <1>5 DEF IsSum
  <2> HIDE DEF Sum
  <2>3. Apart = {}
    <3>1. SUFFICES ASSUME Apart # {} PROVE FALSE
      OBVIOUS
    <3>2. Apart \in SUBSET Nat
      OBVIOUS
    <3>3. PICK m \in Apart : \A k \in Apart : m <= k
      <4> HIDE DEF Apart
      <4> QED BY <3>1, <3>2, LeastNumber
    <3>4. m \in 1 .. n /\ m - 1 \in 0 .. n /\ m - 1 \notin Apart
      BY <1>2, <2>1, <2>2, <3>3
    <3> QED BY <2>1, <2>2, <3>3, <3>4
  <2> QED BY <2>1, <2>2, <2>3
<1> HIDE DEF sum, Sum
<1> QED BY <1>1, <1>3, <1>4, <1>5, <1>7, <1>8 DEF d, n

LEMMA TensDecide ==
  ASSUME NEW x \in Nat, NEW y \in Nat, NEW p \in Digits, NEW q \in Digits
  PROVE  /\ x < y => 10 * x + p < 10 * y + q
         /\ p < q => 10 * x + p < 10 * x + q
BY DEF Digits

\* Of two numbers of equally many digits the first digit that differs decides.
LEMMA FirstDifferenceDecides ==
  ASSUME NEW n \in Nat, NEW a \in [1 .. n -> Digits], NEW b \in [1 .. n -> Digits],
         NEW s, NEW t, IsSum(s, a, n), IsSum(t, b, n),
         ~\E k \in 1 .. n : b[k] < a[k] /\ \A i \in 1 .. k - 1 : a[i] = b[i]
  PROVE  s[n] <= t[n]
<1> DEFINE Same(i) == \A j \in 1 .. i : a[j] = b[j]
           Upto(i) == (s[i] = t[i] /\ Same(i)) \/ s[i] < t[i]
           Wrong == {i \in 0 .. n : ~Upto(i)}
<1>1. /\ s \in [0 .. n -> Nat] /\ s[0] = 0 /\ \A i \in 1 .. n : s[i] = 10 * s[i - 1] + a[i]
      /\ t \in [0 .. n -> Nat] /\ t[0] = 0 /\ \A i \in 1 .. n : t[i] = 10 * t[i - 1] + b[i]
  BY DEF IsSum
<1>2. Wrong = {}
  <2>1. SUFFICES ASSUME Wrong # {} PROVE FALSE
    OBVIOUS
  <2>2. Wrong \in SUBSET Nat
    OBVIOUS
  <2>3. PICK m \in Wrong : \A k \in Wrong : m <= k
    <3> HIDE DEF Wrong
    <3> QED BY <2>1, <2>2, LeastNumber
  <2>4. m # 0
    BY <1>1, <2>3
  <2>5. m \in 1 .. n /\ m - 1 \in 0 .. n /\ m - 1 \notin Wrong
    BY <2>3, <2>4
  <2>6. Upto(m - 1)
    BY <2>5
  <2>7. a[m] \in Digits /\ b[m] \in Digits /\ s[m - 1] \in Nat /\ t[m - 1] \in Nat
    BY <1>1, <2>5
  <2>8. s[m] = 10 * s[m - 1] + a[m] /\ t[m] = 10 * t[m - 1] + b[m]
    BY <1>1, <2>5
  <2>9. CASE s[m - 1] = t[m - 1] /\ Same(m - 1)
    <3>1. ~(b[m] < a[m])
      BY <2>5, <2>9
    <3>2. a[m] = b[m] => Same(m)
      BY <2>5, <2>9
    <3>3. a[m] = b[m] \/ a[m] < b[m]
      BY <2>7, <3>1 DEF Digits
    <3>4. a[m] = b[m] => s[m] = t[m]
      BY <2>8, <2>9
    <3>5. a[m] < b[m] => s[m] < t[m]
      BY <2>7, <2>8, <2>9, TensDecide
    <3> HIDE DEF Same
    <3>6. Upto(m)
      BY <3>2, <3>3, <3>4, <3>5
    <3> QED BY <2>3, <3>6
  <2>10. CASE s[m - 1] < t[m - 1]
    <3>1. s[m] < t[m]
      BY <2>7, <2>8, <2>10, TensDecide
    <3> QED BY <2>3, <3>1
  <2> QED BY <2>6, <2>9, <2>10
<1>3. Upto(n)
  <2>1. n \in 0 .. n
    OBVIOUS
  <2> QED BY <1>2, <2>1
<1>4. s[n] \in Nat /\ t[n] \in Nat
  BY <1>1
<1> QED BY <1>3, <1>4

LEMMA TrimmedStart ==
  ASSUME NEW s \in Seq(Digits)
  PROVE  LET a == trim_start(s)
         IN  /\ a \in Seq(Digits) /\ Len(a) <= Len(s)
             /\ a # <<>> => a[1] # 0
             /\ \A i \in 1 .. Len(s) - Len(a) : s[i] = 0
             /\ \A i \in 1 .. Len(a) : s[Len(s) - Len(a) + i] = a[i]
<1> DEFINE kept == {i \in DOMAIN s : s[i] # 0}
           first == CHOOSE i \in kept : \A j \in kept : i <= j
           a == trim_start(s)
<1>1. CASE kept = {}
  <2>1. a = <<>>
    BY <1>1 DEF trim_start
  <2> QED BY <1>1, <2>1
<1>2. CASE kept # {}
  <2>1. kept \in SUBSET Nat
    OBVIOUS
  <2>2. a = SubSeq(s, first, Len(s))
    BY <1>2 DEF trim_start
  <2>3. first \in kept /\ \A j \in kept : first <= j
    <3> HIDE DEF kept
    <3> QED BY <1>2, <2>1, LeastNumber
  <2> HIDE DEF first, a
  <2>4. /\ first \in 1 .. Len(s) /\ s[first] # 0
        /\ \A j \in 1 .. first - 1 : s[j] = 0
    BY <2>3
  <2>5. a \in Seq(Digits) /\ Len(a) = Len(s) - first + 1 /\ \A i \in 1 .. Len(a) : a[i] = s[first + i - 1]
    BY <2>2, <2>4
  <2>6. /\ a # <<>> => a[1] # 0
        /\ \A i \in 1 .. Len(s) - Len(a) : s[i] = 0
        /\ \A i \in 1 .. Len(a) : s[Len(s) - Len(a) + i] = a[i]
    BY <2>4, <2>5
  <2> QED BY <2>4, <2>5, <2>6 DEF a
<1> QED BY <1>1, <1>2

LEMMA TrimmedEnd ==
  ASSUME NEW s \in Seq(Digits)
  PROVE  LET t == trim_end(s)
         IN  /\ t \in Seq(Digits) /\ Len(t) <= Len(s)
             /\ \A i \in 1 .. Len(t) : t[i] = s[i]
             /\ \A i \in Len(t) + 1 .. Len(s) : s[i] = 0
<1> DEFINE kept == {i \in DOMAIN s : s[i] # 0}
           last == CHOOSE i \in kept : \A j \in kept : j <= i
           t == trim_end(s)
<1>1. CASE kept = {}
  <2>1. t = <<>>
    BY <1>1 DEF trim_end
  <2> QED BY <1>1, <2>1
<1>2. CASE kept # {}
  <2>1. kept \in SUBSET (1 .. Len(s)) /\ Len(s) \in Nat
    OBVIOUS
  <2>2. t = SubSeq(s, 1, last)
    BY <1>2 DEF trim_end
  <2>3. last \in kept /\ \A j \in kept : j <= last
    <3> HIDE DEF kept
    <3> DEFINE above == {n \in Nat : \A j \in kept : j <= n}
    <3>1. Len(s) \in above
      BY <2>1
    <3>2. above \in SUBSET Nat /\ above # {}
      BY <3>1
    <3>3. PICK m \in above : \A n \in above : m <= n
      BY <3>2, LeastNumber
    <3>4. m \in kept
      <4>1. m # 0
        <5>1. PICK j \in kept : TRUE
          BY <1>2
        <5>2. j \in 1 .. Len(s) /\ j <= m
          BY <2>1, <3>3, <5>1
        <5> QED BY <5>2
      <4>2. m - 1 \in Nat /\ m - 1 \notin above
        BY <3>3, <4>1
      <4> QED BY <2>1, <3>3, <4>2
    <3> QED BY <3>3, <3>4
  <2> HIDE DEF last, t
  <2>4. /\ last \in 1 .. Len(s)
        /\ \A j \in last + 1 .. Len(s) : s[j] = 0
    BY <2>3
  <2>5. t \in Seq(Digits) /\ Len(t) = last /\ \A i \in 1 .. last : t[i] = s[i]
    BY <2>2, <2>4
  <2> QED BY <2>4, <2>5 DEF t
<1> QED BY <1>1, <1>2

\* A decimal written with size digits before the point and places after it.
Aligned(decimal, size, places) ==
  LET whole    == trim_start(decimal.whole)
      fraction == trim_end(decimal.fraction)
  IN  [i \in 1 .. size + places |->
         IF i <= size - Len(whole) THEN 0
         ELSE IF i <= size THEN whole[i - (size - Len(whole))]
         ELSE IF i - size <= Len(fraction) THEN fraction[i - size] ELSE 0]

LEMMA WorthWhenAligned ==
  ASSUME NEW decimal \in [whole : Seq(Digits), fraction : Seq(Digits)],
         NEW places \in Nat, NEW size \in Nat, Len(decimal.whole) <= size
  PROVE  LET d == Aligned(decimal, size, places)
             n == size + places
         IN  /\ d \in [1 .. n -> Digits]
             /\ \E s : IsSum(s, d, n) /\ Worth(decimal, places) = s[n]
<1> DEFINE d == Aligned(decimal, size, places)
           n == size + places
           e == DigitsOf(decimal, places)
           m == Len(decimal.whole) + places
           whole    == trim_start(decimal.whole)
           fraction == trim_end(decimal.fraction)
           shift == size - Len(decimal.whole)
<1>1. /\ whole \in Seq(Digits) /\ Len(whole) <= Len(decimal.whole)
      /\ \A i \in 1 .. Len(decimal.whole) - Len(whole) : decimal.whole[i] = 0
      /\ \A i \in 1 .. Len(whole) : decimal.whole[Len(decimal.whole) - Len(whole) + i] = whole[i]
  BY TrimmedStart
<1>2. /\ fraction \in Seq(Digits) /\ Len(fraction) <= Len(decimal.fraction)
      /\ \A i \in 1 .. Len(fraction) : fraction[i] = decimal.fraction[i]
      /\ \A i \in Len(fraction) + 1 .. Len(decimal.fraction) : decimal.fraction[i] = 0
  BY TrimmedEnd
<1>3. /\ decimal.whole \in Seq(Digits) /\ decimal.fraction \in Seq(Digits)
      /\ Len(decimal.whole) \in Nat /\ Len(decimal.fraction) \in Nat
      /\ Len(whole) \in Nat /\ Len(fraction) \in Nat
  BY <1>1, <1>2
<1>4. shift \in Nat /\ n \in Nat /\ m \in Nat /\ n = shift + m
  BY <1>3
<1>5. d = [i \in 1 .. n |->
             IF i <= size - Len(whole) THEN 0
             ELSE IF i <= size THEN whole[i - (size - Len(whole))]
             ELSE IF i - size <= Len(fraction) THEN fraction[i - size] ELSE 0]
  BY DEF Aligned
<1>6. /\ e \in [1 .. m -> Digits]
      /\ \E s : IsSum(s, e, m) /\ Worth(decimal, places) = s[m]
  BY WorthIsSum
<1>7. e = [i \in 1 .. m |->
             IF i <= Len(decimal.whole) THEN decimal.whole[i]
             ELSE IF i - Len(decimal.whole) <= Len(decimal.fraction)
               THEN decimal.fraction[i - Len(decimal.whole)] ELSE 0]
  BY DEF DigitsOf
<1> HIDE DEF whole, fraction, d, e
<1>8. \A i \in 1 .. shift : d[i] = 0
  BY <1>1, <1>3, <1>4, <1>5
<1>9. ASSUME NEW i \in 1 .. m PROVE d[shift + i] = e[i]
  <2>1. shift + i \in 1 .. n
    BY <1>4
  <2>2. CASE i <= Len(decimal.whole) - Len(whole)
    <3>1. d[shift + i] = 0
      BY <1>3, <1>4, <1>5, <2>1, <2>2
    <3>2. e[i] = 0
      BY <1>1, <1>3, <1>4, <1>7, <2>2
    <3> QED BY <3>1, <3>2
  <2>3. CASE i > Len(decimal.whole) - Len(whole) /\ i <= Len(decimal.whole)
    <3> DEFINE j == i - (Len(decimal.whole) - Len(whole))
    <3>1. j \in 1 .. Len(whole) /\ Len(decimal.whole) - Len(whole) + j = i
      BY <1>3, <2>3
    <3>2. d[shift + i] = whole[j]
      BY <1>3, <1>4, <1>5, <2>1, <2>3
    <3>3. e[i] = decimal.whole[i]
      BY <1>7, <2>3
    <3> QED BY <1>1, <3>1, <3>2, <3>3
  <2>4. CASE i > Len(decimal.whole)
    <3> DEFINE j == i - Len(decimal.whole)
    <3>1. j \in Nat \ {0} /\ shift + i - size = j /\ ~(shift + i <= size)
      BY <1>3, <1>4, <2>4
    <3>2. d[shift + i] = IF j <= Len(fraction) THEN fraction[j] ELSE 0
      BY <1>1, <1>3, <1>4, <1>5, <2>1, <2>4, <3>1
    <3>3. e[i] = IF j <= Len(decimal.fraction) THEN decimal.fraction[j] ELSE 0
      BY <1>7, <2>4
    <3> HIDE DEF j
    <3> QED BY <1>2, <1>3, <3>1, <3>2, <3>3
  <2> QED BY <1>3, <2>2, <2>3, <2>4
<1>10. d \in [1 .. n -> Digits]
  <2>1. \A i \in 1 .. n : d[i] \in Digits
    <3>1. 0 \in Digits
      BY DEF Digits
    <3>2. \A i \in 1 .. n : i > shift => i - shift \in 1 .. m /\ shift + (i - shift) = i
      BY <1>4
    <3>3. \A j \in 1 .. m : e[j] \in Digits
      BY <1>6
    <3>4. \A i \in 1 .. n : i \in 1 .. shift \/ i > shift
      BY <1>4
    <3> HIDE DEF shift, m, n
    <3> QED BY <1>8, <1>9, <3>1, <3>2, <3>3, <3>4
  <2> QED BY <1>5, <2>1
<1>11. PICK s : IsSum(s, e, m) /\ Worth(decimal, places) = s[m]
  BY <1>6
<1> DEFINE t == [i \in 0 .. n |-> IF i <= shift THEN 0 ELSE s[i - shift]]
<1>12. s \in [0 .. m -> Nat] /\ s[0] = 0 /\ \A i \in 1 .. m : s[i] = 10 * s[i - 1] + e[i]
  BY <1>11 DEF IsSum
<1>13. IsSum(t, d, n) /\ t[n] = s[m]
  <2> HIDE DEF shift, n, m
  <2>1. t \in [0 .. n -> Nat] /\ t[0] = 0
    BY <1>4, <1>12
  <2>2. t[n] = s[m]
    BY <1>4, <1>12
  <2>3. ASSUME NEW i \in 1 .. n PROVE t[i] = 10 * t[i - 1] + d[i]
    <3>1. CASE i <= shift
      <4>1. t[i] = 0 /\ t[i - 1] = 0 /\ d[i] = 0
        BY <1>4, <1>8, <3>1
      <4> QED BY <4>1
    <3>2. CASE i > shift
      <4> DEFINE j == i - shift
      <4>1. j \in 1 .. m /\ shift + j = i /\ s[j] = 10 * s[j - 1] + e[j]
        BY <1>4, <1>12, <3>2
      <4>2. d[i] = e[j]
        BY <1>9, <4>1
      <4>3. t[i] = s[j]
        BY <1>4, <3>2
      <4>4. t[i - 1] = s[j - 1]
        <5>1. i - 1 \in 0 .. n /\ j - 1 = i - 1 - shift /\ (i - 1 <= shift => j - 1 = 0)
          BY <1>4, <3>2
        <5>2. t[i - 1] = IF i - 1 <= shift THEN 0 ELSE s[i - 1 - shift]
          BY <5>1
        <5> QED BY <1>12, <5>1, <5>2
      <4> QED BY <4>1, <4>2, <4>3, <4>4
    <3> QED BY <1>4, <3>1, <3>2
  <2> HIDE DEF t
  <2> QED BY <2>1, <2>2, <2>3 DEF IsSum
<1> HIDE DEF t
<1> QED BY <1>10, <1>11, <1>13 DEF d

(***************************************************************************)
(* compare_decimals (validation.rs:652-667) is the order of what the       *)
(* decimals are worth: a range that it admits has no minimum above its     *)
(* maximum, to any number of places.                                       *)
(***************************************************************************)
LEMMA AdmittedRange ==
  ASSUME NEW left \in [whole : Seq(Digits), fraction : Seq(Digits)],
         NEW right \in [whole : Seq(Digits), fraction : Seq(Digits)],
         NEW places \in Nat, ~exceeds(left, right)
  PROVE  Worth(left, places) <= Worth(right, places)
<1> DEFINE size == Len(left.whole) + Len(right.whole)
           n == size + places
           l == Aligned(left, size, places)
           r == Aligned(right, size, places)
           a == trim_start(left.whole)
           b == trim_start(right.whole)
           s == trim_end(right.fraction)
           t == trim_end(left.fraction)
<1>1. /\ left.whole \in Seq(Digits) /\ right.whole \in Seq(Digits)
      /\ left.fraction \in Seq(Digits) /\ right.fraction \in Seq(Digits)
      /\ Len(left.whole) \in Nat /\ Len(right.whole) \in Nat
      /\ size \in Nat /\ n \in Nat /\ Len(left.whole) <= size /\ Len(right.whole) <= size
  OBVIOUS
<1>2. /\ a \in Seq(Digits) /\ Len(a) \in Nat /\ Len(a) <= size
      /\ a # <<>> => a[1] # 0
      /\ b \in Seq(Digits) /\ Len(b) \in Nat /\ Len(b) <= size
      /\ b # <<>> => b[1] # 0
  BY <1>1, TrimmedStart
<1>3. s \in Seq(Digits) /\ Len(s) \in Nat /\ t \in Seq(Digits) /\ Len(t) \in Nat
  BY <1>1, TrimmedEnd
<1>4. /\ ~(Len(a) > Len(b))
      /\ ~(Len(a) = Len(b) /\ Before(b, a))
      /\ ~(a = b /\ Before(s, t))
  BY DEF exceeds
<1>5. /\ l \in [1 .. n -> Digits]
      /\ \E x : IsSum(x, l, n) /\ Worth(left, places) = x[n]
      /\ r \in [1 .. n -> Digits]
      /\ \E x : IsSum(x, r, n) /\ Worth(right, places) = x[n]
  BY <1>1, WorthWhenAligned
<1>6. l = [i \in 1 .. n |-> IF i <= size - Len(a) THEN 0
                            ELSE IF i <= size THEN a[i - (size - Len(a))]
                            ELSE IF i - size <= Len(t) THEN t[i - size] ELSE 0]
  BY DEF Aligned
<1>7. r = [i \in 1 .. n |-> IF i <= size - Len(b) THEN 0
                            ELSE IF i <= size THEN b[i - (size - Len(b))]
                            ELSE IF i - size <= Len(s) THEN s[i - size] ELSE 0]
  BY DEF Aligned
<1>8. n = size + places
  OBVIOUS
<1> HIDE DEF size, n, l, r, a, b, s, t
<1>9. ASSUME NEW k \in 1 .. n, r[k] < l[k], \A i \in 1 .. k - 1 : l[i] = r[i]
      PROVE  FALSE
  <2>1. l[k] \in Nat /\ r[k] \in Nat /\ l[k] # 0
    <3>1. l[k] \in Digits /\ r[k] \in Digits
      BY <1>5
    <3> QED BY <1>9, <3>1 DEF Digits
  <2>2. ASSUME Len(a) < Len(b) PROVE FALSE
    <3> DEFINE p == size - Len(b) + 1
    <3>1. p \in 1 .. size /\ p \in 1 .. n /\ p <= size - Len(a) /\ ~(p <= size - Len(b))
          /\ p - (size - Len(b)) = 1 /\ b # <<>>
      BY <1>1, <1>2, <1>8, <2>2
    <3>2. l[p] = 0 /\ r[p] = b[1] /\ r[p] # 0
      BY <1>2, <1>6, <1>7, <3>1
    <3>3. ~(p < k)
      BY <1>9, <3>1, <3>2
    <3>4. k <= size - Len(a)
      BY <1>1, <1>2, <3>1, <3>3
    <3>5. l[k] = 0
      BY <1>6, <3>4
    <3> QED BY <2>1, <3>5
  <2>3. Len(a) = Len(b)
    BY <1>2, <1>4, <2>2
  <2>4. CASE k <= size
    <3> DEFINE m == k - (size - Len(a))
    <3>1. k > size - Len(a)
      BY <1>1, <1>2, <1>6, <2>1
    <3>2. m \in 1 .. Len(a) /\ l[k] = a[m] /\ r[k] = b[m]
      BY <1>1, <1>2, <1>6, <1>7, <2>3, <2>4, <3>1
    <3>3. ASSUME NEW j \in 1 .. m - 1 PROVE b[j] = a[j]
      <4> DEFINE i == size - Len(a) + j
      <4>1. i \in 1 .. k - 1 /\ i \in 1 .. n /\ i <= size /\ ~(i <= size - Len(a)) /\ i - (size - Len(a)) = j
        BY <1>1, <1>2, <1>8, <2>4, <3>2
      <4>2. l[i] = a[j] /\ r[i] = b[j]
        BY <1>6, <1>7, <2>3, <4>1
      <4> QED BY <1>9, <4>1, <4>2
    <3>4. m \in 1 .. Len(a) /\ m <= Len(b) + 1 /\ b[m] < a[m]
      BY <1>2, <1>9, <2>3, <3>2
    <3> HIDE DEF m
    <3>5. Before(b, a)
      BY <3>3, <3>4 DEF Before
    <3> QED BY <1>4, <2>3, <3>5
  <2>5. CASE k > size
    <3>1. a = b
      <4>1. ASSUME NEW j \in 1 .. Len(a) PROVE a[j] = b[j]
        <5> DEFINE i == size - Len(a) + j
        <5>1. i \in 1 .. k - 1 /\ i \in 1 .. n /\ i <= size /\ ~(i <= size - Len(a)) /\ i - (size - Len(a)) = j
          BY <1>1, <1>2, <1>8, <2>5
        <5>2. l[i] = a[j] /\ r[i] = b[j]
          BY <1>6, <1>7, <2>3, <5>1
        <5> QED BY <1>9, <5>1, <5>2
      <4> QED BY <1>2, <2>3, <4>1, SeqEqual
    <3> DEFINE m == k - size
    <3>2. \A j \in 1 .. m : /\ l[size + j] = IF j <= Len(t) THEN t[j] ELSE 0
                            /\ r[size + j] = IF j <= Len(s) THEN s[j] ELSE 0
      <4>1. ASSUME NEW j \in 1 .. m
            PROVE  /\ l[size + j] = IF j <= Len(t) THEN t[j] ELSE 0
                   /\ r[size + j] = IF j <= Len(s) THEN s[j] ELSE 0
        <5> DEFINE i == size + j
        <5>1. /\ i \in 1 .. n /\ ~(i <= size - Len(a)) /\ ~(i <= size - Len(b))
              /\ ~(i <= size) /\ i - size = j
          BY <1>1, <1>2, <1>8, <2>5
        <5> HIDE DEF i, m
        <5>2. /\ l[i] = IF j <= Len(t) THEN t[j] ELSE 0
              /\ r[i] = IF j <= Len(s) THEN s[j] ELSE 0
          BY <1>6, <1>7, <5>1
        <5> QED BY <5>2 DEF i
      <4> QED BY <4>1
    <3>3. m \in 1 .. m /\ size + m = k /\ \A j \in 1 .. m - 1 : size + j \in 1 .. k - 1
      BY <1>1, <1>8, <2>5
    <3>4. m <= Len(t) /\ l[k] = t[m]
      BY <1>3, <2>1, <3>2, <3>3
    <3>5. \A j \in 1 .. m - 1 : j <= Len(s) => s[j] = t[j]
      <4>1. ASSUME NEW j \in 1 .. m - 1, j <= Len(s) PROVE s[j] = t[j]
        <5>1. j \in 1 .. m /\ size + j \in 1 .. k - 1 /\ j <= Len(t)
          BY <1>3, <3>3, <3>4, <4>1
        <5>2. l[size + j] = r[size + j]
          BY <1>9, <5>1
        <5> HIDE DEF m
        <5> QED BY <3>2, <4>1, <5>1, <5>2
      <4> QED BY <4>1
    <3>6. CASE m <= Len(s)
      <4>1. s[m] < t[m]
        BY <1>9, <3>2, <3>3, <3>4, <3>6
      <4>2. m \in 1 .. Len(t) /\ m <= Len(s) + 1
        BY <1>3, <3>3, <3>4, <3>6
      <4>3. \A j \in 1 .. m - 1 : s[j] = t[j]
        BY <1>3, <3>3, <3>5, <3>6
      <4> HIDE DEF m
      <4>4. Before(s, t)
        BY <4>1, <4>2, <4>3 DEF Before
      <4> QED BY <1>4, <3>1, <4>4
    <3>7. CASE m > Len(s)
      <4> DEFINE e == Len(s) + 1
      <4>1. e \in 1 .. Len(t) /\ e <= Len(s) + 1 /\ ~(e <= Len(s))
        BY <1>3, <3>3, <3>4, <3>7
      <4>2. \A j \in 1 .. e - 1 : s[j] = t[j]
        BY <1>3, <3>3, <3>5, <3>7
      <4> HIDE DEF e
      <4>3. Before(s, t)
        BY <4>1, <4>2 DEF Before
      <4> QED BY <1>4, <3>1, <4>3
    <3> QED BY <1>3, <3>3, <3>6, <3>7
  <2> QED BY <1>1, <1>8, <2>4, <2>5
<1> QED BY <1>1, <1>5, <1>9, FirstDifferenceDecides

(***************************************************************************)
(* Whatever the Catalog returns (service.rs:825-936, validation.rs:564-    *)
(* 660), what is published is sound: the resource that was asked for, no   *)
(* more items than the limit, no continuation that is the request itself,  *)
(* Actions of different names, no price whose minimum is worth more than   *)
(* its maximum, and no Collection that is its own parent.                  *)
(***************************************************************************)
LEMMA AdmittedOffering ==
  ASSUME NEW offering, parse_offering(offering), PricedInDecimals(offering)
  PROVE  SoundOffering(offering)
<1>1. UniqueActions(offering)
  BY DEF parse_offering, offering_issues
<1>2. \A i, j \in DOMAIN offering.actions :
        i # j => offering.actions[i].id # offering.actions[j].id
  BY <1>1 DEF UniqueActions, IsInjective
<1>3. ASSUME offering.price # None, offering.price.type = "range"
      PROVE  Worth(offering.price.minimum, Places) <= Worth(offering.price.maximum, Places)
  <2>1. ~exceeds(offering.price.minimum, offering.price.maximum)
    BY <1>3 DEF parse_offering, offering_issues
  <2>2. offering.price.minimum \in Decimals /\ offering.price.maximum \in Decimals
    BY <1>3 DEF PricedInDecimals
  <2>3. Places \in Nat
    BY DEF Places
  <2> QED BY <2>1, <2>2, <2>3, AdmittedRange DEF Decimals
<1> QED BY <1>2, <1>3 DEF SoundOffering

\* PublishedIsSound (service.rs:825-936, validation.rs:564-660): for any answers of a
\* Catalog, whatever the Service publishes is what was asked for, in order and unambiguous.
THEOREM WhatIsPublishedIsSound == Spec => []PublishedIsSound
<1>1. ASSUME IInv, reply # None, reply.answer # None, reply.response.status = 200
      PROVE  LET answer == reply.answer
                 items  == IF answer.kind = "page" THEN answer.page.items ELSE <<answer.item>>
             IN  /\ asked.id # None /\ answer.kind = "resource" => answer.item.id = asked.id
                 /\ asked.limit # 0 => Len(items) <= asked.limit
                 /\ answer.kind = "page" /\ answer.page.next # None /\ answer.page.next.origin = "home"
                      => <<answer.page.next.path, answer.page.next.query>> # <<request.path, request.query>>
                 /\ \A i \in DOMAIN items :
                      IF OfOfferings(asked.handler) THEN SoundOffering(items[i])
                      ELSE items[i].id \notin items[i].parent_ids
  <2> DEFINE answer == reply.answer
             items  == IF answer.kind = "page" THEN answer.page.items ELSE <<answer.item>>
  <2>1. /\ asked # None /\ answer \in CatalogAnswers[asked.handler]
        /\ Holds(asked, request, answer)
    BY <1>1, ReplyIs DEF Failures
  <2>2. asked.handler \in Handlers
    BY <1>1, <2>1, AskedIsNoDocument
  <2>3. asked.limit \in Nat
    <3>1. asked.limit \in 0 .. MaximumLimit /\ MaximumLimit \in Nat
      BY <1>1, <2>1, IInvTypeOK, RouterAssumption DEF TypeOK, RouterAssumption
    <3> QED BY <3>1
  <2>4. /\ answer.kind = "page" =>
             /\ answer.page.items \in Seq(Range(answer.page.items))
             /\ answer.page.next = None \/ answer.page.next \in Continuations
        /\ answer.kind = "resource" => IsItem(ItemKind(asked.handler), answer.item)
        /\ answer.kind = "page" =>
             \A item \in Range(answer.page.items) : IsItem(ItemKind(asked.handler), item)
    BY <2>1, <2>2, AnswersAssumption DEF AnswersAssumption
  <2>5. ASSUME NEW item, ValidItem(ItemKind(asked.handler), item, asked.representation),
               IsItem(ItemKind(asked.handler), item)
        PROVE  IF OfOfferings(asked.handler) THEN SoundOffering(item) ELSE item.id \notin item.parent_ids
    <3>1. CASE OfOfferings(asked.handler)
      <4>1. parse_offering(item) /\ PricedInDecimals(item)
        BY <2>5, <3>1 DEF ValidItem, ItemKind, IsItem
      <4> QED BY <2>5, <3>1, <4>1, AdmittedOffering
    <3>2. CASE ~OfOfferings(asked.handler)
      BY <2>5, <3>2 DEF ValidItem, ItemKind, parse_collection, collection_issues
    <3> QED BY <3>1, <3>2
  <2>6. CASE answer.kind = "page"
    <3>1. ValidPage(asked, answer.page, request)
      BY <2>1, <2>6 DEF Holds
    <3>2. asked.limit # 0 => Len(items) <= asked.limit
      BY <2>6, <3>1 DEF ValidPage, validate_page_envelope
    <3>3. ASSUME answer.page.next # None, answer.page.next.origin = "home",
                 answer.page.next.path = request.path, answer.page.next.query = request.query
          PROVE  FALSE
      <4>1. answer.page.next = [origin |-> "home", path |-> request.path, query |-> request.query]
        BY <2>4, <2>6, <3>3 DEF Continuations
      <4> QED BY <3>1, <3>3, <4>1 DEF ValidPage, validate_page_envelope
    <3>4. ASSUME NEW i \in DOMAIN answer.page.items
          PROVE  IF OfOfferings(asked.handler) THEN SoundOffering(answer.page.items[i])
                 ELSE answer.page.items[i].id \notin answer.page.items[i].parent_ids
      <4>1. answer.page.items[i] \in Range(answer.page.items)
        BY DEF Range
      <4>2. ValidItem(ItemKind(asked.handler), answer.page.items[i], asked.representation)
        BY <3>1 DEF ValidPage
      <4> QED BY <2>4, <2>5, <2>6, <4>1, <4>2
    <3> QED BY <2>6, <3>2, <3>3, <3>4
  <2>7. CASE answer.kind = "resource"
    <3>1. answer.item.id = asked.id /\ ValidItem(ItemKind(asked.handler), answer.item, asked.representation)
      BY <2>1, <2>7 DEF Holds
    <3>2. items = <<answer.item>>
      BY <2>7
    <3>3. Len(<<answer.item>>) = 1 /\ DOMAIN <<answer.item>> = {1} /\ <<answer.item>>[1] = answer.item
      OBVIOUS
    <3>4. asked.limit # 0 => 1 <= asked.limit
      BY <2>3
    <3>5. IF OfOfferings(asked.handler) THEN SoundOffering(answer.item)
          ELSE answer.item.id \notin answer.item.parent_ids
      BY <2>4, <2>5, <2>7, <3>1
    <3> HIDE DEF items
    <3> QED BY <2>7, <3>1, <3>2, <3>3, <3>4, <3>5 DEF items
  <2> QED BY <2>1, <2>6, <2>7 DEF Holds
<1>2. IInv => PublishedIsSound
  BY <1>1 DEF PublishedIsSound
<1> QED BY <1>2, Inductive, PTL
-----------------------------------------------------------------------------
(***************************************************************************)
(* Language Lookup serves the document's own languages, and by the client's*)
(* weights: the range that decides is weighed no less than any other that  *)
(* finds a localization, and serves the longest one it accepts.            *)
(***************************************************************************)
LEMMA SelectedIsBest ==
  ASSUME NEW d, Serves(d), NEW field \in Seq(LanguageRanges), field # None,
         NEW i \in DOMAIN field, field[i].weight > 0,
         NEW accepted \in ServiceAt(d).localizations, Accepts(field[i].range, accepted)
  PROVE  LET tags   == ServiceAt(d).localizations
             served == select_language(ServiceAt(d), field)
         IN  \E j \in DOMAIN field :
               /\ field[j].weight >= field[i].weight
               /\ IF field[j].range = <<"*">> THEN served = ServiceAt(d).language
                  ELSE Accepts(field[j].range, served)
               /\ i = j => \A tag \in tags : Accepts(field[i].range, tag) => Len(tag) <= Len(served)
<1> DEFINE document == ServiceAt(d)
           tags     == document.localizations
           served   == select_language(document, field)
           acceptable == {k \in DOMAIN field : field[k].weight > 0}
           ranges   == ranges_by_weight(field)
           decides  == {n \in DOMAIN ranges : \/ ranges[n].range = <<"*">>
                                              \/ Found(ranges[n].range, tags) # {}}
           first    == CHOOSE n \in decides : \A m \in decides : n <= m
           range    == ranges[first].range
<1>1. /\ tags \in SUBSET Seq(STRING) /\ IsFiniteSet(tags)
      /\ \A tag \in tags : tag # <<>> /\ Last(tag) # "x"
  BY DocumentMembersKept
<1>2. DOMAIN ranges \in SUBSET Nat
  BY RangesByWeight
<1>3. PICK place \in [acceptable -> DOMAIN ranges], from \in [DOMAIN ranges -> acceptable] :
        /\ \A k \in acceptable : ranges[place[k]] = field[k] /\ from[place[k]] = k
        /\ \A n \in DOMAIN ranges : ranges[n] = field[from[n]]
        /\ \A n, m \in DOMAIN ranges : n <= m => field[from[n]].weight >= field[from[m]].weight
  BY RangesByWeight
<1>4. served = IF decides = {} \/ range = <<"*">> THEN document.language
               ELSE Longest(Found(range, tags))
  BY DEF select_language
<1>5. \A k \in DOMAIN field : field[k].range \in Seq(STRING) /\ field[k].range # <<>>
  <2>1. \A k \in DOMAIN field : field[k] \in LanguageRanges
    BY ElementOfSeq, LenProperties
  <2> QED BY <2>1 DEF LanguageRanges
<1>6. i \in acceptable /\ accepted \in tags
  OBVIOUS
<1> HIDE DEF acceptable, ranges, document, served
<1>7. place[i] \in decides
  <2>1. field[i].range # <<"*">>
    BY DEF Accepts
  <2>2. accepted \in Found(field[i].range, tags)
    <3> HIDE DEF tags
    <3> QED BY <1>1, <1>5, <1>6, <2>1, FoundIsAccepted
  <2> QED BY <1>3, <1>6, <2>2
<1>8. first \in decides /\ \A m \in decides : first <= m
  <2>1. decides \in SUBSET Nat /\ decides # {}
    BY <1>2, <1>7
  <2> HIDE DEF decides
  <2> QED BY <2>1, LeastNumber
<1>9. first \in DOMAIN ranges /\ place[i] \in DOMAIN ranges /\ first <= place[i]
  BY <1>7, <1>8
<1>10. range = <<"*">> \/ Found(range, tags) # {}
  BY <1>8
<1> HIDE DEF first, decides, tags
<1> DEFINE j == from[first]
<1>11. /\ j \in acceptable /\ j \in DOMAIN field /\ range = field[j].range
       /\ field[j].weight >= field[i].weight
  <2>1. j \in acceptable /\ ranges[first] = field[j]
    BY <1>3, <1>9
  <2>2. field[j].weight >= field[from[place[i]]].weight
    BY <1>3, <1>9
  <2>3. from[place[i]] = i
    BY <1>3, <1>6
  <2> QED BY <2>1, <2>2, <2>3 DEF acceptable
<1> HIDE DEF j, range
<1>12. CASE range = <<"*">>
  <2>1. served = document.language
    BY <1>4, <1>12
  <2>2. i # j
    BY <1>11, <1>12 DEF Accepts
  <2> QED BY <1>11, <1>12, <2>1, <2>2 DEF served, document
<1>13. CASE range # <<"*">>
  <2> DEFINE found == Found(range, tags)
  <2>1. found # {} /\ found \in SUBSET tags
    BY <1>10, <1>13 DEF Found
  <2>2. served = Longest(found)
    BY <1>4, <1>7, <1>13
  <2>3. range \in Seq(STRING) /\ range # <<>>
    BY <1>5, <1>11
  <2>4. \A tag \in tags : tag \in found <=> Accepts(range, tag)
    BY <1>1, <1>13, <2>3, FoundIsAccepted
  <2> HIDE DEF found
  <2>5. IsFiniteSet(found) /\ found \in SUBSET Seq(STRING)
    BY <1>1, <2>1, FS_Subset
  <2>6. served \in found /\ \A tag \in found : Len(tag) <= Len(served)
    BY <2>1, <2>2, <2>5, LongestOf
  <2>7. Accepts(range, served) /\ \A tag \in tags : Accepts(range, tag) => Len(tag) <= Len(served)
    BY <2>1, <2>4, <2>6
  <2> QED BY <1>11, <1>13, <2>7 DEF served, tags, document
<1> QED BY <1>12, <1>13

\* BestVariant (service.rs:637-672,752-783): a representation is in one of the
\* document's localizations, and no range with a weight that finds one is passed over
\* for a range of less weight; of one range it is the longest that is served.
THEOREM TheBestVariantIsServed == Spec => []BestVariant
<1>1. ASSUME IInv, reply # None, reply.response.status = 200, request.accept_language # None
      PROVE  LET ranges == request.accept_language
                 tags   == ServiceAt(server).localizations
                 served == reply.response.language
                 finds(i) == \E tag \in tags : Accepts(ranges[i].range, tag)
             IN  /\ served \in tags
                 /\ \A i \in DOMAIN ranges : ranges[i].weight > 0 /\ finds(i) =>
                      \/ \E j \in DOMAIN ranges :
                           /\ ranges[j].weight >= ranges[i].weight
                           /\ IF ranges[j].range = <<"*">> THEN served = ServiceAt(server).language
                              ELSE Accepts(ranges[j].range, served)
                           /\ i = j => \A tag \in tags : Accepts(ranges[i].range, tag) => Len(tag) <= Len(served)
  <2> DEFINE field == request.accept_language
             served == select_language(ServiceAt(server), field)
  <2>1. Serves(server) /\ field \in Languages
    BY <1>1 DEF IInv, ReplyTrue, RequestTrue, IsRequest
  <2>2. reply.response.language = served
    BY <1>1, ReplyIs, RepresentedAnswer DEF Answers, Failures
  <2>3. field \in Seq(LanguageRanges)
    BY <1>1, <2>1 DEF Languages
  <2>4. served \in ServiceAt(server).localizations
    BY <2>1, SelectedIsLocalization
  <2>5. ASSUME NEW i \in DOMAIN field, field[i].weight > 0,
               \E tag \in ServiceAt(server).localizations : Accepts(field[i].range, tag)
        PROVE  \E j \in DOMAIN field :
                 /\ field[j].weight >= field[i].weight
                 /\ IF field[j].range = <<"*">> THEN served = ServiceAt(server).language
                    ELSE Accepts(field[j].range, served)
                 /\ i = j => \A tag \in ServiceAt(server).localizations :
                               Accepts(field[i].range, tag) => Len(tag) <= Len(served)
    <3>1. PICK accepted \in ServiceAt(server).localizations : Accepts(field[i].range, accepted)
      BY <2>5
    <3>2. Serves(server) /\ field \in Seq(LanguageRanges) /\ field # None
      BY <1>1, <2>1, <2>3
    <3> HIDE DEF field
    <3> QED BY <2>5, <3>1, <3>2, SelectedIsBest
  <2> HIDE DEF served
  <2> QED BY <2>2, <2>4, <2>5
<1>2. IInv => BestVariant
  BY <1>1 DEF BestVariant
<1> QED BY <1>2, Inductive, PTL
-----------------------------------------------------------------------------
(***************************************************************************)
(* What this version publishes it also reads: the vocabularies of the      *)
(* schemas are those an Agent knows, so that normalizing what was admitted *)
(* changes nothing.                                                        *)
(***************************************************************************)
LEMMA EverythingKept ==
  ASSUME NEW S, NEW list \in Seq(S)
  PROVE  Kept(list, DOMAIN list) = list
<1> DEFINE size   == Len(list)
           Upto(i) == {j \in DOMAIN list : j <= i}
<1>1. size \in Nat /\ DOMAIN list = 1 .. size /\ list = [n \in 1 .. size |-> list[n]]
  OBVIOUS
<1>2. \A i \in 0 .. size : IsFiniteSet(1 .. i) /\ Cardinality(1 .. i) = i
  <2>1. ASSUME NEW i \in 0 .. size PROVE IsFiniteSet(1 .. i) /\ Cardinality(1 .. i) = i
    <3>1. 1 \in Int /\ i \in Int /\ (IF 1 > i THEN 0 ELSE i - 1 + 1) = i
      OBVIOUS
    <3> QED BY <3>1, FS_Interval
  <2> QED BY <2>1
<1>3. Cardinality(DOMAIN list) = size
  BY <1>1, <1>2
<1>4. \A i \in 1 .. size : Cardinality(Upto(i)) = i
  <2>1. ASSUME NEW i \in 1 .. size PROVE Cardinality(Upto(i)) = i
    <3>1. Upto(i) = 1 .. i /\ i \in 0 .. size
      BY <1>1
    <3> QED BY <1>2, <3>1
  <2> QED BY <2>1
<1>5. Kept(list, DOMAIN list) =
        [n \in 1 .. size |-> list[CHOOSE i \in DOMAIN list : Cardinality(Upto(i)) = n]]
  BY <1>3 DEF Kept
<1> HIDE DEF Upto
<1>6. \A n \in 1 .. size : (CHOOSE i \in DOMAIN list : Cardinality(Upto(i)) = n) = n
  <2>1. ASSUME NEW n \in 1 .. size
        PROVE  (CHOOSE i \in DOMAIN list : Cardinality(Upto(i)) = n) = n
    <3>1. n \in DOMAIN list /\ Cardinality(Upto(n)) = n
      BY <1>1, <1>4
    <3>2. \A i \in DOMAIN list : Cardinality(Upto(i)) = n => i = n
      BY <1>1, <1>4
    <3> QED BY <3>1, <3>2
  <2> QED BY <2>1
<1> QED BY <1>1, <1>5, <1>6

LEMMA CapabilitiesRead ==
  ASSUME NEW c, IsCapabilities(c), c # None => CapabilitiesAllowed(c)
  PROVE  ReadCapabilities(c) = c
<1>1. CASE c = None
  BY <1>1 DEF ReadCapabilities
<1>2. CASE c # None
  <2>1. c \in [filters : SUBSET Values, sorts : SUBSET Values]
    BY <1>2 DEF IsCapabilities
  <2>2. c = [filters |-> c.filters, sorts |-> c.sorts]
    BY <2>1
  <2>3. New \notin c.filters /\ New \notin c.sorts /\ c # [filters |-> {}, sorts |-> {}]
    BY <1>2 DEF CapabilitiesAllowed
  <2>4. c.filters \ {New} = c.filters /\ c.sorts \ {New} = c.sorts
    BY <2>3
  <2> QED BY <2>2, <2>3, <2>4 DEF ReadCapabilities
<1> QED BY <1>1, <1>2

LEMMA ImagesRead ==
  ASSUME NEW images, images \in Seq(Range(images)), \A i \in DOMAIN images : KnownImage(images[i])
  PROVE  Kept(images, {i \in DOMAIN images : KnownImage(images[i])}) = images
<1>1. {i \in DOMAIN images : KnownImage(images[i])} = DOMAIN images
  OBVIOUS
<1> QED BY <1>1, EverythingKept

LEMMA OfferingRead ==
  ASSUME NEW o, IsItem("offering", o), OfferingAllowed(o)
  PROVE  normalize_offering(o) = o
<1> DEFINE images  == Kept(o.images, {i \in DOMAIN o.images : KnownImage(o.images[i])})
           actions == Kept(o.actions, {i \in DOMAIN o.actions : Understood(o.actions[i])})
<1>1. images = o.images
  BY ImagesRead DEF IsItem, OfferingAllowed
<1>2. actions = o.actions
  <2>1. {i \in DOMAIN o.actions : Understood(o.actions[i])} = DOMAIN o.actions
    BY DEF OfferingAllowed
  <2>2. o.actions \in Seq(Range(o.actions))
    BY DEF IsItem
  <2> QED BY <2>1, <2>2, EverythingKept
<1>3. /\ (IF o.price # None /\ o.price.type = New THEN None ELSE o.price) = o.price
      /\ (IF o.schema = New THEN None ELSE o.schema) = o.schema
      /\ (o.attributes /\ o.schema # New) = o.attributes
  BY DEF OfferingAllowed, IsItem
<1>4. o = [member \in DOMAIN o |-> o[member]]
  BY DEF IsItem, IsObject
<1> HIDE DEF images, actions
<1>5. normalize_offering(o) = [o EXCEPT !.images = o.images, !.price = o.price, !.schema = o.schema,
                                        !.attributes = o.attributes, !.actions = o.actions]
  BY <1>1, <1>2, <1>3 DEF normalize_offering, images, actions
<1> QED BY <1>4, <1>5

LEMMA CollectionRead ==
  ASSUME NEW c, IsItem("collection", c), CollectionAllowed(c)
  PROVE  normalize_collection(c) = c
<1>1. Kept(c.images, {i \in DOMAIN c.images : KnownImage(c.images[i])}) = c.images
  BY ImagesRead DEF IsItem, CollectionAllowed
<1>2. ReadCapabilities(c.capabilities) = c.capabilities
  BY CapabilitiesRead DEF IsItem, CollectionAllowed
<1>3. c = [member \in DOMAIN c |-> c[member]]
  BY DEF IsItem, IsObject
<1>4. normalize_collection(c) = [c EXCEPT !.images = c.images, !.capabilities = c.capabilities]
  BY <1>1, <1>2 DEF normalize_collection
<1> QED BY <1>3, <1>4

LEMMA ItemRead ==
  ASSUME NEW kind \in {"offering", "collection"}, NEW item, NEW representation,
         IsItem(kind, item), ValidItem(kind, item, representation)
  PROVE  Normalized(kind, item) = item /\ ReadableItem(kind, item)
<1>1. CASE kind = "offering"
  <2>1. OfferingAllowed(item)
    BY <1>1 DEF ValidItem, parse_offering
  <2>2. normalize_offering(item) = item
    BY <1>1, <2>1, OfferingRead
  <2> QED BY <1>1, <2>1, <2>2 DEF Normalized, ReadableItem
<1>2. CASE kind = "collection"
  <2>1. CollectionAllowed(item)
    BY <1>2 DEF ValidItem, parse_collection
  <2>2. normalize_collection(item) = item
    BY <1>2, <2>1, CollectionRead
  <2> QED BY <1>2, <2>1, <2>2 DEF Normalized, ReadableItem
<1> QED BY <1>1, <1>2

LEMMA ProtocolsRead ==
  ASSUME NEW p, IsProtocols(p), p # None => ProtocolsAllowed(p)
  PROVE  ReadProtocols(p) = p
<1>1. CASE p = None
  BY <1>1 DEF ReadProtocols
<1>2. CASE p # None
  <2> DEFINE named == [enrollment |-> p.enrollment \ {New}, payments |-> Named(p.payments),
                       trust |-> p.trust \ {New}]
             options(q) == [q EXCEPT !.options = @ \ {New}]
  <2>1. p \in [enrollment : SUBSET Values, trust : SUBSET Values,
               payments : SUBSET [name : Values, authentication : Values, options : SUBSET Values]]
    BY <1>2 DEF IsProtocols
  <2>2. p = [enrollment |-> p.enrollment, payments |-> p.payments, trust |-> p.trust]
    BY <2>1
  <2>3. /\ p # NoProtocols /\ New \notin p.enrollment /\ New \notin p.trust
        /\ \A q \in p.payments : q.name # New /\ q.authentication # New /\ New \notin q.options
    <3>1. ProtocolsAllowed(p)
      BY <1>2
    <3>2. New \notin {"aep", "tap", "mpp", "x402", "not-required", "required"}
      BY VocabularyAssumption DEF VocabularyAssumption, Authentication
    <3>3. p # NoProtocols /\ New \notin p.enrollment /\ New \notin p.trust
      BY <3>1, <3>2 DEF ProtocolsAllowed
    <3>4. \A q \in p.payments : q.name # New /\ q.authentication # New /\ New \notin q.options
      BY <3>1, <3>2 DEF ProtocolsAllowed
    <3> QED BY <3>3, <3>4
  <2>4. Named(p.payments) = p.payments /\ KnownAuthentication(p.payments) = p.payments
    BY <2>3 DEF Named, KnownAuthentication
  <2>5. named = p
    BY <2>2, <2>3, <2>4
  <2>6. ASSUME NEW q \in p.payments PROVE options(q) = q
    <3>1. q \in [name : Values, authentication : Values, options : SUBSET Values]
      BY <2>1
    <3>2. q.options \ {New} = q.options
      BY <2>3
    <3>3. q = [m \in DOMAIN q |-> q[m]]
      BY <3>1
    <3> QED BY <3>2, <3>3
  <2>7. {options(q) : q \in p.payments} = p.payments
    BY <2>6
  <2> HIDE DEF options
  <2>8. [p EXCEPT !.payments = {options(q) : q \in KnownAuthentication(p.payments)}] = p
    BY <2>2, <2>4, <2>7
  <2>9. ReadProtocols(p) =
          IF named = NoProtocols THEN None
          ELSE [named EXCEPT !.payments = {options(q) : q \in KnownAuthentication(named.payments)}]
    BY <1>2 DEF ReadProtocols, options
  <2> HIDE DEF named
  <2> QED BY <2>3, <2>5, <2>8, <2>9
<1> QED BY <1>1, <1>2

LEMMA DocumentIsRead ==
  ASSUME NEW i, Serves(i)
  PROVE  /\ normalize_service_document(ServiceAt(i)) = ServiceAt(i)
         /\ ReadableDocument(ServiceAt(i))
<1> DEFINE d == ServiceAt(i)
<1>1. /\ IsObject(Deployments[i].document) /\ DOMAIN Deployments[i].document = DocumentMembers
      /\ IsProtocols(Deployments[i].document.protocols)
      /\ IsCapabilities(Deployments[i].document.capabilities)
  BY DeploymentsAssumption DEF DeploymentsAssumption, Serves
<1>2. /\ d = [m \in DOMAIN d |-> d[m]] /\ IsProtocols(d.protocols) /\ IsCapabilities(d.capabilities)
  BY <1>1 DEF ServiceAt, ServiceDocument, DocumentMembers
<1>3. parse_service_document(d)
  BY DEF Serves, Deployable, ServiceAt
<1>4. DocumentAllowed(d)
  BY <1>3 DEF parse_service_document
<1> HIDE DEF d
<1>5. ReadProtocols(d.protocols) = d.protocols
  BY <1>2, <1>4, ProtocolsRead DEF DocumentAllowed
<1>6. ReadCapabilities(d.capabilities) = d.capabilities
  BY <1>2, <1>4, CapabilitiesRead DEF DocumentAllowed
<1>7. ReadOperations(d.operations) = d.operations
  <2>1. \A o \in d.operations : o.name # New /\ o.authentication # New /\ ~o.extra
    BY <1>4, VocabularyAssumption DEF DocumentAllowed, VocabularyAssumption
  <2> QED BY <2>1 DEF ReadOperations, KnownAuthentication, Named
<1>8. d.mcp \ {New} = d.mcp
  BY <1>4, VocabularyAssumption DEF DocumentAllowed, VocabularyAssumption
<1>9. ReadBranding(d.branding) = d.branding
  <2>1. CASE d.branding = None
    BY <2>1 DEF ReadBranding
  <2>2. CASE d.branding # None
    <3>1. d.branding.icon = "known" /\ d.branding.logo = "known"
      BY <1>4, <2>2 DEF DocumentAllowed
    <3>2. New # "known" /\ None # "known"
      BY VocabularyAssumption DEF VocabularyAssumption
    <3>3. d.branding # [icon |-> None, logo |-> None]
      BY <3>1, <3>2
    <3> QED BY <3>1, <3>2, <3>3 DEF ReadBranding
  <2> QED BY <2>1, <2>2
<1>10. normalize_service_document(d) =
         [d EXCEPT !.protocols = d.protocols, !.operations = d.operations, !.mcp = d.mcp,
                   !.branding = d.branding, !.capabilities = d.capabilities]
  BY <1>5, <1>6, <1>7, <1>8, <1>9 DEF normalize_service_document
<1>11. normalize_service_document(d) = d
  BY <1>2, <1>10
<1> QED BY <1>3, <1>11 DEF d, ReadableDocument

\* NothingLost (validation.rs:60-500): whatever is published, an Agent of the same
\* version drops no part of it and refuses none of it.
THEOREM NothingIsLost == Spec => []NothingLost
<1>1. ASSUME IInv, reply # None, reply.response.status = 200, reply.response.body # None
      PROVE  LET body == reply.response.body
                 kind == ItemKind(asked.handler)
             IN  IF reply.answer = None
                 THEN normalize_service_document(body) = body /\ ReadableDocument(body)
                 ELSE IF reply.answer.kind = "page"
                 THEN NormalizedPage(kind, body) = body /\ ReadablePage(kind, body)
                 ELSE Normalized(kind, body) = body /\ ReadableItem(kind, body)
  <2> DEFINE answer == reply.answer
             body   == reply.response.body
             kind   == ItemKind(asked.handler)
  <2>1. /\ body = Contents(answer)
        /\ answer # None =>
             /\ asked # None /\ answer \in CatalogAnswers[asked.handler]
             /\ Holds(asked, request, answer)
    <3>1. /\ Answers(reply.response, request, Contents(answer),
                     select_language(ServiceAt(server), request.accept_language))
          /\ answer # None => /\ asked # None /\ answer \in CatalogAnswers[asked.handler]
                              /\ Holds(asked, request, answer)
      BY <1>1, ReplyIs DEF Failures
    <3>2. request.method # "HEAD"
      BY <1>1, <3>1 DEF Answers, handle
    <3> QED BY <1>1, <3>1, <3>2, RepresentedAnswer DEF Answers
  <2>2. CASE answer = None
    <3>1. Serves(server) /\ body = ServiceAt(server)
      BY <1>1, <2>1, <2>2 DEF IInv, ReplyTrue, Contents
    <3>2. normalize_service_document(body) = body /\ ReadableDocument(body)
      BY <3>1, DocumentIsRead
    <3> QED BY <2>2, <3>2
  <2>3. CASE answer # None
    <3>1. asked.handler \in Handlers /\ kind \in {"offering", "collection"}
      BY <1>1, <2>1, <2>3, AskedIsNoDocument DEF ItemKind
    <3>2. /\ answer.kind = "resource" => IsItem(kind, answer.item)
          /\ answer.kind = "page" =>
               /\ IsObject(answer.page)
               /\ answer.page.items \in Seq(Range(answer.page.items))
               /\ \A item \in Range(answer.page.items) : IsItem(kind, item)
      BY <2>1, <2>3, <3>1, AnswersAssumption DEF AnswersAssumption
    <3>3. CASE answer.kind = "page"
      <4> DEFINE page == answer.page
      <4>1. body = page /\ ValidPage(asked, page, request)
        BY <2>1, <2>3, <3>3 DEF Contents, Holds
      <4> HIDE DEF kind
      <4>2. ASSUME NEW n \in DOMAIN page.items
            PROVE  Normalized(kind, page.items[n]) = page.items[n] /\ ReadableItem(kind, page.items[n])
        <5>1. IsItem(kind, page.items[n])
          BY <3>2, <3>3 DEF Range
        <5>2. ValidItem(kind, page.items[n], asked.representation)
          BY <4>1 DEF ValidPage, kind
        <5> QED BY <3>1, <5>1, <5>2, ItemRead
      <4>3. page = [m \in DOMAIN page |-> page[m]]
        BY <3>2, <3>3 DEF IsObject
      <4>4. page.items = [n \in DOMAIN page.items |-> page.items[n]]
        BY <3>2, <3>3
      <4>5. [n \in DOMAIN page.items |-> Normalized(kind, page.items[n])] = page.items
        BY <4>2, <4>4
      <4> HIDE DEF page
      <4>6. NormalizedPage(kind, page) = page
        BY <4>3, <4>5 DEF NormalizedPage
      <4>7. ReadablePage(kind, page)
        BY <4>2 DEF ReadablePage
      <4> QED BY <2>3, <3>3, <4>1, <4>6, <4>7 DEF kind
    <3>4. CASE answer.kind # "page"
      <4>1. /\ answer.kind = "resource" /\ body = answer.item
            /\ ValidItem(kind, answer.item, asked.representation)
        BY <2>1, <2>3, <3>4 DEF Contents, Holds
      <4> HIDE DEF kind
      <4>2. Normalized(kind, body) = body /\ ReadableItem(kind, body)
        BY <3>1, <3>2, <4>1, ItemRead
      <4> QED BY <2>3, <3>4, <4>2 DEF kind
    <3> QED BY <3>3, <3>4
  <2> QED BY <2>2, <2>3
<1>2. IInv => NothingLost
  BY <1>1 DEF NothingLost
<1> QED BY <1>2, Inductive, PTL
=============================================================================
