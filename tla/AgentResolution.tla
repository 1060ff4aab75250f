---------------------------- MODULE AgentResolution ----------------------------
(***************************************************************************)
(* What an Agent looks up beyond a resource itself: the details of an      *)
(* Offering with the schema of its attributes, the schema or the OpenAPI   *)
(* description of an Action (odp-agent/src/details.rs), and the search     *)
(* capabilities of a Service and a Collection.  Each is a series of        *)
(* requests (supporting_resource and linked_odp in odp-agent/src/client.rs)*)
(* whose destinations are judged one by one, redirects included.           *)
(*                                                                         *)
(* What is at a URL may change from one request to the next.  The Offering,*)
(* the Collection and the Service Document come from AgentService.         *)
(***************************************************************************)
EXTENDS AttributeSchema, SearchCapabilities, Destinations

CONSTANTS
  Offerings,         \* [schema, attributes, actions]
  WantedActions,     \* identifiers resolve_action is called with
  ServiceOpenApi,    \* the OpenAPI document the Service Document names, or Absent
  OriginOf,          \* the origin of each URL
  HostOf,            \* the host of each origin
  Web,               \* Web[url]: what may be found there
  Answers,           \* Answers[host]: what the name service may say
  AllowLocal,        \* for_local_development
  MaximumRedirects

VARIABLES
  task,      \* what is resolved: details of an Offering or capabilities
  details,   \* [actions, issues, attributes, attribute_schema: {} or {bundle}]
  result,    \* of the latest resolve_action
  request,   \* [asked, current, redirects]
  pinned,    \* the addresses judged for it
  peer,      \* the address it is connected to
  response   \* what came back

resolutionVars == <<task, details, result, request, pinned, peer, response>>

requestVars == <<request, pinned, peer, response>>

vars == <<schemaVars, capabilityVars, resolutionVars>>

\* What an Agent may be resolving: capabilities, or an Offering up to a wanted Action.
Tasks ==
  [phase : {"capabilities"}] \cup
  [phase : {"attributes", "known", "request", "openapi"},
   offering : Offerings, wanted : WantedActions \cup {Absent}]

ASSUME ResolutionAssumption ==
  /\ Absent \notin Tasks /\ MaximumRedirects \in Nat
  /\ \A u \in DOMAIN Web : \A content \in Web[u] :
       /\ content.kind = "schema" => content.document \in Documents /\ content.document.at = u
       /\ content.kind = "page" => content \in Pages
  /\ \A offering \in Offerings :
       /\ offering.schema \in Locations \cup {Absent}
       /\ \A i \in DOMAIN offering.actions :
            offering.actions[i].request_schema \in Locations \cup {Absent}

Init ==
  /\ SchemaInit /\ CapabilitiesInit
  /\ task = Absent /\ details = Absent /\ result = Absent
  /\ request = Absent /\ pinned = {} /\ peer = Absent /\ response = Absent
-----------------------------------------------------------------------------
(***************************************************************************)
(* The Actions of an Offering: [id, http, request_schema, openapi,         *)
(* operation], http being how its target is reached and openapi "" when    *)
(* the Service's own OpenAPI document is meant.                            *)
(***************************************************************************)
openapi_target(action) == IF action.openapi = "" THEN ServiceOpenApi ELSE action.openapi

Bare(action) == action.http = Absent /\ action.openapi = Absent

\* normalize_action: the target it is reached by resolves.
Targeted(action) ==
  IF action.http # Absent THEN action.http \in {"http", "https"}
  ELSE openapi_target(action) \in SecureLocations

Namesakes(actions, i) == {j \in DOMAIN actions : actions[j].id = actions[i].id}

\* Mutant of Usable: Actions of one identifier are all usable.
UsableAnyhow(actions, i) == ~Bare(actions[i]) /\ Targeted(actions[i])

Usable(actions, i) ==
  Namesakes(actions, i) = {i} /\ ~Bare(actions[i]) /\ Targeted(actions[i])

Faulty(actions, i) ==
  Namesakes(actions, i) # {i} \/ (~Bare(actions[i]) /\ ~Targeted(actions[i]))

DetailIssue(scope, id) == [scope |-> scope, id |-> id]

\* normalize_actions, before the attributes are looked at.
Normalized(offering) ==
  LET actions == offering.actions
  IN  [actions |-> {actions[i] : i \in {j \in DOMAIN actions : Usable(actions, j)}},
       issues  |-> {DetailIssue("action", actions[i].id) : i \in {j \in DOMAIN actions : Faulty(actions, j)}},
       attributes |-> offering.attributes, attribute_schema |-> {}]
-----------------------------------------------------------------------------
(***************************************************************************)
(* Details and Actions.                                                    *)
(***************************************************************************)
Idle == task = Absent

InPhase(phase) == IF Idle THEN FALSE ELSE task.phase = phase

\* get_offering_details and resolve_action, with the Offering at hand.
BeginDetails ==
  /\ Idle
  /\ \E offering \in Offerings, wanted \in WantedActions \cup {Absent} :
       /\ task' = [phase |-> "attributes", offering |-> offering, wanted |-> wanted]
       /\ details' = Normalized(offering)
       /\ IF offering.schema = Absent THEN UNCHANGED schemaVars ELSE resolve_schema(offering.schema)
  /\ result' = Absent
  /\ UNCHANGED <<capabilityVars, requestVars>>

Settled == verdict \notin {"idle", "open"}

\* The validator, external: each document of the graph has its say.
IsValid(attributes) == \A u \in DOMAIN documents : attributes \in documents[u].admits

Concluded(attributes, attribute_schema, troubles) ==
  [actions |-> details.actions, issues |-> details.issues \cup troubles,
   attributes |-> attributes, attribute_schema |-> attribute_schema]

Continued(phase) == [phase |-> phase, offering |-> task.offering, wanted |-> task.wanted]

ConcludeAttributes ==
  /\ InPhase("attributes")
  /\ task.offering.schema # Absent => Settled
  /\ details' =
       IF task.offering.schema = Absent THEN details
       ELSE IF verdict # "resolved" THEN Concluded("none", {}, {DetailIssue("schema", Absent)})
       ELSE IF IsValid(details.attributes) THEN Concluded(details.attributes, {bundle}, {})
       ELSE Concluded("none", {bundle}, {DetailIssue("attributes", Absent)})
  /\ task' = Continued("known")
  /\ SchemaDone
  /\ UNCHANGED <<capabilityVars, requestVars, result>>

EndTask(outcome) == task' = Absent /\ details' = Absent /\ result' = outcome

FinishDetails ==
  /\ InPhase("known") /\ task.wanted = Absent
  /\ EndTask(Absent)
  /\ UNCHANGED <<schemaVars, capabilityVars, requestVars>>

TheAction == CHOOSE a \in details.actions : a.id = task.wanted

\* resolve_action, once the details are known.
ResolveAction ==
  /\ InPhase("known") /\ task.wanted # Absent
  /\ IF \A a \in details.actions : a.id # task.wanted
     THEN EndTask("unusable") /\ UNCHANGED schemaVars
     ELSE IF TheAction.http = Absent
     THEN /\ task' = Continued("openapi")
          /\ UNCHANGED <<schemaVars, details, result>>
     ELSE IF TheAction.request_schema = Absent
     THEN EndTask("resolved") /\ UNCHANGED schemaVars
     ELSE /\ resolve_schema(TheAction.request_schema)
          /\ task' = Continued("request")
          /\ UNCHANGED <<details, result>>
  /\ UNCHANGED <<capabilityVars, requestVars>>

ConcludeRequestSchema ==
  /\ InPhase("request") /\ Settled
  /\ EndTask(IF verdict = "resolved" THEN "resolved" ELSE "failed")
  /\ SchemaDone
  /\ UNCHANGED <<capabilityVars, requestVars>>

\* resolve_openapi: an OpenAPI 3.1 document with exactly one such operation.
Describes(content) ==
  /\ content.kind = "openapi" /\ content.version = "3.1"
  /\ Cardinality({i \in DOMAIN content.operations : content.operations[i] = TheAction.operation}) = 1
-----------------------------------------------------------------------------
(***************************************************************************)
(* Capabilities.                                                           *)
(***************************************************************************)
BeginCapabilities ==
  /\ Idle
  /\ \E service, collection \in Capabilities, supports_search \in BOOLEAN :
       resolve_search_capabilities(service, collection, supports_search)
  /\ task' = [phase |-> "capabilities"] /\ result' = Absent
  /\ UNCHANGED <<schemaVars, requestVars, details>>

FinishCapabilities ==
  /\ InPhase("capabilities") /\ stage = 6
  /\ EndTask(Absent) /\ CapabilitiesDone
  /\ UNCHANGED <<schemaVars, requestVars>>

\* What goes on without a request.
Proceed ==
  \/ (Skip \/ Exceed \/ Prepare) /\ UNCHANGED <<capabilityVars, resolutionVars>>
  \/ (AddInline \/ BeginLinked \/ PageRefused \/ AddLinked \/ HoldSorts)
     /\ UNCHANGED <<schemaVars, resolutionVars>>
-----------------------------------------------------------------------------
(***************************************************************************)
(* Requests.                                                               *)
(***************************************************************************)
Asking(url) == [asked |-> url, current |-> url, redirects |-> 0]

\* supporting_resource or linked_odp is called.
Request ==
  /\ request = Absent
  /\ \/ Wanted /\ request' = Asking(NextUp.url)
     \/ PageWanted /\ request' = Asking(load.next)
     \/ InPhase("openapi") /\ request' = Asking(openapi_target(TheAction))
  /\ UNCHANGED <<schemaVars, capabilityVars, task, details, result, pinned, peer, response>>

EndRequest == request' = Absent /\ pinned' = {} /\ peer' = Absent /\ response' = Absent

\* Whatever goes wrong with a request goes to the one that made it.
RequestFails ==
  /\ EndRequest
  /\ \/ Fail /\ UNCHANGED <<capabilityVars, task, details, result>>
     \/ PageFails /\ UNCHANGED <<schemaVars, task, details, result>>
     \/ InPhase("openapi") /\ EndTask("failed") /\ UNCHANGED <<schemaVars, capabilityVars>>

Host == HostOf[OriginOf[request.current]]

\* SecureTransport.send_limited: the name is resolved and every address judged.
Judge ==
  /\ request # Absent /\ pinned = {}
  /\ \E answer \in Answers[Host] :
       LET judged == public_destinations(Host, answer, AllowLocal)
       IN  IF judged = {} THEN RequestFails
           ELSE /\ pinned' = judged
                /\ UNCHANGED <<schemaVars, capabilityVars, task, details, result, request, peer, response>>

\* The connection is made, whatever the name service says by now.
Connect ==
  /\ pinned # {} /\ peer = Absent
  /\ \E answer \in Answers[Host] : peer' \in send_to(pinned, answer)
  /\ UNCHANGED <<schemaVars, capabilityVars, task, details, result, request, pinned, response>>

\* exchange: an answer counts only from a peer that was judged.
Exchange ==
  /\ peer \in pinned /\ response = Absent
  /\ request.current \in DOMAIN Web /\ response' \in Web[request.current]
  /\ UNCHANGED <<schemaVars, capabilityVars, task, details, result, request, pinned, peer>>

ConnectionFails == pinned # {} /\ response = Absent /\ RequestFails

\* Mutant of Follows: one redirect more than the limit.
FollowsOnceMore(url) == request.redirects <= MaximumRedirects /\ OriginOf[url] = OriginOf[request.current]

Follows(url) == request.redirects < MaximumRedirects /\ OriginOf[url] = OriginOf[request.current]

Redirected ==
  /\ response # Absent /\ response.kind = "redirect"
  /\ IF Follows(response.location)
     THEN /\ request' = [asked |-> request.asked, current |-> response.location,
                         redirects |-> request.redirects + 1]
          /\ pinned' = {} /\ peer' = Absent /\ response' = Absent
          /\ UNCHANGED <<schemaVars, capabilityVars, task, details, result>>
     ELSE RequestFails

Delivered(kind) == response # Absent /\ response.kind = kind

DeliverSchema ==
  /\ Delivered("schema") /\ response.document \in Documents /\ Receive(response.document)
  /\ EndRequest
  /\ UNCHANGED <<capabilityVars, task, details, result>>

DeliverPage ==
  /\ Delivered("page") /\ PageArrives(response) /\ EndRequest
  /\ UNCHANGED <<schemaVars, task, details, result>>

DeliverOpenApi ==
  /\ Delivered("openapi") /\ InPhase("openapi")
  /\ EndTask(IF Describes(response) THEN "resolved" ELSE "failed") /\ EndRequest
  /\ UNCHANGED <<schemaVars, capabilityVars>>

\* An error, a media type or a document that is not what was asked for.
DeliverOther ==
  /\ response # Absent /\ response.kind # "redirect"
  /\ ~(Wanted /\ response.kind = "schema") /\ ~(PageWanted /\ response.kind = "page")
  /\ ~(InPhase("openapi") /\ response.kind = "openapi")
  /\ RequestFails

Next ==
  \/ BeginDetails \/ ConcludeAttributes \/ FinishDetails \/ ResolveAction \/ ConcludeRequestSchema
  \/ BeginCapabilities \/ FinishCapabilities \/ Proceed
  \/ Request \/ Judge \/ Connect \/ Exchange \/ ConnectionFails \/ Redirected
  \/ DeliverSchema \/ DeliverPage \/ DeliverOpenApi \/ DeliverOther

Spec == Init /\ [][Next]_vars

\* What was begun goes on: the caller polls it, and a request is answered or fails.
FairSpec == Spec /\ WF_vars(~Idle /\ Next)
-----------------------------------------------------------------------------
(***************************************************************************)
(* Properties.                                                             *)
(***************************************************************************)
\* What the variables hold; a request is under way only for a task that waits for it.
TypeOK ==
  /\ SchemaTypeOK /\ CapabilitiesTypeOK /\ task \in Tasks \cup {Absent}
  /\ verdict # "idle" => InPhase("attributes") \/ InPhase("request")
  /\ stage # 0 <=> InPhase("capabilities")
  /\ InPhase("attributes") \/ InPhase("known") =>
       details.actions \subseteq {task.offering.actions[i] : i \in DOMAIN task.offering.actions}
  /\ request # Absent => /\ request.redirects \in 0 .. MaximumRedirects
                         /\ Wanted \/ PageWanted \/ InPhase("openapi")
  /\ request = Absent => pinned = {} /\ peer = Absent /\ response = Absent
  /\ result \in {Absent, "resolved", "unusable", "failed"}

\* Wherever a document, a page or a redirect leads, and whatever the name service says
\* from one moment to the next (destinations.rs:46-106, transport.rs:108-160), the Agent
\* connects to public addresses only, and to a loopback address only in local
\* development, when what was asked for (not what redirects made of it) is on the
\* machine itself.
OnlyJudgedPeers ==
  peer # Absent =>
    \/ peer \in PublicAddresses
    \/ AllowLocal /\ peer \in LoopbackAddresses /\ HostOf[OriginOf[request.asked]] \in LocalHosts

\* Details that are known (details.rs:66-122,220-283): attributes under a schema are
\* offered only if every document of that schema, as it was retrieved, admits them, and
\* are otherwise gone with an issue; no two usable Actions share an identifier; and an
\* Action that is neither usable nor without any target is answered for by an issue.
DetailsAreSound ==
  InPhase("known") =>
    LET offering == task.offering
    IN  /\ offering.schema # Absent /\ details.attributes # "none" =>
             /\ details.attribute_schema # {}
             /\ \A schema \in details.attribute_schema : \A id \in DOMAIN schema :
                  details.attributes \in schema[id].admits
        /\ details.attributes # offering.attributes =>
             \E issue \in details.issues : issue.scope \in {"schema", "attributes"}
        /\ \A a, b \in details.actions : a.id = b.id => a = b
        /\ \A i \in DOMAIN offering.actions :
             LET action == offering.actions[i]
             IN  \/ action \in details.actions
                 \/ DetailIssue("action", action.id) \in details.issues
                 \/ Bare(action)

\* Whatever a look-up leads through (schema.rs:36-85, capabilities.rs:255-325,
\* client.rs:788-845), documents that refer to each other in a circle, linked pages
\* and redirects that lead back, and requests that fail on the way, it ends.
LookupEnds == ~Idle ~> Idle
=============================================================================
