------------------------- MODULE AgentResolutionProofs -------------------------
(***************************************************************************)
(* Proofs about AgentResolution, for every Web, every name service and     *)
(* every Offering: it implements AttributeSchema and SearchCapabilities,   *)
(* so that its graphs are whole and judged fairly and its capabilities     *)
(* accounted for; it connects to addresses that were judged and to no      *)
(* others; the details it settles on are sound; it waits for one request   *)
(* at a time; and no look-up goes on for ever.                             *)
(***************************************************************************)
EXTENDS AgentResolution, AttributeSchemaProofs

(***************************************************************************)
(* How the steps treat the schema and the task.                            *)
(***************************************************************************)
\* The Actions of the details are the Offering's, until the task goes on to one of them.
ActionsInv ==
  /\ InPhase("attributes") => task.offering \in Offerings /\ details = Normalized(task.offering)
  /\ InPhase("known") =>
       /\ task.offering \in Offerings
       /\ details.actions = Normalized(task.offering).actions
       /\ Normalized(task.offering).issues \subseteq details.issues

\* A request leaves the task and the details alone, or ends the task.
Aside == UNCHANGED <<task, details>> \/ task' = Absent

LEMMA RequestFailsSchema ==
  ASSUME RequestFails PROVE [SchemaNext]_schemaVars /\ Aside
<1>1. CASE Fail /\ UNCHANGED <<capabilityVars, task, details, result>>
  BY <1>1 DEF SchemaNext, Aside
<1>2. CASE PageFails /\ UNCHANGED <<schemaVars, task, details, result>>
  BY <1>2 DEF Aside
<1>3. CASE InPhase("openapi") /\ EndTask("failed") /\ UNCHANGED <<schemaVars, capabilityVars>>
  BY <1>3 DEF Aside, EndTask
<1>. QED  BY <1>1, <1>2, <1>3 DEF RequestFails

LEMMA JudgeSchema ==
  ASSUME Judge PROVE [SchemaNext]_schemaVars /\ Aside
<1>1. PICK answer \in Answers[Host] :
        LET judged == public_destinations(Host, answer, AllowLocal)
        IN  IF judged = {} THEN RequestFails
            ELSE /\ pinned' = judged
                 /\ UNCHANGED <<schemaVars, capabilityVars, task, details, result, request, peer, response>>
  BY DEF Judge
<1>2. RequestFails \/ UNCHANGED <<schemaVars, task, details>>
  BY <1>1
<1>. QED  BY <1>2, RequestFailsSchema DEF Aside

LEMMA RedirectedSchema ==
  ASSUME Redirected PROVE [SchemaNext]_schemaVars /\ Aside
<1>1. RequestFails \/ UNCHANGED <<schemaVars, task, details>>
  BY DEF Redirected
<1>. QED  BY <1>1, RequestFailsSchema DEF Aside

\* Whatever is not the beginning or the end of a task or of one of its schemas.
Underway ==
  \/ FinishDetails \/ FinishCapabilities \/ Proceed
  \/ Request \/ Judge \/ Connect \/ Exchange \/ ConnectionFails \/ Redirected
  \/ DeliverSchema \/ DeliverPage \/ DeliverOpenApi \/ DeliverOther
  \/ UNCHANGED vars

LEMMA UnderwaySchema ==
  ASSUME Underway PROVE [SchemaNext]_schemaVars /\ Aside
<1>1. CASE FinishDetails
  BY <1>1 DEF FinishDetails, EndTask, Aside
<1>2. CASE FinishCapabilities
  BY <1>2 DEF FinishCapabilities, EndTask, Aside
<1>3. CASE Proceed
  <2>1. CASE (Skip \/ Exceed \/ Prepare) /\ UNCHANGED <<capabilityVars, resolutionVars>>
    BY <2>1 DEF SchemaNext, resolutionVars, Aside
  <2>2. CASE (AddInline \/ BeginLinked \/ PageRefused \/ AddLinked \/ HoldSorts)
             /\ UNCHANGED <<schemaVars, resolutionVars>>
    BY <2>2 DEF resolutionVars, Aside
  <2>. QED  BY <1>3, <2>1, <2>2 DEF Proceed
<1>4. CASE Request
  BY <1>4 DEF Request, Aside
<1>5. CASE Judge
  BY <1>5, JudgeSchema
<1>6. CASE Connect
  BY <1>6 DEF Connect, Aside
<1>7. CASE Exchange
  BY <1>7 DEF Exchange, Aside
<1>8. CASE ConnectionFails
  BY <1>8, RequestFailsSchema DEF ConnectionFails
<1>9. CASE Redirected
  BY <1>9, RedirectedSchema
<1>10. CASE DeliverSchema
  BY <1>10 DEF DeliverSchema, SchemaNext, Aside
<1>11. CASE DeliverPage
  BY <1>11 DEF DeliverPage, Aside
<1>12. CASE DeliverOpenApi
  BY <1>12 DEF DeliverOpenApi, EndTask, Aside
<1>13. CASE DeliverOther
  BY <1>13, RequestFailsSchema DEF DeliverOther
<1>14. CASE UNCHANGED vars
  BY <1>14 DEF vars, resolutionVars, Aside
<1>. QED  BY <1>1, <1>2, <1>3, <1>4, <1>5, <1>6, <1>7, <1>8, <1>9, <1>10, <1>11, <1>12, <1>13, <1>14
          DEF Underway

LEMMA NextCases ==
  ASSUME [Next]_vars
  PROVE  \/ BeginDetails \/ ConcludeAttributes \/ ResolveAction \/ ConcludeRequestSchema
         \/ BeginCapabilities \/ Underway
BY DEF Next, Underway
-----------------------------------------------------------------------------
(***************************************************************************)
(* Details.                                                                *)
(***************************************************************************)
\* No phase but these two, and none without a task.
LEMMA PhaseOf ==
  ASSUME NEW phase, InPhase(phase)
  PROVE  ~Idle /\ task.phase = phase
BY DEF InPhase

LEMMA PhaseAfter ==
  ASSUME NEW phase, NEW other, task' = Continued(phase), InPhase(other)', task' # Absent
  PROVE  /\ other = phase
         /\ (task.offering)' = task.offering /\ (task.wanted)' = task.wanted
<1>1. (task.phase)' = other
  BY DEF InPhase, Idle
<1>2. (task.phase)' = phase
  BY DEF Continued
<1>3. (task.offering)' = task.offering /\ (task.wanted)' = task.wanted
  BY DEF Continued
<1>. QED  BY <1>1, <1>2, <1>3

\* A task that is aside of a step stays in its phase, or is over.
LEMMA AsideActions ==
  ASSUME ActionsInv, Aside PROVE ActionsInv'
<1>1. CASE UNCHANGED <<task, details>>
  BY <1>1 DEF ActionsInv, InPhase, Idle, Normalized
<1>2. CASE task' = Absent
  BY <1>2 DEF ActionsInv, InPhase, Idle
<1>. QED  BY <1>1, <1>2 DEF Aside

\* What concluding the attributes leaves of the details.
LEMMA ConcludedKeeps ==
  ASSUME ActionsInv, ConcludeAttributes
  PROVE  /\ task.offering \in Offerings
         /\ (details.actions)' = Normalized(task.offering).actions
         /\ Normalized(task.offering).issues \subseteq (details.issues)'
<1>1. task.offering \in Offerings /\ details = Normalized(task.offering)
  BY DEF ActionsInv, ConcludeAttributes
<1>2. \A attributes, schema, troubles :
        /\ Concluded(attributes, schema, troubles).actions = details.actions
        /\ details.issues \subseteq Concluded(attributes, schema, troubles).issues
  BY DEF Concluded
<1>3. \/ details' = details
      \/ details' = Concluded("none", {}, {DetailIssue("schema", Absent)})
      \/ details' = Concluded(details.attributes, {bundle}, {})
      \/ details' = Concluded("none", {bundle}, {DetailIssue("attributes", Absent)})
  BY DEF ConcludeAttributes
<1>4. (details.actions)' = details.actions /\ details.issues \subseteq (details.issues)'
  BY <1>2, <1>3
<1>. QED  BY <1>1, <1>4

\* Only these steps touch the details and go on with the task.
LEMMA ActionsStep ==
  ASSUME ActionsInv, [Next]_vars PROVE ActionsInv'
<1>1. CASE BeginDetails
  <2>1. PICK offering \in Offerings, wanted \in WantedActions \cup {Absent} :
          /\ task' = [phase |-> "attributes", offering |-> offering, wanted |-> wanted]
          /\ details' = Normalized(offering)
    BY <1>1 DEF BeginDetails
  <2>2. (task.phase)' = "attributes" /\ (task.offering)' = offering
    BY <2>1
  <2>3. ~InPhase("known")'
    BY <2>2 DEF InPhase
  <2>4. details' = Normalized(task'.offering)
    BY <2>1, <2>2
  <2>. QED  BY <2>1, <2>2, <2>3, <2>4 DEF ActionsInv, Normalized
<1>2. CASE ConcludeAttributes
  <2>1. task' = Continued("known")
    BY <1>2 DEF ConcludeAttributes
  <2>2. CASE task' = Absent
    BY <2>2 DEF ActionsInv, InPhase, Idle
  <2>3. CASE task' # Absent
    <3>1. ~InPhase("attributes")'
      BY <2>1, <2>3, PhaseAfter
    <3>2. (task.offering)' = task.offering
      BY <2>1 DEF Continued
    <3>. QED  BY <1>2, <3>1, <3>2, ConcludedKeeps DEF ActionsInv, Normalized
  <2>. QED  BY <2>2, <2>3
<1>3. CASE ResolveAction
  <2>1. \/ task' = Absent \/ task' = Continued("openapi") \/ task' = Continued("request")
    BY <1>3 DEF ResolveAction, EndTask
  <2>2. CASE task' = Absent
    BY <2>2 DEF ActionsInv, InPhase, Idle
  <2>3. CASE task' # Absent
    BY <2>1, <2>3, PhaseAfter DEF ActionsInv
  <2>. QED  BY <2>2, <2>3
<1>4. CASE ConcludeRequestSchema
  BY <1>4 DEF ConcludeRequestSchema, EndTask, ActionsInv, InPhase, Idle
<1>5. CASE BeginCapabilities
  <2>1. (task.phase)' = "capabilities"
    BY <1>5 DEF BeginCapabilities
  <2>. QED  BY <2>1 DEF ActionsInv, InPhase
<1>6. CASE Underway
  BY <1>6, UnderwaySchema, AsideActions
<1>. QED  BY <1>1, <1>2, <1>3, <1>4, <1>5, <1>6, NextCases

LEMMA ActionsInitially == Init => ActionsInv
  BY DEF Init, ActionsInv, InPhase, Idle
-----------------------------------------------------------------------------
(***************************************************************************)
(* Implementation of AttributeSchema.                                      *)
(***************************************************************************)
\* The Action that is resolved asks for a schema at a location, if it asks for one.
LEMMA ActionSchema ==
  ASSUME ActionsInv, InPhase("known"), NEW a \in details.actions
  PROVE  a.request_schema \in Locations \cup {Absent}
<1>1. task.offering \in Offerings /\ details.actions = Normalized(task.offering).actions
  BY DEF ActionsInv
<1>2. PICK i \in DOMAIN task.offering.actions : a = task.offering.actions[i]
  BY <1>1 DEF Normalized
<1>. QED  BY <1>1, <1>2, ResolutionAssumption

LEMMA SchemaStep ==
  ASSUME ActionsInv, [Next]_vars PROVE [SchemaNext]_schemaVars
<1>1. CASE BeginDetails
  <2>1. PICK offering \in Offerings :
          IF offering.schema = Absent THEN UNCHANGED schemaVars ELSE resolve_schema(offering.schema)
    BY <1>1 DEF BeginDetails
  <2>2. offering.schema \in Locations \cup {Absent}
    BY ResolutionAssumption
  <2>. QED  BY <2>1, <2>2 DEF SchemaNext
<1>2. CASE ConcludeAttributes
  BY <1>2 DEF ConcludeAttributes, SchemaNext
<1>3. CASE ResolveAction
  <2>1. InPhase("known")
    BY <1>3 DEF ResolveAction
  <2>2. CASE UNCHANGED schemaVars
    BY <2>2
  <2>3. CASE ~UNCHANGED schemaVars
    <3>1. /\ \E a \in details.actions : a.id = task.wanted
          /\ TheAction.request_schema # Absent /\ resolve_schema(TheAction.request_schema)
      BY <1>3, <2>3 DEF ResolveAction
    <3>2. TheAction \in details.actions
      BY <3>1 DEF TheAction
    <3>3. TheAction.request_schema \in Locations
      BY <2>1, <3>1, <3>2, ActionSchema
    <3>. QED  BY <3>1, <3>3 DEF SchemaNext
  <2>. QED  BY <2>2, <2>3
<1>4. CASE ConcludeRequestSchema
  BY <1>4 DEF ConcludeRequestSchema, SchemaNext
<1>5. CASE BeginCapabilities
  BY <1>5 DEF BeginCapabilities
<1>6. CASE Underway
  BY <1>6, UnderwaySchema
<1>. QED  BY <1>1, <1>2, <1>3, <1>4, <1>5, <1>6, NextCases

\* What the Agent does about a schema, requests, redirects and failures included, is
\* what AttributeSchema allows (details.rs:66-165 calling schema.rs:24-110).
THEOREM ResolutionImplementsSchema == Spec => SchemaSpec
<1>1. Init => SchemaInit /\ ActionsInv
  BY ActionsInitially DEF Init
<1>2. ActionsInv /\ [Next]_vars => ActionsInv' /\ [SchemaNext]_schemaVars
  BY ActionsStep, SchemaStep
<1>. QED  BY <1>1, <1>2, PTL DEF Spec, SchemaSpec

\* Whatever is found on the Web, and however it changes meanwhile: a schema that an
\* Agent resolves, of attributes or of a request, is whole.
THEOREM ResolvedSchemasAreWhole == Spec => []ResolvedIsClosed
  BY ResolutionImplementsSchema, GraphsAreWhole, PTL

\* Whatever the documents refer to, and however requests, redirects and failures are
\* interleaved with them: an Agent refuses a schema for its size or depth only when its
\* graph is too large or too deep, and finds what its references mean.
THEOREM SchemasAreJudgedFairly == Spec => []GraphIsJudgedFairly
  BY ResolutionImplementsSchema, GraphsAreJudgedFairly, PTL
-----------------------------------------------------------------------------
(***************************************************************************)
(* Soundness of details.                                                   *)
(***************************************************************************)
\* Two usable Actions of one identifier are one; what is not usable has an issue.
LEMMA ActionsAreSound ==
  ASSUME ActionsInv, InPhase("known")
  PROVE  /\ \A a, b \in details.actions : a.id = b.id => a = b
         /\ \A i \in DOMAIN task.offering.actions :
              LET action == task.offering.actions[i]
              IN  \/ action \in details.actions
                  \/ DetailIssue("action", action.id) \in details.issues
                  \/ Bare(action)
<1>. DEFINE actions == task.offering.actions
<1>1. details.actions = {actions[i] : i \in {j \in DOMAIN actions : Usable(actions, j)}}
  BY DEF ActionsInv, Normalized
<1>2. {DetailIssue("action", actions[i].id) : i \in {j \in DOMAIN actions : Faulty(actions, j)}}
        \subseteq details.issues
  BY DEF ActionsInv, Normalized
<1>3. ASSUME NEW a \in details.actions, NEW b \in details.actions, a.id = b.id PROVE a = b
  <2>1. PICK i \in DOMAIN actions : a = actions[i] /\ Usable(actions, i)
    BY <1>1
  <2>2. PICK j \in DOMAIN actions : b = actions[j] /\ Usable(actions, j)
    BY <1>1
  <2>3. j \in Namesakes(actions, i)
    BY <1>3, <2>1, <2>2 DEF Namesakes
  <2>4. Namesakes(actions, i) = {i}
    BY <2>1 DEF Usable
  <2>. QED  BY <2>1, <2>2, <2>3, <2>4
<1>4. ASSUME NEW i \in DOMAIN actions, ~Bare(actions[i]), ~Usable(actions, i)
      PROVE  DetailIssue("action", actions[i].id) \in details.issues
  <2>1. Faulty(actions, i)
    BY <1>4 DEF Faulty, Usable
  <2>. QED  BY <1>2, <2>1
<1>5. ASSUME NEW i \in DOMAIN actions, Usable(actions, i) PROVE actions[i] \in details.actions
  BY <1>1, <1>5
<1>. QED  BY <1>3, <1>4, <1>5

AttributesAreSound ==
  LET offering == task.offering
  IN  /\ offering.schema # Absent /\ details.attributes # "none" =>
           /\ details.attribute_schema # {}
           /\ \A schema \in details.attribute_schema : \A id \in DOMAIN schema :
                details.attributes \in schema[id].admits
      /\ details.attributes # offering.attributes =>
           \E issue \in details.issues : issue.scope \in {"schema", "attributes"}

\* Every document of the bundle is one that was retrieved.
LEMMA BundleRetrieved ==
  ASSUME NEW id \in DOMAIN bundle
  PROVE  \E u \in DOMAIN documents : bundle[id] = documents[u]
<1>1. PICK v \in DOMAIN documents : documents[v].id = id
  BY DEF bundle
<1>2. Speaker(id) \in DOMAIN documents
  <2>. DEFINE claims == {u \in DOMAIN documents : documents[u].id = id}
  <2>1. v \in claims
    BY <1>1
  <2>2. (CHOOSE u \in claims : TRUE) \in claims
    BY <2>1
  <2>. QED  BY <2>2 DEF Speaker
<1>3. bundle[id] = documents[Speaker(id)]
  BY DEF bundle
<1>. QED  BY <1>2, <1>3

LEMMA ConcludedIsSound ==
  ASSUME ActionsInv, ConcludeAttributes, task' # Absent PROVE AttributesAreSound'
<1>1. (task.offering)' = task.offering
  BY DEF ConcludeAttributes, Continued
<1>2. InPhase("attributes")
  BY DEF ConcludeAttributes
<1>3. details.attributes = task.offering.attributes /\ details.attribute_schema = {}
  BY <1>2 DEF ActionsInv, Normalized
<1>4. CASE task.offering.schema = Absent
  <2>1. details' = details
    BY <1>4 DEF ConcludeAttributes
  <2>. QED  BY <1>1, <1>3, <1>4, <2>1 DEF AttributesAreSound
<1>5. ASSUME NEW schema, NEW scope \in {"schema", "attributes"},
             details' = Concluded("none", schema, {DetailIssue(scope, Absent)})
      PROVE  AttributesAreSound'
  <2>1. (details.attributes)' = "none"
    BY <1>5 DEF Concluded
  <2>2. DetailIssue(scope, Absent) \in (details.issues)'
    BY <1>5 DEF Concluded
  <2>3. DetailIssue(scope, Absent).scope = scope
    BY DEF DetailIssue
  <2>. QED  BY <2>1, <2>2, <2>3 DEF AttributesAreSound
<1>6. ASSUME IsValid(details.attributes), details' = Concluded(details.attributes, {bundle}, {})
      PROVE  AttributesAreSound'
  <2>1. (details.attributes)' = details.attributes /\ (details.attribute_schema)' = {bundle}
    BY <1>6 DEF Concluded
  <2>2. \A id \in DOMAIN bundle : details.attributes \in bundle[id].admits
    BY <1>6, BundleRetrieved DEF IsValid
  <2>3. \A schema \in {bundle} : \A id \in DOMAIN schema : details.attributes \in schema[id].admits
    BY <2>2
  <2>4. {bundle} # {}
    OBVIOUS
  <2>. HIDE DEF AttributesAreSound
  <2>. QED  BY <1>1, <1>3, <2>1, <2>3, <2>4 DEF AttributesAreSound
<1>7. \/ details' = Concluded("none", {}, {DetailIssue("schema", Absent)})
      \/ IsValid(details.attributes) /\ details' = Concluded(details.attributes, {bundle}, {})
      \/ details' = Concluded("none", {bundle}, {DetailIssue("attributes", Absent)})
      \/ task.offering.schema = Absent
  BY DEF ConcludeAttributes
<1>. QED  BY <1>4, <1>5, <1>6, <1>7

SoundInv == ActionsInv /\ (InPhase("known") => AttributesAreSound)

LEMMA SoundStep ==
  ASSUME SoundInv, [Next]_vars PROVE SoundInv'
<1>1. ActionsInv'
  BY ActionsStep DEF SoundInv
<1>2. SUFFICES ASSUME InPhase("known")' PROVE AttributesAreSound'
  BY <1>1 DEF SoundInv
<1>3. task' # Absent /\ (task.phase)' = "known"
  BY <1>2 DEF InPhase, Idle
<1>4. CASE BeginDetails
  <2>1. (task.phase)' = "attributes"
    BY <1>4 DEF BeginDetails
  <2>. QED  BY <1>3, <2>1
<1>5. CASE ConcludeAttributes
  BY <1>3, <1>5, ConcludedIsSound DEF SoundInv
<1>6. CASE ResolveAction
  <2>1. task' = Absent \/ task' = Continued("openapi") \/ task' = Continued("request")
    BY <1>6 DEF ResolveAction, EndTask
  <2>. QED  BY <1>2, <1>3, <2>1, PhaseAfter
<1>7. CASE ConcludeRequestSchema
  BY <1>3, <1>7 DEF ConcludeRequestSchema, EndTask
<1>8. CASE BeginCapabilities
  <2>1. (task.phase)' = "capabilities"
    BY <1>8 DEF BeginCapabilities
  <2>. QED  BY <1>3, <2>1
<1>9. CASE Underway
  <2>1. UNCHANGED <<task, details>>
    BY <1>3, <1>9, UnderwaySchema DEF Aside
  <2>2. InPhase("known")
    BY <1>2, <2>1 DEF InPhase, Idle
  <2>. QED  BY <2>1, <2>2 DEF SoundInv, AttributesAreSound
<1>. QED  BY <1>4, <1>5, <1>6, <1>7, <1>8, <1>9, NextCases

LEMMA SoundImplies == SoundInv => DetailsAreSound
<1>. SUFFICES ASSUME SoundInv, InPhase("known") PROVE DetailsAreSound
  BY DEF DetailsAreSound
<1>1. AttributesAreSound /\ ActionsInv
  BY DEF SoundInv
<1>. QED  BY <1>1, ActionsAreSound DEF DetailsAreSound, AttributesAreSound

\* Whatever an Offering says and whatever its schema turns out to be (details.rs:66-122,
\* 220-283): attributes that are offered under a schema are admitted by all of it, what is
\* not offered has an issue, and no two usable Actions share an identifier.
THEOREM DetailsSound == Spec => []DetailsAreSound
<1>1. Init => SoundInv
  BY ActionsInitially DEF SoundInv, Init, InPhase, Idle
<1>2. SoundInv /\ [Next]_vars => SoundInv'
  BY SoundStep
<1>3. SoundInv => DetailsAreSound
  BY SoundImplies
<1>. QED  BY <1>1, <1>2, <1>3, PTL DEF Spec
-----------------------------------------------------------------------------
(***************************************************************************)
(* Destinations.                                                           *)
(***************************************************************************)
\* The inductive invariant: what is pinned was judged for the host of the origin that was
\* asked, and a connection is to one of the pinned addresses.
PeerInv ==
  /\ request # Absent => OriginOf[request.current] = OriginOf[request.asked]
  /\ \A address \in pinned : Permitted(Host, address, AllowLocal)
  /\ peer # Absent => peer \in pinned
  /\ pinned # {} \/ response # Absent => request # Absent

LEMMA EndRequestPeers == ASSUME EndRequest PROVE PeerInv'
  BY DEF EndRequest, PeerInv

LEMMA SamePeers == ASSUME PeerInv, UNCHANGED requestVars PROVE PeerInv'
  BY DEF PeerInv, Host, requestVars

LEMMA FailsPeers == ASSUME RequestFails PROVE PeerInv'
  BY EndRequestPeers DEF RequestFails

LEMMA JudgePeers ==
  ASSUME PeerInv, Judge PROVE PeerInv'
<1>1. PICK answer \in Answers[Host] :
        LET judged == public_destinations(Host, answer, AllowLocal)
        IN  IF judged = {} THEN RequestFails
            ELSE /\ pinned' = judged
                 /\ UNCHANGED <<schemaVars, capabilityVars, task, details, result, request, peer, response>>
  BY DEF Judge
<1>2. CASE RequestFails
  BY <1>2, FailsPeers
<1>3. CASE ~RequestFails
  <2>1. pinned' = public_destinations(Host, answer, AllowLocal) /\ UNCHANGED <<request, peer, response>>
    BY <1>1, <1>3
  <2>2. \A address \in pinned' : Permitted(Host, address, AllowLocal)
    BY <2>1 DEF public_destinations
  <2>3. Host' = Host
    BY <2>1 DEF Host
  <2>4. pinned = {} /\ peer = Absent /\ request # Absent
    BY DEF Judge, PeerInv
  <2>. QED  BY <2>1, <2>2, <2>3, <2>4 DEF PeerInv, Permitted
<1>. QED  BY <1>2, <1>3

LEMMA RedirectedPeers ==
  ASSUME PeerInv, Redirected PROVE PeerInv'
<1>0. request # Absent
  BY DEF Redirected, PeerInv
<1>1. CASE RequestFails
  BY <1>1, FailsPeers
<1>2. CASE ~RequestFails
  <2>1. /\ OriginOf[response.location] = OriginOf[request.current]
        /\ request' = [asked |-> request.asked, current |-> response.location,
                       redirects |-> request.redirects + 1]
        /\ pinned' = {} /\ peer' = Absent /\ response' = Absent
    BY <1>2 DEF Redirected, Follows
  <2>2. (request.current)' = response.location /\ (request.asked)' = request.asked
    BY <2>1
  <2>. QED  BY <1>0, <2>1, <2>2 DEF PeerInv
<1>. QED  BY <1>1, <1>2

LEMMA PeerStep ==
  ASSUME PeerInv, [Next]_vars PROVE PeerInv'
<1>1. CASE UNCHANGED requestVars
  BY <1>1, SamePeers
<1>2. CASE EndRequest
  BY <1>2, EndRequestPeers
<1>3. CASE Request
  <2>1. /\ \E url : request' = Asking(url)
        /\ UNCHANGED <<pinned, peer, response>> /\ request = Absent
    BY <1>3 DEF Request
  <2>2. pinned = {} /\ response = Absent /\ peer = Absent
    BY <2>1 DEF PeerInv
  <2>3. OriginOf[(request.current)'] = OriginOf[(request.asked)']
    BY <2>1 DEF Asking
  <2>. QED  BY <2>1, <2>2, <2>3 DEF PeerInv
<1>4. CASE Judge
  BY <1>4, JudgePeers
<1>5. CASE Connect
  <2>1. peer' \in pinned /\ UNCHANGED <<request, pinned, response>>
    BY <1>5 DEF Connect, send_to
  <2>2. Host' = Host
    BY <2>1 DEF Host
  <2>. QED  BY <2>1, <2>2 DEF PeerInv
<1>6. CASE Exchange
  <2>1. peer \in pinned /\ UNCHANGED <<request, pinned, peer>>
    BY <1>6 DEF Exchange
  <2>2. Host' = Host
    BY <2>1 DEF Host
  <2>. QED  BY <2>1, <2>2 DEF PeerInv
<1>7. CASE Redirected
  BY <1>7, RedirectedPeers
<1>8. CASE ConnectionFails \/ DeliverOther
  BY <1>8, FailsPeers DEF ConnectionFails, DeliverOther
<1>9. CASE Next
  <2>1. CASE BeginDetails \/ ConcludeAttributes \/ FinishDetails \/ ResolveAction
    BY <1>1, <2>1 DEF BeginDetails, ConcludeAttributes, FinishDetails, ResolveAction, requestVars
  <2>2. CASE ConcludeRequestSchema \/ BeginCapabilities \/ FinishCapabilities
    BY <1>1, <2>2 DEF ConcludeRequestSchema, BeginCapabilities, FinishCapabilities, requestVars
  <2>3. CASE Proceed
    BY <1>1, <2>3 DEF Proceed, resolutionVars, requestVars
  <2>4. CASE DeliverSchema \/ DeliverPage \/ DeliverOpenApi
    BY <1>2, <2>4 DEF DeliverSchema, DeliverPage, DeliverOpenApi
  <2>. QED  BY <1>3, <1>4, <1>5, <1>6, <1>7, <1>8, <1>9, <2>1, <2>2, <2>3, <2>4 DEF Next
<1>10. CASE UNCHANGED vars
  BY <1>1, <1>10 DEF vars, resolutionVars, requestVars
<1>. QED  BY <1>9, <1>10

LEMMA PeersAreJudged == PeerInv => OnlyJudgedPeers
<1>. SUFFICES ASSUME PeerInv, peer # Absent PROVE OnlyJudgedPeers
  BY DEF OnlyJudgedPeers
<1>1. peer \in pinned /\ Permitted(Host, peer, AllowLocal)
  BY DEF PeerInv
<1>2. Host = HostOf[OriginOf[request.asked]]
  BY <1>1 DEF PeerInv, Host
<1>. QED  BY <1>1, <1>2 DEF OnlyJudgedPeers, Permitted

\* For every Web and every name service, whatever it answers from one moment to the
\* next: the Agent connects only to public addresses, or to loopback for a host that is
\* the machine itself, in local development (destinations.rs:46-106).
THEOREM PeersJudged == Spec => []OnlyJudgedPeers
<1>1. Init => PeerInv
  BY DEF Init, PeerInv
<1>2. PeerInv /\ [Next]_vars => PeerInv'
  BY PeerStep
<1>3. PeerInv => OnlyJudgedPeers
  BY PeersAreJudged
<1>. QED  BY <1>1, <1>2, <1>3, PTL DEF Spec
-----------------------------------------------------------------------------
(***************************************************************************)
(* Capabilities.  What is available of a kind, after each of its sources,  *)
(* is accounted for: what a source holds is merged into what was available *)
(* before it (Merging), and that preserves the account (Account).          *)
(***************************************************************************)
Times(values, id) == Cardinality({i \in DOMAIN values : values[i].id = id})

Overflowed(kind, scope, reports) ==
  \E r \in reports : r.kind = kind /\ r.scope = scope /\ r.what = "limit"

Complained(kind, scope, id, reports) ==
  \/ Overflowed(kind, scope, reports)
  \/ \E r \in reports : r.kind = kind /\ r.scope = scope /\ id \in r.ids

Distinct(definitions) == \A d, e \in definitions : d.id = e.id => d = e

\* What the values of a source, of a kind and a scope, make of the definitions that
\* were available: nothing is taken from two, and what is lost is reported.
Merging(kind, scope, values, existing, definitions, reports) ==
  /\ IsFiniteSet(definitions) /\ Distinct(definitions)
  /\ \A d \in definitions :
       \/ d \in existing /\ d.id \notin Identifiers(values)
       \/ d.scope = scope /\ Times(values, d.id) = 1 /\ \A e \in existing : e.id # d.id
  /\ \A d \in existing : d \in definitions \/ d.id \in Identifiers(values)
  /\ \A id \in Identifiers(values) :
       \/ \E d \in definitions : d.id = id
       \/ Overflowed(kind, scope, reports)
       \/ /\ Complained(kind, scope, id, reports)
          /\ Times(values, id) # 1 \/ \E e \in existing : e.id = id

LEMMA TimesGiven ==
  ASSUME NEW values \in Seq(Definitions), NEW id
  PROVE  /\ IsFiniteSet({i \in DOMAIN values : values[i].id = id})
         /\ Times(values, id) \in Nat
         /\ Times(values, id) = 0 <=> id \notin Identifiers(values)
<1>. DEFINE places == {i \in DOMAIN values : values[i].id = id}
<1>1. IsFiniteSet(places)
  <2>1. IsFiniteSet(1 .. Len(values))
    BY FS_Interval
  <2>2. places \in SUBSET (1 .. Len(values))
    OBVIOUS
  <2>. QED  BY <2>1, <2>2, FS_Subset
<1>2. Cardinality(places) \in Nat /\ (Cardinality(places) = 0 <=> places = {})
  BY <1>1, FS_CardinalityType, FS_EmptySet
<1>3. places = {} <=> id \notin Identifiers(values)
  BY DEF Identifiers
<1>. QED  BY <1>1, <1>2, <1>3 DEF Times

\* An identifier that is no duplicate is given at one place.
LEMMA GivenOnce ==
  ASSUME NEW values \in Seq(Definitions), NEW existing, NEW i \in DOMAIN values,
         values[i].id \notin duplicate_ids(values, existing)
  PROVE  /\ Times(values, values[i].id) = 1
         /\ \A j \in DOMAIN values : values[j].id = values[i].id => j = i
         /\ \A e \in existing : e.id # values[i].id
<1>. DEFINE id == values[i].id
            places == {j \in DOMAIN values : values[j].id = id}
<1>1. id \in Identifiers(values)
  BY DEF Identifiers
<1>2. ~(Cardinality(places) > 1) /\ \A e \in existing : e.id # id
  BY <1>1 DEF duplicate_ids
<1>3. IsFiniteSet(places) /\ Cardinality(places) \in Nat /\ Cardinality(places) # 0
  BY <1>1, TimesGiven DEF Times
<1>4. Cardinality(places) = 1
  BY <1>2, <1>3
<1>5. PICK x : places = {x}
  BY <1>3, <1>4, FS_Singleton
<1>6. i \in places
  OBVIOUS
<1>. QED  BY <1>2, <1>4, <1>5, <1>6 DEF Times

\* add_filters and add_sorts.
LEMMA MergedIsMerging ==
  ASSUME NEW values \in Seq(Definitions), NEW existing, IsFiniteSet(existing), Distinct(existing),
         NEW maximum \in Nat, Cardinality(existing) <= maximum
  PROVE  LET merged == Merged(values, existing, maximum)
         IN  /\ Merging(Kind[stage], Scope[stage], values, existing, merged.definitions, merged.issues)
             /\ Cardinality(merged.definitions) <= maximum
<1>. DEFINE duplicates == duplicate_ids(values, existing)
            kept       == {d \in existing : d.id \notin duplicates}
            places     == {j \in DOMAIN values : values[j].id \notin duplicates}
            taken(i)   == [id |-> values[i].id, keys |-> values[i].keys, scope |-> Scope[stage]]
            accepted   == {taken(i) : i \in places}
            fits       == Cardinality(kept) + Cardinality(accepted) <= maximum
            report(what, ids) == Issue(Kind[stage], Scope[stage], what, ids)
            merged     == Merged(values, existing, maximum)
<1>1. /\ merged.definitions = IF fits THEN kept \cup accepted ELSE kept
      /\ merged.issues = IF ~fits THEN {report("limit", {})}
                         ELSE IF duplicates # {} THEN {report("duplicate", duplicates)} ELSE {}
  BY DEF Merged
<1>2. IsFiniteSet(kept) /\ Cardinality(kept) <= Cardinality(existing)
      /\ Cardinality(kept) \in Nat /\ Cardinality(existing) \in Nat
  BY FS_Subset, FS_CardinalityType
<1>3. IsFiniteSet(accepted) /\ Cardinality(accepted) \in Nat
  <2>. DEFINE f == [i \in places |-> taken(i)]
  <2>1. IsFiniteSet(1 .. Len(values))
    BY FS_Interval
  <2>2. places \in SUBSET (1 .. Len(values))
    OBVIOUS
  <2>3. IsFiniteSet(places)
    BY <2>1, <2>2, FS_Subset
  <2>4. f \in Surjection(places, accepted)
    BY DEF Surjection
  <2>. QED  BY <2>3, <2>4, FS_Surjection, FS_CardinalityType
<1>4. IsFiniteSet(kept \cup accepted)
      /\ Cardinality(kept \cup accepted) <= Cardinality(kept) + Cardinality(accepted)
  <2>. HIDE DEF kept, accepted
  <2>1. IsFiniteSet(kept \cap accepted) /\ IsFiniteSet(kept \cup accepted)
    BY <1>2, <1>3, FS_Intersection, FS_Union
  <2>2. Cardinality(kept \cap accepted) \in Nat
    BY <2>1, FS_CardinalityType
  <2>3. Cardinality(kept \cup accepted)
          = Cardinality(kept) + Cardinality(accepted) - Cardinality(kept \cap accepted)
    BY <1>2, <1>3, FS_Union
  <2>. QED  BY <1>2, <1>3, <2>1, <2>2, <2>3
<1>5. IsFiniteSet(merged.definitions) /\ Cardinality(merged.definitions) <= maximum
  <2>. HIDE DEF kept, accepted, merged, duplicates
  <2>1. CASE fits
    <3>1. merged.definitions = kept \cup accepted
      BY <1>1, <2>1
    <3>2. Cardinality(kept \cup accepted) \in Nat
      BY <1>4, FS_CardinalityType
    <3>. QED  BY <1>2, <1>3, <1>4, <2>1, <3>1, <3>2
  <2>2. CASE ~fits
    <3>1. merged.definitions = kept
      BY <1>1, <2>2
    <3>. QED  BY <1>2, <3>1
  <2>. QED  BY <2>1, <2>2
<1>6. ASSUME NEW d \in accepted
      PROVE  /\ d.id \notin duplicates /\ d.scope = Scope[stage] /\ Times(values, d.id) = 1
             /\ \A e \in existing : e.id # d.id
             /\ \A e \in accepted : e.id = d.id => e = d
  <2>1. PICK i \in places : d = taken(i)
    OBVIOUS
  <2>2. i \in DOMAIN values /\ d.id = values[i].id /\ d.scope = Scope[stage]
        /\ values[i].id \notin duplicates
    BY <2>1
  <2>3. /\ Times(values, d.id) = 1 /\ \A e \in existing : e.id # d.id
        /\ \A j \in DOMAIN values : values[j].id = d.id => j = i
    BY <2>2, GivenOnce
  <2>4. ASSUME NEW e \in accepted, e.id = d.id PROVE e = d
    <3>1. PICK j \in places : e = taken(j)
      OBVIOUS
    <3>2. values[j].id = d.id
      BY <2>4, <3>1
    <3>. QED  BY <2>1, <2>3, <3>1, <3>2
  <2>. QED  BY <2>2, <2>3, <2>4
<1>7. Distinct(merged.definitions)
  <2>1. Distinct(kept)
    BY DEF Distinct
  <2>2. Distinct(kept \cup accepted)
    <3>. SUFFICES ASSUME NEW d \in kept \cup accepted, NEW e \in kept \cup accepted, d.id = e.id
                  PROVE  d = e
      BY DEF Distinct
    <3>. HIDE DEF accepted, duplicates
    <3>1. CASE d \in kept /\ e \in kept
      BY <2>1, <3>1 DEF Distinct
    <3>2. CASE d \in accepted
      <4>1. e \in accepted
        BY <1>6, <3>2
      <4>. QED  BY <1>6, <3>2, <4>1
    <3>3. CASE e \in accepted
      <4>1. d \in accepted
        BY <1>6, <3>3
      <4>. QED  BY <1>6, <3>3, <4>1
    <3>. QED  BY <3>1, <3>2, <3>3
  <2>. QED  BY <1>1, <2>1, <2>2
<1>8. duplicates \subseteq Identifiers(values)
      /\ \A id \in Identifiers(values) : (\E e \in existing : e.id = id) => id \in duplicates
  BY DEF duplicate_ids
<1>9. \A d \in existing : d.id \in Identifiers(values) => d.id \in duplicates
  BY <1>8
<1>10. ASSUME NEW d \in merged.definitions
       PROVE  \/ d \in existing /\ d.id \notin Identifiers(values)
              \/ d.scope = Scope[stage] /\ Times(values, d.id) = 1 /\ \A e \in existing : e.id # d.id
  <2>1. d \in kept \/ d \in accepted
    BY <1>1
  <2>. HIDE DEF accepted, duplicates
  <2>2. CASE d \in kept
    BY <1>9, <2>2
  <2>. QED  BY <1>6, <2>1, <2>2
<1>11. ASSUME NEW d \in existing, d.id \notin Identifiers(values) PROVE d \in merged.definitions
  <2>1. d \in kept
    BY <1>8, <1>11
  <2>. QED  BY <1>1, <2>1
<1>12. ASSUME NEW id \in Identifiers(values)
       PROVE  \/ \E d \in merged.definitions : d.id = id
              \/ Overflowed(Kind[stage], Scope[stage], merged.issues)
              \/ /\ Complained(Kind[stage], Scope[stage], id, merged.issues)
                 /\ Times(values, id) # 1 \/ \E e \in existing : e.id = id
  <2>1. CASE ~fits
    <3>1. report("limit", {}) \in merged.issues
      BY <1>1, <2>1
    <3>. QED  BY <3>1 DEF Overflowed, Issue
  <2>2. CASE fits /\ id \in duplicates
    <3>1. report("duplicate", duplicates) \in merged.issues
      BY <1>1, <2>2
    <3>2. Complained(Kind[stage], Scope[stage], id, merged.issues)
      <4>. DEFINE r == report("duplicate", duplicates)
      <4>1. r.kind = Kind[stage] /\ r.scope = Scope[stage] /\ id \in r.ids
        BY <2>2 DEF Issue
      <4>. QED  BY <3>1, <4>1 DEF Complained
    <3>3. Times(values, id) # 1 \/ \E e \in existing : e.id = id
      BY <2>2 DEF duplicate_ids, Times
    <3>. QED  BY <3>2, <3>3
  <2>3. CASE fits /\ id \notin duplicates
    <3>1. PICK i \in DOMAIN values : values[i].id = id
      BY DEF Identifiers
    <3>2. taken(i) \in accepted /\ taken(i).id = id
      BY <2>3, <3>1
    <3>3. taken(i) \in merged.definitions
      BY <1>1, <2>3, <3>2
    <3>. QED  BY <3>2, <3>3
  <2>. QED  BY <2>1, <2>2, <2>3
<1>. HIDE DEF merged
<1>13. Merging(Kind[stage], Scope[stage], values, existing, merged.definitions, merged.issues)
  BY <1>5, <1>7, <1>10, <1>11, <1>12 DEF Merging
<1>. QED  BY <1>5, <1>13 DEF merged

\* A source that could not be read has no part in what is available.
LEMMA NothingMerged ==
  ASSUME NEW kind, NEW scope, NEW existing, IsFiniteSet(existing), Distinct(existing), NEW reports
  PROVE  Merging(kind, scope, <<>>, existing, existing, reports)
  BY DEF Merging, Identifiers

\* The account of what is available of a kind, service and collection being the places
\* of its two sources: before the Service's, between the two, and after the Collection's.
Account(kind, service, collection, available, held, reports) ==
  /\ Len(held) < service => available = {}
  /\ service <= Len(held) /\ Len(held) < collection =>
       /\ \A d \in available : d.scope = "Service" /\ Times(held[service], d.id) = 1
       /\ \A id \in Identifiers(held[service]) :
            \/ \E d \in available : d.id = id
            \/ /\ Complained(kind, "Service", id, reports)
               /\ Times(held[service], id) = 1 => Overflowed(kind, "Service", reports)
  /\ collection <= Len(held) =>
       /\ \A d \in available :
            \/ /\ d.scope = "Service"
               /\ Times(held[service], d.id) = 1 /\ Times(held[collection], d.id) = 0
            \/ /\ d.scope = "Collection" /\ Times(held[collection], d.id) = 1
               /\ Times(held[service], d.id) = 1 => Overflowed(kind, "Service", reports)
       /\ \A id \in Identifiers(held[service]) \cup Identifiers(held[collection]) :
            \/ \E d \in available : d.id = id
            \/ Times(held[service], id) # 0 /\ Complained(kind, "Service", id, reports)
            \/ Times(held[collection], id) # 0 /\ Complained(kind, "Collection", id, reports)

LEMMA ComplaintsStand ==
  ASSUME NEW kind, NEW scope, NEW id, NEW reports, NEW more, reports \subseteq more
  PROVE  /\ Overflowed(kind, scope, reports) => Overflowed(kind, scope, more)
         /\ Complained(kind, scope, id, reports) => Complained(kind, scope, id, more)
<1>1. Overflowed(kind, scope, reports) => Overflowed(kind, scope, more)
  BY DEF Overflowed
<1>. QED  BY <1>1 DEF Complained

LEMMA HeldStays ==
  ASSUME NEW held \in Seq(Seq(Definitions)), NEW values \in Seq(Definitions)
  PROVE  LET after == Append(held, values)
         IN  /\ after \in Seq(Seq(Definitions))
             /\ Len(after) = Len(held) + 1 /\ after[Len(held) + 1] = values
             /\ \A n \in 1 .. Len(held) : after[n] = held[n]
  OBVIOUS

LEMMA AccountOfService ==
  ASSUME NEW kind, NEW service \in Nat, NEW collection \in Nat, service < collection,
         NEW held \in Seq(Seq(Definitions)), Len(held) + 1 = service,
         NEW existing, NEW reports, Account(kind, service, collection, existing, held, reports),
         NEW values \in Seq(Definitions), NEW definitions, NEW more,
         Merging(kind, "Service", values, existing, definitions, more),
         NEW all, reports \subseteq all, more \subseteq all
  PROVE  Account(kind, service, collection, definitions, Append(held, values), all)
<1>. DEFINE after == Append(held, values)
<1>1. Len(after) = service /\ after[service] = values /\ Len(held) \in Nat
  BY HeldStays
<1>2. existing = {}
  BY <1>1 DEF Account
<1>3. \A d \in definitions : d.scope = "Service" /\ Times(values, d.id) = 1
  BY <1>2 DEF Merging
<1>4. ASSUME NEW id \in Identifiers(values)
      PROVE  \/ \E d \in definitions : d.id = id
             \/ /\ Complained(kind, "Service", id, all)
                /\ Times(values, id) = 1 => Overflowed(kind, "Service", all)
  <2>1. \/ \E d \in definitions : d.id = id
        \/ Overflowed(kind, "Service", more)
        \/ Complained(kind, "Service", id, more) /\ Times(values, id) # 1
    BY <1>2 DEF Merging
  <2>2. Overflowed(kind, "Service", all) => Complained(kind, "Service", id, all)
    BY DEF Complained
  <2>. QED  BY <2>1, <2>2, ComplaintsStand
<1>. HIDE DEF after
<1>. QED  BY <1>1, <1>3, <1>4 DEF Account, after

LEMMA AccountOfCollection ==
  ASSUME NEW kind, NEW service \in Nat, NEW collection \in Nat, 1 <= service, service < collection,
         NEW held \in Seq(Seq(Definitions)), Len(held) + 1 = collection,
         NEW existing, NEW reports, Account(kind, service, collection, existing, held, reports),
         NEW values \in Seq(Definitions), NEW definitions, NEW more,
         Merging(kind, "Collection", values, existing, definitions, more),
         NEW all, reports \subseteq all, more \subseteq all
  PROVE  Account(kind, service, collection, definitions, Append(held, values), all)
<1>. DEFINE after == Append(held, values)
            first == held[service]
<1>1. /\ Len(after) = collection /\ after[collection] = values /\ after[service] = first
      /\ Len(held) \in Nat /\ first \in Seq(Definitions)
  BY HeldStays
<1>. HIDE DEF after, first
<1>2. /\ \A d \in existing : d.scope = "Service" /\ Times(first, d.id) = 1
      /\ \A id \in Identifiers(first) :
           \/ \E d \in existing : d.id = id
           \/ /\ Complained(kind, "Service", id, reports)
              /\ Times(first, id) = 1 => Overflowed(kind, "Service", reports)
  BY <1>1 DEF Account, first
<1>3. ASSUME NEW d \in definitions
      PROVE  \/ d.scope = "Service" /\ Times(first, d.id) = 1 /\ Times(values, d.id) = 0
             \/ /\ d.scope = "Collection" /\ Times(values, d.id) = 1
                /\ Times(first, d.id) = 1 => Overflowed(kind, "Service", all)
  <2>1. CASE d \in existing /\ d.id \notin Identifiers(values)
    BY <1>2, <2>1, TimesGiven
  <2>2. CASE d.scope = "Collection" /\ Times(values, d.id) = 1 /\ \A e \in existing : e.id # d.id
    <3>1. ASSUME Times(first, d.id) = 1 PROVE Overflowed(kind, "Service", all)
      <4>1. d.id \in Identifiers(first)
        <5>1. Times(first, d.id) = 0 <=> d.id \notin Identifiers(first)
          BY <1>1, TimesGiven
        <5>. QED  BY <3>1, <5>1
      <4>2. Overflowed(kind, "Service", reports)
        BY <1>2, <2>2, <3>1, <4>1
      <4>. QED  BY <4>2, ComplaintsStand
    <3>. QED  BY <2>2, <3>1
  <2>. QED  BY <2>1, <2>2 DEF Merging
<1>4. ASSUME NEW id \in Identifiers(first) \cup Identifiers(values)
      PROVE  \/ \E d \in definitions : d.id = id
             \/ Times(first, id) # 0 /\ Complained(kind, "Service", id, all)
             \/ Times(values, id) # 0 /\ Complained(kind, "Collection", id, all)
  <2>1. CASE id \in Identifiers(values)
    <3>1. Times(values, id) # 0
      BY <2>1, TimesGiven
    <3>2. \/ \E d \in definitions : d.id = id
          \/ Complained(kind, "Collection", id, more)
      BY <2>1 DEF Merging, Complained
    <3>. QED  BY <3>1, <3>2, ComplaintsStand
  <2>2. CASE id \in Identifiers(first) /\ id \notin Identifiers(values)
    <3>1. Times(first, id) # 0
      BY <1>1, <2>2, TimesGiven
    <3>2. CASE Complained(kind, "Service", id, reports)
      BY <3>1, <3>2, ComplaintsStand
    <3>3. CASE \E d \in existing : d.id = id
      <4>1. PICK d \in existing : d.id = id
        BY <3>3
      <4>2. d \in definitions
        BY <2>2, <4>1 DEF Merging
      <4>. QED  BY <4>1, <4>2
    <3>. QED  BY <1>2, <2>2, <3>2, <3>3
  <2>. QED  BY <2>1, <2>2
<1>. QED  BY <1>1, <1>3, <1>4 DEF Account, after

\* The sources of the other kind leave the account as it was.
LEMMA AccountOfOther ==
  ASSUME NEW kind, NEW service \in Nat, NEW collection \in Nat, 1 <= service, service < collection,
         NEW held \in Seq(Seq(Definitions)), Len(held) + 1 \notin {service, collection},
         NEW available, NEW reports, Account(kind, service, collection, available, held, reports),
         NEW values \in Seq(Definitions), NEW all, reports \subseteq all
  PROVE  Account(kind, service, collection, available, Append(held, values), all)
<1>. DEFINE after == Append(held, values)
<1>1. /\ Len(after) = Len(held) + 1 /\ Len(held) \in Nat
      /\ service <= Len(held) => after[service] = held[service]
      /\ collection <= Len(held) => after[collection] = held[collection]
  BY HeldStays
<1>. HIDE DEF after
<1>2. /\ Overflowed(kind, "Service", reports) => Overflowed(kind, "Service", all)
      /\ \A id : /\ Complained(kind, "Service", id, reports) => Complained(kind, "Service", id, all)
                 /\ Complained(kind, "Collection", id, reports) => Complained(kind, "Collection", id, all)
  BY ComplaintsStand
<1>3. CASE Len(after) < service
  <2>1. Len(held) < service /\ ~(service <= Len(after)) /\ ~(collection <= Len(after))
    BY <1>1, <1>3
  <2>2. available = {}
    BY <2>1 DEF Account
  <2>. QED  BY <2>1, <2>2 DEF Account, after
<1>4. CASE service <= Len(after) /\ Len(after) < collection
  <2>1. service <= Len(held) /\ Len(held) < collection
    BY <1>1, <1>4
  <2>2. ~(Len(after) < service) /\ ~(collection <= Len(after)) /\ after[service] = held[service]
    BY <1>1, <1>4, <2>1
  <2>. DEFINE first == held[service]
  <2>3. /\ \A d \in available : d.scope = "Service" /\ Times(first, d.id) = 1
        /\ \A id \in Identifiers(first) :
             \/ \E d \in available : d.id = id
             \/ /\ Complained(kind, "Service", id, reports)
                /\ Times(first, id) = 1 => Overflowed(kind, "Service", reports)
    BY <2>1 DEF Account
  <2>. HIDE DEF first
  <2>4. \A id \in Identifiers(first) :
             \/ \E d \in available : d.id = id
             \/ /\ Complained(kind, "Service", id, all)
                /\ Times(first, id) = 1 => Overflowed(kind, "Service", all)
    BY <1>2, <2>3
  <2>. QED  BY <2>2, <2>3, <2>4 DEF Account, after, first
<1>5. CASE collection <= Len(after)
  <2>1. service <= Len(held) /\ collection <= Len(held)
    BY <1>1, <1>5
  <2>2. /\ ~(Len(after) < service) /\ ~(Len(after) < collection)
        /\ after[service] = held[service] /\ after[collection] = held[collection]
    BY <1>1, <1>5, <2>1
  <2>. DEFINE first  == held[service]
              second == held[collection]
  <2>3. /\ \A d \in available :
             \/ d.scope = "Service" /\ Times(first, d.id) = 1 /\ Times(second, d.id) = 0
             \/ /\ d.scope = "Collection" /\ Times(second, d.id) = 1
                /\ Times(first, d.id) = 1 => Overflowed(kind, "Service", reports)
        /\ \A id \in Identifiers(first) \cup Identifiers(second) :
             \/ \E d \in available : d.id = id
             \/ Times(first, id) # 0 /\ Complained(kind, "Service", id, reports)
             \/ Times(second, id) # 0 /\ Complained(kind, "Collection", id, reports)
    BY <2>1 DEF Account
  <2>. HIDE DEF first, second
  <2>4. \A d \in available :
             \/ d.scope = "Service" /\ Times(first, d.id) = 1 /\ Times(second, d.id) = 0
             \/ /\ d.scope = "Collection" /\ Times(second, d.id) = 1
                /\ Times(first, d.id) = 1 => Overflowed(kind, "Service", all)
    BY <1>2, <2>3
  <2>5. \A id \in Identifiers(first) \cup Identifiers(second) :
             \/ \E d \in available : d.id = id
             \/ Times(first, id) # 0 /\ Complained(kind, "Service", id, all)
             \/ Times(second, id) # 0 /\ Complained(kind, "Collection", id, all)
    BY <1>2, <2>3
  <2>. QED  BY <2>2, <2>4, <2>5 DEF Account, after, first, second
<1>. QED  BY <1>1, <1>3, <1>4, <1>5

KindInv(kind, service, collection, available, maximum, held, reports) ==
  /\ IsFiniteSet(available) /\ Distinct(available) /\ Cardinality(available) <= maximum
  /\ \A d \in available : Definition(d)
  /\ Account(kind, service, collection, available, held, reports)

FiltersInv(available, held, reports) ==
  KindInv("filters", 1, 3, available, MaximumFilters, held, reports)

SortsInv(available, held, reports) ==
  KindInv("sorts", 2, 4, available, MaximumSorts, held, reports)

\* What a resolution has come to.
SourcesInv ==
  /\ stage \in 0 .. 6 /\ loaded \in Seq(Seq(Definitions))
  /\ stage \in 1 .. 5 => Len(loaded) = stage - 1
  /\ stage \in 1 .. 4 => sources.Service \in Capabilities /\ sources.Collection \in Capabilities
  /\ load # Absent =>
       /\ stage \in 1 .. 4 /\ load.values \in Seq(Definitions)
       /\ load.pages \in 0 .. MaximumCapabilityPages
       /\ IsFiniteSet(load.visited) /\ Cardinality(load.visited) = load.pages

ResultInv ==
  /\ catalog \subseteq sorts /\ (stage # 6 => catalog = {})
  /\ stage = 6 /\ loaded # <<>> =>
       /\ Len(loaded) = 4
       /\ catalog = {s \in sorts : Orderable(s, filters)}
       /\ \A s \in sorts \ catalog : Complained("sorts", s.scope, s.id, issues)

CapInv ==
  /\ SourcesInv /\ ResultInv
  /\ FiltersInv(filters, loaded, issues) /\ SortsInv(sorts, loaded, issues)

LEMMA KindMerges ==
  ASSUME NEW kind, NEW service \in 1 .. 4, NEW collection \in 1 .. 4, service < collection,
         NEW held \in Seq(Seq(Definitions)), NEW place \in {service, collection},
         Len(held) = place - 1, Scope[service] = "Service", Scope[collection] = "Collection",
         NEW existing, NEW maximum, NEW reports,
         KindInv(kind, service, collection, existing, maximum, held, reports),
         NEW values \in Seq(Definitions), NEW definitions, NEW more,
         Merging(kind, Scope[place], values, existing, definitions, more),
         Cardinality(definitions) <= maximum,
         NEW all, reports \subseteq all, more \subseteq all
  PROVE  KindInv(kind, service, collection, definitions, maximum, Append(held, values), all)
<1>1. Account(kind, service, collection, existing, held, reports)
  BY DEF KindInv
<1>2. \A d \in definitions : Definition(d)
  BY DEF KindInv, Merging, Definition
<1>3. Account(kind, service, collection, definitions, Append(held, values), all)
  <2>1. CASE place = service
    <3>1. Len(held) + 1 = service
      BY <2>1
    <3>. QED  BY <1>1, <2>1, <3>1, AccountOfService
  <2>2. CASE place = collection
    <3>1. Len(held) + 1 = collection
      BY <2>2
    <3>. QED  BY <1>1, <2>2, <3>1, AccountOfCollection
  <2>. QED  BY <2>1, <2>2
<1>. QED  BY <1>2, <1>3 DEF KindInv, Merging

LEMMA KindStays ==
  ASSUME NEW kind, NEW service \in 1 .. 4, NEW collection \in 1 .. 4, service < collection,
         NEW held \in Seq(Seq(Definitions)), NEW place \in (1 .. 4) \ {service, collection},
         Len(held) = place - 1, NEW available, NEW maximum, NEW reports,
         KindInv(kind, service, collection, available, maximum, held, reports),
         NEW values \in Seq(Definitions), NEW all, reports \subseteq all
  PROVE  KindInv(kind, service, collection, available, maximum, Append(held, values), all)
<1>1. Len(held) + 1 \notin {service, collection} /\ service \in Nat /\ collection \in Nat /\ 1 <= service
  OBVIOUS
<1>. QED  BY <1>1, AccountOfOther DEF KindInv

\* The two kinds once the sources have another place.
LEMMA FiltersAfter ==
  ASSUME SourcesInv, stage \in 1 .. 4, FiltersInv(filters, loaded, issues),
         NEW values \in Seq(Definitions), NEW definitions, NEW more,
         IF Kind[stage] = "filters"
         THEN /\ Merging("filters", Scope[stage], values, filters, definitions, more)
              /\ Cardinality(definitions) <= MaximumFilters
         ELSE definitions = filters,
         NEW all, issues \subseteq all, more \subseteq all
  PROVE  FiltersInv(definitions, Append(loaded, values), all)
<1>1. Len(loaded) = stage - 1 /\ loaded \in Seq(Seq(Definitions))
  BY DEF SourcesInv
<1>2. Scope[1] = "Service" /\ Scope[3] = "Collection"
  BY DEF Scope
<1>3. CASE stage \in {1, 3}
  <2>1. Kind[stage] = "filters"
    BY <1>3 DEF Kind
  <2>2. KindInv("filters", 1, 3, filters, MaximumFilters, loaded, issues)
    BY DEF FiltersInv
  <2>3. /\ Merging("filters", Scope[stage], values, filters, definitions, more)
        /\ Cardinality(definitions) <= MaximumFilters
    BY <2>1
  <2>4. stage \in {1, 3} /\ 1 \in 1 .. 4 /\ 3 \in 1 .. 4 /\ 1 < 3
    BY <1>3
  <2>5. KindInv("filters", 1, 3, definitions, MaximumFilters, Append(loaded, values), all)
    BY <1>1, <1>2, <2>2, <2>3, <2>4, KindMerges
  <2>. QED  BY <2>5 DEF FiltersInv
<1>4. CASE stage \in {2, 4}
  <2>1. Kind[stage] # "filters" /\ stage \in (1 .. 4) \ {1, 3}
    BY <1>4 DEF Kind
  <2>2. KindInv("filters", 1, 3, filters, MaximumFilters, loaded, issues) /\ definitions = filters
    BY <2>1 DEF FiltersInv
  <2>3. 1 \in 1 .. 4 /\ 3 \in 1 .. 4 /\ 1 < 3
    OBVIOUS
  <2>4. KindInv("filters", 1, 3, definitions, MaximumFilters, Append(loaded, values), all)
    BY <1>1, <2>1, <2>2, <2>3, KindStays
  <2>. QED  BY <2>4 DEF FiltersInv
<1>. QED  BY <1>3, <1>4

LEMMA SortsAfter ==
  ASSUME SourcesInv, stage \in 1 .. 4, SortsInv(sorts, loaded, issues),
         NEW values \in Seq(Definitions), NEW definitions, NEW more,
         IF Kind[stage] = "sorts"
         THEN /\ Merging("sorts", Scope[stage], values, sorts, definitions, more)
              /\ Cardinality(definitions) <= MaximumSorts
         ELSE definitions = sorts,
         NEW all, issues \subseteq all, more \subseteq all
  PROVE  SortsInv(definitions, Append(loaded, values), all)
<1>1. Len(loaded) = stage - 1 /\ loaded \in Seq(Seq(Definitions))
  BY DEF SourcesInv
<1>2. Scope[2] = "Service" /\ Scope[4] = "Collection"
  BY DEF Scope
<1>3. CASE stage \in {2, 4}
  <2>1. Kind[stage] = "sorts"
    BY <1>3 DEF Kind
  <2>2. KindInv("sorts", 2, 4, sorts, MaximumSorts, loaded, issues)
    BY DEF SortsInv
  <2>3. /\ Merging("sorts", Scope[stage], values, sorts, definitions, more)
        /\ Cardinality(definitions) <= MaximumSorts
    BY <2>1
  <2>4. stage \in {2, 4} /\ 2 \in 1 .. 4 /\ 4 \in 1 .. 4 /\ 2 < 4
    BY <1>3
  <2>5. KindInv("sorts", 2, 4, definitions, MaximumSorts, Append(loaded, values), all)
    BY <1>1, <1>2, <2>2, <2>3, <2>4, KindMerges
  <2>. QED  BY <2>5 DEF SortsInv
<1>4. CASE stage \in {1, 3}
  <2>1. Kind[stage] # "sorts" /\ stage \in (1 .. 4) \ {2, 4}
    BY <1>4 DEF Kind
  <2>2. KindInv("sorts", 2, 4, sorts, MaximumSorts, loaded, issues) /\ definitions = sorts
    BY <2>1 DEF SortsInv
  <2>3. 2 \in 1 .. 4 /\ 4 \in 1 .. 4 /\ 2 < 4
    OBVIOUS
  <2>4. KindInv("sorts", 2, 4, definitions, MaximumSorts, Append(loaded, values), all)
    BY <1>1, <2>1, <2>2, <2>3, KindStays
  <2>. QED  BY <2>4 DEF SortsInv
<1>. QED  BY <1>3, <1>4

\* The next source has its turn.
LEMMA TurnOfSources ==
  ASSUME CapInv, stage \in 1 .. 4, NEW values \in Seq(Definitions),
         loaded' = Append(loaded, values), stage' = stage + 1, load' = Absent,
         UNCHANGED <<sources, catalog>>
  PROVE  SourcesInv' /\ ResultInv'
<1>1. /\ loaded' \in Seq(Seq(Definitions)) /\ Len(loaded') = stage
      /\ stage' \in 2 .. 5 /\ stage' = stage + 1
  BY DEF CapInv, SourcesInv
<1>2. SourcesInv'
  BY <1>1 DEF CapInv, SourcesInv
<1>3. catalog' = {}
  BY DEF CapInv, ResultInv
<1>. QED  BY <1>1, <1>2, <1>3 DEF ResultInv

\* Another issue takes nothing from the account.
LEMMA AccountStands ==
  ASSUME NEW kind, NEW service \in 1 .. 4, NEW collection \in 1 .. 4,
         NEW held \in Seq(Seq(Definitions)), NEW available, NEW reports,
         Account(kind, service, collection, available, held, reports),
         NEW all, reports \subseteq all
  PROVE  Account(kind, service, collection, available, held, all)
<1>1. /\ Overflowed(kind, "Service", reports) => Overflowed(kind, "Service", all)
      /\ \A id : /\ Complained(kind, "Service", id, reports) => Complained(kind, "Service", id, all)
                 /\ Complained(kind, "Collection", id, reports) => Complained(kind, "Collection", id, all)
  BY ComplaintsStand
<1>. DEFINE first  == held[service]
            second == held[collection]
<1>2. service <= Len(held) /\ Len(held) < collection =>
       /\ \A d \in available : d.scope = "Service" /\ Times(first, d.id) = 1
       /\ \A id \in Identifiers(first) :
            \/ \E d \in available : d.id = id
            \/ /\ Complained(kind, "Service", id, all)
               /\ Times(first, id) = 1 => Overflowed(kind, "Service", all)
  <2>. HIDE DEF first
  <2>. QED  BY <1>1 DEF Account, first
<1>3. collection <= Len(held) =>
       /\ \A d \in available :
            \/ d.scope = "Service" /\ Times(first, d.id) = 1 /\ Times(second, d.id) = 0
            \/ /\ d.scope = "Collection" /\ Times(second, d.id) = 1
               /\ Times(first, d.id) = 1 => Overflowed(kind, "Service", all)
       /\ \A id \in Identifiers(first) \cup Identifiers(second) :
            \/ \E d \in available : d.id = id
            \/ Times(first, id) # 0 /\ Complained(kind, "Service", id, all)
            \/ Times(second, id) # 0 /\ Complained(kind, "Collection", id, all)
  <2>. HIDE DEF first, second
  <2>. QED  BY <1>1 DEF Account, first, second
<1>4. Len(held) < service => available = {}
  BY DEF Account
<1>. HIDE DEF first, second
<1>. QED  BY <1>2, <1>3, <1>4 DEF Account, first, second

LEMMA AddCapabilities ==
  ASSUME CapInv, stage \in 1 .. 4, NEW values \in Seq(Definitions), Add(values) PROVE CapInv'
<1>. DEFINE ofFilters == Merged(values, filters, MaximumFilters)
            ofSorts   == Merged(values, sorts, MaximumSorts)
            merged    == IF Kind[stage] = "filters" THEN ofFilters ELSE ofSorts
<1>1. /\ filters' = IF Kind[stage] = "filters" THEN merged.definitions ELSE filters
      /\ sorts' = IF Kind[stage] = "sorts" THEN merged.definitions ELSE sorts
      /\ issues' = issues \cup merged.issues
      /\ loaded' = Append(loaded, values) /\ stage' = stage + 1 /\ load' = Absent
      /\ UNCHANGED <<sources, catalog>>
  BY DEF Add
<1>2. Kind[stage] \in {"filters", "sorts"}
  BY DEF Kind
<1>3. /\ IsFiniteSet(filters) /\ Distinct(filters) /\ Cardinality(filters) <= MaximumFilters
      /\ IsFiniteSet(sorts) /\ Distinct(sorts) /\ Cardinality(sorts) <= MaximumSorts
      /\ MaximumFilters \in Nat /\ MaximumSorts \in Nat
  BY CapabilitiesAssumption DEF CapInv, FiltersInv, SortsInv, KindInv
<1>4. /\ Merging(Kind[stage], Scope[stage], values, filters, ofFilters.definitions, ofFilters.issues)
      /\ Cardinality(ofFilters.definitions) <= MaximumFilters
  BY <1>3, MergedIsMerging
<1>5. /\ Merging(Kind[stage], Scope[stage], values, sorts, ofSorts.definitions, ofSorts.issues)
      /\ Cardinality(ofSorts.definitions) <= MaximumSorts
  BY <1>3, MergedIsMerging
<1>. HIDE DEF ofFilters, ofSorts
<1>6. /\ Kind[stage] = "filters" =>
           /\ Merging("filters", Scope[stage], values, filters, filters', merged.issues)
           /\ Cardinality(filters') <= MaximumFilters
           /\ sorts' = sorts
      /\ Kind[stage] = "sorts" =>
           /\ Merging("sorts", Scope[stage], values, sorts, sorts', merged.issues)
           /\ Cardinality(sorts') <= MaximumSorts
           /\ filters' = filters
  BY <1>1, <1>4, <1>5
<1>7. issues \subseteq issues' /\ merged.issues \subseteq issues'
  BY <1>1
<1>. HIDE DEF merged
<1>8. FiltersInv(filters', Append(loaded, values), issues')
  BY <1>2, <1>6, <1>7, FiltersAfter DEF CapInv
<1>9. SortsInv(sorts', Append(loaded, values), issues')
  BY <1>2, <1>6, <1>7, SortsAfter DEF CapInv
<1>10. SourcesInv' /\ ResultInv'
  BY <1>1, TurnOfSources
<1>. QED  BY <1>1, <1>8, <1>9, <1>10 DEF CapInv

LEMMA UnavailableCapabilities ==
  ASSUME CapInv, stage \in 1 .. 4, NEW what, Unavailable(what) PROVE CapInv'
<1>. DEFINE nothing == <<>>
            quiet   == {}
<1>1. /\ issues' = issues \cup {Issue(Kind[stage], Scope[stage], what, {})}
      /\ loaded' = Append(loaded, nothing) /\ stage' = stage + 1 /\ load' = Absent
      /\ UNCHANGED <<sources, filters, sorts, catalog>>
  BY DEF Unavailable
<1>2. nothing \in Seq(Definitions) /\ issues \subseteq issues' /\ quiet \subseteq issues'
  BY <1>1
<1>3. /\ IsFiniteSet(filters) /\ Distinct(filters) /\ Cardinality(filters) <= MaximumFilters
      /\ IsFiniteSet(sorts) /\ Distinct(sorts) /\ Cardinality(sorts) <= MaximumSorts
  BY DEF CapInv, FiltersInv, SortsInv, KindInv
<1>4. /\ Merging("filters", Scope[stage], nothing, filters, filters', quiet)
      /\ Merging("sorts", Scope[stage], nothing, sorts, sorts', quiet)
      /\ Cardinality(filters') <= MaximumFilters /\ Cardinality(sorts') <= MaximumSorts
  BY <1>1, <1>3, NothingMerged
<1>. HIDE DEF nothing, quiet
<1>5. SourcesInv /\ FiltersInv(filters, loaded, issues) /\ SortsInv(sorts, loaded, issues)
  BY DEF CapInv
<1>6. FiltersInv(filters', Append(loaded, nothing), issues')
  <2>1. IF Kind[stage] = "filters"
        THEN /\ Merging("filters", Scope[stage], nothing, filters, filters', quiet)
             /\ Cardinality(filters') <= MaximumFilters
        ELSE filters' = filters
    BY <1>1, <1>4
  <2>. QED  BY <1>2, <1>5, <2>1, FiltersAfter
<1>7. SortsInv(sorts', Append(loaded, nothing), issues')
  <2>1. IF Kind[stage] = "sorts"
        THEN /\ Merging("sorts", Scope[stage], nothing, sorts, sorts', quiet)
             /\ Cardinality(sorts') <= MaximumSorts
        ELSE sorts' = sorts
    BY <1>1, <1>4
  <2>. QED  BY <1>2, <1>5, <2>1, SortsAfter
<1>8. SourcesInv' /\ ResultInv'
  BY <1>1, <1>2, TurnOfSources
<1>. QED  BY <1>1, <1>6, <1>7, <1>8 DEF CapInv

\* Before the first source nothing is available of either kind.
LEMMA NothingYet ==
  ASSUME NEW reports
  PROVE  FiltersInv({}, <<>>, reports) /\ SortsInv({}, <<>>, reports)
<1>1. IsFiniteSet({}) /\ Cardinality({}) = 0
  BY FS_EmptySet
<1>. QED  BY <1>1, CapabilitiesAssumption DEF FiltersInv, SortsInv, KindInv, Account, Distinct

LEMMA SourceInline ==
  ASSUME CapInv, stage \in 1 .. 4, Source # Absent PROVE Source.inline \in Seq(Definitions)
<1>. DEFINE capabilities == sources[Scope[stage]]
<1>1. capabilities \in Capabilities
  BY DEF CapInv, SourcesInv, Scope
<1>2. capabilities # Absent /\ Source = capabilities[Kind[stage]] /\ Kind[stage] \in {"filters", "sorts"}
  BY DEF Source, Kind
<1>. HIDE DEF capabilities
<1>. QED  BY <1>1, <1>2, CapabilitiesAssumption

\* What a resolution asks for, and what it still holds, when a page is awaited.
LEMMA PageCapabilities ==
  ASSUME CapInv, NEW page \in Pages, PageArrives(page) PROVE CapInv'
<1>1. /\ load' = [values |-> load.values \o page.items, next |-> page.next,
                  visited |-> load.visited \cup {load.next}, pages |-> load.pages + 1]
      /\ UNCHANGED <<sources, stage, filters, sorts, catalog, issues, loaded>>
      /\ load # Absent /\ load.pages < MaximumCapabilityPages /\ load.next \notin load.visited
  BY DEF PageArrives, PageWanted, Loading, Seen
<1>2. /\ load.values \in Seq(Definitions) /\ load.pages \in 0 .. MaximumCapabilityPages
      /\ IsFiniteSet(load.visited) /\ Cardinality(load.visited) = load.pages /\ stage \in 1 .. 4
  BY <1>1 DEF CapInv, SourcesInv
<1>3. page.items \in Seq(Definitions)
  BY DEF Pages
<1>4. load'.values \in Seq(Definitions)
  BY <1>1, <1>2, <1>3
<1>5. IsFiniteSet(load'.visited) /\ Cardinality(load'.visited) = load'.pages
  BY <1>1, <1>2, FS_AddElement
<1>6. load'.pages \in 0 .. MaximumCapabilityPages
  BY <1>1, <1>2, CapabilitiesAssumption
<1>7. SourcesInv'
  BY <1>1, <1>2, <1>4, <1>5, <1>6 DEF CapInv, SourcesInv
<1>8. ResultInv'
  BY <1>1 DEF CapInv, ResultInv, Orderable
<1>. QED  BY <1>1, <1>7, <1>8 DEF CapInv

LEMMA HoldCapabilities ==
  ASSUME CapInv, HoldSorts PROVE CapInv'
<1>1. /\ stage = 5 /\ stage' = 6
      /\ catalog' = {s \in sorts : Orderable(s, filters)}
      /\ issues' = issues \cup {Issue("sorts", s.scope, "filter", {s.id}) : s \in sorts \ catalog'}
      /\ UNCHANGED <<sources, load, filters, sorts, loaded>>
  BY DEF HoldSorts
<1>2. Len(loaded) = 4 /\ load = Absent
  BY <1>1 DEF CapInv, SourcesInv
<1>3. SourcesInv'
  BY <1>1, <1>2 DEF CapInv, SourcesInv
<1>4. ASSUME NEW s \in sorts \ catalog' PROVE Complained("sorts", s.scope, s.id, issues')
  <2>. DEFINE r == Issue("sorts", s.scope, "filter", {s.id})
  <2>1. r \in issues'
    BY <1>1
  <2>2. r.kind = "sorts" /\ r.scope = s.scope /\ s.id \in r.ids
    BY DEF Issue
  <2>. QED  BY <2>1, <2>2 DEF Complained
<1>5. ResultInv'
  BY <1>1, <1>2, <1>4 DEF ResultInv, Orderable
<1>6. loaded \in Seq(Seq(Definitions)) /\ issues \subseteq issues'
  BY <1>1 DEF CapInv, SourcesInv
<1>7. FiltersInv(filters, loaded, issues')
  <2>1. Account("filters", 1, 3, filters, loaded, issues)
    BY DEF CapInv, FiltersInv, KindInv
  <2>2. 1 \in 1 .. 4 /\ 3 \in 1 .. 4
    OBVIOUS
  <2>3. Account("filters", 1, 3, filters, loaded, issues')
    BY <1>6, <2>1, <2>2, AccountStands
  <2>. QED  BY <2>3 DEF CapInv, FiltersInv, KindInv
<1>8. SortsInv(sorts, loaded, issues')
  <2>1. Account("sorts", 2, 4, sorts, loaded, issues)
    BY DEF CapInv, SortsInv, KindInv
  <2>2. 2 \in 1 .. 4 /\ 4 \in 1 .. 4
    OBVIOUS
  <2>3. Account("sorts", 2, 4, sorts, loaded, issues')
    BY <1>6, <2>1, <2>2, AccountStands
  <2>. QED  BY <2>3 DEF CapInv, SortsInv, KindInv
<1>. QED  BY <1>1, <1>3, <1>5, <1>7, <1>8 DEF CapInv

LEMMA BeginCapabilitiesHolds ==
  ASSUME NEW service \in Capabilities, NEW collection \in Capabilities, NEW supports_search \in BOOLEAN,
         resolve_search_capabilities(service, collection, supports_search)
  PROVE  CapInv'
<1>1. /\ sources' = [Service |-> service, Collection |-> collection]
      /\ load' = Absent /\ filters' = {} /\ sorts' = {} /\ catalog' = {} /\ loaded' = <<>>
      /\ stage' \in {1, 6}
  BY DEF resolve_search_capabilities
<1>2. SourcesInv'
  BY <1>1 DEF SourcesInv
<1>3. ResultInv'
  BY <1>1 DEF ResultInv
<1>4. FiltersInv({}, <<>>, issues') /\ SortsInv({}, <<>>, issues')
  BY NothingYet
<1>. QED  BY <1>1, <1>2, <1>3, <1>4 DEF CapInv

LEMMA NoCapabilities ==
  ASSUME stage = 0, load = Absent, filters = {}, sorts = {}, catalog = {}, loaded = <<>>
  PROVE  CapInv
<1>1. SourcesInv /\ ResultInv
  BY DEF SourcesInv, ResultInv
<1>2. FiltersInv({}, <<>>, issues) /\ SortsInv({}, <<>>, issues)
  BY NothingYet
<1>. QED  BY <1>1, <1>2 DEF CapInv

LEMMA EndCapabilities ==
  ASSUME CapabilitiesDone PROVE CapInv'
<1>1. /\ stage' = 0 /\ load' = Absent /\ filters' = {} /\ sorts' = {} /\ catalog' = {}
      /\ loaded' = <<>>
  BY DEF CapabilitiesDone
<1>2. SourcesInv' /\ ResultInv'
  BY <1>1 DEF SourcesInv, ResultInv
<1>3. FiltersInv({}, <<>>, issues') /\ SortsInv({}, <<>>, issues')
  BY NothingYet
<1>. QED  BY <1>1, <1>2, <1>3 DEF CapInv

LEMMA CapStep == CapInv /\ [CapabilitiesNext]_capabilityVars => CapInv'
<1>. SUFFICES ASSUME CapInv, [CapabilitiesNext]_capabilityVars PROVE CapInv'
  OBVIOUS
<1>1. load # Absent => stage \in 1 .. 4 /\ load.values \in Seq(Definitions)
  BY DEF CapInv, SourcesInv
<1>2. ASSUME NEW service \in Capabilities, NEW collection \in Capabilities, NEW supports_search \in BOOLEAN,
             resolve_search_capabilities(service, collection, supports_search)
      PROVE  CapInv'
  BY <1>2, BeginCapabilitiesHolds
<1>3. CASE AddInline
  <2>. DEFINE values == IF Source = Absent THEN <<>> ELSE Source.inline
  <2>1. stage \in 1 .. 4 /\ Add(values)
    BY <1>3 DEF AddInline
  <2>2. values \in Seq(Definitions)
    BY <2>1, SourceInline
  <2>. HIDE DEF values
  <2>. QED  BY <2>1, <2>2, AddCapabilities
<1>4. CASE BeginLinked
  <2>1. /\ stage \in 1 .. 4
        /\ load' = [values |-> <<>>, next |-> Source.linked, visited |-> {}, pages |-> 0]
        /\ UNCHANGED <<sources, stage, filters, sorts, catalog, issues, loaded>>
    BY <1>4 DEF BeginLinked
  <2>2. SourcesInv'
    BY <2>1, FS_EmptySet, CapabilitiesAssumption DEF CapInv, SourcesInv
  <2>3. ResultInv'
    BY <2>1 DEF CapInv, ResultInv, Orderable
  <2>. QED  BY <2>1, <2>2, <2>3 DEF CapInv
<1>5. CASE PageRefused
  <2>1. load # Absent /\ \E what : Unavailable(what)
    BY <1>5 DEF PageRefused
  <2>. QED  BY <1>1, <2>1, UnavailableCapabilities
<1>6. CASE PageFails
  <2>1. load # Absent /\ Unavailable("failed")
    BY <1>6 DEF PageFails, PageWanted, Loading
  <2>. QED  BY <1>1, <2>1, UnavailableCapabilities
<1>7. CASE AddLinked
  <2>1. load # Absent /\ Add(load.values)
    BY <1>7 DEF AddLinked
  <2>. QED  BY <1>1, <2>1, AddCapabilities
<1>8. CASE UNCHANGED capabilityVars
  <2>1. SourcesInv' /\ ResultInv'
    BY <1>8 DEF CapInv, SourcesInv, ResultInv, Orderable, capabilityVars
  <2>. QED  BY <1>8, <2>1 DEF CapInv, capabilityVars
<1>. QED  BY <1>2, <1>3, <1>4, <1>5, <1>6, <1>7, <1>8, HoldCapabilities, PageCapabilities,
             EndCapabilities DEF CapabilitiesNext

LEMMA CapImplies == CapInv => CatalogIsAccountedFor
<1>. SUFFICES ASSUME CapInv, stage = 6, loaded # <<>> PROVE CatalogIsAccountedFor
  BY DEF CatalogIsAccountedFor
<1>1. /\ Len(loaded) = 4 /\ catalog = {s \in sorts : Orderable(s, filters)}
      /\ \A s \in sorts \ catalog : Complained("sorts", s.scope, s.id, issues)
  BY DEF CapInv, ResultInv
<1>2. ASSUME NEW kind, NEW service \in 1 .. 4, NEW collection \in 1 .. 4, service < collection,
             NEW available, NEW maximum,
             KindInv(kind, service, collection, available, maximum, loaded, issues)
      PROVE  Sound(kind, service, collection, available)
  <2>. DEFINE first  == loaded[service]
              second == loaded[collection]
  <2>1. /\ \A d \in available :
             \/ d.scope = "Service" /\ Times(first, d.id) = 1 /\ Times(second, d.id) = 0
             \/ /\ d.scope = "Collection" /\ Times(second, d.id) = 1
                /\ Times(first, d.id) = 1 => Overflowed(kind, "Service", issues)
        /\ \A id \in Identifiers(first) \cup Identifiers(second) :
             \/ \E d \in available : d.id = id
             \/ Times(first, id) # 0 /\ Complained(kind, "Service", id, issues)
             \/ Times(second, id) # 0 /\ Complained(kind, "Collection", id, issues)
    BY <1>1, <1>2 DEF KindInv, Account
  <2>2. \A id : Given(service, id) = Times(first, id) /\ Given(collection, id) = Times(second, id)
    BY DEF Given, Times
  <2>3. /\ Over(kind, "Service") <=> Overflowed(kind, "Service", issues)
        /\ \A id : /\ Complaint(kind, "Service", id) <=> Complained(kind, "Service", id, issues)
                   /\ Complaint(kind, "Collection", id) <=> Complained(kind, "Collection", id, issues)
    BY DEF Over, Overflowed, Complaint, Complained
  <2>4. \A d, e \in available : d.id = e.id => d = e
    BY <1>2 DEF KindInv, Distinct
  <2>5. \A d \in available : OfOneSource(kind, d, service, collection)
    <3>. HIDE DEF first, second
    <3>. QED  BY <2>1, <2>2, <2>3 DEF OfOneSource
  <2>6. \A id \in Identifiers(first) \cup Identifiers(second) :
          \/ \E d \in available : d.id = id
          \/ Given(service, id) # 0 /\ Complaint(kind, "Service", id)
          \/ Given(collection, id) # 0 /\ Complaint(kind, "Collection", id)
    <3>. HIDE DEF first, second
    <3>. QED  BY <2>1, <2>2, <2>3
  <2>. QED  BY <2>4, <2>5, <2>6 DEF Sound
<1>3. Sound("filters", 1, 3, filters)
  <2>1. KindInv("filters", 1, 3, filters, MaximumFilters, loaded, issues)
    BY DEF CapInv, FiltersInv
  <2>. QED  BY <1>2, <2>1
<1>4. Sound("sorts", 2, 4, sorts)
  <2>1. KindInv("sorts", 2, 4, sorts, MaximumSorts, loaded, issues)
    BY DEF CapInv, SortsInv
  <2>. QED  BY <1>2, <2>1
<1>5. ASSUME NEW s \in sorts
      PROVE  s \in catalog <=> \A i \in DOMAIN s.keys : s.keys[i] \in {f.id : f \in filters}
  BY <1>1 DEF Orderable
<1>6. \A s \in sorts \ catalog : Complaint("sorts", s.scope, s.id)
  BY <1>1 DEF Complaint, Complained, Over, Overflowed
<1>. QED  BY <1>3, <1>4, <1>5, <1>6 DEF CatalogIsAccountedFor

\* For any Service and Collection, any limits and any pages: what is available of two
\* sources is accounted for (capabilities.rs:61-257).
THEOREM CapabilitiesAccountedFor == CapabilitiesSpec => []CatalogIsAccountedFor
<1>1. CapabilitiesInit => CapInv
  BY NoCapabilities DEF CapabilitiesInit
<1>2. CapInv /\ [CapabilitiesNext]_capabilityVars => CapInv'
  BY CapStep
<1>3. CapInv => CatalogIsAccountedFor
  BY CapImplies
<1>. QED  BY <1>1, <1>2, <1>3, PTL DEF CapabilitiesSpec
-----------------------------------------------------------------------------
(***************************************************************************)
(* What comes back is what was found on the Web, and a page of it is what  *)
(* the capabilities that wait for a page are given.                        *)
(***************************************************************************)
ResponseInv == response # Absent => \E u \in DOMAIN Web : response \in Web[u]

LEMMA RequestFailsResponse ==
  ASSUME RequestFails PROVE response' = Absent /\ [CapabilitiesNext]_capabilityVars
  BY DEF RequestFails, EndRequest, CapabilitiesNext, capabilityVars

LEMMA ResponseStep ==
  ASSUME ResponseInv, [Next]_vars PROVE ResponseInv'
<1>1. CASE Exchange
  BY <1>1 DEF Exchange, ResponseInv
<1>2. CASE Judge
  <2>1. UNCHANGED response \/ RequestFails
    BY <1>2 DEF Judge
  <2>. QED  BY <2>1, RequestFailsResponse DEF ResponseInv
<1>3. CASE Redirected
  <2>1. response' = Absent \/ RequestFails
    BY <1>3 DEF Redirected
  <2>. QED  BY <2>1, RequestFailsResponse DEF ResponseInv
<1>4. CASE ConnectionFails \/ DeliverOther
  BY <1>4, RequestFailsResponse DEF ConnectionFails, DeliverOther, ResponseInv
<1>5. CASE DeliverSchema \/ DeliverPage \/ DeliverOpenApi
  BY <1>5 DEF DeliverSchema, DeliverPage, DeliverOpenApi, EndRequest, ResponseInv
<1>6. CASE BeginDetails \/ ConcludeAttributes \/ FinishDetails \/ ResolveAction
  BY <1>6 DEF BeginDetails, ConcludeAttributes, FinishDetails, ResolveAction, requestVars, ResponseInv
<1>7. CASE ConcludeRequestSchema \/ BeginCapabilities \/ FinishCapabilities
  BY <1>7 DEF ConcludeRequestSchema, BeginCapabilities, FinishCapabilities, requestVars, ResponseInv
<1>8. CASE Proceed \/ Request \/ Connect \/ UNCHANGED vars
  BY <1>8 DEF Proceed, Request, Connect, vars, resolutionVars, ResponseInv
<1>. QED  BY <1>1, <1>2, <1>3, <1>4, <1>5, <1>6, <1>7, <1>8 DEF Next

LEMMA CapabilitiesStep ==
  ASSUME ResponseInv, [Next]_vars PROVE [CapabilitiesNext]_capabilityVars
<1>1. CASE BeginCapabilities \/ FinishCapabilities
  BY <1>1 DEF BeginCapabilities, FinishCapabilities, CapabilitiesNext
<1>2. CASE DeliverPage
  <2>1. response # Absent /\ response.kind = "page" /\ PageArrives(response)
    BY <1>2 DEF DeliverPage, Delivered
  <2>2. response \in Pages
    BY <2>1, ResolutionAssumption DEF ResponseInv
  <2>. QED  BY <2>1, <2>2 DEF CapabilitiesNext
<1>3. CASE Judge
  <2>1. UNCHANGED capabilityVars \/ RequestFails
    BY <1>3 DEF Judge
  <2>. QED  BY <2>1, RequestFailsResponse
<1>4. CASE Redirected
  <2>1. UNCHANGED capabilityVars \/ RequestFails
    BY <1>4 DEF Redirected
  <2>. QED  BY <2>1, RequestFailsResponse
<1>5. CASE ConnectionFails \/ DeliverOther
  BY <1>5, RequestFailsResponse DEF ConnectionFails, DeliverOther
<1>6. CASE Proceed
  BY <1>6 DEF Proceed, CapabilitiesNext
<1>7. CASE BeginDetails \/ ConcludeAttributes \/ FinishDetails \/ ResolveAction \/ ConcludeRequestSchema
  BY <1>7 DEF BeginDetails, ConcludeAttributes, FinishDetails, ResolveAction, ConcludeRequestSchema
<1>8. CASE Request \/ Connect \/ Exchange \/ DeliverSchema \/ DeliverOpenApi \/ UNCHANGED vars
  BY <1>8 DEF Request, Connect, Exchange, DeliverSchema, DeliverOpenApi, vars
<1>. QED  BY <1>1, <1>2, <1>3, <1>4, <1>5, <1>6, <1>7, <1>8 DEF Next

\* What the Agent does about search capabilities, requests, redirects and failures
\* included, is what SearchCapabilities allows (capabilities.rs:61-257 calling linked_odp).
THEOREM ResolutionImplementsCapabilities == Spec => CapabilitiesSpec
<1>1. Init => CapabilitiesInit /\ ResponseInv
  BY DEF Init, ResponseInv
<1>2. ResponseInv /\ [Next]_vars => ResponseInv' /\ [CapabilitiesNext]_capabilityVars
  BY ResponseStep, CapabilitiesStep
<1>. QED  BY <1>1, <1>2, PTL DEF Spec, CapabilitiesSpec

\* For any Service and Collection, and whatever is found on their pages meanwhile: what
\* an Agent is told it may filter and sort by is accounted for.
THEOREM CatalogAccountedFor == Spec => []CatalogIsAccountedFor
  BY ResolutionImplementsCapabilities, CapabilitiesAccountedFor, PTL
-----------------------------------------------------------------------------
(***************************************************************************)
(* Types.  A task has one phase, and with it either a schema or the        *)
(* capabilities; so a request is under way for one of them only, and while *)
(* it is, nothing else goes on.                                            *)
(***************************************************************************)
RequestInv ==
  /\ request # Absent => /\ request.redirects \in 0 .. MaximumRedirects
                         /\ Wanted \/ PageWanted \/ InPhase("openapi")
  /\ request = Absent => pinned = {} /\ peer = Absent /\ response = Absent

TaskInv ==
  /\ task \in Tasks \cup {Absent}
  /\ verdict # "idle" => InPhase("attributes") \/ InPhase("request")
  /\ stage # 0 <=> InPhase("capabilities")
  /\ InPhase("attributes") /\ task.offering.schema = Absent => verdict = "idle"
  /\ result \in {Absent, "resolved", "unusable", "failed"}

LoadInv == load # Absent => stage \in 1 .. 4

\* What keeps a request, and what is known when there is none.
LEMMA OnePhase ==
  ASSUME TaskInv, LoadInv
  PROVE  /\ Wanted => InPhase("attributes") \/ InPhase("request")
         /\ PageWanted => InPhase("capabilities")
         /\ \A phase, other : InPhase(phase) /\ InPhase(other) => phase = other
         /\ Idle => \A phase : ~InPhase(phase)
<1>1. Wanted => verdict # "idle"
  BY DEF Wanted
<1>2. PageWanted => stage # 0
  BY DEF PageWanted, Loading, LoadInv
<1>. QED  BY <1>1, <1>2 DEF TaskInv, InPhase

LEMMA PhaseOfTask ==
  ASSUME task' \in Tasks, NEW phase
  PROVE  InPhase(phase)' <=> (task.phase)' = phase
<1>1. task' # Absent
  BY ResolutionAssumption
<1>. QED  BY <1>1 DEF InPhase, Idle

LEMMA ContinuedTask ==
  ASSUME TaskInv, ~Idle, ~InPhase("capabilities"),
         NEW phase \in {"attributes", "known", "request", "openapi"}, task' = Continued(phase)
  PROVE  task' \in Tasks /\ (task.phase)' = phase /\ (task.offering)' = task.offering
<1>1. task \in [phase : {"attributes", "known", "request", "openapi"},
                offering : Offerings, wanted : WantedActions \cup {Absent}]
  BY DEF TaskInv, InPhase, Idle, Tasks
<1>. QED  BY <1>1 DEF Continued, Tasks

LEMMA NoTask ==
  ASSUME task' = Absent PROVE \A phase : ~InPhase(phase)'
  BY DEF InPhase, Idle

LEMMA SameRequest ==
  ASSUME RequestInv, UNCHANGED requestVars,
         request # Absent => (Wanted \/ PageWanted \/ InPhase("openapi"))'
  PROVE  RequestInv'
  BY DEF RequestInv, requestVars

\* The steps that begin a task, take it on or end it.
LEMMA TasksTurn ==
  ASSUME TaskInv, RequestInv, LoadInv, ActionsInv,
         \/ BeginDetails \/ ConcludeAttributes \/ FinishDetails \/ ResolveAction
         \/ ConcludeRequestSchema \/ BeginCapabilities \/ FinishCapabilities
  PROVE  TaskInv' /\ RequestInv'
<1>1. CASE BeginDetails
  <2>1. PICK offering \in Offerings, wanted \in WantedActions \cup {Absent} :
          /\ task' = [phase |-> "attributes", offering |-> offering, wanted |-> wanted]
          /\ IF offering.schema = Absent THEN UNCHANGED schemaVars ELSE resolve_schema(offering.schema)
    BY <1>1 DEF BeginDetails
  <2>2. Idle /\ result' = Absent /\ UNCHANGED capabilityVars /\ UNCHANGED requestVars
    BY <1>1 DEF BeginDetails
  <2>3. verdict = "idle" /\ stage = 0 /\ request = Absent
    BY <2>2, OnePhase DEF TaskInv, RequestInv
  <2>4. task' \in Tasks /\ (task.phase)' = "attributes" /\ (task.offering)' = offering
    BY <2>1 DEF Tasks
  <2>5. InPhase("attributes")' /\ ~InPhase("capabilities")'
    BY <2>4, PhaseOfTask
  <2>6. stage' = 0 /\ (offering.schema = Absent => verdict' = "idle")
    BY <2>1, <2>2, <2>3 DEF capabilityVars, schemaVars
  <2>7. TaskInv'
    BY <2>2, <2>4, <2>5, <2>6 DEF TaskInv
  <2>. QED  BY <2>2, <2>3, <2>7, SameRequest
<1>2. CASE ConcludeAttributes
  <2>1. /\ InPhase("attributes") /\ task' = Continued("known") /\ verdict' = "idle"
        /\ task.offering.schema # Absent => Settled
        /\ UNCHANGED capabilityVars /\ UNCHANGED requestVars /\ UNCHANGED result
    BY <1>2 DEF ConcludeAttributes, SchemaDone
  <2>2. ~Idle /\ ~InPhase("capabilities") /\ ~InPhase("openapi")
    BY <2>1, OnePhase
  <2>3. task' \in Tasks /\ (task.phase)' = "known"
    BY <2>1, <2>2, ContinuedTask
  <2>4. ~InPhase("capabilities")' /\ ~InPhase("attributes")'
    BY <2>3, PhaseOfTask
  <2>5. stage = 0 /\ stage' = 0
    BY <2>1, <2>2 DEF TaskInv, capabilityVars
  <2>6. request = Absent
    BY <2>1, <2>2, OnePhase DEF TaskInv, RequestInv, Wanted, Settled
  <2>7. TaskInv'
    BY <2>1, <2>3, <2>4, <2>5 DEF TaskInv
  <2>. QED  BY <2>1, <2>6, <2>7, SameRequest
<1>3. CASE FinishDetails \/ ResolveAction
  <2>1. InPhase("known") /\ UNCHANGED capabilityVars /\ UNCHANGED requestVars
    BY <1>3 DEF FinishDetails, ResolveAction
  <2>2. ~Idle /\ \A phase : phase # "known" => ~InPhase(phase)
    BY <2>1, OnePhase
  <2>3. verdict = "idle" /\ stage = 0 /\ stage' = 0 /\ request = Absent
    BY <2>1, <2>2, OnePhase DEF TaskInv, RequestInv, capabilityVars
  <2>4. \/ EndTask(Absent) /\ UNCHANGED schemaVars
        \/ EndTask("unusable") /\ UNCHANGED schemaVars
        \/ EndTask("resolved") /\ UNCHANGED schemaVars
        \/ task' = Continued("openapi") /\ UNCHANGED <<schemaVars, details, result>>
        \/ task' = Continued("request") /\ UNCHANGED <<details, result>>
    BY <1>3 DEF FinishDetails, ResolveAction
  <2>5. ASSUME task' = Absent, UNCHANGED schemaVars, result' \in {Absent, "unusable", "resolved"}
        PROVE  TaskInv'
    BY <2>3, <2>5, NoTask DEF TaskInv, schemaVars
  <2>6. ASSUME task' = Continued("openapi"), UNCHANGED <<schemaVars, details, result>>
        PROVE  TaskInv'
    <3>1. task' \in Tasks /\ (task.phase)' = "openapi"
      BY <2>2, <2>6, ContinuedTask
    <3>2. ~InPhase("capabilities")' /\ ~InPhase("attributes")'
      BY <3>1, PhaseOfTask
    <3>. QED  BY <2>3, <2>6, <3>1, <3>2 DEF TaskInv, schemaVars
  <2>7. ASSUME task' = Continued("request"), UNCHANGED <<details, result>>
        PROVE  TaskInv'
    <3>1. task' \in Tasks /\ (task.phase)' = "request"
      BY <2>2, <2>7, ContinuedTask
    <3>2. ~InPhase("capabilities")' /\ ~InPhase("attributes")' /\ InPhase("request")'
      BY <3>1, PhaseOfTask
    <3>. QED  BY <2>3, <2>7, <3>1, <3>2 DEF TaskInv
  <2>8. TaskInv'
    BY <2>4, <2>5, <2>6, <2>7 DEF EndTask
  <2>. QED  BY <2>1, <2>3, <2>8, SameRequest
<1>4. CASE ConcludeRequestSchema
  <2>1. /\ InPhase("request") /\ Settled /\ task' = Absent /\ verdict' = "idle"
        /\ result' \in {"resolved", "failed"}
        /\ UNCHANGED capabilityVars /\ UNCHANGED requestVars
    BY <1>4 DEF ConcludeRequestSchema, EndTask, SchemaDone
  <2>2. ~InPhase("capabilities") /\ ~InPhase("openapi")
    BY <2>1, OnePhase
  <2>3. stage' = 0
    BY <2>1, <2>2 DEF TaskInv, capabilityVars
  <2>4. request = Absent
    BY <2>1, <2>2, OnePhase DEF RequestInv, Wanted, Settled
  <2>5. TaskInv'
    BY <2>1, <2>3, NoTask DEF TaskInv
  <2>. QED  BY <2>1, <2>4, <2>5, SameRequest
<1>5. CASE BeginCapabilities
  <2>1. /\ Idle /\ task' = [phase |-> "capabilities"] /\ result' = Absent /\ stage' \in {1, 6}
        /\ UNCHANGED schemaVars /\ UNCHANGED requestVars
    BY <1>5 DEF BeginCapabilities, resolve_search_capabilities
  <2>2. verdict = "idle" /\ verdict' = "idle" /\ request = Absent
    BY <2>1, OnePhase DEF TaskInv, RequestInv, schemaVars
  <2>3. task' \in Tasks /\ (task.phase)' = "capabilities"
    BY <2>1 DEF Tasks
  <2>4. InPhase("capabilities")'
    BY <2>3, PhaseOfTask
  <2>5. TaskInv'
    BY <2>1, <2>2, <2>3, <2>4 DEF TaskInv
  <2>. QED  BY <2>1, <2>2, <2>5, SameRequest
<1>6. CASE FinishCapabilities
  <2>1. /\ InPhase("capabilities") /\ stage = 6 /\ task' = Absent /\ stage' = 0 /\ result' = Absent
        /\ UNCHANGED schemaVars /\ UNCHANGED requestVars
    BY <1>6 DEF FinishCapabilities, EndTask, CapabilitiesDone
  <2>2. load = Absent /\ ~InPhase("attributes") /\ ~InPhase("request") /\ ~InPhase("openapi")
    BY <2>1, OnePhase DEF LoadInv
  <2>3. verdict = "idle" /\ verdict' = "idle" /\ request = Absent
    BY <2>1, <2>2, OnePhase DEF TaskInv, RequestInv, schemaVars, PageWanted, Loading
  <2>4. TaskInv'
    BY <2>1, <2>3, NoTask DEF TaskInv
  <2>. QED  BY <2>1, <2>3, <2>4, SameRequest
<1>. QED  BY <1>1, <1>2, <1>3, <1>4, <1>5, <1>6

\* While a request is under way, nothing goes on without it.
LEMMA ProceedWaits ==
  ASSUME TaskInv, RequestInv, LoadInv, Proceed PROVE TaskInv' /\ RequestInv'
<1>1. CASE (Skip \/ Exceed \/ Prepare) /\ UNCHANGED <<capabilityVars, resolutionVars>>
  <2>1. verdict = "open" /\ ~Wanted
    BY <1>1 DEF Skip, Exceed, Prepare, Wanted
  <2>2. (InPhase("attributes") \/ InPhase("request")) /\ ~InPhase("capabilities") /\ ~InPhase("openapi")
    BY <2>1, OnePhase DEF TaskInv
  <2>3. request = Absent
    BY <2>1, <2>2, OnePhase DEF RequestInv
  <2>4. ~(InPhase("attributes") /\ task.offering.schema = Absent)
    BY <2>1 DEF TaskInv
  <2>5. UNCHANGED <<task, result, stage>> /\ UNCHANGED requestVars
    BY <1>1 DEF resolutionVars, capabilityVars, requestVars
  <2>6. TaskInv'
    BY <2>2, <2>4, <2>5 DEF TaskInv, InPhase, Idle
  <2>. QED  BY <2>3, <2>5, <2>6, SameRequest
<1>2. CASE (AddInline \/ BeginLinked \/ PageRefused \/ AddLinked \/ HoldSorts)
           /\ UNCHANGED <<schemaVars, resolutionVars>>
  <2>1. stage # 0 /\ stage' # 0 /\ ~PageWanted
    BY <1>2 DEF AddInline, BeginLinked, PageRefused, AddLinked, HoldSorts, Add, Unavailable,
                PageWanted, Loading, LoadInv
  <2>2. InPhase("capabilities") /\ ~InPhase("attributes") /\ ~InPhase("request") /\ ~InPhase("openapi")
    BY <2>1, OnePhase DEF TaskInv
  <2>3. request = Absent /\ verdict = "idle"
    BY <2>1, <2>2, OnePhase DEF RequestInv, TaskInv
  <2>4. UNCHANGED <<task, result, verdict>> /\ UNCHANGED requestVars
    BY <1>2 DEF resolutionVars, schemaVars, requestVars
  <2>5. TaskInv'
    BY <2>1, <2>2, <2>3, <2>4 DEF TaskInv, InPhase, Idle
  <2>. QED  BY <2>3, <2>4, <2>5, SameRequest
<1>. QED  BY <1>1, <1>2 DEF Proceed

LEMMA SameTask ==
  ASSUME TaskInv, UNCHANGED <<task, result, verdict, stage>> PROVE TaskInv'
  BY DEF TaskInv, InPhase, Idle

LEMMA EndRequestOver == ASSUME EndRequest PROVE RequestInv'
  BY DEF EndRequest, RequestInv

\* What ends with a request, in the phase that made it.
LEMMA RequestFailsTask ==
  ASSUME TaskInv, LoadInv, RequestFails PROVE TaskInv' /\ RequestInv'
<1>1. RequestInv'
  BY EndRequestOver DEF RequestFails
<1>2. ASSUME Fail, UNCHANGED <<capabilityVars, task, details, result>> PROVE TaskInv'
  <2>1. verdict # "idle" /\ UNCHANGED <<stage, task, result>>
    BY <1>2 DEF Fail, Wanted, capabilityVars
  <2>. QED  BY <2>1 DEF TaskInv, InPhase, Idle
<1>3. ASSUME PageFails, UNCHANGED <<schemaVars, task, details, result>> PROVE TaskInv'
  <2>1. stage # 0 /\ stage' # 0 /\ UNCHANGED <<verdict, task, result>>
    BY <1>3 DEF PageFails, PageWanted, Loading, Unavailable, LoadInv, schemaVars
  <2>. QED  BY <2>1 DEF TaskInv, InPhase, Idle
<1>4. ASSUME InPhase("openapi"), EndTask("failed"), UNCHANGED <<schemaVars, capabilityVars>>
      PROVE  TaskInv'
  <2>1. verdict = "idle" /\ stage = 0
    BY <1>4, OnePhase DEF TaskInv
  <2>2. verdict' = "idle" /\ stage' = 0 /\ task' = Absent /\ result' = "failed"
    BY <1>4, <2>1 DEF EndTask, schemaVars, capabilityVars
  <2>. QED  BY <2>2, NoTask DEF TaskInv
<1>. QED  BY <1>1, <1>2, <1>3, <1>4 DEF RequestFails

LEMMA RequestsTurn ==
  ASSUME TaskInv, RequestInv, LoadInv,
         \/ Request \/ Judge \/ Connect \/ Exchange \/ ConnectionFails \/ Redirected
         \/ DeliverSchema \/ DeliverPage \/ DeliverOpenApi \/ DeliverOther
  PROVE  TaskInv' /\ RequestInv'
<1>1. ASSUME UNCHANGED <<schemaVars, capabilityVars, task, details, result>>
      PROVE  /\ TaskInv'
             /\ Wanted \/ PageWanted \/ InPhase("openapi") <=> (Wanted \/ PageWanted \/ InPhase("openapi"))'
  <2>1. TaskInv'
    BY <1>1, SameTask DEF schemaVars, capabilityVars
  <2>2. Wanted' <=> Wanted
    BY <1>1 DEF schemaVars, Wanted, NextUp, Retrieved, TooMany, TooDeep
  <2>3. PageWanted' <=> PageWanted
    BY <1>1 DEF capabilityVars, PageWanted, Loading, Seen
  <2>4. InPhase("openapi")' <=> InPhase("openapi")
    BY <1>1 DEF InPhase, Idle
  <2>. QED  BY <2>1, <2>2, <2>3, <2>4
<1>2. CASE Request
  <2>1. /\ UNCHANGED <<schemaVars, capabilityVars, task, details, result>>
        /\ request = Absent /\ UNCHANGED <<pinned, peer, response>>
        /\ Wanted \/ PageWanted \/ InPhase("openapi")
        /\ \E url : request' = Asking(url)
    BY <1>2 DEF Request
  <2>2. request'.redirects \in 0 .. MaximumRedirects
    BY <2>1, ResolutionAssumption DEF Asking
  <2>. QED  BY <1>1, <2>1, <2>2 DEF RequestInv
<1>3. CASE Judge
  <2>1. request # Absent
    BY <1>3 DEF Judge
  <2>2. RequestFails \/ UNCHANGED <<schemaVars, capabilityVars, task, details, result, request, peer, response>>
    BY <1>3 DEF Judge
  <2>. QED  BY <1>1, <2>1, <2>2, RequestFailsTask DEF RequestInv
<1>4. CASE Connect \/ Exchange
  <2>1. request # Absent /\ UNCHANGED <<schemaVars, capabilityVars, task, details, result, request>>
    BY <1>4 DEF Connect, Exchange, RequestInv
  <2>. QED  BY <1>1, <2>1 DEF RequestInv
<1>5. CASE ConnectionFails \/ DeliverOther
  BY <1>5, RequestFailsTask DEF ConnectionFails, DeliverOther
<1>6. CASE Redirected
  <2>1. request # Absent
    BY <1>6 DEF Redirected, RequestInv
  <2>2. CASE RequestFails
    BY <2>2, RequestFailsTask
  <2>3. CASE /\ Follows(response.location)
             /\ request' = [asked |-> request.asked, current |-> response.location,
                            redirects |-> request.redirects + 1]
             /\ pinned' = {} /\ peer' = Absent /\ response' = Absent
             /\ UNCHANGED <<schemaVars, capabilityVars, task, details, result>>
    <3>1. request'.redirects \in 0 .. MaximumRedirects
      BY <2>1, <2>3, ResolutionAssumption DEF Follows, RequestInv
    <3>. QED  BY <1>1, <2>1, <2>3, <3>1 DEF RequestInv
  <2>. QED  BY <1>6, <2>2, <2>3 DEF Redirected
<1>7. CASE DeliverSchema
  <2>1. EndRequest /\ Receive(response.document) /\ UNCHANGED <<capabilityVars, task, details, result>>
    BY <1>7 DEF DeliverSchema
  <2>2. verdict # "idle" /\ UNCHANGED <<stage, task, result>>
    BY <2>1 DEF Receive, Wanted, capabilityVars
  <2>3. TaskInv'
    BY <2>2 DEF TaskInv, InPhase, Idle
  <2>. QED  BY <2>1, <2>3, EndRequestOver
<1>8. CASE DeliverPage
  <2>1. EndRequest /\ PageArrives(response) /\ UNCHANGED <<schemaVars, task, details, result>>
    BY <1>8 DEF DeliverPage
  <2>2. UNCHANGED <<task, result, verdict, stage>>
    BY <2>1 DEF PageArrives, schemaVars
  <2>. QED  BY <2>1, <2>2, SameTask, EndRequestOver
<1>9. CASE DeliverOpenApi
  <2>1. /\ EndRequest /\ InPhase("openapi") /\ task' = Absent /\ result' \in {"resolved", "failed"}
        /\ UNCHANGED <<schemaVars, capabilityVars>>
    BY <1>9 DEF DeliverOpenApi, EndTask
  <2>2. verdict = "idle" /\ stage = 0
    BY <2>1, OnePhase DEF TaskInv
  <2>3. verdict' = "idle" /\ stage' = 0
    BY <2>1, <2>2 DEF schemaVars, capabilityVars
  <2>4. TaskInv'
    BY <2>1, <2>3, NoTask DEF TaskInv
  <2>. QED  BY <2>1, <2>4, EndRequestOver
<1>. QED  BY <1>2, <1>3, <1>4, <1>5, <1>6, <1>7, <1>8, <1>9

ResolutionInv ==
  /\ ActionsInv /\ ResponseInv /\ TaskInv /\ RequestInv
  /\ GraphInv /\ CapInv

LEMMA ResolutionInitially == Init => ResolutionInv
<1>. SUFFICES ASSUME Init PROVE ResolutionInv
  OBVIOUS
<1>1. ActionsInv /\ GraphInv
  BY ActionsInitially, GraphInitially DEF Init
<1>2. CapInv
  BY NoCapabilities DEF Init, CapabilitiesInit
<1>3. ResponseInv /\ RequestInv
  BY DEF Init, ResponseInv, RequestInv
<1>4. TaskInv
  BY DEF Init, SchemaInit, CapabilitiesInit, TaskInv, InPhase, Idle
<1>. QED  BY <1>1, <1>2, <1>3, <1>4 DEF ResolutionInv

LEMMA ResolutionStep == ResolutionInv /\ [Next]_vars => ResolutionInv'
<1>. SUFFICES ASSUME ResolutionInv, [Next]_vars PROVE ResolutionInv'
  OBVIOUS
<1>1. ActionsInv' /\ ResponseInv'
  BY ActionsStep, ResponseStep DEF ResolutionInv
<1>2. GraphInv'
  BY SchemaStep, GraphStep DEF ResolutionInv
<1>3. CapInv'
  BY CapabilitiesStep, CapStep DEF ResolutionInv
<1>4. LoadInv
  BY DEF ResolutionInv, CapInv, SourcesInv, LoadInv
<1>5. TaskInv' /\ RequestInv'
  <2>1. CASE UNCHANGED vars
    <3>1. UNCHANGED <<task, result, verdict, stage>>
      BY <2>1 DEF vars, schemaVars, capabilityVars, resolutionVars
    <3>2. UNCHANGED requestVars
      BY <2>1 DEF vars, resolutionVars, requestVars
    <3>3. (Wanted \/ PageWanted \/ InPhase("openapi"))' <=> Wanted \/ PageWanted \/ InPhase("openapi")
      BY <2>1 DEF vars, schemaVars, capabilityVars, resolutionVars, Wanted, NextUp, Retrieved, TooMany,
                  TooDeep, PageWanted, Loading, Seen, InPhase, Idle
    <3>4. TaskInv'
      BY <3>1, SameTask DEF ResolutionInv
    <3>5. RequestInv'
      BY <3>2, <3>3, SameRequest DEF ResolutionInv, RequestInv
    <3>. QED  BY <3>4, <3>5
  <2>. QED  BY <1>4, <2>1, TasksTurn, ProceedWaits, RequestsTurn DEF ResolutionInv, Next
<1>. QED  BY <1>1, <1>2, <1>3, <1>5 DEF ResolutionInv

LEMMA ResolutionImplies == ResolutionInv => TypeOK
<1>. SUFFICES ASSUME ResolutionInv PROVE TypeOK
  OBVIOUS
<1>1. SchemaTypeOK
  BY DEF ResolutionInv, GraphInv
<1>2. CapabilitiesTypeOK
  <2>1. /\ \A d \in filters \cup sorts \cup catalog : Definition(d)
        /\ Cardinality(filters) <= MaximumFilters /\ Cardinality(sorts) <= MaximumSorts
    BY DEF ResolutionInv, CapInv, ResultInv, FiltersInv, SortsInv, KindInv
  <2>. QED  BY <2>1, CapabilitiesAssumption DEF ResolutionInv, CapInv, SourcesInv, CapabilitiesTypeOK
<1>3. InPhase("attributes") \/ InPhase("known") =>
        details.actions \subseteq {task.offering.actions[i] : i \in DOMAIN task.offering.actions}
  <2>1. InPhase("attributes") \/ InPhase("known") => details.actions = Normalized(task.offering).actions
    BY DEF ResolutionInv, ActionsInv
  <2>. QED  BY <2>1 DEF Normalized
<1>. QED  BY <1>1, <1>2, <1>3 DEF ResolutionInv, TaskInv, RequestInv, TypeOK

\* Whatever is resolved and whatever comes back (details.rs:66-283, capabilities.rs:61-257):
\* the limits hold, and an Agent makes a request only for the task that waits for it,
\* with its answer to be had by no other.
THEOREM ResolutionTypeCorrect == Spec => []TypeOK
<1>1. Init => ResolutionInv
  BY ResolutionInitially
<1>2. ResolutionInv /\ [Next]_vars => ResolutionInv'
  BY ResolutionStep
<1>3. ResolutionInv => TypeOK
  BY ResolutionImplies
<1>. QED  BY <1>1, <1>2, <1>3, PTL DEF Spec
-----------------------------------------------------------------------------
(***************************************************************************)
(* Nothing goes on for ever.  A look-up has phases, a schema the documents *)
(* it may retrieve and its queue, capabilities their sources and the pages *)
(* of each, a request its redirects and what a redirect takes; each step   *)
(* brings the first of these that it touches nearer its end.               *)
(***************************************************************************)
PhasesLeft == IF InPhase("attributes") THEN 3 ELSE IF InPhase("known") THEN 2 ELSE IF Idle THEN 0 ELSE 1

SchemaNearer ==
  /\ verdict = "open"
  /\ \/ verdict' # "open"
     \/ Cardinality(DOMAIN documents') > Cardinality(DOMAIN documents)
     \/ documents' = documents /\ Len(pending') < Len(pending)

CapabilitiesNearer ==
  \/ stage' > stage
  \/ /\ stage' = stage
     /\ \/ load = Absent /\ load' # Absent
        \/ load # Absent /\ load'.pages > load.pages

ExchangeNearer ==
  \/ pinned = {} /\ pinned' # {}
  \/ pinned' = pinned /\ peer = Absent /\ peer' # Absent
  \/ pinned' = pinned /\ peer' = peer /\ response = Absent /\ response' # Absent

RequestNearer ==
  \/ request = Absent /\ request' # Absent
  \/ request # Absent /\ request'.redirects > request.redirects
  \/ request # Absent /\ request' = request /\ ExchangeNearer

\* The task counts first, then what it waits for, then the request for that.
Nearer ==
  \/ PhasesLeft' < PhasesLeft
  \/ /\ task' = task
     /\ \/ SchemaNearer /\ UNCHANGED capabilityVars
        \/ CapabilitiesNearer /\ UNCHANGED schemaVars
        \/ RequestNearer /\ UNCHANGED <<schemaVars, capabilityVars>>

\* Nothing that is counted passes its limit.
WithinLimits ==
  /\ Cardinality(DOMAIN documents) \in 0 .. MaximumDocuments /\ Len(pending) \in Nat
  /\ stage \in 0 .. 6
  /\ load # Absent => load.pages \in 0 .. MaximumCapabilityPages
  /\ request # Absent => request.redirects \in 0 .. MaximumRedirects

LEMMA LimitsHold == ResolutionInv => WithinLimits
<1>. SUFFICES ASSUME ResolutionInv PROVE WithinLimits
  OBVIOUS
<1>1. Cardinality(DOMAIN documents) \in Nat /\ Cardinality(DOMAIN documents) <= MaximumDocuments
  BY FS_CardinalityType DEF ResolutionInv, GraphInv
<1>2. Len(pending) \in Nat
  BY DEF ResolutionInv, GraphInv, SchemaTypeOK
<1>. QED  BY <1>1, <1>2, SchemaAssumption DEF WithinLimits, ResolutionInv, CapInv, SourcesInv, RequestInv

LEMMA SchemaComesNearer ==
  ASSUME GraphInv, \/ Skip \/ Exceed \/ Prepare \/ Fail
                   \/ \E document \in Documents : Receive(document)
  PROVE  SchemaNearer
<1>1. CASE Skip
  <2>1. /\ verdict = "open" /\ pending # <<>> /\ pending' = Tail(pending) /\ documents' = documents
    BY <1>1 DEF Skip
  <2>2. pending \in Seq(Entries)
    BY DEF GraphInv, SchemaTypeOK, Entries
  <2>3. Len(pending') < Len(pending)
    BY <2>1, <2>2
  <2>. QED  BY <2>1, <2>3 DEF SchemaNearer
<1>2. CASE Exceed \/ Prepare \/ Fail
  BY <1>2 DEF Exceed, Prepare, Fail, Wanted, SchemaNearer
<1>3. ASSUME NEW document \in Documents, Receive(document) PROVE SchemaNearer
  <2>1. verdict = "open" /\ NextUp.url \notin DOMAIN documents
    BY <1>3 DEF Receive, Wanted, Retrieved
  <2>2. CASE Flaw(document) # "none"
    BY <1>3, <2>1, <2>2 DEF Receive, Flaw, SchemaNearer
  <2>3. CASE Flaw(document) = "none"
    <3>1. DOMAIN documents' = DOMAIN documents \cup {NextUp.url}
      BY <1>3, <2>3 DEF Receive
    <3>2. Cardinality(DOMAIN documents) \in Nat
      BY FS_CardinalityType DEF GraphInv
    <3>3. Cardinality(DOMAIN documents') = Cardinality(DOMAIN documents) + 1
      BY <2>1, <3>1, FS_AddElement DEF GraphInv
    <3>. QED  BY <2>1, <3>2, <3>3 DEF SchemaNearer
  <2>. QED  BY <2>2, <2>3
<1>. QED  BY <1>1, <1>2, <1>3

LEMMA CapabilitiesComeNearer ==
  ASSUME CapInv, capabilityVars' # capabilityVars,
         \/ AddInline \/ BeginLinked \/ PageRefused \/ PageFails \/ AddLinked \/ HoldSorts
         \/ \E page \in Pages : PageArrives(page)
  PROVE  CapabilitiesNearer
<1>1. /\ stage \in 0 .. 6
      /\ load # Absent => load.pages \in 0 .. MaximumCapabilityPages
  BY DEF CapInv, SourcesInv
<1>2. CASE AddInline \/ PageRefused \/ PageFails \/ AddLinked \/ HoldSorts
  <2>1. stage' = stage + 1
    BY <1>2 DEF AddInline, PageRefused, PageFails, AddLinked, HoldSorts, Add, Unavailable
  <2>. QED  BY <1>1, <2>1 DEF CapabilitiesNearer
<1>3. CASE BeginLinked
  <2>1. load = Absent /\ UNCHANGED <<sources, stage, filters, sorts, catalog, issues, loaded>>
    BY <1>3 DEF BeginLinked
  <2>2. load' # load
    BY <2>1 DEF capabilityVars
  <2>. QED  BY <2>1, <2>2 DEF CapabilitiesNearer
<1>4. ASSUME NEW page \in Pages, PageArrives(page) PROVE CapabilitiesNearer
  <2>1. load # Absent /\ load'.pages = load.pages + 1 /\ stage' = stage
    BY <1>4 DEF PageArrives, PageWanted, Loading
  <2>2. load.pages \in Nat
    BY <1>1, <2>1, CapabilitiesAssumption
  <2>3. load'.pages > load.pages
    BY <2>1, <2>2
  <2>. QED  BY <2>1, <2>3 DEF CapabilitiesNearer
<1>. QED  BY <1>2, <1>3, <1>4

LEMMA TaskEnds ==
  ASSUME ~Idle, task' = Absent PROVE Nearer
<1>1. PhasesLeft' = 0
  BY NoTask DEF PhasesLeft, Idle
<1>2. PhasesLeft \in {1, 2, 3}
  BY DEF PhasesLeft
<1>. QED  BY <1>1, <1>2 DEF Nearer

LEMMA TaskGoesOn ==
  ASSUME TaskInv, LoadInv, ~Idle,
         ConcludeAttributes \/ FinishDetails \/ ResolveAction \/ ConcludeRequestSchema \/ FinishCapabilities
  PROVE  Nearer
<1>1. CASE ConcludeAttributes
  <2>1. InPhase("attributes") /\ task' = Continued("known")
    BY <1>1 DEF ConcludeAttributes
  <2>2. ~InPhase("capabilities")
    BY <2>1, OnePhase
  <2>3. task' \in Tasks /\ (task.phase)' = "known"
    BY <2>1, <2>2, ContinuedTask
  <2>4. InPhase("known")' /\ ~InPhase("attributes")'
    BY <2>3, PhaseOfTask
  <2>. QED  BY <2>1, <2>4 DEF Nearer, PhasesLeft
<1>2. CASE FinishDetails \/ ConcludeRequestSchema \/ FinishCapabilities
  BY <1>2, TaskEnds DEF FinishDetails, ConcludeRequestSchema, FinishCapabilities, EndTask
<1>3. CASE ResolveAction
  <2>1. InPhase("known") /\ \/ task' = Absent
                            \/ \E phase \in {"openapi", "request"} : task' = Continued(phase)
    BY <1>3 DEF ResolveAction, EndTask
  <2>2. ~InPhase("capabilities") /\ ~InPhase("attributes")
    BY <2>1, OnePhase
  <2>3. ASSUME NEW phase \in {"openapi", "request"}, task' = Continued(phase) PROVE Nearer
    <3>1. task' \in Tasks /\ (task.phase)' = phase
      BY <2>2, <2>3, ContinuedTask
    <3>2. ~InPhase("known")' /\ ~InPhase("attributes")' /\ InPhase(phase)'
      BY <3>1, PhaseOfTask
    <3>3. PhasesLeft' = 1 /\ PhasesLeft = 2
      BY <2>1, <2>2, <3>2 DEF PhasesLeft, InPhase
    <3>. QED  BY <3>3 DEF Nearer
  <2>. QED  BY <2>1, <2>3, TaskEnds
<1>. QED  BY <1>1, <1>2, <1>3

LEMMA FailureIsNearer ==
  ASSUME ResolutionInv, ~Idle, RequestFails PROVE Nearer
<1>1. CASE Fail /\ UNCHANGED <<capabilityVars, task, details, result>>
  BY <1>1, SchemaComesNearer DEF Nearer, ResolutionInv
<1>2. CASE PageFails /\ UNCHANGED <<schemaVars, task, details, result>>
  <2>1. stage' = stage + 1
    BY <1>2 DEF PageFails, Unavailable
  <2>2. stage \in 0 .. 6
    BY DEF ResolutionInv, CapInv, SourcesInv
  <2>3. CapabilitiesNearer
    BY <2>1, <2>2 DEF CapabilitiesNearer
  <2>. QED  BY <1>2, <2>3 DEF Nearer
<1>3. CASE InPhase("openapi") /\ EndTask("failed") /\ UNCHANGED <<schemaVars, capabilityVars>>
  BY <1>3, TaskEnds DEF EndTask
<1>. QED  BY <1>1, <1>2, <1>3 DEF RequestFails

LEMMA ProceedIsNearer ==
  ASSUME ResolutionInv, vars' # vars, Proceed PROVE Nearer
<1>1. CASE (Skip \/ Exceed \/ Prepare) /\ UNCHANGED <<capabilityVars, resolutionVars>>
  <2>1. SchemaNearer
    BY <1>1, SchemaComesNearer DEF ResolutionInv
  <2>2. task' = task
    BY <1>1 DEF resolutionVars
  <2>. QED  BY <1>1, <2>1, <2>2 DEF Nearer
<1>2. CASE (AddInline \/ BeginLinked \/ PageRefused \/ AddLinked \/ HoldSorts)
           /\ UNCHANGED <<schemaVars, resolutionVars>>
  <2>1. capabilityVars' # capabilityVars
    BY <1>2 DEF vars
  <2>2. CapabilitiesNearer
    BY <1>2, <2>1, CapabilitiesComeNearer DEF ResolutionInv
  <2>3. task' = task
    BY <1>2 DEF resolutionVars
  <2>. QED  BY <1>2, <2>2, <2>3 DEF Nearer
<1>. QED  BY <1>1, <1>2 DEF Proceed

\* A request that goes on, on the way to an answer.
LEMMA ExchangeIsNearer ==
  ASSUME ResolutionInv, vars' # vars, ~Idle, Request \/ Judge \/ Connect \/ Exchange \/ Redirected
  PROVE  Nearer
<1>1. CASE Request
  <2>1. request = Absent /\ UNCHANGED <<schemaVars, capabilityVars, task, details, result, pinned, peer, response>>
    BY <1>1 DEF Request
  <2>2. request' # request
    BY <2>1 DEF vars, resolutionVars
  <2>. QED  BY <2>1, <2>2 DEF Nearer, RequestNearer
<1>2. CASE Judge
  <2>1. PICK answer \in Answers[Host] :
          LET judged == public_destinations(Host, answer, AllowLocal)
          IN  IF judged = {} THEN RequestFails
              ELSE /\ pinned' = judged
                   /\ UNCHANGED <<schemaVars, capabilityVars, task, details, result, request, peer, response>>
    BY <1>2 DEF Judge
  <2>2. request # Absent /\ pinned = {}
    BY <1>2 DEF Judge
  <2>3. \/ RequestFails
        \/ pinned' # {} /\ UNCHANGED <<schemaVars, capabilityVars, task, request>>
    BY <2>1
  <2>. QED  BY <2>2, <2>3, FailureIsNearer DEF Nearer, RequestNearer, ExchangeNearer
<1>3. CASE Connect
  <2>1. /\ pinned # {} /\ peer = Absent
        /\ UNCHANGED <<schemaVars, capabilityVars, task, details, result, request, pinned, response>>
    BY <1>3 DEF Connect
  <2>2. peer' # peer
    BY <2>1 DEF vars, resolutionVars
  <2>3. request # Absent
    BY <2>1 DEF ResolutionInv, RequestInv
  <2>. QED  BY <2>1, <2>2, <2>3 DEF Nearer, RequestNearer, ExchangeNearer
<1>4. CASE Exchange
  <2>1. /\ peer \in pinned /\ response = Absent
        /\ UNCHANGED <<schemaVars, capabilityVars, task, details, result, request, pinned, peer>>
    BY <1>4 DEF Exchange
  <2>2. response' # response
    BY <2>1 DEF vars, resolutionVars
  <2>3. request # Absent
    BY <2>1 DEF ResolutionInv, RequestInv
  <2>. QED  BY <2>1, <2>2, <2>3 DEF Nearer, RequestNearer, ExchangeNearer
<1>5. CASE Redirected
  <2>1. request # Absent
    BY <1>5 DEF Redirected, ResolutionInv, RequestInv
  <2>2. \/ RequestFails
        \/ request'.redirects = request.redirects + 1 /\ UNCHANGED <<schemaVars, capabilityVars, task>>
    BY <1>5 DEF Redirected
  <2>3. request.redirects \in Nat
    BY <2>1, ResolutionAssumption DEF ResolutionInv, RequestInv
  <2>4. request'.redirects = request.redirects + 1 => request'.redirects > request.redirects
    BY <2>3
  <2>. QED  BY <2>1, <2>2, <2>4, FailureIsNearer DEF Nearer, RequestNearer
<1>. QED  BY <1>1, <1>2, <1>3, <1>4, <1>5

LEMMA DeliveryIsNearer ==
  ASSUME ResolutionInv, ~Idle,
         ConnectionFails \/ DeliverSchema \/ DeliverPage \/ DeliverOpenApi \/ DeliverOther
  PROVE  Nearer
<1>1. CASE ConnectionFails \/ DeliverOther
  BY <1>1, FailureIsNearer DEF ConnectionFails, DeliverOther
<1>2. CASE DeliverSchema
  <2>1. SchemaNearer
    BY <1>2, SchemaComesNearer DEF DeliverSchema, ResolutionInv
  <2>. QED  BY <1>2, <2>1 DEF DeliverSchema, Nearer
<1>3. CASE DeliverPage
  <2>1. PageArrives(response) /\ UNCHANGED <<schemaVars, task>>
    BY <1>3 DEF DeliverPage
  <2>2. load # Absent /\ load'.pages = load.pages + 1 /\ stage' = stage
    BY <2>1 DEF PageArrives, PageWanted, Loading
  <2>3. load.pages \in Nat
    BY <2>2, CapabilitiesAssumption DEF ResolutionInv, CapInv, SourcesInv
  <2>4. load'.pages > load.pages
    BY <2>2, <2>3
  <2>. QED  BY <2>1, <2>2, <2>4 DEF Nearer, CapabilitiesNearer
<1>4. CASE DeliverOpenApi
  BY <1>4, TaskEnds DEF DeliverOpenApi, EndTask
<1>. QED  BY <1>1, <1>2, <1>3, <1>4

(***************************************************************************)
(* Whatever refers to, links to or redirects to what (schema.rs:36-85,     *)
(* capabilities.rs:255-325, client.rs:788-845), a look-up runs out of      *)
(* steps: each one brings it nearer its end, and what it counts has a      *)
(* limit.  (That the steps are taken is the fairness of FairSpec.)         *)
(***************************************************************************)
THEOREM LookupsRunOut == Spec => []WithinLimits /\ [][~Idle => Nearer]_vars
<1>1. Init => ResolutionInv
  BY ResolutionInitially
<1>2. ResolutionInv /\ [Next]_vars => ResolutionInv'
  BY ResolutionStep
<1>3. ResolutionInv => WithinLimits
  BY LimitsHold
<1>4. ResolutionInv /\ [Next]_vars => [~Idle => Nearer]_vars
  <2>. SUFFICES ASSUME ResolutionInv, Next, vars' # vars, ~Idle PROVE Nearer
    OBVIOUS
  <2>1. LoadInv /\ TaskInv
    BY DEF ResolutionInv, CapInv, SourcesInv, LoadInv
  <2>2. ~BeginDetails /\ ~BeginCapabilities
    BY DEF BeginDetails, BeginCapabilities
  <2>. QED  BY <2>1, <2>2, TaskGoesOn, ProceedIsNearer, ExchangeIsNearer, DeliveryIsNearer DEF Next
<1>. QED  BY <1>1, <1>2, <1>3, <1>4, PTL DEF Spec
=============================================================================
