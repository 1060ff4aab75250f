---------------------------- MODULE AttributeSchema ----------------------------
(***************************************************************************)
(* odp-agent/src/schema.rs: an Attribute Schema is retrieved together with *)
(* every document it refers to, breadth first, and bundled into one.       *)
(*                                                                         *)
(* A document is what was asked for at a location: where its redirects     *)
(* ended, the $id it goes by, the $ids of the schemas embedded in it, its  *)
(* references (fragments left out) and its size.  In which order a document*)
(* is searched for references is left open.  How it is retrieved is the    *)
(* subject of AgentResolution.                                             *)
(***************************************************************************)
EXTENDS Integers, Sequences, FiniteSets

CONSTANTS
  Locations,            \* URLs, fragments left out
  SecureLocations,      \* those document_url accepts
  Documents,            \* [at, id, embedded, references, bytes, sound]
  MaximumDocuments, MaximumDepth, MaximumGraphBytes

ASSUME SchemaAssumption ==
  /\ SecureLocations \subseteq Locations
  /\ MaximumDocuments \in Nat \ {0} /\ MaximumDepth \in Nat /\ MaximumGraphBytes \in Nat
  /\ \A d \in Documents :
       /\ d.at \in Locations /\ d.id \in Locations /\ d.embedded \subseteq Locations
       /\ d.references \subseteq Locations /\ IsFiniteSet(d.references)
       /\ d.bytes \in Nat /\ d.sound \in BOOLEAN

VARIABLES
  root,         \* the location resolve_schema was called with
  pending,      \* [url, depth] in the order they were referred to
  documents,    \* what was retrieved, by the location it was asked for at
  graph_bytes,
  verdict       \* "idle", "open", "resolved", or why the graph is refused

schemaVars == <<root, pending, documents, graph_bytes, verdict>>

NoDocuments == [u \in {} |-> {}]

NoLocation == ""

SchemaInit ==
  /\ root = NoLocation /\ pending = <<>> /\ documents = NoDocuments
  /\ graph_bytes = 0 /\ verdict = "idle"

\* References to the document itself, or into it, lead nowhere else.
schema_references(document) ==
  document.references \ ({document.at, document.id} \cup document.embedded)

resolve_schema(target) ==
  /\ verdict = "idle"
  /\ root' = target
  /\ IF target \in SecureLocations
     THEN pending' = <<[url |-> target, depth |-> 0]>> /\ verdict' = "open"
     ELSE pending' = <<>> /\ verdict' = "insecure"
  /\ documents' = NoDocuments /\ graph_bytes' = 0

NextUp == Head(pending)

Retrieved(url) == url \in DOMAIN documents

Skip ==
  /\ verdict = "open" /\ pending # <<>> /\ Retrieved(NextUp.url)
  /\ pending' = Tail(pending)
  /\ UNCHANGED <<root, documents, graph_bytes, verdict>>

\* Mutant of TooMany: one document more than the limit.
TooManyByOne == Cardinality(DOMAIN documents) > MaximumDocuments

TooMany == Cardinality(DOMAIN documents) >= MaximumDocuments

TooDeep == NextUp.depth > MaximumDepth

Exceed ==
  /\ verdict = "open" /\ pending # <<>> /\ ~Retrieved(NextUp.url)
  /\ TooMany \/ TooDeep
  /\ verdict' = IF TooMany THEN "documents" ELSE "levels"
  /\ UNCHANGED <<root, pending, documents, graph_bytes>>

\* The document at the front of the queue is the next to be asked for.
Wanted ==
  /\ verdict = "open" /\ pending # <<>> /\ ~Retrieved(NextUp.url)
  /\ ~TooMany /\ ~TooDeep

\* require_schema and $id, the byte limit, the references.
Flaw(document) ==
  IF ~document.sound THEN "unsound"
  ELSE IF graph_bytes + document.bytes > MaximumGraphBytes THEN "bytes"
  ELSE IF document.references \subseteq SecureLocations THEN "none" ELSE "insecure"

Orders(locations) ==
  {found \in [1 .. Cardinality(locations) -> locations] :
     \A u \in locations : \E i \in DOMAIN found : found[i] = u}

\* Mutant of Queue: the references of the latest document come first.
QueueFirst(found) == found \o Tail(pending)

Queue(found) == Tail(pending) \o found

Receive(document) ==
  /\ Wanted
  /\ IF Flaw(document) # "none"
     THEN /\ verdict' = Flaw(document)
          /\ UNCHANGED <<pending, documents, graph_bytes>>
     ELSE /\ documents' = [u \in DOMAIN documents \cup {NextUp.url} |->
                             IF u = NextUp.url THEN document ELSE documents[u]]
          /\ graph_bytes' = graph_bytes + document.bytes
          /\ \E found \in Orders(schema_references(document)) :
               pending' = Queue([i \in DOMAIN found |->
                                   [url |-> found[i], depth |-> NextUp.depth + 1]])
          /\ UNCHANGED verdict
  /\ UNCHANGED root

\* Mutant of Fail: what could not be retrieved is asked for again.
FailRetrying == Wanted /\ UNCHANGED schemaVars

Fail ==
  /\ Wanted
  /\ verdict' = "failed"
  /\ UNCHANGED <<root, pending, documents, graph_bytes>>

\* What the validator's registry knows: locations, $ids and embedded $ids.
Registered ==
  UNION {{u, documents[u].id} \cup documents[u].embedded : u \in DOMAIN documents}

Resolvable == \A u \in DOMAIN documents : documents[u].references \subseteq Registered

\* The graph is complete; the validator compiles it.
Prepare ==
  /\ verdict = "open" /\ pending = <<>>
  /\ verdict' = IF Resolvable THEN "resolved" ELSE "unresolvable"
  /\ UNCHANGED <<root, pending, documents, graph_bytes>>

\* The caller has its answer.
SchemaDone ==
  /\ root' = NoLocation /\ pending' = <<>> /\ documents' = NoDocuments /\ graph_bytes' = 0
  /\ verdict' = "idle"

SchemaNext ==
  \/ \E target \in Locations : resolve_schema(target)
  \/ Skip \/ Exceed \/ Fail \/ Prepare \/ SchemaDone
  \/ \E document \in Documents : Receive(document)

SchemaSpec == SchemaInit /\ [][SchemaNext]_schemaVars
-----------------------------------------------------------------------------
(***************************************************************************)
(* The bundle: each document by its $id, the first of those that share one,*)
(* the root before all others.  Every reference is rewritten to the $id of *)
(* what was retrieved at its URL, one into its own document to a URL that  *)
(* is both embedded there and retrieved elsewhere included: the property   *)
(* below speaks of references between documents.                           *)
(***************************************************************************)
Alias(url) == IF url \in DOMAIN documents THEN documents[url].id ELSE url

Speaker(id) ==
  LET claims == {u \in DOMAIN documents : documents[u].id = id}
  IN  IF root \in claims THEN root ELSE CHOOSE u \in claims : TRUE

bundle == [id \in {documents[u].id : u \in DOMAIN documents} |-> documents[Speaker(id)]]
-----------------------------------------------------------------------------
(***************************************************************************)
(* Properties.                                                             *)
(***************************************************************************)
SchemaTypeOK ==
  /\ root \in Locations \/ verdict = "idle"
  /\ pending \in Seq([url : SecureLocations, depth : 0 .. MaximumDepth + 1])
  /\ DOMAIN documents \subseteq SecureLocations
  /\ \A u \in DOMAIN documents : documents[u] \in Documents
  /\ graph_bytes \in 0 .. MaximumGraphBytes
  /\ verdict \in {"idle", "open", "resolved", "insecure", "documents", "levels", "unsound", "bytes",
                  "failed", "unresolvable"}

References(u) == schema_references(documents[u])

\* A graph that is resolved is whole (schema.rs:36-97): the root and all that any of
\* its documents refers to were retrieved, and the limits hold.
ResolvedIsClosed ==
  verdict = "resolved" =>
    /\ root \in DOMAIN documents
    /\ \A u \in DOMAIN documents : References(u) \subseteq DOMAIN documents
    /\ Cardinality(DOMAIN documents) <= MaximumDocuments
    /\ graph_bytes <= MaximumGraphBytes

\* The locations at most n references away from the root.
Within ==
  LET within[n \in 0 .. MaximumDepth] ==
        IF n = 0 THEN {root}
        ELSE within[n - 1] \cup UNION {References(u) : u \in within[n - 1] \cap DOMAIN documents}
  IN  within

ClaimedOnce(id) == Cardinality({u \in DOMAIN documents : documents[u].id = id}) = 1

\* The verdict on a graph and the bundle made of it (schema.rs:36-97,112-164): it is
\* refused for its size or depth only when, as the documents retrieved so far show, more
\* are referred to than may be, or one that no shorter chain of references leads to;
\* and in the bundle a reference between documents finds the document that was
\* retrieved for it, as long as no two documents claim that $id.
GraphIsJudgedFairly ==
  /\ verdict = "documents" =>
       Cardinality(DOMAIN documents \cup UNION {References(u) : u \in DOMAIN documents}) > MaximumDocuments
  /\ verdict = "levels" =>
       \E u \in DOMAIN documents : ~(References(u) \subseteq Within[MaximumDepth])
  /\ verdict = "resolved" =>
       \A u \in DOMAIN documents : \A r \in References(u) :
         ClaimedOnce(documents[r].id) =>
           Alias(r) \in DOMAIN bundle /\ bundle[Alias(r)] = documents[r]
=============================================================================
