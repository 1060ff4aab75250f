------------------------- MODULE AttributeSchemaProofs -------------------------
(***************************************************************************)
(* Proofs about AttributeSchema, for every graph and every limit: the      *)
(* variables keep their types, a graph that is resolved is whole, and one  *)
(* that is refused for its size or its depth is too large or too deep.     *)
(*                                                                         *)
(* A location that is referred to is either retrieved or waits in the      *)
(* queue; the queue is empty when the graph is resolved.                   *)
(***************************************************************************)
EXTENDS AttributeSchema, FiniteSetTheorems, SequenceTheorems, WellFoundedInduction, TLAPS

Entries == [url : SecureLocations, depth : 0 .. MaximumDepth + 1]

Urls(s) == {s[i].url : i \in DOMAIN s}

Known == DOMAIN documents \cup Urls(pending)

AfterReceipt(document) ==
  [u \in DOMAIN documents \cup {NextUp.url} |-> IF u = NextUp.url THEN document ELSE documents[u]]

Found(found) == [i \in DOMAIN found |-> [url |-> found[i], depth |-> NextUp.depth + 1]]
-----------------------------------------------------------------------------
(***************************************************************************)
(* Lemmas about the queue.                                                 *)
(***************************************************************************)
\* The queue without its front: the locations are those of the front and of the rest.
LEMMA TailUrls ==
  ASSUME NEW S, NEW s \in Seq(S), s # <<>>
  PROVE  Tail(s) \in Seq(S) /\ Urls(s) = {Head(s).url} \cup Urls(Tail(s))
<1>1. Tail(s) \in Seq(S) /\ Len(s) \in Nat /\ Len(s) > 0 /\ DOMAIN s = 1 .. Len(s)
  OBVIOUS
<1>2. Len(Tail(s)) = Len(s) - 1 /\ DOMAIN Tail(s) = 1 .. Len(s) - 1 /\ Head(s) = s[1]
  OBVIOUS
<1>3. \A i \in 1 .. Len(s) - 1 : Tail(s)[i] = s[i + 1]
  OBVIOUS
<1>4. ASSUME NEW i \in DOMAIN s PROVE s[i].url \in {Head(s).url} \cup Urls(Tail(s))
  <2>1. CASE i = 1
    BY <2>1, <1>2
  <2>2. CASE i # 1
    <3>1. i - 1 \in DOMAIN Tail(s) /\ Tail(s)[i - 1] = s[i]
      BY <2>2, <1>1, <1>2, <1>3
    <3>. QED  BY <3>1 DEF Urls
  <2>. QED  BY <2>1, <2>2
<1>5. ASSUME NEW i \in DOMAIN Tail(s) PROVE Tail(s)[i].url \in Urls(s)
  <2>1. i + 1 \in DOMAIN s /\ Tail(s)[i] = s[i + 1]
    BY <1>1, <1>2, <1>3
  <2>. QED  BY <2>1 DEF Urls
<1>6. Head(s).url \in Urls(s)
  BY <1>1, <1>2 DEF Urls
<1>. QED  BY <1>1, <1>4, <1>5, <1>6 DEF Urls

\* Whatever is appended joins the locations of the queue.
LEMMA ConcatUrls ==
  ASSUME NEW S, NEW s \in Seq(S), NEW t \in Seq(S)
  PROVE  s \o t \in Seq(S) /\ Urls(s \o t) = Urls(s) \cup Urls(t)
<1>1. /\ s \o t \in Seq(S) /\ Len(s) \in Nat /\ Len(t) \in Nat
      /\ DOMAIN (s \o t) = 1 .. Len(s) + Len(t)
      /\ DOMAIN s = 1 .. Len(s) /\ DOMAIN t = 1 .. Len(t)
  OBVIOUS
<1>2. \A i \in 1 .. Len(s) : (s \o t)[i] = s[i]
  OBVIOUS
<1>3. \A i \in 1 .. Len(t) : (s \o t)[Len(s) + i] = t[i]
  OBVIOUS
<1>4. ASSUME NEW i \in DOMAIN (s \o t) PROVE (s \o t)[i].url \in Urls(s) \cup Urls(t)
  <2>1. CASE i <= Len(s)
    <3>1. i \in DOMAIN s /\ (s \o t)[i] = s[i]
      BY <2>1, <1>1, <1>2
    <3>. QED  BY <3>1 DEF Urls
  <2>2. CASE ~(i <= Len(s))
    <3>1. i - Len(s) \in 1 .. Len(t) /\ Len(s) + (i - Len(s)) = i
      BY <2>2, <1>1
    <3>2. (s \o t)[i] = t[i - Len(s)] /\ i - Len(s) \in DOMAIN t
      BY <3>1, <1>1, <1>3
    <3>. QED  BY <3>2 DEF Urls
  <2>. QED  BY <2>1, <2>2
<1>5. ASSUME NEW i \in DOMAIN s PROVE s[i].url \in Urls(s \o t)
  <2>1. i \in DOMAIN (s \o t) /\ (s \o t)[i] = s[i]
    BY <1>1, <1>2
  <2>. QED  BY <2>1 DEF Urls
<1>6. ASSUME NEW i \in DOMAIN t PROVE t[i].url \in Urls(s \o t)
  <2>1. Len(s) + i \in DOMAIN (s \o t) /\ (s \o t)[Len(s) + i] = t[i]
    BY <1>1, <1>3
  <2>. QED  BY <2>1 DEF Urls
<1>. QED  BY <1>1, <1>4, <1>5, <1>6 DEF Urls

\* The entries a document adds to the queue: its references, each one level deeper.
LEMMA FoundUrls ==
  ASSUME NEW R, R \subseteq SecureLocations, IsFiniteSet(R), NEW found \in Orders(R),
         NextUp.depth \in 0 .. MaximumDepth
  PROVE  Found(found) \in Seq(Entries) /\ Urls(Found(found)) = R
<1>1. Cardinality(R) \in Nat
  BY FS_CardinalityType
<1>2. /\ found \in [1 .. Cardinality(R) -> R] /\ DOMAIN found = 1 .. Cardinality(R)
      /\ \A u \in R : \E i \in DOMAIN found : found[i] = u
  BY DEF Orders
<1>3. NextUp.depth + 1 \in 0 .. MaximumDepth + 1
  BY SchemaAssumption
<1>4. \A i \in DOMAIN found : Found(found)[i] = [url |-> found[i], depth |-> NextUp.depth + 1]
  BY DEF Found
<1>5. ASSUME NEW i \in DOMAIN found PROVE Found(found)[i] \in Entries
  <2>1. found[i] \in SecureLocations
    BY <1>2
  <2>2. [url |-> found[i], depth |-> NextUp.depth + 1] \in Entries
    BY <2>1, <1>3 DEF Entries
  <2>. QED  BY <2>2, <1>4
<1>6. DOMAIN Found(found) = 1 .. Cardinality(R)
  BY <1>2 DEF Found
<1>7. Found(found) \in [1 .. Cardinality(R) -> Entries]
  BY <1>2, <1>5, <1>6 DEF Found
<1>8. Found(found) \in Seq(Entries)
  BY <1>1, <1>7
<1>9. Urls(Found(found)) = {found[i] : i \in DOMAIN found}
  BY <1>2, <1>4, <1>6 DEF Urls
<1>. QED  BY <1>2, <1>8, <1>9
-----------------------------------------------------------------------------
(***************************************************************************)
(* Types.                                                                  *)
(***************************************************************************)
\* A document that is accepted refers to locations that are asked for securely.
LEMMA AcceptedReferences ==
  ASSUME NEW document \in Documents, Flaw(document) = "none", graph_bytes \in Nat
  PROVE  /\ schema_references(document) \subseteq SecureLocations
         /\ IsFiniteSet(schema_references(document))
         /\ graph_bytes + document.bytes <= MaximumGraphBytes
<1>1. IsFiniteSet(document.references)
  BY SchemaAssumption
<1>2. document.references \subseteq SecureLocations
  BY DEF Flaw
<1>3. graph_bytes + document.bytes <= MaximumGraphBytes
  <2>1. ~(graph_bytes + document.bytes > MaximumGraphBytes)
    BY DEF Flaw
  <2>. QED  BY <2>1, SchemaAssumption
<1>4. schema_references(document) \subseteq document.references
  BY DEF schema_references
<1>5. IsFiniteSet(schema_references(document))
  BY <1>1, <1>4, FS_Subset
<1>. QED  BY <1>2, <1>3, <1>4, <1>5

\* What Receive does with a document that has no flaw.
LEMMA ReceiptQueues ==
  ASSUME SchemaTypeOK, NEW document \in Documents, Receive(document), Flaw(document) = "none"
  PROVE  /\ documents' = AfterReceipt(document)
         /\ graph_bytes' = graph_bytes + document.bytes /\ UNCHANGED <<root, verdict>>
         /\ pending' \in Seq(Entries)
         /\ Urls(pending) = {NextUp.url} \cup Urls(Tail(pending))
         /\ Urls(pending') = Urls(Tail(pending)) \cup schema_references(document)
         /\ NextUp.url \in SecureLocations
<1>1. pending \in Seq(Entries) /\ pending # <<>> /\ ~TooDeep
  BY DEF SchemaTypeOK, Entries, Receive, Wanted
<1>2. NextUp \in Entries
  BY <1>1 DEF NextUp
<1>3. NextUp.url \in SecureLocations /\ NextUp.depth \in 0 .. MaximumDepth
  BY <1>1, <1>2, SchemaAssumption DEF Entries, TooDeep
<1>4. PICK found \in Orders(schema_references(document)) : pending' = Queue(Found(found))
  BY DEF Receive, Found
<1>5. Found(found) \in Seq(Entries) /\ Urls(Found(found)) = schema_references(document)
  <2>1. graph_bytes \in Nat
    BY SchemaAssumption DEF SchemaTypeOK
  <2>. QED  BY <2>1, <1>3, AcceptedReferences, FoundUrls
<1>6. Tail(pending) \in Seq(Entries) /\ Urls(pending) = {NextUp.url} \cup Urls(Tail(pending))
  BY <1>1, TailUrls DEF NextUp
<1>7. pending' \in Seq(Entries) /\ Urls(pending') = Urls(Tail(pending)) \cup Urls(Found(found))
  <2>1. pending' = Tail(pending) \o Found(found)
    BY <1>4 DEF Queue
  <2>2. /\ Tail(pending) \o Found(found) \in Seq(Entries)
        /\ Urls(Tail(pending) \o Found(found)) = Urls(Tail(pending)) \cup Urls(Found(found))
    <3>. DEFINE rest == Tail(pending)
                more == Found(found)
    <3>1. rest \in Seq(Entries) /\ more \in Seq(Entries)
      BY <1>5, <1>6
    <3>. HIDE DEF rest, more
    <3>2. rest \o more \in Seq(Entries) /\ Urls(rest \o more) = Urls(rest) \cup Urls(more)
      BY <3>1, ConcatUrls
    <3>. QED  BY <3>2 DEF rest, more
  <2>. QED  BY <2>1, <2>2
<1>8. /\ documents' = AfterReceipt(document)
      /\ graph_bytes' = graph_bytes + document.bytes /\ UNCHANGED <<root, verdict>>
  BY DEF Receive, AfterReceipt
<1>. QED  BY <1>3, <1>5, <1>6, <1>7, <1>8

\* The variables keep their types: among them that nothing insecure is ever queued or
\* held, and that neither the bytes nor the levels ever exceed their limits.
LEMMA TypeStep ==
  ASSUME SchemaTypeOK, [SchemaNext]_schemaVars
  PROVE  SchemaTypeOK'
<1>. USE SchemaAssumption DEF SchemaTypeOK
<1>1. ASSUME NEW target \in Locations, resolve_schema(target) PROVE SchemaTypeOK'
  <2>1. root' = target /\ graph_bytes' = 0 /\ documents' = NoDocuments
    BY <1>1 DEF resolve_schema
  <2>2. DOMAIN documents' = {}
    BY <2>1 DEF NoDocuments
  <2>3. verdict' \in {"open", "insecure"}
    BY <1>1 DEF resolve_schema
  <2>4. pending' \in Seq([url : SecureLocations, depth : 0 .. MaximumDepth + 1])
    <3>1. CASE target \in SecureLocations
      <4>1. pending' = <<[url |-> target, depth |-> 0]>>
        BY <1>1, <3>1 DEF resolve_schema
      <4>2. [url |-> target, depth |-> 0] \in [url : SecureLocations, depth : 0 .. MaximumDepth + 1]
        BY <3>1
      <4>. QED  BY <4>1, <4>2
    <3>2. CASE target \notin SecureLocations
      <4>1. pending' = <<>>
        BY <1>1, <3>2 DEF resolve_schema
      <4>. QED  BY <4>1
    <3>. QED  BY <3>1, <3>2
  <2>. QED  BY <2>1, <2>2, <2>3, <2>4
<1>2. ASSUME Skip PROVE SchemaTypeOK'
  <2>1. pending' = Tail(pending) /\ pending # <<>> /\ UNCHANGED <<root, documents, graph_bytes, verdict>>
    BY <1>2 DEF Skip
  <2>2. pending' \in Seq([url : SecureLocations, depth : 0 .. MaximumDepth + 1])
    BY <2>1
  <2>. QED  BY <2>1, <2>2
<1>3. ASSUME Exceed PROVE SchemaTypeOK'
  BY <1>3 DEF Exceed
<1>4. ASSUME Fail PROVE SchemaTypeOK'
  BY <1>4 DEF Fail, Wanted
<1>5. ASSUME Prepare PROVE SchemaTypeOK'
  BY <1>5 DEF Prepare
<1>6. ASSUME SchemaDone PROVE SchemaTypeOK'
  <2>1. DOMAIN documents' = {}
    BY <1>6 DEF SchemaDone, NoDocuments
  <2>. QED  BY <1>6, <2>1 DEF SchemaDone
<1>7. ASSUME NEW document \in Documents, Receive(document) PROVE SchemaTypeOK'
  <2>1. CASE Flaw(document) # "none"
    <3>1. UNCHANGED <<root, pending, documents, graph_bytes>> /\ verdict' = Flaw(document) /\ verdict = "open"
      BY <1>7, <2>1 DEF Receive, Wanted
    <3>2. Flaw(document) \in {"unsound", "bytes", "insecure"}
      BY <2>1 DEF Flaw
    <3>. QED  BY <3>1, <3>2
  <2>2. CASE Flaw(document) = "none"
    <3>1. /\ documents' = AfterReceipt(document) /\ UNCHANGED <<root, verdict>>
          /\ graph_bytes' = graph_bytes + document.bytes
          /\ pending' \in Seq(Entries) /\ NextUp.url \in SecureLocations
      BY <1>7, <2>2, ReceiptQueues
    <3>2. DOMAIN documents' \subseteq SecureLocations /\ \A u \in DOMAIN documents' : documents'[u] \in Documents
      BY <3>1 DEF AfterReceipt
    <3>3. graph_bytes' \in 0 .. MaximumGraphBytes
      BY <3>1, <2>2, AcceptedReferences
    <3>. QED  BY <3>1, <3>2, <3>3 DEF Entries
  <2>. QED  BY <2>1, <2>2
<1>8. CASE UNCHANGED schemaVars
  BY <1>8 DEF schemaVars
<1>. QED  BY <1>1, <1>2, <1>3, <1>4, <1>5, <1>6, <1>7, <1>8 DEF SchemaNext

LEMMA TypeInitially == SchemaInit => SchemaTypeOK
  BY SchemaAssumption DEF SchemaInit, SchemaTypeOK, NoDocuments

\* Every graph is well-typed, whatever is found at its locations (schema.rs:24-110).
THEOREM SchemaTypeCorrect == SchemaSpec => []SchemaTypeOK
<1>1. SchemaInit => SchemaTypeOK
  BY TypeInitially
<1>2. SchemaTypeOK /\ [SchemaNext]_schemaVars => SchemaTypeOK'
  BY TypeStep
<1>. QED  BY <1>1, <1>2, PTL DEF SchemaSpec
-----------------------------------------------------------------------------
(***************************************************************************)
(* Closure.                                                                *)
(***************************************************************************)
Good == verdict \in {"open", "resolved"}

\* The inductive invariant: the documents are finitely many and within their limit; and
\* while the graph is good, the root and whatever a document refers to is either
\* retrieved or queued, and nothing is queued any more when the graph is resolved.
GraphInv ==
  /\ SchemaTypeOK
  /\ IsFiniteSet(DOMAIN documents) /\ Cardinality(DOMAIN documents) <= MaximumDocuments
  /\ Good => root \in Known /\ \A u \in DOMAIN documents : References(u) \subseteq Known
  /\ verdict = "resolved" => pending = <<>>

\* With an empty queue, nothing is known but what was retrieved.
LEMMA EmptyUrls == Urls(<<>>) = {}
  BY DEF Urls

LEMMA GraphInitially == SchemaInit => GraphInv
<1>. SUFFICES ASSUME SchemaInit PROVE GraphInv
  OBVIOUS
<1>1. DOMAIN documents = {} /\ verdict = "idle"
  BY DEF SchemaInit, NoDocuments
<1>2. IsFiniteSet(DOMAIN documents) /\ Cardinality(DOMAIN documents) = 0
  BY <1>1, FS_EmptySet
<1>. QED  BY <1>1, <1>2, TypeInitially, SchemaAssumption DEF GraphInv, Good

LEMMA GraphStep ==
  ASSUME GraphInv, [SchemaNext]_schemaVars
  PROVE  GraphInv'
<1>0. SchemaTypeOK /\ SchemaTypeOK'
  BY TypeStep DEF GraphInv
<1>. pending \in Seq(Entries)
  BY <1>0 DEF SchemaTypeOK, Entries
<1>1. ASSUME NEW target \in Locations, resolve_schema(target) PROVE GraphInv'
  <2>1. root' = target /\ documents' = NoDocuments
    BY <1>1 DEF resolve_schema
  <2>2. DOMAIN documents' = {}
    BY <2>1 DEF NoDocuments
  <2>3. IsFiniteSet(DOMAIN documents') /\ Cardinality(DOMAIN documents') = 0
    BY <2>2, FS_EmptySet
  <2>4. verdict' # "resolved"
    BY <1>1 DEF resolve_schema
  <2>5. Good' => root' \in Known'
    <3>. SUFFICES ASSUME Good' PROVE root' \in Known'
      OBVIOUS
    <3>1. pending' = <<[url |-> target, depth |-> 0]>>
      BY <1>1 DEF resolve_schema, Good
    <3>2. pending'[1].url = target /\ 1 \in DOMAIN pending'
      BY <3>1
    <3>3. target \in Urls(pending')
      BY <3>2 DEF Urls
    <3>. QED  BY <2>1, <3>3 DEF Known
  <2>. QED  BY <1>0, <2>2, <2>3, <2>4, <2>5, SchemaAssumption DEF GraphInv
<1>2. ASSUME Skip PROVE GraphInv'
  <2>1. /\ pending' = Tail(pending) /\ pending # <<>> /\ Retrieved(NextUp.url) /\ verdict = "open"
        /\ UNCHANGED <<root, documents, verdict>>
    BY <1>2 DEF Skip
  <2>2. Urls(pending) = {NextUp.url} \cup Urls(Tail(pending))
    BY <2>1, TailUrls DEF NextUp
  <2>3. Known' = Known
    <3>1. NextUp.url \in DOMAIN documents
      BY <2>1 DEF Retrieved
    <3>2. Known' = DOMAIN documents \cup Urls(Tail(pending))
      BY <2>1 DEF Known
    <3>. QED  BY <2>2, <3>1, <3>2 DEF Known
  <2>. QED  BY <1>0, <2>1, <2>3 DEF GraphInv, Good, References
<1>3. ASSUME Exceed PROVE GraphInv'
  <2>1. verdict' \in {"documents", "levels"} /\ UNCHANGED documents
    BY <1>3 DEF Exceed
  <2>. QED  BY <1>0, <2>1 DEF GraphInv, Good
<1>4. ASSUME Fail PROVE GraphInv'
  <2>1. verdict' = "failed" /\ UNCHANGED documents
    BY <1>4 DEF Fail
  <2>. QED  BY <1>0, <2>1 DEF GraphInv, Good
<1>5. ASSUME Prepare PROVE GraphInv'
  <2>1. /\ verdict = "open" /\ pending = <<>> /\ UNCHANGED <<root, pending, documents>>
        /\ verdict' \in {"resolved", "unresolvable"}
    BY <1>5 DEF Prepare
  <2>2. Known' = Known
    BY <2>1 DEF Known
  <2>. QED  BY <1>0, <2>1, <2>2 DEF GraphInv, Good, References
<1>6. ASSUME SchemaDone PROVE GraphInv'
  <2>1. DOMAIN documents' = {} /\ verdict' = "idle"
    BY <1>6 DEF SchemaDone, NoDocuments
  <2>2. IsFiniteSet(DOMAIN documents') /\ Cardinality(DOMAIN documents') = 0
    BY <2>1, FS_EmptySet
  <2>. QED  BY <1>0, <2>1, <2>2, SchemaAssumption DEF GraphInv, Good
<1>7. ASSUME NEW document \in Documents, Receive(document) PROVE GraphInv'
  <2>0. Wanted
    BY <1>7 DEF Receive
  <2>1. CASE Flaw(document) # "none"
    <3>1. UNCHANGED documents /\ verdict' \in {"unsound", "bytes", "insecure"}
      BY <1>7, <2>1 DEF Receive, Flaw
    <3>. QED  BY <1>0, <3>1 DEF GraphInv, Good
  <2>2. CASE Flaw(document) = "none"
    <3>1. /\ documents' = AfterReceipt(document) /\ UNCHANGED <<root, verdict>>
          /\ Urls(pending) = {NextUp.url} \cup Urls(Tail(pending))
          /\ Urls(pending') = Urls(Tail(pending)) \cup schema_references(document)
      BY <1>0, <1>7, <2>2, ReceiptQueues
    <3>2. DOMAIN documents' = DOMAIN documents \cup {NextUp.url}
      BY <3>1 DEF AfterReceipt
    <3>3. NextUp.url \notin DOMAIN documents /\ verdict = "open" /\ ~TooMany
      BY <2>0 DEF Wanted, Retrieved
    <3>4. /\ IsFiniteSet(DOMAIN documents')
          /\ Cardinality(DOMAIN documents') = Cardinality(DOMAIN documents) + 1
      BY <3>2, <3>3, FS_AddElement DEF GraphInv
    <3>5. Cardinality(DOMAIN documents) \in Nat
      BY FS_CardinalityType DEF GraphInv
    <3>6. Cardinality(DOMAIN documents') <= MaximumDocuments
      BY <3>3, <3>4, <3>5, SchemaAssumption DEF TooMany
    <3>7. Known \subseteq Known' /\ schema_references(document) \subseteq Known'
      <4>1. Known' = DOMAIN documents' \cup Urls(pending')
        BY DEF Known
      <4>. QED  BY <3>1, <3>2, <4>1 DEF Known
    <3>8. root \in Known /\ \A u \in DOMAIN documents : References(u) \subseteq Known
      BY <3>3 DEF GraphInv, Good
    <3>9. ASSUME NEW u \in DOMAIN documents' PROVE References(u)' \subseteq Known'
      <4>1. References(u)' = schema_references(documents'[u])
        BY DEF References, schema_references
      <4>2. CASE u = NextUp.url
        <5>1. documents'[u] = document
          BY <3>1, <3>2, <4>2 DEF AfterReceipt
        <5>. QED  BY <4>1, <5>1, <3>7
      <4>3. CASE u # NextUp.url
        <5>1. u \in DOMAIN documents /\ documents'[u] = documents[u]
          BY <3>1, <3>2, <4>3 DEF AfterReceipt
        <5>2. References(u) = schema_references(documents[u])
          BY DEF References
        <5>. QED  BY <4>1, <5>1, <5>2, <3>7, <3>8
      <4>. QED  BY <4>2, <4>3
    <3>10. verdict' = "open" /\ root' \in Known'
      BY <3>1, <3>3, <3>7, <3>8
    <3>. QED  BY <1>0, <3>4, <3>6, <3>9, <3>10 DEF GraphInv
  <2>. QED  BY <2>1, <2>2
<1>8. CASE UNCHANGED schemaVars
  <2>1. UNCHANGED <<root, pending, documents, verdict>>
    BY <1>8 DEF schemaVars
  <2>2. Known' = Known
    BY <2>1 DEF Known
  <2>. QED  BY <1>0, <2>1, <2>2 DEF GraphInv, Good, References
<1>. QED  BY <1>1, <1>2, <1>3, <1>4, <1>5, <1>6, <1>7, <1>8 DEF SchemaNext

LEMMA GraphImplies == GraphInv => ResolvedIsClosed
<1>. SUFFICES ASSUME GraphInv, verdict = "resolved" PROVE ResolvedIsClosed
  BY DEF ResolvedIsClosed
<1>1. Known = DOMAIN documents
  BY EmptyUrls DEF GraphInv, Known
<1>2. root \in DOMAIN documents /\ \A u \in DOMAIN documents : References(u) \subseteq DOMAIN documents
  BY <1>1 DEF GraphInv, Good
<1>3. graph_bytes <= MaximumGraphBytes
  BY SchemaAssumption DEF GraphInv, SchemaTypeOK
<1>. QED  BY <1>2, <1>3 DEF GraphInv, ResolvedIsClosed

\* For every set of locations and documents, whatever they refer to and however they
\* change while they are retrieved: a graph that is resolved contains its root and all
\* that its documents refer to, within the limits (schema.rs:36-97).
THEOREM GraphsAreWhole == SchemaSpec => []ResolvedIsClosed
<1>1. SchemaInit => GraphInv
  BY GraphInitially
<1>2. GraphInv /\ [SchemaNext]_schemaVars => GraphInv'
  BY GraphStep
<1>3. GraphInv => ResolvedIsClosed
  BY GraphImplies
<1>. QED  BY <1>1, <1>2, <1>3, PTL DEF SchemaSpec
-----------------------------------------------------------------------------
(***************************************************************************)
(* Judgement.  The queue is in the order of its levels, and spans two of   *)
(* them at most; so what is retrieved was retrieved at the level of the    *)
(* shortest chain of references to it.                                     *)
(***************************************************************************)
\* A set of natural numbers that is not empty has a least one.
LEMMA LeastLevel ==
  ASSUME NEW S \in SUBSET Nat, S # {}
  PROVE  \E m \in S : \A k \in S : m <= k
<1> DEFINE Less == {ss \in Nat \X Nat : ss[1] < ss[2]}
<1>1. OpToRel(<, Nat) = Less
  BY DEF OpToRel
<1>2. IsWellFoundedOn(Less, Nat)
  BY <1>1, NatLessThanWellFounded
<1> HIDE DEF Less
<1>3. PICK m \in S : \A k \in S : <<k, m>> \notin Less
  BY <1>2, WFMin
<1>4. \A k \in S : ~(k < m)
  BY <1>3 DEF Less
<1> QED BY <1>4

Referred == UNION {References(u) : u \in DOMAIN documents}

InOrder(queue) ==
  \A i, j \in DOMAIN queue : i <= j => /\ queue[i].depth <= queue[j].depth
                                       /\ queue[j].depth <= queue[i].depth + 1

\* v was retrieved, or waits, at level n or before.
Reached(queue, docs, level, v, n) ==
  \/ v \in DOMAIN docs /\ level[v] <= n
  \/ \E i \in DOMAIN queue : queue[i].url = v /\ queue[i].depth <= n

Levelled(top, queue, docs, level) ==
  /\ \A u \in DOMAIN docs : \A i \in DOMAIN queue : level[u] <= queue[i].depth
  /\ Reached(queue, docs, level, top, 0)
  /\ \A u \in DOMAIN docs : \A r \in schema_references(docs[u]) :
       Reached(queue, docs, level, r, level[u] + 1)

\* A search that is under way, or was given up for its size or its depth.
Searching == verdict \in {"open", "documents", "levels"}

FairInv ==
  /\ GraphInv
  /\ Searching =>
       /\ Urls(pending) \subseteq {root} \cup Referred
       /\ DOMAIN documents # {} => root \in DOMAIN documents
       /\ InOrder(pending)
       /\ \E level \in [DOMAIN documents -> Nat] : Levelled(root, pending, documents, level)
  /\ verdict \in {"documents", "levels"} => pending # <<>> /\ ~Retrieved(NextUp.url)
  /\ verdict = "documents" => TooMany
  /\ verdict = "levels" => TooDeep

\* The locations within n references of the root, by the recurrence.
LEMMA WithinSteps ==
  /\ Within[0] = {root}
  /\ \A n \in 1 .. MaximumDepth :
       Within[n] = Within[n - 1] \cup UNION {References(u) : u \in Within[n - 1] \cap DOMAIN documents}
<1> DEFINE Next1(f, n) == f[n - 1] \cup UNION {References(u) : u \in f[n - 1] \cap DOMAIN documents}
           IsWithin(f, k) == f = [n \in 0 .. k |-> IF n = 0 THEN {root} ELSE Next1(f, n)]
           within == CHOOSE f : IsWithin(f, MaximumDepth)
           missing == {k \in 0 .. MaximumDepth : ~\E f : IsWithin(f, k)}
<1>1. MaximumDepth \in Nat
  BY SchemaAssumption
<1>2. Within = within
  BY DEF Within
<1>3. missing = {}
  <2>1. SUFFICES ASSUME missing # {} PROVE FALSE
    OBVIOUS
  <2>2. missing \in SUBSET Nat
    OBVIOUS
  <2>3. PICK k \in missing : \A j \in missing : k <= j
    <3> HIDE DEF missing
    <3> QED BY <2>1, <2>2, LeastLevel
  <2>4. k \in 0 .. MaximumDepth /\ ~\E f : IsWithin(f, k)
    BY <2>3
  <2>5. CASE k = 0
    <3> DEFINE f == [n \in 0 .. 0 |-> {root}]
    <3>1. f = [n \in 0 .. 0 |-> IF n = 0 THEN {root} ELSE Next1(f, n)]
      <4>1. \A n \in 0 .. 0 : n = 0
        OBVIOUS
      <4> HIDE DEF Next1
      <4> QED BY <4>1
    <3> HIDE DEF f, Next1
    <3> QED BY <2>4, <2>5, <3>1
  <2>6. CASE k # 0
    <3>1. k - 1 \in 0 .. MaximumDepth /\ k \in 1 .. MaximumDepth /\ ~(k <= k - 1)
      BY <1>1, <2>4, <2>6
    <3>2. k - 1 \notin missing
      <4> HIDE DEF missing
      <4> QED BY <2>3, <3>1
    <3>3. PICK f : IsWithin(f, k - 1)
      <4> HIDE DEF IsWithin
      <4> QED BY <3>1, <3>2
    <3> DEFINE g == [n \in 0 .. k |-> IF n = k THEN Next1(f, k) ELSE f[n]]
    <3>4. ASSUME NEW n \in 0 .. k PROVE g[n] = IF n = 0 THEN {root} ELSE Next1(g, n)
      <4>1. n # 0 => g[n - 1] = f[n - 1]
        BY <3>1
      <4>2. n # 0 => Next1(g, n) = Next1(f, n)
        BY <4>1
      <4>3. CASE n = k
        <5>1. g[n] = Next1(f, k) /\ n # 0
          BY <3>1, <4>3
        <5> HIDE DEF g, Next1
        <5> QED BY <4>2, <4>3, <5>1
      <4>4. CASE n # k
        <5>1. n \in 0 .. k - 1 /\ g[n] = f[n]
          BY <3>1, <4>4
        <5>2. f[n] = IF n = 0 THEN {root} ELSE Next1(f, n)
          <6> HIDE DEF Next1
          <6> QED BY <3>3, <5>1
        <5> HIDE DEF g, Next1
        <5> QED BY <4>2, <5>1, <5>2
      <4> QED BY <4>3, <4>4
    <3>5. g = [n \in 0 .. k |-> IF n = 0 THEN {root} ELSE Next1(g, n)]
      <4>1. g = [n \in 0 .. k |-> g[n]]
        OBVIOUS
      <4> HIDE DEF g, Next1
      <4> QED BY <3>4, <4>1
    <3> HIDE DEF g, Next1
    <3> QED BY <2>4, <3>5
  <2> QED BY <2>5, <2>6
<1>4. IsWithin(within, MaximumDepth)
  <2>1. \E f : IsWithin(f, MaximumDepth)
    <3>1. MaximumDepth \notin missing /\ MaximumDepth \in 0 .. MaximumDepth
      <4> HIDE DEF missing
      <4> QED BY <1>1, <1>3
    <3> HIDE DEF IsWithin
    <3> QED BY <3>1
  <2> HIDE DEF IsWithin
  <2> QED BY <2>1
<1>5. \A n \in 0 .. MaximumDepth : within[n] = IF n = 0 THEN {root} ELSE Next1(within, n)
  <2> HIDE DEF within, Next1
  <2> QED BY <1>4
<1>6. 0 \in 0 .. MaximumDepth /\ \A n \in 1 .. MaximumDepth : n \in 0 .. MaximumDepth /\ n # 0
  BY <1>1
<1> HIDE DEF within
<1> QED BY <1>2, <1>5, <1>6

\* Whatever is within n references of the root was retrieved, or waits, at level n or before.
LEMMA WithinIsReached ==
  ASSUME NEW level \in [DOMAIN documents -> Nat], Levelled(root, pending, documents, level),
         pending \in Seq(Entries)
  PROVE  \A n \in 0 .. MaximumDepth : \A v \in Within[n] : Reached(pending, documents, level, v, n)
<1> DEFINE Holds(n) == \A v \in Within[n] : Reached(pending, documents, level, v, n)
           wrong == {n \in 0 .. MaximumDepth : ~Holds(n)}
<1>1. MaximumDepth \in Nat
  BY SchemaAssumption
<1>2. \A i \in DOMAIN pending : pending[i].depth \in Nat
  <2>1. \A i \in DOMAIN pending : pending[i] \in Entries
    OBVIOUS
  <2> QED BY <1>1, <2>1 DEF Entries
<1>3. wrong = {}
  <2>1. SUFFICES ASSUME wrong # {} PROVE FALSE
    OBVIOUS
  <2>2. wrong \in SUBSET Nat
    OBVIOUS
  <2>3. PICK n \in wrong : \A j \in wrong : n <= j
    <3> HIDE DEF wrong
    <3> QED BY <2>1, <2>2, LeastLevel
  <2>4. n \in 0 .. MaximumDepth /\ ~Holds(n)
    BY <2>3
  <2>5. CASE n = 0
    BY <2>4, <2>5, WithinSteps DEF Levelled
  <2>6. CASE n # 0
    <3>1. n \in 1 .. MaximumDepth /\ n - 1 \in 0 .. MaximumDepth /\ ~(n <= n - 1)
      BY <1>1, <2>4, <2>6
    <3>2. Holds(n - 1)
      <4> HIDE DEF Holds
      <4> QED BY <2>3, <3>1
    <3>3. ASSUME NEW v \in Within[n] PROVE Reached(pending, documents, level, v, n)
      <4>1. CASE v \in Within[n - 1]
        <5>1. Reached(pending, documents, level, v, n - 1)
          BY <3>2, <4>1
        <5> QED BY <1>2, <3>1, <5>1 DEF Reached
      <4>2. CASE v \notin Within[n - 1]
        <5>1. PICK u \in Within[n - 1] \cap DOMAIN documents : v \in References(u)
          BY <3>1, <4>2, WithinSteps
        <5>2. Reached(pending, documents, level, u, n - 1)
          BY <3>2, <5>1
        <5>3. level[u] <= n - 1 /\ level[u] \in Nat
          <6>1. CASE u \in DOMAIN documents /\ level[u] <= n - 1
            BY <6>1
          <6>2. CASE \E i \in DOMAIN pending : pending[i].url = u /\ pending[i].depth <= n - 1
            <7>1. PICK i \in DOMAIN pending : pending[i].depth <= n - 1
              BY <6>2
            <7>2. level[u] <= pending[i].depth /\ level[u] \in Nat /\ pending[i].depth \in Nat
              BY <1>2, <5>1 DEF Levelled
            <7> QED BY <3>1, <7>1, <7>2
          <6> QED BY <5>2, <6>1, <6>2 DEF Reached
        <5>4. Reached(pending, documents, level, v, level[u] + 1)
          BY <5>1 DEF Levelled, References
        <5> QED BY <1>2, <3>1, <5>3, <5>4 DEF Reached
      <4> QED BY <4>1, <4>2
    <3> QED BY <2>4, <3>3
  <2> QED BY <2>5, <2>6
<1> QED BY <1>3

\* What is reached stays so when the front of the queue, retrieved already, is passed over.
LEMMA ReachedWhenSkipped ==
  ASSUME NEW queue \in Seq(Entries), queue # <<>>, NEW docs, NEW level \in [DOMAIN docs -> Nat],
         \A u \in DOMAIN docs : \A i \in DOMAIN queue : level[u] <= queue[i].depth,
         Head(queue).url \in DOMAIN docs
  PROVE  \A v : \A n \in Nat : Reached(queue, docs, level, v, n) => Reached(Tail(queue), docs, level, v, n)
<1>1. SUFFICES ASSUME NEW v, NEW n \in Nat, Reached(queue, docs, level, v, n)
               PROVE  Reached(Tail(queue), docs, level, v, n)
  OBVIOUS
<1>2. CASE v \in DOMAIN docs /\ level[v] <= n
  BY <1>2 DEF Reached
<1>3. ASSUME NEW i \in DOMAIN queue, queue[i].url = v, queue[i].depth <= n
      PROVE  Reached(Tail(queue), docs, level, v, n)
  <2>1. /\ Len(queue) \in Nat /\ Len(queue) > 0 /\ DOMAIN queue = 1 .. Len(queue)
        /\ DOMAIN Tail(queue) = 1 .. Len(queue) - 1 /\ Head(queue) = queue[1]
        /\ \A j \in 1 .. Len(queue) - 1 : Tail(queue)[j] = queue[j + 1]
    OBVIOUS
  <2>2. queue[i].depth \in Nat
    <3>1. queue[i] \in Entries
      OBVIOUS
    <3> QED BY <3>1, SchemaAssumption DEF Entries
  <2>3. CASE i = 1
    <3>1. v \in DOMAIN docs /\ level[v] <= queue[i].depth /\ level[v] \in Nat
      BY <1>3, <2>1, <2>3
    <3> QED BY <1>3, <2>2, <3>1 DEF Reached
  <2>4. CASE i # 1
    <3>1. i - 1 \in DOMAIN Tail(queue) /\ Tail(queue)[i - 1] = queue[i]
      BY <2>1, <2>4
    <3> QED BY <1>3, <3>1 DEF Reached
  <2> QED BY <2>3, <2>4
<1> QED BY <1>1, <1>2, <1>3 DEF Reached

\* And when the front of the queue is retrieved and what it refers to is appended.
LEMMA ReachedWhenReceived ==
  ASSUME NEW queue \in Seq(Entries), queue # <<>>, NEW more \in Seq(Entries),
         NEW docs, NEW level \in [DOMAIN docs -> Nat], Head(queue).url \notin DOMAIN docs,
         NEW later, DOMAIN later = DOMAIN docs \cup {Head(queue).url},
         NEW after, after = [u \in DOMAIN later |-> IF u = Head(queue).url THEN Head(queue).depth
                                                    ELSE level[u]]
  PROVE  \A v : \A n \in Nat :
           Reached(queue, docs, level, v, n) => Reached(Tail(queue) \o more, later, after, v, n)
<1>1. SUFFICES ASSUME NEW v, NEW n \in Nat, Reached(queue, docs, level, v, n)
               PROVE  Reached(Tail(queue) \o more, later, after, v, n)
  OBVIOUS
<1>2. CASE v \in DOMAIN docs /\ level[v] <= n
  BY <1>2 DEF Reached
<1>3. ASSUME NEW i \in DOMAIN queue, queue[i].url = v, queue[i].depth <= n
      PROVE  Reached(Tail(queue) \o more, later, after, v, n)
  <2>1. /\ Len(queue) \in Nat /\ Len(queue) > 0 /\ DOMAIN queue = 1 .. Len(queue)
        /\ Head(queue) = queue[1] /\ Tail(queue) \in Seq(Entries) /\ Len(Tail(queue)) = Len(queue) - 1
        /\ \A j \in 1 .. Len(queue) - 1 : Tail(queue)[j] = queue[j + 1]
    OBVIOUS
  <2>2. CASE i = 1
    <3>1. v \in DOMAIN later /\ after[v] = queue[i].depth
      BY <1>3, <2>1, <2>2
    <3> QED BY <1>3, <3>1 DEF Reached
  <2>3. CASE i # 1
    <3> DEFINE rest == Tail(queue)
    <3>1. i - 1 \in 1 .. Len(rest) /\ rest[i - 1] = queue[i] /\ rest \in Seq(Entries)
      BY <2>1, <2>3
    <3> HIDE DEF rest
    <3>2. i - 1 \in DOMAIN (rest \o more) /\ (rest \o more)[i - 1] = queue[i]
      BY <3>1
    <3> QED BY <1>3, <3>2 DEF Reached, rest
  <2> QED BY <2>2, <2>3
<1> QED BY <1>1, <1>2, <1>3 DEF Reached

\* The queue stays in order without its front.
LEMMA OrderOfRest ==
  ASSUME NEW queue \in Seq(Entries), queue # <<>>, InOrder(queue)
  PROVE  /\ InOrder(Tail(queue))
         /\ \A i \in DOMAIN Tail(queue) : \E j \in DOMAIN queue : Tail(queue)[i] = queue[j]
         /\ \A i \in DOMAIN queue : /\ Head(queue).depth <= queue[i].depth
                                    /\ queue[i].depth <= Head(queue).depth + 1
<1>1. /\ Len(queue) \in Nat /\ Len(queue) > 0 /\ DOMAIN queue = 1 .. Len(queue)
      /\ DOMAIN Tail(queue) = 1 .. Len(queue) - 1 /\ Head(queue) = queue[1]
      /\ \A j \in 1 .. Len(queue) - 1 : Tail(queue)[j] = queue[j + 1]
  OBVIOUS
<1>2. \A i \in DOMAIN Tail(queue) : i + 1 \in DOMAIN queue /\ Tail(queue)[i] = queue[i + 1]
  BY <1>1
<1>3. InOrder(Tail(queue))
  <2>1. SUFFICES ASSUME NEW i \in DOMAIN Tail(queue), NEW j \in DOMAIN Tail(queue), i <= j
                 PROVE  /\ Tail(queue)[i].depth <= Tail(queue)[j].depth
                        /\ Tail(queue)[j].depth <= Tail(queue)[i].depth + 1
    BY DEF InOrder
  <2>2. i + 1 <= j + 1
    BY <1>1, <2>1
  <2> QED BY <1>2, <2>2 DEF InOrder
<1>4. \A i \in DOMAIN queue : 1 \in DOMAIN queue /\ 1 <= i
  BY <1>1
<1> QED BY <1>1, <1>2, <1>3, <1>4 DEF InOrder

\* The queue stays in order with entries appended that are one level below its front.
LEMMA OrderWithMore ==
  ASSUME NEW queue \in Seq(Entries), queue # <<>>, InOrder(queue), NEW more \in Seq(Entries),
         \A i \in DOMAIN more : more[i].depth = Head(queue).depth + 1
  PROVE  /\ InOrder(Tail(queue) \o more)
         /\ \A i \in DOMAIN (Tail(queue) \o more) : Head(queue).depth <= (Tail(queue) \o more)[i].depth
<1> DEFINE rest == Tail(queue)
           top  == Head(queue).depth
<1>1. rest \in Seq(Entries) /\ Head(queue) \in Entries
  OBVIOUS
<1>2. top \in Nat /\ \A i \in DOMAIN rest : rest[i].depth \in Nat
  <2>1. \A i \in DOMAIN rest : rest[i] \in Entries
    <3> HIDE DEF rest
    <3> QED BY <1>1
  <2> QED BY <1>1, <2>1, SchemaAssumption DEF Entries
<1>3. InOrder(rest) /\ \A i \in DOMAIN rest : top <= rest[i].depth /\ rest[i].depth <= top + 1
  BY OrderOfRest
<1> HIDE DEF rest, top
<1>4. /\ DOMAIN (rest \o more) = 1 .. Len(rest) + Len(more) /\ Len(rest) \in Nat /\ Len(more) \in Nat
      /\ DOMAIN rest = 1 .. Len(rest) /\ DOMAIN more = 1 .. Len(more)
      /\ \A i \in 1 .. Len(rest) : (rest \o more)[i] = rest[i]
      /\ \A i \in 1 .. Len(more) : (rest \o more)[Len(rest) + i] = more[i]
  BY <1>1
<1>5. \A i \in DOMAIN (rest \o more) :
        \/ i \in DOMAIN rest /\ (rest \o more)[i] = rest[i]
        \/ ~(i <= Len(rest)) /\ (rest \o more)[i].depth = top + 1
  <2>1. SUFFICES ASSUME NEW i \in DOMAIN (rest \o more), ~(i <= Len(rest))
                 PROVE  (rest \o more)[i].depth = top + 1
    BY <1>4
  <2>2. i - Len(rest) \in 1 .. Len(more) /\ Len(rest) + (i - Len(rest)) = i
    BY <1>4, <2>1
  <2>3. (rest \o more)[i] = more[i - Len(rest)] /\ i - Len(rest) \in DOMAIN more
    BY <1>4, <2>2
  <2> QED BY <2>3 DEF top
<1>6. InOrder(rest \o more)
  <2>1. SUFFICES ASSUME NEW i \in DOMAIN (rest \o more), NEW j \in DOMAIN (rest \o more), i <= j
                 PROVE  /\ (rest \o more)[i].depth <= (rest \o more)[j].depth
                        /\ (rest \o more)[j].depth <= (rest \o more)[i].depth + 1
    BY DEF InOrder
  <2>2. CASE j \in DOMAIN rest
    <3>1. j <= Len(rest) /\ i <= Len(rest)
      BY <1>4, <2>1, <2>2
    <3> QED BY <1>3, <1>5, <2>1, <2>2, <3>1 DEF InOrder
  <2>3. CASE j \notin DOMAIN rest
    BY <1>2, <1>3, <1>5, <2>3
  <2> QED BY <2>2, <2>3
<1>7. \A i \in DOMAIN (rest \o more) : top <= (rest \o more)[i].depth
  BY <1>2, <1>3, <1>5
<1> QED BY <1>6, <1>7 DEF rest, top

LEMMA FairInitially == SchemaInit => FairInv
  BY GraphInitially DEF SchemaInit, FairInv, Searching

\* Of a search that begins, the root waits at level 0.
LEMMA FairBegins ==
  ASSUME FairInv, NEW target \in Locations, resolve_schema(target) PROVE FairInv'
<1>1. GraphInv'
  BY GraphStep DEF FairInv, SchemaNext
<1>2. root' = target /\ documents' = NoDocuments /\ verdict' \in {"open", "insecure"}
  BY DEF resolve_schema
<1>3. DOMAIN documents' = {}
  BY <1>2 DEF NoDocuments
<1>4. ASSUME verdict' = "open"
      PROVE  /\ Urls(pending)' \subseteq {root'} /\ InOrder(pending)'
             /\ \E level \in [DOMAIN documents' -> Nat] : Levelled(root', pending', documents', level)
  <2> DEFINE queue == <<[url |-> target, depth |-> 0]>>
  <2>1. pending' = queue
    BY <1>4 DEF resolve_schema
  <2>2. DOMAIN queue = {1} /\ queue[1].url = target /\ queue[1].depth = 0
    OBVIOUS
  <2> HIDE DEF queue
  <2>3. InOrder(queue) /\ Urls(queue) = {target}
    BY <2>2 DEF InOrder, Urls
  <2> DEFINE level == [u \in DOMAIN documents' |-> 0]
  <2>4. level \in [DOMAIN documents' -> Nat]
    OBVIOUS
  <2> HIDE DEF level
  <2>5. Reached(queue, documents', level, target, 0)
    BY <2>2 DEF Reached
  <2>6. Levelled(root', pending', documents', level)
    BY <1>2, <1>3, <2>1, <2>5 DEF Levelled
  <2> QED BY <1>2, <2>1, <2>3, <2>4, <2>6
<1> QED BY <1>1, <1>2, <1>3, <1>4 DEF FairInv, Searching

LEMMA FairSkips ==
  ASSUME FairInv, Skip PROVE FairInv'
<1>1. GraphInv' /\ pending \in Seq(Entries)
  BY GraphStep DEF FairInv, SchemaNext, GraphInv, SchemaTypeOK, Entries
<1>2. /\ pending # <<>> /\ pending' = Tail(pending) /\ NextUp.url \in DOMAIN documents
      /\ verdict = "open" /\ UNCHANGED <<root, documents, verdict>>
  BY DEF Skip, Retrieved
<1>3. PICK level \in [DOMAIN documents -> Nat] : Levelled(root, pending, documents, level)
  BY <1>2 DEF FairInv, Searching
<1>4. Urls(Tail(pending)) \subseteq Urls(pending)
  BY <1>1, <1>2, TailUrls
<1>5. /\ InOrder(Tail(pending))
      /\ \A i \in DOMAIN Tail(pending) : \E j \in DOMAIN pending : Tail(pending)[i] = pending[j]
  BY <1>1, <1>2, OrderOfRest DEF FairInv, Searching
<1>6. \A v : \A n \in Nat : Reached(pending, documents, level, v, n)
                              => Reached(Tail(pending), documents, level, v, n)
  BY <1>1, <1>2, <1>3, ReachedWhenSkipped DEF Levelled, NextUp
<1>7. Levelled(root, Tail(pending), documents, level)
  <2>1. \A u \in DOMAIN documents : level[u] + 1 \in Nat
    OBVIOUS
  <2> QED BY <1>3, <1>5, <1>6, <2>1 DEF Levelled
<1>8. \E l \in [DOMAIN documents' -> Nat] : Levelled(root', pending', documents', l)
  <2>1. Levelled(root', pending', documents', level)
    BY <1>2, <1>7 DEF Levelled, Reached
  <2> QED BY <1>2, <2>1
<1>9. Referred' = Referred
  BY <1>2 DEF Referred, References
<1> QED BY <1>1, <1>2, <1>4, <1>5, <1>8, <1>9 DEF FairInv, Searching

\* A document is retrieved at the level it waited at; its references wait one below.
LEMMA FairReceives ==
  ASSUME FairInv, NEW document \in Documents, Receive(document) PROVE FairInv'
<1>0. GraphInv' /\ SchemaTypeOK /\ pending \in Seq(Entries)
  BY GraphStep DEF FairInv, SchemaNext, GraphInv, SchemaTypeOK, Entries
<1>1. CASE Flaw(document) # "none"
  <2>1. verdict' \in {"unsound", "bytes", "insecure"}
    BY <1>1 DEF Receive, Flaw
  <2> QED BY <1>0, <2>1 DEF FairInv, Searching
<1>2. CASE Flaw(document) = "none"
  <2>1. /\ documents' = AfterReceipt(document) /\ UNCHANGED <<root, verdict>>
        /\ Urls(pending) = {NextUp.url} \cup Urls(Tail(pending))
        /\ Urls(pending') = Urls(Tail(pending)) \cup schema_references(document)
    BY <1>0, <1>2, ReceiptQueues
  <2>2. /\ pending # <<>> /\ verdict = "open" /\ NextUp.url \notin DOMAIN documents
        /\ NextUp = Head(pending) /\ ~TooDeep
    BY DEF Receive, Wanted, Retrieved, NextUp
  <2>3. /\ DOMAIN documents' = DOMAIN documents \cup {NextUp.url}
        /\ documents'[NextUp.url] = document
        /\ \A u \in DOMAIN documents : documents'[u] = documents[u]
    BY <2>1, <2>2 DEF AfterReceipt
  <2>4. NextUp.depth \in Nat /\ NextUp.depth \in 0 .. MaximumDepth /\ graph_bytes \in Nat
    <3>1. NextUp \in Entries /\ ~(NextUp.depth > MaximumDepth)
      BY <1>0, <2>2 DEF TooDeep
    <3> QED BY <1>0, <3>1, SchemaAssumption DEF Entries, SchemaTypeOK
  <2>5. PICK found \in Orders(schema_references(document)) : pending' = Queue(Found(found))
    BY <1>2 DEF Receive, Found
  <2> DEFINE more == Found(found)
  <2>6. more \in Seq(Entries) /\ Urls(more) = schema_references(document)
    BY <1>2, <2>4, AcceptedReferences, FoundUrls
  <2>7. \A i \in DOMAIN more : more[i].depth = NextUp.depth + 1
    BY DEF Found
  <2>8. pending' = Tail(pending) \o more
    BY <2>5 DEF Queue
  <2> HIDE DEF more
  <2>9. /\ InOrder(pending')
        /\ \A i \in DOMAIN pending' : NextUp.depth <= pending'[i].depth
    BY <1>0, <2>2, <2>6, <2>7, <2>8, OrderWithMore DEF FairInv, Searching
  <2>10. PICK level \in [DOMAIN documents -> Nat] : Levelled(root, pending, documents, level)
    BY <2>2 DEF FairInv, Searching
  <2> DEFINE after == [u \in DOMAIN documents' |-> IF u = NextUp.url THEN NextUp.depth ELSE level[u]]
  <2>11. /\ after \in [DOMAIN documents' -> Nat] /\ after[NextUp.url] = NextUp.depth
         /\ \A u \in DOMAIN documents : after[u] = level[u]
    BY <2>2, <2>3, <2>4
  <2>12. \A v : \A n \in Nat : Reached(pending, documents, level, v, n)
                                 => Reached(pending', documents', after, v, n)
    <3>1. DOMAIN documents' = DOMAIN documents \cup {Head(pending).url}
      BY <2>2, <2>3
    <3>2. after = [u \in DOMAIN documents' |-> IF u = Head(pending).url THEN Head(pending).depth ELSE level[u]]
      BY <2>2
    <3> HIDE DEF after
    <3> QED BY <1>0, <2>2, <2>6, <2>8, <3>1, <3>2, ReachedWhenReceived
  <2> HIDE DEF after
  <2>13. \A u \in DOMAIN documents' : \A i \in DOMAIN pending' : after[u] <= pending'[i].depth
    <3>1. \A u \in DOMAIN documents : level[u] \in Nat /\ level[u] <= NextUp.depth
      <4>1. 1 \in DOMAIN pending /\ pending[1] = NextUp
        BY <1>0, <2>2
      <4> QED BY <2>10, <4>1 DEF Levelled
    <3>2. \A i \in DOMAIN pending' : pending'[i].depth \in Nat
      <4>1. pending' \in Seq(Entries)
        BY <1>0 DEF GraphInv, SchemaTypeOK, Entries
      <4>2. \A i \in DOMAIN pending' : pending'[i] \in Entries
        BY <4>1
      <4> QED BY <4>2, SchemaAssumption DEF Entries
    <3> QED BY <2>3, <2>4, <2>9, <2>11, <3>1, <3>2
  <2>14. Reached(pending', documents', after, root, 0)
    BY <2>10, <2>12 DEF Levelled
  <2>15. ASSUME NEW u \in DOMAIN documents', NEW r \in schema_references(documents'[u])
         PROVE  Reached(pending', documents', after, r, after[u] + 1)
    <3>1. CASE u = NextUp.url
      <4>1. r \in Urls(more)
        BY <2>3, <2>6, <2>15, <3>1
      <4>2. PICK i \in DOMAIN more : more[i].url = r
        BY <4>1 DEF Urls
      <4> DEFINE rest == Tail(pending)
      <4>3. rest \in Seq(Entries)
        BY <1>0, <2>2
      <4> HIDE DEF rest
      <4>4. Len(rest) + i \in DOMAIN (rest \o more) /\ (rest \o more)[Len(rest) + i] = more[i]
        BY <2>6, <4>3
      <4>5. (rest \o more)[Len(rest) + i].depth <= after[u] + 1
        BY <2>4, <2>7, <2>11, <3>1, <4>4
      <4> QED BY <2>8, <4>2, <4>4, <4>5 DEF Reached, rest
    <3>2. CASE u # NextUp.url
      <4>1. u \in DOMAIN documents /\ r \in schema_references(documents[u])
        BY <2>3, <2>15, <3>2
      <4>2. Reached(pending, documents, level, r, level[u] + 1) /\ level[u] + 1 \in Nat
        BY <2>10, <4>1 DEF Levelled
      <4> QED BY <2>11, <2>12, <4>1, <4>2
    <3> QED BY <3>1, <3>2
  <2>16. Levelled(root', pending', documents', after)
    BY <2>1, <2>13, <2>14, <2>15 DEF Levelled
  <2>17. Referred \subseteq Referred' /\ schema_references(document) \subseteq Referred'
    BY <2>3 DEF Referred, References
  <2>18. Urls(pending') \subseteq {root'} \cup Referred' /\ root' \in DOMAIN documents'
    <3>1. Urls(pending) \subseteq {root} \cup Referred
      BY <2>2 DEF FairInv, Searching
    <3>2. root \in DOMAIN documents'
      <4>1. CASE DOMAIN documents # {}
        BY <2>2, <2>3, <4>1 DEF FairInv, Searching
      <4>2. CASE DOMAIN documents = {}
        <5>1. Referred = {}
          BY <4>2 DEF Referred
        <5> QED BY <2>1, <2>3, <3>1, <5>1
      <4> QED BY <4>1, <4>2
    <3> QED BY <2>1, <2>17, <3>1, <3>2
  <2>19. verdict' = "open"
    BY <2>1, <2>2
  <2> QED BY <1>0, <2>9, <2>11, <2>16, <2>18, <2>19 DEF FairInv, Searching, InOrder, Urls
<1> QED BY <1>1, <1>2

LEMMA FairStep ==
  ASSUME FairInv, [SchemaNext]_schemaVars PROVE FairInv'
<1>1. GraphInv'
  BY GraphStep DEF FairInv
<1>2. ASSUME UNCHANGED <<root, pending, documents>>,
             Searching' => Searching, verdict' \in {"documents", "levels"} => verdict' = verdict
      PROVE  FairInv'
  <2>1. Referred' = Referred /\ TooMany' = TooMany /\ TooDeep' = TooDeep /\ NextUp' = NextUp
    BY <1>2 DEF Referred, References, TooMany, TooDeep, NextUp
  <2> QED BY <1>1, <1>2, <2>1 DEF FairInv, Levelled, Reached, InOrder, Urls, Retrieved
<1>3. CASE Exceed
  <2>1. /\ verdict = "open" /\ pending # <<>> /\ ~Retrieved(NextUp.url)
        /\ UNCHANGED <<root, pending, documents>>
        /\ verdict' \in {"documents", "levels"}
        /\ verdict' = "documents" => TooMany
        /\ verdict' = "levels" => TooDeep
    BY <1>3 DEF Exceed
  <2>2. Referred' = Referred /\ TooMany' = TooMany /\ TooDeep' = TooDeep /\ NextUp' = NextUp
    BY <2>1 DEF Referred, References, TooMany, TooDeep, NextUp
  <2> QED BY <1>1, <2>1, <2>2 DEF FairInv, Searching, Levelled, Reached, InOrder, Urls, Retrieved
<1>4. CASE Fail
  BY <1>2, <1>4 DEF Fail, Searching
<1>5. CASE Prepare
  BY <1>2, <1>5 DEF Prepare, Searching
<1>6. CASE SchemaDone
  BY <1>1, <1>6 DEF SchemaDone, FairInv, Searching
<1>7. CASE UNCHANGED schemaVars
  BY <1>2, <1>7 DEF schemaVars, Searching
<1> QED BY <1>3, <1>4, <1>5, <1>6, <1>7, FairBegins, FairSkips, FairReceives DEF SchemaNext

LEMMA ReferredIsFinite ==
  ASSUME SchemaTypeOK, IsFiniteSet(DOMAIN documents) PROVE IsFiniteSet(Referred)
<1> DEFINE all == {References(u) : u \in DOMAIN documents}
           f   == [u \in DOMAIN documents |-> References(u)]
<1>1. f \in Surjection(DOMAIN documents, all)
  BY DEF Surjection
<1>2. IsFiniteSet(all)
  <2> HIDE DEF f, all
  <2> QED BY <1>1, FS_Surjection
<1>3. \A R \in all : IsFiniteSet(R)
  <2>1. SUFFICES ASSUME NEW u \in DOMAIN documents PROVE IsFiniteSet(References(u))
    OBVIOUS
  <2>2. IsFiniteSet(documents[u].references)
    BY SchemaAssumption DEF SchemaTypeOK
  <2>3. References(u) \subseteq documents[u].references
    BY DEF References, schema_references
  <2> QED BY <2>2, <2>3, FS_Subset
<1> HIDE DEF all
<1>4. IsFiniteSet(UNION all)
  BY <1>2, <1>3, FS_UNION
<1> QED BY <1>4 DEF all, Referred

\* What is refused for the number of its documents refers to one more than may be.
LEMMA TooManyIsFair ==
  ASSUME FairInv, verdict = "documents"
  PROVE  Cardinality(DOMAIN documents \cup Referred) > MaximumDocuments
<1>1. /\ SchemaTypeOK /\ IsFiniteSet(DOMAIN documents) /\ pending \in Seq(Entries)
      /\ pending # <<>> /\ NextUp.url \notin DOMAIN documents
      /\ Cardinality(DOMAIN documents) >= MaximumDocuments
      /\ Urls(pending) \subseteq {root} \cup Referred
      /\ DOMAIN documents # {} => root \in DOMAIN documents
  BY DEF FairInv, GraphInv, Searching, Retrieved, TooMany, SchemaTypeOK, Entries
<1>2. Cardinality(DOMAIN documents) \in Nat /\ MaximumDocuments \in Nat \ {0}
  BY <1>1, FS_CardinalityType, SchemaAssumption
<1>3. DOMAIN documents # {}
  BY <1>1, <1>2, FS_EmptySet
<1>4. NextUp.url \in Referred
  <2>1. NextUp.url \in Urls(pending)
    BY <1>1, TailUrls DEF NextUp
  <2> QED BY <1>1, <1>3, <2>1
<1> DEFINE more == DOMAIN documents \cup {NextUp.url}
           all  == DOMAIN documents \cup Referred
<1>5. IsFiniteSet(all)
  BY <1>1, ReferredIsFinite, FS_Union
<1>6. Cardinality(more) = Cardinality(DOMAIN documents) + 1
  BY <1>1, FS_AddElement
<1>7. more \in SUBSET all
  BY <1>4
<1> HIDE DEF all, more
<1>8. Cardinality(more) <= Cardinality(all) /\ Cardinality(all) \in Nat
  BY <1>5, <1>7, FS_Subset, FS_CardinalityType
<1>9. Cardinality(all) > MaximumDocuments
  BY <1>1, <1>2, <1>6, <1>8
<1> QED BY <1>9 DEF all

\* What is refused for its depth refers to a location that no shorter chain leads to.
LEMMA TooDeepIsFair ==
  ASSUME FairInv, verdict = "levels"
  PROVE  \E u \in DOMAIN documents : ~(References(u) \subseteq Within[MaximumDepth])
<1>1. /\ pending \in Seq(Entries) /\ pending # <<>> /\ NextUp.url \notin DOMAIN documents
      /\ NextUp = Head(pending) /\ NextUp.depth > MaximumDepth
      /\ InOrder(pending) /\ Urls(pending) \subseteq {root} \cup Referred
  BY DEF FairInv, GraphInv, Searching, Retrieved, TooDeep, SchemaTypeOK, Entries, NextUp
<1>2. PICK level \in [DOMAIN documents -> Nat] : Levelled(root, pending, documents, level)
  BY DEF FairInv, Searching
<1>3. MaximumDepth \in Nat /\ MaximumDepth \in 0 .. MaximumDepth /\ 0 \in 0 .. MaximumDepth
  BY SchemaAssumption
<1>4. NextUp.url \in Urls(pending)
  BY <1>1, TailUrls
<1>5. \A n \in 0 .. MaximumDepth : NextUp.url \notin Within[n]
  <2>1. SUFFICES ASSUME NEW n \in 0 .. MaximumDepth, NextUp.url \in Within[n] PROVE FALSE
    OBVIOUS
  <2>2. Reached(pending, documents, level, NextUp.url, n)
    BY <1>1, <1>2, <2>1, WithinIsReached
  <2>3. PICK i \in DOMAIN pending : pending[i].depth <= n
    BY <1>1, <2>2 DEF Reached
  <2>4. NextUp.depth <= pending[i].depth
    BY <1>1, OrderOfRest
  <2>5. pending[i].depth \in Nat /\ NextUp.depth \in Nat
    <3>1. pending[i] \in Entries /\ NextUp \in Entries
      BY <1>1
    <3> QED BY <1>3, <3>1 DEF Entries
  <2> QED BY <1>1, <1>3, <2>3, <2>4, <2>5
<1>6. NextUp.url # root
  BY <1>3, <1>5, WithinSteps
<1>7. NextUp.url \in Referred
  BY <1>1, <1>4, <1>6
<1>8. PICK u \in DOMAIN documents : NextUp.url \in References(u)
  BY <1>7 DEF Referred
<1> QED BY <1>3, <1>5, <1>8

\* In the bundle of a whole graph a reference finds what was retrieved for it.
LEMMA BundleFinds ==
  ASSUME GraphInv, verdict = "resolved",
         NEW u \in DOMAIN documents, NEW r \in References(u), ClaimedOnce(documents[r].id)
  PROVE  Alias(r) \in DOMAIN bundle /\ bundle[Alias(r)] = documents[r]
<1> DEFINE id     == documents[r].id
           claims == {v \in DOMAIN documents : documents[v].id = id}
<1>1. r \in DOMAIN documents
  BY GraphImplies DEF ResolvedIsClosed
<1>2. Alias(r) = id /\ id \in DOMAIN bundle /\ bundle[id] = documents[Speaker(id)]
  BY <1>1 DEF Alias, bundle
<1>3. r \in claims
  BY <1>1
<1>4. claims = {r}
  <2>1. IsFiniteSet(DOMAIN documents) /\ claims \in SUBSET (DOMAIN documents)
    BY DEF GraphInv
  <2>2. Cardinality(claims) = 1
    BY DEF ClaimedOnce
  <2> HIDE DEF claims
  <2>3. IsFiniteSet(claims)
    BY <2>1, FS_Subset
  <2> QED BY <1>3, <2>2, <2>3, FS_Singleton
<1>5. Speaker(id) = IF root \in claims THEN root ELSE CHOOSE v \in claims : TRUE
  BY DEF Speaker
<1> HIDE DEF claims
<1>6. Speaker(id) = r
  BY <1>4, <1>5
<1> QED BY <1>2, <1>6

LEMMA FairImplies == FairInv => GraphIsJudgedFairly
  BY TooManyIsFair, TooDeepIsFair, BundleFinds DEF GraphIsJudgedFairly, FairInv, Referred

\* Whatever the documents refer to, in whatever order (schema.rs:36-97,112-164): a graph
\* is refused for its size only when more is referred to than may be, and for its depth
\* only when no shorter chain of references leads to what lies too deep; and in the
\* bundle a reference finds the document retrieved for it, unless another claims its $id.
THEOREM GraphsAreJudgedFairly == SchemaSpec => []GraphIsJudgedFairly
<1>1. SchemaInit => FairInv
  BY FairInitially
<1>2. FairInv /\ [SchemaNext]_schemaVars => FairInv'
  BY FairStep
<1>3. FairInv => GraphIsJudgedFairly
  BY FairImplies
<1> QED BY <1>1, <1>2, <1>3, PTL DEF SchemaSpec
=============================================================================
