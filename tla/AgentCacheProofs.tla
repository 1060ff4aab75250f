-------------------------- MODULE AgentCacheProofs ---------------------------
(***************************************************************************)
(* Theorems about AgentCache, for any number of concurrent calls, any      *)
(* requests, header fields, capacity, versions and clock.                  *)
(***************************************************************************)
EXTENDS AgentCache, FiniteSetTheorems, TLAPS

(***************************************************************************)
(* The steps of MemoryCache, by what they do to the map.                   *)
(***************************************************************************)
(***************************************************************************)
(* What set does to the map, whichever records it removes: the new record  *)
(* is under its key (or, without capacity, nothing changes), and under     *)
(* every other key is what was there, or nothing.                          *)
(***************************************************************************)
LEMMA CacheSetEffect ==
  ASSUME NEW Slots, NEW S, NEW k \in Slots, NEW record \in S,
         cache \in [Slots -> S \cup {None}],
         CacheSet(k, record)
  PROVE  /\ cache' \in [Slots -> S \cup {None}]
         /\ \A x \in Slots : \/ x = k /\ cache'[x] = record
                            \/ cache'[x] \in {cache[x], None}
<1>1. CASE Capacity = 0
  BY <1>1 DEF CacheSet
<1>2. CASE Capacity # 0
  <2>1. PICK E \in Evictions(k) :
          cache' = [x \in DOMAIN cache |->
                      IF x = k THEN record ELSE IF x \in E THEN None ELSE cache[x]]
    BY <1>2 DEF CacheSet
  <2>. QED
    BY <2>1
<1>. QED
  BY <1>1, <1>2

(***************************************************************************)
(* What delete does to the map.                                            *)
(***************************************************************************)
LEMMA CacheDeleteEffect ==
  ASSUME NEW Slots, NEW S, NEW k \in Slots,
         cache \in [Slots -> S \cup {None}],
         CacheDelete(k)
  PROVE  /\ cache' \in [Slots -> S \cup {None}]
         /\ \A x \in Slots : cache'[x] \in {cache[x], None}
BY DEF CacheDelete

(***************************************************************************)
(* The bound on the number of records, with what makes counting possible:  *)
(* the map is finite.                                                      *)
(***************************************************************************)
CapacityInv == IsFiniteSet(Held) /\ CapacityBound

(***************************************************************************)
(* An operation that adds no key keeps the bound.                          *)
(***************************************************************************)
LEMMA NoGrowthKeepsBound ==
  ASSUME CapacityInv, Held' \subseteq Held
  PROVE  CapacityInv'
<1>1. IsFiniteSet(Held') /\ Cardinality(Held') <= Cardinality(Held)
  BY FS_Subset DEF CapacityInv
<1>2. Cardinality(Held') \in Nat /\ Cardinality(Held) \in Nat
  BY <1>1, FS_CardinalityType DEF CapacityInv
<1>. QED
  BY <1>1, <1>2, CapacityAssumption DEF CapacityInv, CapacityBound

(***************************************************************************)
(* delete keeps the bound.                                                 *)
(***************************************************************************)
LEMMA CacheDeleteKeepsBound ==
  ASSUME NEW k, CapacityInv, CacheDelete(k)
  PROVE  CapacityInv'
<1>1. Held' \subseteq Held
  BY DEF Held, CacheDelete
<1>. QED
  BY <1>1, NoGrowthKeepsBound

(***************************************************************************)
(* set makes the room its record takes before it puts it there.            *)
(***************************************************************************)
LEMMA CacheSetKeepsBound ==
  ASSUME NEW k, NEW record, CapacityInv, CacheSet(k, record)
  PROVE  CapacityInv'
<1>1. CASE Capacity = 0
  BY <1>1, NoGrowthKeepsBound DEF CacheSet, Held
<1>2. CASE Capacity # 0
  <2>1. PICK E \in Evictions(k) :
          cache' = [x \in DOMAIN cache |->
                      IF x = k THEN record ELSE IF x \in E THEN None ELSE cache[x]]
    BY <1>2 DEF CacheSet
  <2>2. Held' \subseteq (Held \ E) \cup {k}
    BY <2>1 DEF Held
  <2>3. IsFiniteSet(Held) /\ Cardinality(Held) \in Nat /\ Cardinality(Held) <= Capacity
    BY FS_CardinalityType DEF CapacityInv, CapacityBound
  <2>4. CASE k \in Held
    <3>1. Held' \subseteq Held
      BY <2>2, <2>4
    <3>. QED
      BY <3>1, NoGrowthKeepsBound
  <2>5. CASE k \notin Held /\ ~Full
    <3>1. IsFiniteSet(Held \cup {k}) /\ Cardinality(Held \cup {k}) = Cardinality(Held) + 1
      BY <2>3, <2>5, FS_AddElement
    <3>2. Held' \subseteq Held \cup {k}
      BY <2>2
    <3>3. IsFiniteSet(Held') /\ Cardinality(Held') <= Cardinality(Held) + 1
      BY <3>1, <3>2, FS_Subset
    <3>4. Cardinality(Held') \in Nat /\ Cardinality(Held) < Capacity
      BY <3>3, <2>3, <2>5, FS_CardinalityType, CapacityAssumption DEF Full
    <3>. QED
      BY <3>3, <3>4, <2>3, CapacityAssumption DEF CapacityInv, CapacityBound
  <2>6. CASE k \notin Held /\ Full
    <3>1. E \subseteq Held /\ Cardinality(E) = Cardinality(Held) + 1 - Capacity
      BY <2>6 DEF Evictions
    <3>2. /\ IsFiniteSet(Held \ E)
          /\ Cardinality(Held \ E) = Cardinality(Held) - Cardinality(Held \cap E)
      BY <2>3, FS_Difference
    <3>3. Cardinality(Held \ E) = Capacity - 1
      <4>1. Held \cap E = E
        BY <3>1
      <4>2. Cardinality(Held \ E) = Cardinality(Held) - Cardinality(E)
        BY <4>1, <3>2, Zenon
      <4>. QED
        BY <4>2, <3>1, <2>3, CapacityAssumption, SMT
    <3>4. /\ IsFiniteSet((Held \ E) \cup {k})
          /\ Cardinality((Held \ E) \cup {k}) = Cardinality(Held \ E) + 1
      BY <3>2, <2>6, FS_AddElement
    <3>5. IsFiniteSet(Held') /\ Cardinality(Held') <= Capacity
      BY <3>3, <3>4, <2>2, FS_Subset, CapacityAssumption
    <3>. QED
      BY <3>5 DEF CapacityInv, CapacityBound
  <2>. QED
    BY <2>4, <2>5, <2>6
<1>. QED
  BY <1>1, <1>2

(***************************************************************************)
(* The room set makes, if it makes any, is for one record, under a key the *)
(* full map did not hold.                                                  *)
(***************************************************************************)
LEMMA CacheSetMakesRoom ==
  ASSUME NEW k \in DOMAIN cache, NEW record, record # None, CapacityInv, CacheSet(k, record),
         NEW gone \in Held \ Held'
  PROVE  MakesRoom(gone)
<1>1. PICK E \in Evictions(k) :
        cache' = [x \in DOMAIN cache |->
                    IF x = k THEN record ELSE IF x \in E THEN None ELSE cache[x]]
  BY DEF CacheSet, Held
<1>2. k \in Held' /\ Held' = (Held \ E) \cup {k}
  BY <1>1 DEF Held
<1>3. k \notin Held /\ Full
  <2>1. E # {}
    BY <1>2
  <2>. QED
    BY <1>1, <2>1 DEF Evictions
<1>4. E \subseteq Held /\ Cardinality(E) = Cardinality(Held) + 1 - Capacity
  BY <1>1, <1>3 DEF Evictions
<1>5. Cardinality(E) = 1 /\ IsFiniteSet(E)
  <2>1. Cardinality(Held) \in Nat /\ Cardinality(Held) = Capacity
    BY <1>3, FS_CardinalityType, CapacityAssumption DEF CapacityInv, CapacityBound, Full
  <2>. QED
    BY <1>4, <2>1, FS_Subset, CapacityAssumption DEF CapacityInv
<1>6. PICK e : E = {e}
  BY <1>5, FS_Singleton
<1>7. gone \in E /\ Held \ Held' = E
  BY <1>2, <1>3, <1>4
<1>. QED
  BY <1>2, <1>3, <1>6, <1>7 DEF MakesRoom
-----------------------------------------------------------------------------

(***************************************************************************)
(* Type correctness, by kind of step.                                      *)
(***************************************************************************)
LEMMA KeyType == \A r \in Requests : CacheKey(r) \in Keys
BY DEF Keys

LEMMA LapseType ==
  \A until \in Nat \cup {Absent}, at \in Nat : Lapse(until, at) \in Nat \cup {Absent}
BY DEF Lapse, Absent

(***************************************************************************)
(* Lifetimes are natural numbers: no subtraction of the freshness          *)
(* arithmetic leaves them.                                                 *)
(***************************************************************************)
LEMMA LifetimeType ==
  ASSUME NEW h \in Header, NEW r \in Request, NEW from \in Nat
  PROVE  /\ expiration(h, r.fallback, from) \in Nat
         /\ GrantedUntil(r, h, from) \in Nat \cup {Absent}
         /\ \A record \in Record :
              /\ revalidated_expiration(h, record, r.fallback, from) \in Nat
              /\ ConfirmedUntil(r, h, from, record) \in Nat \cup {Absent}
<1>1. /\ h.maxAge \in Nat \cup {Absent, Unreadable} /\ h.age \in Nat
      /\ h.expires \in Nat \cup {Absent, Unreadable} /\ r.fallback \in Nat
  BY DEF Header, Request
<1>2. /\ expiration(h, r.fallback, from) \in Nat
      /\ GrantedUntil(r, h, from) \in Nat \cup {Absent}
  BY <1>1 DEF expiration, GrantedUntil, Larger, Absent, Unreadable
<1>3. ASSUME NEW record \in Record
      PROVE  from + Larger(record.expires_at - record.stored_at, 0) \in Nat
  BY <1>3 DEF Record, Larger
<1>. QED
  BY <1>2, <1>3 DEF revalidated_expiration, ConfirmedUntil

(***************************************************************************)
(* A grant keeps the history well-typed.                                   *)
(***************************************************************************)
LEMMA GrantType ==
  ASSUME granted \in [Requests -> [Versions -> Nat \cup {Absent}]], now \in Nat,
         NEW r \in Requests, NEW v \in Versions, NEW until \in Nat \cup {Absent},
         Grant(r, v, until)
  PROVE  granted' \in [Requests -> [Versions -> Nat \cup {Absent}]]
<1>1. Lapse(until, now) \in Nat \cup {Absent}
  BY LapseType
<1>2. granted[r] \in [Versions -> Nat \cup {Absent}] /\ granted[r][v] \in Nat \cup {Absent}
  OBVIOUS
<1>3. Larger(granted[r][v], Lapse(until, now)) \in Nat \cup {Absent}
  BY <1>1, <1>2 DEF Larger
<1>. QED
  BY <1>2, <1>3 DEF Grant

(***************************************************************************)
(* A call that ends leaves well-typed state.                               *)
(***************************************************************************)
LEMMA FinishType ==
  ASSUME TypeOK, NEW t \in Tasks, NEW outcome \in Result \cup {None}, Finish(t, outcome),
         cache' \in [Keys -> Record \cup {None}]
  PROVE  TypeOK'
BY DEF TypeOK, Finish

LEMMA AgentAssumptions ==
  /\ \A r \in Requests : r \in Request
  /\ \A h \in Headers : h \in Header
  /\ 1 \in Versions
BY AgentAssumption DEF Versions

(***************************************************************************)
(* The record kept of a representation, and of a revalidated one.          *)
(***************************************************************************)
LEMMA FetchedType ==
  ASSUME TypeOK, NEW t \in Tasks, pc[t] = "answered",
         request[t] \in Requests, answer[t] \in Answer, answer[t].status = "ok"
  PROVE  Fetched(t) \in Record /\ answer[t].body \in Body /\ answer[t].headers \in Header
<1>1. answer[t].body \in Body /\ answer[t].headers \in Headers
  BY DEF Answer
<1>2. answer[t].headers \in Header /\ request[t] \in Request /\ started[t] \in Nat
  BY <1>1, AgentAssumptions DEF TypeOK
<1>3. expiration(answer[t].headers, request[t].fallback, started[t]) \in Nat
  BY <1>2, LifetimeType
<1>4. answer[t].headers.validator \in BOOLEAN
  BY <1>2 DEF Header
<1>. QED
  BY <1>1, <1>2, <1>3, <1>4 DEF Fetched, CallTime, Record

LEMMA RevalidatedType ==
  ASSUME TypeOK, NEW t \in Tasks, pc[t] = "answered", cached[t] \in Record,
         request[t] \in Requests, answer[t] \in Answer, answer[t].status = "notModified"
  PROVE  /\ Revalidated(t) \in Record /\ answer[t].body \in Body
         /\ answer[t].headers \in Header
         /\ Revalidated(t).body = cached[t].body
         /\ Revalidated(t).expires_at = revalidated_expiration(answer[t].headers, cached[t],
                                                              request[t].fallback, started[t])
<1>1. answer[t].body \in Body /\ answer[t].headers \in Headers
  BY DEF Answer
<1>2. answer[t].headers \in Header /\ request[t] \in Request /\ started[t] \in Nat
  BY <1>1, AgentAssumptions DEF TypeOK
<1>3. revalidated_expiration(answer[t].headers, cached[t], request[t].fallback, started[t])
        \in Nat
  BY <1>2, LifetimeType
<1>. QED
  BY <1>1, <1>2, <1>3 DEF Revalidated, CallTime, Record

(***************************************************************************)
(* A call under way has its request, and one that was answered its answer; *)
(* a 304 is given only to a call that holds the record it confirms.        *)
(***************************************************************************)
UnderWay ==
  \A t \in Tasks :
    /\ pc[t] # "idle" => request[t] # None
    /\ pc[t] = "answered" => answer[t] # None
    /\ pc[t] = "answered" /\ answer[t].status = "notModified" =>
         cached[t] # None /\ cached[t].body = answer[t].body

TypeInv == TypeOK /\ UnderWay

LEMMA TypeInvInit == Init => TypeInv
<1>. SUFFICES ASSUME Init PROVE TypeInv
  OBVIOUS
<1>1. TypeOK
  BY AgentAssumptions DEF Init, TypeOK
<1>2. UnderWay
  BY DEF Init, UnderWay
<1>. QED
  BY <1>1, <1>2 DEF TypeInv

LEMMA TypeInvStep == TypeInv /\ [Next]_vars => TypeInv'
<1>. SUFFICES ASSUME TypeInv, [Next]_vars PROVE TypeInv'
  OBVIOUS
<1>. USE DEF TypeInv
<1>1. CASE Tick
  <2>0. now' \in Nat /\ now' = now + 1
    BY <1>1 DEF Tick, TypeOK
  <2>1. granted' \in [Requests -> [Versions -> Nat \cup {Absent}]]
    <3>1. ASSUME NEW r \in Requests, NEW v \in Versions
          PROVE  Lapse(granted[r][v], now + 1) \in Nat \cup {Absent}
      <4>1. granted[r][v] \in Nat \cup {Absent}
        BY DEF TypeOK
      <4>. QED
        BY <4>1, <2>0, LapseType
    <3>. QED
      BY <1>1, <3>1 DEF Tick
  <2>. QED
    BY <1>1, <2>0, <2>1 DEF Tick, TypeOK, UnderWay
<1>2. ASSUME NEW u \in Targets, Publish(u) PROVE TypeInv'
  <2>1. version' \in [Targets -> Versions]
    BY <1>2, AgentAssumption DEF Publish, TypeOK, Versions
  <2>. QED
    BY <1>2, <2>1 DEF Publish, TypeOK, UnderWay
<1>3. ASSUME NEW t \in Tasks, NEW r \in Requests, ServeFresh(t, r) PROVE TypeInv'
  <2> DEFINE record == cache[CacheKey(r)]
             outcome == [freshness |-> "fresh", request |-> r, body |-> record.body,
                         confirmed |-> record.body, at |-> now]
  <2>1. record \in Record
    BY <1>3, KeyType DEF ServeFresh, Usable, TypeOK
  <2>2. record.body \in Body
    BY <2>1 DEF Record
  <2>3. outcome \in Result
    BY <2>2 DEF Result, TypeOK
  <2>4. Finish(t, outcome) /\ cache' = cache
    BY <1>3 DEF ServeFresh
  <2>5. TypeOK'
    BY <2>3, <2>4, FinishType DEF TypeOK
  <2>. QED
    BY <2>4, <2>5 DEF Finish, UnderWay, TypeOK
<1>4. ASSUME NEW t \in Tasks, NEW r \in Requests, Send(t, r) PROVE TypeInv'
  <2>1. cache[CacheKey(r)] \in Record \cup {None} /\ r # None
    BY KeyType, NoneAssumption DEF TypeOK
  <2>. QED
    BY <1>4, <2>1 DEF Send, TypeOK, UnderWay
<1>5. ASSUME NEW t \in Tasks, NEW h \in Headers, OriginAnswers(t, h) PROVE TypeInv'
  <2> DEFINE r == request[t]
             given == [status |-> "ok", body |-> CurrentBody(r), headers |-> h]
  <2>1. r \in Requests /\ r \in Request /\ r.target \in Targets /\ version[r.target] \in Versions
    BY <1>5, AgentAssumptions DEF OriginAnswers, TypeOK, UnderWay, Request
  <2>2. given \in Answer /\ given # None
    BY <2>1, NoneAssumption DEF Answer, CurrentBody, Body
  <2>3. GrantedUntil(r, h, now) \in Nat \cup {Absent}
    BY <2>1, AgentAssumptions, LifetimeType DEF TypeOK
  <2>4. granted' \in [Requests -> [Versions -> Nat \cup {Absent}]]
    BY <1>5, <2>1, <2>3, GrantType DEF OriginAnswers, TypeOK
  <2>. QED
    BY <1>5, <2>2, <2>4 DEF OriginAnswers, Deliver, TypeOK, UnderWay
<1>6. ASSUME NEW t \in Tasks, NEW h \in Headers, OriginConfirms(t, h) PROVE TypeInv'
  <2> DEFINE r == request[t]
             given == [status |-> "notModified", body |-> cached[t].body, headers |-> h]
  <2>1. /\ r \in Requests /\ r \in Request /\ cached[t] \in Record
        /\ cached[t].body \in Body /\ cached[t].body.version \in Versions
    BY <1>6, AgentAssumptions DEF OriginConfirms, TypeOK, UnderWay, Record, Body
  <2>2. given \in Answer /\ given # None
    BY <2>1, NoneAssumption DEF Answer
  <2>3. ConfirmedUntil(r, h, now, cached[t]) \in Nat \cup {Absent}
    BY <2>1, AgentAssumptions, LifetimeType DEF TypeOK
  <2>4. granted' \in [Requests -> [Versions -> Nat \cup {Absent}]]
    BY <1>6, <2>1, <2>3, GrantType DEF OriginConfirms, TypeOK
  <2>. QED
    BY <1>6, <2>1, <2>2, <2>4 DEF OriginConfirms, Deliver, TypeOK, UnderWay
<1>7. ASSUME NEW t \in Tasks, OriginMisanswers(t) PROVE TypeInv'
  <2>1. [status |-> "refused"] \in Answer /\ [status |-> "refused"] # None
    BY NoneAssumption DEF Answer
  <2>. QED
    BY <1>7, <2>1 DEF OriginMisanswers, Deliver, TypeOK, UnderWay
<1>8. ASSUME NEW t \in Tasks, TransportFails(t) \/ ReceiveRefused(t) PROVE TypeInv'
  <2>1. Finish(t, None) /\ cache' = cache
    BY <1>8 DEF TransportFails, ReceiveRefused
  <2>2. TypeOK'
    BY <2>1, FinishType DEF TypeOK
  <2>. QED
    BY <2>1, <2>2 DEF Finish, UnderWay, TypeOK
<1>9. ASSUME NEW t \in Tasks, ReceiveRepresentation(t) PROVE TypeInv'
  <2>1. /\ pc[t] = "answered" /\ request[t] \in Requests
        /\ answer[t] \in Answer /\ answer[t].status = "ok"
    BY <1>9 DEF ReceiveRepresentation, TypeOK, UnderWay
  <2>2. Fetched(t) \in Record /\ answer[t].body \in Body
    BY <2>1, FetchedType
  <2>3. cache' \in [Keys -> Record \cup {None}]
    <3>1. CASE CacheSet(CacheKey(request[t]), Fetched(t))
      BY <3>1, <2>1, <2>2, KeyType, CacheSetEffect DEF TypeOK
    <3>2. CASE CacheDelete(CacheKey(request[t]))
      BY <3>2, <2>1, KeyType, CacheDeleteEffect DEF TypeOK
    <3>. QED
      BY <3>1, <3>2, <1>9 DEF ReceiveRepresentation
  <2>4. Outcome(t, "fetched", answer[t].body) \in Result
    BY <2>1, <2>2 DEF Outcome, Result, TypeOK
  <2>5. TypeOK'
    BY <1>9, <2>3, <2>4, FinishType DEF ReceiveRepresentation
  <2>. QED
    BY <1>9, <2>5 DEF ReceiveRepresentation, Finish, UnderWay, TypeOK
<1>10. ASSUME NEW t \in Tasks, ReceiveNotModified(t) PROVE TypeInv'
  <2>1. /\ pc[t] = "answered" /\ request[t] \in Requests /\ cached[t] \in Record
        /\ answer[t] \in Answer /\ answer[t].status = "notModified"
    BY <1>10 DEF ReceiveNotModified, TypeOK, UnderWay
  <2>2. Revalidated(t) \in Record /\ answer[t].body \in Body /\ Revalidated(t).body \in Body
    <3>1. Revalidated(t) \in Record /\ answer[t].body \in Body
      BY <2>1, RevalidatedType
    <3>. QED
      BY <3>1 DEF Record
  <2>3. cache' \in [Keys -> Record \cup {None}]
    <3>1. CASE CacheSet(CacheKey(request[t]), Revalidated(t))
      BY <3>1, <2>1, <2>2, KeyType, CacheSetEffect DEF TypeOK
    <3>2. CASE CacheDelete(CacheKey(request[t]))
      BY <3>2, <2>1, KeyType, CacheDeleteEffect DEF TypeOK
    <3>. QED
      BY <3>1, <3>2, <1>10 DEF ReceiveNotModified
  <2>4. Outcome(t, "revalidated", Revalidated(t).body) \in Result
    BY <2>1, <2>2 DEF Outcome, Result, TypeOK
  <2>5. TypeOK'
    BY <1>10, <2>3, <2>4, FinishType DEF ReceiveNotModified
  <2>. QED
    BY <1>10, <2>5 DEF ReceiveNotModified, Finish, UnderWay, TypeOK
<1>11. CASE UNCHANGED vars
  BY <1>11 DEF vars, TypeOK, UnderWay
<1>. QED
  BY <1>1, <1>2, <1>3, <1>4, <1>5, <1>6, <1>7, <1>8, <1>9, <1>10, <1>11 DEF Next

(***************************************************************************)
(* Every reachable state is well-typed: lifetimes do not underflow, what   *)
(* calls return and what the cache holds are what the origin can send.     *)
(***************************************************************************)
THEOREM TypeCorrect == Spec => []TypeOK
<1>1. TypeInv => TypeOK
  BY DEF TypeInv
<1>. QED
  BY <1>1, TypeInvInit, TypeInvStep, PTL DEF Spec
-----------------------------------------------------------------------------
(***************************************************************************)
(* The capacity bound.                                                     *)
(***************************************************************************)
LEMMA CapacityInit == Init => CapacityInv
<1>. SUFFICES ASSUME Init PROVE CapacityInv
  OBVIOUS
<1>1. Held = {}
  BY DEF Init, Held
<1>. QED
  BY <1>1, FS_EmptySet, CapacityAssumption DEF CapacityInv, CapacityBound

LEMMA CapacityStep == CapacityInv /\ [Next]_vars => CapacityInv'
<1>. SUFFICES ASSUME CapacityInv, [Next]_vars PROVE CapacityInv'
  OBVIOUS
<1>1. ASSUME UNCHANGED cache PROVE CapacityInv'
  BY <1>1, NoGrowthKeepsBound DEF Held
<1>2. ASSUME NEW t \in Tasks, ReceiveRepresentation(t) PROVE CapacityInv'
  BY <1>2, CacheSetKeepsBound, CacheDeleteKeepsBound DEF ReceiveRepresentation
<1>3. ASSUME NEW t \in Tasks, ReceiveNotModified(t) PROVE CapacityInv'
  BY <1>3, CacheSetKeepsBound, CacheDeleteKeepsBound DEF ReceiveNotModified
<1>. QED
  BY <1>1, <1>2, <1>3 DEF Next, vars, Tick, Publish, ServeFresh, Send, OriginAnswers,
     OriginConfirms, OriginMisanswers, Deliver, TransportFails, ReceiveRefused

(***************************************************************************)
(* However calls interleave, the map never holds more than Capacity        *)
(* records.                                                                *)
(***************************************************************************)
THEOREM CapacityKept == Spec => []CapacityBound
<1>1. CapacityInv => CapacityBound
  BY DEF CapacityInv
<1>. QED
  BY <1>1, CapacityInit, CapacityStep, PTL DEF Spec

(***************************************************************************)
(* No call costs another its record but by deleting that very record, or   *)
(* by storing a new key in a full map, and then one record only.           *)
(***************************************************************************)
LEMMA RoomStep ==
  ASSUME TypeInv, CapacityInv, [Next]_vars, cache' # cache,
         NEW gone \in Held \ Held'
  PROVE  OnlyRemoves(gone) \/ MakesRoom(gone)
<1>1. DOMAIN cache = Keys
  BY DEF TypeInv, TypeOK
<1>2. ASSUME NEW k \in Keys, CacheDelete(k) PROVE OnlyRemoves(gone)
  <2>1. gone = k
    BY <1>1, <1>2 DEF CacheDelete, Held
  <2>. QED
    BY <1>2, <2>1 DEF CacheDelete, OnlyRemoves
<1>3. PICK t \in Tasks : ReceiveRepresentation(t) \/ ReceiveNotModified(t)
  BY DEF Next, vars, Tick, Publish, ServeFresh, Send, OriginAnswers, OriginConfirms,
     OriginMisanswers, Deliver, TransportFails, ReceiveRefused
<1>4. request[t] \in Requests /\ CacheKey(request[t]) \in Keys
  BY <1>3, KeyType DEF ReceiveRepresentation, ReceiveNotModified, TypeInv, TypeOK, UnderWay
<1>5. CASE ReceiveRepresentation(t)
  <2>1. Fetched(t) \in Record
    BY <1>4, <1>5, FetchedType DEF ReceiveRepresentation, TypeInv, TypeOK, UnderWay
  <2>2. Fetched(t) # None
    BY <2>1, NoneAssumption
  <2>. QED
    BY <1>1, <1>2, <1>4, <1>5, <2>2, CacheSetMakesRoom DEF ReceiveRepresentation
<1>6. CASE ReceiveNotModified(t)
  <2>1. /\ pc[t] = "answered" /\ answer[t] \in Answer /\ answer[t].status = "notModified"
        /\ cached[t] \in Record
    BY <1>6 DEF ReceiveNotModified, TypeInv, TypeOK, UnderWay
  <2>2. Revalidated(t) \in Record
    BY <1>4, <2>1, RevalidatedType DEF TypeInv
  <2>3. Revalidated(t) # None
    BY <2>2, NoneAssumption
  <2>. QED
    BY <1>1, <1>2, <1>4, <1>6, <2>3, CacheSetMakesRoom DEF ReceiveNotModified
<1>. QED
  BY <1>3, <1>5, <1>6

(***************************************************************************)
(* So however calls interleave, the map stays within its bound, and what   *)
(* leaves it was deleted or gave way to a new key in a full map.           *)
(***************************************************************************)
THEOREM RoomMadeWhenNeeded == Spec => RoomIsMade
<1> DEFINE Step == /\ CapacityBound'
                   /\ \A gone \in Held \ Held' : OnlyRemoves(gone) \/ MakesRoom(gone)
<1>1. TypeInv /\ CapacityInv /\ [Next]_vars => [Step]_cache
  <2>. SUFFICES ASSUME TypeInv, CapacityInv, [Next]_vars, cache' # cache PROVE Step
    OBVIOUS
  <2>1. CapacityBound'
    BY CapacityStep DEF CapacityInv
  <2>. QED
    BY <2>1, RoomStep
<1>2. TypeInv /\ [Next]_vars => TypeInv'
  BY TypeInvStep
<1>. QED
  BY <1>1, <1>2, TypeInvInit, CapacityInit, CapacityStep, PTL DEF Spec, RoomIsMade
-----------------------------------------------------------------------------
(***************************************************************************)
(* Freshness.  Two hypotheses delimit it.  Clients that share a cache      *)
(* partition share their fallbacks, since a supporting resource's key,     *)
(* unlike that of request_cached, leaves the fallback out; and a max-age   *)
(* or an Expires field that decides can be read (the run AgentCacheExpires *)
(* shows what happens otherwise).                                          *)
(***************************************************************************)
SharedFallbacks ==
  \A q, r \in Requests :
    r.class # "odp" /\ Selector(q) = Selector(r) => q.fallback = r.fallback

ReadableLifetimes ==
  \A h \in Headers :
    \/ h.noStore \/ h.noCache \/ h.maxAge \in Nat
    \/ h.maxAge = Absent /\ h.expires # Unreadable

(***************************************************************************)
(* Under the first, a key belongs to one request.                          *)
(***************************************************************************)
LEMMA KeyDistinguishes ==
  ASSUME SharedFallbacks, NEW q \in Requests, NEW r \in Requests, CacheKey(q) = CacheKey(r)
  PROVE  q = r
<1>1. q \in Request /\ r \in Request
  BY AgentAssumptions
<1>2. Selector(q) = Selector(r) /\ q.fallback = r.fallback
  <2>1. CASE q.class = "odp" /\ r.class = "odp"
    BY <2>1 DEF CacheKey
  <2>2. CASE q.class # "odp" /\ r.class # "odp"
    <3>1. Selector(q) = Selector(r)
      BY <2>2 DEF CacheKey
    <3>. QED
      BY <3>1, <2>2 DEF SharedFallbacks
  <2>3. ASSUME NEW x \in Requests, NEW y \in Requests, x.class = "odp", y.class # "odp"
        PROVE  CacheKey(x) # CacheKey(y)
    BY <2>3 DEF CacheKey
  <2>. QED
    BY <2>1, <2>2, <2>3
<1>3. /\ q.partition = r.partition /\ q.class = r.class /\ q.method = r.method
      /\ q.target = r.target /\ q.language = r.language /\ q.body = r.body
  BY <1>2 DEF Selector
<1>. QED
  BY <1>1, <1>2, <1>3 DEF Request

(***************************************************************************)
(* The agent, who counts from when it asked, never reckons with more than  *)
(* the origin granted, counting from when it answered.                     *)
(***************************************************************************)
LEMMA ExpirationWithinGrant ==
  ASSUME ReadableLifetimes, NEW h \in Headers, NEW r \in Requests,
         NEW from \in Nat, NEW at \in Nat, from <= at, h.vary, ~h.noStore
  PROVE  /\ GrantedUntil(r, h, at) \in Nat
         /\ expiration(h, r.fallback, from) <= GrantedUntil(r, h, at)
<1>1. /\ h.maxAge \in Nat \cup {Absent, Unreadable} /\ h.age \in Nat
      /\ h.expires \in Nat \cup {Absent, Unreadable} /\ r.fallback \in Nat
  BY AgentAssumptions DEF Header, Request
<1>2. h.noCache \/ h.maxAge \in Nat \/ (h.maxAge = Absent /\ h.expires # Unreadable)
  BY DEF ReadableLifetimes
<1>. QED
  BY <1>1, <1>2 DEF expiration, GrantedUntil, Larger, Absent, Unreadable

LEMMA RevalidationWithinGrant ==
  ASSUME ReadableLifetimes, NEW h \in Headers, NEW r \in Requests, NEW record \in Record,
         NEW from \in Nat, NEW at \in Nat, from <= at, h.vary, ~h.noStore
  PROVE  /\ ConfirmedUntil(r, h, at, record) \in Nat
         /\ revalidated_expiration(h, record, r.fallback, from)
              <= ConfirmedUntil(r, h, at, record)
<1>1. CASE has_freshness(h)
  BY <1>1, ExpirationWithinGrant DEF revalidated_expiration, ConfirmedUntil
<1>2. CASE ~has_freshness(h)
  BY <1>2 DEF revalidated_expiration, ConfirmedUntil, Record, Larger
<1>. QED
  BY <1>1, <1>2

(***************************************************************************)
(* What a step does to grants: it may add to them, or let the clock pass   *)
(* them.                                                                   *)
(***************************************************************************)
StillCovered ==
  \A r \in Requests, v \in Versions, until \in Nat :
    Covered(r, v, until)
      => granted'[r][v] # Absent /\ (until <= now' \/ until <= granted'[r][v])

LEMMA GrantStillCovers ==
  ASSUME TypeOK, NEW r \in Requests, NEW v \in Versions, NEW until \in Nat \cup {Absent},
         Grant(r, v, until), now' = now
  PROVE  StillCovered
<1>1. Lapse(until, now) \in Nat \cup {Absent}
  BY LapseType DEF TypeOK
<1>2. ASSUME NEW q \in Requests, NEW w \in Versions
      PROVE  /\ granted[q][w] \in Nat \cup {Absent}
             /\ granted'[q][w] \in {granted[q][w], Larger(granted[q][w], Lapse(until, now))}
  <2>1. granted[q] \in [Versions -> Nat \cup {Absent}]
    BY DEF TypeOK
  <2>. QED
    BY <2>1 DEF Grant, TypeOK
<1>3. ASSUME NEW q \in Requests, NEW w \in Versions, NEW x \in Nat, Covered(q, w, x)
      PROVE  granted'[q][w] # Absent /\ (x <= now' \/ x <= granted'[q][w])
  <2>1. now \in Nat
    BY DEF TypeOK
  <2>. QED
    BY <1>1, <1>2, <1>3, <2>1 DEF Covered, Larger, Absent
<1>. QED
  BY <1>3 DEF StillCovered

LEMMA GrantCovers ==
  ASSUME TypeOK, NEW r \in Requests, NEW v \in Versions, NEW limit \in Nat,
         Grant(r, v, limit), now' = now, NEW until \in Nat, until <= limit
  PROVE  granted'[r][v] # Absent /\ (until <= now' \/ until <= granted'[r][v])
<1>1. granted[r] \in [Versions -> Nat \cup {Absent}] /\ granted[r][v] \in Nat \cup {Absent}
  BY DEF TypeOK
<1>2. granted'[r][v] = Larger(granted[r][v], Lapse(limit, now))
  BY <1>1 DEF Grant, TypeOK
<1>3. now \in Nat
  BY DEF TypeOK
<1>. QED
  BY <1>1, <1>2, <1>3 DEF Lapse, Larger, Absent

LEMMA TickStillCovers ==
  ASSUME TypeOK, Tick
  PROVE  StillCovered
<1>1. ASSUME NEW r \in Requests, NEW v \in Versions, NEW until \in Nat, Covered(r, v, until)
      PROVE  granted'[r][v] # Absent /\ (until <= now' \/ until <= granted'[r][v])
  <2>1. granted[r][v] \in Nat \cup {Absent} /\ now \in Nat /\ now' = now + 1
    BY DEF TypeOK, Tick
  <2>2. granted'[r][v] = Lapse(granted[r][v], now + 1)
    BY DEF Tick
  <2>. QED
    BY <1>1, <2>1, <2>2 DEF Covered, Lapse, Absent
<1>. QED
  BY <1>1 DEF StillCovered

(***************************************************************************)
(* What a call under way has: it began no later than now, it cloned a      *)
(* record of its own request, and the record that its answer would make    *)
(* is one the origin granted.                                              *)
(***************************************************************************)
CallWithinGrant(t) ==
  /\ pc[t] # "idle" =>
       /\ started[t] <= now
       /\ cached[t] # None => cached[t].body.selector = Selector(request[t])
  /\ pc[t] = "answered" /\ answer[t].status = "ok" =>
       /\ answer[t].body.selector = Selector(request[t])
       /\ cacheable(request[t], answer[t].headers) =>
            Covered(request[t], answer[t].body.version,
                    expiration(answer[t].headers, request[t].fallback, started[t]))
  /\ pc[t] = "answered" /\ answer[t].status = "notModified" /\ ~answer[t].headers.noStore =>
            Covered(request[t], answer[t].body.version,
                    revalidated_expiration(answer[t].headers, cached[t],
                                           request[t].fallback, started[t]))

FreshInv ==
  /\ TypeInv
  /\ HeldWithinGrant
  /\ \A t \in Tasks : CallWithinGrant(t)

(***************************************************************************)
(* A step of others leaves a call what it has, and the cache what it       *)
(* holds.                                                                  *)
(***************************************************************************)
SameCall(t) ==
  /\ pc'[t] = pc[t] /\ request'[t] = request[t] /\ started'[t] = started[t]
  /\ cached'[t] = cached[t] /\ answer'[t] = answer[t]

LEMMA OthersKeepCall ==
  ASSUME TypeInv, NEW t \in Tasks, CallWithinGrant(t), SameCall(t), StillCovered,
         now' \in Nat, now <= now'
  PROVE  CallWithinGrant(t)'
<1>1. CASE pc[t] = "idle"
  BY <1>1 DEF CallWithinGrant, SameCall
<1>2. CASE pc[t] # "idle"
  <2>1. request[t] \in Requests /\ request[t] \in Request
    BY <1>2, AgentAssumptions DEF TypeInv, TypeOK, UnderWay
  <2>2. /\ started[t] \in Nat /\ now \in Nat
        /\ pc[t] = "answered" => answer[t] \in Answer
    BY DEF TypeInv, TypeOK, UnderWay
  <2>3. started'[t] <= now'
    BY <1>2, <2>2 DEF CallWithinGrant, SameCall
  <2>4. CASE pc[t] = "answered" /\ answer[t].status = "ok"
    <3>1. answer[t].headers \in Header /\ answer[t].body.version \in Versions
      BY <2>2, <2>4, AgentAssumptions DEF Answer, Body
    <3>2. expiration(answer[t].headers, request[t].fallback, started[t]) \in Nat
      BY <2>1, <2>2, <3>1, LifetimeType
    <3>3. ASSUME cacheable(request[t], answer[t].headers)
          PROVE  Covered(request[t], answer[t].body.version,
                   expiration(answer[t].headers, request[t].fallback, started[t]))'
      <4>1. Covered(request[t], answer[t].body.version,
                   expiration(answer[t].headers, request[t].fallback, started[t]))
        BY <2>4, <3>3 DEF CallWithinGrant
      <4>. QED
        BY <4>1, <2>1, <3>1, <3>2 DEF StillCovered, Covered, SameCall
    <3>. QED
      BY <1>2, <2>3, <2>4, <3>3 DEF CallWithinGrant, SameCall
  <2>5. CASE pc[t] = "answered" /\ answer[t].status = "notModified"
    <3>1. /\ answer[t].headers \in Header /\ answer[t].body.version \in Versions
          /\ cached[t] \in Record
      BY <2>2, <2>5, AgentAssumptions DEF Answer, Body, TypeInv, TypeOK, UnderWay
    <3>2. revalidated_expiration(answer[t].headers, cached[t], request[t].fallback, started[t])
            \in Nat
      BY <2>1, <2>2, <3>1, LifetimeType
    <3>3. ASSUME ~answer[t].headers.noStore
          PROVE  Covered(request[t], answer[t].body.version,
                   revalidated_expiration(answer[t].headers, cached[t],
                                          request[t].fallback, started[t]))'
      <4>1. Covered(request[t], answer[t].body.version,
                   revalidated_expiration(answer[t].headers, cached[t],
                                          request[t].fallback, started[t]))
        BY <2>5, <3>3 DEF CallWithinGrant
      <4>. QED
        BY <4>1, <2>1, <3>1, <3>2 DEF StillCovered, Covered, SameCall
    <3>. QED
      BY <1>2, <2>3, <2>5, <3>3 DEF CallWithinGrant, SameCall
  <2>6. CASE ~(pc[t] = "answered" /\ answer[t].status \in {"ok", "notModified"})
    BY <1>2, <2>3, <2>6 DEF CallWithinGrant, SameCall
  <2>. QED
    BY <2>4, <2>5, <2>6
<1>. QED
  BY <1>1, <1>2

LEMMA UntouchedCacheWithinGrant ==
  ASSUME TypeInv, HeldWithinGrant, StillCovered, cache' = cache
  PROVE  HeldWithinGrant'
<1>1. ASSUME NEW r \in Requests, cache[CacheKey(r)] # None
      PROVE  LET record == cache[CacheKey(r)] IN
             /\ record.body.selector = Selector(r)
             /\ granted'[r][record.body.version] # Absent
             /\ \/ record.expires_at <= now'
                \/ record.expires_at <= granted'[r][record.body.version]
  <2>1. cache[CacheKey(r)] \in Record
    BY <1>1, KeyType DEF TypeInv, TypeOK
  <2>2. cache[CacheKey(r)].body.version \in Versions /\ cache[CacheKey(r)].expires_at \in Nat
    BY <2>1 DEF Record, Body
  <2>. QED
    BY <1>1, <2>2 DEF HeldWithinGrant, StillCovered
<1>2. \A r \in Requests : CacheKey(r)' = CacheKey(r) /\ Selector(r)' = Selector(r)
  BY DEF CacheKey, Selector
<1>. QED
  BY <1>1, <1>2 DEF HeldWithinGrant, Covered

(***************************************************************************)
(* A step of a call that writes its record keeps the cache within grants.  *)
(***************************************************************************)
LEMMA WrittenCacheWithinGrant ==
  ASSUME SharedFallbacks, TypeInv, HeldWithinGrant, granted' = granted, now' = now,
         NEW q \in Requests, NEW record \in Record,
         record.body.selector = Selector(q),
         Covered(q, record.body.version, record.expires_at),
         \A x \in Keys : \/ x = CacheKey(q) /\ cache'[x] = record
                         \/ cache'[x] \in {cache[x], None}
  PROVE  HeldWithinGrant'
<1>1. ASSUME NEW r \in Requests, cache'[CacheKey(r)] # None
      PROVE  LET held == cache'[CacheKey(r)] IN
             /\ held.body.selector = Selector(r)
             /\ Covered(r, held.body.version, held.expires_at)
  <2>1. CacheKey(r) \in Keys
    BY KeyType
  <2>2. CASE CacheKey(r) = CacheKey(q) /\ cache'[CacheKey(r)] = record
    BY <2>2, KeyDistinguishes
  <2>3. CASE cache'[CacheKey(r)] = cache[CacheKey(r)]
    BY <1>1, <2>3 DEF HeldWithinGrant
  <2>. QED
    BY <1>1, <2>1, <2>2, <2>3
<1>. QED
  BY <1>1 DEF HeldWithinGrant, Covered

LEMMA FreshInvInit == Init => FreshInv
<1>. SUFFICES ASSUME Init PROVE FreshInv
  OBVIOUS
<1>1. HeldWithinGrant
  BY KeyType DEF Init, HeldWithinGrant
<1>2. \A t \in Tasks : CallWithinGrant(t)
  BY DEF Init, CallWithinGrant
<1>. QED
  BY <1>1, <1>2, TypeInvInit DEF FreshInv

(***************************************************************************)
(* A call that finishes has nothing left, and others keep what they have.  *)
(***************************************************************************)
LEMMA FinishKeepsCalls ==
  ASSUME FreshInv, NEW t \in Tasks, NEW outcome, Finish(t, outcome)
  PROVE  \A s \in Tasks : CallWithinGrant(s)'
<1>1. StillCovered /\ now' = now /\ now' \in Nat /\ now <= now'
  BY DEF Finish, StillCovered, Covered, FreshInv, TypeInv, TypeOK
<1>2. ASSUME NEW s \in Tasks PROVE CallWithinGrant(s)'
  <2>1. CASE s = t
    <3>1. pc'[s] = "idle"
      BY <2>1 DEF Finish, FreshInv, TypeInv, TypeOK
    <3>. QED
      BY <3>1 DEF CallWithinGrant
  <2>2. CASE s # t
    <3>1. SameCall(s)
      BY <2>2 DEF Finish, SameCall, FreshInv, TypeInv, TypeOK
    <3>. QED
      BY <3>1, <1>1, OthersKeepCall DEF FreshInv
  <2>. QED
    BY <2>1, <2>2
<1>. QED
  BY <1>2

LEMMA FreshInvStep ==
  ASSUME SharedFallbacks, ReadableLifetimes, FreshInv, [Next]_vars
  PROVE  FreshInv'
<1>1. TypeInv /\ TypeInv' /\ HeldWithinGrant /\ \A t \in Tasks : CallWithinGrant(t)
  BY TypeInvStep DEF FreshInv
<1>2. now \in Nat /\ now' \in Nat
  BY <1>1 DEF TypeInv, TypeOK
<1>3. ASSUME StillCovered, now <= now', cache' = cache,
             \A t \in Tasks : SameCall(t)
      PROVE  FreshInv'
  BY <1>1, <1>2, <1>3, OthersKeepCall, UntouchedCacheWithinGrant DEF FreshInv
<1>4. CASE Tick
  BY <1>1, <1>2, <1>3, <1>4, TickStillCovers DEF Tick, SameCall, TypeInv
<1>5. ASSUME granted' = granted, now' = now PROVE StillCovered /\ now <= now'
  BY <1>2, <1>5 DEF StillCovered, Covered
<1>6. ASSUME NEW u \in Targets, Publish(u) PROVE FreshInv'
  BY <1>3, <1>5, <1>6 DEF Publish, SameCall
<1>7. ASSUME NEW t \in Tasks, NEW outcome, Finish(t, outcome), cache' = cache
      PROVE  FreshInv'
  <2>1. HeldWithinGrant'
    BY <1>1, <1>5, <1>7, UntouchedCacheWithinGrant DEF Finish
  <2>. QED
    BY <1>1, <1>7, <2>1, FinishKeepsCalls DEF FreshInv
<1>8. ASSUME NEW t \in Tasks, NEW r \in Requests, ServeFresh(t, r) PROVE FreshInv'
  BY <1>7, <1>8 DEF ServeFresh
<1>9. ASSUME NEW t \in Tasks, TransportFails(t) \/ ReceiveRefused(t) PROVE FreshInv'
  BY <1>7, <1>9 DEF TransportFails, ReceiveRefused
<1>10. ASSUME NEW t \in Tasks, StillCovered, now' = now, cache' = cache, CallWithinGrant(t)',
              \A s \in Tasks \ {t} : SameCall(s)
       PROVE  FreshInv'
  <2>1. now <= now'
    BY <1>2, <1>10
  <2>2. ASSUME NEW s \in Tasks PROVE CallWithinGrant(s)'
    BY <1>1, <1>2, <1>10, <2>1, OthersKeepCall
  <2>. QED
    BY <1>1, <1>10, <2>2, UntouchedCacheWithinGrant DEF FreshInv
<1>11. ASSUME NEW t \in Tasks, NEW r \in Requests, Send(t, r) PROVE FreshInv'
  <2>1. \A s \in Tasks \ {t} : SameCall(s)
    BY <1>1, <1>11 DEF Send, SameCall, TypeInv, TypeOK
  <2>2. /\ pc'[t] = "sent" /\ started'[t] = now /\ now' = now /\ request'[t] = r
        /\ cached'[t] = cache[CacheKey(r)]
    BY <1>1, <1>11 DEF Send, TypeInv, TypeOK
  <2>3. CallWithinGrant(t)'
    BY <1>1, <1>2, <2>2 DEF CallWithinGrant, HeldWithinGrant, Selector
  <2>. QED
    BY <1>5, <1>10, <1>11, <2>1, <2>3 DEF Send
<1>12. ASSUME NEW t \in Tasks, OriginMisanswers(t) PROVE FreshInv'
  <2>1. \A s \in Tasks \ {t} : SameCall(s)
    BY <1>1, <1>12 DEF OriginMisanswers, Deliver, SameCall, TypeInv, TypeOK
  <2>2. /\ pc[t] = "sent" /\ started'[t] = started[t] /\ now' = now
        /\ request'[t] = request[t] /\ cached'[t] = cached[t]
        /\ answer'[t] = [status |-> "refused"]
    BY <1>1, <1>12 DEF OriginMisanswers, Deliver, TypeInv, TypeOK
  <2>3. CallWithinGrant(t)'
    BY <1>1, <2>2 DEF CallWithinGrant, Selector
  <2>. QED
    BY <1>5, <1>10, <1>12, <2>1, <2>3 DEF OriginMisanswers, Deliver
<1>13. ASSUME NEW t \in Tasks, NEW h \in Headers, OriginAnswers(t, h) PROVE FreshInv'
  <2> DEFINE r == request[t]
  <2>1. \A s \in Tasks \ {t} : SameCall(s)
    BY <1>1, <1>13 DEF OriginAnswers, Deliver, SameCall, TypeInv, TypeOK
  <2>2. /\ pc[t] = "sent" /\ started'[t] = started[t] /\ now' = now
        /\ request'[t] = r /\ cached'[t] = cached[t] /\ cache' = cache
        /\ answer'[t] = [status |-> "ok", body |-> CurrentBody(r), headers |-> h]
    BY <1>1, <1>13 DEF OriginAnswers, Deliver, TypeInv, TypeOK
  <2>3. /\ r \in Requests /\ r \in Request /\ version[r.target] \in Versions
        /\ started[t] \in Nat /\ started[t] <= now /\ h \in Header
        /\ cached[t] # None => cached[t].body.selector = Selector(r)
    <3>1. r \in Requests /\ r \in Request
      BY <1>1, <2>2, AgentAssumptions DEF TypeInv, TypeOK, UnderWay
    <3>2. r.target \in Targets
      BY <3>1 DEF Request
    <3>. QED
      BY <1>1, <2>2, <3>1, <3>2, AgentAssumptions DEF TypeInv, TypeOK, CallWithinGrant
  <2>4. Grant(r, version[r.target], GrantedUntil(r, h, now))
    BY <1>13 DEF OriginAnswers
  <2>5. GrantedUntil(r, h, now) \in Nat \cup {Absent}
    BY <1>2, <2>3, LifetimeType
  <2>6. StillCovered
    BY <1>1, <2>2, <2>3, <2>4, <2>5, GrantStillCovers DEF TypeInv
  <2>7. ASSUME cacheable(r, h)
        PROVE  LET until == expiration(h, r.fallback, started[t]) IN
               /\ granted'[r][version[r.target]] # Absent
               /\ until <= now' \/ until <= granted'[r][version[r.target]]
    <3>1. h.vary /\ ~h.noStore
      BY <2>7 DEF cacheable
    <3>2. /\ GrantedUntil(r, h, now) \in Nat
          /\ expiration(h, r.fallback, started[t]) <= GrantedUntil(r, h, now)
      BY <1>2, <2>3, <3>1, ExpirationWithinGrant
    <3>3. expiration(h, r.fallback, started[t]) \in Nat
      BY <2>3, LifetimeType
    <3>. QED
      BY <1>1, <2>2, <2>3, <2>4, <3>2, <3>3, GrantCovers DEF TypeInv
  <2>8. CallWithinGrant(t)'
    <3>1. /\ answer'[t].status = "ok" /\ answer'[t].headers = h
          /\ answer'[t].body.version = version[r.target]
          /\ answer'[t].body.selector = Selector(r)
      BY <2>2 DEF CurrentBody
    <3>2. started'[t] <= now' /\ (cached'[t] # None => cached'[t].body.selector = Selector(r))
      BY <2>2, <2>3
    <3>. QED
      BY <2>2, <2>7, <3>1, <3>2 DEF CallWithinGrant, Covered, Selector
  <2>. QED
    BY <1>10, <2>1, <2>2, <2>6, <2>8
<1>14. ASSUME NEW t \in Tasks, NEW h \in Headers, OriginConfirms(t, h) PROVE FreshInv'
  <2> DEFINE r == request[t]
  <2>1. \A s \in Tasks \ {t} : SameCall(s)
    BY <1>1, <1>14 DEF OriginConfirms, Deliver, SameCall, TypeInv, TypeOK
  <2>2. /\ pc[t] = "sent" /\ started'[t] = started[t] /\ now' = now
        /\ request'[t] = r /\ cached'[t] = cached[t] /\ cache' = cache
        /\ answer'[t] = [status |-> "notModified", body |-> cached[t].body, headers |-> h]
        /\ cached[t] # None /\ h.vary
    BY <1>1, <1>14 DEF OriginConfirms, Deliver, TypeInv, TypeOK
  <2>3. /\ r \in Requests /\ r \in Request
        /\ started[t] \in Nat /\ started[t] <= now /\ h \in Header
        /\ cached[t] \in Record /\ cached[t].body.selector = Selector(r)
        /\ cached[t].body.version \in Versions
    <3>1. r \in Requests /\ r \in Request
      BY <1>1, <2>2, AgentAssumptions DEF TypeInv, TypeOK, UnderWay
    <3>2. cached[t] \in Record /\ cached[t].body.version \in Versions
      BY <1>1, <2>2 DEF TypeInv, TypeOK, Record, Body
    <3>. QED
      BY <1>1, <2>2, <3>1, <3>2, AgentAssumptions DEF TypeInv, TypeOK, CallWithinGrant
  <2>4. Grant(r, cached[t].body.version, ConfirmedUntil(r, h, now, cached[t]))
    BY <1>14 DEF OriginConfirms
  <2>5. ConfirmedUntil(r, h, now, cached[t]) \in Nat \cup {Absent}
    BY <1>2, <2>3, LifetimeType
  <2>6. StillCovered
    BY <1>1, <2>2, <2>3, <2>4, <2>5, GrantStillCovers DEF TypeInv
  <2>7. ASSUME ~h.noStore
        PROVE  LET until == revalidated_expiration(h, cached[t], r.fallback, started[t]) IN
               /\ granted'[r][cached[t].body.version] # Absent
               /\ until <= now' \/ until <= granted'[r][cached[t].body.version]
    <3>1. /\ ConfirmedUntil(r, h, now, cached[t]) \in Nat
          /\ revalidated_expiration(h, cached[t], r.fallback, started[t])
               <= ConfirmedUntil(r, h, now, cached[t])
      BY <1>2, <2>2, <2>3, <2>7, RevalidationWithinGrant
    <3>2. revalidated_expiration(h, cached[t], r.fallback, started[t]) \in Nat
      BY <2>3, LifetimeType
    <3>. QED
      BY <1>1, <2>2, <2>3, <2>4, <3>1, <3>2, GrantCovers DEF TypeInv
  <2>8. CallWithinGrant(t)'
    <3>1. /\ answer'[t].status = "notModified" /\ answer'[t].headers = h
          /\ answer'[t].body = cached[t].body
      BY <2>2
    <3>2. started'[t] <= now' /\ cached'[t].body.selector = Selector(r)
      BY <2>2, <2>3
    <3>. QED
      BY <2>2, <2>7, <3>1, <3>2 DEF CallWithinGrant, Covered, Selector
  <2>. QED
    BY <1>10, <2>1, <2>2, <2>6, <2>8
<1>15. ASSUME NEW t \in Tasks, ReceiveRepresentation(t) PROVE FreshInv'
  <2> DEFINE r == request[t]
  <2>1. /\ pc[t] = "answered" /\ r \in Requests /\ r \in Request /\ started[t] \in Nat
        /\ answer[t] \in Answer /\ answer[t].status = "ok" /\ CacheKey(r) \in Keys
    BY <1>1, <1>15, AgentAssumptions, KeyType DEF ReceiveRepresentation, TypeInv, TypeOK, UnderWay
  <2>2. granted' = granted /\ now' = now
    BY <1>15 DEF ReceiveRepresentation, Finish
  <2>3. Fetched(t) \in Record
    BY <1>1, <2>1, FetchedType DEF TypeInv
  <2>4. HeldWithinGrant'
    <3>1. CASE cacheable(r, answer[t].headers)
      <4>1. /\ Fetched(t).body.selector = Selector(r)
            /\ Covered(r, Fetched(t).body.version, Fetched(t).expires_at)
        BY <1>1, <2>1, <3>1 DEF CallWithinGrant, Fetched, CallTime
      <4>2. CacheSet(CacheKey(r), Fetched(t))
        BY <1>15, <3>1 DEF ReceiveRepresentation
      <4>3. \A x \in Keys : \/ x = CacheKey(r) /\ cache'[x] = Fetched(t)
                            \/ cache'[x] \in {cache[x], None}
        BY <1>1, <2>1, <2>3, <4>2, CacheSetEffect DEF TypeInv, TypeOK
      <4>. QED
        BY <1>1, <2>1, <2>2, <2>3, <4>1, <4>3, WrittenCacheWithinGrant
    <3>2. CASE ~cacheable(r, answer[t].headers)
      <4>1. CacheDelete(CacheKey(r))
        BY <1>15, <3>2 DEF ReceiveRepresentation
      <4>2. \A x \in Keys : cache'[x] \in {cache[x], None}
        BY <1>1, <2>1, <4>1, CacheDeleteEffect DEF TypeInv, TypeOK
      <4>. QED
        BY <1>1, <2>2, <4>2, KeyType DEF HeldWithinGrant, Covered
    <3>. QED
      BY <3>1, <3>2
  <2>5. \A s \in Tasks : CallWithinGrant(s)'
    BY <1>15, FinishKeepsCalls DEF ReceiveRepresentation
  <2>. QED
    BY <1>1, <2>4, <2>5 DEF FreshInv
<1>16. ASSUME NEW t \in Tasks, ReceiveNotModified(t) PROVE FreshInv'
  <2> DEFINE r == request[t]
  <2>1. /\ pc[t] = "answered" /\ r \in Requests /\ r \in Request /\ started[t] \in Nat
        /\ answer[t] \in Answer /\ answer[t].status = "notModified"
        /\ cached[t] \in Record /\ CacheKey(r) \in Keys
    BY <1>1, <1>16, AgentAssumptions, KeyType DEF ReceiveNotModified, TypeInv, TypeOK, UnderWay
  <2>2. granted' = granted /\ now' = now
    BY <1>16 DEF ReceiveNotModified, Finish
  <2>3. /\ Revalidated(t) \in Record /\ Revalidated(t).body = cached[t].body
        /\ Revalidated(t).expires_at = revalidated_expiration(answer[t].headers, cached[t],
                                                             r.fallback, started[t])
    BY <1>1, <2>1, RevalidatedType DEF TypeInv
  <2>4. HeldWithinGrant'
    <3>1. CASE ~answer[t].headers.noStore
      <4>1. /\ Revalidated(t).body.selector = Selector(r)
            /\ Covered(r, Revalidated(t).body.version, Revalidated(t).expires_at)
        <5>1. cached[t] # None
          BY <2>1, NoneAssumption
        <5>2. CallWithinGrant(t)
          BY <1>1
        <5>3. cached[t].body = answer[t].body
          BY <1>1, <2>1 DEF TypeInv, UnderWay
        <5>. QED
          BY <2>1, <2>3, <3>1, <5>1, <5>2, <5>3 DEF CallWithinGrant
      <4>2. CacheSet(CacheKey(r), Revalidated(t))
        BY <1>16, <3>1 DEF ReceiveNotModified
      <4>3. \A x \in Keys : \/ x = CacheKey(r) /\ cache'[x] = Revalidated(t)
                            \/ cache'[x] \in {cache[x], None}
        BY <1>1, <2>1, <2>3, <4>2, CacheSetEffect DEF TypeInv, TypeOK
      <4>. QED
        BY <1>1, <2>1, <2>2, <2>3, <4>1, <4>3, WrittenCacheWithinGrant
    <3>2. CASE answer[t].headers.noStore
      <4>1. CacheDelete(CacheKey(r))
        BY <1>16, <3>2 DEF ReceiveNotModified
      <4>2. \A x \in Keys : cache'[x] \in {cache[x], None}
        BY <1>1, <2>1, <4>1, CacheDeleteEffect DEF TypeInv, TypeOK
      <4>. QED
        BY <1>1, <2>2, <4>2, KeyType DEF HeldWithinGrant, Covered
    <3>. QED
      BY <3>1, <3>2
  <2>5. \A s \in Tasks : CallWithinGrant(s)'
    BY <1>16, FinishKeepsCalls DEF ReceiveNotModified
  <2>. QED
    BY <1>1, <2>4, <2>5 DEF FreshInv
<1>17. CASE UNCHANGED vars
  BY <1>3, <1>5, <1>17 DEF vars, SameCall
<1>. QED
  BY <1>4, <1>6, <1>8, <1>9, <1>11, <1>12, <1>13, <1>14, <1>15, <1>16, <1>17 DEF Next

(***************************************************************************)
(* Nothing is held that the origin did not let the agent store, nor for    *)
(* longer than it let it, whatever calls race and however long answers     *)
(* are under way.                                                          *)
(***************************************************************************)
THEOREM CacheWithinGrants ==
  ASSUME SharedFallbacks, ReadableLifetimes
  PROVE  Spec => []HeldWithinGrant
<1>1. FreshInv /\ [Next]_vars => FreshInv'
  BY FreshInvStep
<1>2. FreshInv => HeldWithinGrant
  BY DEF FreshInv
<1>. QED
  BY <1>1, <1>2, FreshInvInit, PTL DEF Spec

(***************************************************************************)
(* What a step returns as fresh it read from a cache within its grants.    *)
(***************************************************************************)
LEMMA FreshResultStep ==
  ASSUME FreshInv, FreshIsGranted, [Next]_vars
  PROVE  FreshIsGranted'
<1>1. ASSUME result' = None PROVE FreshIsGranted'
  BY <1>1 DEF FreshIsGranted
<1>2. ASSUME NEW t \in Tasks, NEW r \in Requests, ServeFresh(t, r) PROVE FreshIsGranted'
  <2> DEFINE record == cache[CacheKey(r)]
  <2>1. /\ record \in Record /\ now < record.expires_at /\ now \in Nat
        /\ granted' = granted
        /\ result' = [freshness |-> "fresh", request |-> r, body |-> record.body,
                      confirmed |-> record.body, at |-> now]
    BY <1>2, KeyType DEF ServeFresh, Usable, Finish, FreshInv, TypeInv, TypeOK
  <2>2. record # None
    BY <2>1, NoneAssumption
  <2>3. /\ record.body.selector = Selector(r)
        /\ Covered(r, record.body.version, record.expires_at)
    BY <2>2 DEF FreshInv, HeldWithinGrant
  <2>4. record.body.version \in Versions /\ record.expires_at \in Nat
    BY <2>1 DEF Record, Body
  <2>5. granted[r][record.body.version] \in Nat \cup {Absent}
    BY <2>4 DEF FreshInv, TypeInv, TypeOK
  <2>6. now < granted[r][record.body.version]
    BY <2>1, <2>3, <2>4, <2>5 DEF Covered, Absent
  <2>. QED
    BY <2>1, <2>3, <2>6 DEF FreshIsGranted, Selector
<1>3. ASSUME NEW t \in Tasks, ReceiveRepresentation(t) \/ ReceiveNotModified(t)
      PROVE  FreshIsGranted'
  <2>1. result'.freshness # "fresh"
    BY <1>3 DEF ReceiveRepresentation, ReceiveNotModified, Finish, Outcome
  <2>. QED
    BY <2>1 DEF FreshIsGranted
<1>4. CASE UNCHANGED vars
  BY <1>4 DEF vars, FreshIsGranted, Selector
<1>. QED
  BY <1>1, <1>2, <1>3, <1>4 DEF Next, Tick, Publish, Send, OriginAnswers, OriginConfirms,
     OriginMisanswers, Deliver, TransportFails, ReceiveRefused, Finish

(***************************************************************************)
(* Whatever is returned without asking the origin, the origin had sent in  *)
(* answer to this very request and let the agent reuse until now.          *)
(***************************************************************************)
THEOREM FreshnessSound ==
  ASSUME SharedFallbacks, ReadableLifetimes
  PROVE  Spec => []FreshIsGranted
<1>1. Init => FreshInv /\ FreshIsGranted
  BY FreshInvInit DEF Init, FreshIsGranted
<1>2. FreshInv /\ FreshIsGranted /\ [Next]_vars => FreshInv' /\ FreshIsGranted'
  BY FreshInvStep, FreshResultStep
<1>. QED
  BY <1>1, <1>2, PTL DEF Spec

(***************************************************************************)
(* What a step returns as revalidated is the clone that was confirmed.     *)
(***************************************************************************)
LEMMA RevalidatedResultStep ==
  ASSUME TypeInv, RevalidatedIsConfirmed, [Next]_vars
  PROVE  RevalidatedIsConfirmed'
<1>1. ASSUME result' = None PROVE RevalidatedIsConfirmed'
  BY <1>1 DEF RevalidatedIsConfirmed
<1>2. ASSUME NEW t \in Tasks,
             \/ \E r \in Requests : ServeFresh(t, r)
             \/ ReceiveRepresentation(t)
      PROVE  RevalidatedIsConfirmed'
  <2>1. result'.freshness # "revalidated"
    BY <1>2 DEF ServeFresh, ReceiveRepresentation, Finish, Outcome
  <2>. QED
    BY <2>1 DEF RevalidatedIsConfirmed
<1>3. ASSUME NEW t \in Tasks, ReceiveNotModified(t) PROVE RevalidatedIsConfirmed'
  <2>1. /\ pc[t] = "answered" /\ request[t] \in Requests /\ cached[t] \in Record
        /\ answer[t] \in Answer /\ answer[t].status = "notModified"
    BY <1>3 DEF ReceiveNotModified, TypeInv, TypeOK, UnderWay
  <2>2. Revalidated(t).body = answer[t].body
    BY <2>1, RevalidatedType DEF TypeInv, UnderWay
  <2>3. result' = Outcome(t, "revalidated", Revalidated(t).body)
    BY <1>3 DEF ReceiveNotModified, Finish
  <2>. QED
    BY <2>2, <2>3 DEF RevalidatedIsConfirmed, Outcome
<1>4. CASE UNCHANGED vars
  BY <1>4 DEF vars, RevalidatedIsConfirmed
<1>. QED
  BY <1>1, <1>2, <1>3, <1>4 DEF Next, Tick, Publish, Send, OriginAnswers, OriginConfirms,
     OriginMisanswers, Deliver, TransportFails, ReceiveRefused, Finish

(***************************************************************************)
(* A 304 is applied to the record it confirms, whatever became of the      *)
(* cache meanwhile.                                                        *)
(***************************************************************************)
THEOREM RevalidationSound == Spec => []RevalidatedIsConfirmed
<1>1. Init => TypeInv /\ RevalidatedIsConfirmed
  BY TypeInvInit DEF Init, RevalidatedIsConfirmed
<1>2. TypeInv /\ RevalidatedIsConfirmed /\ [Next]_vars
        => TypeInv' /\ RevalidatedIsConfirmed'
  BY TypeInvStep, RevalidatedResultStep
<1>. QED
  BY <1>1, <1>2, PTL DEF Spec
=============================================================================
