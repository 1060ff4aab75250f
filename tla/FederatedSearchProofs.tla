------------------------ MODULE FederatedSearchProofs ------------------------
(***************************************************************************)
(* That the buffered search keeps its window, passes no part of a          *)
(* catalogue off as the whole, and implements OrderedReport, for every     *)
(* number of Services, every catalogue and all bounds.                     *)
(***************************************************************************)
EXTENDS FederatedSearch, SequenceTheorems, TLAPS

\* Nothing is under way before the Directory has answered.
NotBegun ==
  /\ services = <<>>
  /\ started = 0
  /\ results = <<>>

(***************************************************************************)
(* What a future holds is within the bounds and within the catalogue of    *)
(* its Service; one that still runs can take another offering, one that    *)
(* succeeded has all it could have, one that failed has nothing.           *)
(***************************************************************************)
HoldsItsShare(i) ==
  /\ status[i] # "waiting" => i <= started
  /\ status[i] = "waiting" => found[i] = 0
  /\ status[i] = "failed" => found[i] = 0
  /\ i <= started => /\ found[i] <= maximum_offerings
                     /\ found[i] <= Catalogue[services[i]]
  /\ status[i] = "running" => found[i] < maximum_offerings
  /\ status[i] = "ok" => Whole(i, found[i])

WithinBounds ==
  /\ Len(services) <= MaximumServices
  /\ Len(results) <= started
  /\ started - Len(results) <= concurrency
  /\ phase \in {"open", "asking", "declined"} => NotBegun
  /\ phase \in {"asking", "searching", "returned"} => ~Refused
  /\ phase = "returned" => Len(results) = Len(services)

IInv ==
  /\ TypeOK
  /\ WithinBounds
  /\ \A i \in Slots : HoldsItsShare(i)
  /\ NoSilentTruncation
-----------------------------------------------------------------------------
\* What a caller may have asked for is a natural number, and not zero.
LEMMA BoundsArePositive ==
  ASSUME asked \in Asked
  PROVE  /\ maximum_services \in Nat \ {0}
         /\ maximum_offerings \in Nat \ {0}
         /\ concurrency \in Nat \ {0}
BY FederatedAssumption
   DEF FederatedAssumption, maximum_services, maximum_offerings, concurrency, bounded

LEMMA CatalogueIsFinite ==
  ASSUME NEW s \in Services
  PROVE  Catalogue[s] \in Nat
BY FederatedAssumption DEF FederatedAssumption

\* Appending to the outcomes.
LEMMA AppendedOutcome ==
  ASSUME NEW S, NEW s \in Seq(S), NEW e \in S
  PROVE  /\ Append(s, e) \in Seq(S)
         /\ Len(Append(s, e)) = Len(s) + 1
         /\ \A i \in 1 .. Len(s) : Append(s, e)[i] = s[i]
         /\ Append(s, e)[Len(s) + 1] = e
OBVIOUS

LEMMA InitIInv == Init => IInv
<1> SUFFICES ASSUME Init PROVE IInv
  OBVIOUS
<1>1. TypeOK
  BY FederatedAssumption DEF Init, TypeOK, FederatedAssumption, Slots, Status
<1>2. WithinBounds
  BY BoundsArePositive, FederatedAssumption
     DEF Init, WithinBounds, NotBegun, FederatedAssumption
<1>3. \A i \in Slots : HoldsItsShare(i)
  BY DEF Init, HoldsItsShare, Slots
<1>4. NoSilentTruncation
  BY DEF Init, NoSilentTruncation
<1> QED BY <1>1, <1>2, <1>3, <1>4 DEF IInv

\* What depends on the caller's request stays what it was.
LEMMA SameRequest ==
  ASSUME UNCHANGED asked
  PROVE  /\ maximum_services' = maximum_services
         /\ maximum_offerings' = maximum_offerings
         /\ concurrency' = concurrency
         /\ Refused' = Refused
BY DEF maximum_services, maximum_offerings, concurrency, Refused, bounded

LEMMA NextIInv == IInv /\ [Next]_vars => IInv'
<1> SUFFICES ASSUME IInv, [Next]_vars PROVE IInv'
  OBVIOUS
<1> USE DEF IInv
<1>0. /\ asked \in Asked
      /\ maximum_services \in Nat \ {0}
      /\ maximum_offerings \in Nat \ {0}
      /\ concurrency \in Nat \ {0}
      /\ MaximumServices \in Nat /\ MaximumOfferings \in Nat /\ MaximumConcurrency \in Nat
      /\ Len(services) \in Nat /\ Len(results) \in Nat /\ started \in Nat
  BY BoundsArePositive, FederatedAssumption DEF TypeOK, FederatedAssumption
<1>1. CASE Begin
  <2> USE <1>1
  <2>1. TypeOK'
    BY DEF Begin, TypeOK
  <2>2. WithinBounds'
    BY SameRequest DEF Begin, WithinBounds, NotBegun
  <2>3. \A i \in Slots : HoldsItsShare(i)'
    BY SameRequest DEF Begin, HoldsItsShare, Whole
  <2>4. NoSilentTruncation'
    BY SameRequest DEF Begin, NoSilentTruncation, Whole
  <2> QED BY <2>1, <2>2, <2>3, <2>4
<1>2. CASE DirectoryFails
  <2> USE <1>2
  <2>1. TypeOK'
    BY DEF DirectoryFails, TypeOK
  <2>2. WithinBounds'
    BY SameRequest DEF DirectoryFails, WithinBounds, NotBegun
  <2>3. \A i \in Slots : HoldsItsShare(i)'
    BY SameRequest DEF DirectoryFails, HoldsItsShare, Whole
  <2>4. NoSilentTruncation'
    BY SameRequest DEF DirectoryFails, NoSilentTruncation, Whole
  <2> QED BY <2>1, <2>2, <2>3, <2>4
<1>3. ASSUME NEW n \in 0 .. MaximumServices, NEW list \in [1 .. n -> Services],
             DirectoryAnswers(list)
      PROVE  IInv'
  <2> USE <1>3
  <2>0. /\ list \in Seq(Services) /\ Len(list) = n
        /\ NotBegun /\ ~Refused
    BY <1>0 DEF DirectoryAnswers, WithinBounds
  <2>1. TypeOK'
    BY <2>0, <1>0 DEF DirectoryAnswers, TypeOK, NotBegun
  <2>2. WithinBounds'
    BY <2>0, <1>0, SameRequest DEF DirectoryAnswers, WithinBounds, NotBegun
  <2>3. ASSUME NEW i \in Slots PROVE HoldsItsShare(i)'
    <3>1. HoldsItsShare(i) /\ status[i] = "waiting"
      BY <2>0 DEF HoldsItsShare, NotBegun, Slots
    <3>2. ~(i <= started)
      BY <2>0 DEF NotBegun, Slots
    <3> QED BY <3>1, <3>2 DEF HoldsItsShare, DirectoryAnswers
  <2>4. NoSilentTruncation'
    BY <2>0 DEF DirectoryAnswers, NoSilentTruncation, NotBegun
  <2> QED BY <2>1, <2>2, <2>3, <2>4
<1>4. ASSUME NEW j \in Slots, Start(j) PROVE IInv'
  <2> USE <1>4
  <2>0. /\ j = started + 1 /\ j <= Len(services) /\ services[j] \in Services
        /\ started' = j /\ UNCHANGED <<phase, asked, services, found, results, events>>
    BY <1>0 DEF Start, TypeOK
  <2>1. TypeOK'
    BY <2>0, <1>0 DEF Start, TypeOK, Status
  <2>2. WithinBounds'
    BY <2>0, <1>0, SameRequest DEF Start, Room, WithinBounds, NotBegun
  <2>3. ASSUME NEW i \in Slots PROVE HoldsItsShare(i)'
    <3>0. HoldsItsShare(i) /\ HoldsItsShare(j) /\ i \in Nat
      BY DEF Slots
    <3>1. CASE i = j
      <4>1. status[j] = "waiting" /\ found[j] = 0
        BY <3>0, <2>0, <1>0 DEF HoldsItsShare
      <4>2. status'[j] = "running"
        BY DEF Start, TypeOK
      <4>3. Catalogue[services[j]] \in Nat
        BY <2>0, CatalogueIsFinite
      <4> QED BY <3>1, <4>1, <4>2, <4>3, <2>0, <1>0, SameRequest DEF HoldsItsShare
    <3>2. CASE i # j
      <4>1. status'[i] = status[i] /\ (i <= started' => i <= started)
        BY <3>2, <3>0, <2>0, <1>0 DEF Start, TypeOK
      <4> QED BY <4>1, <3>0, <2>0, <1>0, SameRequest DEF HoldsItsShare, Whole
    <3> QED BY <3>1, <3>2
  <2>4. NoSilentTruncation'
    BY <2>0, SameRequest DEF NoSilentTruncation, Whole
  <2> QED BY <2>1, <2>2, <2>3, <2>4
<1>5. ASSUME NEW j \in Slots, FetchPage(j) PROVE IInv'
  <2> USE <1>5
  <2> DEFINE n == IF found[j] < Catalogue[services[j]] THEN found[j] + 1 ELSE found[j]
  <2>0. /\ status[j] = "running" /\ found[j] \in Nat /\ HoldsItsShare(j)
        /\ UNCHANGED <<phase, asked, services, started, results, events>>
        /\ found' = [found EXCEPT ![j] = n]
        /\ status' = [status EXCEPT ![j] = IF Whole(j, n) THEN "ok" ELSE "running"]
    BY DEF FetchPage, TypeOK
  <2>1. /\ j <= started /\ services[j] \in Services /\ Catalogue[services[j]] \in Nat
        /\ n \in Nat /\ n <= maximum_offerings /\ n <= Catalogue[services[j]]
        /\ ~Whole(j, n) => n < maximum_offerings
    <3>1. j <= started /\ services[j] \in Services
      BY <2>0, <1>0 DEF HoldsItsShare, TypeOK, Slots
    <3>2. Catalogue[services[j]] \in Nat
      BY <3>1, CatalogueIsFinite
    <3> QED BY <3>1, <3>2, <2>0, <1>0 DEF HoldsItsShare, Whole
  <2> HIDE DEF n
  <2>2. TypeOK'
    BY <2>0, <2>1 DEF TypeOK, Status
  <2>3. WithinBounds'
    BY <2>0, <1>0, SameRequest DEF WithinBounds, NotBegun
  <2>4. ASSUME NEW i \in Slots PROVE HoldsItsShare(i)'
    <3>1. HoldsItsShare(i)
      OBVIOUS
    <3>2. Whole(i, found[i])' <=> Whole(i, found'[i])
      BY <2>0, SameRequest DEF Whole
    <3>3. CASE i = j
      <4>1. /\ found'[j] = n
            /\ status'[j] = IF Whole(j, n) THEN "ok" ELSE "running"
        BY <2>0 DEF TypeOK
      <4> QED BY <3>2, <3>3, <4>1, <2>0, <2>1, <1>0, SameRequest DEF HoldsItsShare
    <3>4. CASE i # j
      <4>1. status'[i] = status[i] /\ found'[i] = found[i]
        BY <3>4, <2>0 DEF TypeOK
      <4> QED BY <3>1, <3>2, <4>1, <2>0, SameRequest DEF HoldsItsShare
    <3> QED BY <3>3, <3>4
  <2>5. NoSilentTruncation'
    BY <2>0, SameRequest DEF NoSilentTruncation, Whole
  <2> QED BY <2>2, <2>3, <2>4, <2>5
<1>6. ASSUME NEW j \in Slots, Fail(j) PROVE IInv'
  <2> USE <1>6
  <2>0. /\ status[j] = "running" /\ HoldsItsShare(j)
        /\ UNCHANGED <<phase, asked, services, started, results, events>>
        /\ found' = [found EXCEPT ![j] = 0]
        /\ status' = [status EXCEPT ![j] = "failed"]
    BY DEF Fail
  <2>1. /\ j <= started /\ services[j] \in Services /\ Catalogue[services[j]] \in Nat
    <3>1. j <= started /\ services[j] \in Services
      BY <2>0, <1>0 DEF HoldsItsShare, TypeOK, Slots
    <3> QED BY <3>1, CatalogueIsFinite
  <2>2. TypeOK'
    BY <2>0 DEF TypeOK, Status
  <2>3. WithinBounds'
    BY <2>0, <1>0, SameRequest DEF WithinBounds, NotBegun
  <2>4. ASSUME NEW i \in Slots PROVE HoldsItsShare(i)'
    <3>1. HoldsItsShare(i)
      OBVIOUS
    <3>2. CASE i = j
      <4>1. found'[j] = 0 /\ status'[j] = "failed"
        BY <2>0 DEF TypeOK
      <4> QED BY <3>2, <4>1, <2>0, <2>1, <1>0, SameRequest DEF HoldsItsShare
    <3>3. CASE i # j
      <4>1. status'[i] = status[i] /\ found'[i] = found[i]
        BY <3>3, <2>0 DEF TypeOK
      <4> QED BY <3>1, <4>1, <2>0, SameRequest DEF HoldsItsShare, Whole
    <3> QED BY <3>2, <3>3
  <2>5. NoSilentTruncation'
    BY <2>0, SameRequest DEF NoSilentTruncation, Whole
  <2> QED BY <2>2, <2>3, <2>4, <2>5
<1>7. ASSUME NEW j \in Slots, HandOn(j) PROVE IInv'
  <2> USE <1>7
  <2> DEFINE o == [service |-> services[j], issue |-> status[j] = "failed", count |-> found[j]]
  <2>0. /\ j = Len(results) + 1 /\ j <= started /\ status[j] \in {"ok", "failed"}
        /\ results' = Append(results, o)
        /\ UNCHANGED <<phase, asked, services, status, found, started, events>>
    BY DEF HandOn, InLine, Completed, Buffered
  <2>1. o \in [service : Services, issue : BOOLEAN, count : Nat]
    <3>1. services[j] \in Services
      BY <2>0, <1>0 DEF TypeOK, Slots
    <3> QED BY <3>1 DEF TypeOK
  <2>2. /\ results' \in Seq([service : Services, issue : BOOLEAN, count : Nat])
        /\ Len(results') = Len(results) + 1
        /\ \A i \in 1 .. Len(results) : results'[i] = results[i]
        /\ results'[j] = o
    BY <2>0, <2>1, AppendedOutcome DEF TypeOK
  <2>3. TypeOK'
    BY <2>0, <2>2 DEF TypeOK
  <2>4. WithinBounds'
    BY <2>0, <2>2, <1>0, SameRequest DEF WithinBounds, NotBegun, TypeOK
  <2>5. \A i \in Slots : HoldsItsShare(i)'
    BY <2>0, SameRequest DEF HoldsItsShare, Whole
  <2>6. NoSilentTruncation'
    <3> SUFFICES ASSUME NEW i \in 1 .. Len(results'), ~results'[i].issue
                 PROVE  Whole(i, results[i].count)'
      BY DEF NoSilentTruncation
    <3>1. Whole(i, results[i].count)' <=> Whole(i, results'[i].count)
      BY <2>0, SameRequest DEF Whole
    <3>2. CASE i \in 1 .. Len(results)
      BY <3>1, <3>2, <2>2 DEF NoSilentTruncation
    <3>3. CASE i = j
      <4>1. status[j] = "ok"
        <5>1. o.issue = (status[j] = "failed")
          BY Zenon
        <5>2. results'[i] = o
          BY <3>3, <2>2
        <5> HIDE DEF o
        <5>3. ~o.issue
          BY <5>2, Zenon
        <5>4. status[j] # "failed"
          BY <5>1, <5>3, Zenon
        <5> QED BY <5>4, <2>0
      <4>2. HoldsItsShare(j)
        OBVIOUS
      <4>3. results'[i].count = found[j]
        BY <3>3, <2>2
      <4> QED BY <3>1, <3>3, <4>1, <4>2, <4>3 DEF HoldsItsShare
    <3> QED BY <3>2, <3>3, <2>0, <2>2, <1>0
  <2> QED BY <2>3, <2>4, <2>5, <2>6
<1>8. CASE Return
  <2> USE <1>8
  <2>1. TypeOK'
    BY DEF Return, TypeOK
  <2>2. WithinBounds'
    BY SameRequest DEF Return, WithinBounds, NotBegun
  <2>3. \A i \in Slots : HoldsItsShare(i)'
    BY SameRequest DEF Return, HoldsItsShare, Whole
  <2>4. NoSilentTruncation'
    BY SameRequest DEF Return, NoSilentTruncation, Whole
  <2> QED BY <2>1, <2>2, <2>3, <2>4
<1>9. CASE UNCHANGED vars
  <2> USE <1>9
  <2>1. TypeOK'
    BY DEF vars, TypeOK
  <2>2. WithinBounds'
    BY SameRequest DEF vars, WithinBounds, NotBegun
  <2>3. \A i \in Slots : HoldsItsShare(i)'
    BY SameRequest DEF vars, HoldsItsShare, Whole
  <2>4. NoSilentTruncation'
    BY SameRequest DEF vars, NoSilentTruncation, Whole
  <2> QED BY <2>1, <2>2, <2>3, <2>4
<1> QED BY <1>1, <1>2, <1>3, <1>4, <1>5, <1>6, <1>7, <1>8, <1>9 DEF Next

(***************************************************************************)
(* Every reachable state of the search is well-typed and within its        *)
(* bounds.                                                                 *)
(***************************************************************************)
THEOREM Inductive == Spec => []IInv
BY InitIInv, NextIInv, PTL DEF Spec
-----------------------------------------------------------------------------
(***************************************************************************)
(* Whatever the Directory lists, and however Services complete and fail, a *)
(* report is a sequence of outcomes of Services that were listed.          *)
(***************************************************************************)
THEOREM SearchTypeCorrect == Spec => []TypeOK
<1>1. IInv => TypeOK
  BY DEF IInv
<1> QED BY <1>1, Inductive, PTL

(***************************************************************************)
(* The window of stream::buffered: at no time are more Services under way  *)
(* or waiting for their turn than the caller asked for.                    *)
(***************************************************************************)
THEOREM WindowKept == Spec => []WindowBound
<1>1. IInv => WindowBound
  <2> SUFFICES ASSUME IInv PROVE WindowBound
    OBVIOUS
  <2>1. /\ concurrency \in Nat /\ MaximumConcurrency \in Nat \ {0}
        /\ started \in Nat /\ Len(results) \in Nat
    BY BoundsArePositive, FederatedAssumption DEF IInv, TypeOK, FederatedAssumption
  <2>2. CASE phase \in {"open", "asking", "declined"}
    BY <2>1, <2>2 DEF IInv, WithinBounds, NotBegun, WindowBound
  <2>3. CASE phase \in {"searching", "returned"}
    BY <2>1, <2>3 DEF IInv, WithinBounds, Refused, WindowBound
  <2> QED BY <2>2, <2>3 DEF IInv, TypeOK
<1> QED BY <1>1, Inductive, PTL

(***************************************************************************)
(* An outcome that is no issue is all that the bounds and the Service's    *)
(* catalogue allow, whichever page of whichever Service failed.            *)
(***************************************************************************)
THEOREM NothingTruncated == Spec => []NoSilentTruncation
<1>1. IInv => NoSilentTruncation
  BY DEF IInv
<1> QED BY <1>1, Inductive, PTL
-----------------------------------------------------------------------------
\* Handing on the head of the queue is a report of the promise.
LEMMA HandOnReports ==
  ASSUME IInv, NEW j \in Slots, HandOn(j)
  PROVE  Promise!Report
<1> DEFINE o == [service |-> services[j], issue |-> status[j] = "failed", count |-> found[j]]
<1>1. /\ j = Len(results) + 1 /\ j <= started /\ status[j] \in {"ok", "failed"}
      /\ results' = Append(results, o)
      /\ UNCHANGED <<phase, services>>
  BY DEF HandOn, InLine, Completed, Buffered
<1>2. /\ started \in Nat /\ Len(services) \in Nat /\ Len(results) \in Nat
      /\ started <= Len(services) /\ found[j] \in Nat /\ HoldsItsShare(j)
      /\ maximum_offerings \in Nat /\ MaximumOfferings \in Nat
  BY BoundsArePositive, FederatedAssumption DEF IInv, TypeOK, FederatedAssumption
<1>3. phase = "searching"
  BY <1>1, <1>2 DEF IInv, TypeOK, WithinBounds, NotBegun
<1>4. services[j] \in Services /\ Catalogue[services[j]] \in Nat
  <2>1. services[j] \in Services
    BY <1>1, <1>2 DEF IInv, TypeOK
  <2> QED BY <2>1, CatalogueIsFinite
<1>5. maximum_offerings <= MaximumOfferings
  BY <1>2, <1>3 DEF IInv, WithinBounds, Refused
<1>6. /\ found[j] <= MaximumOfferings
      /\ found[j] <= Catalogue[services[j]]
      /\ status[j] = "failed" => found[j] = 0
  BY <1>1, <1>2, <1>4, <1>5 DEF HoldsItsShare
<1>7. o \in Promise!Outcomes(services[Len(results) + 1])
  <2>1. /\ o.service = services[j]
        /\ o.issue \in BOOLEAN
        /\ o.count = found[j]
    BY Zenon
  <2>2. o \in [service : {services[j]}, issue : BOOLEAN, count : 0 .. MaximumOfferings]
    BY <1>2, <1>6, <2>1
  <2>3. o.issue => o.count = 0
    <3>1. o.issue = (status[j] = "failed")
      BY Zenon
    <3> QED BY <3>1, <2>1, <1>6
  <2>4. o.count <= IF o.issue THEN 0 ELSE Catalogue[services[j]]
    BY <1>2, <1>4, <1>6, <2>1, <2>3
  <2> QED BY <1>1, <2>2, <2>4 DEF Promise!Outcomes
<1> QED BY <1>1, <1>2, <1>3, <1>7 DEF Promise!Report

LEMMA StepImplements == IInv /\ [Next]_vars => [Promise!Next]_(Promise!vars)
<1> SUFFICES ASSUME IInv, [Next]_vars PROVE [Promise!Next]_(Promise!vars)
  OBVIOUS
<1>1. CASE Begin
  <2>1. NotBegun
    BY <1>1 DEF IInv, WithinBounds, Begin
  <2>2. CASE Refused
    BY <1>1, <2>2 DEF Begin, Promise!Next, Promise!Decline
  <2>3. CASE ~Refused
    BY <1>1, <2>3 DEF Begin, Promise!vars
  <2> QED BY <2>2, <2>3
<1>2. CASE DirectoryFails
  BY <1>2 DEF DirectoryFails, Promise!Next, Promise!Decline
<1>3. ASSUME NEW n \in 0 .. MaximumServices, NEW list \in [1 .. n -> Services],
             DirectoryAnswers(list)
      PROVE  Promise!Ask
  <2>1. list \in Seq(Services) /\ Len(list) = n /\ n <= MaximumServices
    BY FederatedAssumption DEF FederatedAssumption
  <2> QED BY <1>3, <2>1 DEF DirectoryAnswers, Promise!Ask
<1>4. ASSUME NEW j \in Slots, Start(j) \/ FetchPage(j) \/ Fail(j)
      PROVE  UNCHANGED Promise!vars
  BY <1>4 DEF Start, FetchPage, Fail, Promise!vars
<1>5. ASSUME NEW j \in Slots, HandOn(j) PROVE Promise!Report
  BY <1>5, HandOnReports
<1>6. CASE Return
  BY <1>6 DEF Return, Promise!Next, Promise!Return
<1>7. CASE UNCHANGED vars
  BY <1>7 DEF vars, Promise!vars
<1> QED BY <1>1, <1>2, <1>3, <1>4, <1>5, <1>6, <1>7 DEF Next, Promise!Next

(***************************************************************************)
(* The buffered search implements the promise of README.md: one outcome    *)
(* per Service in the Directory's order, each an issue or the first        *)
(* offerings of that Service, the failure of one taking none of the others *)
(* with it.                                                                *)
(***************************************************************************)
THEOREM ReportsInOrder == Spec => ImplementsOrderedReport
<1>1. Init => Promise!Init
  BY DEF Init, Promise!Init
<1> QED BY <1>1, Inductive, StepImplements, PTL
       DEF Spec, ImplementsOrderedReport, Promise!Spec
-----------------------------------------------------------------------------
(***************************************************************************)
(* The part of SearchEnds that needs no fairness.  What a search has left  *)
(* to do are its phases, the steps of its futures, of which one that runs  *)
(* has one for each offering it lacks and one to complete, and the results *)
(* to hand on.                                                             *)
(***************************************************************************)
PhasesLeft == [open |-> 3, asking |-> 2, searching |-> 1, returned |-> 0, declined |-> 0]

StepsLeft(i) == IF status[i] = "waiting" THEN maximum_offerings + 2
                ELSE IF status[i] = "running" THEN maximum_offerings + 1 - found[i]
                ELSE 0

ResultsLeft == MaximumServices - Len(results)

NothingIsUndone ==
  /\ PhasesLeft[phase'] <= PhasesLeft[phase]
  /\ \A i \in Slots : StepsLeft(i)' <= StepsLeft(i)
  /\ ResultsLeft' <= ResultsLeft

SomethingIsDone ==
  \/ PhasesLeft[phase'] < PhasesLeft[phase]
  \/ \E i \in Slots : StepsLeft(i)' < StepsLeft(i)
  \/ ResultsLeft' < ResultsLeft

Nearer == NothingIsUndone /\ SomethingIsDone

LEMMA FinitelyMuchIsLeft ==
  ASSUME IInv
  PROVE  /\ PhasesLeft[phase] \in Nat
         /\ \A i \in Slots : StepsLeft(i) \in Nat
         /\ ResultsLeft \in Nat
<1>1. PhasesLeft[phase] \in Nat
  BY DEF IInv, TypeOK, PhasesLeft
<1>2. ASSUME NEW i \in Slots PROVE StepsLeft(i) \in Nat
  <2>1. maximum_offerings \in Nat /\ found[i] \in Nat /\ HoldsItsShare(i)
    BY BoundsArePositive DEF IInv, TypeOK
  <2> QED BY <2>1 DEF StepsLeft, HoldsItsShare
<1>3. ResultsLeft \in Nat
  <2>1. /\ Len(results) \in Nat /\ Len(services) \in Nat /\ started \in 0 .. Len(services)
        /\ Len(results) <= started /\ Len(services) <= MaximumServices /\ MaximumServices \in Nat
    BY FederatedAssumption DEF FederatedAssumption, IInv, TypeOK, WithinBounds
  <2> QED BY <2>1 DEF ResultsLeft
<1> QED BY <1>1, <1>2, <1>3

\* A step of one future leaves the others as they are.
LEMMA OneFutureMoves ==
  ASSUME IInv, NEW i \in Slots, asked' = asked, phase' = phase, results' = results,
         \A j \in Slots \ {i} : status'[j] = status[j] /\ found'[j] = found[j],
         StepsLeft(i)' < StepsLeft(i), StepsLeft(i)' \in Nat
  PROVE  Nearer
<1>1. ASSUME NEW j \in Slots \ {i} PROVE StepsLeft(j)' = StepsLeft(j)
  BY DEF StepsLeft, maximum_offerings
<1>2. \A j \in Slots : StepsLeft(j) \in Nat /\ ResultsLeft \in Nat /\ PhasesLeft[phase] \in Nat
  BY FinitelyMuchIsLeft
<1>3. ResultsLeft' = ResultsLeft
  BY DEF ResultsLeft
<1>4. ASSUME NEW j \in Slots PROVE StepsLeft(j)' <= StepsLeft(j)
  <2>1. CASE j = i
    BY <1>2, <2>1
  <2>2. CASE j # i
    BY <1>1, <1>2, <2>2
  <2> QED BY <2>1, <2>2
<1> QED BY <1>2, <1>3, <1>4 DEF Nearer, NothingIsUndone, SomethingIsDone

LEMMA StepIsNearer == IInv /\ [Next]_vars => [Nearer]_vars
<1> SUFFICES ASSUME IInv, Next PROVE Nearer
  OBVIOUS
<1> DEFINE most == maximum_offerings
<1>0. /\ most \in Nat \ {0} /\ status \in [Slots -> Status] /\ found \in [Slots -> Nat]
      /\ phase \in DOMAIN PhasesLeft /\ results \in Seq([service : Services, issue : BOOLEAN, count : Nat])
  BY BoundsArePositive DEF IInv, TypeOK, PhasesLeft
<1>1. asked' = asked /\ maximum_offerings' = most
  <2>1. asked' = asked
    BY DEF Next, Begin, DirectoryFails, DirectoryAnswers, Start, FetchPage, Fail, HandOn, Return
  <2> QED BY <2>1 DEF maximum_offerings
<1>2. ASSUME UNCHANGED <<status, found, results>>, PhasesLeft[phase'] < PhasesLeft[phase],
             PhasesLeft[phase'] \in Nat
      PROVE  Nearer
  <2>1. \A i \in Slots : StepsLeft(i)' = StepsLeft(i)
    BY <1>1, <1>2 DEF StepsLeft
  <2>2. ResultsLeft' = ResultsLeft
    BY <1>2 DEF ResultsLeft
  <2> QED BY <1>2, <2>1, <2>2, FinitelyMuchIsLeft DEF Nearer, NothingIsUndone, SomethingIsDone
<1>3. CASE Begin \/ DirectoryFails \/ Return
           \/ \E n \in 0 .. MaximumServices : \E list \in [1 .. n -> Services] : DirectoryAnswers(list)
  <2>1. UNCHANGED <<status, found, results>>
    BY <1>3 DEF Begin, DirectoryFails, Return, DirectoryAnswers
  <2>2. PhasesLeft[phase'] < PhasesLeft[phase] /\ PhasesLeft[phase'] \in Nat
    BY <1>3 DEF Begin, DirectoryFails, Return, DirectoryAnswers, PhasesLeft
  <2> QED BY <1>2, <2>1, <2>2
<1>4. ASSUME NEW i \in Slots, Start(i) PROVE Nearer
  <2>1. /\ status[i] = "waiting" /\ found[i] = 0 /\ i = started + 1
    <3>1. HoldsItsShare(i) /\ i = started + 1 /\ started \in Nat
      BY <1>4 DEF Start, IInv, TypeOK
    <3> QED BY <3>1 DEF HoldsItsShare
  <2>2. status' = [status EXCEPT ![i] = "running"] /\ found' = found
        /\ phase' = phase /\ results' = results
    BY <1>4 DEF Start
  <2>3. StepsLeft(i) = most + 2 /\ StepsLeft(i)' = most + 1 - 0
    BY <1>0, <1>1, <2>1, <2>2 DEF StepsLeft
  <2> HIDE DEF most
  <2>4. StepsLeft(i)' < StepsLeft(i) /\ StepsLeft(i)' \in Nat
    BY <1>0, <2>3
  <2> QED BY <1>0, <1>1, <2>2, <2>4, OneFutureMoves
<1>5. ASSUME NEW i \in Slots, FetchPage(i) PROVE Nearer
  <2> DEFINE n == IF found[i] < Catalogue[services[i]] THEN found[i] + 1 ELSE found[i]
  <2>1. /\ status[i] = "running" /\ HoldsItsShare(i) /\ found[i] \in Nat
        /\ status' = [status EXCEPT ![i] = IF Whole(i, n) THEN "ok" ELSE "running"]
        /\ found' = [found EXCEPT ![i] = n] /\ phase' = phase /\ results' = results
    BY <1>0, <1>5 DEF FetchPage, IInv
  <2>2. found[i] <= Catalogue[services[i]] /\ Catalogue[services[i]] \in Nat /\ found[i] < most
    <3>1. i <= started /\ started \in 0 .. Len(services) /\ services \in Seq(Services) /\ i \in Nat
      BY <2>1, FederatedAssumption DEF HoldsItsShare, IInv, TypeOK, Slots, FederatedAssumption
    <3>2. services[i] \in Services
      <4>1. i \in 1 .. Len(services) /\ Len(services) \in Nat
        BY <3>1 DEF Slots
      <4> QED BY <3>1, <4>1
    <3> QED BY <2>1, <3>1, <3>2, CatalogueIsFinite DEF HoldsItsShare
  <2>3. CASE Whole(i, n)
    <3>1. StepsLeft(i)' = 0 /\ StepsLeft(i) = most + 1 - found[i]
      BY <1>0, <2>1, <2>3 DEF StepsLeft
    <3> HIDE DEF most
    <3>2. StepsLeft(i)' < StepsLeft(i) /\ StepsLeft(i)' \in Nat
      BY <1>0, <2>1, <2>2, <3>1
    <3> QED BY <1>0, <1>1, <2>1, <3>2, OneFutureMoves
  <2>4. CASE ~Whole(i, n)
    <3>1. n = found[i] + 1
      <4>1. n # Catalogue[services[i]]
        BY <2>4 DEF Whole
      <4>2. found[i] # Catalogue[services[i]]
        BY <2>1, <2>2, <4>1
      <4> QED BY <2>1, <2>2, <4>2
    <3>2. StepsLeft(i)' = most + 1 - n /\ StepsLeft(i) = most + 1 - found[i]
      BY <1>0, <1>1, <2>1, <2>4 DEF StepsLeft
    <3> HIDE DEF most, n
    <3>3. StepsLeft(i)' < StepsLeft(i) /\ StepsLeft(i)' \in Nat
      BY <1>0, <2>1, <2>2, <3>1, <3>2
    <3> QED BY <1>0, <1>1, <2>1, <3>3, OneFutureMoves
  <2> QED BY <2>3, <2>4
<1>6. ASSUME NEW i \in Slots, Fail(i) PROVE Nearer
  <2>1. /\ status[i] = "running" /\ found[i] \in Nat /\ found[i] < most
        /\ status' = [status EXCEPT ![i] = "failed"]
        /\ found' = [found EXCEPT ![i] = 0] /\ phase' = phase /\ results' = results
    BY <1>0, <1>6 DEF Fail, IInv, HoldsItsShare
  <2>2. StepsLeft(i)' = 0 /\ StepsLeft(i) = most + 1 - found[i]
    BY <1>0, <2>1 DEF StepsLeft
  <2> HIDE DEF most
  <2>3. StepsLeft(i)' < StepsLeft(i) /\ StepsLeft(i)' \in Nat
    BY <1>0, <2>1, <2>2
  <2> QED BY <1>0, <1>1, <2>1, <2>3, OneFutureMoves
<1>7. ASSUME NEW i \in Slots, HandOn(i) PROVE Nearer
  <2>1. UNCHANGED <<status, found, phase>>
    BY <1>7 DEF HandOn
  <2>2. \A j \in Slots : StepsLeft(j)' = StepsLeft(j)
    BY <1>1, <2>1 DEF StepsLeft
  <2>3. Len(results') = Len(results) + 1 /\ Len(results) \in Nat
    BY <1>0, <1>7 DEF HandOn
  <2>4. ResultsLeft' < ResultsLeft /\ ResultsLeft' <= ResultsLeft
    BY <2>3, FederatedAssumption DEF ResultsLeft, FederatedAssumption
  <2> QED BY <2>1, <2>2, <2>4, FinitelyMuchIsLeft DEF Nearer, NothingIsUndone, SomethingIsDone
<1> QED BY <1>3, <1>4, <1>5, <1>6, <1>7 DEF Next

(***************************************************************************)
(* A search runs out of steps: each one brings a future, a result or the   *)
(* search itself nearer its end and takes nothing back, and what is left   *)
(* is finite from the start.  (That the steps are taken is the fairness of *)
(* FairSpec.)                                                              *)
(***************************************************************************)
THEOREM SearchesRunOut ==
  Spec => /\ [](/\ PhasesLeft[phase] \in Nat
                /\ \A i \in Slots : StepsLeft(i) \in Nat
                /\ ResultsLeft \in Nat)
          /\ [][Nearer]_vars
BY FinitelyMuchIsLeft, StepIsNearer, Inductive, PTL DEF Spec
=============================================================================
