--------------------------- MODULE FederatedSearch ---------------------------
(***************************************************************************)
(* Agent::search_offerings_across_services (odp-agent/src/agent.rs).       *)
(*                                                                         *)
(* The Services of the Directory's answer are searched through             *)
(* stream::buffered: their futures are taken in order, at most concurrency *)
(* of them are held, one that has completed counts until every earlier one *)
(* has been handed on, and results are handed on in the order of the       *)
(* stream.  Events are made only when the last result is in.               *)
(*                                                                         *)
(* A Service's catalogue is listed one offering a page; the paging itself  *)
(* is CatalogTraversal's subject.  A page after the first may fail, and    *)
(* then what the earlier pages brought is dropped with the error.          *)
(***************************************************************************)
EXTENDS Integers, Sequences, SequencesExt

CONSTANTS
  Services,          \* what the Directory may name
  Catalogue,         \* Catalogue[s]: how many offerings s lists
  Asked,             \* the requests of callers: their three bounds, 0 for the default
  DefaultServices, MaximumServices,
  DefaultOfferings, MaximumOfferings,
  DefaultConcurrency, MaximumConcurrency,
  MaxPages           \* pages of one traversal, at most

ASSUME FederatedAssumption ==
  /\ Catalogue \in [Services -> Nat]
  /\ Asked \subseteq [services : Nat, offerings : Nat, concurrency : Nat]
  /\ MaximumServices \in Nat /\ DefaultServices \in 1 .. MaximumServices
  /\ MaximumOfferings \in Nat /\ DefaultOfferings \in 1 .. MaximumOfferings
  /\ MaximumConcurrency \in Nat /\ DefaultConcurrency \in 1 .. MaximumConcurrency
  /\ MaxPages \in Nat \ {0}

VARIABLES
  phase,     \* "open", "asking", "searching", "returned" or "declined"
  asked,     \* the caller's request
  services,  \* the Directory's answer
  status,    \* status[i]: of the future of services[i]
  found,     \* found[i]: offerings the traversal of services[i] holds
  started,   \* futures taken from the stream
  results,   \* outcomes handed on to collect
  events     \* what the caller gets

vars == <<phase, asked, services, status, found, started, results, events>>
-----------------------------------------------------------------------------
\* bounded(value, fallback, maximum): zero asks for the fallback, and what
\* exceeds the maximum is refused rather than clipped.
bounded(value, fallback) == IF value = 0 THEN fallback ELSE value

maximum_services == bounded(asked.services, DefaultServices)
maximum_offerings == bounded(asked.offerings, DefaultOfferings)
concurrency == bounded(asked.concurrency, DefaultConcurrency)

Refused ==
  \/ maximum_services > MaximumServices
  \/ maximum_offerings > MaximumOfferings
  \/ concurrency > MaximumConcurrency

Slots == 1 .. MaximumServices

Status == {"waiting", "running", "ok", "failed"}

\* Futures taken from the stream and not yet handed on.
Buffered == {i \in Slots : Len(results) < i /\ i <= started}

\* Mutant of Room: a future that has completed no longer counts.
RoomBesideRunning == Cardinality({i \in Buffered : status[i] = "running"}) < concurrency

Room == started - Len(results) < concurrency

Completed(i) == i \in Buffered /\ status[i] \in {"ok", "failed"}

\* Mutant of InLine: results are handed on as they complete.
AnyCompleted(i) == Completed(i)

InLine(i) == Completed(i) /\ i = Len(results) + 1
-----------------------------------------------------------------------------
Init ==
  /\ phase = "open"
  /\ asked \in Asked
  /\ services = <<>>
  /\ status = [i \in Slots |-> "waiting"]
  /\ found = [i \in Slots |-> 0]
  /\ started = 0
  /\ results = <<>>
  /\ events = <<>>

Begin ==
  /\ phase = "open"
  /\ phase' = IF Refused THEN "declined" ELSE "asking"
  /\ UNCHANGED <<asked, services, status, found, started, results, events>>

\* DirectoryClient::collect_services takes at most the Services asked for.
DirectoryAnswers(list) ==
  /\ phase = "asking"
  /\ Len(list) <= maximum_services
  /\ phase' = "searching"
  /\ services' = list
  /\ UNCHANGED <<asked, status, found, started, results, events>>

DirectoryFails ==
  /\ phase = "asking"
  /\ phase' = "declined"
  /\ UNCHANGED <<asked, services, status, found, started, results, events>>

\* Mutant of Start: the stream is read past its end.
StartPastEnd(i) ==
  /\ phase = "searching"
  /\ i = started + 1
  /\ Room
  /\ started' = i
  /\ status' = [status EXCEPT ![i] = "running"]
  /\ UNCHANGED <<phase, asked, services, found, results, events>>

\* buffered takes the next future from the stream.
Start(i) ==
  /\ phase = "searching"
  /\ i = started + 1
  /\ i <= Len(services)
  /\ Room
  /\ started' = i
  /\ status' = [status EXCEPT ![i] = "running"]
  /\ UNCHANGED <<phase, asked, services, found, results, events>>

\* A traversal is complete at the caller's bound, at the end of the
\* catalogue, or at the last page it may fetch.
Whole(i, n) == n = maximum_offerings \/ n = Catalogue[services[i]] \/ n = MaxPages

FetchPage(i) ==
  LET n == IF found[i] < Catalogue[services[i]] THEN found[i] + 1 ELSE found[i] IN
  /\ status[i] = "running"
  /\ found' = [found EXCEPT ![i] = n]
  /\ status' = [status EXCEPT ![i] = IF Whole(i, n) THEN "ok" ELSE "running"]
  /\ UNCHANGED <<phase, asked, services, started, results, events>>

\* Mutant of Fail: what the earlier pages brought is passed off as the answer.
FailSoftly(i) ==
  /\ status[i] = "running"
  /\ status' = [status EXCEPT ![i] = IF found[i] = 0 THEN "failed" ELSE "ok"]
  /\ UNCHANGED <<phase, asked, services, found, started, results, events>>

\* No client for the Service, an operation it does not advertise, a request
\* that failed or timed out: the whole traversal ends in the error.
Fail(i) ==
  /\ status[i] = "running"
  /\ status' = [status EXCEPT ![i] = "failed"]
  /\ found' = [found EXCEPT ![i] = 0]
  /\ UNCHANGED <<phase, asked, services, started, results, events>>

\* Mutant of HandOn: a future that failed is never handed on.
HandOnSuccess(i) ==
  /\ InLine(i)
  /\ status[i] = "ok"
  /\ results' = Append(results, [service |-> services[i], issue |-> FALSE, count |-> found[i]])
  /\ UNCHANGED <<phase, asked, services, status, found, started, events>>

HandOn(i) ==
  /\ InLine(i)
  /\ results' = Append(results, [service |-> services[i],
                                 issue |-> status[i] = "failed", count |-> found[i]])
  /\ UNCHANGED <<phase, asked, services, status, found, started, events>>

\* An event names its Service and one of its offerings, or 0 for an issue.
EventsOf(outcome) ==
  [k \in 1 .. (IF outcome.issue THEN 1 ELSE outcome.count) |->
     [service |-> outcome.service, offering |-> IF outcome.issue THEN 0 ELSE k]]

Return ==
  /\ phase = "searching"
  /\ Len(results) = Len(services)
  /\ phase' = "returned"
  /\ events' = FlattenSeq([i \in 1 .. Len(results) |-> EventsOf(results[i])])
  /\ UNCHANGED <<asked, services, status, found, started, results>>

Next ==
  \/ Begin
  \/ DirectoryFails
  \/ \E n \in 0 .. MaximumServices : \E list \in [1 .. n -> Services] : DirectoryAnswers(list)
  \/ \E i \in Slots : Start(i) \/ FetchPage(i) \/ Fail(i) \/ HandOn(i)
  \/ Return

(***************************************************************************)
(* The caller polls the search until it is over, and each of its requests  *)
(* is answered or runs into the transport's timeout (transport.rs:10).     *)
(***************************************************************************)
Fairness ==
  /\ WF_vars(Begin)
  /\ WF_vars(DirectoryFails)
  /\ \A i \in Slots : /\ WF_vars(Start(i))
                      /\ WF_vars(FetchPage(i) \/ Fail(i))
                      /\ WF_vars(HandOn(i))
  /\ WF_vars(Return)

Spec == Init /\ [][Next]_vars

FairSpec == Spec /\ Fairness
-----------------------------------------------------------------------------
TypeOK ==
  /\ phase \in {"open", "asking", "searching", "returned", "declined"}
  /\ asked \in Asked
  /\ services \in Seq(Services)
  /\ status \in [Slots -> Status]
  /\ found \in [Slots -> Nat]
  /\ started \in 0 .. Len(services)
  /\ results \in Seq([service : Services, issue : BOOLEAN, count : Nat])

(***************************************************************************)
(* buffered(concurrency) bounds not only the Services asked at a time but  *)
(* also the results that wait for an earlier Service: a slow first Service *)
(* cannot make the search hold the results of all the others.              *)
(***************************************************************************)
WindowBound ==
  /\ started - Len(results) <= MaximumConcurrency
  /\ phase \in {"searching", "returned"} => started - Len(results) <= concurrency

(***************************************************************************)
(* A Service is reported on with everything the bounds allow, or with an   *)
(* issue: no failure on a later page passes part of a catalogue off as     *)
(* the whole.                                                              *)
(***************************************************************************)
NoSilentTruncation ==
  \A i \in 1 .. Len(results) :
    ~results[i].issue => Whole(i, results[i].count)

(***************************************************************************)
(* The search implements OrderedReport: one outcome for each Service, in   *)
(* the order of the Directory's answer whatever the order in which they    *)
(* complete, the failure of one taking none of the others with it.         *)
(***************************************************************************)
Promise == INSTANCE OrderedReport WITH
             phase <- IF phase = "asking" THEN "open" ELSE phase,
             report <- results

ImplementsOrderedReport == Promise!Spec

(***************************************************************************)
(* A search that was begun returns or is declined, although some Services  *)
(* fail and results wait for one another.                                  *)
(***************************************************************************)
SearchEnds == phase = "open" ~> phase \in {"returned", "declined"}
=============================================================================
