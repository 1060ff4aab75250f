---------------------------- MODULE OrderedReport ----------------------------
(***************************************************************************)
(* What Agent::search_offerings_across_services promises its caller        *)
(* (README.md: "Federated Agent discovery searches Services concurrently   *)
(* and returns results in Directory order.  A failure from one Service     *)
(* becomes an issue event instead of discarding other results"), with      *)
(* nothing of how: the Services of the Directory's answer are reported on  *)
(* one after another, each with its offerings or with one issue, and the   *)
(* search returns when each has been reported on.                          *)
(***************************************************************************)
EXTENDS Integers, Sequences

CONSTANTS
  Services,           \* what the Directory may name
  Catalogue,          \* Catalogue[s]: how many offerings s lists
  MaximumServices,    \* how many the caller can have asked for
  MaximumOfferings    \* and how many offerings of each

VARIABLES
  phase,     \* "open", "searching", "returned" or "declined"
  services,  \* the Directory's answer
  report     \* one outcome per Service reported on

vars == <<phase, services, report>>

\* What may be said of s: an issue, or its first count offerings.
Outcomes(s) ==
  {o \in [service : {s}, issue : BOOLEAN, count : 0 .. MaximumOfferings] :
     o.count <= (IF o.issue THEN 0 ELSE Catalogue[s])}

Init == phase = "open" /\ services = <<>> /\ report = <<>>

Decline == phase = "open" /\ phase' = "declined" /\ UNCHANGED <<services, report>>

Ask ==
  /\ phase = "open"
  /\ phase' = "searching"
  /\ services' \in Seq(Services)
  /\ Len(services') <= MaximumServices
  /\ UNCHANGED report

Report ==
  /\ phase = "searching"
  /\ Len(report) < Len(services)
  /\ \E o \in Outcomes(services[Len(report) + 1]) : report' = Append(report, o)
  /\ UNCHANGED <<phase, services>>

Return ==
  /\ phase = "searching"
  /\ Len(report) = Len(services)
  /\ phase' = "returned"
  /\ UNCHANGED <<services, report>>

Next ==
  \/ Decline
  \/ Ask
  \/ Report
  \/ Return

Spec == Init /\ [][Next]_vars
=============================================================================
