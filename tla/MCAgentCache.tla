---------------------------- MODULE MCAgentCache -----------------------------
(***************************************************************************)
(* Small instances of AgentCache over one URL.                             *)
(*   Race: two calls at a time, one by request_cached and one by           *)
(*   supporting_resource, with a fallback lifetime, for three records in a *)
(*   cache of two.                                                         *)
(*   Breadth: one call at a time, which searches, reads with a fallback,   *)
(*   or continues manually without one; every kind of answer.              *)
(***************************************************************************)
EXTENDS AgentCache, TLC

CONSTANTS t1, t2, u1

RaceTasks == {t1, t2}
BreadthTasks == {t1}
MCTargets == {u1}

Ask(class, method, language, fallback) ==
  [partition |-> "p", class |-> class, method |-> method, target |-> u1,
   language |-> language, body |-> "", fallback |-> fallback]

RaceRequests == {Ask("odp", "GET", "en", 1), Ask("odp", "GET", "fr", 1),
                 Ask("schema", "GET", "", 1)}

BreadthRequests == {Ask("odp", "POST", "en", 0), Ask("odp", "GET", "en", 0),
                    Ask("odp", "GET", "en", 2)}

Plain == [noStore |-> FALSE, noCache |-> FALSE, vary |-> TRUE, validator |-> TRUE,
          maxAge |-> Absent, age |-> 0, expires |-> Absent]

RaceHeaders == {Plain, [Plain EXCEPT !.noStore = TRUE]}

BreadthHeaders == {Plain,
                   [Plain EXCEPT !.noCache = TRUE],
                   [Plain EXCEPT !.vary = FALSE, !.maxAge = 2],
                   [Plain EXCEPT !.maxAge = 1],
                   [Plain EXCEPT !.maxAge = 1, !.age = 2],
                   [Plain EXCEPT !.expires = 2, !.validator = FALSE]}

RaceSymmetry == Permutations(RaceTasks)
-----------------------------------------------------------------------------
\* A date no parser accepts, such as the customary "Expires: 0", and a max-age
\* that is no number.
UnreadableHeaders == {[Plain EXCEPT !.expires = Unreadable], [Plain EXCEPT !.maxAge = Unreadable]}

(***************************************************************************)
(* "CCH-04: a fallback never overrides what the Service said"              *)
(* (odp-agent/tests/caching_conformance.rs:59).  Where every answer        *)
(* carries an Expires field that is no date, or a max-age that is no       *)
(* number, and so is stale as RFC 9111 reads it, no record is ever fresh.  *)
(***************************************************************************)
FallbackNeverOverrides ==
  \A r \in Requests :
    LET record == cache[CacheKey(r)] IN
    Usable(record) => record.expires_at <= granted[r][record.body.version]
=============================================================================
