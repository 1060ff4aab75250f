----------------------------- MODULE AgentCache ------------------------------
(***************************************************************************)
(* The conditional-request cache of an Agent: ServiceClient::request_cached *)
(* and ServiceClient::supporting_resource (odp-agent/src/client.rs) over   *)
(* the shared MemoryCache.                                                 *)
(*                                                                         *)
(* A call reads the cache and the clock in one go, then awaits the origin, *)
(* and only then writes the cache.  Calls run concurrently, the clock and  *)
(* the origin's representations move while a call is awaiting, and the     *)
(* record a call revalidates is the clone it took when it began.           *)
(*                                                                         *)
(* Redirects and content are abstracted: an answer is the representation   *)
(* (whom it was made for, and its version) and the header fields that      *)
(* decide freshness.  Clocks of agent and origin agree and do not go back. *)
(***************************************************************************)
EXTENDS MemoryCache

CONSTANTS
  Tasks,       \* concurrent calls
  Requests,    \* the requests that calls may make
  Headers,     \* the header fields an origin may answer with
  Targets,     \* what an origin versions: a URL
  MaxVersion,  \* bound on the versions an origin publishes
  MaxTime      \* bound on the clock

Absent == -1       \* a header field that is not there
Unreadable == -2   \* a max-age that is no number, an Expires field that is no HTTP date

Versions == 1 .. MaxVersion

(***************************************************************************)
(* class is "odp" for request_cached, or the resource class of             *)
(* supporting_resource, whose requests are anonymous GETs without language *)
(* or body.  fallback is the lifetime assumed for a response that carries  *)
(* no freshness: CacheFallbacks, or zero for a manual continuation.        *)
(***************************************************************************)
Request == [partition : STRING, class : STRING, method : {"GET", "POST"},
            target : Targets, language : STRING, body : STRING, fallback : Nat]

\* vary: the key carries all that Vary names; validator: there is an ETag or
\* a Last-Modified date.
Header == [noStore : BOOLEAN, noCache : BOOLEAN, vary : BOOLEAN, validator : BOOLEAN,
           maxAge : Nat \cup {Absent, Unreadable}, age : Nat, expires : Nat \cup {Absent, Unreadable}]

ASSUME AgentAssumption ==
  /\ Requests \subseteq Request
  /\ Headers \subseteq Header
  /\ MaxVersion \in Nat \ {0}
  /\ MaxTime \in Nat

VARIABLES
  now,       \* the clock
  version,   \* version[u]: the version of u the origin serves now
  pc,        \* pc[t]: "idle", "sent" or "answered"
  request,   \* request[t]: what t asks for
  started,   \* started[t]: the clock when t began its call
  cached,    \* cached[t]: the clone of the record t took when it began
  answer,    \* answer[t]: the origin's answer in flight to t
  result,    \* what the step just taken returned to a caller, if it did
  granted    \* history: until when the origin let r's version v be reused

vars == <<cache, now, version, pc, request, started, cached, answer, result, granted>>
-----------------------------------------------------------------------------
(***************************************************************************)
(* Keys and representations.                                               *)
(***************************************************************************)

\* What the origin's answer depends on.  The partition stands for the
\* authentication context, which the request's credentials carry.
Selector(r) == <<r.partition, r.class, r.method, r.target, r.language, r.body>>

\* Mutant of CacheKey: a manual continuation shares the record of a bounded one.
CacheKeyAnyFallback(r) == Selector(r)

\* "{cache_key}\n{fallback}", or "{partition}:{class}\nGET\n{target}\n{accept}".
CacheKey(r) == IF r.class = "odp" THEN <<Selector(r), r.fallback>> ELSE <<Selector(r)>>

Keys == {CacheKey(r) : r \in Requests}

Body == [selector : {Selector(r) : r \in Requests}, version : Versions]

CurrentBody(r) == [selector |-> Selector(r), version |-> version[r.target]]

Record == [body : Body, validator : BOOLEAN, stored_at : Nat, expires_at : Nat]

\* An answer in flight.  body is what the origin held when it answered, or what
\* its 304 confirms without carrying it.  Of a misguided answer only the status
\* matters.
Answer == [status : {"ok", "notModified"}, body : Body, headers : Headers]
            \cup [status : {"refused"}]

\* What a call returns, with the request and the moment it was made good.
Result == [freshness : {"fresh", "fetched", "revalidated"},
           request : Requests, body : Body, confirmed : Body, at : Nat]

ASSUME NoneAssumption == None \notin Record \cup Answer \cup Result \cup Requests
-----------------------------------------------------------------------------
(***************************************************************************)
(* Freshness arithmetic.                                                   *)
(***************************************************************************)
Larger(a, b) == IF a >= b THEN a ELSE b

explicit_freshness(h) == h.maxAge # Absent \/ h.expires # Absent

has_freshness(h) == explicit_freshness(h) \/ h.noCache \/ h.noStore

\* Mutant of cacheable: Cache-Control: no-store is not looked at.
cacheableIgnoringNoStore(r, h) ==
  /\ h.vary
  /\ \/ r.method = "GET" /\ (r.fallback # 0 \/ h.noCache)
     \/ explicit_freshness(h)

cacheable(r, h) ==
  /\ h.vary
  /\ ~h.noStore
  /\ \/ r.method = "GET" /\ (r.fallback # 0 \/ h.noCache)
     \/ explicit_freshness(h)

\* Mutant of expiration: the time spent in intermediaries is subtracted
\* without saturating.
expirationUnsaturated(h, fallback, from) ==
  IF h.noCache THEN from
  ELSE IF h.maxAge \in Nat THEN from + h.maxAge - h.age
  ELSE IF h.expires \in Nat THEN h.expires
  ELSE from + fallback

expiration(h, fallback, from) ==
  IF h.noCache THEN from
  ELSE IF h.maxAge \in Nat THEN from + Larger(h.maxAge - h.age, 0)
  ELSE IF h.expires \in Nat THEN h.expires
  ELSE from + fallback

revalidated_expiration(h, record, fallback, from) ==
  IF has_freshness(h)
    THEN expiration(h, fallback, from)
    ELSE from + Larger(record.expires_at - record.stored_at, 0)
-----------------------------------------------------------------------------
(***************************************************************************)
(* What the origin says of reuse, by the rules of HTTP caching: a history  *)
(* against which the agent's bookkeeping is judged.                        *)
(***************************************************************************)
GrantedUntil(r, h, at) ==
  IF h.noStore \/ ~h.vary THEN Absent
  ELSE IF h.noCache THEN at
  ELSE IF h.maxAge \in Nat THEN at + Larger(h.maxAge - h.age, 0)
  ELSE IF h.maxAge = Unreadable THEN at    \* RFC 9111, 4.2.1: to be taken as stale
  ELSE IF h.expires \in Nat THEN h.expires
  ELSE IF h.expires = Unreadable THEN at   \* RFC 9111, 5.3: already expired
  ELSE at + r.fallback

\* A 304 without freshness fields leaves the stored response its lifetime.
ConfirmedUntil(r, h, at, record) ==
  IF has_freshness(h)
    THEN GrantedUntil(r, h, at)
    ELSE at + Larger(record.expires_at - record.stored_at, 0)

\* That a grant was given is remembered; when it lapsed no longer matters.
Lapse(until, at) == IF until = Absent \/ until > at THEN until ELSE 0

Grant(r, v, until) ==
  granted' = [granted EXCEPT ![r][v] = Larger(@, Lapse(until, now))]
-----------------------------------------------------------------------------
Init ==
  /\ cache = [k \in Keys |-> None]
  /\ now = 0
  /\ version = [u \in Targets |-> 1]
  /\ pc = [t \in Tasks |-> "idle"]
  /\ request = [t \in Tasks |-> None]
  /\ started = [t \in Tasks |-> 0]
  /\ cached = [t \in Tasks |-> None]
  /\ answer = [t \in Tasks |-> None]
  /\ result = None
  /\ granted = [r \in Requests |-> [v \in Versions |-> Absent]]

Tick ==
  /\ now < MaxTime
  /\ now' = now + 1
  /\ granted' = [r \in Requests |-> [v \in Versions |-> Lapse(granted[r][v], now + 1)]]
  /\ result' = None
  /\ UNCHANGED <<cache, version, pc, request, started, cached, answer>>

Publish(u) ==
  /\ version[u] < MaxVersion
  /\ version' = [version EXCEPT ![u] = @ + 1]
  /\ result' = None
  /\ UNCHANGED <<cache, now, pc, request, started, cached, answer, granted>>
-----------------------------------------------------------------------------
(***************************************************************************)
(* The agent's steps.                                                      *)
(***************************************************************************)

Usable(record) == record # None /\ now < record.expires_at

\* The call ends: its future is consumed and what it held is gone.
Finish(t, outcome) ==
  /\ pc' = [pc EXCEPT ![t] = "idle"]
  /\ request' = [request EXCEPT ![t] = None]
  /\ started' = [started EXCEPT ![t] = 0]
  /\ cached' = [cached EXCEPT ![t] = None]
  /\ answer' = [answer EXCEPT ![t] = None]
  /\ result' = outcome
  /\ UNCHANGED <<now, version, granted>>

ServeFresh(t, r) ==
  LET record == cache[CacheKey(r)] IN
  /\ pc[t] = "idle"
  /\ Usable(record)
  /\ Finish(t, [freshness |-> "fresh", request |-> r, body |-> record.body,
                confirmed |-> record.body, at |-> now])
  /\ UNCHANGED cache

Send(t, r) ==
  /\ pc[t] = "idle"
  /\ ~Usable(cache[CacheKey(r)])
  /\ pc' = [pc EXCEPT ![t] = "sent"]
  /\ request' = [request EXCEPT ![t] = r]
  /\ started' = [started EXCEPT ![t] = now]
  /\ cached' = [cached EXCEPT ![t] = cache[CacheKey(r)]]
  /\ result' = None
  /\ UNCHANGED <<cache, now, version, answer, granted>>

\* The transport fails or times out, or the caller drops the future.
TransportFails(t) ==
  /\ pc[t] \in {"sent", "answered"}
  /\ Finish(t, None)
  /\ UNCHANGED cache
-----------------------------------------------------------------------------
(***************************************************************************)
(* The origin's steps.  It sees the preconditions of a GET: the validators *)
(* of the record the call cloned.  A 304 to a call that sent none names no *)
(* representation; the agent takes it for the one it holds, which RFC 9111 *)
(* (4.3.4) has for records without validators, and so does the history of  *)
(* grants.                                                                 *)
(***************************************************************************)
Conditional(t) ==
  /\ request[t].method = "GET"
  /\ cached[t] # None
  /\ cached[t].validator

Deliver(t, response) ==
  /\ pc' = [pc EXCEPT ![t] = "answered"]
  /\ answer' = [answer EXCEPT ![t] = response]
  /\ result' = None
  /\ UNCHANGED <<cache, now, version, request, started, cached>>

OriginAnswers(t, h) ==
  LET r == request[t] IN
  /\ pc[t] = "sent"
  /\ Deliver(t, [status |-> "ok", body |-> CurrentBody(r), headers |-> h])
  /\ Grant(r, version[r.target], GrantedUntil(r, h, now))

\* A 304 repeats the Vary of the response it confirms.
OriginConfirms(t, h) ==
  LET r == request[t] IN
  /\ pc[t] = "sent"
  /\ cached[t] # None
  /\ Conditional(t) => cached[t].body = CurrentBody(r)
  /\ h.vary
  /\ Deliver(t, [status |-> "notModified", body |-> cached[t].body, headers |-> h])
  /\ Grant(r, cached[t].body.version, ConfirmedUntil(r, h, now, cached[t]))

\* What the agent must refuse: an error status, a redirect it may not follow,
\* the wrong media type, too many bytes or an invalid document; or a 304 to a
\* call that holds no record.
OriginMisanswers(t) ==
  /\ pc[t] = "sent"
  /\ Deliver(t, [status |-> "refused"])
  /\ UNCHANGED granted
-----------------------------------------------------------------------------
(***************************************************************************)
(* The agent takes the answer up.                                          *)
(***************************************************************************)

\* Mutant of CallTime: freshness is counted from the arrival of the answer.
ArrivalTime(t) == now

CallTime(t) == started[t]

Fetched(t) ==
  [body |-> answer[t].body, validator |-> answer[t].headers.validator,
   stored_at |-> CallTime(t),
   expires_at |-> expiration(answer[t].headers, request[t].fallback, CallTime(t))]

\* Mutant of Revalidated: the 304 is applied to whatever the cache now holds.
RevalidatedInPlace(t) ==
  LET held   == cache[CacheKey(request[t])]
      record == IF held = None THEN cached[t] ELSE held
  IN  [record EXCEPT
         !.stored_at = CallTime(t),
         !.expires_at = revalidated_expiration(answer[t].headers, record,
                                               request[t].fallback, CallTime(t))]

Revalidated(t) ==
  [cached[t] EXCEPT
     !.stored_at = CallTime(t),
     !.expires_at = revalidated_expiration(answer[t].headers, cached[t],
                                           request[t].fallback, CallTime(t))]

Outcome(t, how, body) ==
  [freshness |-> how, request |-> request[t], body |-> body,
   confirmed |-> answer[t].body, at |-> now]

ReceiveRepresentation(t) ==
  LET key == CacheKey(request[t]) IN
  /\ pc[t] = "answered"
  /\ answer[t].status = "ok"
  /\ IF cacheable(request[t], answer[t].headers)
       THEN CacheSet(key, Fetched(t))
       ELSE CacheDelete(key)
  /\ Finish(t, Outcome(t, "fetched", answer[t].body))

ReceiveNotModified(t) ==
  LET key == CacheKey(request[t]) IN
  /\ pc[t] = "answered"
  /\ answer[t].status = "notModified"
  /\ IF answer[t].headers.noStore
       THEN CacheDelete(key)
       ELSE CacheSet(key, Revalidated(t))
  /\ Finish(t, Outcome(t, "revalidated", Revalidated(t).body))

ReceiveRefused(t) ==
  /\ pc[t] = "answered"
  /\ answer[t].status = "refused"
  /\ Finish(t, None)
  /\ UNCHANGED cache

Next ==
  \/ Tick
  \/ \E u \in Targets : Publish(u)
  \/ \E t \in Tasks, r \in Requests : ServeFresh(t, r) \/ Send(t, r)
  \/ \E t \in Tasks, h \in Headers :
       OriginAnswers(t, h) \/ OriginConfirms(t, h)
  \/ \E t \in Tasks :
       \/ OriginMisanswers(t)
       \/ TransportFails(t)
       \/ ReceiveRepresentation(t)
       \/ ReceiveNotModified(t)
       \/ ReceiveRefused(t)

Spec == Init /\ [][Next]_vars
-----------------------------------------------------------------------------
TypeOK ==
  /\ cache \in [Keys -> Record \cup {None}]
  /\ now \in Nat
  /\ version \in [Targets -> Versions]
  /\ pc \in [Tasks -> {"idle", "sent", "answered"}]
  /\ request \in [Tasks -> Requests \cup {None}]
  /\ started \in [Tasks -> Nat]
  /\ cached \in [Tasks -> Record \cup {None}]
  /\ answer \in [Tasks -> Answer \cup {None}]
  /\ result \in Result \cup {None}
  /\ granted \in [Requests -> [Versions -> Nat \cup {Absent}]]

(***************************************************************************)
(* A representation returned without asking the origin is one the origin   *)
(* sent in answer to this very request (same authentication context,       *)
(* resource, language, body and fallback), allowed to be stored, and whose *)
(* lifetime, counted from when the origin answered, has not run out - no   *)
(* matter how long answers were under way and which calls raced.           *)
(***************************************************************************)
FreshIsGranted ==
  result # None /\ result.freshness = "fresh"
    => LET r == result.request IN
         /\ result.body.selector = Selector(r)
         /\ result.at < granted[r][result.body.version]

(***************************************************************************)
(* A representation returned as revalidated is the one the origin's 304    *)
(* confirmed, even if other calls replaced, evicted or deleted the record  *)
(* while this call was awaiting.                                           *)
(***************************************************************************)
RevalidatedIsConfirmed ==
  result # None /\ result.freshness = "revalidated"
    => result.body = result.confirmed

\* The origin let r's version v be reused, until then or longer, unless that
\* moment is past.
Covered(r, v, until) ==
  granted[r][v] # Absent /\ (until <= now \/ until <= granted[r][v])

(***************************************************************************)
(* What the cache holds for a request the origin let it store: a response  *)
(* marked no-store, varying on what the key does not carry, refused, or    *)
(* given to another request is never held, and no live record outlives the *)
(* origin's grant.                                                         *)
(***************************************************************************)
HeldWithinGrant ==
  \A r \in Requests :
    LET record == cache[CacheKey(r)] IN
    record # None
      => /\ record.body.selector = Selector(r)
         /\ Covered(r, record.body.version, record.expires_at)

=============================================================================
