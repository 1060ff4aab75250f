--------------------------- MODULE CatalogClients ----------------------------
(***************************************************************************)
(* A StaticCatalog before clients that keep continuations they were given   *)
(* and send any of them back with any list, limit and representation, or   *)
(* with a cursor of their own making; across the passing of its lifetime   *)
(* and restarts of the process.                                            *)
(***************************************************************************)
EXTENDS StaticCatalog, FiniteSets

CONSTANTS
  Limits,     \* the limits clients ask for
  MaxIssued   \* bound on the continuations clients keep

ASSUME ClientAssumption == Limits \subseteq Nat /\ MaxIssued \in Nat

VARIABLES
  issued,   \* the continuations clients keep, and when each was given
  reply     \* the request just answered and its answer, if the last step was one

vars == <<now, process, issued, reply>>

\* A cursor no process signed: the client changes where it takes up.
Altered(cursor) == [cursor EXCEPT !.key = Forged, !.offset = 0]

Cursors == LET held == {g.next.cursor : g \in issued} IN
           {None} \cup held \cup {Altered(c) : c \in held}

Init ==
  /\ CatalogInit
  /\ issued = {}
  /\ reply = None

Tick == Clock /\ reply' = None /\ UNCHANGED issued

Replace == Restart /\ reply' = None /\ UNCHANGED issued

Request(path, limit, representation, cursor) ==
  LET url    == Url(path, limit, representation, cursor)
      answer == Answer(url)
      gives  == answer.status = "ok" /\ answer.next # None
  IN  /\ reply' = [url |-> url, answer |-> answer]
      /\ issued' = IF gives /\ Cardinality(issued) < MaxIssued
                     THEN issued \cup {[next |-> answer.next, at |-> now]}
                     ELSE issued
      /\ UNCHANGED <<now, process>>

Next ==
  \/ Tick
  \/ Replace
  \/ \E path \in Paths, limit \in Limits, representation \in Representations,
        cursor \in Cursors : Request(path, limit, representation, cursor)

Spec == Init /\ [][Next]_vars
-----------------------------------------------------------------------------
TypeOK ==
  /\ now \in 0 .. MaxTime
  /\ process \in Processes
  /\ issued \subseteq [next : Urls, at : Nat]
  /\ reply \in [url : Urls, answer : Reply] \cup {None}

(***************************************************************************)
(* "Bounded, expiring, stateless continuations protected against           *)
(* tampering" (odp-service/README.md:11): a page is given for a cursor     *)
(* only if the whole request is a continuation that this catalogue gave    *)
(* out, unaltered (a limit left out is the default limit), and the page    *)
(* goes on in the same list where the page before ended.                   *)
(***************************************************************************)
ContinuesWhatWasIssued ==
  reply # None /\ reply.answer.status = "ok" /\ reply.url.cursor # None
    => LET cursor == reply.url.cursor
           values == Listings[cursor.key][cursor.path]
       IN  /\ reply.url \in {[g.next EXCEPT !.limit = l] : g \in issued, l \in Limits \cup {0}}
           /\ page_limit(reply.url) = cursor.limit
           /\ reply.answer.items =
                Slice(values, cursor.offset, Smaller(cursor.offset + cursor.limit, Len(values)),
                      reply.url.representation)

(***************************************************************************)
(* Every page moves forward: a continuation points strictly past the page  *)
(* that gives it, and never at the end of the list, so that no traversal   *)
(* meets an empty last page or the request it made (service.rs:840).       *)
(***************************************************************************)
ContinuationAdvances ==
  reply # None /\ reply.answer.status = "ok" /\ reply.answer.next # None
    => LET offset == reply.answer.next.cursor.offset IN
         /\ offset = Offset(reply.url) + Len(reply.answer.items)
         /\ Len(reply.answer.items) = page_limit(reply.url)
         /\ offset < Len(Listings[process][reply.url.path])

(***************************************************************************)
(* "A continuation stays usable for an hour"                               *)
(* (odp-service/src/static_catalog.rs:424): sent back as it was given,     *)
(* within its lifetime, it is answered.                                    *)
(***************************************************************************)
UsableForItsLifetime ==
  reply # None /\ reply.answer.status # "ok"
    => \A g \in issued : reply.url = g.next => now > g.at + Lifetime

(***************************************************************************)
(* The same while the process that gave it out still serves.               *)
(***************************************************************************)
UsableWhileProcessLives ==
  reply # None /\ reply.answer.status # "ok"
    => \A g \in issued :
         reply.url = g.next /\ g.next.cursor.key = process => now > g.at + Lifetime

(***************************************************************************)
(* "An Agent can tell a stale cursor from one that was never valid"        *)
(* (static_catalog.rs:379), as far as the process can: of the cursors it   *)
(* signed itself, one presented with its own request is refused only for   *)
(* its age, and no other is ever called expired.                           *)
(***************************************************************************)
ExpiredMeansAged ==
  reply # None /\ reply.answer.status = "EXPIRED"
    => \E g \in issued : /\ g.next.cursor = reply.url.cursor
                        /\ g.next.cursor.key = process
                        /\ now > g.at + Lifetime
=============================================================================
