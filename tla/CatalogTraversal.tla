-------------------------- MODULE CatalogTraversal ---------------------------
(***************************************************************************)
(* ServiceClient::list_all_offerings and list_all_collections (odp-agent/  *)
(* src/client.rs), traversing the lists of a StaticCatalog: pages come     *)
(* from the agent's cache or from whichever process serves when the        *)
(* request arrives, and each page names the next.                          *)
(*                                                                         *)
(* The cache is AgentCache seen by one kind of request: a page is kept for *)
(* the fallback lifetime, since the service sends no freshness fields,     *)
(* from the moment it was asked for, and may leave at any time to make     *)
(* room.  A revalidated page is the page the process would have answered,  *)
(* for the entity tag is a digest of its body.                             *)
(***************************************************************************)
EXTENDS StaticCatalog

CONSTANTS
  Walkers,        \* concurrent traversals
  Calls,          \* the traversals callers ask for
  Fallback,       \* CacheFallbacks, for every list
  MaximumItems,   \* MAX_TRAVERSAL_ITEMS
  MaximumPages    \* MAX_TRAVERSAL_PAGES

ASSUME TraversalAssumption ==
  /\ Calls \subseteq [path : Paths, limit : Nat, representation : Representations,
                      max_items : Nat, max_pages : Nat]
  /\ MaximumItems \in Nat \ {0}
  /\ MaximumPages \in Nat \ {0}

\* The defaults: a page is kept no longer than its continuation lives (an hour
\* for Collections, five minutes for Offerings).
ASSUME FallbackAssumption == Fallback \in 0 .. Lifetime

VARIABLES
  pages,    \* pages[url]: the cached page and when it ceases to be fresh
  pc,       \* pc[w]: "idle", "asking", "sent" or "answered"
  call,     \* call[w]: what w was asked to list
  url,      \* url[w]: the page w is after
  sent,     \* sent[w]: the clock when w sent its request
  answer,   \* answer[w]: the answer on its way to w
  items,    \* items[w]: what w has collected
  taken,    \* taken[w]: the pages w has drained
  outcome,  \* what the step just taken returned to a caller, if it did
  aged      \* history: continuations a process refused as expired

walkerVars == <<pc, call, url, sent, answer, items, taken>>
vars == <<now, process, pages, walkerVars, outcome, aged>>
-----------------------------------------------------------------------------
\* traversal_bounds
maximum_items(c) == IF c.max_items = 0 THEN MaximumItems ELSE c.max_items
maximum_pages(c) == IF c.max_pages = 0 THEN MaximumPages ELSE c.max_pages
OutOfBounds(c) == maximum_items(c) > MaximumItems \/ maximum_pages(c) > MaximumPages

FirstUrl(c) == Url(c.path, c.limit, c.representation, None)

Fresh(u) == u \in DOMAIN pages /\ now < pages[u].expires_at

Init ==
  /\ CatalogInit
  /\ pages = <<>>
  /\ pc = [w \in Walkers |-> "idle"]
  /\ call = [w \in Walkers |-> None]
  /\ url = [w \in Walkers |-> None]
  /\ sent = [w \in Walkers |-> 0]
  /\ answer = [w \in Walkers |-> None]
  /\ items = [w \in Walkers |-> <<>>]
  /\ taken = [w \in Walkers |-> 0]
  /\ outcome = None
  /\ aged = {}

Forget(gone) == pages' = [u \in DOMAIN pages \ gone |-> pages[u]]

\* A page past its time is left out of account: it only lends its validators
\* to a request whose answer is the process's all the same.
Tick ==
  /\ Clock
  /\ Forget({u \in DOMAIN pages : pages[u].expires_at <= now'})
  /\ outcome' = None
  /\ UNCHANGED <<walkerVars, aged>>

Replace ==
  /\ Restart
  /\ outcome' = None
  /\ UNCHANGED <<pages, walkerVars, aged>>

\* The cache makes room, or another Agent process starts with an empty one.
Evict(u) ==
  /\ u \in DOMAIN pages
  /\ Forget({u})
  /\ outcome' = None
  /\ UNCHANGED <<now, process, walkerVars, aged>>
-----------------------------------------------------------------------------
Start(w, c) ==
  /\ pc[w] = "idle"
  /\ pc' = [pc EXCEPT ![w] = "asking"]
  /\ call' = [call EXCEPT ![w] = c]
  /\ url' = [url EXCEPT ![w] = FirstUrl(c)]
  /\ outcome' = None
  /\ UNCHANGED <<now, process, pages, sent, answer, items, taken, aged>>

Send(w) ==
  /\ pc[w] = "asking"
  /\ ~Fresh(url[w])
  /\ pc' = [pc EXCEPT ![w] = "sent"]
  /\ sent' = [sent EXCEPT ![w] = now]
  /\ outcome' = None
  /\ UNCHANGED <<now, process, pages, call, url, answer, items, taken, aged>>

Serve(w) ==
  LET reply == Answer(url[w]) IN
  /\ pc[w] = "sent"
  /\ pc' = [pc EXCEPT ![w] = "answered"]
  /\ answer' = [answer EXCEPT ![w] = reply]
  /\ aged' = IF reply.status = "EXPIRED" THEN aged \cup {url[w]} ELSE aged
  /\ outcome' = None
  /\ UNCHANGED <<now, process, pages, call, url, sent, items, taken>>
-----------------------------------------------------------------------------
\* The call returns, and what it held is gone.
Finish(w, result) ==
  /\ pc' = [pc EXCEPT ![w] = "idle"]
  /\ call' = [call EXCEPT ![w] = None]
  /\ url' = [url EXCEPT ![w] = None]
  /\ sent' = [sent EXCEPT ![w] = 0]
  /\ answer' = [answer EXCEPT ![w] = None]
  /\ items' = [items EXCEPT ![w] = <<>>]
  /\ taken' = [taken EXCEPT ![w] = 0]
  /\ outcome' = result

Returned(w, list, drained) ==
  [status |-> "returned", call |-> call[w], items |-> list, pages |-> drained]

Failed(w) == [status |-> "failed", call |-> call[w]]

\* collect_offerings: drain the page up to the caller's bound, then return, or
\* go on to the next page.
Collect(w, p) ==
  LET room == maximum_items(call[w]) - Len(items[w])
      list == items[w] \o SubSeq(p.items, 1, Smaller(room, Len(p.items)))
      more == /\ Len(list) # maximum_items(call[w])
              /\ p.next # None
              /\ taken[w] + 1 < maximum_pages(call[w])
  IN  IF OutOfBounds(call[w]) THEN Finish(w, Failed(w))
      ELSE IF ~more THEN Finish(w, Returned(w, list, taken[w] + 1))
      ELSE /\ pc' = [pc EXCEPT ![w] = "asking"]
           /\ url' = [url EXCEPT ![w] = p.next]
           /\ sent' = [sent EXCEPT ![w] = 0]
           /\ answer' = [answer EXCEPT ![w] = None]
           /\ items' = [items EXCEPT ![w] = list]
           /\ taken' = [taken EXCEPT ![w] = @ + 1]
           /\ outcome' = None
           /\ UNCHANGED call

TakeCached(w) ==
  /\ pc[w] = "asking"
  /\ Fresh(url[w])
  /\ Collect(w, pages[url[w]].page)
  /\ UNCHANGED <<now, process, pages, aged>>

\* Mutant of CallTime: freshness is counted from the arrival of the page.
ArrivalTime(w) == now

CallTime(w) == sent[w]

Keep(w) ==
  IF Fallback = 0 THEN UNCHANGED pages
  ELSE pages' = [u \in DOMAIN pages \cup {url[w]} |->
                   IF u = url[w] THEN [page |-> answer[w], expires_at |-> CallTime(w) + Fallback]
                                 ELSE pages[u]]

Receive(w) ==
  /\ pc[w] = "answered"
  /\ answer[w].status = "ok"
  /\ Keep(w)
  /\ Collect(w, answer[w])
  /\ UNCHANGED <<now, process, aged>>

\* Mutant of ReceiveError: the page is asked for again.
ReceiveErrorRetrying(w) ==
  /\ pc[w] = "answered"
  /\ answer[w].status # "ok"
  /\ pc' = [pc EXCEPT ![w] = "asking"]
  /\ answer' = [answer EXCEPT ![w] = None]
  /\ sent' = [sent EXCEPT ![w] = 0]
  /\ outcome' = None
  /\ UNCHANGED <<now, process, pages, call, url, items, taken, aged>>

ReceiveError(w) ==
  /\ pc[w] = "answered"
  /\ answer[w].status # "ok"
  /\ Finish(w, Failed(w))
  /\ UNCHANGED <<now, process, pages, aged>>

\* The transport fails or times out.
TransportFails(w) ==
  /\ pc[w] = "sent"
  /\ Finish(w, Failed(w))
  /\ UNCHANGED <<now, process, pages, aged>>

Next ==
  \/ Tick
  \/ Replace
  \/ \E u \in DOMAIN pages : Evict(u)
  \/ \E w \in Walkers, c \in Calls : Start(w, c)
  \/ \E w \in Walkers :
       \/ Send(w)
       \/ Serve(w)
       \/ TakeCached(w)
       \/ Receive(w)
       \/ ReceiveError(w)
       \/ TransportFails(w)

Spec == Init /\ [][Next]_vars

(***************************************************************************)
(* The caller polls its traversal, and every request is answered or runs   *)
(* into the transport's timeout.                                           *)
(***************************************************************************)
Fairness ==
  \A w \in Walkers :
    /\ WF_vars(Send(w) \/ TakeCached(w))
    /\ WF_vars(Serve(w) \/ TransportFails(w))
    /\ WF_vars(Receive(w) \/ ReceiveError(w))

FairSpec == Spec /\ Fairness
-----------------------------------------------------------------------------
Outcome == [status : {"returned"}, call : Calls, items : Seq(Item), pages : Nat]
             \cup [status : {"failed"}, call : Calls]

TypeOK ==
  /\ now \in 0 .. MaxTime
  /\ process \in Processes
  /\ DOMAIN pages \subseteq Urls
  /\ \A u \in DOMAIN pages : pages[u] \in [page : Reply, expires_at : Nat]
  /\ pc \in [Walkers -> {"idle", "asking", "sent", "answered"}]
  /\ call \in [Walkers -> Calls \cup {None}]
  /\ url \in [Walkers -> Urls \cup {None}]
  /\ sent \in [Walkers -> Nat]
  /\ answer \in [Walkers -> Reply \cup {None}]
  /\ items \in [Walkers -> Seq(Item)]
  /\ taken \in [Walkers -> Nat]
  /\ outcome \in Outcome \cup {None}
  /\ aged \subseteq Urls

Whole(o, values) ==
  \/ Len(o.items) = Len(values)
  \/ Len(o.items) = maximum_items(o.call)
  \/ o.pages = maximum_pages(o.call)

(***************************************************************************)
(* A traversal that returns gives the beginning of one process's list,     *)
(* without gap or repetition and in the representation asked for, and      *)
(* stops short of its end only at a bound of the traversal: although its   *)
(* pages were cached at different times, and the process and its catalogue *)
(* were replaced between any two of them.                                  *)
(***************************************************************************)
OneCatalogue ==
  outcome # None /\ outcome.status = "returned"
    => \E i \in Processes :
         /\ outcome.call.path \in DOMAIN Listings[i]
         /\ outcome.items = Slice(Listings[i][outcome.call.path], 0, Len(outcome.items),
                                  outcome.call.representation)
         /\ Whole(outcome, Listings[i][outcome.call.path])

(***************************************************************************)
(* "... so an Agent can tell a stale cursor from one that was never valid  *)
(* and restart the traversal deliberately" (static_catalog.rs:379): once a *)
(* continuation was refused as expired, no cached page that is still fresh *)
(* gives it out, so the restarted traversal does not meet it again.  This  *)
(* rests on pages being kept from when they were asked for, and no longer  *)
(* than continuations live.                                                *)
(***************************************************************************)
ExpiredIsForgotten ==
  \A u \in DOMAIN pages : Fresh(u) => pages[u].page.next \notin aged

(***************************************************************************)
(* A traversal ends: with what it collected, or with an error that no      *)
(* retry hides.                                                            *)
(***************************************************************************)
TraversalEnds == \A w \in Walkers : pc[w] # "idle" ~> pc[w] = "idle"
=============================================================================
