-------------------------- MODULE DirectoryTraversal -------------------------
(***************************************************************************)
(* DirectoryClient::search_pages, collect_services and                     *)
(* continue_search_services (odp-directory/src/client.rs): a search is     *)
(* posted to the Directory, whose pages lead on to one another and whose   *)
(* answers may redirect.                                                   *)
(*                                                                         *)
(* A client keeps nothing between its calls, so one call at a time is      *)
(* modelled.  The Directory answers every request as it likes: nothing     *)
(* makes its answers agree with one another.  A record of a page is        *)
(* readable or not, which read_service decides.                            *)
(***************************************************************************)
EXTENDS Integers, Sequences, FiniteSets

CONSTANTS
  None,
  SearchUrl,            \* /v1/services/search
  Home,                 \* the URLs of the Directory's origin, SearchUrl among them
  Named,                \* those of them with a user name or a password
  Away,                 \* URLs of other origins
  Calls,                \* what callers ask for
  Pages,                \* the pages the Directory may answer
  MAXIMUM_REDIRECTS,
  MAXIMUM_TRAVERSAL,
  MAXIMUM_PAGES

Urls == Home \cup Away

Redirect == [kind : {"redirect"}, status : {"moved", "seeOther", "temporary"},
             location : Urls \cup {None}]

\* What consume_response or request_page refuses: a failure, too many bytes,
\* another media type, an envelope, continuation or facets that are invalid.
Unusable == [kind : {"unusable"}]

Answers == Redirect \cup Pages \cup Unusable

ASSUME DirectoryAssumption ==
  /\ SearchUrl \in Home \ Named
  /\ Home \cap Away = {}
  /\ None \notin Urls /\ None \notin Calls
  /\ Calls \subseteq [kind : {"pages", "collect", "continue"}, from : Urls \cup {None},
                      max_items : Nat, max_pages : Nat]
  /\ \A c \in Calls : (c.kind = "continue") <=> (c.from # None)
  /\ Pages \subseteq [kind : {"page"}, records : Seq(BOOLEAN), next : Urls \cup {None}]
  /\ MAXIMUM_REDIRECTS \in Nat
  /\ MAXIMUM_TRAVERSAL \in Nat \ {0}
  /\ MAXIMUM_PAGES \in Nat \ {0}

VARIABLES
  call,       \* the call under way, or None
  method,     \* of the request under way
  body,       \* whether it carries the search
  target,     \* its URL
  redirects,  \* how many led to it
  pages,      \* the pages of the traversal so far
  visited,    \* the continuations it followed
  sends,      \* history: requests of this call
  outcome     \* what the last step returned, if it did

vars == <<call, method, body, target, redirects, pages, visited, sends, outcome>>
-----------------------------------------------------------------------------
bounded(value, maximum) == IF value = 0 THEN maximum ELSE value

maximum_items(c) == bounded(c.max_items, MAXIMUM_TRAVERSAL)
maximum_pages(c) == IF c.kind = "continue" THEN 1 ELSE bounded(c.max_pages, MAXIMUM_PAGES)

OutOfBounds(c) ==
  /\ c.kind # "continue"
  /\ maximum_items(c) > MAXIMUM_TRAVERSAL \/ maximum_pages(c) > MAXIMUM_PAGES

\* The indices of the Services of a page; the others are its issues.
Readable(page) == {k \in DOMAIN page.records : page.records[k]}

\* Mutant of ItemsUpTo: unreadable records count as well.
RecordsUpTo(list, n) == Cardinality(UNION {{k} \X DOMAIN list[k].records : k \in 1 .. n})

\* How many Services the first n pages of a list of pages hold.
ItemsUpTo(list, n) == Cardinality(UNION {{k} \X Readable(list[k]) : k \in 1 .. n})

\* search_pages gives no bound on items to traverse.
\* Mutant of Enough: one page more than is wanted.
EnoughLater(c, list) == c.kind = "collect" /\ ItemsUpTo(list, Len(list)) > maximum_items(c)

Enough(c, list) == c.kind = "collect" /\ ItemsUpTo(list, Len(list)) >= maximum_items(c)

Finished(c, list) ==
  \/ list[Len(list)].next = None
  \/ Len(list) >= maximum_pages(c)
  \/ Enough(c, list)

\* What continuation_url lets through.
SameOrigin(u) == u \in Home \ Named
-----------------------------------------------------------------------------
Init ==
  /\ call = None /\ method = "GET" /\ body = FALSE /\ target = None
  /\ redirects = 0 /\ pages = <<>> /\ visited = {} /\ sends = 0
  /\ outcome = None

\* The call returns, and what it held is gone.
Return(result) ==
  /\ call' = None /\ method' = "GET" /\ body' = FALSE /\ target' = None
  /\ redirects' = 0 /\ pages' = <<>> /\ visited' = {} /\ sends' = 0
  /\ outcome' = result

Failed == [status |-> "failed", call |-> call]

Get(u) == method' = "GET" /\ body' = FALSE /\ target' = u /\ redirects' = 0

Begin(c) ==
  /\ call = None
  /\ IF OutOfBounds(c) \/ (c.kind = "continue" /\ ~SameOrigin(c.from))
     THEN Return([status |-> "failed", call |-> c])
     ELSE /\ call' = c
          /\ IF c.kind = "continue"
             THEN Get(c.from)
             ELSE method' = "POST" /\ body' = TRUE /\ target' = SearchUrl /\ redirects' = 0
          /\ sends' = 1
          /\ outcome' = None
          /\ UNCHANGED <<pages, visited>>

\* Mutant of Followed: any redirect is followed.
FollowedAnywhere(answer) == answer.location # None

\* Mutant of Followed: a redirect without a location is not refused.
FollowedUnlessAway(answer) == answer.location \notin Away

\* Unlike a continuation, a redirect may carry a user name or a password.
Followed(answer) == answer.location # None /\ answer.location \in Home

\* Mutant of Allowed: redirects are not counted for a search that is posted.
AllowedWhilePosting == redirects # MAXIMUM_REDIRECTS \/ method = "POST"

Allowed == redirects # MAXIMUM_REDIRECTS

TurnsIntoGet(answer) ==
  answer.status = "seeOther" \/ (answer.status = "moved" /\ method = "POST")

\* Mutant of FollowRedirect: it is not counted.
FollowRedirectUncounted(answer) ==
  /\ answer.kind = "redirect"
  /\ Allowed
  /\ Followed(answer)
  /\ method' = IF TurnsIntoGet(answer) THEN "GET" ELSE method
  /\ body' = (body /\ ~TurnsIntoGet(answer))
  /\ target' = answer.location
  /\ outcome' = None
  /\ UNCHANGED <<call, redirects, pages, visited, sends>>

FollowRedirect(answer) ==
  /\ answer.kind = "redirect"
  /\ Allowed
  /\ Followed(answer)
  /\ method' = IF TurnsIntoGet(answer) THEN "GET" ELSE method
  /\ body' = (body /\ ~TurnsIntoGet(answer))
  /\ target' = answer.location
  /\ redirects' = redirects + 1
  /\ sends' = sends + 1
  /\ outcome' = None
  /\ UNCHANGED <<call, pages, visited>>

RefuseRedirect(answer) ==
  /\ answer.kind = "redirect"
  /\ ~Allowed \/ ~Followed(answer)
  /\ Return(Failed)

RefuseAnswer(answer) ==
  /\ answer.kind = "unusable"
  /\ Return(Failed)

\* collect_services keeps the first maximum_items Services of its pages.
Collected(c, list) ==
  [k \in 1 .. Len(list) |->
     {j \in Readable(list[k]) :
        ItemsUpTo(list, k - 1) + Cardinality({i \in Readable(list[k]) : i <= j})
          <= maximum_items(c)}]

Returned(c, list) ==
  [status |-> "returned", call |-> c, pages |-> list,
   services |-> IF c.kind = "collect" THEN Collected(c, list)
                ELSE [k \in 1 .. Len(list) |-> Readable(list[k])]]

\* Mutant of Seen: only a page that leads to itself is a loop.
SeenJustNow(u) == u = target

Seen(u) == u \in visited

TakePage(answer) ==
  LET list == Append(pages, answer) IN
  /\ answer.kind = "page"
  /\ IF Finished(call, list) THEN Return(Returned(call, list))
     ELSE IF ~SameOrigin(answer.next) \/ Seen(answer.next) THEN Return(Failed)
     ELSE /\ Get(answer.next)
          /\ pages' = list
          /\ visited' = visited \cup {answer.next}
          /\ sends' = sends + 1
          /\ outcome' = None
          /\ UNCHANGED call

TransportFails == call # None /\ Return(Failed)

Receive ==
  /\ call # None
  /\ \E answer \in Answers :
       \/ FollowRedirect(answer)
       \/ RefuseRedirect(answer)
       \/ RefuseAnswer(answer)
       \/ TakePage(answer)

Next ==
  \/ \E c \in Calls : Begin(c)
  \/ Receive
  \/ TransportFails

Spec == Init /\ [][Next]_vars

(***************************************************************************)
(* The caller polls its call, and each request is answered or runs into    *)
(* the transport's timeout (transport.rs:10).                              *)
(***************************************************************************)
FairSpec == Spec /\ WF_vars(Receive \/ TransportFails)
-----------------------------------------------------------------------------
TypeOK ==
  /\ call \in Calls \cup {None}
  /\ method \in {"GET", "POST"}
  /\ body \in BOOLEAN
  /\ target \in Urls \cup {None}
  /\ redirects \in 0 .. MAXIMUM_REDIRECTS
  /\ pages \in Seq(Pages)
  /\ visited \subseteq Urls
  /\ sends \in Nat
  /\ call # None => target # None

(***************************************************************************)
(* A search goes to the Directory's own origin and nowhere else, however   *)
(* continuations and redirects follow one another, and what is searched    *)
(* for is sent with a POST and never with the GET that a redirect makes of *)
(* it.                                                                     *)
(***************************************************************************)
StaysHome == target \in Home \cup {None} /\ (body <=> method = "POST")

\* The Services of a list of pages: a page of the list and a record of it.
Met(list) ==
  UNION {{k} \X {j \in DOMAIN list[k].records : list[k].records[j]} : k \in DOMAIN list}

(***************************************************************************)
(* "A page is only fetched when something still wants it" (client.rs:147): *)
(* while a page is asked for, neither bound has been reached by the pages  *)
(* before it, unreadable records counting for nothing.                     *)
(***************************************************************************)
StillWanted ==
  call # None =>
    /\ Len(pages) < maximum_pages(call)
    /\ call.kind = "collect" =>
         Cardinality(Met(pages)) < maximum_items(call)

(***************************************************************************)
(* "A cursor that repeats is refused rather than followed" (client.rs:148) *)
(* through however long a cycle: the pages of one traversal lead to as     *)
(* many different continuations.                                           *)
(***************************************************************************)
NoCursorTwice ==
  \A j, k \in DOMAIN pages : pages[j].next = pages[k].next => j = k

(***************************************************************************)
(* A call costs the Directory no more requests than its pages, each with   *)
(* the redirects a request may have.                                       *)
(***************************************************************************)
RequestBound ==
  call # None => sends <= maximum_pages(call) * (MAXIMUM_REDIRECTS + 1)

(***************************************************************************)
(* What collect_services returns are the Services it met, in order, up to  *)
(* the bound; if fewer, the last page is the last there is or the last     *)
(* that was allowed.                                                       *)
(***************************************************************************)
CollectsAll ==
  outcome # None /\ outcome.status = "returned" /\ outcome.call.kind = "collect" =>
    LET list  == outcome.pages
        met   == Met(list)
        taken == {x \in met : x[2] \in outcome.services[x[1]]}
        Before(x, y) == x[1] < y[1] \/ (x[1] = y[1] /\ x[2] < y[2])
    IN  /\ \A x \in met, y \in taken : Before(x, y) => x \in taken
        /\ Cardinality(taken) <= maximum_items(outcome.call)
        /\ Cardinality(taken) < maximum_items(outcome.call) =>
             /\ taken = met
             /\ list[Len(list)].next = None \/ Len(list) = maximum_pages(outcome.call)

(***************************************************************************)
(* Every call returns, whatever the Directory answers.                     *)
(***************************************************************************)
CallEnds == call # None ~> call = None
=============================================================================
