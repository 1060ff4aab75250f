------------------------ MODULE CatalogClientsProofs -------------------------
(***************************************************************************)
(* That a catalogue which keeps no record of its continuations honours     *)
(* those it gave out and no others, for every catalogue, every limit and   *)
(* any number of clients, continuations and restarts.                      *)
(***************************************************************************)
EXTENDS CatalogClients, SequenceTheorems, TLAPS

(***************************************************************************)
(* What a client keeps was signed by one of the processes, for the request *)
(* that it stands in, and points into that process's list.                 *)
(***************************************************************************)
SignedFor(next, at) ==
  LET cursor == next.cursor IN
  /\ cursor \in Cursor
  /\ cursor.key \in Processes
  /\ cursor.expires = at + Lifetime
  /\ cursor.limit = next.limit /\ next.limit \in 1 .. MaximumLimit
  /\ cursor.path = next.path
  /\ cursor.representation = next.representation
  /\ cursor.path \in DOMAIN Listings[cursor.key]
  /\ cursor.offset < Len(Listings[cursor.key][cursor.path])

IssuedAreSigned == \A g \in issued : SignedFor(g.next, g.at)

IInv ==
  /\ TypeOK
  /\ IssuedAreSigned
  /\ ContinuesWhatWasIssued
  /\ ContinuationAdvances
  /\ UsableWhileProcessLives
  /\ ExpiredMeansAged
-----------------------------------------------------------------------------
LEMMA ListingsAreSequences ==
  ASSUME NEW i \in Processes, NEW path \in DOMAIN Listings[i]
  PROVE  Listings[i][path] \in Seq(Ids) /\ path \in Paths
BY CatalogAssumption DEF CatalogAssumption, Paths

LEMMA NumbersAreNatural ==
  /\ Processes \subseteq Nat /\ Forged \notin Processes
  /\ DefaultLimit \in 1 .. MaximumLimit /\ MaximumLimit \in Nat
  /\ Lifetime \in Nat /\ MaxTime \in Nat
BY CatalogAssumption, LimitAssumption DEF CatalogAssumption, LimitAssumption, Processes, Forged

\* A cursor is none, or it has the fields a cursor has.
LEMMA UrlFields ==
  ASSUME NEW u \in Urls
  PROVE  /\ u.path \in Paths /\ u.limit \in Nat /\ u.representation \in Representations
         /\ Offset(u) \in Nat /\ page_limit(u) \in Nat \ {0}
         /\ u.cursor # None => u.cursor \in Cursor
         /\ u.limit <= MaximumLimit => page_limit(u) \in 1 .. MaximumLimit
BY NumbersAreNatural DEF Urls, Cursor, Offset, page_limit

LEMMA SliceProperties ==
  ASSUME NEW v \in Seq(Ids), NEW a \in Nat, NEW b \in Nat, a <= b, b <= Len(v),
         NEW r \in Representations
  PROVE  Slice(v, a, b, r) \in Seq(Item) /\ Len(Slice(v, a, b, r)) = b - a
<1> DEFINE e(k) == [id |-> v[a + k], representation |-> r]
<1>1. b - a \in Nat
  OBVIOUS
<1>2. \A k \in 1 .. b - a : e(k) \in Item
  BY DEF Item
<1> HIDE DEF e
<1>3. [k \in 1 .. b - a |-> e(k)] \in Seq(Item)
  BY <1>1, <1>2, IsASeq
<1>4. Len([k \in 1 .. b - a |-> e(k)]) = b - a
  BY <1>1
<1> QED BY <1>3, <1>4 DEF Slice, e
-----------------------------------------------------------------------------
(***************************************************************************)
(* What decode_cursor, catalog_request and page make of a request.         *)
(***************************************************************************)
\* The list goes on where the request says, within the page's bounds.
Served(u) ==
  /\ u.limit <= MaximumLimit
  /\ u.path \in DOMAIN Listings[process]
  /\ u.cursor # None => /\ Signed(u.cursor) /\ ~Expired(u.cursor) /\ Bound(u.cursor, u)
                        /\ u.cursor.offset <= Len(Listings[process][u.path])

LEMMA AnswerIsServed ==
  ASSUME NEW u \in Urls, process \in Processes
  PROVE  /\ Served(u) => Answer(u) = page(u)
         /\ ~Served(u) => Answer(u) \in [status : {"INVALID_REQUEST", "NOT_FOUND", "UNAVAILABLE", "EXPIRED"}]
         /\ Answer(u).status = "ok" <=> Served(u)
         /\ Answer(u).status = "EXPIRED" =>
              u.cursor # None /\ Signed(u.cursor) /\ Expired(u.cursor)
<1>1. page(u).status = "ok"
  BY DEF page
<1>2. /\ u.limit \in Nat /\ MaximumLimit \in Nat
      /\ u.cursor # None => u.cursor.offset \in Nat
      /\ u.path \in DOMAIN Listings[process] => Len(Listings[process][u.path]) \in Nat
  BY UrlFields, NumbersAreNatural, ListingsAreSequences DEF Cursor
<1>3. CASE Served(u)
  <2>1. Answer(u) = page(u)
    BY <1>2, <1>3 DEF Served, Answer
  <2> QED BY <1>1, <1>3, <2>1
<1>4. CASE ~Served(u)
  <2>1. /\ Answer(u) \in [status : {"INVALID_REQUEST", "NOT_FOUND", "UNAVAILABLE", "EXPIRED"}]
        /\ Answer(u).status = "EXPIRED" =>
             u.cursor # None /\ Signed(u.cursor) /\ Expired(u.cursor)
    BY <1>2, <1>4 DEF Served, Answer
  <2> QED BY <1>4, <2>1
<1> QED BY <1>3, <1>4

(***************************************************************************)
(* What a page gives out: a continuation signed for the next part of the   *)
(* list, strictly past the items of the page, unless the list ends there.  *)
(***************************************************************************)
LEMMA PageIsWhole ==
  ASSUME NEW u \in Urls, process \in Processes, now \in 0 .. MaxTime, Served(u)
  PROVE  LET p      == page(u)
             values == Listings[process][u.path]
         IN  /\ p \in Reply
             /\ p.items = Slice(values, Offset(u), Smaller(Offset(u) + page_limit(u), Len(values)),
                                u.representation)
             /\ p.next # None => /\ SignedFor(p.next, now)
                                 /\ p.next.cursor.offset = Offset(u) + Len(p.items)
                                 /\ p.next.cursor.offset < Len(values)
                                 /\ Len(p.items) = page_limit(u)
<1> DEFINE values == Listings[process][u.path]
           end    == Smaller(Offset(u) + page_limit(u), Len(values))
<1>1. /\ values \in Seq(Ids) /\ Len(values) \in Nat /\ u.path \in Paths
      /\ u.path \in DOMAIN Listings[process]
  BY ListingsAreSequences DEF Served
<1>2. /\ Offset(u) \in Nat /\ page_limit(u) \in 1 .. MaximumLimit
      /\ u.representation \in Representations /\ now \in Nat
  BY UrlFields, NumbersAreNatural DEF Served
<1>3. Offset(u) <= Len(values)
  BY <1>1 DEF Served, Offset
<1>4. /\ end \in Nat /\ Offset(u) <= end /\ end <= Len(values)
      /\ end < Len(values) => end = Offset(u) + page_limit(u)
  BY <1>1, <1>2, <1>3, NumbersAreNatural DEF Smaller
<1> DEFINE items == Slice(values, Offset(u), end, u.representation)
<1>5. items \in Seq(Item) /\ Len(items) = end - Offset(u)
  BY <1>1, <1>2, <1>4, SliceProperties
<1>6. /\ page(u).status = "ok" /\ page(u).items = items
      /\ page(u).next = IF More(end, values) THEN encode_cursor(u, end) ELSE None
      /\ page(u) = [status |-> "ok", items |-> items, next |-> page(u).next]
  BY DEF page
<1> HIDE DEF items, end, values
<1>7. ASSUME page(u).next # None
      PROVE  /\ page(u).next \in Urls
             /\ SignedFor(page(u).next, now)
             /\ page(u).next.cursor.offset = end
             /\ end < Len(values)
  <2> DEFINE cursor == [key |-> process, expires |-> now + Lifetime, limit |-> page_limit(u),
                        offset |-> end, path |-> u.path, representation |-> u.representation]
  <2>1. end < Len(values) /\ page(u).next = Url(u.path, page_limit(u), u.representation, cursor)
    BY <1>6, <1>7 DEF More, encode_cursor
  <2>2. cursor \in Cursor
    BY <1>1, <1>2, <1>4, NumbersAreNatural DEF Cursor
  <2>3. /\ page(u).next.path = u.path /\ page(u).next.limit = page_limit(u)
        /\ page(u).next.representation = u.representation /\ page(u).next.cursor = cursor
    BY <2>1 DEF Url
  <2>4. page(u).next \in Urls
    BY <1>1, <1>2, <2>1, <2>2, NumbersAreNatural DEF Url, Urls
  <2>5. SignedFor(page(u).next, now)
    BY <1>1, <1>2, <2>1, <2>2, <2>3 DEF SignedFor, values
  <2> QED BY <2>1, <2>3, <2>4, <2>5
<1>8. page(u) \in Reply
  BY <1>5, <1>6, <1>7 DEF Reply
<1>9. page(u).next # None => /\ page(u).next.cursor.offset = Offset(u) + Len(items)
                             /\ Len(items) = page_limit(u)
  BY <1>2, <1>4, <1>5, <1>7, NumbersAreNatural
<1> QED BY <1>6, <1>7, <1>8, <1>9 DEF items, end, values
-----------------------------------------------------------------------------
LEMMA InitIInv == Init => IInv
<1> SUFFICES ASSUME Init PROVE IInv
  OBVIOUS
<1>1. TypeOK
  BY CatalogAssumption DEF CatalogAssumption, Init, CatalogInit, TypeOK, Processes
<1>2. issued = {} /\ reply = None
  BY DEF Init
<1> QED
  BY <1>1, <1>2 DEF IInv, IssuedAreSigned, ContinuesWhatWasIssued, ContinuationAdvances,
                    UsableWhileProcessLives, ExpiredMeansAged

\* The clock, or a new process: nothing is answered, and what is kept is kept.
LEMMA QuietKeeps ==
  ASSUME IInv, Tick \/ Replace
  PROVE  IInv'
<1>1. reply' = None /\ issued' = issued /\ now' \in 0 .. MaxTime /\ process' \in Processes
  BY NumbersAreNatural DEF Tick, Clock, Replace, Restart, IInv, TypeOK
<1>2. TypeOK'
  BY <1>1 DEF IInv, TypeOK
<1>3. IssuedAreSigned'
  BY <1>1 DEF IInv, IssuedAreSigned, SignedFor
<1> QED
  BY <1>1, <1>2, <1>3 DEF IInv, ContinuesWhatWasIssued, ContinuationAdvances,
                          UsableWhileProcessLives, ExpiredMeansAged

\* What a client sends back is a cursor it was given, or one that no process signed.
LEMMA CursorsAreHeldOrForged ==
  ASSUME IInv, NEW cursor \in Cursors, cursor # None
  PROVE  /\ cursor \in Cursor
         /\ \/ \E g \in issued : g.next.cursor = cursor
            \/ cursor.key = Forged
<1>1. CASE cursor \in {g.next.cursor : g \in issued}
  BY <1>1 DEF IInv, IssuedAreSigned, SignedFor
<1>2. CASE cursor \in {Altered(c) : c \in {g.next.cursor : g \in issued}}
  <2>1. PICK g \in issued : cursor = Altered(g.next.cursor)
    BY <1>2
  <2>2. g.next.cursor \in Cursor
    BY DEF IInv, IssuedAreSigned, SignedFor
  <2> QED BY <2>1, <2>2 DEF Altered, Cursor
<1> QED BY <1>1, <1>2 DEF Cursors

LEMMA RequestKeeps ==
  ASSUME IInv, NEW path \in Paths, NEW limit \in Limits, NEW representation \in Representations,
         NEW cursor \in Cursors, Request(path, limit, representation, cursor)
  PROVE  IInv'
<1> DEFINE u == Url(path, limit, representation, cursor)
<1>1. /\ process \in Processes /\ now \in 0 .. MaxTime /\ now \in Nat
      /\ process' = process /\ now' = now
  BY NumbersAreNatural DEF IInv, TypeOK, Request
<1>2. /\ u \in Urls /\ u.path = path /\ u.limit = limit
      /\ u.representation = representation /\ u.cursor = cursor
  BY ClientAssumption, CursorsAreHeldOrForged DEF ClientAssumption, Urls, Url
<1> HIDE DEF u
<1>3. reply' = [url |-> u, answer |-> Answer(u)]
  BY DEF Request, u
<1>4. \/ issued' = issued
      \/ /\ Answer(u).status = "ok" /\ Answer(u).next # None
         /\ issued' = issued \cup {[next |-> Answer(u).next, at |-> now]}
  BY DEF Request, u
<1>5. Answer(u) \in Reply
  BY <1>1, <1>2, AnswerIsServed, PageIsWhole DEF Reply
<1>6. ASSUME Answer(u).status = "ok"
      PROVE  Served(u) /\ Answer(u) = page(u)
  BY <1>1, <1>2, <1>6, AnswerIsServed
<1>7. Answer(u).status = "ok" /\ Answer(u).next # None =>
        Answer(u).next \in Urls /\ SignedFor(Answer(u).next, now)
  BY <1>1, <1>2, <1>5, <1>6, PageIsWhole DEF Reply
<1>8. TypeOK'
  <2>1. reply' \in [url : Urls, answer : Reply]
    BY <1>2, <1>3, <1>5
  <2>2. issued' \subseteq [next : Urls, at : Nat]
    BY <1>1, <1>4, <1>7 DEF IInv, TypeOK
  <2> QED BY <1>1, <2>1, <2>2 DEF TypeOK
<1>9. IssuedAreSigned'
  BY <1>4, <1>7 DEF IInv, IssuedAreSigned, SignedFor
<1>10. ContinuesWhatWasIssued'
  <2> SUFFICES ASSUME Answer(u).status = "ok", u.cursor # None
               PROVE  LET c == u.cursor
                          values == Listings[c.key][c.path]
                      IN  /\ u \in {[g.next EXCEPT !.limit = l] : g \in issued', l \in Limits \cup {0}}
                          /\ page_limit(u) = c.limit
                          /\ Answer(u).items =
                               Slice(values, c.offset, Smaller(c.offset + c.limit, Len(values)),
                                     u.representation)
    BY <1>3 DEF ContinuesWhatWasIssued
  <2>1. /\ Served(u) /\ Answer(u) = page(u)
        /\ Signed(u.cursor) /\ Bound(u.cursor, u)
    BY <1>6 DEF Served
  <2>2. u.cursor.key = process /\ u.cursor.limit = page_limit(u)
        /\ u.cursor.path = u.path /\ u.cursor.representation = u.representation
    BY <2>1 DEF Signed, Bound
  <2>3. PICK g \in issued : g.next.cursor = u.cursor
    BY <1>1, <1>2, <2>2, CursorsAreHeldOrForged, NumbersAreNatural
  <2>4. /\ g.next \in Urls /\ g.next.path = u.path /\ g.next.representation = u.representation
        /\ g \in issued'
    BY <1>4, <2>2, <2>3 DEF IInv, TypeOK, IssuedAreSigned, SignedFor
  <2>5. u = [g.next EXCEPT !.limit = limit]
    BY <1>2, <2>3, <2>4 DEF Urls
  <2>6. Offset(u) = u.cursor.offset
    BY DEF Offset
  <2>7. Answer(u).items = Slice(Listings[process][u.path], u.cursor.offset,
                                Smaller(u.cursor.offset + u.cursor.limit, Len(Listings[process][u.path])),
                                u.representation)
    BY <1>1, <1>2, <2>1, <2>2, <2>6, PageIsWhole
  <2> QED BY <2>2, <2>4, <2>5, <2>7
<1>11. ContinuationAdvances'
  <2> SUFFICES ASSUME Answer(u).status = "ok", Answer(u).next # None
               PROVE  LET offset == Answer(u).next.cursor.offset IN
                        /\ offset = Offset(u) + Len(Answer(u).items)
                        /\ Len(Answer(u).items) = page_limit(u)
                        /\ offset < Len(Listings[process][u.path])
    BY <1>1, <1>3 DEF ContinuationAdvances
  <2> QED BY <1>1, <1>2, <1>6, PageIsWhole
<1>12. UsableWhileProcessLives'
  <2> SUFFICES ASSUME Answer(u).status # "ok",
                      NEW g \in issued', u = g.next, g.next.cursor.key = process
               PROVE  now > g.at + Lifetime
    BY <1>1, <1>3 DEF UsableWhileProcessLives
  <2>1. issued' = issued
    BY <1>4
  <2>2. g.at \in Nat /\ SignedFor(u, g.at)
    BY <2>1 DEF IInv, TypeOK, IssuedAreSigned
  <2>3. /\ u.limit <= MaximumLimit /\ u.path \in DOMAIN Listings[process]
        /\ Signed(u.cursor) /\ Bound(u.cursor, u)
        /\ u.cursor.offset <= Len(Listings[process][u.path])
    <3>1. u.cursor.offset \in Nat /\ u.limit \in 1 .. MaximumLimit
      BY <2>2 DEF SignedFor, Cursor
    <3>2. u.path \in DOMAIN Listings[process] /\ u.cursor.offset < Len(Listings[process][u.path])
      BY <2>2 DEF SignedFor
    <3>3. Len(Listings[process][u.path]) \in Nat
      BY <1>1, <3>2, ListingsAreSequences
    <3>4. u.limit <= MaximumLimit /\ page_limit(u) = u.limit
      BY <3>1, NumbersAreNatural DEF page_limit
    <3> QED BY <2>2, <3>1, <3>2, <3>3, <3>4 DEF SignedFor, Signed, Bound
  <2>4. Expired(u.cursor)
    BY <1>1, <1>2, <2>3, AnswerIsServed DEF Served
  <2> QED BY <1>1, <2>2, <2>4, NumbersAreNatural DEF SignedFor, Expired
<1>13. ExpiredMeansAged'
  <2> SUFFICES ASSUME Answer(u).status = "EXPIRED"
               PROVE  \E g \in issued' : /\ g.next.cursor = u.cursor
                                        /\ g.next.cursor.key = process
                                        /\ now > g.at + Lifetime
    BY <1>1, <1>3 DEF ExpiredMeansAged
  <2>1. u.cursor # None /\ u.cursor.key = process /\ u.cursor.expires < now
    BY <1>1, <1>2, AnswerIsServed DEF Signed, Expired
  <2>2. PICK g \in issued : g.next.cursor = u.cursor
    BY <1>1, <1>2, <2>1, CursorsAreHeldOrForged, NumbersAreNatural
  <2>3. g \in issued' /\ g.at \in Nat /\ u.cursor.expires = g.at + Lifetime
    BY <1>4, <2>2 DEF IInv, TypeOK, IssuedAreSigned, SignedFor
  <2> QED BY <1>1, <2>1, <2>2, <2>3, NumbersAreNatural
<1> QED BY <1>8, <1>9, <1>10, <1>11, <1>12, <1>13 DEF IInv

LEMMA NextIInv == IInv /\ [Next]_vars => IInv'
<1> SUFFICES ASSUME IInv, [Next]_vars PROVE IInv'
  OBVIOUS
<1>1. CASE Tick \/ Replace
  BY <1>1, QuietKeeps
<1>2. ASSUME NEW path \in Paths, NEW limit \in Limits, NEW representation \in Representations,
             NEW cursor \in Cursors, Request(path, limit, representation, cursor)
      PROVE  IInv'
  BY <1>2, RequestKeeps
<1>3. CASE UNCHANGED vars
  BY <1>3 DEF vars, IInv, TypeOK, IssuedAreSigned, SignedFor, ContinuesWhatWasIssued,
              ContinuationAdvances, UsableWhileProcessLives, ExpiredMeansAged
<1> QED BY <1>1, <1>2, <1>3 DEF Next

LEMMA Invariance == Spec => []IInv
BY InitIInv, NextIInv, PTL DEF Spec
-----------------------------------------------------------------------------
(***************************************************************************)
(* Every reachable state is well-typed: what is given out are URLs of      *)
(* lists, and every answer is a page or one of the refusals.               *)
(***************************************************************************)
THEOREM ClientsTypeCorrect == Spec => []TypeOK
<1>1. IInv => TypeOK
  BY DEF IInv
<1> QED BY <1>1, Invariance, PTL

(***************************************************************************)
(* However clients mix what they were given with other lists, limits and   *)
(* representations, a page for a cursor is the next page of the very list  *)
(* that it was signed for.                                                 *)
(***************************************************************************)
THEOREM OnlyIssuedIsServed == Spec => []ContinuesWhatWasIssued
<1>1. IInv => ContinuesWhatWasIssued
  BY DEF IInv
<1> QED BY <1>1, Invariance, PTL

(***************************************************************************)
(* A page that has a continuation is full, and the continuation points     *)
(* past it and before the end of the list.                                 *)
(***************************************************************************)
THEOREM PagesAdvance == Spec => []ContinuationAdvances
<1>1. IInv => ContinuationAdvances
  BY DEF IInv
<1> QED BY <1>1, Invariance, PTL

(***************************************************************************)
(* What a process gave out it answers for the whole lifetime, if it still  *)
(* serves.                                                                 *)
(***************************************************************************)
THEOREM UsableFromItsProcess == Spec => []UsableWhileProcessLives
<1>1. IInv => UsableWhileProcessLives
  BY DEF IInv
<1> QED BY <1>1, Invariance, PTL

(***************************************************************************)
(* Only what the serving process signed, and only for its age, is called   *)
(* expired.                                                                *)
(***************************************************************************)
THEOREM OnlyAgedExpire == Spec => []ExpiredMeansAged
<1>1. IInv => ExpiredMeansAged
  BY DEF IInv
<1> QED BY <1>1, Invariance, PTL
=============================================================================
