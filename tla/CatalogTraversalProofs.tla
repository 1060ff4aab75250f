----------------------- MODULE CatalogTraversalProofs ------------------------
(***************************************************************************)
(* That a traversal never mixes catalogues: whatever processes succeed one *)
(* another between its pages, however long and from whatever cache, for    *)
(* every catalogue, every limit and every number of traversals.            *)
(***************************************************************************)
EXTENDS CatalogTraversal, SequenceTheorems, TLAPS

\* The list a URL asks the i-th process for.
ListedBy(i, u) == u.path \in DOMAIN Listings[i]

\* A continuation was signed by i, for this list, short of its end.
ContinuesList(i, u) ==
  /\ ListedBy(i, u)
  /\ u.cursor # None => /\ u.cursor.key = i
                        /\ u.cursor.offset <= Len(Listings[i][u.path])

EndOfPage(i, u) == Smaller(Offset(u) + page_limit(u), Len(Listings[i][u.path]))

(***************************************************************************)
(* p is the page that the i-th process gives for u: the items from where u *)
(* continues to the page's end, and the continuation from there.           *)
(***************************************************************************)
PageOf(i, u, p) ==
  /\ ContinuesList(i, u)
  /\ p.status = "ok"
  /\ p.items = Slice(Listings[i][u.path], Offset(u), EndOfPage(i, u), u.representation)
  /\ p.next = None => EndOfPage(i, u) = Len(Listings[i][u.path])
  /\ p.next # None => /\ ContinuesList(i, p.next)
                      /\ p.next.path = u.path
                      /\ p.next.representation = u.representation
                      /\ p.next.cursor # None
                      /\ p.next.cursor.offset = EndOfPage(i, u)

SomePageOf(u, p) == \E i \in Processes : PageOf(i, u, p)

\* Every cached page is one that a process gave for its URL.
CachedAreServed == \A u \in DOMAIN pages : SomePageOf(u, pages[u].page)

(***************************************************************************)
(* A walker holds what lies before the continuation it is at, in the list  *)
(* of the process that signed it.                                          *)
(***************************************************************************)
HoldsBeginning(c, u, list, drained) ==
  /\ c \in Calls
  /\ u \in Urls
  /\ u.path = c.path
  /\ u.representation = c.representation
  /\ Len(list) < maximum_items(c)
  /\ drained < maximum_pages(c)
  /\ u.cursor = None => list = <<>>
  /\ u.cursor # None =>
       \E i \in Processes :
         /\ ContinuesList(i, u)
         /\ list = Slice(Listings[i][u.path], 0, u.cursor.offset, u.representation)

\* An answer on its way to a walker at u.
TrueAnswer(u, a) == a \in Reply /\ (a.status = "ok" => SomePageOf(u, a))

WalkerTrue(w) ==
  /\ pc[w] = "idle" => items[w] = <<>> /\ taken[w] = 0
  /\ pc[w] # "idle" => HoldsBeginning(call[w], url[w], items[w], taken[w])
  /\ pc[w] = "answered" => TrueAnswer(url[w], answer[w])

WalkersTyped ==
  /\ pc \in [Walkers -> {"idle", "asking", "sent", "answered"}]
  /\ call \in [Walkers -> Calls \cup {None}]
  /\ url \in [Walkers -> Urls \cup {None}]
  /\ sent \in [Walkers -> Nat]
  /\ answer \in [Walkers -> Reply \cup {None}]
  /\ items \in [Walkers -> Seq(Item)]
  /\ taken \in [Walkers -> Nat]
  /\ outcome \in Outcome \cup {None}

CacheTyped ==
  /\ now \in 0 .. MaxTime
  /\ process \in Processes
  /\ DOMAIN pages \subseteq Urls
  /\ \A u \in DOMAIN pages : pages[u] \in [page : Reply, expires_at : Nat]
  /\ aged \subseteq Urls

IInv ==
  /\ TypeOK
  /\ CachedAreServed
  /\ \A w \in Walkers : WalkerTrue(w)
  /\ OneCatalogue
-----------------------------------------------------------------------------
LEMMA SliceProperties ==
  ASSUME NEW v \in Seq(Ids), NEW a \in Nat, NEW b \in Nat, a <= b, b <= Len(v),
         NEW r \in Representations
  PROVE  /\ Slice(v, a, b, r) \in Seq(Item)
         /\ Len(Slice(v, a, b, r)) = b - a
         /\ \A k \in 1 .. b - a :
              Slice(v, a, b, r)[k] = [id |-> v[a + k], representation |-> r]
<1> DEFINE e(k) == [id |-> v[a + k], representation |-> r]
<1>1. b - a \in Nat
  OBVIOUS
<1>2. \A k \in 1 .. b - a : e(k) \in Item
  BY DEF Item
<1> HIDE DEF e
<1>3. [k \in 1 .. b - a |-> e(k)] \in Seq(Item)
  BY <1>1, <1>2, IsASeq
<1>4. /\ Len([k \in 1 .. b - a |-> e(k)]) = b - a
      /\ \A k \in 1 .. b - a : [j \in 1 .. b - a |-> e(j)][k] = e(k)
  BY <1>1
<1> QED BY <1>3, <1>4 DEF Slice, e

LEMMA BeginningProperties ==
  ASSUME NEW v \in Seq(Ids), NEW b \in Nat, b <= Len(v), NEW r \in Representations
  PROVE  /\ Slice(v, 0, b, r) \in Seq(Item)
         /\ Len(Slice(v, 0, b, r)) = b
         /\ \A k \in 1 .. b : Slice(v, 0, b, r)[k] = [id |-> v[k], representation |-> r]
<1>1. /\ Slice(v, 0, b, r) \in Seq(Item)
      /\ Len(Slice(v, 0, b, r)) = b - 0
      /\ \A k \in 1 .. b - 0 : Slice(v, 0, b, r)[k] = [id |-> v[0 + k], representation |-> r]
  <2>1. 0 \in Nat /\ 0 <= b
    OBVIOUS
  <2> QED BY <2>1, SliceProperties
<1>2. b - 0 = b /\ \A k \in 1 .. b : 0 + k = k
  OBVIOUS
<1> QED BY <1>1, <1>2

(***************************************************************************)
(* The beginning of a list followed by the next n items is a longer        *)
(* beginning: what collect_offerings appends to what it has.               *)
(***************************************************************************)
LEMMA SlicesJoin ==
  ASSUME NEW v \in Seq(Ids), NEW a \in Nat, NEW b \in Nat, a <= b, b <= Len(v),
         NEW r \in Representations, NEW n \in 0 .. b - a
  PROVE  Slice(v, 0, a, r) \o SubSeq(Slice(v, a, b, r), 1, n) = Slice(v, 0, a + n, r)
<1> DEFINE s == Slice(v, 0, a, r)
           t == SubSeq(Slice(v, a, b, r), 1, n)
           u == Slice(v, 0, a + n, r)
<1>0. a <= Len(v) /\ a + n \in Nat /\ a + n <= Len(v)
  OBVIOUS
<1>1. /\ s \in Seq(Item) /\ Len(s) = a
      /\ \A k \in 1 .. a : s[k] = [id |-> v[k], representation |-> r]
  BY <1>0, BeginningProperties
<1>2. /\ Slice(v, a, b, r) \in Seq(Item) /\ Len(Slice(v, a, b, r)) = b - a
      /\ \A k \in 1 .. b - a : Slice(v, a, b, r)[k] = [id |-> v[a + k], representation |-> r]
  BY SliceProperties
<1>3. /\ t \in Seq(Item) /\ Len(t) = n
      /\ \A k \in 1 .. n : t[k] = [id |-> v[a + k], representation |-> r]
  BY <1>2, SubSeqProperties
<1>4. /\ u \in Seq(Item) /\ Len(u) = a + n
      /\ \A k \in 1 .. a + n : u[k] = [id |-> v[k], representation |-> r]
  BY <1>0, BeginningProperties
<1> HIDE DEF s, t, u
<1> DEFINE st == s \o t
<1>5. /\ st \in Seq(Item) /\ Len(st) = a + n
      /\ \A k \in 1 .. a + n : st[k] = IF k <= a THEN s[k] ELSE t[k - a]
  BY <1>1, <1>3, ConcatProperties
<1> HIDE DEF st
<1>6. ASSUME NEW k \in 1 .. a + n PROVE st[k] = [id |-> v[k], representation |-> r]
  <2>1. CASE k <= a
    BY <2>1, <1>1, <1>5
  <2>2. CASE k > a
    <3>1. k - a \in 1 .. n /\ a + (k - a) = k
      BY <2>2
    <3>2. st[k] = t[k - a]
      BY <2>2, <1>5
    <3>3. t[k - a] = [id |-> v[a + (k - a)], representation |-> r]
      BY <3>1, <1>3
    <3> QED BY <3>1, <3>2, <3>3
  <2> QED BY <2>1, <2>2
<1>7. \A k \in 1 .. Len(st) : st[k] = u[k]
  BY <1>4, <1>5, <1>6
<1>8. st = u
  BY <1>4, <1>5, <1>7, SeqEqual
<1> QED BY <1>8 DEF s, t, u, st
-----------------------------------------------------------------------------
LEMMA ListingsAreSequences ==
  ASSUME NEW i \in Processes, NEW path \in DOMAIN Listings[i]
  PROVE  Listings[i][path] \in Seq(Ids) /\ path \in Paths
BY CatalogAssumption DEF CatalogAssumption, Paths

LEMMA OffsetsAreNatural ==
  ASSUME NEW u \in Urls
  PROVE  /\ Offset(u) \in Nat
         /\ page_limit(u) \in Nat \ {0}
         /\ u.representation \in Representations
         /\ u.path \in Paths
         /\ u.cursor # None => u.cursor \in Cursor
BY CatalogAssumption DEF CatalogAssumption, Urls, Cursor, Offset, page_limit

LEMMA BoundsArePositive ==
  ASSUME NEW c \in Calls
  PROVE  maximum_items(c) \in Nat \ {0} /\ maximum_pages(c) \in Nat \ {0}
BY TraversalAssumption DEF TraversalAssumption, maximum_items, maximum_pages

\* What is needed of the list that a URL continues.
LEMMA PageLies ==
  ASSUME NEW i \in Processes, NEW u \in Urls, ContinuesList(i, u)
  PROVE  /\ Listings[i][u.path] \in Seq(Ids)
         /\ Len(Listings[i][u.path]) \in Nat
         /\ EndOfPage(i, u) \in Nat
         /\ Offset(u) <= EndOfPage(i, u)
         /\ EndOfPage(i, u) <= Len(Listings[i][u.path])
<1>1. Listings[i][u.path] \in Seq(Ids)
  BY ListingsAreSequences DEF ContinuesList, ListedBy
<1>2. Offset(u) \in Nat /\ page_limit(u) \in Nat
  BY OffsetsAreNatural
<1>3. Offset(u) <= Len(Listings[i][u.path])
  BY <1>1 DEF ContinuesList, Offset
<1> QED BY <1>1, <1>2, <1>3 DEF EndOfPage, Smaller

(***************************************************************************)
(* An answer is well-typed, and a page among them is the page of the       *)
(* process that serves.                                                    *)
(***************************************************************************)
LEMMA AnswerIsPage ==
  ASSUME NEW u \in Urls, process \in Processes, now \in Nat
  PROVE  /\ Answer(u) \in Reply
         /\ Answer(u).status = "ok" => PageOf(process, u, Answer(u))
<1>1. CASE Answer(u) = page(u) /\ ContinuesList(process, u)
  <2> DEFINE v == Listings[process][u.path]
             end == EndOfPage(process, u)
  <2>1. /\ v \in Seq(Ids) /\ Len(v) \in Nat /\ end \in Nat
        /\ Offset(u) \in Nat /\ Offset(u) <= end /\ end <= Len(v)
        /\ u.representation \in Representations /\ u.path \in Paths
        /\ page_limit(u) \in Nat
    BY <1>1, PageLies, OffsetsAreNatural
  <2>2. page(u) = [status |-> "ok",
                   items |-> Slice(v, Offset(u), end, u.representation),
                   next |-> IF end < Len(v) THEN encode_cursor(u, end) ELSE None]
    BY DEF page, More, EndOfPage
  <2> HIDE DEF v, end
  <2>3. Slice(v, Offset(u), end, u.representation) \in Seq(Item)
    BY <2>1, SliceProperties
  <2>4. /\ encode_cursor(u, end) \in Urls
        /\ encode_cursor(u, end).path = u.path
        /\ encode_cursor(u, end).representation = u.representation
        /\ encode_cursor(u, end).cursor \in Cursor
        /\ encode_cursor(u, end).cursor.key = process
        /\ encode_cursor(u, end).cursor.offset = end
    <3>1. now + Lifetime \in Nat
      BY CatalogAssumption DEF CatalogAssumption
    <3>2. [key |-> process, expires |-> now + Lifetime, limit |-> page_limit(u),
           offset |-> end, path |-> u.path, representation |-> u.representation] \in Cursor
      BY <2>1, <3>1 DEF Cursor
    <3> QED BY <2>1, <3>2 DEF encode_cursor, Url, Urls
  <2>5. page(u) \in Reply
    BY <2>2, <2>3, <2>4 DEF Reply
  <2>6. encode_cursor(u, end) # None /\ encode_cursor(u, end).cursor # None
    BY <2>4, NoneAssumption
  <2>7. PageOf(process, u, page(u))
    <3>1. ContinuesList(process, encode_cursor(u, end))
      BY <1>1, <2>1, <2>4 DEF ContinuesList, ListedBy, v
    <3>2. CASE end < Len(v)
      BY <3>1, <3>2, <2>2, <2>4, <2>6, <1>1 DEF PageOf, v, end
    <3>3. CASE ~(end < Len(v))
      <4>1. end = Len(v)
        BY <3>3, <2>1
      <4> QED BY <3>3, <4>1, <2>2, <1>1 DEF PageOf, v, end
    <3> QED BY <3>2, <3>3
  <2> QED BY <1>1, <2>5, <2>7
<1>2. ASSUME NEW code \in {"INVALID_REQUEST", "NOT_FOUND", "UNAVAILABLE", "EXPIRED"},
             Answer(u) = [status |-> code]
      PROVE  Answer(u) \in Reply /\ Answer(u).status # "ok"
  BY <1>2 DEF Reply
<1>3. \/ Answer(u) = page(u) /\ ContinuesList(process, u)
      \/ \E code \in {"INVALID_REQUEST", "NOT_FOUND", "UNAVAILABLE", "EXPIRED"} :
           Answer(u) = [status |-> code]
  <2>1. CASE u.limit > MaximumLimit \/ u.path \notin DOMAIN Listings[process]
    BY <2>1 DEF Answer
  <2>2. CASE /\ ~(u.limit > MaximumLimit) /\ u.path \in DOMAIN Listings[process]
             /\ u.cursor = None
    BY <2>2 DEF Answer, ContinuesList, ListedBy
  <2>3. CASE /\ ~(u.limit > MaximumLimit) /\ u.path \in DOMAIN Listings[process]
             /\ u.cursor # None
    <3>1. CASE ~Signed(u.cursor) \/ Expired(u.cursor) \/ ~Bound(u.cursor, u)
               \/ u.cursor.offset > Len(Listings[process][u.path])
      BY <2>3, <3>1 DEF Answer
    <3>2. CASE /\ Signed(u.cursor) /\ ~Expired(u.cursor) /\ Bound(u.cursor, u)
               /\ ~(u.cursor.offset > Len(Listings[process][u.path]))
      <4>1. u.cursor.offset <= Len(Listings[process][u.path])
        <5>1. u.cursor.offset \in Nat
          BY <2>3, OffsetsAreNatural DEF Cursor
        <5>2. Len(Listings[process][u.path]) \in Nat
          BY <2>3, ListingsAreSequences
        <5> QED BY <5>1, <5>2, <3>2
      <4> QED BY <2>3, <3>2, <4>1 DEF Answer, Signed, ContinuesList, ListedBy
    <3> QED BY <3>1, <3>2
  <2> QED BY <2>1, <2>2, <2>3
<1> QED BY <1>1, <1>2, <1>3
-----------------------------------------------------------------------------
LEMMA TypeParts == TypeOK <=> CacheTyped /\ WalkersTyped
BY DEF TypeOK, CacheTyped, WalkersTyped

\* A walker that a step leaves alone.
LEMMA WalkerKept ==
  ASSUME NEW w \in Walkers, WalkerTrue(w),
         pc'[w] = pc[w], call'[w] = call[w], url'[w] = url[w], answer'[w] = answer[w],
         items'[w] = items[w], taken'[w] = taken[w]
  PROVE  WalkerTrue(w)'
BY DEF WalkerTrue

\* Two pages of one continuation are of one process.
LEMMA BeginningOfThisList ==
  ASSUME NEW c, NEW u, NEW list, NEW drained, HoldsBeginning(c, u, list, drained),
         NEW i \in Processes, ContinuesList(i, u)
  PROVE  list = Slice(Listings[i][u.path], 0, Offset(u), u.representation)
<1> DEFINE v == Listings[i][u.path]
<1>1. CASE u.cursor = None
  <2>1. v \in Seq(Ids) /\ u.representation \in Representations
    BY ListingsAreSequences, OffsetsAreNatural DEF ContinuesList, ListedBy, HoldsBeginning
  <2>2. /\ Slice(v, 0, 0, u.representation) \in Seq(Item)
        /\ Len(Slice(v, 0, 0, u.representation)) = 0
    <3>1. 0 \in Nat /\ 0 <= Len(v)
      BY <2>1
    <3> HIDE DEF v
    <3> QED BY <2>1, <3>1, BeginningProperties
  <2>3. Slice(v, 0, 0, u.representation) = <<>>
    BY <2>2, EmptySeq
  <2> QED BY <1>1, <2>3 DEF HoldsBeginning, Offset
<1>2. CASE u.cursor # None
  BY <1>2 DEF HoldsBeginning, ContinuesList, Offset
<1> QED BY <1>1, <1>2

\* Whether a walker that now has list asks for another page.
GoesOn(c, p, list, drained) ==
  /\ Len(list) # maximum_items(c)
  /\ p.next # None
  /\ drained + 1 < maximum_pages(c)

\* What a traversal that returns list after so many pages promises.
ComesOut(c, list, drained) ==
  \E i \in Processes :
    /\ c.path \in DOMAIN Listings[i]
    /\ list = Slice(Listings[i][c.path], 0, Len(list), c.representation)
    /\ \/ Len(list) = Len(Listings[i][c.path])
       \/ Len(list) = maximum_items(c)
       \/ drained = maximum_pages(c)

\* A page that does not fill what the caller has room for is drained.
LEMMA DrainedPage ==
  ASSUME NEW off \in Nat, NEW end \in Nat, NEW m \in Nat, NEW n \in 0 .. end - off,
         n <= m - off, n = end - off \/ n = m - off, off + n # m
  PROVE  off + n = end /\ off + n < m
OBVIOUS

(***************************************************************************)
(* What Collect makes of the page of the walker's URL: the caller gets a   *)
(* beginning of one list, or the walker goes on with one.                  *)
(***************************************************************************)
LEMMA CollectTakesPage ==
  ASSUME NEW c, NEW u, NEW got, NEW drained, NEW p \in Reply,
         got \in Seq(Item), drained \in Nat,
         HoldsBeginning(c, u, got, drained), SomePageOf(u, p),
         NEW list, list = got \o SubSeq(p.items, 1,
                                        Smaller(maximum_items(c) - Len(got), Len(p.items)))
  PROVE  /\ list \in Seq(Item)
         /\ GoesOn(c, p, list, drained) => HoldsBeginning(c, p.next, list, drained + 1)
         /\ ~GoesOn(c, p, list, drained) => ComesOut(c, list, drained + 1)
<1>1. PICK i \in Processes : PageOf(i, u, p)
  BY DEF SomePageOf
<1> DEFINE v == Listings[i][u.path]
           end == EndOfPage(i, u)
           off == Offset(u)
           r == u.representation
           n == Smaller(maximum_items(c) - Len(got), Len(p.items))
<1>2. ContinuesList(i, u) /\ c \in Calls /\ u \in Urls
  BY <1>1 DEF PageOf, HoldsBeginning
<1>3. /\ v \in Seq(Ids) /\ Len(v) \in Nat /\ end \in Nat /\ off \in Nat
      /\ off <= end /\ end <= Len(v) /\ r \in Representations
  BY <1>2, PageLies, OffsetsAreNatural
<1>4. got = Slice(v, 0, off, r)
  BY <1>2, BeginningOfThisList
<1>5. p.items = Slice(v, off, end, r)
  BY <1>1 DEF PageOf
<1>6. maximum_items(c) \in Nat \ {0} /\ maximum_pages(c) \in Nat \ {0}
  BY <1>2, BoundsArePositive
<1>7. Len(got) < maximum_items(c) /\ drained < maximum_pages(c)
  BY DEF HoldsBeginning
<1>8. /\ p.next = None => end = Len(v)
      /\ p.next # None => /\ ContinuesList(i, p.next)
                          /\ p.next.path = u.path
                          /\ p.next.representation = u.representation
                          /\ p.next.cursor # None
                          /\ p.next.cursor.offset = end
                          /\ p.next \in Urls
  <2>1. p.status = "ok"
    BY <1>1 DEF PageOf
  <2>2. p.next \in Urls \cup {None}
    BY <2>1 DEF Reply
  <2> QED BY <1>1, <2>2 DEF PageOf
<1>9. u.path = c.path /\ r = c.representation /\ u.path \in DOMAIN Listings[i]
  BY <1>2 DEF HoldsBeginning, ContinuesList, ListedBy
<1> HIDE DEF v, end, off, r
<1>10. Len(got) = off /\ Len(p.items) = end - off
  <2>1. off <= Len(v)
    BY <1>3
  <2>2. Len(Slice(v, 0, off, r)) = off
    BY <1>3, <2>1, BeginningProperties
  <2>3. Len(Slice(v, off, end, r)) = end - off
    BY <1>3, SliceProperties
  <2> QED BY <2>2, <2>3, <1>4, <1>5
<1>11. /\ n \in 0 .. end - off /\ n <= maximum_items(c) - off
       /\ n = end - off \/ n = maximum_items(c) - off
  BY <1>3, <1>6, <1>7, <1>10 DEF Smaller
<1>12. list = Slice(v, 0, off + n, r)
  <2>1. list = got \o SubSeq(p.items, 1, n)
    OBVIOUS
  <2> HIDE DEF n
  <2>2. Slice(v, 0, off, r) \o SubSeq(Slice(v, off, end, r), 1, n) = Slice(v, 0, off + n, r)
    BY <1>3, <1>11, SlicesJoin
  <2> QED BY <2>1, <2>2, <1>4, <1>5
<1> HIDE DEF n
<1>13. list \in Seq(Item) /\ Len(list) = off + n
  <2>1. off + n \in Nat /\ off + n <= Len(v)
    BY <1>3, <1>11
  <2> QED BY <1>3, <1>12, <2>1, BeginningProperties
<1>14. ASSUME Len(list) # maximum_items(c)
       PROVE  Len(list) = end /\ Len(list) < maximum_items(c)
  <2>1. maximum_items(c) \in Nat /\ off + n # maximum_items(c)
    BY <1>6, <1>13, <1>14
  <2>2. off + n = end /\ off + n < maximum_items(c)
    BY <1>3, <1>11, <2>1, DrainedPage
  <2> QED BY <1>13, <2>2
<1>15. ASSUME GoesOn(c, p, list, drained) PROVE HoldsBeginning(c, p.next, list, drained + 1)
  <2>1. list = Slice(v, 0, end, r) /\ Len(list) < maximum_items(c)
    BY <1>3, <1>12, <1>13, <1>14, <1>15 DEF GoesOn
  <2> QED BY <1>2, <1>8, <1>9, <1>15, <2>1 DEF GoesOn, HoldsBeginning, v, r
<1>16. ASSUME ~GoesOn(c, p, list, drained) PROVE ComesOut(c, list, drained + 1)
  <2>1. list = Slice(v, 0, Len(list), r)
    BY <1>12, <1>13
  <2>2. \/ Len(list) = Len(v)
        \/ Len(list) = maximum_items(c)
        \/ drained + 1 = maximum_pages(c)
    BY <1>3, <1>6, <1>7, <1>8, <1>13, <1>14, <1>16 DEF GoesOn
  <2> QED BY <1>9, <2>1, <2>2 DEF ComesOut, v, r
<1> QED BY <1>13, <1>15, <1>16
-----------------------------------------------------------------------------
LEMMA FinishKeeps ==
  ASSUME WalkersTyped, \A x \in Walkers : WalkerTrue(x), NEW w \in Walkers,
         NEW result \in Outcome \cup {None}, Finish(w, result)
  PROVE  WalkersTyped' /\ (\A x \in Walkers : WalkerTrue(x)') /\ outcome' = result
<1>1. WalkersTyped'
  <2>1. <<>> \in Seq(Item)
    OBVIOUS
  <2> QED BY <2>1 DEF WalkersTyped, Finish
<1>2. ASSUME NEW x \in Walkers PROVE WalkerTrue(x)'
  <2>1. CASE x = w
    BY <2>1 DEF WalkersTyped, Finish, WalkerTrue
  <2>2. CASE x # w
    BY <2>2, WalkerKept DEF WalkersTyped, Finish
  <2> QED BY <2>1, <2>2
<1> QED BY <1>1, <1>2 DEF Finish

LEMMA CollectKeeps ==
  ASSUME WalkersTyped, \A x \in Walkers : WalkerTrue(x), NEW w \in Walkers,
         pc[w] # "idle", NEW p \in Reply, SomePageOf(url[w], p), Collect(w, p)
  PROVE  WalkersTyped' /\ (\A x \in Walkers : WalkerTrue(x)') /\ OneCatalogue'
<1> DEFINE room == maximum_items(call[w]) - Len(items[w])
           list == items[w] \o SubSeq(p.items, 1, Smaller(room, Len(p.items)))
           more == GoesOn(call[w], p, list, taken[w])
<1>1. /\ HoldsBeginning(call[w], url[w], items[w], taken[w])
      /\ items[w] \in Seq(Item) /\ taken[w] \in Nat /\ call[w] \in Calls
  <2>1. HoldsBeginning(call[w], url[w], items[w], taken[w])
    BY DEF WalkerTrue
  <2> QED BY <2>1 DEF WalkersTyped, HoldsBeginning
<1>2. /\ list \in Seq(Item)
      /\ more => HoldsBeginning(call[w], p.next, list, taken[w] + 1)
      /\ ~more => ComesOut(call[w], list, taken[w] + 1)
  BY <1>1, CollectTakesPage
<1>3. CASE OutOfBounds(call[w])
  <2>1. Finish(w, Failed(w))
    BY <1>3 DEF Collect
  <2>2. Failed(w) \in Outcome \cup {None} /\ Failed(w).status # "returned"
    BY <1>1 DEF Failed, Outcome
  <2>3. /\ WalkersTyped' /\ (\A x \in Walkers : WalkerTrue(x)')
        /\ outcome' = Failed(w)
    BY <2>1, <2>2, FinishKeeps
  <2> QED BY <2>2, <2>3 DEF OneCatalogue
<1>4. CASE ~OutOfBounds(call[w]) /\ ~more
  <2> DEFINE o == Returned(w, list, taken[w] + 1)
  <2>1. Finish(w, o)
    BY <1>4 DEF Collect, GoesOn
  <2>2. /\ o \in Outcome \cup {None}
        /\ o.call = call[w] /\ o.items = list /\ o.pages = taken[w] + 1
    <3>1. taken[w] + 1 \in Nat
      BY <1>1
    <3> HIDE DEF list
    <3> QED BY <1>1, <1>2, <3>1 DEF Returned, Outcome
  <2> HIDE DEF o
  <2>3. /\ WalkersTyped' /\ (\A x \in Walkers : WalkerTrue(x)')
        /\ outcome' = o
    BY <2>1, <2>2, FinishKeeps
  <2>4. \E i \in Processes :
          /\ o.call.path \in DOMAIN Listings[i]
          /\ o.items = Slice(Listings[i][o.call.path], 0, Len(o.items), o.call.representation)
          /\ Whole(o, Listings[i][o.call.path])
    BY <1>2, <1>4, <2>2 DEF ComesOut, Whole
  <2> QED BY <2>3, <2>4 DEF OneCatalogue
<1>5. CASE ~OutOfBounds(call[w]) /\ more
  <2>1. /\ pc' = [pc EXCEPT ![w] = "asking"]
        /\ url' = [url EXCEPT ![w] = p.next]
        /\ sent' = [sent EXCEPT ![w] = 0]
        /\ answer' = [answer EXCEPT ![w] = None]
        /\ items' = [items EXCEPT ![w] = list]
        /\ taken' = [taken EXCEPT ![w] = @ + 1]
        /\ outcome' = None
        /\ UNCHANGED call
    BY <1>5 DEF Collect, GoesOn
  <2> HIDE DEF list, more
  <2>2. HoldsBeginning(call[w], p.next, list, taken[w] + 1)
    BY <1>2, <1>5
  <2>3. p.next \in Urls
    BY <2>2 DEF HoldsBeginning
  <2>4. WalkersTyped'
    BY <2>1, <2>3, <1>1, <1>2 DEF WalkersTyped
  <2>5. ASSUME NEW x \in Walkers PROVE WalkerTrue(x)'
    <3>1. CASE x = w
      <4>1. /\ pc'[w] = "asking" /\ call'[w] = call[w] /\ url'[w] = p.next
            /\ items'[w] = list /\ taken'[w] = taken[w] + 1
        BY <2>1 DEF WalkersTyped
      <4> QED BY <3>1, <4>1, <2>2 DEF WalkerTrue
    <3>2. CASE x # w
      BY <3>2, <2>1, WalkerKept DEF WalkersTyped
    <3> QED BY <3>1, <3>2
  <2>6. OneCatalogue'
    BY <2>1 DEF OneCatalogue
  <2> QED BY <2>4, <2>5, <2>6
<1> QED BY <1>3, <1>4, <1>5
-----------------------------------------------------------------------------
LEMMA InitIInv == Init => IInv
<1> SUFFICES ASSUME Init PROVE IInv
  OBVIOUS
<1>1. CacheTyped
  BY CatalogAssumption DEF Init, CatalogInit, CacheTyped, CatalogAssumption, Processes
<1>2. WalkersTyped
  BY DEF Init, WalkersTyped
<1>3. CachedAreServed
  BY DEF Init, CachedAreServed
<1>4. \A w \in Walkers : WalkerTrue(w)
  BY DEF Init, WalkerTrue
<1>5. OneCatalogue
  BY DEF Init, OneCatalogue
<1> QED BY <1>1, <1>2, <1>3, <1>4, <1>5, TypeParts DEF IInv

\* Forgetting pages leaves the others what they were.
LEMMA ForgetKeeps ==
  ASSUME CacheTyped, CachedAreServed, NEW gone, Forget(gone),
         now' \in 0 .. MaxTime, process' \in Processes, aged' \subseteq Urls
  PROVE  CacheTyped' /\ CachedAreServed'
<1>1. /\ DOMAIN pages' \subseteq DOMAIN pages
      /\ \A u \in DOMAIN pages' : pages'[u] = pages[u]
  BY DEF Forget
<1> QED BY <1>1 DEF CacheTyped, CachedAreServed

\* So does a step that leaves the cache alone.
LEMMA CacheKept ==
  ASSUME CacheTyped, CachedAreServed, UNCHANGED pages,
         now' \in 0 .. MaxTime, process' \in Processes, aged' \subseteq Urls
  PROVE  CacheTyped' /\ CachedAreServed'
BY DEF CacheTyped, CachedAreServed

\* And a step that leaves the walkers alone.
LEMMA WalkersKept ==
  ASSUME WalkersTyped, \A x \in Walkers : WalkerTrue(x), UNCHANGED walkerVars,
         outcome' = None
  PROVE  WalkersTyped' /\ (\A x \in Walkers : WalkerTrue(x)') /\ OneCatalogue'
<1>1. WalkersTyped'
  BY DEF WalkersTyped, walkerVars
<1>2. ASSUME NEW x \in Walkers PROVE WalkerTrue(x)'
  BY WalkerKept DEF walkerVars
<1>3. OneCatalogue'
  BY DEF OneCatalogue
<1> QED BY <1>1, <1>2, <1>3

\* Keep stores the page under the URL it was asked for with.
LEMMA KeepServed ==
  ASSUME CacheTyped, CachedAreServed, WalkersTyped, NEW w \in Walkers,
         url[w] \in Urls, answer[w] \in Reply, SomePageOf(url[w], answer[w]), Keep(w),
         UNCHANGED <<now, process, aged>>
  PROVE  CacheTyped' /\ CachedAreServed'
<1>1. CASE Fallback = 0
  BY <1>1, CacheKept DEF Keep, CacheTyped
<1>2. CASE Fallback # 0
  <2> DEFINE kept == [page |-> answer[w], expires_at |-> CallTime(w) + Fallback]
  <2>1. kept \in [page : Reply, expires_at : Nat] /\ kept.page = answer[w]
    <3>1. CallTime(w) + Fallback \in Nat
      BY FallbackAssumption, CatalogAssumption DEF CallTime, WalkersTyped, CatalogAssumption
    <3> QED BY <3>1
  <2>2. pages' = [u \in DOMAIN pages \cup {url[w]} |-> IF u = url[w] THEN kept ELSE pages[u]]
    BY <1>2 DEF Keep
  <2> HIDE DEF kept
  <2>3. /\ DOMAIN pages' = DOMAIN pages \cup {url[w]}
        /\ \A u \in DOMAIN pages' : pages'[u] = IF u = url[w] THEN kept ELSE pages[u]
    BY <2>2
  <2>4. CacheTyped'
    BY <2>1, <2>3 DEF CacheTyped
  <2>5. CachedAreServed'
    BY <2>1, <2>3 DEF CachedAreServed
  <2> QED BY <2>4, <2>5
<1> QED BY <1>1, <1>2

LEMMA NextIInv == IInv /\ [Next]_vars => IInv'
<1> SUFFICES ASSUME IInv, [Next]_vars
             PROVE  /\ CacheTyped' /\ CachedAreServed'
                    /\ WalkersTyped' /\ (\A x \in Walkers : WalkerTrue(x)')
                    /\ OneCatalogue'
  BY DEF IInv, TypeOK, CacheTyped, WalkersTyped
<1>0. CacheTyped /\ CachedAreServed /\ WalkersTyped /\ \A x \in Walkers : WalkerTrue(x)
  BY TypeParts DEF IInv
<1>t. now \in 0 .. MaxTime /\ process \in Processes /\ aged \subseteq Urls /\ MaxTime \in Nat
  BY <1>0, CatalogAssumption DEF CacheTyped, CatalogAssumption
<1>1. CASE Tick
  <2>1. now' \in 0 .. MaxTime /\ process' \in Processes /\ aged' \subseteq Urls
    BY <1>1, <1>t DEF Tick, Clock
  <2>2. CacheTyped' /\ CachedAreServed'
    BY <1>0, <1>1, <2>1, ForgetKeeps DEF Tick
  <2> QED BY <1>0, <1>1, <2>2, WalkersKept DEF Tick
<1>2. CASE Replace
  <2>1. now' \in 0 .. MaxTime /\ process' \in Processes /\ aged' \subseteq Urls
    BY <1>2, <1>t DEF Replace, Restart
  <2>2. CacheTyped' /\ CachedAreServed'
    BY <1>0, <1>2, <2>1, CacheKept DEF Replace
  <2> QED BY <1>0, <1>2, <2>2, WalkersKept DEF Replace
<1>3. ASSUME NEW u \in DOMAIN pages, Evict(u) PROVE
        /\ CacheTyped' /\ CachedAreServed'
        /\ WalkersTyped' /\ (\A x \in Walkers : WalkerTrue(x)')
        /\ OneCatalogue'
  <2>1. now' \in 0 .. MaxTime /\ process' \in Processes /\ aged' \subseteq Urls
    BY <1>3, <1>t DEF Evict
  <2>2. CacheTyped' /\ CachedAreServed'
    BY <1>0, <1>3, <2>1, ForgetKeeps DEF Evict
  <2> QED BY <1>0, <1>3, <2>2, WalkersKept DEF Evict
<1>4. ASSUME NEW w \in Walkers, NEW c \in Calls, Start(w, c) PROVE
        /\ CacheTyped' /\ CachedAreServed'
        /\ WalkersTyped' /\ (\A x \in Walkers : WalkerTrue(x)')
        /\ OneCatalogue'
  <2>1. CacheTyped' /\ CachedAreServed'
    BY <1>0, <1>4, <1>t, CacheKept DEF Start
  <2>2. FirstUrl(c) \in Urls /\ HoldsBeginning(c, FirstUrl(c), <<>>, 0)
    <3>1. /\ FirstUrl(c) \in Urls /\ FirstUrl(c).path = c.path
          /\ FirstUrl(c).representation = c.representation /\ FirstUrl(c).cursor = None
      BY TraversalAssumption DEF TraversalAssumption, FirstUrl, Url, Urls
    <3> QED BY <3>1, BoundsArePositive DEF HoldsBeginning
  <2>3. WalkersTyped'
    BY <1>0, <1>4, <2>2 DEF WalkersTyped, Start
  <2>4. ASSUME NEW x \in Walkers PROVE WalkerTrue(x)'
    <3>1. CASE x = w
      <4>1. /\ pc'[w] = "asking" /\ call'[w] = c /\ url'[w] = FirstUrl(c)
            /\ items'[w] = <<>> /\ taken'[w] = 0
        BY <1>0, <1>4 DEF WalkersTyped, WalkerTrue, Start
      <4> QED BY <3>1, <4>1, <2>2 DEF WalkerTrue
    <3>2. CASE x # w
      BY <1>0, <1>4, <3>2, WalkerKept DEF WalkersTyped, Start
    <3> QED BY <3>1, <3>2
  <2>5. OneCatalogue'
    BY <1>4 DEF Start, OneCatalogue
  <2> QED BY <2>1, <2>3, <2>4, <2>5
<1>5. ASSUME NEW w \in Walkers, Send(w) PROVE
        /\ CacheTyped' /\ CachedAreServed'
        /\ WalkersTyped' /\ (\A x \in Walkers : WalkerTrue(x)')
        /\ OneCatalogue'
  <2>1. CacheTyped' /\ CachedAreServed'
    BY <1>0, <1>5, <1>t, CacheKept DEF Send
  <2>2. WalkersTyped'
    BY <1>0, <1>5, <1>t DEF WalkersTyped, Send
  <2>3. ASSUME NEW x \in Walkers PROVE WalkerTrue(x)'
    <3>1. CASE x = w
      BY <1>0, <1>5, <3>1 DEF WalkersTyped, WalkerTrue, Send
    <3>2. CASE x # w
      BY <1>0, <1>5, <3>2, WalkerKept DEF WalkersTyped, Send
    <3> QED BY <3>1, <3>2
  <2>4. OneCatalogue'
    BY <1>5 DEF Send, OneCatalogue
  <2> QED BY <2>1, <2>2, <2>3, <2>4
<1>6. ASSUME NEW w \in Walkers, Serve(w) PROVE
        /\ CacheTyped' /\ CachedAreServed'
        /\ WalkersTyped' /\ (\A x \in Walkers : WalkerTrue(x)')
        /\ OneCatalogue'
  <2>1. pc[w] = "sent" /\ url[w] \in Urls
    <3>1. pc[w] = "sent"
      BY <1>6 DEF Serve
    <3> QED BY <1>0, <3>1 DEF WalkerTrue, HoldsBeginning
  <2>2. /\ Answer(url[w]) \in Reply
        /\ Answer(url[w]).status = "ok" => SomePageOf(url[w], Answer(url[w]))
    BY <2>1, <1>t, AnswerIsPage DEF SomePageOf
  <2>3. CacheTyped' /\ CachedAreServed'
    <3>1. now' \in 0 .. MaxTime /\ process' \in Processes /\ aged' \subseteq Urls
      BY <1>6, <1>t, <2>1 DEF Serve
    <3> QED BY <1>0, <1>6, <3>1, CacheKept DEF Serve
  <2>4. WalkersTyped'
    BY <1>0, <1>6, <2>2 DEF WalkersTyped, Serve
  <2>5. ASSUME NEW x \in Walkers PROVE WalkerTrue(x)'
    <3>1. CASE x = w
      <4>1. /\ pc'[w] = "answered" /\ answer'[w] = Answer(url[w])
            /\ UNCHANGED <<call, url, items, taken>>
        BY <1>0, <1>6 DEF WalkersTyped, Serve
      <4>2. HoldsBeginning(call[w], url[w], items[w], taken[w])
        BY <1>0, <2>1 DEF WalkerTrue
      <4> QED BY <3>1, <4>1, <4>2, <2>2 DEF WalkerTrue, TrueAnswer
    <3>2. CASE x # w
      BY <1>0, <1>6, <3>2, WalkerKept DEF WalkersTyped, Serve
    <3> QED BY <3>1, <3>2
  <2>6. OneCatalogue'
    BY <1>6 DEF Serve, OneCatalogue
  <2> QED BY <2>3, <2>4, <2>5, <2>6
<1>7. ASSUME NEW w \in Walkers, TakeCached(w) PROVE
        /\ CacheTyped' /\ CachedAreServed'
        /\ WalkersTyped' /\ (\A x \in Walkers : WalkerTrue(x)')
        /\ OneCatalogue'
  <2>1. /\ pc[w] # "idle" /\ pages[url[w]].page \in Reply
        /\ SomePageOf(url[w], pages[url[w]].page)
    BY <1>0, <1>7 DEF TakeCached, Fresh, CacheTyped, CachedAreServed
  <2>2. CacheTyped' /\ CachedAreServed'
    BY <1>0, <1>7, <1>t, CacheKept DEF TakeCached
  <2> QED BY <1>0, <1>7, <2>1, <2>2, CollectKeeps DEF TakeCached
<1>8. ASSUME NEW w \in Walkers, Receive(w) PROVE
        /\ CacheTyped' /\ CachedAreServed'
        /\ WalkersTyped' /\ (\A x \in Walkers : WalkerTrue(x)')
        /\ OneCatalogue'
  <2>1. /\ pc[w] = "answered" /\ url[w] \in Urls /\ answer[w] \in Reply
        /\ SomePageOf(url[w], answer[w])
    <3>1. pc[w] = "answered" /\ answer[w].status = "ok" /\ WalkerTrue(w)
      BY <1>0, <1>8 DEF Receive
    <3> QED BY <3>1 DEF WalkerTrue, HoldsBeginning, TrueAnswer
  <2>2. CacheTyped' /\ CachedAreServed'
    BY <1>0, <1>8, <2>1, KeepServed DEF Receive
  <2> QED BY <1>0, <1>8, <2>1, <2>2, CollectKeeps DEF Receive
<1>9. ASSUME NEW w \in Walkers, ReceiveError(w) \/ TransportFails(w) PROVE
        /\ CacheTyped' /\ CachedAreServed'
        /\ WalkersTyped' /\ (\A x \in Walkers : WalkerTrue(x)')
        /\ OneCatalogue'
  <2>1. /\ pc[w] # "idle" /\ Finish(w, Failed(w))
        /\ UNCHANGED <<now, process, pages, aged>>
    BY <1>9 DEF ReceiveError, TransportFails
  <2>2. Failed(w) \in Outcome \cup {None} /\ Failed(w).status # "returned"
    <3>1. call[w] \in Calls
      BY <1>0, <2>1 DEF WalkerTrue, HoldsBeginning
    <3> QED BY <3>1 DEF Failed, Outcome
  <2>3. CacheTyped' /\ CachedAreServed'
    BY <1>0, <2>1, <1>t, CacheKept
  <2>4. /\ WalkersTyped' /\ (\A x \in Walkers : WalkerTrue(x)')
        /\ outcome' = Failed(w)
    BY <1>0, <2>1, <2>2, FinishKeeps
  <2> QED BY <2>2, <2>3, <2>4 DEF OneCatalogue
<1>10. CASE UNCHANGED vars
  <2>1. CacheTyped' /\ CachedAreServed'
    BY <1>0, <1>10, <1>t, CacheKept DEF vars
  <2>2. WalkersTyped'
    BY <1>0, <1>10 DEF vars, walkerVars, WalkersTyped
  <2>3. ASSUME NEW x \in Walkers PROVE WalkerTrue(x)'
    BY <1>0, <1>10, WalkerKept DEF vars, walkerVars
  <2>4. OneCatalogue'
    BY <1>10 DEF vars, OneCatalogue, IInv
  <2> QED BY <2>1, <2>2, <2>3, <2>4
<1> QED BY <1>1, <1>2, <1>3, <1>4, <1>5, <1>6, <1>7, <1>8, <1>9, <1>10 DEF Next

THEOREM Inductive == Spec => []IInv
BY InitIInv, NextIInv, PTL DEF Spec
-----------------------------------------------------------------------------
(***************************************************************************)
(* Every reachable state of the traversals is well-typed: a continuation   *)
(* given out always names a list, an offset and a process.                 *)
(***************************************************************************)
THEOREM TraversalTypeCorrect == Spec => []TypeOK
<1>1. IInv => TypeOK
  BY DEF IInv
<1> QED BY <1>1, Inductive, PTL

(***************************************************************************)
(* What a traversal returns is the beginning of one process's list, ended  *)
(* by its end or by a bound: no restart, no other catalogue, no cached     *)
(* page and no other traversal mixes two of them.                          *)
(***************************************************************************)
THEOREM NoMixture == Spec => []OneCatalogue
<1>1. IInv => OneCatalogue
  BY DEF IInv
<1> QED BY <1>1, Inductive, PTL
-----------------------------------------------------------------------------
(***************************************************************************)
(* A page is kept no longer than the continuation on it lives, for it is   *)
(* kept from before the continuation was made, and for no longer than the  *)
(* continuation's lifetime.                                                *)
(***************************************************************************)
OutlivesPage(p, until) ==
  p.status = "ok" /\ p.next # None => until <= p.next.cursor.expires

WalkerInTime(w) ==
  /\ pc[w] \in {"sent", "answered"} => sent[w] <= now
  /\ pc[w] = "answered" => OutlivesPage(answer[w], sent[w] + Fallback)

AgeInv ==
  /\ IInv
  /\ \A u \in aged : u.cursor # None /\ u.cursor.expires < now
  /\ \A u \in DOMAIN pages : OutlivesPage(pages[u].page, pages[u].expires_at)
  /\ \A w \in Walkers : WalkerInTime(w)

\* The continuation on a page lives from when the page is made; a
\* continuation refused as expired has outlived its time.
LEMMA AnswerAges ==
  ASSUME NEW u \in Urls, process \in Processes, now \in Nat
  PROVE  /\ Answer(u).status = "ok" /\ Answer(u).next # None
              => Answer(u).next.cursor.expires = now + Lifetime
         /\ Answer(u).status = "EXPIRED" => u.cursor # None /\ u.cursor.expires < now
<1>1. page(u).next # None => page(u).next.cursor.expires = now + Lifetime
  BY DEF page, encode_cursor, Url
<1>2. page(u).status = "ok"
  BY DEF page
<1>3. \/ Answer(u) = page(u)
      \/ Answer(u) = [status |-> "EXPIRED"] /\ u.cursor # None /\ Expired(u.cursor)
      \/ \E code \in {"INVALID_REQUEST", "NOT_FOUND", "UNAVAILABLE"} :
           Answer(u) = [status |-> code]
  BY Zenon DEF Answer
<1> QED BY <1>1, <1>2, <1>3 DEF Expired

LEMMA TimeKept ==
  ASSUME NEW w \in Walkers, WalkerInTime(w),
         pc'[w] = pc[w], sent'[w] = sent[w], answer'[w] = answer[w],
         now \in Nat, now' \in Nat, now <= now', sent[w] \in Nat
  PROVE  WalkerInTime(w)'
BY DEF WalkerInTime, OutlivesPage

\* Collect leaves its walker with no answer, and the others alone.
LEMMA CollectLeavesOthers ==
  ASSUME WalkersTyped, NEW w \in Walkers, NEW p, Collect(w, p)
  PROVE  /\ pc'[w] \in {"idle", "asking"}
         /\ \A x \in Walkers \ {w} :
              pc'[x] = pc[x] /\ sent'[x] = sent[x] /\ answer'[x] = answer[x]
<1> DEFINE Left ==
      /\ pc' = [pc EXCEPT ![w] = "idle"] \/ pc' = [pc EXCEPT ![w] = "asking"]
      /\ sent' = [sent EXCEPT ![w] = 0]
      /\ answer' = [answer EXCEPT ![w] = None]
<1>1. ASSUME NEW result, Finish(w, result) PROVE Left
  BY <1>1 DEF Finish
<1>2. Left
  BY <1>1 DEF Collect
<1> QED BY <1>2 DEF WalkersTyped

LEMMA NextAgeInv == AgeInv /\ [Next]_vars => AgeInv'
<1> SUFFICES ASSUME AgeInv, [Next]_vars PROVE AgeInv'
  OBVIOUS
<1> DEFINE AgedOut == \A u \in aged : u.cursor # None /\ u.cursor.expires < now
           Kept == \A u \in DOMAIN pages : OutlivesPage(pages[u].page, pages[u].expires_at)
           InTime == \A w \in Walkers : WalkerInTime(w)
<1>0. /\ IInv /\ CacheTyped /\ WalkersTyped /\ AgedOut /\ Kept /\ InTime
      /\ \A w \in Walkers : WalkerTrue(w)
  BY TypeParts DEF AgeInv, IInv
<1>i. IInv'
  BY <1>0, NextIInv
<1>t. /\ now \in Nat /\ process \in Processes
      /\ \A w \in Walkers : sent[w] \in Nat
      /\ \A u \in aged : u.cursor # None => u.cursor.expires \in Nat
      /\ Lifetime \in Nat /\ Fallback \in Nat /\ Fallback <= Lifetime
  <2>1. \A u \in Urls : u.cursor # None => u.cursor.expires \in Nat
    BY OffsetsAreNatural DEF Cursor
  <2> QED BY <1>0, <2>1, CatalogAssumption, FallbackAssumption
          DEF CacheTyped, WalkersTyped, CatalogAssumption
<1> SUFFICES AgedOut' /\ Kept' /\ InTime'
  BY <1>i DEF AgeInv
<1>1. CASE Tick
  <2>1. now' = now + 1 /\ UNCHANGED <<walkerVars, aged>>
    BY <1>1 DEF Tick, Clock
  <2>2. AgedOut'
    BY <1>0, <1>t, <2>1
  <2>3. Kept'
    BY <1>0, <1>1 DEF Tick, Forget, OutlivesPage
  <2>4. InTime'
    BY <1>0, <1>t, <2>1, TimeKept DEF walkerVars
  <2> QED BY <2>2, <2>3, <2>4
<1>2. CASE Replace
  <2>1. UNCHANGED <<now, pages, walkerVars, aged>>
    BY <1>2 DEF Replace, Restart
  <2>2. AgedOut' /\ Kept'
    BY <1>0, <2>1 DEF OutlivesPage
  <2>3. InTime'
    BY <1>0, <1>t, <2>1, TimeKept DEF walkerVars
  <2> QED BY <2>2, <2>3
<1>3. ASSUME NEW u \in DOMAIN pages, Evict(u) PROVE AgedOut' /\ Kept' /\ InTime'
  <2>1. UNCHANGED <<now, walkerVars, aged>>
    BY <1>3 DEF Evict
  <2>2. AgedOut' /\ Kept'
    BY <1>0, <1>3, <2>1 DEF Evict, Forget, OutlivesPage
  <2>3. InTime'
    BY <1>0, <1>t, <2>1, TimeKept DEF walkerVars
  <2> QED BY <2>2, <2>3
<1>4. ASSUME NEW w \in Walkers, NEW c \in Calls, Start(w, c)
      PROVE  AgedOut' /\ Kept' /\ InTime'
  <2>1. AgedOut' /\ Kept'
    BY <1>0, <1>4 DEF Start, OutlivesPage
  <2>2. ASSUME NEW x \in Walkers PROVE WalkerInTime(x)'
    <3>1. CASE x = w
      BY <1>0, <1>4, <3>1 DEF WalkerInTime, WalkersTyped, Start
    <3>2. CASE x # w
      BY <1>0, <1>t, <1>4, <3>2, TimeKept DEF WalkersTyped, Start
    <3> QED BY <3>1, <3>2
  <2> QED BY <2>1, <2>2
<1>5. ASSUME NEW w \in Walkers, Send(w) PROVE AgedOut' /\ Kept' /\ InTime'
  <2>1. AgedOut' /\ Kept'
    BY <1>0, <1>5 DEF Send, OutlivesPage
  <2>2. ASSUME NEW x \in Walkers PROVE WalkerInTime(x)'
    <3>1. CASE x = w
      BY <1>0, <1>t, <1>5, <3>1 DEF WalkerInTime, WalkersTyped, Send
    <3>2. CASE x # w
      BY <1>0, <1>t, <1>5, <3>2, TimeKept DEF WalkersTyped, Send
    <3> QED BY <3>1, <3>2
  <2> QED BY <2>1, <2>2
<1>6. ASSUME NEW w \in Walkers, Serve(w) PROVE AgedOut' /\ Kept' /\ InTime'
  <2>1. pc[w] = "sent" /\ url[w] \in Urls /\ sent[w] <= now
    <3>1. pc[w] = "sent" /\ WalkerTrue(w) /\ WalkerInTime(w)
      BY <1>0, <1>6 DEF Serve
    <3> QED BY <3>1 DEF WalkerTrue, HoldsBeginning, WalkerInTime
  <2>2. /\ OutlivesPage(Answer(url[w]), sent[w] + Fallback)
        /\ Answer(url[w]).status = "EXPIRED"
             => url[w].cursor # None /\ url[w].cursor.expires < now
    <3>1. sent[w] + Fallback <= now + Lifetime
      BY <1>t, <2>1
    <3> QED BY <2>1, <3>1, <1>t, AnswerAges DEF OutlivesPage
  <2>3. AgedOut'
    BY <1>0, <1>6, <2>2 DEF Serve
  <2>4. Kept'
    BY <1>0, <1>6 DEF Serve, OutlivesPage
  <2>5. ASSUME NEW x \in Walkers PROVE WalkerInTime(x)'
    <3>1. CASE x = w
      <4>1. /\ answer'[w] = Answer(url[w]) /\ sent'[w] = sent[w] /\ now' = now
        BY <1>0, <1>6 DEF WalkersTyped, Serve
      <4> QED BY <2>1, <2>2, <3>1, <4>1 DEF WalkerInTime, OutlivesPage
    <3>2. CASE x # w
      BY <1>0, <1>t, <1>6, <3>2, TimeKept DEF WalkersTyped, Serve
    <3> QED BY <3>1, <3>2
  <2> QED BY <2>3, <2>4, <2>5
<1>7. ASSUME NEW w \in Walkers, NEW p, Collect(w, p), UNCHANGED <<now, aged>>
      PROVE  AgedOut' /\ InTime'
  <2>1. AgedOut'
    BY <1>0, <1>7
  <2>2. ASSUME NEW x \in Walkers PROVE WalkerInTime(x)'
    <3>1. CASE x = w
      <4>1. pc'[w] \in {"idle", "asking"}
        BY <1>0, <1>7, CollectLeavesOthers
      <4> QED BY <3>1, <4>1 DEF WalkerInTime
    <3>2. CASE x # w
      <4>1. pc'[x] = pc[x] /\ sent'[x] = sent[x] /\ answer'[x] = answer[x]
        BY <1>0, <1>7, <3>2, CollectLeavesOthers
      <4> QED BY <1>0, <1>t, <1>7, <4>1, TimeKept
    <3> QED BY <3>1, <3>2
  <2> QED BY <2>1, <2>2
<1>8. ASSUME NEW w \in Walkers, TakeCached(w) PROVE AgedOut' /\ Kept' /\ InTime'
  <2>1. AgedOut' /\ InTime'
    BY <1>7, <1>8 DEF TakeCached
  <2>2. Kept'
    BY <1>0, <1>8 DEF TakeCached, OutlivesPage
  <2> QED BY <2>1, <2>2
<1>9. ASSUME NEW w \in Walkers, Receive(w) PROVE AgedOut' /\ Kept' /\ InTime'
  <2>1. AgedOut' /\ InTime'
    BY <1>7, <1>9 DEF Receive
  <2>2. OutlivesPage(answer[w], sent[w] + Fallback)
    BY <1>0, <1>9 DEF Receive, WalkerInTime
  <2>3. Kept'
    <3>1. CASE Fallback = 0
      BY <1>0, <1>9, <3>1 DEF Receive, Keep, OutlivesPage
    <3>2. CASE Fallback # 0
      <4>1. pages' = [u \in DOMAIN pages \cup {url[w]} |->
                        IF u = url[w] THEN [page |-> answer[w],
                                            expires_at |-> sent[w] + Fallback]
                                      ELSE pages[u]]
        BY <1>9, <3>2 DEF Receive, Keep, CallTime
      <4>2. ASSUME NEW u \in DOMAIN pages'
            PROVE  OutlivesPage(pages'[u].page, pages'[u].expires_at)
        BY <1>0, <2>2, <4>1
      <4> QED BY <4>2 DEF OutlivesPage
    <3> QED BY <3>1, <3>2
  <2> QED BY <2>1, <2>3
<1>10. ASSUME NEW w \in Walkers, ReceiveError(w) \/ TransportFails(w)
       PROVE  AgedOut' /\ Kept' /\ InTime'
  <2>1. Finish(w, Failed(w)) /\ UNCHANGED <<now, process, pages, aged>>
    BY <1>10 DEF ReceiveError, TransportFails
  <2>2. AgedOut' /\ Kept'
    BY <1>0, <2>1 DEF OutlivesPage
  <2>3. ASSUME NEW x \in Walkers PROVE WalkerInTime(x)'
    <3>1. CASE x = w
      BY <1>0, <2>1, <3>1 DEF WalkerInTime, WalkersTyped, Finish
    <3>2. CASE x # w
      BY <1>0, <1>t, <2>1, <3>2, TimeKept DEF WalkersTyped, Finish
    <3> QED BY <3>1, <3>2
  <2> QED BY <2>2, <2>3
<1>11. CASE UNCHANGED vars
  <2>1. AgedOut' /\ Kept'
    BY <1>0, <1>11 DEF vars, OutlivesPage
  <2>2. InTime'
    BY <1>0, <1>t, <1>11, TimeKept DEF vars, walkerVars
  <2> QED BY <2>1, <2>2
<1> HIDE DEF AgedOut, Kept, InTime
<1> QED BY <1>1, <1>2, <1>3, <1>4, <1>5, <1>6, <1>8, <1>9, <1>10, <1>11 DEF Next

(***************************************************************************)
(* Once a continuation was refused as expired, no page that is still fresh *)
(* gives it out: a restarted traversal does not meet it again, provided    *)
(* that pages are kept no longer than continuations live.                  *)
(***************************************************************************)
THEOREM ExpiredNotMetAgain == Spec => []ExpiredIsForgotten
<1>1. Init => AgeInv
  BY InitIInv DEF Init, AgeInv, WalkerInTime
<1>2. AgeInv => ExpiredIsForgotten
  <2> SUFFICES ASSUME AgeInv, NEW u \in DOMAIN pages, Fresh(u), pages[u].page.next \in aged
               PROVE  FALSE
    BY DEF ExpiredIsForgotten
  <2>1. CacheTyped /\ SomePageOf(u, pages[u].page)
    BY TypeParts DEF AgeInv, IInv, CachedAreServed
  <2>2. pages[u].page.status = "ok"
    BY <2>1 DEF SomePageOf, PageOf
  <2> DEFINE next == pages[u].page.next
  <2>3. next \in Urls /\ next # None
    BY <2>1, NoneAssumption DEF CacheTyped
  <2>4. next.cursor # None /\ next.cursor.expires < now
    BY DEF AgeInv
  <2>5. pages[u].expires_at <= next.cursor.expires
    BY <2>2, <2>3 DEF AgeInv, OutlivesPage
  <2>6. next.cursor.expires \in Nat /\ now \in Nat /\ pages[u].expires_at \in Nat
    BY <2>1, <2>3, <2>4, OffsetsAreNatural, CatalogAssumption
       DEF CacheTyped, Cursor, CatalogAssumption
  <2> HIDE DEF next
  <2>7. now < pages[u].expires_at
    BY DEF Fresh
  <2> QED BY <2>4, <2>5, <2>6, <2>7
<1> QED BY <1>1, <1>2, NextAgeInv, PTL DEF Spec
-----------------------------------------------------------------------------
(***************************************************************************)
(* The part of TraversalEnds that needs no fairness.  A traversal has a    *)
(* number of steps left: three for each page it may still drain.           *)
(***************************************************************************)
StepsOfPage == [asking |-> 3, sent |-> 2, answered |-> 1]

StepsLeft(w) == 3 * (maximum_pages(call[w]) - taken[w] - 1) + StepsOfPage[pc[w]]

Moves(w) ==
  Send(w) \/ Serve(w) \/ TakeCached(w) \/ Receive(w) \/ ReceiveError(w) \/ TransportFails(w)

NearerItsEnd(w) == pc'[w] = "idle" \/ (call'[w] = call[w] /\ StepsLeft(w)' < StepsLeft(w))

LeftAlone(w) == pc'[w] = pc[w] /\ call'[w] = call[w] /\ taken'[w] = taken[w]

LEMMA WalkersAreUnderWay ==
  ASSUME IInv, NEW w \in Walkers, pc[w] # "idle"
  PROVE  /\ pc[w] \in {"asking", "sent", "answered"} /\ call[w] \in Calls
         /\ taken[w] \in Nat /\ maximum_pages(call[w]) \in Nat /\ taken[w] < maximum_pages(call[w])
<1>1. HoldsBeginning(call[w], url[w], items[w], taken[w]) /\ WalkersTyped
  BY TypeParts DEF IInv, WalkerTrue
<1>2. call[w] \in Calls /\ taken[w] < maximum_pages(call[w])
  BY <1>1 DEF HoldsBeginning
<1> QED BY <1>1, <1>2, BoundsArePositive DEF WalkersTyped

LEMMA StepsAreLeft ==
  ASSUME IInv, NEW w \in Walkers, pc[w] # "idle"
  PROVE  StepsLeft(w) \in Nat
<1>1. StepsOfPage[pc[w]] \in 1 .. 3
  BY WalkersAreUnderWay DEF StepsOfPage
<1>2. maximum_pages(call[w]) - taken[w] - 1 \in Nat
  BY WalkersAreUnderWay
<1> QED BY <1>1, <1>2 DEF StepsLeft

\* Draining a page ends the traversal, or begins the next page.
LEMMA CollectEndsPage ==
  ASSUME WalkersTyped, NEW w \in Walkers, NEW p, Collect(w, p)
  PROVE  \/ pc'[w] = "idle"
         \/ pc'[w] = "asking" /\ call'[w] = call[w] /\ taken'[w] = taken[w] + 1
<1>1. ASSUME NEW result, Finish(w, result) PROVE pc'[w] = "idle"
  BY <1>1 DEF Finish, WalkersTyped
<1> QED BY <1>1 DEF Collect, WalkersTyped

LEMMA MoveIsNearer ==
  ASSUME IInv, NEW w \in Walkers, pc[w] # "idle", Moves(w)
  PROVE  NearerItsEnd(w)
<1> DEFINE m == maximum_pages(call[w])
           t == taken[w]
<1>0. WalkersTyped /\ m \in Nat /\ t \in Nat
  BY TypeParts, WalkersAreUnderWay DEF IInv
<1>1. CASE Send(w)
  <2>1. pc[w] = "asking" /\ pc'[w] = "sent" /\ call'[w] = call[w] /\ taken'[w] = taken[w]
    BY <1>0, <1>1 DEF Send, WalkersTyped
  <2>2. StepsLeft(w) = 3 * (m - t - 1) + 3 /\ StepsLeft(w)' = 3 * (m - t - 1) + 2
    BY <2>1 DEF StepsLeft, StepsOfPage
  <2> HIDE DEF m, t
  <2> QED BY <1>0, <2>1, <2>2 DEF NearerItsEnd
<1>2. CASE Serve(w)
  <2>1. pc[w] = "sent" /\ pc'[w] = "answered" /\ call'[w] = call[w] /\ taken'[w] = taken[w]
    BY <1>0, <1>2 DEF Serve, WalkersTyped
  <2>2. StepsLeft(w) = 3 * (m - t - 1) + 2 /\ StepsLeft(w)' = 3 * (m - t - 1) + 1
    BY <2>1 DEF StepsLeft, StepsOfPage
  <2> HIDE DEF m, t
  <2> QED BY <1>0, <2>1, <2>2 DEF NearerItsEnd
<1>3. CASE TakeCached(w) \/ Receive(w)
  <2>1. \/ pc'[w] = "idle"
        \/ pc'[w] = "asking" /\ call'[w] = call[w] /\ taken'[w] = taken[w] + 1
    BY <1>0, <1>3, CollectEndsPage DEF TakeCached, Receive
  <2>2. CASE pc'[w] = "asking" /\ call'[w] = call[w] /\ taken'[w] = taken[w] + 1
    <3>1. StepsLeft(w)' = 3 * (m - (t + 1) - 1) + 3
      BY <2>2 DEF StepsLeft, StepsOfPage
    <3>2. StepsOfPage[pc[w]] \in 1 .. 3 /\ StepsLeft(w) = 3 * (m - t - 1) + StepsOfPage[pc[w]]
      BY WalkersAreUnderWay DEF StepsLeft, StepsOfPage
    <3> HIDE DEF m, t
    <3>3. StepsLeft(w)' < StepsLeft(w)
      BY <1>0, <3>1, <3>2
    <3> QED BY <2>2, <3>3 DEF NearerItsEnd
  <2> QED BY <2>1, <2>2 DEF NearerItsEnd
<1>4. CASE ReceiveError(w) \/ TransportFails(w)
  BY <1>0, <1>4 DEF ReceiveError, TransportFails, Finish, WalkersTyped, NearerItsEnd
<1> QED BY <1>1, <1>2, <1>3, <1>4 DEF Moves

\* What another traversal does is nothing to this one.
LEMMA OthersLeaveAlone ==
  ASSUME IInv, NEW w \in Walkers, NEW x \in Walkers \ {w}, Moves(x)
  PROVE  LeftAlone(w)
<1>0. WalkersTyped
  BY TypeParts DEF IInv
<1>1. ASSUME NEW result, Finish(x, result) PROVE LeftAlone(w)
  BY <1>0, <1>1 DEF Finish, WalkersTyped, LeftAlone
<1>2. ASSUME NEW p, Collect(x, p) PROVE LeftAlone(w)
  BY <1>0, <1>1, <1>2 DEF Collect, WalkersTyped, LeftAlone
<1>3. CASE Send(x) \/ Serve(x)
  BY <1>0, <1>3 DEF Send, Serve, WalkersTyped, LeftAlone
<1>4. CASE TakeCached(x) \/ Receive(x)
  BY <1>2, <1>4 DEF TakeCached, Receive
<1>5. CASE ReceiveError(x) \/ TransportFails(x)
  BY <1>1, <1>5 DEF ReceiveError, TransportFails
<1> QED BY <1>3, <1>4, <1>5 DEF Moves

Nearer ==
  \A w \in Walkers : pc[w] # "idle" => IF Moves(w) THEN NearerItsEnd(w) ELSE LeftAlone(w)

LEMMA StepIsNearer == IInv /\ [Next]_vars => [Nearer]_vars
<1> SUFFICES ASSUME IInv, Next, NEW w \in Walkers, pc[w] # "idle", ~Moves(w)
             PROVE  LeftAlone(w)
  BY MoveIsNearer DEF Nearer
<1>1. CASE Tick \/ Replace \/ \E u \in DOMAIN pages : Evict(u)
  BY <1>1 DEF Tick, Replace, Evict, walkerVars, LeftAlone
<1>2. ASSUME NEW x \in Walkers, NEW c \in Calls, Start(x, c) PROVE LeftAlone(w)
  BY <1>2, TypeParts DEF IInv, WalkersTyped, Start, LeftAlone
<1>3. ASSUME NEW x \in Walkers, Moves(x) PROVE LeftAlone(w)
  BY <1>3, OthersLeaveAlone
<1> QED BY <1>1, <1>2, <1>3 DEF Next, Moves

(***************************************************************************)
(* A traversal takes no more steps than three for each page it may drain:  *)
(* each of its own brings it nearer its end, and no other traversal, no    *)
(* restart and no eviction takes it back.  (That it takes them is the      *)
(* fairness of FairSpec.)                                                  *)
(***************************************************************************)
THEOREM TraversalsRunOut ==
  Spec => /\ [](\A w \in Walkers : pc[w] # "idle" => StepsLeft(w) \in Nat)
          /\ [][Nearer]_vars
<1>1. IInv => \A w \in Walkers : pc[w] # "idle" => StepsLeft(w) \in Nat
  BY StepsAreLeft
<1> QED BY <1>1, StepIsNearer, Inductive, PTL DEF Spec
=============================================================================
