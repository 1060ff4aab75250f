----------------------- MODULE DirectoryTraversalProofs ----------------------
(***************************************************************************)
(* That the Directory client stays on its origin, follows no cursor twice, *)
(* fetches nothing that is not wanted and sends a bounded number of        *)
(* requests, whatever the Directory answers and for all bounds.            *)
(***************************************************************************)
EXTENDS DirectoryTraversal, FiniteSetTheorems, SequenceTheorems, TLAPS

\* Nothing is held between calls.
AtRest ==
  call = None => method = "GET" /\ body = FALSE /\ target = None /\ pages = <<>>

\* The pages so far led to the continuations followed, each to one of its own.
FollowsItsPages ==
  /\ \A k \in DOMAIN pages : pages[k].next \in visited
  /\ NoCursorTwice

\* The requests of the pages so far, and of the page that is asked for.
CountsRequests ==
  call # None =>
    /\ ~OutOfBounds(call)
    /\ sends <= Len(pages) * (MAXIMUM_REDIRECTS + 1) + redirects + 1

IInv ==
  /\ TypeOK
  /\ AtRest
  /\ StaysHome
  /\ FollowsItsPages
  /\ CountsRequests
  /\ StillWanted
-----------------------------------------------------------------------------
LEMMA BoundsAreNatural ==
  ASSUME NEW c \in Calls
  PROVE  maximum_items(c) \in Nat \ {0} /\ maximum_pages(c) \in Nat \ {0}
BY DirectoryAssumption DEF DirectoryAssumption, maximum_items, maximum_pages, bounded

LEMMA ProductsAreNatural ==
  ASSUME NEW n \in Nat, NEW k \in Nat
  PROVE  n * k \in Nat
OBVIOUS

\* One page more, and the requests it may take.
LEMMA OneMorePage ==
  ASSUME NEW n \in Nat, NEW k \in Nat
  PROVE  (n + 1) * k = n * k + k
OBVIOUS

LEMMA ProductsGrow ==
  ASSUME NEW n \in Nat, NEW m \in Nat, NEW k \in Nat, n <= m
  PROVE  n * k <= m * k
OBVIOUS

\* The Services of finitely many pages are finitely many.
LEMMA MetIsFinite ==
  ASSUME NEW list \in Seq(Pages)
  PROVE  IsFiniteSet(Met(list)) /\ Cardinality(Met(list)) \in Nat
<1> DEFINE Of(k) == {k} \X {j \in DOMAIN list[k].records : list[k].records[j]}
<1>1. DOMAIN list = 1 .. Len(list) /\ IsFiniteSet(DOMAIN list)
  BY FS_Interval
<1>2. ASSUME NEW k \in DOMAIN list PROVE IsFiniteSet(Of(k))
  <2>1. list[k].records \in Seq(BOOLEAN)
    BY DirectoryAssumption DEF DirectoryAssumption
  <2>2. IsFiniteSet(DOMAIN list[k].records)
    <3>1. DOMAIN list[k].records = 1 .. Len(list[k].records) /\ Len(list[k].records) \in Nat
      BY <2>1
    <3>2. IsFiniteSet(1 .. Len(list[k].records))
      BY <3>1, FS_Interval
    <3> QED BY <3>1, <3>2
  <2>3. IsFiniteSet({j \in DOMAIN list[k].records : list[k].records[j]})
    BY <2>2, FS_Subset
  <2>4. IsFiniteSet({k})
    BY FS_Singleton
  <2> QED BY <2>3, <2>4, FS_Product
<1> HIDE DEF Of
<1>3. IsFiniteSet({Of(k) : k \in DOMAIN list})
  <2> DEFINE all == {Of(k) : k \in DOMAIN list}
             f == [k \in DOMAIN list |-> Of(k)]
  <2>1. f \in Surjection(DOMAIN list, all)
    BY DEF Surjection
  <2> QED BY <1>1, <2>1, FS_Surjection
<1>4. IsFiniteSet(UNION {Of(k) : k \in DOMAIN list})
  BY <1>2, <1>3, FS_UNION
<1>5. IsFiniteSet(Met(list))
  BY <1>4 DEF Met, Of
<1> QED BY <1>5, FS_CardinalityType

\* What Enough counts are the Services of the pages.
LEMMA EnoughCountsMet ==
  ASSUME NEW list \in Seq(Pages)
  PROVE  ItemsUpTo(list, Len(list)) = Cardinality(Met(list))
<1>1. DOMAIN list = 1 .. Len(list)
  OBVIOUS
<1> QED BY <1>1 DEF ItemsUpTo, Met, Readable

LEMMA NothingMet == Cardinality(Met(<<>>)) = 0
<1>1. Met(<<>>) = {}
  BY DEF Met
<1> QED BY <1>1, FS_EmptySet
-----------------------------------------------------------------------------
(***************************************************************************)
(* What is collected.  The Services that were met have a rank, the number  *)
(* of those up to and with it: no two have the same, and each number up to *)
(* a Service's rank is the rank of one before it.  What is collected are   *)
(* the Services whose rank is within the bound.                            *)
(***************************************************************************)
Earlier(x, y) == x[1] < y[1] \/ (x[1] = y[1] /\ x[2] < y[2])

Upto(list, x) == {y \in Met(list) : y = x \/ Earlier(y, x)}

Rank(list, x) == Cardinality(Upto(list, x))

LEMMA MetOfPages ==
  ASSUME NEW list \in Seq(Pages)
  PROVE  Met(list) = UNION {{k} \X Readable(list[k]) : k \in 1 .. Len(list)}
<1>1. DOMAIN list = 1 .. Len(list)
  OBVIOUS
<1> QED BY <1>1 DEF Met, Readable

LEMMA MetPair ==
  ASSUME NEW list \in Seq(Pages), NEW x \in Met(list)
  PROVE  /\ x = <<x[1], x[2]>> /\ x[1] \in 1 .. Len(list)
         /\ x[2] \in Readable(list[x[1]]) /\ x[2] \in Nat
<1>1. PICK k \in 1 .. Len(list) : x \in {k} \X Readable(list[k])
  BY MetOfPages
<1>2. list[k].records \in Seq(BOOLEAN)
  BY DirectoryAssumption DEF DirectoryAssumption
<1>3. Readable(list[k]) \subseteq Nat
  BY <1>2 DEF Readable
<1> QED BY <1>1, <1>3

LEMMA MetMember ==
  ASSUME NEW list \in Seq(Pages), NEW k \in 1 .. Len(list), NEW j \in Readable(list[k])
  PROVE  <<k, j>> \in Met(list)
<1>1. <<k, j>> \in {k} \X Readable(list[k])
  OBVIOUS
<1> QED BY <1>1, MetOfPages

LEMMA UptoIsFinite ==
  ASSUME NEW list \in Seq(Pages), NEW x
  PROVE  IsFiniteSet(Upto(list, x)) /\ Rank(list, x) \in Nat
<1>1. IsFiniteSet(Met(list)) /\ Upto(list, x) \in SUBSET Met(list)
  BY MetIsFinite DEF Upto
<1>2. IsFiniteSet(Upto(list, x))
  BY <1>1, FS_Subset
<1> QED BY <1>2, FS_CardinalityType DEF Rank

\* What Collected counts is the rank.
LEMMA RankOf ==
  ASSUME NEW list \in Seq(Pages), NEW x \in Met(list)
  PROVE  Rank(list, x) =
           ItemsUpTo(list, x[1] - 1) + Cardinality({i \in Readable(list[x[1]]) : i <= x[2]})
<1> DEFINE k      == x[1]
           before == UNION {{n} \X Readable(list[n]) : n \in 1 .. k - 1}
           upon   == {i \in Readable(list[k]) : i <= x[2]}
           here   == {k} \X upon
<1>1. x = <<k, x[2]>> /\ k \in 1 .. Len(list) /\ x[2] \in Readable(list[k]) /\ x[2] \in Nat
  BY MetPair
<1>2. ASSUME NEW y \in Upto(list, x) PROVE y \in before \cup here
  <2>1. y \in Met(list) /\ (y = x \/ Earlier(y, x))
    BY DEF Upto
  <2>2. /\ y = <<y[1], y[2]>> /\ y[1] \in 1 .. Len(list)
        /\ y[2] \in Readable(list[y[1]]) /\ y[2] \in Nat
    BY <2>1, MetPair
  <2>3. CASE y[1] < k
    <3>1. y[1] \in 1 .. k - 1 /\ y \in {y[1]} \X Readable(list[y[1]])
      BY <1>1, <2>2, <2>3
    <3> QED BY <3>1
  <2>4. CASE y[1] = k /\ y[2] <= x[2]
    BY <2>2, <2>4
  <2> QED BY <1>1, <2>1, <2>2, <2>3, <2>4 DEF Earlier
<1>3. ASSUME NEW y \in before PROVE y \in Upto(list, x)
  <2>1. PICK n \in 1 .. k - 1 : y \in {n} \X Readable(list[n])
    OBVIOUS
  <2>2. n \in 1 .. Len(list) /\ y = <<n, y[2]>> /\ y[2] \in Readable(list[n]) /\ n < k
    BY <1>1, <2>1
  <2>3. y \in Met(list)
    BY <2>2, MetMember
  <2> QED BY <2>2, <2>3 DEF Upto, Earlier
<1>4. ASSUME NEW y \in here PROVE y \in Upto(list, x)
  <2>1. y = <<k, y[2]>> /\ y[2] \in Readable(list[k]) /\ y[2] <= x[2]
    OBVIOUS
  <2>2. y \in Met(list)
    BY <1>1, <2>1, MetMember
  <2>3. y[2] \in Nat
    BY <2>2, MetPair
  <2> QED BY <1>1, <2>1, <2>2, <2>3 DEF Upto, Earlier
<1>5. Upto(list, x) = before \cup here /\ before \cap here = {}
  <2>1. Upto(list, x) = before \cup here
    <3> HIDE DEF before, here
    <3> QED BY <1>2, <1>3, <1>4
  <2>2. before \cap here = {}
    BY <1>1
  <2> QED BY <2>1, <2>2
<1>6. IsFiniteSet(before) /\ IsFiniteSet(here)
  <2>1. before \in SUBSET Upto(list, x) /\ here \in SUBSET Upto(list, x)
    BY <1>5
  <2> QED BY <2>1, UptoIsFinite, FS_Subset
<1>7. IsFiniteSet(upon)
  <2>1. list[k].records \in Seq(BOOLEAN)
    BY <1>1, DirectoryAssumption DEF DirectoryAssumption
  <2>2. IsFiniteSet(1 .. Len(list[k].records))
    BY <2>1, FS_Interval
  <2>3. upon \in SUBSET (1 .. Len(list[k].records))
    BY <2>1 DEF Readable
  <2> QED BY <2>2, <2>3, FS_Subset
<1>8. Cardinality(here) = Cardinality(upon)
  <2>1. IsFiniteSet({k}) /\ Cardinality({k}) = 1
    BY FS_Singleton
  <2>2. Cardinality(upon) \in Nat
    BY <1>7, FS_CardinalityType
  <2>3. Cardinality(here) = Cardinality({k}) * Cardinality(upon)
    <3> HIDE DEF upon
    <3> QED BY <1>7, <2>1, FS_Product
  <2> QED BY <2>1, <2>2, <2>3
<1>9. Cardinality(before \cup here) = Cardinality(before) + Cardinality(here)
  <2> HIDE DEF before, here
  <2>1. Cardinality(before \cup here)
          = Cardinality(before) + Cardinality(here) - Cardinality(before \cap here)
    BY <1>6, FS_Union
  <2>2. Cardinality(before \cap here) = 0
    BY <1>5, FS_EmptySet
  <2>3. Cardinality(before) \in Nat /\ Cardinality(here) \in Nat
    BY <1>6, FS_CardinalityType
  <2> QED BY <2>1, <2>2, <2>3
<1>10. ItemsUpTo(list, k - 1) = Cardinality(before)
  BY DEF ItemsUpTo
<1> QED BY <1>5, <1>8, <1>9, <1>10 DEF Rank

\* Ranks are in the order of the Services.
LEMMA RanksInOrder ==
  ASSUME NEW list \in Seq(Pages), NEW x \in Met(list), NEW y \in Met(list), Earlier(x, y)
  PROVE  Rank(list, x) < Rank(list, y) /\ Upto(list, x) \subseteq Upto(list, y)
<1>1. /\ x[1] \in Nat /\ x[2] \in Nat /\ y[1] \in Nat /\ y[2] \in Nat
  BY MetPair
<1>2. Upto(list, x) \subseteq Upto(list, y)
  <2>1. SUFFICES ASSUME NEW z \in Upto(list, x) PROVE z \in Upto(list, y)
    OBVIOUS
  <2>2. z \in Met(list) /\ (z = x \/ Earlier(z, x))
    BY DEF Upto
  <2>3. z[1] \in Nat /\ z[2] \in Nat
    BY <2>2, MetPair
  <2>4. Earlier(z, y)
    BY <1>1, <2>2, <2>3 DEF Earlier
  <2> QED BY <2>2, <2>4 DEF Upto
<1>3. y \in Upto(list, y) /\ y \notin Upto(list, x)
  <2>1. y # x /\ ~Earlier(y, x)
    BY <1>1 DEF Earlier
  <2> QED BY <2>1 DEF Upto
<1>4. /\ IsFiniteSet(Upto(list, y)) /\ Rank(list, x) \in Nat /\ Rank(list, y) \in Nat
  BY UptoIsFinite
<1>5. Upto(list, x) \in SUBSET Upto(list, y) /\ Upto(list, x) # Upto(list, y)
  BY <1>2, <1>3
<1>6. Rank(list, x) <= Rank(list, y) /\ Rank(list, x) # Rank(list, y)
  BY <1>4, <1>5, FS_Subset DEF Rank
<1> QED BY <1>2, <1>4, <1>6

LEMMA RanksDiffer ==
  ASSUME NEW list \in Seq(Pages), NEW x \in Met(list), NEW y \in Met(list),
         Rank(list, x) = Rank(list, y)
  PROVE  x = y
<1>1. /\ x = <<x[1], x[2]>> /\ y = <<y[1], y[2]>>
      /\ x[1] \in Nat /\ x[2] \in Nat /\ y[1] \in Nat /\ y[2] \in Nat
  BY MetPair
<1>2. Rank(list, x) \in Nat
  BY UptoIsFinite
<1>3. ~Earlier(x, y) /\ ~Earlier(y, x)
  BY <1>2, RanksInOrder
<1>4. x[1] = y[1] /\ x[2] = y[2]
  BY <1>1, <1>3 DEF Earlier
<1> QED BY <1>1, <1>4

\* Every number up to a rank is a rank.
LEMMA RanksAreAll ==
  ASSUME NEW list \in Seq(Pages), NEW x \in Met(list), NEW n \in 1 .. Rank(list, x)
  PROVE  \E y \in Met(list) : Rank(list, y) = n
<1> DEFINE places == 1 .. Rank(list, x)
           f      == [y \in Upto(list, x) |-> Rank(list, y)]
<1>1. Rank(list, x) \in Nat /\ IsFiniteSet(Upto(list, x))
  BY UptoIsFinite
<1>2. IsFiniteSet(places) /\ Cardinality(places) = Rank(list, x)
  BY <1>1, FS_Interval
<1>3. ASSUME NEW y \in Upto(list, x) PROVE y \in Met(list) /\ Rank(list, y) \in places
  <2>1. y \in Met(list) /\ (y = x \/ Earlier(y, x))
    BY DEF Upto
  <2>2. Rank(list, y) \in Nat /\ Rank(list, y) <= Rank(list, x)
    BY <1>1, <2>1, UptoIsFinite, RanksInOrder
  <2>3. Rank(list, y) # 0
    <3>1. y \in Upto(list, y)
      BY <2>1 DEF Upto
    <3> QED BY <3>1, UptoIsFinite, FS_EmptySet DEF Rank
  <2> QED BY <1>1, <2>1, <2>2, <2>3
<1>4. f \in Injection(Upto(list, x), places)
  <2>1. f \in [Upto(list, x) -> places]
    BY <1>3
  <2>2. \A y, z \in Upto(list, x) : f[y] = f[z] => y = z
    BY <1>3, RanksDiffer
  <2> QED BY <2>1, <2>2 DEF Injection, IsInjective
<1>5. f \in Surjection(Upto(list, x), places)
  <2> HIDE DEF f
  <2>1. Cardinality(Upto(list, x)) = Cardinality(places)
    BY <1>2 DEF Rank
  <2> QED BY <1>2, <1>4, <2>1, FS_Injection
<1>6. PICK y \in Upto(list, x) : f[y] = n
  BY <1>5 DEF Surjection
<1> QED BY <1>3, <1>6

\* What CollectsAll asks of the Services taken from a list of pages.
AccountedFor(c, list, taken) ==
  /\ \A x \in Met(list), y \in taken : Earlier(x, y) => x \in taken
  /\ Cardinality(taken) <= maximum_items(c)
  /\ Cardinality(taken) < maximum_items(c) =>
       /\ taken = Met(list)
       /\ list[Len(list)].next = None \/ Len(list) = maximum_pages(c)

Within(c, list) == {x \in Met(list) : Rank(list, x) <= maximum_items(c)}

LEMMA CollectedIsWithin ==
  ASSUME NEW c, NEW list \in Seq(Pages)
  PROVE  {x \in Met(list) : x[2] \in Collected(c, list)[x[1]]} = Within(c, list)
<1>1. ASSUME NEW x \in Met(list)
      PROVE  x[2] \in Collected(c, list)[x[1]] <=> Rank(list, x) <= maximum_items(c)
  <2>1. x[1] \in 1 .. Len(list) /\ x[2] \in Readable(list[x[1]])
    BY MetPair
  <2>2. Collected(c, list)[x[1]] =
          {j \in Readable(list[x[1]]) :
             ItemsUpTo(list, x[1] - 1) + Cardinality({i \in Readable(list[x[1]]) : i <= j})
               <= maximum_items(c)}
    BY <2>1 DEF Collected
  <2> QED BY <2>1, <2>2, RankOf
<1> QED BY <1>1 DEF Within

\* As many Services are within the bound as ranks are.
LEMMA WithinIsBounded ==
  ASSUME NEW c \in Calls, NEW list \in Seq(Pages)
  PROVE  IsFiniteSet(Within(c, list)) /\ Cardinality(Within(c, list)) <= maximum_items(c)
<1> DEFINE most   == maximum_items(c)
           places == 1 .. most
           taken  == Within(c, list)
           f      == [x \in taken |-> Rank(list, x)]
<1>1. most \in Nat
  BY BoundsAreNatural
<1>2. IsFiniteSet(places) /\ Cardinality(places) = most
  BY <1>1, FS_Interval
<1>3. IsFiniteSet(taken)
  BY MetIsFinite, FS_Subset DEF Within
<1>4. ASSUME NEW x \in taken PROVE x \in Met(list) /\ Rank(list, x) \in places
  <2>1. x \in Met(list) /\ Rank(list, x) <= most
    BY DEF Within
  <2>2. Rank(list, x) \in Nat /\ IsFiniteSet(Upto(list, x)) /\ x \in Upto(list, x)
    BY <2>1, UptoIsFinite DEF Upto
  <2>3. Rank(list, x) # 0
    BY <2>2, FS_EmptySet DEF Rank
  <2> QED BY <1>1, <2>1, <2>2, <2>3
<1> HIDE DEF most, taken
<1>5. f \in Injection(taken, places)
  <2>1. f \in [taken -> places]
    BY <1>4
  <2>2. \A x, y \in taken : f[x] = f[y] => x = y
    BY <1>4, RanksDiffer
  <2> QED BY <2>1, <2>2 DEF Injection, IsInjective
<1>6. Cardinality(taken) <= Cardinality(places)
  <2> HIDE DEF f
  <2> QED BY <1>2, <1>5, FS_Injection
<1> QED BY <1>2, <1>3, <1>6 DEF most, taken

\* Fewer Services than the bound are all there are.
LEMMA FewerAreAll ==
  ASSUME NEW c \in Calls, NEW list \in Seq(Pages),
         Cardinality(Within(c, list)) < maximum_items(c)
  PROVE  Within(c, list) = Met(list)
<1> DEFINE most == maximum_items(c)
<1>1. most \in Nat \ {0}
  BY BoundsAreNatural
<1>2. SUFFICES ASSUME NEW z \in Met(list), z \notin Within(c, list) PROVE FALSE
  BY DEF Within
<1>3. Rank(list, z) \in Nat /\ Rank(list, z) > most
  BY <1>1, <1>2, UptoIsFinite DEF Within
<1>4. PICK y \in Met(list) : Rank(list, y) = most
  BY <1>1, <1>3, RanksAreAll
<1>5. ASSUME NEW x \in Upto(list, y) PROVE x \in Within(c, list)
  <2>1. x \in Met(list) /\ (x = y \/ Earlier(x, y))
    BY DEF Upto
  <2>2. Rank(list, x) \in Nat /\ Rank(list, x) <= most
    BY <1>1, <1>4, <2>1, UptoIsFinite, RanksInOrder
  <2> QED BY <2>1, <2>2 DEF Within
<1>6. IsFiniteSet(Within(c, list)) /\ Upto(list, y) \in SUBSET Within(c, list)
  BY <1>5, WithinIsBounded
<1>7. Cardinality(Upto(list, y)) <= Cardinality(Within(c, list))
  BY <1>6, FS_Subset
<1>8. Cardinality(Within(c, list)) \in Nat
  BY <1>6, FS_CardinalityType
<1> QED BY <1>1, <1>4, <1>7, <1>8 DEF Rank

\* A call that collects returns once it need not go on.
LEMMA CollectedAccountedFor ==
  ASSUME NEW c \in Calls, c.kind = "collect", NEW list \in Seq(Pages), Finished(c, list),
         Len(list) <= maximum_pages(c)
  PROVE  AccountedFor(c, list, Within(c, list))
<1>1. /\ maximum_items(c) \in Nat /\ maximum_pages(c) \in Nat /\ Len(list) \in Nat
      /\ Cardinality(Within(c, list)) <= maximum_items(c)
  BY BoundsAreNatural, WithinIsBounded
<1>2. ASSUME NEW x \in Met(list), NEW y \in Within(c, list), Earlier(x, y)
      PROVE  x \in Within(c, list)
  <2>1. y \in Met(list) /\ Rank(list, y) <= maximum_items(c)
    BY DEF Within
  <2>2. Rank(list, x) \in Nat /\ Rank(list, y) \in Nat /\ Rank(list, x) < Rank(list, y)
    BY <1>2, <2>1, UptoIsFinite, RanksInOrder
  <2> QED BY <1>1, <2>1, <2>2 DEF Within
<1>3. ASSUME Cardinality(Within(c, list)) < maximum_items(c)
      PROVE  /\ Within(c, list) = Met(list)
             /\ list[Len(list)].next = None \/ Len(list) = maximum_pages(c)
  <2>1. Within(c, list) = Met(list)
    BY <1>3, FewerAreAll
  <2>2. ~Enough(c, list)
    <3>1. ItemsUpTo(list, Len(list)) = Cardinality(Met(list)) /\ Cardinality(Met(list)) \in Nat
      BY EnoughCountsMet, MetIsFinite
    <3> QED BY <1>1, <1>3, <2>1, <3>1 DEF Enough
  <2> QED BY <1>1, <2>1, <2>2 DEF Finished
<1> QED BY <1>1, <1>2, <1>3 DEF AccountedFor

LEMMA ReturnedAccountedFor ==
  ASSUME NEW c \in Calls, c.kind = "collect", NEW list \in Seq(Pages), Finished(c, list),
         Len(list) <= maximum_pages(c), outcome' = Returned(c, list)
  PROVE  CollectsAll'
<1> DEFINE taken == {x \in Met(list) : x[2] \in Collected(c, list)[x[1]]}
<1>1. /\ outcome'.call = c /\ outcome'.pages = list /\ outcome'.services = Collected(c, list)
  BY DEF Returned
<1>2. AccountedFor(c, list, taken)
  BY CollectedIsWithin, CollectedAccountedFor
<1>3. Met(outcome'.pages) = Met(list)
  BY <1>1
<1> QED BY <1>1, <1>2, <1>3 DEF CollectsAll, AccountedFor, Earlier
-----------------------------------------------------------------------------
\* A client at rest: no call is under way, and nothing is left of the last one.
Resting ==
  /\ call = None /\ method = "GET" /\ body = FALSE /\ target = None
  /\ redirects = 0 /\ pages = <<>> /\ visited = {} /\ sends = 0

LEMMA RestingIInv == Resting => IInv
<1> SUFFICES ASSUME Resting PROVE IInv
  OBVIOUS
<1>1. TypeOK
  <2>1. redirects \in 0 .. MAXIMUM_REDIRECTS /\ sends \in Nat
    BY DirectoryAssumption DEF Resting, DirectoryAssumption
  <2>2. pages \in Seq(Pages)
    BY DEF Resting
  <2>3. call = None /\ method = "GET" /\ body = FALSE /\ target = None /\ visited = {}
    BY DEF Resting
  <2> QED BY <2>1, <2>2, <2>3 DEF TypeOK
<1>2. AtRest /\ CountsRequests /\ StillWanted
  BY DEF Resting, AtRest, CountsRequests, StillWanted
<1>3. StaysHome
  BY DEF Resting, StaysHome
<1>4. FollowsItsPages
  BY DEF Resting, FollowsItsPages, NoCursorTwice
<1> QED BY <1>1, <1>2, <1>3, <1>4 DEF IInv

LEMMA InitIInv == Init => IInv
BY RestingIInv DEF Init, Resting

\* A call that returns leaves nothing behind.
LEMMA ReturnRests ==
  ASSUME NEW result, Return(result)
  PROVE  IInv'
<1>1. Resting'
  BY DEF Return, Resting
<1> QED BY <1>1, RestingIInv, PTL

LEMMA BeginKeeps ==
  ASSUME IInv, NEW c \in Calls, Begin(c)
  PROVE  IInv'
<1>1. CASE OutOfBounds(c) \/ (c.kind = "continue" /\ ~SameOrigin(c.from))
  <2>1. Return([status |-> "failed", call |-> c])
    BY <1>1 DEF Begin
  <2> QED BY <2>1, ReturnRests
<1>2. CASE ~(OutOfBounds(c) \/ (c.kind = "continue" /\ ~SameOrigin(c.from)))
  <2>1. /\ call = None /\ call' = c /\ sends' = 1 /\ redirects' = 0
        /\ pages' = pages /\ visited' = visited /\ pages = <<>>
        /\ \/ method' = "GET" /\ body' = FALSE /\ target' = c.from /\ c.from \in Home
           \/ method' = "POST" /\ body' = TRUE /\ target' = SearchUrl
    BY <1>2 DEF Begin, Get, SameOrigin, IInv, AtRest
  <2>2. c # None
    BY DirectoryAssumption DEF DirectoryAssumption
  <2>3. maximum_items(c) \in Nat \ {0} /\ maximum_pages(c) \in Nat \ {0}
    BY BoundsAreNatural
  <2>4. TypeOK'
    <3>1. redirects' \in 0 .. MAXIMUM_REDIRECTS /\ sends' \in Nat
      BY <2>1, DirectoryAssumption DEF DirectoryAssumption
    <3>2. target' \in Urls /\ target' # None
      BY <2>1, DirectoryAssumption DEF DirectoryAssumption, Urls
    <3>3. pages' \in Seq(Pages) /\ visited' \subseteq Urls
      BY <2>1 DEF IInv, TypeOK
    <3>4. call' \in Calls /\ method' \in {"GET", "POST"} /\ body' \in BOOLEAN
      BY <2>1
    <3> QED BY <3>1, <3>2, <3>3, <3>4 DEF TypeOK
  <2>5. AtRest'
    BY <2>1, <2>2 DEF AtRest
  <2>6. StaysHome'
    BY <2>1, DirectoryAssumption DEF StaysHome, DirectoryAssumption
  <2>7. FollowsItsPages'
    BY <2>1 DEF FollowsItsPages, NoCursorTwice
  <2>8. CountsRequests'
    <3>1. 0 * (MAXIMUM_REDIRECTS + 1) = 0 /\ Len(<<>>) = 0
      BY DirectoryAssumption DEF DirectoryAssumption
    <3>2. ~OutOfBounds(c)
      BY <1>2
    <3> QED BY <2>1, <3>1, <3>2 DEF CountsRequests
  <2>9. StillWanted'
    BY <2>1, <2>3, NothingMet DEF StillWanted
  <2> QED BY <2>4, <2>5, <2>6, <2>7, <2>8, <2>9 DEF IInv
<1> QED BY <1>1, <1>2

LEMMA FollowRedirectKeeps ==
  ASSUME IInv, NEW answer \in Answers, FollowRedirect(answer), call # None
  PROVE  IInv'
<1>1. /\ UNCHANGED <<call, pages, visited>>
      /\ redirects # MAXIMUM_REDIRECTS /\ redirects' = redirects + 1 /\ sends' = sends + 1
      /\ target' = answer.location /\ answer.location \in Home
      /\ method' = IF TurnsIntoGet(answer) THEN "GET" ELSE method
      /\ body' = (body /\ ~TurnsIntoGet(answer))
  BY DEF FollowRedirect, Allowed, Followed, SameOrigin
<1>2. MAXIMUM_REDIRECTS \in Nat /\ redirects \in 0 .. MAXIMUM_REDIRECTS /\ sends \in Nat
      /\ Len(pages) \in Nat
  BY DirectoryAssumption DEF DirectoryAssumption, IInv, TypeOK
<1>3. TypeOK'
  <2>1. redirects' \in 0 .. MAXIMUM_REDIRECTS /\ sends' \in Nat
    BY <1>1, <1>2
  <2>2. target' \in Urls /\ target' # None
    BY <1>1, DirectoryAssumption DEF DirectoryAssumption, Urls
  <2>3. method' \in {"GET", "POST"} /\ body' \in BOOLEAN
    BY <1>1 DEF IInv, TypeOK
  <2> QED BY <1>1, <2>1, <2>2, <2>3 DEF IInv, TypeOK
<1>4. AtRest' /\ FollowsItsPages'
  BY <1>1 DEF IInv, AtRest, FollowsItsPages, NoCursorTwice
<1>5. StaysHome'
  <2>1. body <=> method = "POST"
    BY DEF IInv, StaysHome
  <2>2. CASE TurnsIntoGet(answer)
    BY <1>1, <2>2 DEF StaysHome
  <2>3. CASE ~TurnsIntoGet(answer)
    BY <1>1, <2>1, <2>3 DEF StaysHome
  <2> QED BY <2>2, <2>3
<1>6. CountsRequests'
  <2>1. Len(pages) * (MAXIMUM_REDIRECTS + 1) \in Nat
    BY <1>2, ProductsAreNatural
  <2>2. /\ ~OutOfBounds(call)
        /\ sends <= Len(pages) * (MAXIMUM_REDIRECTS + 1) + redirects + 1
    BY DEF IInv, CountsRequests
  <2>3. sends + 1 <= Len(pages) * (MAXIMUM_REDIRECTS + 1) + (redirects + 1) + 1
    BY <1>2, <2>1, <2>2
  <2> QED BY <1>1, <2>2, <2>3 DEF CountsRequests
<1>7. StillWanted'
  BY <1>1 DEF IInv, StillWanted
<1> QED BY <1>3, <1>4, <1>5, <1>6, <1>7 DEF IInv

LEMMA TakePageKeeps ==
  ASSUME IInv, NEW answer \in Answers, TakePage(answer), call # None
  PROVE  IInv'
<1> DEFINE list == Append(pages, answer)
<1>0. answer \in Pages
  BY DEF TakePage, Answers, Redirect, Unusable
<1>1. CASE Finished(call, list) \/ ~SameOrigin(answer.next) \/ Seen(answer.next)
  BY <1>1, ReturnRests DEF TakePage
<1>2. CASE ~Finished(call, list) /\ SameOrigin(answer.next) /\ ~Seen(answer.next)
  <2>1. /\ call' = call /\ pages' = list /\ visited' = visited \cup {answer.next}
        /\ sends' = sends + 1 /\ redirects' = 0
        /\ method' = "GET" /\ body' = FALSE /\ target' = answer.next
        /\ answer.next \in Home /\ answer.next \notin visited
    BY <1>2 DEF TakePage, Get, SameOrigin, Seen
  <2>2. /\ MAXIMUM_REDIRECTS \in Nat /\ redirects \in 0 .. MAXIMUM_REDIRECTS /\ sends \in Nat
        /\ pages \in Seq(Pages) /\ Len(pages) \in Nat /\ call \in Calls /\ visited \subseteq Urls
    BY DirectoryAssumption DEF DirectoryAssumption, IInv, TypeOK
  <2>3. /\ list \in Seq(Pages) /\ Len(list) = Len(pages) + 1
        /\ DOMAIN list = DOMAIN pages \cup {Len(pages) + 1}
        /\ \A k \in DOMAIN pages : list[k] = pages[k]
        /\ list[Len(pages) + 1] = answer
    BY <1>0, <2>2
  <2> HIDE DEF list
  <2>4. /\ maximum_items(call) \in Nat \ {0} /\ maximum_pages(call) \in Nat \ {0}
        /\ Cardinality(Met(list)) \in Nat
        /\ ItemsUpTo(list, Len(list)) = Cardinality(Met(list))
    BY <2>2, <2>3, BoundsAreNatural, MetIsFinite, EnoughCountsMet
  <2>5. TypeOK'
    <3>1. target' \in Urls /\ target' # None /\ visited' \subseteq Urls
      BY <2>1, <2>2, DirectoryAssumption DEF DirectoryAssumption, Urls
    <3>2. redirects' \in 0 .. MAXIMUM_REDIRECTS /\ sends' \in Nat
      BY <2>1, <2>2
    <3>3. call' \in Calls /\ pages' \in Seq(Pages)
      BY <2>1, <2>2, <2>3
    <3>4. method' \in {"GET", "POST"} /\ body' \in BOOLEAN
      BY <2>1
    <3> QED BY <3>1, <3>2, <3>3, <3>4 DEF TypeOK
  <2>6. AtRest'
    BY <2>1 DEF AtRest
  <2>7. StaysHome'
    BY <2>1 DEF StaysHome
  <2>8. FollowsItsPages'
    BY <2>1, <2>3 DEF IInv, FollowsItsPages, NoCursorTwice
  <2>9. CountsRequests'
    <3>1. /\ Len(pages) * (MAXIMUM_REDIRECTS + 1) \in Nat
          /\ (Len(pages) + 1) * (MAXIMUM_REDIRECTS + 1)
               = Len(pages) * (MAXIMUM_REDIRECTS + 1) + (MAXIMUM_REDIRECTS + 1)
      BY <2>2, ProductsAreNatural, OneMorePage
    <3>2. /\ ~OutOfBounds(call)
          /\ sends <= Len(pages) * (MAXIMUM_REDIRECTS + 1) + redirects + 1
      BY DEF IInv, CountsRequests
    <3>3. sends + 1 <= (Len(pages) + 1) * (MAXIMUM_REDIRECTS + 1) + 0 + 1
      BY <2>2, <3>1, <3>2
    <3> QED BY <2>1, <2>3, <3>2, <3>3 DEF CountsRequests
  <2>10. StillWanted'
    <3>1. Len(list) < maximum_pages(call)
      BY <1>2, <2>2, <2>3, <2>4 DEF Finished
    <3>2. call.kind = "collect" => Cardinality(Met(list)) < maximum_items(call)
      BY <1>2, <2>4 DEF Finished, Enough
    <3> QED BY <2>1, <3>1, <3>2 DEF StillWanted
  <2> QED BY <2>5, <2>6, <2>7, <2>8, <2>9, <2>10 DEF IInv
<1> QED BY <1>1, <1>2

LEMMA NextIInv == IInv /\ [Next]_vars => IInv'
<1> SUFFICES ASSUME IInv, [Next]_vars PROVE IInv'
  OBVIOUS
<1>1. ASSUME NEW c \in Calls, Begin(c) PROVE IInv'
  BY <1>1, BeginKeeps
<1>2. CASE Receive
  <2>1. PICK answer \in Answers : \/ FollowRedirect(answer) \/ RefuseRedirect(answer)
                                  \/ RefuseAnswer(answer) \/ TakePage(answer)
    BY <1>2 DEF Receive
  <2>2. call # None
    BY <1>2 DEF Receive
  <2>3. CASE FollowRedirect(answer)
    BY <2>2, <2>3, FollowRedirectKeeps
  <2>4. CASE RefuseRedirect(answer) \/ RefuseAnswer(answer)
    BY <2>4, ReturnRests DEF RefuseRedirect, RefuseAnswer
  <2>5. CASE TakePage(answer)
    BY <2>2, <2>5, TakePageKeeps
  <2> QED BY <2>1, <2>3, <2>4, <2>5
<1>3. CASE TransportFails
  BY <1>3, ReturnRests DEF TransportFails
<1>4. CASE UNCHANGED vars
  BY <1>4 DEF vars, IInv, TypeOK, AtRest, StaysHome, FollowsItsPages, NoCursorTwice,
              CountsRequests, StillWanted
<1> QED BY <1>1, <1>2, <1>3, <1>4 DEF Next

LEMMA Invariance == Spec => []IInv
BY InitIInv, NextIInv, PTL DEF Spec

LEMMA FailureCollectsNothing ==
  ASSUME NEW result, result.status = "failed", Return(result)
  PROVE  CollectsAll'
BY DEF Return, CollectsAll

LEMMA TakePageCollects ==
  ASSUME IInv, NEW answer \in Answers, TakePage(answer), call # None
  PROVE  CollectsAll'
<1> DEFINE list == Append(pages, answer)
<1>1. answer \in Pages
  BY DEF TakePage, Answers, Redirect, Unusable
<1>2. call \in Calls /\ pages \in Seq(Pages) /\ Len(pages) \in Nat
      /\ maximum_pages(call) \in Nat
  BY BoundsAreNatural DEF IInv, TypeOK
<1>3. list \in Seq(Pages) /\ Len(list) = Len(pages) + 1 /\ Len(list) <= maximum_pages(call)
  BY <1>1, <1>2 DEF IInv, StillWanted
<1>4. CASE Finished(call, list)
  <2>1. outcome' = Returned(call, list)
    BY <1>4 DEF TakePage, Return
  <2> HIDE DEF list
  <2>2. CASE call.kind = "collect"
    BY <1>2, <1>3, <1>4, <2>1, <2>2, ReturnedAccountedFor
  <2>3. CASE call.kind # "collect"
    BY <2>1, <2>3 DEF CollectsAll, Returned
  <2> QED BY <2>2, <2>3
<1>5. CASE ~Finished(call, list)
  <2>1. Return(Failed) \/ outcome' = None
    BY <1>5 DEF TakePage
  <2> QED BY <2>1, FailureCollectsNothing DEF Failed, CollectsAll
<1> QED BY <1>4, <1>5

LEMMA NextCollects == IInv /\ CollectsAll /\ [Next]_vars => CollectsAll'
<1> SUFFICES ASSUME IInv, CollectsAll, [Next]_vars PROVE CollectsAll'
  OBVIOUS
<1>1. ASSUME NEW c \in Calls, Begin(c) PROVE CollectsAll'
  <2>1. Return([status |-> "failed", call |-> c]) \/ outcome' = None
    BY <1>1 DEF Begin
  <2> QED BY <2>1, FailureCollectsNothing DEF CollectsAll
<1>2. CASE Receive
  <2>1. PICK answer \in Answers : \/ FollowRedirect(answer) \/ RefuseRedirect(answer)
                                  \/ RefuseAnswer(answer) \/ TakePage(answer)
    BY <1>2 DEF Receive
  <2>2. call # None
    BY <1>2 DEF Receive
  <2>3. CASE FollowRedirect(answer)
    BY <2>3 DEF FollowRedirect, CollectsAll
  <2>4. CASE RefuseRedirect(answer) \/ RefuseAnswer(answer)
    BY <2>4, FailureCollectsNothing DEF RefuseRedirect, RefuseAnswer, Failed
  <2>5. CASE TakePage(answer)
    BY <2>2, <2>5, TakePageCollects
  <2> QED BY <2>1, <2>3, <2>4, <2>5
<1>3. CASE TransportFails
  BY <1>3, FailureCollectsNothing DEF TransportFails, Failed
<1>4. CASE UNCHANGED vars
  BY <1>4 DEF vars, CollectsAll
<1> QED BY <1>1, <1>2, <1>3, <1>4 DEF Next
-----------------------------------------------------------------------------
(***************************************************************************)
(* Every reachable state is well-typed; no request follows more redirects  *)
(* than it may.                                                            *)
(***************************************************************************)
THEOREM DirectoryTypeCorrect == Spec => []TypeOK
<1>1. IInv => TypeOK
  BY DEF IInv
<1> QED BY <1>1, Invariance, PTL

(***************************************************************************)
(* Whatever continuations and redirects the Directory answers with, the    *)
(* client asks nobody else, and what it searches for leaves with a POST    *)
(* only.                                                                   *)
(***************************************************************************)
THEOREM NeverLeavesHome == Spec => []StaysHome
<1>1. IInv => StaysHome
  BY DEF IInv
<1> QED BY <1>1, Invariance, PTL

(***************************************************************************)
(* No traversal follows a continuation twice, however long the cycle.      *)
(***************************************************************************)
THEOREM LoopsAreRefused == Spec => []NoCursorTwice
<1>1. IInv => NoCursorTwice
  BY DEF IInv, FollowsItsPages
<1> QED BY <1>1, Invariance, PTL

(***************************************************************************)
(* A page is fetched only while neither bound has been reached.            *)
(***************************************************************************)
THEOREM FetchesOnlyWanted == Spec => []StillWanted
<1>1. IInv => StillWanted
  BY DEF IInv
<1> QED BY <1>1, Invariance, PTL

(***************************************************************************)
(* A call sends no more requests than its pages and their redirects.       *)
(***************************************************************************)
THEOREM RequestsAreBounded == Spec => []RequestBound
<1>1. IInv => RequestBound
  <2> SUFFICES ASSUME IInv, call # None
               PROVE  sends <= maximum_pages(call) * (MAXIMUM_REDIRECTS + 1)
    BY DEF RequestBound
  <2> DEFINE k == MAXIMUM_REDIRECTS + 1
             m == maximum_pages(call)
             n == Len(pages)
  <2>1. /\ k \in Nat /\ n \in Nat /\ sends \in Nat /\ call \in Calls
        /\ redirects \in Nat /\ redirects + 1 <= k
    BY DirectoryAssumption DEF DirectoryAssumption, IInv, TypeOK
  <2>2. m \in Nat
    BY <2>1, BoundsAreNatural
  <2>3. n + 1 <= m
    BY <2>1, <2>2 DEF IInv, StillWanted
  <2>4. sends <= n * k + redirects + 1
    BY DEF IInv, CountsRequests
  <2> HIDE DEF k, m, n
  <2>5. /\ n * k \in Nat /\ m * k \in Nat
        /\ (n + 1) * k = n * k + k
        /\ (n + 1) * k <= m * k
    BY <2>1, <2>2, <2>3, ProductsAreNatural, OneMorePage, ProductsGrow
  <2>6. sends <= m * k
    BY <2>1, <2>4, <2>5
  <2> QED BY <2>6 DEF m, k
<1> QED BY <1>1, Invariance, PTL

(***************************************************************************)
(* What collect_services returns are the first Services of its pages, no   *)
(* more than the bound; when they are fewer, every Service it met is among *)
(* them and there was no further page it could have asked for.             *)
(***************************************************************************)
THEOREM EverythingMetIsCollected == Spec => []CollectsAll
<1>1. Init => CollectsAll
  BY DEF Init, CollectsAll
<1> QED BY <1>1, NextCollects, Invariance, PTL DEF Spec
-----------------------------------------------------------------------------
(***************************************************************************)
(* The part of CallEnds that needs no fairness: each step of a call ends   *)
(* it or uses up one of the requests it may send, which are finitely many. *)
(***************************************************************************)
RequestsLeft == maximum_pages(call) * (MAXIMUM_REDIRECTS + 1) - sends

NearerItsEnd == call # None => \/ call' = None
                               \/ call' = call /\ RequestsLeft' < RequestsLeft

LEMMA StepIsNearer == IInv /\ [Next]_vars => [NearerItsEnd]_vars
<1> SUFFICES ASSUME IInv, Next, call # None
             PROVE  call' = None \/ (call' = call /\ RequestsLeft' < RequestsLeft)
  BY DEF NearerItsEnd
<1>1. /\ sends \in Nat /\ maximum_pages(call) * (MAXIMUM_REDIRECTS + 1) \in Nat
  BY DirectoryAssumption, BoundsAreNatural, ProductsAreNatural
     DEF DirectoryAssumption, IInv, TypeOK
<1>2. CASE call' = call /\ sends' = sends + 1
  BY <1>1, <1>2 DEF RequestsLeft
<1>3. CASE Receive
  <2>1. PICK answer \in Answers : \/ FollowRedirect(answer) \/ RefuseRedirect(answer)
                                  \/ RefuseAnswer(answer) \/ TakePage(answer)
    BY <1>3 DEF Receive
  <2>2. call' = None \/ (call' = call /\ sends' = sends + 1)
    BY <2>1 DEF FollowRedirect, RefuseRedirect, RefuseAnswer, TakePage, Return
  <2> QED BY <1>2, <2>2
<1>4. CASE TransportFails
  BY <1>4 DEF TransportFails, Return
<1>5. ~\E c \in Calls : Begin(c)
  BY DEF Begin
<1> QED BY <1>3, <1>4, <1>5 DEF Next

(***************************************************************************)
(* Whatever the Directory answers, pages that lead back and redirects that *)
(* go round included, a call takes no more steps than it may send          *)
(* requests.  (That it takes them is the fairness of FairSpec.)            *)
(***************************************************************************)
THEOREM CallsRunOut ==
  Spec => [](call # None => RequestsLeft \in Nat) /\ [][NearerItsEnd]_vars
<1>1. IInv /\ RequestBound => (call # None => RequestsLeft \in Nat)
  <2> SUFFICES ASSUME IInv, RequestBound, call # None PROVE RequestsLeft \in Nat
    OBVIOUS
  <2>1. /\ sends \in Nat /\ maximum_pages(call) * (MAXIMUM_REDIRECTS + 1) \in Nat
        /\ sends <= maximum_pages(call) * (MAXIMUM_REDIRECTS + 1)
    BY DirectoryAssumption, BoundsAreNatural, ProductsAreNatural
       DEF DirectoryAssumption, IInv, TypeOK, RequestBound
  <2> QED BY <2>1 DEF RequestsLeft
<1> QED BY <1>1, StepIsNearer, Invariance, RequestsAreBounded, PTL DEF Spec
=============================================================================
