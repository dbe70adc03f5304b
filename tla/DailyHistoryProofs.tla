-------------------------- MODULE DailyHistoryProofs --------------------------
(***************************************************************************)
(* Theorems about DailyHistory, for any dates, closes, page size and number *)
(* of pages: paging through rows that move under the offsets leaves no      *)
(* hole.  The lemmas about ranks come first: the place of an element among  *)
(* those of a finite set, in the order of a key.                            *)
(***************************************************************************)
EXTENDS DailyHistory, FiniteSetTheorems, TLAPS

Rank(S, key, x) == Cardinality({y \in S : key[y] < key[x]})

IsKey(S, key) == key \in [S -> Int] /\ \A x, y \in S : key[x] = key[y] => x = y

LEMMA RankType ==
  ASSUME NEW S, IsFiniteSet(S), NEW key, IsKey(S, key), NEW x \in S
  PROVE  Rank(S, key, x) \in 0..(Cardinality(S) - 1)
<1> DEFINE below == {y \in S : key[y] < key[x]}
<1>1. IsFiniteSet(S \ {x}) /\ Cardinality(S \ {x}) = Cardinality(S) - 1
  BY FS_RemoveElement
<1>2. below \in SUBSET (S \ {x})
  BY DEF IsKey
<1> HIDE DEF below
<1>3. IsFiniteSet(below) /\ Cardinality(below) <= Cardinality(S) - 1
  BY <1>1, <1>2, FS_Subset
<1>4. Cardinality(below) \in Nat /\ Cardinality(S) \in Nat
  BY <1>3, FS_CardinalityType
<1> QED
  BY <1>3, <1>4 DEF Rank, below

LEMMA RankOrder ==
  ASSUME NEW S, IsFiniteSet(S), NEW key, IsKey(S, key), NEW x \in S, NEW y \in S,
         key[x] < key[y]
  PROVE  Rank(S, key, x) < Rank(S, key, y)
<1> DEFINE below == {z \in S : key[z] < key[x]}
           more == {z \in S : key[z] < key[y]}
<1>1. below \in SUBSET S /\ more \in SUBSET S /\ x \notin below
  BY DEF IsKey
<1>2. below \cup {x} \in SUBSET more
  BY DEF IsKey
<1> HIDE DEF below, more
<1>3. IsFiniteSet(below) /\ IsFiniteSet(more)
  BY <1>1, FS_Subset
<1>4. Cardinality(below \cup {x}) = Cardinality(below) + 1
  BY <1>1, <1>3, FS_AddElement
<1>5. Cardinality(below \cup {x}) <= Cardinality(more)
  BY <1>2, <1>3, FS_Subset
<1>6. Cardinality(below) \in Nat /\ Cardinality(more) \in Nat
  BY <1>3, FS_CardinalityType
<1> QED
  BY <1>4, <1>5, <1>6 DEF Rank, below, more

\* Each place is taken.
LEMMA RankExists ==
  ASSUME NEW S, IsFiniteSet(S), NEW key, IsKey(S, key), NEW n \in 0..(Cardinality(S) - 1)
  PROVE  \E x \in S : Rank(S, key, x) = n
<1> DEFINE places == 0..(Cardinality(S) - 1)
           place == [x \in S |-> Rank(S, key, x)]
<1>1. Cardinality(S) \in Nat
  BY FS_CardinalityType
<1>2. IsFiniteSet(places) /\ Cardinality(places) = Cardinality(S)
  BY <1>1, FS_Interval
<1>3. place \in Injection(S, places)
  <2>1. place \in [S -> places]
    BY RankType
  <2>2. ASSUME NEW x \in S, NEW y \in S, place[x] = place[y] PROVE x = y
    <3>1. ~(key[x] < key[y]) /\ ~(key[y] < key[x])
      <4>1. Rank(S, key, x) = Rank(S, key, y) /\ Rank(S, key, x) \in places
        BY <2>2, RankType
      <4> QED
        BY <4>1, RankOrder
    <3> QED
      BY <3>1 DEF IsKey
  <2> QED
    BY <2>1, <2>2 DEF Injection, IsInjective
<1>4. place \in Surjection(S, places)
  <2> HIDE DEF place, places
  <2> QED
    BY <1>2, <1>3, FS_Injection
<1>5. \A m \in places : \E x \in S : place[x] = m
  <2> HIDE DEF places, place
  <2> QED
    BY <1>4 DEF Surjection
<1> QED
  BY <1>5
-----------------------------------------------------------------------------
\* What is stored was published, and what viewers read was stored.
PricesPublished ==
  /\ Priced(stored) \subseteq Priced(candles)
  /\ Priced(ram) \subseteq Priced(stored)

Had(d) == \E v \in Value : <<d, v>> \in sync.items

\* A run begins at a date it has, and reads dates that were published.
RunBegan ==
  sync # None =>
    /\ sync.from = 1 \/ sync.from \in Priced(stored)
    /\ \A d \in Dates : Had(d) => d \in Priced(candles) /\ d <= sync.till

\* A run has each close of the rows it went past, though rows that were
\* published meanwhile moved the others to later places.
RowsPassed ==
  sync # None =>
    \A d \in Priced(candles) \ late :
      /\ d \in sync.from..sync.till
      /\ sync.phase = "fetched" \/ Before(d) < sync.start
      => Had(d)

IInv ==
  /\ TypeOK
  /\ PricesPublished
  /\ RunBegan
  /\ RowsPassed
  /\ HistoryIsDurable
  /\ NoGapUnlessLate

-----------------------------------------------------------------------------
(* Rows, pages and latest dates. *)

\* Dates are in the order of their numbers.
ByDate(S) == [d \in S |-> d]

LEMMA DatesFinite ==
  ASSUME BoundsAssumption PROVE IsFiniteSet(Dates) /\ Dates \subseteq Int
BY FS_Interval DEF BoundsAssumption, Dates

LEMMA SomeDates ==
  ASSUME BoundsAssumption, NEW S \in SUBSET Dates
  PROVE  /\ IsFiniteSet(S) /\ IsKey(S, ByDate(S))
         /\ Cardinality(S) \in Nat
         /\ \A d \in S : Rank(S, ByDate(S), d) = Cardinality({e \in S : e < d})
<1>1. IsFiniteSet(S)
  BY DatesFinite, FS_Subset
<1>2. IsKey(S, ByDate(S))
  BY DatesFinite DEF IsKey, ByDate
<1>3. ASSUME NEW d \in S
      PROVE {e \in S : ByDate(S)[e] < ByDate(S)[d]} = {e \in S : e < d}
  BY DEF ByDate
<1> QED
  BY <1>1, <1>2, <1>3, FS_CardinalityType DEF Rank

LEMMA LatestIsMax ==
  ASSUME BoundsAssumption, NEW S \in SUBSET Dates, S # {}, NEW default
  PROVE  /\ LatestOr(S, default) \in S
         /\ \A d \in S : d <= LatestOr(S, default)
<1>1. Cardinality(S) # 0
  BY SomeDates, FS_EmptySet
<1>2. PICK d \in S : Rank(S, ByDate(S), d) = Cardinality(S) - 1
  BY <1>1, SomeDates, RankExists
<1>3. ASSUME NEW e \in S PROVE d >= e
  <2>1. Rank(S, ByDate(S), e) <= Cardinality(S) - 1
    BY SomeDates, RankType
  <2>2. ByDate(S)[d] < ByDate(S)[e] => Rank(S, ByDate(S), d) < Rank(S, ByDate(S), e)
    BY SomeDates, RankOrder
  <2>3. ByDate(S)[d] = d /\ ByDate(S)[e] = e /\ d \in Int /\ e \in Int
    BY DatesFinite DEF ByDate
  <2>4. Rank(S, ByDate(S), e) \in Int /\ Cardinality(S) \in Nat
    BY SomeDates, RankType
  <2> QED
    BY <1>2, <2>1, <2>2, <2>3, <2>4
<1>4. \E x \in S : \A y \in S : x >= y
  BY <1>3
<1>5. Max(S) \in S /\ \A y \in S : Max(S) >= y
  BY <1>4 DEF Max
<1> QED
  BY <1>5, DatesFinite DEF LatestOr

LEMMA IntervalSize ==
  ASSUME NEW a \in Nat, NEW n \in Nat \ {0}
  PROVE  IsFiniteSet(a..(a + n - 1)) /\ Cardinality(a..(a + n - 1)) = n
<1>1. a + n - 1 \in Int /\ ~(a > a + n - 1) /\ (a + n - 1) - a + 1 = n
  OBVIOUS
<1>2. ASSUME NEW b \in Int, b = a + n - 1
      PROVE  IsFiniteSet(a..b) /\ Cardinality(a..b) = IF a > b THEN 0 ELSE b - a + 1
  BY FS_Interval, a \in Int
<1> QED
  BY <1>1, <1>2

LEMMA RowsAreDates ==
  ASSUME BoundsAssumption, TypeOK, sync # None
  PROVE  /\ Rows \in SUBSET Dates /\ Page \in SUBSET Rows
         /\ \A d \in Rows : Before(d) \in 0..(Cardinality(Rows) - 1)
         /\ Cardinality(Rows) \in Nat
<1>1. sync.from \in Dates /\ sync.till \in 0..LastDate
  BY DEF TypeOK, Sync
<1>2. Rows \in SUBSET Dates /\ Page \in SUBSET Rows
  BY <1>1 DEF BoundsAssumption, Rows, Page, Dates
<1>3. ASSUME NEW d \in Rows PROVE Before(d) \in 0..(Cardinality(Rows) - 1)
  BY <1>2, SomeDates, RankType DEF Before
<1> QED
  BY <1>2, <1>3, SomeDates

\* A page has no more rows than the exchange sends, and an empty one comes
\* after all rows.
LEMMA PageBound ==
  ASSUME BoundsAssumption, TypeOK, sync # None
  PROVE  /\ Cardinality(Page) \in 0..PageSize
         /\ Page = {} => \A d \in Rows : Before(d) < sync.start
<1>1. sync.start \in Nat /\ PageSize \in Nat \ {0}
  BY DEF BoundsAssumption, TypeOK, Sync
<1>2. Page \in SUBSET Dates
  BY RowsAreDates
<1> DEFINE places == sync.start..(sync.start + PageSize - 1)
           place == [d \in Page |-> Before(d)]
<1>3. IsFiniteSet(places) /\ Cardinality(places) = PageSize
  BY <1>1, IntervalSize
<1>4. place \in Injection(Page, places)
  <2>1. place \in [Page -> places]
    BY DEF Page
  <2>2. ASSUME NEW d \in Page, NEW e \in Page, place[d] = place[e] PROVE d = e
    <3>1. d \in Rows /\ e \in Rows /\ Before(d) = Before(e) /\ Before(d) \in Int
      BY <2>2, RowsAreDates
    <3>2. /\ ByDate(Rows)[d] < ByDate(Rows)[e] => Before(d) < Before(e)
          /\ ByDate(Rows)[e] < ByDate(Rows)[d] => Before(e) < Before(d)
      BY <3>1, RowsAreDates, SomeDates, RankOrder DEF Before
    <3>3. ByDate(Rows)[d] = d /\ ByDate(Rows)[e] = e /\ d \in Int /\ e \in Int
      BY <3>1, RowsAreDates, DatesFinite DEF ByDate
    <3> QED
      BY <3>1, <3>2, <3>3
  <2> QED
    BY <2>1, <2>2 DEF Injection, IsInjective
<1>5. Cardinality(Page) <= PageSize /\ Cardinality(Page) \in Nat
  <2> HIDE DEF place, places
  <2> QED
    BY <1>2, <1>3, <1>4, SomeDates, FS_Injection
<1>6. ASSUME Page = {}, NEW d \in Rows, ~(Before(d) < sync.start) PROVE FALSE
  <2>1. sync.start \in 0..(Cardinality(Rows) - 1)
    BY <1>1, <1>6, RowsAreDates
  <2>2. PICK e \in Rows : Rank(Rows, ByDate(Rows), e) = sync.start
    BY <2>1, RowsAreDates, SomeDates, RankExists
  <2>3. Before(e) = sync.start
    BY <2>2, RowsAreDates, SomeDates DEF Before
  <2> QED
    BY <1>1, <1>6, <2>3 DEF Page
<1> QED
  BY <1>5, <1>6

\* Rows are never taken back: they move to later places only.
LEMMA RowsOnlyMoveUp ==
  ASSUME BoundsAssumption, TypeOK, sync # None, sync' = sync,
         \A d \in Dates : candles[d] # Absent => candles'[d] # Absent,
         TypeOK'
  PROVE  \A d \in Dates : Before(d) <= Before(d)' /\ Before(d) \in Nat /\ Before(d)' \in Nat
<1>1. Rows \in SUBSET Dates /\ Rows' \in SUBSET Dates
  BY BoundsAssumption DEF BoundsAssumption, TypeOK, Sync, Rows, Dates
<1>2. Rows \subseteq Rows'
  BY <1>1 DEF Rows
<1>3. IsFiniteSet(Rows) /\ IsFiniteSet(Rows')
  BY <1>1, SomeDates
<1> SUFFICES ASSUME NEW d \in Dates
             PROVE  Before(d) <= Before(d)' /\ Before(d) \in Nat /\ Before(d)' \in Nat
  OBVIOUS
<1> DEFINE now == {e \in Rows : e < d}
           then == {e \in Rows' : e < d}
<1>4. now \in SUBSET then /\ now \in SUBSET Rows /\ then \in SUBSET Rows'
  BY <1>2
<1>5. Before(d) = Cardinality(now) /\ Before(d)' = Cardinality(then)
  BY DEF Before
<1> HIDE DEF now, then
<1>6. IsFiniteSet(then) /\ IsFiniteSet(now)
  BY <1>3, <1>4, FS_Subset
<1>7. Cardinality(now) <= Cardinality(then)
  BY <1>4, <1>6, FS_Subset
<1> QED
  BY <1>5, <1>6, <1>7, FS_CardinalityType

-----------------------------------------------------------------------------
LEMMA InitIInv == ASSUME BoundsAssumption, MarksAssumption PROVE Init => IInv
<1> SUFFICES ASSUME Init PROVE IInv
  OBVIOUS
<1>1. Priced(stored) = {} /\ Priced(ram) = {} /\ Priced(candles) = {}
  BY DEF Init, Priced, MarksAssumption
<1>2. TypeOK
  <2>1. today \in 1..(LastDate + 1)
    BY DEF Init, BoundsAssumption
  <2>2. candles \in [Dates -> Value \cup {Absent, NoClose}] /\ stored \in History
    BY DEF Init, History
  <2> QED
    BY <2>1, <2>2 DEF Init, TypeOK
<1> QED
  BY <1>1, <1>2 DEF Init, IInv, PricesPublished, RunBegan, RowsPassed, HistoryIsDurable,
                    NoGapUnlessLate

\* A step of the exchange, of the days or of a run before it is stored leaves
\* what is stored and what viewers read.
LEMMA ExchangeChangesInv ==
  ASSUME BoundsAssumption, MarksAssumption, IInv, ExchangeChanges PROVE IInv'
<1> USE DEF IInv
<1>1. /\ UNCHANGED <<today, stored, ram, sync, unacked>>
      /\ late' \in SUBSET Dates /\ late \subseteq late'
  BY DEF ExchangeChanges, TypeOK
<1>2. PICK d \in Dates, v \in Value \cup {NoClose} :
        /\ v = NoClose => candles[d] = Absent
        /\ candles' = [candles EXCEPT ![d] = v]
        /\ late' = IF /\ v # NoClose
                      /\ candles[d] \notin Value
                      /\ Reads(d) \/ \E e \in Priced(candles) : e > d
                   THEN late \cup {d} ELSE late
  BY DEF ExchangeChanges
<1>3. TypeOK'
  BY <1>1, <1>2 DEF TypeOK
<1>4. /\ Priced(candles) \subseteq Priced(candles')
      /\ \A e \in Dates : candles[e] # Absent => candles'[e] # Absent
      /\ \A e \in Priced(candles') \ Priced(candles) : e = d /\ v # NoClose /\ candles[d] \notin Value
  BY <1>2 DEF Priced, MarksAssumption, TypeOK
<1>5. Priced(stored)' = Priced(stored) /\ Priced(ram)' = Priced(ram)
  BY <1>1 DEF Priced
<1>6. PricesPublished' /\ RunBegan' /\ HistoryIsDurable'
  BY <1>1, <1>4, <1>5 DEF PricesPublished, RunBegan, Had, HistoryIsDurable, Priced
<1>7. RowsPassed'
  <2> SUFFICES ASSUME sync # None, NEW e \in Priced(candles') \ late', e \in sync.from..sync.till,
                      sync.phase = "fetched" \/ Before(e)' < sync.start
               PROVE  Had(e)'
    BY <1>1 DEF RowsPassed, Priced
  <2>1. e \in Priced(candles)
    <3> SUFFICES ASSUME e \notin Priced(candles) PROVE FALSE
      OBVIOUS
    <3>1. e = d /\ v # NoClose /\ candles[d] \notin Value
      BY <1>4
    <3>2. sync.from \in Dates /\ sync.till \in 0..LastDate
      BY DEF TypeOK, Sync
    <3>3. Reads(d)
      BY <3>1, <3>2, DatesFinite DEF Reads
    <3> QED
      BY <1>2, <3>1, <3>3
  <2>2. e \in Dates /\ e \notin late /\ sync.start \in Nat
    BY <1>1 DEF Priced, TypeOK, Sync
  <2>3. Before(e) <= Before(e)' /\ Before(e) \in Nat /\ Before(e)' \in Nat
    BY <1>1, <1>3, <1>4, <2>2, RowsOnlyMoveUp
  <2>4. Had(e)
    BY <2>1, <2>2, <2>3 DEF RowsPassed
  <2> QED
    BY <1>1, <2>4 DEF Had
<1>8. NoGapUnlessLate'
  <2> SUFFICES ASSUME NEW e \in Priced(candles') \ late', e < LatestOr(Priced(stored), 0)
               PROVE  e \in Priced(stored)
    BY <1>1, <1>5 DEF NoGapUnlessLate, Priced
  <2>1. CASE e \in Priced(candles)
    BY <1>1, <2>1 DEF NoGapUnlessLate
  <2>2. CASE e \notin Priced(candles)
    <3>1. e = d /\ v # NoClose /\ candles[d] \notin Value
      BY <1>4, <2>2
    <3>2. Priced(stored) = {}
      <4> SUFFICES ASSUME Priced(stored) # {} PROVE FALSE
        OBVIOUS
      <4>1. LatestOr(Priced(stored), 0) \in Priced(stored)
        BY LatestIsMax DEF Priced
      <4>2. LatestOr(Priced(stored), 0) \in Priced(candles) /\ LatestOr(Priced(stored), 0) > e
        BY <4>1, DatesFinite DEF PricesPublished, Priced
      <4> QED
        BY <1>2, <3>1, <4>2
    <3> QED
      BY <3>2, DatesFinite DEF LatestOr, BoundsAssumption, Priced, Dates
  <2> QED
    BY <2>1, <2>2
<1> QED
  BY <1>3, <1>6, <1>7, <1>8

LEMMA BeginSyncInv ==
  ASSUME BoundsAssumption, NoneAssumption, IInv, BeginSync PROVE IInv'
<1> USE DEF IInv
<1>1. /\ UNCHANGED <<today, candles, late, stored, ram, unacked>>
      /\ sync' = [phase |-> IF From > today - 1 THEN "fetched" ELSE "paging",
                  from |-> From, till |-> today - 1, start |-> 0, pages |-> 0, items |-> {}]
  BY DEF BeginSync
<1>2. From \in Dates /\ (From = 1 \/ From \in Priced(ram))
  BY LatestIsMax DEF From, LatestOr, Priced, Dates, BoundsAssumption
<1>3. today - 1 \in 0..LastDate /\ today \in Int
  BY DEF TypeOK, BoundsAssumption
<1>4. sync' \in Sync
  BY <1>1, <1>2, <1>3 DEF Sync, BoundsAssumption
<1>5. TypeOK'
  BY <1>1, <1>4 DEF TypeOK
<1>6. PricesPublished' /\ NoGapUnlessLate' /\ HistoryIsDurable'
  BY <1>1 DEF PricesPublished, NoGapUnlessLate, HistoryIsDurable, Priced
<1>7. RunBegan'
  BY <1>1, <1>2 DEF RunBegan, Had, PricesPublished, Priced
<1>8. RowsPassed'
  <2> SUFFICES ASSUME NEW d \in Dates, d \in sync'.from..sync'.till,
                      sync'.phase = "fetched" \/ Before(d)' < sync'.start
               PROVE  FALSE
    BY DEF RowsPassed, Priced
  <2>1. Before(d)' \in Nat
    <3>1. Rows' \in SUBSET Dates
      BY <1>1, <1>2, <1>3 DEF Rows, Dates, BoundsAssumption
    <3>2. {e \in Rows' : e < d} \in SUBSET Dates
      BY <3>1
    <3>3. Cardinality({e \in Rows' : e < d}) \in Nat
      BY <3>2, SomeDates
    <3> QED
      BY <3>3 DEF Before
  <2> QED
    BY <1>1, <1>2, <1>3, <2>1, DatesFinite
<1> QED
  BY <1>5, <1>6, <1>7, <1>8

LEMMA ReadPageInv ==
  ASSUME BoundsAssumption, MarksAssumption, NoneAssumption, IInv, ReadPage PROVE IInv'
<1> USE DEF IInv
<1>1. /\ UNCHANGED <<today, candles, late, stored, ram, unacked>>
      /\ sync # None /\ sync \in Sync /\ sync.phase = "paging" /\ sync.pages < MaxPages
  BY DEF ReadPage, TypeOK
<1>2. PricesPublished' /\ NoGapUnlessLate' /\ HistoryIsDurable'
  BY <1>1 DEF PricesPublished, NoGapUnlessLate, HistoryIsDurable, Priced
<1>3. ASSUME NEW d \in Dates, sync'.from = sync.from, sync'.till = sync.till
      PROVE  Before(d)' = Before(d) /\ Rows' = Rows
  BY <1>1, <1>3 DEF Before, Rows
<1>4. Rows \in SUBSET Dates /\ Page \in SUBSET Rows
      /\ \A d \in Rows : Before(d) \in Nat
  BY <1>1, RowsAreDates
<1>5. CASE Page = {}
  <2>1. sync' = [sync EXCEPT !.phase = "fetched"]
    BY <1>5 DEF ReadPage
  <2>2. sync' \in Sync
    BY <1>1, <2>1 DEF Sync
  <2>3. TypeOK'
    BY <1>1, <2>2 DEF TypeOK
  <2>4. sync'.from = sync.from /\ sync'.till = sync.till /\ sync'.items = sync.items
    BY <1>1, <2>1 DEF Sync
  <2>5. RunBegan'
    BY <1>1, <2>4 DEF RunBegan, Had, Priced
  <2>6. \A d \in Rows : Before(d) < sync.start
    BY <1>1, <1>5, PageBound
  <2>7. RowsPassed'
    <3> SUFFICES ASSUME NEW d \in Priced(candles) \ late, d \in sync.from..sync.till
                 PROVE  Had(d)
      BY <1>1, <2>4 DEF RowsPassed, Had, Priced
    <3>1. d \in Rows
      BY DEF MarksAssumption, Rows, Priced
    <3> QED
      BY <1>1, <2>6, <3>1 DEF RowsPassed
  <2> QED
    BY <1>2, <2>3, <2>5, <2>7
<1>6. CASE Page # {}
  <2> DEFINE read == {<<d, candles[d]>> : d \in Page \cap Priced(candles)}
  <2>1. sync' = [sync EXCEPT !.start = sync.start + Cardinality(Page),
                             !.pages = @ + 1,
                             !.items = @ \cup read]
    BY <1>6 DEF ReadPage, NextStart
  <2>2. read \subseteq Dates \X Value
    BY <1>4 DEF Priced
  <2>3. Cardinality(Page) \in 0..PageSize /\ Cardinality(Page) \in Nat /\ PageSize \in Nat
    BY <1>1, PageBound DEF BoundsAssumption
  <2> HIDE DEF read
  <2>4. sync' \in Sync
    <3>1. sync.start + Cardinality(Page) \in Nat /\ sync.pages + 1 \in 0..MaxPages
      BY <1>1, <2>3 DEF Sync, BoundsAssumption
    <3>2. sync.items \cup read \in SUBSET (Dates \X Value)
      BY <1>1, <2>2 DEF Sync
    <3> QED
      BY <1>1, <2>1, <3>1, <3>2 DEF Sync
  <2>5. TypeOK'
    BY <1>1, <2>4 DEF TypeOK
  <2>6. /\ sync'.from = sync.from /\ sync'.till = sync.till /\ sync'.phase = "paging"
        /\ sync'.start = sync.start + Cardinality(Page) /\ sync'.items = sync.items \cup read
    BY <1>1, <2>1 DEF Sync
  <2>7. \A d \in Dates, v \in Value :
          <<d, v>> \in read <=> d \in Page \cap Priced(candles) /\ v = candles[d]
    BY DEF read
  <2>8. RunBegan'
    <3>1. ASSUME NEW d \in Dates, Had(d)' PROVE d \in Priced(candles) /\ d <= sync.till
      <4>1. Had(d) \/ d \in Page \cap Priced(candles)
        BY <2>6, <2>7, <3>1 DEF Had
      <4>2. d \in Page => d <= sync.till
        BY <1>1, <1>4 DEF Rows, Sync, Dates
      <4> QED
        BY <1>1, <4>1, <4>2 DEF RunBegan
    <3> QED
      BY <1>1, <2>6, <3>1 DEF RunBegan, Priced
  <2>9. RowsPassed'
    <3> SUFFICES ASSUME NEW d \in Priced(candles) \ late, d \in sync.from..sync.till,
                        Before(d) < sync.start + Cardinality(Page)
                 PROVE  Had(d)'
      BY <1>1, <1>3, <2>6 DEF RowsPassed, Priced
    <3>1. d \in Rows
      BY DEF MarksAssumption, Rows, Priced
    <3>2. CASE Before(d) < sync.start
      <4>1. Had(d)
        BY <1>1, <3>2 DEF RowsPassed
      <4> QED
        BY <2>6, <4>1 DEF Had
    <3>3. CASE ~(Before(d) < sync.start)
      <4>1. d \in Page
        BY <1>1, <1>4, <2>3, <3>1, <3>3 DEF Page, Sync
      <4>2. <<d, candles[d]>> \in read /\ candles[d] \in Value
        BY <2>7, <4>1 DEF Priced
      <4> QED
        BY <2>6, <4>2 DEF Had
    <3> QED
      BY <3>2, <3>3
  <2> QED
    BY <1>2, <2>5, <2>8, <2>9
<1> QED
  BY <1>5, <1>6

\* A run that ends without storing anything.
LEMMA SyncEndsInv ==
  ASSUME IInv, sync' = None, UNCHANGED <<today, candles, late, stored, ram, unacked>>
  PROVE  IInv'
BY DEF IInv, TypeOK, PricesPublished, RunBegan, RowsPassed, HistoryIsDurable,
       NoGapUnlessLate, Priced

\* The table has what it had and the closes of the run, each published.
LEMMA MergedHistory ==
  ASSUME BoundsAssumption, MarksAssumption, NoneAssumption, IInv, sync # None,
         ~Conflict(sync.items)
  PROVE  /\ Merged(sync.items) \in History
         /\ Priced(Merged(sync.items)) = Priced(stored) \cup {d \in Dates : Had(d)}
<1> DEFINE merged == Merged(sync.items)
<1>1. sync \in Sync /\ stored \in History
  BY DEF IInv, TypeOK
<1>2. ASSUME NEW d \in Dates, Had(d)
      PROVE  merged[d] \in Value
  BY <1>2 DEF Merged, Had
<1>3. ASSUME NEW d \in Dates, ~Had(d)
      PROVE  merged[d] = stored[d]
  BY <1>3 DEF Merged, Had
<1>4. merged \in History
  <2>1. \A d \in Dates : merged[d] \in Value \cup {Absent}
    BY <1>1, <1>2, <1>3 DEF History
  <2>2. merged = [d \in Dates |-> merged[d]]
    BY DEF Merged
  <2> HIDE DEF merged
  <2> QED
    BY <2>1, <2>2 DEF History
<1> HIDE DEF merged
<1>5. Priced(merged) = Priced(stored) \cup {d \in Dates : Had(d)}
  BY <1>2, <1>3 DEF Priced
<1> QED
  BY <1>4, <1>5 DEF merged

\* What a run stores leaves no hole: below the date it began at there was none,
\* from there to its last date it has every close that was not late, and it
\* has none after that date.
LEMMA StoreKeeps ==
  ASSUME BoundsAssumption, MarksAssumption, NoneAssumption, IInv,
         sync # None, sync.phase = "fetched", ~Conflict(sync.items),
         stored' = Merged(sync.items), sync' = None, UNCHANGED <<today, candles, late>>
  PROVE  /\ stored' \in History /\ RunBegan' /\ RowsPassed' /\ NoGapUnlessLate'
         /\ Priced(stored)' \subseteq Priced(candles)'
         /\ Priced(stored) \subseteq Priced(stored)'
<1>1. sync \in Sync /\ stored \in History
  BY DEF IInv, TypeOK
<1>2. /\ stored' \in History
      /\ Priced(stored)' = Priced(stored) \cup {d \in Dates : Had(d)}
  BY MergedHistory DEF Priced
<1>3. Priced(stored)' \subseteq Priced(candles)'
  BY <1>2 DEF IInv, PricesPublished, RunBegan, Priced
<1>4. RunBegan' /\ RowsPassed'
  BY DEF RunBegan, RowsPassed
<1>5. NoGapUnlessLate'
  <2> DEFINE latest == LatestOr(Priced(stored), 0)
             next == LatestOr(Priced(stored)', 0)
  <2> SUFFICES ASSUME NEW d \in Priced(candles) \ late, d < next
               PROVE  d \in Priced(stored)'
    BY DEF NoGapUnlessLate, Priced
  <2>1. d \in Dates /\ Priced(stored) \in SUBSET Dates /\ Priced(stored)' \in SUBSET Dates
    BY DEF Priced
  <2>2. d < latest => d \in Priced(stored)
    BY DEF IInv, NoGapUnlessLate
  <2>3. Priced(stored)' # {}
    BY <2>1, DatesFinite DEF LatestOr, Dates, BoundsAssumption
  <2>4. next \in Priced(stored)'
    BY <2>1, <2>3, LatestIsMax
  <2>5. CASE next \in Priced(stored)
    <3>1. next <= latest /\ latest \in Priced(stored)
      BY <2>1, <2>5, LatestIsMax
    <3> QED
      BY <1>2, <2>1, <2>2, <2>4, <3>1, DatesFinite
  <2>6. CASE Had(next)
    <3>1. next <= sync.till /\ sync.till \in Int /\ sync.from \in Dates
      BY <1>1, <2>1, <2>4, <2>6 DEF IInv, RunBegan, Sync, BoundsAssumption
    <3>2. CASE d >= sync.from
      <4>1. d \in sync.from..sync.till
        BY <2>1, <2>4, <3>1, <3>2, DatesFinite
      <4>2. Had(d)
        BY <4>1 DEF IInv, RowsPassed
      <4> QED
        BY <1>2, <2>1, <4>2
    <3>3. CASE ~(d >= sync.from)
      <4>1. sync.from \in Priced(stored)
        BY <2>1, <3>1, <3>3 DEF IInv, RunBegan, Dates
      <4>2. sync.from <= latest /\ latest \in Priced(stored)
        BY <2>1, <4>1, LatestIsMax
      <4> QED
        BY <1>2, <2>1, <2>2, <3>1, <3>3, <4>2, DatesFinite
    <3> QED
      BY <3>2, <3>3
  <2> QED
    BY <1>2, <2>4, <2>5, <2>6
<1> QED
  BY <1>2, <1>3, <1>4, <1>5

LEMMA ApplyInv ==
  ASSUME BoundsAssumption, MarksAssumption, NoneAssumption, IInv, Apply \/ ApplyUnacked
  PROVE  IInv'
<1>1. /\ stored' \in History /\ RunBegan' /\ RowsPassed' /\ NoGapUnlessLate'
      /\ Priced(stored)' \subseteq Priced(candles)'
      /\ Priced(stored) \subseteq Priced(stored)'
  BY StoreKeeps DEF Apply, ApplyUnacked
<1>2. /\ UNCHANGED <<today, candles, late>> /\ sync' = None
      /\ ram' = ram \/ ram' = stored'
      /\ unacked' \in BOOLEAN
  BY DEF Apply, ApplyUnacked, IInv, TypeOK
<1>3. TypeOK'
  BY <1>1, <1>2 DEF IInv, TypeOK
<1>4. PricesPublished'
  BY <1>1, <1>2 DEF IInv, PricesPublished, Priced
<1>5. HistoryIsDurable'
  BY DEF Apply, ApplyUnacked, Changed, IInv, HistoryIsDurable
<1> QED
  BY <1>1, <1>3, <1>4, <1>5 DEF IInv

\* What is loaded again is what is stored.
LEMMA LoadedInv ==
  ASSUME IInv, Reload \/ Restart PROVE IInv'
<1>1. /\ UNCHANGED <<today, candles, late, stored>>
      /\ ram' = stored /\ unacked' = FALSE
      /\ UNCHANGED sync \/ sync' = None
  BY DEF Reload, Restart
<1>2. TypeOK' /\ PricesPublished' /\ HistoryIsDurable' /\ NoGapUnlessLate'
  BY <1>1 DEF IInv, TypeOK, PricesPublished, HistoryIsDurable, NoGapUnlessLate, Priced
<1>3. CASE sync' = None
  BY <1>2, <1>3 DEF IInv, RunBegan, RowsPassed
<1>4. CASE UNCHANGED sync
  BY <1>1, <1>2, <1>4 DEF IInv, RunBegan, RowsPassed, Had, Before, Rows, Priced
<1> QED
  BY <1>1, <1>3, <1>4

LEMMA NextIInv ==
  ASSUME BoundsAssumption, MarksAssumption, NoneAssumption
  PROVE  IInv /\ [Next]_vars => IInv'
<1> SUFFICES ASSUME IInv, [Next]_vars PROVE IInv'
  OBVIOUS
<1>1. CASE NextDay \/ UNCHANGED vars
  <2>1. UNCHANGED <<candles, late, stored, ram, sync, unacked>>
        /\ today' \in 1..(LastDate + 1)
    BY <1>1 DEF NextDay, vars, IInv, TypeOK, BoundsAssumption
  <2> QED
    BY <2>1 DEF IInv, TypeOK, PricesPublished, RunBegan, RowsPassed, HistoryIsDurable,
                NoGapUnlessLate, Priced, Had, Before, Rows
<1>2. CASE SyncRefused \/ SyncFails
  BY <1>2, SyncEndsInv DEF SyncRefused, SyncFails
<1> QED
  BY <1>1, <1>2, ExchangeChangesInv, BeginSyncInv, ReadPageInv, ApplyInv, LoadedInv DEF Next

LEMMA AlwaysIInv ==
  ASSUME BoundsAssumption, MarksAssumption, NoneAssumption PROVE Spec => []IInv
<1>1. Init => IInv
  BY InitIInv
<1>2. IInv /\ [Next]_vars => IInv'
  BY NextIInv
<1> QED
  BY <1>1, <1>2, PTL DEF Spec

-----------------------------------------------------------------------------
\* Dates, closes and runs keep their types.
THEOREM TypeCorrect ==
  ASSUME BoundsAssumption, MarksAssumption, NoneAssumption PROVE Spec => []TypeOK
<1>1. IInv => TypeOK
  BY DEF IInv
<1> QED
  BY <1>1, AlwaysIInv, PTL

\* For any number of dates, rows per page and pages: the daily history has no
\* hole below its latest date but where the exchange published a close late.
THEOREM NoGapEver ==
  ASSUME BoundsAssumption, MarksAssumption, NoneAssumption PROVE Spec => []NoGapUnlessLate
<1>1. IInv => NoGapUnlessLate
  BY DEF IInv
<1> QED
  BY <1>1, AlwaysIInv, PTL

\* Viewers read the daily history that a restart would load, unless a commit
\* was not acknowledged.
THEOREM HistoryAlwaysDurable ==
  ASSUME BoundsAssumption, MarksAssumption, NoneAssumption PROVE Spec => []HistoryIsDurable
<1>1. IInv => HistoryIsDurable
  BY DEF IInv
<1> QED
  BY <1>1, AlwaysIInv, PTL
====
