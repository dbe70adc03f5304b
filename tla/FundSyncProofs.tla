--------------------------- MODULE FundSyncProofs ---------------------------
(***************************************************************************)
(* Theorems about FundSync, for any dates, window, values and tables: RAM  *)
(* and the database agree, and so do the latest snapshot and the history.  *)
(***************************************************************************)
EXTENDS FundSync, SequenceTheorems, TLAPS

\* The order of loadLatestSnapshot has a first element.
HasLatest(s) == s # <<>> => \E n \in 1..Len(s) : IsLatest(s, n)

\* A pending page was validated, and a served process has a snapshot.
PageIsValid == page # None => ValidPage(page)
ServedHasSnapshot == fund # None => snapshots # <<>>

IInv ==
  /\ TypeOK
  /\ HasLatest(snapshots)
  /\ PageIsValid
  /\ ServedHasSnapshot
  /\ FundIsDurable
  /\ SnapshotAgreesUnlessReverted

-----------------------------------------------------------------------------
(* The latest snapshot. *)

\* Two first elements of the order are the same one.
LEMMA LatestIsUnique ==
  ASSUME NEW s \in Seq(Snapshot),
         NEW n \in 1..Len(s), IsLatest(s, n),
         NEW m \in 1..Len(s), IsLatest(s, m)
  PROVE  n = m
<1>1. s[n] \in Snapshot /\ s[m] \in Snapshot /\ n \in Nat /\ m \in Nat
  OBVIOUS
<1>2. s[n].date \in Nat /\ s[m].date \in Nat
  BY <1>1, BoundsAssumption DEF Snapshot, Date
<1>3. s[n].date < s[m].date \/ (s[n].date = s[m].date /\ n <= m)
  BY DEF IsLatest
<1>4. s[m].date < s[n].date \/ (s[m].date = s[n].date /\ m <= n)
  BY DEF IsLatest
<1> QED
  BY <1>1, <1>2, <1>3, <1>4

\* The choice Latest makes is any element that comes first.
LEMMA LatestIs ==
  ASSUME NEW s \in Seq(Snapshot), NEW n \in 1..Len(s), IsLatest(s, n)
  PROVE  Latest(s) = s[n]
<1> DEFINE c == CHOOSE k \in 1..Len(s) : IsLatest(s, k)
<1>1. c \in 1..Len(s) /\ IsLatest(s, c)
  OBVIOUS
<1>2. c = n
  BY <1>1, LatestIsUnique
<1> QED
  BY <1>2 DEF Latest

\* The latest snapshot is a stored one of the newest date.
LEMMA LatestProperties ==
  ASSUME NEW s \in Seq(Snapshot), s # <<>>, HasLatest(s)
  PROVE  /\ \E n \in 1..Len(s) : IsLatest(s, n) /\ Latest(s) = s[n]
         /\ Latest(s) \in Snapshot
         /\ \A k \in 1..Len(s) : s[k].date <= Latest(s).date
<1>1. PICK n \in 1..Len(s) : IsLatest(s, n)
  BY DEF HasLatest
<1>2. Latest(s) = s[n]
  BY <1>1, LatestIs
<1>3. s[n] \in Snapshot
  OBVIOUS
<1>4. \A k \in 1..Len(s) : s[k].date <= s[n].date
  <2> SUFFICES ASSUME NEW k \in 1..Len(s) PROVE s[k].date <= s[n].date
    OBVIOUS
  <2>1. s[k] \in Snapshot
    OBVIOUS
  <2>2. s[k].date \in Nat /\ s[n].date \in Nat
    BY <2>1, <1>3, BoundsAssumption DEF Snapshot, Date
  <2>3. s[k].date < s[n].date \/ (s[k].date = s[n].date /\ k <= n)
    BY <1>1 DEF IsLatest
  <2> QED
    BY <2>2, <2>3
<1> QED
  BY <1>1, <1>2, <1>3, <1>4

\* A new snapshot becomes the latest one unless a newer date is stored.
LEMMA LatestOfAppend ==
  ASSUME NEW s \in Seq(Snapshot), NEW x \in Snapshot, HasLatest(s)
  PROVE  /\ HasLatest(Append(s, x))
         /\ Latest(Append(s, x)) =
              IF s = <<>> \/ Latest(s).date <= x.date THEN x ELSE Latest(s)
<1> DEFINE t == Append(s, x)
<1>1. /\ t \in Seq(Snapshot) /\ Len(t) = Len(s) + 1 /\ Len(s) \in Nat
      /\ \A k \in 1..Len(s) : t[k] = s[k]
      /\ t[Len(s) + 1] = x
  BY AppendProperties, LenProperties
<1> HIDE DEF t
<1>2. x.date \in Nat
  BY BoundsAssumption DEF Snapshot, Date
<1>3. CASE s = <<>> \/ Latest(s).date <= x.date
  <2>1. \A k \in 1..Len(s) : s[k].date <= x.date
    <3>1. CASE s = <<>>
      BY <3>1
    <3>2. CASE s # <<>>
      <4> SUFFICES ASSUME NEW k \in 1..Len(s) PROVE s[k].date <= x.date
        OBVIOUS
      <4>1. s[k].date <= Latest(s).date /\ Latest(s) \in Snapshot
        BY <3>2, LatestProperties
      <4>2. s[k] \in Snapshot
        OBVIOUS
      <4>3. s[k].date \in Nat /\ Latest(s).date \in Nat
        BY <4>1, <4>2, BoundsAssumption DEF Snapshot, Date
      <4> QED
        BY <4>1, <4>3, <1>2, <1>3, <3>2
    <3> QED
      BY <3>1, <3>2
  <2>2. IsLatest(t, Len(s) + 1)
    <3> SUFFICES ASSUME NEW k \in 1..Len(t)
                 PROVE  t[k].date < x.date \/ (t[k].date = x.date /\ k <= Len(s) + 1)
      BY <1>1 DEF IsLatest
    <3>1. CASE k \in 1..Len(s)
      <4>1. t[k] = s[k] /\ s[k] \in Snapshot
        BY <3>1, <1>1
      <4>2. s[k].date \in Nat /\ s[k].date <= x.date /\ k <= Len(s) + 1
        BY <3>1, <4>1, <2>1, <1>1, BoundsAssumption DEF Snapshot, Date
      <4> QED
        BY <4>1, <4>2, <1>2
    <3>2. CASE k = Len(s) + 1
      BY <3>2, <1>1
    <3> QED
      BY <3>1, <3>2, <1>1
  <2>3. Len(s) + 1 \in 1..Len(t)
    BY <1>1
  <2>4. Latest(t) = x
    BY <2>2, <2>3, <1>1, LatestIs
  <2> QED
    BY <2>2, <2>3, <2>4, <1>3 DEF HasLatest, t
<1>4. CASE ~(s = <<>> \/ Latest(s).date <= x.date)
  <2>1. PICK n \in 1..Len(s) : IsLatest(s, n) /\ Latest(s) = s[n]
    BY <1>4, LatestProperties
  <2>2. s[n] \in Snapshot
    OBVIOUS
  <2>3. s[n].date \in Nat /\ x.date < s[n].date
    BY <2>1, <2>2, <1>2, <1>4, BoundsAssumption DEF Snapshot, Date
  <2>4. IsLatest(t, n)
    <3> SUFFICES ASSUME NEW k \in 1..Len(t)
                 PROVE  t[k].date < s[n].date \/ (t[k].date = s[n].date /\ k <= n)
      BY <1>1 DEF IsLatest
    <3>1. CASE k \in 1..Len(s)
      BY <3>1, <2>1, <1>1 DEF IsLatest
    <3>2. CASE k = Len(s) + 1
      BY <3>2, <2>3, <1>1
    <3> QED
      BY <3>1, <3>2, <1>1
  <2>5. n \in 1..Len(t) /\ t[n] = s[n]
    BY <1>1
  <2>6. Latest(t) = Latest(s)
    BY <2>4, <2>5, <2>1, <1>1, LatestIs
  <2> QED
    BY <2>4, <2>5, <2>6, <1>4 DEF HasLatest, t
<1> QED
  BY <1>3, <1>4

-----------------------------------------------------------------------------
(* What applying a page stores. *)

LEMMA NextTypes ==
  ASSUME TypeOK, page # None
  PROVE  /\ page \in SourcePage
         /\ page.snapshot \in Snapshot
         /\ NextDaily \in History
         /\ NextSnapshots \in Seq(Snapshot)
         /\ NextSnapshots # <<>>
         /\ \A m, n \in 1..Len(NextSnapshots) :
              NextSnapshots[m] = NextSnapshots[n] => m = n
<1>1. page \in SourcePage /\ snapshots \in Seq(Snapshot) /\ daily \in History
  BY DEF TypeOK
<1>2. page.snapshot \in Snapshot /\ page.history \in History
  BY <1>1 DEF SourcePage
<1>3. NextDaily \in History
  <2>1. \A d \in Date : page.history[d] \in Values \cup {None} /\ daily[d] \in Values \cup {None}
    BY <1>1, <1>2 DEF History
  <2> QED
    BY <2>1 DEF NextDaily, History
<1>4. CASE Created
  <2>1. NextSnapshots = Append(snapshots, page.snapshot)
    BY <1>4 DEF NextSnapshots
  <2>2. /\ NextSnapshots \in Seq(Snapshot)
        /\ Len(NextSnapshots) = Len(snapshots) + 1
        /\ Len(snapshots) \in Nat
        /\ \A k \in 1..Len(snapshots) : NextSnapshots[k] = snapshots[k]
        /\ NextSnapshots[Len(snapshots) + 1] = page.snapshot
    BY <2>1, <1>1, <1>2, AppendProperties, LenProperties
  <2>3. NextSnapshots # <<>>
    BY <2>2, EmptySeq
  <2>4. ASSUME NEW m \in 1..Len(NextSnapshots), NEW n \in 1..Len(NextSnapshots),
               NextSnapshots[m] = NextSnapshots[n]
        PROVE  m = n
    <3>1. CASE m \in 1..Len(snapshots) /\ n \in 1..Len(snapshots)
      BY <3>1, <2>2, <2>4 DEF TypeOK
    <3>2. CASE m = Len(snapshots) + 1 /\ n \in 1..Len(snapshots)
      BY <3>2, <2>2, <2>4, <1>4 DEF Created
    <3>3. CASE m \in 1..Len(snapshots) /\ n = Len(snapshots) + 1
      BY <3>3, <2>2, <2>4, <1>4 DEF Created
    <3>4. CASE m = Len(snapshots) + 1 /\ n = Len(snapshots) + 1
      BY <3>4
    <3> QED
      BY <3>1, <3>2, <3>3, <3>4, <2>2
  <2> QED
    BY <1>1, <1>2, <1>3, <2>2, <2>3, <2>4
<1>5. CASE ~Created
  <2>1. NextSnapshots = snapshots
    BY <1>5 DEF NextSnapshots
  <2>2. PICK k \in 1..Len(snapshots) : snapshots[k] = page.snapshot
    BY <1>5 DEF Created
  <2>3. snapshots # <<>>
    BY <2>2, <1>1, EmptySeq
  <2> QED
    BY <1>1, <1>2, <1>3, <2>1, <2>3 DEF TypeOK
<1> QED
  BY <1>4, <1>5

\* The value of the page's own date is always taken over.
LEMMA PageDateStored ==
  ASSUME TypeOK, page # None, ValidPage(page)
  PROVE  NextDaily[page.snapshot.date] = page.snapshot.value
<1> DEFINE d == page.snapshot.date
<1>1. page.snapshot \in Snapshot
  BY NextTypes
<1>2. d \in Date /\ page.snapshot.value \in Values
  BY <1>1 DEF Snapshot
<1>3. d \in Nat /\ d + Window >= d
  BY <1>2, BoundsAssumption DEF Date
<1>4. page.history[d] = page.snapshot.value /\ page.history[d] # None
  BY <1>2, NoneAssumption DEF ValidPage
<1> HIDE DEF d
<1>5. d \in Inserted \/ d \in Updated \/ daily[d] = page.history[d]
  BY <1>2, <1>3, <1>4 DEF Inserted, Updated, Mutable, d
<1> QED
  BY <1>2, <1>4, <1>5 DEF NextDaily, d

\* Values of dates the page does not reach stay as they are.
LEMMA LaterDatesKept ==
  ASSUME TypeOK, page # None, ValidPage(page), NEW d \in Date, d > page.snapshot.date
  PROVE  NextDaily[d] = daily[d]
<1>1. page.history[d] = None
  BY DEF ValidPage
<1> QED
  BY <1>1 DEF NextDaily, Inserted, Updated

\* Storing a valid page preserves what is said of the database.
LEMMA StoreAgrees ==
  ASSUME IInv, page # None, Store
  PROVE  /\ HasLatest(snapshots')
         /\ SnapshotAgreesUnlessReverted'
<1> DEFINE P == page.snapshot
           L == Latest(snapshots)
           M == Latest(NextSnapshots)
<1>1. TypeOK /\ ValidPage(page) /\ HasLatest(snapshots)
  BY DEF IInv, PageIsValid
<1>2. /\ P \in Snapshot
      /\ NextSnapshots \in Seq(Snapshot) /\ NextSnapshots # <<>>
      /\ snapshots \in Seq(Snapshot)
  BY <1>1, NextTypes DEF TypeOK
<1>3. P.date \in Date /\ P.date \in Nat
  BY <1>2, BoundsAssumption DEF Snapshot, Date
<1>4. /\ HasLatest(NextSnapshots)
      /\ M = P \/ (snapshots # <<>> /\ M = L /\ (L.date > P.date \/ Reverts))
  <2>1. CASE Created
    <3>1. NextSnapshots = Append(snapshots, P)
      BY <2>1 DEF NextSnapshots
    <3>2. /\ HasLatest(NextSnapshots)
          /\ M = IF snapshots = <<>> \/ L.date <= P.date THEN P ELSE L
      BY <3>1, <1>1, <1>2, LatestOfAppend
    <3>3. CASE snapshots = <<>> \/ L.date <= P.date
      BY <3>2, <3>3
    <3>4. CASE ~(snapshots = <<>> \/ L.date <= P.date)
      <4>1. L \in Snapshot
        BY <3>4, <1>1, <1>2, LatestProperties
      <4>2. L.date \in Nat
        BY <4>1, BoundsAssumption DEF Snapshot, Date
      <4> QED
        BY <3>2, <3>4, <4>2, <1>3
    <3> QED
      BY <3>3, <3>4
  <2>2. CASE ~Created
    <3>1. NextSnapshots = snapshots
      BY <2>2 DEF NextSnapshots
    <3>2. PICK k \in 1..Len(snapshots) : snapshots[k] = P
      BY <2>2 DEF Created
    <3>3. snapshots # <<>>
      BY <3>1, <1>2
    <3>4. P.date <= L.date /\ L \in Snapshot
      BY <3>2, <3>3, <1>1, <1>2, LatestProperties
    <3>5. L.date \in Nat
      BY <3>4, BoundsAssumption DEF Snapshot, Date
    <3>6. CASE P = L
      BY <3>6, <3>1, <1>1
    <3>7. CASE P # L /\ P.date = L.date
      BY <3>7, <3>1, <3>3, <2>2, <1>1 DEF Reverts
    <3>8. CASE P.date # L.date
      BY <3>8, <3>1, <3>3, <3>4, <3>5, <1>1, <1>3
    <3> QED
      BY <3>6, <3>7, <3>8
  <2> QED
    BY <2>1, <2>2
<1>5. /\ snapshots' = NextSnapshots
      /\ daily' = NextDaily
      /\ Reverts => reverted' = TRUE
      /\ ~Reverts /\ M # P => reverted' = reverted
  BY <1>2 DEF Store, RecordRevert
<1>6. ASSUME ~reverted' PROVE daily'[M.date] = M.value
  <2>1. CASE M = P
    BY <2>1, <1>1, <1>5, PageDateStored
  <2>2. CASE M # P
    <3>1. snapshots # <<>> /\ M = L /\ L.date > P.date /\ ~Reverts /\ ~reverted
      BY <2>2, <1>4, <1>5, <1>6
    <3>2. daily[L.date] = L.value
      BY <3>1 DEF IInv, SnapshotAgreesUnlessReverted
    <3>3. L \in Snapshot
      BY <3>1, <1>1, <1>2, LatestProperties
    <3>4. L.date \in Date
      BY <3>3 DEF Snapshot
    <3>5. NextDaily[L.date] = daily[L.date]
      BY <3>1, <3>4, <1>1, LaterDatesKept
    <3> QED
      BY <3>1, <3>2, <3>5, <1>5
  <2> QED
    BY <2>1, <2>2
<1>7. Latest(snapshots)' = M
  BY <1>5 DEF Latest, IsLatest
<1> QED
  BY <1>4, <1>5, <1>6, <1>7 DEF SnapshotAgreesUnlessReverted

-----------------------------------------------------------------------------
(* The invariant. *)

LEMMA InitInvariant ==
  ASSUME Init
  PROVE  IInv
<1>1. TypeOK
  <2>1. <<>> \in Seq(Snapshot) /\ Len(<<>>) = 0
    OBVIOUS
  <2>2. [d \in Date |-> None] \in History
    BY DEF History
  <2>3. /\ snapshots \in Seq(Snapshot)
        /\ Len(snapshots) <= MaxSnapshots
        /\ \A m, n \in 1..Len(snapshots) : snapshots[m] = snapshots[n] => m = n
    BY <2>1, BoundsAssumption DEF Init
  <2> QED
    BY <2>2, <2>3 DEF Init, TypeOK
<1> QED
  BY <1>1 DEF Init, IInv, HasLatest, PageIsValid, ServedHasSnapshot, FundIsDurable,
              SnapshotAgreesUnlessReverted

\* What RAM holds after the stored data was loaded into it.
LEMMA LoadedType ==
  ASSUME NEW s \in Seq(Snapshot), s # <<>>, HasLatest(s), NEW h \in History
  PROVE  LoadFundState(s, h) \in FundState
<1>1. Latest(s) \in Snapshot
  BY LatestProperties
<1> QED
  BY <1>1 DEF LoadFundState, FundState

\* The variables a step stores, in the type invariant.
LEMMA StoreType ==
  ASSUME IInv, page # None, Store
  PROVE  /\ snapshots' \in Seq(Snapshot) /\ snapshots' # <<>>
         /\ Len(snapshots') <= MaxSnapshots
         /\ \A m, n \in 1..Len(snapshots') : snapshots'[m] = snapshots'[n] => m = n
         /\ daily' \in History
         /\ page' = None
         /\ reverted' \in BOOLEAN
         /\ LoadFundState(NextSnapshots, NextDaily) \in FundState
         /\ LoadFundState(NextSnapshots, NextDaily) = LoadFundState(snapshots, daily)'
<1>1. TypeOK
  BY DEF IInv
<1>2. /\ snapshots' = NextSnapshots /\ daily' = NextDaily /\ page' = None
      /\ Len(NextSnapshots) <= MaxSnapshots
  BY DEF Store
<1>3. reverted' \in BOOLEAN
  BY <1>1 DEF Store, RecordRevert, TypeOK
<1>4. /\ NextSnapshots \in Seq(Snapshot) /\ NextSnapshots # <<>> /\ NextDaily \in History
      /\ \A m, n \in 1..Len(NextSnapshots) : NextSnapshots[m] = NextSnapshots[n] => m = n
  BY <1>1, NextTypes
<1>5. HasLatest(NextSnapshots)
  <2>1. HasLatest(snapshots')
    BY StoreAgrees
  <2> QED
    BY <2>1, <1>2
<1>6. LoadFundState(NextSnapshots, NextDaily) \in FundState
  BY <1>4, <1>5, LoadedType
<1>7. LoadFundState(NextSnapshots, NextDaily) = LoadFundState(snapshots, daily)'
  BY <1>2 DEF LoadFundState, Latest, IsLatest
<1> QED
  BY <1>2, <1>3, <1>4, <1>6, <1>7

\* A step that stores a page and loads what it stored, or leaves RAM behind.
LEMMA StoreInvariant ==
  ASSUME IInv, page # None, Store,
         \/ fund' = LoadFundState(NextSnapshots, NextDaily)
         \/ fund' = fund /\ (fund = None \/ unacked'),
         unacked' \in BOOLEAN
  PROVE  IInv'
<1>1. TypeOK'
  BY StoreType DEF TypeOK, IInv
<1>2. HasLatest(snapshots)' /\ SnapshotAgreesUnlessReverted'
  <2>1. HasLatest(snapshots') /\ SnapshotAgreesUnlessReverted'
    BY StoreAgrees
  <2>2. HasLatest(snapshots)' = HasLatest(snapshots')
    BY DEF HasLatest, IsLatest
  <2> QED
    BY <2>1, <2>2
<1>3. PageIsValid' /\ ServedHasSnapshot'
  BY StoreType DEF PageIsValid, ServedHasSnapshot
<1>4. FundIsDurable'
  BY StoreType DEF FundIsDurable
<1> QED
  BY <1>1, <1>2, <1>3, <1>4 DEF IInv

\* A page that changes nothing leaves the database and RAM as they are.
LEMMA NothingStored ==
  ASSUME TypeOK, page # None, ~Changed
  PROVE  NextSnapshots = snapshots /\ NextDaily = daily
<1>1. NextSnapshots = snapshots
  BY DEF Changed, NextSnapshots
<1>2. Inserted \cup Updated = {}
  BY DEF Changed
<1>3. NextDaily = [d \in Date |-> daily[d]]
  BY <1>2 DEF NextDaily
<1>4. daily = [d \in Date |-> daily[d]]
  BY DEF TypeOK, History
<1> QED
  BY <1>1, <1>3, <1>4

LEMMA StepInvariant ==
  ASSUME IInv, [Next]_vars
  PROVE  IInv'
<1> USE DEF IInv
<1>1. CASE StartLoad
  <2>1. LoadFundState(snapshots, daily) \in FundState
    BY <1>1, LoadedType DEF StartLoad, TypeOK
  <2>2. LoadFundState(snapshots, daily)' = LoadFundState(snapshots, daily)
    BY <1>1 DEF StartLoad, LoadFundState, Latest, IsLatest
  <2>3. TypeOK'
    BY <1>1, <2>1 DEF StartLoad, TypeOK
  <2>4. HasLatest(snapshots)' /\ SnapshotAgreesUnlessReverted'
    BY <1>1 DEF StartLoad, HasLatest, SnapshotAgreesUnlessReverted, Latest, IsLatest
  <2>5. PageIsValid' /\ ServedHasSnapshot' /\ FundIsDurable'
    BY <1>1, <2>2 DEF StartLoad, PageIsValid, ValidPage, ServedHasSnapshot, FundIsDurable
  <2> QED
    BY <2>3, <2>4, <2>5
<1>2. CASE StartFetch \/ SyncFetch
  <2>1. /\ page' \in SourcePage /\ ValidPage(page')
        /\ UNCHANGED <<snapshots, daily, fund, unacked, reverted>>
    BY <1>2 DEF StartFetch, SyncFetch
  <2>2. TypeOK'
    BY <2>1 DEF TypeOK
  <2>3. HasLatest(snapshots)' /\ SnapshotAgreesUnlessReverted'
    BY <2>1 DEF HasLatest, SnapshotAgreesUnlessReverted, Latest, IsLatest
  <2>4. PageIsValid' /\ ServedHasSnapshot'
    BY <2>1 DEF PageIsValid, ValidPage, ServedHasSnapshot
  <2>5. FundIsDurable'
    BY <2>1 DEF FundIsDurable, LoadFundState, Latest, IsLatest
  <2> QED
    BY <2>2, <2>3, <2>4, <2>5
<1>3. CASE StartApply
  <2>1. page # None /\ Store /\ fund' = LoadFundState(NextSnapshots, NextDaily)
        /\ unacked' \in BOOLEAN
    BY <1>3 DEF StartApply, TypeOK
  <2> QED
    BY <2>1, StoreInvariant
<1>4. CASE StartApplyUnacked
  <2>1. page # None /\ Store /\ fund' = fund /\ fund = None /\ unacked' \in BOOLEAN
    BY <1>4 DEF StartApplyUnacked, TypeOK
  <2> QED
    BY <2>1, StoreInvariant
<1>5. CASE SyncApply
  <2>1. page # None /\ Store /\ fund # None
    BY <1>5 DEF SyncApply
  <2>2. CASE Changed
    <3>1. fund' = LoadFundState(NextSnapshots, NextDaily) /\ unacked' \in BOOLEAN
      BY <1>5, <2>2 DEF SyncApply
    <3> QED
      BY <2>1, <3>1, StoreInvariant
  <2>3. CASE ~Changed
    <3>1. fund' = fund /\ unacked' = unacked
      BY <1>5, <2>3 DEF SyncApply
    <3>2. snapshots' = snapshots /\ daily' = daily
      BY <2>1, <2>3, NothingStored DEF Store
    <3>3. TypeOK'
      BY <2>1, <3>1, StoreType DEF TypeOK
    <3>4. HasLatest(snapshots)' /\ SnapshotAgreesUnlessReverted'
      <4>1. HasLatest(snapshots') /\ SnapshotAgreesUnlessReverted'
        BY <2>1, StoreAgrees
      <4>2. HasLatest(snapshots)' = HasLatest(snapshots')
        BY DEF HasLatest, IsLatest
      <4> QED
        BY <4>1, <4>2
    <3>5. PageIsValid' /\ ServedHasSnapshot'
      BY <2>1, <3>1, StoreType DEF PageIsValid, ServedHasSnapshot
    <3>6. FundIsDurable'
      BY <3>1, <3>2 DEF FundIsDurable, LoadFundState, Latest, IsLatest
    <3> QED
      BY <3>3, <3>4, <3>5, <3>6
  <2> QED
    BY <2>2, <2>3
<1>6. CASE SyncApplyUnacked
  <2>1. page # None /\ Store /\ fund' = fund /\ unacked' = TRUE
    BY <1>6 DEF SyncApplyUnacked
  <2> QED
    BY <2>1, StoreInvariant
<1>7. CASE ApplyFails
  <2>1. page' = None /\ UNCHANGED <<snapshots, daily, fund, unacked, reverted>>
    BY <1>7 DEF ApplyFails
  <2> QED
    BY <2>1 DEF TypeOK, HasLatest, SnapshotAgreesUnlessReverted, Latest, IsLatest,
                PageIsValid, ServedHasSnapshot, FundIsDurable, LoadFundState
<1>8. CASE Restart
  <2>1. fund' = None /\ page' = None /\ unacked' = FALSE
        /\ UNCHANGED <<snapshots, daily, reverted>>
    BY <1>8 DEF Restart
  <2> QED
    BY <2>1 DEF TypeOK, HasLatest, SnapshotAgreesUnlessReverted, Latest, IsLatest,
                PageIsValid, ServedHasSnapshot, FundIsDurable
<1>9. CASE UNCHANGED vars
  BY <1>9 DEF vars, TypeOK, HasLatest, SnapshotAgreesUnlessReverted, Latest, IsLatest,
              PageIsValid, ValidPage, ServedHasSnapshot, FundIsDurable, LoadFundState
<1> QED
  BY <1>1, <1>2, <1>3, <1>4, <1>5, <1>6, <1>7, <1>8, <1>9 DEF Next

\* The strengthened invariant holds in every reachable state: an order on the
\* stored snapshots, a pending page that was validated, and what follows.
THEOREM Invariant == Spec => []IInv
<1>1. Init => IInv
  BY InitInvariant
<1>2. IInv /\ [Next]_vars => IInv'
  BY StepInvariant
<1> QED
  BY <1>1, <1>2, PTL DEF Spec

\* Every variable keeps its type, and no snapshot is stored twice.
THEOREM TypeCorrect == Spec => []TypeOK
<1>1. IInv => TypeOK
  BY DEF IInv
<1> QED
  BY <1>1, Invariant, PTL

\* RAM holds what a restart would load, whatever pages are applied, fail to
\* be applied or are interrupted.
THEOREM FundAlwaysDurable == Spec => []FundIsDurable
<1>1. IInv => FundIsDurable
  BY DEF IInv
<1> QED
  BY <1>1, Invariant, PTL

\* The latest snapshot and the daily history have the same value for its
\* date, except after the page went back to an older version of that date.
THEOREM SnapshotAlwaysAgrees == Spec => []SnapshotAgreesUnlessReverted
<1>1. IInv => SnapshotAgreesUnlessReverted
  BY DEF IInv
<1> QED
  BY <1>1, Invariant, PTL

\* A value that left the correction window is only changed by a page older
\* than the latest snapshot.
THEOREM FixedHistoryAlwaysKept == Spec => FixedHistoryKept
<1> DEFINE Kept == \A d \in Date :
             /\ snapshots # <<>>
             /\ daily[d] # None
             /\ daily'[d] # daily[d]
             /\ d + Window < Latest(snapshots).date
             => page.snapshot.date < Latest(snapshots).date
<1>1. ASSUME IInv, [Next]_vars PROVE [Kept]_vars
  <2> SUFFICES ASSUME NEW d \in Date, snapshots # <<>>, daily[d] # None,
                      daily'[d] # daily[d], d + Window < Latest(snapshots).date
               PROVE  page.snapshot.date < Latest(snapshots).date
    OBVIOUS
  <2>1. page # None /\ Store
    BY <1>1 DEF Next, StartLoad, StartFetch, StartApply, StartApplyUnacked, SyncFetch,
                SyncApply, SyncApplyUnacked, ApplyFails, Restart, vars
  <2>2. daily'[d] = NextDaily[d]
    BY <2>1 DEF Store
  <2>3. d \in Updated
    BY <2>2 DEF NextDaily, Inserted
  <2>4. d + Window >= page.snapshot.date
    BY <2>3 DEF Updated, Mutable
  <2>5. page.snapshot \in Snapshot /\ Latest(snapshots) \in Snapshot
    BY <1>1, <2>1, NextTypes, LatestProperties DEF IInv, TypeOK
  <2>6. d \in Nat /\ page.snapshot.date \in Nat /\ Latest(snapshots).date \in Nat
    BY <2>5, BoundsAssumption DEF Snapshot, Date
  <2> QED
    BY <2>4, <2>6, BoundsAssumption
<1>2. IInv /\ [Next]_vars => [Kept]_vars
  BY <1>1
<1>3. Spec => [][Kept]_vars
  BY <1>2, Invariant, PTL DEF Spec
<1> QED
  BY <1>3 DEF FixedHistoryKept
=============================================================================
