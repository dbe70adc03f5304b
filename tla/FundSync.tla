------------------------------- MODULE FundSync -------------------------------
(***************************************************************************)
(* The official fund data (internal/fund): the page of the management      *)
(* company, the versioned snapshots and the daily history stored from it,  *)
(* and their copy in RAM.                                                  *)
(*                                                                         *)
(* A page is fetched with no lock held and applied later, in one           *)
(* transaction under the application state's write lock.  The scheduler    *)
(* runs one sync at a time, and Start runs before it, so one fetched page  *)
(* is pending at most.  The page may change between two fetches in any     *)
(* way, and may go back to what it said before.                            *)
(***************************************************************************)
EXTENDS Naturals, Sequences

CONSTANTS
  MaxDate,      \* bound: dates are 1..MaxDate
  Window,       \* historyCorrectionWindowDays
  Values,       \* unit value and NAV of a date, as one token
  Assets,       \* the asset and category tables of a page, as one token
  MaxSnapshots, \* bound on the stored snapshots
  None          \* no value, no page, nothing in RAM

Date == 1..MaxDate

\* SourceSnapshot.  Its source hash covers all of it, so that the snapshot
\* stands for the pair (as_of_date, source_hash).
Snapshot == [date : Date, value : Values, assets : Assets]

History == [Date -> Values \cup {None}]
FundState == [snapshot : Snapshot, daily : History]
SourcePage == [snapshot : Snapshot, history : History]

ASSUME BoundsAssumption == MaxDate \in Nat /\ Window \in Nat /\ MaxSnapshots \in Nat
ASSUME NoneAssumption ==
  /\ None \notin Values
  /\ None \notin FundState
  /\ None \notin SourcePage

VARIABLES
  snapshots,  \* fund_snapshots, in the order of their ids
  daily,      \* fund_daily_values
  fund,       \* State.Fund, or None before Start is done
  page,       \* the page that was fetched and not yet applied, or None
  unacked,    \* history: a commit was reported as failed but took effect
  reverted    \* history: the page went back to an older version of its date

vars == <<snapshots, daily, fund, page, unacked, reverted>>

\* ValidateSourcePage: the history ends at the snapshot, with its values.
ValidPage(p) ==
  /\ \A d \in Date : d > p.snapshot.date => p.history[d] = None
  /\ p.history[p.snapshot.date] = p.snapshot.value

\* Fault: the versions of one date are not told apart.
IsLatestByDate(s, n) ==
  \A k \in 1..Len(s) : s[k].date < s[n].date \/ (s[k].date = s[n].date /\ k >= n)

\* loadLatestSnapshot orders by date, then by the time it was observed, which
\* grows with the id as long as the clock does.
IsLatest(s, n) ==
  \A k \in 1..Len(s) : s[k].date < s[n].date \/ (s[k].date = s[n].date /\ k <= n)

Latest(s) == s[CHOOSE n \in 1..Len(s) : IsLatest(s, n)]

\* loadFundState
LoadFundState(s, history) == [snapshot |-> Latest(s), daily |-> history]

Init ==
  /\ snapshots = <<>>
  /\ daily = [d \in Date |-> None]
  /\ fund = None
  /\ page = None
  /\ unacked = FALSE
  /\ reverted = FALSE

-----------------------------------------------------------------------------
(* applyManagementCompanyPage: what the pending page changes. *)

\* Fault: the window has one day more.
MutableOneMore(d) == d + Window + 1 >= page.snapshot.date

\* planDailyValueChanges: a stored value may be corrected inside the window.
Mutable(d) == d + Window >= page.snapshot.date

Inserted == {d \in Date : page.history[d] # None /\ daily[d] = None}
Updated ==
  {d \in Date : /\ page.history[d] # None
                /\ daily[d] \notin {None, page.history[d]}
                /\ Mutable(d)}

NextDaily == [d \in Date |-> IF d \in Inserted \cup Updated THEN page.history[d] ELSE daily[d]]

\* Fault: the page is compared with the latest snapshot only.
CreatedIfNotLatest ==
  \A n \in 1..Len(snapshots) : IsLatest(snapshots, n) => snapshots[n] # page.snapshot

\* insertSnapshot: ON CONFLICT (as_of_date, source_hash) DO NOTHING.
Created == \A n \in 1..Len(snapshots) : snapshots[n] # page.snapshot

NextSnapshots == IF Created THEN Append(snapshots, page.snapshot) ELSE snapshots

\* Fault: corrections of the history alone are not published.
ChangedIfInserted == Created \/ Inserted # {}

Changed == Created \/ Inserted # {} \/ Updated # {}

\* A stored version of the latest date that is not the latest one is back.
Reverts ==
  /\ ~Created
  /\ page.snapshot # Latest(snapshots)
  /\ page.snapshot.date = Latest(snapshots).date

RecordRevert ==
  reverted' = IF Reverts THEN TRUE
              ELSE IF NextSnapshots # <<>> /\ Latest(NextSnapshots) = page.snapshot
              THEN FALSE ELSE reverted

\* ApplyManagementCompanySync, committed.
Store ==
  /\ Len(NextSnapshots) <= MaxSnapshots
  /\ snapshots' = NextSnapshots
  /\ daily' = NextDaily
  /\ page' = None
  /\ RecordRevert

-----------------------------------------------------------------------------
(* EnsureInitialized. *)
StartLoad ==
  /\ fund = None
  /\ snapshots # <<>>
  /\ fund' = LoadFundState(snapshots, daily)
  /\ UNCHANGED <<snapshots, daily, page, unacked, reverted>>

\* Without a stored snapshot the process starts from the page.
StartFetch ==
  /\ fund = None
  /\ snapshots = <<>>
  /\ page = None
  /\ page' \in {p \in SourcePage : ValidPage(p)}
  /\ UNCHANGED <<snapshots, daily, fund, unacked, reverted>>

StartApply ==
  /\ fund = None
  /\ page # None
  /\ Created
  /\ Store
  /\ fund' = LoadFundState(NextSnapshots, NextDaily)
  /\ UNCHANGED unacked

\* The commit took effect, its acknowledgement was lost: Start fails.
StartApplyUnacked ==
  /\ fund = None
  /\ page # None
  /\ Store
  /\ UNCHANGED <<fund, unacked>>

(* SyncManagementCompany. *)
SyncFetch ==
  /\ fund # None
  /\ page = None
  /\ page' \in {p \in SourcePage : ValidPage(p)}
  /\ UNCHANGED <<snapshots, daily, fund, unacked, reverted>>

SyncApply ==
  /\ fund # None
  /\ page # None
  /\ Store
  /\ IF Changed
     THEN fund' = LoadFundState(NextSnapshots, NextDaily) /\ unacked' = FALSE
     ELSE UNCHANGED <<fund, unacked>>

\* Update keeps the old state in RAM.
SyncApplyUnacked ==
  /\ fund # None
  /\ page # None
  /\ Changed
  /\ Store
  /\ unacked' = TRUE
  /\ UNCHANGED fund

\* A statement fails, or an instrument has another asset type than the page
\* says: the transaction rolls back.
ApplyFails ==
  /\ page # None
  /\ page' = None
  /\ UNCHANGED <<snapshots, daily, fund, unacked, reverted>>

\* The process ends, at any moment, and is started again.
Restart ==
  /\ fund' = None
  /\ page' = None
  /\ unacked' = FALSE
  /\ UNCHANGED <<snapshots, daily, reverted>>

Next ==
  \/ StartLoad
  \/ StartFetch
  \/ StartApply
  \/ StartApplyUnacked
  \/ SyncFetch
  \/ SyncApply
  \/ SyncApplyUnacked
  \/ ApplyFails
  \/ Restart

Spec == Init /\ [][Next]_vars

-----------------------------------------------------------------------------
TypeOK ==
  /\ snapshots \in Seq(Snapshot)
  /\ Len(snapshots) <= MaxSnapshots
  /\ \A m, n \in 1..Len(snapshots) : snapshots[m] = snapshots[n] => m = n
  /\ daily \in History
  /\ fund \in FundState \cup {None}
  /\ page \in SourcePage \cup {None}
  /\ unacked \in BOOLEAN
  /\ reverted \in BOOLEAN

\* What a restart would load is what RAM already holds.
FundIsDurable ==
  fund # None /\ ~unacked => snapshots # <<>> /\ fund = LoadFundState(snapshots, daily)

\* The official value that live valuation starts from is the one the history
\* has for its date, unless the page went back to an older version of it.
SnapshotAgreesUnlessReverted ==
  snapshots # <<>> /\ ~reverted => daily[Latest(snapshots).date] = Latest(snapshots).value

\* A date that has left the correction window of the latest snapshot keeps its
\* value, restarts included, unless the page is older than that snapshot.
FixedHistoryKept ==
  [][\A d \in Date :
       /\ snapshots # <<>>
       /\ daily[d] # None
       /\ daily'[d] # daily[d]
       /\ d + Window < Latest(snapshots).date
       => page.snapshot.date < Latest(snapshots).date]_vars

\* The schema calls the stored snapshots those of the current page: after a
\* page that is not older than the latest snapshot was applied, the latest
\* snapshot is the page's.
LatestIsCurrentPage ==
  [][page # None /\ snapshots # <<>> /\ fund # None /\ fund' # None
     /\ fund' # fund /\ page.snapshot.date >= Latest(snapshots).date
       => fund'.snapshot = page.snapshot]_vars
=============================================================================
