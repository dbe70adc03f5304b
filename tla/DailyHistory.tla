---------------------------- MODULE DailyHistory ----------------------------
(***************************************************************************)
(* The daily market prices of the fund's unit (internal/prices,            *)
(* internal/providers/moex): once a day the history job asks the exchange  *)
(* for its daily candles from the latest date it has until yesterday, page *)
(* by page, and stores what is new or differs.                             *)
(*                                                                         *)
(* The exchange goes on while the pages are read: days begin, candles      *)
(* appear late, get their close or are corrected, and a page is asked for  *)
(* by the number of rows read so far.  Only one run of the job exists at a *)
(* time (Scheduler).                                                       *)
(***************************************************************************)
EXTENDS Integers, FiniteSets, FiniteSetsExt

CONSTANTS
  LastDate,  \* bound: the dates are 1..LastDate, and 1 is the start date
  Value,     \* close of a day, with the currency of the board
  PageSize,  \* rows of one answer of the exchange
  MaxPages,  \* maxHistoryPages
  Absent,    \* the exchange has no candle of a date, the table has no row
  NoClose,   \* a candle without a close
  None       \* no run of the job

Dates == 1..LastDate
History == [Dates -> Value \cup {Absent}]

Sync == [phase : {"paging", "fetched"}, from : Dates, till : 0..LastDate,
         start : Nat, pages : 0..MaxPages, items : SUBSET (Dates \X Value)]

BoundsAssumption == {LastDate, PageSize, MaxPages} \subseteq Nat \ {0}
MarksAssumption == {Absent, NoClose} \cap Value = {} /\ Absent # NoClose
NoneAssumption == None \notin Sync

VARIABLES
  today,    \* the date in Moscow
  candles,  \* the daily candles of the exchange
  late,     \* history: dates whose close came after a later one, or while a run read
  stored,   \* instrument_daily_prices of the fund unit's source
  ram,      \* PriceState.DailyPrices of that source
  sync,     \* the run of the history job
  unacked   \* history: RAM misses a change that was stored and reported as failed

vars == <<today, candles, late, stored, ram, sync, unacked>>

Priced(history) == {d \in Dates : history[d] \in Value}
LatestOr(dates, default) == IF dates = {} THEN default ELSE Max(dates)

Init ==
  /\ today = 1
  /\ candles = [d \in Dates |-> Absent]
  /\ late = {}
  /\ stored = [d \in Dates |-> Absent]
  /\ ram = stored
  /\ sync = None
  /\ unacked = FALSE

NextDay ==
  /\ today <= LastDate
  /\ today' = today + 1
  /\ UNCHANGED <<candles, late, stored, ram, sync, unacked>>

Reads(d) == sync # None /\ d <= sync.till

\* The exchange publishes a candle, with its close or without, gives one its
\* close, or corrects it: at any time from that day on.
ExchangeChanges ==
  /\ \E d \in Dates, v \in Value \cup {NoClose} :
       /\ d <= today
       /\ v = NoClose => candles[d] = Absent
       /\ candles' = [candles EXCEPT ![d] = v]
       /\ late' = IF /\ v # NoClose
                     /\ candles[d] \notin Value
                     /\ Reads(d) \/ \E e \in Priced(candles) : e > d
                  THEN late \cup {d} ELSE late
  /\ UNCHANGED <<today, stored, ram, sync, unacked>>

\* fundUnitMOEXHistoryFrom
From == LatestOr(Priced(ram), 1)

\* Nothing is asked for when the latest date is not over yet.
BeginSync ==
  /\ sync = None
  /\ sync' = [phase |-> IF From > today - 1 THEN "fetched" ELSE "paging",
              from |-> From, till |-> today - 1, start |-> 0, pages |-> 0,
              items |-> {}]
  /\ UNCHANGED <<today, candles, late, stored, ram, unacked>>

\* The exchange answers with the candles of from..till in the order of their
\* dates, without the first `start` of them.
Rows == {d \in sync.from..sync.till : candles[d] # Absent}
Before(d) == Cardinality({e \in Rows : e < d})
Page == {d \in Rows : Before(d) \in sync.start..(sync.start + PageSize - 1)}

\* Fault: the rows are counted from one.
NextStartFromOne(page) == sync.start + Cardinality(page) + 1

\* A candle without a close is counted and skipped.
NextStart(page) == sync.start + Cardinality(page)

ReadPage ==
  /\ sync # None
  /\ sync.phase = "paging"
  /\ sync.pages < MaxPages
  /\ sync' = IF Page = {}
             THEN [sync EXCEPT !.phase = "fetched"]
             ELSE [sync EXCEPT !.start = NextStart(Page),
                               !.pages = @ + 1,
                               !.items = @ \cup {<<d, candles[d]>> :
                                           d \in Page \cap Priced(candles)}]
  /\ UNCHANGED <<today, candles, late, stored, ram, unacked>>

\* normalizeDailyPrices refuses two closes of one date.
Conflict(items) == \E x, y \in items : x[1] = y[1] /\ x # y

\* The pages are not enough, or contradict each other.
SyncRefused ==
  /\ sync # None
  /\ \/ sync.phase = "paging" /\ sync.pages = MaxPages
     \/ sync.phase = "fetched" /\ Conflict(sync.items)
  /\ sync' = None
  /\ UNCHANGED <<today, candles, late, stored, ram, unacked>>

\* A request or a transaction fails.
SyncFails ==
  /\ sync # None
  /\ sync' = None
  /\ UNCHANGED <<today, candles, late, stored, ram, unacked>>

\* DailySyncResult.Changed
Changed(next) == next # stored

Merged(items) ==
  [d \in Dates |-> IF \E v \in Value : <<d, v>> \in items
                   THEN CHOOSE v \in Value : <<d, v>> \in items
                   ELSE stored[d]]

\* RAM becomes what is stored, if anything changed.
Apply ==
  /\ sync # None
  /\ sync.phase = "fetched"
  /\ ~Conflict(sync.items)
  /\ stored' = Merged(sync.items)
  /\ IF Changed(stored')
     THEN ram' = stored' /\ unacked' = FALSE
     ELSE UNCHANGED <<ram, unacked>>
  /\ sync' = None
  /\ UNCHANGED <<today, candles, late>>

\* The commit takes effect and its answer is lost.
ApplyUnacked ==
  /\ sync # None
  /\ sync.phase = "fetched"
  /\ ~Conflict(sync.items)
  /\ stored' = Merged(sync.items)
  /\ unacked' = (unacked \/ stored' # stored)
  /\ sync' = None
  /\ UNCHANGED <<today, candles, late, ram>>

\* SetPriceSource loads the whole price state again.
Reload ==
  /\ ram' = stored
  /\ unacked' = FALSE
  /\ UNCHANGED <<today, candles, late, stored, sync>>

Restart ==
  /\ ram' = stored
  /\ unacked' = FALSE
  /\ sync' = None
  /\ UNCHANGED <<today, candles, late, stored>>

Next ==
  \/ NextDay
  \/ ExchangeChanges
  \/ BeginSync
  \/ ReadPage
  \/ SyncRefused
  \/ SyncFails
  \/ Apply
  \/ ApplyUnacked
  \/ Reload
  \/ Restart

Spec == Init /\ [][Next]_vars

-----------------------------------------------------------------------------
TypeOK ==
  /\ today \in 1..(LastDate + 1)
  /\ candles \in [Dates -> Value \cup {Absent, NoClose}]
  /\ late \in SUBSET Dates
  /\ stored \in History
  /\ ram \in History
  /\ sync \in Sync \cup {None}
  /\ unacked \in BOOLEAN

\* The history has no hole: below its latest date only closes are missing that
\* the exchange published out of order or while a run was reading, although
\* the rows move under the offsets the pages are asked with.
NoGapUnlessLate ==
  \A d \in Priced(candles) \ late :
    d < LatestOr(Priced(stored), 0) => d \in Priced(stored)

\* Viewers read what a restart would load, unless a commit was not
\* acknowledged; a run that then finds nothing new does not repair it.
HistoryIsDurable == ~unacked => ram = stored
=============================================================================
