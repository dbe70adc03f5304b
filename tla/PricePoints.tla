----------------------------- MODULE PricePoints -----------------------------
(***************************************************************************)
(* The current price of the fund's unit and the intraday points of the     *)
(* mini-chart that MarketHistory (internal/fund) reads from RAM: a job     *)
(* asks for a quote every few minutes and stores it with a point, and      *)
(* points older than the retention are deleted.                            *)
(*                                                                         *)
(* RAM is cut by the clock of the quote like the table, but at other       *)
(* moments too: by the clock of the start, and not at all when an          *)
(* administrator's change loads the price state again; the history job     *)
(* replaces the price and keeps the points.                                *)
(***************************************************************************)
EXTENDS Integers, Sequences, FiniteSets

CONSTANTS
  Value,      \* price of a quote
  Retention,  \* pricePointRetention
  MaxClock,   \* bound on the clock
  None        \* no price, no run of the job

Time == 1..MaxClock
Quote == [value : Value, priced : Time]
Point == [value : Value, priced : Time, observed : Time]

\* A quote that was fetched and waits for the write lock.
Sync == [quote : Quote, fetched : Time]

\* Points differ in the time they were observed at: one job observes them, one
\* after the other.
Prices == [price : Quote \cup {None}, points : SUBSET Point]

BoundsAssumption == Retention \in Nat /\ MaxClock \in Nat \ {0}
NoneAssumption == None \notin Quote \cup Sync

VARIABLES
  clock,
  stored,   \* instrument_prices and instrument_price_points of the source
  ram,      \* PriceState.Sources and PriceState.Points of the source
  sync,     \* the run of the job
  unacked   \* history: RAM misses a point that was stored and reported as failed

vars == <<clock, stored, ram, sync, unacked>>

Init ==
  /\ clock = 1
  /\ stored = [price |-> None, points |-> {}]
  /\ ram = stored
  /\ sync = None
  /\ unacked = FALSE

Tick ==
  /\ clock < MaxClock
  /\ clock' = clock + 1
  /\ UNCHANGED <<stored, ram, sync, unacked>>

\* retainedPricePoints, deleteOldPricePoints
Retained(points, now) == {p \in points : p.observed >= now - Retention}

\* The provider answers with a quote of any age, after some time.
Fetch ==
  /\ sync = None
  /\ clock < MaxClock
  /\ clock' = clock + 1
  /\ \E q \in Quote : q.priced <= clock' /\ sync' = [quote |-> q, fetched |-> clock']
  /\ UNCHANGED <<stored, ram, unacked>>

FetchFails ==
  /\ sync # None
  /\ sync' = None
  /\ UNCHANGED <<clock, stored, ram, unacked>>

\* applyCurrentPriceQuote: neither stale nor unchanged.
Newer(q) == stored.price # None => q.priced >= stored.price.priced /\ q # stored.price

PointOf(s) == [value |-> s.quote.value, priced |-> s.quote.priced, observed |-> s.fetched]

WithQuote(prices, s) ==
  [price  |-> s.quote,
   points |-> Retained(prices.points \cup {PointOf(s)}, s.fetched)]

Persisted(s) == IF Newer(s.quote) THEN WithQuote(stored, s) ELSE stored

\* priceStateWithCurrentUpdates
Cached(s) == WithQuote(ram, s)

Apply ==
  /\ sync # None
  /\ stored' = Persisted(sync)
  /\ ram' = IF Newer(sync.quote) THEN Cached(sync) ELSE ram
  /\ sync' = None
  /\ UNCHANGED <<clock, unacked>>

\* The commit takes effect and its answer is lost.
ApplyUnacked ==
  /\ sync # None
  /\ stored' = Persisted(sync)
  /\ unacked' = (unacked \/ Newer(sync.quote))
  /\ sync' = None
  /\ UNCHANGED <<clock, ram>>

\* The history job stored a daily price: the prices are loaded again and the
\* points of RAM are kept.
HistoryChanged ==
  /\ ram' = [ram EXCEPT !.price = stored.price]
  /\ UNCHANGED <<clock, stored, sync, unacked>>

\* SetPriceSource, of any instrument of the fund, loads the whole price state.
SourceChanged ==
  /\ ram' = stored
  /\ unacked' = FALSE
  /\ UNCHANGED <<clock, stored, sync>>

\* Start cuts what it loads by its own clock.
Restart ==
  /\ ram' = [stored EXCEPT !.points = Retained(@, clock)]
  /\ unacked' = FALSE
  /\ sync' = None
  /\ UNCHANGED <<clock, stored>>

Next ==
  \/ Tick
  \/ Fetch
  \/ FetchFails
  \/ Apply
  \/ ApplyUnacked
  \/ HistoryChanged
  \/ SourceChanged
  \/ Restart

Spec == Init /\ [][Next]_vars

-----------------------------------------------------------------------------
TypeOK ==
  /\ clock \in Time
  /\ stored \in Prices
  /\ ram \in Prices
  /\ sync \in Sync \cup {None}
  /\ unacked \in BOOLEAN

\* The points of one source in RAM, in the order they were appended in.
Series ==
  [n \in 1..Cardinality(ram.points) |->
     CHOOSE p \in ram.points :
       Cardinality({q \in ram.points : q.observed < p.observed}) = n - 1]

Ranges(series) == (0..Len(series)) \X (0..Len(series))

\* Fault: the search goes past the points of that very time.
SearchStartAfter(series, from) ==
  LET search[r \in Ranges(series)] ==
        LET h == (r[1] + r[2]) \div 2
        IN IF r[1] >= r[2] THEN r[1]
           ELSE IF series[h + 1].priced <= from THEN search[<<h + 1, r[2]>>]
           ELSE search[<<r[1], h>>]
  IN search[<<0, Len(series)>>]

\* slices.BinarySearchFunc: the number of items before `from`.
SearchStart(series, from) ==
  LET search[r \in Ranges(series)] ==
        LET h == (r[1] + r[2]) \div 2
        IN IF r[1] >= r[2] THEN r[1]
           ELSE IF series[h + 1].priced < from THEN search[<<h + 1, r[2]>>]
           ELSE search[<<r[1], h>>]
  IN search[<<0, Len(series)>>]

\* MarketHistory
UnitPrices(from) ==
  LET series == Series
  IN {series[n] : n \in (SearchStart(series, from) + 1)..Len(series)}

\* A viewer who asks for the chart of the last 48 hours from some time on gets
\* every point of the table priced since then, and no other of that age:
\* whatever cut or loaded RAM meanwhile, and although the points are searched
\* by the time of their price and kept in the order they were observed in.
ChartServed ==
  ~unacked => \A from \in Time :
    Retained(UnitPrices(from), clock) = {p \in Retained(stored.points, clock) : p.priced >= from}
=============================================================================
