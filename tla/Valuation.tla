------------------------------ MODULE Valuation ------------------------------
(***************************************************************************)
(* The live valuation of the fund (internal/valuation): baselines, which   *)
(* say what an asset was worth at the date of the official snapshot, and   *)
(* the live value computed from them and the current prices.               *)
(*                                                                         *)
(* A caller (a job, or the administrator's request) changes an input under *)
(* the application state's write lock and then has the value recalculated: *)
(* it loads the published state, reads the stored baselines and asks the   *)
(* providers for historical prices with no lock held, and applies the      *)
(* result under the lock, where the inputs may have changed again.         *)
(*                                                                         *)
(* Sources and prices are those of PriceSources, whose updates of RAM are  *)
(* one step each here.  A source is a pair of instrument and provider, and *)
(* a snapshot has one asset per instrument it holds.  A numeric value is   *)
(* what it was computed from.  Value points are left out, and the market   *)
(* price of the fund unit, which is taken to be there, does not change.    *)
(***************************************************************************)
EXTENDS Naturals

CONSTANTS
  Instruments,   \* securities that may be in the fund
  Providers,     \* providers of prices, all of them implemented
  InRoubles,     \* those whose prices are in RUB; the others quote in USD
  Symbols,       \* provider symbols
  Values,        \* price of a source, with its time
  Rates,         \* USD/RUB exchange rates, with their time
  Callers,       \* goroutines that change an input or recalculate
  MaxSnapshot,   \* bound on the number of snapshots
  None           \* no row, price, rate, baseline, valuation or call

Source == Instruments \X Providers
Row == [symbol : Symbols, enabled : BOOLEAN]
Price == [symbol : Symbols, value : Values]

\* A baseline in RAM carries the symbol of its source.  `of` is the symbol
\* the provider was asked for, which the program does not keep.
Baseline == [source : Source, symbol : Symbols, of : Symbols]

\* A stored baseline has no symbol.  `behind` records that it was stored
\* while RAM missed a change that was not acknowledged.
StoredBaseline == [source : Source, of : Symbols, behind : BOOLEAN]

Baselines == [Instruments -> Baseline \cup {None}]
Wanted == [source : Source, symbol : Symbols]

\* What one asset adds to the live value: its price, the rate, its baseline.
Part == [price : Price, rate : Rates \cup {None}, baseline : Baseline]
Live == [parts : [Instruments -> Part \cup {None}], rate : Rates \cup {None}]
State == [snapshot : 1..MaxSnapshot, baselines : Baselines, live : Live]

Call == [kind : {"start", "refresh", "recalculate"},
         phase : {"due", "loading", "ready"},
         snapshot : 1..MaxSnapshot,
         wanted : SUBSET Wanted,
         known : Baselines]

ASSUME RoublesAssumption == InRoubles \subseteq Providers
ASSUME MaxSnapshotAssumption == MaxSnapshot \in Nat \ {0}
ASSUME NoneAssumption ==
  /\ None \notin Row
  /\ None \notin Price
  /\ None \notin Values
  /\ None \notin Rates
  /\ None \notin Baseline
  /\ None \notin StoredBaseline
  /\ None \notin Part
  /\ None \notin State
  /\ None \notin Call

VARIABLES
  snapshot,   \* id of the published fund snapshot
  held,       \* the instruments of its assets that have a quantity
  row,        \* instrument_price_sources
  quote,      \* instrument_prices: the last price of each source
  prices,     \* PriceState.Sources of the published state
  polled,     \* sources that were enabled at some time since the start
  rate,       \* USD/RUB in FXState
  stored,     \* fund_snapshot_price_baselines of the published snapshot
  valuation,  \* State.Valuation
  call,       \* per caller: the recalculation it owes or is in
  unacked,    \* history: RAM misses a commit that was not acknowledged
  dropped,    \* history: assets whose stored baseline a symbol change deleted
  missed      \* history: no recalculation succeeded since one was left out

vars == <<snapshot, held, row, quote, prices, polled, rate, stored, valuation, call,
          unacked, dropped, missed>>

NoBaselines == [i \in Instruments |-> None]

Owes(kind) == [kind |-> kind, phase |-> "due", snapshot |-> snapshot,
               wanted |-> {}, known |-> NoBaselines]

\* No request is served and no job runs before Start is done.
Serving == \A c \in Callers : call[c] # None => call[c].kind # "start"

\* LoadBaselines joins the symbol of a baseline from its source.
Labelled(baselines, rows) ==
  [i \in Instruments |->
     IF baselines[i] = None THEN None
     ELSE [source |-> baselines[i].source,
           symbol |-> rows[baselines[i].source].symbol,
           of |-> baselines[i].of]]

-----------------------------------------------------------------------------
(* calculateLiveValuation *)

\* Fault: a source without a price counts with the zero value of the map.
UsableWithoutPrice(b) == b # None /\ (b.source[2] \in InRoubles => rate # None)

\* A baseline counts when its source has a price for its symbol, in USD or
\* convertible to USD.
Usable(b) ==
  /\ b # None
  /\ prices[b.source] # None
  /\ prices[b.source].symbol = b.symbol
  /\ b.source[2] \in InRoubles => rate # None

Calculate(baselines) ==
  [parts |-> [i \in Instruments |->
     IF i \in held /\ Usable(baselines[i])
     THEN [price |-> prices[baselines[i].source],
           rate |-> IF baselines[i].source[2] \in InRoubles THEN rate ELSE None,
           baseline |-> baselines[i]]
     ELSE None],
   rate |-> rate]

-----------------------------------------------------------------------------
(* The inputs, and who recalculates after they change. *)

\* loadCurrentPriceState: the prices of enabled sources.
LoadPriceState(rows, quotes) ==
  [s \in Source |-> IF rows[s] # None /\ rows[s].enabled /\ quotes[s] # None
                    THEN [symbol |-> rows[s].symbol, value |-> quotes[s]]
                    ELSE None]

\* A price sync applies a quote and recalculates.  Its source may have been
\* disabled while the provider was asked.
PriceArrives(c, s) ==
  /\ Serving
  /\ call[c] = None
  /\ s[1] \in held
  /\ s \in polled
  /\ \E v \in Values \ {quote[s]} :
       /\ quote' = [quote EXCEPT ![s] = v]
       /\ prices' = [prices EXCEPT ![s] = [symbol |-> row[s].symbol, value |-> v]]
  /\ call' = [call EXCEPT ![c] = Owes("recalculate")]
  /\ UNCHANGED <<snapshot, held, row, polled, rate, stored, valuation, unacked, dropped, missed>>

\* The quote was stored and reported as failed: the job ends.
PriceArrivesUnacked(s) ==
  /\ Serving
  /\ s[1] \in held
  /\ s \in polled
  /\ \E v \in Values \ {quote[s]} : quote' = [quote EXCEPT ![s] = v]
  /\ unacked' = TRUE
  /\ UNCHANGED <<snapshot, held, row, prices, polled, rate, stored, valuation, call, dropped, missed>>

\* MOEXUSDRUBSync: SyncUSDRUB, then Recalculate.
RateArrives(c) ==
  /\ Serving
  /\ call[c] = None
  /\ rate' \in Rates \ {rate}
  /\ call' = [call EXCEPT ![c] = Owes("recalculate")]
  /\ UNCHANGED <<snapshot, held, row, quote, prices, polled, stored, valuation, unacked, dropped, missed>>

\* A discovery creates a source; it has no price yet.
Discover(s) ==
  /\ Serving
  /\ row[s] = None
  /\ \E symbol \in Symbols : row' = [row EXCEPT ![s] = [symbol |-> symbol, enabled |-> TRUE]]
  /\ polled' = polled \cup {s}
  /\ UNCHANGED <<snapshot, held, quote, prices, rate, stored, valuation, call, unacked, dropped, missed>>

\* SetPriceSource disables the other sources of the instrument when it
\* enables one.
RowsAfter(s, new) ==
  [t \in Source |->
     IF t = s THEN new
     ELSE IF t[1] = s[1] /\ row[t] # None /\ new.enabled
     THEN [row[t] EXCEPT !.enabled = FALSE]
     ELSE row[t]]

\* Fault: a new symbol leaves the baselines of the old one.
NoneDeleted(s, new) == {}

\* The assets whose baseline a new symbol deletes.
Deleted(s, new) ==
  {i \in Instruments : /\ stored[i] # None /\ stored[i].source = s
                       /\ row[s] # None /\ row[s].symbol # new.symbol}

SetSourceRows(s, new) ==
  /\ s[1] \in held
  /\ RowsAfter(s, new) # row
  /\ row' = RowsAfter(s, new)
  /\ stored' = [i \in Instruments |-> IF i \in Deleted(s, new) THEN None ELSE stored[i]]
  /\ quote' = [quote EXCEPT ![s] = IF row[s] # None /\ row[s].symbol # new.symbol
                                  THEN None ELSE @]
  /\ dropped' = dropped \cup Deleted(s, new)
  /\ polled' = IF new.enabled THEN polled \cup {s} ELSE polled

\* The request goes on to Refresh.
SetSource(c, s, new) ==
  /\ Serving
  /\ call[c] = None
  /\ SetSourceRows(s, new)
  /\ prices' = LoadPriceState(row', quote')
  /\ call' = [call EXCEPT ![c] = Owes("refresh")]
  /\ UNCHANGED <<snapshot, held, rate, valuation, unacked, missed>>

\* The commit took effect and was reported as failed: no Refresh.
SetSourceUnacked(s, new) ==
  /\ Serving
  /\ SetSourceRows(s, new)
  /\ unacked' = TRUE
  /\ UNCHANGED <<snapshot, held, prices, rate, valuation, call, missed>>

\* SyncManagementCompany with a new snapshot, whose assets have no baseline
\* yet.  Its job refreshes, as it does without one (HourlyRefresh).
NewSnapshot(c) ==
  /\ Serving
  /\ call[c] = None
  /\ snapshot < MaxSnapshot
  /\ snapshot' = snapshot + 1
  /\ held' \in SUBSET Instruments
  /\ stored' = NoBaselines
  /\ dropped' = {}
  /\ call' = [call EXCEPT ![c] = [Owes("refresh") EXCEPT !.snapshot = snapshot + 1]]
  /\ UNCHANGED <<row, quote, prices, polled, rate, valuation, unacked, missed>>

HourlyRefresh(c) ==
  /\ Serving
  /\ call[c] = None
  /\ call' = [call EXCEPT ![c] = Owes("refresh")]
  /\ UNCHANGED <<snapshot, held, row, quote, prices, polled, rate, stored, valuation, unacked, dropped, missed>>

\* SyncFundUnitMOEXHistory reloads the prices and does not recalculate.
ReloadByHistorySync ==
  /\ Serving
  /\ prices' = LoadPriceState(row, quote)
  /\ prices' # prices
  /\ missed' = TRUE
  /\ UNCHANGED <<snapshot, held, row, quote, polled, rate, stored, valuation, call, unacked, dropped>>

-----------------------------------------------------------------------------
(* Start, Refresh and Recalculate. *)

\* The valuation of the published snapshot, if it has one.
Current == valuation # None /\ valuation.snapshot = snapshot

PricedSources(i) == {s \in Source : s[1] = i /\ prices[s] # None}

\* prepareBaselines ranges over a map: of two priced sources of an instrument
\* either may be the one whose baseline it wants.
Choices ==
  {w \in SUBSET {[source |-> s, symbol |-> prices[s].symbol] :
                   s \in {t \in Source : t[1] \in held /\ prices[t] # None}} :
     \A i \in held : PricedSources(i) # {} =>
       \E x \in w : x.source[1] = i /\ \A y \in w : y.source[1] = i => y = x}

Same(b, x) == b # None /\ b.source = x.source /\ b.symbol = x.symbol

Missing(w, baselines) == {x \in w : ~Same(baselines[x.source[1]], x)}

\* The caller takes the published state.  Its baselines, if it has those of
\* the snapshot, are not kept: RAM has newer ones when the result is applied.
Load(c) ==
  /\ call[c] # None
  /\ call[c].phase = "due"
  /\ \E w \in IF call[c].kind = "recalculate" THEN {{}} ELSE Choices :
       call' = [call EXCEPT ![c].snapshot = snapshot,
                            ![c].phase = IF Current THEN "ready" ELSE "loading",
                            ![c].wanted = IF Current THEN Missing(w, valuation.baselines) ELSE w]
  /\ UNCHANGED <<snapshot, held, row, quote, prices, polled, rate, stored, valuation, unacked, dropped, missed>>

\* loadState.  What it finds for an older snapshot is of no use to anyone.
ReadStored(c) ==
  /\ call[c] # None
  /\ call[c].phase = "loading"
  /\ LET known == IF call[c].snapshot = snapshot THEN Labelled(stored, row) ELSE NoBaselines IN
       call' = [call EXCEPT ![c].phase = "ready",
                            ![c].known = known,
                            ![c].wanted = Missing(@, known)]
  /\ UNCHANGED <<snapshot, held, row, quote, prices, polled, rate, stored, valuation, unacked, dropped, missed>>

\* The baselines an apply starts from.
Base(c) == IF Current THEN valuation.baselines ELSE call[c].known

\* Fault: the symbol is not compared with the current one.
ApplicableAnySymbol(found, base) ==
  {x \in found : /\ x.source[1] \in held
                 /\ prices[x.source] # None
                 /\ ~Same(base[x.source[1]], x)}

\* applicableBaselineChanges: what was found is checked against the state.
Applicable(found, base) ==
  {x \in found : /\ x.source[1] \in held
                 /\ prices[x.source] # None /\ prices[x.source].symbol = x.symbol
                 /\ ~Same(base[x.source[1]], x)}

For(changes, i) == CHOOSE x \in changes : x.source[1] = i
Changes(changes, i) == \E x \in changes : x.source[1] = i

WithChanges(base, changes) ==
  [i \in Instruments |->
     IF Changes(changes, i)
     THEN [source |-> For(changes, i).source, symbol |-> For(changes, i).symbol,
           of |-> For(changes, i).symbol]
     ELSE base[i]]

\* Fault: a baseline of the asset that is there already is kept.
StoredIfNone(changes) ==
  [i \in Instruments |->
     IF Changes(changes, i) /\ stored[i] = None
     THEN [source |-> For(changes, i).source, of |-> For(changes, i).symbol,
           behind |-> unacked]
     ELSE stored[i]]

\* ApplyRefresh, committed: a baseline is updated or inserted.
StoredWith(changes) ==
  [i \in Instruments |->
     IF Changes(changes, i)
     THEN [source |-> For(changes, i).source, of |-> For(changes, i).symbol,
           behind |-> unacked]
     ELSE stored[i]]

Changed(changes) == {i \in Instruments : Changes(changes, i)}

\* sameFundValue, which compares what the assets add to the value.
FundValueDiffers(new) == Current => valuation.live.parts # new.live.parts

\* The value is published when it is new, in the prices or, by what the fund
\* unit is worth in RUB, in the rate.
Differs(new) == FundValueDiffers(new) \/ valuation.live.rate # new.live.rate

\* The providers answer for some of what is wanted.
Found(c) == {Applicable(found, Base(c)) : found \in SUBSET call[c].wanted}

NewState(c, changes) ==
  [snapshot |-> snapshot,
   baselines |-> WithChanges(Base(c), changes),
   live |-> Calculate(WithChanges(Base(c), changes))]

ReadyToApply(c) == call[c] # None /\ call[c].phase = "ready" /\ call[c].snapshot = snapshot

Apply(c) ==
  /\ ReadyToApply(c)
  /\ \E changes \in Found(c) :
       IF changes # {} \/ Differs(NewState(c, changes))
       THEN /\ stored' = StoredWith(changes)
            /\ valuation' = NewState(c, changes)
            /\ dropped' = dropped \ Changed(changes)
       ELSE UNCHANGED <<stored, valuation, dropped>>
  /\ call' = [call EXCEPT ![c] = None]
  /\ missed' = FALSE
  /\ UNCHANGED <<snapshot, held, row, quote, prices, polled, rate, unacked>>

\* The commit took effect and was reported as failed.  Without changes it
\* stored a value point, and without a new fund value there is none.
ApplyUnacked(c) ==
  /\ ReadyToApply(c)
  /\ \E changes \in Found(c) :
       /\ changes # {} \/ FundValueDiffers(NewState(c, changes))
       /\ stored' = StoredWith(changes)
       /\ unacked' = (unacked \/ changes # {})
  /\ call' = [call EXCEPT ![c] = None]
  /\ missed' = TRUE
  /\ UNCHANGED <<snapshot, held, row, quote, prices, polled, rate, valuation, dropped>>

\* The snapshot changed since it was loaded: the job that stored the new one
\* refreshes.
Overtaken(c) ==
  /\ call[c] # None
  /\ call[c].phase = "ready"
  /\ call[c].snapshot # snapshot
  /\ call' = [call EXCEPT ![c] = None]
  /\ UNCHANGED <<snapshot, held, row, quote, prices, polled, rate, stored, valuation, unacked, dropped, missed>>

\* A read, the providers or the transaction fail, or the request is cancelled.
Fail(c) ==
  /\ call[c] # None
  /\ call' = [call EXCEPT ![c] = None]
  /\ missed' = TRUE
  /\ UNCHANGED <<snapshot, held, row, quote, prices, polled, rate, stored, valuation, unacked, dropped>>

\* The process ends and starts again.
Restart ==
  /\ prices' = LoadPriceState(row, quote)
  /\ polled' = {s \in Source : row[s] # None /\ row[s].enabled}
  /\ valuation' = None
  /\ \E c \in Callers : call' = [d \in Callers |-> IF d = c THEN Owes("start") ELSE None]
  /\ unacked' = FALSE
  /\ dropped' = {}
  /\ missed' = FALSE
  /\ UNCHANGED <<snapshot, held, row, quote, rate, stored>>

Init ==
  /\ snapshot = 1
  /\ held \in SUBSET Instruments
  /\ row = [s \in Source |-> None]
  /\ quote = [s \in Source |-> None]
  /\ prices = [s \in Source |-> None]
  /\ polled = {}
  /\ rate = None
  /\ stored = NoBaselines
  /\ valuation = None
  /\ \E c \in Callers : call = [d \in Callers |-> IF d = c THEN Owes("start") ELSE None]
  /\ unacked = FALSE
  /\ dropped = {}
  /\ missed = FALSE

Input(c) ==
  \/ \E s \in Source : PriceArrives(c, s)
  \/ RateArrives(c)
  \/ \E s \in Source, new \in Row : SetSource(c, s, new)
  \/ NewSnapshot(c)
  \/ HourlyRefresh(c)

Step(c) ==
  \/ Load(c)
  \/ ReadStored(c)
  \/ Apply(c)
  \/ ApplyUnacked(c)
  \/ Overtaken(c)
  \/ Fail(c)

Next ==
  \/ \E c \in Callers : Input(c) \/ Step(c)
  \/ \E s \in Source : Discover(s) \/ PriceArrivesUnacked(s)
  \/ \E s \in Source, new \in Row : SetSourceUnacked(s, new)
  \/ ReloadByHistorySync
  \/ Restart

Spec == Init /\ [][Next]_vars

-----------------------------------------------------------------------------
TypeOK ==
  /\ snapshot \in 1..MaxSnapshot
  /\ held \in SUBSET Instruments
  /\ row \in [Source -> Row \cup {None}]
  /\ quote \in [Source -> Values \cup {None}]
  /\ prices \in [Source -> Price \cup {None}]
  /\ polled \in SUBSET Source
  /\ rate \in Rates \cup {None}
  /\ stored \in [Instruments -> StoredBaseline \cup {None}]
  /\ valuation \in State \cup {None}
  /\ call \in [Callers -> Call \cup {None}]
  /\ unacked \in BOOLEAN
  /\ dropped \in SUBSET Instruments
  /\ missed \in BOOLEAN

\* A stored baseline is a price of the symbol its source has now, which the
\* table does not say: a symbol may change at any point of a refresh.
StoredForSymbol ==
  \A i \in Instruments :
    stored[i] # None /\ ~stored[i].behind => stored[i].of = row[stored[i].source].symbol

\* The baselines in RAM are those a restart would load, whatever refreshes,
\* source changes and new snapshots overlap, except for the assets whose
\* stored baseline was deleted.
BaselinesStoredUnlessDropped ==
  Current /\ ~unacked => \A i \in Instruments \ dropped :
    valuation.baselines[i] = Labelled(stored, row)[i]

\* A caller is going to apply to the published snapshot.
Owed == \E c \in Callers :
  call[c] # None /\ (call[c].phase = "due" \/ call[c].snapshot = snapshot)

\* The published value is what its inputs give now, or a recalculation is on
\* its way, or the last one that was due failed.
LiveCurrentUnlessOwed ==
  Owed \/ missed \/ (Current /\ valuation.live = Calculate(valuation.baselines))

\* The schema says that stored baselines let the live value survive a restart
\* without reconstructing old quotes: what it can use is stored.
LiveSurvivesRestart ==
  Current /\ ~unacked => \A i \in held :
    Usable(valuation.baselines[i]) => stored[i] # None
=============================================================================
