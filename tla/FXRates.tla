------------------------------- MODULE FXRates -------------------------------
(***************************************************************************)
(* The USD/RUB rate (internal/fx): a job asks the exchange for it every    *)
(* minute, stores it unless it is stale or known, and publishes all stored *)
(* rates in the same write lock.  The live valuation and the views read it *)
(* from RAM.  Only one run of the job exists at a time (Scheduler).        *)
(***************************************************************************)
EXTENDS Naturals

CONSTANTS
  Value,    \* USD/RUB
  MaxTime,  \* bound on the times of rates
  None      \* no rate, no run of the job

Time == 0..MaxTime
Rate == [value : Value, priced : Time]

MaxTimeAssumption == MaxTime \in Nat
NoneAssumption == None \notin Rate

VARIABLES
  market,   \* the last rate of the exchange
  stored,   \* fx_rates
  ram,      \* FXState.Rates
  sync,     \* the answer that waits for the write lock
  unacked   \* history: RAM misses a rate that was stored and reported as failed

vars == <<market, stored, ram, sync, unacked>>

Init ==
  /\ market = None
  /\ stored = None
  /\ ram = None
  /\ sync = None
  /\ unacked = FALSE

\* A trade, perhaps at the time of the last one.
MarketTrades ==
  /\ \E r \in Rate :
       /\ market # None => r.priced >= market.priced /\ r # market
       /\ market' = r
  /\ UNCHANGED <<stored, ram, sync, unacked>>

\* The last rate, or when the answer has no usable trade the previous close.
Fetch ==
  /\ sync = None
  /\ market # None
  /\ \/ sync' = market
     \/ \E r \in Rate : r.priced < market.priced /\ sync' = r
  /\ UNCHANGED <<market, stored, ram, unacked>>

\* A request or a transaction fails.
SyncFails ==
  /\ sync # None
  /\ sync' = None
  /\ UNCHANGED <<market, stored, ram, unacked>>

\* ApplyRate: neither stale nor unchanged.
Taken(r) == stored # None => r.priced >= stored.priced /\ r # stored

\* loadFXState in the transaction, if the rate was taken.
Published(r) == IF Taken(r) THEN r ELSE ram

Apply ==
  /\ sync # None
  /\ stored' = IF Taken(sync) THEN sync ELSE stored
  /\ ram' = Published(sync)
  /\ unacked' = (unacked /\ ram' # stored')
  /\ sync' = None
  /\ UNCHANGED market

\* The commit takes effect and its answer is lost.
ApplyUnacked ==
  /\ sync # None
  /\ Taken(sync)
  /\ stored' = sync
  /\ unacked' = TRUE
  /\ sync' = None
  /\ UNCHANGED <<market, ram>>

\* Start loads what is stored.
Restart ==
  /\ ram' = stored
  /\ sync' = None
  /\ unacked' = FALSE
  /\ UNCHANGED <<market, stored>>

Next ==
  \/ MarketTrades
  \/ Fetch
  \/ SyncFails
  \/ Apply
  \/ ApplyUnacked
  \/ Restart

Spec == Init /\ [][Next]_vars

-----------------------------------------------------------------------------
TypeOK ==
  /\ {market, stored, ram, sync} \subseteq Rate \cup {None}
  /\ unacked \in BOOLEAN

\* RAM has the rate that a restart would load, unless the commit that stored
\* it was not acknowledged; the same rate asked for again does not repair it.
RateIsDurable == ~unacked => ram = stored

\* Neither a restart nor an answer that was overtaken brings an older rate back.
RateNeverRegresses ==
  [][/\ stored # None => stored'.priced >= stored.priced
     /\ ram # None => ram' # None /\ ram'.priced >= ram.priced]_vars
=============================================================================
