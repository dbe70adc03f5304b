----------------------------- MODULE MoexQuotes ------------------------------
(***************************************************************************)
(* The time a quote of the exchange is priced at (internal/providers/moex) *)
(* and what becomes of it (applyCurrentPriceQuote).  The exchange answers  *)
(* with the last trade of the session, whose date and time may be missing, *)
(* and with the previous close, which has only a date.  Quotes that are    *)
(* older than the stored price are not taken, so the time decides whether  *)
(* a trade is ever seen.                                                   *)
(***************************************************************************)
EXTENDS Integers

CONSTANTS
  Value,    \* price of a trade
  DayLen,   \* moments of a day
  MaxTime,  \* bound on the clock
  None      \* no trade, no price

Time == 0..MaxTime
Trade == [value : Value, at : Time]

\* The stored price, and, as history, the trade it is of.
Stored == [value : Value, priced : Nat, trade : Time]

BoundsAssumption == DayLen \in Nat \ {0} /\ MaxTime \in Nat
NoneAssumption == None \notin Trade \cup Stored

VARIABLES
  now,       \* the clock of the exchange, SYSTIME
  market,    \* the last trade of the session: LAST with its date and time
  prev,      \* the last trade of the session before: PREVPRICE, PREVDATE
  stored,    \* instrument_prices of the source
  misdated,  \* history: a trade was stored with the date of a later day
  current    \* history: the last trade was asked for, and there was none since

vars == <<now, market, prev, stored, misdated, current>>

DayStart(time) == time - (time % DayLen)

Init ==
  /\ now = 0
  /\ market = None
  /\ prev = None
  /\ stored = None
  /\ misdated = FALSE
  /\ current = FALSE

Tick ==
  /\ now < MaxTime
  /\ now' = now + 1
  /\ UNCHANGED <<market, prev, stored, misdated, current>>

\* A trade, on a day on which the session was reset if there was one before;
\* there may be two at the same moment.
MarketTrades ==
  /\ market # None => DayStart(market.at) = DayStart(now)
  /\ \E v \in Value : market' = [value |-> v, at |-> now]
  /\ current' = FALSE
  /\ UNCHANGED <<now, prev, stored, misdated>>

\* At some time of a later day the exchange begins a new session.
SessionReset ==
  /\ market # None
  /\ DayStart(market.at) # DayStart(now)
  /\ prev' = market
  /\ market' = None
  /\ current' = FALSE
  /\ UNCHANGED <<now, stored, misdated>>

\* currentQuoteTime: the fields of the row that are filled in.  UPDATETIME is
\* a time of the day of the trade, at the trade or after it.
LastTimes(fields) ==
  IF {"TRADEDATE", "TIME"} \subseteq fields THEN {market.at}
  ELSE IF {"SYSTIME", "TIME"} \subseteq fields THEN {DayStart(now) + (market.at % DayLen)}
  ELSE IF {"TRADEDATE", "UPDATETIME"} \subseteq fields
       THEN {u \in market.at..now : DayStart(u) = DayStart(market.at)}
  ELSE {}

\* previousQuote: the date at midnight.
PreviousTime == DayStart(prev.at)

\* fetchQuote: the last trade, or else the previous close.
Quotes(fields) ==
  LET last == IF market = None THEN {}
              ELSE {[value |-> market.value, priced |-> p, trade |-> market.at] :
                      p \in LastTimes(fields)}
      previous == IF prev = None THEN {}
                  ELSE {[value |-> prev.value, priced |-> PreviousTime, trade |-> prev.at]}
  IN IF last # {} THEN last ELSE previous

\* Fault: a quote of the same moment is taken for stale.
AcceptsLater(q) == stored # None => q.priced > stored.priced

\* Fault: the newest answer is taken.
AcceptsAny(q) == stored # None => <<q.priced, q.value>> # <<stored.priced, stored.value>>

\* applyCurrentPriceQuote: neither stale nor unchanged.
Accepts(q) ==
  stored # None => q.priced >= stored.priced
                   /\ <<q.priced, q.value>> # <<stored.priced, stored.value>>

\* SyncMOEX for the source: fetchQuote, then applyCurrentPriceQuote.
SyncPrice ==
  /\ \E fields \in SUBSET {"TRADEDATE", "TIME", "SYSTIME", "UPDATETIME"} :
       \E q \in Quotes(fields) :
         /\ IF Accepts(q)
            THEN /\ stored' = q
                 /\ misdated' = (DayStart(q.priced) > DayStart(q.trade))
            ELSE UNCHANGED <<stored, misdated>>
         /\ current' = (market # None /\ q.trade = market.at)
  /\ UNCHANGED <<now, market, prev>>

Next ==
  \/ Tick
  \/ MarketTrades
  \/ SessionReset
  \/ SyncPrice

Spec == Init /\ [][Next]_vars

-----------------------------------------------------------------------------
TypeOK ==
  /\ now \in Time
  /\ market \in Trade \cup {None}
  /\ prev \in Trade \cup {None}
  /\ stored \in Stored \cup {None}
  /\ misdated \in BOOLEAN
  /\ current \in BOOLEAN

\* When the last trade was asked for, its price is what is stored: whatever
\* fields the exchange left out, and whatever was stored before, it is not
\* taken for stale, unless the stored trade has the date of a later day.
LastTradeStored == current /\ ~misdated => stored.value = market.value

\* The stored price never goes back to an older trade.
TradesNeverRegress ==
  [][stored # None => stored'.trade >= stored.trade]_vars
=============================================================================
