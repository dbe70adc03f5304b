------------------------------ MODULE MCMarket -------------------------------
(***************************************************************************)
(* The parts of the program that bring in market data, for TLC: boards of  *)
(* the exchange, quotes, intraday points, daily history, FX rate and runs  *)
(* of the Yahoo provider.                                                  *)
(*                                                                         *)
(* They share no state, so a behaviour is one of them, chosen at the       *)
(* start, while the others stay in an initial state: interleaving them     *)
(* would multiply the states and add nothing.                              *)
(***************************************************************************)
EXTENDS MoexBoards, TLC

CONSTANTS
  Value, DayLen, MaxTime,                            \* MoexQuotes, FXRates
  Retention, MaxClock,                               \* PricePoints
  LastDate, PageSize, MaxPages, Absent, NoClose,     \* DailyHistory
  Symbol, Other, Proxy, Invalid, Direct,             \* YahooRuns
  BatchSize, MaxItems, MaxList, MaxAsked, MaxAnswer

VARIABLES
  part,
  now, market, prev, quoteStored, misdated, current,
  clock, pointsStored, pointsRAM, pointsSync, pointsUnacked,
  dailyToday, candles, late, dailyStored, dailyRAM, dailySync, dailyUnacked,
  fxMarket, fxStored, fxRAM, fxSync, fxUnacked,
  phase, kind, mode, asked, handled, got, proxyURLs, index, working, alive,
  failures, answered, gaveUp

Quotes == INSTANCE MoexQuotes WITH stored <- quoteStored

Points == INSTANCE PricePoints WITH
  stored <- pointsStored, ram <- pointsRAM, sync <- pointsSync, unacked <- pointsUnacked

History == INSTANCE DailyHistory WITH
  today <- dailyToday, stored <- dailyStored, ram <- dailyRAM, sync <- dailySync,
  unacked <- dailyUnacked

Rates == INSTANCE FXRates WITH
  market <- fxMarket, stored <- fxStored, ram <- fxRAM, sync <- fxSync, unacked <- fxUnacked

Runs == INSTANCE YahooRuns

ASSUME PartsAssumption ==
  /\ Quotes!BoundsAssumption /\ Quotes!NoneAssumption
  /\ Points!BoundsAssumption /\ Points!NoneAssumption
  /\ History!BoundsAssumption /\ History!MarksAssumption /\ History!NoneAssumption
  /\ Rates!MaxTimeAssumption /\ Rates!NoneAssumption
  /\ Runs!BoundsAssumption /\ Runs!NamesAssumption

quotesVars == <<now, market, prev, quoteStored, misdated, current>>
pointsVars == <<clock, pointsStored, pointsRAM, pointsSync, pointsUnacked>>
historyVars == <<dailyToday, candles, late, dailyStored, dailyRAM, dailySync, dailyUnacked>>
ratesVars == <<fxMarket, fxStored, fxRAM, fxSync, fxUnacked>>
runsVars == <<phase, kind, mode, asked, handled, got, proxyURLs, index, working, alive,
              failures, answered, gaveUp>>
marketVars == <<part, vars, quotesVars, pointsVars, historyVars, ratesVars, runsVars>>

MarketInit ==
  /\ part \in {"boards", "quotes", "points", "history", "rates", "runs"}
  /\ Init
  /\ Quotes!Init
  /\ Points!Init
  /\ History!Init
  /\ Rates!Init
  /\ Runs!Init
  /\ part # "boards" => quoted = {} /\ \A b \in Boards : listing[b] = "untraded"
  /\ part # "runs" => kind = "prices" /\ mode = "direct" /\ working = {}

MarketNext ==
  /\ UNCHANGED part
  /\ \/ /\ part = "boards" /\ Next
        /\ UNCHANGED <<quotesVars, pointsVars, historyVars, ratesVars, runsVars>>
     \/ /\ part = "quotes" /\ Quotes!Next
        /\ UNCHANGED <<vars, pointsVars, historyVars, ratesVars, runsVars>>
     \/ /\ part = "points" /\ Points!Next
        /\ UNCHANGED <<vars, quotesVars, historyVars, ratesVars, runsVars>>
     \/ /\ part = "history" /\ History!Next
        /\ UNCHANGED <<vars, quotesVars, pointsVars, ratesVars, runsVars>>
     \/ /\ part = "rates" /\ Rates!Next
        /\ UNCHANGED <<vars, quotesVars, pointsVars, historyVars, runsVars>>
     \/ /\ part = "runs" /\ Runs!Next
        /\ UNCHANGED <<vars, quotesVars, pointsVars, historyVars, ratesVars>>

MarketSpec == MarketInit /\ [][MarketNext]_marketVars

\* Prices and boards are only compared.
Symmetry == Permutations(Value) \cup Permutations(Boards)

-----------------------------------------------------------------------------
\* The type invariants of the parts.
TypesOK ==
  /\ TypeOK
  /\ Quotes!TypeOK
  /\ Points!TypeOK
  /\ History!TypeOK
  /\ Rates!TypeOK
  /\ Runs!TypeOK

\* What RAM serves is what the tables hold, unless a commit was not
\* acknowledged: the daily history, the USD/RUB rate and the chart of the last
\* 48 hours, through every reload, cut and restart.
ServedIsDurable == History!HistoryIsDurable /\ Rates!RateIsDurable /\ Points!ChartServed

\* Paging through a history that changes meanwhile leaves no hole in it.
NoGapUnlessLate == History!NoGapUnlessLate

\* The last trade that was asked for is not taken for stale, whatever fields of
\* its time the exchange left out.
LastTradeStored == Quotes!LastTradeStored

\* Neither a previous close nor an answer that was overtaken brings an older
\* trade or rate back.
NoPriceGoesBack == Quotes!TradesNeverRegress /\ Rates!RateNeverRegresses

\* A request of Yahoo that failed is not taken for a symbol without a price.
MissingOnlyIfAnswered == Runs!MissingOnlyIfAnswered

\* A run of Yahoo gives up only when each of its proxies has failed.
GivesUpOnlyWithoutProxy == Runs!GivesUpOnlyWithoutProxy
=============================================================================
