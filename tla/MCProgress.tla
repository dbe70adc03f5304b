----------------------------- MODULE MCProgress ------------------------------
(***************************************************************************)
(* What has to happen in the end, for TLC: the events of jobs, the life of *)
(* the process, SetPriceSource and discoveries, calls of the exchange and  *)
(* runs of the Yahoo provider.                                             *)
(*                                                                         *)
(* A behaviour is one of these parts, chosen at the start, while the       *)
(* others stay in an initial state: they share no state here.              *)
(***************************************************************************)
EXTENDS JobEvents, Sequences, TLC

CONSTANTS
  price, rate, jobOfPrices, admin, jobOfRates,       \* JobEvents
  Scheduled, Manual,                                 \* Lifecycle
  Instruments, Discoverable, Providers, Pollable,    \* PriceSources
  Synced, Discovered, Symbols, Values, MaxTime,
  Boards, Quoting, Daily, LastDay,                   \* MoexBoards
  Symbol, Other, Proxy, Invalid, Direct,             \* YahooRuns
  BatchSize, MaxItems, MaxList, MaxAsked, MaxAnswer,
  None

MCTarget == jobOfPrices :> price @@ admin :> price @@ jobOfRates :> rate
MCParts == <<"fund", "prices", "fx">>

VARIABLES
  part,
  main, loaded, signalled, accepting, cron, hub, pool, lifeRun, lifeRow, failed, unheard,
  sourceRow, sourcePrice, composition, cache, sync, discovery, adminCall, unacked, raced,
  sourcesOvertaken,
  today, listing, quoted, boardCache, boardCall, seen,
  phase, kind, mode, asked, handled, got, proxyURLs, index, working, alive,
  failures, answered, gaveUp

Life == INSTANCE Lifecycle WITH Parts <- MCParts, run <- lifeRun, row <- lifeRow

Sources == INSTANCE PriceSources WITH
  row <- sourceRow, price <- sourcePrice, admin <- adminCall, overtaken <- sourcesOvertaken

Calls == INSTANCE MoexBoards WITH cache <- boardCache, call <- boardCall

Runs == INSTANCE YahooRuns

ASSUME LifeAssumption == Life!WorkersAssumption /\ Life!PartsAssumption

lifeVars == <<main, loaded, signalled, accepting, cron, hub, pool, lifeRun, lifeRow,
              failed, unheard>>
sourcesVars == <<sourceRow, sourcePrice, composition, cache, sync, discovery, adminCall,
                 unacked, raced, sourcesOvertaken>>
callsVars == <<today, listing, quoted, boardCache, boardCall, seen>>
runsVars == <<phase, kind, mode, asked, handled, got, proxyURLs, index, working, alive,
              failures, answered, gaveUp>>
progressVars == <<part, vars, lifeVars, sourcesVars, callsVars, runsVars>>

ProgressInit ==
  /\ part \in {"events", "life", "sources", "calls", "runs"}
  /\ Init
  /\ Life!Init
  /\ Sources!Init
  /\ Calls!Init
  /\ Runs!Init
  /\ part # "sources" => composition = {}
  /\ part # "calls" => quoted = {} /\ \A b \in Boards : listing[b] = "untraded"
  /\ part # "runs" => kind = "prices" /\ mode = "direct" /\ working = {}

ProgressNext ==
  /\ UNCHANGED part
  /\ \/ /\ part = "events" /\ Next
        /\ UNCHANGED <<lifeVars, sourcesVars, callsVars, runsVars>>
     \/ /\ part = "life" /\ Life!Next
        /\ UNCHANGED <<vars, sourcesVars, callsVars, runsVars>>
     \/ /\ part = "sources" /\ Sources!Next
        /\ UNCHANGED <<vars, lifeVars, callsVars, runsVars>>
     \/ /\ part = "calls" /\ Calls!Next
        /\ UNCHANGED <<vars, lifeVars, sourcesVars, runsVars>>
     \/ /\ part = "runs" /\ Runs!Next
        /\ UNCHANGED <<vars, lifeVars, sourcesVars, callsVars>>

ProgressSteps == ProgressInit /\ [][ProgressNext]_progressVars

\* The fairness of each part.  In the initial state only main could take a
\* fair step, so nothing is asked of the parts a behaviour leaves alone.
ProgressFairness ==
  /\ Fairness
  /\ WF_lifeVars(part = "life" /\ Life!Main)
  /\ WF_lifeVars(Life!Shutdown)
  /\ \A w \in Scheduled : WF_lifeVars(Life!Enter(w))
  /\ \A w \in Scheduled \cup Manual : WF_lifeVars(Life!Step(w))
  /\ Sources!Fairness
  /\ Calls!Fairness
  /\ WF_runsVars(Runs!Step)

ProgressSpec == ProgressSteps /\ ProgressFairness

-----------------------------------------------------------------------------
\* A scheduled run ends in its row and before viewers are disconnected.
ScheduledRunsEnd == Life!ScheduledRunsEnd

\* What has begun ends: a signal ends the process whatever is running, a call
\* of the exchange ends after one more attempt at most, and a run of Yahoo ends
\* however its proxies come and go.
WhatBeganEnds == Life!ProcessEnds /\ Calls!CallsEnd /\ Runs!RunsEnd

\* Every SetPriceSource gives the write lock back, although its insert may have
\* to wait for a discovery's transaction.
WriteLockReleased == Sources!WriteLockReleased
=============================================================================
