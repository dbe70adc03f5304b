------------------------------ MODULE YahooRuns ------------------------------
(***************************************************************************)
(* A run of the Yahoo provider (internal/providers/yahoo): current prices  *)
(* in batches, the symbols of ISINs and daily prices one by one, through   *)
(* one client or through the proxies of a list loaded for the run.  The    *)
(* run takes the next proxy when one fails and never goes back, batches    *)
(* and symbols share the proxy it is at.  Runs share nothing (runProvider  *)
(* copies the provider), so there is one at a time here.                   *)
(***************************************************************************)
EXTENDS Integers, Sequences, FiniteSets, SequencesExt, FiniteSetsExt

CONSTANTS
  Symbol,     \* symbols, or the ISINs that are resolved to them
  Other,      \* a symbol that nobody asked for
  Proxy,      \* proxies with a valid URL
  Invalid,    \* an entry of the list that is no URL
  Direct,     \* the only client of the modes "disabled" and "single"
  BatchSize,  \* defaultBatchSize
  MaxItems,   \* maxProxyListItems
  MaxList,    \* bound on the entries of the list
  MaxAsked,   \* bound on the symbols of a run
  MaxAnswer   \* bound on the quotes of an answer

BoundsAssumption ==
  /\ BatchSize \in Nat \ {0}
  /\ {MaxItems, MaxList, MaxAsked, MaxAnswer} \subseteq Nat
NamesAssumption == Other \notin Symbol /\ {Invalid, Direct} \cap Proxy = {}

\* FetchPrices, ResolveSymbols, FetchDailyPrices.
Kind == {"prices", "symbols", "daily"}
Mode == {"direct", "list"}
\* What a run has for a symbol: a price of no use is listed as invalid.
Outcome == {"none", "valid", "invalid", "missing", "issue"}

Client == Proxy \cup {Direct}

VARIABLES
  phase,     \* "idle", "list", "ask", "done", "failed"
  kind, mode,
  asked,     \* symbols of the run, in order
  handled,   \* how many of them have had their request
  got,       \* what there is for each
  proxyURLs, \* the list of the run, cleaned
  index,     \* failoverHTTPClient.index, from 1
  working,   \* clients that work now
  alive,     \* history: clients that have worked since the run began
  failures,  \* history: clients that failed in the run
  answered,  \* history: symbols whose request had a good answer
  gaveUp     \* history: a request failed for want of a client

run == <<kind, mode, asked>>
history == <<alive, failures, answered, gaveUp>>
vars == <<phase, run, handled, got, proxyURLs, index, working, history>>

Nothing == [s \in Symbol |-> "none"]
Asked == SeqOf(Symbol, MaxAsked) \ {<<>>}

Init ==
  /\ phase = "idle"
  /\ kind \in Kind
  /\ mode \in Mode
  /\ asked = <<>>
  /\ handled = 0
  /\ got = Nothing
  /\ proxyURLs = <<>>
  /\ index = 1
  /\ working \in SUBSET Client
  /\ alive = {}
  /\ failures = {}
  /\ answered = {}
  /\ gaveUp = FALSE

\* FetchPrices is given a symbol for each source, and may have it twice.
Begin ==
  /\ phase \in {"idle", "done", "failed"}
  /\ kind' \in Kind
  /\ asked' \in Asked
  /\ kind' # "prices" => IsInjective(asked')
  /\ phase' = IF mode = "list" THEN "list" ELSE "ask"
  /\ handled' = 0
  /\ got' = Nothing
  /\ proxyURLs' = IF mode = "list" THEN <<>> ELSE <<Direct>>
  /\ index' = 1
  /\ alive' = working
  /\ failures' = {}
  /\ answered' = {}
  /\ gaveUp' = FALSE
  /\ UNCHANGED <<mode, working>>

\* A client stops or starts working.
ClientChanges ==
  /\ \E c \in Client :
       working' = IF c \in working THEN working \ {c} ELSE working \cup {c}
  /\ alive' = alive \cap working'
  /\ UNCHANGED <<phase, run, handled, got, proxyURLs, index, failures, answered, gaveUp>>

\* loadProxyList: the entries that are URLs, each where it comes first.
Cleaned(values) ==
  LET firsts == {n \in DOMAIN values :
                   values[n] # Invalid /\ \A m \in 1..(n - 1) : values[m] # values[n]}
      Nth(k) == CHOOSE n \in firsts : Cardinality({m \in firsts : m < n}) = k - 1
  IN [k \in 1..Cardinality(firsts) |-> values[Nth(k)]]

ListLoads ==
  /\ phase = "list"
  /\ \E values \in SeqOf(Proxy \cup {Invalid}, MaxList) :
       LET list == Cleaned(values) IN
       IF Len(list) \in 1..MaxItems
       THEN proxyURLs' = list /\ phase' = "ask"
       ELSE phase' = "failed" /\ UNCHANGED proxyURLs
  /\ UNCHANGED <<run, handled, got, index, working, history>>

\* No list: the request fails, or its answer is not a list.  Or the run is
\* cancelled: the list, a request, a delay between two requests.
RunStops ==
  /\ phase \in {"list", "ask"}
  /\ phase' = "failed"
  /\ UNCHANGED <<run, handled, got, proxyURLs, index, working, history>>

-----------------------------------------------------------------------------
(* Requests.                                                                 *)

\* slices.Chunk: the symbols of the next request.
Batch ==
  LET size == IF kind = "prices" THEN BatchSize ELSE 1 IN
  SubSeq(asked, handled + 1, IF handled + size > Len(asked) THEN Len(asked) ELSE handled + size)

\* fetch ends with what no batch had.
Ended(g) ==
  [s \in Symbol |-> IF kind = "prices" /\ g[s] = "none" /\ s \in ToSet(asked)
                    THEN "missing" ELSE g[s]]

\* The request is over: the next, or the end of the run.
Advance(g) ==
  LET count == handled + Len(Batch) IN
  /\ handled' = count
  /\ phase' = IF count = Len(asked) THEN "done" ELSE "ask"
  /\ got' = IF count = Len(asked) THEN Ended(g) ELSE g

\* Fault: a request that fails leaves its symbols out of the prices.
FailsLeavingOut == Advance(got)

\* A request failed: only daily prices go on with the next symbol.
Fails ==
  IF kind = "daily" THEN Advance([got EXCEPT ![asked[handled + 1]] = "issue"])
  ELSE phase' = "failed" /\ UNCHANGED <<handled, got>>

\* The next proxy, and never one before it.
IndexAfterFailure == index + 1

\* failoverHTTPClient.Do, or the only client: the client cannot be made, does
\* not answer, or answers with a status of proxyFailoverStatus.
ClientFails ==
  /\ phase = "ask"
  /\ index <= Len(proxyURLs)
  /\ proxyURLs[index] \notin working
  /\ failures' = failures \cup {proxyURLs[index]}
  /\ IF mode = "list"
     THEN index' = IndexAfterFailure /\ UNCHANGED <<phase, handled, got>>
     ELSE Fails /\ UNCHANGED index
  /\ UNCHANGED <<run, proxyURLs, working, alive, answered, gaveUp>>

\* Do with every proxy of the list behind it.
Exhausted ==
  /\ phase = "ask"
  /\ index > Len(proxyURLs)
  /\ Fails
  /\ gaveUp' = TRUE
  /\ UNCHANGED <<run, proxyURLs, index, working, alive, failures, answered>>

Reaches == phase = "ask" /\ index <= Len(proxyURLs) /\ proxyURLs[index] \in working

\* Fault: a new request begins with the next proxy.
IndexMovesOn == index + 1

\* The proxy that answered serves the next request.
IndexAfterAnswer == index

\* Another status, or a body that cannot be read or is no JSON of Yahoo's: the
\* proxy is kept and the request fails.
BadAnswer ==
  /\ Reaches
  /\ Fails
  /\ index' = IndexAfterAnswer
  /\ UNCHANGED <<run, proxyURLs, working, history>>

\* fetch: the first quote of a symbol that the run asked for, in this batch or
\* in another.
Kept(items) ==
  [s \in Symbol |->
     LET quotes == {n \in DOMAIN items : items[n].symbol = s}
     IN IF s \in ToSet(asked) /\ got[s] = "none" /\ quotes # {}
        THEN items[Min(quotes)].outcome ELSE got[s]]

Quote == [symbol : Symbol \cup {Other}, outcome : {"valid", "invalid"}]

PricesAnswered ==
  /\ Reaches
  /\ kind = "prices"
  /\ \E items \in SeqOf(Quote, MaxAnswer) : Advance(Kept(items))
  /\ answered' = answered \cup ToSet(Batch)
  /\ index' = IndexAfterAnswer
  /\ UNCHANGED <<run, proxyURLs, working, alive, failures, gaveUp>>

\* resolveSymbols, fetchDailyPrice: one symbol, with or without a result.
SymbolAnswered ==
  /\ Reaches
  /\ kind # "prices"
  /\ \E outcome \in {"valid", "missing"} :
       Advance([got EXCEPT ![asked[handled + 1]] = outcome])
  /\ answered' = answered \cup ToSet(Batch)
  /\ index' = IndexAfterAnswer
  /\ UNCHANGED <<run, proxyURLs, working, alive, failures, gaveUp>>

Step ==
  \/ ListLoads
  \/ ClientFails
  \/ Exhausted
  \/ BadAnswer
  \/ PricesAnswered
  \/ SymbolAnswered

Next == Begin \/ ClientChanges \/ RunStops \/ Step

Spec == Init /\ [][Next]_vars

\* A run is one goroutine, its requests have timeouts; nothing is assumed of
\* the clients, nor that a run is ever cancelled.
FairSpec == Spec /\ WF_vars(Step)

-----------------------------------------------------------------------------
TypeOK ==
  /\ phase \in {"idle", "list", "ask", "done", "failed"}
  /\ kind \in Kind
  /\ mode \in Mode
  /\ asked \in SeqOf(Symbol, MaxAsked)
  /\ handled \in 0..Len(asked)
  /\ got \in [Symbol -> Outcome]
  /\ proxyURLs \in Seq(Client)
  /\ index \in 1..(Len(proxyURLs) + 1)
  /\ working \subseteq Client
  /\ alive \subseteq working
  /\ failures \subseteq Client
  /\ answered \subseteq Symbol
  /\ gaveUp \in BOOLEAN

\* A symbol is reported missing only when Yahoo answered its request: a request
\* that failed makes an issue of its symbol or fails the run, and is never
\* mistaken for the symbol having no price.
MissingOnlyIfAnswered ==
  phase = "done" =>
    \A s \in ToSet(asked) :
      /\ got[s] # "none"
      /\ got[s] = "missing" => s \in answered
      /\ got[s] = "issue" => s \notin answered

\* A run gives up a request only when each proxy of its list has failed it at
\* some time: with one that worked all along every request gets through.
GivesUpOnlyWithoutProxy == gaveUp => alive \cap ToSet(proxyURLs) = {}

\* Every run ends, however its proxies come and go.
RunsEnd == phase = "list" \/ phase = "ask" ~> phase \in {"done", "failed"}
=============================================================================
