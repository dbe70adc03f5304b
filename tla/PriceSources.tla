---------------------------- MODULE PriceSources ----------------------------
(***************************************************************************)
(* The price-source table, the current prices stored behind it and their   *)
(* copy in RAM (internal/prices, internal/appstate).                       *)
(*                                                                         *)
(* Three kinds of actors work on them concurrently:                        *)
(*   - the price syncs, one per provider, which read the enabled sources,  *)
(*     ask the provider with no lock held and apply the answer later;      *)
(*   - the source discoveries, one per provider, whose transaction runs    *)
(*     outside the application state's write lock;                         *)
(*   - the administrator's SetPriceSource, which holds that lock.          *)
(*                                                                         *)
(* The database is `row` (instrument_price_sources) and `price`            *)
(* (instrument_prices); the RAM state is `composition` (the instruments of *)
(* the current fund snapshot) and `cache` (PriceState.Sources).  Sources   *)
(* are never deleted and are unique per instrument and provider, so that   *)
(* pair stands for the row's id.  Intraday points and daily series hang    *)
(* off the same ids and are left out here.                                 *)
(***************************************************************************)
EXTENDS Naturals, FiniteSets

CONSTANTS
  Instruments,   \* securities that may be in the fund
  Discoverable,  \* those whose type is equity or depositary_receipt
  Providers,     \* every provider a source may name
  Pollable,      \* the providers with an implementation
  Synced,        \* the pollable providers whose price sync is registered
  Discovered,    \* the pollable providers whose discovery is registered
  Symbols,       \* provider symbols
  Values,        \* unit value and currency of a quote, as one token
  MaxTime,       \* bound: PricedAt is in 1..MaxTime
  None           \* no row, no price, no call

Key == Instruments \X Providers
Row == [symbol : Symbols, enabled : BOOLEAN]

\* A quote remembers the symbol it was asked for; the program does not.
Quote == [of : Symbols, value : Values, at : 1..MaxTime]

\* appstate.InstrumentPrice: a quote under the symbol its source row has.
CachedPrice == [symbol : Symbols, quote : Quote]

Item == [key : Key, symbol : Symbols]
Answer == [key : Key, quote : Quote]
Mapping == [instrument : Instruments, symbol : Symbols]

Sync == [phase : {"idle", "loaded", "fetching", "fetched"},
         members : SUBSET Instruments,
         items : SUBSET Item,
         answers : SUBSET Answer]

Discovery == [phase : {"idle", "loaded", "resolving", "creating"},
              members : SUBSET Instruments,
              todo : SUBSET Mapping,
              item : Mapping \cup {None},
              inserted : SUBSET Mapping]

AdminCall == [instrument : Instruments, provider : Providers,
              symbol : Symbols, enabled : BOOLEAN,
              seen : [Providers -> Row \cup {None}]]

ASSUME ProvidersAssumption ==
  /\ Pollable \subseteq Providers
  /\ Synced \subseteq Pollable
  /\ Discovered \subseteq Pollable
ASSUME MaxTimeAssumption == MaxTime \in Nat
ASSUME NoneAssumption ==
  /\ None \notin Row
  /\ None \notin Quote
  /\ None \notin CachedPrice
  /\ None \notin Mapping
  /\ None \notin AdminCall

VARIABLES
  row,          \* instrument_price_sources
  price,        \* instrument_prices
  composition,  \* instruments of the fund snapshot, in RAM and on disk
  cache,        \* PriceState.Sources of the published state
  sync,         \* per provider: the price sync in progress
  discovery,    \* per provider: the discovery in progress
  admin,        \* the SetPriceSource call that holds the write lock, or None
  unacked,      \* history: a commit was reported as failed but took effect
  raced,        \* history: instruments whose sources two transactions set at once
  overtaken     \* history: sources whose symbol changed under a running sync

vars == <<row, price, composition, cache, sync, discovery, admin, unacked, raced, overtaken>>

IdleSync == [phase |-> "idle", members |-> {}, items |-> {}, answers |-> {}]
IdleDiscovery == [phase |-> "idle", members |-> {}, todo |-> {},
                  item |-> None, inserted |-> {}]

(***************************************************************************)
(* The repository's queries.                                               *)
(***************************************************************************)
Enabled(rows, k) == rows[k] # None /\ rows[k].enabled

\* Fault: joined from the sources, a source without a price yields a row.
LoadPriceStateFromSources(rows, prices) ==
  [k \in Key |-> IF Enabled(rows, k)
                 THEN [symbol |-> rows[k].symbol, quote |-> prices[k]]
                 ELSE None]

\* loadCurrentPriceState: prices of enabled sources, labelled by their rows.
LoadPriceState(rows, prices) ==
  [k \in Key |-> IF prices[k] # None /\ Enabled(rows, k)
                 THEN [symbol |-> rows[k].symbol, quote |-> prices[k]]
                 ELSE None]

\* MappedInstrumentIDs, and the existence check of CreatePriceSources.
Mapped(i) == \E p \in Providers : row[<<i, p>>] # None

\* PriceSources(provider), filtered by the composition loaded before.
PriceItems(p, members) ==
  {[key |-> k, symbol |-> row[k].symbol] :
     k \in {x \in Key : x[2] = p /\ x[1] \in members /\ Enabled(row, x)}}

\* Fault: every different quote is stored, the older ones too.
AcceptsOlder(stored, quote) ==
  stored = None \/ quote.value # stored.value \/ quote.at # stored.at

\* applyCurrentPriceQuote stores a quote that is not older than the stored
\* one and differs from it.
Accepts(stored, quote) ==
  \/ stored = None
  \/ /\ quote.at >= stored.at
     /\ quote.value # stored.value \/ quote.at # stored.at

Init ==
  /\ row = [k \in Key |-> None]
  /\ price = [k \in Key |-> None]
  /\ composition \in SUBSET Instruments
  /\ cache = [k \in Key |-> None]
  /\ sync = [p \in Synced |-> IdleSync]
  /\ discovery = [p \in Discovered |-> IdleDiscovery]
  /\ admin = None
  /\ unacked = FALSE
  /\ raced = {}
  /\ overtaken = {}

WriteLockFree == admin = None

(***************************************************************************)
(* SyncMOEXSecurityPrices and SyncYahooPrices.  The scheduler runs at most *)
(* one sync per provider.                                                  *)
(***************************************************************************)
SyncLoad(p) ==
  /\ sync[p].phase = "idle"
  /\ sync' = [sync EXCEPT ![p] = [IdleSync EXCEPT !.phase = "loaded",
                                                  !.members = composition]]
  /\ UNCHANGED <<row, price, composition, cache, discovery, admin, unacked, raced, overtaken>>

SyncReadSources(p) ==
  /\ sync[p].phase = "loaded"
  /\ LET items == PriceItems(p, sync[p].members) IN
       sync' = [sync EXCEPT ![p] =
                  IF items = {} THEN IdleSync
                  ELSE [IdleSync EXCEPT !.phase = "fetching", !.items = items]]
  /\ UNCHANGED <<row, price, composition, cache, discovery, admin, unacked, raced, overtaken>>

\* The provider answers some of the requested symbols, with prices of any age.
SyncFetch(p) ==
  /\ sync[p].phase = "fetching"
  /\ \E answered \in SUBSET {item.symbol : item \in sync[p].items} :
       \E value \in [answered -> Values], at \in [answered -> 1..MaxTime] :
         LET answers == {[key |-> item.key,
                          quote |-> [of |-> item.symbol,
                                     value |-> value[item.symbol],
                                     at |-> at[item.symbol]]] :
                           item \in {x \in sync[p].items : x.symbol \in answered}}
         IN sync' = [sync EXCEPT ![p] =
                       IF answers = {} THEN IdleSync
                       ELSE [IdleSync EXCEPT !.phase = "fetched", !.answers = answers]]
  /\ UNCHANGED <<row, price, composition, cache, discovery, admin, unacked, raced, overtaken>>

\* Fault: the composition is not checked again.
AllAnswers(p) == sync[p].answers

\* The composition is checked again under the lock; the source is not.
ActiveAnswers(p) == {a \in sync[p].answers : a.key[1] \in composition}

\* ApplyQuotes: the answers that replace a stored price.
AcceptedAnswers(p) == {a \in ActiveAnswers(p) : Accepts(price[a.key], a.quote)}

QuoteFor(answers, k) == (CHOOSE a \in answers : a.key = k).quote
KeysOf(items) == {x.key : x \in items}

StoreQuotes(answers) ==
  price' = [k \in Key |-> IF k \in KeysOf(answers)
                          THEN QuoteFor(answers, k) ELSE price[k]]

\* A source is no longer overtaken once a quote for its own symbol is stored.
ForgetOvertaken(answers) ==
  overtaken' = overtaken \ {a.key : a \in {x \in answers : x.quote.of = row[x.key].symbol}}

\* priceStateWithCurrentUpdates over loadInstrumentPrice, which does not ask
\* whether the source is still enabled.
CacheQuotes(answers) ==
  cache' = [k \in Key |-> IF k \in KeysOf(answers)
                          THEN [symbol |-> row[k].symbol,
                                quote |-> QuoteFor(answers, k)]
                          ELSE cache[k]]

SyncApply(p) ==
  /\ sync[p].phase = "fetched"
  /\ WriteLockFree
  /\ StoreQuotes(AcceptedAnswers(p))
  /\ CacheQuotes(AcceptedAnswers(p))
  /\ ForgetOvertaken(AcceptedAnswers(p))
  /\ sync' = [sync EXCEPT ![p] = IdleSync]
  /\ UNCHANGED <<row, composition, discovery, admin, unacked, raced>>

\* The commit took effect, its acknowledgement was lost: Update keeps the
\* old RAM state.
SyncApplyUnacked(p) ==
  /\ sync[p].phase = "fetched"
  /\ WriteLockFree
  /\ AcceptedAnswers(p) # {}
  /\ StoreQuotes(AcceptedAnswers(p))
  /\ ForgetOvertaken(AcceptedAnswers(p))
  /\ unacked' = TRUE
  /\ sync' = [sync EXCEPT ![p] = IdleSync]
  /\ UNCHANGED <<row, composition, cache, discovery, admin, raced>>

\* The fetch fails, or the transaction rolls back.
SyncFail(p) ==
  /\ sync[p].phase \in {"loaded", "fetching", "fetched"}
  /\ sync' = [sync EXCEPT ![p] = IdleSync]
  /\ UNCHANGED <<row, price, composition, cache, discovery, admin, unacked, raced, overtaken>>

(***************************************************************************)
(* DiscoverMOEXSources and DiscoverYahooSources.                           *)
(***************************************************************************)
DiscoverLoad(p) ==
  /\ discovery[p].phase = "idle"
  /\ discovery' = [discovery EXCEPT ![p] = [IdleDiscovery EXCEPT !.phase = "loaded",
                                                                 !.members = composition]]
  /\ UNCHANGED <<row, price, composition, cache, sync, admin, unacked, raced, overtaken>>

\* MappedInstrumentIDs, then currentUnmappedSecurityCandidates.
DiscoverCandidates(p) ==
  /\ discovery[p].phase = "loaded"
  /\ LET candidates == {i \in discovery[p].members \cap Discoverable : ~Mapped(i)} IN
       discovery' = [discovery EXCEPT ![p] =
                       IF candidates = {} THEN IdleDiscovery
                       ELSE [IdleDiscovery EXCEPT !.phase = "resolving",
                                                  !.members = candidates]]
  /\ UNCHANGED <<row, price, composition, cache, sync, admin, unacked, raced, overtaken>>

\* The provider resolves some of the candidates.
DiscoverResolve(p) ==
  /\ discovery[p].phase = "resolving"
  /\ \E resolved \in SUBSET discovery[p].members :
       \E symbol \in [resolved -> Symbols] :
         discovery' = [discovery EXCEPT ![p] =
                         IF resolved = {} THEN IdleDiscovery
                         ELSE [IdleDiscovery EXCEPT
                                 !.phase = "creating",
                                 !.todo = {[instrument |-> i, symbol |-> symbol[i]] :
                                             i \in resolved}]]
  /\ UNCHANGED <<row, price, composition, cache, sync, admin, unacked, raced, overtaken>>

\* Fault: the transaction trusts the check made before the resolution.
SkipsNothing(i) == FALSE

\* CreatePriceSources, per item: an instrument with any committed source is
\* skipped (the transaction reads committed rows and its own).
SkipsMapped(i) == Mapped(i)

DiscoverCheck(p) ==
  /\ discovery[p].phase = "creating"
  /\ discovery[p].item = None
  /\ \E m \in discovery[p].todo :
       discovery' = [discovery EXCEPT ![p].todo = @ \ {m},
                                      ![p].item = IF SkipsMapped(m.instrument) THEN None ELSE m]
  /\ UNCHANGED <<row, price, composition, cache, sync, admin, unacked, raced, overtaken>>

\* UNIQUE (instrument_id, provider) fails the whole transaction when the row
\* appeared after the check.
DiscoverInsert(p) ==
  /\ discovery[p].item # None
  /\ IF row[<<discovery[p].item.instrument, p>>] # None
     THEN discovery' = [discovery EXCEPT ![p] = IdleDiscovery]
     ELSE discovery' = [discovery EXCEPT ![p].inserted = @ \cup {discovery[p].item},
                                         ![p].item = None]
  /\ UNCHANGED <<row, price, composition, cache, sync, admin, unacked, raced, overtaken>>

\* The instruments the transaction of p has found unmapped.
Checked(p) ==
  {m.instrument : m \in discovery[p].inserted}
  \cup (IF discovery[p].item = None THEN {} ELSE {discovery[p].item.instrument})

\* Fault: the commit takes the write lock after the inserts.
DiscoveryDoneUnderLock(p) ==
  /\ discovery[p].phase = "creating"
  /\ discovery[p].todo = {}
  /\ discovery[p].item = None
  /\ WriteLockFree

DiscoveryDone(p) ==
  /\ discovery[p].phase = "creating"
  /\ discovery[p].todo = {}
  /\ discovery[p].item = None

\* A commit whose acknowledgement is lost changes the same state: nothing in
\* RAM depends on it.
DiscoverCommit(p) ==
  /\ DiscoveryDone(p)
  /\ LET created == {m.instrument : m \in discovery[p].inserted} IN
       /\ row' = [k \in Key |->
                    IF k[2] = p /\ k[1] \in created
                    THEN [symbol |-> (CHOOSE m \in discovery[p].inserted :
                                        m.instrument = k[1]).symbol,
                          enabled |-> TRUE]
                    ELSE row[k]]
       /\ raced' = raced \cup {i \in created :
                                 \/ \E q \in Discovered \ {p} : i \in Checked(q)
                                 \/ admin # None /\ admin.instrument = i}
  /\ discovery' = [discovery EXCEPT ![p] = IdleDiscovery]
  /\ UNCHANGED <<price, composition, cache, sync, admin, unacked, overtaken>>

\* A read or the resolution fails, or the transaction rolls back.
DiscoverFail(p) ==
  /\ discovery[p].phase # "idle"
  /\ discovery' = [discovery EXCEPT ![p] = IdleDiscovery]
  /\ UNCHANGED <<row, price, composition, cache, sync, admin, unacked, raced, overtaken>>

(***************************************************************************)
(* The administrator's SetPriceSource: a transaction under the write lock. *)
(***************************************************************************)
\* A provider without an implementation may only be stored disabled.
SetPriceSource(i, p, s, e) ==
  /\ WriteLockFree
  /\ i \in composition
  /\ e => p \in Pollable
  /\ admin' = [instrument |-> i, provider |-> p, symbol |-> s, enabled |-> e,
               seen |-> [q \in Providers |-> row[<<i, q>>]]]
  /\ UNCHANGED <<row, price, composition, cache, sync, discovery, unacked, raced, overtaken>>

AdminKey == <<admin.instrument, admin.provider>>
AdminRow == [symbol |-> admin.symbol, enabled |-> admin.enabled]
AdminInserts == admin.seen[admin.provider] = None

\* Fault: enabling a source leaves the others as they are.
DisabledByNone == {}

\* The other enabled sources the call read, when it enables this one.
DisabledByAdmin ==
  {q \in Providers \ {admin.provider} :
     admin.enabled /\ admin.seen[q] # None /\ admin.seen[q].enabled}

AdminChanges ==
  \/ DisabledByAdmin # {}
  \/ admin.seen[admin.provider] # AdminRow

\* The insert waits for a transaction that inserted the same pair, and then
\* fails if that one committed.
AdminInsertWaits ==
  AdminInserts /\ \E p \in Discovered :
    p = admin.provider /\ \E m \in discovery[p].inserted : m.instrument = admin.instrument

AdminConflicts == AdminInserts /\ row[AdminKey] # None

AdminRows ==
  [k \in Key |->
     IF k = AdminKey THEN AdminRow
     ELSE IF k[1] = admin.instrument /\ k[2] \in DisabledByAdmin
     THEN [row[k] EXCEPT !.enabled = FALSE]
     ELSE row[k]]

\* A new symbol deletes what was stored for the old one.
SymbolChanged == ~AdminInserts /\ admin.seen[admin.provider].symbol # admin.symbol

\* Fault: the old symbol's price stays.
AdminPricesKept == price

AdminPrices == [k \in Key |-> IF k = AdminKey /\ SymbolChanged THEN None ELSE price[k]]

\* Fault: the price state is loaded before the updates.
AdminReloadBefore == LoadPriceState(row, price)

\* RAM after the call: the state loaded in its transaction, after its updates.
AdminReload == LoadPriceState(AdminRows, AdminPrices)

\* A discovery that checked the instrument before this commit will commit a
\* second source after it; an enable that nothing overtook leaves one enabled.
AdminRaces == \E p \in Discovered : admin.instrument \in Checked(p)
AdminHeals ==
  admin.enabled /\ \A q \in Providers : row[<<admin.instrument, q>>] = admin.seen[q]

RecordRaces ==
  /\ raced' = IF AdminRaces THEN raced \cup {admin.instrument}
              ELSE IF AdminHeals THEN raced \ {admin.instrument} ELSE raced
  /\ overtaken' = IF SymbolChanged /\ \E p \in Synced :
                        AdminKey \in KeysOf(sync[p].items) \cup KeysOf(sync[p].answers)
                  THEN overtaken \cup {AdminKey} ELSE overtaken

AdminCanWrite == admin # None /\ ~AdminInsertWaits

AdminCommit ==
  /\ AdminCanWrite
  /\ AdminChanges
  /\ ~AdminConflicts
  /\ row' = AdminRows
  /\ price' = AdminPrices
  /\ cache' = AdminReload
  /\ unacked' = FALSE
  /\ RecordRaces
  /\ admin' = None
  /\ UNCHANGED <<composition, sync, discovery>>

AdminCommitUnacked ==
  /\ AdminCanWrite
  /\ AdminChanges
  /\ ~AdminConflicts
  /\ row' = AdminRows
  /\ price' = AdminPrices
  /\ unacked' = TRUE
  /\ RecordRaces
  /\ admin' = None
  /\ UNCHANGED <<composition, cache, sync, discovery>>

\* Nothing to change, a unique violation, or any other rollback.
AdminAbort ==
  /\ AdminCanWrite
  /\ admin' = None
  /\ UNCHANGED <<row, price, composition, cache, sync, discovery, unacked, raced, overtaken>>

(***************************************************************************)
(* The rest of the program.                                                *)
(***************************************************************************)
\* SyncManagementCompany publishes a new fund snapshot.
ChangeComposition ==
  /\ WriteLockFree
  /\ composition' \in SUBSET Instruments
  /\ UNCHANGED <<row, price, cache, sync, discovery, admin, unacked, raced, overtaken>>

\* SyncFundUnitMOEXHistory with a new daily price reloads the current prices.
ReloadByHistorySync ==
  /\ WriteLockFree
  /\ cache' = LoadPriceState(row, price)
  /\ unacked' = FALSE
  /\ UNCHANGED <<row, price, composition, sync, discovery, admin, raced, overtaken>>

\* A crash, and Service.Start of the next process.
Restart ==
  /\ cache' = LoadPriceState(row, price)
  /\ sync' = [p \in Synced |-> IdleSync]
  /\ discovery' = [p \in Discovered |-> IdleDiscovery]
  /\ admin' = None
  /\ unacked' = FALSE
  /\ UNCHANGED <<row, price, composition, raced, overtaken>>

SyncStep(p) ==
  SyncLoad(p) \/ SyncReadSources(p) \/ SyncFetch(p)
  \/ SyncApply(p) \/ SyncApplyUnacked(p) \/ SyncFail(p)

DiscoverStep(p) ==
  DiscoverLoad(p) \/ DiscoverCandidates(p) \/ DiscoverResolve(p)
  \/ DiscoverCheck(p) \/ DiscoverInsert(p) \/ DiscoverCommit(p) \/ DiscoverFail(p)

AdminStep ==
  \/ \E i \in Instruments, p \in Providers, s \in Symbols, e \in BOOLEAN :
       SetPriceSource(i, p, s, e)
  \/ AdminCommit
  \/ AdminCommitUnacked
  \/ AdminAbort

Next ==
  \/ \E p \in Synced : SyncStep(p)
  \/ \E p \in Discovered : DiscoverStep(p)
  \/ AdminStep
  \/ ChangeComposition
  \/ ReloadByHistorySync
  \/ Restart

\* Transactions end: the driver bounds their statements and commits.  An
\* insert that waited for another transaction is woken when that one ends,
\* before a later discovery, which has to ask the provider first, can insert
\* the pair again: hence strong fairness.  Nothing is assumed of providers,
\* of the schedule or of the administrator.
Fairness ==
  /\ SF_vars(AdminCommit \/ AdminCommitUnacked \/ AdminAbort)
  /\ \A p \in Discovered : WF_vars(DiscoverCheck(p) \/ DiscoverInsert(p) \/ DiscoverCommit(p))

Spec == Init /\ [][Next]_vars
FairSpec == Spec /\ Fairness

-----------------------------------------------------------------------------
TypeOK ==
  /\ row \in [Key -> Row \cup {None}]
  /\ price \in [Key -> Quote \cup {None}]
  /\ composition \in SUBSET Instruments
  /\ cache \in [Key -> CachedPrice \cup {None}]
  /\ sync \in [Synced -> Sync]
  /\ discovery \in [Discovered -> Discovery]
  /\ admin \in AdminCall \cup {None}
  /\ unacked \in BOOLEAN
  /\ raced \in SUBSET Instruments
  /\ overtaken \in SUBSET Key

\* What a restart would load for an enabled source is what RAM already holds:
\* no interleaving of syncs, discoveries, toggles and reloads loses or
\* freezes a price of an enabled source, or shows it under an old symbol.
EnabledPricesCached ==
  ~unacked => \A k \in Key :
    Enabled(row, k) => cache[k] = LoadPriceState(row, price)[k]

\* A stored price is for the symbol its source has now, unless the symbol was
\* changed while a sync that had read the old one was running.
QuoteForSymbolUnlessOvertaken ==
  \A k \in Key \ overtaken : price[k] # None => price[k].of = row[k].symbol

\* RAM is exactly what the durable data says (the schema's principle: public
\* reads are served from RAM state built from the durable data).
CacheIsDurableView == ~unacked => cache = LoadPriceState(row, price)

\* A price never goes back in time under the same symbol, for readers of RAM:
\* late answers of slow fetches, reloads and restarts included.
PricesNeverRegress ==
  [][\A k \in Key :
       /\ ~unacked
       /\ cache[k] # None
       /\ cache'[k] # None
       /\ cache'[k].symbol = cache[k].symbol
       => cache'[k].quote.at >= cache[k].quote.at]_vars

\* The price of an instrument changes only while it is in the composition,
\* although the answer was requested under an older composition.
OnlyMembersPriced ==
  [][\A k \in Key :
       price'[k] # price[k] => k[1] \in composition]_vars

\* Two sources of one instrument are enabled together only when a discovery's
\* transaction overlapped another one; an undisturbed enable heals it.
OneEnabledUnlessRaced ==
  \A i \in Instruments \ raced :
    Cardinality({p \in Providers : Enabled(row, <<i, p>>)}) <= 1

\* A discovery never maps an instrument that already has a source.
DiscoverySkipsMapped ==
  [][\A p \in Discovered, i \in Instruments :
       /\ discovery[p].phase = "creating"
       /\ discovery'[p].phase = "idle"
       /\ row[<<i, p>>] = None
       /\ row'[<<i, p>>] # None
       => ~Mapped(i)]_vars

\* Every SetPriceSource gives the write lock back, although its insert may
\* have to wait for a discovery's transaction.
WriteLockReleased == []<>(admin = None)
=============================================================================
