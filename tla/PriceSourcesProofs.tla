------------------------- MODULE PriceSourcesProofs -------------------------
(***************************************************************************)
(* Theorems about PriceSources, for any sets of instruments, providers and *)
(* symbols and any number of concurrent syncs and discoveries.             *)
(***************************************************************************)
EXTENDS PriceSources, FiniteSetTheorems, TLAPS

\* Whatever the actors hold on to between two steps is about rows that exist,
\* because rows are never deleted.
QuotedRowsExist ==
  \A p \in Synced : \A x \in sync[p].items \cup sync[p].answers : row[x.key] # None

\* What SetPriceSource read under the write lock still holds: a new snapshot
\* waits for the lock, and nobody else changes a row that exists.
AdminReadsKept ==
  admin # None =>
    /\ admin.instrument \in composition
    /\ \A q \in Providers :
         admin.seen[q] # None => row[<<admin.instrument, q>>] = admin.seen[q]

\* A row inserted by a transaction in progress is not committed by another.
InsertedAreNew ==
  \A p \in Discovered : \A m \in discovery[p].inserted : row[<<m.instrument, p>>] = None

PricedRowsExist == \A k \in Key : price[k] # None => row[k] # None

\* A price in RAM is the stored one under its row's symbol, the price of a
\* disabled source included.
CachedAreStored ==
  \A k \in Key : cache[k] # None =>
    /\ row[k] # None
    /\ ~unacked => price[k] = cache[k].quote /\ row[k].symbol = cache[k].symbol

IInv ==
  /\ TypeOK
  /\ QuotedRowsExist
  /\ AdminReadsKept
  /\ InsertedAreNew
  /\ PricedRowsExist
  /\ CachedAreStored
  /\ EnabledPricesCached

\* A step that only moves a sync keeps the invariant when what the sync holds
\* is well formed and about existing rows.
LEMMA SyncMoves ==
  ASSUME IInv, NEW p \in Synced, NEW s \in Sync,
         sync' = [sync EXCEPT ![p] = s],
         \A x \in s.items \cup s.answers : row[x.key] # None,
         UNCHANGED <<row, price, composition, cache, discovery, admin, unacked, raced, overtaken>>
  PROVE  IInv'
<1>1. TypeOK'
  BY DEF IInv, TypeOK
<1>2. QuotedRowsExist'
  BY DEF IInv, TypeOK, QuotedRowsExist
<1>3. AdminReadsKept' /\ InsertedAreNew' /\ PricedRowsExist' /\ CachedAreStored'
  BY DEF IInv, AdminReadsKept, InsertedAreNew, PricedRowsExist, CachedAreStored
<1>4. EnabledPricesCached'
  BY DEF IInv, EnabledPricesCached, Enabled, LoadPriceState
<1> QED
  BY <1>1, <1>2, <1>3, <1>4 DEF IInv

LEMMA IdleSyncFits == IdleSync \in Sync /\ IdleSync.items = {} /\ IdleSync.answers = {}
  BY DEF IdleSync, Sync

LEMMA SyncLoadInv ==
  ASSUME IInv, NEW p \in Synced, SyncLoad(p)
  PROVE  IInv'
<1> DEFINE s == [IdleSync EXCEPT !.phase = "loaded", !.members = composition]
<1>1. s \in Sync /\ s.items = {} /\ s.answers = {}
  BY DEF IInv, TypeOK, IdleSync, Sync
<1> QED
  BY <1>1, SyncMoves DEF SyncLoad

LEMMA SyncReadSourcesInv ==
  ASSUME IInv, NEW p \in Synced, SyncReadSources(p)
  PROVE  IInv'
<1> DEFINE items == PriceItems(p, sync[p].members)
           s == [IdleSync EXCEPT !.phase = "fetching", !.items = items]
<1>1. \A x \in items : x \in Item /\ row[x.key] # None
  BY DEF IInv, TypeOK, PriceItems, Enabled, Item, Row
<1>2. s \in Sync /\ s.items = items /\ s.answers = {}
  BY <1>1 DEF IdleSync, Sync
<1>3. CASE items = {}
  BY <1>3, IdleSyncFits, SyncMoves DEF SyncReadSources
<1>4. CASE items # {}
  BY <1>1, <1>2, <1>4, SyncMoves DEF SyncReadSources
<1> QED
  BY <1>3, <1>4

LEMMA SyncFetchInv ==
  ASSUME IInv, NEW p \in Synced, SyncFetch(p)
  PROVE  IInv'
<1>1. sync[p] \in Sync /\ sync[p].items \in SUBSET Item
  BY DEF IInv, TypeOK, Sync
<1>2. PICK answered \in SUBSET {item.symbol : item \in sync[p].items} :
      \E value \in [answered -> Values], at \in [answered -> 1..MaxTime] :
        LET answers == {[key |-> item.key,
                         quote |-> [of |-> item.symbol,
                                    value |-> value[item.symbol],
                                    at |-> at[item.symbol]]] :
                          item \in {x \in sync[p].items : x.symbol \in answered}}
        IN sync' = [sync EXCEPT ![p] =
                      IF answers = {} THEN IdleSync
                      ELSE [IdleSync EXCEPT !.phase = "fetched", !.answers = answers]]
  BY DEF SyncFetch
<1>3. PICK value \in [answered -> Values], at \in [answered -> 1..MaxTime] :
        LET answers == {[key |-> item.key,
                         quote |-> [of |-> item.symbol,
                                    value |-> value[item.symbol],
                                    at |-> at[item.symbol]]] :
                          item \in {x \in sync[p].items : x.symbol \in answered}}
        IN sync' = [sync EXCEPT ![p] =
                      IF answers = {} THEN IdleSync
                      ELSE [IdleSync EXCEPT !.phase = "fetched", !.answers = answers]]
  BY <1>2
<1> DEFINE answers == {[key |-> item.key,
                        quote |-> [of |-> item.symbol,
                                   value |-> value[item.symbol],
                                   at |-> at[item.symbol]]] :
                         item \in {x \in sync[p].items : x.symbol \in answered}}
           s == [IdleSync EXCEPT !.phase = "fetched", !.answers = answers]
<1>4. \A a \in answers : a \in Answer /\ row[a.key] # None
  BY <1>1 DEF IInv, QuotedRowsExist, Item, Answer, Quote
<1>5. s \in Sync /\ s.items = {} /\ s.answers = answers
  BY <1>4 DEF IdleSync, Sync
<1>6. UNCHANGED <<row, price, composition, cache, discovery, admin, unacked, raced, overtaken>>
  BY DEF SyncFetch
<1>7. CASE answers = {}
  BY <1>3, <1>6, <1>7, IdleSyncFits, SyncMoves
<1>8. CASE answers # {}
  BY <1>3, <1>4, <1>5, <1>6, <1>8, SyncMoves
<1> QED
  BY <1>7, <1>8

LEMMA SyncFailInv ==
  ASSUME IInv, NEW p \in Synced, SyncFail(p)
  PROVE  IInv'
  BY IdleSyncFits, SyncMoves DEF SyncFail

\* The answers that ApplyQuotes stores are about existing rows; storing them
\* sets both copies of their prices and no other.
LEMMA AcceptedAnswersFit ==
  ASSUME IInv, NEW p \in Synced
  PROVE  /\ AcceptedAnswers(p) \subseteq sync[p].answers
         /\ \A a \in AcceptedAnswers(p) :
              a \in Answer /\ row[a.key] \in Row /\ Accepts(price[a.key], a.quote)
         /\ \A k \in KeysOf(AcceptedAnswers(p)) :
              \E a \in AcceptedAnswers(p) :
                a.key = k /\ QuoteFor(AcceptedAnswers(p), k) = a.quote
<1>1. AcceptedAnswers(p) \subseteq sync[p].answers
  BY DEF AcceptedAnswers, ActiveAnswers
<1>2. sync[p].answers \subseteq Answer
  BY DEF IInv, TypeOK, Sync
<1>3. ASSUME NEW a \in AcceptedAnswers(p)
      PROVE  a \in Answer /\ row[a.key] \in Row /\ Accepts(price[a.key], a.quote)
  <2>1. a \in Answer /\ a.key \in Key
    BY <1>1, <1>2 DEF Answer
  <2>2. row[a.key] # None
    BY <1>1 DEF IInv, QuotedRowsExist
  <2>3. row[a.key] \in Row
    BY <2>1, <2>2 DEF IInv, TypeOK
  <2> QED
    BY <2>1, <2>3 DEF AcceptedAnswers
<1>4. ASSUME NEW k \in KeysOf(AcceptedAnswers(p))
      PROVE  \E a \in AcceptedAnswers(p) :
               a.key = k /\ QuoteFor(AcceptedAnswers(p), k) = a.quote
  BY DEF KeysOf, QuoteFor
<1> QED
  BY <1>1, <1>3, <1>4

LEMMA StoreQuotesInv ==
  ASSUME IInv, NEW p \in Synced, StoreQuotes(AcceptedAnswers(p)),
         sync' = [sync EXCEPT ![p] = IdleSync],
         ForgetOvertaken(AcceptedAnswers(p)),
         UNCHANGED <<row, composition, discovery, admin, raced>>
  PROVE  /\ price' \in [Key -> Quote \cup {None}]
         /\ sync' \in [Synced -> Sync]
         /\ overtaken' \in SUBSET Key
         /\ QuotedRowsExist'
         /\ AdminReadsKept'
         /\ InsertedAreNew'
         /\ PricedRowsExist'
<1> DEFINE answers == AcceptedAnswers(p)
<1>1. \A a \in answers : a \in Answer /\ row[a.key] \in Row
  BY AcceptedAnswersFit
<1>2. \A k \in KeysOf(answers) : \E a \in answers : a.key = k /\ QuoteFor(answers, k) = a.quote
  BY AcceptedAnswersFit
<1> HIDE DEF answers
<1>3. \A k \in KeysOf(answers) : QuoteFor(answers, k) \in Quote /\ row[k] # None
  BY <1>1, <1>2, NoneAssumption DEF Answer
<1>4. price' = [k \in Key |-> IF k \in KeysOf(answers) THEN QuoteFor(answers, k) ELSE price[k]]
  BY DEF StoreQuotes, answers
<1>5. price' \in [Key -> Quote \cup {None}]
  BY <1>3, <1>4 DEF IInv, TypeOK
<1>6. PricedRowsExist'
  BY <1>3, <1>4 DEF IInv, PricedRowsExist
<1>7. sync' \in [Synced -> Sync] /\ QuotedRowsExist'
  BY IdleSyncFits DEF IInv, TypeOK, QuotedRowsExist
<1>8. AdminReadsKept' /\ InsertedAreNew'
  BY DEF IInv, AdminReadsKept, InsertedAreNew
<1>9. overtaken' \in SUBSET Key
  BY DEF IInv, TypeOK, ForgetOvertaken
<1> QED
  BY <1>5, <1>6, <1>7, <1>8, <1>9

LEMMA SyncApplyInv ==
  ASSUME IInv, NEW p \in Synced, SyncApply(p)
  PROVE  IInv'
<1> DEFINE answers == AcceptedAnswers(p)
<1>1. \A a \in answers : a \in Answer /\ row[a.key] \in Row
  BY AcceptedAnswersFit
<1>2. \A k \in KeysOf(answers) : \E a \in answers : a.key = k /\ QuoteFor(answers, k) = a.quote
  BY AcceptedAnswersFit
<1> HIDE DEF answers
<1>3. \A k \in KeysOf(answers) : QuoteFor(answers, k) \in Quote /\ row[k] \in Row /\ k \in Key
  BY <1>1, <1>2 DEF Answer
<1>4. price' = [k \in Key |-> IF k \in KeysOf(answers) THEN QuoteFor(answers, k) ELSE price[k]]
  BY DEF StoreQuotes, SyncApply, answers
<1>5. cache' = [k \in Key |-> IF k \in KeysOf(answers)
                              THEN [symbol |-> row[k].symbol, quote |-> QuoteFor(answers, k)]
                              ELSE cache[k]]
  BY DEF CacheQuotes, SyncApply, answers
<1>6. UNCHANGED <<row, composition, discovery, admin, unacked, raced>>
  BY DEF SyncApply
<1>7. /\ price' \in [Key -> Quote \cup {None}]
      /\ sync' \in [Synced -> Sync]
      /\ overtaken' \in SUBSET Key
      /\ QuotedRowsExist' /\ AdminReadsKept' /\ InsertedAreNew' /\ PricedRowsExist'
  BY StoreQuotesInv DEF SyncApply
<1>8. cache' \in [Key -> CachedPrice \cup {None}]
  BY <1>3, <1>5 DEF IInv, TypeOK, CachedPrice, Row
<1>9. TypeOK'
  BY <1>6, <1>7, <1>8 DEF IInv, TypeOK
<1>10. CachedAreStored'
  BY <1>3, <1>4, <1>5, <1>6, NoneAssumption DEF IInv, TypeOK, CachedAreStored
<1>11. EnabledPricesCached'
  <2> SUFFICES ASSUME ~unacked, NEW k \in Key, Enabled(row, k)
               PROVE  cache'[k] = LoadPriceState(row, price')[k]
    BY <1>6 DEF EnabledPricesCached, Enabled, LoadPriceState
  <2>1. CASE k \in KeysOf(answers)
    BY <2>1, <1>3, <1>4, <1>5, NoneAssumption DEF LoadPriceState
  <2>2. CASE k \notin KeysOf(answers)
    BY <2>2, <1>4, <1>5 DEF IInv, EnabledPricesCached, LoadPriceState
  <2> QED
    BY <2>1, <2>2
<1> QED
  BY <1>7, <1>9, <1>10, <1>11 DEF IInv

LEMMA SyncApplyUnackedInv ==
  ASSUME IInv, NEW p \in Synced, SyncApplyUnacked(p)
  PROVE  IInv'
<1>1. UNCHANGED <<row, composition, cache, discovery, admin, raced>> /\ unacked' = TRUE
  BY DEF SyncApplyUnacked
<1>2. /\ price' \in [Key -> Quote \cup {None}]
      /\ sync' \in [Synced -> Sync]
      /\ overtaken' \in SUBSET Key
      /\ QuotedRowsExist' /\ AdminReadsKept' /\ InsertedAreNew' /\ PricedRowsExist'
  BY StoreQuotesInv DEF SyncApplyUnacked
<1>3. TypeOK'
  BY <1>1, <1>2 DEF IInv, TypeOK
<1>4. CachedAreStored' /\ EnabledPricesCached'
  BY <1>1 DEF IInv, CachedAreStored, EnabledPricesCached
<1> QED
  BY <1>2, <1>3, <1>4 DEF IInv

\* A step that only moves a discovery keeps the invariant when what it has
\* inserted is well formed and new.
LEMMA DiscoveryMoves ==
  ASSUME IInv, NEW p \in Discovered, NEW d \in Discovery,
         discovery' = [discovery EXCEPT ![p] = d],
         \A m \in d.inserted : row[<<m.instrument, p>>] = None,
         UNCHANGED <<row, price, composition, cache, sync, admin, unacked, raced, overtaken>>
  PROVE  IInv'
<1>1. TypeOK'
  BY DEF IInv, TypeOK
<1>2. InsertedAreNew'
  BY DEF IInv, TypeOK, InsertedAreNew
<1>3. AdminReadsKept' /\ QuotedRowsExist' /\ PricedRowsExist' /\ CachedAreStored'
  BY DEF IInv, AdminReadsKept, QuotedRowsExist, PricedRowsExist, CachedAreStored
<1>4. EnabledPricesCached'
  BY DEF IInv, EnabledPricesCached, Enabled, LoadPriceState
<1> QED
  BY <1>1, <1>2, <1>3, <1>4 DEF IInv

LEMMA IdleDiscoveryFits == IdleDiscovery \in Discovery /\ IdleDiscovery.inserted = {}
  BY DEF IdleDiscovery, Discovery

LEMMA DiscoverLoadInv ==
  ASSUME IInv, NEW p \in Discovered, DiscoverLoad(p)
  PROVE  IInv'
<1> DEFINE d == [IdleDiscovery EXCEPT !.phase = "loaded", !.members = composition]
<1>1. d \in Discovery /\ d.inserted = {}
  BY DEF IInv, TypeOK, IdleDiscovery, Discovery
<1> QED
  BY <1>1, DiscoveryMoves DEF DiscoverLoad

LEMMA DiscoverCandidatesInv ==
  ASSUME IInv, NEW p \in Discovered, DiscoverCandidates(p)
  PROVE  IInv'
<1> DEFINE candidates == {i \in discovery[p].members \cap Discoverable : ~Mapped(i)}
           d == [IdleDiscovery EXCEPT !.phase = "resolving", !.members = candidates]
<1>1. discovery[p].members \in SUBSET Instruments
  BY DEF IInv, TypeOK, Discovery
<1>2. d \in Discovery /\ d.inserted = {}
  BY <1>1 DEF IdleDiscovery, Discovery
<1>3. CASE candidates = {}
  BY <1>3, IdleDiscoveryFits, DiscoveryMoves DEF DiscoverCandidates
<1>4. CASE candidates # {}
  BY <1>2, <1>4, DiscoveryMoves DEF DiscoverCandidates
<1> QED
  BY <1>3, <1>4

LEMMA DiscoverResolveInv ==
  ASSUME IInv, NEW p \in Discovered, DiscoverResolve(p)
  PROVE  IInv'
<1>1. discovery[p].members \in SUBSET Instruments
  BY DEF IInv, TypeOK, Discovery
<1>2. PICK resolved \in SUBSET discovery[p].members : \E symbol \in [resolved -> Symbols] :
        discovery' = [discovery EXCEPT ![p] =
                        IF resolved = {} THEN IdleDiscovery
                        ELSE [IdleDiscovery EXCEPT
                                !.phase = "creating",
                                !.todo = {[instrument |-> i, symbol |-> symbol[i]] :
                                            i \in resolved}]]
  BY DEF DiscoverResolve
<1>3. PICK symbol \in [resolved -> Symbols] :
        discovery' = [discovery EXCEPT ![p] =
                        IF resolved = {} THEN IdleDiscovery
                        ELSE [IdleDiscovery EXCEPT
                                !.phase = "creating",
                                !.todo = {[instrument |-> i, symbol |-> symbol[i]] :
                                            i \in resolved}]]
  BY <1>2
<1> DEFINE todo == {[instrument |-> i, symbol |-> symbol[i]] : i \in resolved}
           d == [IdleDiscovery EXCEPT !.phase = "creating", !.todo = todo]
<1>4. todo \in SUBSET Mapping
  BY <1>1 DEF Mapping
<1>5. d \in Discovery /\ d.inserted = {}
  BY <1>4 DEF IdleDiscovery, Discovery
<1>6. UNCHANGED <<row, price, composition, cache, sync, admin, unacked, raced, overtaken>>
  BY DEF DiscoverResolve
<1>7. CASE resolved = {}
  BY <1>3, <1>6, <1>7, IdleDiscoveryFits, DiscoveryMoves
<1>8. CASE resolved # {}
  BY <1>3, <1>5, <1>6, <1>8, DiscoveryMoves
<1> QED
  BY <1>7, <1>8

LEMMA DiscoverCheckInv ==
  ASSUME IInv, NEW p \in Discovered, DiscoverCheck(p)
  PROVE  IInv'
<1>1. discovery[p] \in Discovery
  BY DEF IInv, TypeOK
<1>2. PICK m \in discovery[p].todo :
        discovery' = [discovery EXCEPT ![p].todo = @ \ {m},
                                       ![p].item = IF SkipsMapped(m.instrument) THEN None ELSE m]
  BY DEF DiscoverCheck
<1> DEFINE d == [discovery[p] EXCEPT
                   !.todo = @ \ {m},
                   !.item = IF SkipsMapped(m.instrument) THEN None ELSE m]
<1>3. discovery' = [discovery EXCEPT ![p] = d]
  BY <1>2 DEF IInv, TypeOK
<1>4. d \in Discovery /\ d.inserted = discovery[p].inserted
  BY <1>1 DEF Discovery
<1>5. \A x \in d.inserted : row[<<x.instrument, p>>] = None
  BY <1>4 DEF IInv, InsertedAreNew
<1>6. UNCHANGED <<row, price, composition, cache, sync, admin, unacked, raced, overtaken>>
  BY DEF DiscoverCheck
<1> HIDE DEF d
<1> QED
  BY <1>3, <1>4, <1>5, <1>6, DiscoveryMoves

LEMMA DiscoverInsertInv ==
  ASSUME IInv, NEW p \in Discovered, DiscoverInsert(p)
  PROVE  IInv'
<1> DEFINE m == discovery[p].item
           d == [discovery[p] EXCEPT !.inserted = @ \cup {discovery[p].item}, !.item = None]
<1>1. discovery[p] \in Discovery /\ m # None
  BY DEF IInv, TypeOK, DiscoverInsert
<1>2. d \in Discovery /\ d.inserted = discovery[p].inserted \cup {m}
  BY <1>1 DEF Discovery
<1>3. CASE row[<<m.instrument, p>>] # None
  BY <1>3, IdleDiscoveryFits, DiscoveryMoves DEF DiscoverInsert
<1>4. CASE row[<<m.instrument, p>>] = None
  <2>1. \A x \in d.inserted : row[<<x.instrument, p>>] = None
    BY <1>2, <1>4 DEF IInv, InsertedAreNew
  <2>2. discovery' = [discovery EXCEPT ![p] = d]
    BY <1>4 DEF DiscoverInsert, IInv, TypeOK
  <2>3. UNCHANGED <<row, price, composition, cache, sync, admin, unacked, raced, overtaken>>
    BY DEF DiscoverInsert
  <2> HIDE DEF d
  <2> QED
    BY <1>2, <2>1, <2>2, <2>3, DiscoveryMoves
<1> QED
  BY <1>3, <1>4

LEMMA DiscoverFailInv ==
  ASSUME IInv, NEW p \in Discovered, DiscoverFail(p)
  PROVE  IInv'
  BY IdleDiscoveryFits, DiscoveryMoves DEF DiscoverFail

\* The commit turns absent rows into enabled ones, which have no price on disk
\* and none in RAM.
LEMMA DiscoverCommitInv ==
  ASSUME IInv, NEW p \in Discovered, DiscoverCommit(p)
  PROVE  IInv'
<1> DEFINE created == {m.instrument : m \in discovery[p].inserted}
           symbolOf(i) == (CHOOSE m \in discovery[p].inserted : m.instrument = i).symbol
<1>1. discovery[p].inserted \in SUBSET Mapping
  BY DEF IInv, TypeOK, Discovery
<1>2. row' = [k \in Key |-> IF k[2] = p /\ k[1] \in created
                            THEN [symbol |-> symbolOf(k[1]), enabled |-> TRUE]
                            ELSE row[k]]
  BY DEF DiscoverCommit
<1>3. \A i \in created : symbolOf(i) \in Symbols /\ i \in Instruments /\ row[<<i, p>>] = None
  BY <1>1 DEF Mapping, IInv, InsertedAreNew
<1>4. UNCHANGED <<price, composition, cache, sync, admin, unacked, overtaken>>
  BY DEF DiscoverCommit
<1>5. discovery' = [discovery EXCEPT ![p] = IdleDiscovery]
  BY DEF DiscoverCommit
<1>6. raced' \in SUBSET Instruments
  BY <1>3 DEF DiscoverCommit, IInv, TypeOK
<1> HIDE DEF created, symbolOf
<1>7. \A k \in Key : \/ row'[k] = row[k]
                     \/ row[k] = None /\ row'[k] \in Row /\ k[2] = p
  BY <1>2, <1>3 DEF Key, Row
<1>8. row' \in [Key -> Row \cup {None}]
  BY <1>2, <1>7 DEF IInv, TypeOK
<1>9. TypeOK'
  BY <1>4, <1>5, <1>6, <1>8, IdleDiscoveryFits DEF IInv, TypeOK
<1>10. \A k \in Key : row[k] # None => row'[k] = row[k]
  BY <1>7
<1>11. QuotedRowsExist'
  <2>1. \A q \in Synced : \A x \in sync[q].items \cup sync[q].answers : x.key \in Key
    BY DEF IInv, TypeOK, Sync, Item, Answer
  <2> QED
    BY <2>1, <1>4, <1>10 DEF IInv, QuotedRowsExist
<1>12. AdminReadsKept'
  <2> SUFFICES ASSUME admin # None, NEW q \in Providers, admin.seen[q] # None
               PROVE  row'[<<admin.instrument, q>>] = admin.seen[q]
    BY <1>4 DEF AdminReadsKept, IInv
  <2>1. <<admin.instrument, q>> \in Key
    BY DEF IInv, TypeOK, AdminCall, Key
  <2> QED
    BY <2>1, <1>10 DEF IInv, AdminReadsKept
<1>13. InsertedAreNew'
  <2> SUFFICES ASSUME NEW q \in Discovered, NEW m \in discovery'[q].inserted
               PROVE  row'[<<m.instrument, q>>] = None
    BY DEF InsertedAreNew
  <2>1. q # p /\ m \in discovery[q].inserted
    BY <1>5, IdleDiscoveryFits DEF IInv, TypeOK
  <2>2. m \in Mapping
    BY <2>1 DEF IInv, TypeOK, Discovery
  <2>3. <<m.instrument, q>> \in Key
    BY <2>2, ProvidersAssumption DEF Mapping, Key
  <2> QED
    BY <2>1, <2>3, <1>7 DEF IInv, InsertedAreNew
<1>14. PricedRowsExist'
  BY <1>4, <1>10 DEF IInv, PricedRowsExist
<1>15. CachedAreStored'
  BY <1>4, <1>10 DEF IInv, CachedAreStored
<1>16. EnabledPricesCached'
  <2> SUFFICES ASSUME ~unacked, NEW k \in Key, Enabled(row', k)
               PROVE  cache[k] = LoadPriceState(row', price)[k]
    BY <1>4 DEF EnabledPricesCached, Enabled, LoadPriceState
  <2>1. CASE row'[k] = row[k]
    BY <2>1 DEF IInv, EnabledPricesCached, Enabled, LoadPriceState
  <2>2. CASE row[k] = None
    BY <2>2 DEF IInv, PricedRowsExist, CachedAreStored, LoadPriceState
  <2> QED
    BY <2>1, <2>2, <1>7
<1> QED
  BY <1>9, <1>11, <1>12, <1>13, <1>14, <1>15, <1>16 DEF IInv

LEMMA SetPriceSourceInv ==
  ASSUME IInv, NEW i \in Instruments, NEW p \in Providers, NEW s \in Symbols,
         NEW e \in BOOLEAN, SetPriceSource(i, p, s, e)
  PROVE  IInv'
<1> DEFINE call == [instrument |-> i, provider |-> p, symbol |-> s, enabled |-> e,
                    seen |-> [q \in Providers |-> row[<<i, q>>]]]
<1>1. admin' = call
  BY DEF SetPriceSource
<1>2. UNCHANGED <<row, price, composition, cache, sync, discovery, unacked, raced, overtaken>>
  BY DEF SetPriceSource
<1>3. call \in AdminCall
  BY DEF AdminCall, IInv, TypeOK, Key
<1>4. AdminReadsKept'
  BY <1>1, <1>2 DEF AdminReadsKept, SetPriceSource
<1> HIDE DEF call
<1>5. TypeOK'
  BY <1>1, <1>2, <1>3 DEF IInv, TypeOK
<1>6. QuotedRowsExist' /\ InsertedAreNew' /\ PricedRowsExist' /\ CachedAreStored'
  BY <1>2 DEF IInv, QuotedRowsExist, InsertedAreNew, PricedRowsExist, CachedAreStored
<1>7. EnabledPricesCached'
  BY <1>2 DEF IInv, EnabledPricesCached, Enabled, LoadPriceState
<1> QED
  BY <1>4, <1>5, <1>6, <1>7 DEF IInv

LEMMA AdminAbortInv ==
  ASSUME IInv, AdminAbort
  PROVE  IInv'
<1>1. UNCHANGED <<row, price, composition, cache, sync, discovery, unacked, raced, overtaken>>
      /\ admin' = None
  BY DEF AdminAbort
<1>2. TypeOK' /\ AdminReadsKept'
  BY <1>1 DEF IInv, TypeOK, AdminReadsKept
<1>3. QuotedRowsExist' /\ InsertedAreNew' /\ PricedRowsExist' /\ CachedAreStored'
  BY <1>1 DEF IInv, QuotedRowsExist, InsertedAreNew, PricedRowsExist, CachedAreStored
<1>4. EnabledPricesCached'
  BY <1>1 DEF IInv, EnabledPricesCached, Enabled, LoadPriceState
<1> QED
  BY <1>2, <1>3, <1>4 DEF IInv

\* What the query returns is typed, and about existing rows.
LEMMA LoadPriceStateFits ==
  ASSUME NEW rows \in [Key -> Row \cup {None}], NEW prices \in [Key -> Quote \cup {None}]
  PROVE  /\ LoadPriceState(rows, prices) \in [Key -> CachedPrice \cup {None}]
         /\ \A k \in Key : LoadPriceState(rows, prices)[k] # None =>
              /\ rows[k] # None
              /\ prices[k] = LoadPriceState(rows, prices)[k].quote
              /\ rows[k].symbol = LoadPriceState(rows, prices)[k].symbol
<1>1. \A k \in Key : prices[k] # None /\ Enabled(rows, k) =>
        [symbol |-> rows[k].symbol, quote |-> prices[k]] \in CachedPrice
  BY DEF Enabled, Row, CachedPrice
<1>2. LoadPriceState(rows, prices) \in [Key -> CachedPrice \cup {None}]
  BY <1>1 DEF LoadPriceState
<1>3. \A k \in Key : LoadPriceState(rows, prices)[k] # None =>
        /\ rows[k] # None
        /\ prices[k] = LoadPriceState(rows, prices)[k].quote
        /\ rows[k].symbol = LoadPriceState(rows, prices)[k].symbol
  BY DEF LoadPriceState, Enabled
<1> QED
  BY <1>2, <1>3

\* The writes of SetPriceSource keep every row that exists, and every price
\* whose row keeps its symbol.
LEMMA AdminWritesFit ==
  ASSUME IInv, admin # None, ~AdminConflicts
  PROVE  /\ AdminRows \in [Key -> Row \cup {None}]
         /\ AdminPrices \in [Key -> Quote \cup {None}]
         /\ AdminKey \in Key
         /\ \A k \in Key : row[k] # None => AdminRows[k] # None
         /\ \A k \in Key : k # AdminKey /\ row[k] = None => AdminRows[k] = None
         /\ \A k \in Key : AdminPrices[k] # None =>
              /\ price[k] = AdminPrices[k]
              /\ row[k] # None
              /\ AdminRows[k].symbol = row[k].symbol
<1>1. admin \in AdminCall
  BY DEF IInv, TypeOK
<1>2. AdminKey \in Key /\ AdminRow \in Row
  BY <1>1 DEF AdminCall, AdminKey, AdminRow, Key, Row
<1>3. \A q \in DisabledByAdmin : row[<<admin.instrument, q>>] # None
  BY DEF DisabledByAdmin, IInv, AdminReadsKept
<1>4. \A k \in Key : k[1] = admin.instrument /\ k[2] \in DisabledByAdmin => row[k] \in Row
  BY <1>3 DEF Key, IInv, TypeOK
<1>5. \A k \in Key : AdminRows[k] =
        IF k = AdminKey THEN AdminRow
        ELSE IF k[1] = admin.instrument /\ k[2] \in DisabledByAdmin
        THEN [row[k] EXCEPT !.enabled = FALSE]
        ELSE row[k]
  BY DEF AdminRows
<1>6. \A k \in Key : k[1] = admin.instrument /\ k[2] \in DisabledByAdmin =>
        /\ [row[k] EXCEPT !.enabled = FALSE] \in Row
        /\ [row[k] EXCEPT !.enabled = FALSE].symbol = row[k].symbol
  BY <1>4 DEF Row
<1>7. \A k \in Key : AdminRows[k] \in Row \cup {None}
  BY <1>2, <1>5, <1>6 DEF IInv, TypeOK
<1>8. AdminRows \in [Key -> Row \cup {None}]
  BY <1>7 DEF AdminRows
<1>9. AdminPrices \in [Key -> Quote \cup {None}]
  BY DEF AdminPrices, IInv, TypeOK
<1>10. \A k \in Key : row[k] # None => AdminRows[k] # None
  BY <1>2, <1>5, <1>6, NoneAssumption
<1>11. \A k \in Key : k # AdminKey /\ row[k] = None => AdminRows[k] = None
  BY <1>4, <1>5, NoneAssumption
<1>12. \A k \in Key : AdminPrices[k] # None =>
         /\ price[k] = AdminPrices[k]
         /\ row[k] # None
         /\ k = AdminKey => ~SymbolChanged
  BY DEF AdminPrices, IInv, PricedRowsExist
<1>13. ASSUME NEW k \in Key, AdminPrices[k] # None
       PROVE  AdminRows[k].symbol = row[k].symbol
  <2>1. CASE k # AdminKey
    BY <2>1, <1>5, <1>6
  <2>2. CASE k = AdminKey /\ ~AdminInserts
    <3>1. row[k] = admin.seen[admin.provider]
      BY <2>2, <1>1 DEF AdminInserts, AdminKey, AdminCall, IInv, AdminReadsKept
    <3>2. AdminRows[k] = AdminRow
      BY <2>2, <1>5
    <3>3. admin.seen[admin.provider].symbol = admin.symbol
      BY <2>2, <1>12, <1>13 DEF SymbolChanged
    <3> QED
      BY <3>1, <3>2, <3>3 DEF AdminRow
  <2>3. CASE k = AdminKey /\ AdminInserts
    BY <2>3, <1>12, <1>13 DEF AdminConflicts
  <2> QED
    BY <2>1, <2>2, <2>3
<1> QED
  BY <1>2, <1>8, <1>9, <1>10, <1>11, <1>12, <1>13

\* What both outcomes of the commit do to the database.
LEMMA AdminStoreInv ==
  ASSUME IInv, AdminCanWrite, ~AdminConflicts,
         row' = AdminRows, price' = AdminPrices, RecordRaces, admin' = None,
         UNCHANGED <<composition, sync, discovery>>
  PROVE  /\ row' \in [Key -> Row \cup {None}]
         /\ price' \in [Key -> Quote \cup {None}]
         /\ raced' \in SUBSET Instruments
         /\ overtaken' \in SUBSET Key
         /\ \A k \in Key : row[k] # None => row'[k] # None
         /\ QuotedRowsExist'
         /\ AdminReadsKept'
         /\ InsertedAreNew'
         /\ PricedRowsExist'
<1>1. admin # None /\ admin \in AdminCall /\ ~AdminInsertWaits
  BY DEF AdminCanWrite, IInv, TypeOK
<1>2. /\ row' \in [Key -> Row \cup {None}]
      /\ price' \in [Key -> Quote \cup {None}]
      /\ AdminKey \in Key
      /\ \A k \in Key : row[k] # None => row'[k] # None
      /\ \A k \in Key : k # AdminKey /\ row[k] = None => row'[k] = None
      /\ \A k \in Key : price'[k] # None => row[k] # None
  BY <1>1, AdminWritesFit
<1>3. raced' \in SUBSET Instruments
  BY <1>1 DEF RecordRaces, AdminCall, IInv, TypeOK
<1>4. overtaken' \in SUBSET Key
  BY <1>2 DEF RecordRaces, IInv, TypeOK
<1>5. QuotedRowsExist'
  <2>1. \A q \in Synced : \A x \in sync[q].items \cup sync[q].answers : x.key \in Key
    BY DEF IInv, TypeOK, Sync, Item, Answer
  <2> QED
    BY <2>1, <1>2 DEF IInv, QuotedRowsExist
<1>6. AdminReadsKept'
  BY DEF AdminReadsKept
<1>7. InsertedAreNew'
  <2> SUFFICES ASSUME NEW q \in Discovered, NEW m \in discovery[q].inserted
               PROVE  row'[<<m.instrument, q>>] = None
    BY DEF InsertedAreNew
  <2>1. <<m.instrument, q>> \in Key
    BY ProvidersAssumption DEF IInv, TypeOK, Discovery, Mapping, Key
  <2>2. row[<<m.instrument, q>>] = None
    BY DEF IInv, InsertedAreNew
  <2>3. CASE <<m.instrument, q>> # AdminKey
    BY <2>1, <2>2, <2>3, <1>2
  <2>4. CASE <<m.instrument, q>> = AdminKey
    \* Either the call found the row, or its insert still waits for q.
    <3>1. m.instrument = admin.instrument /\ q = admin.provider
      BY <2>4 DEF AdminKey
    <3>2. AdminInserts
      BY <2>2, <2>4, <1>1 DEF AdminInserts, AdminKey, AdminCall, IInv, AdminReadsKept
    <3> QED
      BY <3>1, <3>2, <1>1 DEF AdminInsertWaits
  <2> QED
    BY <2>3, <2>4
<1>8. PricedRowsExist'
  BY <1>2 DEF PricedRowsExist
<1> QED
  BY <1>2, <1>3, <1>4, <1>5, <1>6, <1>7, <1>8

LEMMA AdminCommitInv ==
  ASSUME IInv, AdminCommit
  PROVE  IInv'
<1>1. /\ AdminCanWrite /\ ~AdminConflicts /\ RecordRaces /\ admin' = None
      /\ row' = AdminRows /\ price' = AdminPrices /\ cache' = AdminReload /\ unacked' = FALSE
      /\ UNCHANGED <<composition, sync, discovery>>
  BY DEF AdminCommit
<1>2. /\ row' \in [Key -> Row \cup {None}]
      /\ price' \in [Key -> Quote \cup {None}]
      /\ raced' \in SUBSET Instruments
      /\ overtaken' \in SUBSET Key
      /\ QuotedRowsExist' /\ AdminReadsKept' /\ InsertedAreNew' /\ PricedRowsExist'
  BY <1>1, AdminStoreInv
<1>3. cache' = LoadPriceState(row', price')
  BY <1>1 DEF AdminReload
<1>4. cache' \in [Key -> CachedPrice \cup {None}] /\ CachedAreStored'
  BY <1>2, <1>3, LoadPriceStateFits DEF CachedAreStored
<1>5. TypeOK'
  BY <1>1, <1>2, <1>4 DEF IInv, TypeOK
<1>6. EnabledPricesCached'
  BY <1>3 DEF EnabledPricesCached, LoadPriceState, Enabled
<1> QED
  BY <1>2, <1>4, <1>5, <1>6 DEF IInv

LEMMA AdminCommitUnackedInv ==
  ASSUME IInv, AdminCommitUnacked
  PROVE  IInv'
<1>1. /\ AdminCanWrite /\ ~AdminConflicts /\ RecordRaces /\ admin' = None
      /\ row' = AdminRows /\ price' = AdminPrices /\ unacked' = TRUE
      /\ UNCHANGED <<composition, cache, sync, discovery>>
  BY DEF AdminCommitUnacked
<1>2. /\ row' \in [Key -> Row \cup {None}]
      /\ price' \in [Key -> Quote \cup {None}]
      /\ raced' \in SUBSET Instruments
      /\ overtaken' \in SUBSET Key
      /\ \A k \in Key : row[k] # None => row'[k] # None
      /\ QuotedRowsExist' /\ AdminReadsKept' /\ InsertedAreNew' /\ PricedRowsExist'
  BY <1>1, AdminStoreInv
<1>3. TypeOK'
  BY <1>1, <1>2 DEF IInv, TypeOK
<1>4. CachedAreStored' /\ EnabledPricesCached'
  BY <1>1, <1>2 DEF IInv, CachedAreStored, EnabledPricesCached
<1> QED
  BY <1>2, <1>3, <1>4 DEF IInv

LEMMA ChangeCompositionInv ==
  ASSUME IInv, ChangeComposition
  PROVE  IInv'
<1>1. UNCHANGED <<row, price, cache, sync, discovery, admin, unacked, raced, overtaken>>
      /\ composition' \in SUBSET Instruments /\ admin = None
  BY DEF ChangeComposition, WriteLockFree
<1>2. TypeOK' /\ AdminReadsKept'
  BY <1>1 DEF IInv, TypeOK, AdminReadsKept
<1>3. QuotedRowsExist' /\ InsertedAreNew' /\ PricedRowsExist' /\ CachedAreStored'
  BY <1>1 DEF IInv, QuotedRowsExist, InsertedAreNew, PricedRowsExist, CachedAreStored
<1>4. EnabledPricesCached'
  BY <1>1 DEF IInv, EnabledPricesCached, Enabled, LoadPriceState
<1> QED
  BY <1>2, <1>3, <1>4 DEF IInv

\* Loading the price state again sets RAM to what is stored.
LEMMA ReloadInv ==
  ASSUME IInv, ReloadByHistorySync \/ Restart
  PROVE  IInv'
<1>1. /\ UNCHANGED <<row, price, composition, raced, overtaken>>
      /\ cache' = LoadPriceState(row, price) /\ unacked' = FALSE
      /\ sync' = sync \/ sync' = [p \in Synced |-> IdleSync]
      /\ discovery' = discovery \/ discovery' = [p \in Discovered |-> IdleDiscovery]
      /\ admin' = admin \/ admin' = None
  BY DEF ReloadByHistorySync, Restart
<1>2. cache' \in [Key -> CachedPrice \cup {None}] /\ CachedAreStored'
  BY <1>1, LoadPriceStateFits DEF IInv, TypeOK, CachedAreStored
<1>3. TypeOK'
  BY <1>1, <1>2, IdleSyncFits, IdleDiscoveryFits DEF IInv, TypeOK
<1>4. QuotedRowsExist' /\ InsertedAreNew'
  BY <1>1, IdleSyncFits, IdleDiscoveryFits DEF IInv, QuotedRowsExist, InsertedAreNew
<1>5. AdminReadsKept' /\ PricedRowsExist'
  BY <1>1 DEF IInv, AdminReadsKept, PricedRowsExist
<1>6. EnabledPricesCached'
  BY <1>1 DEF EnabledPricesCached, LoadPriceState, Enabled
<1> QED
  BY <1>2, <1>3, <1>4, <1>5, <1>6 DEF IInv

-----------------------------------------------------------------------------
LEMMA InitIInv == Init => IInv
<1> SUFFICES ASSUME Init PROVE IInv
  OBVIOUS
<1>1. TypeOK
  BY IdleSyncFits, IdleDiscoveryFits DEF Init, TypeOK
<1>2. QuotedRowsExist /\ InsertedAreNew
  BY IdleSyncFits, IdleDiscoveryFits DEF Init, QuotedRowsExist, InsertedAreNew
<1>3. AdminReadsKept /\ PricedRowsExist /\ CachedAreStored
  BY DEF Init, AdminReadsKept, PricedRowsExist, CachedAreStored
<1>4. EnabledPricesCached
  BY DEF Init, EnabledPricesCached, Enabled
<1> QED
  BY <1>1, <1>2, <1>3, <1>4 DEF IInv

LEMMA StutterIInv == IInv /\ UNCHANGED vars => IInv'
  BY DEF vars, IInv, TypeOK, QuotedRowsExist, AdminReadsKept, InsertedAreNew,
         PricedRowsExist, CachedAreStored, EnabledPricesCached, Enabled, LoadPriceState

LEMMA NextIInv == IInv /\ [Next]_vars => IInv'
<1> SUFFICES ASSUME IInv, [Next]_vars PROVE IInv'
  OBVIOUS
<1>1. ASSUME NEW p \in Synced, SyncStep(p) PROVE IInv'
  BY <1>1, SyncLoadInv, SyncReadSourcesInv, SyncFetchInv, SyncApplyInv,
     SyncApplyUnackedInv, SyncFailInv DEF SyncStep
<1>2. ASSUME NEW p \in Discovered, DiscoverStep(p) PROVE IInv'
  BY <1>2, DiscoverLoadInv, DiscoverCandidatesInv, DiscoverResolveInv, DiscoverCheckInv,
     DiscoverInsertInv, DiscoverCommitInv, DiscoverFailInv DEF DiscoverStep
<1>3. CASE AdminStep
  BY <1>3, SetPriceSourceInv, AdminCommitInv, AdminCommitUnackedInv, AdminAbortInv DEF AdminStep
<1>4. CASE ChangeComposition
  BY <1>4, ChangeCompositionInv
<1>5. CASE ReloadByHistorySync \/ Restart
  BY <1>5, ReloadInv
<1>6. CASE UNCHANGED vars
  BY <1>6, StutterIInv
<1> QED
  BY <1>1, <1>2, <1>3, <1>4, <1>5, <1>6 DEF Next

\* The strengthened invariant holds in every reachable state.
LEMMA InvariantHolds == Spec => []IInv
  BY InitIInv, NextIInv, PTL DEF Spec

\* Every variable keeps its type: no cached price without a quote, no answer
\* for a source that is not there.
THEOREM TypeCorrect == Spec => []TypeOK
<1>1. IInv => TypeOK
  BY DEF IInv
<1> QED
  BY <1>1, InvariantHolds, PTL

\* RAM holds what a restart would load for every enabled source, however many
\* syncs, discoveries and administrators work on the sources at once.
THEOREM EnabledPricesAlwaysCached == Spec => []EnabledPricesCached
<1>1. IInv => EnabledPricesCached
  BY DEF IInv
<1> QED
  BY <1>1, InvariantHolds, PTL

\* What a step does to the stored prices: a sync accepts answers for members
\* of the composition, an administrator forgets a price for the old symbol of
\* one.
LEMMA PriceSteps ==
  ASSUME IInv, [Next]_vars, NEW k \in Key
  PROVE  \/ price'[k] = price[k]
         \/ price'[k] = None /\ k[1] \in composition
         \/ price'[k] # None /\ Accepts(price[k], price'[k]) /\ k[1] \in composition
<1>1. CASE UNCHANGED price
  BY <1>1
<1>2. ASSUME NEW p \in Synced, StoreQuotes(AcceptedAnswers(p))
      PROVE  \/ price'[k] = price[k]
             \/ price'[k] # None /\ Accepts(price[k], price'[k]) /\ k[1] \in composition
  <2>1. CASE k \notin KeysOf(AcceptedAnswers(p))
    BY <1>2, <2>1 DEF StoreQuotes
  <2>2. CASE k \in KeysOf(AcceptedAnswers(p))
    <3>1. PICK a \in AcceptedAnswers(p) :
            a.key = k /\ QuoteFor(AcceptedAnswers(p), k) = a.quote
      BY <2>2, AcceptedAnswersFit
    <3>2. price'[k] = a.quote
      BY <1>2, <2>2, <3>1 DEF StoreQuotes
    <3>3. a \in Answer /\ Accepts(price[k], a.quote)
      BY <3>1, AcceptedAnswersFit
    <3>4. a.quote # None
      BY <3>3, NoneAssumption DEF Answer
    <3>5. k[1] \in composition
      BY <3>1 DEF AcceptedAnswers, ActiveAnswers
    <3> QED
      BY <3>2, <3>3, <3>4, <3>5
  <2> QED
    BY <2>1, <2>2
<1>3. ASSUME admin # None, price' = AdminPrices
      PROVE  price'[k] = price[k] \/ (price'[k] = None /\ k[1] \in composition)
  <2>1. CASE k # AdminKey
    <3>1. AdminPrices[k] = price[k]
      BY <2>1 DEF AdminPrices
    <3> QED
      BY <1>3, <3>1
  <2>2. CASE k = AdminKey
    <3>1. k[1] = admin.instrument
      BY <2>2 DEF AdminKey
    <3>2. k[1] \in composition
      BY <1>3, <3>1 DEF IInv, AdminReadsKept
    <3> QED
      BY <1>3, <3>2 DEF AdminPrices
  <2> QED
    BY <2>1, <2>2
<1>4. CASE \E p \in Synced : SyncStep(p)
  BY <1>1, <1>2, <1>4 DEF SyncStep, SyncLoad, SyncReadSources, SyncFetch, SyncApply,
     SyncApplyUnacked, SyncFail
<1>5. CASE \E p \in Discovered : DiscoverStep(p)
  BY <1>1, <1>5 DEF DiscoverStep, DiscoverLoad, DiscoverCandidates, DiscoverResolve,
     DiscoverCheck, DiscoverInsert, DiscoverCommit, DiscoverFail
<1>6. CASE AdminStep
  BY <1>1, <1>3, <1>6 DEF AdminStep, SetPriceSource, AdminCommit, AdminCommitUnacked,
     AdminCanWrite, AdminAbort
<1>7. CASE ChangeComposition \/ ReloadByHistorySync \/ Restart \/ UNCHANGED vars
  BY <1>1, <1>7 DEF ChangeComposition, ReloadByHistorySync, Restart, vars
<1> QED
  BY <1>4, <1>5, <1>6, <1>7 DEF Next

\* The price of an instrument changes only while the fund holds it.
THEOREM OnlyMembersArePriced == Spec => OnlyMembersPriced
<1>1. IInv /\ [Next]_vars =>
        [\A k \in Key : price'[k] # price[k] => k[1] \in composition]_vars
  BY PriceSteps
<1> QED
  BY <1>1, InvariantHolds, PTL DEF Spec, OnlyMembersPriced

\* A price readers see never goes back in time under the same symbol.
THEOREM PricesOnlyAdvance == Spec => PricesNeverRegress
<1> DEFINE Advances(k) ==
             /\ ~unacked
             /\ cache[k] # None
             /\ cache'[k] # None
             /\ cache'[k].symbol = cache[k].symbol
             => cache'[k].quote.at >= cache[k].quote.at
<1>1. ASSUME IInv, IInv', [Next]_vars, NEW k \in Key
      PROVE  Advances(k)
  <2> SUFFICES ASSUME ~unacked, cache[k] # None, cache'[k] # None
               PROVE  cache'[k].quote.at >= cache[k].quote.at
    OBVIOUS
  <2>1. price[k] = cache[k].quote /\ price[k] \in Quote
    BY <1>1, NoneAssumption DEF IInv, CachedAreStored, TypeOK, CachedPrice
  <2>2. price[k].at \in Nat
    BY <2>1, MaxTimeAssumption DEF Quote
  <2>3. CASE cache'[k] = cache[k]
    BY <2>1, <2>2, <2>3
  <2>4. CASE cache'[k] # cache[k] /\ ~unacked'
    <3>1. price'[k] = cache'[k].quote /\ price'[k] \in Quote
      BY <1>1, <2>4 DEF IInv, CachedAreStored, TypeOK, CachedPrice
    <3>2. price'[k] = price[k] \/ Accepts(price[k], price'[k])
      BY <1>1, <3>1, PriceSteps, NoneAssumption
    <3>3. price'[k].at >= price[k].at
      BY <2>1, <2>2, <3>2, NoneAssumption DEF Accepts
    <3> QED
      BY <2>1, <3>1, <3>3
  <2>5. CASE cache'[k] # cache[k] /\ unacked'
    \* Only a lost acknowledgement sets the flag, and it leaves RAM alone.
    <3>1. UNCHANGED cache \/ unacked' = FALSE \/ UNCHANGED unacked
      BY <1>1 DEF Next, vars, SyncStep, SyncLoad, SyncReadSources, SyncFetch, SyncApply,
         SyncApplyUnacked, SyncFail, DiscoverStep, DiscoverLoad, DiscoverCandidates,
         DiscoverResolve, DiscoverCheck, DiscoverInsert, DiscoverCommit, DiscoverFail,
         AdminStep, SetPriceSource, AdminCommit, AdminCommitUnacked, AdminAbort,
         ChangeComposition, ReloadByHistorySync, Restart
    <3> QED
      BY <2>5, <3>1
  <2> QED
    BY <1>1, <2>3, <2>4, <2>5 DEF IInv, TypeOK
<1>2. IInv /\ IInv' /\ [Next]_vars => [\A k \in Key : Advances(k)]_vars
  BY <1>1
<1> QED
  BY <1>2, InvariantHolds, PTL DEF Spec, PricesNeverRegress

-----------------------------------------------------------------------------
(***************************************************************************)
(* At most one source of an instrument is enabled, unless a discovery's    *)
(* transaction overlapped another one.                                     *)
(***************************************************************************)
EnabledAlone ==
  \A i \in Instruments \ raced : \A p, q \in Providers :
    Enabled(row, <<i, p>>) /\ Enabled(row, <<i, q>>) => p = q

\* What a transaction found unmapped still is, unless another one committed.
CheckedAreUnmapped ==
  \A p \in Discovered : \A i \in Checked(p) : i \notin raced => ~Mapped(i)

\* All of what SetPriceSource read still holds, unless a discovery committed a
\* row of the instrument meanwhile.
AdminSeesAll ==
  admin # None /\ admin.instrument \notin raced =>
    \A q \in Providers : row[<<admin.instrument, q>>] = admin.seen[q]

OneInv == EnabledAlone /\ CheckedAreUnmapped /\ AdminSeesAll

LEMMA CheckedFit ==
  ASSUME TypeOK, NEW p \in Discovered
  PROVE  /\ Checked(p) \subseteq Instruments
         /\ p \in Providers
         /\ {m.instrument : m \in discovery[p].inserted} \subseteq Checked(p)
BY ProvidersAssumption DEF TypeOK, Discovery, Mapping, Checked

\* Steps that write no source keep it when they check only unmapped instruments.
LEMMA OneKept ==
  ASSUME OneInv, UNCHANGED <<row, raced>>, AdminSeesAll',
         \A p \in Discovered : \A i \in Checked(p)' : i \in Checked(p) \/ ~Mapped(i)
  PROVE  OneInv'
<1>1. \A i : Mapped(i)' <=> Mapped(i)
  BY DEF Mapped
<1>2. EnabledAlone'
  BY DEF OneInv, EnabledAlone, Enabled
<1> QED
  BY <1>1, <1>2 DEF OneInv, CheckedAreUnmapped

LEMMA DiscoveryKeepsOne ==
  ASSUME IInv, OneInv, NEW p \in Discovered, DiscoverStep(p), ~DiscoverCommit(p)
  PROVE  OneInv'
<1>1. UNCHANGED <<row, raced, admin>>
  BY DEF DiscoverStep, DiscoverLoad, DiscoverCandidates, DiscoverResolve, DiscoverCheck,
         DiscoverInsert, DiscoverFail
<1>2. AdminSeesAll'
  BY <1>1 DEF OneInv, AdminSeesAll
<1>3. discovery \in [Discovered -> Discovery]
  BY DEF IInv, TypeOK
<1>4. \A q \in Discovered \ {p} : Checked(q)' = Checked(q)
  BY <1>3 DEF Checked, DiscoverStep, DiscoverLoad, DiscoverCandidates, DiscoverResolve,
     DiscoverCheck, DiscoverInsert, DiscoverFail
<1>5. ASSUME discovery'[p].item = None, discovery'[p].inserted = {}
      PROVE  Checked(p)' = {}
  BY <1>5 DEF Checked
<1>6. \A i \in Checked(p)' : i \in Checked(p) \/ ~Mapped(i)
  <2>1. CASE DiscoverLoad(p) \/ DiscoverCandidates(p) \/ DiscoverResolve(p) \/ DiscoverFail(p)
    <3>1. \A ph, me, to : 
            LET d == [IdleDiscovery EXCEPT !.phase = ph, !.members = me]
                e == [IdleDiscovery EXCEPT !.phase = ph, !.todo = to]
            IN d.item = None /\ d.inserted = {} /\ e.item = None /\ e.inserted = {}
      BY DEF IdleDiscovery
    <3>2. IdleDiscovery.item = None /\ IdleDiscovery.inserted = {}
      BY DEF IdleDiscovery
    <3>3. CASE DiscoverLoad(p) \/ DiscoverCandidates(p) \/ DiscoverFail(p)
      <4> DEFINE loaded == [IdleDiscovery EXCEPT !.phase = "loaded", !.members = composition]
                 candidates == {i \in discovery[p].members \cap Discoverable : ~Mapped(i)}
                 found == [IdleDiscovery EXCEPT !.phase = "resolving", !.members = candidates]
      <4>0. \/ discovery' = [discovery EXCEPT ![p] = loaded]
            \/ discovery' = [discovery EXCEPT ![p] = found]
            \/ discovery' = [discovery EXCEPT ![p] = IdleDiscovery]
        BY <3>3 DEF DiscoverLoad, DiscoverCandidates, DiscoverFail
      <4>3. /\ loaded.item = None /\ loaded.inserted = {}
            /\ found.item = None /\ found.inserted = {}
        BY <3>1
      <4> HIDE DEF loaded, found
      <4>1. PICK d : /\ discovery' = [discovery EXCEPT ![p] = d]
                     /\ d.item = None /\ d.inserted = {}
        BY <3>2, <4>0, <4>3
      <4>2. discovery'[p] = d
        BY <1>3, <4>1
      <4> QED
        BY <1>5, <4>1, <4>2
    <3>4. CASE DiscoverResolve(p)
      <4>1. discovery'[p].item = None /\ discovery'[p].inserted = {}
        BY <1>3, <3>1, <3>2, <3>4 DEF DiscoverResolve
      <4> QED
        BY <1>5, <4>1
    <3> QED
      BY <2>1, <3>3, <3>4
  <2>2. CASE DiscoverCheck(p)
    <3>1. PICK m \in discovery[p].todo :
            discovery' = [discovery EXCEPT
                            ![p].todo = @ \ {m},
                            ![p].item = IF SkipsMapped(m.instrument) THEN None ELSE m]
      BY <2>2 DEF DiscoverCheck
    <3>2. /\ discovery'[p].inserted = discovery[p].inserted
          /\ discovery'[p].item = IF SkipsMapped(m.instrument) THEN None ELSE m
      BY <1>3, <3>1 DEF Discovery
    <3> QED
      BY <3>2 DEF Checked, SkipsMapped
  <2>3. CASE DiscoverInsert(p) /\ discovery' = [discovery EXCEPT ![p] = IdleDiscovery]
    BY <1>3, <1>5, <2>3 DEF IdleDiscovery
  <2>4. CASE /\ DiscoverInsert(p)
             /\ discovery' = [discovery EXCEPT ![p].inserted = @ \cup {discovery[p].item},
                                               ![p].item = None]
    <3>1. /\ discovery'[p].inserted = discovery[p].inserted \cup {discovery[p].item}
          /\ discovery'[p].item = None
      BY <1>3, <2>4 DEF Discovery
    <3> QED
      BY <2>4, <3>1 DEF Checked, DiscoverInsert
  <2> QED
    BY <2>1, <2>2, <2>3, <2>4 DEF DiscoverStep, DiscoverInsert
<1> QED
  BY <1>1, <1>2, <1>4, <1>6, OneKept

\* The rows a discovery commits are the first ones of their instruments, or
\* the instruments are recorded as raced.
LEMMA DiscoverCommitKeepsOne ==
  ASSUME IInv, OneInv, NEW p \in Discovered, DiscoverCommit(p)
  PROVE  OneInv'
<1> DEFINE created == {m.instrument : m \in discovery[p].inserted}
<1>1. \A q \in Discovered : Checked(q) \subseteq Instruments /\ q \in Providers
  BY CheckedFit DEF IInv
<1>2. created \subseteq Checked(p)
  BY CheckedFit DEF IInv
<1>3. \A k \in Key : ~(k[2] = p /\ k[1] \in created) => row'[k] = row[k]
  BY DEF DiscoverCommit
<1>4. raced' = raced \cup {i \in created :
                             \/ \E q \in Discovered \ {p} : i \in Checked(q)
                             \/ admin # None /\ admin.instrument = i}
  BY DEF DiscoverCommit
<1>5. UNCHANGED admin /\ discovery' = [discovery EXCEPT ![p] = IdleDiscovery]
  BY DEF DiscoverCommit
<1> HIDE DEF created
<1>6. ASSUME NEW i \in Instruments, i \notin raced', NEW q \in Providers,
             ~(i \in created /\ q = p)
      PROVE  row'[<<i, q>>] = row[<<i, q>>]
  BY <1>3, <1>6 DEF Key
<1>7. EnabledAlone'
  <2> SUFFICES ASSUME NEW i \in Instruments, i \notin raced', NEW q \in Providers,
                      NEW r \in Providers, Enabled(row', <<i, q>>), Enabled(row', <<i, r>>)
               PROVE  q = r
    BY DEF EnabledAlone
  <2>1. i \notin raced
    BY <1>4
  <2>2. CASE i \in created
    <3>1. ~Mapped(i)
      BY <1>2, <2>1, <2>2 DEF OneInv, CheckedAreUnmapped
    <3>2. \A x \in Providers : Enabled(row', <<i, x>>) => x = p
      BY <1>6, <3>1 DEF Mapped, Enabled
    <3> QED
      BY <3>2
  <2>3. CASE i \notin created
    BY <1>6, <2>1, <2>3 DEF OneInv, EnabledAlone, Enabled
  <2> QED
    BY <2>2, <2>3
<1>8. CheckedAreUnmapped'
  <2> SUFFICES ASSUME NEW q \in Discovered, NEW i \in Checked(q)', i \notin raced'
               PROVE  ~Mapped(i)'
    BY DEF CheckedAreUnmapped
  <2>1. q # p
    BY <1>5 DEF Checked, IdleDiscovery, IInv, TypeOK
  <2>2. i \in Checked(q)
    BY <1>5, <2>1 DEF Checked, IInv, TypeOK
  <2>3. i \notin created /\ i \notin raced
    BY <1>4, <2>1, <2>2
  <2>4. \A x \in Providers : row'[<<i, x>>] = row[<<i, x>>]
    BY <1>1, <1>6, <2>2, <2>3
  <2> QED
    BY <2>2, <2>3, <2>4 DEF OneInv, CheckedAreUnmapped, Mapped
<1>9. AdminSeesAll'
  <2> SUFFICES ASSUME admin # None, admin.instrument \notin raced', NEW q \in Providers
               PROVE  row'[<<admin.instrument, q>>] = admin.seen[q]
    BY <1>5 DEF AdminSeesAll
  <2>1. admin.instrument \in Instruments
    BY DEF IInv, TypeOK, AdminCall
  <2>2. admin.instrument \notin created /\ admin.instrument \notin raced
    BY <1>4
  <2> QED
    BY <1>6, <2>1, <2>2 DEF OneInv, AdminSeesAll
<1> QED
  BY <1>7, <1>8, <1>9 DEF OneInv

\* The call disables every other source it read, which are all of them unless
\* a discovery raced it.
LEMMA AdminKeepsOne ==
  ASSUME IInv, OneInv, admin # None, row' = AdminRows, RecordRaces, admin' = None,
         UNCHANGED discovery
  PROVE  OneInv'
<1> DEFINE i0 == admin.instrument
           p0 == admin.provider
<1>1. i0 \in Instruments /\ p0 \in Providers /\ AdminKey = <<i0, p0>>
  BY DEF IInv, TypeOK, AdminCall, AdminKey
<1>2. \A k \in Key : k[1] # i0 => row'[k] = row[k]
  BY <1>1 DEF AdminRows, Key
<1>3. raced' = IF AdminRaces THEN raced \cup {i0}
               ELSE IF AdminHeals THEN raced \ {i0} ELSE raced
  BY DEF RecordRaces
<1>4. \A q \in Discovered : Checked(q)' = Checked(q)
  BY DEF Checked
<1> HIDE DEF i0
<1>5. \A i \in Instruments : i # i0 => /\ \A q \in Providers : row'[<<i, q>>] = row[<<i, q>>]
                                       /\ i \in raced' <=> i \in raced
  BY <1>2, <1>3 DEF Key
<1>6. EnabledAlone'
  <2> SUFFICES ASSUME NEW i \in Instruments, i \notin raced', NEW q \in Providers,
                      NEW r \in Providers, Enabled(row', <<i, q>>), Enabled(row', <<i, r>>)
               PROVE  q = r
    BY DEF EnabledAlone
  <2>1. CASE i # i0
    BY <1>5, <2>1 DEF OneInv, EnabledAlone, Enabled
  <2>2. CASE i = i0
    <3>1. i0 \notin raced \/ AdminHeals
      BY <1>3, <2>2
    <3>2. \A x \in Providers : row[<<i0, x>>] = admin.seen[x]
      BY <3>1 DEF AdminHeals, OneInv, AdminSeesAll, i0
    <3>3. \A x \in Providers \ {p0} :
            row'[<<i0, x>>] = IF x \in DisabledByAdmin
                              THEN [row[<<i0, x>>] EXCEPT !.enabled = FALSE]
                              ELSE row[<<i0, x>>]
      BY <1>1 DEF AdminRows, Key, i0
    <3>4. row'[<<i0, p0>>] = AdminRow
      BY <1>1 DEF AdminRows, Key
    <3>5. CASE admin.enabled
      <4>1. \A x \in Providers \ {p0} : Enabled(row, <<i0, x>>) <=> x \in DisabledByAdmin
        BY <3>2, <3>5 DEF Enabled, DisabledByAdmin
      <4>2. ASSUME NEW x \in Providers \ {p0} PROVE ~Enabled(row', <<i0, x>>)
        <5>1. CASE x \in DisabledByAdmin
          <6>1. row[<<i0, x>>] \in Row
            BY <1>1, <4>1, <5>1 DEF Enabled, IInv, TypeOK, Key
          <6> QED
            BY <3>3, <5>1, <6>1 DEF Enabled, Row
        <5>2. CASE x \notin DisabledByAdmin
          BY <3>3, <4>1, <5>2 DEF Enabled
        <5> QED
          BY <5>1, <5>2
      <4> QED
        BY <2>2, <4>2
    <3>6. CASE ~admin.enabled
      <4>1. i0 \notin raced
        BY <3>1, <3>6 DEF AdminHeals
      <4>2. DisabledByAdmin = {}
        BY <3>6 DEF DisabledByAdmin
      <4>3. ~Enabled(row', <<i0, p0>>)
        BY <3>4, <3>6 DEF Enabled, AdminRow
      <4>4. Enabled(row, <<i0, q>>) /\ Enabled(row, <<i0, r>>)
        BY <2>2, <3>3, <4>2, <4>3 DEF Enabled
      <4> QED
        BY <1>1, <4>1, <4>4 DEF OneInv, EnabledAlone
    <3> QED
      BY <3>5, <3>6 DEF IInv, TypeOK, AdminCall
  <2> QED
    BY <2>1, <2>2
<1>7. CheckedAreUnmapped'
  <2> SUFFICES ASSUME NEW q \in Discovered, NEW i \in Checked(q), i \notin raced'
               PROVE  ~Mapped(i)'
    BY <1>4 DEF CheckedAreUnmapped
  <2>1. i \in Instruments
    BY CheckedFit DEF IInv
  <2>2. i # i0
    BY <1>3 DEF AdminRaces, i0
  <2> QED
    BY <1>5, <2>1, <2>2 DEF OneInv, CheckedAreUnmapped, Mapped
<1>8. AdminSeesAll'
  BY DEF AdminSeesAll
<1> QED
  BY <1>6, <1>7, <1>8 DEF OneInv

LEMMA NextOneInv == IInv /\ OneInv /\ [Next]_vars => OneInv'
<1> SUFFICES ASSUME IInv, OneInv, [Next]_vars PROVE OneInv'
  OBVIOUS
<1>1. ASSUME UNCHANGED <<row, raced, admin, discovery>> PROVE OneInv'
  <2>1. \A p \in Discovered : Checked(p)' = Checked(p)
    BY <1>1 DEF Checked
  <2>2. AdminSeesAll'
    BY <1>1 DEF OneInv, AdminSeesAll
  <2> QED
    BY <1>1, <2>1, <2>2, OneKept
<1>2. CASE \E p \in Synced : SyncStep(p)
  BY <1>1, <1>2 DEF SyncStep, SyncLoad, SyncReadSources, SyncFetch, SyncApply,
     SyncApplyUnacked, SyncFail
<1>3. CASE \E p \in Discovered : DiscoverStep(p)
  BY <1>3, DiscoveryKeepsOne, DiscoverCommitKeepsOne
<1>4. ASSUME NEW i \in Instruments, NEW p \in Providers, NEW s \in Symbols, NEW e \in BOOLEAN,
             SetPriceSource(i, p, s, e)
      PROVE  OneInv'
  <2>1. UNCHANGED <<row, raced, discovery>>
    BY <1>4 DEF SetPriceSource
  <2>2. admin'.instrument = i /\ admin'.seen = [q \in Providers |-> row[<<i, q>>]]
    BY <1>4 DEF SetPriceSource
  <2>3. AdminSeesAll'
    BY <2>1, <2>2 DEF AdminSeesAll
  <2>4. \A q \in Discovered : Checked(q)' = Checked(q)
    BY <2>1 DEF Checked
  <2> QED
    BY <2>1, <2>3, <2>4, OneKept
<1>5. CASE AdminCommit \/ AdminCommitUnacked
  BY <1>5, AdminKeepsOne DEF AdminCommit, AdminCommitUnacked, AdminCanWrite
<1>6. CASE AdminAbort \/ Restart
  <2>1. UNCHANGED <<row, raced>> /\ admin' = None
    BY <1>6 DEF AdminAbort, Restart
  <2>2. \A p \in Discovered : Checked(p)' = Checked(p) \/ Checked(p)' = {}
    BY <1>6 DEF AdminAbort, Restart, Checked, IdleDiscovery
  <2>3. AdminSeesAll'
    BY <2>1 DEF AdminSeesAll
  <2> QED
    BY <2>1, <2>2, <2>3, OneKept
<1>7. CASE ChangeComposition \/ ReloadByHistorySync \/ UNCHANGED vars
  BY <1>1, <1>7 DEF ChangeComposition, ReloadByHistorySync, vars
<1> QED
  BY <1>2, <1>3, <1>4, <1>5, <1>6, <1>7 DEF Next, AdminStep

LEMMA InitOneInv == Init => OneInv
<1> SUFFICES ASSUME Init PROVE OneInv
  OBVIOUS
<1>1. EnabledAlone /\ AdminSeesAll
  BY DEF Init, EnabledAlone, AdminSeesAll, Enabled, Key
<1>2. \A p \in Discovered : Checked(p) = {}
  BY DEF Init, Checked, IdleDiscovery
<1> QED
  BY <1>1, <1>2 DEF OneInv, CheckedAreUnmapped

\* Two sources of an instrument are enabled together only after a discovery's
\* transaction overlapped another one, for any number of providers.
THEOREM OneAlwaysEnabled == Spec => []OneEnabledUnlessRaced
<1>1. OneInv => OneEnabledUnlessRaced
  <2> SUFFICES ASSUME OneInv, NEW i \in Instruments, i \notin raced
               PROVE  Cardinality({p \in Providers : Enabled(row, <<i, p>>)}) <= 1
    BY DEF OneEnabledUnlessRaced
  <2> DEFINE S == {p \in Providers : Enabled(row, <<i, p>>)}
  <2>1. \A p, q \in S : p = q
    BY DEF OneInv, EnabledAlone
  <2>2. S = {} \/ \E p \in S : S = {p}
    BY <2>1
  <2> HIDE DEF S
  <2>3. Cardinality(S) = 0 \/ Cardinality(S) = 1
    BY <2>2, FS_EmptySet, FS_Singleton
  <2> QED
    BY <2>3 DEF S
<1>2. Spec => []OneInv
  BY InvariantHolds, InitOneInv, NextOneInv, PTL DEF Spec
<1> QED
  BY <1>1, <1>2, PTL

-----------------------------------------------------------------------------
(***************************************************************************)
(* A stored price is for the symbol of its source.                         *)
(***************************************************************************)
PricesFit ==
  \A k \in Key : k \notin overtaken /\ price[k] # None => price[k].of = row[k].symbol

\* A sync asks each source of its provider once, for the symbol the source
\* still has.
ItemsFit ==
  \A p \in Synced : \A x \in sync[p].items :
    /\ x.key[2] = p
    /\ x.key \notin overtaken => x.symbol = row[x.key].symbol
    /\ \A y \in sync[p].items : x.key = y.key => x = y

AnswersFit ==
  \A p \in Synced : \A x \in sync[p].answers :
    /\ x.key[2] = p
    /\ x.key \notin overtaken => x.quote.of = row[x.key].symbol
    /\ \A y \in sync[p].answers : x.key = y.key => x = y

FitInv == PricesFit /\ ItemsFit /\ AnswersFit

\* A step that only moves a sync.
LEMMA FitMoves ==
  ASSUME FitInv, NEW p \in Synced, NEW s \in Sync, sync \in [Synced -> Sync],
         sync' = [sync EXCEPT ![p] = s],
         UNCHANGED <<row, price, overtaken>>,
         \A x \in s.items :
           /\ x.key[2] = p
           /\ x.key \notin overtaken => x.symbol = row[x.key].symbol
           /\ \A y \in s.items : x.key = y.key => x = y,
         \A x \in s.answers :
           /\ x.key[2] = p
           /\ x.key \notin overtaken => x.quote.of = row[x.key].symbol
           /\ \A y \in s.answers : x.key = y.key => x = y
  PROVE  FitInv'
<1>1. sync'[p] = s /\ \A q \in Synced \ {p} : sync'[q] = sync[q]
  OBVIOUS
<1>2. PricesFit'
  BY DEF FitInv, PricesFit
<1>3. ItemsFit'
  BY <1>1 DEF FitInv, ItemsFit
<1>4. AnswersFit'
  BY <1>1 DEF FitInv, AnswersFit
<1> QED
  BY <1>2, <1>3, <1>4 DEF FitInv

LEMMA SyncReadsFit ==
  ASSUME IInv, FitInv, NEW p \in Synced, SyncLoad(p) \/ SyncReadSources(p) \/ SyncFail(p)
  PROVE  FitInv'
<1> DEFINE items == PriceItems(p, sync[p].members)
           loaded == [IdleSync EXCEPT !.phase = "loaded", !.members = composition]
           asked == [IdleSync EXCEPT !.phase = "fetching", !.items = items]
<1>1. sync \in [Synced -> Sync] /\ composition \in SUBSET Instruments
  BY DEF IInv, TypeOK
<1>2. \A x \in items : /\ x \in Item /\ x.key[2] = p /\ x.symbol = row[x.key].symbol
                       /\ \A y \in items : x.key = y.key => x = y
  BY DEF PriceItems, Enabled, Item, Row, IInv, TypeOK
<1>3. /\ loaded \in Sync /\ loaded.items = {} /\ loaded.answers = {}
      /\ asked \in Sync /\ asked.items = items /\ asked.answers = {}
  BY <1>1, <1>2 DEF IdleSync, Sync
<1>4. UNCHANGED <<row, price, overtaken>>
  BY DEF SyncLoad, SyncReadSources, SyncFail
<1>5. \/ sync' = [sync EXCEPT ![p] = loaded]
      \/ sync' = [sync EXCEPT ![p] = asked]
      \/ sync' = [sync EXCEPT ![p] = IdleSync]
  BY DEF SyncLoad, SyncReadSources, SyncFail
<1> HIDE DEF items, loaded, asked
<1>6. CASE sync' = [sync EXCEPT ![p] = loaded]
  BY <1>1, <1>3, <1>4, <1>6, FitMoves
<1>7. CASE sync' = [sync EXCEPT ![p] = asked]
  BY <1>1, <1>2, <1>3, <1>4, <1>7, FitMoves
<1>8. CASE sync' = [sync EXCEPT ![p] = IdleSync]
  BY <1>1, <1>4, <1>8, IdleSyncFits, FitMoves
<1> QED
  BY <1>5, <1>6, <1>7, <1>8

LEMMA SyncFetchFits ==
  ASSUME IInv, FitInv, NEW p \in Synced, SyncFetch(p)
  PROVE  FitInv'
<1>1. sync \in [Synced -> Sync] /\ sync[p].items \in SUBSET Item
  BY DEF IInv, TypeOK, Sync
<1>2. PICK answered \in SUBSET {item.symbol : item \in sync[p].items} :
      \E value \in [answered -> Values], at \in [answered -> 1..MaxTime] :
        LET answers == {[key |-> item.key,
                         quote |-> [of |-> item.symbol,
                                    value |-> value[item.symbol],
                                    at |-> at[item.symbol]]] :
                          item \in {x \in sync[p].items : x.symbol \in answered}}
        IN sync' = [sync EXCEPT ![p] =
                      IF answers = {} THEN IdleSync
                      ELSE [IdleSync EXCEPT !.phase = "fetched", !.answers = answers]]
  BY DEF SyncFetch
<1>3. PICK value \in [answered -> Values], at \in [answered -> 1..MaxTime] :
        LET answers == {[key |-> item.key,
                         quote |-> [of |-> item.symbol,
                                    value |-> value[item.symbol],
                                    at |-> at[item.symbol]]] :
                          item \in {x \in sync[p].items : x.symbol \in answered}}
        IN sync' = [sync EXCEPT ![p] =
                      IF answers = {} THEN IdleSync
                      ELSE [IdleSync EXCEPT !.phase = "fetched", !.answers = answers]]
  BY <1>2
<1> DEFINE answers == {[key |-> item.key,
                        quote |-> [of |-> item.symbol,
                                   value |-> value[item.symbol],
                                   at |-> at[item.symbol]]] :
                         item \in {x \in sync[p].items : x.symbol \in answered}}
           s == [IdleSync EXCEPT !.phase = "fetched", !.answers = answers]
<1>4. \A a \in answers : \E x \in sync[p].items :
        /\ a.key = x.key
        /\ a.quote.of = x.symbol
        /\ a = [key |-> x.key, quote |-> [of |-> x.symbol, value |-> value[x.symbol],
                                         at |-> at[x.symbol]]]
  OBVIOUS
<1>5. answers \subseteq Answer
  BY <1>1 DEF Item, Answer, Quote
<1>6. s \in Sync /\ s.items = {} /\ s.answers = answers
  BY <1>5 DEF IdleSync, Sync
<1>7. UNCHANGED <<row, price, overtaken>>
  BY DEF SyncFetch
<1> HIDE DEF answers
<1>8. \A x \in answers : /\ x.key[2] = p
                         /\ x.key \notin overtaken => x.quote.of = row[x.key].symbol
                         /\ \A y \in answers : x.key = y.key => x = y
  BY <1>4 DEF FitInv, ItemsFit
<1>9. CASE sync' = [sync EXCEPT ![p] = IdleSync]
  BY <1>1, <1>7, <1>9, IdleSyncFits, FitMoves
<1>10. CASE sync' = [sync EXCEPT ![p] = s]
  <2> HIDE DEF s
  <2>1. \A x \in s.answers : /\ x.key[2] = p
                             /\ x.key \notin overtaken => x.quote.of = row[x.key].symbol
                             /\ \A y \in s.answers : x.key = y.key => x = y
    BY <1>6, <1>8
  <2>2. s \in Sync /\ \A x \in s.items : FALSE
    BY <1>6
  <2> QED
    BY <1>1, <1>7, <1>10, <2>1, <2>2, FitMoves
<1> QED
  BY <1>3, <1>9, <1>10 DEF answers

\* Storing an answer for the source's symbol ends what overtook the source; no
\* other sync holds anything for it.
LEMMA SyncStoreFits ==
  ASSUME IInv, FitInv, NEW p \in Synced, SyncApply(p) \/ SyncApplyUnacked(p)
  PROVE  FitInv'
<1> DEFINE answers == AcceptedAnswers(p)
<1>1. sync \in [Synced -> Sync]
  BY DEF IInv, TypeOK
<1>2. /\ answers \subseteq sync[p].answers
      /\ \A a \in answers : a \in Answer
      /\ \A k \in KeysOf(answers) :
           \E a \in answers : a.key = k /\ QuoteFor(answers, k) = a.quote
  BY AcceptedAnswersFit
<1>3. row' = row /\ sync' = [sync EXCEPT ![p] = IdleSync]
  BY DEF SyncApply, SyncApplyUnacked
<1>4. price' = [k \in Key |-> IF k \in KeysOf(answers) THEN QuoteFor(answers, k) ELSE price[k]]
  BY DEF SyncApply, SyncApplyUnacked, StoreQuotes
<1>5. \A k : k \in overtaken' <=>
              /\ k \in overtaken
              /\ \A a \in answers : a.key = k => a.quote.of # row[k].symbol
  BY DEF SyncApply, SyncApplyUnacked, ForgetOvertaken
<1> HIDE DEF answers
<1>6. \A a \in answers : /\ a.key[2] = p
                         /\ a.key \notin overtaken => a.quote.of = row[a.key].symbol
                         /\ \A b \in answers : a.key = b.key => a = b
  BY <1>2 DEF FitInv, AnswersFit
<1>7. PricesFit'
  <2> SUFFICES ASSUME NEW k \in Key, k \notin overtaken', price'[k] # None
               PROVE  price'[k].of = row[k].symbol
    BY <1>3 DEF PricesFit
  <2>1. CASE k \in KeysOf(answers)
    <3>1. PICK a \in answers : a.key = k /\ QuoteFor(answers, k) = a.quote
      BY <1>2, <2>1
    <3>2. price'[k] = a.quote
      BY <1>4, <2>1, <3>1
    <3>3. k \notin overtaken \/ \E b \in answers : b.key = k /\ b.quote.of = row[k].symbol
      BY <1>5
    <3>4. a.quote.of = row[k].symbol
      BY <1>6, <3>1, <3>3
    <3> QED
      BY <3>2, <3>4
  <2>2. CASE k \notin KeysOf(answers)
    <3>1. k \notin overtaken
      BY <1>5, <2>2 DEF KeysOf
    <3> QED
      BY <1>4, <2>2, <3>1 DEF FitInv, PricesFit
  <2> QED
    BY <2>1, <2>2
<1>8. \A q \in Synced : /\ q = p => sync'[q].items = {} /\ sync'[q].answers = {}
                        /\ q # p => sync'[q] = sync[q]
  BY <1>1, <1>3, IdleSyncFits
<1>9. \A k : k[2] # p => (k \in overtaken' <=> k \in overtaken)
  <2> SUFFICES ASSUME NEW k, k[2] # p PROVE k \in overtaken' <=> k \in overtaken
    OBVIOUS
  <2>1. \A a \in answers : a.key # k
    BY <1>6
  <2> QED
    BY <1>5, <2>1
<1>10. ItemsFit'
  <2> SUFFICES ASSUME NEW q \in Synced, NEW x \in sync'[q].items
               PROVE  /\ x.key[2] = q
                      /\ x.key \notin overtaken' => x.symbol = row[x.key].symbol
                      /\ \A y \in sync'[q].items : x.key = y.key => x = y
    BY <1>3 DEF ItemsFit
  <2>1. q # p /\ sync'[q] = sync[q]
    BY <1>8
  <2> QED
    BY <1>9, <2>1 DEF FitInv, ItemsFit
<1>11. AnswersFit'
  <2> SUFFICES ASSUME NEW q \in Synced, NEW x \in sync'[q].answers
               PROVE  /\ x.key[2] = q
                      /\ x.key \notin overtaken' => x.quote.of = row[x.key].symbol
                      /\ \A y \in sync'[q].answers : x.key = y.key => x = y
    BY <1>3 DEF AnswersFit
  <2>1. q # p /\ sync'[q] = sync[q]
    BY <1>8
  <2> QED
    BY <1>9, <2>1 DEF FitInv, AnswersFit
<1> QED
  BY <1>7, <1>10, <1>11 DEF FitInv

\* A step that changes no symbol of a source somebody holds something about,
\* and forgets prices only.
LEMMA FitKept ==
  ASSUME IInv, FitInv, UNCHANGED sync,
         \A k \in Key : price'[k] = price[k] \/ price'[k] = None,
         overtaken \subseteq overtaken',
         \A k \in Key : row[k] # None =>
           \/ row'[k].symbol = row[k].symbol
           \/ /\ price'[k] = None
              /\ (\E p \in Synced : k \in KeysOf(sync[p].items) \cup KeysOf(sync[p].answers))
                   => k \in overtaken'
  PROVE  FitInv'
<1>1. PricesFit'
  BY DEF FitInv, PricesFit, IInv, PricedRowsExist
<1>2. \A p \in Synced :
        /\ \A x \in sync[p].items : x.key \in Key /\ row[x.key] # None
        /\ \A x \in sync[p].answers : x.key \in Key /\ row[x.key] # None
  BY DEF IInv, TypeOK, Sync, Item, Answer, QuotedRowsExist
<1>3. ItemsFit'
  <2> SUFFICES ASSUME NEW p \in Synced, NEW x \in sync[p].items, x.key \notin overtaken'
               PROVE  x.symbol = row'[x.key].symbol
    BY DEF FitInv, ItemsFit
  <2>1. x.key \in KeysOf(sync[p].items)
    BY DEF KeysOf
  <2> QED
    BY <1>2, <2>1 DEF FitInv, ItemsFit
<1>4. AnswersFit'
  <2> SUFFICES ASSUME NEW p \in Synced, NEW x \in sync[p].answers, x.key \notin overtaken'
               PROVE  x.quote.of = row'[x.key].symbol
    BY DEF FitInv, AnswersFit
  <2>1. x.key \in KeysOf(sync[p].answers)
    BY DEF KeysOf
  <2> QED
    BY <1>2, <2>1 DEF FitInv, AnswersFit
<1> QED
  BY <1>1, <1>3, <1>4 DEF FitInv

LEMMA DiscoveryKeepsFit ==
  ASSUME IInv, FitInv, NEW p \in Discovered, DiscoverStep(p)
  PROVE  FitInv'
<1>1. UNCHANGED <<price, sync, overtaken>>
  BY DEF DiscoverStep, DiscoverLoad, DiscoverCandidates, DiscoverResolve, DiscoverCheck,
         DiscoverInsert, DiscoverCommit, DiscoverFail
<1>2. \A k \in Key : row[k] # None => row'[k] = row[k]
  <2>1. CASE DiscoverCommit(p)
    <3> DEFINE created == {m.instrument : m \in discovery[p].inserted}
    <3>1. \A k \in Key : ~(k[2] = p /\ k[1] \in created) => row'[k] = row[k]
      BY <2>1 DEF DiscoverCommit
    <3>2. \A i \in created : row[<<i, p>>] = None
      BY DEF IInv, InsertedAreNew
    <3> HIDE DEF created
    <3> QED
      BY <3>1, <3>2 DEF Key
  <2>2. CASE ~DiscoverCommit(p)
    BY <2>2 DEF DiscoverStep, DiscoverLoad, DiscoverCandidates, DiscoverResolve,
       DiscoverCheck, DiscoverInsert, DiscoverFail
  <2> QED
    BY <2>1, <2>2
<1> QED
  BY <1>1, <1>2, FitKept

LEMMA AdminKeepsFit ==
  ASSUME IInv, FitInv, admin # None, ~AdminConflicts, row' = AdminRows, price' = AdminPrices,
         RecordRaces, UNCHANGED sync
  PROVE  FitInv'
<1>1. admin \in AdminCall /\ AdminKey \in Key
  BY AdminWritesFit DEF IInv, TypeOK
<1>2. \A k \in Key : price'[k] = price[k] \/ price'[k] = None
  BY DEF AdminPrices
<1>3. overtaken \subseteq overtaken'
  BY DEF RecordRaces
<1>4. ASSUME NEW k \in Key, row[k] # None
      PROVE  \/ row'[k].symbol = row[k].symbol
             \/ /\ price'[k] = None
                /\ (\E p \in Synced : k \in KeysOf(sync[p].items) \cup KeysOf(sync[p].answers))
                   => k \in overtaken'
  <2>1. CASE k # AdminKey
    <3>1. row[k] \in Row
      BY <1>4 DEF IInv, TypeOK
    <3>2. [row[k] EXCEPT !.enabled = FALSE].symbol = row[k].symbol
      BY <3>1 DEF Row
    <3> QED
      BY <2>1, <3>2 DEF AdminRows
  <2>2. CASE k = AdminKey /\ ~SymbolChanged
    <3>1. ~AdminInserts
      BY <1>4, <2>2 DEF AdminConflicts
    <3>2. row[k] = admin.seen[admin.provider]
      BY <2>2, <3>1, <1>1 DEF AdminInserts, AdminKey, AdminCall, IInv, AdminReadsKept
    <3>3. row'[k] = AdminRow
      BY <2>2 DEF AdminRows
    <3> QED
      BY <2>2, <3>1, <3>2, <3>3 DEF SymbolChanged, AdminRow
  <2>3. CASE k = AdminKey /\ SymbolChanged
    BY <2>3 DEF AdminPrices, RecordRaces
  <2> QED
    BY <2>1, <2>2, <2>3
<1> QED
  BY <1>2, <1>3, <1>4, FitKept

LEMMA NextFitInv == IInv /\ FitInv /\ [Next]_vars => FitInv'
<1> SUFFICES ASSUME IInv, FitInv, [Next]_vars PROVE FitInv'
  OBVIOUS
<1>1. CASE UNCHANGED <<row, price, overtaken, sync>>
  BY <1>1, FitKept
<1>2. ASSUME NEW p \in Synced, SyncStep(p) PROVE FitInv'
  BY <1>2, SyncReadsFit, SyncFetchFits, SyncStoreFits DEF SyncStep
<1>3. CASE \E p \in Discovered : DiscoverStep(p)
  BY <1>3, DiscoveryKeepsFit
<1>4. CASE AdminStep
  <2>1. CASE AdminCommit \/ AdminCommitUnacked
    BY <2>1, AdminKeepsFit DEF AdminCommit, AdminCommitUnacked, AdminCanWrite
  <2>2. CASE ~(AdminCommit \/ AdminCommitUnacked)
    BY <1>1, <1>4, <2>2 DEF AdminStep, SetPriceSource, AdminAbort
  <2> QED
    BY <2>1, <2>2
<1>5. CASE Restart
  <2>1. UNCHANGED <<row, price, overtaken>>
    BY <1>5 DEF Restart
  <2>2. \A p \in Synced : sync'[p].items = {} /\ sync'[p].answers = {}
    BY <1>5, IdleSyncFits DEF Restart
  <2> QED
    BY <2>1, <2>2 DEF FitInv, PricesFit, ItemsFit, AnswersFit
<1>6. CASE ChangeComposition \/ ReloadByHistorySync \/ UNCHANGED vars
  BY <1>1, <1>6 DEF ChangeComposition, ReloadByHistorySync, vars
<1> QED
  BY <1>2, <1>3, <1>4, <1>5, <1>6 DEF Next

LEMMA InitFitInv == Init => FitInv
BY IdleSyncFits DEF Init, FitInv, PricesFit, ItemsFit, AnswersFit

\* A stored price is for the symbol its source has now, for any number of
\* sources and syncs, unless the symbol was changed under a running sync.
THEOREM QuotesAreForTheirSymbols == Spec => []QuoteForSymbolUnlessOvertaken
<1>1. FitInv => QuoteForSymbolUnlessOvertaken
  BY DEF FitInv, PricesFit, QuoteForSymbolUnlessOvertaken
<1>2. Spec => []FitInv
  BY InvariantHolds, InitFitInv, NextFitInv, PTL DEF Spec
<1> QED
  BY <1>1, <1>2, PTL

-----------------------------------------------------------------------------
(* What SetPriceSource waits for.                                            *)

\* Only a discovery whose transaction is open holds rows and a list of what is
\* left to create.
TransactionOpen(d) ==
  /\ d.inserted # {} \/ d.item # None => d.phase = "creating"
  /\ IsFiniteSet(d.todo)

TransactionsOpen == \A p \in Discovered : TransactionOpen(discovery[p])

\* How many statements the transaction of p has left.
TransactionLeft(p) ==
  IF discovery[p].phase # "creating" THEN 0
  ELSE 1 + 2 * Cardinality(discovery[p].todo) + (IF discovery[p].item = None THEN 0 ELSE 1)

\* The insert of SetPriceSource waits for the transaction of p.
Awaited(p) == admin # None /\ AdminInsertWaits /\ admin.provider = p

\* SetPriceSource, which holds the write lock, waits only for a transaction that
\* is open, and whatever is done meanwhile, by anybody, that transaction is left
\* alone or has fewer statements left: it creates no further rows than those it
\* had to, and asks its provider nothing before it ends.
WaitsShorten ==
  [][\A p \in Discovered : Awaited(p) =>
       /\ discovery[p].phase = "creating"
       /\ discovery'[p] # discovery[p] => TransactionLeft(p)' < TransactionLeft(p)]_vars

LEMMA IdleIsClosed == TransactionOpen(IdleDiscovery) /\ IdleDiscovery.phase = "idle"
BY FS_EmptySet DEF TransactionOpen, IdleDiscovery

\* What a discovery resolves is finite, as the fund is.
LEMMA ResolvedFinite ==
  ASSUME IsFiniteSet(Instruments), IInv, NEW p \in Discovered, DiscoverResolve(p)
  PROVE  TransactionOpen(discovery'[p])
<1>1. discovery[p].members \in SUBSET Instruments
  BY DEF IInv, TypeOK, Discovery
<1>2. PICK resolved \in SUBSET discovery[p].members : \E symbol \in [resolved -> Symbols] :
        discovery' = [discovery EXCEPT ![p] =
                        IF resolved = {} THEN IdleDiscovery
                        ELSE [IdleDiscovery EXCEPT
                                !.phase = "creating",
                                !.todo = {[instrument |-> i, symbol |-> symbol[i]] :
                                            i \in resolved}]]
  BY DEF DiscoverResolve
<1>3. PICK symbol \in [resolved -> Symbols] :
        discovery' = [discovery EXCEPT ![p] =
                        IF resolved = {} THEN IdleDiscovery
                        ELSE [IdleDiscovery EXCEPT
                                !.phase = "creating",
                                !.todo = {[instrument |-> i, symbol |-> symbol[i]] :
                                            i \in resolved}]]
  BY <1>2
<1> DEFINE todo == {[instrument |-> i, symbol |-> symbol[i]] : i \in resolved}
           mapping == [i \in resolved |-> [instrument |-> i, symbol |-> symbol[i]]]
<1>4. IsFiniteSet(todo)
  <2>1. IsFiniteSet(resolved)
    BY <1>1, FS_Subset
  <2>2. mapping \in Surjection(resolved, todo)
    BY DEF Surjection
  <2> QED
    BY <2>1, <2>2, FS_Surjection
<1>5. discovery'[p] = IF resolved = {} THEN IdleDiscovery
                      ELSE [IdleDiscovery EXCEPT !.phase = "creating", !.todo = todo]
  BY <1>3 DEF IInv, TypeOK
<1> HIDE DEF todo
<1> QED
  BY <1>4, <1>5, IdleIsClosed DEF IdleDiscovery, TransactionOpen

\* A step of an open transaction ends it or leaves it fewer statements.
LEMMA TransactionStep ==
  ASSUME TypeOK, NEW p \in Discovered, TransactionOpen(discovery[p]),
         discovery[p].phase = "creating", DiscoverStep(p)
  PROVE  /\ TransactionOpen(discovery'[p])
         /\ TransactionLeft(p)' < TransactionLeft(p)
<1> DEFINE d == discovery[p]
<1>1. /\ d \in Discovery /\ IsFiniteSet(d.todo) /\ Cardinality(d.todo) \in Nat
      /\ TransactionLeft(p) \in Nat \ {0}
  BY FS_CardinalityType DEF TypeOK, TransactionOpen, TransactionLeft
<1>2. ASSUME discovery' = [discovery EXCEPT ![p] = IdleDiscovery]
      PROVE  TransactionOpen(discovery'[p]) /\ TransactionLeft(p)' = 0
  <2>1. discovery'[p] = IdleDiscovery
    BY <1>2 DEF TypeOK
  <2> QED
    BY <2>1, IdleIsClosed DEF TransactionLeft
<1>3. CASE DiscoverCheck(p)
  <2>1. PICK m \in d.todo :
          discovery' = [discovery EXCEPT ![p].todo = @ \ {m},
                                         ![p].item = IF SkipsMapped(m.instrument) THEN None ELSE m]
    BY <1>3 DEF DiscoverCheck
  <2>2. discovery'[p].todo = d.todo \ {m} /\ discovery'[p].phase = "creating"
    BY <1>1, <2>1 DEF TypeOK, Discovery
  <2>3. /\ IsFiniteSet(d.todo \ {m})
        /\ Cardinality(d.todo \ {m}) = Cardinality(d.todo) - 1
    BY <1>1, FS_RemoveElement
  <2>4. d.item = None
    BY <1>3 DEF DiscoverCheck
  <2> QED
    BY <1>1, <2>2, <2>3, <2>4 DEF TransactionOpen, TransactionLeft
<1>4. CASE DiscoverInsert(p)
  <2>1. CASE row[<<d.item.instrument, p>>] # None
    BY <1>1, <1>2, <1>4, <2>1 DEF DiscoverInsert
  <2>2. CASE row[<<d.item.instrument, p>>] = None
    <3>1. /\ discovery'[p].todo = d.todo /\ discovery'[p].phase = "creating"
          /\ discovery'[p].item = None /\ d.item # None
      BY <1>1, <1>4, <2>2 DEF DiscoverInsert, TypeOK, Discovery
    <3> QED
      BY <1>1, <3>1 DEF TransactionOpen, TransactionLeft
  <2> QED
    BY <2>1, <2>2
<1>5. CASE DiscoverCommit(p) \/ DiscoverFail(p)
  BY <1>1, <1>2, <1>5 DEF DiscoverCommit, DiscoverFail
<1>6. ~DiscoverLoad(p) /\ ~DiscoverCandidates(p) /\ ~DiscoverResolve(p)
  BY DEF DiscoverLoad, DiscoverCandidates, DiscoverResolve
<1> QED
  BY <1>3, <1>4, <1>5, <1>6 DEF DiscoverStep

\* The steps that come before the transaction hold nothing of it.
LEMMA StepBeforeTransaction ==
  ASSUME IsFiniteSet(Instruments), IInv, NEW p \in Discovered, DiscoverStep(p),
         discovery[p].phase # "creating", TransactionOpen(discovery[p])
  PROVE  TransactionOpen(discovery'[p])
<1>1. ASSUME NEW d, d.inserted = {}, d.item = None, d.todo = {}
      PROVE  TransactionOpen(d)
  BY <1>1, FS_EmptySet DEF TransactionOpen
<1>2. CASE DiscoverLoad(p)
  <2>1. discovery'[p] = [IdleDiscovery EXCEPT !.phase = "loaded", !.members = composition]
    BY <1>2 DEF DiscoverLoad, IInv, TypeOK
  <2>2. discovery'[p].inserted = {} /\ discovery'[p].item = None /\ discovery'[p].todo = {}
    BY <2>1 DEF IdleDiscovery
  <2> QED
    BY <1>1, <2>2
<1>3. CASE DiscoverCandidates(p)
  <2>1. \E candidates :
          discovery'[p] \in {IdleDiscovery, [IdleDiscovery EXCEPT !.phase = "resolving",
                                                                  !.members = candidates]}
    BY <1>3 DEF DiscoverCandidates, IInv, TypeOK
  <2>2. PICK candidates :
          discovery'[p] \in {IdleDiscovery, [IdleDiscovery EXCEPT !.phase = "resolving",
                                                                 !.members = candidates]}
    BY <2>1
  <2>3. CASE discovery'[p] = IdleDiscovery
    BY <2>3, IdleIsClosed
  <2>4. CASE discovery'[p] = [IdleDiscovery EXCEPT !.phase = "resolving",
                                                   !.members = candidates]
    <3>1. discovery'[p].inserted = {} /\ discovery'[p].item = None /\ discovery'[p].todo = {}
      BY <2>4 DEF IdleDiscovery
    <3> QED
      BY <1>1, <3>1
  <2> QED
    BY <2>2, <2>3, <2>4
<1>4. CASE DiscoverResolve(p)
  BY <1>4, ResolvedFinite
<1>5. CASE DiscoverFail(p)
  BY <1>5, IdleIsClosed DEF DiscoverFail, IInv, TypeOK
<1>6. ~DiscoverCheck(p) /\ ~DiscoverInsert(p) /\ ~DiscoverCommit(p)
  BY DEF DiscoverCheck, DiscoverInsert, DiscoverCommit, DiscoveryDone, TransactionOpen
<1> QED
  BY <1>2, <1>3, <1>4, <1>5, <1>6 DEF DiscoverStep

\* Nobody but its own job and a restart touches a discovery.
LEMMA DiscoveryTouched ==
  ASSUME TypeOK, [Next]_vars, NEW p \in Discovered
  PROVE  \/ discovery'[p] = discovery[p]
         \/ DiscoverStep(p)
         \/ discovery'[p] = IdleDiscovery
<1>1. ASSUME NEW q \in Discovered, q # p, DiscoverStep(q)
      PROVE  discovery'[p] = discovery[p]
  BY <1>1 DEF TypeOK, DiscoverStep, DiscoverLoad, DiscoverCandidates, DiscoverResolve,
              DiscoverCheck, DiscoverInsert, DiscoverCommit, DiscoverFail
<1>2. ASSUME NEW q \in Synced, SyncStep(q)
      PROVE  discovery' = discovery
  BY <1>2 DEF SyncStep, SyncLoad, SyncReadSources, SyncFetch, SyncApply, SyncApplyUnacked,
              SyncFail
<1>3. CASE AdminStep
  BY <1>3 DEF AdminStep, SetPriceSource, AdminCommit, AdminCommitUnacked, AdminAbort
<1>4. CASE ChangeComposition \/ ReloadByHistorySync \/ UNCHANGED vars
  BY <1>4 DEF ChangeComposition, ReloadByHistorySync, vars
<1>5. CASE Restart
  BY <1>5 DEF Restart
<1> QED
  BY <1>1, <1>2, <1>3, <1>4, <1>5 DEF Next

LEMMA NextTransactionsOpen ==
  ASSUME IsFiniteSet(Instruments), IInv, TransactionsOpen, [Next]_vars
  PROVE  TransactionsOpen'
<1> SUFFICES ASSUME NEW p \in Discovered PROVE TransactionOpen(discovery'[p])
  BY DEF TransactionsOpen, TransactionOpen
<1>1. TypeOK /\ TransactionOpen(discovery[p])
  BY DEF IInv, TransactionsOpen
<1> QED
  BY <1>1, DiscoveryTouched, TransactionStep, StepBeforeTransaction, IdleIsClosed

LEMMA WaitStep ==
  ASSUME IInv, TransactionsOpen, [Next]_vars, NEW p \in Discovered, Awaited(p)
  PROVE  /\ discovery[p].phase = "creating"
         /\ discovery'[p] # discovery[p] => TransactionLeft(p)' < TransactionLeft(p)
<1>1. TypeOK /\ TransactionOpen(discovery[p])
  BY DEF IInv, TransactionsOpen
<1>2. discovery[p].phase = "creating"
  BY <1>1 DEF Awaited, AdminInsertWaits, TransactionOpen
<1>3. CASE DiscoverStep(p)
  BY <1>1, <1>2, <1>3, TransactionStep
<1>4. CASE discovery'[p] = IdleDiscovery
  <2>1. TransactionLeft(p) \in Nat \ {0}
    BY <1>1, <1>2, FS_CardinalityType DEF TransactionOpen, TransactionLeft
  <2>2. TransactionLeft(p)' = 0
    BY <1>4, IdleIsClosed DEF TransactionLeft
  <2> QED
    BY <1>2, <2>1, <2>2
<1> QED
  BY <1>1, <1>2, <1>3, <1>4, DiscoveryTouched

\* For any number of discoveries and any finite fund: the transaction that
\* SetPriceSource waits for has a number of statements left that nothing which
\* happens meanwhile adds to.
THEOREM WaitsAlwaysShorten ==
  ASSUME IsFiniteSet(Instruments) PROVE Spec => WaitsShorten
<1>1. Init => TransactionsOpen
  BY IdleIsClosed DEF Init, TransactionsOpen
<1>2. IInv /\ TransactionsOpen /\ [Next]_vars => TransactionsOpen'
  BY NextTransactionsOpen
<1>3. IInv /\ TransactionsOpen /\ [Next]_vars =>
        [\A p \in Discovered : Awaited(p) =>
           /\ discovery[p].phase = "creating"
           /\ discovery'[p] # discovery[p] => TransactionLeft(p)' < TransactionLeft(p)]_vars
  BY WaitStep
<1> QED
  BY <1>1, <1>2, <1>3, InvariantHolds, PTL DEF Spec, WaitsShorten
=============================================================================
