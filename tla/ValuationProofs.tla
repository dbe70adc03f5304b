--------------------------- MODULE ValuationProofs ---------------------------
(***************************************************************************)
(* Theorems about Valuation, for any instruments, providers, symbols,      *)
(* callers and number of snapshots: what is stored belongs to its source,  *)
(* RAM has what is stored, and the live value is of the current inputs.    *)
(***************************************************************************)
EXTENDS Valuation, TLAPS

\* Whatever is polled, priced or has a stored baseline has a source.
RowsExist ==
  /\ \A s \in Source : s \in polled \/ prices[s] # None => row[s] # None
  /\ \A i \in Instruments : stored[i] # None => row[stored[i].source] # None

\* A price in RAM has the symbol of its source, which a found baseline is
\* compared with.
PricesForSymbol ==
  ~unacked => \A s \in Source : prices[s] # None => prices[s].symbol = row[s].symbol

\* No caller and no valuation is of a snapshot to come.
NotAhead ==
  /\ valuation # None => valuation.snapshot <= snapshot
  /\ \A c \in Callers : call[c] # None => call[c].snapshot <= snapshot

\* While there is no valuation of the snapshot, the baselines that a caller
\* read for it are still those that are stored.
KnownIsStored ==
  ~Current /\ ~unacked => \A c \in Callers : ReadyToApply(c) =>
    \A i \in Instruments \ dropped : call[c].known[i] = Labelled(stored, row)[i]

IInv ==
  /\ TypeOK
  /\ RowsExist
  /\ PricesForSymbol
  /\ NotAhead
  /\ KnownIsStored
  /\ StoredForSymbol
  /\ BaselinesStoredUnlessDropped
  /\ LiveCurrentUnlessOwed

-----------------------------------------------------------------------------
(* What the operators of an apply return. *)

LEMMA LabelledType ==
  ASSUME TypeOK, RowsExist
  PROVE  Labelled(stored, row) \in Baselines
<1> SUFFICES ASSUME NEW i \in Instruments, stored[i] # None
             PROVE  [source |-> stored[i].source, symbol |-> row[stored[i].source].symbol,
                     of |-> stored[i].of] \in Baseline
  BY DEF Labelled, Baselines
<1>1. stored[i] \in StoredBaseline
  BY DEF TypeOK
<1>2. stored[i].source \in Source /\ stored[i].of \in Symbols
  BY <1>1 DEF StoredBaseline
<1>3. row[stored[i].source] \in Row
  BY <1>2 DEF TypeOK, RowsExist
<1> QED
  BY <1>2, <1>3 DEF Baseline, Row

LEMMA LoadType ==
  ASSUME NEW rows \in [Source -> Row \cup {None}], NEW quotes \in [Source -> Values \cup {None}]
  PROVE  /\ LoadPriceState(rows, quotes) \in [Source -> Price \cup {None}]
         /\ \A s \in Source : LoadPriceState(rows, quotes)[s] # None =>
              rows[s] # None /\ LoadPriceState(rows, quotes)[s].symbol = rows[s].symbol
<1>1. ASSUME NEW s \in Source, rows[s] # None, quotes[s] # None
      PROVE  [symbol |-> rows[s].symbol, value |-> quotes[s]] \in Price
  <2>1. rows[s] \in Row /\ quotes[s] \in Values
    BY <1>1
  <2> QED
    BY <2>1 DEF Row, Price
<1> QED
  BY <1>1 DEF LoadPriceState

LEMMA CalculateType ==
  ASSUME TypeOK, NEW baselines \in Baselines
  PROVE  Calculate(baselines) \in Live
<1>1. ASSUME NEW i \in Instruments, Usable(baselines[i])
      PROVE  [price |-> prices[baselines[i].source],
              rate |-> IF baselines[i].source[2] \in InRoubles THEN rate ELSE None,
              baseline |-> baselines[i]] \in Part
  <2>1. baselines[i] \in Baseline
    BY <1>1 DEF Baselines, Usable
  <2>2. baselines[i].source \in Source
    BY <2>1 DEF Baseline
  <2>3. prices[baselines[i].source] \in Price
    BY <1>1, <2>2 DEF Usable, TypeOK
  <2>4. rate \in Rates \cup {None}
    BY DEF TypeOK
  <2> QED
    BY <2>1, <2>3, <2>4 DEF Part
<1>2. rate \in Rates \cup {None}
  BY DEF TypeOK
<1> QED
  BY <1>1, <1>2 DEF Calculate, Live

LEMMA ForChosen ==
  ASSUME NEW changes, NEW i, Changes(changes, i)
  PROVE  For(changes, i) \in changes /\ For(changes, i).source[1] = i
  BY DEF Changes, For

LEMMA FoundType ==
  ASSUME TypeOK, NEW c \in Callers, call[c] # None, NEW changes \in Found(c)
  PROVE  /\ changes \in SUBSET Wanted
         /\ \A x \in changes : /\ x.source \in Source /\ x.symbol \in Symbols
                               /\ prices[x.source] # None /\ prices[x.source].symbol = x.symbol
<1>1. call[c].wanted \in SUBSET Wanted
  BY DEF TypeOK, Call
<1>2. PICK found \in SUBSET call[c].wanted : changes = Applicable(found, Base(c))
  BY DEF Found
<1> QED
  BY <1>1, <1>2 DEF Applicable, Wanted

LEMMA BaseType ==
  ASSUME TypeOK, NEW c \in Callers, call[c] # None
  PROVE  Base(c) \in Baselines
<1>1. Current => valuation.baselines \in Baselines
  BY DEF TypeOK, Current, State
<1>2. call[c].known \in Baselines
  BY DEF TypeOK, Call
<1> QED
  BY <1>1, <1>2 DEF Base

LEMMA WithChangesType ==
  ASSUME NEW base \in Baselines, NEW changes \in SUBSET Wanted
  PROVE  WithChanges(base, changes) \in Baselines
<1>1. ASSUME NEW i \in Instruments, Changes(changes, i)
      PROVE  [source |-> For(changes, i).source, symbol |-> For(changes, i).symbol,
              of |-> For(changes, i).symbol] \in Baseline
  BY <1>1, ForChosen DEF Wanted, Baseline
<1> QED
  BY <1>1 DEF WithChanges, Baselines

LEMMA StoredWithType ==
  ASSUME TypeOK, NEW changes \in SUBSET Wanted
  PROVE  /\ StoredWith(changes) \in [Instruments -> StoredBaseline \cup {None}]
         /\ \A i \in Instruments : Changes(changes, i) => StoredWith(changes)[i] \in StoredBaseline
<1>1. ASSUME NEW i \in Instruments, Changes(changes, i)
      PROVE  [source |-> For(changes, i).source, of |-> For(changes, i).symbol,
              behind |-> unacked] \in StoredBaseline
  <2>1. unacked \in BOOLEAN
    BY DEF TypeOK
  <2> QED
    BY <1>1, <2>1, ForChosen DEF Wanted, StoredBaseline
<1>2. stored \in [Instruments -> StoredBaseline \cup {None}]
  BY DEF TypeOK
<1> QED
  BY <1>1, <1>2 DEF StoredWith

LEMMA NewStateType ==
  ASSUME TypeOK, NEW c \in Callers, call[c] # None, NEW changes \in Found(c)
  PROVE  NewState(c, changes) \in State
<1>1. WithChanges(Base(c), changes) \in Baselines
  BY BaseType, FoundType, WithChangesType
<1>2. Calculate(WithChanges(Base(c), changes)) \in Live
  BY <1>1, CalculateType
<1>3. snapshot \in 1..MaxSnapshot
  BY DEF TypeOK
<1> QED
  BY <1>1, <1>2, <1>3 DEF NewState, State

LEMMA OwesType ==
  ASSUME TypeOK, NEW kind \in {"start", "refresh", "recalculate"}
  PROVE  Owes(kind) \in Call /\ NoBaselines \in Baselines
<1>1. NoBaselines \in Baselines
  BY DEF NoBaselines, Baselines
<1>2. snapshot \in 1..MaxSnapshot
  BY DEF TypeOK
<1> QED
  BY <1>1, <1>2 DEF Owes, Call

-----------------------------------------------------------------------------
(* Types and rows. *)

LEMMA SetSourceRowsType ==
  ASSUME TypeOK, RowsExist, NEW s \in Source, NEW new \in Row, SetSourceRows(s, new)
  PROVE  /\ row' \in [Source -> Row \cup {None}]
         /\ row'[s] = new
         /\ \A t \in Source : row[t] # None => row'[t] # None
         /\ \A t \in Source \ {s} : row[t] # None => row'[t].symbol = row[t].symbol
         /\ stored' \in [Instruments -> StoredBaseline \cup {None}]
         /\ quote' \in [Source -> Values \cup {None}]
         /\ dropped' \in SUBSET Instruments
         /\ polled' \in SUBSET Source
         /\ polled' \subseteq polled \cup {s}
<1>1. ASSUME NEW t \in Source, row[t] # None
      PROVE  /\ [row[t] EXCEPT !.enabled = FALSE] \in Row
             /\ [row[t] EXCEPT !.enabled = FALSE].symbol = row[t].symbol
  <2>1. row[t] \in Row
    BY <1>1 DEF TypeOK
  <2> QED
    BY <2>1 DEF Row
<1>2. row' = RowsAfter(s, new)
  BY DEF SetSourceRows
<1>3. row' \in [Source -> Row \cup {None}]
  BY <1>1, <1>2 DEF RowsAfter, TypeOK
<1>4. row'[s] = new
  BY <1>2 DEF RowsAfter
<1>5. \A t \in Source : row[t] # None => row'[t] # None
  BY <1>1, <1>2, NoneAssumption DEF RowsAfter, TypeOK
<1>6. \A t \in Source \ {s} : row[t] # None => row'[t].symbol = row[t].symbol
  BY <1>1, <1>2 DEF RowsAfter
<1>7. /\ stored' \in [Instruments -> StoredBaseline \cup {None}]
      /\ quote' \in [Source -> Values \cup {None}]
      /\ dropped' \in SUBSET Instruments
      /\ polled' \in SUBSET Source
      /\ polled' \subseteq polled \cup {s}
  BY DEF SetSourceRows, Deleted, TypeOK
<1> QED
  BY <1>3, <1>4, <1>5, <1>6, <1>7

LEMMA InputsKeepTypes ==
  ASSUME TypeOK, RowsExist, NEW c \in Callers, Input(c)
  PROVE  TypeOK'
<1>0. Owes("refresh") \in Call /\ Owes("recalculate") \in Call /\ NoBaselines \in Baselines
  BY OwesType
<1>1. CASE \E s \in Source : PriceArrives(c, s)
  <2>1. PICK s \in Source : PriceArrives(c, s)
    BY <1>1
  <2>2. row[s] \in Row
    BY <2>1 DEF PriceArrives, TypeOK, RowsExist
  <2>3. PICK v \in Values : /\ quote' = [quote EXCEPT ![s] = v]
                            /\ prices' = [prices EXCEPT ![s] = [symbol |-> row[s].symbol, value |-> v]]
    BY <2>1 DEF PriceArrives
  <2>4. [symbol |-> row[s].symbol, value |-> v] \in Price
    BY <2>2 DEF Row, Price
  <2> QED
    BY <1>0, <2>1, <2>3, <2>4 DEF PriceArrives, TypeOK
<1>2. CASE RateArrives(c)
  BY <1>0, <1>2 DEF RateArrives, TypeOK
<1>3. CASE \E s \in Source, new \in Row : SetSource(c, s, new)
  <2>1. PICK s \in Source, new \in Row : SetSource(c, s, new)
    BY <1>3
  <2>2. SetSourceRows(s, new)
    BY <2>1 DEF SetSource
  <2>3. prices' \in [Source -> Price \cup {None}]
    BY <2>1, <2>2, SetSourceRowsType, LoadType DEF SetSource
  <2> QED
    BY <1>0, <2>1, <2>2, <2>3, SetSourceRowsType DEF SetSource, TypeOK
<1>4. CASE NewSnapshot(c)
  <2>1. snapshot + 1 \in 1..MaxSnapshot
    BY <1>4, MaxSnapshotAssumption DEF NewSnapshot, TypeOK
  <2>2. [Owes("refresh") EXCEPT !.snapshot = snapshot + 1] \in Call
    BY <1>0, <2>1 DEF Call
  <2>3. stored' \in [Instruments -> StoredBaseline \cup {None}]
    BY <1>4 DEF NewSnapshot, NoBaselines
  <2> QED
    BY <1>4, <2>1, <2>2, <2>3 DEF NewSnapshot, TypeOK
<1>5. CASE HourlyRefresh(c)
  BY <1>0, <1>5 DEF HourlyRefresh, TypeOK
<1> QED
  BY <1>1, <1>2, <1>3, <1>4, <1>5 DEF Input

LEMMA LoadedCall ==
  ASSUME TypeOK, NEW c \in Callers, Load(c)
  PROVE  /\ call' \in [Callers -> Call \cup {None}]
         /\ call'[c] # None /\ call'[c].snapshot = snapshot
<1>1. PICK w : /\ w \in IF call[c].kind = "recalculate" THEN {{}} ELSE Choices
               /\ call' = [call EXCEPT
                    ![c].snapshot = snapshot,
                    ![c].phase = IF Current THEN "ready" ELSE "loading",
                    ![c].wanted = IF Current THEN Missing(w, valuation.baselines) ELSE w]
  BY DEF Load
<1>2. w \in SUBSET Wanted
  <2>1. ASSUME NEW s \in Source, prices[s] # None
        PROVE  [source |-> s, symbol |-> prices[s].symbol] \in Wanted
    <3>1. prices[s] \in Price
      BY <2>1 DEF TypeOK
    <3> QED
      BY <3>1 DEF Price, Wanted
  <2> QED
    BY <1>1, <2>1 DEF Choices
<1>3. Missing(w, valuation.baselines) \in SUBSET Wanted
  BY <1>2 DEF Missing
<1>4. call[c] \in Call /\ snapshot \in 1..MaxSnapshot
  BY DEF Load, TypeOK
<1>5. call' \in [Callers -> Call \cup {None}] /\ call'[c] \in Call /\ call'[c].snapshot = snapshot
  BY <1>1, <1>2, <1>3, <1>4 DEF Call, TypeOK
<1> QED
  BY <1>5, NoneAssumption

LEMMA ReadCall ==
  ASSUME TypeOK, RowsExist, NEW c \in Callers, ReadStored(c)
  PROVE  /\ call' \in [Callers -> Call \cup {None}]
         /\ call'[c] # None /\ call'[c].snapshot = call[c].snapshot
<1>1. PICK known : /\ known \in Baselines
                   /\ call' = [call EXCEPT ![c].phase = "ready",
                                           ![c].known = known,
                                           ![c].wanted = Missing(@, known)]
  BY LabelledType, OwesType DEF ReadStored
<1>2. call[c] \in Call
  BY DEF ReadStored, TypeOK
<1>3. Missing(call[c].wanted, known) \in SUBSET Wanted
  BY <1>2 DEF Missing, Call
<1>4. /\ call' \in [Callers -> Call \cup {None}]
      /\ call'[c] \in Call /\ call'[c].snapshot = call[c].snapshot
  BY <1>1, <1>2, <1>3 DEF Call, TypeOK
<1> QED
  BY <1>4, NoneAssumption

LEMMA StepsKeepTypes ==
  ASSUME TypeOK, RowsExist, NEW c \in Callers, Step(c)
  PROVE  TypeOK'
<1>1. CASE Load(c)
  BY <1>1, LoadedCall DEF Load, TypeOK
<1>2. CASE ReadStored(c)
  BY <1>2, ReadCall DEF ReadStored, TypeOK
<1>3. CASE Apply(c)
  <2>1. PICK changes \in Found(c) :
          IF changes # {} \/ Differs(NewState(c, changes))
          THEN /\ stored' = StoredWith(changes)
               /\ valuation' = NewState(c, changes)
               /\ dropped' = dropped \ Changed(changes)
          ELSE UNCHANGED <<stored, valuation, dropped>>
    BY <1>3 DEF Apply
  <2>2. call[c] # None
    BY <1>3 DEF Apply, ReadyToApply
  <2>3. NewState(c, changes) \in State
    BY <2>2, NewStateType
  <2>4. StoredWith(changes) \in [Instruments -> StoredBaseline \cup {None}]
    BY <2>2, FoundType, StoredWithType
  <2> QED
    BY <1>3, <2>1, <2>3, <2>4 DEF Apply, TypeOK
<1>4. CASE ApplyUnacked(c)
  <2>1. PICK changes \in Found(c) : /\ stored' = StoredWith(changes)
                                    /\ unacked' = (unacked \/ changes # {})
    BY <1>4 DEF ApplyUnacked
  <2>2. call[c] # None
    BY <1>4 DEF ApplyUnacked, ReadyToApply
  <2>3. StoredWith(changes) \in [Instruments -> StoredBaseline \cup {None}]
    BY <2>2, FoundType, StoredWithType
  <2> QED
    BY <1>4, <2>1, <2>3 DEF ApplyUnacked, TypeOK
<1>5. CASE Overtaken(c)
  BY <1>5 DEF Overtaken, TypeOK
<1>6. CASE Fail(c)
  BY <1>6 DEF Fail, TypeOK
<1> QED
  BY <1>1, <1>2, <1>3, <1>4, <1>5, <1>6 DEF Step

LEMMA RestartCalls ==
  ASSUME TypeOK, Restart
  PROVE  /\ call' \in [Callers -> Call \cup {None}]
         /\ \E c \in Callers : call'[c] = Owes("start")
         /\ \A c \in Callers : call'[c] # None => call'[c] = Owes("start")
<1>1. PICK c \in Callers : call' = [d \in Callers |-> IF d = c THEN Owes("start") ELSE None]
  BY DEF Restart
<1>2. Owes("start") \in Call
  BY OwesType
<1> QED
  BY <1>1, <1>2

LEMMA TypesKept ==
  ASSUME TypeOK, RowsExist, Next
  PROVE  TypeOK'
<1>1. CASE \E c \in Callers : Input(c) \/ Step(c)
  BY <1>1, InputsKeepTypes, StepsKeepTypes
<1>2. CASE \E s \in Source : Discover(s)
  BY <1>2 DEF Discover, Row, TypeOK
<1>3. CASE \E s \in Source : PriceArrivesUnacked(s)
  BY <1>3 DEF PriceArrivesUnacked, TypeOK
<1>4. CASE \E s \in Source, new \in Row : SetSourceUnacked(s, new)
  <2>1. PICK s \in Source, new \in Row : SetSourceUnacked(s, new)
    BY <1>4
  <2>2. SetSourceRows(s, new)
    BY <2>1 DEF SetSourceUnacked
  <2> QED
    BY <2>1, <2>2, SetSourceRowsType DEF SetSourceUnacked, TypeOK
<1>5. CASE ReloadByHistorySync
  <2>1. prices' \in [Source -> Price \cup {None}]
    BY <1>5, LoadType DEF ReloadByHistorySync, TypeOK
  <2> QED
    BY <1>5, <2>1 DEF ReloadByHistorySync, TypeOK
<1>6. CASE Restart
  <2>1. prices' \in [Source -> Price \cup {None}]
    BY <1>6, LoadType DEF Restart, TypeOK
  <2> QED
    BY <1>6, <2>1, RestartCalls DEF Restart, TypeOK
<1> QED
  BY <1>1, <1>2, <1>3, <1>4, <1>5, <1>6 DEF Next

\* The actions that change neither a source nor a price in RAM nor what is
\* stored.
Quiet ==
  \/ \E c \in Callers : \/ RateArrives(c) \/ HourlyRefresh(c) \/ Load(c)
                        \/ ReadStored(c) \/ Overtaken(c) \/ Fail(c)
  \/ \E s \in Source : PriceArrivesUnacked(s)

LEMMA QuietKeeps ==
  ASSUME Quiet
  PROVE  UNCHANGED <<snapshot, held, row, prices, polled, stored, valuation, dropped>>
  BY DEF Quiet, RateArrives, HourlyRefresh, Load, ReadStored, Overtaken, Fail, PriceArrivesUnacked

LEMMA RowsKept ==
  ASSUME TypeOK, RowsExist, Next
  PROVE  RowsExist'
<1>1. CASE \E c \in Callers, s \in Source : PriceArrives(c, s)
  BY <1>1 DEF PriceArrives, RowsExist, TypeOK
<1>2. CASE Quiet
  BY <1>2, QuietKeeps DEF RowsExist
<1>3. ASSUME NEW s \in Source, NEW new \in Row, SetSourceRows(s, new),
             prices' = prices \/ prices' = LoadPriceState(row', quote')
      PROVE  RowsExist'
  <2>1. ASSUME NEW t \in Source, t \in polled' \/ prices'[t] # None
        PROVE  row'[t] # None
    <3>1. CASE t = s
      BY <1>3, <3>1, SetSourceRowsType, NoneAssumption
    <3>2. CASE t # s /\ t \in polled'
      BY <1>3, <3>2, SetSourceRowsType DEF RowsExist
    <3>3. CASE prices' = prices /\ prices'[t] # None
      BY <1>3, <3>3, SetSourceRowsType DEF RowsExist
    <3>4. CASE prices' = LoadPriceState(row', quote') /\ prices'[t] # None
      BY <1>3, <3>4, SetSourceRowsType, LoadType
    <3> QED
      BY <1>3, <2>1, <3>1, <3>2, <3>3, <3>4
  <2>2. ASSUME NEW i \in Instruments, stored'[i] # None
        PROVE  row'[stored'[i].source] # None
    <3>1. stored'[i] = stored[i] /\ stored[i] # None
      BY <1>3, <2>2 DEF SetSourceRows
    <3>2. stored[i].source \in Source
      BY <3>1 DEF TypeOK, StoredBaseline
    <3> QED
      BY <1>3, <3>1, <3>2, SetSourceRowsType DEF RowsExist
  <2> QED
    BY <2>1, <2>2 DEF RowsExist
<1>4. CASE \E c \in Callers, s \in Source, new \in Row : SetSource(c, s, new)
  BY <1>3, <1>4 DEF SetSource
<1>5. CASE \E s \in Source, new \in Row : SetSourceUnacked(s, new)
  BY <1>3, <1>5 DEF SetSourceUnacked
<1>6. CASE \E s \in Source : Discover(s)
  <2>1. PICK s \in Source, symbol \in Symbols :
          /\ row' = [row EXCEPT ![s] = [symbol |-> symbol, enabled |-> TRUE]]
          /\ polled' = polled \cup {s}
          /\ UNCHANGED <<prices, stored>>
    BY <1>6 DEF Discover
  <2>2. [symbol |-> symbol, enabled |-> TRUE] # None
    <3>1. [symbol |-> symbol, enabled |-> TRUE] \in Row
      BY DEF Row
    <3> QED
      BY <3>1, NoneAssumption
  <2>3. \A t \in Source : row[t] # None \/ t = s => row'[t] # None
    BY <2>1, <2>2 DEF TypeOK
  <2>4. \A i \in Instruments : stored[i] # None => stored[i].source \in Source
    BY DEF TypeOK, StoredBaseline
  <2> QED
    BY <2>1, <2>3, <2>4 DEF RowsExist
<1>7. CASE \E c \in Callers : NewSnapshot(c)
  BY <1>7 DEF NewSnapshot, NoBaselines, RowsExist
<1>8. CASE ReloadByHistorySync
  BY <1>8, LoadType DEF ReloadByHistorySync, RowsExist, TypeOK
<1>9. ASSUME NEW c \in Callers, call[c] # None, NEW changes \in Found(c),
             stored' = StoredWith(changes), UNCHANGED <<row, prices, polled>>
      PROVE  RowsExist'
  <2>1. ASSUME NEW i \in Instruments, Changes(changes, i)
        PROVE  row[For(changes, i).source] # None
    BY <1>9, <2>1, FoundType, ForChosen DEF RowsExist
  <2>2. ASSUME NEW i \in Instruments, stored'[i] # None
        PROVE  row[stored'[i].source] # None
    BY <1>9, <2>1, <2>2 DEF StoredWith, RowsExist
  <2> QED
    BY <1>9, <2>2 DEF RowsExist
<1>10. CASE \E c \in Callers : Apply(c) \/ ApplyUnacked(c)
  <2>1. PICK c \in Callers : Apply(c) \/ ApplyUnacked(c)
    BY <1>10
  <2>2. CASE UNCHANGED stored
    BY <2>1, <2>2 DEF Apply, ApplyUnacked, RowsExist
  <2>3. CASE \E changes \in Found(c) : stored' = StoredWith(changes)
    BY <1>9, <2>1, <2>3 DEF Apply, ApplyUnacked, ReadyToApply
  <2> QED
    BY <2>1, <2>2, <2>3 DEF Apply, ApplyUnacked
<1>11. CASE Restart
  BY <1>11, LoadType DEF Restart, RowsExist, TypeOK
<1> QED
  BY <1>1, <1>2, <1>4, <1>5, <1>6, <1>7, <1>8, <1>10, <1>11 DEF Next, Input, Step, Quiet

-----------------------------------------------------------------------------
(* Symbols, snapshots and stored baselines. *)

LEMMA QuietKeepsUnacked ==
  ASSUME Quiet, ~unacked'
  PROVE  ~unacked
  BY DEF Quiet, RateArrives, HourlyRefresh, Load, ReadStored, Overtaken, Fail, PriceArrivesUnacked

LEMMA ApplyKeepsUnacked ==
  ASSUME NEW c \in Callers, Apply(c) \/ ApplyUnacked(c), ~unacked'
  PROVE  ~unacked
<1>1. CASE Apply(c)
  BY <1>1 DEF Apply
<1>2. CASE ApplyUnacked(c)
  <2>1. PICK changes \in Found(c) : unacked' = (unacked \/ changes # {})
    BY <1>2 DEF ApplyUnacked
  <2> QED
    BY <2>1, Zenon
<1> QED
  BY <1>1, <1>2

LEMMA SymbolsKept ==
  ASSUME TypeOK, RowsExist, PricesForSymbol, Next
  PROVE  PricesForSymbol'
<1> SUFFICES ASSUME ~unacked', NEW t \in Source, prices'[t] # None
             PROVE  prices'[t].symbol = row'[t].symbol
  BY DEF PricesForSymbol
<1>1. CASE \E c \in Callers, s \in Source : PriceArrives(c, s)
  <2>1. PICK c \in Callers, s \in Source : PriceArrives(c, s)
    BY <1>1
  <2>2. PICK v : prices' = [prices EXCEPT ![s] = [symbol |-> row[s].symbol, value |-> v]]
    BY <2>1 DEF PriceArrives
  <2>3. ~unacked /\ row' = row
    BY <2>1 DEF PriceArrives
  <2> QED
    BY <2>2, <2>3 DEF PricesForSymbol, TypeOK
<1>2. CASE Quiet
  BY <1>2, QuietKeeps, QuietKeepsUnacked DEF PricesForSymbol
<1>3. CASE \E c \in Callers, s \in Source, new \in Row : SetSource(c, s, new)
  <2>1. PICK c \in Callers, s \in Source, new \in Row : SetSource(c, s, new)
    BY <1>3
  <2>2. SetSourceRows(s, new) /\ prices' = LoadPriceState(row', quote')
    BY <2>1 DEF SetSource
  <2>3. row' \in [Source -> Row \cup {None}] /\ quote' \in [Source -> Values \cup {None}]
    BY <2>2, SetSourceRowsType
  <2> QED
    BY <2>2, <2>3, LoadType
<1>4. CASE \E s \in Source, new \in Row : SetSourceUnacked(s, new)
  BY <1>4 DEF SetSourceUnacked
<1>5. CASE \E s \in Source : Discover(s)
  <2>1. PICK s \in Source, symbol \in Symbols :
          /\ row[s] = None
          /\ row' = [row EXCEPT ![s] = [symbol |-> symbol, enabled |-> TRUE]]
          /\ UNCHANGED <<prices, unacked>>
    BY <1>5 DEF Discover
  <2>2. t # s
    BY <2>1 DEF RowsExist
  <2> QED
    BY <2>1, <2>2 DEF PricesForSymbol, TypeOK
<1>6. CASE \E c \in Callers : NewSnapshot(c)
  BY <1>6 DEF NewSnapshot, PricesForSymbol
<1>7. CASE ReloadByHistorySync
  BY <1>7, LoadType DEF ReloadByHistorySync, TypeOK
<1>8. CASE \E c \in Callers : Apply(c) \/ ApplyUnacked(c)
  <2>1. ~unacked /\ UNCHANGED <<row, prices>>
    BY <1>8, ApplyKeepsUnacked DEF Apply, ApplyUnacked
  <2> QED
    BY <2>1 DEF PricesForSymbol
<1>9. CASE Restart
  BY <1>9, LoadType DEF Restart, TypeOK
<1> QED
  BY <1>1, <1>2, <1>3, <1>4, <1>5, <1>6, <1>7, <1>8, <1>9 DEF Next, Input, Step, Quiet

LEMMA NotAheadKept ==
  ASSUME TypeOK, NotAhead, Next
  PROVE  NotAhead'
<1> USE DEF NotAhead
<1>0. snapshot \in Nat
  BY DEF TypeOK
<1>1. \A kind : Owes(kind).snapshot = snapshot
  BY DEF Owes
<1>2. ASSUME NEW c \in Callers, NEW kind, call' = [call EXCEPT ![c] = Owes(kind)],
             UNCHANGED <<snapshot, valuation>>
      PROVE  NotAhead'
  BY <1>0, <1>1, <1>2 DEF TypeOK
<1>3. CASE \E c \in Callers : \/ \E s \in Source : PriceArrives(c, s)
                              \/ RateArrives(c)
                              \/ \E s \in Source, new \in Row : SetSource(c, s, new)
                              \/ HourlyRefresh(c)
  BY <1>2, <1>3 DEF PriceArrives, RateArrives, SetSource, HourlyRefresh
<1>4. CASE \E c \in Callers : NewSnapshot(c)
  <2>1. PICK c \in Callers : NewSnapshot(c)
    BY <1>4
  <2>2. /\ snapshot' = snapshot + 1
        /\ valuation' = valuation
        /\ call' = [call EXCEPT ![c] = [Owes("refresh") EXCEPT !.snapshot = snapshot + 1]]
    BY <2>1 DEF NewSnapshot
  <2>3. [Owes("refresh") EXCEPT !.snapshot = snapshot + 1].snapshot = snapshot + 1
    BY DEF Owes
  <2>4. ASSUME NEW d \in Callers, call'[d] # None PROVE call'[d].snapshot <= snapshot + 1
    <3>1. CASE d = c
      BY <1>0, <2>2, <2>3, <3>1 DEF TypeOK
    <3>2. CASE d # c
      <4>1. call[d] \in Call /\ call'[d] = call[d]
        BY <2>2, <2>4, <3>2 DEF TypeOK
      <4>2. call[d].snapshot \in Nat /\ call[d].snapshot <= snapshot
        BY <2>4, <4>1 DEF Call
      <4> QED
        BY <1>0, <4>1, <4>2
    <3> QED
      BY <3>1, <3>2
  <2>5. ASSUME valuation # None PROVE valuation.snapshot <= snapshot + 1
    <3>1. valuation.snapshot \in Nat /\ valuation.snapshot <= snapshot
      BY <2>5 DEF TypeOK, State
    <3> QED
      BY <1>0, <3>1
  <2> QED
    BY <2>2, <2>4, <2>5
<1>5. CASE \E c \in Callers : Load(c)
  <2>1. PICK c \in Callers : Load(c)
    BY <1>5
  <2>2. PICK w, phase : call' = [call EXCEPT ![c].snapshot = snapshot, ![c].phase = phase,
                                             ![c].wanted = w]
    BY <2>1 DEF Load
  <2>3. call[c] \in Call
    BY <2>1 DEF Load, TypeOK
  <2>4. call'[c].snapshot = snapshot
    BY <2>2, <2>3 DEF TypeOK, Call
  <2>5. \A d \in Callers \ {c} : call'[d] = call[d]
    BY <2>2 DEF TypeOK
  <2>6. UNCHANGED <<snapshot, valuation>>
    BY <2>1 DEF Load
  <2> QED
    BY <1>0, <2>4, <2>5, <2>6
<1>6. CASE \E c \in Callers : ReadStored(c)
  <2>1. PICK c \in Callers : ReadStored(c)
    BY <1>6
  <2>2. PICK known, w : call' = [call EXCEPT ![c].phase = "ready", ![c].known = known,
                                             ![c].wanted = w]
    BY <2>1 DEF ReadStored
  <2>3. call[c] \in Call
    BY <2>1 DEF ReadStored, TypeOK
  <2>4. call'[c].snapshot = call[c].snapshot /\ call[c] # None
    BY <2>1, <2>2, <2>3 DEF TypeOK, Call, ReadStored
  <2>5. \A d \in Callers \ {c} : call'[d] = call[d]
    BY <2>2 DEF TypeOK
  <2>6. UNCHANGED <<snapshot, valuation>>
    BY <2>1 DEF ReadStored
  <2> QED
    BY <2>4, <2>5, <2>6
<1>7. ASSUME NEW c \in Callers, call' = [call EXCEPT ![c] = None], UNCHANGED snapshot,
             valuation' = valuation \/ valuation'.snapshot = snapshot
      PROVE  NotAhead'
  BY <1>0, <1>7 DEF TypeOK
<1>8. CASE \E c \in Callers : Apply(c)
  <2>1. PICK c \in Callers : Apply(c)
    BY <1>8
  <2>2. valuation' = valuation \/ valuation'.snapshot = snapshot
    BY <2>1 DEF Apply, NewState
  <2> QED
    BY <1>7, <2>1, <2>2 DEF Apply
<1>9. CASE \E c \in Callers : ApplyUnacked(c) \/ Overtaken(c) \/ Fail(c)
  BY <1>7, <1>9 DEF ApplyUnacked, Overtaken, Fail
<1>10. CASE \/ \E s \in Source : Discover(s) \/ PriceArrivesUnacked(s)
            \/ \E s \in Source, new \in Row : SetSourceUnacked(s, new)
            \/ ReloadByHistorySync
  BY <1>10 DEF Discover, PriceArrivesUnacked, SetSourceUnacked, ReloadByHistorySync
<1>11. CASE Restart
  BY <1>0, <1>1, <1>11, RestartCalls DEF Restart
<1> QED
  BY <1>3, <1>4, <1>5, <1>6, <1>8, <1>9, <1>10, <1>11 DEF Next, Input, Step

\* A change of a source leaves alone the stored baselines that it does not
\* delete, and their symbols.
LEMMA SetSourceKeepsLabels ==
  ASSUME TypeOK, RowsExist, NEW s \in Source, NEW new \in Row, SetSourceRows(s, new),
         NEW i \in Instruments
  PROVE  /\ i \in Deleted(s, new) => stored'[i] = None /\ i \in dropped'
         /\ i \notin Deleted(s, new) =>
              /\ stored'[i] = stored[i]
              /\ stored[i] # None =>
                   row'[stored[i].source].symbol = row[stored[i].source].symbol
              /\ Labelled(stored', row')[i] = Labelled(stored, row)[i]
         /\ i \notin dropped' => i \notin dropped /\ i \notin Deleted(s, new)
<1>1. /\ stored' = [j \in Instruments |-> IF j \in Deleted(s, new) THEN None ELSE stored[j]]
      /\ dropped' = dropped \cup Deleted(s, new)
  BY DEF SetSourceRows
<1>2. ASSUME i \notin Deleted(s, new), stored[i] # None
      PROVE  row'[stored[i].source].symbol = row[stored[i].source].symbol
  <2>1. stored[i].source \in Source /\ row[stored[i].source] # None
    BY <1>2 DEF TypeOK, StoredBaseline, RowsExist
  <2>2. CASE stored[i].source = s
    BY <1>2, <2>1, <2>2, SetSourceRowsType DEF Deleted
  <2>3. CASE stored[i].source # s
    BY <2>1, <2>3, SetSourceRowsType
  <2> QED
    BY <2>2, <2>3
<1> QED
  BY <1>1, <1>2 DEF Labelled

LEMMA DiscoverKeepsLabels ==
  ASSUME TypeOK, RowsExist, NEW s \in Source, Discover(s), NEW i \in Instruments
  PROVE  /\ stored'[i] = stored[i]
         /\ stored[i] # None => row'[stored[i].source].symbol = row[stored[i].source].symbol
         /\ Labelled(stored', row')[i] = Labelled(stored, row)[i]
<1>1. PICK symbol \in Symbols :
        /\ row[s] = None
        /\ row' = [row EXCEPT ![s] = [symbol |-> symbol, enabled |-> TRUE]]
        /\ stored' = stored
  BY DEF Discover
<1>2. ASSUME stored[i] # None
      PROVE  row'[stored[i].source] = row[stored[i].source]
  <2>1. stored[i].source \in Source /\ stored[i].source # s
    BY <1>1, <1>2 DEF TypeOK, StoredBaseline, RowsExist
  <2> QED
    BY <1>1, <2>1 DEF TypeOK
<1> QED
  BY <1>1, <1>2 DEF Labelled

\* What an apply stores for an asset has the symbol of its source and is what
\* RAM gets.
LEMMA ChangeIsStored ==
  ASSUME TypeOK, PricesForSymbol, ~unacked,
         NEW c \in Callers, call[c] # None, NEW changes \in Found(c),
         NEW base \in Baselines, NEW i \in Instruments, Changes(changes, i)
  PROVE  /\ StoredWith(changes)[i].of = row[StoredWith(changes)[i].source].symbol
         /\ WithChanges(base, changes)[i] = Labelled(StoredWith(changes), row)[i]
<1> DEFINE x == For(changes, i)
<1>1. x \in changes
  BY ForChosen
<1>2. x.source \in Source /\ prices[x.source] # None /\ prices[x.source].symbol = x.symbol
  BY <1>1, FoundType
<1>3. row[x.source].symbol = x.symbol
  BY <1>2 DEF PricesForSymbol
<1>4. StoredWith(changes)[i] \in StoredBaseline
  BY StoredWithType, FoundType
<1>5. StoredWith(changes)[i] = [source |-> x.source, of |-> x.symbol, behind |-> unacked]
  BY DEF StoredWith
<1>6. StoredWith(changes)[i] # None
  BY <1>4, NoneAssumption
<1>7. StoredWith(changes)[i].source = x.source /\ StoredWith(changes)[i].of = x.symbol
  BY <1>5
<1>8. WithChanges(base, changes)[i] = [source |-> x.source, symbol |-> x.symbol, of |-> x.symbol]
  BY DEF WithChanges
<1>9. Labelled(StoredWith(changes), row)[i] = [source |-> x.source, symbol |-> x.symbol, of |-> x.symbol]
  BY <1>3, <1>6, <1>7 DEF Labelled
<1> QED
  BY <1>3, <1>7, <1>8, <1>9

LEMMA StoredForSymbolKept ==
  ASSUME TypeOK, RowsExist, PricesForSymbol, StoredForSymbol, Next
  PROVE  StoredForSymbol'
<1> SUFFICES ASSUME NEW i \in Instruments, stored'[i] # None, ~stored'[i].behind
             PROVE  stored'[i].of = row'[stored'[i].source].symbol
  BY DEF StoredForSymbol
<1>1. CASE UNCHANGED <<stored, row>>
  BY <1>1 DEF StoredForSymbol
<1>2. CASE \E s \in Source, new \in Row : SetSourceRows(s, new)
  BY <1>2, SetSourceKeepsLabels DEF StoredForSymbol
<1>3. CASE \E s \in Source : Discover(s)
  BY <1>3, DiscoverKeepsLabels DEF StoredForSymbol
<1>4. CASE \E c \in Callers : NewSnapshot(c)
  BY <1>4 DEF NewSnapshot, NoBaselines
<1>5. ASSUME NEW c \in Callers, call[c] # None, NEW changes \in Found(c),
             stored' = StoredWith(changes), row' = row
      PROVE  stored'[i].of = row'[stored'[i].source].symbol
  <2>1. CASE Changes(changes, i)
    <3>1. stored'[i].behind = unacked
      BY <1>5, <2>1 DEF StoredWith
    <3>2. ~unacked
      BY <3>1
    <3> QED
      BY <1>5, <2>1, <3>2, BaseType, ChangeIsStored
  <2>2. CASE ~Changes(changes, i)
    BY <1>5, <2>2 DEF StoredWith, StoredForSymbol
  <2> QED
    BY <2>1, <2>2
<1>6. CASE \E c \in Callers : Apply(c)
  BY <1>1, <1>5, <1>6 DEF Apply, ReadyToApply
<1>7. CASE \E c \in Callers : ApplyUnacked(c)
  BY <1>5, <1>7 DEF ApplyUnacked, ReadyToApply
<1>8. CASE \/ Quiet
           \/ \E c \in Callers, s \in Source : PriceArrives(c, s)
           \/ ReloadByHistorySync \/ Restart
  BY <1>1, <1>8, QuietKeeps DEF PriceArrives, ReloadByHistorySync, Restart
<1>9. CASE \/ \E c \in Callers, s \in Source, new \in Row : SetSource(c, s, new)
           \/ \E s \in Source, new \in Row : SetSourceUnacked(s, new)
  BY <1>2, <1>9 DEF SetSource, SetSourceUnacked
<1> QED
  BY <1>3, <1>4, <1>6, <1>7, <1>8, <1>9 DEF Next, Input, Step, Quiet

-----------------------------------------------------------------------------
(* RAM has what is stored. *)

\* A caller that is ready after the step was so before it, or has just read
\* what is stored, or finds a valuation of the snapshot.
KnownFromBefore ==
  \A c \in Callers : ReadyToApply(c)' =>
    \/ Current
    \/ ReadyToApply(c) /\ call'[c].known = call[c].known
    \/ call'[c].known = Labelled(stored, row)

LEMMA LabelsCarryOver ==
  ASSUME KnownIsStored, BaselinesStoredUnlessDropped, KnownFromBefore,
         UNCHANGED <<snapshot, valuation>>,
         ~unacked' => ~unacked,
         \A i \in Instruments : i \notin dropped' =>
           i \notin dropped /\ Labelled(stored', row')[i] = Labelled(stored, row)[i]
  PROVE  KnownIsStored' /\ BaselinesStoredUnlessDropped'
<1>1. Current' <=> Current
  BY DEF Current
<1>2. KnownIsStored'
  <2> SUFFICES ASSUME ~Current, ~unacked', NEW c \in Callers, ReadyToApply(c)',
                      NEW i \in Instruments, i \notin dropped'
               PROVE  call'[c].known[i] = Labelled(stored', row')[i]
    BY <1>1 DEF KnownIsStored
  <2> QED
    BY DEF KnownIsStored, KnownFromBefore
<1>3. BaselinesStoredUnlessDropped'
  <2> SUFFICES ASSUME Current, ~unacked', NEW i \in Instruments, i \notin dropped'
               PROVE  valuation'.baselines[i] = Labelled(stored', row')[i]
    BY <1>1 DEF BaselinesStoredUnlessDropped
  <2> QED
    BY DEF BaselinesStoredUnlessDropped
<1> QED
  BY <1>2, <1>3

LEMMA KnownStays ==
  ASSUME TypeOK, UNCHANGED snapshot,
         \/ call' = call
         \/ \E c \in Callers : call' = [call EXCEPT ![c] = None]
         \/ \E c \in Callers : \E kind : call' = [call EXCEPT ![c] = Owes(kind)]
  PROVE  KnownFromBefore
<1> SUFFICES ASSUME NEW d \in Callers, ReadyToApply(d)'
             PROVE  ReadyToApply(d) /\ call'[d].known = call[d].known
  BY DEF KnownFromBefore
<1>1. call'[d] # None /\ call'[d].phase = "ready" /\ call'[d].snapshot = snapshot
  BY DEF ReadyToApply
<1>2. call'[d] = call[d]
  BY <1>1 DEF TypeOK, Owes
<1> QED
  BY <1>1, <1>2 DEF ReadyToApply

LEMMA KnownRead ==
  ASSUME TypeOK, NEW c \in Callers, Load(c) \/ ReadStored(c)
  PROVE  KnownFromBefore
<1> SUFFICES ASSUME NEW d \in Callers, ReadyToApply(d)', ~Current
             PROVE  \/ ReadyToApply(d) /\ call'[d].known = call[d].known
                    \/ call'[d].known = Labelled(stored, row)
  BY DEF KnownFromBefore
<1>1. snapshot' = snapshot
  BY DEF Load, ReadStored
<1>2. call'[d] # None /\ call'[d].phase = "ready" /\ call'[d].snapshot = snapshot
  BY <1>1 DEF ReadyToApply
<1>3. CASE d # c
  <2>1. call'[d] = call[d]
    BY <1>3 DEF Load, ReadStored, TypeOK
  <2> QED
    BY <1>2, <2>1 DEF ReadyToApply
<1>4. CASE d = c /\ Load(c)
  <2>1. PICK w : call' = [call EXCEPT ![c].snapshot = snapshot, ![c].phase = "loading",
                                      ![c].wanted = w]
    BY <1>4 DEF Load
  <2>2. call[c] \in Call
    BY <1>4 DEF Load, TypeOK
  <2>3. call'[c].phase = "loading"
    BY <2>1, <2>2 DEF TypeOK, Call
  <2> QED
    BY <1>2, <1>4, <2>3
<1>5. CASE d = c /\ ReadStored(c)
  <2>1. PICK known, w :
          /\ known = IF call[c].snapshot = snapshot THEN Labelled(stored, row) ELSE NoBaselines
          /\ call' = [call EXCEPT ![c].phase = "ready", ![c].known = known, ![c].wanted = w]
    BY <1>5 DEF ReadStored
  <2>2. call[c] \in Call
    BY <1>5 DEF ReadStored, TypeOK
  <2>3. call'[c].snapshot = call[c].snapshot /\ call'[c].known = known
    BY <2>1, <2>2 DEF TypeOK, Call
  <2> QED
    BY <1>2, <1>5, <2>1, <2>3
<1> QED
  BY <1>3, <1>4, <1>5

LEMMA PublishedIsStored ==
  ASSUME TypeOK, PricesForSymbol, KnownIsStored, BaselinesStoredUnlessDropped,
         NEW c \in Callers, ReadyToApply(c), NEW changes \in Found(c),
         stored' = StoredWith(changes), valuation' = NewState(c, changes),
         dropped' = dropped \ Changed(changes),
         UNCHANGED <<snapshot, row, unacked>>
  PROVE  KnownIsStored' /\ BaselinesStoredUnlessDropped'
<1>1. call[c] # None
  BY DEF ReadyToApply
<1>2. Current'
  <2>1. NewState(c, changes) # None
    BY <1>1, NewStateType, NoneAssumption
  <2> QED
    BY <2>1 DEF Current, NewState
<1>3. ASSUME ~unacked, NEW i \in Instruments, i \notin dropped'
      PROVE  valuation'.baselines[i] = Labelled(stored', row')[i]
  <2>1. valuation'.baselines = WithChanges(Base(c), changes)
    BY DEF NewState
  <2>2. CASE Changes(changes, i)
    BY <1>1, <1>3, <2>1, <2>2, BaseType, ChangeIsStored
  <2>3. CASE ~Changes(changes, i)
    <3>1. i \notin dropped
      BY <1>3, <2>3 DEF Changed
    <3>2. Base(c)[i] = Labelled(stored, row)[i]
      BY <1>3, <3>1 DEF Base, KnownIsStored, BaselinesStoredUnlessDropped
    <3>3. valuation'.baselines[i] = Base(c)[i]
      BY <2>1, <2>3 DEF WithChanges
    <3>4. stored'[i] = stored[i]
      BY <2>3 DEF StoredWith
    <3> QED
      BY <3>2, <3>3, <3>4 DEF Labelled
  <2> QED
    BY <2>2, <2>3
<1> QED
  BY <1>2, <1>3 DEF KnownIsStored, BaselinesStoredUnlessDropped

LEMMA NothingStored ==
  ASSUME TypeOK
  PROVE  /\ StoredWith({}) = stored
         /\ \A base \in Baselines : WithChanges(base, {}) = base
<1>1. \A i : ~Changes({}, i)
  BY DEF Changes
<1> QED
  BY <1>1 DEF StoredWith, WithChanges, Baselines, TypeOK

LEMMA BaselinesKept ==
  ASSUME TypeOK, RowsExist, PricesForSymbol, NotAhead, KnownIsStored,
         BaselinesStoredUnlessDropped, Next
  PROVE  KnownIsStored' /\ BaselinesStoredUnlessDropped'
<1>1. ASSUME UNCHANGED <<snapshot, row, stored, valuation, dropped>>,
             ~unacked' => ~unacked,
             \/ call' = call
             \/ \E c \in Callers : call' = [call EXCEPT ![c] = None]
             \/ \E c \in Callers : \E kind : call' = [call EXCEPT ![c] = Owes(kind)]
      PROVE  KnownIsStored' /\ BaselinesStoredUnlessDropped'
  BY <1>1, KnownStays, LabelsCarryOver
<1>2. CASE \E c \in Callers : \/ \E s \in Source : PriceArrives(c, s)
                              \/ RateArrives(c)
                              \/ HourlyRefresh(c)
  BY <1>1, <1>2 DEF PriceArrives, RateArrives, HourlyRefresh
<1>3. CASE \E c \in Callers : Overtaken(c) \/ Fail(c)
  BY <1>1, <1>3 DEF Overtaken, Fail
<1>4. CASE (\E s \in Source : PriceArrivesUnacked(s)) \/ ReloadByHistorySync
  BY <1>1, <1>4 DEF PriceArrivesUnacked, ReloadByHistorySync
<1>5. CASE \E c \in Callers : Load(c) \/ ReadStored(c)
  <2>1. PICK c \in Callers : Load(c) \/ ReadStored(c)
    BY <1>5
  <2>2. UNCHANGED <<snapshot, row, stored, valuation, dropped, unacked>>
    BY <2>1 DEF Load, ReadStored
  <2> QED
    BY <2>1, <2>2, KnownRead, LabelsCarryOver
<1>6. ASSUME NEW s \in Source, NEW new \in Row, SetSourceRows(s, new),
             UNCHANGED <<snapshot, valuation>>, ~unacked' => ~unacked, KnownFromBefore
      PROVE  KnownIsStored' /\ BaselinesStoredUnlessDropped'
  BY <1>6, SetSourceKeepsLabels, LabelsCarryOver
<1>7. CASE \E c \in Callers, s \in Source, new \in Row : SetSource(c, s, new)
  <2>1. PICK c \in Callers, s \in Source, new \in Row : SetSource(c, s, new)
    BY <1>7
  <2>2. /\ SetSourceRows(s, new)
        /\ call' = [call EXCEPT ![c] = Owes("refresh")]
        /\ UNCHANGED <<snapshot, valuation, unacked>>
    BY <2>1 DEF SetSource
  <2>3. KnownFromBefore
    BY <2>2, KnownStays
  <2> QED
    BY <1>6, <2>2, <2>3
<1>8. CASE \E s \in Source, new \in Row : SetSourceUnacked(s, new)
  BY <1>8 DEF SetSourceUnacked, KnownIsStored, BaselinesStoredUnlessDropped
<1>9. CASE \E s \in Source : Discover(s)
  <2>1. PICK s \in Source : Discover(s)
    BY <1>9
  <2>2. UNCHANGED <<snapshot, valuation, dropped, unacked, call>>
    BY <2>1 DEF Discover
  <2> QED
    BY <2>1, <2>2, DiscoverKeepsLabels, KnownStays, LabelsCarryOver
<1>10. CASE \E c \in Callers : NewSnapshot(c)
  <2>1. PICK c \in Callers : NewSnapshot(c)
    BY <1>10
  <2>2. /\ snapshot' = snapshot + 1
        /\ valuation' = valuation
        /\ call' = [call EXCEPT ![c] = [Owes("refresh") EXCEPT !.snapshot = snapshot + 1]]
    BY <2>1 DEF NewSnapshot
  <2>3. snapshot \in Nat
    BY DEF TypeOK
  <2>4. ~Current'
    <3>1. valuation # None => valuation.snapshot \in Nat /\ valuation.snapshot <= snapshot
      BY DEF NotAhead, TypeOK, State
    <3> QED
      BY <2>2, <2>3, <3>1 DEF Current
  <2>5. ASSUME NEW d \in Callers, ReadyToApply(d)' PROVE FALSE
    <3>1. call'[d] # None /\ call'[d].phase = "ready" /\ call'[d].snapshot = snapshot + 1
      BY <2>2, <2>5 DEF ReadyToApply
    <3>2. [Owes("refresh") EXCEPT !.snapshot = snapshot + 1].phase = "due"
      BY DEF Owes
    <3>3. d # c
      BY <2>2, <3>1, <3>2 DEF TypeOK
    <3>4. call'[d] = call[d] /\ call[d] \in Call
      BY <2>2, <3>1, <3>3 DEF TypeOK
    <3>5. call[d].snapshot \in Nat /\ call[d].snapshot <= snapshot
      BY <3>1, <3>4 DEF NotAhead, Call
    <3> QED
      BY <2>3, <3>1, <3>4, <3>5
  <2> QED
    BY <2>4, <2>5 DEF KnownIsStored, BaselinesStoredUnlessDropped
<1>11. CASE \E c \in Callers : Apply(c)
  <2>1. PICK c \in Callers : Apply(c)
    BY <1>11
  <2>2. PICK changes \in Found(c) :
          IF changes # {} \/ Differs(NewState(c, changes))
          THEN /\ stored' = StoredWith(changes)
               /\ valuation' = NewState(c, changes)
               /\ dropped' = dropped \ Changed(changes)
          ELSE UNCHANGED <<stored, valuation, dropped>>
    BY <2>1 DEF Apply
  <2>3. ReadyToApply(c) /\ UNCHANGED <<snapshot, row, unacked>>
        /\ call' = [call EXCEPT ![c] = None]
    BY <2>1 DEF Apply
  <2>4. CASE UNCHANGED <<stored, valuation, dropped>>
    BY <1>1, <2>3, <2>4
  <2>5. CASE /\ stored' = StoredWith(changes)
             /\ valuation' = NewState(c, changes)
             /\ dropped' = dropped \ Changed(changes)
    BY <2>3, <2>5, PublishedIsStored
  <2> QED
    BY <2>2, <2>4, <2>5
<1>12. CASE \E c \in Callers : ApplyUnacked(c)
  <2>1. PICK c \in Callers : ApplyUnacked(c)
    BY <1>12
  <2>2. PICK changes \in Found(c) : /\ stored' = StoredWith(changes)
                                    /\ unacked' = (unacked \/ changes # {})
    BY <2>1 DEF ApplyUnacked
  <2>3. UNCHANGED <<snapshot, row, valuation, dropped>> /\ call' = [call EXCEPT ![c] = None]
    BY <2>1 DEF ApplyUnacked
  <2>4. CASE changes = {}
    <3>1. stored' = stored
      BY <2>2, <2>4, NothingStored
    <3>2. ~unacked' => ~unacked
      BY <2>1, ApplyKeepsUnacked
    <3> QED
      BY <1>1, <2>3, <3>1, <3>2
  <2>5. CASE changes # {}
    <3>1. unacked'
      BY <2>2, <2>5, Zenon
    <3> QED
      BY <3>1 DEF KnownIsStored, BaselinesStoredUnlessDropped
  <2> QED
    BY <2>4, <2>5
<1>13. CASE Restart
  <2>1. \A c \in Callers : call'[c] # None => call'[c].phase = "due"
    BY <1>13, RestartCalls DEF Owes
  <2>2. valuation' = None
    BY <1>13 DEF Restart
  <2> QED
    BY <2>1, <2>2 DEF KnownIsStored, BaselinesStoredUnlessDropped, Current, ReadyToApply
<1> QED
  BY <1>2, <1>3, <1>4, <1>5, <1>7, <1>8, <1>9, <1>10, <1>11, <1>12, <1>13 DEF Next, Input, Step

-----------------------------------------------------------------------------
(* The live value is of the current inputs. *)

LEMMA OwedOnceDue ==
  ASSUME NEW c \in Callers, call'[c] # None,
         call'[c].phase = "due" \/ call'[c].snapshot = snapshot'
  PROVE  LiveCurrentUnlessOwed'
  BY DEF LiveCurrentUnlessOwed, Owed

LEMMA ValueStays ==
  ASSUME LiveCurrentUnlessOwed, Owed => Owed', missed' = missed,
         UNCHANGED <<snapshot, held, prices, rate, valuation>>
  PROVE  LiveCurrentUnlessOwed'
<1>1. Current => Current' /\ valuation'.baselines = valuation.baselines
  BY DEF Current
<1>2. \A b : Usable(b)' <=> Usable(b)
  BY DEF Usable
<1>3. ASSUME Current, valuation.live = Calculate(valuation.baselines)
      PROVE  valuation'.live = Calculate(valuation.baselines)'
  BY <1>2, <1>3 DEF Calculate
<1> QED
  BY <1>1, <1>3 DEF LiveCurrentUnlessOwed

LEMMA AppliedIsCurrent ==
  ASSUME TypeOK, NEW c \in Callers, Apply(c)
  PROVE  Current' /\ valuation'.live = Calculate(valuation.baselines)'
<1>1. PICK changes \in Found(c) :
        IF changes # {} \/ Differs(NewState(c, changes))
        THEN valuation' = NewState(c, changes)
        ELSE UNCHANGED valuation
  BY DEF Apply
<1>2. call[c] # None /\ UNCHANGED <<snapshot, held, prices, rate>>
  BY DEF Apply, ReadyToApply
<1>3. \A b : Usable(b)' <=> Usable(b)
  BY <1>2 DEF Usable
<1>4. ASSUME NEW b, valuation'.baselines = b
      PROVE  Calculate(valuation.baselines)' = Calculate(b)
  BY <1>2, <1>3, <1>4 DEF Calculate
<1>5. CASE valuation' = NewState(c, changes)
  <2>1. NewState(c, changes) # None
    BY <1>2, NewStateType, NoneAssumption
  <2>2. Current'
    BY <1>2, <1>5, <2>1 DEF Current, NewState
  <2>3. /\ valuation'.baselines = WithChanges(Base(c), changes)
        /\ valuation'.live = Calculate(WithChanges(Base(c), changes))
    BY <1>5 DEF NewState
  <2> QED
    BY <1>4, <2>2, <2>3
<1>6. CASE changes = {} /\ ~Differs(NewState(c, changes)) /\ UNCHANGED valuation
  <2> DEFINE new == NewState(c, changes)
  <2>1. Current /\ valuation.live.parts = new.live.parts /\ valuation.live.rate = new.live.rate
    BY <1>6 DEF Differs, FundValueDiffers
  <2>2. Base(c) = valuation.baselines /\ Base(c) \in Baselines
    BY <1>2, <2>1, BaseType DEF Base
  <2>3. new.live = Calculate(valuation.baselines)
    BY <1>6, <2>2, NothingStored DEF NewState
  <2>4. valuation.live \in Live /\ new.live \in Live
    BY <1>2, <2>1, NewStateType DEF TypeOK, Current, State
  <2>5. valuation.live = new.live
    <3> HIDE DEF new
    <3> QED
      BY <2>1, <2>4 DEF Live
  <2>6. Current'
    BY <1>2, <1>6, <2>1 DEF Current
  <2> QED
    BY <1>4, <1>6, <2>3, <2>5, <2>6
<1> QED
  BY <1>1, <1>5, <1>6

LEMMA LiveKept ==
  ASSUME TypeOK, RowsExist, LiveCurrentUnlessOwed, Next
  PROVE  LiveCurrentUnlessOwed'
<1>1. ASSUME NEW c \in Callers, NEW kind \in {"refresh", "recalculate"},
             call' = [call EXCEPT ![c] = Owes(kind)]
      PROVE  LiveCurrentUnlessOwed'
  <2>1. Owes(kind) # None /\ Owes(kind).phase = "due"
    BY OwesType, NoneAssumption DEF Owes
  <2>2. call'[c] = Owes(kind)
    BY <1>1 DEF TypeOK
  <2> QED
    BY <2>1, <2>2, OwedOnceDue
<1>2. CASE \E c \in Callers : \/ \E s \in Source : PriceArrives(c, s)
                              \/ RateArrives(c)
                              \/ \E s \in Source, new \in Row : SetSource(c, s, new)
                              \/ HourlyRefresh(c)
  BY <1>1, <1>2 DEF PriceArrives, RateArrives, SetSource, HourlyRefresh
<1>3. CASE \E c \in Callers : NewSnapshot(c)
  <2>1. PICK c \in Callers : NewSnapshot(c)
    BY <1>3
  <2>2. call' = [call EXCEPT ![c] = [Owes("refresh") EXCEPT !.snapshot = snapshot + 1]]
    BY <2>1 DEF NewSnapshot
  <2>3. TypeOK'
    BY <1>3, TypesKept
  <2>4. snapshot + 1 \in 1..MaxSnapshot
    BY <2>1, <2>3 DEF NewSnapshot, TypeOK
  <2>5. /\ [Owes("refresh") EXCEPT !.snapshot = snapshot + 1] \in Call
        /\ [Owes("refresh") EXCEPT !.snapshot = snapshot + 1].phase = "due"
    BY <2>4, OwesType DEF Owes, Call
  <2>6. call'[c] # None /\ call'[c].phase = "due"
    BY <2>2, <2>5, NoneAssumption DEF TypeOK
  <2> QED
    BY <2>6, OwedOnceDue
<1>4. CASE \E c \in Callers : Load(c)
  BY <1>4, LoadedCall, OwedOnceDue DEF Load
<1>5. CASE \E c \in Callers : ReadStored(c)
  <2>1. PICK c \in Callers : ReadStored(c)
    BY <1>5
  <2>2. /\ call[c].phase = "loading"
        /\ \A d \in Callers \ {c} : call'[d] = call[d]
        /\ UNCHANGED <<snapshot, held, prices, rate, valuation, missed>>
    BY <2>1 DEF ReadStored, TypeOK
  <2>3. Owed => Owed'
    BY <2>1, <2>2, ReadCall DEF Owed
  <2> QED
    BY <2>2, <2>3, ValueStays
<1>6. CASE \E c \in Callers : Overtaken(c)
  <2>1. PICK c \in Callers : Overtaken(c)
    BY <1>6
  <2>2. /\ call[c].phase = "ready" /\ call[c].snapshot # snapshot
        /\ \A d \in Callers \ {c} : call'[d] = call[d]
        /\ UNCHANGED <<snapshot, held, prices, rate, valuation, missed>>
    BY <2>1 DEF Overtaken, TypeOK
  <2>3. Owed => Owed'
    BY <2>2 DEF Owed
  <2> QED
    BY <2>2, <2>3, ValueStays
<1>7. CASE \E c \in Callers : Apply(c)
  BY <1>7, AppliedIsCurrent DEF LiveCurrentUnlessOwed
<1>8. CASE (\E c \in Callers : ApplyUnacked(c) \/ Fail(c)) \/ ReloadByHistorySync
  BY <1>8 DEF ApplyUnacked, Fail, ReloadByHistorySync, LiveCurrentUnlessOwed
<1>9. CASE \/ \E s \in Source : Discover(s) \/ PriceArrivesUnacked(s)
           \/ \E s \in Source, new \in Row : SetSourceUnacked(s, new)
  <2>1. UNCHANGED <<snapshot, held, prices, rate, valuation, call, missed>>
    BY <1>9 DEF Discover, PriceArrivesUnacked, SetSourceUnacked
  <2>2. Owed => Owed'
    BY <2>1 DEF Owed
  <2> QED
    BY <2>1, <2>2, ValueStays
<1>10. CASE Restart
  <2>1. PICK c \in Callers : call'[c] = Owes("start")
    BY <1>10, RestartCalls
  <2>2. Owes("start") # None /\ Owes("start").phase = "due"
    BY OwesType, NoneAssumption DEF Owes
  <2> QED
    BY <2>1, <2>2, OwedOnceDue
<1> QED
  BY <1>2, <1>3, <1>4, <1>5, <1>6, <1>7, <1>8, <1>9, <1>10 DEF Next, Input, Step

-----------------------------------------------------------------------------
(* The inductive invariant and what it gives. *)

LEMMA InitKeeps ==
  ASSUME Init
  PROVE  IInv
<1>1. snapshot = 1 /\ 1 \in 1..MaxSnapshot
  BY MaxSnapshotAssumption DEF Init
<1>2. PICK c \in Callers : call = [d \in Callers |-> IF d = c THEN Owes("start") ELSE None]
  BY DEF Init
<1>3. NoBaselines \in Baselines
  BY DEF NoBaselines, Baselines
<1>4. Owes("start") \in Call /\ Owes("start").phase = "due" /\ Owes("start").snapshot = 1
  BY <1>1, <1>3 DEF Owes, Call
<1>5. call \in [Callers -> Call \cup {None}]
  BY <1>2, <1>4
<1>6. stored \in [Instruments -> StoredBaseline \cup {None}] /\ \A i \in Instruments : stored[i] = None
  BY DEF Init, NoBaselines
<1>7. TypeOK
  BY <1>1, <1>5, <1>6 DEF Init, TypeOK
<1>8. \A d \in Callers : call[d] # None => call[d].phase = "due" /\ call[d].snapshot = 1
  BY <1>2, <1>4
<1>9. RowsExist /\ PricesForSymbol /\ StoredForSymbol
  BY <1>6 DEF Init, RowsExist, PricesForSymbol, StoredForSymbol
<1>10. NotAhead
  BY <1>1, <1>8 DEF Init, NotAhead
<1>11. KnownIsStored
  BY <1>8 DEF KnownIsStored, ReadyToApply
<1>12. BaselinesStoredUnlessDropped
  BY DEF Init, BaselinesStoredUnlessDropped, Current
<1>13. LiveCurrentUnlessOwed
  <2>1. call[c] = Owes("start") /\ Owes("start") # None
    BY <1>2, <1>4, NoneAssumption
  <2> QED
    BY <1>4, <2>1 DEF LiveCurrentUnlessOwed, Owed
<1> QED
  BY <1>7, <1>9, <1>10, <1>11, <1>12, <1>13 DEF IInv

LEMMA StutterKeeps ==
  ASSUME IInv, UNCHANGED vars
  PROVE  IInv'
<1>1. (Current' <=> Current) /\ (Owed' <=> Owed) /\ (\A b : Usable(b)' <=> Usable(b))
  BY DEF vars, Current, Owed, Usable
<1>2. Calculate(valuation.baselines)' = Calculate(valuation.baselines)
  BY <1>1 DEF vars, Calculate
<1>3. LiveCurrentUnlessOwed'
  BY <1>1, <1>2 DEF IInv, LiveCurrentUnlessOwed, vars
<1>4. TypeOK' /\ RowsExist' /\ PricesForSymbol' /\ NotAhead' /\ StoredForSymbol'
  BY DEF IInv, vars, TypeOK, RowsExist, PricesForSymbol, NotAhead, StoredForSymbol
<1>5. KnownIsStored' /\ BaselinesStoredUnlessDropped'
  BY <1>1 DEF IInv, vars, KnownIsStored, BaselinesStoredUnlessDropped, ReadyToApply, Labelled
<1> QED
  BY <1>3, <1>4, <1>5 DEF IInv

\* Every step keeps what callers, RAM and the tables know of one another.
THEOREM Invariant == Spec => []IInv
<1>1. Init => IInv
  BY InitKeeps
<1>2. IInv /\ [Next]_vars => IInv'
  <2>1. CASE Next
    BY <2>1, TypesKept, RowsKept, SymbolsKept, NotAheadKept, BaselinesKept,
       StoredForSymbolKept, LiveKept DEF IInv
  <2>2. CASE UNCHANGED vars
    BY <2>2, StutterKeeps
  <2> QED
    BY <2>1, <2>2
<1> QED
  BY <1>1, <1>2, PTL DEF Spec

\* Every variable keeps its type, for any instruments, providers and callers.
THEOREM TypeCorrect == Spec => []TypeOK
<1>1. IInv => TypeOK
  BY DEF IInv
<1> QED
  BY <1>1, Invariant, PTL

\* A stored baseline is of the symbol its source has, although the symbol may
\* change while the provider is asked for it (applicableBaselineChanges).
THEOREM StoredAlwaysForSymbol == Spec => []StoredForSymbol
<1>1. IInv => StoredForSymbol
  BY DEF IInv
<1> QED
  BY <1>1, Invariant, PTL

\* RAM has the baselines a restart would load, but for the assets whose
\* baseline a new symbol deleted (apply, SetPriceSource).
THEOREM BaselinesAlwaysStored == Spec => []BaselinesStoredUnlessDropped
<1>1. IInv => BaselinesStoredUnlessDropped
  BY DEF IInv
<1> QED
  BY <1>1, Invariant, PTL

\* The published value is the one of the current inputs, or a recalculation is
\* due or under way, or one failed (Recalculate, Refresh).
THEOREM LiveAlwaysCurrent == Spec => []LiveCurrentUnlessOwed
<1>1. IInv => LiveCurrentUnlessOwed
  BY DEF IInv
<1> QED
  BY <1>1, Invariant, PTL
=============================================================================
