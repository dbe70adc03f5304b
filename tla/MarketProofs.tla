----------------------------- MODULE MarketProofs -----------------------------
(***************************************************************************)
(* Theorems about the parts of the program that bring in market data, for  *)
(* any instruments, times, proxies and bounds: the boards of the exchange, *)
(* its quotes, the points of the mini-chart, the daily history, the FX     *)
(* rate and the runs of the Yahoo provider.  Each part has an inductive    *)
(* invariant; they are put together at the end, as MCMarket puts together  *)
(* the parts.                                                              *)
(***************************************************************************)
EXTENDS MCMarket, FiniteSetTheorems, SequenceTheorems, NaturalsInduction, WellFoundedInduction,
        TLAPS

-----------------------------------------------------------------------------
(* The boards of the exchange. *)

\* The board could be resolved at some time since that day.
SeenSince(board, date) == \E d \in date..today : board \in seen[d]

ChoiceSeen == Choice(listing) \subseteq seen[today]

CacheSeen ==
  cache.board # None => cache.date <= today /\ SeenSince(cache.board, cache.date)

CallsSeen ==
  \A c \in Callers :
    /\ call[c].date <= today
    /\ call[c].phase \in {"fetched", "asking"} => SeenSince(call[c].board, call[c].date)

\* The second attempt of a call during which nothing failed or moved has the
\* board that can be resolved now.
SteadyCurrent ==
  \A c \in Callers : call[c].steady =>
    /\ call[c].again
    /\ call[c].phase \in {"fetched", "asking"} => call[c].board \in Choice(listing)
    /\ call[c].phase = "failed" => Choice(listing) \cap quoted = {}

IInv == TypeOK /\ ChoiceSeen /\ CacheSeen /\ CallsSeen /\ SteadyCurrent

\* There is never more than one board to choose.
LEMMA ChoiceIsOne ==
  ASSUME NEW boards \in Listing
  PROVE  /\ Choice(boards) \subseteq Boards
         /\ \A a, b \in Choice(boards) : a = b
<1> DEFINE primary == {b \in Boards : boards[b] = "primary"}
           traded == {b \in Boards : boards[b] # "untraded"}
<1>1. IsFiniteSet(primary) /\ IsFiniteSet(traded)
  BY BoardsAssumption, FS_Subset
<1>2. \A S : IsFiniteSet(S) /\ Cardinality(S) = 1 => \A a, b \in S : a = b
  BY FS_Singleton
<1> HIDE DEF primary, traded
<1>3. Choice(boards) = IF Cardinality(primary) = 1 THEN primary
                       ELSE IF primary = {} /\ Cardinality(traded) = 1 THEN traded ELSE {}
  BY DEF Choice, primary, traded
<1>4. \A a, b \in Choice(boards) : a = b
  BY <1>1, <1>2, <1>3
<1>5. Choice(boards) \subseteq Boards
  BY <1>3 DEF primary, traded
<1> QED
  BY <1>4, <1>5

\* What a call becomes is a call, and keeps its date and its attempt.
LEMMA FoundParts ==
  ASSUME NEW k \in Call, NEW b \in Boards
  PROVE  /\ Found(k, b) \in Call
         /\ Found(k, b).phase = "fetched" /\ Found(k, b).board = b
         /\ Found(k, b).date = k.date /\ Found(k, b).again = k.again
         /\ Found(k, b).steady = k.steady
BY DEF Call, Found

LEMMA FailedParts ==
  ASSUME NEW k \in Call, NEW s \in BOOLEAN
  PROVE  /\ Failed(k, s) \in Call
         /\ Failed(k, s).phase = "failed"
         /\ Failed(k, s).date = k.date /\ Failed(k, s).again = k.again
         /\ Failed(k, s).steady => k.steady /\ s
BY DEF Call, Failed

LEMMA DisturbedParts ==
  ASSUME NEW k \in Call
  PROVE  /\ Disturbed(k) \in Call
         /\ Disturbed(k).phase = k.phase /\ Disturbed(k).board = k.board
         /\ Disturbed(k).date = k.date /\ ~Disturbed(k).steady
BY DEF Call, Disturbed

LEMMA DoneParts ==
  ASSUME NEW k \in Call
  PROVE  /\ Done(k) \in Call
         /\ Done(k).phase = "done"
         /\ Done(k).date = k.date /\ Done(k).again = k.again /\ Done(k).steady = k.steady
BY DEF Call, Done

LEMMA InitIInv == Init => IInv
<1> SUFFICES ASSUME Init PROVE IInv
  OBVIOUS
<1>1. 1 \in Days /\ listing \in Listing
  BY LastDayAssumption DEF Init, Days
<1>2. Choice(listing) \subseteq Boards
  BY <1>1, ChoiceIsOne
<1>3. TypeOK
  BY <1>1, <1>2 DEF Init, TypeOK, Call
<1>4. ChoiceSeen
  BY <1>1 DEF Init, ChoiceSeen
<1> QED
  BY <1>3, <1>4 DEF Init, IInv, CacheSeen, CallsSeen, SteadyCurrent

LEMMA NextDayKeeps == IInv /\ NextDay => IInv'
<1> SUFFICES ASSUME IInv, NextDay PROVE IInv'
  OBVIOUS
<1> USE DEF IInv
<1>1. today \in Nat /\ today + 1 \in Days /\ today' = today + 1
  BY LastDayAssumption DEF TypeOK, NextDay, Days
<1>2. Choice(listing) \subseteq Boards
  BY ChoiceIsOne DEF TypeOK
<1>3. TypeOK'
  BY <1>1, <1>2 DEF TypeOK, NextDay
<1>4. ASSUME NEW b, NEW d \in Days, SeenSince(b, d) PROVE SeenSince(b, d)'
  BY <1>1, <1>4 DEF SeenSince, NextDay, TypeOK, Days
<1>5. ChoiceSeen'
  BY <1>1 DEF ChoiceSeen, NextDay, TypeOK
<1>6. CacheSeen' /\ CallsSeen'
  BY <1>1, <1>4 DEF CacheSeen, CallsSeen, NextDay, TypeOK, Call, Days
<1>7. SteadyCurrent'
  BY DEF SteadyCurrent, NextDay
<1> QED
  BY <1>3, <1>5, <1>6, <1>7

LEMMA ExchangeKeeps == IInv /\ ExchangeChanges => IInv'
<1> SUFFICES ASSUME IInv, ExchangeChanges PROVE IInv'
  OBVIOUS
<1> USE DEF IInv
<1>1. listing' \in Listing /\ quoted' \in SUBSET Boards /\ today' = today
  BY DEF ExchangeChanges, TypeOK
<1>2. Choice(listing') \subseteq Boards
  BY <1>1, ChoiceIsOne
<1>3. \A c \in Callers :
        /\ call'[c].phase = call[c].phase /\ call'[c].board = call[c].board
        /\ call'[c].date = call[c].date /\ ~call'[c].steady
  BY DisturbedParts DEF ExchangeChanges, TypeOK
<1>4. call' \in [Callers -> Call]
  BY DisturbedParts DEF ExchangeChanges, TypeOK
<1>5. seen' \in [Days -> SUBSET Boards]
  BY <1>2 DEF ExchangeChanges, TypeOK
<1>6. TypeOK'
  BY <1>1, <1>3, <1>4, <1>5 DEF TypeOK, ExchangeChanges
<1>7. ASSUME NEW b, NEW d, SeenSince(b, d) PROVE SeenSince(b, d)'
  BY <1>1, <1>7 DEF SeenSince, ExchangeChanges, TypeOK
<1>8. ChoiceSeen'
  BY <1>1 DEF ChoiceSeen, ExchangeChanges, TypeOK
<1>9. CacheSeen' /\ CallsSeen'
  BY <1>1, <1>3, <1>7 DEF CacheSeen, CallsSeen, ExchangeChanges
<1>10. SteadyCurrent'
  BY <1>3 DEF SteadyCurrent
<1> QED
  BY <1>6, <1>8, <1>9, <1>10

\* Resolving takes the board of the cache only when it is of this day.
LEMMA ResolveKeeps ==
  ASSUME IInv, NEW c \in Callers, NEW force \in BOOLEAN, NEW again \in BOOLEAN,
         again => force, Resolve(c, force, again),
         UNCHANGED <<today, listing, quoted, cache, seen>>
  PROVE  IInv'
<1> USE DEF IInv
<1> DEFINE next == [phase |-> IF Fresh(force) THEN "asking" ELSE "fetching",
                    board |-> IF Fresh(force) THEN cache.board ELSE None,
                    date |-> today, again |-> again, steady |-> again]
<1>1. call' = [call EXCEPT ![c] = next]
  BY DEF Resolve
<1>2. next \in Call
  BY DEF TypeOK, Call
<1>3. Fresh(force) => cache.board \in Boards /\ SeenSince(cache.board, today) /\ ~again
  BY DEF Fresh, CacheSeen, TypeOK
<1> HIDE DEF next
<1>4. call'[c] = next /\ \A b \in Callers \ {c} : call'[b] = call[b]
  BY <1>1 DEF TypeOK
<1>5. TypeOK'
  BY <1>1, <1>2, <1>3, <1>4 DEF TypeOK, next
<1>6. \A b, d : SeenSince(b, d)' <=> SeenSince(b, d)
  BY DEF SeenSince
<1>7. CallsSeen'
  BY <1>3, <1>4, <1>6 DEF CallsSeen, next, TypeOK, Days
<1>8. SteadyCurrent'
  BY <1>3, <1>4 DEF SteadyCurrent, next
<1> QED
  BY <1>5, <1>6, <1>7, <1>8 DEF ChoiceSeen, CacheSeen

LEMMA FetchBoardKeeps ==
  ASSUME IInv, NEW c \in Callers, FetchBoard(c) \/ FetchBoardFails(c) PROVE IInv'
<1> USE DEF IInv
<1>1. UNCHANGED <<today, listing, quoted, cache, seen>> /\ call[c].phase = "fetching"
  BY DEF FetchBoard, FetchBoardFails
<1>2. /\ call' \in [Callers -> Call] /\ \A b \in Callers \ {c} : call'[b] = call[b]
      /\ call'[c].date = call[c].date /\ call'[c].again = call[c].again
      /\ call'[c].steady => call[c].steady
      /\ \/ call'[c].phase = "failed" /\ (call'[c].steady => Choice(listing) = {})
         \/ call'[c].phase = "fetched" /\ call'[c].board \in Choice(listing)
  <2>1. call[c] \in Call /\ call \in [Callers -> Call]
    BY DEF TypeOK
  <2>2. CASE call' = [call EXCEPT ![c] = Failed(call[c], TRUE)] /\ Choice(listing) = {}
    BY <2>1, <2>2, FailedParts
  <2>3. CASE call' = [call EXCEPT ![c] = Failed(call[c], FALSE)]
    BY <2>1, <2>3, FailedParts
  <2>4. ASSUME NEW b \in Choice(listing), call' = [call EXCEPT ![c] = Found(call[c], b)]
        PROVE  <1>2
    <3>1. b \in Boards
      BY ChoiceIsOne DEF TypeOK
    <3> QED
      BY <2>1, <2>4, <3>1, FoundParts
  <2> QED
    BY <2>2, <2>3, <2>4 DEF FetchBoard, FetchBoardFails
<1>3. today \in Days /\ call[c].date \in Days /\ call[c].date <= today
  BY DEF TypeOK, Call, CallsSeen
<1>4. \A b, d : SeenSince(b, d)' <=> SeenSince(b, d)
  BY <1>1 DEF SeenSince
<1>5. \A b \in Choice(listing) : b \in Boards /\ SeenSince(b, call[c].date)
  BY <1>3, ChoiceIsOne DEF ChoiceSeen, SeenSince, TypeOK, Days
<1>6. TypeOK'
  BY <1>1, <1>2, <1>5 DEF TypeOK
<1>7. CallsSeen'
  BY <1>1, <1>2, <1>3, <1>4, <1>5 DEF CallsSeen
<1>8. SteadyCurrent'
  BY <1>1, <1>2 DEF SteadyCurrent
<1> QED
  BY <1>1, <1>4, <1>6, <1>7, <1>8 DEF ChoiceSeen, CacheSeen

\* An entry is as old as the call that stores it, so it is not good for a later
\* day than the exchange was asked on.
LEMMA StoreBoardKeeps ==
  ASSUME IInv, NEW c \in Callers, StoreBoard(c) PROVE IInv'
<1> USE DEF IInv
<1>1. UNCHANGED <<today, listing, quoted, seen>> /\ call[c].phase = "fetched"
  BY DEF StoreBoard
<1>2. call[c] \in Call /\ call[c].board \in Boards
  BY <1>1 DEF TypeOK
<1>3. cache' = [board |-> call[c].board, date |-> call[c].date]
  BY DEF StoreBoard, EntryDate
<1>4. call' \in [Callers -> Call] /\ \A b \in Callers \ {c} : call'[b] = call[b]
  BY DEF StoreBoard, TypeOK, Call
<1>5. /\ call'[c].phase = "asking" /\ call'[c].board = call[c].board
      /\ call'[c].date = call[c].date /\ call'[c].again = call[c].again
      /\ call'[c].steady = call[c].steady
  BY DEF StoreBoard, TypeOK, Call
<1>6. \A b, d : SeenSince(b, d)' <=> SeenSince(b, d)
  BY <1>1 DEF SeenSince
<1>7. TypeOK'
  BY <1>1, <1>2, <1>3, <1>4, <1>5 DEF TypeOK, Call
<1>8. CacheSeen'
  BY <1>1, <1>3, <1>6 DEF CacheSeen, CallsSeen
<1>9. CallsSeen'
  BY <1>1, <1>4, <1>5, <1>6 DEF CallsSeen
<1>10. SteadyCurrent'
  BY <1>1, <1>4, <1>5 DEF SteadyCurrent
<1> QED
  BY <1>1, <1>7, <1>8, <1>9, <1>10 DEF ChoiceSeen

LEMMA AskKeeps ==
  ASSUME IInv, NEW c \in Callers, Ask(c) \/ AskFails(c) PROVE IInv'
<1> USE DEF IInv
<1>1. UNCHANGED <<today, listing, quoted, cache, seen>> /\ call[c].phase = "asking"
  BY DEF Ask, AskFails
<1>2. CASE AskFails(c) /\ MayRetry(c)
  BY <1>1, <1>2, ResolveKeeps DEF AskFails, Refreshes
<1>3. CASE Ask(c) \/ ~MayRetry(c)
  <2>1. call[c] \in Call /\ call \in [Callers -> Call]
    BY DEF TypeOK
  <2>2. /\ call' \in [Callers -> Call] /\ \A b \in Callers \ {c} : call'[b] = call[b]
        /\ call'[c].date = call[c].date /\ call'[c].again = call[c].again
        /\ \/ call'[c].phase = "done" /\ call'[c].steady = call[c].steady
           \/ /\ call'[c].phase = "failed"
              /\ call'[c].steady => call[c].steady /\ call[c].board \notin quoted
    <3>1. CASE Ask(c)
      BY <2>1, <3>1, DoneParts DEF Ask
    <3>2. ASSUME NEW lost \in BOOLEAN, lost \/ call[c].board \notin quoted,
                 call' = [call EXCEPT ![c] = Failed(call[c], ~lost)]
          PROVE  <2>2
      <4>1. (~lost) \in BOOLEAN
        OBVIOUS
      <4>2. /\ Failed(call[c], ~lost) \in Call
            /\ Failed(call[c], ~lost).phase = "failed"
            /\ Failed(call[c], ~lost).date = call[c].date
            /\ Failed(call[c], ~lost).again = call[c].again
            /\ Failed(call[c], ~lost).steady => call[c].steady /\ ~lost
        BY <2>1, <4>1, FailedParts
      <4> QED
        BY <2>1, <3>2, <4>2
    <3> QED
      BY <1>3, <3>1, <3>2 DEF AskFails
  <2>3. call[c].steady => Choice(listing) \subseteq {call[c].board}
    BY <1>1, ChoiceIsOne DEF SteadyCurrent, TypeOK
  <2>4. \A b, d : SeenSince(b, d)' <=> SeenSince(b, d)
    BY <1>1 DEF SeenSince
  <2>5. TypeOK'
    BY <1>1, <2>2 DEF TypeOK
  <2>6. CallsSeen'
    BY <1>1, <2>2, <2>4 DEF CallsSeen
  <2>7. SteadyCurrent'
    BY <1>1, <2>2, <2>3 DEF SteadyCurrent
  <2> QED
    BY <1>1, <2>4, <2>5, <2>6, <2>7 DEF ChoiceSeen, CacheSeen
<1> QED
  BY <1>2, <1>3

LEMMA RestartKeeps == IInv /\ Restart => IInv'
<1> SUFFICES ASSUME IInv, Restart PROVE IInv'
  OBVIOUS
<1> USE DEF IInv
<1>1. 1 \in Days
  BY LastDayAssumption DEF Days
<1>2. TypeOK'
  BY <1>1 DEF TypeOK, Restart, Call
<1>3. \A c \in Callers : call'[c].phase = "idle" /\ ~call'[c].steady /\ call'[c].date = 1
  BY DEF Restart
<1>4. CacheSeen' /\ CallsSeen' /\ SteadyCurrent'
  BY <1>3 DEF CacheSeen, CallsSeen, SteadyCurrent, Restart, TypeOK, Days
<1> QED
  BY <1>2, <1>4 DEF ChoiceSeen, Restart

LEMMA NextIInv == IInv /\ [Next]_vars => IInv'
<1> SUFFICES ASSUME IInv, [Next]_vars PROVE IInv'
  OBVIOUS
<1>1. ASSUME NEW c \in Callers, Begin(c) PROVE IInv'
  BY <1>1, ResolveKeeps DEF Begin
<1>2. CASE UNCHANGED vars
  <2>1. \A b, d : SeenSince(b, d)' <=> SeenSince(b, d)
    BY <1>2 DEF SeenSince, vars
  <2> QED
    BY <1>2, <2>1 DEF vars, IInv, TypeOK, ChoiceSeen, CacheSeen, CallsSeen, SteadyCurrent
<1> QED
  BY <1>1, <1>2, NextDayKeeps, ExchangeKeeps, FetchBoardKeeps, StoreBoardKeeps, AskKeeps,
     RestartKeeps DEF Next, Step

LEMMA AlwaysIInv == Spec => []IInv
BY InitIInv, NextIInv, PTL DEF Spec

\* The provider's cache and calls keep their types; a call that asks for a
\* price has a board.
THEOREM TypeCorrect == Spec => []TypeOK
<1>1. IInv => TypeOK
  BY DEF IInv
<1> QED
  BY <1>1, AlwaysIInv, PTL

\* For any number of callers, boards and days: a price is asked on a board that
\* could be resolved since the day its call began on.
THEOREM AlwaysOnBoardOfTheDay == Spec => []AskedOnBoardOfTheDay
<1>1. IInv => AskedOnBoardOfTheDay
  BY DEF IInv, CallsSeen, SeenSince, AskedOnBoardOfTheDay
<1> QED
  BY <1>1, AlwaysIInv, PTL

\* A quote is found on the board the security moved to, for any number of
\* callers that overwrite each other's entries.
THEOREM MovedBoardAlwaysFound == Spec => []MovedBoardFound
<1>1. IInv => MovedBoardFound
  BY DEF IInv, SteadyCurrent, MovedBoardFound, Callers
<1> QED
  BY <1>1, AlwaysIInv, PTL

\* The steps that are left to a call, of its first attempt and of its second.
CallLeft(c) ==
  LET inAttempt == CASE call[c].phase = "fetching" -> 3
                     [] call[c].phase = "fetched" -> 2
                     [] call[c].phase = "asking" -> 1
                     [] OTHER -> 0
  IN IF inAttempt > 0 /\ ~call[c].again THEN inAttempt + 3 ELSE inAttempt

\* A step of a call leaves it fewer steps; midnight, the exchange, other calls
\* and a restart leave it no more than it had.
CallsShorten ==
  [][\A c \in Callers : CallLeft(c) > 0 =>
       /\ CallLeft(c)' <= CallLeft(c)
       /\ Step(c) => CallLeft(c)' < CallLeft(c)]_vars

LEMMA OwnStepShortens ==
  ASSUME TypeOK, NEW c \in Callers, Step(c)
  PROVE  CallLeft(c)' < CallLeft(c)
<1>1. /\ call[c] \in Call
      /\ \A s \in BOOLEAN : Failed(call[c], s).phase = "failed"
                           /\ Failed(call[c], s).again = call[c].again
  BY FailedParts DEF TypeOK
<1>2. CASE FetchBoard(c)
  <2>1. /\ call[c].phase = "fetching"
        /\ \/ call'[c] = Failed(call[c], TRUE)
           \/ \E b \in Boards : call'[c] = Found(call[c], b)
    BY <1>2, ChoiceIsOne DEF FetchBoard, TypeOK
  <2>2. /\ call'[c].phase \in {"failed", "fetched"}
        /\ call'[c].again = call[c].again
    <3>1. CASE call'[c] = Failed(call[c], TRUE)
      BY <1>1, <3>1
    <3>2. CASE \E b \in Boards : call'[c] = Found(call[c], b)
      BY <1>1, <3>2, FoundParts
    <3> QED
      BY <2>1, <3>1, <3>2
  <2> QED
    BY <2>1, <2>2 DEF CallLeft
<1>3. CASE FetchBoardFails(c)
  <2>1. call[c].phase = "fetching" /\ call'[c].phase = "failed"
    BY <1>1, <1>3 DEF FetchBoardFails, TypeOK
  <2> QED
    BY <2>1 DEF CallLeft
<1>4. CASE StoreBoard(c)
  <2>1. /\ call[c].phase = "fetched" /\ call'[c].phase = "asking"
        /\ call'[c].again = call[c].again
    BY <1>1, <1>4 DEF StoreBoard, TypeOK, Call
  <2> QED
    BY <2>1 DEF CallLeft
<1>5. CASE Ask(c)
  <2>1. call[c].phase = "asking" /\ call'[c].phase = "done"
    BY <1>1, <1>5, DoneParts DEF Ask, TypeOK
  <2> QED
    BY <2>1 DEF CallLeft
<1>6. CASE AskFails(c)
  <2>1. PICK lost \in BOOLEAN : IF MayRetry(c)
                                THEN Resolve(c, Refreshes, TRUE)
                                ELSE call' = [call EXCEPT ![c] = Failed(call[c], ~lost)]
    BY <1>6 DEF AskFails
  <2>2. call[c].phase = "asking"
    BY <1>6 DEF AskFails
  <2>3. CASE MayRetry(c)
    <3>1. ~call[c].again /\ call'[c].phase = "fetching" /\ call'[c].again = TRUE
      BY <2>1, <2>3 DEF MayRetry, Resolve, Fresh, Refreshes, TypeOK
    <3> QED
      BY <2>2, <3>1 DEF CallLeft
  <2>4. CASE ~MayRetry(c)
    <3>1. call'[c].phase = "failed"
      BY <1>1, <2>1, <2>4 DEF TypeOK
    <3> QED
      BY <2>2, <3>1 DEF CallLeft
  <2> QED
    BY <2>3, <2>4
<1> QED
  BY <1>2, <1>3, <1>4, <1>5, <1>6 DEF Step

LEMMA OthersShortenNothing ==
  ASSUME TypeOK, NEW c \in Callers, CallLeft(c) > 0, [Next]_vars, ~Step(c)
  PROVE  CallLeft(c)' <= CallLeft(c)
<1>1. CallLeft(c) \in Nat
  BY DEF CallLeft
<1>2. CASE call'[c].phase = call[c].phase /\ call'[c].again = call[c].again
  <2>1. CallLeft(c)' = CallLeft(c)
    BY <1>2 DEF CallLeft
  <2> QED
    BY <1>1, <2>1
<1>3. CASE NextDay \/ UNCHANGED vars
  BY <1>2, <1>3 DEF NextDay, vars
<1>4. CASE ExchangeChanges
  <2>1. call'[c].phase = call[c].phase /\ call'[c].again = call[c].again
    BY <1>4 DEF ExchangeChanges, Disturbed, TypeOK, Call
  <2> QED
    BY <1>2, <2>1
<1>5. CASE Restart
  <2>1. call'[c].phase = "idle"
    BY <1>5 DEF Restart
  <2>2. CallLeft(c)' = 0
    BY <2>1 DEF CallLeft
  <2> QED
    BY <1>1, <2>2
<1>6. ASSUME NEW d \in Callers, Begin(d) \/ Step(d)
      PROVE  CallLeft(c)' <= CallLeft(c)
  <2>1. d # c
    <3>1. call[c].phase \in {"fetching", "fetched", "asking"}
      BY DEF CallLeft
    <3> QED
      BY <1>6, <3>1 DEF Begin
  <2>2. call'[c] = call[c]
    BY <1>6, <2>1 DEF Begin, Step, FetchBoard, FetchBoardFails, StoreBoard, Ask, AskFails, Resolve,
                      TypeOK
  <2> QED
    BY <1>2, <2>2
<1> QED
  BY <1>3, <1>4, <1>5, <1>6 DEF Next

\* For any number of callers that begin anew and change the cache meanwhile: a
\* call to the exchange has six steps at most, and none of them is ever added.
THEOREM CallsAlwaysShorten == Spec => CallsShorten
<1>1. TypeOK /\ [Next]_vars =>
        [\A c \in Callers : CallLeft(c) > 0 =>
           /\ CallLeft(c)' <= CallLeft(c)
           /\ Step(c) => CallLeft(c)' < CallLeft(c)]_vars
  <2> SUFFICES ASSUME TypeOK, [Next]_vars, NEW c \in Callers, CallLeft(c) > 0
               PROVE  /\ CallLeft(c)' <= CallLeft(c)
                      /\ Step(c) => CallLeft(c)' < CallLeft(c)
    OBVIOUS
  <2>1. CallLeft(c) \in Nat /\ CallLeft(c)' \in Nat
    BY DEF CallLeft
  <2> QED
    BY <2>1, OwnStepShortens, OthersShortenNothing
<1> QED
  BY <1>1, TypeCorrect, PTL DEF Spec, CallsShorten

-----------------------------------------------------------------------------
(* The daily history, by the theorems of DailyHistoryProofs. *)

HP == INSTANCE DailyHistoryProofs WITH
  today <- dailyToday, stored <- dailyStored, ram <- dailyRAM, sync <- dailySync,
  unacked <- dailyUnacked
\* The theorems about the daily history are about this one.
LEMMA SameCardinality == ASSUME NEW S PROVE HP!Cardinality(S) = History!Cardinality(S)
BY DEF HP!Cardinality, History!Cardinality

LEMMA SameHistory ==
  /\ HP!Init <=> History!Init
  /\ HP!Next <=> History!Next
  /\ HP!vars = History!vars
  /\ HP!TypeOK <=> History!TypeOK
  /\ HP!NoGapUnlessLate <=> History!NoGapUnlessLate
  /\ HP!HistoryIsDurable <=> History!HistoryIsDurable
  /\ HP!BoundsAssumption <=> History!BoundsAssumption
  /\ HP!MarksAssumption <=> History!MarksAssumption
  /\ HP!NoneAssumption <=> History!NoneAssumption
<1>1. HP!Dates = History!Dates /\ HP!History = History!History /\ HP!Sync = History!Sync
  BY DEF HP!Dates, History!Dates, HP!History, History!History, HP!Sync, History!Sync
<1>2. \A h : HP!Priced(h) = History!Priced(h)
  BY <1>1 DEF HP!Priced, History!Priced
<1>3. \A dates, default : HP!LatestOr(dates, default) = History!LatestOr(dates, default)
  BY DEF HP!LatestOr, History!LatestOr, HP!Max, History!Max
<1>4. HP!vars = History!vars
  BY DEF HP!vars, History!vars
<1>5. HP!Init <=> History!Init
  BY <1>1 DEF HP!Init, History!Init
<1>6. HP!Rows = History!Rows
  BY DEF HP!Rows, History!Rows
<1>7. \A d : HP!Before(d) = History!Before(d)
  BY <1>6, SameCardinality DEF HP!Before, History!Before
<1>8. HP!Page = History!Page
  BY <1>6, <1>7 DEF HP!Page, History!Page
<1>9. \A items : HP!Merged(items) = History!Merged(items)
  BY <1>1 DEF HP!Merged, History!Merged
<1>10. \A items : HP!Conflict(items) <=> History!Conflict(items)
  BY DEF HP!Conflict, History!Conflict
<1>11. HP!ExchangeChanges <=> History!ExchangeChanges
  BY <1>1, <1>2 DEF HP!ExchangeChanges, History!ExchangeChanges, HP!Reads, History!Reads
<1>12. HP!BeginSync <=> History!BeginSync
  <2>1. HP!From = History!From
    BY <1>2, <1>3 DEF HP!From, History!From
  <2> QED
    BY <2>1 DEF HP!BeginSync, History!BeginSync
<1>13. HP!ReadPage <=> History!ReadPage
  <2>1. HP!NextStart(HP!Page) = History!NextStart(History!Page)
    BY <1>8, SameCardinality DEF HP!NextStart, History!NextStart
  <2>2. {<<d, candles[d]>> : d \in HP!Page \cap HP!Priced(candles)}
          = {<<d, candles[d]>> : d \in History!Page \cap History!Priced(candles)}
    BY <1>2, <1>8
  <2> QED
    BY <1>8, <2>1, <2>2 DEF HP!ReadPage, History!ReadPage
<1>14. (HP!Apply <=> History!Apply) /\ (HP!ApplyUnacked <=> History!ApplyUnacked)
  BY <1>9, <1>10 DEF HP!Apply, History!Apply, HP!ApplyUnacked, History!ApplyUnacked, HP!Changed,
     History!Changed
<1>15. HP!Next <=> History!Next
  BY <1>10, <1>11, <1>12, <1>13, <1>14
     DEF HP!Next, History!Next, HP!NextDay, History!NextDay, HP!SyncRefused, History!SyncRefused,
         HP!SyncFails, History!SyncFails, HP!Reload, History!Reload, HP!Restart, History!Restart
<1>16. HP!TypeOK <=> History!TypeOK
  BY <1>1 DEF HP!TypeOK, History!TypeOK
<1>17. HP!NoGapUnlessLate <=> History!NoGapUnlessLate
  BY <1>2, <1>3 DEF HP!NoGapUnlessLate, History!NoGapUnlessLate
<1> QED
  BY <1>1, <1>4, <1>5, <1>15, <1>16, <1>17
     DEF HP!HistoryIsDurable, History!HistoryIsDurable, HP!BoundsAssumption,
         History!BoundsAssumption, HP!MarksAssumption, History!MarksAssumption,
         HP!NoneAssumption, History!NoneAssumption

-----------------------------------------------------------------------------
(* Numbers, sizes and places. *)

LEMMA Least ==
  ASSUME NEW S \in SUBSET Nat, S # {}
  PROVE  \E m \in S : \A k \in S : m <= k
<1>1. PICK m \in S : \A k \in S : <<k, m>> \notin OpToRel(<, Nat)
  BY NatLessThanWellFounded, WFMin
<1>2. \A k \in S : ~(k < m)
  BY <1>1 DEF OpToRel
<1> QED
  BY <1>2

\* The instances' sizes of sets are the sizes of sets.
LEMMA SameSizes ==
  ASSUME NEW S
  PROVE  /\ HP!Cardinality(S) = Cardinality(S) /\ Points!Cardinality(S) = Cardinality(S)
         /\ HP!IsFiniteSet(S) <=> IsFiniteSet(S)
<1>1. HP!Cardinality(S) = Cardinality(S)
  BY DEF HP!Cardinality, Cardinality
<1>2. Points!Cardinality(S) = Cardinality(S)
  BY DEF Points!Cardinality, Cardinality
<1>3. HP!IsFiniteSet(S) <=> IsFiniteSet(S)
  BY DEF HP!IsFiniteSet, IsFiniteSet
<1> QED
  BY <1>1, <1>2, <1>3

LEMMA RunsSizes == ASSUME NEW S PROVE Runs!Cardinality(S) = Cardinality(S)
BY DEF Runs!Cardinality, Cardinality

Place(S, key, x) == Cardinality({y \in S : key[y] < key[x]})

\* The places of the elements of a finite set in the order of a key.
LEMMA Places ==
  ASSUME NEW S, IsFiniteSet(S), NEW key, HP!IsKey(S, key)
  PROVE  /\ \A x \in S : Place(S, key, x) \in 0..(Cardinality(S) - 1)
         /\ \A x, y \in S : key[x] < key[y] => Place(S, key, x) < Place(S, key, y)
         /\ \A n \in 0..(Cardinality(S) - 1) : \E x \in S : Place(S, key, x) = n
<1>1. \A x \in S : HP!Rank(S, key, x) = Place(S, key, x)
  BY SameSizes DEF HP!Rank, Place
<1>2. HP!IsFiniteSet(S) /\ HP!Cardinality(S) = Cardinality(S)
  BY SameSizes
<1>3. \A x \in S : HP!Rank(S, key, x) \in 0..(HP!Cardinality(S) - 1)
  BY <1>2, HP!RankType
<1>4. \A x, y \in S : key[x] < key[y] => HP!Rank(S, key, x) < HP!Rank(S, key, y)
  BY <1>2, HP!RankOrder
<1>5. \A n \in 0..(HP!Cardinality(S) - 1) : \E x \in S : HP!Rank(S, key, x) = n
  BY <1>2, HP!RankExists
<1> QED
  BY <1>1, <1>2, <1>3, <1>4, <1>5

-----------------------------------------------------------------------------
(* The USD/RUB rate. *)

RatesInv ==
  /\ Rates!TypeOK
  /\ Rates!RateIsDurable
  /\ fxRAM # None => fxStored # None /\ fxRAM.priced <= fxStored.priced

LEMMA RatesInitInv == Rates!Init => RatesInv
BY DEF Rates!Init, RatesInv, Rates!TypeOK, Rates!RateIsDurable

LEMMA RatesStep ==
  ASSUME Rates!MaxTimeAssumption, Rates!NoneAssumption, RatesInv, [Rates!Next]_(Rates!vars)
  PROVE  /\ RatesInv'
         /\ fxStored # None => fxStored'.priced >= fxStored.priced
         /\ fxRAM # None => fxRAM' # None /\ fxRAM'.priced >= fxRAM.priced
<1> DEFINE Advances ==
      /\ fxStored # None => fxStored'.priced >= fxStored.priced
      /\ fxRAM # None => fxRAM' # None /\ fxRAM'.priced >= fxRAM.priced
<1>1. \A r \in Rates!Rate : r # None /\ r.priced \in Nat
  BY DEF Rates!Rate, Rates!Time, Rates!MaxTimeAssumption, Rates!NoneAssumption
<1>2. Rates!TypeOK'
  BY <1>1 DEF RatesInv, Rates!TypeOK, Rates!Next, Rates!vars, Rates!MarketTrades, Rates!Fetch,
              Rates!SyncFails, Rates!Apply, Rates!Published, Rates!Taken, Rates!ApplyUnacked,
              Rates!Restart
<1>3. CASE Rates!MarketTrades \/ Rates!Fetch \/ Rates!SyncFails \/ UNCHANGED Rates!vars
  <2>1. UNCHANGED <<fxStored, fxRAM, fxUnacked>>
    BY <1>3 DEF Rates!MarketTrades, Rates!Fetch, Rates!SyncFails, Rates!vars
  <2> QED
    BY <1>1, <1>2, <2>1 DEF RatesInv, Rates!TypeOK, Rates!RateIsDurable
<1>4. CASE Rates!Apply \/ Rates!ApplyUnacked
  BY <1>1, <1>2, <1>4 DEF RatesInv, Rates!TypeOK, Rates!RateIsDurable, Rates!Apply, Rates!Published,
                          Rates!Taken, Rates!ApplyUnacked
<1>5. CASE Rates!Restart
  BY <1>1, <1>2, <1>5 DEF RatesInv, Rates!TypeOK, Rates!RateIsDurable, Rates!Restart
<1> QED
  BY <1>3, <1>4, <1>5 DEF Rates!Next

-----------------------------------------------------------------------------
(* The quotes of the exchange. *)

\* Where a day begins: a moment is a number of days and a time of the day.
LEMMA MomentParts ==
  ASSUME NEW D \in Nat \ {0}, NEW t \in Nat
  PROVE  \E a \in Nat, r \in 0..(D - 1) :
           r = t % D /\ t = D * a + r /\ D * a \in Nat /\ t - r = D * a
<1>1. t = D * (t \div D) + (t % D)
  OBVIOUS
<1>2. t \div D \in Nat /\ t % D \in 0..(D - 1)
  OBVIOUS
<1>3. D * (t \div D) \in Nat
  BY <1>2
<1> QED
  BY <1>1, <1>2, <1>3

LEMMA MomentOfParts ==
  ASSUME NEW D \in Nat \ {0}, NEW a \in Nat, NEW r \in 0..(D - 1)
  PROVE  (D * a + r) % D = r
OBVIOUS

LEMMA EarlierDay ==
  ASSUME NEW D \in Nat \ {0}, NEW a \in Nat, NEW b \in Nat, NEW r \in 0..(D - 1),
         NEW s \in 0..(D - 1), D * a + r <= D * b + s
  PROVE  D * a <= D * b
<1>1. CASE a <= b
  BY <1>1
<1>2. CASE a >= b + 1
  <2>1. D * a >= D * (b + 1) /\ D * (b + 1) = D * b + D
    BY <1>2
  <2> QED
    BY <2>1
<1> QED
  BY <1>1, <1>2

LEMMA DayStarts ==
  ASSUME Quotes!BoundsAssumption, NEW t \in Nat, NEW u \in Nat
  PROVE  /\ Quotes!DayStart(t) \in Nat /\ Quotes!DayStart(t) <= t
         /\ t <= u => Quotes!DayStart(t) <= Quotes!DayStart(u)
         /\ u % DayLen \in Nat
         /\ Quotes!DayStart(Quotes!DayStart(t)) = Quotes!DayStart(t)
         /\ Quotes!DayStart(Quotes!DayStart(t) + (u % DayLen)) = Quotes!DayStart(t)
         /\ u = Quotes!DayStart(u) + (u % DayLen)
<1>1. DayLen \in Nat \ {0}
  BY DEF Quotes!BoundsAssumption
<1>2. PICK a \in Nat, r \in 0..(DayLen - 1) :
        r = t % DayLen /\ t = DayLen * a + r /\ DayLen * a \in Nat /\ t - r = DayLen * a
  BY <1>1, MomentParts
<1>3. PICK b \in Nat, s \in 0..(DayLen - 1) :
        s = u % DayLen /\ u = DayLen * b + s /\ DayLen * b \in Nat /\ u - s = DayLen * b
  BY <1>1, MomentParts
<1>4. Quotes!DayStart(t) = DayLen * a /\ Quotes!DayStart(u) = DayLen * b
  BY <1>2, <1>3 DEF Quotes!DayStart
<1>5. t <= u => DayLen * a <= DayLen * b
  BY <1>1, <1>2, <1>3, EarlierDay
<1>6. ASSUME NEW q \in 0..(DayLen - 1) PROVE Quotes!DayStart(DayLen * a + q) = DayLen * a
  <2>1. (DayLen * a + q) % DayLen = q
    BY <1>1, MomentOfParts
  <2> QED
    BY <1>2, <2>1 DEF Quotes!DayStart
<1>7. Quotes!DayStart(DayLen * a) = DayLen * a
  <2>1. 0 \in 0..(DayLen - 1) /\ DayLen * a + 0 = DayLen * a
    BY <1>1, <1>2
  <2> QED
    BY <1>6, <2>1
<1>8. Quotes!DayStart(DayLen * a + s) = DayLen * a
  BY <1>6
<1> QED
  BY <1>1, <1>2, <1>3, <1>4, <1>5, <1>7, <1>8

\* A session begins on a later day than the one before, and its trades are past.
Sessions ==
  /\ market # None => market.at <= now
  /\ prev # None => Quotes!DayStart(prev.at) < Quotes!DayStart(now)
  /\ prev # None /\ market # None =>
       Quotes!DayStart(prev.at) < Quotes!DayStart(market.at)

\* No trade is stored that the exchange has not had, and none with the date of
\* an earlier day.
StoredPast ==
  quoteStored # None =>
    /\ quoteStored.trade <= now
    /\ Quotes!DayStart(quoteStored.trade) <= quoteStored.priced
    /\ market # None => quoteStored.trade <= market.at
    /\ prev # None => \/ quoteStored.trade <= prev.at
                      \/ Quotes!DayStart(prev.at) < Quotes!DayStart(quoteStored.trade)

\* A price with the date of its day is not later than the last trade, unless it
\* is the price of that trade.
PricedBefore ==
  quoteStored # None /\ ~misdated =>
    /\ quoteStored.priced <= now
    /\ market # None => \/ quoteStored.priced <= market.at
                        \/ quoteStored.trade = market.at /\ quoteStored.value = market.value

LastStored ==
  current /\ ~misdated =>
    market # None /\ quoteStored # None /\ quoteStored.value = market.value

QuotesInv == Quotes!TypeOK /\ Sessions /\ StoredPast /\ PricedBefore /\ LastStored

LEMMA QuotesInitInv == ASSUME Quotes!BoundsAssumption PROVE Quotes!Init => QuotesInv
<1> SUFFICES ASSUME Quotes!Init PROVE QuotesInv
  OBVIOUS
<1>1. now = 0 /\ market = None /\ prev = None /\ quoteStored = None /\ misdated = FALSE
      /\ current = FALSE
  BY DEF Quotes!Init
<1>2. Quotes!TypeOK
  <2>1. 0 \in Quotes!Time
    BY DEF Quotes!BoundsAssumption, Quotes!Time
  <2>2. misdated \in BOOLEAN /\ current \in BOOLEAN
    BY <1>1
  <2> QED
    BY <1>1, <2>1, <2>2 DEF Quotes!TypeOK
<1> QED
  BY <1>1, <1>2 DEF QuotesInv, Sessions, StoredPast, PricedBefore, LastStored

LEMMA QuotesTypes ==
  ASSUME Quotes!BoundsAssumption, Quotes!NoneAssumption, Quotes!TypeOK
  PROVE  /\ now \in Nat
         /\ market # None => market.value \in Value /\ market.at \in Nat
         /\ prev # None => prev.value \in Value /\ prev.at \in Nat
         /\ quoteStored # None => /\ quoteStored.value \in Value
                                  /\ quoteStored.priced \in Nat /\ quoteStored.trade \in Nat
BY DEF Quotes!BoundsAssumption, Quotes!NoneAssumption, Quotes!TypeOK, Quotes!Trade,
       Quotes!Stored, Quotes!Time

\* The clock goes on, a trade is made, a session begins: the exchange steps.
LEMMA TickKeeps ==
  ASSUME Quotes!BoundsAssumption, Quotes!NoneAssumption, QuotesInv, Quotes!Tick
  PROVE  QuotesInv'
<1> USE QuotesTypes DEF QuotesInv
<1>1. /\ now' = now + 1 /\ now < MaxTime
      /\ UNCHANGED <<market, prev, quoteStored, misdated, current>>
  BY DEF Quotes!Tick
<1>2. Quotes!TypeOK'
  BY <1>1 DEF Quotes!TypeOK, Quotes!Time, Quotes!BoundsAssumption
<1>3. Quotes!DayStart(now) <= Quotes!DayStart(now') /\ Quotes!DayStart(now) \in Nat
      /\ Quotes!DayStart(now') \in Nat
  BY <1>1, DayStarts
<1>4. Sessions'
  <2>1. prev # None => Quotes!DayStart(prev.at) \in Nat
    BY DayStarts
  <2> QED
    BY <1>1, <1>3, <2>1 DEF Sessions
<1>5. StoredPast' /\ PricedBefore' /\ LastStored'
  BY <1>1 DEF StoredPast, PricedBefore, LastStored
<1> QED
  BY <1>2, <1>4, <1>5

LEMMA TradeKeeps ==
  ASSUME Quotes!BoundsAssumption, Quotes!NoneAssumption, QuotesInv, Quotes!MarketTrades
  PROVE  QuotesInv'
<1> USE QuotesTypes DEF QuotesInv
<1>1. /\ UNCHANGED <<now, prev, quoteStored, misdated>> /\ current' = FALSE
      /\ market # None => Quotes!DayStart(market.at) = Quotes!DayStart(now)
      /\ market'.at = now /\ market' \in Quotes!Trade
  BY DEF Quotes!MarketTrades, Quotes!TypeOK, Quotes!Trade
<1>2. Quotes!TypeOK'
  BY <1>1 DEF Quotes!TypeOK
<1>3. Sessions'
  BY <1>1 DEF Sessions
<1>4. StoredPast' /\ PricedBefore' /\ LastStored'
  BY <1>1 DEF StoredPast, PricedBefore, LastStored
<1> QED
  BY <1>2, <1>3, <1>4

LEMMA SessionKeeps ==
  ASSUME Quotes!BoundsAssumption, Quotes!NoneAssumption, QuotesInv, Quotes!SessionReset
  PROVE  QuotesInv'
<1> USE QuotesTypes DEF QuotesInv
<1>1. /\ UNCHANGED <<now, quoteStored, misdated>> /\ current' = FALSE
      /\ market # None /\ Quotes!DayStart(market.at) # Quotes!DayStart(now)
      /\ prev' = market /\ market' = None
  BY DEF Quotes!SessionReset
<1>2. Quotes!TypeOK'
  BY <1>1 DEF Quotes!TypeOK
<1>3. Quotes!DayStart(market.at) <= Quotes!DayStart(now)
      /\ Quotes!DayStart(market.at) \in Nat /\ Quotes!DayStart(now) \in Nat
  BY <1>1, DayStarts DEF Sessions
<1>4. Sessions' /\ StoredPast' /\ PricedBefore' /\ LastStored'
  BY <1>1, <1>3 DEF Sessions, StoredPast, PricedBefore, LastStored
<1> QED
  BY <1>2, <1>4

\* What the provider makes of an answer: the last trade, at its time or after
\* it, or the previous close, at the beginning of its day.
LEMMA QuotesAre ==
  ASSUME Quotes!BoundsAssumption, Quotes!NoneAssumption, QuotesInv,
         NEW fields, NEW q \in Quotes!Quotes(fields)
  PROVE  /\ q \in Quotes!Stored
         /\ \/ /\ market # None /\ q.trade = market.at /\ q.value = market.value
               /\ market.at <= q.priced
               /\ \/ q.priced <= now
                  \/ Quotes!DayStart(q.priced) > Quotes!DayStart(q.trade)
            \/ /\ prev # None /\ q.trade = prev.at
               /\ q.priced = Quotes!DayStart(prev.at)
<1> USE QuotesTypes DEF QuotesInv
<1>1. CASE \E p \in Quotes!LastTimes(fields) :
             market # None /\ q = [value |-> market.value, priced |-> p, trade |-> market.at]
  <2>1. PICK p \in Quotes!LastTimes(fields) :
          market # None /\ q = [value |-> market.value, priced |-> p, trade |-> market.at]
    BY <1>1
  <2> DEFINE at == market.at
  <2>2. at \in Nat /\ at <= now
    BY <2>1 DEF Sessions
  <2>3. \/ p = at
        \/ p = Quotes!DayStart(now) + (at % DayLen)
        \/ p \in at..now
    BY <2>1 DEF Quotes!LastTimes
  <2>4. p \in Nat /\ at <= p /\ (p <= now \/ Quotes!DayStart(p) > Quotes!DayStart(at))
    <3>1. CASE p = at \/ p \in at..now
      BY <2>2, <3>1
    <3>2. CASE p = Quotes!DayStart(now) + (at % DayLen)
      <4>1. /\ Quotes!DayStart(at) <= Quotes!DayStart(now)
            /\ Quotes!DayStart(at) \in Nat /\ Quotes!DayStart(now) \in Nat
            /\ at % DayLen \in Nat /\ at = Quotes!DayStart(at) + (at % DayLen)
            /\ Quotes!DayStart(p) = Quotes!DayStart(now)
        BY <2>2, <3>2, DayStarts
      <4> QED
        BY <2>2, <3>2, <4>1
    <3> QED
      BY <2>3, <3>1, <3>2
  <2>5. q \in Quotes!Stored
    BY <2>1, <2>4 DEF Quotes!Stored, Quotes!TypeOK, Quotes!Trade, Quotes!NoneAssumption
  <2> QED
    BY <2>1, <2>4, <2>5
<1>2. CASE prev # None /\ q = [value |-> prev.value, priced |-> Quotes!PreviousTime,
                               trade |-> prev.at]
  <2>1. Quotes!PreviousTime = Quotes!DayStart(prev.at) /\ Quotes!DayStart(prev.at) \in Nat
    BY <1>2, DayStarts DEF Quotes!PreviousTime
  <2> QED
    BY <1>2, <2>1 DEF Quotes!Stored, Quotes!TypeOK, Quotes!Trade, Quotes!NoneAssumption
<1>3. \/ market # None /\ \E p \in Quotes!LastTimes(fields) :
           q = [value |-> market.value, priced |-> p, trade |-> market.at]
      \/ prev # None /\ q = [value |-> prev.value, priced |-> Quotes!PreviousTime,
                             trade |-> prev.at]
  BY DEF Quotes!Quotes
<1> QED
  BY <1>1, <1>2, <1>3

LEMMA SyncPriceKeeps ==
  ASSUME Quotes!BoundsAssumption, Quotes!NoneAssumption, QuotesInv, Quotes!SyncPrice
  PROVE  /\ QuotesInv'
         /\ quoteStored # None => quoteStored'.trade >= quoteStored.trade
<1> USE QuotesTypes DEF QuotesInv
<1>1. PICK fields \in SUBSET {"TRADEDATE", "TIME", "SYSTIME", "UPDATETIME"} :
        \E q \in Quotes!Quotes(fields) :
          /\ IF Quotes!Accepts(q)
             THEN /\ quoteStored' = q
                  /\ misdated' = (Quotes!DayStart(q.priced) > Quotes!DayStart(q.trade))
             ELSE UNCHANGED <<quoteStored, misdated>>
          /\ current' = (market # None /\ q.trade = market.at)
  BY DEF Quotes!SyncPrice
<1>2. PICK q \in Quotes!Quotes(fields) :
          /\ IF Quotes!Accepts(q)
             THEN /\ quoteStored' = q
                  /\ misdated' = (Quotes!DayStart(q.priced) > Quotes!DayStart(q.trade))
             ELSE UNCHANGED <<quoteStored, misdated>>
          /\ current' = (market # None /\ q.trade = market.at)
  BY <1>1
<1>3. UNCHANGED <<now, market, prev>>
  BY DEF Quotes!SyncPrice
<1> DEFINE IsLast == /\ market # None /\ q.trade = market.at /\ q.value = market.value
                     /\ market.at <= q.priced
                     /\ \/ q.priced <= now
                        \/ Quotes!DayStart(q.priced) > Quotes!DayStart(q.trade)
           IsPrevious == /\ prev # None /\ q.trade = prev.at
                         /\ q.priced = Quotes!DayStart(prev.at)
<1>4. q \in Quotes!Stored /\ (IsLast \/ IsPrevious)
  BY QuotesAre
<1>5. q # None /\ q.priced \in Nat /\ q.trade \in Nat /\ q.value \in Value
  BY <1>4 DEF Quotes!Stored, Quotes!NoneAssumption, Quotes!Time, Quotes!BoundsAssumption
<1>6. Quotes!TypeOK'
  <2>1. misdated' \in BOOLEAN
    <3>1. CASE Quotes!Accepts(q)
      <4>1. misdated' = (Quotes!DayStart(q.priced) > Quotes!DayStart(q.trade))
        BY <1>2, <3>1, Zenon
      <4>2. Quotes!DayStart(q.priced) \in Nat /\ Quotes!DayStart(q.trade) \in Nat
        BY <1>5, DayStarts
      <4> QED
        BY <4>1, <4>2
    <3>2. CASE ~Quotes!Accepts(q)
      BY <1>2, <3>2 DEF Quotes!TypeOK
    <3> QED
      BY <3>1, <3>2
  <2>2. current' \in BOOLEAN
    BY <1>2, Zenon
  <2>3. quoteStored' \in Quotes!Stored \cup {None}
    BY <1>2, <1>4 DEF Quotes!TypeOK
  <2> QED
    BY <1>3, <2>1, <2>2, <2>3 DEF Quotes!TypeOK
<1>7. Sessions'
  BY <1>3 DEF Sessions
<1>8. IsPrevious => prev.at < now /\ (market # None => prev.at < market.at)
  <2>1. prev # None => (now <= prev.at => Quotes!DayStart(now) <= Quotes!DayStart(prev.at))
    BY DayStarts
  <2>2. prev # None /\ market # None =>
          (market.at <= prev.at => Quotes!DayStart(market.at) <= Quotes!DayStart(prev.at))
    BY DayStarts
  <2>3. /\ Quotes!DayStart(now) \in Nat
        /\ market # None => Quotes!DayStart(market.at) \in Nat
        /\ prev # None => Quotes!DayStart(prev.at) \in Nat
    BY DayStarts
  <2> QED
    BY <2>1, <2>2, <2>3 DEF Sessions
<1>9. CASE Quotes!Accepts(q)
  <2>1. quoteStored' = q /\ misdated' = (Quotes!DayStart(q.priced) > Quotes!DayStart(q.trade))
    BY <1>2, <1>9
  <2>2. /\ market # None => /\ Quotes!DayStart(market.at) \in Nat
                            /\ Quotes!DayStart(market.at) <= market.at
        /\ prev # None => /\ Quotes!DayStart(prev.at) \in Nat
                          /\ Quotes!DayStart(prev.at) <= prev.at
    BY DayStarts
  <2>3. CASE IsLast
    <3>1. StoredPast'
      BY <1>3, <1>5, <2>1, <2>2, <2>3 DEF StoredPast, Sessions
    <3>2. ~misdated' => q.priced <= now
      BY <2>1, <2>3
    <3>3. PricedBefore'
      BY <1>3, <1>5, <2>1, <2>3, <3>2 DEF PricedBefore
    <3>4. LastStored'
      BY <1>3, <1>5, <2>1, <2>3 DEF LastStored
    <3>5. quoteStored # None => q.trade >= quoteStored.trade
      BY <1>5, <2>3 DEF StoredPast
    <3> QED
      BY <1>6, <1>7, <2>1, <3>1, <3>3, <3>4, <3>5
  <2>4. CASE IsPrevious
    <3>1. prev.at < now /\ (market # None => prev.at < market.at)
      BY <1>8, <2>4
    <3>2. StoredPast'
      BY <1>3, <1>5, <2>1, <2>2, <2>4, <3>1 DEF StoredPast
    <3>3. PricedBefore'
      BY <1>3, <1>5, <2>1, <2>2, <2>4, <3>1 DEF PricedBefore
    <3>4. ~(market # None /\ q.trade = market.at)
      BY <2>4, <3>1
    <3>41. ~current'
      BY <1>2, <3>4, Zenon
    <3>5. LastStored'
      BY <3>41 DEF LastStored
    <3>6. quoteStored # None => q.priced >= quoteStored.priced
      BY <1>9 DEF Quotes!Accepts
    <3>7. quoteStored # None => q.trade >= quoteStored.trade
      <4>1. quoteStored # None => Quotes!DayStart(quoteStored.trade) \in Nat
        BY DayStarts
      <4> QED
        BY <1>5, <2>2, <2>4, <3>6, <4>1 DEF StoredPast
    <3> QED
      BY <1>6, <1>7, <2>1, <3>2, <3>3, <3>5, <3>7
  <2> QED
    BY <1>4, <2>3, <2>4
<1>10. CASE ~Quotes!Accepts(q)
  <2>1. UNCHANGED <<quoteStored, misdated>> /\ quoteStored # None
    BY <1>2, <1>10 DEF Quotes!Accepts
  <2>2. StoredPast' /\ PricedBefore'
    BY <1>3, <2>1 DEF StoredPast, PricedBefore
  <2>3. LastStored'
    <3> SUFFICES ASSUME market # None, q.trade = market.at, ~misdated
                 PROVE  quoteStored.value = market.value
      BY <1>2, <1>3, <2>1 DEF LastStored
    <3>1. q.value = market.value /\ market.at <= q.priced
      BY <1>4, <1>5, <1>8
    <3>2. \/ q.priced < quoteStored.priced
          \/ q.priced = quoteStored.priced /\ q.value = quoteStored.value
      BY <1>5, <1>10, <2>1 DEF Quotes!Accepts
    <3> QED
      BY <1>5, <2>1, <3>1, <3>2 DEF PricedBefore
  <2> QED
    BY <1>6, <1>7, <2>1, <2>2, <2>3
<1> QED
  BY <1>9, <1>10

LEMMA QuotesStep ==
  ASSUME Quotes!BoundsAssumption, Quotes!NoneAssumption, QuotesInv, [Quotes!Next]_(Quotes!vars)
  PROVE  /\ QuotesInv'
         /\ quoteStored # None => quoteStored'.trade >= quoteStored.trade
<1> USE QuotesTypes DEF QuotesInv
<1>1. CASE Quotes!Tick \/ Quotes!MarketTrades \/ Quotes!SessionReset
  <2>1. UNCHANGED quoteStored
    BY <1>1 DEF Quotes!Tick, Quotes!MarketTrades, Quotes!SessionReset
  <2> QED
    BY <1>1, <2>1, TickKeeps, TradeKeeps, SessionKeeps
<1>2. CASE UNCHANGED Quotes!vars
  BY <1>2 DEF Quotes!vars, Quotes!TypeOK, Sessions, StoredPast, PricedBefore, LastStored
<1> QED
  BY <1>1, <1>2, SyncPriceKeeps DEF Quotes!Next

-----------------------------------------------------------------------------
(* The points of the mini-chart. *)

\* A binary search finds where the items before `from` end, when the items are
\* in order.
LEMMA SearchFinds ==
  ASSUME NEW N \in Nat, NEW series \in Seq(Points!Point), Len(series) = N, NEW from \in Int,
         \A n \in 1..N : series[n].priced \in Int,
         \A m, n \in 1..N : m <= n => series[m].priced <= series[n].priced
  PROVE  /\ \A n \in 1..N :
                 n \in (Points!SearchStart(series, from) + 1)..N <=> series[n].priced >= from
         /\ Points!SearchStart(series, from) \in Nat
<1> DEFINE after == {n \in 1..N : series[n].priced >= from}
<1>1. PICK b \in 0..N : \A n \in 1..N : n <= b <=> series[n].priced < from
  <2>1. CASE after = {}
    <3>1. N \in 0..N /\ \A n \in 1..N : n <= N <=> series[n].priced < from
      BY <2>1
    <3> QED
      BY <3>1
  <2>2. CASE after # {}
    <3>1. PICK m \in after : \A k \in after : m <= k
      <4>1. after \in SUBSET Nat
        OBVIOUS
      <4> HIDE DEF after
      <4> QED
        BY <2>2, <4>1, Least
    <3>2. m - 1 \in 0..N /\ \A n \in 1..N : n <= m - 1 <=> series[n].priced < from
      BY <3>1
    <3> QED
      BY <3>2
  <2> QED
    BY <2>1, <2>2
<1> DEFINE R == (0..N) \X (0..N)
           half(r) == (r[1] + r[2]) \div 2
           Body(f) == [r \in R |-> LET h == half(r)
                                   IN IF r[1] >= r[2] THEN r[1]
                                      ELSE IF series[h + 1].priced < from THEN f[<<h + 1, r[2]>>]
                                      ELSE f[<<r[1], h>>]]
           Clip(r) == IF b < r[1] THEN r[1] ELSE IF b > r[2] THEN r[2] ELSE b
           found == [r \in R |-> IF r[1] >= r[2] THEN r[1] ELSE Clip(r)]
           search == CHOOSE f : f = Body(f)
<1>2. ASSUME NEW r \in R
      PROVE  r[1] \in 0..N /\ r[2] \in 0..N /\ r = <<r[1], r[2]>>
  OBVIOUS
<1>3. ASSUME NEW r \in R, r[1] < r[2]
      PROVE  /\ half(r) \in r[1]..(r[2] - 1) /\ half(r) + 1 \in 1..N
             /\ <<half(r) + 1, r[2]>> \in R /\ <<r[1], half(r)>> \in R
             /\ series[half(r) + 1].priced < from <=> half(r) + 1 <= b
  <2>1. half(r) \in r[1]..(r[2] - 1)
    BY <1>2, <1>3
  <2>2. half(r) + 1 \in 1..N
    BY <1>2, <2>1
  <2> QED
    BY <1>1, <1>2, <2>1, <2>2
<1>4. found = Body(found)
  <2> SUFFICES ASSUME NEW r \in R PROVE found[r] = Body(found)[r]
    OBVIOUS
  <2>1. CASE r[1] >= r[2]
    BY <2>1
  <2>2. CASE r[1] < r[2]
    <3>1. /\ half(r) \in r[1]..(r[2] - 1)
          /\ <<half(r) + 1, r[2]>> \in R /\ <<r[1], half(r)>> \in R
          /\ series[half(r) + 1].priced < from <=> half(r) + 1 <= b
      BY <1>3, <2>2
    <3>2. Body(found)[r] = IF half(r) + 1 <= b THEN found[<<half(r) + 1, r[2]>>]
                                               ELSE found[<<r[1], half(r)>>]
      BY <1>2, <2>2, <3>1
    <3>3. found[<<half(r) + 1, r[2]>>] =
            IF half(r) + 1 >= r[2] THEN half(r) + 1
            ELSE IF b < half(r) + 1 THEN half(r) + 1 ELSE IF b > r[2] THEN r[2] ELSE b
      BY <3>1
    <3>4. found[<<r[1], half(r)>>] =
            IF r[1] >= half(r) THEN r[1]
            ELSE IF b < r[1] THEN r[1] ELSE IF b > half(r) THEN half(r) ELSE b
      BY <3>1
    <3>5. found[r] = Clip(r)
      BY <1>2, <2>2
    <3> HIDE DEF found, Body, half
    <3> QED
      BY <1>2, <2>2, <3>1, <3>2, <3>3, <3>4, <3>5
  <2> QED
    BY <1>2, <2>1, <2>2
<1>5. search = Body(search)
  <2> HIDE DEF Body, found
  <2> QED
    BY <1>4
<1>6. \A r \in R : search[r] = found[r]
  <2> HIDE DEF search
  <2> DEFINE wrong == {d \in Nat : \E r \in R : d = r[2] - r[1] /\ search[r] # found[r]}
  <2>1. \A r \in R : r[1] >= r[2] => search[r] = found[r]
    <3> SUFFICES ASSUME NEW r \in R, r[1] >= r[2] PROVE search[r] = r[1]
      OBVIOUS
    <3>1. search[r] = Body(search)[r]
      <4> HIDE DEF Body
      <4> QED
        BY <1>5
    <3> QED
      BY <3>1
  <2>2. wrong = {}
    <3> SUFFICES ASSUME wrong # {} PROVE FALSE
      OBVIOUS
    <3>1. wrong \in SUBSET Nat
      OBVIOUS
    <3>2. PICK d \in wrong : \A k \in wrong : d <= k
      <4> HIDE DEF wrong
      <4> QED
        BY <3>1, Least
    <3>4. PICK r \in R : d = r[2] - r[1] /\ search[r] # found[r]
      OBVIOUS
    <3>5. r[1] < r[2]
      BY <1>2, <2>1, <3>4
    <3>6. /\ half(r) \in r[1]..(r[2] - 1)
          /\ <<half(r) + 1, r[2]>> \in R /\ <<r[1], half(r)>> \in R
      BY <1>3, <3>5
    <3>7. ASSUME NEW s \in R, s[2] - s[1] < d PROVE search[s] = found[s]
      <4>1. CASE s[1] >= s[2]
        BY <2>1, <4>1
      <4>2. CASE s[1] < s[2]
        <5>1. s[2] - s[1] \in Nat
          BY <1>2, <4>2
        <5>2. s[2] - s[1] \notin wrong
          <6>1. ASSUME s[2] - s[1] \in wrong PROVE d <= s[2] - s[1]
            <7> HIDE DEF wrong
            <7> QED
              BY <3>2, <6>1
          <6>2. d \in Nat
            OBVIOUS
          <6> HIDE DEF wrong
          <6> QED
            BY <3>7, <5>1, <6>1, <6>2
        <5> QED
          BY <5>1, <5>2
      <4> QED
        BY <1>2, <4>1, <4>2
    <3>8. /\ search[<<half(r) + 1, r[2]>>] = found[<<half(r) + 1, r[2]>>]
          /\ search[<<r[1], half(r)>>] = found[<<r[1], half(r)>>]
      <4>1. r[2] - (half(r) + 1) < d /\ half(r) - r[1] < d
        <5>1. d = r[2] - r[1]
          BY <3>4
        <5>2. r[1] \in 0..N /\ r[2] \in 0..N
          BY <1>2
        <5>3. half(r) \in r[1]..(r[2] - 1)
          BY <3>6
        <5> HIDE DEF half
        <5> QED
          BY <5>1, <5>2, <5>3
      <4> QED
        BY <3>6, <3>7, <4>1
    <3>9. Body(search)[r] = Body(found)[r]
      BY <3>8
    <3>10. search[r] = Body(search)[r] /\ found[r] = Body(found)[r]
      <4> HIDE DEF Body, found
      <4> QED
        BY <1>4, <1>5
    <3> QED
      BY <3>4, <3>9, <3>10
  <2> QED
    <3> SUFFICES ASSUME NEW r \in R, r[1] < r[2] PROVE search[r] = found[r]
      BY <1>2, <2>1
    <3>1. r[2] - r[1] \in Nat
      BY <1>2
    <3> QED
      BY <2>2, <3>1
<1>7. Points!SearchStart(series, from) = search[<<0, N>>]
  BY DEF Points!SearchStart, Points!Ranges
<1>8. search[<<0, N>>] = b
  <2>1. <<0, N>> \in R
    OBVIOUS
  <2>2. found[<<0, N>>] = b
    BY <1>1
  <2> HIDE DEF search, found, R
  <2> QED
    BY <1>6, <2>1, <2>2
<1>9. Points!SearchStart(series, from) = b
  BY <1>7, <1>8
<1> QED
  BY <1>1, <1>9

\* Points were observed one after the other, and before the run that now goes
\* on; a later one has no earlier price, and none has a later price than the
\* one that is stored.
Ordered(points) ==
  /\ IsFiniteSet(points)
  /\ \A p \in points : /\ p.observed <= clock
                       /\ pointsSync # None => p.observed < pointsSync.fetched
                       /\ pointsStored.price # None /\ p.priced <= pointsStored.price.priced
  /\ \A p, q \in points : /\ p.observed = q.observed => p = q
                          /\ p.observed < q.observed => p.priced <= q.priced

SamePoints ==
  ~pointsUnacked =>
    Points!Retained(pointsRAM.points, clock) = Points!Retained(pointsStored.points, clock)

PointsInv ==
  /\ Points!TypeOK
  /\ pointsSync # None => pointsSync.fetched <= clock
  /\ Ordered(pointsStored.points)
  /\ Ordered(pointsRAM.points)
  /\ SamePoints

LEMMA PointsInitInv == ASSUME Points!BoundsAssumption PROVE Points!Init => PointsInv
<1> SUFFICES ASSUME Points!Init PROVE PointsInv
  OBVIOUS
<1>1. /\ clock = 1 /\ pointsStored = [price |-> None, points |-> {}] /\ pointsRAM = pointsStored
      /\ pointsSync = None /\ pointsUnacked = FALSE
  BY DEF Points!Init
<1>2. Points!TypeOK
  <2>1. 1 \in Points!Time
    BY DEF Points!Time, Points!BoundsAssumption
  <2>2. pointsUnacked \in BOOLEAN
    BY <1>1
  <2> QED
    BY <1>1, <2>1, <2>2 DEF Points!TypeOK, Points!Prices
<1>3. Ordered({})
  BY FS_EmptySet DEF Ordered
<1> QED
  BY <1>1, <1>2, <1>3 DEF PointsInv, SamePoints

LEMMA PointsTypes ==
  ASSUME Points!BoundsAssumption, Points!NoneAssumption, Points!TypeOK
  PROVE  /\ clock \in Nat /\ Retention \in Nat
         /\ \A p \in pointsStored.points \cup pointsRAM.points :
              /\ p \in Points!Point /\ p.priced \in Nat /\ p.observed \in Nat
         /\ pointsStored.price # None => pointsStored.price.priced \in Nat
         /\ pointsSync # None => /\ pointsSync.fetched \in Points!Time
                                 /\ pointsSync.fetched \in Nat
                                 /\ pointsSync.quote \in Points!Quote
                                 /\ pointsSync.quote.priced \in Nat
                                 /\ pointsSync.quote # None
                                 /\ Points!PointOf(pointsSync) \in Points!Point
BY DEF Points!BoundsAssumption, Points!NoneAssumption, Points!TypeOK, Points!Prices, Points!Point,
       Points!Quote, Points!Sync, Points!Time, Points!PointOf

LEMMA OrderedSubset ==
  ASSUME NEW points, Ordered(points), NEW fewer \in SUBSET points
  PROVE  Ordered(fewer)
BY FS_Subset DEF Ordered

\* The point of a run whose quote is taken comes after those there are.
LEMMA OrderedMore ==
  ASSUME Points!BoundsAssumption, Points!NoneAssumption, PointsInv, pointsSync # None,
         Points!Newer(pointsSync.quote), pointsSync' = None, clock' = clock,
         pointsStored'.price = pointsSync.quote,
         NEW points \in {pointsStored.points, pointsRAM.points},
         NEW kept \in SUBSET (points \cup {Points!PointOf(pointsSync)})
  PROVE  Ordered(kept)'
<1> DEFINE new == Points!PointOf(pointsSync)
<1> USE PointsTypes DEF PointsInv
<1>1. /\ new.observed = pointsSync.fetched /\ new.priced = pointsSync.quote.priced
      /\ pointsSync.fetched <= clock
  BY DEF Points!PointOf
<1>2. Ordered(points)
  OBVIOUS
<1>3. IsFiniteSet(kept)
  <2>1. IsFiniteSet(points \cup {new})
    BY <1>2, FS_AddElement DEF Ordered
  <2> QED
    BY <2>1, FS_Subset
<1>4. \A p \in points : p.observed < new.observed /\ p.priced <= new.priced
  BY <1>1, <1>2 DEF Ordered, Points!Newer
<1>5. \A p \in kept : p \in points \/ p = new
  OBVIOUS
<1>6. \A p \in kept : p.observed <= clock /\ p.priced <= pointsSync.quote.priced
  BY <1>1, <1>2, <1>4, <1>5 DEF Ordered
<1>7. \A p, q \in kept : /\ p.observed = q.observed => p = q
                         /\ p.observed < q.observed => p.priced <= q.priced
  <2> HIDE DEF new
  <2> SUFFICES ASSUME NEW p \in kept, NEW q \in kept
               PROVE  /\ p.observed = q.observed => p = q
                      /\ p.observed < q.observed => p.priced <= q.priced
    OBVIOUS
  <2>1. CASE p \in points /\ q \in points
    BY <1>2, <2>1 DEF Ordered
  <2>2. CASE p = new \/ q = new
    <3>1. new.observed \in Nat /\ new.priced \in Nat
      BY <1>1
    <3> QED
      BY <1>4, <1>5, <2>2, <3>1
  <2> QED
    BY <1>5, <2>1, <2>2
<1> QED
  BY <1>3, <1>6, <1>7 DEF Ordered

LEMMA PointsStep ==
  ASSUME Points!BoundsAssumption, Points!NoneAssumption, PointsInv, [Points!Next]_(Points!vars)
  PROVE  PointsInv'
<1> USE PointsTypes DEF PointsInv
<1>1. CASE UNCHANGED Points!vars
  BY <1>1 DEF Points!vars, Points!TypeOK, Ordered, SamePoints
<1>2. CASE Points!Tick \/ Points!Fetch \/ Points!FetchFails
  <2>1. /\ UNCHANGED <<pointsStored, pointsRAM, pointsUnacked>>
        /\ clock' \in Points!Time /\ clock' >= clock
        /\ \/ pointsSync' = None
           \/ pointsSync' = pointsSync
           \/ /\ clock' = clock + 1 /\ pointsSync' # None
              /\ pointsSync' \in Points!Sync /\ pointsSync'.fetched = clock'
    <3>1. CASE Points!Tick
      BY <3>1 DEF Points!Tick, Points!BoundsAssumption, Points!TypeOK, Points!Time
    <3>2. CASE Points!Fetch
      <4>1. clock' = clock + 1 /\ clock' \in Points!Time
        BY <3>2 DEF Points!Fetch, Points!BoundsAssumption, Points!TypeOK, Points!Time
      <4> QED
        BY <3>2, <4>1 DEF Points!Fetch, Points!Sync, Points!NoneAssumption
    <3>3. CASE Points!FetchFails
      BY <3>3 DEF Points!FetchFails, Points!TypeOK
    <3> QED
      BY <1>2, <3>1, <3>2, <3>3
  <2>2. Points!TypeOK'
    BY <2>1 DEF Points!TypeOK
  <2>3. pointsSync' # None => pointsSync'.fetched <= clock'
    BY <2>1, <2>2 DEF Points!TypeOK, Points!Time, Points!Sync
  <2>4. ASSUME NEW points \in {pointsStored.points, pointsRAM.points} PROVE Ordered(points)'
    <3>1. clock' \in Nat
      BY <2>1 DEF Points!Time
    <3> QED
      BY <2>1, <3>1 DEF Ordered
  <2>5. SamePoints'
    <3>1. clock' \in Nat
      BY <2>1 DEF Points!Time
    <3>2. \A p \in pointsStored.points \cup pointsRAM.points :
            p.observed >= clock' - Retention => p.observed >= clock - Retention
      BY <2>1, <3>1
    <3> QED
      BY <2>1, <3>2 DEF SamePoints, Points!Retained
  <2> QED
    BY <2>1, <2>2, <2>3, <2>4, <2>5
<1>3. CASE Points!Apply \/ Points!ApplyUnacked
  <2> DEFINE new == Points!PointOf(pointsSync)
             later(p) == p.observed >= pointsSync.fetched - Retention
  <2>1. /\ pointsSync # None /\ pointsSync' = None /\ clock' = clock
        /\ pointsStored' = Points!Persisted(pointsSync)
    BY <1>3 DEF Points!Apply, Points!ApplyUnacked
  <2>2. CASE ~Points!Newer(pointsSync.quote)
    <3>1. pointsStored' = pointsStored /\ pointsRAM' = pointsRAM
      BY <1>3, <2>1, <2>2 DEF Points!Apply, Points!ApplyUnacked, Points!Persisted
    <3>2. pointsUnacked' = pointsUnacked
      BY <1>3, <2>2, Zenon DEF Points!Apply, Points!ApplyUnacked, Points!TypeOK
    <3> QED
      BY <2>1, <3>1, <3>2 DEF Points!TypeOK, Ordered, SamePoints
  <2>3. CASE Points!Newer(pointsSync.quote)
    <3>1. /\ pointsStored'.price = pointsSync.quote
          /\ pointsStored' = [price |-> pointsSync.quote,
                              points |-> {p \in pointsStored.points \cup {new} : later(p)}]
      BY <2>1, <2>3 DEF Points!Persisted, Points!WithQuote, Points!Retained
    <3>2. \/ /\ pointsUnacked' = TRUE
             /\ pointsRAM' = pointsRAM
          \/ /\ pointsUnacked' = pointsUnacked
             /\ pointsRAM' = [price |-> pointsSync.quote,
                              points |-> {p \in pointsRAM.points \cup {new} : later(p)}]
      BY <1>3, <2>3 DEF Points!Apply, Points!ApplyUnacked, Points!Cached, Points!WithQuote,
                        Points!Retained
    <3>3. Points!TypeOK'
      <4>1. \A points \in SUBSET Points!Point :
              [price |-> pointsSync.quote, points |-> {p \in points \cup {new} : later(p)}]
                \in Points!Prices
        BY <2>1 DEF Points!Prices
      <4>2. pointsStored.points \in SUBSET Points!Point /\ pointsRAM.points \in SUBSET Points!Point
        BY DEF Points!TypeOK, Points!Prices
      <4>3. pointsStored' \in Points!Prices
        BY <3>1, <4>1, <4>2
      <4>4. pointsRAM' \in Points!Prices
        BY <3>2, <4>1, <4>2 DEF Points!TypeOK
      <4>5. pointsUnacked' \in BOOLEAN
        BY <3>2 DEF Points!TypeOK
      <4> QED
        BY <2>1, <4>3, <4>4, <4>5 DEF Points!TypeOK
    <3>4. Ordered(pointsStored.points)'
      BY <2>1, <2>3, <3>1, OrderedMore
    <3>5. Ordered(pointsRAM.points)'
      BY <2>1, <2>3, <3>1, <3>2, OrderedMore
    <3>6. SamePoints'
      <4>1. \A p \in Points!Point : p.observed >= clock - Retention => later(p)
        BY <2>1 DEF Points!Point, Points!Time
      <4>2. new \in Points!Point
        BY <2>1
      <4> HIDE DEF later, new
      <4> QED
        BY <2>1, <3>1, <3>2, <4>1, <4>2 DEF SamePoints, Points!Retained
    <3> QED
      BY <2>1, <3>3, <3>4, <3>5, <3>6
  <2> QED
    BY <2>2, <2>3
<1>4. CASE Points!HistoryChanged
  BY <1>4 DEF Points!HistoryChanged, Points!TypeOK, Points!Prices, Ordered, SamePoints
<1>5. CASE Points!SourceChanged
  BY <1>5 DEF Points!SourceChanged, Points!TypeOK, Points!Prices, Ordered, SamePoints
<1>6. CASE Points!Restart
  <2>1. /\ clock' = clock /\ pointsStored' = pointsStored /\ pointsSync' = None
        /\ pointsUnacked' = FALSE /\ pointsRAM'.price = pointsStored.price
        /\ pointsRAM' = [price |-> pointsStored.price,
                         points |-> Points!Retained(pointsStored.points, clock)]
    BY <1>6 DEF Points!Restart, Points!TypeOK, Points!Prices
  <2>2. Points!Retained(pointsStored.points, clock) \in SUBSET pointsStored.points
    BY DEF Points!Retained
  <2>3. Points!TypeOK'
    BY <2>1, <2>2 DEF Points!TypeOK, Points!Prices
  <2>4. Ordered(pointsStored.points)' /\ Ordered(pointsRAM.points)'
    BY <2>1, <2>2, FS_Subset DEF Ordered
  <2>5. SamePoints'
    BY <2>1 DEF SamePoints, Points!Retained
  <2> QED
    BY <2>1, <2>3, <2>4, <2>5
<1> QED
  BY <1>1, <1>2, <1>3, <1>4, <1>5, <1>6 DEF Points!Next

\* The points of RAM in the order they were observed in: each of them once, and
\* none with an earlier price than one before it.
LEMMA SeriesOrdered ==
  ASSUME Points!BoundsAssumption, Points!NoneAssumption, PointsInv
  PROVE  /\ Points!Series \in Seq(pointsRAM.points)
         /\ \A p \in pointsRAM.points : \E n \in 1..Len(Points!Series) : Points!Series[n] = p
         /\ \A m, n \in 1..Len(Points!Series) :
              m <= n => Points!Series[m].priced <= Points!Series[n].priced
<1> DEFINE P == pointsRAM.points
           N == Points!Cardinality(P)
           key == [p \in P |-> p.observed]
<1> USE PointsTypes DEF PointsInv
<1>1. IsFiniteSet(P) /\ N \in Nat /\ N = Cardinality(P) /\ HP!IsKey(P, key)
  BY FS_CardinalityType, SameSizes DEF Ordered, HP!IsKey
<1>2. \A p \in P : Place(P, key, p) = Points!Cardinality({q \in P : q.observed < p.observed})
  <2> SUFFICES ASSUME NEW p \in P
               PROVE  {q \in P : key[q] < key[p]} = {q \in P : q.observed < p.observed}
    BY SameSizes DEF Place
  <2> QED
    OBVIOUS
<1> DEFINE At(n) == CHOOSE p \in P : Points!Cardinality({q \in P : q.observed < p.observed}) = n - 1
<1>3. ASSUME NEW n \in 1..N
      PROVE  At(n) \in P /\ Place(P, key, At(n)) = n - 1
  <2>1. n - 1 \in 0..(N - 1)
    BY <1>1
  <2>2. \E p \in P : Place(P, key, p) = n - 1
    <3> HIDE DEF key, P
    <3> QED
      BY <1>1, <2>1, Places
  <2>3. \E p \in P : Points!Cardinality({q \in P : q.observed < p.observed}) = n - 1
    BY <1>2, <2>2
  <2>4. At(n) \in P /\ Points!Cardinality({q \in P : q.observed < At(n).observed}) = n - 1
    BY <2>3
  <2> QED
    BY <1>2, <2>4
<1>4. Points!Series = [n \in 1..N |-> At(n)]
  BY DEF Points!Series
<1> HIDE DEF At, key
<1>5. Points!Series \in Seq(P) /\ Len(Points!Series) = N
  BY <1>1, <1>3, <1>4
<1>6. ASSUME NEW p \in P PROVE \E n \in 1..N : Points!Series[n] = p
  <2> DEFINE n == Place(P, key, p) + 1
  <2>1. Place(P, key, p) \in 0..(N - 1)
    BY <1>1, Places
  <2>2. n \in 1..N /\ Place(P, key, p) = n - 1
    BY <1>1, <2>1
  <2> HIDE DEF n
  <2>3. At(n) \in P /\ Place(P, key, At(n)) = n - 1
    BY <1>3, <2>2
  <2>4. At(n) = p
    <3>1. ~(key[p] < key[At(n)]) /\ ~(key[At(n)] < key[p])
      BY <1>1, <2>1, <2>2, <2>3, Places
    <3>2. key[p] \in Int /\ key[At(n)] \in Int
      BY <1>1, <2>3 DEF HP!IsKey
    <3> QED
      BY <1>1, <2>3, <3>1, <3>2 DEF HP!IsKey
  <2> QED
    BY <1>4, <2>2, <2>4
<1>7. ASSUME NEW m \in 1..N, NEW n \in 1..N, m <= n
      PROVE  Points!Series[m].priced <= Points!Series[n].priced
  <2>1. At(m) \in P /\ At(n) \in P /\ At(m).priced \in Nat /\ At(n).priced \in Nat
    BY <1>3
  <2>2. ~(At(n).observed < At(m).observed)
    <3>1. At(n).observed < At(m).observed => Place(P, key, At(n)) < Place(P, key, At(m))
      BY <1>1, <2>1, Places DEF key
    <3> QED
      BY <1>3, <1>7, <3>1
  <2>3. At(m).observed \in Nat /\ At(n).observed \in Nat
    BY <2>1
  <2>4. At(m).priced <= At(n).priced
    BY <2>1, <2>2, <2>3 DEF Ordered
  <2> QED
    BY <1>4, <2>4
<1> QED
  BY <1>5, <1>6, <1>7

LEMMA ChartIsServed ==
  ASSUME Points!BoundsAssumption, Points!NoneAssumption, PointsInv
  PROVE  Points!ChartServed
<1> DEFINE series == Points!Series
           N == Len(series)
<1> USE PointsTypes DEF PointsInv
<1>1. /\ series \in Seq(pointsRAM.points) /\ N \in Nat
      /\ \A p \in pointsRAM.points : \E n \in 1..N : series[n] = p
      /\ \A m, n \in 1..N : m <= n => series[m].priced <= series[n].priced
  BY SeriesOrdered
<1> HIDE DEF series
<1>2. series \in Seq(Points!Point) /\ \A n \in 1..N : series[n] \in pointsRAM.points
                                                 /\ series[n].priced \in Int
  <2>1. \A n \in 1..N : series[n] \in pointsRAM.points
    BY <1>1
  <2>2. series \in [1..N -> Points!Point]
    BY <1>1, <2>1
  <2> QED
    BY <1>1, <2>1, <2>2
<1>3. ASSUME NEW from \in Points!Time
      PROVE  Points!UnitPrices(from) = {p \in pointsRAM.points : p.priced >= from}
  <2>0. from \in Int /\ N = Len(series)
    BY DEF Points!Time
  <2>1. \A n \in 1..N : n \in (Points!SearchStart(series, from) + 1)..N <=> series[n].priced >= from
    BY <1>1, <1>2, <2>0, SearchFinds
  <2>2. (Points!SearchStart(series, from) + 1)..N \in SUBSET (1..N)
    <3>1. Points!SearchStart(series, from) \in Nat
      BY <1>1, <1>2, <2>0, SearchFinds
    <3> QED
      BY <1>1, <3>1
  <2>3. Points!UnitPrices(from) = {series[n] : n \in (Points!SearchStart(series, from) + 1)..N}
    BY DEF Points!UnitPrices, series
  <2> QED
    BY <1>1, <1>2, <2>1, <2>2, <2>3
<1>4. ASSUME NEW from \in Points!Time, ~pointsUnacked
      PROVE  Points!Retained(Points!UnitPrices(from), clock) =
               {p \in Points!Retained(pointsStored.points, clock) : p.priced >= from}
  <2>1. Points!Retained(Points!UnitPrices(from), clock) =
          {p \in Points!Retained(pointsRAM.points, clock) : p.priced >= from}
    BY <1>3 DEF Points!Retained
  <2> QED
    BY <1>4, <2>1 DEF SamePoints
<1> QED
  BY <1>4 DEF Points!ChartServed

-----------------------------------------------------------------------------
(* The runs of the Yahoo provider. *)

LEMMA BoundedSeqs ==
  ASSUME NEW S, NEW n \in Nat, NEW s \in Runs!SeqOf(S, n)
  PROVE  s \in Seq(S)
<1>1. PICK m \in 0..n : s \in [1..m -> S]
  BY DEF Runs!SeqOf
<1> QED
  BY <1>1

\* The proxies that are left of a list are proxies.
LEMMA CleanedProxies ==
  ASSUME NEW values \in Seq(Proxy \cup {Invalid})
  PROVE  Runs!Cleaned(values) \in Seq(Proxy)
<1> DEFINE firsts == {n \in DOMAIN values :
                        values[n] # Invalid /\ \A m \in 1..(n - 1) : values[m] # values[n]}
           N == Runs!Cardinality(firsts)
           Nth(k) == CHOOSE n \in firsts : Runs!Cardinality({m \in firsts : m < n}) = k - 1
           key == [n \in firsts |-> n]
<1>1. firsts \in SUBSET (1..Len(values)) /\ Len(values) \in Nat
  OBVIOUS
<1>2. IsFiniteSet(firsts)
  <2>1. IsFiniteSet(1..Len(values))
    BY <1>1, FS_Interval
  <2> QED
    BY <1>1, <2>1, FS_Subset
<1>3. HP!IsKey(firsts, key)
  BY <1>1 DEF HP!IsKey
<1>4. N = Cardinality(firsts) /\ N \in Nat
  <2> HIDE DEF firsts
  <2> QED
    BY <1>2, FS_CardinalityType, RunsSizes
<1>5. ASSUME NEW k \in 1..N PROVE Nth(k) \in firsts
  <2> HIDE DEF firsts
  <2>1. k - 1 \in 0..(Cardinality(firsts) - 1)
    BY <1>4
  <2>2. PICK n \in firsts : Place(firsts, key, n) = k - 1
    <3> HIDE DEF key
    <3> QED
      BY <1>2, <1>3, <2>1, Places
  <2>3. {m \in firsts : key[m] < key[n]} = {m \in firsts : m < n}
    OBVIOUS
  <2>4. Runs!Cardinality({m \in firsts : m < n}) = k - 1
    BY <2>2, <2>3, RunsSizes DEF Place
  <2> QED
    BY <2>4
<1>6. Runs!Cleaned(values) = [k \in 1..N |-> values[Nth(k)]]
  BY DEF Runs!Cleaned
<1>7. \A n \in firsts : values[n] \in Proxy
  OBVIOUS
<1> HIDE DEF firsts, Nth, N
<1> QED
  BY <1>4, <1>5, <1>6, <1>7

\* The symbols whose request is over.
Handled == {asked[n] : n \in 1..handled}

\* While a run goes on: each symbol of an earlier request has an outcome, or
\* waits for the end of the run, which has no issue then.
SoFar ==
  phase \in {"list", "ask"} =>
    /\ handled < Len(asked)
    /\ answered \subseteq Handled
    /\ kind = "prices" => /\ Handled \subseteq answered
                          /\ \A s \in Symbol : got[s] \notin {"missing", "issue"}
    /\ kind # "prices" => /\ \A m, n \in 1..Len(asked) : asked[m] = asked[n] => m = n
                          /\ \A s \in Handled : /\ got[s] # "none"
                                                /\ got[s] = "missing" => s \in answered
                                                /\ got[s] = "issue" => s \notin answered

ListIsFirst == phase = "list" => index = 1 /\ ~gaveUp

\* A proxy that the run went past failed.
PassedFailed == \A i \in 1..(index - 1) : proxyURLs[i] \notin alive

RunsInv ==
  /\ Runs!TypeOK
  /\ SoFar
  /\ ListIsFirst
  /\ PassedFailed
  /\ Runs!GivesUpOnlyWithoutProxy
  /\ Runs!MissingOnlyIfAnswered

LEMMA AskedAre ==
  ASSUME Runs!BoundsAssumption, Runs!TypeOK
  PROVE  asked \in Seq(Symbol) /\ Len(asked) \in Nat /\ handled \in 0..Len(asked)
BY BoundedSeqs DEF Runs!BoundsAssumption, Runs!TypeOK

LEMMA RunsInitInv == ASSUME Runs!BoundsAssumption PROVE Runs!Init => RunsInv
<1> SUFFICES ASSUME Runs!Init PROVE RunsInv
  OBVIOUS
<1>1. /\ phase = "idle" /\ kind \in Runs!Kind /\ mode \in Runs!Mode /\ asked = <<>> /\ handled = 0
      /\ got = [s \in Symbol |-> "none"] /\ proxyURLs = <<>> /\ index = 1
      /\ working \in SUBSET Runs!Client /\ alive = {} /\ failures = {} /\ answered = {}
      /\ gaveUp = FALSE
  BY DEF Runs!Init, Runs!Nothing
<1>2. Runs!TypeOK
  <2>1. asked \in Runs!SeqOf(Symbol, MaxAsked)
    <3>1. asked \in [1..0 -> Symbol] /\ 0 \in 0..MaxAsked
      BY <1>1 DEF Runs!BoundsAssumption
    <3> QED
      BY <3>1 DEF Runs!SeqOf
  <2>2. got \in [Symbol -> Runs!Outcome]
    BY <1>1 DEF Runs!Outcome
  <2>3. proxyURLs \in Seq(Runs!Client) /\ Len(proxyURLs) = 0 /\ Len(asked) = 0
    BY <1>1, EmptySeq
  <2>4. index \in 1..(Len(proxyURLs) + 1) /\ handled \in 0..Len(asked)
    BY <1>1, <2>3
  <2>5. gaveUp \in BOOLEAN
    BY <1>1
  <2> QED
    BY <1>1, <2>1, <2>2, <2>3, <2>4, <2>5 DEF Runs!TypeOK
<1> QED
  BY <1>1, <1>2 DEF RunsInv, SoFar, ListIsFirst, PassedFailed, Runs!GivesUpOnlyWithoutProxy,
                    Runs!MissingOnlyIfAnswered

LEMMA BatchIs ==
  ASSUME Runs!BoundsAssumption, Runs!TypeOK, handled < Len(asked)
  PROVE  /\ Len(Runs!Batch) \in 1..(Len(asked) - handled)
         /\ Runs!ToSet(Runs!Batch) = {asked[n] : n \in (handled + 1)..(handled + Len(Runs!Batch))}
         /\ kind # "prices" => Len(Runs!Batch) = 1
<1> DEFINE size == IF kind = "prices" THEN BatchSize ELSE 1
           end == IF handled + size > Len(asked) THEN Len(asked) ELSE handled + size
<1>1. asked \in Seq(Symbol) /\ Len(asked) \in Nat /\ handled \in 0..Len(asked)
  BY AskedAre
<1>2. size \in Nat \ {0}
  BY DEF Runs!BoundsAssumption
<1>3. end \in (handled + 1)..Len(asked) /\ (kind # "prices" => end = handled + 1)
  BY <1>1, <1>2
<1>4. Runs!Batch = SubSeq(asked, handled + 1, end)
  BY DEF Runs!Batch
<1> HIDE DEF size, end
<1>5. /\ SubSeq(asked, handled + 1, end) \in Seq(Symbol)
      /\ Len(SubSeq(asked, handled + 1, end)) = end - handled
      /\ \A i \in 1..(end - handled) : SubSeq(asked, handled + 1, end)[i] = asked[handled + i]
  <2>1. \A i \in (handled + 1)..end : asked[i] \in Symbol
    BY <1>1, <1>3
  <2>2. handled + 1 \in Int /\ end \in Int /\ handled + 1 <= end
    BY <1>1, <1>3
  <2>3. /\ SubSeq(asked, handled + 1, end) \in Seq(Symbol)
        /\ Len(SubSeq(asked, handled + 1, end)) = end - (handled + 1) + 1
        /\ \A i \in 1..(end - (handled + 1) + 1) :
             SubSeq(asked, handled + 1, end)[i] = asked[(handled + 1) + i - 1]
    BY <2>1, <2>2, SubSeqProperties
  <2>4. end - (handled + 1) + 1 = end - handled
    BY <1>1, <1>3
  <2>5. \A i \in 1..(end - handled) : (handled + 1) + i - 1 = handled + i
    BY <1>1, <1>3
  <2> QED
    BY <2>3, <2>4, <2>5
<1>6. DOMAIN Runs!Batch = 1..(end - handled)
  BY <1>4, <1>5
<1>7. Runs!ToSet(Runs!Batch) = {asked[handled + i] : i \in 1..(end - handled)}
  BY <1>4, <1>5, <1>6 DEF Runs!ToSet
<1>8. {asked[handled + i] : i \in 1..(end - handled)} = {asked[n] : n \in (handled + 1)..end}
  <2>1. ASSUME NEW n \in (handled + 1)..end
        PROVE  n - handled \in 1..(end - handled) /\ handled + (n - handled) = n
    BY <1>1, <1>3
  <2>2. ASSUME NEW i \in 1..(end - handled) PROVE handled + i \in (handled + 1)..end
    BY <1>1, <1>3
  <2>3. ASSUME NEW x \in {asked[n] : n \in (handled + 1)..end}
        PROVE  x \in {asked[handled + i] : i \in 1..(end - handled)}
    <3>1. PICK n \in (handled + 1)..end : x = asked[n]
      OBVIOUS
    <3>2. n - handled \in 1..(end - handled) /\ x = asked[handled + (n - handled)]
      BY <2>1, <3>1
    <3> QED
      BY <3>2
  <2>4. ASSUME NEW x \in {asked[handled + i] : i \in 1..(end - handled)}
        PROVE  x \in {asked[n] : n \in (handled + 1)..end}
    BY <2>2
  <2> QED
    BY <2>3, <2>4
<1>9. handled + (end - handled) = end
  BY <1>1, <1>3
<1>10. Len(Runs!Batch) = end - handled
  BY <1>4, <1>5
<1>11. Len(Runs!Batch) \in 1..(Len(asked) - handled) /\ (kind # "prices" => Len(Runs!Batch) = 1)
  BY <1>1, <1>3, <1>10
<1> QED
  BY <1>7, <1>8, <1>9, <1>10, <1>11

\* What a request leaves behind when it is over, whatever came of it.
LEMMA AdvanceKeeps ==
  ASSUME Runs!BoundsAssumption, RunsInv, phase = "ask", UNCHANGED Runs!run,
         NEW g \in [Symbol -> Runs!Outcome], Runs!Advance(g),
         kind = "prices" => /\ answered' = answered \cup Runs!ToSet(Runs!Batch)
                            /\ \A s \in Symbol : g[s] \notin {"missing", "issue"},
         kind # "prices" => \E outcome \in {"valid", "missing", "issue"} :
           /\ g = [got EXCEPT ![asked[handled + 1]] = outcome]
           /\ answered' = IF outcome = "issue" THEN answered
                                              ELSE answered \cup Runs!ToSet(Runs!Batch)
  PROVE  /\ phase' \in {"ask", "done"} /\ handled' \in 0..Len(asked)
         /\ got' \in [Symbol -> Runs!Outcome] /\ answered' \in SUBSET Symbol
         /\ SoFar' /\ Runs!MissingOnlyIfAnswered'
<1> DEFINE count == handled + Len(Runs!Batch)
<1>1. asked \in Seq(Symbol) /\ Len(asked) \in Nat /\ handled \in 0..Len(asked)
      /\ handled < Len(asked)
  BY AskedAre DEF RunsInv, SoFar
<1>2. /\ Len(Runs!Batch) \in 1..(Len(asked) - handled)
      /\ Runs!ToSet(Runs!Batch) = {asked[n] : n \in (handled + 1)..count}
      /\ kind # "prices" => Len(Runs!Batch) = 1
  BY <1>1, BatchIs DEF RunsInv
<1>3. count \in (handled + 1)..Len(asked)
  BY <1>1, <1>2
<1>4. /\ handled' = count /\ asked' = asked /\ kind' = kind /\ mode' = mode
      /\ phase' = IF count = Len(asked) THEN "done" ELSE "ask"
      /\ got' = IF count = Len(asked) THEN Runs!Ended(g) ELSE g
  BY DEF Runs!Advance, Runs!run
<1> HIDE DEF count
<1>5. Handled' = Handled \cup Runs!ToSet(Runs!Batch)
  <2>1. 1..count = (1..handled) \cup ((handled + 1)..count)
    BY <1>1, <1>3
  <2>2. Handled' = {asked[n] : n \in 1..count}
    BY <1>4 DEF Handled
  <2>3. {asked[n] : n \in (1..handled) \cup ((handled + 1)..count)} =
          {asked[n] : n \in 1..handled} \cup {asked[n] : n \in (handled + 1)..count}
    OBVIOUS
  <2>4. Runs!ToSet(Runs!Batch) = {asked[n] : n \in (handled + 1)..count}
    BY <1>2 DEF count
  <2> QED
    BY <2>1, <2>2, <2>3, <2>4 DEF Handled
<1>6. Handled \in SUBSET Symbol /\ Handled' \in SUBSET Symbol
  <2>1. \A n \in 1..count : asked[n] \in Symbol
    BY <1>1, <1>3
  <2>2. \A n \in 1..handled : asked[n] \in Symbol
    BY <1>1
  <2> QED
    BY <1>4, <2>1, <2>2 DEF Handled
<1>7. answered' \in SUBSET Handled'
  BY <1>5 DEF RunsInv, SoFar
<1>8. Runs!Ended(g) \in [Symbol -> Runs!Outcome]
  BY DEF Runs!Ended, Runs!Outcome
<1>9. kind = "prices" => Handled' \in SUBSET answered'
  BY <1>5 DEF RunsInv, SoFar
<1>10. ASSUME kind # "prices"
       PROVE  /\ \A m, n \in 1..Len(asked) : asked[m] = asked[n] => m = n
              /\ \A s \in Handled' : /\ g[s] # "none"
                                     /\ g[s] = "missing" => s \in answered'
                                     /\ g[s] = "issue" => s \notin answered'
  <2> DEFINE x == asked[handled + 1]
  <2>1. Runs!ToSet(Runs!Batch) = {x}
    <3>1. (handled + 1)..count = {handled + 1}
      <4>1. count = handled + 1
        BY <1>2, <1>10 DEF count
      <4> QED
        BY <1>1, <4>1
    <3> QED
      BY <1>2, <3>1
  <2>2. /\ \A m, n \in 1..Len(asked) : asked[m] = asked[n] => m = n
        /\ answered \in SUBSET Handled
        /\ \A s \in Handled : /\ got[s] # "none"
                              /\ got[s] = "missing" => s \in answered
                              /\ got[s] = "issue" => s \notin answered
    BY <1>10 DEF RunsInv, SoFar
  <2>3. x \notin Handled /\ x \in Symbol
    <3>1. handled + 1 \in 1..Len(asked) /\ \A n \in 1..handled : n \in 1..Len(asked)
                                                              /\ n # handled + 1
      BY <1>1
    <3> QED
      BY <1>1, <2>2, <3>1 DEF Handled
  <2>4. PICK outcome \in {"valid", "missing", "issue"} :
          /\ g = [got EXCEPT ![x] = outcome]
          /\ answered' = IF outcome = "issue" THEN answered
                                             ELSE answered \cup Runs!ToSet(Runs!Batch)
    BY <1>10
  <2>5. g[x] = outcome /\ \A s \in Symbol \ {x} : g[s] = got[s]
    BY <2>3, <2>4 DEF RunsInv, Runs!TypeOK
  <2>6. answered' = IF outcome = "issue" THEN answered ELSE answered \cup {x}
    BY <2>1, <2>4
  <2>7. Handled' = Handled \cup {x}
    BY <1>5, <2>1
  <2> HIDE DEF x
  <2> QED
    BY <1>6, <2>2, <2>3, <2>5, <2>6, <2>7
<1>11. SoFar'
  <2> SUFFICES ASSUME count # Len(asked) PROVE SoFar'
    BY <1>4 DEF SoFar
  <2>1. handled' < Len(asked') /\ got' = g
    BY <1>1, <1>3, <1>4
  <2> QED
    BY <1>4, <1>7, <1>9, <1>10, <2>1 DEF SoFar
<1>12. Runs!MissingOnlyIfAnswered'
  <2> SUFFICES ASSUME count = Len(asked),  NEW s \in Runs!ToSet(asked)
               PROVE  /\ got'[s] # "none"
                      /\ got'[s] = "missing" => s \in answered'
                      /\ got'[s] = "issue" => s \notin answered'
    BY <1>4 DEF Runs!MissingOnlyIfAnswered
  <2>1. s \in Handled' /\ s \in Symbol
    BY <1>1, <1>4, <1>6 DEF Handled, Runs!ToSet
  <2>2. got'[s] = IF kind = "prices" /\ g[s] = "none" THEN "missing" ELSE g[s]
    BY <1>4, <2>1 DEF Runs!Ended
  <2> QED
    BY <1>9, <1>10, <2>1, <2>2
<1>13. handled' \in 0..Len(asked) /\ got' \in [Symbol -> Runs!Outcome] /\ phase' \in {"ask", "done"}
  BY <1>1, <1>3, <1>4, <1>8
<1> QED
  BY <1>6, <1>7, <1>11, <1>12, <1>13

LEMMA FailsKeeps ==
  ASSUME Runs!BoundsAssumption, RunsInv, phase = "ask", UNCHANGED <<Runs!run, answered>>,
         Runs!Fails
  PROVE  /\ phase' \in {"ask", "done", "failed"} /\ handled' \in 0..Len(asked)
         /\ got' \in [Symbol -> Runs!Outcome] /\ answered' \in SUBSET Symbol
         /\ SoFar' /\ Runs!MissingOnlyIfAnswered'
<1>1. CASE kind = "daily"
  <2> DEFINE g == [got EXCEPT ![asked[handled + 1]] = "issue"]
  <2>1. Runs!Advance(g)
    BY <1>1 DEF Runs!Fails
  <2>2. g \in [Symbol -> Runs!Outcome]
    BY DEF RunsInv, Runs!TypeOK, Runs!Outcome
  <2>3. \E outcome \in {"valid", "missing", "issue"} :
           /\ g = [got EXCEPT ![asked[handled + 1]] = outcome]
           /\ answered' = IF outcome = "issue" THEN answered
                                              ELSE answered \cup Runs!ToSet(Runs!Batch)
    <3> "issue" \in {"valid", "missing", "issue"}
      OBVIOUS
    <3> QED
      BY Zenon
  <2> HIDE DEF g
  <2> QED
    BY <1>1, <2>1, <2>2, <2>3, AdvanceKeeps
<1>2. CASE kind # "daily"
  <2>1. phase' = "failed" /\ UNCHANGED <<handled, got, answered>>
    BY <1>2 DEF Runs!Fails
  <2> QED
    BY <2>1, AskedAre DEF RunsInv, Runs!TypeOK, SoFar, Runs!MissingOnlyIfAnswered
<1> QED
  BY <1>1, <1>2

\* A request that is over, well or not, leaves the run at its proxy.
LEMMA RequestKeeps ==
  ASSUME Runs!BoundsAssumption, RunsInv, phase = "ask",
         UNCHANGED <<Runs!run, proxyURLs, index, working, alive>>,
         failures' \in SUBSET Runs!Client, gaveUp' \in BOOLEAN,
         Runs!GivesUpOnlyWithoutProxy',
         /\ phase' \in {"ask", "done", "failed"} /\ handled' \in 0..Len(asked)
         /\ got' \in [Symbol -> Runs!Outcome] /\ answered' \in SUBSET Symbol
         /\ SoFar' /\ Runs!MissingOnlyIfAnswered'
  PROVE  RunsInv'
<1>1. Runs!TypeOK'
  BY DEF RunsInv, Runs!TypeOK, Runs!run
<1> QED
  BY <1>1 DEF RunsInv, ListIsFirst, PassedFailed

LEMMA ClientFailsKeeps ==
  ASSUME Runs!BoundsAssumption, RunsInv, Runs!ClientFails
  PROVE  RunsInv'
<1>1. /\ phase = "ask" /\ index <= Len(proxyURLs) /\ proxyURLs[index] \notin working
      /\ failures' = failures \cup {proxyURLs[index]}
      /\ UNCHANGED <<Runs!run, proxyURLs, working, alive, answered, gaveUp>>
  BY DEF Runs!ClientFails
<1>2. /\ proxyURLs \in Seq(Runs!Client) /\ Len(proxyURLs) \in Nat
      /\ index \in 1..Len(proxyURLs) /\ proxyURLs[index] \in Runs!Client
      /\ alive \in SUBSET working
  BY <1>1 DEF RunsInv, Runs!TypeOK
<1>3. failures' \in SUBSET Runs!Client
  BY <1>1, <1>2 DEF RunsInv, Runs!TypeOK
<1>4. gaveUp' \in BOOLEAN /\ Runs!GivesUpOnlyWithoutProxy'
  BY <1>1 DEF RunsInv, Runs!TypeOK, Runs!GivesUpOnlyWithoutProxy
<1>5. CASE mode = "list"
  <2>1. index' = index + 1 /\ UNCHANGED <<phase, handled, got>>
    BY <1>5 DEF Runs!ClientFails, Runs!IndexAfterFailure
  <2>2. Runs!TypeOK'
    BY <1>1, <1>2, <1>3, <2>1 DEF RunsInv, Runs!TypeOK, Runs!run
  <2>3. PassedFailed'
    <3> SUFFICES ASSUME NEW i \in 1..index PROVE proxyURLs[i] \notin alive
      BY <1>1, <1>2, <2>1 DEF PassedFailed
    <3>1. CASE i = index
      BY <1>1, <1>2, <3>1
    <3>2. CASE i # index
      BY <1>2, <3>2 DEF RunsInv, PassedFailed
    <3> QED
      BY <3>1, <3>2
  <2> QED
    BY <1>1, <1>4, <2>1, <2>2, <2>3 DEF RunsInv, Runs!run, SoFar, Handled, ListIsFirst,
                                         Runs!MissingOnlyIfAnswered
<1>6. CASE mode # "list"
  <2>1. Runs!Fails /\ UNCHANGED index
    BY <1>6 DEF Runs!ClientFails
  <2> QED
    BY <1>1, <1>3, <1>4, <2>1, FailsKeeps, RequestKeeps
<1> QED
  BY <1>5, <1>6

LEMMA ExhaustedKeeps ==
  ASSUME Runs!BoundsAssumption, RunsInv, Runs!Exhausted
  PROVE  RunsInv'
<1>1. /\ phase = "ask" /\ index > Len(proxyURLs) /\ Runs!Fails /\ gaveUp' = TRUE
      /\ UNCHANGED <<Runs!run, proxyURLs, index, working, alive, failures, answered>>
  BY DEF Runs!Exhausted
<1>2. Len(proxyURLs) \in Nat /\ index = Len(proxyURLs) + 1 /\ DOMAIN proxyURLs = 1..Len(proxyURLs)
  BY <1>1 DEF RunsInv, Runs!TypeOK
<1>3. alive \cap Runs!ToSet(proxyURLs) = {}
  <2>1. \A i \in DOMAIN proxyURLs : proxyURLs[i] \notin alive
    BY <1>2 DEF RunsInv, PassedFailed
  <2> QED
    BY <2>1 DEF Runs!ToSet
<1>4. failures' \in SUBSET Runs!Client /\ gaveUp' \in BOOLEAN /\ Runs!GivesUpOnlyWithoutProxy'
  BY <1>1, <1>3 DEF RunsInv, Runs!TypeOK, Runs!GivesUpOnlyWithoutProxy
<1> QED
  BY <1>1, <1>4, FailsKeeps, RequestKeeps

LEMMA AnswerKeeps ==
  ASSUME Runs!BoundsAssumption, RunsInv,
         Runs!BadAnswer \/ Runs!PricesAnswered \/ Runs!SymbolAnswered
  PROVE  RunsInv'
<1>1. /\ phase = "ask"
      /\ UNCHANGED <<Runs!run, proxyURLs, index, working, alive, failures, gaveUp>>
  BY DEF Runs!BadAnswer, Runs!PricesAnswered, Runs!SymbolAnswered, Runs!Reaches,
         Runs!IndexAfterAnswer, Runs!history
<1>2. failures' \in SUBSET Runs!Client /\ gaveUp' \in BOOLEAN /\ Runs!GivesUpOnlyWithoutProxy'
  BY <1>1 DEF RunsInv, Runs!TypeOK, Runs!GivesUpOnlyWithoutProxy
<1>3. CASE Runs!BadAnswer
  <2>1. Runs!Fails /\ UNCHANGED answered
    BY <1>3 DEF Runs!BadAnswer, Runs!history
  <2> QED
    BY <1>1, <1>2, <2>1, FailsKeeps, RequestKeeps
<1>4. CASE Runs!PricesAnswered
  <2>1. PICK items \in Runs!SeqOf(Runs!Quote, MaxAnswer) : Runs!Advance(Runs!Kept(items))
    BY <1>4 DEF Runs!PricesAnswered
  <2>2. kind = "prices" /\ answered' = answered \cup Runs!ToSet(Runs!Batch)
    BY <1>4 DEF Runs!PricesAnswered
  <2>3. items \in Seq(Runs!Quote)
    BY BoundedSeqs DEF Runs!BoundsAssumption
  <2>4. ASSUME NEW s \in Symbol
        PROVE  Runs!Kept(items)[s] \in {got[s], "valid", "invalid"}
    <3> DEFINE quotes == {n \in DOMAIN items : items[n].symbol = s}
    <3>1. Runs!Kept(items)[s] = IF s \in Runs!ToSet(asked) /\ got[s] = "none" /\ quotes # {}
                                THEN items[Runs!Min(quotes)].outcome ELSE got[s]
      BY DEF Runs!Kept
    <3>2. quotes # {} => Runs!Min(quotes) \in DOMAIN items
      <4>1. quotes \in SUBSET Nat
        BY <2>3
      <4>2. ASSUME quotes # {} PROVE \E m \in quotes : \A k \in quotes : m <= k
        <5> HIDE DEF quotes
        <5> QED
          BY <4>1, <4>2, Least
      <4> QED
        BY <4>2 DEF Runs!Min
    <3>3. \A n \in DOMAIN items : items[n].outcome \in {"valid", "invalid"}
      <4>1. \A n \in DOMAIN items : items[n] \in Runs!Quote
        BY <2>3
      <4> QED
        BY <4>1 DEF Runs!Quote
    <3> HIDE DEF quotes
    <3>4. CASE s \in Runs!ToSet(asked) /\ got[s] = "none" /\ quotes # {}
      <4>1. items[Runs!Min(quotes)].outcome \in {"valid", "invalid"}
        BY <3>2, <3>3, <3>4
      <4> QED
        BY <3>1, <3>4, <4>1
    <3>5. CASE ~(s \in Runs!ToSet(asked) /\ got[s] = "none" /\ quotes # {})
      BY <3>1, <3>5
    <3> QED
      BY <3>4, <3>5
  <2>5. /\ Runs!Kept(items) \in [Symbol -> Runs!Outcome]
        /\ \A s \in Symbol : Runs!Kept(items)[s] \notin {"missing", "issue"}
    <3>1. \A s \in Symbol : got[s] \in Runs!Outcome /\ got[s] \notin {"missing", "issue"}
      BY <1>1, <2>2 DEF RunsInv, Runs!TypeOK, SoFar
    <3>2. \A s \in Symbol : /\ Runs!Kept(items)[s] \in Runs!Outcome
                            /\ Runs!Kept(items)[s] \notin {"missing", "issue"}
      BY <2>4, <3>1 DEF Runs!Outcome
    <3>3. DOMAIN Runs!Kept(items) = Symbol /\ Runs!Kept(items) = [s \in Symbol |-> Runs!Kept(items)[s]]
      BY DEF Runs!Kept
    <3> QED
      BY <3>2, <3>3
  <2>6. /\ phase' \in {"ask", "done"} /\ handled' \in 0..Len(asked)
        /\ got' \in [Symbol -> Runs!Outcome] /\ answered' \in SUBSET Symbol
        /\ SoFar' /\ Runs!MissingOnlyIfAnswered'
    BY <1>1, <2>1, <2>2, <2>5, AdvanceKeeps
  <2> QED
    BY <1>1, <1>2, <2>6, RequestKeeps
<1>5. CASE Runs!SymbolAnswered
  <2>1. PICK outcome \in {"valid", "missing"} :
          Runs!Advance([got EXCEPT ![asked[handled + 1]] = outcome])
    BY <1>5 DEF Runs!SymbolAnswered
  <2>2. kind # "prices" /\ answered' = answered \cup Runs!ToSet(Runs!Batch)
    BY <1>5 DEF Runs!SymbolAnswered
  <2> DEFINE g == [got EXCEPT ![asked[handled + 1]] = outcome]
  <2>3. g \in [Symbol -> Runs!Outcome]
    BY DEF RunsInv, Runs!TypeOK, Runs!Outcome
  <2>4. \E o \in {"valid", "missing", "issue"} :
           /\ g = [got EXCEPT ![asked[handled + 1]] = o]
           /\ answered' = IF o = "issue" THEN answered
                                         ELSE answered \cup Runs!ToSet(Runs!Batch)
    <3>1. outcome # "issue" /\ outcome \in {"valid", "missing", "issue"}
      OBVIOUS
    <3> QED
      BY <2>2, <3>1, Zenon
  <2> HIDE DEF g
  <2>5. /\ phase' \in {"ask", "done"} /\ handled' \in 0..Len(asked)
        /\ got' \in [Symbol -> Runs!Outcome] /\ answered' \in SUBSET Symbol
        /\ SoFar' /\ Runs!MissingOnlyIfAnswered'
    <3>1. Runs!Advance(g)
      BY <2>1 DEF g
    <3> QED
      BY <1>1, <2>2, <2>3, <2>4, <3>1, AdvanceKeeps
  <2> QED
    BY <1>1, <1>2, <2>5, RequestKeeps
<1> QED
  BY <1>3, <1>4, <1>5

LEMMA BeginKeeps ==
  ASSUME Runs!BoundsAssumption, RunsInv, Runs!Begin
  PROVE  RunsInv'
<1>1. /\ kind' \in Runs!Kind /\ asked' \in Runs!Asked
      /\ kind' # "prices" => Runs!IsInjective(asked')
      /\ phase' = IF mode = "list" THEN "list" ELSE "ask"
      /\ handled' = 0 /\ got' = [s \in Symbol |-> "none"]
      /\ proxyURLs' = IF mode = "list" THEN <<>> ELSE <<Direct>>
      /\ index' = 1 /\ alive' = working /\ failures' = {} /\ answered' = {} /\ gaveUp' = FALSE
      /\ UNCHANGED <<mode, working>>
  BY DEF Runs!Begin, Runs!Nothing
<1>2. asked' \in Runs!SeqOf(Symbol, MaxAsked) /\ asked' \in Seq(Symbol) /\ Len(asked') \in Nat \ {0}
  <2>1. asked' \in Runs!SeqOf(Symbol, MaxAsked) /\ asked' # <<>>
    BY <1>1 DEF Runs!Asked
  <2>2. asked' \in Seq(Symbol)
    BY <2>1, BoundedSeqs DEF Runs!BoundsAssumption
  <2> QED
    BY <2>1, <2>2, EmptySeq
<1>3. Runs!TypeOK'
  <2>1. /\ proxyURLs' \in Seq(Runs!Client) /\ Len(proxyURLs') \in Nat
    <3>1. <<>> \in Seq(Runs!Client) /\ Len(<<>>) \in Nat
      BY EmptySeq
    <3>2. <<Direct>> \in Seq(Runs!Client) /\ Len(<<Direct>>) \in Nat
      BY DEF Runs!Client
    <3> QED
      BY <1>1, <3>1, <3>2, Zenon
  <2>2. got' \in [Symbol -> Runs!Outcome]
    BY <1>1 DEF Runs!Outcome
  <2>3. index' \in 1..(Len(proxyURLs') + 1) /\ handled' \in 0..Len(asked')
    BY <1>1, <1>2, <2>1
  <2>4. gaveUp' \in BOOLEAN /\ phase' \in {"list", "ask"}
    BY <1>1
  <2> QED
    BY <1>1, <1>2, <2>1, <2>2, <2>3, <2>4 DEF RunsInv, Runs!TypeOK
<1>4. SoFar'
  <2>1. Handled' = {}
    BY <1>1 DEF Handled
  <2>2. kind' # "prices" => \A m, n \in 1..Len(asked') : asked'[m] = asked'[n] => m = n
    BY <1>1, <1>2 DEF Runs!IsInjective
  <2> QED
    BY <1>1, <1>2, <2>1, <2>2 DEF SoFar
<1> QED
  BY <1>1, <1>3, <1>4 DEF RunsInv, ListIsFirst, PassedFailed, Runs!GivesUpOnlyWithoutProxy,
                          Runs!MissingOnlyIfAnswered

LEMMA ListLoadsKeeps ==
  ASSUME Runs!BoundsAssumption, RunsInv, Runs!ListLoads
  PROVE  RunsInv'
<1>1. /\ phase = "list" /\ index = 1 /\ ~gaveUp
      /\ UNCHANGED <<Runs!run, handled, got, index, working, alive, failures, answered, gaveUp>>
  BY DEF Runs!ListLoads, Runs!history, RunsInv, ListIsFirst
<1>2. PICK values \in Runs!SeqOf(Proxy \cup {Invalid}, MaxList) :
        \/ proxyURLs' = Runs!Cleaned(values) /\ phase' = "ask"
        \/ phase' = "failed" /\ UNCHANGED proxyURLs
  BY DEF Runs!ListLoads
<1>3. proxyURLs' \in Seq(Runs!Client)
  <2>1. values \in Seq(Proxy \cup {Invalid})
    BY BoundedSeqs DEF Runs!BoundsAssumption
  <2>2. Runs!Cleaned(values) \in Seq(Proxy)
    BY <2>1, CleanedProxies
  <2>3. Runs!Cleaned(values) \in Seq(Runs!Client)
    BY <2>2 DEF Runs!Client
  <2> QED
    BY <1>2, <2>3 DEF RunsInv, Runs!TypeOK
<1>4. Runs!TypeOK'
  <2>1. index' \in 1..(Len(proxyURLs') + 1)
    BY <1>1, <1>3
  <2>2. phase' \in {"ask", "failed"}
    BY <1>2
  <2> QED
    BY <1>1, <1>3, <2>1, <2>2 DEF RunsInv, Runs!TypeOK, Runs!run
<1>5. SoFar' /\ Runs!MissingOnlyIfAnswered'
  <2>1. phase' \in {"ask", "failed"}
    BY <1>2
  <2> QED
    BY <1>1, <2>1 DEF RunsInv, SoFar, Handled, Runs!run, Runs!MissingOnlyIfAnswered
<1> QED
  BY <1>1, <1>2, <1>4, <1>5 DEF RunsInv, ListIsFirst, PassedFailed, Runs!GivesUpOnlyWithoutProxy

LEMMA RunsStep ==
  ASSUME Runs!BoundsAssumption, RunsInv, [Runs!Next]_(Runs!vars)
  PROVE  RunsInv'
<1>1. CASE Runs!ClientChanges
  <2>1. /\ UNCHANGED <<phase, Runs!run, handled, got, proxyURLs, index, failures, answered, gaveUp>>
        /\ alive' = alive \cap working'
        /\ working' \in SUBSET Runs!Client
    BY <1>1 DEF Runs!ClientChanges, RunsInv, Runs!TypeOK
  <2>2. Runs!TypeOK'
    BY <2>1 DEF RunsInv, Runs!TypeOK, Runs!run
  <2>3. SoFar' /\ Runs!MissingOnlyIfAnswered'
    BY <2>1 DEF RunsInv, SoFar, Handled, Runs!run, Runs!MissingOnlyIfAnswered
  <2> QED
    BY <2>1, <2>2, <2>3 DEF RunsInv, ListIsFirst, PassedFailed, Runs!GivesUpOnlyWithoutProxy
<1>2. CASE Runs!RunStops
  <2>1. phase' = "failed"
        /\ UNCHANGED <<Runs!run, handled, got, proxyURLs, index, working, Runs!history>>
    BY <1>2 DEF Runs!RunStops
  <2> QED
    BY <2>1 DEF RunsInv, Runs!TypeOK, Runs!run, Runs!history, SoFar, ListIsFirst, PassedFailed,
                Runs!GivesUpOnlyWithoutProxy, Runs!MissingOnlyIfAnswered
<1>3. CASE UNCHANGED Runs!vars
  BY <1>3 DEF Runs!vars, RunsInv, Runs!TypeOK, Runs!run, Runs!history, SoFar, Handled, ListIsFirst,
              PassedFailed, Runs!GivesUpOnlyWithoutProxy, Runs!MissingOnlyIfAnswered
<1> QED
  BY <1>1, <1>2, <1>3, BeginKeeps, ListLoadsKeeps, ClientFailsKeeps, ExhaustedKeeps, AnswerKeeps
     DEF Runs!Next, Runs!Step

\* The answers of proxies and the requests that are left to a run of Yahoo.
RunLeft ==
  CASE phase = "list" -> Len(asked) + MaxItems + 2
    [] phase = "ask" -> (Len(asked) - handled) + (Len(proxyURLs) + 1 - index)
    [] OTHER -> 0

\* A step of a run leaves it fewer; proxies that come and go, and its
\* cancellation, leave it no more than it had.
RunsShorten ==
  [][RunLeft > 0 => /\ RunLeft' <= RunLeft
                    /\ Runs!Step => RunLeft' < RunLeft]_(Runs!vars)

\* While a run goes on, something is left of it.
LEMMA SomethingIsLeft ==
  ASSUME Runs!BoundsAssumption, RunsInv
  PROVE  /\ Len(asked) \in Nat /\ handled \in 0..Len(asked) /\ Len(proxyURLs) \in Nat
         /\ index \in 1..(Len(proxyURLs) + 1) /\ MaxItems \in Nat
         /\ phase \in {"list", "ask"} => handled < Len(asked)
         /\ RunLeft \in Nat
         /\ RunLeft > 0 <=> phase \in {"list", "ask"}
<1>1. Len(asked) \in Nat /\ handled \in 0..Len(asked)
  BY AskedAre DEF RunsInv
<1>2. /\ Len(proxyURLs) \in Nat /\ index \in 1..(Len(proxyURLs) + 1)
      /\ phase \in {"list", "ask"} => handled < Len(asked)
  BY DEF RunsInv, Runs!TypeOK, SoFar
<1>3. MaxItems \in Nat
  BY DEF Runs!BoundsAssumption
<1> QED
  BY <1>1, <1>2, <1>3 DEF RunLeft

\* A request that is over leaves fewer requests and no more proxies.
LEMMA AdvanceShortens ==
  ASSUME Runs!BoundsAssumption, RunsInv, phase = "ask", NEW g, Runs!Advance(g),
         UNCHANGED <<asked, proxyURLs>>, index' = index
  PROVE  RunLeft' < RunLeft
<1>1. /\ Len(asked) \in Nat /\ handled \in 0..Len(asked) /\ Len(proxyURLs) \in Nat
      /\ index \in 1..(Len(proxyURLs) + 1) /\ handled < Len(asked)
      /\ RunLeft \in Nat /\ RunLeft > 0
  BY SomethingIsLeft
<1>2. Len(Runs!Batch) \in 1..(Len(asked) - handled)
  BY <1>1, BatchIs DEF RunsInv
<1>3. handled' = handled + Len(Runs!Batch) /\ phase' \in {"done", "ask"}
  BY DEF Runs!Advance
<1>4. CASE phase' = "done"
  <2>1. RunLeft' = 0
    BY <1>4 DEF RunLeft
  <2> QED
    BY <1>1, <2>1
<1>5. CASE phase' = "ask"
  <2>1. /\ RunLeft' = (Len(asked) - handled') + (Len(proxyURLs) + 1 - index)
        /\ RunLeft = (Len(asked) - handled) + (Len(proxyURLs) + 1 - index)
    BY <1>5 DEF RunLeft
  <2> QED
    BY <1>1, <1>2, <1>3, <2>1
<1> QED
  BY <1>3, <1>4, <1>5

LEMMA FailsShortens ==
  ASSUME Runs!BoundsAssumption, RunsInv, phase = "ask", Runs!Fails,
         UNCHANGED <<asked, proxyURLs>>, index' = index
  PROVE  RunLeft' < RunLeft
<1>1. CASE kind = "daily"
  <2>1. Runs!Advance([got EXCEPT ![asked[handled + 1]] = "issue"])
    BY <1>1 DEF Runs!Fails
  <2> QED
    BY <2>1, AdvanceShortens
<1>2. CASE kind # "daily"
  <2>1. phase' = "failed"
    BY <1>2 DEF Runs!Fails
  <2>2. RunLeft' = 0
    BY <2>1 DEF RunLeft
  <2> QED
    BY <2>2, SomethingIsLeft
<1> QED
  BY <1>1, <1>2

LEMMA RunStepShortens ==
  ASSUME Runs!BoundsAssumption, RunsInv, Runs!Step
  PROVE  RunLeft' < RunLeft
<1>1. /\ Len(asked) \in Nat /\ handled \in 0..Len(asked) /\ Len(proxyURLs) \in Nat
      /\ index \in 1..(Len(proxyURLs) + 1) /\ MaxItems \in Nat
      /\ phase \in {"list", "ask"} => handled < Len(asked) /\ RunLeft > 0
      /\ RunLeft \in Nat
  BY SomethingIsLeft
<1>2. CASE Runs!ListLoads
  <2>1. /\ phase = "list" /\ UNCHANGED <<asked, handled, index>>
        /\ \/ phase' = "ask" /\ Len(proxyURLs') \in 1..MaxItems
           \/ phase' = "failed"
    BY <1>2 DEF Runs!ListLoads, Runs!run
  <2>2. CASE phase' = "failed"
    <3>1. RunLeft' = 0
      BY <2>2 DEF RunLeft
    <3> QED
      BY <1>1, <2>1, <3>1
  <2>3. CASE phase' = "ask" /\ Len(proxyURLs') \in 1..MaxItems
    <3>1. /\ RunLeft' = (Len(asked) - handled) + (Len(proxyURLs') + 1 - index)
          /\ RunLeft = Len(asked) + MaxItems + 2
      BY <2>1, <2>3 DEF RunLeft
    <3> QED
      BY <1>1, <2>3, <3>1
  <2> QED
    BY <2>1, <2>2, <2>3
<1>3. CASE Runs!ClientFails
  <2>1. /\ phase = "ask" /\ index <= Len(proxyURLs) /\ UNCHANGED <<asked, proxyURLs>>
        /\ \/ index' = index + 1 /\ UNCHANGED <<phase, handled>>
           \/ index' = index /\ Runs!Fails
    BY <1>3 DEF Runs!ClientFails, Runs!run, Runs!IndexAfterFailure
  <2>2. CASE index' = index /\ Runs!Fails
    BY <2>1, <2>2, FailsShortens
  <2>3. CASE index' = index + 1 /\ UNCHANGED <<phase, handled>>
    <3>1. /\ RunLeft' = (Len(asked) - handled) + (Len(proxyURLs) + 1 - (index + 1))
          /\ RunLeft = (Len(asked) - handled) + (Len(proxyURLs) + 1 - index)
      BY <2>1, <2>3 DEF RunLeft
    <3> QED
      BY <1>1, <3>1
  <2> QED
    BY <2>1, <2>2, <2>3
<1>4. CASE Runs!Exhausted
  BY <1>4, FailsShortens DEF Runs!Exhausted, Runs!run
<1>5. CASE Runs!BadAnswer
  BY <1>5, FailsShortens DEF Runs!BadAnswer, Runs!Reaches, Runs!IndexAfterAnswer, Runs!run
<1>6. CASE Runs!PricesAnswered \/ Runs!SymbolAnswered
  <2>1. /\ phase = "ask" /\ UNCHANGED <<asked, proxyURLs>> /\ index' = index
        /\ \E g : Runs!Advance(g)
    BY <1>6 DEF Runs!PricesAnswered, Runs!SymbolAnswered, Runs!Reaches, Runs!IndexAfterAnswer,
                Runs!run
  <2> QED
    BY <2>1, AdvanceShortens
<1> QED
  BY <1>2, <1>3, <1>4, <1>5, <1>6 DEF Runs!Step

LEMMA RunShortens ==
  ASSUME Runs!BoundsAssumption, RunsInv, RunLeft > 0, [Runs!Next]_(Runs!vars)
  PROVE  /\ RunLeft' <= RunLeft
         /\ Runs!Step => RunLeft' < RunLeft
<1>1. RunLeft \in Nat /\ phase \in {"list", "ask"}
  BY SomethingIsLeft
<1>2. RunLeft' \in Nat
  <2>1. Runs!TypeOK' /\ SoFar'
    BY RunsStep DEF RunsInv
  <2>2. Len(asked') \in Nat /\ handled' \in 0..Len(asked')
    BY <2>1, BoundedSeqs DEF Runs!BoundsAssumption, Runs!TypeOK
  <2>3. /\ Len(proxyURLs') \in Nat /\ index' \in 1..(Len(proxyURLs') + 1)
        /\ MaxItems \in Nat
    BY <2>1 DEF Runs!TypeOK, Runs!BoundsAssumption
  <2> QED
    BY <2>2, <2>3 DEF RunLeft
<1>3. CASE Runs!Step
  BY <1>1, <1>2, <1>3, RunStepShortens
<1>4. CASE Runs!ClientChanges \/ UNCHANGED Runs!vars
  <2>1. RunLeft' = RunLeft
    BY <1>4 DEF Runs!ClientChanges, Runs!vars, Runs!run, RunLeft
  <2>2. ~Runs!Step
    BY <1>1, <2>1, RunStepShortens
  <2> QED
    BY <1>1, <2>1, <2>2
<1>5. CASE Runs!RunStops
  <2>1. RunLeft' = 0
    BY <1>5 DEF Runs!RunStops, RunLeft
  <2> QED
    BY <1>1, <2>1
<1>6. ~Runs!Begin
  BY <1>1 DEF Runs!Begin
<1> QED
  BY <1>3, <1>4, <1>5, <1>6 DEF Runs!Next

-----------------------------------------------------------------------------
(* Each part keeps its invariant. *)

LEMMA RatesAlways ==
  /\ Rates!Spec => []RatesInv
  /\ Rates!Spec => Rates!RateNeverRegresses
<1>1. Rates!Init => RatesInv
  BY RatesInitInv
<1>2. RatesInv /\ [Rates!Next]_(Rates!vars) => RatesInv'
  BY PartsAssumption, RatesStep DEF PartsAssumption
<1>3. RatesInv /\ [Rates!Next]_(Rates!vars) =>
        [/\ fxStored # None => fxStored'.priced >= fxStored.priced
         /\ fxRAM # None => fxRAM' # None /\ fxRAM'.priced >= fxRAM.priced]_(Rates!vars)
  BY PartsAssumption, RatesStep DEF PartsAssumption
<1> QED
  BY <1>1, <1>2, <1>3, PTL DEF Rates!Spec, Rates!RateNeverRegresses

LEMMA QuotesAlways ==
  /\ Quotes!Spec => []QuotesInv
  /\ Quotes!Spec => Quotes!TradesNeverRegress
<1>1. Quotes!Init => QuotesInv
  BY PartsAssumption, QuotesInitInv DEF PartsAssumption
<1>2. QuotesInv /\ [Quotes!Next]_(Quotes!vars) => QuotesInv'
  BY PartsAssumption, QuotesStep DEF PartsAssumption
<1>3. QuotesInv /\ [Quotes!Next]_(Quotes!vars) =>
        [quoteStored # None => quoteStored'.trade >= quoteStored.trade]_(Quotes!vars)
  BY PartsAssumption, QuotesStep DEF PartsAssumption
<1> QED
  BY <1>1, <1>2, <1>3, PTL DEF Quotes!Spec, Quotes!TradesNeverRegress

LEMMA PointsAlways == Points!Spec => []PointsInv
<1>1. Points!Init => PointsInv
  BY PartsAssumption, PointsInitInv DEF PartsAssumption
<1>2. PointsInv /\ [Points!Next]_(Points!vars) => PointsInv'
  BY PartsAssumption, PointsStep DEF PartsAssumption
<1> QED
  BY <1>1, <1>2, PTL DEF Points!Spec

LEMMA RunsAlways == Runs!Spec => []RunsInv
<1>1. Runs!Init => RunsInv
  BY PartsAssumption, RunsInitInv DEF PartsAssumption
<1>2. RunsInv /\ [Runs!Next]_(Runs!vars) => RunsInv'
  BY PartsAssumption, RunsStep DEF PartsAssumption
<1> QED
  BY <1>1, <1>2, PTL DEF Runs!Spec

LEMMA HistoryAlways ==
  History!Spec => [](History!TypeOK /\ History!NoGapUnlessLate /\ History!HistoryIsDurable)
<1> USE SameHistory
<1>1. HP!BoundsAssumption /\ HP!MarksAssumption /\ HP!NoneAssumption
  BY PartsAssumption DEF PartsAssumption
<1>2. /\ HP!Spec => []HP!TypeOK
      /\ HP!Spec => []HP!NoGapUnlessLate
      /\ HP!Spec => []HP!HistoryIsDurable
  BY <1>1, HP!TypeCorrect, HP!NoGapEver, HP!HistoryAlwaysDurable
<1>3. History!Init => HP!Init
  OBVIOUS
<1>4. [History!Next]_(History!vars) => [HP!Next]_(HP!vars)
  BY DEF HP!vars, History!vars
<1>5. HP!TypeOK /\ HP!NoGapUnlessLate /\ HP!HistoryIsDurable =>
        History!TypeOK /\ History!NoGapUnlessLate /\ History!HistoryIsDurable
  OBVIOUS
<1> QED
  BY <1>2, <1>3, <1>4, <1>5, PTL DEF History!Spec, HP!Spec

-----------------------------------------------------------------------------
(* A behaviour of the whole is one of each part. *)

LEMMA BoardsRun == MarketSpec => Spec
<1>1. MarketInit => Init
  BY DEF MarketInit
<1>2. [MarketNext]_marketVars => [Next]_vars
  BY DEF MarketNext, marketVars
<1> QED
  BY <1>1, <1>2, PTL DEF MarketSpec, Spec

LEMMA QuotesRun == MarketSpec => Quotes!Spec
<1>1. MarketInit => Quotes!Init
  BY DEF MarketInit
<1>2. [MarketNext]_marketVars => [Quotes!Next]_(Quotes!vars)
  BY DEF MarketNext, marketVars, quotesVars, Quotes!vars
<1> QED
  BY <1>1, <1>2, PTL DEF MarketSpec, Quotes!Spec

LEMMA PointsRun == MarketSpec => Points!Spec
<1>1. MarketInit => Points!Init
  BY DEF MarketInit
<1>2. [MarketNext]_marketVars => [Points!Next]_(Points!vars)
  BY DEF MarketNext, marketVars, pointsVars, Points!vars
<1> QED
  BY <1>1, <1>2, PTL DEF MarketSpec, Points!Spec

LEMMA HistoryRuns == MarketSpec => History!Spec
<1>1. MarketInit => History!Init
  BY DEF MarketInit
<1>2. [MarketNext]_marketVars => [History!Next]_(History!vars)
  BY DEF MarketNext, marketVars, historyVars, History!vars
<1> QED
  BY <1>1, <1>2, PTL DEF MarketSpec, History!Spec

LEMMA RatesRun == MarketSpec => Rates!Spec
<1>1. MarketInit => Rates!Init
  BY DEF MarketInit
<1>2. [MarketNext]_marketVars => [Rates!Next]_(Rates!vars)
  BY DEF MarketNext, marketVars, ratesVars, Rates!vars
<1> QED
  BY <1>1, <1>2, PTL DEF MarketSpec, Rates!Spec

LEMMA RunsRun == MarketSpec => Runs!Spec
<1>1. MarketInit => Runs!Init
  BY DEF MarketInit
<1>2. [MarketNext]_marketVars => [Runs!Next]_(Runs!vars)
  BY DEF MarketNext, marketVars, runsVars, Runs!vars, Runs!run, Runs!history
<1> QED
  BY <1>1, <1>2, PTL DEF MarketSpec, Runs!Spec

-----------------------------------------------------------------------------
\* Every part keeps its types.
THEOREM PartsTypeCorrect == MarketSpec => []TypesOK
<1>1. RatesInv /\ QuotesInv /\ PointsInv /\ RunsInv =>
        Rates!TypeOK /\ Quotes!TypeOK /\ Points!TypeOK /\ Runs!TypeOK
  BY DEF RatesInv, QuotesInv, PointsInv, RunsInv
<1>2. TypeOK /\ History!TypeOK /\ Rates!TypeOK /\ Quotes!TypeOK /\ Points!TypeOK /\ Runs!TypeOK
        => TypesOK
  BY DEF TypesOK
<1> QED
  BY <1>1, <1>2, BoardsRun, TypeCorrect, HistoryRuns, HistoryAlways, RatesRun, RatesAlways,
     QuotesRun, QuotesAlways, PointsRun, PointsAlways, RunsRun, RunsAlways, PTL

\* For any retention, dates and rates: what viewers read of the daily history,
\* of the USD/RUB rate and of the chart of the last hours is what the tables
\* hold, unless a commit was not acknowledged.
THEOREM ServedAlwaysDurable == MarketSpec => []ServedIsDurable
<1>1. RatesInv => Rates!RateIsDurable
  BY DEF RatesInv
<1>2. PointsInv => Points!ChartServed
  BY PartsAssumption, ChartIsServed DEF PartsAssumption
<1>3. History!HistoryIsDurable /\ Rates!RateIsDurable /\ Points!ChartServed => ServedIsDurable
  BY DEF ServedIsDurable
<1> QED
  BY <1>1, <1>2, <1>3, HistoryRuns, HistoryAlways, RatesRun, RatesAlways, PointsRun, PointsAlways,
     PTL

\* For any number of dates, rows per page and pages: paging through a history
\* that changes meanwhile leaves no hole in it but where a close was late.
THEOREM NoGapEver == MarketSpec => []NoGapUnlessLate
<1>1. History!NoGapUnlessLate => NoGapUnlessLate
  BY DEF NoGapUnlessLate
<1> QED
  BY <1>1, HistoryRuns, HistoryAlways, PTL

\* For any length of the day: the last trade that was asked for is stored,
\* whatever fields of its time the exchange left out.
THEOREM LastTradeAlwaysStored == MarketSpec => []LastTradeStored
<1>1. QuotesInv => LastTradeStored
  BY DEF QuotesInv, LastStored, LastTradeStored, Quotes!LastTradeStored
<1> QED
  BY <1>1, QuotesRun, QuotesAlways, PTL

\* No step brings an older trade or rate back.
THEOREM NoPriceEverGoesBack == MarketSpec => NoPriceGoesBack
BY QuotesRun, QuotesAlways, RatesRun, RatesAlways, PTL DEF NoPriceGoesBack

\* For any number of symbols, proxies and batch size: a request of Yahoo that
\* failed is not taken for a symbol without a price.
THEOREM MissingAlwaysAnswered == MarketSpec => []MissingOnlyIfAnswered
<1>1. RunsInv => MissingOnlyIfAnswered
  BY DEF RunsInv, MissingOnlyIfAnswered
<1> QED
  BY <1>1, RunsRun, RunsAlways, PTL

\* A run of Yahoo gives up only when each of its proxies has failed, for any
\* list of proxies that come and go.
THEOREM NeverGivesUpWithProxy == MarketSpec => []GivesUpOnlyWithoutProxy
<1>1. RunsInv => GivesUpOnlyWithoutProxy
  BY DEF RunsInv, GivesUpOnlyWithoutProxy
<1> QED
  BY <1>1, RunsRun, RunsAlways, PTL

\* For any list of proxies, however they come and go: a run of Yahoo has so many
\* requests and proxies to try, and what is left of it only shrinks.
THEOREM RunsAlwaysShorten == MarketSpec => RunsShorten
<1>1. RunsInv /\ [Runs!Next]_(Runs!vars) =>
        [RunLeft > 0 => /\ RunLeft' <= RunLeft
                        /\ Runs!Step => RunLeft' < RunLeft]_(Runs!vars)
  BY PartsAssumption, RunShortens DEF PartsAssumption
<1> QED
  BY <1>1, RunsRun, RunsAlways, PTL DEF Runs!Spec, RunsShorten
=============================================================================
