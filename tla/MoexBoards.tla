----------------------------- MODULE MoexBoards ------------------------------
(***************************************************************************)
(* The board a security is asked for on the exchange                       *)
(* (internal/providers/moex).  The board is resolved once a day and cached *)
(* behind a mutex that is not held during requests.  A quote that is not   *)
(* found on the cached board is asked once more, on a board that is        *)
(* resolved anew; daily prices are asked on the cached board.              *)
(*                                                                         *)
(* One security; its callers are the jobs that ask for quotes or daily     *)
(* prices and the valuation.  Between two requests the exchange may move   *)
(* the security to another board, and midnight may pass.                   *)
(***************************************************************************)
EXTENDS Naturals, FiniteSets

CONSTANTS
  Boards,   \* boards of the security, with their currency
  Quoting,  \* callers that ask for a quote
  Daily,    \* callers that ask for daily prices
  LastDay,  \* bound: days are 1..LastDay
  None      \* no board

Callers == Quoting \cup Daily
Days == 1..LastDay

\* What the exchange says of a board: is_traded, is_primary.
Listing == [Boards -> {"untraded", "traded", "primary"}]

Call == [phase : {"idle", "fetching", "fetched", "asking", "done", "failed"},
         board : Boards \cup {None},
         date : Days,        \* read when the board is resolved
         again : BOOLEAN,    \* this is the second attempt
         steady : BOOLEAN]   \* history: nothing failed or moved since it began

ASSUME CallersAssumption == Quoting \cap Daily = {}
ASSUME BoardsAssumption == IsFiniteSet(Boards)
ASSUME LastDayAssumption == LastDay \in Nat \ {0}
ASSUME NoneAssumption == None \notin Boards

VARIABLES
  today,    \* the date in Moscow
  listing,  \* what the exchange lists
  quoted,   \* boards on which the exchange has a usable price
  cache,    \* Provider.boards of the security
  call,     \* per caller
  seen      \* history: the boards that could be resolved on each day

vars == <<today, listing, quoted, cache, call, seen>>

\* fetchBoard: the only primary board, or else the only traded one.
Choice(boards) ==
  LET primary == {b \in Boards : boards[b] = "primary"}
      traded == {b \in Boards : boards[b] # "untraded"}
  IN IF Cardinality(primary) = 1 THEN primary
     ELSE IF primary = {} /\ Cardinality(traded) = 1 THEN traded ELSE {}

Init ==
  /\ today = 1
  /\ listing \in Listing
  /\ quoted \in SUBSET Boards
  /\ cache = [board |-> None, date |-> 1]
  /\ call = [c \in Callers |-> [phase |-> "idle", board |-> None, date |-> 1,
                                again |-> FALSE, steady |-> FALSE]]
  /\ seen = [d \in Days |-> IF d = 1 THEN Choice(listing) ELSE {}]

NextDay ==
  /\ today < LastDay
  /\ today' = today + 1
  /\ seen' = [seen EXCEPT ![today + 1] = Choice(listing)]
  /\ UNCHANGED <<listing, quoted, cache, call>>

\* What becomes of a call: it has its board; it has a price; it fails, answered
\* or not; the exchange changed meanwhile.
Found(k, b) == [k EXCEPT !.phase = "fetched", !.board = b]
Done(k) == [k EXCEPT !.phase = "done"]
Failed(k, answered) == [k EXCEPT !.phase = "failed", !.steady = k.steady /\ answered]
Disturbed(k) == [k EXCEPT !.steady = FALSE]

\* The exchange lists the security on other boards, or prices come and go.
ExchangeChanges ==
  /\ \/ listing' \in Listing \ {listing} /\ UNCHANGED quoted
     \/ quoted' \in SUBSET Boards \ {quoted} /\ UNCHANGED listing
  /\ seen' = [seen EXCEPT ![today] = @ \cup Choice(listing')]
  /\ call' = [c \in Callers |-> Disturbed(call[c])]
  /\ UNCHANGED <<today, cache>>

\* Fault: there need not be an entry.
FreshAnything(force) == ~force

Fresh(force) == ~force /\ cache.board # None /\ cache.date = today

\* resolveBoard, up to its request.
Resolve(c, force, again) ==
  call' = [call EXCEPT ![c] =
             [phase |-> IF Fresh(force) THEN "asking" ELSE "fetching",
              board |-> IF Fresh(force) THEN cache.board ELSE None,
              date |-> today, again |-> again, steady |-> again]]

Begin(c) ==
  /\ call[c].phase \in {"idle", "done", "failed"}
  /\ Resolve(c, FALSE, FALSE)
  /\ UNCHANGED <<today, listing, quoted, cache, seen>>

\* The exchange answers; no board, or several, end the call.
FetchBoard(c) ==
  /\ call[c].phase = "fetching"
  /\ IF Choice(listing) = {}
     THEN call' = [call EXCEPT ![c] = Failed(call[c], TRUE)]
     ELSE \E b \in Choice(listing) :
            call' = [call EXCEPT ![c] = Found(call[c], b)]
  /\ UNCHANGED <<today, listing, quoted, cache, seen>>

FetchBoardFails(c) ==
  /\ call[c].phase = "fetching"
  /\ call' = [call EXCEPT ![c] = Failed(call[c], FALSE)]
  /\ UNCHANGED <<today, listing, quoted, cache, seen>>

\* Fault: the entry is dated when it is stored.
EntryDateStored(c) == today

EntryDate(c) == call[c].date

\* The answer is cached, whatever another caller cached meanwhile.
StoreBoard(c) ==
  /\ call[c].phase = "fetched"
  /\ cache' = [board |-> call[c].board, date |-> EntryDate(c)]
  /\ call' = [call EXCEPT ![c].phase = "asking"]
  /\ UNCHANGED <<today, listing, quoted, seen>>

Ask(c) ==
  /\ call[c].phase = "asking"
  /\ call[c].board \in quoted
  /\ call' = [call EXCEPT ![c] = Done(call[c])]
  /\ UNCHANGED <<today, listing, quoted, cache, seen>>

\* Fault: the second attempt takes the board of the cache.
RefreshesCached == FALSE

\* The second attempt resolves the board whatever the cache has.
Refreshes == TRUE

MayRetry(c) == c \in Quoting /\ ~call[c].again

\* No usable price, or a failed request.
AskFails(c) ==
  /\ call[c].phase = "asking"
  /\ \E lost \in BOOLEAN :
       /\ lost \/ call[c].board \notin quoted
       /\ IF MayRetry(c)
          THEN Resolve(c, Refreshes, TRUE)
          ELSE call' = [call EXCEPT ![c] = Failed(call[c], ~lost)]
  /\ UNCHANGED <<today, listing, quoted, cache, seen>>

\* The process starts again with an empty cache.
Restart ==
  /\ cache' = [board |-> None, date |-> 1]
  /\ call' = [c \in Callers |-> [phase |-> "idle", board |-> None, date |-> 1,
                                 again |-> FALSE, steady |-> FALSE]]
  /\ UNCHANGED <<today, listing, quoted, seen>>

Step(c) ==
  \/ FetchBoard(c)
  \/ FetchBoardFails(c)
  \/ StoreBoard(c)
  \/ Ask(c)
  \/ AskFails(c)

Next ==
  \/ NextDay
  \/ ExchangeChanges
  \/ \E c \in Callers : Begin(c) \/ Step(c)
  \/ Restart

\* Requests have a timeout: every one of them is answered or fails.
Fairness == \A c \in Callers : WF_vars(Step(c))

Spec == Init /\ [][Next]_vars
FairSpec == Spec /\ Fairness

-----------------------------------------------------------------------------
TypeOK ==
  /\ today \in Days
  /\ listing \in Listing
  /\ quoted \in SUBSET Boards
  /\ cache \in [board : Boards \cup {None}, date : Days]
  /\ call \in [Callers -> Call]
  /\ seen \in [Days -> SUBSET Boards]
  /\ \A c \in Callers : call[c].phase \in {"fetched", "asking"} => call[c].board \in Boards

\* A price is asked on a board the exchange listed at some time since the day
\* the call began on, although requests span midnight and callers overwrite
\* each other's entries.
AskedOnBoardOfTheDay ==
  \A c \in Callers :
    call[c].phase = "asking" => \E d \in call[c].date..today : call[c].board \in seen[d]

\* A quote is found wherever the exchange moved the security before the second
\* attempt, however old the cached board is: a call fails only if a request
\* failed, or something moved again, or there is no price to find.
MovedBoardFound ==
  \A c \in Quoting :
    call[c].phase = "failed" /\ call[c].steady =>
      Choice(listing) \cap quoted = {}

\* A call ends, after one more attempt at most.
CallsEnd ==
  \A c \in Callers :
    call[c].phase = "fetching" ~> call[c].phase \in {"idle", "done", "failed"}
=============================================================================
