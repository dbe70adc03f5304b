-------------------------- MODULE SchedulerProofs --------------------------
(***************************************************************************)
(* Theorems about Scheduler, for any jobs, any number of runs at once and  *)
(* any number of rows: one run per job, and viewers told of failures.      *)
(***************************************************************************)
EXTENDS Scheduler, SequenceTheorems, WellFoundedInduction, TLAPS

Status == Outcome \cup {"running"}

Finished(rows) == {n \in 1..Len(rows) : rows[n] \in Outcome}

\* A row exists once its run is created, and it is the job's last row for
\* as long as the run holds the job.
RowsTracked ==
  \A r \in Runners : call[r] # None =>
    /\ call[r].phase \in {"locked", "read", "refused"} => call[r].row = 0
    /\ call[r].phase \in {"locked", "read"} => Len(runs[call[r].job]) < MaxRuns
    /\ call[r].phase \in {"running", "ended"} =>
         /\ call[r].row = Len(runs[call[r].job])
         /\ call[r].row > 0
         /\ runs[call[r].job][call[r].row] = "running"
    /\ call[r].finished => call[r].phase \in {"finished", "unlocked"} /\ call[r].row # 0

\* Until its run is finished, what a call read of the previous one is still
\* what the diagnostics show of its job.
PreviousCurrent ==
  \A r \in Runners :
    /\ call[r] # None
    /\ call[r].phase \in {"read", "running", "ended"}
    /\ call[r].previous # "unknown"
    => call[r].previous = LatestFinished(runs[call[r].job])

IInv ==
  /\ TypeOK
  /\ OneRunPerJob
  /\ RowsTracked
  /\ PreviousCurrent
  /\ FailuresAnnounced
  /\ RunningShownUntilEvent

-----------------------------------------------------------------------------
(* The latest finished row. *)

LEMMA LastExists ==
  ASSUME NEW n \in Nat, NEW S \in SUBSET (1..n), S # {}
  PROVE  \E k \in S : \A m \in S : m <= k
<1> DEFINE T == {n - k : k \in S}
<1>1. T \subseteq Nat /\ T # {}
  <2>1. PICK k \in S : TRUE
    OBVIOUS
  <2>2. n - k \in T
    BY <2>1
  <2>3. \A m \in S : n - m \in Nat
    OBVIOUS
  <2> QED
    BY <2>2, <2>3
<1> DEFINE R == OpToRel(<, Nat)
<1>2. IsWellFoundedOn(R, Nat)
  BY NatLessThanWellFounded
<1>3. \A x, y \in Nat : x < y => <<x, y>> \in R
  BY DEF OpToRel
<1> HIDE DEF R
<1>4. PICK x \in T : \A y \in T : ~(<<y, x>> \in R)
  <2> HIDE DEF T
  <2> QED
    BY <1>1, <1>2, WFMin
<1>5. PICK k \in S : x = n - k
  OBVIOUS
<1>6. \A m \in S : ~(n - m < n - k)
  <2> SUFFICES ASSUME NEW m \in S, n - m < n - k PROVE FALSE
    OBVIOUS
  <2>1. n - m \in T /\ n - m \in Nat /\ x \in Nat
    BY <1>1
  <2> QED
    BY <1>3, <1>4, <1>5, <2>1
<1> QED
  BY <1>6

LEMMA LatestChosen ==
  ASSUME NEW rows \in Seq(Status), Finished(rows) # {}
  PROVE  \E n \in Finished(rows) :
           (\A m \in Finished(rows) : m <= n) /\ LatestFinished(rows) = rows[n]
<1>1. Len(rows) \in Nat /\ Finished(rows) \in SUBSET (1..Len(rows))
  BY LenProperties DEF Finished
<1>2. \E n \in Finished(rows) : \A m \in Finished(rows) : m <= n
  BY <1>1, LastExists
<1>3. LatestFinished(rows) = rows[CHOOSE n \in Finished(rows) : \A m \in Finished(rows) : m <= n]
  BY DEF LatestFinished, Finished
<1> QED
  BY <1>2, <1>3

LEMMA LatestType ==
  ASSUME NEW rows \in Seq(Status)
  PROVE  LatestFinished(rows) \in Outcome \cup {"none"}
<1>1. CASE Finished(rows) = {}
  BY <1>1 DEF LatestFinished, Finished
<1>2. CASE Finished(rows) # {}
  BY <1>2, LatestChosen DEF Finished
<1> QED
  BY <1>1, <1>2

\* A row that is running does not show.
LEMMA LatestOfAppend ==
  ASSUME NEW rows \in Seq(Status)
  PROVE  LatestFinished(Append(rows, "running")) = LatestFinished(rows)
<1> DEFINE more == Append(rows, "running")
<1>1. /\ Len(rows) \in Nat /\ more \in Seq(Status) /\ Len(more) = Len(rows) + 1
      /\ \A n \in 1..Len(rows) : more[n] = rows[n]
      /\ more[Len(rows) + 1] = "running"
  BY AppendProperties, LenProperties DEF Status
<1> HIDE DEF more
<1>2. Finished(more) = Finished(rows)
  <2>1. ASSUME NEW n \in 1..Len(more)
        PROVE  n \in Finished(more) <=> n \in Finished(rows)
    <3>1. CASE n \in 1..Len(rows)
      BY <1>1, <3>1 DEF Finished
    <3>2. CASE n = Len(rows) + 1
      BY <1>1, <3>2 DEF Finished, Outcome
    <3> QED
      BY <1>1, <3>1, <3>2
  <2>2. Finished(rows) \subseteq 1..Len(more) /\ Finished(more) \subseteq 1..Len(more)
    BY <1>1 DEF Finished
  <2> QED
    BY <2>1, <2>2
<1>3. CASE Finished(rows) = {}
  BY <1>2, <1>3 DEF LatestFinished, Finished, more
<1>4. CASE Finished(rows) # {}
  <2>1. PICK n \in Finished(rows) :
          (\A m \in Finished(rows) : m <= n) /\ LatestFinished(rows) = rows[n]
    BY <1>4, LatestChosen
  <2>2. PICK k \in Finished(more) :
          (\A m \in Finished(more) : m <= k) /\ LatestFinished(more) = more[k]
    BY <1>1, <1>2, <1>4, LatestChosen
  <2>3. k = n
    BY <1>1, <1>2, <2>1, <2>2 DEF Finished
  <2>4. more[k] = rows[n]
    BY <1>1, <2>3 DEF Finished
  <2> QED
    BY <2>1, <2>2, <2>4 DEF more
<1> QED
  BY <1>3, <1>4

\* A result stored in the last row is the one that shows.
LEMMA LatestOfStored ==
  ASSUME NEW rows \in Seq(Status), Len(rows) > 0, NEW outcome \in Outcome
  PROVE  LatestFinished([rows EXCEPT ![Len(rows)] = outcome]) = outcome
<1> DEFINE more == [rows EXCEPT ![Len(rows)] = outcome]
<1>1. /\ Len(rows) \in Nat /\ Len(rows) \in 1..Len(rows)
      /\ more \in Seq(Status) /\ Len(more) = Len(rows)
      /\ more[Len(rows)] = outcome
  BY LenProperties, ExceptSeq DEF Status
<1> HIDE DEF more
<1>2. Len(rows) \in Finished(more)
  BY <1>1 DEF Finished
<1>3. PICK k \in Finished(more) :
        (\A m \in Finished(more) : m <= k) /\ LatestFinished(more) = more[k]
  BY <1>1, <1>2, LatestChosen
<1>4. k = Len(rows)
  BY <1>1, <1>2, <1>3 DEF Finished
<1> QED
  BY <1>1, <1>3, <1>4 DEF more

-----------------------------------------------------------------------------
(* Types. *)

LEMMA TypeInit == Init => TypeOK
<1> SUFFICES ASSUME Init
             PROVE  TypeOK
  OBVIOUS
<1>1. <<>> \in Seq(Status) /\ Len(<<>>) = 0 /\ 0 <= MaxRuns
  BY MaxRunsAssumption, EmptySeq DEF Status
<1>2. \A j \in Jobs : LatestFinished(runs[j]) \in Outcome \cup {"none"}
  BY <1>1, LatestType DEF Init
<1> QED
  BY <1>1, <1>2 DEF Init, TypeOK, Diagnostics, Status

\* A call of a runner that is in some phase.
LEMMA CallFields ==
  ASSUME TypeOK, NEW r \in Runners, call[r] # None
  PROVE  /\ call[r] \in Call
         /\ call[r].job \in Jobs
         /\ call[r].row \in 0..MaxRuns
         /\ call[r].previous \in Outcome \cup {"none", "unknown"}
         /\ call[r].outcome \in Outcome
         /\ call[r].finished \in BOOLEAN
         /\ runs[call[r].job] \in Seq(Status)
         /\ Len(runs[call[r].job]) \in Nat
         /\ Len(runs[call[r].job]) <= MaxRuns
<1>1. call[r] \in Call
  BY DEF TypeOK
<1>2. call[r].job \in Jobs
  BY <1>1 DEF Call
<1>3. runs[call[r].job] \in Seq(Status) /\ Len(runs[call[r].job]) <= MaxRuns
  BY <1>2 DEF TypeOK, Status
<1> QED
  BY <1>1, <1>2, <1>3, LenProperties DEF Call

LEMMA DiagnosticsType ==
  ASSUME TypeOK
  PROVE  Diagnostics \in [Jobs -> Outcome \cup {"none"}]
BY LatestType DEF TypeOK, Diagnostics, Status

\* The row a run writes is there.
LEMMA StoreType ==
  ASSUME TypeOK, RowsTracked, NEW r \in Runners, InPhase(r, "ended"), StoreOutcome(r)
  PROVE  /\ runs' \in [Jobs -> Seq(Status)]
         /\ \A j \in Jobs : Len(runs'[j]) <= MaxRuns
         /\ \A j \in Jobs \ {call[r].job} : runs'[j] = runs[j]
         /\ LatestFinished(runs'[call[r].job]) = call[r].outcome
<1> DEFINE j == call[r].job
           rows == runs[j]
<1>1. /\ j \in Jobs /\ rows \in Seq(Status) /\ Len(rows) \in Nat /\ Len(rows) <= MaxRuns
      /\ call[r].outcome \in Outcome
  BY CallFields DEF InPhase
<1>2. call[r].row = Len(rows) /\ Len(rows) > 0
  BY DEF InPhase, RowsTracked
<1>3. runs' = [runs EXCEPT ![j] = [rows EXCEPT ![Len(rows)] = call[r].outcome]]
  BY <1>2 DEF StoreOutcome
<1>4. /\ [rows EXCEPT ![Len(rows)] = call[r].outcome] \in Seq(Status)
      /\ Len([rows EXCEPT ![Len(rows)] = call[r].outcome]) = Len(rows)
  BY <1>1, <1>2, ExceptSeq DEF Status
<1>5. LatestFinished([rows EXCEPT ![Len(rows)] = call[r].outcome]) = call[r].outcome
  BY <1>1, <1>2, LatestOfStored
<1>6. runs \in [Jobs -> Seq(Status)] /\ \A i \in Jobs : Len(runs[i]) <= MaxRuns
  BY DEF TypeOK, Status
<1>7. runs'[j] = [rows EXCEPT ![Len(rows)] = call[r].outcome]
  BY <1>1, <1>3, <1>6
<1> HIDE DEF j, rows
<1>8. \A i \in Jobs \ {j} : runs'[i] = runs[i]
  BY <1>3, <1>6
<1>9. runs' \in [Jobs -> Seq(Status)]
  BY <1>1, <1>3, <1>4, <1>6
<1>10. \A i \in Jobs : Len(runs'[i]) <= MaxRuns
  BY <1>1, <1>4, <1>6, <1>7, <1>8
<1> QED
  BY <1>5, <1>7, <1>8, <1>9, <1>10 DEF j

\* A new row does not show, and is the last one.
LEMMA AddType ==
  ASSUME TypeOK, NEW j \in Jobs, Len(runs[j]) < MaxRuns, AddRow(j)
  PROVE  /\ runs' \in [Jobs -> Seq(Status)]
         /\ \A i \in Jobs : Len(runs'[i]) <= MaxRuns
         /\ \A i \in Jobs : LatestFinished(runs'[i]) = LatestFinished(runs[i])
         /\ \A i \in Jobs \ {j} : runs'[i] = runs[i]
         /\ Len(runs'[j]) = Len(runs[j]) + 1
         /\ runs'[j][Len(runs[j]) + 1] = "running"
<1>1. /\ runs \in [Jobs -> Seq(Status)] /\ \A i \in Jobs : Len(runs[i]) <= MaxRuns
      /\ runs[j] \in Seq(Status) /\ Len(runs[j]) \in Nat
  BY LenProperties DEF TypeOK, Status
<1>2. runs' = [runs EXCEPT ![j] = Append(runs[j], "running")]
  BY DEF AddRow
<1>3. /\ Append(runs[j], "running") \in Seq(Status)
      /\ Len(Append(runs[j], "running")) = Len(runs[j]) + 1
      /\ Append(runs[j], "running")[Len(runs[j]) + 1] = "running"
      /\ LatestFinished(Append(runs[j], "running")) = LatestFinished(runs[j])
  BY <1>1, AppendProperties, LatestOfAppend DEF Status
<1>4. runs'[j] = Append(runs[j], "running") /\ \A i \in Jobs \ {j} : runs'[i] = runs[i]
  BY <1>1, <1>2
<1>5. runs' \in [Jobs -> Seq(Status)]
  BY <1>1, <1>2, <1>3
<1>6. \A i \in Jobs : Len(runs'[i]) <= MaxRuns
  BY <1>1, <1>3, <1>4, MaxRunsAssumption
<1> QED
  BY <1>3, <1>4, <1>5, <1>6

\* What the steps of a run do to its call and leave alone of the others.
LEMMA CallStep ==
  ASSUME TypeOK, RowsTracked, NEW r \in Runners, Step(r)
  PROVE  /\ call[r] # None
         /\ call' \in [Runners -> Call \cup {None}]
         /\ \A s \in Runners \ {r} : call'[s] = call[s]
         /\ Publish(r) => call'[r] = None
         /\ ~Publish(r) => call'[r] # None /\ call'[r].job = call[r].job
<1>0. call[r] # None
  BY DEF Step, ReadPrevious, CreateRun, CreateRunFails, EndJob, FinishRun, FinishRunFails,
         Unlock, Ends, Publish, InPhase
<1>1. /\ call \in [Runners -> Call \cup {None}] /\ call[r] \in Call
      /\ Len(runs[call[r].job]) \in Nat
  BY <1>0, CallFields DEF TypeOK
<1>2. CASE Publish(r)
  BY <1>0, <1>1, <1>2 DEF Publish
<1>3. ASSUME NEW next \in Call, call' = [call EXCEPT ![r] = next], next.job = call[r].job
      PROVE  /\ call' \in [Runners -> Call \cup {None}]
             /\ \A s \in Runners \ {r} : call'[s] = call[s]
             /\ call'[r] # None /\ call'[r].job = call[r].job
  BY <1>1, <1>3, NoneAssumption
<1>4. CASE ReadPrevious(r)
  <2>1. PICK previous \in {LatestFinished(runs[call[r].job]), "unknown"} :
          call' = [call EXCEPT ![r] = [call[r] EXCEPT !.phase = "read", !.previous = previous]]
    BY <1>4 DEF ReadPrevious
  <2>2. previous \in Outcome \cup {"none", "unknown"}
    BY <1>0, <2>1, CallFields, LatestType
  <2>3. [call[r] EXCEPT !.phase = "read", !.previous = previous] \in Call
    BY <1>1, <2>2 DEF Call
  <2>4. [call[r] EXCEPT !.phase = "read", !.previous = previous].job = call[r].job
    BY <1>1 DEF Call
  <2> QED
    BY <1>0, <1>2, <1>3, <2>1, <2>3, <2>4
<1>5. CASE CreateRun(r)
  <2>1. Len(runs[call[r].job]) + 1 \in 0..MaxRuns
    BY <1>0, <1>1, <1>5, MaxRunsAssumption DEF CreateRun, InPhase, RowsTracked
  <2> DEFINE next == [call[r] EXCEPT !.phase = "running", !.row = Len(runs[call[r].job]) + 1]
  <2>2. next \in Call /\ next.job = call[r].job
    BY <1>1, <2>1 DEF Call
  <2>3. call' = [call EXCEPT ![r] = next]
    BY <1>5 DEF CreateRun
  <2> QED
    BY <1>0, <1>2, <1>3, <2>2, <2>3
<1>6. CASE CreateRunFails(r)
  <2> DEFINE next == [call[r] EXCEPT !.phase = "refused"]
  <2>1. next \in Call /\ next.job = call[r].job
    BY <1>1 DEF Call
  <2>2. call' = [call EXCEPT ![r] = next]
    BY <1>6 DEF CreateRunFails
  <2> QED
    BY <1>0, <1>2, <1>3, <2>1, <2>2
<1>7. CASE EndJob(r)
  <2>1. PICK outcome \in Outcome :
          call' = [call EXCEPT ![r] = [call[r] EXCEPT !.phase = "ended", !.outcome = outcome]]
    BY <1>7 DEF EndJob
  <2> DEFINE next == [call[r] EXCEPT !.phase = "ended", !.outcome = outcome]
  <2>2. next \in Call /\ next.job = call[r].job
    BY <1>1 DEF Call
  <2> QED
    BY <1>0, <1>2, <1>3, <2>1, <2>2
<1>8. CASE FinishRun(r)
  <2> DEFINE next == [call[r] EXCEPT !.phase = "finished", !.finished = TRUE]
  <2>1. next \in Call /\ next.job = call[r].job
    BY <1>1 DEF Call
  <2>2. call' = [call EXCEPT ![r] = next]
    BY <1>8 DEF FinishRun
  <2> QED
    BY <1>0, <1>2, <1>3, <2>1, <2>2
<1>9. CASE FinishRunFails(r)
  <2> DEFINE next == [call[r] EXCEPT !.phase = "finished"]
  <2>1. next \in Call /\ next.job = call[r].job
    BY <1>1 DEF Call
  <2>2. call' = [call EXCEPT ![r] = next]
    BY <1>9 DEF FinishRunFails
  <2> QED
    BY <1>0, <1>2, <1>3, <2>1, <2>2
<1>10. CASE Unlock(r)
  <2> DEFINE next == [call[r] EXCEPT !.phase = "unlocked"]
  <2>1. next \in Call /\ next.job = call[r].job
    BY <1>1 DEF Call
  <2>2. call' = [call EXCEPT ![r] = next]
    BY <1>10 DEF Unlock
  <2> QED
    BY <1>0, <1>2, <1>3, <2>1, <2>2
<1> QED
  BY <1>0, <1>2, <1>4, <1>5, <1>6, <1>7, <1>8, <1>9, <1>10 DEF Step

LEMMA LockStep ==
  ASSUME TypeOK, NEW r \in Runners, NEW j \in Jobs, Lock(r, j)
  PROVE  /\ call[r] = None /\ j \notin running /\ running' = running \cup {j}
         /\ call' \in [Runners -> Call \cup {None}]
         /\ \A s \in Runners \ {r} : call'[s] = call[s]
         /\ call'[r] # None /\ call'[r].job = j /\ call'[r].phase = "locked"
         /\ call'[r].row = 0 /\ ~call'[r].finished
         /\ Len(runs[j]) < MaxRuns
<1> DEFINE next == [phase |-> "locked", job |-> j, previous |-> "none", row |-> 0,
                    outcome |-> "completed", finished |-> FALSE]
<1>1. next \in Call
  BY MaxRunsAssumption DEF Call, Outcome
<1>2. call' = [call EXCEPT ![r] = next] /\ call \in [Runners -> Call \cup {None}]
  BY DEF Lock, TypeOK
<1>3. next.job = j /\ next.phase = "locked" /\ next.row = 0 /\ ~next.finished
  OBVIOUS
<1>4. call[r] = None /\ j \notin running /\ running' = running \cup {j} /\ Len(runs[j]) < MaxRuns
  BY DEF Lock, MayLock
<1> HIDE DEF next
<1> QED
  BY <1>1, <1>2, <1>3, <1>4, NoneAssumption

LEMMA TypeStep ==
  ASSUME TypeOK, RowsTracked, [Next]_vars
  PROVE  TypeOK'
<1>1. ASSUME NEW r \in Runners, NEW j \in Jobs, Lock(r, j)
      PROVE  TypeOK'
  BY <1>1, LockStep DEF Lock, TypeOK
<1>2. ASSUME NEW r \in Runners, Step(r)
      PROVE  TypeOK'
  <2>1. /\ call[r] # None /\ call' \in [Runners -> Call \cup {None}]
        /\ call[r].job \in Jobs
    BY <1>2, CallStep, CallFields
  <2>2. CASE UNCHANGED <<running, runs, shown, refused, unacked>>
    BY <2>1, <2>2 DEF TypeOK
  <2>3. CASE InPhase(r, "read") /\ AddRow(call[r].job) /\ UNCHANGED <<running, shown, refused, unacked>>
    <3>1. Len(runs[call[r].job]) < MaxRuns
      BY <2>3 DEF InPhase, RowsTracked
    <3>2. runs' \in [Jobs -> Seq(Status)] /\ \A j \in Jobs : Len(runs'[j]) <= MaxRuns
      BY <2>1, <2>3, <3>1, AddType
    <3> QED
      BY <2>1, <2>3, <3>2 DEF TypeOK, Status
  <2>4. CASE /\ InPhase(r, "ended") /\ StoreOutcome(r) /\ UNCHANGED <<running, shown, refused>>
             /\ unacked' \in {unacked, unacked \cup {call[r].job}}
    <3>1. runs' \in [Jobs -> Seq(Status)] /\ \A j \in Jobs : Len(runs'[j]) <= MaxRuns
      BY <2>4, StoreType
    <3> QED
      BY <2>1, <2>4, <3>1 DEF TypeOK, Status
  <2>5. CASE Unlock(r)
    BY <2>1, <2>5 DEF Unlock, TypeOK
  <2>6. CASE Publish(r)
    <3>1. Diagnostics \in [Jobs -> Outcome \cup {"none"}]
      BY DiagnosticsType
    <3>2. /\ running' = running /\ runs' = runs
          /\ refused' = {} \/ refused' = refused
          /\ unacked' = {} \/ unacked' = unacked
          /\ \/ shown' = [running |-> running, issues |-> Diagnostics]
             \/ shown' = [shown EXCEPT !.running = running]
             \/ shown' = shown
      BY <2>6 DEF Publish
    <3>3. shown' \in [running : SUBSET Jobs, issues : [Jobs -> Outcome \cup {"none"}]]
      BY <3>1, <3>2 DEF TypeOK
    <3> QED
      BY <2>1, <3>2, <3>3 DEF TypeOK
  <2> QED
    BY <1>2, <2>2, <2>3, <2>4, <2>5, <2>6
       DEF Step, ReadPrevious, CreateRun, CreateRunFails, EndJob, FinishRun, FinishRunFails
<1>3. CASE ViewJobs
  BY <1>3 DEF ViewJobs, TypeOK
<1>4. CASE ViewDiagnostics
  BY <1>4, DiagnosticsType DEF ViewDiagnostics, TypeOK
<1>5. CASE Restart
  BY <1>5, DiagnosticsType DEF Restart, TypeOK
<1>6. CASE UNCHANGED vars
  BY <1>6 DEF vars, TypeOK
<1> QED
  BY <1>1, <1>2, <1>3, <1>4, <1>5, <1>6 DEF Next

-----------------------------------------------------------------------------
(* One run per job. *)

\* Whether a run holds its job before and after its steps.
LEMMA HoldsStep ==
  ASSUME TypeOK, RowsTracked, NEW r \in Runners, Step(r)
  PROVE  /\ Unlock(r) => Holds(r) /\ ~Holds(r)' /\ running' = running \ {call[r].job}
         /\ Publish(r) => ~Holds(r) /\ ~Holds(r)' /\ running' = running
         /\ ~Unlock(r) /\ ~Publish(r) => Holds(r) /\ Holds(r)' /\ running' = running
<1>1. /\ call[r] # None /\ call[r] \in Call /\ call \in [Runners -> Call \cup {None}]
      /\ Publish(r) => call'[r] = None
      /\ ~Publish(r) => call'[r] # None /\ call'[r].job = call[r].job
  BY CallStep, CallFields DEF TypeOK
<1>2. CASE Publish(r)
  BY <1>1, <1>2 DEF Publish, InPhase, Holds, Unlock, Ends
<1>3. CASE Unlock(r)
  <2>1. call'[r].phase = "unlocked"
    BY <1>1, <1>3 DEF Unlock, Call
  <2> QED
    BY <1>1, <1>3, <2>1 DEF Unlock, Ends, InPhase, Holds, Publish
<1>4. CASE ~Unlock(r) /\ ~Publish(r)
  <2>1. call'[r].phase # "unlocked"
    <3>1. ReadPrevious(r) => call'[r].phase = "read"
      BY <1>1 DEF ReadPrevious, Call
    <3>2. CreateRun(r) => call'[r].phase = "running"
      BY <1>1 DEF CreateRun, Call
    <3>3. CreateRunFails(r) => call'[r].phase = "refused"
      BY <1>1 DEF CreateRunFails, Call
    <3>4. EndJob(r) => call'[r].phase = "ended"
      BY <1>1 DEF EndJob, Call
    <3>5. FinishRun(r) \/ FinishRunFails(r) => call'[r].phase = "finished"
      BY <1>1 DEF FinishRun, FinishRunFails, Call
    <3> QED
      BY <1>4, <3>1, <3>2, <3>3, <3>4, <3>5 DEF Step
  <2> QED
    BY <1>1, <1>4, <2>1 DEF Step, ReadPrevious, CreateRun, CreateRunFails, EndJob, FinishRun,
                            FinishRunFails, InPhase, Holds
<1> QED
  BY <1>2, <1>3, <1>4

LEMMA OneRunStep ==
  ASSUME TypeOK, RowsTracked, OneRunPerJob, [Next]_vars
  PROVE  OneRunPerJob'
<1>0. call \in [Runners -> Call \cup {None}]
  BY DEF TypeOK
<1>1. ASSUME NEW r \in Runners, NEW j \in Jobs, Lock(r, j)
      PROVE  OneRunPerJob'
  <2>1. /\ call[r] = None /\ j \notin running /\ running' = running \cup {j}
        /\ \A s \in Runners \ {r} : call'[s] = call[s]
        /\ call'[r] # None /\ call'[r].job = j /\ call'[r].phase = "locked"
    BY <1>1, LockStep
  <2>2. ~Holds(r) /\ Holds(r)' /\ \A s \in Runners \ {r} : Holds(s)' = Holds(s)
    BY <2>1 DEF Holds
  <2> QED
    BY <2>1, <2>2 DEF OneRunPerJob
<1>2. ASSUME NEW r \in Runners, Step(r)
      PROVE  OneRunPerJob'
  <2>1. /\ \A s \in Runners \ {r} : call'[s] = call[s]
        /\ ~Publish(r) => call'[r].job = call[r].job
    BY <1>2, CallStep
  <2>2. \A s \in Runners \ {r} : Holds(s)' = Holds(s)
    BY <2>1 DEF Holds
  <2>3. /\ Unlock(r) => Holds(r) /\ ~Holds(r)' /\ running' = running \ {call[r].job}
        /\ Publish(r) => ~Holds(r) /\ ~Holds(r)' /\ running' = running
        /\ ~Unlock(r) /\ ~Publish(r) => Holds(r) /\ Holds(r)' /\ running' = running
    BY <1>2, HoldsStep
  <2> QED
    BY <2>1, <2>2, <2>3 DEF OneRunPerJob
<1>3. CASE ViewJobs \/ ViewDiagnostics \/ UNCHANGED vars
  BY <1>3 DEF ViewJobs, ViewDiagnostics, vars, OneRunPerJob, Holds
<1>4. CASE Restart
  BY <1>4 DEF Restart, OneRunPerJob, Holds
<1> QED
  BY <1>1, <1>2, <1>3, <1>4 DEF Next

-----------------------------------------------------------------------------
(* The rows of the runs. *)

\* The rows of other jobs are left alone, and so are those of the jobs that
\* other runs hold.
LEMMA RowsKept ==
  ASSUME TypeOK, RowsTracked, OneRunPerJob, NEW r \in Runners, Step(r)
  PROVE  /\ \A j \in Jobs \ {call[r].job} : runs'[j] = runs[j]
         /\ \A s \in Runners \ {r} : Holds(s) => runs'[call[s].job] = runs[call[s].job]
<1>1. call[r] # None /\ call[r].job \in Jobs
  BY CallStep, CallFields
<1>2. \A j \in Jobs \ {call[r].job} : runs'[j] = runs[j]
  <2>1. CASE runs' = runs
    BY <2>1
  <2>2. CASE InPhase(r, "read") /\ AddRow(call[r].job)
    <3>1. Len(runs[call[r].job]) < MaxRuns
      BY <2>2 DEF InPhase, RowsTracked
    <3> QED
      BY <1>1, <2>2, <3>1, AddType
  <2>3. CASE InPhase(r, "ended") /\ StoreOutcome(r)
    BY <2>3, StoreType
  <2> QED
    BY <2>1, <2>2, <2>3
       DEF Step, ReadPrevious, CreateRun, CreateRunFails, EndJob, FinishRun, FinishRunFails,
           Unlock, Publish
<1>3. ASSUME NEW s \in Runners \ {r}, Holds(s)
      PROVE  runs'[call[s].job] = runs[call[s].job]
  <2>1. call[s].job \in Jobs
    BY <1>3, CallFields DEF Holds
  <2>2. CASE Holds(r)
    <3>1. call[s].job # call[r].job
      BY <1>3, <2>2 DEF OneRunPerJob
    <3> QED
      BY <1>2, <2>1, <3>1
  <2>3. CASE ~Holds(r)
    <3>1. Publish(r)
      BY <2>3, HoldsStep
    <3> QED
      BY <3>1 DEF Publish
  <2> QED
    BY <2>2, <2>3
<1> QED
  BY <1>2, <1>3

\* RowsTracked and PreviousCurrent, of one runner.
Tracked(r) ==
  call[r] # None =>
    /\ call[r].phase \in {"locked", "read", "refused"} => call[r].row = 0
    /\ call[r].phase \in {"locked", "read"} => Len(runs[call[r].job]) < MaxRuns
    /\ call[r].phase \in {"running", "ended"} =>
         /\ call[r].row = Len(runs[call[r].job])
         /\ call[r].row > 0
         /\ runs[call[r].job][call[r].row] = "running"
    /\ call[r].finished => call[r].phase \in {"finished", "unlocked"} /\ call[r].row # 0
    /\ call[r].phase \in {"read", "running", "ended"} /\ call[r].previous # "unknown" =>
         call[r].previous = LatestFinished(runs[call[r].job])

LEMMA TrackedAll ==
  RowsTracked /\ PreviousCurrent <=> \A r \in Runners : Tracked(r)
BY DEF RowsTracked, PreviousCurrent, Tracked

\* A runner that does nothing stays tracked.
LEMMA TrackedOther ==
  ASSUME NEW s \in Runners, Tracked(s), call'[s] = call[s],
         Holds(s) => runs'[call[s].job] = runs[call[s].job]
  PROVE  Tracked(s)'
BY DEF Tracked, Holds

LEMMA TrackedStep ==
  ASSUME TypeOK, RowsTracked, PreviousCurrent, OneRunPerJob, [Next]_vars, NEW s \in Runners
  PROVE  Tracked(s)'
<1>0. Tracked(s) /\ call \in [Runners -> Call \cup {None}]
  BY TrackedAll DEF TypeOK
<1>1. ASSUME NEW r \in Runners, NEW j \in Jobs, Lock(r, j)
      PROVE  Tracked(s)'
  <2>1. /\ \A q \in Runners \ {r} : call'[q] = call[q]
        /\ call'[r] # None /\ call'[r].job = j /\ call'[r].phase = "locked"
        /\ call'[r].row = 0 /\ ~call'[r].finished
        /\ Len(runs[j]) < MaxRuns /\ runs' = runs
    BY <1>1, LockStep DEF Lock
  <2>2. CASE s = r
    BY <2>1, <2>2 DEF Tracked
  <2>3. CASE s # r
    BY <1>0, <2>1, <2>3, TrackedOther
  <2> QED
    BY <2>2, <2>3
<1>2. ASSUME NEW r \in Runners, Step(r), s # r
      PROVE  Tracked(s)'
  BY <1>0, <1>2, CallStep, RowsKept, TrackedOther
<1>3. ASSUME Step(s)
      PROVE  Tracked(s)'
  <2> DEFINE j == call[s].job
  <2>1. /\ call[s] # None /\ call[s] \in Call /\ j \in Jobs /\ runs \in [Jobs -> Seq(Status)]
        /\ Publish(s) => call'[s] = None
        /\ ~Publish(s) => call'[s] # None /\ call'[s].job = call[s].job
    BY <1>3, CallStep, CallFields DEF TypeOK, Status
  <2>2. CASE Publish(s)
    BY <2>1, <2>2 DEF Tracked
  <2>3. CASE ReadPrevious(s)
    <3>1. /\ call[s].phase = "locked" /\ call'[s].phase = "read" /\ runs' = runs
          /\ call'[s].job = j /\ call'[s].row = call[s].row
          /\ call'[s].finished = call[s].finished
          /\ call'[s].previous \in {LatestFinished(runs[j]), "unknown"}
      BY <1>0, <2>1, <2>3 DEF ReadPrevious, InPhase, Call
    <3> QED
      BY <1>0, <2>1, <3>1 DEF Tracked
  <2>4. CASE CreateRun(s)
    <3>1. /\ call[s].phase = "read" /\ call'[s].phase = "running" /\ AddRow(j)
          /\ call'[s].job = j /\ call'[s].row = Len(runs[j]) + 1
          /\ call'[s].finished = call[s].finished
          /\ call'[s].previous = call[s].previous
      BY <1>0, <2>1, <2>4 DEF CreateRun, InPhase, Call
    <3>2. Len(runs[j]) < MaxRuns /\ Len(runs[j]) \in Nat
      BY <1>0, <2>1, <3>1, LenProperties DEF Tracked
    <3>3. /\ LatestFinished(runs'[j]) = LatestFinished(runs[j])
          /\ Len(runs'[j]) = Len(runs[j]) + 1
          /\ runs'[j][Len(runs[j]) + 1] = "running"
      BY <2>1, <3>1, <3>2, AddType
    <3> QED
      BY <1>0, <2>1, <3>1, <3>2, <3>3 DEF Tracked
  <2>5. CASE CreateRunFails(s)
    <3>1. /\ call[s].phase = "read" /\ call'[s].phase = "refused"
          /\ call'[s].row = call[s].row /\ call'[s].finished = call[s].finished
      BY <1>0, <2>1, <2>5 DEF CreateRunFails, InPhase, Call
    <3> QED
      BY <1>0, <2>1, <3>1 DEF Tracked
  <2>6. CASE EndJob(s)
    <3>1. /\ call[s].phase = "running" /\ call'[s].phase = "ended" /\ runs' = runs
          /\ call'[s].job = j /\ call'[s].row = call[s].row
          /\ call'[s].finished = call[s].finished
          /\ call'[s].previous = call[s].previous
      BY <1>0, <2>1, <2>6 DEF EndJob, InPhase, Call
    <3> QED
      BY <1>0, <2>1, <3>1 DEF Tracked
  <2>7. CASE FinishRun(s) \/ FinishRunFails(s)
    <3>1. call[s].phase = "ended" /\ call'[s].phase = "finished" /\ call'[s].row = call[s].row
      BY <1>0, <2>1, <2>7 DEF FinishRun, FinishRunFails, InPhase, Call
    <3>2. call[s].row > 0 /\ call[s].row \in Nat
      BY <1>0, <2>1, <3>1 DEF Tracked, Call
    <3> QED
      BY <2>1, <3>1, <3>2 DEF Tracked
  <2>8. CASE Unlock(s)
    <3>1. /\ call[s].phase \in {"finished", "refused"} /\ call'[s].phase = "unlocked"
          /\ call'[s].row = call[s].row /\ call'[s].finished = call[s].finished
      BY <1>0, <2>1, <2>8 DEF Unlock, Ends, InPhase, Call
    <3> QED
      BY <1>0, <2>1, <3>1 DEF Tracked
  <2> QED
    BY <1>3, <2>2, <2>3, <2>4, <2>5, <2>6, <2>7, <2>8 DEF Step
<1>4. CASE ViewJobs \/ ViewDiagnostics \/ UNCHANGED vars
  BY <1>0, <1>4 DEF ViewJobs, ViewDiagnostics, vars, Tracked
<1>5. CASE Restart
  BY <1>5 DEF Restart, Tracked
<1> QED
  BY <1>1, <1>2, <1>3, <1>4, <1>5 DEF Next

-----------------------------------------------------------------------------
(* Failures are announced. *)

\* What viewers were shown of j disagrees with what is stored.
Outdated(j) == (shown.issues[j] = "failed") # (LatestFinished(runs[j]) = "failed")

Announces(r, j) ==
  /\ InPhase(r, "finished") \/ InPhase(r, "unlocked")
  /\ call[r].job = j
  /\ DiagnosticsChanged(call[r])

\* A step of r that neither publishes nor stores a result changes nothing
\* that is shown or announced.
LEMMA AnnouncesKept ==
  ASSUME TypeOK, RowsTracked, NEW r \in Runners, Step(r), ~Publish(r),
         NEW q \in Runners, NEW j \in Jobs, Announces(q, j)
  PROVE  Announces(q, j)'
<1>1. /\ call[r] # None /\ call[r] \in Call /\ call \in [Runners -> Call \cup {None}]
      /\ \A s \in Runners \ {r} : call'[s] = call[s]
      /\ call'[r] # None /\ call'[r].job = call[r].job
  BY CallStep, CallFields DEF TypeOK
<1>2. CASE q # r
  BY <1>1, <1>2 DEF Announces, InPhase, DiagnosticsChanged
<1>3. CASE q = r
  <2>1. Unlock(r)
    BY <1>3 DEF Announces, InPhase, Step, ReadPrevious, CreateRun, CreateRunFails, EndJob,
                FinishRun, FinishRunFails
  <2>2. /\ call'[r].phase = "unlocked" /\ call'[r].finished = call[r].finished
        /\ call'[r].outcome = call[r].outcome /\ call'[r].previous = call[r].previous
    BY <1>1, <2>1 DEF Unlock, Call
  <2> QED
    BY <1>1, <1>3, <2>2 DEF Announces, InPhase, DiagnosticsChanged
<1> QED
  BY <1>2, <1>3

LEMMA AnnouncedStep ==
  ASSUME IInv, [Next]_vars
  PROVE  FailuresAnnounced'
<1> SUFFICES ASSUME NEW j \in Jobs, j \notin unacked', Outdated(j)'
             PROVE  \E r \in Runners : Announces(r, j)'
  BY DEF FailuresAnnounced, WillAnnounce, Outdated, Announces
<1>0. /\ TypeOK /\ RowsTracked /\ OneRunPerJob /\ PreviousCurrent
      /\ j \notin unacked /\ Outdated(j) => \E r \in Runners : Announces(r, j)
  BY DEF IInv, FailuresAnnounced, WillAnnounce, Outdated, Announces
<1>1. ASSUME shown' = [shown EXCEPT !.running = running] \/ shown' = shown
      PROVE  shown'.issues[j] = shown.issues[j]
  BY <1>0, <1>1 DEF TypeOK
<1>2. ASSUME NEW r \in Runners, NEW i \in Jobs, Lock(r, i)
      PROVE  \E q \in Runners : Announces(q, j)'
  <2>1. UNCHANGED <<runs, shown, unacked>>
    BY <1>2 DEF Lock
  <2>2. PICK q \in Runners : Announces(q, j)
    BY <1>0, <2>1 DEF Outdated
  <2>3. call[r] = None /\ \A s \in Runners \ {r} : call'[s] = call[s]
    BY <1>0, <1>2, LockStep
  <2>4. Announces(q, j)'
    BY <2>2, <2>3 DEF Announces, InPhase, DiagnosticsChanged
  <2> QED
    BY <2>4
<1>3. ASSUME NEW r \in Runners, Publish(r)
      PROVE  \E q \in Runners : Announces(q, j)'
  <2>1. call[r] # None /\ \A s \in Runners \ {r} : call'[s] = call[s]
    BY <1>0, <1>3, CallStep DEF Step
  <2>2. CASE HasResult(call[r]) /\ DiagnosticsChanged(call[r])
    <3>1. shown'.issues[j] = LatestFinished(runs[j]) /\ runs' = runs
      BY <1>3, <2>2 DEF Publish, Diagnostics
    <3> QED
      BY <3>1 DEF Outdated
  <2>3. CASE ~(HasResult(call[r]) /\ DiagnosticsChanged(call[r]))
    <3>1. ~DiagnosticsChanged(call[r])
      BY <1>0, <2>1, <2>3 DEF RowsTracked, HasResult, DiagnosticsChanged
    <3>2. /\ runs' = runs /\ unacked' = unacked
          /\ shown' = [shown EXCEPT !.running = running] \/ shown' = shown
      BY <1>3, <2>3 DEF Publish
    <3>3. PICK q \in Runners : Announces(q, j)
      BY <1>0, <1>1, <3>2 DEF Outdated
    <3>4. q # r
      BY <3>1, <3>3 DEF Announces
    <3>5. Announces(q, j)'
      BY <2>1, <3>3, <3>4 DEF Announces, InPhase, DiagnosticsChanged
    <3> QED
      BY <3>5
  <2> QED
    BY <2>2, <2>3
<1>4. ASSUME NEW r \in Runners, Step(r), ~Publish(r)
      PROVE  \E q \in Runners : Announces(q, j)'
  <2>1. /\ call[r] # None /\ call[r] \in Call /\ call[r].job \in Jobs
        /\ call \in [Runners -> Call \cup {None}]
        /\ call'[r] # None /\ call'[r].job = call[r].job
    BY <1>0, <1>4, CallStep, CallFields DEF TypeOK
  <2>2. shown' = shown /\ unacked \subseteq unacked'
    BY <1>4 DEF Step, ReadPrevious, CreateRun, CreateRunFails, EndJob, FinishRun,
                FinishRunFails, Unlock
  <2>3. CASE Outdated(j)
    BY <1>0, <1>4, <2>2, <2>3, AnnouncesKept
  <2>4. CASE ~Outdated(j)
    <3>1. LatestFinished(runs'[j]) # LatestFinished(runs[j])
      BY <2>2, <2>4 DEF Outdated
    <3>2. ~(CreateRun(r) \/ CreateRunFails(r))
      <4>1. ASSUME InPhase(r, "read"), AddRow(call[r].job)
            PROVE  FALSE
        <5>1. Len(runs[call[r].job]) < MaxRuns
          BY <1>0, <4>1 DEF InPhase, RowsTracked
        <5> QED
          BY <1>0, <2>1, <3>1, <4>1, <5>1, AddType
      <4> QED
        BY <3>1, <4>1 DEF CreateRun, CreateRunFails
    <3>3. ~(FinishRunFails(r) /\ runs' = runs)
      BY <3>1
    <3>4. FinishRun(r) \/ FinishRunFails(r)
      BY <1>4, <3>1, <3>2 DEF Step, ReadPrevious, EndJob, Unlock
    <3>5. InPhase(r, "ended") /\ StoreOutcome(r)
      BY <3>3, <3>4 DEF FinishRun, FinishRunFails
    <3>6. j = call[r].job /\ LatestFinished(runs'[j]) = call[r].outcome
      BY <1>0, <3>1, <3>5, StoreType
    <3>7. FinishRun(r)
      BY <3>3, <3>4, <3>6 DEF FinishRunFails
    <3>8. call[r].previous = "unknown" \/ call[r].previous = LatestFinished(runs[j])
      BY <1>0, <2>1, <3>5, <3>6 DEF InPhase, PreviousCurrent
    <3>9. \/ call[r].previous = "unknown"
          \/ call[r].outcome = "failed"
          \/ call[r].previous = "failed"
      BY <2>2, <2>4, <3>6, <3>8 DEF Outdated
    <3>10. /\ call'[r].phase = "finished" /\ call'[r].finished = TRUE
           /\ call'[r].outcome = call[r].outcome /\ call'[r].previous = call[r].previous
      BY <2>1, <3>7 DEF FinishRun, Call
    <3>11. Announces(r, j)'
      BY <2>1, <3>6, <3>9, <3>10 DEF Announces, InPhase, DiagnosticsChanged
    <3> QED
      BY <3>11
  <2> QED
    BY <2>3, <2>4
<1>5. CASE ViewJobs
  <2>1. /\ UNCHANGED <<runs, call, unacked>> /\ shown' = [shown EXCEPT !.running = running]
    BY <1>5 DEF ViewJobs
  <2>2. PICK q \in Runners : Announces(q, j)
    BY <1>0, <1>1, <2>1 DEF Outdated
  <2>3. Announces(q, j)'
    BY <2>1, <2>2 DEF Announces, InPhase, DiagnosticsChanged
  <2> QED
    BY <2>3
<1>6. CASE ViewDiagnostics
  <2>1. shown'.issues[j] = LatestFinished(runs[j]) /\ runs' = runs
    BY <1>0, <1>6 DEF ViewDiagnostics, Diagnostics, TypeOK
  <2> QED
    BY <2>1 DEF Outdated
<1>7. CASE Restart
  <2>1. shown'.issues[j] = LatestFinished(runs[j]) /\ runs' = runs
    BY <1>7 DEF Restart, Diagnostics
  <2> QED
    BY <2>1 DEF Outdated
<1>8. CASE UNCHANGED vars
  <2>1. UNCHANGED <<runs, call, shown, unacked>>
    BY <1>8 DEF vars
  <2>2. PICK q \in Runners : Announces(q, j)
    BY <1>0, <2>1 DEF Outdated
  <2>3. Announces(q, j)'
    BY <2>1, <2>2 DEF Announces, InPhase, DiagnosticsChanged
  <2> QED
    BY <2>3
<1> QED
  BY <1>2, <1>3, <1>4, <1>5, <1>6, <1>7, <1>8 DEF Next

-----------------------------------------------------------------------------
(* Viewers learn that a job is over. *)

Tells(r, j) == InPhase(r, "unlocked") /\ call[r].job = j /\ HasResult(call[r])

LEMMA RunningShownStep ==
  ASSUME TypeOK, RowsTracked, RunningShownUntilEvent, [Next]_vars
  PROVE  RunningShownUntilEvent'
<1> SUFFICES ASSUME NEW j \in Jobs, j \notin refused', j \in shown'.running, j \notin running'
             PROVE  \E r \in Runners : Tells(r, j)'
  BY DEF RunningShownUntilEvent, Tells
<1>0. j \notin refused /\ j \in shown.running /\ j \notin running => \E r \in Runners : Tells(r, j)
  BY DEF RunningShownUntilEvent, Tells
<1>1. ASSUME NEW r \in Runners, NEW i \in Jobs, Lock(r, i)
      PROVE  \E q \in Runners : Tells(q, j)'
  <2>1. /\ call[r] = None /\ running' = running \cup {i}
        /\ \A s \in Runners \ {r} : call'[s] = call[s]
        /\ UNCHANGED <<shown, refused>>
    BY <1>1, LockStep DEF Lock
  <2>2. PICK q \in Runners : Tells(q, j)
    BY <1>0, <2>1
  <2>3. Tells(q, j)'
    BY <2>1, <2>2 DEF Tells, InPhase, HasResult
  <2> QED
    BY <2>3
<1>2. ASSUME NEW r \in Runners, Publish(r)
      PROVE  \E q \in Runners : Tells(q, j)'
  <2>1. \A s \in Runners \ {r} : call'[s] = call[s]
    BY <1>2, CallStep DEF Step
  <2>2. CASE HasResult(call[r])
    <3>1. running' = running /\ shown'.running = running
      BY <1>2, <2>2 DEF Publish, TypeOK
    <3> QED
      BY <3>1
  <2>3. CASE ~HasResult(call[r])
    <3>1. UNCHANGED <<running, shown, refused>>
      BY <1>2, <2>3 DEF Publish
    <3>2. PICK q \in Runners : Tells(q, j)
      BY <1>0, <3>1
    <3>3. q # r
      BY <2>3, <3>2 DEF Tells
    <3>4. Tells(q, j)'
      BY <2>1, <3>2, <3>3 DEF Tells, InPhase, HasResult
    <3> QED
      BY <3>4
  <2> QED
    BY <2>2, <2>3
<1>3. ASSUME NEW r \in Runners, Step(r), ~Publish(r)
      PROVE  \E q \in Runners : Tells(q, j)'
  <2>1. /\ call[r] # None /\ call[r] \in Call /\ call \in [Runners -> Call \cup {None}]
        /\ \A s \in Runners \ {r} : call'[s] = call[s]
        /\ call'[r] # None /\ call'[r].job = call[r].job
    BY <1>3, CallStep, CallFields DEF TypeOK
  <2>2. CASE Unlock(r)
    <3>1. /\ shown' = shown /\ running' = running \ {call[r].job}
          /\ refused' = IF call[r].row = 0 THEN refused \cup {call[r].job} ELSE refused
          /\ ~InPhase(r, "unlocked")
      BY <2>2 DEF Unlock, Ends, InPhase
    <3>2. call'[r].phase = "unlocked" /\ call'[r].row = call[r].row
      BY <2>1, <2>2 DEF Unlock, Call
    <3>3. CASE j = call[r].job
      <4>1. call[r].row # 0
        BY <3>1, <3>3
      <4>2. Tells(r, j)'
        BY <2>1, <3>2, <3>3, <4>1 DEF Tells, InPhase, HasResult
      <4> QED
        BY <4>2
    <3>4. CASE j # call[r].job
      <4>1. PICK q \in Runners : Tells(q, j)
        BY <1>0, <3>1, <3>4
      <4>2. q # r
        BY <3>4, <4>1 DEF Tells
      <4>3. Tells(q, j)'
        BY <2>1, <4>1, <4>2 DEF Tells, InPhase, HasResult
      <4> QED
        BY <4>3
    <3> QED
      BY <3>3, <3>4
  <2>3. CASE ~Unlock(r)
    <3>1. UNCHANGED <<running, shown, refused>> /\ ~InPhase(r, "unlocked")
      BY <1>3, <2>3 DEF Step, ReadPrevious, CreateRun, CreateRunFails, EndJob, FinishRun,
                        FinishRunFails, InPhase
    <3>2. PICK q \in Runners : Tells(q, j)
      BY <1>0, <3>1
    <3>3. q # r
      BY <3>1, <3>2 DEF Tells
    <3>4. Tells(q, j)'
      BY <2>1, <3>2, <3>3 DEF Tells, InPhase, HasResult
    <3> QED
      BY <3>4
  <2> QED
    BY <2>2, <2>3
<1>4. CASE ViewJobs
  BY <1>4 DEF ViewJobs, TypeOK
<1>5. CASE ViewDiagnostics \/ UNCHANGED vars
  <2>1. /\ UNCHANGED <<running, call, refused>>
        /\ shown'.running = shown.running
    BY <1>5 DEF ViewDiagnostics, vars, TypeOK
  <2>2. PICK q \in Runners : Tells(q, j)
    BY <1>0, <2>1
  <2>3. Tells(q, j)'
    BY <2>1, <2>2 DEF Tells, InPhase, HasResult
  <2> QED
    BY <2>3
<1>6. CASE Restart
  BY <1>6 DEF Restart
<1> QED
  BY <1>1, <1>2, <1>3, <1>4, <1>5, <1>6 DEF Next

-----------------------------------------------------------------------------
(* The invariant and the properties. *)

LEMMA InvariantInit == Init => IInv
BY TypeInit DEF Init, IInv, OneRunPerJob, Holds, RowsTracked, PreviousCurrent,
                FailuresAnnounced, RunningShownUntilEvent, Diagnostics

LEMMA InvariantStep == IInv /\ [Next]_vars => IInv'
<1> SUFFICES ASSUME IInv, [Next]_vars
             PROVE  IInv'
  OBVIOUS
<1>1. TypeOK /\ RowsTracked /\ PreviousCurrent /\ OneRunPerJob /\ RunningShownUntilEvent
  BY DEF IInv
<1>2. \A s \in Runners : Tracked(s)'
  BY <1>1, TrackedStep
<1>3. RowsTracked' /\ PreviousCurrent'
  BY <1>2 DEF RowsTracked, PreviousCurrent, Tracked
<1> QED
  BY <1>1, <1>3, TypeStep, OneRunStep, AnnouncedStep, RunningShownStep DEF IInv

\* The strengthened invariant holds in every reachable state: the rows of the
\* runs in progress are the open ones of their jobs, each run knows the result
\* before it, and what follows for the viewers.
THEOREM Invariant == Spec => []IInv
BY InvariantInit, InvariantStep, PTL DEF Spec

\* Every variable keeps its type, for any jobs, runners and number of runs.
THEOREM TypeCorrect == Spec => []TypeOK
<1>1. IInv => TypeOK
  BY DEF IInv
<1> QED
  BY <1>1, Invariant, PTL

\* A scheduled run, a manual one and a failing statement never make two runs
\* of a job overlap, nor leave the flag of a job set without one.
THEOREM OneRunAlways == Spec => []OneRunPerJob
<1>1. IInv => OneRunPerJob
  BY DEF IInv
<1> QED
  BY <1>1, Invariant, PTL

\* Viewers who were shown that a job failed, or that it did not, are told to
\* load the diagnostics again when that is no longer so.
THEOREM FailuresAlwaysAnnounced == Spec => []FailuresAnnounced
<1>1. IInv => FailuresAnnounced
  BY DEF IInv
<1> QED
  BY <1>1, Invariant, PTL

\* Viewers who were shown a job running hear of its end, unless its run ended
\* without a row.
THEOREM RunningAlwaysShownUntilEvent == Spec => []RunningShownUntilEvent
<1>1. IInv => RunningShownUntilEvent
  BY DEF IInv
<1> QED
  BY <1>1, Invariant, PTL

-----------------------------------------------------------------------------
(* Rows stay, and runs go on.                                                *)

\* A row that was finished is never written again, and no row is lost: neither
\* a run that ends late, nor one whose finish is stored and reported as failed,
\* nor a restart touches the row of another run.
OutcomesStay ==
  [][\A j \in Jobs :
       /\ Len(runs[j]) <= Len(runs'[j])
       /\ \A n \in 1..Len(runs[j]) :
            runs[j][n] \in Outcome => runs'[j][n] = runs[j][n]]_vars

LEMMA OutcomesStep ==
  ASSUME TypeOK, RowsTracked, [Next]_vars, NEW j \in Jobs
  PROVE  /\ Len(runs[j]) <= Len(runs'[j])
         /\ \A n \in 1..Len(runs[j]) : runs[j][n] \in Outcome => runs'[j][n] = runs[j][n]
<1>1. runs[j] \in Seq(Status) /\ Len(runs[j]) \in Nat
  BY LenProperties DEF TypeOK, Status
<1>2. CASE UNCHANGED runs
  BY <1>1, <1>2
<1>3. ASSUME NEW i \in Jobs, AddRow(i)
      PROVE  /\ Len(runs[j]) <= Len(runs'[j])
             /\ \A n \in 1..Len(runs[j]) : runs'[j][n] = runs[j][n]
  <2>1. runs' = [runs EXCEPT ![i] = Append(runs[i], "running")]
    BY <1>3 DEF AddRow
  <2>2. CASE i = j
    <3>1. runs'[j] = Append(runs[j], "running")
      BY <2>1, <2>2 DEF TypeOK
    <3>2. /\ Len(Append(runs[j], "running")) = Len(runs[j]) + 1
          /\ \A n \in 1..Len(runs[j]) : Append(runs[j], "running")[n] = runs[j][n]
      BY <1>1, AppendProperties DEF Status
    <3> QED
      BY <1>1, <3>1, <3>2
  <2>3. CASE i # j
    BY <1>1, <2>1, <2>3 DEF TypeOK
  <2> QED
    BY <2>2, <2>3
<1>4. ASSUME NEW r \in Runners, InPhase(r, "ended"), StoreOutcome(r)
      PROVE  /\ Len(runs[j]) <= Len(runs'[j])
             /\ \A n \in 1..Len(runs[j]) : runs[j][n] \in Outcome => runs'[j][n] = runs[j][n]
  <2>1. call[r].job \in Jobs /\ call[r].outcome \in Outcome
    BY <1>4, CallFields DEF InPhase
  <2>2. CASE call[r].job = j
    <3>1. /\ call[r].row = Len(runs[j]) /\ Len(runs[j]) > 0
          /\ runs[j][Len(runs[j])] = "running"
      BY <1>4, <2>2 DEF InPhase, RowsTracked
    <3>2. runs'[j] = [runs[j] EXCEPT ![Len(runs[j])] = call[r].outcome]
      BY <1>4, <2>1, <2>2, <3>1 DEF StoreOutcome, TypeOK
    <3>3. Len([runs[j] EXCEPT ![Len(runs[j])] = call[r].outcome]) = Len(runs[j])
      BY <1>1, <2>1, <3>1, ExceptSeq DEF Status
    <3>4. \A n \in 1..Len(runs[j]) : runs[j][n] \in Outcome => n # Len(runs[j])
      BY <3>1 DEF Outcome
    <3>5. \A n \in 1..Len(runs[j]) :
            n # Len(runs[j]) =>
              [runs[j] EXCEPT ![Len(runs[j])] = call[r].outcome][n] = runs[j][n]
      BY <1>1
    <3> QED
      BY <1>1, <3>2, <3>3, <3>4, <3>5
  <2>3. CASE call[r].job # j
    <3>1. runs'[j] = runs[j]
      BY <1>4, <2>3, StoreType
    <3> QED
      BY <1>1, <3>1
  <2> QED
    BY <2>2, <2>3
<1>5. ASSUME NEW r \in Runners, Step(r)
      PROVE  \/ UNCHANGED runs
             \/ call[r].job \in Jobs /\ AddRow(call[r].job)
             \/ InPhase(r, "ended") /\ StoreOutcome(r)
  BY <1>5, CallFields
     DEF Step, ReadPrevious, CreateRun, CreateRunFails, EndJob, FinishRun, FinishRunFails,
         Unlock, Publish, InPhase
<1>6. \/ UNCHANGED runs
      \/ \E r \in Runners : Step(r)
  BY DEF Next, vars, Lock, ViewJobs, ViewDiagnostics, Restart
<1> QED
  BY <1>2, <1>3, <1>4, <1>5, <1>6

\* For any jobs, any number of runs at once and of rows: what is stored of a run
\* that ended is final.
THEOREM OutcomesAreFinal == Spec => OutcomesStay
<1>1. IInv /\ [Next]_vars =>
        [\A j \in Jobs :
           /\ Len(runs[j]) <= Len(runs'[j])
           /\ \A n \in 1..Len(runs[j]) :
                runs[j][n] \in Outcome => runs'[j][n] = runs[j][n]]_vars
  BY OutcomesStep DEF IInv
<1> QED
  BY <1>1, Invariant, PTL DEF Spec, OutcomesStay

\* How many steps a run has left.
StepsLeft(k) ==
  IF k = None THEN 0
  ELSE CASE k.phase = "locked" -> 6
         [] k.phase = "read" -> 5
         [] k.phase = "running" -> 4
         [] k.phase = "ended" -> 3
         [] k.phase \in {"finished", "refused"} -> 2
         [] k.phase = "unlocked" -> 1

\* A run that holds its job has less to do after each of its steps, whatever
\* fails, and no other run, viewer or restart gives it more.
RunsShorten ==
  [][\A r \in Runners : call[r] # None =>
       /\ StepsLeft(call'[r]) <= StepsLeft(call[r])
       /\ Step(r) => StepsLeft(call'[r]) < StepsLeft(call[r])]_vars

LEMMA ShortenStep ==
  ASSUME TypeOK, RowsTracked, [Next]_vars, NEW r \in Runners, call[r] # None
  PROVE  /\ StepsLeft(call'[r]) <= StepsLeft(call[r])
         /\ Step(r) => StepsLeft(call'[r]) < StepsLeft(call[r])
<1>1. call[r] \in Call /\ call \in [Runners -> Call \cup {None}]
  BY CallFields DEF TypeOK
<1>2. \A k \in Call : k # None
  BY NoneAssumption
<1>3. StepsLeft(call[r]) \in 1..6
  BY <1>1, <1>2 DEF StepsLeft, Call
<1>4. StepsLeft(None) = 0
  BY DEF StepsLeft
<1>5. ASSUME Step(r)
      PROVE  StepsLeft(call'[r]) \in Nat /\ StepsLeft(call'[r]) < StepsLeft(call[r])
  <2>1. CASE ReadPrevious(r)
    BY <1>1, <1>2, <2>1 DEF ReadPrevious, InPhase, StepsLeft, Call
  <2>2. CASE CreateRun(r)
    BY <1>1, <1>2, <2>2 DEF CreateRun, InPhase, StepsLeft, Call
  <2>3. CASE CreateRunFails(r)
    BY <1>1, <1>2, <2>3 DEF CreateRunFails, InPhase, StepsLeft, Call
  <2>4. CASE EndJob(r)
    BY <1>1, <1>2, <2>4 DEF EndJob, InPhase, StepsLeft, Call
  <2>5. CASE FinishRun(r)
    BY <1>1, <1>2, <2>5 DEF FinishRun, InPhase, StepsLeft, Call
  <2>6. CASE FinishRunFails(r)
    BY <1>1, <1>2, <2>6 DEF FinishRunFails, InPhase, StepsLeft, Call
  <2>7. CASE Unlock(r)
    BY <1>1, <1>2, <2>7 DEF Unlock, Ends, InPhase, StepsLeft, Call
  <2>8. CASE Publish(r)
    BY <1>1, <1>3, <1>4, <2>8 DEF Publish
  <2> QED
    BY <1>5, <2>1, <2>2, <2>3, <2>4, <2>5, <2>6, <2>7, <2>8 DEF Step
<1>6. ASSUME NEW s \in Runners \ {r}, Step(s) \/ \E j \in Jobs : Lock(s, j)
      PROVE  call'[r] = call[r]
  BY <1>1, <1>6
     DEF Step, ReadPrevious, CreateRun, CreateRunFails, EndJob, FinishRun, FinishRunFails,
         Unlock, Publish, Lock
<1>7. \A j \in Jobs : ~Lock(r, j)
  BY DEF Lock
<1>8. CASE Restart
  BY <1>3, <1>4, <1>5, <1>8 DEF Restart
<1>9. CASE ViewJobs \/ ViewDiagnostics \/ UNCHANGED vars
  BY <1>3, <1>5, <1>9 DEF ViewJobs, ViewDiagnostics, vars
<1> QED
  BY <1>3, <1>5, <1>6, <1>7, <1>8, <1>9 DEF Next

\* For any number of runs at once: no run goes round, so that it is over after
\* six steps of its own.
THEOREM RunsAlwaysShorten == Spec => RunsShorten
<1>1. IInv /\ [Next]_vars =>
        [\A r \in Runners : call[r] # None =>
           /\ StepsLeft(call'[r]) <= StepsLeft(call[r])
           /\ Step(r) => StepsLeft(call'[r]) < StepsLeft(call[r])]_vars
  BY ShortenStep DEF IInv
<1> QED
  BY <1>1, Invariant, PTL DEF Spec, RunsShorten
=============================================================================
