----------------------------- MODULE Scheduler -----------------------------
(***************************************************************************)
(* The job manager (internal/scheduler): scheduled and manual runs of the  *)
(* registered jobs, the rows they leave in scheduler_job_runs, and the     *)
(* realtime events that tell viewers of the admin pages to load them again *)
(* (internal/diagnostics reports the latest finished run of every job).    *)
(*                                                                         *)
(* A runner is a goroutine in Manager.run: of cron, or of a RunNow         *)
(* request.  Other runs move between any two of its steps, and the process *)
(* may be killed there.                                                    *)
(***************************************************************************)
EXTENDS Naturals, Sequences

CONSTANTS
  Jobs,     \* registered jobs
  Runners,  \* goroutines that may be in Manager.run at once
  Cron,     \* those that run jobs on schedule; the others serve requests
  MaxRuns,  \* bound on the rows of one job
  None      \* no call

\* How a job function ends: an error or a panic is "failed", noop counts as
\* "completed", and "partial" completes with a summary that names failed
\* sources, history conflicts or a failed valuation.
Outcome == {"completed", "partial", "failed"}

Call == [phase : {"locked", "read", "refused", "running", "ended", "finished", "unlocked"},
         job : Jobs,
         previous : Outcome \cup {"none", "unknown"},
         row : 0..MaxRuns,
         outcome : Outcome,
         finished : BOOLEAN]

ASSUME CronAssumption == Cron \subseteq Runners
ASSUME MaxRunsAssumption == MaxRuns \in Nat
ASSUME NoneAssumption == None \notin Call

VARIABLES
  running,  \* the jobs for which Manager.running is set
  runs,     \* scheduler_job_runs: the statuses of each job's rows, oldest first
  call,     \* per runner: its call of Manager.run
  shown,    \* history: the running jobs and the diagnostics viewers loaded last
  refused,  \* history: jobs a run of which ended without any event since then
  unacked   \* history: jobs whose finish was stored and reported as failed

vars == <<running, runs, call, shown, refused, unacked>>

\* LatestFinishedRun orders by the start of the runs.
LatestFinished(rows) ==
  LET finished == {n \in 1..Len(rows) : rows[n] \in Outcome}
  IN IF finished = {} THEN "none"
     ELSE rows[CHOOSE n \in finished : \A m \in finished : m <= n]

\* schedulerIssues
Diagnostics == [j \in Jobs |-> LatestFinished(runs[j])]

Init ==
  /\ running = {}
  /\ runs = [j \in Jobs |-> <<>>]
  /\ call = [r \in Runners |-> None]
  /\ shown = [running |-> {}, issues |-> Diagnostics]
  /\ refused = {}
  /\ unacked = {}

InPhase(r, phase) == call[r] # None /\ call[r].phase = phase

\* Fault: the flag is not looked at.
MayLockAlways(j) == TRUE

\* lockJob
MayLock(j) == j \notin running

\* cron.SkipIfStillRunning, around scheduled runs only.
CronAllows(r, j) ==
  r \in Cron => ~\E s \in Cron : call[s] # None /\ call[s].job = j

\* A call that finds its job running returns ErrJobAlreadyRunning.
Lock(r, j) ==
  /\ call[r] = None
  /\ CronAllows(r, j)
  /\ MayLock(j)
  /\ Len(runs[j]) < MaxRuns
  /\ running' = running \cup {j}
  /\ call' = [call EXCEPT ![r] = [phase |-> "locked", job |-> j,
                                  previous |-> "none", row |-> 0,
                                  outcome |-> "completed", finished |-> FALSE]]
  /\ UNCHANGED <<runs, shown, refused, unacked>>

\* A failed read is logged and remembered.
ReadPrevious(r) ==
  /\ InPhase(r, "locked")
  /\ \E previous \in {LatestFinished(runs[call[r].job]), "unknown"} :
       call' = [call EXCEPT ![r].phase = "read", ![r].previous = previous]
  /\ UNCHANGED <<running, runs, shown, refused, unacked>>

AddRow(j) == runs' = [runs EXCEPT ![j] = Append(@, "running")]

CreateRun(r) ==
  /\ InPhase(r, "read")
  /\ AddRow(call[r].job)
  /\ call' = [call EXCEPT ![r].phase = "running", ![r].row = Len(runs[call[r].job]) + 1]
  /\ UNCHANGED <<running, shown, refused, unacked>>

\* The insert fails, or its answer is lost: the row stays "running" for good.
CreateRunFails(r) ==
  /\ InPhase(r, "read")
  /\ AddRow(call[r].job) \/ UNCHANGED runs
  /\ call' = [call EXCEPT ![r].phase = "refused"]
  /\ UNCHANGED <<running, shown, refused, unacked>>

\* The job function returns or panics.
EndJob(r) ==
  /\ InPhase(r, "running")
  /\ \E outcome \in Outcome :
       call' = [call EXCEPT ![r].phase = "ended", ![r].outcome = outcome]
  /\ UNCHANGED <<running, runs, shown, refused, unacked>>

StoreOutcome(r) == runs' = [runs EXCEPT ![call[r].job][call[r].row] = call[r].outcome]

FinishRun(r) ==
  /\ InPhase(r, "ended")
  /\ StoreOutcome(r)
  /\ call' = [call EXCEPT ![r].phase = "finished", ![r].finished = TRUE]
  /\ UNCHANGED <<running, shown, refused, unacked>>

\* The update fails, or only its answer is lost.
FinishRunFails(r) ==
  /\ InPhase(r, "ended")
  /\ \/ UNCHANGED <<runs, unacked>>
     \/ StoreOutcome(r) /\ unacked' = unacked \cup {call[r].job}
  /\ call' = [call EXCEPT ![r].phase = "finished"]
  /\ UNCHANGED <<running, shown, refused>>

\* Fault: a run that was not created leaves its job locked.
EndsFinished(r) == InPhase(r, "finished")

Ends(r) == InPhase(r, "finished") \/ InPhase(r, "refused")

\* unlockJob, first in the outer deferred function.
Unlock(r) ==
  /\ Ends(r)
  /\ running' = running \ {call[r].job}
  /\ call' = [call EXCEPT ![r].phase = "unlocked"]
  /\ refused' = IF call[r].row = 0 THEN refused \cup {call[r].job} ELSE refused
  /\ UNCHANGED <<runs, shown, unacked>>

\* Fault: only a stored result is announced.
HasResultFinished(c) == c.finished

\* There is a result to announce once the row was created.
HasResult(c) == c.row # 0

\* Fault: a previous run that could not be read is taken for a good one.
DiagnosticsChangedIfKnown(c) ==
  c.finished /\ (c.outcome = "failed" \/ c.previous = "failed")

\* schedulerDiagnosticsChanged
DiagnosticsChanged(c) ==
  c.finished /\ (c.previous = "unknown" \/ c.outcome = "failed" \/ c.previous = "failed")

\* Viewers load again what the scopes of the event name.
Publish(r) ==
  /\ InPhase(r, "unlocked")
  /\ IF ~HasResult(call[r])
     THEN UNCHANGED <<shown, refused, unacked>>
     ELSE /\ refused' = {}
          /\ IF DiagnosticsChanged(call[r])
             THEN /\ shown' = [running |-> running, issues |-> Diagnostics]
                  /\ unacked' = {}
             ELSE /\ shown' = [shown EXCEPT !.running = running]
                  /\ UNCHANGED unacked
  /\ call' = [call EXCEPT ![r] = None]
  /\ UNCHANGED <<running, runs>>

\* A viewer opens a page, or loads it again, at any moment.
ViewJobs ==
  /\ shown' = [shown EXCEPT !.running = running]
  /\ refused' = {}
  /\ UNCHANGED <<running, runs, call, unacked>>

ViewDiagnostics ==
  /\ shown' = [shown EXCEPT !.issues = Diagnostics]
  /\ unacked' = {}
  /\ UNCHANGED <<running, runs, call, refused>>

\* The process is killed, or ends while manual runs are in progress; viewers
\* see another generation of the hub and load everything.
Restart ==
  /\ running' = {}
  /\ call' = [r \in Runners |-> None]
  /\ shown' = [running |-> {}, issues |-> Diagnostics]
  /\ refused' = {}
  /\ unacked' = {}
  /\ UNCHANGED runs

Step(r) ==
  \/ ReadPrevious(r)
  \/ CreateRun(r)
  \/ CreateRunFails(r)
  \/ EndJob(r)
  \/ FinishRun(r)
  \/ FinishRunFails(r)
  \/ Unlock(r)
  \/ Publish(r)

Next ==
  \/ \E r \in Runners, j \in Jobs : Lock(r, j)
  \/ \E r \in Runners : Step(r)
  \/ ViewJobs
  \/ ViewDiagnostics
  \/ Restart

\* A run goes on once it is started: requests to the providers and database
\* statements end.  Nobody has to start one.
Fairness == \A r \in Runners : WF_vars(Step(r))

Spec == Init /\ [][Next]_vars
FairSpec == Spec /\ Fairness

-----------------------------------------------------------------------------
TypeOK ==
  /\ running \in SUBSET Jobs
  /\ runs \in [Jobs -> Seq(Outcome \cup {"running"})]
  /\ \A j \in Jobs : Len(runs[j]) <= MaxRuns
  /\ call \in [Runners -> Call \cup {None}]
  /\ shown \in [running : SUBSET Jobs,
                issues : [Jobs -> Outcome \cup {"none"}]]
  /\ refused \in SUBSET Jobs
  /\ unacked \in SUBSET Jobs

Holds(r) == call[r] # None /\ call[r].phase # "unlocked"

\* The running flag of a job is set exactly while one call holds it, however
\* scheduled runs, manual runs and failing statements interleave.
OneRunPerJob ==
  /\ running = {call[r].job : r \in {q \in Runners : Holds(q)}}
  /\ \A r, s \in Runners : Holds(r) /\ Holds(s) /\ call[r].job = call[s].job => r = s

\* A run of j is about to tell viewers to load the diagnostics.
WillAnnounce(j) ==
  \E r \in Runners :
    /\ InPhase(r, "finished") \/ InPhase(r, "unlocked")
    /\ call[r].job = j
    /\ DiagnosticsChanged(call[r])

\* Viewers are never left with a failure that is over, or without one that is
\* stored: whenever what they loaded says otherwise, an event is on its way.
FailuresAnnounced ==
  \A j \in Jobs \ unacked :
    (shown.issues[j] = "failed") # (LatestFinished(runs[j]) = "failed") => WillAnnounce(j)

\* Viewers who loaded the jobs while one was running are told when it is not,
\* unless its run ended without a result.
RunningShownUntilEvent ==
  \A j \in Jobs \ refused :
    j \in shown.running /\ j \notin running =>
      \E r \in Runners : InPhase(r, "unlocked") /\ call[r].job = j /\ HasResult(call[r])

\* A job never stays locked.
EveryRunEnds == \A j \in Jobs : j \in running ~> j \notin running

Clear == {"none", "completed"}

\* schedulerDiagnosticsChanged is told by a test to see no change in a
\* successful run after a successful run.
DiagnosticsAnnounced ==
  \A j \in Jobs \ unacked :
    shown.issues[j] # LatestFinished(runs[j])
    /\ ~(shown.issues[j] \in Clear /\ LatestFinished(runs[j]) \in Clear)
      => WillAnnounce(j)
=============================================================================
