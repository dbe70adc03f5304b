------------------------------ MODULE Lifecycle ------------------------------
(***************************************************************************)
(* The life of the process (cmd/fpr, internal/app, internal/routes,        *)
(* internal/deps): the parts of the state are loaded in order, cron starts,*)
(* requests are served until a signal, and main stops cron, closes the hub *)
(* and the pool and returns.                                               *)
(*                                                                         *)
(* Scheduled runs and requests go on meanwhile.  main waits for scheduled  *)
(* runs (cron.Stop) and for connections in use (pgxpool), and for no       *)
(* request: ListenAndServe returns when Shutdown is called, not when it    *)
(* has ended, and a request whose body is read until then runs its job     *)
(* after it.  Of the requests those that run a job are modelled.           *)
(***************************************************************************)
EXTENDS Naturals, Sequences

CONSTANTS
  Scheduled,  \* jobs that cron runs
  Manual,     \* requests that run a job
  Parts       \* what Start loads, in order: fund, prices, FX rates

Workers == Scheduled \cup Manual

\* A run has been asked for and has no row yet ("begun"), holds a connection to
\* create it ("creating"), waits for a provider ("working"), holds a connection
\* ("querying"), is about to store its end ("ending"), holds one to store it
\* ("storing"), or is about to publish it ("announcing").
Phase == {"idle", "begun", "creating", "working", "querying", "ending", "storing",
          "announcing"}

MainPhase == {"loading", "starting", "serving", "stopping", "closing", "exited",
              "killed"}

WorkersAssumption == Scheduled \cap Manual = {}
PartsAssumption == Parts \in Seq(STRING)

VARIABLES
  main,       \* where main is
  loaded,     \* how many parts of the state are loaded
  signalled,  \* the context of the process is cancelled
  accepting,  \* the server takes requests: Shutdown has not been called
  cron,       \* cron starts jobs
  hub,        \* realtime.Hub is open
  pool,       \* the pool gives connections
  run,        \* per worker: its run
  row,        \* per worker: the row of its last run
  failed,     \* history: workers whose last row the database did not end, or
              \* created without saying so
  unheard     \* history: workers whose end was published to a closed hub

mainVars == <<main, loaded, signalled, accepting, cron, hub, pool>>
rowVars == <<row, failed, unheard>>
runVars == <<run, rowVars>>
vars == <<mainVars, runVars>>

Init ==
  /\ main = "loading"
  /\ loaded = 0
  /\ signalled = FALSE
  /\ accepting = FALSE
  /\ cron = FALSE
  /\ hub = TRUE
  /\ pool = TRUE
  /\ run = [w \in Workers |-> "idle"]
  /\ row = [w \in Workers |-> "none"]
  /\ failed = {}
  /\ unheard = {}

Signal ==
  /\ ~signalled
  /\ signalled' = TRUE
  /\ UNCHANGED <<main, loaded, accepting, cron, hub, pool, runVars>>

-----------------------------------------------------------------------------
(* main                                                                      *)

Alive == main \notin {"exited", "killed"}

\* Start of fund, prices and fx.
LoadPart ==
  /\ main = "loading"
  /\ loaded < Len(Parts)
  /\ loaded' = loaded + 1
  /\ UNCHANGED <<main, signalled, accepting, cron, hub, pool, runVars>>

\* A part that cannot be loaded, or a cancelled start: the pool is closed.
StartFails ==
  /\ main = "loading"
  /\ main' = "closing"
  /\ pool' = FALSE
  /\ UNCHANGED <<loaded, signalled, accepting, cron, hub, runVars>>

AllLoaded == loaded = Len(Parts)

\* The valuation may fail to start; then Manager.Start.
StartCron ==
  /\ main = "loading"
  /\ AllLoaded
  /\ main' = "starting"
  /\ cron' = TRUE
  /\ UNCHANGED <<loaded, signalled, accepting, hub, pool, runVars>>

\* ListenAndServe, unless the address is taken or Shutdown was there first.
Serve ==
  /\ main = "starting"
  /\ \/ main' = "serving" /\ accepting' = TRUE
     \/ main' = "stopping" /\ UNCHANGED accepting
  /\ UNCHANGED <<loaded, signalled, cron, hub, pool, runVars>>

\* The goroutine that waits for the signal: no more connections are accepted.
Shutdown ==
  /\ Alive
  /\ signalled
  /\ accepting
  /\ accepting' = FALSE
  /\ UNCHANGED <<main, loaded, signalled, cron, hub, pool, runVars>>

\* ListenAndServe returns as soon as Shutdown is called.
ServeReturns ==
  /\ main = "serving"
  /\ ~accepting
  /\ main' = "stopping"
  /\ UNCHANGED <<loaded, signalled, accepting, cron, hub, pool, runVars>>

\* The listener fails: main stops without a signal, and open connections go on.
ServeFails ==
  /\ main = "serving"
  /\ main' = "stopping"
  /\ UNCHANGED <<loaded, signalled, accepting, cron, hub, pool, runVars>>

\* cron.Stop starts no more jobs, and its context is done with the last one.
StopCron ==
  /\ main = "stopping"
  /\ cron
  /\ cron' = FALSE
  /\ UNCHANGED <<main, loaded, signalled, accepting, hub, pool, runVars>>

\* Fault: Manager.Stop does not wait.
CronDoneAtOnce == ~cron

CronDone == ~cron /\ \A w \in Scheduled : run[w] = "idle"

\* App.Stop: the hub is closed after Manager.Stop.
HubMayClose == CronDone

CloseHub ==
  /\ main = "stopping"
  /\ HubMayClose
  /\ hub' = FALSE
  /\ UNCHANGED <<main, loaded, signalled, accepting, cron, pool, runVars>>

\* pgxpool.Close: no more connections, and those in use are waited for.
ClosePool ==
  /\ main = "stopping"
  /\ CronDone
  /\ ~hub
  /\ pool' = FALSE
  /\ main' = "closing"
  /\ UNCHANGED <<loaded, signalled, accepting, cron, hub, runVars>>

\* The end of main ends every goroutine.
Exit ==
  /\ main = "closing"
  /\ \A w \in Workers : run[w] \notin {"creating", "querying", "storing"}
  /\ main' = "exited"
  /\ run' = [w \in Workers |-> "idle"]
  /\ UNCHANGED <<loaded, signalled, accepting, cron, hub, pool, rowVars>>

Kill ==
  /\ Alive
  /\ main' = "killed"
  /\ run' = [w \in Workers |-> "idle"]
  /\ UNCHANGED <<loaded, signalled, accepting, cron, hub, pool, rowVars>>

-----------------------------------------------------------------------------
(* Runs of jobs                                                              *)

\* Fault: cron goes on starting jobs.
MayBeginAlways(w) == IF w \in Scheduled THEN main # "loading" ELSE accepting

MayBegin(w) == IF w \in Scheduled THEN cron ELSE accepting

\* A schedule is due, or a connection is taken whose request is still to be read.
Begin(w) ==
  /\ Alive
  /\ run[w] = "idle"
  /\ MayBegin(w)
  /\ run' = [run EXCEPT ![w] = "begun"]
  /\ UNCHANGED <<mainVars, rowVars>>

\* No run: the request is of no use, the job runs already, the context is
\* cancelled or there is no connection.
Refused(w) ==
  /\ run[w] = "begun"
  /\ run' = [run EXCEPT ![w] = "idle"]
  /\ UNCHANGED <<mainVars, rowVars>>

\* run, whenever the request has come, also after Shutdown: what it reads
\* before CreateRun changes nothing.
Create(w) ==
  /\ run[w] = "begun"
  /\ pool
  /\ run' = [run EXCEPT ![w] = "creating"]
  /\ UNCHANGED <<mainVars, rowVars>>

Created(w) ==
  /\ run[w] = "creating"
  /\ run' = [run EXCEPT ![w] = "working"]
  /\ row' = [row EXCEPT ![w] = "running"]
  /\ failed' = failed \ {w}
  /\ UNCHANGED <<mainVars, unheard>>

\* CreateRun fails, or its context, the one a signal cancels, ends between the
\* insert and its answer: the row is there and run returns without its end.
CreateFails(w) ==
  /\ run[w] = "creating"
  /\ run' = [run EXCEPT ![w] = "idle"]
  /\ \/ UNCHANGED <<row, failed>>
     \/ row' = [row EXCEPT ![w] = "running"] /\ failed' = failed \cup {w}
  /\ UNCHANGED <<mainVars, unheard>>

\* The job reads or stores something; with a closed pool it fails.
Query(w) ==
  /\ run[w] = "working"
  /\ pool
  /\ run' = [run EXCEPT ![w] = "querying"]
  /\ UNCHANGED <<mainVars, rowVars>>

QueryEnds(w) ==
  /\ run[w] = "querying"
  /\ run' = [run EXCEPT ![w] = "ending"]
  /\ UNCHANGED <<mainVars, rowVars>>

\* The job ends: a provider or the database failed, or there is no change.
JobEnds(w) ==
  /\ run[w] = "working"
  /\ run' = [run EXCEPT ![w] = "ending"]
  /\ UNCHANGED <<mainVars, rowVars>>

\* Without a connection FinishRun fails.
Ending == IF pool THEN "storing" ELSE "announcing"

\* FinishRun has a context of its own that no signal cancels.
Store(w) ==
  /\ run[w] = "ending"
  /\ run' = [run EXCEPT ![w] = Ending]
  /\ UNCHANGED <<mainVars, rowVars>>

Stored(w) ==
  /\ run[w] = "storing"
  /\ \/ row' = [row EXCEPT ![w] = "finished"] /\ failed' = failed \ {w}
     \/ failed' = failed \cup {w} /\ UNCHANGED row
  /\ run' = [run EXCEPT ![w] = "announcing"]
  /\ UNCHANGED <<mainVars, unheard>>

\* Publish does nothing on a closed hub.
Announce(w) ==
  /\ run[w] = "announcing"
  /\ unheard' = IF hub THEN unheard ELSE unheard \cup {w}
  /\ run' = [run EXCEPT ![w] = "idle"]
  /\ UNCHANGED <<mainVars, row, failed>>

\* Whether and when a request gets here is up to its sender.
Enter(w) == Create(w) \/ Refused(w)

Step(w) ==
  \/ Created(w)
  \/ CreateFails(w)
  \/ Query(w)
  \/ QueryEnds(w)
  \/ JobEnds(w)
  \/ Store(w)
  \/ Stored(w)
  \/ Announce(w)

Main ==
  \/ LoadPart
  \/ StartFails
  \/ StartCron
  \/ Serve
  \/ ServeReturns
  \/ StopCron
  \/ CloseHub
  \/ ClosePool
  \/ Exit

Next ==
  \/ Signal
  \/ Main
  \/ Shutdown
  \/ ServeFails
  \/ Kill
  \/ \E w \in Workers : Begin(w) \/ Enter(w) \/ Step(w)

Spec == Init /\ [][Next]_vars

\* main and the one that calls Shutdown are goroutines, requests to providers
\* have timeouts and statements end.  The body of a request may never come.
FairSpec ==
  /\ Spec
  /\ WF_vars(Main)
  /\ WF_vars(Shutdown)
  /\ \A w \in Scheduled : WF_vars(Enter(w))
  /\ \A w \in Workers : WF_vars(Step(w))

-----------------------------------------------------------------------------
TypeOK ==
  /\ main \in MainPhase
  /\ loaded \in 0..Len(Parts)
  /\ {signalled, accepting, cron, hub, pool} \subseteq BOOLEAN
  /\ run \in [Workers -> Phase]
  /\ row \in [Workers -> {"none", "running", "finished"}]
  /\ failed \in SUBSET Workers
  /\ unheard \in SUBSET Workers

\* However the process is told to stop, it leaves no row of a scheduled run in
\* "running", but for one whose end the database refused and one whose creation
\* was reported as failed, which the signal itself can bring about; and the ends
\* of scheduled runs are published while viewers are still connected.  A manual
\* run may leave such a row in any case: nobody waits for its request.
ScheduledRunsEnd ==
  /\ main = "exited" => \A w \in Scheduled \ failed : row[w] # "running"
  /\ unheard \cap Scheduled = {}

\* A signal ends the process, whatever is running.
ProcessEnds == signalled ~> ~Alive
=============================================================================
