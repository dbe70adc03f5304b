----------------------------- MODULE JobEvents ------------------------------
(***************************************************************************)
(* What viewers see of the jobs together (internal/schedulerjobs,          *)
(* internal/prices handler, internal/realtime): a job updates RAM under    *)
(* the write lock, publishes its change when the lock is released,         *)
(* recalculates the live valuation under the lock and publishes that.      *)
(*                                                                         *)
(* Jobs and requests of the administrator run at the same time, so their   *)
(* events may be published in another order than their updates were made.  *)
(* A viewer applies events in the order they are published in (Hub).       *)
(***************************************************************************)
EXTENDS Naturals, FiniteSetsExt

CONSTANTS
  Data,        \* what jobs change: prices of a source, the rate, the snapshot
  Prices,      \* those that belong to PriceState
  Actors,      \* jobs, and requests that set a price source
  Target,      \* the datum an actor changes
  Refetching,  \* actors whose event names the datum and does not carry it
  MaxVersion   \* bound on the changes of a datum

Version == 0..MaxVersion
Inputs == [Data -> Version]

\* A live valuation: what it was calculated from, and ObservedAt.
Live == [inputs : Inputs, at : Nat]

Call == [phase : {"idle", "updated", "announced", "valued"}, value : Version, live : Live]

ASSUME DataAssumption == Prices \subseteq Data /\ Target \in [Actors -> Data]
ASSUME RefetchingAssumption == Refetching \subseteq Actors
ASSUME MaxVersionAssumption == MaxVersion \in Nat

VARIABLES
  stored,     \* the durable data, by version
  ram,        \* the published state
  live,       \* ValuationState.Current
  call,       \* per actor: its run or request
  shown,      \* what a viewer shows: the data, the last live valuation it was
              \* sent, and the latest one by ObservedAt
  silent,     \* history: data that changed in RAM without an event of theirs
  overtaken,  \* history: data whose last event carried an older version
  liveLate    \* history: a live valuation was published after a later one

vars == <<stored, ram, live, call, shown, silent, overtaken, liveLate>>

NoLive == [inputs |-> [d \in Data |-> 0], at |-> 0]
Idle == [phase |-> "idle", value |-> 0, live |-> NoLive]

ShowAll ==
  /\ shown' = [data |-> ram', live |-> live', latest |-> live']
  /\ silent' = {}
  /\ overtaken' = {}
  /\ liveLate' = FALSE

Init ==
  /\ stored = [d \in Data |-> 0]
  /\ ram = stored
  /\ live = NoLive
  /\ call = [a \in Actors |-> Idle]
  /\ shown = [data |-> ram, live |-> live, latest |-> live]
  /\ silent = {}
  /\ overtaken = {}
  /\ liveLate = FALSE

NewVersion(a) ==
  /\ call[a].phase = "idle"
  /\ stored[Target[a]] < MaxVersion
  /\ stored' = [stored EXCEPT ![Target[a]] = @ + 1]

\* Manager.Update: the change is stored and published in one step.  Quotes and
\* rates go into RAM one by one, SetPriceSource loads all prices.
Update(a) ==
  /\ NewVersion(a)
  /\ ram' = [d \in Data |->
               IF d = Target[a] \/ (a \in Refetching /\ {d, Target[a]} \subseteq Prices)
               THEN stored'[d] ELSE ram[d]]
  /\ silent' = silent \cup {d \in Data \ {Target[a]} : ram'[d] # ram[d]}
  /\ call' = [call EXCEPT ![a].phase = "updated", ![a].value = stored'[Target[a]]]
  /\ UNCHANGED <<live, shown, overtaken, liveLate>>

\* The commit takes effect and is reported as failed: the run ends.
UpdateUnacked(a) ==
  /\ NewVersion(a)
  /\ UNCHANGED <<ram, live, call, shown, silent, overtaken, liveLate>>

\* The history job loads all prices and publishes a change of the history only.
HistoryChanged ==
  /\ ram' = [d \in Data |-> IF d \in Prices THEN stored[d] ELSE ram[d]]
  /\ silent' = silent \cup {d \in Data : ram'[d] # ram[d]}
  /\ UNCHANGED <<stored, live, call, shown, overtaken, liveLate>>

\* Viewers take the value of the event, or ask for the current one.
Received(a) == IF a \in Refetching THEN ram[Target[a]] ELSE call[a].value

Announce(a) ==
  /\ call[a].phase = "updated"
  /\ shown' = [shown EXCEPT !.data[Target[a]] = Received(a)]
  /\ silent' = silent \ {Target[a]}
  /\ overtaken' = IF Received(a) = ram[Target[a]]
                  THEN overtaken \ {Target[a]} ELSE overtaken \cup {Target[a]}
  /\ call' = [call EXCEPT ![a] = [Idle EXCEPT !.phase = "announced"]]
  /\ UNCHANGED <<stored, ram, live, liveLate>>

\* Fault: the change is announced after the valuation, if there is one.
RecalculatesUpdated(a) == call[a].phase \in {"updated", "announced"}

Recalculates(a) == call[a].phase = "announced"

\* The clock is read under the write lock.
ObservedAt(a) == live.at + 1

\* Fault: a valuation is only new when the caller's own datum changed it.
ChangedByOwn(a) == live.inputs[Target[a]] # ram[Target[a]]

\* apply, of the state under the write lock; equal values are not published.
Changed(a) == live.inputs # ram

Recalculate(a) ==
  /\ Recalculates(a)
  /\ live' = IF live.inputs = ram THEN live ELSE [inputs |-> ram, at |-> ObservedAt(a)]
  /\ call' = [call EXCEPT ![a] = IF Changed(a)
                                 THEN [phase |-> "valued", value |-> 0, live |-> live']
                                 ELSE Idle]
  /\ UNCHANGED <<stored, ram, shown, silent, overtaken, liveLate>>

\* The run completes without a valuation.
RecalculateFails(a) ==
  /\ Recalculates(a)
  /\ call' = [call EXCEPT ![a] = Idle]
  /\ UNCHANGED <<stored, ram, live, shown, silent, overtaken, liveLate>>

AnnounceLive(a) ==
  /\ call[a].phase = "valued"
  /\ shown' = [shown EXCEPT !.live = call[a].live,
                            !.latest = IF call[a].live.at > @.at THEN call[a].live ELSE @]
  /\ liveLate' = (call[a].live.at < shown.latest.at)
  /\ call' = [call EXCEPT ![a] = Idle]
  /\ UNCHANGED <<stored, ram, live, silent, overtaken>>

\* A viewer opens the page, or was disconnected and loads everything.
ViewerLoads ==
  /\ UNCHANGED <<stored, ram, live, call>>
  /\ ShowAll

\* Start loads what is stored and values it; viewers see another generation of
\* the hub.  Nothing that was published before can arrive any more.
Restart ==
  /\ ram' = stored
  /\ live' = [inputs |-> stored, at |-> 0]
  /\ call' = [a \in Actors |-> Idle]
  /\ UNCHANGED stored
  /\ ShowAll

Step(a) ==
  \/ Announce(a)
  \/ Recalculate(a)
  \/ RecalculateFails(a)
  \/ AnnounceLive(a)

Next ==
  \/ \E a \in Actors : Update(a) \/ UpdateUnacked(a) \/ Step(a)
  \/ HistoryChanged
  \/ ViewerLoads
  \/ Restart

\* A run that updated RAM goes on to its end; nobody has to start one.
Fairness == \A a \in Actors : WF_vars(Step(a))

Spec == Init /\ [][Next]_vars
FairSpec == Spec /\ Fairness

-----------------------------------------------------------------------------
TypeOK ==
  /\ stored \in Inputs
  /\ ram \in Inputs
  /\ live \in Live
  /\ call \in [Actors -> Call]
  /\ shown \in [data : Inputs, live : Live, latest : Live]
  /\ silent \in SUBSET Data
  /\ overtaken \in SUBSET Data
  /\ liveLate \in BOOLEAN

\* A viewer shows what RAM has, or the event that says so is due, unless the
\* change came with no event of its own or an older event was published last.
DataShownUnlessOvertaken ==
  \A d \in Data \ (silent \cup overtaken) :
    shown.data[d] # ram[d] =>
      \E a \in Actors : call[a].phase = "updated" /\ Target[a] = d

\* The event that carries the current live valuation is due.
LiveDue == \E a \in Actors : call[a].phase = "valued" /\ call[a].live = live

\* A viewer shows the current live valuation or its event is due, unless an
\* older one was published after it; and a viewer who drops valuations that are
\* older by ObservedAt ends with the current one, in whatever order the jobs
\* publish them.
LiveShown ==
  /\ shown.live # live => liveLate \/ LiveDue
  /\ shown.latest # live => LiveDue

\* Every change that has an event reaches the viewers, or a later one does,
\* unless an older event was published last.
ChangesReachViewers ==
  \A d \in Data, v \in Version : ram[d] = v ~>
    shown.data[d] >= v \/ d \in silent \cup overtaken
=============================================================================
