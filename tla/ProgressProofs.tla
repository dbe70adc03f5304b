---------------------------- MODULE ProgressProofs ----------------------------
(***************************************************************************)
(* Theorems about what viewers show of the jobs and about the end of the   *)
(* process, for any number of jobs, requests, data and versions, and about *)
(* both as MCProgress puts them together.  The live valuations are ordered *)
(* by the time that is read under the write lock; that order is what the   *)
(* second invariant of the events needs.                                   *)
(***************************************************************************)
EXTENDS MCProgress, TLAPS

-----------------------------------------------------------------------------
(* The events of the jobs. *)

\* No valuation that was published or is about to be is newer than the current
\* one, and none but the current one is as new.
NotNewer(l) == l.at <= live.at /\ (l.at = live.at => l = live)

LiveOrdered ==
  /\ NotNewer(shown.latest)
  /\ \A a \in Actors : call[a].phase = "valued" => NotNewer(call[a].live)

LiveInv == TypeOK /\ LiveOrdered /\ LiveShown

\* The variables keep their types: events carry versions that were stored.
LEMMA NoLiveType == NoLive \in Live
  BY MaxVersionAssumption DEF NoLive, Live, Inputs, Version

LEMMA IdleType == Idle \in Call
  BY NoLiveType, MaxVersionAssumption DEF Idle, Call, Version

LEMMA InitTypeOK == Init => TypeOK
<1> SUFFICES ASSUME Init PROVE TypeOK
  OBVIOUS
<1>1. stored \in Inputs
  BY MaxVersionAssumption DEF Init, Inputs, Version
<1>2. call \in [Actors -> Call]
  BY IdleType DEF Init
<1> QED
  BY <1>1, <1>2, NoLiveType DEF Init, TypeOK

LEMMA ReceivedType ==
  ASSUME TypeOK, NEW a \in Actors PROVE Received(a) \in Version
BY DataAssumption DEF TypeOK, Received, Inputs, Call

LEMMA NextTypeOK == TypeOK /\ [Next]_vars => TypeOK'
<1> SUFFICES ASSUME TypeOK, [Next]_vars PROVE TypeOK'
  OBVIOUS
<1> USE DataAssumption, MaxVersionAssumption
<1>1. ASSUME NEW a \in Actors, NewVersion(a)
      PROVE /\ stored' \in Inputs /\ stored'[Target[a]] \in Version
  BY <1>1 DEF TypeOK, NewVersion, Inputs, Version
<1>2. ASSUME NEW a \in Actors, Update(a) PROVE TypeOK'
  <2>1. NewVersion(a)
    BY <1>2 DEF Update
  <2>2. ram' \in Inputs
    BY <1>1, <1>2, <2>1 DEF TypeOK, Update, Inputs
  <2>3. silent' \in SUBSET Data
    BY <1>2 DEF TypeOK, Update
  <2>4. call' \in [Actors -> Call]
    BY <1>1, <1>2, <2>1 DEF TypeOK, Update, Call
  <2> QED
    BY <1>1, <1>2, <2>1, <2>2, <2>3, <2>4 DEF TypeOK, Update
<1>3. ASSUME NEW a \in Actors, UpdateUnacked(a) PROVE TypeOK'
  BY <1>1, <1>3 DEF TypeOK, UpdateUnacked
<1>4. CASE HistoryChanged
  <2>1. ram' \in Inputs
    BY <1>4 DEF TypeOK, HistoryChanged, Inputs
  <2>2. silent' \in SUBSET Data
    BY <1>4 DEF TypeOK, HistoryChanged
  <2> QED
    BY <1>4, <2>1, <2>2 DEF TypeOK, HistoryChanged
<1>5. ASSUME NEW a \in Actors, Announce(a) PROVE TypeOK'
  <2>1. Received(a) \in Version
    BY ReceivedType
  <2>2. shown' \in [data : Inputs, live : Live, latest : Live]
    BY <1>5, <2>1 DEF TypeOK, Announce, Inputs
  <2>3. call' \in [Actors -> Call]
    <3>1. [Idle EXCEPT !.phase = "announced"] \in Call
      BY NoLiveType DEF Idle, Call, Version
    <3> QED
      BY <1>5, <3>1 DEF TypeOK, Announce
  <2>4. overtaken' \in SUBSET Data /\ silent' \in SUBSET Data
    BY <1>5 DEF TypeOK, Announce
  <2> QED
    BY <1>5, <2>2, <2>3, <2>4 DEF TypeOK, Announce
<1>6. ASSUME NEW a \in Actors, Recalculate(a) PROVE TypeOK'
  <2>1. live' \in Live
    BY <1>6 DEF TypeOK, Recalculate, ObservedAt, Live
  <2>2. [phase |-> "valued", value |-> 0, live |-> live'] \in Call
    BY <2>1 DEF Call, Version
  <2>3. call' \in [Actors -> Call]
    BY <1>6, <2>2, IdleType DEF TypeOK, Recalculate
  <2> QED
    BY <1>6, <2>1, <2>3 DEF TypeOK, Recalculate
<1>7. ASSUME NEW a \in Actors, RecalculateFails(a) PROVE TypeOK'
  BY <1>7, IdleType DEF TypeOK, RecalculateFails
<1>8. ASSUME NEW a \in Actors, AnnounceLive(a) PROVE TypeOK'
  <2>1. call[a].live \in Live
    BY DEF TypeOK, Call
  <2>2. shown' \in [data : Inputs, live : Live, latest : Live]
    BY <1>8, <2>1 DEF TypeOK, AnnounceLive
  <2>3. liveLate' \in BOOLEAN
    BY <1>8 DEF AnnounceLive
  <2> QED
    BY <1>8, <2>2, <2>3, IdleType DEF TypeOK, AnnounceLive
<1>9. CASE ViewerLoads
  BY <1>9 DEF TypeOK, ViewerLoads, ShowAll
<1>10. CASE Restart
  <2>1. live' \in Live
    BY <1>10 DEF TypeOK, Restart, Live
  <2> QED
    BY <1>10, <2>1, IdleType DEF TypeOK, Restart, ShowAll
<1>11. CASE UNCHANGED vars
  BY <1>11 DEF TypeOK, vars
<1> QED
  BY <1>2, <1>3, <1>4, <1>5, <1>6, <1>7, <1>8, <1>9, <1>10, <1>11 DEF Next, Step

\* Every step of the jobs and of the administrator keeps the types of JobEvents.
THEOREM TypeCorrect == Spec => []TypeOK
BY InitTypeOK, NextTypeOK, PTL DEF Spec

LEMMA InitData == Init => DataShownUnlessOvertaken
BY DEF Init, DataShownUnlessOvertaken

LEMMA NextData ==
  TypeOK /\ DataShownUnlessOvertaken /\ [Next]_vars => DataShownUnlessOvertaken'
<1> SUFFICES ASSUME TypeOK, DataShownUnlessOvertaken, [Next]_vars,
                    NEW d \in Data \ (silent' \cup overtaken'), shown'.data[d] # ram'[d]
             PROVE \E a \in Actors : call'[a].phase = "updated" /\ Target[a] = d
  BY DEF DataShownUnlessOvertaken
<1> USE DataAssumption
<1> DEFINE Due == \E a \in Actors : call[a].phase = "updated" /\ Target[a] = d
<1>1. shown.data[d] # ram[d] /\ d \notin silent \cup overtaken => Due
  BY DEF DataShownUnlessOvertaken
<1>2. ASSUME NEW a \in Actors, Update(a)
      PROVE \E b \in Actors : call'[b].phase = "updated" /\ Target[b] = d
  <2>1. CASE d = Target[a]
    BY <1>2, <2>1 DEF Update, TypeOK
  <2>2. CASE d # Target[a]
    <3>1. ram'[d] = ram[d] /\ d \notin silent \cup overtaken
      BY <1>2, <2>2 DEF Update
    <3>2. Due
      BY <1>1, <1>2, <3>1 DEF Update
    <3> QED
      BY <1>2, <3>2 DEF Update, NewVersion, TypeOK
  <2> QED
    BY <2>1, <2>2
<1>3. ASSUME NEW a \in Actors, UpdateUnacked(a)
      PROVE \E b \in Actors : call'[b].phase = "updated" /\ Target[b] = d
  BY <1>1, <1>3 DEF UpdateUnacked
<1>4. CASE HistoryChanged
  BY <1>1, <1>4 DEF HistoryChanged
<1>5. ASSUME NEW a \in Actors, Announce(a)
      PROVE \E b \in Actors : call'[b].phase = "updated" /\ Target[b] = d
  <2>1. d # Target[a]
    BY <1>5 DEF Announce, TypeOK, Inputs
  <2>2. shown'.data[d] = shown.data[d] /\ d \notin silent \cup overtaken
    BY <1>5, <2>1 DEF Announce, TypeOK, Inputs
  <2>3. Due
    BY <1>1, <1>5, <2>2 DEF Announce
  <2> QED
    BY <1>5, <2>1, <2>3 DEF Announce, TypeOK
<1>6. ASSUME NEW a \in Actors, Recalculate(a) \/ RecalculateFails(a) \/ AnnounceLive(a)
      PROVE \E b \in Actors : call'[b].phase = "updated" /\ Target[b] = d
  <2>1. /\ shown'.data = shown.data /\ ram' = ram
        /\ silent' = silent /\ overtaken' = overtaken
    BY <1>6 DEF Recalculate, RecalculateFails, AnnounceLive, TypeOK
  <2>2. \A b \in Actors : call[b].phase = "updated" => call'[b] = call[b]
    BY <1>6 DEF Recalculate, RecalculateFails, AnnounceLive, Recalculates, TypeOK
  <2> QED
    BY <1>1, <2>1, <2>2
<1>7. CASE ViewerLoads \/ Restart
  BY <1>7 DEF ViewerLoads, Restart, ShowAll
<1>8. CASE UNCHANGED vars
  BY <1>1, <1>8 DEF vars
<1> QED
  BY <1>2, <1>3, <1>4, <1>5, <1>6, <1>7, <1>8 DEF Next, Step

\* For any number of jobs and data: a viewer shows what RAM has or the event
\* that says so is due, unless the change has no event or an older event was
\* published last.
THEOREM DataAlwaysShown == Spec => []DataShownUnlessOvertaken
BY InitTypeOK, NextTypeOK, InitData, NextData, PTL DEF Spec

LEMMA InitLive == Init => LiveOrdered /\ LiveShown
<1> SUFFICES ASSUME Init PROVE LiveOrdered /\ LiveShown
  OBVIOUS
<1>1. \A a \in Actors : call[a].phase # "valued"
  BY DEF Init, Idle
<1> QED
  BY <1>1 DEF Init, LiveOrdered, LiveShown, NotNewer, NoLive

\* A valuation is dated later than the one it replaces.
LEMMA RecalculateKeeps ==
  ASSUME LiveInv, NEW a \in Actors, Recalculate(a)
  PROVE (LiveOrdered /\ LiveShown)'
<1> USE DEF LiveInv, TypeOK
<1>1. live \in Live /\ shown.latest \in Live /\ \A b \in Actors : call[b].live \in Live
  BY DEF Call
<1>2. call[a].phase = "announced" /\ shown' = shown /\ liveLate' = liveLate
  BY DEF Recalculate, Recalculates
<1>3. \A b \in Actors \ {a} : call'[b] = call[b]
  BY DEF Recalculate
<1>4. CASE live.inputs = ram
  <2>1. live' = live
    BY <1>4 DEF Recalculate
  <2>2. call'[a] = Idle
    BY <1>4 DEF Recalculate, Changed
  <2>3. LiveOrdered'
    BY <1>2, <1>3, <2>1, <2>2 DEF LiveOrdered, NotNewer, Idle
  <2>4. LiveDue => LiveDue'
    BY <1>2, <1>3, <2>1 DEF LiveDue
  <2> QED
    BY <1>2, <2>1, <2>3, <2>4 DEF LiveShown
<1>5. CASE live.inputs # ram
  <2>1. live' = [inputs |-> ram, at |-> live.at + 1]
    BY <1>5 DEF Recalculate, ObservedAt
  <2>2. call'[a] = [phase |-> "valued", value |-> 0, live |-> live']
    BY <1>5 DEF Recalculate, Changed
  <2>3. \A l \in Live : NotNewer(l) => NotNewer(l)'
    BY <1>1, <2>1 DEF NotNewer, Live
  <2>4. LiveOrdered'
    <3>1. NotNewer(shown.latest)'
      BY <1>1, <1>2, <2>3 DEF LiveOrdered
    <3>2. ASSUME NEW b \in Actors, call'[b].phase = "valued" PROVE NotNewer(call[b].live)'
      <4>1. CASE b = a
        BY <1>1, <2>1, <2>2, <4>1 DEF NotNewer, Live
      <4>2. CASE b # a
        BY <1>1, <1>3, <2>3, <3>2, <4>2 DEF LiveOrdered
      <4> QED
        BY <4>1, <4>2
    <3> QED
      BY <3>1, <3>2 DEF LiveOrdered
  <2>5. LiveDue'
    BY <2>2 DEF LiveDue
  <2> QED
    BY <2>4, <2>5 DEF LiveShown
<1> QED
  BY <1>4, <1>5

\* Publishing an older valuation last is what liveLate records.
LEMMA AnnounceLiveKeeps ==
  ASSUME LiveInv, NEW a \in Actors, AnnounceLive(a)
  PROVE (LiveOrdered /\ LiveShown)'
<1> USE DEF LiveInv, TypeOK
<1>1. live \in Live /\ shown.latest \in Live /\ call[a].live \in Live
  BY DEF Call
<1>2. call[a].phase = "valued" /\ live' = live
  BY DEF AnnounceLive
<1>3. call'[a] = Idle /\ \A b \in Actors \ {a} : call'[b] = call[b]
  BY DEF AnnounceLive
<1>4. shown'.live = call[a].live
  BY DEF AnnounceLive
<1>5. shown'.latest = IF call[a].live.at > shown.latest.at THEN call[a].live ELSE shown.latest
  BY DEF AnnounceLive
<1>6. NotNewer(call[a].live) /\ NotNewer(shown.latest)
  BY <1>2 DEF LiveOrdered
<1>7. LiveOrdered'
  <2>1. NotNewer(shown.latest)'
    BY <1>2, <1>5, <1>6 DEF NotNewer
  <2> QED
    BY <1>2, <1>3, <2>1 DEF LiveOrdered, NotNewer, Idle
<1>8. CASE call[a].live = live
  <2>1. shown'.latest = live
    BY <1>1, <1>5, <1>6, <1>8 DEF NotNewer, Live
  <2> QED
    BY <1>2, <1>4, <1>7, <1>8, <2>1 DEF LiveShown
<1>9. CASE call[a].live # live
  <2>1. call[a].live.at < live.at
    BY <1>1, <1>6, <1>9 DEF NotNewer, Live
  <2>2. LiveDue => LiveDue'
    BY <1>2, <1>3, <1>9 DEF LiveDue
  <2>3. CASE LiveDue
    BY <1>7, <2>2, <2>3 DEF LiveShown
  <2>4. CASE ~LiveDue
    <3>1. shown.latest = live
      BY <2>4 DEF LiveShown
    <3>2. shown'.latest = live
      BY <1>1, <1>5, <2>1, <3>1 DEF Live
    <3>3. liveLate'
      BY <2>1, <3>1 DEF AnnounceLive
    <3> QED
      BY <1>2, <1>7, <3>2, <3>3 DEF LiveShown
  <2> QED
    BY <2>3, <2>4
<1> QED
  BY <1>8, <1>9

LEMMA NextLive == LiveInv /\ [Next]_vars => LiveInv'
<1> SUFFICES ASSUME LiveInv, [Next]_vars PROVE (LiveOrdered /\ LiveShown)'
  BY NextTypeOK DEF LiveInv
<1>1. ASSUME UNCHANGED <<live, liveLate>>, shown'.live = shown.live,
             shown'.latest = shown.latest,
             \A a \in Actors : call[a].phase = "valued" \/ call'[a].phase = "valued"
                                 => call'[a] = call[a]
      PROVE (LiveOrdered /\ LiveShown)'
  <2>1. LiveOrdered'
    BY <1>1 DEF LiveInv, LiveOrdered, NotNewer
  <2>2. LiveDue => LiveDue'
    BY <1>1 DEF LiveDue
  <2> QED
    BY <1>1, <2>1, <2>2 DEF LiveInv, LiveShown
<1>2. ASSUME NEW a \in Actors, Update(a) \/ UpdateUnacked(a)
      PROVE (LiveOrdered /\ LiveShown)'
  BY <1>1, <1>2 DEF Update, UpdateUnacked, NewVersion, LiveInv, TypeOK, Call
<1>3. CASE HistoryChanged
  BY <1>1, <1>3 DEF HistoryChanged
<1>4. ASSUME NEW a \in Actors, Announce(a) PROVE (LiveOrdered /\ LiveShown)'
  <2>1. shown'.live = shown.live /\ shown'.latest = shown.latest
    BY <1>4 DEF Announce, LiveInv, TypeOK
  <2>2. \A b \in Actors : call[b].phase = "valued" \/ call'[b].phase = "valued"
                            => call'[b] = call[b]
    BY <1>4 DEF Announce, LiveInv, TypeOK, Idle
  <2> QED
    BY <1>1, <1>4, <2>1, <2>2 DEF Announce
<1>5. ASSUME NEW a \in Actors, RecalculateFails(a) PROVE (LiveOrdered /\ LiveShown)'
  <2>1. \A b \in Actors : call[b].phase = "valued" \/ call'[b].phase = "valued"
                            => call'[b] = call[b]
    BY <1>5 DEF RecalculateFails, Recalculates, Idle, LiveInv, TypeOK
  <2> QED
    BY <1>1, <1>5, <2>1 DEF RecalculateFails
<1>6. CASE ViewerLoads
  <2>1. shown'.live = live /\ shown'.latest = live /\ live' = live /\ call' = call
    BY <1>6 DEF ViewerLoads, ShowAll
  <2> QED
    BY <2>1 DEF LiveInv, LiveOrdered, LiveShown, NotNewer, TypeOK, Live
<1>7. CASE Restart
  <2>1. shown'.live = live' /\ shown'.latest = live' /\ live' \in Live
    BY <1>7 DEF Restart, ShowAll, LiveInv, TypeOK, Live
  <2>2. \A a \in Actors : call'[a].phase # "valued"
    BY <1>7 DEF Restart, Idle
  <2> QED
    BY <2>1, <2>2 DEF LiveOrdered, LiveShown, NotNewer, Live
<1>8. CASE UNCHANGED vars
  BY <1>1, <1>8 DEF vars
<1> QED
  BY <1>2, <1>3, <1>4, <1>5, <1>6, <1>7, <1>8, RecalculateKeeps, AnnounceLiveKeeps
  DEF Next, Step

\* For any number of jobs: a viewer shows the current live valuation or its
\* event is due, unless an older one was published last, which a viewer who
\* compares ObservedAt never shows.
THEOREM LiveAlwaysShown == Spec => []LiveShown
<1>1. Init => LiveInv
  BY InitTypeOK, InitLive DEF LiveInv
<1>2. LiveInv => LiveShown
  BY DEF LiveInv
<1> QED
  BY <1>1, <1>2, NextLive, PTL DEF Spec

-----------------------------------------------------------------------------
(* Nothing that is kept goes back to an older version. *)

\* What viewers were sent last by ObservedAt, and what is still to be published.
Published == {shown.latest} \cup {call[a].live : a \in {b \in Actors : call[b].phase = "valued"}}

AtMost(s, t) == \A d \in Data : s[d] <= t[d]

\* Of two valuations the later one by ObservedAt is of no older data.
VersionsOrdered ==
  /\ AtMost(ram, stored)
  /\ AtMost(live.inputs, ram)
  /\ \A l \in Published : AtMost(l.inputs, live.inputs)
  /\ \A l, m \in Published : l.at < m.at => AtMost(l.inputs, m.inputs)

VersionsInv == LiveInv /\ VersionsOrdered

\* Neither the tables, nor RAM, nor the live valuation, nor what a viewer shows
\* who compares ObservedAt goes back to an older version of a datum.
VersionsGrow ==
  [][/\ AtMost(stored, stored')
     /\ AtMost(ram, ram')
     /\ AtMost(live.inputs, live'.inputs)
     /\ AtMost(shown.latest.inputs, shown'.latest.inputs)]_vars

LEMMA VersionTypes ==
  ASSUME TypeOK
  PROVE  /\ stored \in [Data -> Nat] /\ ram \in [Data -> Nat]
         /\ live \in [inputs : [Data -> Nat], at : Nat]
         /\ \A l \in Published : l \in [inputs : [Data -> Nat], at : Nat]
         /\ shown.latest \in Published
<1>1. Inputs \subseteq [Data -> Nat]
  BY MaxVersionAssumption DEF Inputs, Version
<1>2. Live \subseteq [inputs : [Data -> Nat], at : Nat]
  BY <1>1 DEF Live
<1>3. shown.latest \in Live /\ \A a \in Actors : call[a].live \in Live
  BY DEF TypeOK, Call
<1> QED
  BY <1>1, <1>2, <1>3 DEF TypeOK, Published

\* While the valuations stay, newer data keep them in order.
LEMMA NewDataKeep ==
  ASSUME VersionsInv, UNCHANGED live, AtMost(ram, ram'), AtMost(ram', stored'),
         ram' \in [Data -> Nat], Published' \subseteq Published \cup {live}
  PROVE  VersionsOrdered' /\ AtMost(live.inputs, live'.inputs)
<1>1. /\ ram \in [Data -> Nat] /\ live \in [inputs : [Data -> Nat], at : Nat]
      /\ \A l \in Published : l \in [inputs : [Data -> Nat], at : Nat]
  BY VersionTypes DEF VersionsInv, LiveInv
<1>2. AtMost(live.inputs, live.inputs) /\ AtMost(live.inputs, ram')
  BY <1>1 DEF VersionsInv, VersionsOrdered, AtMost
<1>3. \A l \in Published \cup {live} : AtMost(l.inputs, live.inputs)
  BY <1>2 DEF VersionsInv, VersionsOrdered
<1>4. \A l \in Published : l.at <= live.at
  BY DEF VersionsInv, LiveInv, LiveOrdered, NotNewer, Published
<1>5. \A l, m \in Published \cup {live} : l.at < m.at => AtMost(l.inputs, m.inputs)
  BY <1>1, <1>3, <1>4 DEF VersionsInv, VersionsOrdered
<1> QED
  BY <1>2, <1>3, <1>5 DEF VersionsOrdered

LEMMA UpdateGrows ==
  ASSUME VersionsInv, NEW a \in Actors, NewVersion(a), UNCHANGED <<live, shown>>,
         \A d \in Data : ram'[d] \in {ram[d], stored'[d]}, ram' \in [Data -> Nat],
         \A b \in Actors : call'[b].phase = "valued" => call'[b] = call[b]
  PROVE  VersionsOrdered' /\ AtMost(stored, stored') /\ AtMost(ram, ram')
<1>1. stored \in [Data -> Nat] /\ ram \in [Data -> Nat]
  BY VersionTypes DEF VersionsInv, LiveInv
<1>2. AtMost(stored, stored') /\ AtMost(ram, stored')
  BY <1>1 DEF NewVersion, AtMost, VersionsInv, VersionsOrdered
<1>3. AtMost(ram, ram') /\ AtMost(ram', stored')
  BY <1>1, <1>2 DEF AtMost, NewVersion
<1>4. Published' \subseteq Published
  BY DEF Published
<1> QED
  BY <1>2, <1>3, <1>4, NewDataKeep

\* A valuation that differs is of the newest data and later than all others.
LEMMA RecalculateGrows ==
  ASSUME VersionsInv, NEW a \in Actors, Recalculate(a)
  PROVE  VersionsOrdered' /\ AtMost(live.inputs, live'.inputs)
<1>1. /\ ram \in [Data -> Nat] /\ live \in [inputs : [Data -> Nat], at : Nat]
      /\ \A l \in Published : l \in [inputs : [Data -> Nat], at : Nat]
      /\ call \in [Actors -> Call]
  BY VersionTypes DEF VersionsInv, LiveInv, TypeOK
<1>2. UNCHANGED <<ram, stored, shown>> /\ AtMost(ram, ram)
  BY <1>1 DEF Recalculate, AtMost
<1>3. CASE live.inputs = ram
  <2>1. live' = live /\ call' = [call EXCEPT ![a] = Idle]
    BY <1>3 DEF Recalculate, Changed
  <2>2. Published' \subseteq Published
    BY <1>1, <1>2, <2>1 DEF Published, Idle
  <2> QED
    BY <1>1, <1>2, <2>1, <2>2, NewDataKeep DEF VersionsInv, VersionsOrdered
<1>4. CASE live.inputs # ram
  <2>1. /\ live' = [inputs |-> ram, at |-> live.at + 1]
        /\ call' = [call EXCEPT ![a] = [phase |-> "valued", value |-> 0, live |-> live']]
    BY <1>4 DEF Recalculate, Changed, ObservedAt
  <2>2. Published' \subseteq Published \cup {live'}
    BY <1>1, <1>2, <2>1 DEF Published
  <2>3. AtMost(live.inputs, live'.inputs) /\ AtMost(live'.inputs, live'.inputs)
    BY <1>2, <2>1 DEF VersionsInv, VersionsOrdered
  <2>4. \A l \in Published : AtMost(l.inputs, live'.inputs)
    BY <1>1, <2>1, <2>3 DEF VersionsInv, VersionsOrdered, AtMost
  <2>5. \A l \in Published : l.at < live'.at
    <3>1. \A l \in Published : l.at <= live.at
      BY DEF VersionsInv, LiveInv, LiveOrdered, NotNewer, Published
    <3> QED
      BY <1>1, <2>1, <3>1
  <2>6. \A l, m \in Published \cup {live'} : l.at < m.at => AtMost(l.inputs, m.inputs)
    BY <1>1, <2>1, <2>4, <2>5 DEF VersionsInv, VersionsOrdered
  <2> QED
    BY <1>2, <2>1, <2>2, <2>3, <2>4, <2>6 DEF VersionsInv, VersionsOrdered
<1> QED
  BY <1>3, <1>4

LEMMA AnnounceLiveGrows ==
  ASSUME VersionsInv, NEW a \in Actors, AnnounceLive(a)
  PROVE  VersionsOrdered' /\ AtMost(shown.latest.inputs, shown'.latest.inputs)
<1>1. /\ ram \in [Data -> Nat] /\ live \in [inputs : [Data -> Nat], at : Nat]
      /\ \A l \in Published : l \in [inputs : [Data -> Nat], at : Nat]
      /\ shown.latest \in Published /\ call \in [Actors -> Call]
  BY VersionTypes DEF VersionsInv, LiveInv, TypeOK
<1>2. /\ UNCHANGED <<stored, ram, live>> /\ call[a].live \in Published
      /\ call' = [call EXCEPT ![a] = Idle]
      /\ shown'.latest = IF call[a].live.at > shown.latest.at
                         THEN call[a].live ELSE shown.latest
  BY DEF AnnounceLive, Published, VersionsInv, LiveInv, TypeOK
<1>3. Published' \subseteq Published
  BY <1>1, <1>2 DEF Published, Idle
<1>4. AtMost(shown.latest.inputs, shown.latest.inputs) /\ AtMost(ram, ram)
  BY <1>1 DEF AtMost
<1>5. shown.latest.at < call[a].live.at => AtMost(shown.latest.inputs, call[a].live.inputs)
  BY <1>1, <1>2 DEF VersionsInv, VersionsOrdered
<1>6. AtMost(shown.latest.inputs, shown'.latest.inputs)
  BY <1>1, <1>2, <1>4, <1>5
<1>7. VersionsOrdered'
  BY <1>1, <1>2, <1>3, <1>4, NewDataKeep DEF VersionsInv, VersionsOrdered
<1> QED
  BY <1>6, <1>7

LEMMA NextVersions ==
  ASSUME VersionsInv, [Next]_vars
  PROVE  /\ VersionsOrdered'
         /\ AtMost(stored, stored') /\ AtMost(ram, ram')
         /\ AtMost(live.inputs, live'.inputs)
         /\ AtMost(shown.latest.inputs, shown'.latest.inputs)
<1> USE DEF VersionsInv
<1>1. /\ stored \in [Data -> Nat] /\ ram \in [Data -> Nat]
      /\ live \in [inputs : [Data -> Nat], at : Nat]
      /\ \A l \in Published : l \in [inputs : [Data -> Nat], at : Nat]
      /\ shown.latest \in Published
      /\ call \in [Actors -> Call]
      /\ ram' \in [Data -> Nat]
  <2>1. TypeOK /\ TypeOK'
    BY NextTypeOK DEF LiveInv
  <2>2. ram' \in [Data -> Nat]
    BY <2>1, MaxVersionAssumption DEF TypeOK, Inputs, Version
  <2> QED
    BY <2>1, <2>2, VersionTypes DEF TypeOK
<1>2. /\ AtMost(stored, stored) /\ AtMost(ram, ram) /\ AtMost(live.inputs, live.inputs)
      /\ AtMost(shown.latest.inputs, shown.latest.inputs)
  BY <1>1 DEF AtMost
<1>3. ASSUME NEW a \in Actors, Update(a) \/ UpdateUnacked(a)
      PROVE  VersionsOrdered' /\ AtMost(stored, stored') /\ AtMost(ram, ram')
             /\ UNCHANGED <<live, shown>>
  <2>1. NewVersion(a) /\ UNCHANGED <<live, shown>>
    BY <1>3 DEF Update, UpdateUnacked
  <2>2. \A d \in Data : ram'[d] \in {ram[d], stored'[d]}
    BY <1>3 DEF Update, UpdateUnacked
  <2>3. \A b \in Actors : call'[b].phase = "valued" => call'[b] = call[b]
    BY <1>1, <1>3 DEF Update, UpdateUnacked, Call
  <2> QED
    BY <1>1, <2>1, <2>2, <2>3, UpdateGrows
<1>4. ASSUME UNCHANGED <<live, stored, shown.latest>>, AtMost(ram, ram'), AtMost(ram', stored),
             \A b \in Actors : call'[b].phase = "valued" => call'[b] = call[b]
      PROVE  VersionsOrdered'
  <2>1. Published' \subseteq Published
    BY <1>4 DEF Published
  <2> QED
    BY <1>1, <1>4, <2>1, NewDataKeep
<1>5. CASE HistoryChanged
  <2>1. UNCHANGED <<stored, live, call, shown>>
    BY <1>5 DEF HistoryChanged
  <2>2. AtMost(ram, ram') /\ AtMost(ram', stored)
    BY <1>1, <1>5 DEF HistoryChanged, AtMost, VersionsOrdered
  <2> QED
    BY <1>2, <1>4, <2>1, <2>2
<1>6. ASSUME NEW a \in Actors, Announce(a) \/ RecalculateFails(a)
      PROVE  VersionsOrdered' /\ UNCHANGED <<stored, ram, live, shown.latest>>
  <2>1. UNCHANGED <<stored, ram, live, shown.latest>>
    BY <1>6 DEF Announce, RecalculateFails, LiveInv, TypeOK
  <2>2. \A b \in Actors : call'[b].phase = "valued" => call'[b] = call[b]
    BY <1>1, <1>6 DEF Announce, RecalculateFails, Idle
  <2> QED
    BY <1>2, <1>4, <2>1, <2>2 DEF VersionsOrdered
<1>7. ASSUME NEW a \in Actors, Recalculate(a)
      PROVE  /\ VersionsOrdered' /\ AtMost(live.inputs, live'.inputs)
             /\ UNCHANGED <<stored, ram, shown>>
  BY <1>7, RecalculateGrows DEF Recalculate
<1>8. ASSUME NEW a \in Actors, AnnounceLive(a)
      PROVE  /\ VersionsOrdered' /\ AtMost(shown.latest.inputs, shown'.latest.inputs)
             /\ UNCHANGED <<stored, ram, live>>
  BY <1>8, AnnounceLiveGrows DEF AnnounceLive
<1>9. CASE ViewerLoads
  <2>1. UNCHANGED <<stored, ram, live, call>> /\ shown'.latest = live
    BY <1>9 DEF ViewerLoads, ShowAll
  <2>2. Published' \subseteq Published \cup {live}
    BY <2>1 DEF Published
  <2>3. AtMost(shown.latest.inputs, shown'.latest.inputs)
    BY <1>1, <2>1 DEF VersionsOrdered
  <2>4. VersionsOrdered'
    BY <1>1, <1>2, <2>1, <2>2, NewDataKeep DEF VersionsOrdered
  <2> QED
    BY <1>2, <2>1, <2>3, <2>4
<1>10. CASE Restart
  <2>1. /\ stored' = stored /\ ram' = stored /\ live' = [inputs |-> stored, at |-> 0]
        /\ shown'.latest = live' /\ call' = [b \in Actors |-> Idle]
    BY <1>10 DEF Restart, ShowAll
  <2>2. Published' = {live'}
    BY <2>1 DEF Published, Idle
  <2>3. VersionsOrdered'
    BY <1>2, <2>1, <2>2 DEF VersionsOrdered
  <2>4. AtMost(ram, stored) /\ AtMost(live.inputs, stored)
    BY <1>1 DEF VersionsOrdered, AtMost
  <2>5. AtMost(shown.latest.inputs, stored)
    BY <1>1, <2>4 DEF VersionsOrdered, AtMost
  <2> QED
    BY <1>2, <2>1, <2>3, <2>4, <2>5
<1>11. CASE UNCHANGED vars
  BY <1>2, <1>11 DEF vars, VersionsOrdered, Published
<1> QED
  BY <1>2, <1>3, <1>5, <1>6, <1>7, <1>8, <1>9, <1>10, <1>11 DEF Next, Step

\* For any number of jobs: however their events overtake each other, a viewer
\* who compares ObservedAt never shows a valuation of older data than before.
THEOREM VersionsAlwaysGrow == Spec => VersionsGrow
<1>1. Init => VersionsInv
  <2> SUFFICES ASSUME Init PROVE VersionsInv
    OBVIOUS
  <2>1. TypeOK /\ LiveInv
    BY InitTypeOK, InitLive DEF LiveInv
  <2>2. \A l \in Published : l = live
    BY DEF Init, Published, Idle
  <2>3. live.inputs = stored /\ ram = stored
    BY DEF Init, NoLive
  <2>4. AtMost(stored, stored)
    BY <2>1, VersionTypes DEF AtMost
  <2> QED
    BY <2>1, <2>2, <2>3, <2>4 DEF VersionsInv, VersionsOrdered
<1>2. VersionsInv /\ [Next]_vars => VersionsInv'
  BY NextVersions, NextLive DEF VersionsInv
<1>3. VersionsInv /\ [Next]_vars =>
        [/\ AtMost(stored, stored')
         /\ AtMost(ram, ram')
         /\ AtMost(live.inputs, live'.inputs)
         /\ AtMost(shown.latest.inputs, shown'.latest.inputs)]_vars
  BY NextVersions
<1> QED
  BY <1>1, <1>2, <1>3, PTL DEF Spec, VersionsGrow

\* The steps that are left to the run or request of an actor that updated RAM.
CallLeft(a) ==
  CASE call[a].phase = "updated" -> 3
    [] call[a].phase = "announced" -> 2
    [] call[a].phase = "valued" -> 1
    [] OTHER -> 0

\* A step of an actor that has updated RAM leaves it fewer steps, and the others
\* leave it no more than it had.
EventsShorten ==
  [][\A a \in Actors : CallLeft(a) > 0 =>
       /\ CallLeft(a)' <= CallLeft(a)
       /\ Step(a) => CallLeft(a)' < CallLeft(a)]_vars

LEMMA EventShortens ==
  ASSUME TypeOK, [Next]_vars, NEW a \in Actors, CallLeft(a) > 0
  PROVE  /\ CallLeft(a)' <= CallLeft(a)
         /\ Step(a) => CallLeft(a)' < CallLeft(a)
<1>1. CallLeft(a) \in Nat /\ CallLeft(a)' \in Nat
      /\ call[a].phase \in {"updated", "announced", "valued"}
  BY DEF CallLeft
<1>2. CASE Step(a)
  <2>1. /\ call[a].phase = "updated" => call'[a].phase = "announced"
        /\ call[a].phase = "announced" => call'[a].phase \in {"valued", "idle"}
        /\ call[a].phase = "valued" => call'[a].phase = "idle"
    BY <1>2 DEF Step, Announce, Recalculate, RecalculateFails, AnnounceLive, Recalculates, Idle,
                TypeOK
  <2>2. CallLeft(a)' < CallLeft(a)
    BY <1>1, <2>1 DEF CallLeft
  <2> QED
    BY <1>1, <2>2
<1>3. CASE call'[a] = call[a]
  <2>1. CallLeft(a)' = CallLeft(a) /\ ~Step(a)
    BY <1>1, <1>3 DEF CallLeft, Step, Announce, Recalculate, RecalculateFails, AnnounceLive,
                      Recalculates, Idle, TypeOK
  <2> QED
    BY <1>1, <2>1
<1>4. CASE Restart
  <2>1. CallLeft(a)' = 0
    BY <1>4 DEF Restart, Idle, CallLeft
  <2> QED
    BY <1>1, <2>1
<1>5. ASSUME NEW b \in Actors, Update(b) \/ UpdateUnacked(b) \/ Step(b), ~Step(a)
      PROVE  call'[a] = call[a]
  BY <1>1, <1>5 DEF Update, UpdateUnacked, NewVersion, Step, Announce, Recalculate,
                    RecalculateFails, AnnounceLive, TypeOK
<1>6. CASE HistoryChanged \/ ViewerLoads \/ UNCHANGED vars
  BY <1>3, <1>6 DEF HistoryChanged, ViewerLoads, vars
<1> QED
  BY <1>2, <1>3, <1>4, <1>5, <1>6 DEF Next

\* For any number of actors: once RAM is updated, the events of the change are
\* three steps away at most, and none of them is ever added.
THEOREM EventsAlwaysShorten == Spec => EventsShorten
<1>1. TypeOK /\ [Next]_vars =>
        [\A a \in Actors : CallLeft(a) > 0 =>
           /\ CallLeft(a)' <= CallLeft(a)
           /\ Step(a) => CallLeft(a)' < CallLeft(a)]_vars
  BY EventShortens
<1> QED
  BY <1>1, TypeCorrect, PTL DEF Spec, EventsShorten

-----------------------------------------------------------------------------
(* The life of the process. *)

\* Nothing runs before the state is loaded.
Loading ==
  main = "loading" => pool /\ hub /\ ~cron /\ ~accepting /\ \A w \in Life!Workers : lifeRun[w] = "idle"

\* Scheduled runs are over before the hub and the pool are closed.
ClosedLast == ~pool \/ ~hub => Life!CronDone

ClosedAtEnd ==
  /\ main = "closing" => ~pool
  /\ ~Life!Alive => \A w \in Life!Workers : lifeRun[w] = "idle"

\* A row says "running" while its run goes on, unless the database refused its
\* end or created it without saying so.
RowsFollowRuns ==
  main # "killed" =>
    \A w \in Scheduled : w \notin failed /\ lifeRow[w] = "running" =>
      lifeRun[w] \in {"working", "querying", "ending", "storing"}

LifeInv ==
  /\ Life!TypeOK
  /\ Loading
  /\ ClosedLast
  /\ ClosedAtEnd
  /\ RowsFollowRuns
  /\ unheard \cap Scheduled = {}

LEMMA InitLifeInv == ASSUME Life!PartsAssumption PROVE Life!Init => LifeInv
<1> SUFFICES ASSUME Life!Init PROVE LifeInv
  OBVIOUS
<1>1. Life!TypeOK
  <2>1. loaded \in 0..Len(MCParts)
    BY DEF Life!Init, Life!PartsAssumption
  <2>2. {signalled, accepting, cron, hub, pool} \subseteq BOOLEAN
    BY DEF Life!Init
  <2> QED
    BY <2>1, <2>2 DEF Life!Init, Life!TypeOK, Life!MainPhase, Life!Phase
<1>2. Loading /\ ClosedLast /\ ClosedAtEnd /\ RowsFollowRuns
  BY DEF Life!Init, Loading, ClosedLast, Life!CronDone, ClosedAtEnd, Life!Alive, RowsFollowRuns, Life!Workers
<1> QED
  BY <1>1, <1>2 DEF Life!Init, LifeInv

\* main starts what it starts while nothing runs, and closes what it closes
\* after it has waited for cron.
LEMMA StartKeeps ==
  ASSUME Life!PartsAssumption, LifeInv, Life!LoadPart \/ Life!StartFails \/ Life!StartCron \/ Life!Serve
  PROVE  LifeInv'
<1> USE DEF LifeInv
<1>1. UNCHANGED <<signalled, hub, lifeRun, lifeRow, failed, unheard>>
  BY DEF Life!runVars, Life!rowVars, Life!LoadPart, Life!StartFails, Life!StartCron, Life!Serve
<1>2. Life!TypeOK'
  <2>1. main' \in Life!MainPhase /\ loaded' \in 0..Len(MCParts)
    BY DEF Life!TypeOK, Life!MainPhase, Life!PartsAssumption, Life!LoadPart, Life!StartFails, Life!StartCron, Life!Serve
  <2>2. {signalled', accepting', cron', hub', pool'} \subseteq BOOLEAN
    BY DEF Life!TypeOK, Life!LoadPart, Life!StartFails, Life!StartCron, Life!Serve
  <2> QED
    BY <1>1, <2>1, <2>2 DEF Life!TypeOK
<1>3. Loading' /\ ClosedLast' /\ ClosedAtEnd' /\ RowsFollowRuns'
  BY DEF Loading, ClosedLast, ClosedAtEnd, RowsFollowRuns, Life!CronDone, Life!Alive, Life!Workers,
         Life!runVars, Life!rowVars, Life!LoadPart, Life!StartFails, Life!StartCron, Life!Serve
<1> QED
  BY <1>1, <1>2, <1>3

LEMMA StopKeeps ==
  ASSUME LifeInv,
         \/ Life!Shutdown \/ Life!ServeReturns \/ Life!ServeFails
         \/ Life!StopCron \/ Life!CloseHub \/ Life!ClosePool
  PROVE  LifeInv'
<1> USE DEF LifeInv, Life!runVars, Life!rowVars, Life!Shutdown, Life!ServeReturns, Life!ServeFails,
            Life!StopCron, Life!CloseHub, Life!ClosePool
<1>1. UNCHANGED <<loaded, signalled, lifeRun, lifeRow, failed, unheard>>
  OBVIOUS
<1>2. Life!TypeOK'
  <2>1. main' \in Life!MainPhase
    BY DEF Life!TypeOK, Life!MainPhase
  <2>2. {signalled', accepting', cron', hub', pool'} \subseteq BOOLEAN
    BY DEF Life!TypeOK
  <2> QED
    BY <1>1, <2>1, <2>2 DEF Life!TypeOK
<1>3. Loading' /\ ClosedLast' /\ ClosedAtEnd' /\ RowsFollowRuns'
  BY DEF Loading, ClosedLast, ClosedAtEnd, RowsFollowRuns, Life!CronDone, Life!HubMayClose, Life!Alive
<1> QED
  BY <1>1, <1>2, <1>3

\* When the process ends by itself, the scheduled runs are over and their rows
\* with them.
LEMMA EndKeeps ==
  ASSUME LifeInv, Life!Exit \/ Life!Kill
  PROVE  LifeInv'
<1> USE DEF LifeInv
<1>1. /\ UNCHANGED <<loaded, signalled, accepting, cron, hub, pool, lifeRow, failed, unheard>>
      /\ lifeRun' = [w \in Life!Workers |-> "idle"]
      /\ main' \in {"exited", "killed"}
      /\ main' = "exited" => main = "closing"
  BY DEF Life!Exit, Life!Kill, Life!Alive, Life!rowVars
<1>2. Life!TypeOK'
  BY <1>1 DEF Life!TypeOK, Life!MainPhase, Life!Phase
<1>3. RowsFollowRuns'
  BY <1>1 DEF RowsFollowRuns, ClosedAtEnd, ClosedLast, Life!CronDone
<1>4. Loading' /\ ClosedLast' /\ ClosedAtEnd'
  BY <1>1 DEF Loading, ClosedLast, ClosedAtEnd, Life!CronDone, Life!Alive, Life!Workers
<1> QED
  BY <1>1, <1>2, <1>3, <1>4

\* A run is asked for before cron stops, if it is a scheduled one, and has no
\* row until the database has created it.
LEMMA EnterKeeps ==
  ASSUME Life!WorkersAssumption, LifeInv, NEW w \in Life!Workers, Life!Begin(w) \/ Life!Enter(w)
  PROVE  LifeInv'
<1> USE DEF LifeInv
<1>1. /\ UNCHANGED <<main, loaded, signalled, accepting, cron, hub, pool, lifeRow, failed, unheard>>
      /\ \E p \in {"idle", "begun", "creating"} : lifeRun' = [lifeRun EXCEPT ![w] = p]
      /\ lifeRun[w] \in {"idle", "begun"}
  BY DEF Life!Begin, Life!Enter, Life!Create, Life!Refused, Life!mainVars, Life!rowVars
<1>2. PICK p \in {"idle", "begun", "creating"} : lifeRun' = [lifeRun EXCEPT ![w] = p]
  BY <1>1
<1>3. Life!Alive /\ main # "loading" /\ (w \in Scheduled => ~Life!CronDone)
  <2>1. CASE Life!Begin(w)
    BY <2>1 DEF Life!Begin, Life!MayBegin, Loading, Life!CronDone
  <2>2. CASE Life!Enter(w)
    <3>1. lifeRun[w] = "begun"
      BY <2>2 DEF Life!Enter, Life!Create, Life!Refused
    <3> QED
      BY <3>1 DEF Loading, ClosedAtEnd, Life!CronDone
  <2> QED
    BY <2>1, <2>2
<1>4. Life!TypeOK'
  BY <1>1, <1>2 DEF Life!TypeOK, Life!Phase
<1>5. RowsFollowRuns'
  BY <1>1, <1>2 DEF RowsFollowRuns, Life!TypeOK, Life!Workers
<1>6. Loading' /\ ClosedLast' /\ ClosedAtEnd'
  BY <1>1, <1>2, <1>3 DEF Loading, ClosedLast, ClosedAtEnd, Life!CronDone, Life!Alive, Life!TypeOK, Life!Workers
<1> QED
  BY <1>1, <1>4, <1>5, <1>6

\* A run gets a row and keeps it, or ends it, or the database failed.
LEMMA StepKeeps ==
  ASSUME LifeInv, NEW w \in Life!Workers, Life!Step(w)
  PROVE  LifeInv'
<1> USE DEF LifeInv, Life!mainVars, Life!rowVars
<1> DEFINE Kept == /\ UNCHANGED <<main, loaded, signalled, accepting, cron, hub, pool>>
                   /\ lifeRun[w] # "idle"
                   /\ lifeRun' \in [Life!Workers -> Life!Phase]
                   /\ lifeRow' \in [Life!Workers -> {"none", "running", "finished"}]
                   /\ failed' \in SUBSET Life!Workers
                   /\ \A v \in Life!Workers \ {w} : /\ lifeRun'[v] = lifeRun[v]
                                                    /\ lifeRow'[v] = lifeRow[v]
                                                    /\ v \in failed' <=> v \in failed
<1>1. Kept
  <2>1. CASE Life!Created(w) \/ Life!CreateFails(w)
    BY <2>1 DEF Life!TypeOK, Life!Phase, Life!Created, Life!CreateFails
  <2>2. CASE Life!Query(w) \/ Life!QueryEnds(w) \/ Life!JobEnds(w) \/ Life!Store(w)
    BY <2>2 DEF Life!TypeOK, Life!Phase, Life!Ending, Life!Query, Life!QueryEnds, Life!JobEnds, Life!Store
  <2>3. CASE Life!Stored(w) \/ Life!Announce(w)
    BY <2>3 DEF Life!TypeOK, Life!Phase, Life!Stored, Life!Announce
  <2> QED
    BY <2>1, <2>2, <2>3 DEF Life!Step
<1>2. w \in Scheduled => pool /\ hub
  BY <1>1 DEF ClosedLast, Life!CronDone
<1>3. unheard' \in SUBSET Life!Workers /\ unheard' \cap Scheduled = {}
  BY <1>2 DEF Life!TypeOK, Life!Step, Life!Created, Life!CreateFails, Life!Query, Life!QueryEnds,
              Life!JobEnds, Life!Store, Life!Stored, Life!Announce
<1>4. w \in Scheduled /\ w \notin failed' /\ lifeRow'[w] = "running" =>
        main = "killed" \/ lifeRun'[w] \in {"working", "querying", "ending", "storing"}
  <2>1. CASE Life!Created(w) \/ Life!Query(w) \/ Life!QueryEnds(w) \/ Life!JobEnds(w)
    BY <2>1 DEF Life!Created, Life!Query, Life!QueryEnds, Life!JobEnds, Life!TypeOK
  <2>2. CASE Life!CreateFails(w)
    BY <2>2 DEF Life!CreateFails, Life!TypeOK, RowsFollowRuns
  <2>3. CASE Life!Store(w)
    BY <1>2, <2>3 DEF Life!Store, Life!Ending, Life!TypeOK
  <2>4. CASE Life!Stored(w)
    BY <2>4 DEF Life!Stored, Life!TypeOK
  <2>5. CASE Life!Announce(w)
    BY <2>5 DEF Life!Announce, RowsFollowRuns
  <2> QED
    BY <2>1, <2>2, <2>3, <2>4, <2>5 DEF Life!Step
<1>5. Life!TypeOK'
  BY <1>1, <1>3 DEF Life!TypeOK
<1>6. RowsFollowRuns'
  BY <1>1, <1>4 DEF RowsFollowRuns, Life!Workers
<1>7. Loading' /\ ClosedLast' /\ ClosedAtEnd'
  BY <1>1, <1>2 DEF Loading, ClosedLast, ClosedAtEnd, Life!CronDone, Life!Alive, Life!Workers
<1> QED
  BY <1>3, <1>5, <1>6, <1>7

LEMMA NextLifeInv ==
  ASSUME Life!WorkersAssumption, Life!PartsAssumption
  PROVE  LifeInv /\ [Life!Next]_(Life!vars) => LifeInv'
<1> SUFFICES ASSUME LifeInv, [Life!Next]_(Life!vars) PROVE LifeInv'
  OBVIOUS
<1>1. CASE Life!Signal \/ UNCHANGED Life!vars
  <2>1. UNCHANGED <<main, loaded, accepting, cron, hub, pool, lifeRun, lifeRow, failed, unheard>>
        /\ (signalled' = TRUE \/ UNCHANGED signalled)
    BY <1>1 DEF Life!Signal, Life!vars, Life!mainVars, Life!runVars, Life!rowVars
  <2>2. {signalled', accepting', cron', hub', pool'} \subseteq BOOLEAN
    BY <2>1 DEF LifeInv, Life!TypeOK
  <2>3. Life!TypeOK'
    BY <2>1, <2>2 DEF LifeInv, Life!TypeOK
  <2>4. Loading' /\ ClosedLast' /\ ClosedAtEnd' /\ RowsFollowRuns'
    BY <2>1 DEF LifeInv, Loading, ClosedLast, ClosedAtEnd, RowsFollowRuns, Life!CronDone, Life!Alive
  <2> QED
    BY <2>1, <2>3, <2>4 DEF LifeInv
<1>2. CASE Life!Main \/ Life!Shutdown \/ Life!ServeFails
  BY <1>2, StartKeeps, StopKeeps, EndKeeps DEF Life!Main
<1>3. CASE Life!Kill
  BY <1>3, EndKeeps
<1>4. ASSUME NEW w \in Life!Workers, Life!Begin(w) \/ Life!Enter(w) \/ Life!Step(w) PROVE LifeInv'
  BY <1>4, EnterKeeps, StepKeeps
<1> QED
  BY <1>1, <1>2, <1>3, <1>4 DEF Life!Next

LEMMA LifeAlways == Life!Init /\ [][Life!Next]_(Life!vars) => []LifeInv
<1>1. Life!Init => LifeInv
  BY LifeAssumption, InitLifeInv DEF LifeAssumption
<1>2. LifeInv /\ [Life!Next]_(Life!vars) => LifeInv'
  BY LifeAssumption, NextLifeInv DEF LifeAssumption
<1> QED
  BY <1>1, <1>2, PTL

-----------------------------------------------------------------------------
(* What is left of the process when it is told to stop. *)

\* The steps that are left to main.
MainLeft ==
  CASE main = "loading" -> 7 + Len(MCParts) - loaded
    [] main = "starting" -> 6
    [] main = "serving" -> 5
    [] main = "stopping" -> 2 + (IF cron THEN 1 ELSE 0) + (IF hub THEN 1 ELSE 0)
    [] main = "closing" -> 1
    [] OTHER -> 0

\* The steps that are left to a run that was asked for.
RunLeft(w) ==
  CASE lifeRun[w] = "begun" -> 7
    [] lifeRun[w] = "creating" -> 6
    [] lifeRun[w] = "working" -> 5
    [] lifeRun[w] = "querying" -> 4
    [] lifeRun[w] = "ending" -> 3
    [] lifeRun[w] = "storing" -> 2
    [] lifeRun[w] = "announcing" -> 1
    [] OTHER -> 0

\* cron starts no run any more.
WindingDown == main \in {"stopping", "closing"} /\ ~cron

\* The run has the connection that the pool waits for.
Held(w) == lifeRun[w] \in {"creating", "querying", "storing"}

\* Every step of main leaves it fewer steps, every step of a run leaves the run
\* fewer.  Once cron is stopped no scheduled run begins until the process is
\* gone.  A request that came before may begin a run even then, but a closed pool
\* gives it no connection, and who holds one gives it back with the next step.
LifeShortens ==
  [][/\ MainLeft' <= MainLeft
     /\ Life!Main => MainLeft' < MainLeft
     /\ \A w \in Life!Workers :
          /\ Life!Enter(w) \/ Life!Step(w) => RunLeft(w)' < RunLeft(w)
          /\ Held(w) /\ Life!Step(w) => ~Held(w)'
          /\ main = "closing" /\ Held(w)' => Held(w)
     /\ WindingDown => /\ WindingDown' \/ ~Life!Alive'
                       /\ \A w \in Scheduled : RunLeft(w)' <= RunLeft(w)]_(Life!vars)

LEMMA MainShortens ==
  ASSUME Life!PartsAssumption, LifeInv, Life!Main, Life!vars' # Life!vars
  PROVE  MainLeft' < MainLeft
<1>1. Len(MCParts) \in Nat /\ loaded \in 0..Len(MCParts) /\ hub \in BOOLEAN
  BY DEF LifeInv, Life!TypeOK, Life!PartsAssumption
<1>2. CASE Life!LoadPart \/ Life!StartFails \/ Life!StartCron
  BY <1>1, <1>2 DEF Life!LoadPart, Life!StartFails, Life!StartCron, MainLeft
<1>3. CASE Life!Serve \/ Life!ServeReturns \/ Life!StopCron
  BY <1>1, <1>3 DEF Life!Serve, Life!ServeReturns, Life!StopCron, MainLeft
<1>4. CASE Life!CloseHub
  <2>1. hub
    BY <1>1, <1>4 DEF Life!CloseHub, Life!vars, Life!mainVars, Life!runVars, Life!rowVars
  <2>2. main = "stopping" /\ UNCHANGED <<main, cron>> /\ ~hub'
    BY <1>4 DEF Life!CloseHub
  <2>3. /\ MainLeft = 2 + (IF cron THEN 1 ELSE 0) + 1
        /\ MainLeft' = 2 + (IF cron THEN 1 ELSE 0) + 0
    BY <2>1, <2>2 DEF MainLeft
  <2> QED
    BY <2>3
<1>5. CASE Life!ClosePool \/ Life!Exit
  BY <1>1, <1>5 DEF Life!ClosePool, Life!Exit, MainLeft
<1> QED
  BY <1>2, <1>3, <1>4, <1>5 DEF Life!Main

LEMMA RunShortens ==
  ASSUME LifeInv, NEW w \in Life!Workers, Life!Enter(w) \/ Life!Step(w)
  PROVE  RunLeft(w)' < RunLeft(w)
<1> USE DEF LifeInv, Life!TypeOK, RunLeft
<1>1. CASE Life!Enter(w) \/ Life!Created(w) \/ Life!CreateFails(w)
  BY <1>1 DEF Life!Enter, Life!Create, Life!Refused, Life!Created, Life!CreateFails
<1>2. CASE Life!Query(w) \/ Life!QueryEnds(w) \/ Life!JobEnds(w)
  BY <1>2 DEF Life!Query, Life!QueryEnds, Life!JobEnds
<1>3. CASE Life!Store(w) \/ Life!Stored(w) \/ Life!Announce(w)
  BY <1>3 DEF Life!Store, Life!Stored, Life!Announce, Life!Ending
<1> QED
  BY <1>1, <1>2, <1>3 DEF Life!Step

LEMMA HeldOnce ==
  ASSUME LifeInv, NEW w \in Life!Workers, Held(w), Life!Step(w)
  PROVE  ~Held(w)'
BY DEF LifeInv, Life!TypeOK, Held, Life!Step, Life!Created, Life!CreateFails, Life!Query,
       Life!QueryEnds, Life!JobEnds, Life!Store, Life!Stored, Life!Announce

\* Nobody touches the run of another, but the end of the process ends all.
LEMMA OthersLeave ==
  ASSUME LifeInv, Life!Next, NEW w \in Life!Workers,
         ~Life!Begin(w), ~Life!Enter(w), ~Life!Step(w)
  PROVE  lifeRun'[w] \in {"idle", lifeRun[w]}
<1>1. CASE Life!Signal \/ Life!Shutdown \/ Life!ServeFails \/ Life!Kill
  BY <1>1 DEF Life!Signal, Life!Shutdown, Life!ServeFails, Life!Kill, Life!runVars
<1>2. CASE Life!Main
  BY <1>2 DEF Life!Main, Life!LoadPart, Life!StartFails, Life!StartCron, Life!Serve,
              Life!ServeReturns, Life!StopCron, Life!CloseHub, Life!ClosePool, Life!Exit, Life!runVars
<1>3. ASSUME NEW v \in Life!Workers, Life!Begin(v) \/ Life!Enter(v)
      PROVE  lifeRun'[w] = lifeRun[w]
  BY <1>3 DEF LifeInv, Life!TypeOK, Life!Begin, Life!Enter, Life!Create, Life!Refused
<1>4. ASSUME NEW v \in Life!Workers, Life!Step(v)
      PROVE  lifeRun'[w] = lifeRun[w]
  BY <1>4 DEF LifeInv, Life!TypeOK, Life!Step, Life!Created, Life!CreateFails, Life!Query,
              Life!QueryEnds, Life!JobEnds, Life!Store, Life!Stored, Life!Announce
<1> QED
  BY <1>1, <1>2, <1>3, <1>4 DEF Life!Next

\* A run takes a connection only while there are any.
LEMMA NoneGivenOut ==
  ASSUME LifeInv, Life!Next, NEW w \in Life!Workers, main = "closing", Held(w)'
  PROVE  Held(w)
<1>1. ~pool
  BY DEF LifeInv, ClosedAtEnd
<1>2. CASE Life!Begin(w) \/ Life!Enter(w)
  BY <1>1, <1>2 DEF LifeInv, Life!TypeOK, Held, Life!Begin, Life!Enter, Life!Create, Life!Refused
<1>3. CASE Life!Step(w)
  BY <1>1, <1>3 DEF LifeInv, Life!TypeOK, Held, Life!Step, Life!Created, Life!CreateFails,
                    Life!Query, Life!QueryEnds, Life!JobEnds, Life!Store, Life!Ending,
                    Life!Stored, Life!Announce
<1>4. CASE ~Life!Begin(w) /\ ~Life!Enter(w) /\ ~Life!Step(w)
  BY <1>4, OthersLeave DEF Held
<1> QED
  BY <1>2, <1>3, <1>4

\* What neither main does nor the end from outside leaves main where it is, or
\* serving has failed.
LEMMA MainUntouched ==
  ASSUME ~Life!Main, ~Life!Kill, Life!Next
  PROVE  UNCHANGED <<main, loaded, cron, hub>> \/ Life!ServeFails
BY DEF Life!Next, Life!mainVars, Life!Signal, Life!Shutdown, Life!Begin, Life!Enter, Life!Create,
       Life!Refused, Life!Step, Life!Created, Life!CreateFails, Life!Query, Life!QueryEnds,
       Life!JobEnds, Life!Store, Life!Stored, Life!Announce

LEMMA MainNeverLonger ==
  ASSUME Life!PartsAssumption, LifeInv, Life!Next, Life!vars' # Life!vars
  PROVE  MainLeft' <= MainLeft
<1>1. Len(MCParts) \in Nat /\ loaded \in 0..Len(MCParts)
  BY DEF LifeInv, Life!TypeOK, Life!PartsAssumption
<1>2. MainLeft \in Nat
  BY <1>1 DEF MainLeft
<1>3. CASE Life!Main
  <2>1. MainLeft' \in Nat
    BY <1>1, <1>3 DEF MainLeft, Life!Main, Life!LoadPart, Life!StartFails, Life!StartCron,
                      Life!Serve, Life!ServeReturns, Life!StopCron, Life!CloseHub,
                      Life!ClosePool, Life!Exit
  <2> QED
    BY <1>2, <1>3, <2>1, MainShortens
<1>4. CASE Life!Kill
  <2>1. MainLeft' = 0
    BY <1>4 DEF Life!Kill, MainLeft
  <2> QED
    BY <1>2, <2>1
<1>5. CASE Life!ServeFails
  BY <1>5 DEF Life!ServeFails, MainLeft
<1>6. CASE UNCHANGED <<main, loaded, cron, hub>>
  <2>1. MainLeft' = MainLeft
    BY <1>6 DEF MainLeft
  <2> QED
    BY <1>2, <2>1
<1> QED
  BY <1>3, <1>4, <1>5, <1>6, MainUntouched

LEMMA WindsDown ==
  ASSUME LifeInv, Life!Next, WindingDown
  PROVE  /\ WindingDown' \/ ~Life!Alive'
         /\ \A w \in Scheduled : RunLeft(w)' <= RunLeft(w)
<1>1. WindingDown' \/ ~Life!Alive'
  <2>1. CASE Life!Main \/ Life!Kill \/ Life!ServeFails
    BY <2>1 DEF WindingDown, Life!Alive, Life!Kill, Life!ServeFails, Life!Main, Life!LoadPart,
                Life!StartFails, Life!StartCron, Life!Serve, Life!ServeReturns, Life!StopCron,
                Life!CloseHub, Life!ClosePool, Life!Exit
  <2>2. CASE UNCHANGED <<main, loaded, cron, hub>>
    BY <2>2 DEF WindingDown
  <2> QED
    BY <2>1, <2>2, MainUntouched
<1>2. ASSUME NEW w \in Scheduled PROVE RunLeft(w)' <= RunLeft(w)
  <2>1. w \in Life!Workers /\ ~Life!Begin(w)
    BY DEF WindingDown, Life!Workers, Life!Begin, Life!MayBegin
  <2>2. RunLeft(w) \in Nat /\ RunLeft(w)' \in Nat
    BY DEF RunLeft
  <2>3. CASE Life!Enter(w) \/ Life!Step(w)
    BY <2>1, <2>2, <2>3, RunShortens
  <2>4. CASE lifeRun'[w] = "idle"
    <3>1. RunLeft(w)' = 0
      BY <2>4 DEF RunLeft
    <3> QED
      BY <2>2, <3>1
  <2>5. CASE lifeRun'[w] = lifeRun[w]
    <3>1. RunLeft(w)' = RunLeft(w)
      BY <2>5 DEF RunLeft
    <3> QED
      BY <2>2, <3>1
  <2> QED
    BY <2>1, <2>3, <2>4, <2>5, OthersLeave
<1> QED
  BY <1>1, <1>2

-----------------------------------------------------------------------------
(* Both, as they are put together. *)

LEMMA LifeRuns == ProgressSteps => Life!Init /\ [][Life!Next]_(Life!vars)
<1>1. ProgressInit => Life!Init
  BY DEF ProgressInit
<1>2. [ProgressNext]_progressVars => [Life!Next]_(Life!vars)
  BY DEF ProgressNext, progressVars, lifeVars, Life!vars, Life!mainVars, Life!runVars, Life!rowVars
<1> QED
  BY <1>1, <1>2, PTL DEF ProgressSteps

LEMMA EventsRun == ProgressSteps => Spec
<1>1. ProgressInit => Init
  BY DEF ProgressInit
<1>2. [ProgressNext]_progressVars => [Next]_vars
  BY DEF ProgressNext, progressVars
<1> QED
  BY <1>1, <1>2, PTL DEF ProgressSteps, Spec

\* For any number of jobs and requests: a process that ends by itself leaves no
\* scheduled run in "running" unless the database refused its end or reported
\* the creation of its row as failed, and publishes every end of one before the
\* hub is closed.
THEOREM ScheduledRunsAlwaysEnd == ProgressSpec => []ScheduledRunsEnd
<1>1. LifeInv => ScheduledRunsEnd
  BY DEF LifeInv, ScheduledRunsEnd, Life!ScheduledRunsEnd, RowsFollowRuns, ClosedAtEnd,
         Life!Alive, Life!Workers
<1> QED
  BY <1>1, LifeRuns, LifeAlways, PTL DEF ProgressSpec

\* The parts of the process keep their types.
THEOREM LifeTypeCorrect == ProgressSpec => []Life!TypeOK
<1>1. LifeInv => Life!TypeOK
  BY DEF LifeInv
<1> QED
  BY <1>1, LifeRuns, LifeAlways, PTL DEF ProgressSpec

\* The fairness that is assumed of the parts takes nothing from the theorems
\* about the events.
THEOREM EventsAlwaysShown == ProgressSpec => [](DataShownUnlessOvertaken /\ LiveShown)
BY EventsRun, DataAlwaysShown, LiveAlwaysShown, PTL DEF ProgressSpec

\* For any number of jobs, requests and parts: main has so many steps left and
\* so has each run, nobody adds any to main, and once cron is stopped nobody
\* keeps main from them for ever: scheduled runs only come nearer to their end,
\* and a request that came before Shutdown, which may still begin a run, gets no
\* connection from the closed pool.
THEOREM LifeAlwaysShortens == ProgressSpec => LifeShortens
<1> DEFINE Shorter ==
      /\ MainLeft' <= MainLeft
      /\ Life!Main => MainLeft' < MainLeft
      /\ \A w \in Life!Workers :
           /\ Life!Enter(w) \/ Life!Step(w) => RunLeft(w)' < RunLeft(w)
           /\ Held(w) /\ Life!Step(w) => ~Held(w)'
           /\ main = "closing" /\ Held(w)' => Held(w)
      /\ WindingDown => /\ WindingDown' \/ ~Life!Alive'
                        /\ \A w \in Scheduled : RunLeft(w)' <= RunLeft(w)
<1>1. LifeInv /\ [Life!Next]_(Life!vars) => [Shorter]_(Life!vars)
  <2> SUFFICES ASSUME LifeInv, Life!Next, Life!vars' # Life!vars PROVE Shorter
    OBVIOUS
  <2>1. Life!PartsAssumption
    BY LifeAssumption DEF LifeAssumption
  <2>2. MainLeft' <= MainLeft
    BY <2>1, MainNeverLonger
  <2>3. Life!Main => MainLeft' < MainLeft
    BY <2>1, MainShortens
  <2>4. ASSUME NEW w \in Life!Workers
        PROVE  /\ Life!Enter(w) \/ Life!Step(w) => RunLeft(w)' < RunLeft(w)
               /\ Held(w) /\ Life!Step(w) => ~Held(w)'
               /\ main = "closing" /\ Held(w)' => Held(w)
    BY RunShortens, HeldOnce, NoneGivenOut
  <2>5. WindingDown => /\ WindingDown' \/ ~Life!Alive'
                       /\ \A w \in Scheduled : RunLeft(w)' <= RunLeft(w)
    BY WindsDown
  <2> QED
    BY <2>2, <2>3, <2>4, <2>5
<1> QED
  BY <1>1, LifeRuns, LifeAlways, PTL DEF ProgressSpec, LifeShortens
=============================================================================
