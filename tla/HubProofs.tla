----------------------------- MODULE HubProofs -----------------------------
(***************************************************************************)
(* Theorems about Hub, for any set of connections, any channel size and    *)
(* any number of events: the hub never panics, no stream has a gap, and    *)
(* the hub implements EventFeed.                                           *)
(***************************************************************************)
EXTENDS Hub, SequenceTheorems, TLAPS

Last(s) == s[Len(s)]

\* The set of clients and the open channels are changed together.
ClientsAreOpen == clients = open

\* A connection has a channel only between its registration and its end.
ClientsAreServed ==
  /\ \A c \in clients : conn[c] \in {"serving", "writing", "leaving"}
  /\ \A c \in Clients : conn[c] = "new" => received[c] = <<>>

\* What was received, the event being written and the channel join up, and
\* the channel of a registered client ends with the latest event.
Joined(c) ==
  /\ Consecutive(received[c])
  /\ conn[c] \in {"serving", "writing"} =>
       /\ Consecutive(events[c])
       /\ c \in clients /\ events[c] # <<>> => Last(events[c]) = revision
  /\ conn[c] = "serving" =>
       /\ received[c] = <<>> => events[c] # <<>>
       /\ received[c] # <<>> /\ events[c] # <<>> => events[c][1] = Last(received[c]) + 1
       /\ c \in clients /\ events[c] = <<>> => Last(received[c]) = revision
  /\ conn[c] = "writing" =>
       /\ received[c] # <<>> => writing[c] = Last(received[c]) + 1
       /\ events[c] # <<>> => events[c][1] = writing[c] + 1
       /\ c \in clients /\ events[c] = <<>> => writing[c] = revision

AllJoined == \A c \in Clients : Joined(c)

\* Nothing is owed that was not published.
OwedArePublished ==
  \A c \in Clients :
    /\ writing[c] <= revision
    /\ \A i \in 1..Len(events[c]) : events[c][i] <= revision

IInv ==
  /\ TypeOK
  /\ NeverPanics
  /\ ClientsAreOpen
  /\ ClientsAreServed
  /\ AllJoined
  /\ OwedArePublished

-----------------------------------------------------------------------------
(* Sequences of revisions. *)

LEMMA AppendConsecutive ==
  ASSUME NEW s \in Seq(Nat), NEW n \in Nat, Consecutive(s), s # <<>> => n = Last(s) + 1
  PROVE  /\ Append(s, n) \in Seq(Nat)
         /\ Append(s, n) # <<>>
         /\ Len(Append(s, n)) = Len(s) + 1
         /\ Consecutive(Append(s, n))
         /\ Last(Append(s, n)) = n
         /\ s # <<>> => Append(s, n)[1] = s[1]
         /\ s = <<>> => Append(s, n)[1] = n
<1> DEFINE t == Append(s, n)
<1>1. /\ Len(s) \in Nat /\ t \in Seq(Nat) /\ t # <<>> /\ Len(t) = Len(s) + 1
      /\ \A i \in 1..Len(s) : t[i] = s[i]
      /\ t[Len(s) + 1] = n
  BY AppendProperties, LenProperties
<1>2. s = <<>> <=> Len(s) = 0
  BY EmptySeq
<1> HIDE DEF t
<1>3. Last(t) = n
  BY <1>1 DEF Last
<1>4. Consecutive(t)
  <2> SUFFICES ASSUME NEW i \in 1..Len(s) PROVE t[i + 1] = t[i] + 1
    BY <1>1 DEF Consecutive
  <2>1. CASE i = Len(s)
    BY <1>1, <1>2, <2>1 DEF Last
  <2>2. CASE i # Len(s)
    <3>1. i \in 1..(Len(s) - 1) /\ i + 1 \in 1..Len(s)
      BY <1>1, <2>2
    <3>2. s[i + 1] = s[i] + 1
      BY <3>1 DEF Consecutive
    <3> QED
      BY <1>1, <3>1, <3>2
  <2> QED
    BY <2>1, <2>2
<1>5. (s # <<>> => t[1] = s[1]) /\ (s = <<>> => t[1] = n)
  BY <1>1, <1>2
<1> QED
  BY <1>1, <1>3, <1>4, <1>5 DEF t

LEMMA TailConsecutive ==
  ASSUME NEW s \in Seq(Nat), Consecutive(s), s # <<>>
  PROVE  /\ Tail(s) \in Seq(Nat)
         /\ Len(Tail(s)) = Len(s) - 1
         /\ Head(s) = s[1]
         /\ Head(s) \in Nat
         /\ Consecutive(Tail(s))
         /\ Tail(s) # <<>> => Tail(s)[1] = Head(s) + 1 /\ Last(Tail(s)) = Last(s)
         /\ Tail(s) = <<>> => Head(s) = Last(s)
<1> DEFINE t == Tail(s)
<1>1. /\ Len(s) \in Nat /\ Len(s) > 0
      /\ t \in Seq(Nat) /\ Len(t) = Len(s) - 1
      /\ \A i \in 1..Len(t) : t[i] = s[i + 1]
      /\ Head(s) \in Nat
  BY HeadTailProperties, EmptySeq, LenProperties
<1>2. Head(s) = s[1]
  OBVIOUS
<1>3. t = <<>> <=> Len(t) = 0
  BY <1>1, EmptySeq
<1> HIDE DEF t
<1>4. Consecutive(t)
  <2> SUFFICES ASSUME NEW i \in 1..(Len(t) - 1) PROVE t[i + 1] = t[i] + 1
    BY DEF Consecutive
  <2>1. i \in 1..Len(t) /\ i + 1 \in 1..Len(t) /\ i + 1 \in 1..(Len(s) - 1)
    BY <1>1
  <2>2. s[(i + 1) + 1] = s[i + 1] + 1
    BY <2>1 DEF Consecutive
  <2> QED
    BY <1>1, <2>1, <2>2
<1>5. ASSUME t # <<>>
      PROVE  t[1] = Head(s) + 1 /\ Last(t) = Last(s)
  <2>1. Len(t) \in 1..Len(t) /\ 1 \in 1..Len(t) /\ 1 \in 1..(Len(s) - 1)
    BY <1>1, <1>3, <1>5
  <2>2. t[1] = s[1 + 1] /\ s[1 + 1] = s[1] + 1
    BY <1>1, <2>1 DEF Consecutive
  <2>3. t[Len(t)] = s[Len(t) + 1] /\ Len(t) + 1 = Len(s)
    BY <1>1, <2>1
  <2> QED
    BY <1>2, <2>2, <2>3 DEF Last
<1>6. ASSUME t = <<>>
      PROVE  Head(s) = Last(s)
  <2>1. Len(s) = 1
    BY <1>1, <1>3, <1>6
  <2> QED
    BY <1>2, <2>1 DEF Last
<1> QED
  BY <1>1, <1>2, <1>4, <1>5, <1>6 DEF t

LEMMA OneConsecutive ==
  ASSUME NEW n \in Nat
  PROVE  /\ <<n>> \in Seq(Nat)
         /\ <<n>> # <<>>
         /\ Consecutive(<<n>>)
         /\ Last(<<n>>) = n
         /\ <<n>>[1] = n
<1>1. Len(<<n>>) = 1 /\ <<n>>[1] = n /\ <<n>> \in Seq(Nat)
  OBVIOUS
<1>2. <<n>> # <<>>
  BY <1>1, EmptySeq
<1>3. Consecutive(<<n>>)
  BY <1>1 DEF Consecutive
<1> QED
  BY <1>1, <1>2, <1>3 DEF Last

LEMMA EmptyConsecutive == Consecutive(<<>>)
<1>1. Len(<<>>) = 0
  BY EmptySeq
<1> QED
  BY <1>1 DEF Consecutive

LEMMA ConcatConsecutive ==
  ASSUME NEW s \in Seq(Nat), NEW t \in Seq(Nat), Consecutive(s), Consecutive(t), t # <<>>,
         s # <<>> => t[1] = Last(s) + 1
  PROVE  /\ s \o t \in Seq(Nat)
         /\ s \o t # <<>>
         /\ (s \o t)[Len(s \o t)] = Last(t)
         /\ Consecutive(s \o t)
         /\ s = <<>> => (s \o t)[1] = t[1]
<1> DEFINE u == s \o t
<1>1. /\ Len(s) \in Nat /\ Len(t) \in Nat /\ Len(t) > 0
      /\ u \in Seq(Nat) /\ Len(u) = Len(s) + Len(t)
      /\ \A i \in 1..Len(u) : u[i] = IF i <= Len(s) THEN s[i] ELSE t[i - Len(s)]
  BY ConcatProperties, LenProperties, EmptySeq
<1>2. s = <<>> <=> Len(s) = 0
  BY EmptySeq
<1>3. Len(u) > 0
  BY <1>1
<1> HIDE DEF u
<1>4. u # <<>>
  BY <1>1, <1>3, EmptySeq
<1>a. \A i \in 1..Len(s) : u[i] = s[i]
  BY <1>1
<1>b. ASSUME NEW i \in 1..Len(t)
      PROVE  u[Len(s) + i] = t[i]
  <2> DEFINE k == Len(s) + i
  <2>1. k \in 1..Len(u) /\ ~(k <= Len(s)) /\ k - Len(s) = i
    BY <1>1
  <2> HIDE DEF k
  <2>2. u[k] = t[k - Len(s)]
    BY <1>1, <2>1
  <2> QED
    BY <2>1, <2>2 DEF k
<1>c. Len(s) \in Nat /\ Len(t) \in Nat /\ Len(u) = Len(s) + Len(t)
  BY <1>1
<1>5. u[Len(u)] = Last(t)
  <2>1. Len(t) \in 1..Len(t)
    BY <1>1
  <2>2. u[Len(s) + Len(t)] = t[Len(t)]
    BY <1>b, <2>1
  <2> QED
    BY <1>1, <2>2 DEF Last
<1>6. Consecutive(u)
  <2> SUFFICES ASSUME NEW i \in 1..(Len(u) - 1) PROVE u[i + 1] = u[i] + 1
    BY DEF Consecutive
  <2>1. CASE i < Len(s)
    <3>1. i \in 1..(Len(s) - 1) /\ i \in 1..Len(s) /\ i + 1 \in 1..Len(s)
      BY <1>1, <2>1
    <3>2. s[i + 1] = s[i] + 1
      BY <3>1 DEF Consecutive
    <3>3. u[i] = s[i] /\ u[i + 1] = s[i + 1]
      BY <1>a, <3>1
    <3> QED
      BY <3>2, <3>3
  <2>2. CASE i = Len(s)
    <3>1. Len(s) \in 1..Len(s) /\ 1 \in 1..Len(t) /\ s # <<>>
      BY <1>1, <1>2, <2>2
    <3>2. u[Len(s)] = s[Len(s)] /\ u[Len(s) + 1] = t[1]
      BY <1>a, <1>b, <3>1
    <3> QED
      BY <2>2, <3>1, <3>2 DEF Last
  <2>3. CASE i > Len(s)
    <3> DEFINE k == i - Len(s)
    <3>a. i \in Nat /\ k \in Int /\ i = Len(s) + k /\ i < Len(s) + Len(t)
      BY <1>c
    <3>1. /\ k \in 1..(Len(t) - 1) /\ k \in 1..Len(t) /\ k + 1 \in 1..Len(t)
          /\ i = Len(s) + k /\ i + 1 = Len(s) + (k + 1)
      BY <1>c, <2>3, <3>a
    <3> HIDE DEF k
    <3>2. t[k + 1] = t[k] + 1
      BY <3>1 DEF Consecutive
    <3>3. u[Len(s) + k] = t[k] /\ u[Len(s) + (k + 1)] = t[k + 1]
      BY <1>b, <3>1
    <3> QED
      BY <3>1, <3>2, <3>3
  <2> QED
    BY <1>1, <2>1, <2>2, <2>3
<1>7. s = <<>> => u[1] = t[1]
  BY <1>1, <1>2
<1> QED
  BY <1>1, <1>4, <1>5, <1>6, <1>7 DEF u

LEMMA RevisionSequences ==
  ASSUME NEW s \in Seq(Revision)
  PROVE  s \in Seq(Nat)
BY MaxRevisionAssumption DEF Revision

-----------------------------------------------------------------------------
(* Types. *)

LEMMA TypeInit == Init => TypeOK
<1> SUFFICES ASSUME Init
             PROVE  TypeOK
  OBVIOUS
<1>1. 0 \in Revision
  BY MaxRevisionAssumption DEF Revision
<1>2. <<>> \in Seq(Revision) /\ Len(<<>>) = 0
  BY EmptySeq
<1>3. 0 <= BufferSize
  BY BufferSizeAssumption
<1> QED
  BY <1>1, <1>2, <1>3 DEF Init, TypeOK, Phase

LEMMA TypeStep == TypeOK /\ [Next]_vars => TypeOK'
<1> SUFFICES ASSUME TypeOK, [Next]_vars
             PROVE  TypeOK'
  OBVIOUS
<1> USE BufferSizeAssumption, MaxRevisionAssumption
<1>1. CASE Publish
  <2>1. revision' \in Revision /\ revision + 1 \in Revision
    BY <1>1 DEF Publish, TypeOK, Revision
  <2>2. ASSUME NEW c \in Clients
        PROVE  events'[c] \in Seq(Revision) /\ Len(events'[c]) <= BufferSize
    <3>1. CASE c \in clients /\ ~Full(c)
      <4>1. events'[c] = Append(events[c], revision + 1) /\ events[c] \in Seq(Revision)
        BY <1>1, <3>1 DEF Publish, TypeOK
      <4>2. Len(events[c]) < BufferSize /\ Len(events[c]) \in Nat
        BY <3>1, <4>1, LenProperties DEF Full
      <4> QED
        BY <2>1, <4>1, <4>2, AppendProperties
    <3>2. CASE ~(c \in clients /\ ~Full(c))
      BY <1>1, <3>2 DEF Publish, TypeOK
    <3> QED
      BY <3>1, <3>2
  <2>3. events' \in [Clients -> Seq(Revision)]
    BY <1>1, <2>2 DEF Publish
  <2> QED
    BY <1>1, <2>1, <2>2, <2>3 DEF Publish, TypeOK
<1>2. CASE Close
  BY <1>2 DEF Close, Shut, TypeOK
<1>3. ASSUME NEW c \in Clients, Register(c)
      PROVE  TypeOK'
  <2>1. <<revision>> \in Seq(Revision) /\ Len(<<revision>>) = 1 /\ 1 <= BufferSize
    BY DEF TypeOK
  <2> HIDE BufferSizeAssumption, MaxRevisionAssumption
  <2> QED
    BY <1>3, <2>1 DEF Register, HelloRevision, TypeOK, Phase
<1>4. ASSUME NEW c \in Clients, Receive(c)
      PROVE  TypeOK'
  <2>1. events[c] \in Seq(Revision) /\ events[c] # <<>> /\ Len(events[c]) <= BufferSize
    BY <1>4 DEF Receive, TypeOK
  <2>2. /\ Head(events[c]) \in Revision
        /\ Tail(events[c]) \in Seq(Revision)
        /\ Len(Tail(events[c])) <= BufferSize
    BY <2>1, HeadTailProperties, LenProperties
  <2> QED
    BY <1>4, <2>2 DEF Receive, TypeOK, Phase
<1>5. ASSUME NEW c \in Clients, SeeClosed(c)
      PROVE  TypeOK'
  BY <1>5 DEF SeeClosed, TypeOK, Phase
<1>6. ASSUME NEW c \in Clients, Write(c)
      PROVE  TypeOK'
  <2>1. Append(received[c], writing[c]) \in Seq(Revision)
    BY AppendProperties DEF TypeOK
  <2> QED
    BY <1>6, <2>1 DEF Write, TypeOK, Phase
<1>7. ASSUME NEW c \in Clients, Unregister(c)
      PROVE  TypeOK'
  BY <1>7 DEF Unregister, Shut, TypeOK, Phase
<1>8. ASSUME NEW c \in Clients, Disconnect(c)
      PROVE  TypeOK'
  BY <1>8 DEF Disconnect, TypeOK, Phase
<1>9. CASE UNCHANGED vars
  BY <1>9 DEF vars, TypeOK
<1> QED
  BY <1>1, <1>2, <1>3, <1>4, <1>5, <1>6, <1>7, <1>8, <1>9 DEF Next, Serve

-----------------------------------------------------------------------------
(* The invariant. *)

LEMMA InvariantInit == Init => IInv
<1> SUFFICES ASSUME Init
             PROVE  IInv
  OBVIOUS
<1>1. TypeOK
  BY TypeInit
<1>2. AllJoined
  BY EmptyConsecutive DEF Init, AllJoined, Joined
<1>3. OwedArePublished
  <2> SUFFICES ASSUME NEW c \in Clients
               PROVE  /\ writing[c] <= revision
                      /\ \A i \in 1..Len(events[c]) : events[c][i] <= revision
    BY DEF OwedArePublished
  <2>1. writing[c] = 0 /\ revision = 0 /\ events[c] = <<>>
    BY DEF Init
  <2>2. Len(events[c]) = 0
    BY <2>1, EmptySeq
  <2> QED
    BY <2>1, <2>2
<1> QED
  BY <1>1, <1>2, <1>3 DEF Init, IInv, NeverPanics, ClientsAreOpen, ClientsAreServed

\* The hub's mutex makes the channels of its clients the open ones.
LEMMA ClientsStep ==
  ASSUME IInv, [Next]_vars
  PROVE  NeverPanics' /\ ClientsAreOpen' /\ ClientsAreServed'
<1> USE DEF IInv, NeverPanics, ClientsAreOpen, ClientsAreServed
<1>1. CASE Publish
  BY <1>1 DEF Publish, TypeOK, Slow
<1>2. CASE Close
  BY <1>2 DEF Close, Shut, TypeOK
<1>3. ASSUME NEW c \in Clients, Register(c)
      PROVE  NeverPanics' /\ ClientsAreOpen' /\ ClientsAreServed'
  BY <1>3 DEF Register, TypeOK, Phase
<1>4. ASSUME NEW c \in Clients, Receive(c)
      PROVE  NeverPanics' /\ ClientsAreOpen' /\ ClientsAreServed'
  BY <1>4 DEF Receive, TypeOK, Phase
<1>5. ASSUME NEW c \in Clients, SeeClosed(c)
      PROVE  NeverPanics' /\ ClientsAreOpen' /\ ClientsAreServed'
  BY <1>5 DEF SeeClosed, TypeOK, Phase
<1>6. ASSUME NEW c \in Clients, Write(c)
      PROVE  NeverPanics' /\ ClientsAreOpen' /\ ClientsAreServed'
  BY <1>6 DEF Write, TypeOK, Phase
<1>7. ASSUME NEW c \in Clients, Unregister(c)
      PROVE  NeverPanics' /\ ClientsAreOpen' /\ ClientsAreServed'
  BY <1>7 DEF Unregister, Shut, Removed, TypeOK, Phase
<1>8. ASSUME NEW c \in Clients, Disconnect(c)
      PROVE  NeverPanics' /\ ClientsAreOpen' /\ ClientsAreServed'
  BY <1>8 DEF Disconnect, TypeOK, Phase
<1>9. CASE UNCHANGED vars
  BY <1>9 DEF vars
<1> QED
  BY <1>1, <1>2, <1>3, <1>4, <1>5, <1>6, <1>7, <1>8, <1>9 DEF Next, Serve

LEMMA PublishedStep ==
  ASSUME IInv, [Next]_vars
  PROVE  OwedArePublished'
<1> USE DEF IInv, OwedArePublished
<1>1. CASE Publish
  <2> SUFFICES ASSUME NEW c \in Clients
               PROVE  /\ writing'[c] <= revision'
                      /\ \A i \in 1..Len(events'[c]) : events'[c][i] <= revision'
    OBVIOUS
  <2>1. revision \in Nat /\ revision' = revision + 1 /\ writing'[c] <= revision'
    BY <1>1, MaxRevisionAssumption DEF Publish, TypeOK, Revision
  <2>2. events[c] \in Seq(Nat)
    BY RevisionSequences DEF TypeOK
  <2>3. \A i \in 1..Len(events[c]) : events[c][i] \in Nat
    BY <2>2, ElementOfSeq
  <2>4. CASE events'[c] = Append(events[c], revision + 1)
    <3> SUFFICES ASSUME NEW i \in 1..Len(events'[c])
                 PROVE  events'[c][i] <= revision'
      BY <2>1
    <3>1. /\ Len(events[c]) \in Nat /\ Len(events'[c]) = Len(events[c]) + 1
          /\ \A k \in 1..Len(events[c]) : events'[c][k] = events[c][k]
          /\ events'[c][Len(events[c]) + 1] = revision + 1
      BY <2>1, <2>2, <2>4, AppendProperties, LenProperties
    <3>2. CASE i = Len(events[c]) + 1
      BY <2>1, <3>1, <3>2
    <3>3. CASE i \in 1..Len(events[c])
      BY <2>1, <2>3, <3>1, <3>3
    <3>4. i = Len(events[c]) + 1 \/ i \in 1..Len(events[c])
      BY <3>1
    <3> QED
      BY <3>2, <3>3, <3>4
  <2>5. CASE events'[c] = events[c]
    BY <2>1, <2>3, <2>5
  <2> QED
    BY <1>1, <2>4, <2>5 DEF Publish
<1>2. CASE Close
  BY <1>2 DEF Close
<1>3. ASSUME NEW c \in Clients, Register(c)
      PROVE  OwedArePublished'
  <2> SUFFICES ASSUME NEW d \in Clients
               PROVE  /\ writing'[d] <= revision'
                      /\ \A i \in 1..Len(events'[d]) : events'[d][i] <= revision'
    OBVIOUS
  <2>1. revision' = revision /\ writing' = writing /\ revision \in Nat
    BY <1>3, MaxRevisionAssumption DEF Register, TypeOK, Revision
  <2>2. CASE events'[d] = events[d]
    BY <2>1, <2>2
  <2>3. CASE events'[d] = <<revision>>
    <3>1. Len(events'[d]) = 1 /\ events'[d][1] = revision
      BY <2>3
    <3> QED
      BY <2>1, <3>1
  <2> QED
    BY <1>3, <2>2, <2>3 DEF Register, HelloRevision, TypeOK
<1>4. ASSUME NEW c \in Clients, Receive(c)
      PROVE  OwedArePublished'
  <2>1. events[c] \in Seq(Revision) /\ events[c] # <<>>
    BY <1>4 DEF Receive, TypeOK
  <2>2. /\ Len(events[c]) \in Nat /\ Len(events[c]) > 0
        /\ Len(Tail(events[c])) = Len(events[c]) - 1
        /\ \A i \in 1..Len(Tail(events[c])) : Tail(events[c])[i] = events[c][i + 1]
        /\ Head(events[c]) = events[c][1]
    BY <2>1, HeadTailProperties, LenProperties, EmptySeq
  <2>3. Head(events[c]) <= revision
    BY <2>2
  <2>4. ASSUME NEW i \in 1..Len(Tail(events[c]))
        PROVE  Tail(events[c])[i] <= revision
    <3>1. i + 1 \in 1..Len(events[c])
      BY <2>2
    <3> QED
      BY <2>2, <3>1
  <2> QED
    BY <1>4, <2>3, <2>4 DEF Receive, TypeOK
<1>5. ASSUME NEW c \in Clients, SeeClosed(c) \/ Write(c) \/ Unregister(c) \/ Disconnect(c)
      PROVE  OwedArePublished'
  BY <1>5 DEF SeeClosed, Write, Unregister, Disconnect
<1>6. CASE UNCHANGED vars
  BY <1>6 DEF vars
<1> QED
  BY <1>1, <1>2, <1>3, <1>4, <1>5, <1>6 DEF Next, Serve

LEMMA JoinedStep ==
  ASSUME IInv, [Next]_vars
  PROVE  AllJoined'
<1> SUFFICES ASSUME NEW c \in Clients
             PROVE  Joined(c)'
  BY DEF AllJoined
<1>0. /\ Joined(c)
      /\ received[c] \in Seq(Nat) /\ events[c] \in Seq(Nat) /\ writing[c] \in Nat
      /\ revision \in Nat
  BY RevisionSequences, MaxRevisionAssumption DEF IInv, AllJoined, TypeOK, Revision
<1>1. CASE Publish
  <2>1. CASE c \in clients /\ ~Full(c)
    <3>1. /\ events'[c] = Append(events[c], revision + 1) /\ revision' = revision + 1
          /\ UNCHANGED <<conn, writing, received>>
      BY <1>1, <2>1 DEF Publish
    <3>2. CASE conn[c] \notin {"serving", "writing"}
      BY <1>0, <3>1, <3>2 DEF Joined
    <3>3. ASSUME conn[c] \in {"serving", "writing"}
          PROVE  Joined(c)'
      <4>1. Consecutive(events[c]) /\ (events[c] # <<>> => Last(events[c]) = revision)
        BY <1>0, <2>1, <3>3 DEF Joined
      <4>2. /\ events'[c] # <<>>
            /\ Consecutive(events'[c])
            /\ Last(events'[c]) = revision'
            /\ events[c] # <<>> => events'[c][1] = events[c][1]
            /\ events[c] = <<>> => events'[c][1] = revision + 1
        <5>1. events[c] # <<>> => revision + 1 = Last(events[c]) + 1
          BY <4>1
        <5>2. revision + 1 \in Nat /\ events[c] \in Seq(Nat) /\ Consecutive(events[c])
          BY <1>0, <4>1
        <5> DEFINE longer == Append(events[c], revision + 1)
        <5>3. /\ longer # <<>>
              /\ Consecutive(longer)
              /\ Last(longer) = revision + 1
              /\ events[c] # <<>> => longer[1] = events[c][1]
              /\ events[c] = <<>> => longer[1] = revision + 1
          BY <5>1, <5>2, AppendConsecutive
        <5>4. events'[c] = longer /\ revision' = revision + 1
          BY <3>1
        <5> HIDE DEF longer
        <5> QED
          BY <5>3, <5>4
      <4>3. conn' = conn /\ received' = received /\ writing' = writing
        BY <3>1
      <4>4. Consecutive(received[c]) /\ c \in clients
        BY <1>0, <2>1 DEF Joined
      <4>5. CASE conn[c] = "serving"
        <5>1. /\ received[c] = <<>> => events[c] # <<>>
              /\ received[c] # <<>> => events'[c][1] = Last(received[c]) + 1
          BY <1>0, <4>2, <4>4, <4>5 DEF Joined
        <5> QED
          BY <4>2, <4>3, <4>4, <4>5, <5>1 DEF Joined
      <4>6. CASE conn[c] = "writing"
        <5>1. /\ received[c] # <<>> => writing[c] = Last(received[c]) + 1
              /\ events'[c][1] = writing[c] + 1
          BY <1>0, <4>2, <4>4, <4>6 DEF Joined
        <5> QED
          BY <4>2, <4>3, <4>4, <4>6, <5>1 DEF Joined
      <4> QED
        BY <3>3, <4>5, <4>6
    <3> QED
      BY <3>2, <3>3
  <2>2. CASE ~(c \in clients /\ ~Full(c))
    <3>1. /\ UNCHANGED <<events[c], conn, writing, received>> /\ c \notin clients'
      BY <1>1, <2>2 DEF Publish, Slow
    <3> QED
      BY <1>0, <3>1 DEF Joined
  <2> QED
    BY <2>1, <2>2
<1>2. CASE Close
  BY <1>0, <1>2 DEF Close, Joined
<1>3. ASSUME NEW d \in Clients, Register(d)
      PROVE  Joined(c)'
  <2>1. CASE c = d
    <3>1. conn[c] = "new" /\ received[c] = <<>> /\ received' = received /\ revision' = revision
      BY <1>3, <2>1 DEF Register, IInv, ClientsAreServed
    <3>2. CASE closed
      <4>1. conn'[c] = "ended"
        BY <1>3, <2>1, <3>2 DEF Register, IInv, TypeOK
      <4> QED
        BY <3>1, <4>1, EmptyConsecutive DEF Joined
    <3>3. CASE ~closed
      <4>1. conn'[c] = "serving" /\ events'[c] = <<revision>>
        BY <1>3, <2>1, <3>3 DEF Register, HelloRevision, IInv, TypeOK
      <4>2. events'[c] # <<>> /\ Consecutive(events'[c]) /\ Last(events'[c]) = revision
        BY <1>0, <4>1, OneConsecutive
      <4> QED
        BY <3>1, <4>1, <4>2, EmptyConsecutive DEF Joined
    <3> QED
      BY <3>2, <3>3
  <2>2. CASE c # d
    BY <1>0, <1>3, <2>2 DEF Register, Joined, IInv, TypeOK
  <2> QED
    BY <2>1, <2>2
<1>4. ASSUME NEW d \in Clients, Receive(d)
      PROVE  Joined(c)'
  <2>1. CASE c = d
    <3>1. /\ conn[c] = "serving" /\ conn'[c] = "writing" /\ events[c] # <<>>
          /\ writing'[c] = Head(events[c]) /\ events'[c] = Tail(events[c])
          /\ UNCHANGED <<revision, clients, received>>
      BY <1>4, <2>1 DEF Receive, IInv, TypeOK
    <3>2. /\ Consecutive(received[c]) /\ Consecutive(events[c])
          /\ c \in clients => Last(events[c]) = revision
          /\ received[c] # <<>> => events[c][1] = Last(received[c]) + 1
      BY <1>0, <3>1 DEF Joined
    <3> DEFINE rest == Tail(events[c])
               first == Head(events[c])
    <3>3. /\ first = events[c][1]
          /\ Consecutive(rest)
          /\ rest # <<>> => rest[1] = first + 1 /\ Last(rest) = Last(events[c])
          /\ rest = <<>> => first = Last(events[c])
      BY <1>0, <3>1, <3>2, TailConsecutive
    <3>4. writing'[c] = first /\ events'[c] = rest
      BY <3>1
    <3> HIDE DEF rest, first
    <3> QED
      BY <3>1, <3>2, <3>3, <3>4 DEF Joined
  <2>2. CASE c # d
    BY <1>0, <1>4, <2>2 DEF Receive, Joined, IInv, TypeOK
  <2> QED
    BY <2>1, <2>2
<1>5. ASSUME NEW d \in Clients, Write(d)
      PROVE  Joined(c)'
  <2>1. CASE c = d
    <3>1. /\ conn[c] = "writing"
          /\ UNCHANGED <<revision, clients, events, writing>>
          /\ \/ conn'[c] = "leaving"
             \/ conn'[c] = "serving" /\ received'[c] = Append(received[c], writing[c])
          /\ \/ received'[c] = received[c]
             \/ received'[c] = Append(received[c], writing[c])
      BY <1>5, <2>1 DEF Write, IInv, TypeOK
    <3>2. /\ Consecutive(received[c]) /\ Consecutive(events[c])
          /\ c \in clients /\ events[c] # <<>> => Last(events[c]) = revision
          /\ c \in clients /\ events[c] = <<>> => writing[c] = revision
          /\ received[c] # <<>> => writing[c] = Last(received[c]) + 1
          /\ events[c] # <<>> => events[c][1] = writing[c] + 1
      BY <1>0, <3>1 DEF Joined
    <3> DEFINE sent == Append(received[c], writing[c])
    <3>3. Consecutive(sent) /\ Last(sent) = writing[c] /\ sent # <<>>
      BY <1>0, <3>2, AppendConsecutive
    <3>4. /\ \/ conn'[c] = "leaving"
             \/ conn'[c] = "serving" /\ received'[c] = sent
          /\ received'[c] = received[c] \/ received'[c] = sent
      BY <3>1
    <3> HIDE DEF sent
    <3>5. CASE conn'[c] = "leaving"
      BY <3>2, <3>3, <3>4, <3>5 DEF Joined
    <3>6. CASE conn'[c] = "serving" /\ received'[c] = sent
      BY <3>1, <3>2, <3>3, <3>6 DEF Joined
    <3> QED
      BY <3>4, <3>5, <3>6
  <2>2. CASE c # d
    BY <1>0, <1>5, <2>2 DEF Write, Joined, IInv, TypeOK
  <2> QED
    BY <2>1, <2>2
<1>6. ASSUME NEW d \in Clients, SeeClosed(d) \/ Disconnect(d)
      PROVE  Joined(c)'
  BY <1>0, <1>6 DEF SeeClosed, Disconnect, Joined, IInv, TypeOK
<1>7. ASSUME NEW d \in Clients, Unregister(d)
      PROVE  Joined(c)'
  BY <1>0, <1>7 DEF Unregister, Joined, IInv, TypeOK
<1>8. CASE UNCHANGED vars
  BY <1>0, <1>8 DEF vars, Joined
<1> QED
  BY <1>1, <1>2, <1>3, <1>4, <1>5, <1>6, <1>7, <1>8 DEF Next, Serve

LEMMA InvariantStep == IInv /\ [Next]_vars => IInv'
BY TypeStep, ClientsStep, PublishedStep, JoinedStep DEF IInv

\* The strengthened invariant holds in every reachable state: the registered
\* clients are those with an open channel, each is served, and what a served
\* connection was sent and is owed are consecutive revisions.
THEOREM Invariant == Spec => []IInv
BY InvariantInit, InvariantStep, PTL DEF Spec

-----------------------------------------------------------------------------
(* The properties. *)

\* Every variable keeps its type and no channel exceeds its size, whatever
\* the number of connections, the size of their channels and the events.
THEOREM TypeCorrect == Spec => []TypeOK
<1>1. IInv => TypeOK
  BY DEF IInv
<1> QED
  BY <1>1, Invariant, PTL

\* The server never sends on a closed channel and never closes one twice.
THEOREM HubNeverPanics == Spec => []NeverPanics
<1>1. IInv => NeverPanics
  BY DEF IInv
<1> QED
  BY <1>1, Invariant, PTL

\* What a peer was sent and is owed is its greeting and every later event.
THEOREM StreamsAreGapFree == Spec => []StreamGapFree
<1>1. IInv => StreamGapFree
  <2> SUFFICES ASSUME IInv, NEW c \in Clients
               PROVE  /\ Consecutive(received[c])
                      /\ conn[c] \in {"serving", "writing"} =>
                           LET stream == received[c] \o Owed(c) IN
                             /\ stream # <<>>
                             /\ Consecutive(stream)
                             /\ c \in clients => stream[Len(stream)] = revision
    BY DEF StreamGapFree
  <2>1. /\ Joined(c)
        /\ received[c] \in Seq(Nat) /\ events[c] \in Seq(Nat) /\ writing[c] \in Nat
    BY RevisionSequences, MaxRevisionAssumption DEF IInv, AllJoined, TypeOK, Revision
  <2>2. Consecutive(received[c])
    BY <2>1 DEF Joined
  <2>3. ASSUME conn[c] = "serving"
        PROVE  LET stream == received[c] \o Owed(c) IN
                 /\ stream # <<>>
                 /\ Consecutive(stream)
                 /\ c \in clients => stream[Len(stream)] = revision
    <3>1. Owed(c) = events[c]
      BY <2>3 DEF Owed
    <3>2. CASE events[c] = <<>>
      <4>1. received[c] \o events[c] = received[c]
        BY <2>1, <3>2, ConcatEmptySeq
      <4>2. received[c] # <<>> /\ (c \in clients => Last(received[c]) = revision)
        BY <2>1, <2>3, <3>2 DEF Joined
      <4> QED
        BY <2>2, <3>1, <4>1, <4>2 DEF Last
    <3>3. CASE events[c] # <<>>
      <4>1. /\ Consecutive(events[c])
            /\ received[c] # <<>> => events[c][1] = Last(received[c]) + 1
            /\ c \in clients => Last(events[c]) = revision
        BY <2>1, <2>3, <3>3 DEF Joined
      <4> DEFINE stream == received[c] \o events[c]
      <4>2. stream # <<>> /\ Consecutive(stream) /\ stream[Len(stream)] = Last(events[c])
        BY <2>1, <2>2, <3>3, <4>1, ConcatConsecutive
      <4> QED
        BY <3>1, <4>1, <4>2
    <3> QED
      BY <3>2, <3>3
  <2>4. ASSUME conn[c] = "writing"
        PROVE  LET stream == received[c] \o Owed(c) IN
                 /\ stream # <<>>
                 /\ Consecutive(stream)
                 /\ c \in clients => stream[Len(stream)] = revision
    <3> DEFINE owed == <<writing[c]>> \o events[c]
               stream == received[c] \o owed
    <3>1. /\ Consecutive(events[c])
          /\ received[c] # <<>> => writing[c] = Last(received[c]) + 1
          /\ events[c] # <<>> => events[c][1] = writing[c] + 1
          /\ c \in clients => IF events[c] = <<>> THEN writing[c] = revision
                                                  ELSE Last(events[c]) = revision
      BY <2>1, <2>4 DEF Joined
    <3>2. /\ owed \in Seq(Nat) /\ owed # <<>> /\ Consecutive(owed)
          /\ owed[1] = writing[c]
          /\ c \in clients => Last(owed) = revision
      <4>1. /\ <<writing[c]>> \in Seq(Nat) /\ <<writing[c]>> # <<>>
            /\ Consecutive(<<writing[c]>>) /\ Last(<<writing[c]>>) = writing[c]
            /\ <<writing[c]>>[1] = writing[c]
        BY <2>1, OneConsecutive
      <4>2. CASE events[c] = <<>>
        <5>1. owed = <<writing[c]>>
          BY <4>1, <4>2, ConcatEmptySeq
        <5> QED
          BY <3>1, <4>1, <4>2, <5>1
      <4>3. CASE events[c] # <<>>
        <5>1. /\ owed \in Seq(Nat) /\ owed # <<>> /\ Consecutive(owed)
              /\ owed[Len(owed)] = Last(events[c])
          <6> DEFINE one == <<writing[c]>>
          <6>1. one \in Seq(Nat) /\ Consecutive(one) /\ events[c][1] = Last(one) + 1
            BY <3>1, <4>1, <4>3
          <6> HIDE DEF one
          <6>2. /\ one \o events[c] \in Seq(Nat) /\ one \o events[c] # <<>>
                /\ Consecutive(one \o events[c])
                /\ (one \o events[c])[Len(one \o events[c])] = Last(events[c])
            BY <2>1, <3>1, <4>3, <6>1, ConcatConsecutive
          <6> QED
            BY <6>2 DEF one
        <5>2. owed[1] = writing[c]
          BY <2>1, ConcatProperties, LenProperties
        <5> HIDE DEF owed
        <5> QED
          BY <3>1, <4>3, <5>1, <5>2 DEF Last
      <4> QED
        BY <4>2, <4>3
    <3> HIDE DEF owed
    <3>3. stream # <<>> /\ Consecutive(stream) /\ stream[Len(stream)] = Last(owed)
      BY <2>1, <2>2, <3>1, <3>2, ConcatConsecutive
    <3>4. Owed(c) = owed
      BY <2>4 DEF Owed, owed
    <3> QED
      BY <3>2, <3>3, <3>4
  <2> QED
    BY <2>2, <2>3, <2>4
<1> QED
  BY <1>1, Invariant, PTL

-----------------------------------------------------------------------------
(* The hub implements the feed. *)

LEMMA FirstOwed ==
  ASSUME NEW n \in Nat, NEW s \in Seq(Nat)
  PROVE  (<<n>> \o s)[1] = n
BY ConcatProperties, LenProperties

\* The event a handler is writing is the one its peer has to be sent next.
LEMMA NextWritten ==
  ASSUME IInv, NEW c \in Clients, conn[c] = "writing"
  PROVE  NextFor(c) = writing[c] /\ c \in Served /\ NextFor(c) <= revision
<1>1. /\ received[c] # <<>> => writing[c] = Last(received[c]) + 1
      /\ writing[c] \in Nat /\ events[c] \in Seq(Nat)
      /\ writing[c] <= revision
  BY RevisionSequences, MaxRevisionAssumption
     DEF IInv, AllJoined, Joined, OwedArePublished, TypeOK, Revision
<1>2. Owed(c)[1] = writing[c]
  BY <1>1, FirstOwed DEF Owed
<1> QED
  BY <1>1, <1>2 DEF NextFor, Served, Last

\* Events reach the end of a channel and leave it from its front.
LEMMA FeedStutters ==
  ASSUME IInv, [Next]_vars, NEW c \in Clients, UNCHANGED received, c \in Served, c \in Served',
         \/ Publish
         \/ Receive(c)
         \/ UNCHANGED <<events[c], conn[c], writing[c]>>
  PROVE  NextFor(c)' = NextFor(c)
<1>0. /\ Joined(c)
      /\ received[c] \in Seq(Nat) /\ events[c] \in Seq(Nat) /\ writing[c] \in Nat
      /\ revision \in Nat
  BY RevisionSequences, MaxRevisionAssumption DEF IInv, AllJoined, TypeOK, Revision
<1>1. CASE received[c] # <<>>
  BY <1>1 DEF NextFor
<1>2. CASE received[c] = <<>>
  <2>1. NextFor(c) = Owed(c)[1] /\ NextFor(c)' = Owed(c)'[1]
    BY <1>2 DEF NextFor
  <2>2. CASE Publish
    <3>1. UNCHANGED <<conn, writing>> /\ conn[c] \in {"serving", "writing"}
      BY <2>2 DEF Publish, Served
    <3>2. events'[c] = events[c] \/ events'[c] = Append(events[c], revision + 1)
      BY <2>2 DEF Publish
    <3>3. events'[c] \in Seq(Nat)
      <4>1. revision + 1 \in Nat
        BY <1>0
      <4>2. Append(events[c], revision + 1) \in Seq(Nat)
        BY <1>0, <4>1, AppendProperties
      <4> QED
        BY <1>0, <3>2, <4>2
    <3>4. CASE conn[c] = "writing"
      <4>1. Owed(c) = <<writing[c]>> \o events[c] /\ Owed(c)' = <<writing[c]>> \o events'[c]
        BY <3>1, <3>4 DEF Owed
      <4>2. (<<writing[c]>> \o events[c])[1] = writing[c]
        BY <1>0, FirstOwed
      <4>3. (<<writing[c]>> \o events'[c])[1] = writing[c]
        BY <1>0, <3>3, FirstOwed
      <4> QED
        BY <2>1, <4>1, <4>2, <4>3
    <3>5. CASE conn[c] = "serving"
      <4>1. events[c] # <<>>
        BY <1>0, <1>2, <3>5 DEF Joined
      <4>2. events'[c][1] = events[c][1]
        BY <1>0, <3>2, <4>1, AppendProperties, LenProperties, EmptySeq
      <4>3. Owed(c) = events[c] /\ Owed(c)' = events'[c]
        BY <3>1, <3>5 DEF Owed
      <4> QED
        BY <2>1, <4>2, <4>3
    <3> QED
      BY <3>1, <3>4, <3>5
  <2>3. CASE Receive(c)
    <3>1. /\ conn[c] = "serving" /\ conn'[c] = "writing" /\ events[c] # <<>>
          /\ writing'[c] = Head(events[c]) /\ events'[c] = Tail(events[c])
      BY <2>3 DEF Receive, IInv, TypeOK
    <3>2. /\ events'[c] \in Seq(Nat)
          /\ writing'[c] = events[c][1] /\ writing'[c] \in Nat
      BY <1>0, <3>1, HeadTailProperties, EmptySeq
    <3>3. (<<writing'[c]>> \o events'[c])[1] = writing'[c]
      BY <3>2, FirstOwed
    <3>4. Owed(c) = events[c] /\ Owed(c)' = <<writing'[c]>> \o events'[c]
      BY <3>1 DEF Owed
    <3> QED
      BY <2>1, <3>2, <3>3, <3>4
  <2>4. CASE UNCHANGED <<events[c], conn[c], writing[c]>>
    BY <2>1, <2>4 DEF Owed
  <2> QED
    BY <2>2, <2>3, <2>4
<1> QED
  BY <1>1, <1>2

LEMMA FeedInit == Init => Feed!Init
<1> SUFFICES ASSUME Init
             PROVE  Feed!Init
  OBVIOUS
<1>1. Served = {}
  BY DEF Init, Served
<1>2. [c \in Clients |-> NextFor(c)] = [c \in Clients |-> 0]
  BY <1>1 DEF NextFor
<1> QED
  BY <1>1, <1>2 DEF Init, Feed!Init

LEMMA FeedStep ==
  ASSUME IInv, [Next]_vars
  PROVE  [Feed!Next]_(Feed!vars)
<1> DEFINE next == [c \in Clients |-> NextFor(c)]
<1>0. TypeOK
  BY DEF IInv
<1>1. ASSUME NEW c \in Clients, c \notin Served'
      PROVE  NextFor(c)' = 0
  BY <1>1 DEF NextFor
<1>2. ASSUME NEW c \in Clients, c \notin Served
      PROVE  NextFor(c) = 0
  BY <1>2 DEF NextFor
<1>3. CASE Publish
  <2>1. /\ revision < MaxRevision /\ revision' = revision + 1
        /\ Served' = Served /\ received' = received
    BY <1>3 DEF Publish, Served
  <2>2. next' = next
    BY <1>1, <1>2, <1>3, <2>1, FeedStutters
  <2> QED
    BY <2>1, <2>2 DEF Feed!Next, Feed!Advance
<1>4. CASE Close
  <2>1. Served' = Served /\ UNCHANGED <<revision, received, events, conn, writing>>
    BY <1>4 DEF Close, Served
  <2>2. next' = next
    BY <1>1, <1>2, <2>1, FeedStutters
  <2> QED
    BY <2>1, <2>2 DEF Feed!vars
<1>5. ASSUME NEW c \in Clients, Register(c), closed
      PROVE  [Feed!Next]_(Feed!vars)
  <2>1. Served' = Served /\ UNCHANGED <<revision, received, events, writing>>
        /\ \A d \in Served : conn'[d] = conn[d]
    BY <1>0, <1>5 DEF Register, Served, TypeOK
  <2>2. next' = next
    BY <1>1, <1>2, <2>1, FeedStutters
  <2> QED
    BY <2>1, <2>2 DEF Feed!vars
<1>6. ASSUME NEW c \in Clients, Register(c), ~closed
      PROVE  [Feed!Next]_(Feed!vars)
  <2>1. /\ c \notin Served /\ Served' = Served \cup {c}
        /\ received[c] = <<>> /\ UNCHANGED <<revision, received, writing>>
        /\ conn'[c] = "serving" /\ events'[c] = <<revision>>
        /\ \A d \in Clients \ {c} : conn'[d] = conn[d] /\ events'[d] = events[d]
    BY <1>0, <1>6 DEF Register, HelloRevision, Served, TypeOK, IInv, ClientsAreServed
  <2>2. NextFor(c)' = revision
    BY <2>1 DEF NextFor, Owed
  <2>3. ASSUME NEW d \in Clients \ {c}
        PROVE  NextFor(d)' = NextFor(d)
    BY <1>1, <1>2, <2>1, FeedStutters
  <2>4. next' = [next EXCEPT ![c] = revision]
    BY <2>2, <2>3
  <2> HIDE DEF next
  <2> QED
    BY <2>1, <2>4 DEF Feed!Next, Feed!Join, next
<1>7. ASSUME NEW c \in Clients, Receive(c)
      PROVE  [Feed!Next]_(Feed!vars)
  <2>1. /\ c \in Served /\ Served' = Served /\ UNCHANGED <<revision, received>>
        /\ \A d \in Clients \ {c} : UNCHANGED <<conn[d], events[d], writing[d]>>
    BY <1>0, <1>7 DEF Receive, Served, TypeOK
  <2>2. ASSUME NEW d \in Clients
        PROVE  NextFor(d)' = NextFor(d)
    BY <1>1, <1>2, <1>7, <2>1, FeedStutters
  <2>3. next' = next
    BY <2>2
  <2> QED
    BY <2>1, <2>3 DEF Feed!vars
<1>8. ASSUME NEW c \in Clients, SeeClosed(c) \/ Disconnect(c)
      PROVE  [Feed!Next]_(Feed!vars)
  <2>1. /\ c \in Served /\ Served' = Served \ {c}
        /\ UNCHANGED <<revision, received, events, writing>>
        /\ \A d \in Clients \ {c} : conn'[d] = conn[d]
    BY <1>0, <1>8 DEF SeeClosed, Disconnect, Served, TypeOK
  <2>2. ASSUME NEW d \in Clients \ {c}
        PROVE  NextFor(d)' = NextFor(d)
    BY <1>1, <1>2, <2>1, FeedStutters
  <2>3. next' = [next EXCEPT ![c] = 0]
    BY <1>1, <2>1, <2>2
  <2> HIDE DEF next
  <2> QED
    BY <2>1, <2>3 DEF Feed!Next, Feed!End, next
<1>9. ASSUME NEW c \in Clients, Write(c)
      PROVE  [Feed!Next]_(Feed!vars)
  <2>1. /\ conn[c] = "writing" /\ UNCHANGED <<revision, events, writing>>
        /\ \A d \in Clients \ {c} : UNCHANGED <<conn[d], received[d]>>
    BY <1>0, <1>9 DEF Write, TypeOK
  <2>2. NextFor(c) = writing[c] /\ c \in Served /\ NextFor(c) <= revision
    BY <2>1, NextWritten
  <2>3. received[c] \in Seq(Nat) /\ writing[c] \in Nat
    BY <1>0, RevisionSequences, MaxRevisionAssumption DEF TypeOK, Revision
  <2>4. ASSUME NEW d \in Clients \ {c}
        PROVE  NextFor(d)' = NextFor(d)
    BY <2>1 DEF NextFor, Served, Owed
  <2>5. CASE /\ conn' = [conn EXCEPT ![c] = "serving"]
             /\ received' = [received EXCEPT ![c] = Append(@, writing[c])]
    <3>1. Served' = Served
      BY <1>0, <2>1, <2>5 DEF Served, TypeOK
    <3>2. received'[c] = Append(received[c], writing[c])
      BY <1>0, <2>5 DEF TypeOK
    <3>3. received'[c] # <<>> /\ received'[c][Len(received'[c])] = writing[c]
      BY <2>3, <3>2, AppendProperties
    <3>4. NextFor(c)' = NextFor(c) + 1
      BY <2>2, <3>1, <3>3 DEF NextFor
    <3>5. next' = [next EXCEPT ![c] = @ + 1] /\ next[c] = writing[c]
      BY <2>2, <2>4, <3>4
    <3>6. received' = [received EXCEPT ![c] = Append(@, next[c])]
      BY <2>5, <3>5
    <3>7. next[c] <= revision
      BY <2>2, <3>5
    <3> HIDE DEF next
    <3>8. Feed!Deliver(c)
      BY <2>1, <2>2, <3>1, <3>5, <3>6, <3>7 DEF Feed!Deliver, next
    <3> QED
      BY <3>8 DEF Feed!Next
  <2>6. CASE conn' = [conn EXCEPT ![c] = "leaving"]
    <3>1. Served' = Served \ {c}
      BY <1>0, <2>1, <2>6 DEF Served, TypeOK
    <3>2. next' = [next EXCEPT ![c] = 0] /\ next[c] = writing[c] /\ next[c] <= revision
      BY <1>1, <2>2, <2>4, <3>1
    <3>3. CASE received' = [received EXCEPT ![c] = Append(@, writing[c])]
      <4>1. received' = [received EXCEPT ![c] = Append(@, next[c])]
        BY <3>2, <3>3
      <4> HIDE DEF next
      <4>2. Feed!Deliver(c)
        BY <2>1, <2>2, <3>1, <3>2, <4>1 DEF Feed!Deliver, next
      <4> QED
        BY <4>2 DEF Feed!Next
    <3>4. CASE received' = received
      <4> HIDE DEF next
      <4>1. Feed!End(c)
        BY <2>1, <2>2, <3>1, <3>2, <3>4 DEF Feed!End, next
      <4> QED
        BY <4>1 DEF Feed!Next
    <3> QED
      BY <1>9, <2>6, <3>3, <3>4 DEF Write
  <2> QED
    BY <1>9, <2>5, <2>6 DEF Write
<1>10. ASSUME NEW c \in Clients, Unregister(c)
       PROVE  [Feed!Next]_(Feed!vars)
  <2>1. /\ Served' = Served /\ UNCHANGED <<revision, received, events, writing>>
        /\ \A d \in Served : conn'[d] = conn[d]
    BY <1>0, <1>10 DEF Unregister, Served, TypeOK
  <2>2. next' = next
    BY <1>1, <1>2, <2>1, FeedStutters
  <2> QED
    BY <2>1, <2>2 DEF Feed!vars
<1>11. CASE UNCHANGED vars
  <2>1. /\ Served' = Served
        /\ UNCHANGED <<revision, received, events, conn, writing>>
    BY <1>11 DEF vars, Served
  <2>2. next' = next
    BY <1>1, <1>2, <2>1, FeedStutters
  <2> QED
    BY <2>1, <2>2 DEF Feed!vars
<1> QED
  BY <1>3, <1>4, <1>5, <1>6, <1>7, <1>8, <1>9, <1>10, <1>11 DEF Next, Serve

\* Every behaviour of the hub is one of the feed: a connection is sent its
\* greeting and then every later event, in order, until it is over.
THEOREM HubImplementsFeed == Spec => FeedSpec
<1>1. Init => Feed!Init
  BY FeedInit
<1>2. IInv /\ [Next]_vars => [Feed!Next]_(Feed!vars)
  BY FeedStep
<1> QED
  BY <1>1, <1>2, Invariant, PTL DEF Spec, FeedSpec, Feed!Spec

-----------------------------------------------------------------------------
(* The end of a connection that was dropped. *)

\* How many steps its handler has left once nobody sends to it any more.
StepsLeft(c) ==
  IF conn[c] \notin {"serving", "writing", "leaving"} THEN 0
  ELSE 2 * Len(events[c]) + (IF conn[c] = "writing" THEN 3 ELSE IF conn[c] = "serving" THEN 2 ELSE 1)

\* A connection that lost an event, or that the hub was closed with, is sent
\* nothing more and never joins again; no publication, closing or other
\* connection gives its handler more to do, and each step of the handler leaves
\* less: the handler comes to its end after what the channel held.
LossShortens ==
  [][\A c \in Clients : c \notin clients /\ conn[c] # "new" =>
       /\ c \notin clients'
       /\ StepsLeft(c)' <= StepsLeft(c)
       /\ Serve(c) => StepsLeft(c)' < StepsLeft(c)]_vars

LEMMA LossStep ==
  ASSUME IInv, [Next]_vars, NEW c \in Clients, c \notin clients, conn[c] # "new"
  PROVE  /\ c \notin clients'
         /\ StepsLeft(c)' <= StepsLeft(c)
         /\ Serve(c) => StepsLeft(c)' < StepsLeft(c)
<1> USE DEF IInv, TypeOK, Phase
<1>0. StepsLeft(c)' \in Nat
  <2>1. Len(events'[c]) \in Nat
    BY InvariantStep, LenProperties
  <2>2. ASSUME NEW n \in Nat PROVE {0, 2 * n + 3, 2 * n + 2, 2 * n + 1} \subseteq Nat
    OBVIOUS
  <2>3. StepsLeft(c)' \in
          {0, 2 * Len(events'[c]) + 3, 2 * Len(events'[c]) + 2, 2 * Len(events'[c]) + 1}
    BY ZenonT(20) DEF StepsLeft
  <2> QED
    BY <2>1, <2>2, <2>3
<1>1. events[c] \in Seq(Revision) /\ Len(events[c]) \in Nat /\ StepsLeft(c) \in Nat
  BY LenProperties DEF StepsLeft
<1>2. ASSUME UNCHANGED <<conn, events, clients>>
      PROVE  c \notin clients' /\ StepsLeft(c)' = StepsLeft(c)
  BY <1>2 DEF StepsLeft
<1>3. ASSUME NEW d \in Clients, d # c, Register(d) \/ Serve(d) \/ Disconnect(d)
      PROVE  c \notin clients' /\ conn'[c] = conn[c] /\ events'[c] = events[c]
  BY <1>3 DEF Register, Serve, Receive, SeeClosed, Write, Unregister, Disconnect
<1>4. ASSUME Serve(c)
      PROVE  c \notin clients' /\ StepsLeft(c)' < StepsLeft(c)
  <2>1. CASE Receive(c)
    <3>1. Len(Tail(events[c])) = Len(events[c]) - 1 /\ Len(events[c]) > 0
      BY <1>1, <2>1, HeadTailProperties, EmptySeq DEF Receive
    <3>2. events'[c] = Tail(events[c]) /\ conn[c] = "serving" /\ conn'[c] = "writing"
          /\ clients' = clients
      BY <2>1 DEF Receive
    <3> QED
      BY <1>1, <3>1, <3>2 DEF StepsLeft
  <2>2. CASE SeeClosed(c)
    BY <1>1, <2>2 DEF SeeClosed, StepsLeft
  <2>3. CASE Write(c)
    BY <1>1, <2>3 DEF Write, StepsLeft
  <2>4. CASE Unregister(c)
    BY <1>1, <2>4 DEF Unregister, StepsLeft
  <2> QED
    BY <1>4, <2>1, <2>2, <2>3, <2>4 DEF Serve
<1>5. CASE Publish
  <2>1. c \notin clients' /\ conn' = conn /\ events'[c] = events[c]
    BY <1>5 DEF Publish
  <2> QED
    BY <1>1, <1>4, <2>1 DEF StepsLeft
<1>6. CASE Close
  <2>1. c \notin clients' /\ conn' = conn /\ events' = events
    BY <1>6 DEF Close
  <2> QED
    BY <1>1, <1>4, <2>1 DEF StepsLeft
<1>7. ASSUME NEW d \in Clients, Register(d) \/ Serve(d) \/ Disconnect(d)
      PROVE  c \notin clients' /\ StepsLeft(c)' <= StepsLeft(c)
  <2>1. CASE d # c
    <3>1. c \notin clients' /\ StepsLeft(c)' = StepsLeft(c)
      BY <1>3, <1>7, <2>1 DEF StepsLeft
    <3> QED
      BY <1>1, <3>1
  <2>2. CASE Serve(c)
    BY <1>0, <1>1, <1>4, <2>2
  <2>3. CASE Disconnect(c)
    BY <1>1, <2>3 DEF Disconnect, StepsLeft
  <2>4. ~Register(c)
    BY DEF Register
  <2> QED
    BY <1>7, <2>1, <2>2, <2>3, <2>4
<1>8. c \notin clients' /\ StepsLeft(c)' <= StepsLeft(c)
  BY <1>1, <1>2, <1>5, <1>6, <1>7 DEF Next, vars
<1> QED
  BY <1>4, <1>8

\* For any number of connections and any size of their channels: once an event
\* was lost, nothing but the end of the connection is left to happen to it.
THEOREM LossAlwaysShortens == Spec => LossShortens
<1>1. IInv /\ [Next]_vars =>
        [\A c \in Clients : c \notin clients /\ conn[c] # "new" =>
           /\ c \notin clients'
           /\ StepsLeft(c)' <= StepsLeft(c)
           /\ Serve(c) => StepsLeft(c)' < StepsLeft(c)]_vars
  BY LossStep
<1> QED
  BY <1>1, Invariant, PTL DEF Spec, LossShortens
=============================================================================
