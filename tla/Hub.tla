-------------------------------- MODULE Hub --------------------------------
(***************************************************************************)
(* The realtime hub (internal/realtime): publishers, websocket handlers    *)
(* and the shutdown share the set of clients under one mutex; each handler *)
(* drains its client's bounded channel with no lock held.                  *)
(*                                                                         *)
(* An event is its revision number; the greeting is the first element of   *)
(* a channel.  Every action below is one critical section of the mutex or  *)
(* one step of a handler between two of them.                              *)
(***************************************************************************)
EXTENDS Naturals, Sequences

CONSTANTS
  Clients,      \* connections; one that comes back is another element
  BufferSize,   \* clientBufferSize
  MaxRevision   \* bound on the number of events

ASSUME BufferSizeAssumption == BufferSize \in Nat \ {0}
ASSUME MaxRevisionAssumption == MaxRevision \in Nat

VARIABLES
  revision,   \* Hub.revision
  closed,     \* Hub.closed
  clients,    \* Hub.clients
  open,       \* connections whose channel exists and is not closed
  events,     \* the channel of each connection
  conn,       \* where its handler is
  writing,    \* the event a handler took from the channel
  received,   \* what the peer was sent
  panicked    \* a send on a closed channel, or a second close

vars == <<revision, closed, clients, open, events, conn, writing, received, panicked>>

Phase == {"new", "serving", "writing", "leaving", "ended"}
Revision == 0..MaxRevision

Init ==
  /\ revision = 0
  /\ closed = FALSE
  /\ clients = {}
  /\ open = {}
  /\ events = [c \in Clients |-> <<>>]
  /\ conn = [c \in Clients |-> "new"]
  /\ writing = [c \in Clients |-> 0]
  /\ received = [c \in Clients |-> <<>>]
  /\ panicked = FALSE

-----------------------------------------------------------------------------
(* Critical sections of the hub's mutex. *)

\* Fault: the greeting carries the revision of the next event.
NextRevision == revision + 1

HelloRevision == revision

\* The accepted connection is registered with its greeting, or turned away.
Register(c) ==
  /\ conn[c] = "new"
  /\ IF closed
     THEN /\ conn' = [conn EXCEPT ![c] = "ended"]
          /\ UNCHANGED <<clients, open, events>>
     ELSE /\ conn' = [conn EXCEPT ![c] = "serving"]
          /\ clients' = clients \cup {c}
          /\ open' = open \cup {c}
          /\ events' = [events EXCEPT ![c] = <<HelloRevision>>]
  /\ UNCHANGED <<revision, closed, writing, received, panicked>>

\* Fault: the channel of a removed client is left open.
ForgetToShut(gone) == open' = open /\ panicked' = panicked

\* close(subscriber.events), which panics on a closed channel.
Shut(gone) ==
  /\ open' = open \ gone
  /\ panicked' = (panicked \/ ~(gone \subseteq open))

\* Fault: a client may be one event over the size of its channel.
FullLate(c) == Len(events[c]) > BufferSize

Full(c) == Len(events[c]) >= BufferSize

\* Fault: a slow client misses the event and stays.
NoneSlow == {}

\* The clients whose channel has no room are dropped.
Slow == {c \in clients : Full(c)}

Publish ==
  /\ ~closed
  /\ revision < MaxRevision
  /\ revision' = revision + 1
  /\ events' = [c \in Clients |-> IF c \in clients /\ ~Full(c)
                                  THEN Append(events[c], revision + 1)
                                  ELSE events[c]]
  /\ clients' = clients \ Slow
  /\ open' = open \ Slow
  /\ panicked' = (panicked \/ ~(clients \subseteq open))
  /\ UNCHANGED <<closed, conn, writing, received>>

Close ==
  /\ ~closed
  /\ closed' = TRUE
  /\ clients' = {}
  /\ Shut(clients)
  /\ UNCHANGED <<revision, events, conn, writing, received>>

\* Fault: the handler closes its channel without looking the client up.
RemovedAlways(c) == {c}

\* What unregister finds of its client: a dropped one is gone already.
Removed(c) == clients \cap {c}

Unregister(c) ==
  /\ conn[c] = "leaving"
  /\ conn' = [conn EXCEPT ![c] = "ended"]
  /\ clients' = clients \ {c}
  /\ Shut(Removed(c))
  /\ UNCHANGED <<revision, closed, events, writing, received>>

-----------------------------------------------------------------------------
(* The loop of ServeHTTP. *)

\* The channel still yields what it held when it was closed.
Receive(c) ==
  /\ conn[c] = "serving"
  /\ events[c] # <<>>
  /\ writing' = [writing EXCEPT ![c] = Head(events[c])]
  /\ events' = [events EXCEPT ![c] = Tail(@)]
  /\ conn' = [conn EXCEPT ![c] = "writing"]
  /\ UNCHANGED <<revision, closed, clients, open, received, panicked>>

SeeClosed(c) ==
  /\ conn[c] = "serving"
  /\ events[c] = <<>>
  /\ c \notin open
  /\ conn' = [conn EXCEPT ![c] = "leaving"]
  /\ UNCHANGED <<revision, closed, clients, open, events, writing, received, panicked>>

\* The write ends; one that fails may have reached the peer.
Write(c) ==
  /\ conn[c] = "writing"
  /\ \/ /\ conn' = [conn EXCEPT ![c] = "serving"]
        /\ received' = [received EXCEPT ![c] = Append(@, writing[c])]
     \/ /\ conn' = [conn EXCEPT ![c] = "leaving"]
        /\ \/ received' = [received EXCEPT ![c] = Append(@, writing[c])]
           \/ UNCHANGED received
  /\ UNCHANGED <<revision, closed, clients, open, events, writing, panicked>>

\* A ping is not answered in time, or the peer is gone.
Disconnect(c) ==
  /\ conn[c] = "serving"
  /\ conn' = [conn EXCEPT ![c] = "leaving"]
  /\ UNCHANGED <<revision, closed, clients, open, events, writing, received, panicked>>

Serve(c) == Receive(c) \/ SeeClosed(c) \/ Write(c) \/ Unregister(c)

Next ==
  \/ Publish
  \/ Close
  \/ \E c \in Clients : Register(c) \/ Serve(c) \/ Disconnect(c)

\* Writes and pings have a timeout of ten seconds, so a handler keeps
\* returning to its select, which chooses among the ready cases at random: a
\* channel that stays ready is served.  Nothing is assumed of publishers, of
\* peers or of the shutdown.
Fairness == \A c \in Clients : WF_vars(Serve(c))

Spec == Init /\ [][Next]_vars
FairSpec == Spec /\ Fairness

-----------------------------------------------------------------------------
TypeOK ==
  /\ revision \in Revision
  /\ closed \in BOOLEAN
  /\ clients \in SUBSET Clients
  /\ open \in SUBSET Clients
  /\ events \in [Clients -> Seq(Revision)]
  /\ \A c \in Clients : Len(events[c]) <= BufferSize
  /\ conn \in [Clients -> Phase]
  /\ writing \in [Clients -> Revision]
  /\ received \in [Clients -> Seq(Revision)]
  /\ panicked \in BOOLEAN

\* No order of publishing, dropping, leaving and closing sends on a closed
\* channel or closes one twice, either of which would crash the server.
NeverPanics == ~panicked

\* Everything still owed to a connection that is served.
Owed(c) == IF conn[c] = "writing" THEN <<writing[c]>> \o events[c] ELSE events[c]

Consecutive(s) == \A i \in 1..(Len(s) - 1) : s[i + 1] = s[i] + 1

\* What the peer was sent and what it is still owed is the greeting followed
\* by every revision since, and a registered client is owed the latest one:
\* no event falls between registering, publishing, dropping and writing.
StreamGapFree ==
  \A c \in Clients :
    /\ Consecutive(received[c])
    /\ conn[c] \in {"serving", "writing"} =>
         LET stream == received[c] \o Owed(c) IN
           /\ stream # <<>>
           /\ Consecutive(stream)
           /\ c \in clients => stream[Len(stream)] = revision

\* A connection that was dropped, or that was there when the hub was closed,
\* comes to its end, so its peer learns that it has to reload.
LossEndsConnection ==
  \A c \in Clients :
    conn[c] \in {"serving", "writing"} /\ c \notin clients ~> conn[c] = "ended"

\* A client registered at a revision is sent it, or its connection ends.
SentOrEnded ==
  \A c \in Clients : \A r \in Revision :
    c \in clients /\ revision = r
      ~> \/ conn[c] = "ended"
         \/ \E i \in 1..Len(received[c]) : received[c][i] = r

-----------------------------------------------------------------------------
(* The hub implements the feed. *)
Served == {c \in Clients : conn[c] \in {"serving", "writing"}}

NextFor(c) ==
  IF c \notin Served THEN 0
  ELSE IF received[c] = <<>> THEN Owed(c)[1]
  ELSE received[c][Len(received[c])] + 1

Feed == INSTANCE EventFeed WITH
  live <- Served,
  next <- [c \in Clients |-> NextFor(c)],
  log <- received

\* Every behaviour of the hub is one of the feed.
FeedSpec == Feed!Spec
=============================================================================
