----------------------------- MODULE EventFeed -----------------------------
(***************************************************************************)
(* What the realtime endpoint promises to a connection, whatever the speed *)
(* of the peer and the moment the server stops: a greeting that carries    *)
(* the revision at which the connection joined, then every later revision, *)
(* in order and without a gap, until the connection is over.  A peer that  *)
(* misses an event can only miss all the ones after it.                    *)
(***************************************************************************)
EXTENDS Naturals, Sequences

CONSTANTS
  Clients,      \* connections; one that comes back is another element
  MaxRevision   \* bound on the number of events

VARIABLES
  revision,  \* events published so far
  live,      \* connections that joined and are not over
  next,      \* the revision a connection is to be sent next
  log        \* the revisions each connection was sent, greeting first

vars == <<revision, live, next, log>>

Init ==
  /\ revision = 0
  /\ live = {}
  /\ next = [c \in Clients |-> 0]
  /\ log = [c \in Clients |-> <<>>]

Advance ==
  /\ revision < MaxRevision
  /\ revision' = revision + 1
  /\ UNCHANGED <<live, next, log>>

Join(c) ==
  /\ c \notin live
  /\ log[c] = <<>>
  /\ live' = live \cup {c}
  /\ next' = [next EXCEPT ![c] = revision]
  /\ UNCHANGED <<revision, log>>

\* The connection may break while the event is sent.
Deliver(c) ==
  /\ c \in live
  /\ next[c] <= revision
  /\ log' = [log EXCEPT ![c] = Append(@, next[c])]
  /\ \/ live' = live /\ next' = [next EXCEPT ![c] = @ + 1]
     \/ live' = live \ {c} /\ next' = [next EXCEPT ![c] = 0]
  /\ UNCHANGED revision

End(c) ==
  /\ c \in live
  /\ live' = live \ {c}
  /\ next' = [next EXCEPT ![c] = 0]
  /\ UNCHANGED <<revision, log>>

Next == Advance \/ \E c \in Clients : Join(c) \/ Deliver(c) \/ End(c)

Spec == Init /\ [][Next]_vars
=============================================================================
