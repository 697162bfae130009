------------------------- MODULE CurrentnessService -------------------------
(***************************************************************************)
(* The gateway's identity currentness service                              *)
(* (services/ai-gateway/identity-currentness-service.mjs, -entry.mjs and   *)
(* schema/004-identity-currentness.sql): each open channel holds a         *)
(* database connection that LISTENs for invalidations, then reads the      *)
(* authority once under row locks and streams what it read, with pulses,   *)
(* until anything ends it.                                                 *)
(*                                                                         *)
(* One step is what runs between two awaits; closing a channel and the     *)
(* rejected await that follows it are one step.  generation counts the     *)
(* changes of the channel's principal or of the service's control row.     *)
(***************************************************************************)
EXTENDS CurrentnessWire, FiniteSets

CONSTANTS
  ServiceLimit,   \* channels the service holds at once
  FrameLimit,     \* frames of one stream
  Backlog         \* frames unread by the client at which the stream gives up

VARIABLES
  generation,       \* version of the authority in the database
  phase,            \* phase[c]: how far c's open call and stream are
  connection,       \* connection[c]: its database connection
  occupied,         \* the service's set of taken slots
  snap,             \* snap[c]: the generation c read under lock
  notified,         \* notified[c]: an invalidation waits on c's connection
  sent,             \* sent[c]: frames emitted
  serviceDisposed

serviceVars == <<generation, phase, connection, occupied, snap, notified, sent,
                 serviceDisposed>>

ASSUME ServiceAssumption ==
  /\ IsFiniteSet(Channels) /\ MaxGeneration \in Nat
  /\ ServiceLimit \in Nat /\ FrameLimit \in Nat \ {0} /\ Backlog \in Nat

Opening == {"acquiring", "connected", "listening", "locked"}
Serving == {"ready", "streaming"}

ServiceInit ==
  /\ generation = 0
  /\ phase = [c \in Channels |-> "idle"]
  /\ connection = [c \in Channels |-> "none"]
  /\ occupied = {}
  /\ snap = [c \in Channels |-> NoGeneration]
  /\ notified = [c \in Channels |-> FALSE]
  /\ sent = [c \in Channels |-> 0]
  /\ serviceDisposed = FALSE

Enter(c, next) == phase' = [phase EXCEPT ![c] = next]

\* A connection that is still being acquired keeps its slot.
Freed(S) == {c \in S : connection[c] # "pending"}

\* Closing channels: their connections are destroyed and their slots given
\* back; the client is told, by the end of the stream or by a refusal.
Close(S) ==
  /\ phase' = [c \in Channels |-> IF c \in S THEN "closed" ELSE phase[c]]
  /\ connection' = [c \in Channels |-> IF c \in S /\ connection[c] # "pending"
                                         THEN "none" ELSE connection[c]]
  /\ occupied' = occupied \ Freed(S)
  /\ notified' = [c \in Channels |-> notified[c] /\ c \notin S]
  /\ snap' = [c \in Channels |-> IF c \in S THEN NoGeneration ELSE snap[c]]
  /\ sent' = [c \in Channels |-> IF c \in S THEN 0 ELSE sent[c]]
  /\ frames' = [c \in Channels |->
                  IF c \notin S THEN frames[c]
                  ELSE Written(c, IF phase[c] = "streaming" THEN Ended ELSE Refused)]
  /\ UNCHANGED <<generation, exchange>>

-----------------------------------------------------------------------------
\* The database.

\* The connections a committed invalidation is delivered to.
Listening(c) == connection[c] = "held" /\ phase[c] \in {"listening", "locked"} \cup Serving
Invalidated == [c \in Channels |-> notified[c] \/ Listening(c)]

\* A writer changes a row the channels read, unless a snapshot has it locked.
ChangeAuthority ==
  /\ generation < MaxGeneration
  /\ \A c \in Channels : ~(phase[c] = "locked" /\ connection[c] = "held")
  /\ generation' = generation + 1
  /\ notified' = Invalidated
  /\ UNCHANGED <<phase, connection, occupied, snap, sent, serviceDisposed, wireVars>>

\* Another principal's row changes, which invalidates everybody all the same.
ChangeOther ==
  /\ notified' = Invalidated
  /\ UNCHANGED <<generation, phase, connection, occupied, snap, sent, serviceDisposed, wireVars>>

\* A connection breaks; the service has not noticed yet.
DropConnection(c) ==
  /\ connection[c] = "held"
  /\ connection' = [connection EXCEPT ![c] = "dropped"]
  /\ UNCHANGED <<generation, phase, occupied, snap, notified, sent, serviceDisposed, wireVars>>

-----------------------------------------------------------------------------
\* Opening a channel.

Admit(c) ==
  /\ phase[c] = "idle" /\ exchange[c] = "open"
  /\ Cardinality(occupied) < ServiceLimit /\ ~serviceDisposed
  /\ Enter(c, "acquiring")
  /\ connection' = [connection EXCEPT ![c] = "pending"]
  /\ occupied' = occupied \cup {c}
  /\ UNCHANGED <<generation, snap, notified, sent, serviceDisposed, wireVars>>

TurnAway(c) ==
  /\ phase[c] = "idle"
  /\ \/ exchange[c] = "hungUp"
     \/ exchange[c] = "open" /\ (Cardinality(occupied) >= ServiceLimit \/ serviceDisposed)
  /\ Close({c})
  /\ UNCHANGED serviceDisposed

\* The pool hands out a connection, or fails to.
Connect(c) ==
  /\ phase[c] = "acquiring" /\ connection[c] = "pending"
  /\ Enter(c, "connected")
  /\ connection' = [connection EXCEPT ![c] = "held"]
  /\ UNCHANGED <<generation, occupied, snap, notified, sent, serviceDisposed, wireVars>>

ConnectFails(c) ==
  /\ phase[c] = "acquiring" /\ connection[c] = "pending"
  /\ Enter(c, "closed")
  /\ connection' = [connection EXCEPT ![c] = "none"]
  /\ occupied' = occupied \ {c}
  /\ Emit(c, Refused)
  /\ UNCHANGED <<generation, snap, notified, sent, serviceDisposed, exchange>>

\* A channel that closed while it waited for its connection.
ConnectLate(c) ==
  /\ phase[c] = "closed" /\ connection[c] = "pending"
  /\ connection' = [connection EXCEPT ![c] = "none"]
  /\ occupied' = occupied \ {c}
  /\ UNCHANGED <<generation, phase, snap, notified, sent, serviceDisposed, wireVars>>

Listen(c) ==
  /\ phase[c] = "connected" /\ connection[c] = "held"
  /\ Enter(c, "listening")
  /\ UNCHANGED <<generation, connection, occupied, snap, notified, sent, serviceDisposed, wireVars>>

\* Locks the authority's rows and reads them.
Snapshot(c) ==
  /\ phase[c] = "listening" /\ connection[c] = "held"
  /\ Enter(c, "locked")
  /\ snap' = [snap EXCEPT ![c] = generation]
  /\ UNCHANGED <<generation, connection, occupied, notified, sent, serviceDisposed, wireVars>>

\* The snapshot qualifies and its transaction commits, which unlocks the rows.
CommitSnapshot(c) ==
  /\ phase[c] = "locked" /\ connection[c] = "held"
  /\ Enter(c, "ready")
  /\ UNCHANGED <<generation, connection, occupied, snap, notified, sent, serviceDisposed, wireVars>>

-----------------------------------------------------------------------------
\* Streaming.

StartStream(c) ==
  /\ phase[c] = "ready"
  /\ Enter(c, "streaming")
  /\ Emit(c, Ready(snap[c]))
  /\ sent' = [sent EXCEPT ![c] = 1]
  /\ UNCHANGED <<generation, connection, occupied, snap, notified, serviceDisposed, exchange>>

SendPulse(c) ==
  /\ phase[c] = "streaming"
  /\ sent[c] < FrameLimit /\ Len(frames[c]) < Backlog
  /\ Emit(c, Pulse)
  /\ sent' = [sent EXCEPT ![c] = @ + 1]
  /\ UNCHANGED <<generation, phase, connection, occupied, snap, notified, serviceDisposed,
                 exchange>>

-----------------------------------------------------------------------------
\* What ends a channel.

\* The driver hands over a notification; inside a transaction it waits.
NoticeWhileOpening(c) ==   \* mutant
  /\ notified[c] /\ connection[c] = "held" /\ phase[c] \in {"listening", "ready"}
  /\ Close({c})
  /\ UNCHANGED serviceDisposed
NoticeInvalidation(c) ==
  /\ notified[c] /\ connection[c] = "held" /\ phase[c] \in {"listening"} \cup Serving
  /\ Close({c})
  /\ UNCHANGED serviceDisposed

NoticeDrop(c) ==
  /\ connection[c] = "dropped"
  /\ Close({c})
  /\ UNCHANGED serviceDisposed

\* A refused check or query, or five seconds are over.
GiveUp(c) ==
  /\ phase[c] \in Opening
  /\ Close({c})
  /\ UNCHANGED serviceDisposed

\* The identity's validity ends, the stream is full or its frames unread.
EndService(c) ==
  /\ phase[c] \in Serving
  /\ Close({c})
  /\ UNCHANGED serviceDisposed

NoticeHangUp(c) ==
  /\ phase[c] \in Opening \cup Serving /\ exchange[c] = "hungUp"
  /\ Close({c})
  /\ UNCHANGED serviceDisposed

DisposeService ==
  /\ ~serviceDisposed /\ serviceDisposed' = TRUE
  /\ Close({c \in Channels : phase[c] \in Opening \cup Serving})

ServiceStep(c) ==
  \/ Admit(c) \/ TurnAway(c)
  \/ Connect(c) \/ ConnectFails(c) \/ ConnectLate(c)
  \/ Listen(c) \/ Snapshot(c) \/ CommitSnapshot(c)
  \/ StartStream(c) \/ SendPulse(c)
  \/ NoticeInvalidation(c) \/ NoticeDrop(c) \/ GiveUp(c) \/ EndService(c) \/ NoticeHangUp(c)

ServiceNext ==
  \/ ChangeAuthority \/ ChangeOther \/ DisposeService
  \/ \E c \in Channels : DropConnection(c) \/ ServiceStep(c)

-----------------------------------------------------------------------------
ServiceTypeOK ==
  /\ WireTypeOK
  /\ generation \in Generations
  /\ phase \in [Channels -> {"idle", "closed"} \cup Opening \cup Serving]
  /\ connection \in [Channels -> {"none", "pending", "held", "dropped"}]
  /\ occupied \subseteq Channels
  /\ snap \in [Channels -> Generations \cup {NoGeneration}]
  /\ notified \in [Channels -> BOOLEAN]
  /\ sent \in [Channels -> 0 .. FrameLimit]
  /\ serviceDisposed \in BOOLEAN

\* The service never holds, nor waits for, more connections than it has slots,
\* and keeps no slot without one, however acquisitions, timeouts, aborts and
\* failures interleave.
ServiceSlotsAreConnections ==
  /\ occupied = {c \in Channels : connection[c] # "none"}
  /\ Cardinality(occupied) <= ServiceLimit

\* No invalidation falls between the subscription and the snapshot: a channel
\* that serves an outdated snapshot has the news waiting on its connection, or
\* has lost the connection.
NoMissedInvalidation ==
  \A c \in Channels :
    phase[c] \in Serving /\ snap[c] # generation => notified[c] \/ connection[c] = "dropped"
=============================================================================
