------------------------- MODULE CurrentnessProofs --------------------------
(***************************************************************************)
(* What CurrentnessChannel and CurrentnessHistory guarantee for every set  *)
(* of channels and owners and every limit: first the service by itself,    *)
(* then the client by itself, then what ties them together, at last what   *)
(* a client remembers of the generations it gave up.                       *)
(***************************************************************************)
EXTENDS CurrentnessHistory, FiniteSetTheorems, TLAPS

-----------------------------------------------------------------------------
(***************************************************************************)
(* The service side. ServiceInv is inductive: besides the two invariants   *)
(* it says which connection each phase of a channel has (Connections) and  *)
(* extends the promise about invalidations back to the moment the rows     *)
(* are read (Subscribed).                                                  *)
(***************************************************************************)

ServiceShape ==
  /\ phase \in [Channels -> {"idle", "closed"} \cup Opening \cup Serving]
  /\ connection \in [Channels -> {"none", "pending", "held", "dropped"}]
  /\ occupied \subseteq Channels
  /\ notified \in [Channels -> BOOLEAN]
  /\ snap \in [Channels -> Int]
  /\ generation \in Int

Connections ==
  \A c \in Channels :
    /\ phase[c] = "idle" => connection[c] = "none"
    /\ phase[c] = "acquiring" => connection[c] = "pending"
    /\ phase[c] \in {"connected", "listening", "locked"} \cup Serving
         => connection[c] \in {"held", "dropped"}
    /\ phase[c] = "closed" => connection[c] \in {"none", "pending"}

\* Once the rows are read, whatever outdates the reading is notified.
Subscribed ==
  \A c \in Channels :
    phase[c] \in {"locked"} \cup Serving /\ snap[c] # generation
      => notified[c] \/ connection[c] = "dropped"

SlotsMatch == occupied = {c \in Channels : connection[c] # "none"}

ServiceInv == ServiceShape /\ Connections /\ Subscribed /\ SlotsMatch

-----------------------------------------------------------------------------
\* Closing keeps the invariant, whatever is closed.
LEMMA CloseKeeps ==
  ASSUME ServiceInv, NEW S \in SUBSET Channels, Close(S) PROVE ServiceInv'
<1>. USE DEF ServiceInv, ServiceShape, Connections, Subscribed, SlotsMatch, Opening, Serving
<1>. generation' = generation
  BY DEF Close
<1>1. ServiceShape'
  BY DEF Close, Freed, NoGeneration
<1>2. Connections'
  BY DEF Close
<1>3. Subscribed'
  BY DEF Close
<1>4. SlotsMatch'
  BY DEF Close, Freed
<1>. QED
  BY <1>1, <1>2, <1>3, <1>4

\* A step of the service keeps the invariant.
LEMMA ServiceInvStep == ASSUME ServiceInv, ServiceNext PROVE ServiceInv'
<1>. USE ServiceAssumption DEF ServiceInv, ServiceShape, Connections, Subscribed, SlotsMatch,
     Opening, Serving
<1>1. ASSUME NEW c \in Channels, Admit(c) PROVE ServiceInv'
  BY <1>1 DEF Admit, Enter
<1>2. ASSUME NEW c \in Channels, TurnAway(c) PROVE ServiceInv'
  BY <1>2, CloseKeeps DEF TurnAway
<1>3. ASSUME NEW c \in Channels, Connect(c) PROVE ServiceInv'
  BY <1>3 DEF Connect, Enter
<1>4. ASSUME NEW c \in Channels, ConnectFails(c) PROVE ServiceInv'
  BY <1>4 DEF ConnectFails, Enter
<1>5. ASSUME NEW c \in Channels, ConnectLate(c) PROVE ServiceInv'
  BY <1>5 DEF ConnectLate
<1>6. ASSUME NEW c \in Channels, Listen(c) PROVE ServiceInv'
  BY <1>6 DEF Listen, Enter
<1>7. ASSUME NEW c \in Channels, Snapshot(c) PROVE ServiceInv'
  BY <1>7 DEF Snapshot, Enter
<1>8. ASSUME NEW c \in Channels, CommitSnapshot(c) PROVE ServiceInv'
  BY <1>8 DEF CommitSnapshot, Enter
<1>9. ASSUME NEW c \in Channels, StartStream(c) PROVE ServiceInv'
  BY <1>9 DEF StartStream, Enter
<1>10. ASSUME NEW c \in Channels, SendPulse(c) PROVE ServiceInv'
  BY <1>10 DEF SendPulse
<1>11. ASSUME NEW c \in Channels, NoticeInvalidation(c) PROVE ServiceInv'
  BY <1>11, CloseKeeps DEF NoticeInvalidation
<1>12. ASSUME NEW c \in Channels, NoticeDrop(c) PROVE ServiceInv'
  BY <1>12, CloseKeeps DEF NoticeDrop
<1>13. ASSUME NEW c \in Channels, GiveUp(c) PROVE ServiceInv'
  BY <1>13, CloseKeeps DEF GiveUp
<1>14. ASSUME NEW c \in Channels, EndService(c) PROVE ServiceInv'
  BY <1>14, CloseKeeps DEF EndService
<1>15. ASSUME NEW c \in Channels, NoticeHangUp(c) PROVE ServiceInv'
  BY <1>15, CloseKeeps DEF NoticeHangUp
<1>16. ASSUME NEW c \in Channels, DropConnection(c) PROVE ServiceInv'
  BY <1>16 DEF DropConnection
<1>17. ASSUME ChangeAuthority PROVE ServiceInv'
  <2>1. ServiceShape'
    BY <1>17 DEF ChangeAuthority, Invalidated, Listening, Generations
  <2>2. Subscribed'
    <3>. SUFFICES ASSUME NEW c \in Channels, phase[c] \in {"locked"} \cup Serving
                  PROVE notified'[c] \/ connection[c] = "dropped"
      BY <1>17 DEF ChangeAuthority
    <3>1. phase[c] \in Serving \/ connection[c] # "held"
      BY <1>17 DEF ChangeAuthority
    <3>2. connection[c] \in {"held", "dropped"}
      OBVIOUS
    <3>3. notified'[c] = (notified[c] \/ Listening(c))
      BY <1>17 DEF ChangeAuthority, Invalidated
    <3>. QED
      BY <3>1, <3>2, <3>3 DEF Listening
  <2>. QED
    BY <1>17, <2>1, <2>2 DEF ChangeAuthority
<1>18. ASSUME ChangeOther PROVE ServiceInv'
  BY <1>18 DEF ChangeOther, Invalidated, Listening
<1>19. ASSUME DisposeService PROVE ServiceInv'
  BY <1>19, CloseKeeps DEF DisposeService
<1>. QED
  BY <1>1, <1>2, <1>3, <1>4, <1>5, <1>6, <1>7, <1>8, <1>9, <1>10, <1>11, <1>12, <1>13, <1>14, <1>15, <1>16, <1>17, <1>18, <1>19 DEF ServiceNext, ServiceStep

\* It holds initially, and the client has no part in it.
LEMMA ServiceInvInit == Init => ServiceInv
BY DEF Init, ServiceInit, ServiceInv, ServiceShape, Connections, Subscribed, SlotsMatch,
       Opening, Serving, NoGeneration

LEMMA ServiceInvNext == ServiceInv /\ [Next]_vars => ServiceInv'
<1>1. ASSUME ServiceInv, UNCHANGED serviceVars PROVE ServiceInv'
  BY <1>1 DEF serviceVars, ServiceInv, ServiceShape, Connections, Subscribed, SlotsMatch,
              Opening, Serving
<1>2. [Next]_vars => ServiceNext \/ UNCHANGED serviceVars
  BY DEF Next, StatusAnswered, Breaks, vars
<1>. QED
  BY <1>1, <1>2, ServiceInvStep

\* Slots are only added by an admission, which tests the limit.
Bounded == Cardinality(occupied) <= ServiceLimit

LEMMA OccupiedGrowth ==
  ASSUME ServiceInv, ServiceNext
  PROVE  \/ occupied' \subseteq occupied
         \/ \E c \in Channels : Cardinality(occupied) < ServiceLimit /\ occupied' = occupied \cup {c}
BY DEF ServiceNext, ServiceStep, ChangeAuthority, ChangeOther, DisposeService, DropConnection,
  Admit, TurnAway, Connect, ConnectFails, ConnectLate, Listen, Snapshot, CommitSnapshot,
  StartStream, SendPulse, NoticeInvalidation, NoticeDrop, GiveUp, EndService, NoticeHangUp, Close

LEMMA BoundedStep == ASSUME ServiceInv, Bounded, ServiceNext PROVE Bounded'
<1>1. IsFiniteSet(occupied)
  BY ServiceAssumption, FS_Subset DEF ServiceInv, ServiceShape
<1>2. CASE occupied' \subseteq occupied
  <2>1. Cardinality(occupied') <= Cardinality(occupied)
    BY <1>1, <1>2, FS_Subset
  <2>2. Cardinality(occupied) \in Nat /\ Cardinality(occupied') \in Nat
    BY <1>1, <1>2, FS_Subset, FS_CardinalityType
  <2>. QED
    BY <2>1, <2>2, ServiceAssumption DEF Bounded
<1>3. ASSUME NEW c \in Channels, Cardinality(occupied) < ServiceLimit,
             occupied' = occupied \cup {c}
      PROVE  Bounded'
  <2>1. Cardinality(occupied) \in Nat
    BY <1>1, FS_CardinalityType
  <2>2. Cardinality(occupied') = IF c \in occupied THEN Cardinality(occupied)
                                                   ELSE Cardinality(occupied) + 1
    BY <1>1, <1>3, FS_AddElement
  <2>. QED
    BY <1>3, <2>1, <2>2, ServiceAssumption DEF Bounded
<1>. QED
  BY <1>2, <1>3, OccupiedGrowth

\* However acquisitions, timeouts, aborts, failures and shutdown interleave,
\* the slots taken are the connections held or awaited, within the limit.
THEOREM SlotsSafe == Spec => []ServiceSlotsAreConnections
<1>1. Init => ServiceInv /\ Bounded
  <2>1. Cardinality({}) = 0 /\ ServiceLimit \in Nat
    BY ServiceAssumption, FS_EmptySet
  <2>2. Init => occupied = {}
    BY DEF Init, ServiceInit
  <2>. QED
    BY ServiceInvInit, <2>1, <2>2 DEF Bounded
<1>2. ServiceInv /\ Bounded /\ [Next]_vars => (ServiceInv /\ Bounded)'
  <2>1. [Next]_vars => ServiceNext \/ UNCHANGED serviceVars
    BY DEF Next, StatusAnswered, Breaks, vars
  <2>2. ASSUME Bounded, UNCHANGED serviceVars PROVE Bounded'
    BY <2>2 DEF serviceVars, Bounded
  <2>. QED
    BY <2>1, <2>2, ServiceInvNext, BoundedStep
<1>3. ServiceInv /\ Bounded => ServiceSlotsAreConnections
  BY DEF ServiceInv, SlotsMatch, Bounded, ServiceSlotsAreConnections
<1>. QED
  BY <1>1, <1>2, <1>3, PTL DEF Spec

\* No invalidation is lost between the subscription and the snapshot, nor
\* after it, for a connection that lasts.
THEOREM InvalidationsReach == Spec => []NoMissedInvalidation
<1>1. ServiceInv => NoMissedInvalidation
  BY DEF ServiceInv, Subscribed, NoMissedInvalidation
<1>. QED
  BY <1>1, ServiceInvInit, ServiceInvNext, PTL DEF Spec

-----------------------------------------------------------------------------
(***************************************************************************)
(* The client side. ClientInv is inductive: an owner has attached only     *)
(* open channels (Entries), a fetch is pending where the stage says so     *)
(* (Fetches), and the invariants LeasesAgree and, for the set of slots,    *)
(* ClientSlots. The count of slots is kept by the lemmas about Waiting,    *)
(* the attempts that have no fetch yet.                                    *)
(***************************************************************************)

ClientShape ==
  /\ stage \in [Channels -> {"idle", "reserved", "hashing", "closed"} \cup Active]
  /\ fetchPending \in [Channels -> BOOLEAN]
  /\ clientOccupied \subseteq Channels
  /\ ident = [c \in Channels |-> ident[c]]
  /\ entry \in [Channels -> {"none", "opening", "attached", "dropped"}]
  /\ lease \in [Channels -> {"none", "held", "expired"}]
  /\ revoked = [w \in Owners |-> revoked[w]]

Entries ==
  \A c \in Channels :
    /\ entry[c] # "none" => OwnerOf[c] \in Owners
    /\ entry[c] = "attached" => stage[c] = "ready"
    /\ lease[c] # "none" => entry[c] = "attached"

Fetches ==
  \A c \in Channels :
    /\ stage[c] = "fetching" => fetchPending[c]
    /\ stage[c] \notin {"fetching", "closed"} => ~fetchPending[c]

OccupiedMatch == clientOccupied = {c \in Channels : fetchPending[c] \/ stage[c] \in Active}

\* LeasesAgree, channel by channel.
Agreement ==
  \A c, d \in Channels :
    lease[c] # "none" /\ lease[d] # "none" /\ OwnerOf[c] = OwnerOf[d] =>
      ident[c] = ident[d] /\ ident[c] \notin revoked[OwnerOf[c]]

ClientInv == ClientShape /\ Entries /\ Fetches /\ OccupiedMatch /\ Agreement

-----------------------------------------------------------------------------
\* Closing open channels and disconnecting owners keeps the invariant, even
\* for an owner whose revocations change with it.
LEMMA ClientCloseKeeps ==
  ASSUME ClientInv, NEW S \in SUBSET Channels, \A c \in S : stage[c] \in Active,
         NEW W \in SUBSET Owners, CloseChannels(S, W),
         revoked' = [w \in Owners |-> revoked'[w]],
         \A w \in Owners \ W : revoked'[w] = revoked[w]
  PROVE  ClientInv'
<1>. USE ClientAssumption DEF ClientInv, ClientShape, Entries, Active
<1>. DEFINE C == Closing(S, W)
            D == {c \in Channels : OwnerOf[c] \in Disconnecting(S, W)}
<1>1. C \subseteq Channels /\ \A c \in C : stage[c] \in Active
  BY DEF Closing, Attached, Owned
<1>2. \A c \in D : entry[c] = "attached" => c \in C
  BY DEF Closing, Attached, Owned
<1>3. \A c \in C : entry[c] = "attached" => c \in D
  BY DEF Closing, Attached, Owned, Disconnecting
<1>4. /\ stage' = [c \in Channels |-> IF c \in C THEN "closed" ELSE stage[c]]
      /\ clientOccupied' = clientOccupied \ Released(C)
      /\ ident' = [c \in Channels |-> IF c \in C THEN NoGeneration ELSE ident[c]]
      /\ entry' = [c \in Channels |-> IF c \in D /\ entry[c] # "none" THEN "dropped" ELSE entry[c]]
      /\ lease' = [c \in Channels |-> IF c \in D THEN "none" ELSE lease[c]]
      /\ fetchPending' = fetchPending
  BY DEF CloseChannels
<1>. HIDE DEF C, D
<1>5. ClientShape'
  BY <1>1, <1>4 DEF NoGeneration
<1>6. Entries'
  BY <1>1, <1>2, <1>3, <1>4
<1>7. Fetches'
  BY <1>1, <1>4 DEF Fetches
<1>8. OccupiedMatch'
  BY <1>1, <1>4 DEF OccupiedMatch, Released
<1>9. Agreement'
  <2>. SUFFICES ASSUME NEW c \in Channels, NEW d \in Channels,
                       lease'[c] # "none", lease'[d] # "none", OwnerOf[c] = OwnerOf[d]
                PROVE  ident'[c] = ident'[d] /\ ident'[c] \notin revoked'[OwnerOf[c]]
    BY DEF Agreement
  <2>1. c \notin D /\ d \notin D /\ lease[c] # "none" /\ lease[d] # "none"
    BY <1>4
  <2>2. c \notin C /\ d \notin C
    BY <1>3, <2>1
  <2>3. ident'[c] = ident[c] /\ ident'[d] = ident[d]
    BY <1>4, <2>2
  <2>4. OwnerOf[c] \in Owners \ W
    BY <2>1 DEF D, Disconnecting
  <2>. QED
    BY <2>1, <2>3, <2>4 DEF Agreement
<1>. QED
  BY <1>5, <1>6, <1>7, <1>8, <1>9

\* Retiring a generation and keeping leases of another one keeps it too.
LEMMA RetireKeeps ==
  ASSUME ClientInv, NEW w \in Owners, NEW g,
         NEW kept \in SUBSET {c \in Owned(w) : entry[c] = "attached"},
         \A c, d \in kept : ident[c] = ident[d] /\ ident[c] \notin revoked[w] /\ ident[c] # g,
         Retire(w, g, OnlyLease(w, kept) /\ TRUE)
  PROVE  ClientInv'
<1>1. revoked' = [revoked EXCEPT ![w] = @ \cup {g}]
  BY DEF Retire
<1>2. revoked' = [x \in Owners |-> revoked'[x]]
  BY <1>1 DEF ClientInv, ClientShape
<1>3. \A x \in Owners \ {w} : revoked'[x] = revoked[x]
  BY <1>1 DEF ClientInv, ClientShape
<1>4. revoked'[w] = revoked[w] \cup {g}
  BY <1>1 DEF ClientInv, ClientShape
<1>5. CASE CloseChannels({}, {w})
  BY <1>2, <1>3, <1>5, ClientCloseKeeps
<1>6. CASE OnlyLease(w, kept) /\ UNCHANGED <<transportVars, entry, ended, wireVars>>
  <2>. USE ClientAssumption DEF ClientInv, ClientShape, Entries, Fetches, OccupiedMatch, Agreement,
       transportVars
  <2>1. lease' = [d \in Channels |-> IF d \in kept THEN "held"
                                     ELSE IF d \in Owned(w) THEN "none" ELSE lease[d]]
    BY <1>6 DEF OnlyLease
  <2>2. ClientShape' /\ Fetches' /\ OccupiedMatch'
    BY <1>2, <1>6, <2>1
  <2>3. Entries'
    BY <1>6, <2>1 DEF Owned
  <2>4. Agreement'
    <3>. SUFFICES ASSUME NEW c \in Channels, NEW d \in Channels,
                         lease'[c] # "none", lease'[d] # "none", OwnerOf[c] = OwnerOf[d]
                  PROVE  ident[c] = ident[d] /\ ident[c] \notin revoked'[OwnerOf[c]]
      BY <1>6
    <3>1. CASE OwnerOf[c] = w
      <4>1. c \in kept /\ d \in kept
        BY <2>1, <3>1 DEF Owned
      <4>. QED
        BY <1>4, <3>1, <4>1
    <3>2. CASE OwnerOf[c] # w
      <4>1. c \notin kept /\ d \notin kept /\ c \notin Owned(w) /\ d \notin Owned(w)
        BY <3>2 DEF Owned
      <4>2. lease[c] # "none" /\ lease[d] # "none"
        BY <2>1, <4>1
      <4>3. OwnerOf[c] \in Owners \ {w}
        BY <3>2, <4>2
      <4>. QED
        BY <1>3, <4>2, <4>3
    <3>. QED
      BY <3>1, <3>2
  <2>. QED
    BY <2>2, <2>3, <2>4
<1>. QED
  BY <1>5, <1>6 DEF Retire

LEMMA ClientInvInit == Init => ClientInv
BY ClientAssumption DEF Init, ClientInit, ClientInv, ClientShape, Entries, Fetches,
  OccupiedMatch, Agreement, Active, NoGeneration

LEMMA ClientInvStep == ASSUME ClientInv, [Next]_vars PROVE ClientInv'
<1>. USE ClientAssumption DEF ClientInv, ClientShape, Entries, Fetches, OccupiedMatch, Agreement,
     Active, transportVars, ownerVars
<1>1. ASSUME NEW c \in Channels, Reserve(c) PROVE ClientInv'
  BY <1>1 DEF Reserve, Go
<1>2. ASSUME NEW c \in Channels, ReleaseTicket(c) PROVE ClientInv'
  BY <1>2 DEF ReleaseTicket, Go
<1>3. ASSUME NEW c \in Channels, OpenReserved(c) PROVE ClientInv'
  BY <1>3 DEF OpenReserved, Go
<1>4. ASSUME NEW c \in Channels, Prepare(c) PROVE ClientInv'
  BY <1>4 DEF Prepare, Go
<1>5. ASSUME NEW c \in Channels, StartFetch(c) PROVE ClientInv'
  BY <1>5 DEF StartFetch, Go
<1>6. ASSUME NEW c \in Channels, NoFetch(c) PROVE ClientInv'
  BY <1>6 DEF NoFetch, Go
<1>7. ASSUME NEW c \in Channels, Respond(c) PROVE ClientInv'
  BY <1>7 DEF Respond, Settled, Go
<1>8. ASSUME NEW c \in Channels, FetchFails(c) PROVE ClientInv'
  BY <1>8 DEF FetchFails, Settled, HangUp, Go
<1>9. ASSUME NEW c \in Channels, FetchSettlesLate(c) PROVE ClientInv'
  BY <1>9 DEF FetchSettlesLate, Settled, HangUp
<1>10. ASSUME NEW c \in Channels, ReadReady(c) PROVE ClientInv'
  BY <1>10 DEF ReadReady, Go
<1>11. ASSUME NEW c \in Channels, ReadPulse(c) PROVE ClientInv'
  BY <1>11 DEF ReadPulse, clientVars
<1>12. ASSUME NEW c \in Channels, Attach(c) PROVE ClientInv'
  BY <1>12 DEF Attach
<1>13. ASSUME NEW c \in Channels, AttachFails(c) PROVE ClientInv'
  BY <1>13 DEF AttachFails
<1>14. ASSUME NEW c \in Channels, BeginObservation(c) PROVE ClientInv'
  BY <1>14 DEF BeginObservation
<1>15. ASSUME NEW c \in Channels, Observe(c) PROVE ClientInv'
  <2>1. entry[c] = "attached" /\ ident[c] \notin revoked[OwnerOf[c]]
    BY <1>15 DEF Observe, Qualified
  <2>2. \A d \in Channels : OwnerOf[d] = OwnerOf[c] /\ lease[d] # "none" => ident[d] = ident[c]
    BY <1>15 DEF Observe, Qualified, OtherLeased, Leased, Owned
  <2>3. /\ lease' \in [Channels -> {"none", "held", "expired"}]
        /\ \A d \in Channels : lease'[d] # "none" => d = c \/ lease[d] # "none"
    BY <1>15 DEF Observe
  <2>. QED
    BY <1>15, <2>1, <2>2, <2>3 DEF Observe, Spent
<1>16. ASSUME NEW c \in Channels, NoObservation(c) PROVE ClientInv'
  BY <1>16 DEF NoObservation, Spent
<1>17. ASSUME NEW c \in Channels, LeaseExpires(c) PROVE ClientInv'
  BY <1>17 DEF LeaseExpires
<1>18. ASSUME NEW c \in Channels, StatusAnswered(c) PROVE ClientInv'
  BY <1>18 DEF StatusAnswered
<1>19. ASSUME NEW c \in Channels, ReadEnd(c) PROVE ClientInv'
  BY <1>19, ClientCloseKeeps DEF ReadEnd
<1>20. ASSUME NEW c \in Channels, ClientClose(c) PROVE ClientInv'
  BY <1>20, ClientCloseKeeps DEF ClientClose
<1>21. ASSUME NEW c \in Channels, AttachLate(c) PROVE ClientInv'
  BY <1>21, ClientCloseKeeps DEF AttachLate
<1>22. ASSUME NEW w \in Owners, DisconnectOwner(w) PROVE ClientInv'
  <2>1. revoked' = [x \in Owners |-> revoked'[x]]
    BY <1>22 DEF DisconnectOwner
  <2>2. \A x \in Owners \ {w} : revoked'[x] = revoked[x]
    BY <1>22 DEF DisconnectOwner
  <2>3. CloseChannels({}, {w})
    BY <1>22 DEF DisconnectOwner
  <2>. QED
    BY <2>1, <2>2, <2>3, ClientCloseKeeps
<1>23. ASSUME NEW w \in Owners, DisposeOwner(w) PROVE ClientInv'
  <2>1. revoked' = [x \in Owners |-> revoked'[x]]
    BY <1>23 DEF DisposeOwner
  <2>2. \A x \in Owners \ {w} : revoked'[x] = revoked[x]
    BY <1>23 DEF DisposeOwner
  <2>3. CloseChannels({}, {w})
    BY <1>23 DEF DisposeOwner
  <2>. QED
    BY <2>1, <2>2, <2>3, ClientCloseKeeps
<1>24. ASSUME DisposeTransport PROVE ClientInv'
  <2>. DEFINE S == {c \in Channels : stage[c] \in Active}
  <2>1. S \in SUBSET Channels /\ (\A c \in S : stage[c] \in Active) /\ CloseChannels(S, {})
    BY <1>24 DEF DisposeTransport
  <2>. HIDE DEF S
  <2>. QED
    BY <1>24, <2>1, ClientCloseKeeps DEF DisposeTransport
<1>25. ASSUME NEW c \in Channels, ObserveOther(c) PROVE ClientInv'
  <2>1. PICK d \in OtherLeased(c) :
          Retire(OwnerOf[c], ident[d], Spent(c) /\ OnlyLease(OwnerOf[c], {c}))
    BY <1>25 DEF ObserveOther
  <2>2. Retire(OwnerOf[c], ident[d], OnlyLease(OwnerOf[c], {c}) /\ TRUE)
    BY <2>1 DEF Retire
  <2>3. entry[c] = "attached" /\ OwnerOf[c] \in Owners
        /\ ident[c] \notin revoked[OwnerOf[c]] /\ ident[c] # ident[d]
    BY <1>25, <2>1 DEF ObserveOther, OtherLeased, Leased, Owned, Qualified
  <2>. QED
    BY RetireKeeps, <2>2, <2>3 DEF Owned
<1>26. ASSUME NEW c \in Channels, Revoke(c) PROVE ClientInv'
  <2>1. OwnerOf[c] \in Owners
    BY <1>26 DEF Revoke
  <2>2. Retire(OwnerOf[c], ident[c], OnlyLease(OwnerOf[c], {}) /\ TRUE)
    BY <1>26 DEF Revoke, Retire
  <2>. QED
    BY RetireKeeps, <2>1, <2>2
<1>27. CASE UNCHANGED clientVars
  BY <1>27 DEF clientVars
<1>. QED
  BY <1>1, <1>2, <1>3, <1>4, <1>5, <1>6, <1>7, <1>8, <1>9, <1>10, <1>11, <1>12, <1>13, <1>14, <1>15, <1>16, <1>17, <1>18, <1>19, <1>20, <1>21, <1>22, <1>23, <1>24, <1>25, <1>26, <1>27
  DEF Next, ClientNext, OpenStep, StreamStep, OwnerStep, Breaks, vars
-----------------------------------------------------------------------------
\* The attempts that hold a slot without a fetch, and what a step does to the
\* two counts: nothing but return fetched slots, take one, or give one up.
Waiting == {c \in Channels : stage[c] \in {"reserved", "hashing"}}

Kept == Waiting' = Waiting /\ opening' = opening /\ clientOccupied' \subseteq clientOccupied
Taken ==
  \E c \in Channels \ Waiting :
    /\ Waiting' = Waiting \cup {c} /\ opening' = opening + 1
    /\ clientOccupied' = clientOccupied
    /\ ~(Cardinality(clientOccupied) + opening >= ClientLimit)
Given ==
  \E c \in Waiting :
    /\ Waiting' = Waiting \ {c} /\ opening' = opening - 1
    /\ clientOccupied' \subseteq clientOccupied \cup {c}

CountInv == opening = Cardinality(Waiting) /\ Cardinality(clientOccupied) + opening <= ClientLimit

LEMMA CloseKeepsWaiting ==
  ASSUME ClientInv, NEW S \in SUBSET Channels, \A c \in S : stage[c] \in Active,
         NEW W \in SUBSET Owners, CloseChannels(S, W)
  PROVE  Kept
<1>1. \A c \in Closing(S, W) : stage[c] \in Active
  BY DEF Closing, Attached, Owned, ClientInv, Entries, Active
<1>. QED
  BY <1>1 DEF CloseChannels, Kept, Waiting, Active, ClientInv, ClientShape

LEMMA WaitingStep == ASSUME ClientInv, [Next]_vars PROVE Kept \/ Taken \/ Given
<1>. USE ClientAssumption DEF ClientInv, ClientShape, Entries, Active, Kept, Taken, Given, Waiting,
     transportVars
<1>1. ASSUME NEW c \in Channels, Reserve(c) PROVE Kept \/ Taken
  BY <1>1 DEF Reserve, Go, Full
<1>2. ASSUME NEW c \in Channels, ReleaseTicket(c) PROVE Kept \/ Given
  BY <1>2 DEF ReleaseTicket, Go
<1>3. ASSUME NEW c \in Channels, OpenReserved(c) PROVE Kept \/ Given
  BY <1>3 DEF OpenReserved, Go
<1>4. ASSUME NEW c \in Channels, Prepare(c) PROVE Kept \/ Taken
  BY <1>4 DEF Prepare, Go, Full
<1>5. ASSUME NEW c \in Channels, StartFetch(c) PROVE Kept \/ Given
  BY <1>5 DEF StartFetch, Go
<1>6. ASSUME NEW c \in Channels, NoFetch(c) PROVE Kept \/ Given
  BY <1>6 DEF NoFetch, Go
<1>7. ASSUME NEW c \in Channels, Respond(c) PROVE Kept
  BY <1>7 DEF Respond, Go
<1>8. ASSUME NEW c \in Channels, FetchFails(c) PROVE Kept
  BY <1>8 DEF FetchFails, Go
<1>9. ASSUME NEW c \in Channels, FetchSettlesLate(c) PROVE Kept
  BY <1>9 DEF FetchSettlesLate
<1>10. ASSUME NEW c \in Channels, ReadReady(c) PROVE Kept
  BY <1>10 DEF ReadReady, Go
<1>11. ASSUME NEW c \in Channels, ReadPulse(c) PROVE Kept
  BY <1>11 DEF ReadPulse, clientVars
<1>12. ASSUME NEW c \in Channels, Attach(c) PROVE Kept
  BY <1>12 DEF Attach
<1>13. ASSUME NEW c \in Channels, AttachFails(c) PROVE Kept
  BY <1>13 DEF AttachFails
<1>14. ASSUME NEW c \in Channels, BeginObservation(c) PROVE Kept
  BY <1>14 DEF BeginObservation
<1>15. ASSUME NEW c \in Channels, Observe(c) PROVE Kept
  BY <1>15 DEF Observe
<1>16. ASSUME NEW c \in Channels, NoObservation(c) PROVE Kept
  BY <1>16 DEF NoObservation
<1>17. ASSUME NEW c \in Channels, LeaseExpires(c) PROVE Kept
  BY <1>17 DEF LeaseExpires
<1>18. ASSUME NEW c \in Channels, StatusAnswered(c) PROVE Kept
  BY <1>18 DEF StatusAnswered
<1>19. ASSUME NEW c \in Channels, ReadEnd(c) PROVE Kept
  BY <1>19, CloseKeepsWaiting DEF ReadEnd
<1>20. ASSUME NEW c \in Channels, ClientClose(c) PROVE Kept
  BY <1>20, CloseKeepsWaiting DEF ClientClose
<1>21. ASSUME NEW c \in Channels, AttachLate(c) PROVE Kept
  BY <1>21, CloseKeepsWaiting DEF AttachLate
<1>22. ASSUME NEW w \in Owners, DisconnectOwner(w) PROVE Kept
  BY <1>22, CloseKeepsWaiting DEF DisconnectOwner
<1>23. ASSUME NEW w \in Owners, DisposeOwner(w) PROVE Kept
  BY <1>23, CloseKeepsWaiting DEF DisposeOwner
<1>24. ASSUME DisposeTransport PROVE Kept
  <2>. DEFINE S == {c \in Channels : stage[c] \in Active}
  <2>1. S \in SUBSET Channels /\ (\A c \in S : stage[c] \in Active) /\ CloseChannels(S, {})
    BY <1>24 DEF DisposeTransport
  <2>. HIDE DEF S
  <2>. QED
    BY <2>1, CloseKeepsWaiting
<1>25. ASSUME NEW c \in Channels, ObserveOther(c) PROVE Kept
  <2>1. CloseChannels({}, {OwnerOf[c]}) \/ UNCHANGED transportVars
    BY <1>25 DEF ObserveOther, Retire
  <2>2. OwnerOf[c] \in Owners
    BY <1>25 DEF ObserveOther, Qualified
  <2>3. CASE CloseChannels({}, {OwnerOf[c]})
    BY <2>2, <2>3, CloseKeepsWaiting
  <2>. QED
    BY <2>1, <2>3
<1>26. ASSUME NEW c \in Channels, Revoke(c) PROVE Kept
  <2>1. CloseChannels({}, {OwnerOf[c]}) \/ UNCHANGED transportVars
    BY <1>26 DEF Revoke, Retire
  <2>2. OwnerOf[c] \in Owners
    BY <1>26 DEF Revoke, Qualified
  <2>3. CASE CloseChannels({}, {OwnerOf[c]})
    BY <2>2, <2>3, CloseKeepsWaiting
  <2>. QED
    BY <2>1, <2>3
<1>27. CASE UNCHANGED clientVars
  BY <1>27 DEF clientVars
<1>. QED
  BY <1>1, <1>2, <1>3, <1>4, <1>5, <1>6, <1>7, <1>8, <1>9, <1>10, <1>11, <1>12, <1>13, <1>14, <1>15, <1>16, <1>17, <1>18, <1>19, <1>20, <1>21, <1>22, <1>23, <1>24, <1>25, <1>26, <1>27
  DEF Next, ClientNext, OpenStep, StreamStep, OwnerStep, Breaks, vars

LEMMA CountStep == ASSUME ClientInv, CountInv, [Next]_vars PROVE CountInv'
<1>1. IsFiniteSet(Waiting) /\ IsFiniteSet(clientOccupied)
  BY ClientAssumption, FS_Subset DEF Waiting, ClientInv, ClientShape
<1>2. /\ Cardinality(Waiting) \in Nat /\ Cardinality(clientOccupied) \in Nat
      /\ ClientLimit \in Nat
  BY <1>1, FS_CardinalityType, ClientAssumption
<1>3. CASE Kept
  <2>1. Cardinality(clientOccupied') <= Cardinality(clientOccupied)
        /\ IsFiniteSet(clientOccupied')
    BY <1>1, <1>3, FS_Subset DEF Kept
  <2>2. Cardinality(clientOccupied') \in Nat
    BY <2>1, FS_CardinalityType
  <2>. QED
    BY <1>2, <1>3, <2>1, <2>2 DEF Kept, CountInv
<1>4. CASE Taken
  <2>1. PICK c \in Channels \ Waiting :
          /\ Waiting' = Waiting \cup {c} /\ opening' = opening + 1
          /\ clientOccupied' = clientOccupied
          /\ ~(Cardinality(clientOccupied) + opening >= ClientLimit)
    BY <1>4 DEF Taken
  <2>2. Cardinality(Waiting') = Cardinality(Waiting) + 1
    BY <1>1, <2>1, FS_AddElement
  <2>. QED
    BY <1>2, <2>1, <2>2 DEF CountInv
<1>5. CASE Given
  <2>1. PICK c \in Waiting :
          /\ Waiting' = Waiting \ {c} /\ opening' = opening - 1
          /\ clientOccupied' \subseteq clientOccupied \cup {c}
    BY <1>5 DEF Given
  <2>2. Cardinality(Waiting') = Cardinality(Waiting) - 1
    BY <1>1, <2>1, FS_RemoveElement
  <2>3. /\ IsFiniteSet(clientOccupied \cup {c})
        /\ Cardinality(clientOccupied \cup {c})
             = IF c \in clientOccupied THEN Cardinality(clientOccupied)
                                       ELSE Cardinality(clientOccupied) + 1
    BY <1>1, FS_AddElement
  <2>4. /\ Cardinality(clientOccupied') <= Cardinality(clientOccupied \cup {c})
        /\ IsFiniteSet(clientOccupied')
    BY <2>1, <2>3, FS_Subset
  <2>5. Cardinality(clientOccupied') \in Nat
    BY <2>4, FS_CardinalityType
  <2>. QED
    BY <1>2, <2>1, <2>2, <2>3, <2>4, <2>5 DEF CountInv
<1>. QED
  BY <1>3, <1>4, <1>5, WaitingStep

\* The transport's slots are accounted for and within the limit, although the
\* limit is tested only when an attempt begins and a slot passes from the
\* count of openings to the set of fetches later.
THEOREM ClientSlotsSafe == Spec => []ClientSlots
<1>1. Init => CountInv
  <2>1. Cardinality({}) = 0 /\ ClientLimit \in Nat
    BY ClientAssumption, FS_EmptySet
  <2>2. Init => Waiting = {} /\ opening = 0 /\ clientOccupied = {}
    BY DEF Init, ClientInit, Waiting
  <2>. QED
    BY <2>1, <2>2 DEF CountInv
<1>2. ClientInv /\ CountInv /\ [Next]_vars => (ClientInv /\ CountInv)'
  BY ClientInvStep, CountStep
<1>3. ClientInv /\ CountInv => ClientSlots
  BY DEF ClientInv, OccupiedMatch, CountInv, Waiting, ClientSlots
<1>. QED
  BY ClientInvInit, <1>1, <1>2, <1>3, PTL DEF Spec

\* An owner vouches only under open channels of its own and for one generation
\* at a time, none that it has revoked.
THEOREM LeasesSafe == Spec => []LeasesAgree
<1>1. ClientInv => LeasesAgree
  BY DEF ClientInv, Entries, Agreement, LeasesAgree, Leased, Owned
<1>2. ClientInv /\ [Next]_vars => ClientInv'
  BY ClientInvStep
<1>. QED
  BY ClientInvInit, <1>1, <1>2, PTL DEF Spec

-----------------------------------------------------------------------------
(***************************************************************************)
(* The client never vouches for an outdated identity unless the news of    *)
(* it is under way. Link ties the two sides together: a ready frame, read  *)
(* or not, carries what the service still serves, or the end of the        *)
(* stream comes after it.                                                  *)
(***************************************************************************)

\* What matters of a sequence of frames.
NoReady(s) == \A i \in DOMAIN s : s[i].type # "ready"
AllReady(s, g) == \A i \in DOMAIN s : s[i].type = "ready" => s[i].generation = g
HasEnd(s) == \E i \in DOMAIN s : s[i] = Ended

WireShape ==
  /\ exchange \in [Channels -> {"none", "open", "hungUp", "broken"}]
  /\ frames \in [Channels -> Seq(Frame)]
  /\ snap \in [Channels -> Generations \cup {NoGeneration}]
  /\ generation \in Generations

\* Nothing is read of an exchange that is not open, and only closed channels
\* hang up.
Exchanges ==
  \A c \in Channels :
    /\ exchange[c] # "open" => frames[c] = <<>>
    /\ stage[c] \in Active => exchange[c] \in {"open", "broken"}

ServedOrEnded(c, g) ==
  \/ phase[c] = "streaming" /\ g = snap[c]
  \/ phase[c] = "closed" /\ HasEnd(frames[c])

Link ==
  \A c \in Channels :
    /\ \/ NoReady(frames[c])
       \/ phase[c] = "streaming" /\ AllReady(frames[c], snap[c])
       \/ phase[c] = "closed" /\ HasEnd(frames[c])
    /\ stage[c] = "ready" /\ exchange[c] = "open" => ServedOrEnded(c, ident[c])

VouchInv == WireShape /\ Exchanges /\ Link

-----------------------------------------------------------------------------
LEMMA FrameFacts ==
  /\ Pulse \in Frame /\ Ended \in Frame /\ Refused \in Frame
  /\ \A g \in Generations \cup {NoGeneration} :
       Ready(g) \in Frame /\ Ready(g).type = "ready" /\ Ready(g).generation = g
  /\ Pulse.type = "pulse" /\ Ended.type = "ended" /\ Refused.type = "refused"
BY DEF Pulse, Ended, Refused, Ready, Frame

LEMMA EmptyFacts == NoReady(<<>>) /\ <<>> \in Seq(Frame)
BY DEF NoReady

LEMMA AppendFacts ==
  ASSUME NEW s \in Seq(Frame), NEW f \in Frame
  PROVE  /\ Append(s, f) \in Seq(Frame)
         /\ NoReady(s) /\ f.type # "ready" => NoReady(Append(s, f))
         /\ \A g : AllReady(s, g) /\ (f.type = "ready" => f.generation = g)
                     => AllReady(Append(s, f), g)
         /\ NoReady(s) => \A g : AllReady(s, g)
         /\ HasEnd(s) \/ f = Ended => HasEnd(Append(s, f))
<1>. DEFINE a == Append(s, f)
<1>1. a \in Seq(Frame) /\ DOMAIN a = 1 .. Len(s) + 1 /\ Len(s) \in Nat /\ DOMAIN s = 1 .. Len(s)
  OBVIOUS
<1>2. \A i \in DOMAIN s : a[i] = s[i]
  BY <1>1
<1>3. a[Len(s) + 1] = f
  OBVIOUS
<1>. HIDE DEF a
<1>4. \A i \in DOMAIN a : i \in DOMAIN s \/ i = Len(s) + 1
  BY <1>1
<1>5. DOMAIN s \subseteq DOMAIN a /\ Len(s) + 1 \in DOMAIN a
  BY <1>1
<1>6. /\ NoReady(s) /\ f.type # "ready" => NoReady(a)
      /\ \A g : AllReady(s, g) /\ (f.type = "ready" => f.generation = g) => AllReady(a, g)
      /\ NoReady(s) => \A g : AllReady(s, g)
  BY <1>2, <1>3, <1>4 DEF NoReady, AllReady
<1>7. HasEnd(s) \/ f = Ended => HasEnd(a)
  BY <1>2, <1>3, <1>5 DEF HasEnd
<1>. QED
  BY <1>1, <1>6, <1>7 DEF a

LEMMA TailFacts ==
  ASSUME NEW s \in Seq(Frame), s # <<>>
  PROVE  /\ Tail(s) \in Seq(Frame)
         /\ NoReady(s) => NoReady(Tail(s)) /\ Head(s).type # "ready"
         /\ \A g : AllReady(s, g) =>
              AllReady(Tail(s), g) /\ (Head(s).type = "ready" => Head(s).generation = g)
         /\ HasEnd(s) /\ Head(s).type # "ended" => HasEnd(Tail(s))
<1>. DEFINE r == Tail(s)
<1>1. /\ r \in Seq(Frame) /\ Len(s) \in Nat /\ Len(s) > 0
      /\ DOMAIN r = 1 .. Len(s) - 1 /\ DOMAIN s = 1 .. Len(s)
      /\ Head(s) = s[1]
  OBVIOUS
<1>2. \A i \in DOMAIN r : r[i] = s[i + 1]
  OBVIOUS
<1>. HIDE DEF r
<1>3. 1 \in DOMAIN s /\ \A i \in DOMAIN r : i + 1 \in DOMAIN s
  BY <1>1
<1>4. \A i \in DOMAIN s : i # 1 => i - 1 \in DOMAIN r /\ r[i - 1] = s[i]
  BY <1>1, <1>2
<1>5. NoReady(s) => NoReady(r) /\ Head(s).type # "ready"
  BY <1>1, <1>2, <1>3 DEF NoReady
<1>6. \A g : AllReady(s, g) => AllReady(r, g) /\ (Head(s).type = "ready" => Head(s).generation = g)
  BY <1>1, <1>2, <1>3 DEF AllReady
<1>7. ASSUME HasEnd(s), Head(s).type # "ended" PROVE HasEnd(r)
  <2>1. PICK i \in DOMAIN s : s[i] = Ended
    BY <1>7 DEF HasEnd
  <2>2. i # 1
    BY <1>1, <1>7, <2>1, FrameFacts
  <2>. QED
    BY <1>4, <2>1, <2>2 DEF HasEnd
<1>. QED
  BY <1>1, <1>5, <1>6, <1>7 DEF r

-----------------------------------------------------------------------------
\* Closing by the service: whoever was served gets the end of the stream.
LEMMA ServiceCloseKeeps ==
  ASSUME VouchInv, ServiceInv, NEW S \in SUBSET Channels, \A c \in S : phase[c] # "closed",
         Close(S), UNCHANGED clientVars
  PROVE  VouchInv'
<1>. USE DEF VouchInv, clientVars, transportVars
<1>1. /\ phase' = [c \in Channels |-> IF c \in S THEN "closed" ELSE phase[c]]
      /\ snap' = [c \in Channels |-> IF c \in S THEN NoGeneration ELSE snap[c]]
      /\ generation' = generation /\ exchange' = exchange
  BY DEF Close
<1>2. ASSUME NEW c \in Channels, c \notin S PROVE frames'[c] = frames[c]
  BY <1>2 DEF Close
<1>3. ASSUME NEW c \in S
      PROVE  \E f \in {Ended, Refused} :
               /\ f = IF phase[c] = "streaming" THEN Ended ELSE Refused
               /\ frames'[c] = IF exchange[c] = "open" THEN Append(frames[c], f) ELSE frames[c]
  BY DEF Close, Written
<1>4. WireShape'
  <2>1. frames' \in [Channels -> Seq(Frame)]
    <3>1. ASSUME NEW c \in Channels PROVE frames'[c] \in Seq(Frame)
      <4>1. frames[c] \in Seq(Frame)
        BY DEF WireShape
      <4>2. \A f \in {Ended, Refused} : Append(frames[c], f) \in Seq(Frame)
        BY <4>1, FrameFacts, AppendFacts
      <4>3. CASE c \in S
        BY <1>3, <4>1, <4>2, <4>3
      <4>4. CASE c \notin S
        BY <1>2, <4>1, <4>4
      <4>. QED
        BY <4>3, <4>4
    <3>2. frames' = [c \in Channels |-> frames'[c]]
      BY DEF Close
    <3>. QED
      BY <3>1, <3>2
  <2>. QED
    BY <1>1, <2>1 DEF WireShape
<1>5. Exchanges'
  BY <1>1, <1>2, <1>3 DEF Exchanges
<1>6. Link'
  <2>. SUFFICES ASSUME NEW c \in Channels
                PROVE  /\ \/ NoReady(frames'[c])
                          \/ phase'[c] = "streaming" /\ AllReady(frames'[c], snap'[c])
                          \/ phase'[c] = "closed" /\ HasEnd(frames'[c])
                       /\ stage[c] = "ready" /\ exchange[c] = "open" =>
                            \/ phase'[c] = "streaming" /\ ident[c] = snap'[c]
                            \/ phase'[c] = "closed" /\ HasEnd(frames'[c])
    BY <1>1 DEF Link, ServedOrEnded
  <2>1. CASE c \notin S
    BY <1>1, <1>2, <2>1 DEF Link, ServedOrEnded
  <2>2. CASE c \in S /\ exchange[c] = "open"
    <3>1. PICK f \in {Ended, Refused} :
            /\ f = IF phase[c] = "streaming" THEN Ended ELSE Refused
            /\ frames'[c] = Append(frames[c], f)
      BY <1>3, <2>2
    <3>2. frames[c] \in Seq(Frame) /\ f \in Frame /\ f.type # "ready"
      BY FrameFacts DEF WireShape
    <3>3. /\ NoReady(frames[c]) => NoReady(frames'[c])
          /\ f = Ended => HasEnd(frames'[c])
      BY <3>1, <3>2, AppendFacts
    <3>. QED
      BY <1>1, <2>2, <3>1, <3>3 DEF Link, ServedOrEnded
  <2>3. CASE c \in S /\ exchange[c] # "open"
    BY <1>3, <2>3, EmptyFacts DEF Exchanges
  <2>. QED
    BY <2>1, <2>2, <2>3
<1>. QED
  BY <1>4, <1>5, <1>6

\* Writing one frame, on a channel whose service goes on.
LEMMA EmitKeeps ==
  ASSUME VouchInv, NEW c \in Channels, NEW f \in Frame, Emit(c, f),
         UNCHANGED <<clientVars, generation, snap, exchange>>,
         \/ phase[c] = "ready" /\ f = Ready(snap[c]) /\ phase' = [phase EXCEPT ![c] = "streaming"]
         \/ phase[c] = "streaming" /\ f = Pulse /\ phase' = phase
         \/ phase[c] = "acquiring" /\ f = Refused /\ phase' = [phase EXCEPT ![c] = "closed"],
         phase \in [Channels -> {"idle", "closed"} \cup Opening \cup Serving]
  PROVE  VouchInv'
<1>. USE DEF VouchInv, clientVars, transportVars
<1>1. frames' = [frames EXCEPT ![c] = IF exchange[c] = "open" THEN Append(@, f) ELSE @]
  BY DEF Emit, Written
<1>2. frames[c] \in Seq(Frame)
  BY DEF WireShape
<1>3. WireShape'
  BY <1>1, <1>2, AppendFacts DEF WireShape
<1>4. Exchanges'
  BY <1>1 DEF Exchanges, WireShape
<1>5. \A d \in Channels : d # c => frames'[d] = frames[d] /\ phase'[d] = phase[d]
  BY <1>1 DEF WireShape
<1>6. Link'
  <2>. SUFFICES ASSUME NEW d \in Channels
                PROVE  /\ \/ NoReady(frames'[d])
                          \/ phase'[d] = "streaming" /\ AllReady(frames'[d], snap[d])
                          \/ phase'[d] = "closed" /\ HasEnd(frames'[d])
                       /\ stage[d] = "ready" /\ exchange[d] = "open" =>
                            \/ phase'[d] = "streaming" /\ ident[d] = snap[d]
                            \/ phase'[d] = "closed" /\ HasEnd(frames'[d])
    BY DEF Link, ServedOrEnded
  <2>1. CASE d # c
    BY <1>5, <2>1 DEF Link, ServedOrEnded
  <2>2. CASE d = c /\ exchange[c] = "open"
    <3>1. frames'[c] = Append(frames[c], f)
      BY <1>1, <2>2 DEF WireShape
    <3>2. /\ NoReady(frames[c]) /\ f.type # "ready" => NoReady(frames'[c])
          /\ AllReady(frames[c], snap[c]) /\ (f.type = "ready" => f.generation = snap[c])
               => AllReady(frames'[c], snap[c])
          /\ NoReady(frames[c]) => AllReady(frames[c], snap[c])
      BY <1>2, <3>1, AppendFacts
    <3>3. /\ f = Ready(snap[c]) => f.generation = snap[c]
          /\ f = Pulse => f.type # "ready"
          /\ f = Refused => f.type # "ready"
      BY FrameFacts DEF WireShape
    <3>. QED
      BY <2>2, <3>2, <3>3 DEF Link, ServedOrEnded
  <2>3. CASE d = c /\ exchange[c] # "open"
    BY <1>1, <2>3, EmptyFacts DEF Exchanges, WireShape
  <2>. QED
    BY <2>1, <2>2, <2>3
<1>. QED
  BY <1>3, <1>4, <1>6

LEMMA ServiceStepKeeps ==
  ASSUME VouchInv, ServiceInv, ServiceNext, UNCHANGED clientVars PROVE VouchInv'
<1>. USE ServiceAssumption DEF VouchInv, WireShape, Exchanges, Link, ServedOrEnded, ServiceInv,
     ServiceShape, Connections, clientVars, transportVars, wireVars, Opening, Serving
<1>1. ASSUME NEW c \in Channels, Admit(c) PROVE VouchInv'
  BY <1>1 DEF Admit, Enter
<1>2. ASSUME NEW c \in Channels, Connect(c) PROVE VouchInv'
  BY <1>2 DEF Connect, Enter
<1>3. ASSUME NEW c \in Channels, Listen(c) PROVE VouchInv'
  BY <1>3 DEF Listen, Enter
<1>4. ASSUME NEW c \in Channels, Snapshot(c) PROVE VouchInv'
  BY <1>4 DEF Snapshot, Enter
<1>5. ASSUME NEW c \in Channels, CommitSnapshot(c) PROVE VouchInv'
  BY <1>5 DEF CommitSnapshot, Enter
<1>6. ASSUME NEW c \in Channels, ConnectLate(c) PROVE VouchInv'
  BY <1>6 DEF ConnectLate
<1>7. ASSUME NEW c \in Channels, DropConnection(c) PROVE VouchInv'
  BY <1>7 DEF DropConnection
<1>8. ASSUME ChangeAuthority PROVE VouchInv'
  BY <1>8 DEF ChangeAuthority, Generations
<1>9. ASSUME ChangeOther PROVE VouchInv'
  BY <1>9 DEF ChangeOther, Generations
<1>10. ASSUME NEW c \in Channels, ConnectFails(c) PROVE VouchInv'
  BY <1>10, EmitKeeps, FrameFacts DEF ConnectFails, Enter
<1>11. ASSUME NEW c \in Channels, StartStream(c) PROVE VouchInv'
  BY <1>11, EmitKeeps, FrameFacts DEF StartStream, Enter
<1>12. ASSUME NEW c \in Channels, SendPulse(c) PROVE VouchInv'
  BY <1>12, EmitKeeps, FrameFacts DEF SendPulse, Enter
<1>13. ASSUME NEW c \in Channels, TurnAway(c) PROVE VouchInv'
  BY <1>13, ServiceCloseKeeps DEF TurnAway
<1>14. ASSUME NEW c \in Channels, NoticeInvalidation(c) PROVE VouchInv'
  BY <1>14, ServiceCloseKeeps DEF NoticeInvalidation
<1>15. ASSUME NEW c \in Channels, NoticeDrop(c) PROVE VouchInv'
  BY <1>15, ServiceCloseKeeps DEF NoticeDrop
<1>16. ASSUME NEW c \in Channels, GiveUp(c) PROVE VouchInv'
  BY <1>16, ServiceCloseKeeps DEF GiveUp
<1>17. ASSUME NEW c \in Channels, EndService(c) PROVE VouchInv'
  BY <1>17, ServiceCloseKeeps DEF EndService
<1>18. ASSUME NEW c \in Channels, NoticeHangUp(c) PROVE VouchInv'
  BY <1>18, ServiceCloseKeeps DEF NoticeHangUp
<1>19. ASSUME DisposeService PROVE VouchInv'
  <2>. DEFINE S == {c \in Channels : phase[c] \in Opening \cup Serving}
  <2>1. S \in SUBSET Channels /\ (\A c \in S : phase[c] # "closed") /\ Close(S)
    BY <1>19 DEF DisposeService
  <2>. HIDE DEF S
  <2>. QED
    BY <2>1, ServiceCloseKeeps
<1>. QED
  BY <1>1, <1>2, <1>3, <1>4, <1>5, <1>6, <1>7, <1>8, <1>9, <1>10, <1>11, <1>12, <1>13, <1>14, <1>15, <1>16, <1>17, <1>18, <1>19 DEF ServiceNext, ServiceStep

-----------------------------------------------------------------------------
\* A step of the client that leaves the wire alone and opens nothing.
LEMMA QuietKeeps ==
  ASSUME VouchInv, UNCHANGED <<serviceVars, wireVars, ident>>,
         \A c \in Channels : stage'[c] \in Active =>
           stage'[c] = stage[c] \/ (stage[c] \in Active /\ stage'[c] # "ready")
  PROVE  VouchInv'
BY DEF VouchInv, WireShape, Exchanges, Link, ServedOrEnded, serviceVars, wireVars, Active

\* Channels hang up, and whoever does is closed.
LEMMA HangUpKeeps ==
  ASSUME VouchInv, UNCHANGED serviceVars, NEW H \in SUBSET Channels, HangUp(H),
         \A c \in H : stage'[c] = "closed",
         \A c \in Channels \ H :
           stage'[c] = "closed" \/ (stage'[c] = stage[c] /\ ident'[c] = ident[c])
  PROVE  VouchInv'
<1>. USE DEF VouchInv, serviceVars
<1>1. \A c \in H : frames'[c] = <<>> /\ exchange'[c] # "open"
  BY DEF HangUp
<1>2. \A c \in Channels \ H : frames'[c] = frames[c] /\ exchange'[c] = exchange[c]
  BY DEF HangUp
<1>3. WireShape'
  BY EmptyFacts DEF WireShape, HangUp
<1>4. Exchanges'
  BY <1>1, <1>2 DEF Exchanges, Active
<1>5. Link'
  <2>. SUFFICES ASSUME NEW c \in Channels
                PROVE  /\ \/ NoReady(frames'[c])
                          \/ phase[c] = "streaming" /\ AllReady(frames'[c], snap[c])
                          \/ phase[c] = "closed" /\ HasEnd(frames'[c])
                       /\ stage'[c] = "ready" /\ exchange'[c] = "open" =>
                            \/ phase[c] = "streaming" /\ ident'[c] = snap[c]
                            \/ phase[c] = "closed" /\ HasEnd(frames'[c])
    BY DEF Link, ServedOrEnded
  <2>1. CASE c \in H
    BY <1>1, <2>1, EmptyFacts
  <2>2. CASE c \notin H
    BY <1>2, <2>2 DEF Link, ServedOrEnded
  <2>. QED
    BY <2>1, <2>2
<1>. QED
  BY <1>3, <1>4, <1>5

LEMMA ClientCloseVouch ==
  ASSUME VouchInv, UNCHANGED serviceVars, NEW S \in SUBSET Channels, NEW W,
         CloseChannels(S, W)
  PROVE  VouchInv'
<1>. DEFINE C == Closing(S, W)
<1>1. C \in SUBSET Channels
  BY DEF Closing, Attached, Owned
<1>2. /\ stage' = [c \in Channels |-> IF c \in C THEN "closed" ELSE stage[c]]
      /\ ident' = [c \in Channels |-> IF c \in C THEN NoGeneration ELSE ident[c]]
      /\ \E I \in SUBSET (C \ Released(C)) : HangUp(C \ I)
  BY DEF CloseChannels
<1>. HIDE DEF C
<1>3. PICK I \in SUBSET (C \ Released(C)) : HangUp(C \ I)
  BY <1>2
<1>4. C \ I \in SUBSET Channels /\ \A c \in C \ I : stage'[c] = "closed"
  BY <1>1, <1>2
<1>5. \A c \in Channels \ (C \ I) :
        stage'[c] = "closed" \/ (stage'[c] = stage[c] /\ ident'[c] = ident[c])
  BY <1>2
<1>. DEFINE H == C \ I
<1>6. /\ H \in SUBSET Channels /\ HangUp(H) /\ \A c \in H : stage'[c] = "closed"
      /\ \A c \in Channels \ H :
           stage'[c] = "closed" \/ (stage'[c] = stage[c] /\ ident'[c] = ident[c])
  BY <1>3, <1>4, <1>5
<1>. HIDE DEF H
<1>. QED
  BY <1>6, HangUpKeeps

\* Reading one frame that is not the end of the stream.
LEMMA ReadKeeps ==
  ASSUME VouchInv, UNCHANGED <<serviceVars, exchange>>, NEW c \in Channels, Consume(c),
         frames[c] # <<>>, Head(frames[c]).type # "ended",
         \A d \in Channels \ {c} : stage'[d] = stage[d] /\ ident'[d] = ident[d],
         \/ stage[c] \in Active /\ stage'[c] = "ready"
              /\ Head(frames[c]).type = "ready" /\ ident'[c] = Head(frames[c]).generation
         \/ stage'[c] = stage[c] /\ ident'[c] = ident[c]
  PROVE  VouchInv'
<1>. USE DEF VouchInv, serviceVars
<1>1. frames[c] \in Seq(Frame)
  BY DEF WireShape
<1>2. frames' = [frames EXCEPT ![c] = Tail(frames[c])]
  BY DEF Consume
<1>3. Tail(frames[c]) \in Seq(Frame)
  BY <1>1, TailFacts
<1>4. WireShape'
  BY <1>2, <1>3 DEF WireShape
<1>5. Exchanges'
  BY <1>2 DEF Exchanges, WireShape, Active
<1>6. Link'
  <2>. SUFFICES ASSUME NEW d \in Channels
                PROVE  /\ \/ NoReady(frames'[d])
                          \/ phase[d] = "streaming" /\ AllReady(frames'[d], snap[d])
                          \/ phase[d] = "closed" /\ HasEnd(frames'[d])
                       /\ stage'[d] = "ready" /\ exchange[d] = "open" =>
                            \/ phase[d] = "streaming" /\ ident'[d] = snap[d]
                            \/ phase[d] = "closed" /\ HasEnd(frames'[d])
    BY DEF Link, ServedOrEnded
  <2>1. CASE d # c
    <3>1. frames'[d] = frames[d]
      BY <1>2, <2>1 DEF WireShape
    <3>. QED
      BY <2>1, <3>1 DEF Link, ServedOrEnded
  <2>2. CASE d = c
    <3>1. frames'[c] = Tail(frames[c])
      BY <1>2 DEF WireShape
    <3>2. /\ NoReady(frames[c]) => NoReady(frames'[c]) /\ Head(frames[c]).type # "ready"
          /\ AllReady(frames[c], snap[c]) =>
               /\ AllReady(frames'[c], snap[c])
               /\ Head(frames[c]).type = "ready" => Head(frames[c]).generation = snap[c]
          /\ HasEnd(frames[c]) => HasEnd(frames'[c])
      BY <1>1, <3>1, TailFacts
    <3>. QED
      BY <2>2, <3>2 DEF Link, ServedOrEnded
  <2>. QED
    BY <2>1, <2>2
<1>. QED
  BY <1>4, <1>5, <1>6

\* A step of the client keeps the invariant.
LEMMA ClientStepKeeps ==
  ASSUME VouchInv, ClientInv, ClientNext, UNCHANGED serviceVars PROVE VouchInv'
<1>. USE DEF ClientInv, ClientShape
<1>1. ASSUME NEW c \in Channels, Reserve(c) PROVE VouchInv'
  <2>1. \A d \in Channels : stage'[d] \in Active =>
           stage'[d] = stage[d] \/ (stage[d] \in Active /\ stage'[d] # "ready")
    BY <1>1 DEF Reserve, Go, Active
  <2>2. UNCHANGED <<serviceVars, wireVars, ident>>
    BY <1>1 DEF Reserve
  <2>. QED
    BY <2>1, <2>2, QuietKeeps
<1>2. ASSUME NEW c \in Channels, ReleaseTicket(c) PROVE VouchInv'
  <2>1. \A d \in Channels : stage'[d] \in Active =>
           stage'[d] = stage[d] \/ (stage[d] \in Active /\ stage'[d] # "ready")
    BY <1>2 DEF ReleaseTicket, Go, Active
  <2>2. UNCHANGED <<serviceVars, wireVars, ident>>
    BY <1>2 DEF ReleaseTicket
  <2>. QED
    BY <2>1, <2>2, QuietKeeps
<1>3. ASSUME NEW c \in Channels, OpenReserved(c) PROVE VouchInv'
  <2>1. \A d \in Channels : stage'[d] \in Active =>
           stage'[d] = stage[d] \/ (stage[d] \in Active /\ stage'[d] # "ready")
    BY <1>3 DEF OpenReserved, Go, Active
  <2>2. UNCHANGED <<serviceVars, wireVars, ident>>
    BY <1>3 DEF OpenReserved
  <2>. QED
    BY <2>1, <2>2, QuietKeeps
<1>4. ASSUME NEW c \in Channels, Prepare(c) PROVE VouchInv'
  <2>1. \A d \in Channels : stage'[d] \in Active =>
           stage'[d] = stage[d] \/ (stage[d] \in Active /\ stage'[d] # "ready")
    BY <1>4 DEF Prepare, Go, Active
  <2>2. UNCHANGED <<serviceVars, wireVars, ident>>
    BY <1>4 DEF Prepare
  <2>. QED
    BY <2>1, <2>2, QuietKeeps
<1>5. ASSUME NEW c \in Channels, NoFetch(c) PROVE VouchInv'
  <2>1. \A d \in Channels : stage'[d] \in Active =>
           stage'[d] = stage[d] \/ (stage[d] \in Active /\ stage'[d] # "ready")
    BY <1>5 DEF NoFetch, Go, Active
  <2>2. UNCHANGED <<serviceVars, wireVars, ident>>
    BY <1>5 DEF NoFetch
  <2>. QED
    BY <2>1, <2>2, QuietKeeps
<1>6. ASSUME NEW c \in Channels, Respond(c) PROVE VouchInv'
  <2>1. \A d \in Channels : stage'[d] \in Active =>
           stage'[d] = stage[d] \/ (stage[d] \in Active /\ stage'[d] # "ready")
    BY <1>6 DEF Respond, Go, Active
  <2>2. UNCHANGED <<serviceVars, wireVars, ident>>
    BY <1>6 DEF Respond
  <2>. QED
    BY <2>1, <2>2, QuietKeeps
<1>7. ASSUME NEW c \in Channels, StartFetch(c) PROVE VouchInv'
  BY <1>7 DEF StartFetch, Go, ownerVars, VouchInv, WireShape, Exchanges, Link, ServedOrEnded, serviceVars,
              Active
<1>8. ASSUME NEW c \in Channels, FetchFails(c) PROVE VouchInv'
  <2>1. HangUp({c}) /\ {c} \in SUBSET Channels /\ ident' = ident
        /\ stage' = [stage EXCEPT ![c] = "closed"]
    BY <1>8 DEF FetchFails, Go
  <2>. QED
    BY <2>1, HangUpKeeps
<1>9. ASSUME NEW c \in Channels, FetchSettlesLate(c) PROVE VouchInv'
  <2>1. HangUp({c}) /\ {c} \in SUBSET Channels /\ ident' = ident /\ stage' = stage
        /\ stage[c] = "closed"
    BY <1>9 DEF FetchSettlesLate
  <2>. QED
    BY <2>1, HangUpKeeps
<1>10. ASSUME NEW c \in Channels, ReadReady(c) PROVE VouchInv'
  <2>1. /\ Consume(c) /\ frames[c] # <<>> /\ Head(frames[c]).type = "ready"
        /\ stage[c] \in Active /\ exchange' = exchange
        /\ stage' = [stage EXCEPT ![c] = "ready"]
        /\ ident' = [ident EXCEPT ![c] = Head(frames[c]).generation]
    BY <1>10 DEF ReadReady, Arrives, Go, Active
  <2>. QED
    BY <2>1, ReadKeeps
<1>11. ASSUME NEW c \in Channels, ReadPulse(c) PROVE VouchInv'
  <2>1. /\ Consume(c) /\ frames[c] # <<>> /\ Head(frames[c]).type = "pulse"
        /\ exchange' = exchange /\ stage' = stage /\ ident' = ident
    BY <1>11 DEF ReadPulse, Arrives, clientVars, transportVars
  <2>. QED
    BY <2>1, ReadKeeps
<1>12. ASSUME NEW c \in Channels, ReadEnd(c) PROVE VouchInv'
  BY <1>12, ClientCloseVouch DEF ReadEnd
<1>13. ASSUME NEW c \in Channels, ClientClose(c) PROVE VouchInv'
  BY <1>13, ClientCloseVouch DEF ClientClose
<1>14. ASSUME NEW c \in Channels, AttachLate(c) PROVE VouchInv'
  BY <1>14, ClientCloseVouch DEF AttachLate
<1>15. ASSUME NEW w \in Owners, DisconnectOwner(w) PROVE VouchInv'
  BY <1>15, ClientCloseVouch DEF DisconnectOwner
<1>16. ASSUME NEW w \in Owners, DisposeOwner(w) PROVE VouchInv'
  BY <1>16, ClientCloseVouch DEF DisposeOwner
<1>17. ASSUME DisposeTransport PROVE VouchInv'
  BY <1>17, ClientCloseVouch DEF DisposeTransport
<1>18. ASSUME NEW c \in Channels,
              Attach(c) \/ AttachFails(c) \/ BeginObservation(c) \/ Observe(c)
                \/ NoObservation(c) \/ LeaseExpires(c)
       PROVE  VouchInv'
  <2>1. UNCHANGED <<transportVars, wireVars>>
    BY <1>18 DEF Attach, AttachFails, BeginObservation, Observe, NoObservation, LeaseExpires
  <2>. QED
    BY <2>1, QuietKeeps DEF transportVars
<1>19. ASSUME NEW c \in Channels, NEW g, NEW rest, Retire(OwnerOf[c], g, rest)
       PROVE  VouchInv'
  <2>1. CASE CloseChannels({}, {OwnerOf[c]})
    BY <2>1, ClientCloseVouch
  <2>2. CASE UNCHANGED <<transportVars, wireVars>>
    BY <2>2, QuietKeeps DEF transportVars
  <2>. QED
    BY <1>19, <2>1, <2>2 DEF Retire
<1>20. ASSUME NEW c \in Channels, ObserveOther(c) \/ Revoke(c) PROVE VouchInv'
  BY <1>19, <1>20 DEF ObserveOther, Revoke
<1>. QED
  BY <1>1, <1>2, <1>3, <1>4, <1>5, <1>6, <1>7, <1>8, <1>9, <1>10, <1>11, <1>12, <1>13, <1>14,
     <1>15, <1>16, <1>17, <1>18, <1>20 DEF ClientNext, OpenStep, StreamStep, OwnerStep

-----------------------------------------------------------------------------
LEMMA VouchInvInit == Init => VouchInv
BY ServiceAssumption, EmptyFacts
   DEF Init, WireInit, ServiceInit, ClientInit, VouchInv, WireShape, Exchanges, Link, Active,
       Generations

LEMMA VouchInvNext ==
  ASSUME VouchInv, ServiceInv, ClientInv, [Next]_vars PROVE VouchInv'
<1>1. CASE ServiceNext /\ UNCHANGED clientVars
  BY <1>1, ServiceStepKeeps
<1>2. CASE ClientNext /\ UNCHANGED serviceVars
  BY <1>2, ClientStepKeeps
<1>3. ASSUME NEW c \in Channels, StatusAnswered(c) PROVE VouchInv'
  <2>1. UNCHANGED <<transportVars, serviceVars, wireVars>>
    BY <1>3 DEF StatusAnswered
  <2>. QED
    BY <2>1, QuietKeeps DEF transportVars
<1>4. ASSUME NEW c \in Channels, Breaks(c) PROVE VouchInv'
  <2>. USE DEF VouchInv, serviceVars, clientVars, transportVars
  <2>1. /\ exchange' = [exchange EXCEPT ![c] = "broken"] /\ exchange[c] = "open"
        /\ frames' = [frames EXCEPT ![c] = <<>>]
        /\ UNCHANGED <<serviceVars, stage, ident>>
    BY <1>4 DEF Breaks, Cut
  <2>2. WireShape'
    BY <2>1, EmptyFacts DEF WireShape
  <2>3. Exchanges'
    BY <2>1 DEF Exchanges, WireShape
  <2>4. Link'
    BY <2>1, EmptyFacts DEF Link, ServedOrEnded, WireShape
  <2>. QED
    BY <2>2, <2>3, <2>4
<1>5. CASE UNCHANGED vars
  <2>1. UNCHANGED <<transportVars, serviceVars, wireVars>>
    BY <1>5 DEF vars, clientVars
  <2>. QED
    BY <2>1, QuietKeeps DEF transportVars
<1>. QED
  BY <1>1, <1>2, <1>3, <1>4, <1>5 DEF Next

\* What a ready channel was told is served, ended or cut off: if it is served,
\* the invariant of the service says that its invalidation is on its way.
LEMMA InvalidationUnderWay ==
  ASSUME VouchInv, ServiceInv, ClientInv PROVE VouchedIsCurrentOrInvalidated
BY DEF VouchInv, WireShape, Exchanges, Link, ServedOrEnded, HasEnd, ServiceInv, Subscribed,
  Serving, Active, Vouched, VouchedIsCurrentOrInvalidated

\* The client never vouches for an outdated identity (Vouched is what isCurrent
\* answers) without the news of it being under way to it.
THEOREM VouchedSafe == Spec => []VouchedIsCurrentOrInvalidated
<1>. DEFINE Inv == VouchInv /\ ServiceInv /\ ClientInv
<1>1. Init => Inv
  BY VouchInvInit, ServiceInvInit, ClientInvInit
<1>2. Inv /\ [Next]_vars => Inv'
  BY VouchInvNext, ServiceInvNext, ClientInvStep
<1>3. Inv => VouchedIsCurrentOrInvalidated
  BY InvalidationUnderWay
<1>. QED
  BY <1>1, <1>2, <1>3, PTL DEF Spec

-----------------------------------------------------------------------------
(***************************************************************************)
(* An owner that gave up a generation for another one never vouches for    *)
(* it again. Retired says where what an owner vouched for last can be:     *)
(* revoked or still leased; Keeping says what every step leaves of an      *)
(* owner's memory.                                                         *)
(***************************************************************************)

-----------------------------------------------------------------------------
\* What an owner gave up is revoked, or the owner has ended.  What it vouched
\* for last is revoked too, or still leased; while it was only let go of by
\* disconnecting, it is neither, and it is not remembered.
EndedShape == ended \in [Owners -> BOOLEAN]

Retired ==
  \A w \in Owners :
    /\ ended[w] => \A c \in Owned(w) : entry[c] \notin {"opening", "attached"}
    /\ ~ended[w] => /\ parted[w] \subseteq revoked[w]
                    /\ latest[w] \subseteq revoked[w] \cup {ident[c] : c \in Leased(w)}

\* What a step does to owner w, as far as its record is concerned.
Ending(w) == \A c \in Owned(w) : entry[c] \notin {"opening", "attached"}
Keeping(w) ==
  /\ ended'[w] \/ revoked[w] \subseteq revoked'[w]
  /\ ended[w] => ended'[w]
  /\ (ended[w] => Ending(w)) => (ended'[w] => Ending(w)')
  /\ Disconnects(w) => Leased(w)' = {}
  /\ \/ Disconnects(w) \/ ended'[w]
     \/ \A c \in Leased(w) :
          ident[c] \in revoked'[w] \/ \E d \in Leased(w)' : ident'[d] = ident[c]

LEMMA QuietOwner ==
  ASSUME NEW w \in Owners, UNCHANGED <<entry, lease, revoked, ended>>,
         \A c \in Channels : entry[c] = "attached" => ident'[c] = ident[c], Entries
  PROVE  Keeping(w)
<1>1. Leased(w)' = Leased(w) /\ Ending(w)' = Ending(w) /\ ~Disconnects(w)
  BY DEF Leased, Owned, Ending, Disconnects
<1>2. \A c \in Leased(w) : ident'[c] = ident[c]
  BY DEF Leased, Owned, Entries
<1>. QED
  BY <1>1, <1>2 DEF Keeping

\* Closing touches an owner only when it disconnects it.
LEMMA CloseOwner ==
  ASSUME ClientInv, NEW S \in SUBSET Channels, NEW W \in SUBSET Owners, CloseChannels(S, W),
         NEW w \in Owners, ended'[w] \/ revoked[w] \subseteq revoked'[w],
         ended[w] => ended'[w], w \in W \/ (ended'[w] = ended[w])
  PROVE  Keeping(w)
<1>. DEFINE D == {c \in Channels : OwnerOf[c] \in Disconnecting(S, W)}
<1>1. /\ entry' = [c \in Channels |-> IF c \in D /\ entry[c] # "none" THEN "dropped" ELSE entry[c]]
      /\ lease' = [c \in Channels |-> IF c \in D THEN "none" ELSE lease[c]]
      /\ ident' = [c \in Channels |-> IF c \in Closing(S, W) THEN NoGeneration ELSE ident[c]]
  BY DEF CloseChannels
<1>2. CASE w \in Disconnecting(S, W)
  <2>1. Owned(w) \subseteq D
    BY <1>2 DEF Owned
  <2>2. \A c \in Owned(w) : entry'[c] \in {"none", "dropped"}
    BY <1>1, <2>1 DEF Owned
  <2>3. \A c \in Leased(w) : entry[c] = "attached" /\ entry'[c] = "dropped" /\ c \in Owned(w)
    BY <1>1, <2>1 DEF Leased, Owned, ClientInv, Entries
  <2>4. Leased(w)' = {}
    BY <1>1, <2>1 DEF Leased, Owned
  <2>. QED
    BY <2>2, <2>3, <2>4 DEF Keeping, Ending, Disconnects
<1>3. CASE w \notin Disconnecting(S, W)
  <2>1. \A c \in Owned(w) : c \notin D /\ (entry[c] = "attached" => c \notin Closing(S, W))
    BY <1>3 DEF Owned, Closing, Attached, Disconnecting
  <2>2. \A c \in Owned(w) : entry'[c] = entry[c] /\ lease'[c] = lease[c]
    BY <1>1, <2>1 DEF Owned
  <2>3. w \notin W
    BY <1>3 DEF Disconnecting
  <2>4. \A c \in Leased(w) : c \in Leased(w)' /\ ident'[c] = ident[c]
    BY <1>1, <2>1, <2>2 DEF Leased, Owned, ClientInv, Entries
  <2>. QED
    BY <2>2, <2>3, <2>4 DEF Keeping, Ending, Disconnects
<1>. QED
  BY <1>2, <1>3

\* Retiring a generation, for what is leased beside it.
LEMMA RetireOwner ==
  ASSUME ClientInv, EndedShape, NEW v \in Owners, NEW g, NEW kept \in SUBSET Owned(v),
         Retire(v, g, OnlyLease(v, kept) /\ TRUE),
         \A c \in Leased(v) : ident[c] = g, NEW w \in Owners
  PROVE  Keeping(w)
<1>1. revoked' = [revoked EXCEPT ![v] = @ \cup {g}]
  BY DEF Retire
<1>2. revoked[w] \subseteq revoked'[w] /\ g \in revoked'[v]
  BY <1>1 DEF ClientInv, ClientShape
<1>3. CASE CloseChannels({}, {v}) /\ ended' = [ended EXCEPT ![v] = TRUE]
  <2>1. (ended[w] => ended'[w]) /\ (w \in {v} \/ ended'[w] = ended[w])
    BY <1>3 DEF EndedShape
  <2>. QED
    BY <1>2, <1>3, <2>1, CloseOwner
<1>4. CASE OnlyLease(v, kept) /\ UNCHANGED <<transportVars, entry, ended, wireVars>>
  <2>1. entry' = entry /\ ended' = ended /\ ident' = ident
    BY <1>4 DEF transportVars
  <2>2. Ending(w)' = Ending(w) /\ ~Disconnects(w)
    BY <2>1 DEF Ending, Owned, Disconnects
  <2>3. CASE w = v
    BY <1>2, <2>1, <2>2, <2>3 DEF Keeping
  <2>4. CASE w # v
    <3>1. \A c \in Leased(w) : c \in Leased(w)'
      BY <1>4, <2>4 DEF OnlyLease, Leased, Owned
    <3>. QED
      BY <1>2, <2>1, <2>2, <3>1 DEF Keeping
  <2>. QED
    BY <2>3, <2>4
<1>. QED
  BY <1>3, <1>4 DEF Retire

LEMMA OwnersKeep == ASSUME ClientInv, EndedShape, [Next]_vars, NEW w \in Owners PROVE Keeping(w)
<1>0. Entries
  BY DEF ClientInv
<1>1. ASSUME NEW c \in Channels,
             \/ Reserve(c) \/ ReleaseTicket(c) \/ OpenReserved(c) \/ StartFetch(c) \/ NoFetch(c)
             \/ Respond(c) \/ FetchFails(c) \/ FetchSettlesLate(c) \/ ReadPulse(c)
             \/ BeginObservation(c) \/ NoObservation(c) \/ StatusAnswered(c)
      PROVE  Keeping(w)
  <2>1. UNCHANGED <<entry, lease, revoked, ended, ident>>
    BY <1>1 DEF Reserve, ReleaseTicket, OpenReserved, StartFetch, NoFetch, Respond, FetchFails,
         FetchSettlesLate, ReadPulse, BeginObservation, NoObservation, StatusAnswered,
         transportVars, ownerVars, clientVars
  <2>. QED
    BY <1>0, <2>1, QuietOwner
<1>2. ASSUME NEW c \in Channels, ReadReady(c) PROVE Keeping(w)
  <2>1. UNCHANGED <<entry, lease, revoked, ended>> /\ stage[c] = "reading"
        /\ ident' = [ident EXCEPT ![c] = Head(frames[c]).generation]
    BY <1>2 DEF ReadReady, ownerVars
  <2>2. \A x \in Channels : entry[x] = "attached" => ident'[x] = ident[x]
    BY <2>1 DEF ClientInv, ClientShape, Entries
  <2>. QED
    BY <1>0, <2>1, <2>2, QuietOwner
<1>3. ASSUME NEW c \in Channels, Prepare(c) \/ Attach(c) \/ AttachFails(c) PROVE Keeping(w)
  <2>1. UNCHANGED <<lease, revoked, ended, ident>>
    BY <1>3 DEF Prepare, Attach, AttachFails, transportVars
  <2>2. Leased(w)' = Leased(w) /\ ~Disconnects(w)
    BY <1>3, <2>1 DEF Leased, Owned, Disconnects, Prepare, Attach, AttachFails, ClientInv, ClientShape
  <2>3. ASSUME ended[w], Ending(w) PROVE Ending(w)'
    BY <1>3, <2>3 DEF Prepare, Attach, AttachFails, Ending, Owned, ClientInv, ClientShape
  <2>. QED
    BY <2>1, <2>2, <2>3 DEF Keeping
<1>4. ASSUME NEW c \in Channels, LeaseExpires(c) PROVE Keeping(w)
  <2>1. UNCHANGED <<entry, revoked, ended, ident>> /\ lease' = [lease EXCEPT ![c] = "expired"]
    BY <1>4 DEF LeaseExpires, transportVars
  <2>2. /\ \A x \in Leased(w) : x \in Leased(w)'
        /\ Ending(w)' = Ending(w) /\ ~Disconnects(w)
    BY <2>1 DEF Leased, Owned, Ending, Disconnects, ClientInv, ClientShape
  <2>. QED
    BY <2>1, <2>2 DEF Keeping
<1>5. ASSUME NEW c \in Channels, Observe(c) PROVE Keeping(w)
  <2>1. /\ UNCHANGED <<entry, revoked, ended, ident>>
        /\ lease' = [d \in Channels |->
                       IF d = c THEN "held"
                       ELSE IF d \in Owned(OwnerOf[c]) /\ lease[d] = "expired" THEN "none"
                       ELSE lease[d]]
        /\ \A d \in Leased(OwnerOf[c]) : ident[d] = ident[c]
    BY <1>5 DEF Observe, transportVars, OtherLeased, Qualified
  <2>2. Ending(w)' = Ending(w) /\ ~Disconnects(w)
    BY <2>1 DEF Ending, Owned, Disconnects
  <2>3. CASE w = OwnerOf[c]
    <3>1. c \in Leased(w)'
      BY <2>1, <2>3 DEF Leased, Owned
    <3>. QED
      BY <2>1, <2>2, <2>3, <3>1 DEF Keeping
  <2>4. CASE w # OwnerOf[c]
    <3>1. \A x \in Leased(w) : x \in Leased(w)'
      BY <2>1, <2>4 DEF Leased, Owned
    <3>. QED
      BY <2>1, <2>2, <3>1 DEF Keeping
  <2>. QED
    BY <2>3, <2>4
<1>6. ASSUME NEW c \in Channels, ReadEnd(c) \/ ClientClose(c) \/ AttachLate(c) PROVE Keeping(w)
  <2>1. CloseChannels({c}, {}) /\ UNCHANGED <<revoked, ended>>
    BY <1>6 DEF ReadEnd, ClientClose, AttachLate
  <2>. QED
    BY <2>1, CloseOwner
<1>7. ASSUME NEW v \in Owners, DisconnectOwner(v) PROVE Keeping(w)
  <2>1. CloseChannels({}, {v}) /\ UNCHANGED <<revoked, ended>>
    BY <1>7 DEF DisconnectOwner
  <2>. QED
    BY <2>1, CloseOwner
<1>8. ASSUME NEW v \in Owners, DisposeOwner(v) PROVE Keeping(w)
  <2>1. /\ CloseChannels({}, {v}) /\ ended' = [ended EXCEPT ![v] = TRUE]
        /\ revoked' = [revoked EXCEPT ![v] = {}]
    BY <1>8 DEF DisposeOwner
  <2>2. w # v => ended'[w] = ended[w] /\ revoked'[w] = revoked[w]
    BY <2>1 DEF ClientInv, ClientShape, EndedShape
  <2>3. w = v => ended'[w]
    BY <2>1 DEF EndedShape
  <2>. QED
    BY <2>1, <2>2, <2>3, CloseOwner
<1>9. ASSUME DisposeTransport PROVE Keeping(w)
  <2>. DEFINE S == {c \in Channels : stage[c] \in Active}
  <2>1. S \in SUBSET Channels /\ CloseChannels(S, {}) /\ UNCHANGED <<revoked, ended>>
    BY <1>9 DEF DisposeTransport
  <2>. HIDE DEF S
  <2>. QED
    BY <2>1, CloseOwner
<1>10. ASSUME NEW c \in Channels, ObserveOther(c) PROVE Keeping(w)
  <2>1. PICK d \in OtherLeased(c) :
          Retire(OwnerOf[c], ident[d], Spent(c) /\ OnlyLease(OwnerOf[c], {c}))
    BY <1>10 DEF ObserveOther
  <2>2. Retire(OwnerOf[c], ident[d], OnlyLease(OwnerOf[c], {c}) /\ TRUE)
    BY <2>1 DEF Retire
  <2>3. OwnerOf[c] \in Owners /\ c \in Owned(OwnerOf[c])
    BY <1>10 DEF ObserveOther, Qualified, Owned, ClientInv, Entries
  <2>4. \A x \in Leased(OwnerOf[c]) : ident[x] = ident[d]
    BY <2>1 DEF OtherLeased, Leased, Owned, ClientInv, Agreement
  <2>. QED
    BY <2>2, <2>3, <2>4, RetireOwner
<1>11. ASSUME NEW c \in Channels, Revoke(c) PROVE Keeping(w)
  <2>1. Retire(OwnerOf[c], ident[c], OnlyLease(OwnerOf[c], {}) /\ TRUE)
    BY <1>11 DEF Revoke, Retire
  <2>2. OwnerOf[c] \in Owners
    BY <1>11 DEF Revoke, ClientInv, Entries
  <2>3. \A x \in Leased(OwnerOf[c]) : ident[x] = ident[c]
    BY <1>11 DEF Revoke, Leased, Owned, ClientInv, Agreement
  <2>. QED
    BY <2>1, <2>2, <2>3, RetireOwner
<1>12. CASE UNCHANGED clientVars
  BY <1>0, <1>12, QuietOwner DEF clientVars, transportVars, ownerVars
<1>. QED
  BY <1>1, <1>2, <1>3, <1>4, <1>5, <1>6, <1>7, <1>8, <1>9, <1>10, <1>11, <1>12
  DEF Next, ClientNext, OpenStep, StreamStep, OwnerStep, Breaks, vars

-----------------------------------------------------------------------------
VoicedMatch ==
  \A w \in Owners :
    /\ Voiced(w) \subseteq {ident[c] : c \in Leased(w)}
    /\ Voiced(w) \cap revoked[w] = {}
    /\ Voiced(w) # {} => {ident[c] : c \in Leased(w)} \subseteq Voiced(w)
    /\ Ending(w) => Voiced(w) = {}

LEMMA VoicedIsLeased == ClientInv => VoicedMatch
BY DEF VoicedMatch, Voiced, Vouched, Leased, Owned, ClientInv, Agreement, Ending

LEMMA RetiredStep ==
  ASSUME ClientInv, ClientInv', Retired, Remember, \A w \in Owners : Keeping(w) PROVE Retired'
<1>. SUFFICES ASSUME NEW w \in Owners
              PROVE  /\ ended'[w] => Ending(w)'
                     /\ ~ended'[w] =>
                          /\ parted'[w] \subseteq revoked'[w]
                          /\ latest'[w] \subseteq revoked'[w] \cup {ident'[c] : c \in Leased(w)'}
  BY DEF Retired, Ending
<1>. DEFINE voiced == Voiced(w)'
            leased == {ident[c] : c \in Leased(w)}
            leases == {ident'[c] : c \in Leased(w)'}
<1>1. ended'[w] => Ending(w)'
  BY DEF Keeping, Retired, Ending
<1>2. voiced \subseteq leases /\ (voiced # {} => leases \subseteq voiced)
  <2>1. ClientInv' => VoicedMatch'
    BY VoicedIsLeased, PTL
  <2>. QED
    BY <2>1 DEF VoicedMatch
<1>3. ASSUME ~ended'[w], ~Disconnects(w) PROVE leased \subseteq revoked'[w] \cup leases
  BY <1>3 DEF Keeping
<1>4. ~ended'[w] =>
        /\ parted[w] \subseteq revoked'[w]
        /\ latest[w] \subseteq revoked'[w] \cup leased
  BY DEF Keeping, Retired
<1>5. Disconnects(w) => voiced = {}
  BY <1>2 DEF Keeping
<1>6. /\ latest'[w] = IF Disconnects(w) THEN {} ELSE IF voiced = {} THEN latest[w] ELSE voiced
      /\ parted'[w] = IF voiced = {} THEN parted[w] ELSE parted[w] \cup (latest[w] \ voiced)
  BY DEF Remember
<1>. HIDE DEF voiced, leased, leases
<1>7. ~ended'[w] => parted'[w] \subseteq revoked'[w]
  BY <1>2, <1>3, <1>4, <1>5, <1>6
<1>8. ~ended'[w] => latest'[w] \subseteq revoked'[w] \cup leases
  BY <1>2, <1>3, <1>4, <1>6
<1>. QED
  BY <1>1, <1>7, <1>8 DEF leases
LEMMA EndedShapeStep == ASSUME EndedShape, [Next]_vars PROVE EndedShape'
BY DEF EndedShape, Next, vars, clientVars, ownerVars, ServiceNext, StatusAnswered, Breaks, ClientNext,
  OpenStep, StreamStep, OwnerStep, DisposeTransport, DisconnectOwner, DisposeOwner, Reserve,
  ReleaseTicket, OpenReserved, Prepare, StartFetch, NoFetch, Respond, FetchFails, FetchSettlesLate,
  ReadReady, ReadPulse, ReadEnd, ClientClose, Attach, AttachFails, AttachLate, BeginObservation,
  Observe, ObserveOther, NoObservation, LeaseExpires, Revoke, Retire

\* What an owner gave up for another generation it never vouches for again,
\* because it is revoked, and a revocation outlives what comes after it.
THEOREM GenerationsSafe == HistorySpec => []GenerationsNeverAlternate
<1>. DEFINE Inv == ClientInv /\ EndedShape /\ Retired
<1>1. HistoryInit => Inv
  <2>1. HistoryInit => ClientInv
    BY ClientInvInit DEF HistoryInit
  <2>2. HistoryInit => EndedShape /\ Retired
    BY DEF HistoryInit, Init, ClientInit, EndedShape, Retired
  <2>. QED
    BY <2>1, <2>2
<1>2. Inv /\ [Next /\ Remember]_<<vars, history>> => Inv'
  <2>1. ASSUME Inv, Next, Remember PROVE Inv'
    <3>1. ClientInv' /\ EndedShape'
      BY <2>1, ClientInvStep, EndedShapeStep
    <3>2. \A w \in Owners : Keeping(w)
      BY <2>1, OwnersKeep
    <3>. QED
      BY <2>1, <3>1, <3>2, RetiredStep
  <2>2. ASSUME Inv, UNCHANGED <<vars, history>> PROVE Inv'
    <3>1. ClientInv' /\ EndedShape'
      BY <2>2, ClientInvStep, EndedShapeStep
    <3>2. Retired'
      BY <2>2 DEF Retired, history, vars, clientVars, transportVars, ownerVars, Owned, Leased
    <3>. QED
      BY <3>1, <3>2
  <2>. QED
    BY <2>1, <2>2
<1>3. Inv => GenerationsNeverAlternate
  BY VoicedIsLeased DEF VoicedMatch, Retired, Ending, GenerationsNeverAlternate
<1>. QED
  BY <1>1, <1>2, <1>3, PTL DEF HistorySpec

=============================================================================
