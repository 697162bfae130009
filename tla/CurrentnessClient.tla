-------------------------- MODULE CurrentnessClient --------------------------
(***************************************************************************)
(* The extension's side of the identity currentness channels               *)
(* (extension/core/ai-usage/client-identity-currentness-transport.js,      *)
(* maintenance-identity-currentness.js, identity-currentness-hub.js): one  *)
(* transport with a few slots, shared by owners, each of which vouches for *)
(* the identities observed under its channels, and by callers that open a  *)
(* channel of their own with a ticket reserved beforehand.                 *)
(*                                                                         *)
(* One step is what runs between two awaits.  A channel is opened for one  *)
(* operation and never again.  The identity of a channel or an observation *)
(* is the generation it carries.                                           *)
(***************************************************************************)
EXTENDS CurrentnessWire, FiniteSets

CONSTANTS
  Owners,        \* owners of channels, one per paid client
  OwnerOf,       \* OwnerOf[c]: who opens channel c, or Nobody for a ticket
  Nobody,
  ClientLimit,   \* slots of the transport
  RevokedLimit   \* generations an owner remembers as revoked

VARIABLES
  stage,             \* stage[c]: how far the attempt is
  fetchPending,      \* fetchPending[c]: its fetch has not settled
  opening,           \* the transport's count of attempts without a fetch
  clientOccupied,    \* the transport's set of slots with a fetch or channel
  ident,             \* ident[c]: the generation of its ready frame
  transportDisposed,
  entry,             \* entry[c]: its place in its owner's channels
  ticket,            \* ticket[c]: an observation ticket is pending
  answer,            \* answer[c]: the generation a status query answered with
  lease,             \* lease[c]: what its owner vouches for
  revoked,           \* revoked[w]: generations w never vouches for again
  ended              \* ended[w]: w is disposed

transportVars == <<stage, fetchPending, opening, clientOccupied, ident, transportDisposed>>
ownerVars == <<entry, ticket, answer, lease, revoked, ended>>
clientVars == <<transportVars, ownerVars>>

ASSUME ClientAssumption ==
  /\ IsFiniteSet(Channels) /\ Nobody \notin Owners
  /\ OwnerOf \in [Channels -> Owners \cup {Nobody}]
  /\ ClientLimit \in Nat /\ RevokedLimit \in Nat

Owned(w) == {c \in Channels : OwnerOf[c] = w}
Active == {"fetching", "reading", "ready"}
Full == Cardinality(clientOccupied) + opening >= ClientLimit
Attached(w) == {c \in Owned(w) : entry[c] = "attached"}

ClientInit ==
  /\ stage = [c \in Channels |-> "idle"]
  /\ fetchPending = [c \in Channels |-> FALSE]
  /\ opening = 0
  /\ clientOccupied = {}
  /\ ident = [c \in Channels |-> NoGeneration]
  /\ transportDisposed = FALSE
  /\ entry = [c \in Channels |-> "none"]
  /\ ticket = [c \in Channels |-> FALSE]
  /\ answer = [c \in Channels |-> NoGeneration]
  /\ lease = [c \in Channels |-> "none"]
  /\ revoked = [w \in Owners |-> {}]
  /\ ended = [w \in Owners |-> FALSE]

Go(c, next) == stage' = [stage EXCEPT ![c] = next]

\* The identity of channel c is what its owner answers "current" for.
Vouched(c) == lease[c] = "held" /\ entry[c] = "attached" /\ stage[c] = "ready"

-----------------------------------------------------------------------------
\* Closing.  When an attached channel closes, its owner disconnects: it closes
\* all it has attached, forgets what it has not, and vouches for nothing.

Disconnecting(S, W) == W \cup {OwnerOf[c] : c \in {d \in S : entry[d] = "attached"}}
Closing(S, W) == S \cup UNION {Attached(w) : w \in Disconnecting(S, W)}

\* The slot of a fetch that has not settled stays taken.
Released(C) == {c \in C : ~fetchPending[c]}

\* The channels S close and the owners W disconnect.  A fetch that has not
\* settled may ignore the signal that it should.
CloseChannels(S, W) ==
  LET C == Closing(S, W)
      D == {c \in Channels : OwnerOf[c] \in Disconnecting(S, W)}
  IN /\ stage' = [c \in Channels |-> IF c \in C THEN "closed" ELSE stage[c]]
     /\ clientOccupied' = clientOccupied \ Released(C)
     /\ \E I \in SUBSET (C \ Released(C)) : HangUp(C \ I)
     /\ ident' = [c \in Channels |-> IF c \in C THEN NoGeneration ELSE ident[c]]
     /\ entry' = [c \in Channels |-> IF c \in D /\ entry[c] # "none" THEN "dropped" ELSE entry[c]]
     /\ ticket' = [c \in Channels |-> ticket[c] /\ c \notin D]
     /\ answer' = [c \in Channels |-> IF c \in D THEN NoGeneration ELSE answer[c]]
     /\ lease' = [c \in Channels |-> IF c \in D THEN "none" ELSE lease[c]]
     /\ UNCHANGED <<fetchPending, opening>>

\* A timer, the expiry, a bad frame, a clock that goes back, or the caller.
ClientClose(c) ==
  /\ stage[c] \in Active
  /\ CloseChannels({c}, {})
  /\ UNCHANGED <<transportDisposed, revoked, ended>>

\* The host asks an owner, or all of them, to start over.
DisconnectOwner(w) ==
  /\ CloseChannels({}, {w})
  /\ UNCHANGED <<transportDisposed, revoked, ended>>

DisposeOwner(w) ==
  /\ ~ended[w] \/ revoked[w] # {}
  /\ ended' = [ended EXCEPT ![w] = TRUE]
  /\ revoked' = [revoked EXCEPT ![w] = {}]
  /\ CloseChannels({}, {w})
  /\ UNCHANGED <<transportDisposed>>

DisposeTransport ==
  /\ ~transportDisposed /\ transportDisposed' = TRUE
  /\ CloseChannels({c \in Channels : stage[c] \in Active}, {})
  /\ UNCHANGED <<revoked, ended>>

-----------------------------------------------------------------------------
\* Opening.

\* A slot is reserved while the proofs for the request are fetched.
Reserve(c) ==
  /\ stage[c] = "idle" /\ OwnerOf[c] = Nobody
  /\ IF transportDisposed \/ Full THEN Go(c, "closed") /\ UNCHANGED opening
                                  ELSE Go(c, "reserved") /\ opening' = opening + 1
  /\ UNCHANGED <<fetchPending, clientOccupied, ident, transportDisposed, ownerVars, wireVars>>

ReleaseTicket(c) ==
  /\ stage[c] = "reserved"
  /\ Go(c, "closed") /\ opening' = opening - 1
  /\ UNCHANGED <<fetchPending, clientOccupied, ident, transportDisposed, ownerVars, wireVars>>

OpenReserved(c) ==
  /\ stage[c] = "reserved"
  /\ IF transportDisposed THEN Go(c, "closed") /\ opening' = opening - 1
                          ELSE Go(c, "hashing") /\ UNCHANGED opening
  /\ UNCHANGED <<fetchPending, clientOccupied, ident, transportDisposed, ownerVars, wireVars>>

\* An owner opens the channel of an operation, once.
Prepare(c) ==
  /\ stage[c] = "idle" /\ OwnerOf[c] \in Owners /\ ~ended[OwnerOf[c]]
  /\ entry' = [entry EXCEPT ![c] = "opening"]
  /\ IF transportDisposed \/ Full THEN Go(c, "closed") /\ UNCHANGED opening
                                  ELSE Go(c, "hashing") /\ opening' = opening + 1
  /\ UNCHANGED <<fetchPending, clientOccupied, ident, transportDisposed,
                 ticket, answer, lease, revoked, ended, wireVars>>

\* The request is hashed, the slot becomes that of a fetch.
StartFetch(c) ==
  /\ stage[c] = "hashing"
  /\ ~transportDisposed /\ Cardinality(clientOccupied) < ClientLimit
  /\ Go(c, "fetching") /\ opening' = opening - 1
  /\ fetchPending' = [fetchPending EXCEPT ![c] = TRUE]
  /\ clientOccupied' = clientOccupied \cup {c}
  /\ exchange' = [exchange EXCEPT ![c] = "open"]
  /\ UNCHANGED <<ident, transportDisposed, ownerVars, frames>>

\* The request is unusable, or the transport was disposed meanwhile.
NoFetch(c) ==
  /\ stage[c] = "hashing"
  /\ Go(c, "closed") /\ opening' = opening - 1
  /\ UNCHANGED <<fetchPending, clientOccupied, ident, transportDisposed, ownerVars, wireVars>>

-----------------------------------------------------------------------------
\* The fetch and its stream.

Settled(c) == fetchPending' = [fetchPending EXCEPT ![c] = FALSE]

Respond(c) ==
  /\ stage[c] = "fetching" /\ Arrives(c, "ready")
  /\ Settled(c) /\ Go(c, "reading")
  /\ UNCHANGED <<opening, clientOccupied, ident, transportDisposed, ownerVars, wireVars>>

FetchFails(c) ==
  /\ stage[c] = "fetching" /\ (exchange[c] = "broken" \/ Arrives(c, "refused"))
  /\ Settled(c) /\ Go(c, "closed")
  /\ clientOccupied' = clientOccupied \ {c}
  /\ HangUp({c})
  /\ UNCHANGED <<opening, ident, transportDisposed, ownerVars>>

\* The fetch of a channel that closed before settles, one way or the other.
SettlesForNothing(c) ==   \* mutant
  /\ stage[c] = "closed" /\ fetchPending[c]
  /\ exchange[c] # "open" \/ frames[c] # <<>>
  /\ Settled(c) /\ HangUp({c})
  /\ UNCHANGED <<stage, opening, clientOccupied, ident, transportDisposed, ownerVars>>
FetchSettlesLate(c) ==
  /\ stage[c] = "closed" /\ fetchPending[c]
  /\ exchange[c] # "open" \/ frames[c] # <<>>
  /\ Settled(c)
  /\ clientOccupied' = clientOccupied \ {c}
  /\ HangUp({c})
  /\ UNCHANGED <<stage, opening, ident, transportDisposed, ownerVars>>

ReadReady(c) ==
  /\ stage[c] = "reading" /\ Arrives(c, "ready")
  /\ Consume(c) /\ Go(c, "ready")
  /\ ident' = [ident EXCEPT ![c] = Head(frames[c]).generation]
  /\ UNCHANGED <<fetchPending, opening, clientOccupied, transportDisposed, ownerVars, exchange>>

ReadPulse(c) ==
  /\ stage[c] = "ready" /\ Arrives(c, "pulse")
  /\ Consume(c)
  /\ UNCHANGED <<clientVars, exchange>>

ReadEndAsPulse(c) ==   \* mutant
  /\ stage[c] \in {"reading", "ready"} /\ Arrives(c, "ended")
  /\ Consume(c)
  /\ UNCHANGED <<clientVars, exchange>>
ReadEnd(c) ==
  /\ stage[c] \in {"reading", "ready"} /\ Arrives(c, "ended")
  /\ CloseChannels({c}, {})
  /\ UNCHANGED <<transportDisposed, revoked, ended>>

-----------------------------------------------------------------------------
\* The owner learns how the opening of its channel went.

Attach(c) ==
  /\ entry[c] = "opening" /\ stage[c] = "ready"
  /\ entry' = [entry EXCEPT ![c] = "attached"]
  /\ UNCHANGED <<transportVars, ticket, answer, lease, revoked, ended, wireVars>>

AttachFails(c) ==
  /\ entry[c] = "opening" /\ stage[c] = "closed"
  /\ entry' = [entry EXCEPT ![c] = "none"]
  /\ UNCHANGED <<transportVars, ticket, answer, lease, revoked, ended, wireVars>>

\* Its owner has disconnected since.
AttachLate(c) ==
  /\ entry[c] = "dropped" /\ stage[c] = "ready"
  /\ CloseChannels({c}, {})
  /\ UNCHANGED <<transportDisposed, revoked, ended>>

-----------------------------------------------------------------------------
\* Observations: a ticket, a status query made with it, and its answer.

\* A query may begin as soon as its owner is connected, by any channel.
BeginObservation(c) ==
  /\ Attached(OwnerOf[c]) # {} /\ ~ticket[c]
  /\ ticket' = [ticket EXCEPT ![c] = TRUE]
  /\ UNCHANGED <<transportVars, entry, answer, lease, revoked, ended, wireVars>>

Spent(c) ==
  /\ ticket' = [ticket EXCEPT ![c] = FALSE]
  /\ answer' = [answer EXCEPT ![c] = NoGeneration]

\* The owner never accepts an answer that is not the channel's own identity.
Qualified(c) ==
  /\ entry[c] = "attached" /\ answer[c] = ident[c]
  /\ answer[c] \notin revoked[OwnerOf[c]]

Leased(w) == {c \in Owned(w) : lease[c] # "none"}
OtherLeased(c) == {d \in Leased(OwnerOf[c]) : ident[d] # answer[c]}

\* The owner vouches for the identity, and forgets what has expired.  While it
\* vouches for the channel already the answer is refused, which changes nothing.
Observe(c) ==
  /\ ticket[c] /\ answer[c] # NoGeneration /\ Qualified(c) /\ OtherLeased(c) = {}
  /\ Spent(c)
  /\ lease' = [d \in Channels |->
                 IF d = c THEN "held"
                 ELSE IF d \in Owned(OwnerOf[c]) /\ lease[d] = "expired" THEN "none"
                 ELSE lease[d]]
  /\ UNCHANGED <<transportVars, entry, revoked, ended, wireVars>>

\* Owner w never vouches for g again; one that has retired too many ends.
\* Otherwise the rest of the handler goes on.
Retire(w, g, rest) ==
  /\ revoked' = [revoked EXCEPT ![w] = @ \cup {g}]
  /\ IF Cardinality(revoked[w] \cup {g}) > RevokedLimit
     THEN /\ ended' = [ended EXCEPT ![w] = TRUE]
          /\ CloseChannels({}, {w})
          /\ UNCHANGED transportDisposed
     ELSE rest /\ UNCHANGED <<transportVars, entry, ended, wireVars>>

\* What w vouches for when it has let go of everything but kept.
OnlyLease(w, kept) ==
  lease' = [d \in Channels |-> IF d \in kept THEN "held"
                               ELSE IF d \in Owned(w) THEN "none" ELSE lease[d]]

\* The observation is of another generation than those before it, which are
\* retired with it.
ObserveBeside(c) ==   \* mutant
  /\ ticket[c] /\ answer[c] # NoGeneration /\ Qualified(c)
  /\ \E d \in OtherLeased(c) :
       Retire(OwnerOf[c], ident[d], Spent(c) /\ lease' = [lease EXCEPT ![c] = "held"])
ObserveInstead(c) ==   \* mutant
  /\ ticket[c] /\ answer[c] # NoGeneration /\ Qualified(c) /\ OtherLeased(c) # {}
  /\ Spent(c) /\ OnlyLease(OwnerOf[c], {c})
  /\ UNCHANGED <<transportVars, entry, revoked, ended, wireVars>>
ObserveOther(c) ==
  /\ ticket[c] /\ answer[c] # NoGeneration /\ Qualified(c)
  /\ \E d \in OtherLeased(c) :
       Retire(OwnerOf[c], ident[d], Spent(c) /\ OnlyLease(OwnerOf[c], {c}))

\* No answer, or one that is not acceptable.
NoObservation(c) ==
  /\ ticket[c]
  /\ answer[c] = NoGeneration \/ ~Qualified(c)
  /\ Spent(c)
  /\ UNCHANGED <<transportVars, entry, lease, revoked, ended, wireVars>>

\* The validity of a status answer ends before that of the channel.
LeaseExpires(c) ==
  /\ lease[c] = "held"
  /\ lease' = [lease EXCEPT ![c] = "expired"]
  /\ UNCHANGED <<transportVars, entry, ticket, answer, revoked, ended, wireVars>>

\* The client met an answer that contradicts the identity of operation c.
Revoke(c) ==
  /\ lease[c] # "none"
  /\ Retire(OwnerOf[c], ident[c], OnlyLease(OwnerOf[c], {}) /\ UNCHANGED <<ticket, answer>>)

-----------------------------------------------------------------------------
OpenStep(c) ==
  \/ Reserve(c) \/ ReleaseTicket(c) \/ OpenReserved(c) \/ Prepare(c)
  \/ StartFetch(c) \/ NoFetch(c)
StreamStep(c) ==
  \/ Respond(c) \/ FetchFails(c) \/ FetchSettlesLate(c)
  \/ ReadReady(c) \/ ReadPulse(c) \/ ReadEnd(c) \/ ClientClose(c)
OwnerStep(c) ==
  \/ Attach(c) \/ AttachFails(c) \/ AttachLate(c)
  \/ BeginObservation(c) \/ Observe(c) \/ ObserveOther(c) \/ NoObservation(c)
  \/ LeaseExpires(c) \/ Revoke(c)

ClientNext ==
  \/ DisposeTransport
  \/ \E w \in Owners : DisconnectOwner(w) \/ DisposeOwner(w)
  \/ \E c \in Channels : OpenStep(c) \/ StreamStep(c) \/ OwnerStep(c)

-----------------------------------------------------------------------------
ClientTypeOK ==
  /\ stage \in [Channels -> {"idle", "reserved", "hashing", "closed"} \cup Active]
  /\ fetchPending \in [Channels -> BOOLEAN]
  /\ opening \in 0 .. ClientLimit
  /\ clientOccupied \subseteq Channels
  /\ ident \in [Channels -> Generations \cup {NoGeneration}]
  /\ transportDisposed \in BOOLEAN
  /\ entry \in [Channels -> {"none", "opening", "attached", "dropped"}]
  /\ ticket \in [Channels -> BOOLEAN]
  /\ answer \in [Channels -> Generations \cup {NoGeneration}]
  /\ lease \in [Channels -> {"none", "held", "expired"}]
  /\ revoked \in [Owners -> SUBSET Generations]
  /\ ended \in [Owners -> BOOLEAN]

\* The transport's two counters are exactly the attempts that hold a slot: no
\* slot is returned twice, kept for nothing, or returned while the platform
\* still has a fetch, and together they never exceed the limit, which is
\* tested only when the attempt begins.
ClientSlots ==
  /\ opening = Cardinality({c \in Channels : stage[c] \in {"reserved", "hashing"}})
  /\ clientOccupied = {c \in Channels : fetchPending[c] \/ stage[c] \in Active}
  /\ Cardinality(clientOccupied) + opening <= ClientLimit

\* An owner vouches only under open channels, and only for one generation at a
\* time, which it has not revoked.
LeasesAgree ==
  \A w \in Owners : \A c \in Leased(w) :
    /\ entry[c] = "attached" /\ stage[c] = "ready"
    /\ ident[c] \notin revoked[w]
    /\ \A d \in Leased(w) : ident[c] = ident[d]
=============================================================================
