--------------------------- MODULE GrantPublication ---------------------------
(***************************************************************************)
(* The client's declarations at the gateway: a declaration of one          *)
(* operation is published as a grant or revoked                            *)
(* (services/ai-gateway/postgres-declaration-publisher.mjs), and the       *)
(* operation is reserved under it (postgres-authority.mjs).                *)
(*                                                                         *)
(* Every call is one transaction that first takes the lock of the global   *)
(* ledger row, so a call is one step.  It reads the database's clock when  *)
(* it has its locks, again when it has checked everything, and a third     *)
(* time inside the statement that writes.  A call the code denies rolls    *)
(* back and is no step.  The answer of a committed call may be lost: the   *)
(* caller then knows nothing and may call again, with this or with the     *)
(* other request.                                                          *)
(***************************************************************************)
EXTENDS Integers

CONSTANTS
  GrantOps,        \* operations; each belongs to one request
  Declarations,    \* declarations (generations) a client may present for them
  Expiry,          \* Expiry[d]: declaration.expiresAt
  Span,            \* longest life of a grant (60000 ms)
  Window,          \* longest time from the last reading to the write (1000 ms)
  IdentityExpiry,  \* identity.verifiedUntil
  ControlExpiry,   \* service_control.expires_at_ms
  MaxTime,         \* bound: the last reading of the clock
  None

Times == 0 .. MaxTime
Min2(a, b) == IF a <= b THEN a ELSE b

VARIABLES authority, \* authority[o]: the request_authority row of o, or None
          now,       \* the database's clock; it may be set back between calls
          lastNow,   \* the time stamped on the ledger by the last reservation
          enabled,   \* service_control.enabled
          reserved,  \* reserved[o]: None, or the declaration and the time of its reservation
          told       \* what the publisher's answers, as far as they arrived, have said

grantVars == <<authority, now, lastNow, enabled, reserved, told>>

\* A grant may be valid beyond the last reading of the clock.
Grants == [generation : Declarations, authorized : BOOLEAN, issued : Times, expires : Nat]
Reservations == [generation : Declarations, at : Times]
Answers == [op : GrantOps, decision : {"published", "revoked"}, generation : Declarations,
            issued : Times, expires : Nat]

ASSUME GrantAssumption ==
  /\ Span \in Nat /\ Window \in Nat /\ MaxTime \in Nat
  /\ IdentityExpiry \in Nat /\ ControlExpiry \in Nat /\ Expiry \in [Declarations -> Nat]
  /\ None \notin Grants /\ None \notin Reservations

GrantTypeOK ==
  /\ authority \in [GrantOps -> Grants \cup {None}]
  /\ now \in Times /\ lastNow \in Times /\ enabled \in BOOLEAN
  /\ reserved \in [GrantOps -> Reservations \cup {None}]
  /\ told \subseteq Answers

GrantInit ==
  /\ authority = [o \in GrantOps |-> None]
  /\ now \in Times /\ lastNow = 0 /\ enabled = TRUE
  /\ reserved = [o \in GrantOps |-> None]
  /\ told = {}

-----------------------------------------------------------------------------
\* The service is enabled, its control row and the identity proofs are valid.
ServiceValidAt(t) == enabled /\ t < ControlExpiry /\ t < IdentityExpiry

\* What a publication of d may rely on, and when it must have been written.
ValidUntil(o, d, action) ==
  LET service == Min2(IdentityExpiry, ControlExpiry)
      declared == Min2(service, Expiry[d])
  IN  CASE action = "revoke" -> service
        [] action = "publish" /\ authority[o] = None -> declared
        [] OTHER -> Min2(declared, authority[o].expires)
PublicationUntil(o, d, action, at) == Min2(at + Window, ValidUntil(o, d, action))

\* INSERT_SQL: the life of a new grant is cut to the span and to everything the
\* checks were made for; the tombstone of a revocation has no life at all.
NewGrant(o, d, action, at) ==
  [generation |-> d, authorized |-> action = "publish", issued |-> at,
   expires |-> IF action = "publish"
                 THEN Min2(Min2(ValidUntil(o, d, action), Expiry[d]), at + Span)
                 ELSE at]

\* REVOKE_SQL and REPEAT_SQL: a row that exists keeps its times.
GrantAfter(o, d, action, at) ==
  IF authority[o] = None
    THEN NewGrant(o, d, action, at)
    ELSE [authority[o] EXCEPT !.authorized = @ /\ action = "publish"]

\* checkRow, and a grant once revoked is not published again.
MayWrite(o, d, action) ==
  authority[o] # None =>
    /\ authority[o].generation = d
    /\ authority[o].issued <= now
    /\ action = "publish" => authority[o].authorized

Hears(o, decision, row) ==
  \/ UNCHANGED told
  \/ told' = told \cup {[op |-> o, decision |-> decision, generation |-> row.generation,
                         issued |-> row.issued, expires |-> row.expires]}

Execute(o, d, action) ==
  /\ now >= lastNow /\ ServiceValidAt(now)
  /\ MayWrite(o, d, action)
  /\ \E at \in now .. MaxTime : \E publication \in at .. MaxTime :
       /\ at < PublicationUntil(o, d, action, at)
       /\ publication < PublicationUntil(o, d, action, at)
       /\ LET row == GrantAfter(o, d, action, publication)
          IN  /\ authority' = [authority EXCEPT ![o] = row]
              /\ Hears(o, IF action = "publish" THEN "published" ELSE "revoked", row)
       /\ now' = publication
  /\ UNCHANGED <<lastNow, enabled, reserved>>

Publish(o, d) == Execute(o, d, "publish")

RevokesOnlyGrants(o, d) ==   \* mutant
  \/ authority[o] # None /\ Execute(o, d, "revoke")
  \/ /\ authority[o] = None /\ ServiceValidAt(now)
     /\ Hears(o, "revoked", NewGrant(o, d, "revoke", now))
     /\ UNCHANGED <<authority, now, lastNow, enabled, reserved>>
Revoke(o, d) == Execute(o, d, "revoke")

-----------------------------------------------------------------------------
\* The grant lets its operation be reserved at time t.
Authorizes(row, t) ==
  /\ row.authorized /\ row.issued <= t /\ t < row.expires
  /\ row.expires - row.issued <= Span

\* The authority is verified when the locks are held, once more before the
\* write, and for the last moment at which the write may still happen.
HoldsUntilWritten(o, at, until) ==
  /\ ServiceValidAt(at) /\ Authorizes(authority[o], at)
  /\ ServiceValidAt(until - 1) /\ Authorizes(authority[o], until - 1)

ReserveUnder(o) ==
  /\ reserved[o] = None /\ authority[o] # None
  /\ now >= lastNow /\ ServiceValidAt(now) /\ Authorizes(authority[o], now)
  /\ \E at \in now .. MaxTime : \E publication \in at .. MaxTime :
       /\ publication < at + Window
       /\ HoldsUntilWritten(o, at, at + Window)
       /\ reserved' = [reserved EXCEPT
            ![o] = [generation |-> authority[o].generation, at |-> publication]]
       /\ lastNow' = publication /\ now' = publication
  /\ UNCHANGED <<authority, enabled, told>>

\* The environment: time passes or is set back, and the operator switches the
\* service off and on.
SetClock == now' \in Times \ {now} /\ UNCHANGED <<authority, lastNow, enabled, reserved, told>>
Switch == enabled' = ~enabled /\ UNCHANGED <<authority, now, lastNow, reserved, told>>

GrantNext ==
  \/ \E o \in GrantOps : ReserveUnder(o) \/ \E d \in Declarations : Publish(o, d) \/ Revoke(o, d)
  \/ SetClock \/ Switch

GrantSpec == GrantInit /\ [][GrantNext]_grantVars

-----------------------------------------------------------------------------
\* Whatever an answer told the client about a grant stays true: a repeated call
\* never gives it another life, and what was answered as revoked is not
\* authorized (postgres-declaration-publisher.mjs, REPEAT_SQL, REVOKE_SQL).
ToldIsTrue ==
  \A a \in told :
    /\ authority[a.op] # None
    /\ <<authority[a.op].generation, authority[a.op].issued, authority[a.op].expires>>
         = <<a.generation, a.issued, a.expires>>
    /\ a.decision = "revoked" => ~authority[a.op].authorized

\* A reservation was written while its grant, its declaration and the identity
\* behind it were valid, however long the transaction waited between its
\* checks and its write (postgres-authority.mjs, beforePublish).
ReservedInsideGrant ==
  \A o \in GrantOps : reserved[o] # None =>
    /\ authority[o] # None /\ authority[o].generation = reserved[o].generation
    /\ authority[o].issued <= reserved[o].at /\ reserved[o].at < authority[o].expires
    /\ reserved[o].at < Expiry[reserved[o].generation]
    /\ reserved[o].at < IdentityExpiry

\* Once a client was told that an operation is revoked it is never reserved
\* any more, whether the revocation came after the publication or before it
\* (the tombstone of INSERT_SQL).
NothingAfterRevocation ==
  [][\A o \in GrantOps : (\E a \in told : a.op = o /\ a.decision = "revoked") =>
       reserved'[o] = reserved[o]]_grantVars

\* The three together.
GrantsHold == [](GrantTypeOK /\ ToldIsTrue /\ ReservedInsideGrant) /\ NothingAfterRevocation
=============================================================================
