-------------------------- MODULE ControlPublication --------------------------
(***************************************************************************)
(* core/indexed-store.js and core/local-control-publication.js: the        *)
(* extension's settings (consent, pause, preferences) live in two places,  *)
(* the row of chrome.storage.local and the database.  A change commits a   *)
(* gate and a lease in the database, prepares the lease with the row it    *)
(* is about to write, writes the row, and releases the lease.  The worker  *)
(* may die anywhere, a dispatched write may land after its worker is gone, *)
(* and the next worker's startup releases only what it can prove.          *)
(* Digests and nonces are abstracted to the values they stand for.         *)
(***************************************************************************)
EXTENDS Naturals

CONSTANTS Stores,      \* store instances: the worker, and a predecessor that is still alive
          Prefs,
          MaxOps,      \* bound: settings changes and captures begun
          MaxCrashes,  \* bound: workers lost in the middle of something
          MaxFaults,   \* bound: failed transactions and rejected or unacknowledged writes
          MaxRestores, \* bound: backups restored
          None

VARIABLES local,     \* the row of chrome.storage.local
          revision,  \* the last revision allocated to a publication
          lease,     \* the reservation, or None
          gate,      \* what capture must agree with
          restores,  \* the restore epoch
          marker,    \* settings of a restored backup that are still to be applied, or None
          flight,    \* rows given to chrome.storage.local.set and not settled yet
          store,     \* per instance: where its current run stands and what it remembers
          todo,      \* per instance: what is left of recoverSettings
          startup,   \* per instance: the recoverSettings of its startup has not succeeded
          page,      \* what a content script was told by status, or None
          wish,      \* history: whether the user's last committed choice was to capture
          choices,   \* history: how many choices were committed
          acked,     \* history: the row of the last acknowledged change, or None
          ops, crashes, faults

database == <<revision, lease, gate, restores, marker>>
history == <<page, wish, choices, acked>>
counters == <<ops, crashes, faults>>
vars == <<local, database, flight, store, todo, startup, history, counters>>

(* Nothing an instance remembers survives it. *)
Asleep == [pc |-> "off", op |-> None, fence |-> None, row |-> None, mine |-> None,
           fences |-> None, control |-> None]
Awake == [Asleep EXCEPT !.pc = "idle"]

Init ==
    /\ local = [rev |-> 0, epoch |-> 0, enabled |-> FALSE, consented |-> FALSE,
                pref |-> CHOOSE p \in Prefs : TRUE]
    /\ revision = 0 /\ lease = None /\ restores = 0 /\ marker = None
    /\ gate = [epoch |-> 0, enabled |-> FALSE]
    /\ flight = {}
    /\ store = [s \in Stores |-> Asleep]
    /\ todo = [s \in Stores |-> "none"]
    /\ startup = [s \in Stores |-> FALSE]
    /\ page = None /\ wish = FALSE /\ choices = 0 /\ acked = None
    /\ ops = 0 /\ crashes = 0 /\ faults = 0

-----------------------------------------------------------------------------
Fence == [revision |-> revision, lease |-> lease, gate |-> gate, restores |-> restores]
Fences == [gate |-> gate, restores |-> restores]

(* control: a row that disagrees with the gate never enables capture. *)
Control(row) ==
    [row EXCEPT !.enabled = row.enabled /\ gate = [epoch |-> row.epoch, enabled |-> row.enabled]]

Effective == LET c == Control(local) IN c.consented /\ c.enabled

(* requireControlPublicationOwner. *)
Owns(s) == /\ lease = store[s].mine
           /\ store[s].fences = Fences

Become(s, r) == store' = [store EXCEPT ![s] = r]

(* The end of a run; a recoverSettings whose write failed is not repeated. *)
Fail(s) ==
    /\ Become(s, Awake)
    /\ todo' = [todo EXCEPT ![s] = IF store[s].op.kind = "settings" THEN "none" ELSE @]

-----------------------------------------------------------------------------
(* A worker starts; its first act is recoverControlPublication. *)
Start(s) ==
    /\ store[s].pc = "off"
    /\ Become(s, [Asleep EXCEPT !.pc = "booting"])
    /\ startup' = [startup EXCEPT ![s] = TRUE]
    /\ UNCHANGED <<local, database, flight, todo, history, counters>>

Undispatched == lease.after = None /\ lease.before = local
Visible ==
    /\ lease.after # None
    /\ lease.after = local
    /\ lease.fence = Fences
    /\ gate = [epoch |-> local.epoch, enabled |-> local.enabled]
ProvableVisible == Visible \* mutant
Provable == Undispatched \/ Visible

Booted(s) ==
    /\ Become(s, Awake)
    /\ todo' = [todo EXCEPT ![s] = "read"]

(* The first half of the recovery: what the lease and the row prove. *)
Look(s) ==
    /\ store[s].pc = "booting"
    /\ IF lease # None /\ marker = None /\ Provable
       THEN /\ Become(s, [store[s] EXCEPT !.pc = "looked", !.fence = Fence])
            /\ UNCHANGED todo
       ELSE Booted(s)
    /\ UNCHANGED <<local, database, flight, startup, history, counters>>

(* The second half: release it, unless anything changed meanwhile. *)
Release(s) ==
    /\ store[s].pc = "looked"
    /\ lease' = IF store[s].fence = Fence /\ marker = None THEN None ELSE lease
    /\ Booted(s)
    /\ UNCHANGED <<local, revision, gate, restores, marker, flight, startup, history, counters>>

(* Chrome stops an idle worker. *)
Sleep(s) ==
    /\ store[s].pc = "idle" /\ todo[s] = "none"
    /\ Become(s, Asleep)
    /\ startup' = [startup EXCEPT ![s] = FALSE]
    /\ UNCHANGED <<local, database, flight, todo, history, counters>>

Crash(s) ==
    /\ store[s].pc # "off" /\ crashes < MaxCrashes
    /\ crashes' = crashes + 1
    /\ Become(s, Asleep)
    /\ todo' = [todo EXCEPT ![s] = "none"]
    /\ startup' = [startup EXCEPT ![s] = FALSE]
    /\ UNCHANGED <<local, database, flight, history, ops, faults>>

-----------------------------------------------------------------------------
(* A run: read the fence and the row, change the settings in a transaction *)
(* that commits the gate and the lease, then publish. *)
Op(kind, pref) ==
    [kind |-> kind, pref |-> pref,
     epoch |-> IF page = None THEN 0 ELSE page.epoch,
     at |-> IF page = None THEN 0 ELSE page.at]

Load(s, op) ==
    Become(s, [Awake EXCEPT !.pc = "loaded", !.op = op, !.fence = Fence, !.row = local])

Begin(s, kind, pref) ==
    /\ store[s].pc = "idle" /\ ops < MaxOps
    /\ kind = "capture" => page # None
    /\ ops' = ops + 1
    /\ Load(s, Op(kind, pref))
    /\ UNCHANGED <<local, database, flight, todo, startup, history, crashes, faults>>

(* status: what a content script is told. *)
Ask(s) ==
    /\ store[s].pc = "idle"
    /\ page' = IF Effective THEN [epoch |-> local.epoch, at |-> choices] ELSE None
    /\ page' # page
    /\ UNCHANGED <<local, database, flight, store, todo, startup, wish, choices, acked, counters>>

(* recoverSettings: apply the settings of a restored backup. *)
ReadMarker(s) ==
    /\ store[s].pc = "idle" /\ todo[s] = "read"
    /\ IF marker = None
       THEN /\ todo' = [todo EXCEPT ![s] = "none"]
            /\ startup' = [startup EXCEPT ![s] = FALSE]
            /\ UNCHANGED store
       ELSE /\ todo' = [todo EXCEPT ![s] = "write"]
            /\ Load(s, Op("settings", marker))
            /\ UNCHANGED startup
    /\ UNCHANGED <<local, database, flight, history, counters>>

ClearMarker(s) ==
    /\ store[s].pc = "idle" /\ todo[s] = "clear"
    /\ marker' = None
    /\ todo' = [todo EXCEPT ![s] = "none"]
    /\ startup' = [startup EXCEPT ![s] = FALSE]
    /\ UNCHANGED <<local, revision, lease, gate, restores, flight, store, history, counters>>

(* restore: the data and the marker of its settings in one transaction. *)
Restore(s, pref) ==
    /\ store[s].pc = "idle" /\ todo[s] = "none" /\ ~startup[s]
    /\ restores < MaxRestores
    /\ restores' = restores + 1
    /\ marker' = pref
    /\ todo' = [todo EXCEPT ![s] = "read"]
    /\ UNCHANGED <<local, revision, lease, gate, flight, store, startup, history, counters>>

-----------------------------------------------------------------------------
(* What an operation makes of the settings it was given, and whether it may. *)
Allowed(op, c) ==
    CASE op.kind \in {"pause", "resume"} -> c.consented
      [] op.kind = "capture" -> c.consented /\ c.enabled /\ op.epoch = c.epoch
      [] OTHER -> TRUE

ChangedSameEpoch(op, c) == \* mutant
    CASE op.kind = "consent" -> [c EXCEPT !.consented = TRUE, !.enabled = TRUE, !.epoch = @ + 1]
      [] op.kind \in {"pause", "resume"} -> [c EXCEPT !.enabled = (op.kind = "resume")]
      [] op.kind \in {"prefer", "settings"} -> [c EXCEPT !.pref = op.pref]
      [] OTHER -> c
Changed(op, c) ==
    CASE op.kind = "consent" -> [c EXCEPT !.consented = TRUE, !.enabled = TRUE, !.epoch = @ + 1]
      [] op.kind \in {"pause", "resume"} -> [c EXCEPT !.enabled = (op.kind = "resume"), !.epoch = @ + 1]
      [] op.kind \in {"prefer", "settings"} -> [c EXCEPT !.pref = op.pref]
      [] OTHER -> c

Choice(op) == op.kind \in {"consent", "pause", "resume"}

Admitted(s) ==
    /\ Allowed(store[s].op, Control(store[s].row))
    /\ lease = None
    /\ store[s].fence = Fence

Save(s) ==
    /\ store[s].pc = "loaded"
    /\ Admitted(s)
    /\ LET op == store[s].op
           c == Changed(op, Control(store[s].row))
           reservation == [rev |-> revision + 1, before |-> store[s].row, after |-> None, fence |-> None]
       IN /\ revision' = revision + 1
          /\ lease' = reservation
          /\ gate' = [epoch |-> c.epoch, enabled |-> c.enabled]
          /\ Become(s, [store[s] EXCEPT !.pc = "saved", !.mine = reservation, !.control = c,
                                        !.fences = [gate |-> gate', restores |-> restores]])
          /\ wish' = IF Choice(op) THEN c.enabled ELSE wish
          /\ choices' = IF Choice(op) THEN choices + 1 ELSE choices
    /\ UNCHANGED <<local, restores, marker, flight, todo, startup, page, acked, counters>>

Refuse(s) ==
    /\ store[s].pc = "loaded"
    /\ ~Admitted(s)
    /\ Fail(s)
    /\ UNCHANGED <<local, database, flight, startup, history, counters>>

Payload(s) == [store[s].control EXCEPT !.rev = store[s].mine.rev]

Prepare(s) ==
    /\ store[s].pc = "saved"
    /\ Owns(s)
    /\ lease' = [store[s].mine EXCEPT !.after = Payload(s), !.fence = store[s].fences]
    /\ Become(s, [store[s] EXCEPT !.pc = "prepared", !.mine = lease'])
    /\ UNCHANGED <<local, revision, gate, restores, marker, flight, todo, startup, history, counters>>

(* Its lease is gone or changed, or the transaction itself fails. *)
NotPrepared(s) ==
    /\ store[s].pc = "saved"
    /\ \/ ~Owns(s) /\ UNCHANGED faults
       \/ faults < MaxFaults /\ faults' = faults + 1
    /\ Fail(s)
    /\ UNCHANGED <<local, database, flight, startup, history, ops, crashes>>

Dispatch(s) ==
    /\ store[s].pc = "prepared"
    /\ flight' = flight \cup {store[s].mine.after}
    /\ Become(s, [store[s] EXCEPT !.pc = "waiting"])
    /\ UNCHANGED <<local, database, todo, startup, history, counters>>

(* chrome.storage.local.set takes effect, in time or long after its worker *)
(* is gone; or it is rejected; or it takes effect and is reported failed.  *)
Told(row, pc) ==
    store' = [s \in Stores |-> IF store[s].pc = "waiting" /\ store[s].mine.after = row
                               THEN [store[s] EXCEPT !.pc = pc]
                               ELSE store[s]]

Land(row) ==
    /\ row \in flight
    /\ flight' = flight \ {row}
    /\ local' = row
    /\ \/ Told(row, "written") /\ UNCHANGED faults
       \/ Told(row, "rejected") /\ faults < MaxFaults /\ faults' = faults + 1
    /\ UNCHANGED <<database, todo, startup, history, ops, crashes>>

Reject(row) ==
    /\ row \in flight /\ faults < MaxFaults
    /\ faults' = faults + 1
    /\ flight' = flight \ {row}
    /\ Told(row, "rejected")
    /\ UNCHANGED <<local, database, todo, startup, history, ops, crashes>>

(* The acknowledged write releases exactly its own lease. *)
Settle(s) ==
    /\ store[s].pc = "written"
    /\ IF Owns(s)
       THEN /\ lease' = None
            /\ acked' = store[s].mine.after
            /\ Become(s, Awake)
            /\ todo' = [todo EXCEPT ![s] = IF store[s].op.kind = "settings" THEN "clear" ELSE @]
       ELSE Fail(s) /\ UNCHANGED <<lease, acked>>
    /\ UNCHANGED <<local, revision, gate, restores, marker, flight, startup, page, wish, choices,
                   counters>>

(* A rejected preference that is visible after all counts as written; any  *)
(* other rejection is terminal and releases the lease with an error.       *)
Confirmed(s) ==
    /\ store[s].op.kind = "prefer"
    /\ local = store[s].mine.after
    /\ store[s].fences = Fences

Terminal(s) ==
    /\ store[s].pc = "rejected"
    /\ IF Confirmed(s)
       THEN /\ Become(s, [store[s] EXCEPT !.pc = "written"])
            /\ UNCHANGED <<lease, todo>>
       ELSE /\ lease' = IF Owns(s) THEN None ELSE lease
            /\ Fail(s)
    /\ UNCHANGED <<local, revision, gate, restores, marker, flight, startup, history, counters>>

-----------------------------------------------------------------------------
Run(s) == \/ Start(s) \/ Look(s) \/ Release(s) \/ ReadMarker(s) \/ ClearMarker(s)
          \/ Save(s) \/ Refuse(s) \/ Prepare(s) \/ Dispatch(s) \/ Settle(s) \/ Terminal(s)

Kinds == {"consent", "pause", "resume", "prefer", "capture"}

Next ==
    \/ \E s \in Stores : Run(s) \/ Sleep(s) \/ Crash(s) \/ NotPrepared(s) \/ Ask(s)
    \/ \E s \in Stores, kind \in Kinds \ {"prefer"} : Begin(s, kind, None)
    \/ \E s \in Stores, p \in Prefs : Begin(s, "prefer", p) \/ Restore(s, p)
    \/ \E row \in flight : Land(row) \/ Reject(row)

Spec == Init /\ [][Next]_vars

(* The code of a run goes on, Chrome settles what it was given, stops a    *)
(* worker that has nothing to do and starts it again at the next event.    *)
Fairness ==
    /\ \A s \in Stores : WF_vars(Run(s)) /\ WF_vars(Sleep(s))
    /\ WF_vars(\E row \in flight : Land(row))
FairSpec == Spec /\ Fairness

-----------------------------------------------------------------------------
Rows == [rev : 0..revision, epoch : Nat, enabled : BOOLEAN, consented : BOOLEAN, pref : Prefs]

TypeOK ==
    /\ local \in Rows
    /\ flight \subseteq Rows
    /\ lease # None => /\ lease.rev = revision
                       /\ lease.before \in Rows
                       /\ (lease.after = None) = (lease.fence = None)
    /\ \A s \in Stores :
         /\ store[s].pc \in {"off", "booting", "looked", "idle", "loaded", "saved", "prepared",
                             "waiting", "written", "rejected"}
         /\ todo[s] \in {"none", "read", "write", "clear"}
         /\ todo[s] = "write" => store[s].op # None /\ store[s].op.kind = "settings"

(* A pause holds: capture is effective only if the user's last committed   *)
(* choice was to capture, whatever was lost between the gate and the row.  *)
PauseHolds == Effective => wish

(* A write on its way keeps its lease: no other change can be published    *)
(* while an unobserved write may still land and overwrite it.              *)
FlightIsHeld == \A row \in flight : lease # None /\ lease.after = row

(* An acknowledged change is what the row shows, or an older row than it   *)
(* shows: a late write never takes it back.                                *)
AcknowledgedStays ==
    acked # None => local.rev >= acked.rev /\ (local.rev = acked.rev => local = acked)

(* The row never returns to an earlier revision. *)
NeverBackwards == local'.rev >= local.rev

(* A capture that was asked before the last pause or resume is never       *)
(* committed: its epoch is not used again, even after a lost publication.  *)
CaptureIsCurrent ==
    \A s \in Stores :
        (/\ store[s].pc = "loaded" /\ store'[s].pc = "saved"
         /\ store[s].op.kind = "capture") => store[s].op.at = choices /\ wish

(* In the end a lease is held only for a prepared write that was never     *)
(* seen, or behind the marker of a restore.                                *)
Unknown == lease # None /\ lease.after # None /\ lease.after # local
LeasesEnd == <>[](lease = None \/ Unknown \/ marker # None)

(* BACKUP.md:49: the settings of a restored backup are completed after a   *)
(* restart (the marker goes).                                              *)
SettingsArrive == (marker # None) ~> (marker = None)
=============================================================================
