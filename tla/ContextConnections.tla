------------------------- MODULE ContextConnections -------------------------
(***************************************************************************)
(* background/context-connections.js: paired hosts that may read contexts. *)
(* The row of connections lives in chrome.storage.local, which has no      *)
(* compare-and-swap; a witness in the database is written before it        *)
(* ("pending") and after it ("settled").  Commands run one after the other *)
(* from a queue, but restrictions, suspension, other readers, invalidation *)
(* and the end of the worker come in between their awaited steps.          *)
(***************************************************************************)
EXTENDS Naturals, Sequences, FiniteSets

CONSTANTS C,            \* identities of connections, each given out once
          MaxCalls,     \* bound: commands and renewals
          MaxTroubles,  \* bound: invalidations, restores, suspensions and concurrent reads
          MaxCrashes,   \* bound: ends of the worker
          None

VARIABLES mirror,   \* the row in chrome.storage.local
          witness,  \* the witness row in the database
          epoch,    \* the database's restore epoch
          mem,      \* the worker's own fields
          ports,    \* the native ports, by connection
          queue,    \* commands; the head is running
          reader,   \* a concurrent load between its two reads
          barred,   \* history: the user has paused or revoked and not reconnected since
          acked,    \* history: ... and was told so
          cut,      \* history: the worker ended while the connection had a port
          used,     \* history: generations that had a port
          calls, troubles, crashes

durable == <<mirror, witness, epoch>>
history == <<barred, acked, cut, used>>
bounds == <<calls, troubles, crashes>>
vars == <<mirror, witness, epoch, mem, ports, queue, reader, barred, acked, cut, used, calls, troubles, crashes>>

NoDenials == [c \in C |-> 0]
Memory == [gen |-> 0, denials |-> NoDenials, blocked |-> {}, suspending |-> FALSE,
           row |-> None, wit |-> None, checkpoint |-> "none"]

Task(kind, id, pc, todo, den) ==
    [kind |-> kind, id |-> id, pc |-> pc, todo |-> todo, den |-> den, gen |-> mem.gen,
     rev |-> IF mirror = None THEN 0 ELSE mirror.rev, fresh |-> TRUE,
     next |-> None, prior |-> None, expected |-> mem.row]
Resuming == [Task("resume", None, "load", {}, NoDenials) EXCEPT !.gen = 0, !.expected = None]

Init ==
    /\ mirror = None /\ witness = None /\ epoch = 0
    /\ mem = Memory
    /\ ports = [c \in C |-> None]
    /\ queue = <<>>
    /\ reader = None
    /\ barred = [c \in C |-> FALSE] /\ acked = [c \in C |-> FALSE] /\ cut = [c \in C |-> FALSE]
    /\ used = [c \in C |-> {}]
    /\ calls = 0 /\ troubles = 0 /\ crashes = 0

Invalidated(m) == [m EXCEPT !.gen = @ + 1, !.denials = NoDenials, !.row = None]
NoPorts == [c \in C |-> None]

(* What the worker holds after a load that read the mirror as m. *)
Stale(m) == m # None /\ m.restore # epoch
Loaded(m) ==
    IF Stale(m) THEN [Invalidated(mem) EXCEPT !.wit = witness]
    ELSE [(IF mem.row # None /\ mem.row # m THEN Invalidated(mem) ELSE mem)
             EXCEPT !.row = m, !.wit = witness]
Uncertain(m) ==
    /\ witness # None \/ (m # None /\ \E c \in C : m.conns[c] # None /\ m.conns[c].state # "revoked")
    /\ witness = None \/ witness.phase # "settled" \/ witness.row # m
PortsAfter(m2) == IF m2.gen = mem.gen THEN ports ELSE NoPorts

Live(c) ==
    /\ ports[c] # None
    /\ mem.row # None /\ mem.wit # None
    /\ ~mem.suspending
    /\ ports[c].ticket = mem.gen /\ ports[c].den = mem.denials[c]
    /\ ports[c].ready
    /\ mem.row.restore = ports[c].restore
    /\ mem.row.conns[c] # None
    /\ mem.row.conns[c].state = "enabled" /\ mem.row.conns[c].gen = ports[c].gen
    /\ mem.wit.phase = "settled" /\ mem.wit.row = mem.row

-----------------------------------------------------------------------------
(* The user's commands.  A restriction bites at once, before anything is   *)
(* awaited. *)
Spent(c) == used[c] # {} \/ (mirror # None /\ mirror.conns[c] # None)

Pair(c) ==
    /\ ~mem.suspending
    /\ calls < MaxCalls
    /\ ~Spent(c) /\ \A k \in 1..Len(queue) : queue[k].id # c
    /\ \E kind \in {"pair", "replace"} : queue' = Append(queue, Task(kind, c, "load", {}, NoDenials))
    /\ calls' = calls + 1
    /\ UNCHANGED <<durable, mem, ports, reader, history, troubles, crashes>>

Denied(c) == [mem EXCEPT !.blocked = @ \cup {c}, !.denials[c] = @ + 1]

Restrict(c) ==
    /\ ~mem.suspending /\ Spent(c)
    /\ calls < MaxCalls
    /\ mem' = Denied(c)
    /\ ports' = [ports EXCEPT ![c] = None]
    /\ \E kind \in {"pause", "revoke"} :
          queue' = Append([k \in 1..Len(queue) |-> IF queue[k].id = c THEN [queue[k] EXCEPT !.fresh = FALSE]
                                                   ELSE queue[k]],
                          Task(kind, c, "load", {}, mem'.denials))
    /\ barred' = [barred EXCEPT ![c] = TRUE]
    /\ calls' = calls + 1
    /\ UNCHANGED <<durable, reader, acked, cut, used, troubles, crashes>>

Reconnect(c) ==
    /\ ~mem.suspending /\ Spent(c)
    /\ calls < MaxCalls
    /\ queue' = Append(queue, Task("reconnect", c, "load", {}, mem.denials))
    /\ calls' = calls + 1
    /\ UNCHANGED <<durable, mem, ports, reader, history, troubles, crashes>>

RenewTimer(c) ==
    /\ Live(c)
    /\ calls < MaxCalls
    /\ queue' = Append(queue, [Task("renew", c, "one", {c}, mem.denials) EXCEPT !.rev = ports[c].gen])
    /\ calls' = calls + 1
    /\ UNCHANGED <<durable, mem, ports, reader, history, troubles, crashes>>

Commands == \E k \in 1..Len(queue) : queue[k].kind \in {"pair", "replace", "pause", "revoke", "reconnect"}

(* onSuspend: no caller is served any more; connections that were serving  *)
(* may be written down as clean. *)
Suspend ==
    /\ mem.checkpoint = "none"
    /\ troubles < MaxTroubles
    /\ mem' = [mem EXCEPT !.suspending = TRUE, !.gen = @ + 1, !.checkpoint = "running"]
    /\ ports' = NoPorts
    /\ queue' = Append(queue, [Task("checkpoint", None, "load", IF Commands THEN {} ELSE {c \in C : Live(c)},
                                    mem.denials) EXCEPT !.gen = mem'.gen])
    /\ troubles' = troubles + 1
    /\ UNCHANGED <<durable, reader, history, calls, crashes>>

SuspendCancelled ==
    /\ mem.checkpoint \in {"ok", "failed"}
    /\ mem' = [mem EXCEPT !.suspending = FALSE, !.checkpoint = "none"]
    /\ queue' = IF mem.checkpoint = "ok" THEN Append(queue, Task("resume", None, "load", {}, mem.denials))
                ELSE queue
    /\ UNCHANGED <<durable, ports, reader, history, bounds>>

-----------------------------------------------------------------------------
(* The running command. *)
h == Head(queue)
Allowed(m, c) == h.gen = m.gen /\ (c # None => h.den[c] = m.denials[c])
Ticket(m) == Allowed(m, IF h.kind \in {"pair", "replace", "checkpoint"} THEN None ELSE h.id)
Head1(task) == [queue EXCEPT ![1] = task]
AfterLoad == IF Ticket(mem) THEN Loaded(mirror) ELSE mem

Ended(m, result) ==
    /\ mem' = IF h.kind = "checkpoint" THEN [m EXCEPT !.checkpoint = result] ELSE m
    /\ queue' = Tail(queue)
Failed(m) == Ended(m, "failed")

Enabled(gen) == [state |-> "enabled", gen |-> gen, clean |-> FALSE]
Bare == [c \in C |-> None]

Retained(r) == [c \in C |-> IF r.conns[c] # None /\ r.conns[c].state = "revoked" THEN None ELSE r.conns[c]]
Bumped(r, c, conn) == [r EXCEPT !.rev = @ + 1, !.conns[c] = conn]

(* What a command writes, from the row r it has loaded. *)
PairedRow(r) ==
    IF r = None \/ h.kind = "replace"
    THEN [rev |-> (IF r = None THEN 0 ELSE r.rev) + 1, restore |-> epoch, conns |-> [Bare EXCEPT ![h.id] = Enabled(1)]]
    ELSE [rev |-> r.rev + 1, restore |-> r.restore, conns |-> [Retained(r) EXCEPT ![h.id] = Enabled(1)]]
ChangedRow(r) ==
    LET conn == r.conns[h.id]
    IN Bumped(r, h.id,
              CASE h.kind = "pause"  -> [conn EXCEPT !.state = "paused", !.gen = @ + 1]
                [] h.kind = "revoke" -> [state |-> "revoked", gen |-> conn.gen + 1, clean |-> FALSE]
                [] OTHER             -> Enabled(conn.gen + 1))
CleanRow(r) ==
    LET clean == {c \in h.todo : r.conns[c].state = "enabled" /\ ~r.conns[c].clean}
    IN [r EXCEPT !.rev = @ + 1, !.conns = [c \in C |-> IF c \in clean THEN [r.conns[c] EXCEPT !.clean = TRUE]
                                                       ELSE r.conns[c]]]
ResumedAsIs(r, c) == Bumped(r, c, Enabled(r.conns[c].gen))       \* mutant

ResumedRow(r, c) == Bumped(r, c, Enabled(r.conns[c].gen + 1))

(* A command goes on to write its row, through the handover of a port it   *)
(* replaces. *)
Writes(m, row, c) ==
    LET task == [h EXCEPT !.id = c, !.next = row, !.prior = m.wit, !.pc = "pend"]
    IN IF c # None /\ PortsAfter(m)[c] # None
       THEN IF ports[c].ready
            THEN /\ mem' = m
                 /\ queue' = Head1([task EXCEPT !.pc = "hand"])
                 /\ ports' = [PortsAfter(m) EXCEPT ![c].ready = FALSE]
            ELSE /\ Failed(m)
                 /\ ports' = [PortsAfter(m) EXCEPT ![c] = None]
       ELSE /\ mem' = m
            /\ queue' = Head1(task)
            /\ ports' = PortsAfter(m)

Refused(m) == Failed(m) /\ ports' = PortsAfter(m)

LoadPair ==
    LET m == AfterLoad
        replaces == h.kind = "replace"
        valid == Ticket(mem) /\ IF replaces THEN Stale(mirror) /\ m.gen = h.gen + 1 ELSE ~Stale(mirror) /\ h.gen = m.gen
    IN  /\ h.kind \in {"pair", "replace"}
        /\ IF valid /\ h.rev = (IF mirror = None THEN 0 ELSE mirror.rev)
           THEN /\ mem' = m
                /\ ports' = PortsAfter(m)
                /\ queue' = Head1([h EXCEPT !.next = PairedRow(mirror), !.prior = m.wit, !.pc = "pend", !.gen = m.gen])
           ELSE Refused(m)

LoadChange ==
    LET m == AfterLoad
    IN  /\ h.kind \in {"pause", "revoke", "reconnect"}
        /\ IF Ticket(mem) /\ Ticket(m) /\ ~Stale(mirror) /\ mirror # None
              /\ mirror.rev = h.rev /\ mirror.conns[h.id] # None
           THEN IF h.kind = "reconnect" THEN Writes(m, ChangedRow(mirror), h.id)
                ELSE /\ mem' = m
                     /\ ports' = PortsAfter(m)
                     /\ queue' = Head1([h EXCEPT !.next = ChangedRow(mirror), !.prior = m.wit, !.pc = "pend"])
           ELSE Refused(m)

LoadCheckpoint ==
    LET m == AfterLoad
    IN  /\ h.kind = "checkpoint"
        /\ IF Ticket(mem) /\ Ticket(m) /\ ~Stale(mirror) /\ ~Uncertain(mirror) /\ mirror # None /\ mirror = h.expected
           THEN IF CleanRow(mirror).conns = mirror.conns
                THEN Ended(m, "ok") /\ ports' = PortsAfter(m)
                ELSE Writes(m, CleanRow(mirror), None)
           ELSE Ended(m, IF Ticket(mem) /\ Ticket(m) THEN "ok" ELSE "failed") /\ ports' = PortsAfter(m)

MayResume(r, c) == r.conns[c] # None /\ r.conns[c].state = "enabled" /\ r.conns[c].clean

LoadResume ==
    LET m == AfterLoad
        clean == {c \in C : MayResume(mirror, c)}
    IN  /\ h.kind = "resume"
        /\ ports' = PortsAfter(m)
        /\ IF Allowed(mem, None) /\ Allowed(m, None) /\ ~Stale(mirror) /\ ~Uncertain(mirror) /\ mirror # None
              /\ (\A c \in clean : Allowed(m, c)) /\ clean \ mem.blocked # {}
           THEN mem' = m /\ queue' = Head1([h EXCEPT !.pc = "one", !.todo = clean \ mem.blocked])
           ELSE Failed(m)

Load ==
    /\ h.pc = "load"
    /\ LoadPair \/ LoadChange \/ LoadCheckpoint \/ LoadResume
    /\ UNCHANGED <<durable, reader, history, bounds>>

(* resumeOne, at start-up, after a cancelled suspension or on renewal. *)
ResumeOne ==
    /\ h.pc = "one"
    /\ \E c \in h.todo :
          LET m == IF Allowed(mem, c) /\ c \notin mem.blocked THEN Loaded(mirror) ELSE mem
              renew == h.kind = "renew"
              current == mirror # None /\ mirror.conns[c] # None /\ mirror.conns[c].state = "enabled"
              task == [h EXCEPT !.todo = @ \ {c}]
          IN IF ~Allowed(mem, c) \/ (renew /\ ~Live(c)) \/ ~Allowed(m, c) \/ Stale(mirror) \/ Uncertain(mirror)
                \/ (renew /\ (ports[c] = None \/ mirror = None \/ mirror.conns[c] = None
                              \/ mirror.conns[c].gen # h.rev))
             THEN Refused(m)
             ELSE IF c \in mem.blocked \/ ~current \/ (~renew /\ (~mirror.conns[c].clean \/ Live(c)))
                  THEN /\ mem' = m
                       /\ ports' = PortsAfter(m)
                       /\ queue' = IF task.todo = {} THEN Tail(queue) ELSE Head1(task)
                  ELSE Writes(m, ResumedRow(mirror, c), c)
    /\ UNCHANGED <<durable, reader, history, bounds>>

(* The old host acknowledges that its listener is closed, or does not. *)
Handover ==
    /\ h.pc = "hand"
    /\ ports' = [ports EXCEPT ![h.id] = None]
    /\ \/ /\ ports[h.id] # None /\ Ticket(mem)
          /\ queue' = Head1([h EXCEPT !.pc = "pend"])
          /\ UNCHANGED mem
       \/ Failed(mem)
    /\ UNCHANGED <<durable, reader, history, bounds>>

(* #persist: pending witness, mirror, settled witness.  The worker knows    *)
(* of the pending one only when it hears that it is committed. *)
Pend ==
    /\ h.pc = "pend"
    /\ Ticket(mem) /\ epoch = h.next.restore /\ witness = h.prior
    /\ witness' = [phase |-> "pending", row |-> h.next]
    /\ queue' = Head1([h EXCEPT !.pc = "pended"])
    /\ UNCHANGED <<mirror, epoch, mem, ports, reader, history, bounds>>

Pended ==
    /\ h.pc = "pended"
    /\ mem' = [mem EXCEPT !.wit = [phase |-> "pending", row |-> h.next]]
    /\ queue' = Head1([h EXCEPT !.pc = "mirror"])
    /\ UNCHANGED <<durable, ports, reader, history, bounds>>

Mirror ==
    /\ h.pc = "mirror"
    /\ mirror' = h.next
    /\ queue' = Head1([h EXCEPT !.pc = "settle"])
    /\ UNCHANGED <<witness, epoch, mem, ports, reader, history, bounds>>

Settle ==
    LET restricts == h.kind \in {"pause", "revoke"}
        m == [mem EXCEPT !.wit = [phase |-> "settled", row |-> h.next], !.row = h.next]
    IN  /\ h.pc = "settle"
        /\ Ticket(mem) /\ epoch = h.next.restore /\ mirror = h.next
        /\ witness = [phase |-> "pending", row |-> h.next]
        /\ witness' = m.wit
        /\ IF restricts \/ h.kind = "checkpoint" THEN Ended(m, "ok")
           ELSE mem' = m /\ queue' = Head1([h EXCEPT !.pc = "connect"])
        /\ acked' = IF restricts THEN [acked EXCEPT ![h.id] = TRUE] ELSE acked
        /\ UNCHANGED <<mirror, epoch, ports, reader, barred, cut, used, bounds>>

PersistFails ==
    /\ h.pc \in {"pend", "mirror", "settle"}
    /\ mirror' \in IF h.pc = "mirror" THEN {mirror, h.next} ELSE {mirror}
    /\ Failed(Invalidated(mem))
    /\ ports' = NoPorts
    /\ UNCHANGED <<witness, epoch, reader, history, bounds>>

(* connectNative, and what the user's own command lifts. *)
Connect ==
    LET c == h.id
        explicit == h.kind \in {"pair", "replace", "reconnect"}
        lifts == h.kind = "reconnect" /\ h.fresh
    IN  /\ h.pc = "connect"
        /\ IF Allowed(mem, c) /\ mem.row # None
           THEN /\ ports' = [ports EXCEPT ![c] = [gen |-> h.next.conns[c].gen, ready |-> FALSE, ticket |-> h.gen,
                                                   den |-> h.den[c], restore |-> mem.row.restore]]
                /\ used' = [used EXCEPT ![c] = @ \cup {h.next.conns[c].gen}]
                /\ barred' = IF lifts THEN [barred EXCEPT ![c] = FALSE] ELSE barred
                /\ acked' = IF lifts THEN [acked EXCEPT ![c] = FALSE] ELSE acked
                /\ cut' = IF explicit THEN [cut EXCEPT ![c] = FALSE] ELSE cut
                /\ mem' = IF h.kind = "reconnect" THEN [mem EXCEPT !.blocked = @ \ {c}] ELSE mem
                /\ queue' = IF h.kind = "resume" /\ h.todo \ {c} # {}
                            THEN Head1([h EXCEPT !.pc = "one", !.todo = @ \ {c}, !.id = None])
                            ELSE Tail(queue)
           ELSE Failed(mem) /\ UNCHANGED <<ports, history>>
        /\ UNCHANGED <<durable, reader, bounds>>

(* A permission that is missing, a read that fails. *)
GivesUp ==
    /\ h.pc \in {"load", "one", "connect"}
    /\ Failed(mem)
    /\ UNCHANGED <<durable, ports, reader, history, bounds>>

Run ==
    /\ queue # <<>>
    /\ \/ Load \/ ResumeOne \/ Handover \/ Pend \/ Pended \/ Mirror \/ Settle \/ PersistFails
       \/ Connect \/ GivesUp

-----------------------------------------------------------------------------
(* The host answers or goes away; its lease runs out. *)
PortReady(c) ==
    /\ ports[c] # None /\ ~ports[c].ready
    /\ mem.row # None /\ mem.row.conns[c] # None /\ mem.row.conns[c].gen = ports[c].gen
    /\ epoch = ports[c].restore
    /\ \A k \in 1..Len(queue) : ~(queue[k].pc = "hand" /\ queue[k].id = c)
    /\ ports' = [ports EXCEPT ![c].ready = TRUE]
    /\ UNCHANGED <<durable, mem, queue, reader, history, bounds>>

PortCloses(c) ==
    /\ ports[c] # None
    /\ ports' = [ports EXCEPT ![c] = None]
    /\ UNCHANGED <<durable, mem, queue, reader, history, bounds>>

(* A status call or a request's verification loads outside the queue: it   *)
(* reads the mirror first and the database later. *)
ReaderStarts ==
    /\ reader = None
    /\ troubles < MaxTroubles
    /\ reader' = [row |-> mirror]
    /\ troubles' = troubles + 1
    /\ UNCHANGED <<durable, mem, ports, queue, history, calls, crashes>>

ReaderEnds ==
    /\ reader # None
    /\ mem' = Loaded(reader.row)
    /\ ports' = PortsAfter(mem')
    /\ reader' = None
    /\ UNCHANGED <<durable, queue, history, bounds>>

(* A permission is removed, consent withdrawn, the clock set back. *)
Invalidate ==
    /\ troubles < MaxTroubles
    /\ mem' = Invalidated(mem)
    /\ ports' = NoPorts
    /\ troubles' = troubles + 1
    /\ UNCHANGED <<durable, queue, reader, history, calls, crashes>>

(* A backup replaces the library: the restore epoch changes. *)
RestoreLibrary ==
    /\ troubles < MaxTroubles
    /\ epoch' = epoch + 1
    /\ troubles' = troubles + 1
    /\ UNCHANGED <<mirror, witness, mem, ports, queue, reader, history, calls, crashes>>

(* The worker ends anywhere - a mirror write it has issued may still be    *)
(* done - and starts again by resuming what it may. *)
WorkerRestarts ==
    /\ crashes < MaxCrashes
    /\ mirror' \in IF queue # <<>> /\ h.pc = "mirror" THEN {mirror, h.next} ELSE {mirror}
    /\ mem' = Memory
    /\ ports' = NoPorts
    /\ queue' = <<Resuming>>
    /\ reader' = None
    /\ cut' = [c \in C |-> cut[c] \/ ports[c] # None]
    /\ barred' = [c \in C |-> barred[c] /\ acked[c]]
    /\ crashes' = crashes + 1
    /\ UNCHANGED <<witness, epoch, acked, used, calls, troubles>>

Next ==
    \/ \E c \in C : Pair(c) \/ Restrict(c) \/ Reconnect(c) \/ RenewTimer(c) \/ PortReady(c) \/ PortCloses(c)
    \/ Suspend \/ SuspendCancelled
    \/ Run
    \/ ReaderStarts \/ ReaderEnds \/ Invalidate \/ RestoreLibrary
    \/ WorkerRestarts

Spec == Init /\ [][Next]_vars

-----------------------------------------------------------------------------
Rows == [rev : Nat, restore : Nat,
         conns : [C -> [state : {"enabled", "paused", "revoked"}, gen : Nat, clean : BOOLEAN] \cup {None}]]

TypeOK ==
    /\ mirror \in Rows \cup {None}
    /\ witness \in [phase : {"pending", "settled"}, row : Rows] \cup {None}
    /\ mem.row \in Rows \cup {None}
    /\ mem.denials \in [C -> Nat] /\ mem.blocked \subseteq C
    /\ ports \in [C -> [gen : Nat, ready : BOOLEAN, ticket : Nat, den : Nat, restore : Nat] \cup {None}]
    /\ \A k \in 1..Len(queue) :
          queue[k].pc \in {"load", "one", "hand", "pend", "pended", "mirror", "settle", "connect"}

(* A connection answers requests only as long as everything agrees: the    *)
(* user has not paused or revoked it since - from the moment of the call,  *)
(* whatever became of its writes - and both durable rows record exactly    *)
(* this generation as enabled.  Reads, restarts and failures of other      *)
(* commands in between do not blur it (context-connections.js:146, 215).   *)
(* While a pending witness is committed and not yet heard of, the fence of *)
(* a request refuses, which reads the witness in its transaction (228).    *)
LiveIsGranted ==
    \A c \in C : Live(c) =>
        /\ ~barred[c]
        /\ \/ witness # None /\ witness.phase = "settled" /\ witness.row = mirror
           \/ queue # <<>> /\ h.pc = "pended"
        /\ mirror # None /\ mirror.conns[c] # None
        /\ mirror.conns[c].state = "enabled" /\ mirror.conns[c].gen = ports[c].gen

Connects(c) == ports'[c] # None /\ (ports[c] = None \/ ports[c].gen # ports'[c].gen)

(* No generation of a connection is ever given to a second port, although  *)
(* rows are lost between the witness and the mirror and written again from *)
(* an older one: an old host cannot be taken for its successor.            *)
GenerationsAreFresh == [][\A c \in C : Connects(c) => ports'[c].gen \notin used[c]]_vars

(* What comes back by itself - at start-up, after a cancelled suspension,  *)
(* by renewal - was neither restricted by the user since, nor still        *)
(* connected when a worker ended: only a connection that was put away      *)
(* cleanly returns without being asked for (context-connections.js:161-201). *)
NoSilentReturn ==
    [][\A c \in C : (Connects(c) /\ h.kind \in {"resume", "renew"}) => ~barred[c] /\ ~cut[c]]_vars
=============================================================================
