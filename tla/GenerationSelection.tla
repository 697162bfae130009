------------------------- MODULE GenerationSelection -------------------------
(***************************************************************************)
(* core/browser-native-sync/application-generation-selection.js: the       *)
(* application moves from the library it uses to an already published copy *)
(* of it.  Each library is a database of its own and the settings row of   *)
(* chrome.storage.local names the one in use, so nothing can change the    *)
(* three together: a receipt in each library (the marker) refuses ordinary *)
(* writes while the row is rewritten once.  Around it stand the ordinary   *)
(* work of the application (edits and settings saves of indexed-store.js), *)
(* workers that die or outlive their successor, and the startup that       *)
(* decides from the receipts alone which library may be opened.            *)
(***************************************************************************)
EXTENDS Integers

CONSTANTS Workers,
          MaxLibraryEdits, \* bound: edits of the library
          MaxSaves,        \* bound: settings saves
          MaxSelections,   \* bound: reviews begun
          MaxCrashes,      \* bound: workers lost
          MaxRejects,      \* bound: writes the storage rejects
          NoRecord

Libraries == {"source", "target"}

(* The row of chrome.storage.local, the lease of a settings save, a receipt *)
(* and a library with both.                                                *)
ControlRows == [db : Libraries, rev : Nat]
Leases == [rev : Nat, before : ControlRows, after : ControlRows \union {NoRecord}]
ReceiptPhases == {"prepared", "dispatched", "selected"}
Receipts == [op : Nat, phase : ReceiptPhases, after : ControlRows \union {NoRecord}, gate : Nat]
LibraryRows == [has : SUBSET (0..MaxLibraryEdits), rev : Nat, gate : Nat,
                lease : Leases \union {NoRecord}, marker : Receipts \union {NoRecord}]

ASSUME SelectionAssumption ==
    /\ {MaxLibraryEdits, MaxSaves, MaxSelections, MaxCrashes, MaxRejects} \subseteq Nat
    /\ NoRecord \notin ControlRows \union Leases \union Receipts \union LibraryRows

VARIABLES local,   \* the row of chrome.storage.local: the database it names and its revision
          lib,     \* the two libraries
          inFlight, \* rows given to chrome.storage.local.set and not settled yet
          open,    \* per worker: the library it opened
          sel,     \* per worker: its selection
          save,    \* per worker: its settings save
          answer,  \* what a cancellation was answered, or NoRecord
          libraryEdits, saves, ops, crashes, rejects,
          sent,    \* history: rows of a selection given to the storage
          told     \* history: somebody was told that the copy is selected

counters == <<libraryEdits, saves, ops, crashes, rejects>>
outcome == <<sent, told>>
selectionVars == <<local, lib, inFlight, open, sel, save, answer, counters, outcome>>

NoSelection == [pc |-> "none", op |-> 0, cut |-> NoRecord, source |-> NoRecord,
                target |-> NoRecord, before |-> NoRecord, after |-> NoRecord]
NoSave == [pc |-> "idle", lease |-> NoRecord]

SelectionInit ==
    /\ local = [db |-> "source", rev |-> 0]
    /\ lib = [l \in Libraries |-> [has |-> {}, rev |-> 0, gate |-> 0, lease |-> NoRecord,
                                     marker |-> NoRecord]]
    /\ inFlight = {}
    /\ open = [w \in Workers |-> "off"]
    /\ sel = [w \in Workers |-> NoSelection]
    /\ save = [w \in Workers |-> NoSave]
    /\ answer = NoRecord
    /\ libraryEdits = 0 /\ saves = 0 /\ ops = 0 /\ crashes = 0 /\ rejects = 0
    /\ sent = 0 /\ told = FALSE

-----------------------------------------------------------------------------
(* One transaction on a library; a published copy counts its writes. *)
Write(l, r) == lib' = [lib EXCEPT ![l] = [r EXCEPT !.gate = IF l = "target" THEN @ + 1 ELSE @]]

(* Ordinary writes are refused while a receipt is there. *)
AdmittedAlways(l) == TRUE \* mutant
Admitted(l) == lib[l].marker = NoRecord

At(w, pc) == open[w] \in Libraries /\ sel[w].pc = pc
Go(w, r) == sel' = [sel EXCEPT ![w] = r]
Step(w, pc) == Go(w, [sel[w] EXCEPT !.pc = pc])

(* The ordinary work of a worker. *)
Edit(w) ==
    /\ open[w] \in Libraries /\ save[w].pc # "recover" /\ libraryEdits < MaxLibraryEdits
    /\ Admitted(open[w])
    /\ Write(open[w], [lib[open[w]] EXCEPT !.has = @ \union {libraryEdits}])
    /\ libraryEdits' = libraryEdits + 1
    /\ UNCHANGED <<local, inFlight, open, sel, save, answer, saves, ops, crashes, rejects, outcome>>

(* saveControl: a settings change takes the lease of its library. *)
ReserveSave(w) ==
    LET l == open[w]
        lease == [rev |-> lib[l].rev + 1, before |-> local, after |-> NoRecord]
    IN /\ l \in Libraries /\ save[w].pc = "idle" /\ saves < MaxSaves
       /\ Admitted(l) /\ lib[l].lease = NoRecord
       /\ Write(l, [lib[l] EXCEPT !.rev = @ + 1, !.lease = lease])
       /\ save' = [save EXCEPT ![w] = [pc |-> "reserved", lease |-> lease]]
       /\ saves' = saves + 1
       /\ UNCHANGED <<local, inFlight, open, sel, answer, libraryEdits, ops, crashes, rejects, outcome>>

(* publish: the row it is about to write is recorded first ... *)
PrepareSave(w) ==
    LET l == open[w]
        full == [save[w].lease EXCEPT !.after = [db |-> l, rev |-> save[w].lease.rev]]
    IN /\ save[w].pc = "reserved"
       /\ Admitted(l) /\ lib[l].lease = save[w].lease
       /\ Write(l, [lib[l] EXCEPT !.lease = full])
       /\ save' = [save EXCEPT ![w] = [pc |-> "prepared", lease |-> full]]
       /\ UNCHANGED <<local, inFlight, open, sel, answer, counters, outcome>>

(* ... then written once ... *)
SendSave(w) ==
    /\ save[w].pc = "prepared"
    /\ inFlight' = inFlight \union {save[w].lease.after}
    /\ save' = [save EXCEPT ![w].pc = "sent"]
    /\ UNCHANGED <<local, lib, open, sel, answer, counters, outcome>>

(* ... and the lease released, whether the write was taken or rejected. *)
ReleaseSave(w) ==
    LET l == open[w] IN
    /\ save[w].pc = "sent" /\ save[w].lease.after \notin inFlight
    /\ Admitted(l) /\ lib[l].lease = save[w].lease
    /\ Write(l, [lib[l] EXCEPT !.lease = NoRecord])
    /\ save' = [save EXCEPT ![w] = NoSave]
    /\ UNCHANGED <<local, inFlight, open, sel, answer, counters, outcome>>

(* A save whose library moved under it ends with an error. *)
Dropped(w) ==
    /\ save[w].pc \in {"reserved", "prepared", "sent"}
    /\ ~Admitted(open[w]) \/ lib[open[w]].lease # save[w].lease
    /\ save' = [save EXCEPT ![w] = NoSave]
    /\ UNCHANGED <<local, lib, inFlight, open, sel, answer, counters, outcome>>

(* recoverControlPublication at startup: only a lease it can judge goes. *)
Provable(l) == /\ lib[l].lease.after \in {NoRecord, local}
               /\ lib[l].lease.after = NoRecord => lib[l].lease.before = local
RecoverSave(w) ==
    LET l == open[w] IN
    /\ save[w].pc = "recover"
    /\ IF lib[l].lease # NoRecord /\ Provable(l) /\ Admitted(l)
       THEN Write(l, [lib[l] EXCEPT !.lease = NoRecord]) ELSE UNCHANGED lib
    /\ save' = [save EXCEPT ![w] = NoSave]
    /\ UNCHANGED <<local, inFlight, open, sel, answer, counters, outcome>>

-----------------------------------------------------------------------------
(* chrome.storage.local: a row is taken, or rejected. *)
RowLands(row) ==
    /\ row \in inFlight
    /\ local' = row
    /\ inFlight' = inFlight \ {row}
    /\ UNCHANGED <<lib, open, sel, save, answer, counters, outcome>>

RowRejected(row) ==
    /\ row \in inFlight /\ rejects < MaxRejects
    /\ inFlight' = inFlight \ {row}
    /\ rejects' = rejects + 1
    /\ UNCHANGED <<local, lib, open, sel, save, answer, libraryEdits, saves, ops, crashes, outcome>>

-----------------------------------------------------------------------------
(* prepare: what is in use, and the copy, are cut, read and cut again. *)
LeaseFree(l) == lib[l].lease = NoRecord

CutSource(w) ==
    /\ At(w, "none") /\ open[w] = "source" /\ save[w].pc # "recover" /\ ops < MaxSelections
    /\ lib["source"].marker = NoRecord /\ LeaseFree("source")
    /\ Go(w, [NoSelection EXCEPT !.pc = "cut", !.op = ops + 1, !.cut = lib["source"],
                                 !.before = local])
    /\ ops' = ops + 1
    /\ UNCHANGED <<local, lib, inFlight, open, save, answer, libraryEdits, saves, crashes, rejects, outcome>>

CutTarget(w) ==
    /\ At(w, "cut")
    /\ LeaseFree("target") /\ lib["target"].has = sel[w].cut.has
    /\ Step(w, "paired")
    /\ UNCHANGED <<local, lib, inFlight, open, save, answer, counters, outcome>>

(* requireOriginalApplicationInheritanceCut: the cut still stands. *)
CutHolds(w) ==
    /\ local = sel[w].before
    /\ LeaseFree("source") /\ lib["source"].rev = sel[w].cut.rev
    /\ lib["source"].has = sel[w].cut.has
    /\ LeaseFree("target") /\ lib["target"].has = sel[w].cut.has

ReadRows(w) ==
    /\ At(w, "paired")
    /\ Go(w, [sel[w] EXCEPT !.pc = "read", !.source = lib["source"], !.target = lib["target"]])
    /\ UNCHANGED <<local, lib, inFlight, open, save, answer, counters, outcome>>

Prepared(w) ==
    /\ At(w, "read") /\ CutHolds(w)
    /\ Step(w, "prepared")
    /\ UNCHANGED <<local, lib, inFlight, open, save, answer, counters, outcome>>

(* activate: the cuts are proved again before anything is written. *)
Admit(w) ==
    /\ At(w, "prepared") /\ CutHolds(w)
    /\ Step(w, "admitted")
    /\ UNCHANGED <<local, lib, inFlight, open, save, answer, counters, outcome>>

(* A deadline, a failed transaction, a closed review: the owner stops here. *)
GiveUp(w) ==
    /\ sel[w].pc # "none"
    /\ Go(w, NoSelection)
    /\ UNCHANGED <<local, lib, inFlight, open, save, answer, counters, outcome>>

Marker(w, phase) == [op |-> sel[w].op, phase |-> phase, after |-> sel[w].after,
                     gate |-> sel[w].target.gate]
MarkerOf(r, phase) == [op |-> r.op, phase |-> phase, after |-> r.after, gate |-> r.target.gate]
Mine(w, l, phase) == lib[l].marker = Marker(w, phase)

(* The receipts: every row of the library must be the row that was read. *)
MarkSource(w) ==
    /\ At(w, "admitted")
    /\ lib["source"] = sel[w].source
    /\ Write("source", [lib["source"] EXCEPT !.marker = Marker(w, "prepared")])
    /\ Step(w, "marked")
    /\ UNCHANGED <<local, inFlight, open, save, answer, counters, outcome>>

MarkTarget(w) ==
    /\ At(w, "marked")
    /\ lib["target"] = sel[w].target
    /\ Write("target", [lib["target"] EXCEPT !.marker = Marker(w, "prepared")])
    /\ Step(w, "both")
    /\ UNCHANGED <<local, inFlight, open, save, answer, counters, outcome>>

(* finishSelection: the row to write follows from what still stands. *)
Ready(w) ==
    /\ At(w, "both")
    /\ lib["target"].gate = sel[w].target.gate + 1 /\ LeaseFree("target")
    /\ local = sel[w].before
    /\ Go(w, [sel[w] EXCEPT !.pc = "ready",
                            !.after = [db |-> "target", rev |-> lib["target"].rev + 1]])
    /\ UNCHANGED <<local, lib, inFlight, open, save, answer, counters, outcome>>

ReserveTarget(w) ==
    /\ At(w, "ready")
    /\ lib["target"].marker = MarkerOf([sel[w] EXCEPT !.after = NoRecord], "prepared")
    /\ lib["target"].gate = sel[w].target.gate + 1 /\ LeaseFree("target")
    /\ Write("target", [lib["target"] EXCEPT
           !.rev = sel[w].after.rev,
           !.lease = [rev |-> sel[w].after.rev, before |-> sel[w].before, after |-> sel[w].after],
           !.marker = Marker(w, "dispatched")])
    /\ Step(w, "reserved")
    /\ UNCHANGED <<local, inFlight, open, save, answer, counters, outcome>>

DispatchSource(w) ==
    /\ At(w, "reserved")
    /\ lib["source"].marker = MarkerOf([sel[w] EXCEPT !.after = NoRecord], "prepared")
    /\ Write("source", [lib["source"] EXCEPT !.marker = Marker(w, "dispatched")])
    /\ Step(w, "dispatched")
    /\ UNCHANGED <<local, inFlight, open, save, answer, counters, outcome>>

RecheckRow(w) ==
    /\ At(w, "dispatched")
    /\ local = sel[w].before
    /\ Step(w, "checked")
    /\ UNCHANGED <<local, lib, inFlight, open, save, answer, counters, outcome>>

(* Exactly one row is given to the storage. *)
DispatchRow(w) ==
    /\ At(w, "checked")
    /\ inFlight' = inFlight \union {sel[w].after}
    /\ sent' = sent + 1
    /\ Step(w, "sent")
    /\ UNCHANGED <<local, lib, open, save, answer, counters, told>>

(* Its answer is not believed: only the row itself is. *)
Observe(w) ==
    /\ At(w, "sent") /\ sel[w].after \notin inFlight
    /\ IF local = sel[w].after THEN Step(w, "seen") ELSE Go(w, NoSelection)
    /\ UNCHANGED <<local, lib, inFlight, open, save, answer, counters, outcome>>

SelectSource(w) ==
    /\ At(w, "seen") /\ Mine(w, "source", "dispatched")
    /\ Write("source", [lib["source"] EXCEPT !.marker = Marker(w, "selected")])
    /\ Step(w, "selected")
    /\ UNCHANGED <<local, inFlight, open, save, answer, counters, outcome>>

CleanTarget(w) ==
    /\ At(w, "selected") /\ Mine(w, "target", "dispatched")
    /\ local = sel[w].after /\ lib["target"].gate = sel[w].target.gate + 2
    /\ Write("target", [lib["target"] EXCEPT !.lease = NoRecord, !.marker = NoRecord])
    /\ Step(w, "cleaned")
    /\ UNCHANGED <<local, inFlight, open, save, answer, counters, outcome>>

FinishSelection(w) ==
    /\ At(w, "cleaned")
    /\ lib["target"].gate >= sel[w].target.gate + 3 /\ local.db = "target"
    /\ Go(w, NoSelection)
    /\ told' = TRUE
    /\ UNCHANGED <<local, lib, inFlight, open, save, answer, counters, sent>>

-----------------------------------------------------------------------------
(* observeColdSelection: what a new worker believes of a selected receipt. *)
SourceReceipt == lib["source"].marker
Selected ==
    /\ SourceReceipt.phase = "selected"
    /\ lib["target"].marker = NoRecord /\ LeaseFree("target")
    /\ lib["target"].gate >= SourceReceipt.gate + 3
    /\ local.db = "target" /\ local.rev = lib["target"].rev
    /\ local.rev >= SourceReceipt.after.rev
    /\ local.rev = SourceReceipt.after.rev => local = SourceReceipt.after

(* A worker starts: the receipts decide which library it opens, if any. *)
StartWorker(w) ==
    /\ open[w] = "off"
    /\ open' = [open EXCEPT ![w] =
                  IF SourceReceipt = NoRecord
                  THEN IF local.db = "source" THEN "source" ELSE "refused"
                  ELSE IF Selected THEN "target" ELSE "refused"]
    /\ save' = [save EXCEPT ![w].pc = IF open'[w] = "refused" THEN "idle" ELSE "recover"]
    /\ UNCHANGED <<local, lib, inFlight, sel, answer, counters, outcome>>

(* A worker is lost, or reloaded; what it gave to the storage may still land. *)
WorkerLost(w) ==
    /\ open[w] # "off" /\ crashes < MaxCrashes
    /\ open' = [open EXCEPT ![w] = "off"]
    /\ sel' = [sel EXCEPT ![w] = NoSelection]
    /\ save' = [save EXCEPT ![w] = NoSave]
    /\ crashes' = crashes + 1
    /\ UNCHANGED <<local, lib, inFlight, answer, libraryEdits, saves, ops, rejects, outcome>>

(* PAIA_GENERATION_CANCEL, when this worker is not selecting: the review is *)
(* closed, but a receipt, even an undispatched one, is never withdrawn.    *)
CancelReview(w) ==
    /\ open[w] # "off" /\ sel[w].pc \in {"none", "prepared"} /\ answer = NoRecord
    /\ answer' = IF SourceReceipt = NoRecord THEN "not-prepared"
                 ELSE IF SourceReceipt.phase = "prepared" THEN "account-required" ELSE "outcome-unknown"
    /\ sel' = IF SourceReceipt = NoRecord THEN [sel EXCEPT ![w] = NoSelection] ELSE sel
    /\ UNCHANGED <<local, lib, inFlight, open, save, counters, outcome>>

Selecting(w) ==
    \/ CutSource(w) \/ CutTarget(w) \/ ReadRows(w) \/ Prepared(w) \/ Admit(w) \/ GiveUp(w)
    \/ MarkSource(w) \/ MarkTarget(w) \/ Ready(w) \/ ReserveTarget(w) \/ DispatchSource(w)
    \/ RecheckRow(w) \/ DispatchRow(w) \/ Observe(w) \/ SelectSource(w) \/ CleanTarget(w)
    \/ FinishSelection(w)

Ordinary(w) ==
    \/ Edit(w) \/ ReserveSave(w) \/ PrepareSave(w) \/ SendSave(w) \/ ReleaseSave(w)
    \/ Dropped(w) \/ RecoverSave(w)

SelectionNext ==
    \/ \E w \in Workers :
          Selecting(w) \/ Ordinary(w) \/ StartWorker(w) \/ WorkerLost(w) \/ CancelReview(w)
    \/ \E row \in inFlight : RowLands(row) \/ RowRejected(row)

SelectionSpec == SelectionInit /\ [][SelectionNext]_selectionVars

-----------------------------------------------------------------------------
(* Every variable has the shape the code gives it. *)
SelectionTypeOK ==
    /\ local \in ControlRows
    /\ inFlight \subseteq ControlRows
    /\ \A l \in Libraries :
          /\ lib[l].has \subseteq 0..MaxLibraryEdits /\ lib[l].rev \in Nat /\ lib[l].gate \in Nat
          /\ lib[l].lease # NoRecord => lib[l].lease.before \in ControlRows
          /\ lib[l].marker # NoRecord => lib[l].marker.phase \in ReceiptPhases
    /\ open \in [Workers -> Libraries \union {"off", "refused"}]
    /\ DOMAIN sel = Workers /\ DOMAIN save = Workers

(* The settings row never names the copy while the library it was taken    *)
(* from still accepts ordinary writes (beginSelectionWrite), and a worker  *)
(* that opened the copy opened it behind a completed receipt.              *)
OneWritableLibrary ==
    /\ local.db = "target" => SourceReceipt # NoRecord
    /\ \A w \in Workers : open[w] = "target" =>
          local.db = "target" /\ SourceReceipt # NoRecord /\ SourceReceipt.phase = "selected"

(* Nothing the user edited is missing from the library that is opened in   *)
(* its place (requireRows, the whole-row comparison before each receipt).  *)
NoEditLost ==
    \A w \in Workers : open[w] = "target" => lib["source"].has \subseteq lib["target"].has

(* A selected receipt tells the truth: the row names the copy, and no      *)
(* write given to the storage earlier can take that back.                  *)
SelectedIsVisible ==
    SourceReceipt # NoRecord /\ SourceReceipt.phase = "selected" =>
        /\ local.db = "target"
        /\ \A row \in inFlight : row.db = "target"

(* Exactly one original dispatch (finishSelection): whatever is retried or *)
(* restarted, no second selection row is ever given to the storage.        *)
OneDispatch == sent <= 1

(* What the user was told holds: the copy is in use, without a receipt of  *)
(* its own, and the prior library is closed to writes.                     *)
ToldIsTrue ==
    told => local.db = "target" /\ lib["target"].marker = NoRecord /\ SourceReceipt # NoRecord

(* There is no way back: no late, repeated or recovered write names the    *)
(* prior library once the row named the copy (rollback is refused).        *)
NoWayBack == [][local.db = "target" => local'.db = "target"]_selectionVars

(* There is one writable library, it has every edit of the one it replaced, *)
(* receipts and answers tell the truth, a selection is dispatched once and *)
(* there is no way back (application-generation-selection.js).             *)
SelectionIsSound ==
    /\ [](/\ SelectionTypeOK /\ OneWritableLibrary /\ NoEditLost
          /\ SelectedIsVisible /\ OneDispatch /\ ToldIsTrue)
    /\ NoWayBack

(* application-generation-selection.js:417, application-selection-         *)
(* commands.js:49: a selection that was not dispatched can be cancelled.   *)
UndispatchedCanBeCancelled == answer # "account-required"

(* application-generation-selection.js:594: later publications of settings *)
(* in the selected library remain compatible with its receipt, so when     *)
(* nothing is in flight and no worker is alive, the next one may open it.  *)
SelectedStaysOpen ==
    told /\ inFlight = {} /\ (\A w \in Workers : open[w] \notin Libraries) => Selected
=============================================================================
