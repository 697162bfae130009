---------------------------- MODULE EntryUpkeep ----------------------------
(***************************************************************************)
(* How thoughts follow the inputs they were made from.  A mirror has the   *)
(* whole text of one input as its body, a derived entry a text of its own. *)
(* An edit of an input reaches its mirrors at once and leaves an           *)
(* invalidation behind; a purge leaves a cleanup job.  The safety runner   *)
(* works both off later, an invalidation in two transactions.  Until then  *)
(* what is read is computed from the inputs as they are.                   *)
(***************************************************************************)
EXTENDS Naturals, Sequences, FiniteSets

CONSTANTS Inputs,
          Mirrors, Derived, \* the ids of entries to come: numbers, in key order
          Texts, Own,       \* texts of inputs, and what a user writes into an entry
          Limit,            \* the rows of one batch
          None,
          MaxEdits,  \* bound: edits and purges of inputs
          MaxUses,   \* bound: edits, removals and restorations of entries
          MaxFaults  \* bound: failed transactions, deaths of the worker, edits without an id

Entries == Mirrors \cup Derived

\* Rows of the store: an entry and what it knows of one input it was made of.
Writings == Texts \cup {Own}
EntryRows ==
    [life : {"active", "removed", "invalidated"}, body : Writings \cup {"derived"},
     of : Inputs \cup {None}, bindRev : Nat, born : Nat, fresh : {"current", "stale"},
     whole : {"complete", "partial", "detached"}, human : BOOLEAN, sources : SUBSET Inputs]
Dependencies == [text : Writings, based : Nat, eligible : Nat, valid : BOOLEAN]

ASSUME EntryAssumption ==
    /\ IsFiniteSet(Inputs) /\ IsFiniteSet(Entries) /\ Entries \subseteq Nat \ {0} /\ Mirrors \cap Derived = {}
    /\ Texts # {} /\ Limit \in Nat \ {0}
    /\ None \notin Inputs \cup EntryRows \cup Dependencies
    /\ \A s \in SUBSET Inputs : None \notin [s -> Writings]

VARIABLES inputs,  \* [text, rev, out, removedAt, purged]
          epoch,   \* the row thought-epoch
          entries, \* [life, body, of, bindRev, born, fresh, whole, human, sources], or None
          deps,    \* per entry and input [text, based, eligible, valid], or None
          events,  \* the pending invalidations, oldest first
          jobs,    \* the cleanup jobs that are not completed, oldest first
          runner,  \* [at, busy, read, requested, failed]
          owed,    \* a wake of the runner follows what was answered
          draft,   \* evidence read for an entry that is about to be created
          used,    \* history: the inputs an entry was made from, with their texts
          removedSince, \* history: which of them were removed afterwards
          gone,    \* history: removed by the user and not restored by the user
          handled, \* history: entries the user removed at some time
          cleaned, \* history: the inputs whose cleanup is completed
          edits, uses, faults

rows == <<inputs, epoch, entries, deps, events, jobs>>
worker == <<runner, owed, draft>>
history == <<used, removedSince, gone, handled, cleaned>>
bounds == <<edits, uses, faults>>
vars == <<rows, worker, history, bounds>>

Idle == [at |-> "off", busy |-> FALSE, read |-> None, requested |-> FALSE, failed |-> FALSE]

Init ==
    /\ inputs = [i \in Inputs |-> [text |-> CHOOSE x \in Texts : TRUE, rev |-> 0, out |-> FALSE,
                                   removedAt |-> 0, purged |-> FALSE]]
    /\ epoch = 0 /\ events = <<>> /\ jobs = <<>>
    /\ entries = [e \in Entries |-> None]
    /\ deps = [e \in Entries |-> [i \in Inputs |-> None]]
    /\ runner = Idle /\ owed = FALSE /\ draft = None
    /\ used = [e \in Entries |-> None] /\ removedSince = [e \in Entries |-> {}]
    /\ gone = {} /\ handled = {} /\ cleaned = {}
    /\ edits = 0 /\ uses = 0 /\ faults = 0

-----------------------------------------------------------------------------
(* inputProjection: an input that may be read. *)
Present(i) == ~inputs[i].out /\ ~inputs[i].purged
SourcePresent(e) == \A i \in entries[e].sources : ~inputs[i].purged
Evidence(e) == {i \in Inputs : deps[e][i] # None}

(* classifyBinding of a mirror, for a text and a revision of its input. *)
Follows(e, text, rev) ==
    LET row == entries[e] dep == deps[e][row.of] IN
    /\ dep # None /\ row.body = text
    /\ row.bindRev = rev \/ (dep.based = rev /\ row.born \in {0, rev})
Bound(e) ==
    LET i == entries[e].of IN
    i # None /\ Present(i) /\ Follows(e, inputs[i].text, inputs[i].rev)
Unbound(row) == [row EXCEPT !.of = None, !.bindRev = 0]
Classified(e) ==
    IF Bound(e) THEN [entries[e] EXCEPT !.bindRev = inputs[entries[e].of].rev]
    ELSE Unbound(entries[e])

(* What is shown of an entry: readableEntry and dependencyState. *)
Eligible(e, i, of) == Present(i) /\ (inputs[i].removedAt <= deps[e][i].eligible \/ of = i)
Differs(e, i, row) ==
    /\ inputs[i].text # deps[e][i].text
    /\ ~(row.of = i /\ deps[e][i].valid /\ row.bindRev = inputs[i].rev /\ row.body = inputs[i].text)
Shown(e) ==
    IF ~SourcePresent(e)
    THEN [body |-> None, fresh |-> "stale", bound |-> FALSE,
          life |-> IF entries[e].human THEN entries[e].life ELSE "invalidated"]
    ELSE LET row == Classified(e)
             good == {i \in Evidence(e) : Eligible(e, i, row.of)}
         IN [body |-> row.body, bound |-> row.of # None,
             fresh |-> IF good = Evidence(e) /\ \A i \in good : ~Differs(e, i, row)
                       THEN row.fresh ELSE "stale",
             life |-> IF good = {} /\ Evidence(e) # {} /\ ~row.human /\ row.life = "active"
                      THEN "invalidated" ELSE row.life]

-----------------------------------------------------------------------------
(* Edits of an input: afterInputEdit. *)

(* saveLinkedBody: the hand is a user's if the edit is one of the user's   *)
(* operations, by its id; the older entry points have none.                *)
Linked(row, text, rev, named) ==
    [row EXCEPT !.body = text, !.bindRev = rev, !.human = @ \/ (named /\ row.body # text),
                !.life = IF @ = "invalidated" THEN "active" ELSE @,
                !.fresh = "current", !.whole = "complete"]

(* propagateInputWorkingChange: only an input that was and is readable. *)
Propagated(i, text, rev, named) ==
    [e \in Entries |->
       LET row == entries[e] IN
       IF row = None THEN row
       ELSE IF row.of # i \/ row.life = "removed" \/ ~Present(i) THEN row
       ELSE IF Follows(e, inputs[i].text, inputs[i].rev) THEN Linked(row, text, rev, named)
       ELSE Unbound(row)]

Invalidation(i, reason, named) ==
    [input |-> i, reason |-> reason, named |-> named, sequence |-> epoch + 1, cursor |-> 0]

NextRev(i, text) == IF text # inputs[i].text THEN inputs[i].rev + 1 ELSE inputs[i].rev
Edited(row, text, rev, out, at) ==
    [row EXCEPT !.text = text, !.rev = rev, !.out = out, !.removedAt = IF out THEN at ELSE @]

AfterInputEdit(i, text, out, named) ==
    /\ inputs' = [inputs EXCEPT ![i] = Edited(inputs[i], text, NextRev(i, text), out, epoch + 1)]
    /\ entries' = IF out THEN entries ELSE Propagated(i, text, NextRev(i, text), named)
    /\ events' = Append(events, Invalidation(i, IF out THEN "input_removed" ELSE "source_updated", named))
    /\ epoch' = epoch + 1
    /\ removedSince' = [e \in Entries |->
         IF out /\ used[e] # None /\ i \in DOMAIN used[e]
         THEN removedSince[e] \cup {i} ELSE removedSince[e]]

EditInput(i, text, out, named) ==
    /\ edits < MaxEdits /\ edits' = edits + 1
    /\ ~inputs[i].purged /\ <<text, out>> # <<inputs[i].text, inputs[i].out>>
    /\ AfterInputEdit(i, text, out, named)
    /\ named \/ faults < MaxFaults
    /\ faults' = IF named THEN faults ELSE faults + 1
    /\ owed' = TRUE
    /\ UNCHANGED <<deps, jobs, runner, draft, used, gone, handled, cleaned, uses>>

(* assessSourcePurge lets a source go that no user has edited, and no user *)
(* has had a hand in what was made of it.                                  *)
Purgeable(i) ==
    /\ ~inputs[i].purged /\ inputs[i].rev = 0
    /\ \A e \in Entries : entries[e] # None /\ (i \in entries[e].sources \/ deps[e][i] # None)
                           => ~entries[e].human /\ e \notin handled

(* purge with beforeSourcePurge, one transaction. *)
Purge(i) ==
    /\ edits < MaxEdits /\ edits' = edits + 1
    /\ Purgeable(i)
    /\ inputs' = [inputs EXCEPT ![i].purged = TRUE]
    /\ jobs' = Append(jobs, [source |-> i, stage |-> "thoughts"])
    /\ epoch' = epoch + 2
    /\ events' = Append(events, [Invalidation(i, "source_purged", FALSE) EXCEPT !.sequence = epoch + 2])
    /\ owed' = TRUE
    /\ UNCHANGED <<entries, deps, runner, draft, history, uses, faults>>

-----------------------------------------------------------------------------
(* Entries are created in two steps, on evidence that is read first. *)
ReadEvidence(e, chosen) ==
    /\ draft = None /\ entries[e] = None /\ used[e] = None
    /\ chosen # {} /\ (e \in Mirrors => Cardinality(chosen) = 1)
    /\ \A i \in chosen : Present(i)
    /\ draft' = [entry |-> e, epoch |-> epoch,
                 evidence |-> [i \in chosen |-> [text |-> inputs[i].text, rev |-> inputs[i].rev]]]
    /\ UNCHANGED <<rows, runner, owed, history, bounds>>

EvidencePresent == \A i \in DOMAIN draft.evidence : Present(i) \* mutant
(* checkEvidenceInTransaction *)
EvidenceHolds ==
    /\ draft.epoch = epoch
    /\ \A i \in DOMAIN draft.evidence : Present(i) /\ inputs[i].rev = draft.evidence[i].rev

CreateEntry ==
    /\ draft # None /\ EvidenceHolds
    /\ LET e == draft.entry
           ev == draft.evidence
           mirror == e \in Mirrors
           i == CHOOSE x \in DOMAIN ev : TRUE
       IN /\ entries' = [entries EXCEPT ![e] =
               [life |-> "active", body |-> IF mirror THEN ev[i].text ELSE "derived",
                of |-> IF mirror THEN i ELSE None, bindRev |-> IF mirror THEN ev[i].rev ELSE 0,
                born |-> ev[i].rev, fresh |-> "current", whole |-> "complete", human |-> FALSE,
                sources |-> DOMAIN ev]]
          /\ deps' = [deps EXCEPT ![e] = [j \in Inputs |->
               IF j \in DOMAIN ev
               THEN [text |-> ev[j].text, based |-> ev[j].rev, eligible |-> draft.epoch, valid |-> TRUE]
               ELSE None]]
          /\ used' = [used EXCEPT ![e] = [j \in DOMAIN ev |-> ev[j].text]]
    /\ draft' = None
    /\ UNCHANGED <<inputs, epoch, events, jobs, runner, owed, removedSince, gone, handled, cleaned,
                   bounds>>

DropDraft ==
    /\ draft # None /\ ~EvidenceHolds /\ draft' = None
    /\ UNCHANGED <<rows, runner, owed, history, bounds>>

(* editEntry: a mirror hands the text to its input if the user wants that  *)
(* (the setting reverse edit), and else becomes a text of its own.         *)
EditEntry(e) ==
    /\ uses < MaxUses /\ uses' = uses + 1
    /\ entries[e] # None /\ entries[e].life = "active" /\ SourcePresent(e)
    /\ \/ /\ Bound(e) /\ inputs[entries[e].of].text # Own
          /\ AfterInputEdit(entries[e].of, Own, FALSE, TRUE)
       \/ /\ entries[e].body # Own
          /\ entries' = [entries EXCEPT ![e] = [Unbound(@) EXCEPT !.body = Own, !.human = TRUE]]
          /\ UNCHANGED <<inputs, epoch, events, removedSince>>
    /\ owed' = TRUE
    /\ UNCHANGED <<deps, jobs, runner, draft, used, gone, handled, cleaned, edits, faults>>

(* removeEntry writes the row as it was read. *)
RemoveEntry(e) ==
    /\ uses < MaxUses /\ uses' = uses + 1
    /\ entries[e] # None /\ entries[e].life = "active" /\ SourcePresent(e)
    /\ entries' = [entries EXCEPT ![e] = [Classified(e) EXCEPT !.life = "removed"]]
    /\ gone' = gone \cup {e} /\ handled' = handled \cup {e} /\ owed' = TRUE
    /\ UNCHANGED <<inputs, epoch, deps, events, jobs, runner, draft, used, removedSince, cleaned,
                   edits, faults>>

RestoreEntry(e) ==
    /\ uses < MaxUses /\ uses' = uses + 1
    /\ entries[e] # None /\ entries[e].life = "removed" /\ SourcePresent(e)
    /\ entries' = [entries EXCEPT ![e] = [@ EXCEPT !.life = "active", !.human = TRUE]]
    /\ gone' = gone \ {e} /\ owed' = TRUE
    /\ UNCHANGED <<inputs, epoch, deps, events, jobs, runner, draft, used, removedSince, handled,
                   cleaned, edits, faults>>

-----------------------------------------------------------------------------
(* The safety runner: a cleanup batch, then an invalidation batch, until   *)
(* neither has anything to do.                                             *)
Wake ==
    /\ owed /\ owed' = FALSE
    /\ runner' = IF runner.at # "off" THEN [runner EXCEPT !.requested = TRUE]
                 ELSE IF runner.failed THEN runner
                 ELSE [Idle EXCEPT !.at = "purge"]
    /\ UNCHANGED <<rows, draft, history, bounds>>

Batch(all) == {s \in SUBSET all : Cardinality(s) = Limit \/ (s = all /\ Cardinality(s) < Limit)}

(* purgeBatch: the entries of the source, then everything else that names  *)
(* it, deleted batch by batch.  No entry of it is a user's.                *)
CleanJob(job, full) ==
    IF full THEN jobs
    ELSE IF job.stage = "thoughts" THEN <<[job EXCEPT !.stage = "others"]>> \o Tail(jobs)
    ELSE IF job.stage = "others" THEN <<[job EXCEPT !.stage = "over"]>> \o Tail(jobs)
    ELSE Tail(jobs)
CleanBatch ==
    LET job == Head(jobs)
        holders == {e \in Entries :
          IF job.stage = "thoughts" THEN entries[e] # None /\ job.source \in entries[e].sources
          ELSE deps[e][job.source] # None}
    IN /\ jobs # <<>>
       /\ \E s \in IF job.stage = "over" THEN {{}} ELSE Batch(holders) :
            /\ entries' = IF job.stage # "thoughts" THEN entries
                          ELSE [e \in Entries |-> IF e \in s THEN None ELSE entries[e]]
            /\ deps' = IF job.stage # "others" THEN deps
                       ELSE [e \in Entries |->
                              IF e \in s THEN [deps[e] EXCEPT ![job.source] = None] ELSE deps[e]]
            /\ jobs' = CleanJob(job, job.stage # "over" /\ Cardinality(s) = Limit)
       /\ cleaned' = IF job.stage = "over" THEN cleaned \cup {job.source} ELSE cleaned

Clean ==
    /\ runner.at = "purge"
    /\ runner' = [runner EXCEPT !.at = "read", !.busy = jobs # <<>>]
    /\ CleanBatch \/ (jobs = <<>> /\ UNCHANGED <<entries, deps, jobs, cleaned>>)
    /\ UNCHANGED <<inputs, epoch, events, owed, draft, used, removedSince, gone, handled, bounds>>

Ended(r) == IF r.requested THEN [Idle EXCEPT !.at = "purge"] ELSE Idle
GoesOn(r) == [r EXCEPT !.at = "purge", !.read = None]

(* invalidationBatch, the reading half: the page after the cursor. *)
After(event) == {e \in Entries : e > event.cursor /\ deps[e][event.input] # None}
FirstOf(all) == {e \in all : Cardinality({x \in all : x < e}) < Limit}
ReadBatch ==
    /\ runner.at = "read"
    /\ runner' =
         IF events = <<>> THEN (IF runner.busy THEN GoesOn(runner) ELSE Ended(runner))
         ELSE LET event == Head(events)
                  page == FirstOf(After(event))
              IN [runner EXCEPT !.at = "commit", !.read =
                   [event |-> event, page |-> [e \in page |-> deps[e][event.input]],
                    last |-> page = After(event),
                    present |-> Present(event.input), rev |-> inputs[event.input].rev,
                    text |-> inputs[event.input].text]]
    /\ UNCHANGED <<rows, owed, draft, history, bounds>>

(* What the committing half does to an entry and its dependency; the entry *)
(* may be gone already.                                                    *)
Shared(e, i) == entries[e] # None /\ entries[e].of = i
Missing(e, i) ==
    \/ ~Present(i)
    \/ ~Shared(e, i) /\ inputs[i].removedAt > deps[e][i].eligible
Changed(e, i) == runner.read.text # deps[e][i].text
OthersValid(e, i) ==
    \E j \in Evidence(e) \ {i} : Present(j) /\ inputs[j].removedAt <= deps[e][j].eligible

Refreshed(e, i) ==
    LET row == entries[e] alone == ~OthersValid(e, i) IN
    IF Shared(e, i) /\ Present(i) THEN Linked(row, inputs[i].text, inputs[i].rev, runner.read.event.named)
    ELSE IF Shared(e, i)
    THEN [row EXCEPT !.fresh = "stale", !.whole = "detached", !.life = "invalidated"]
    ELSE IF Missing(e, i)
    THEN [row EXCEPT !.fresh = "stale", !.whole = IF alone THEN "detached" ELSE "partial",
                     !.life = IF alone /\ ~row.human /\ @ = "active" THEN "invalidated" ELSE @]
    ELSE IF Changed(e, i) THEN [row EXCEPT !.fresh = "stale"] ELSE row

RefreshedDep(e, i) ==
    LET dep == deps[e][i] IN
    IF Shared(e, i) /\ Present(i)
    THEN [text |-> runner.read.text, based |-> inputs[i].rev,
          eligible |-> runner.read.event.sequence, valid |-> TRUE]
    ELSE IF Shared(e, i) THEN [dep EXCEPT !.valid = FALSE]
    ELSE IF Missing(e, i) THEN None
    ELSE [dep EXCEPT !.valid = ~Changed(e, i)]

(* invalidationBatch, the committing half: only on the event and the input *)
(* that were read, and on dependencies that are still there.               *)
StillRead ==
    LET read == runner.read i == read.event.input IN
    /\ events # <<>> /\ Head(events) = read.event
    /\ Present(i) = read.present /\ (read.present => inputs[i].rev = read.rev)

CommitBatch ==
    LET read == runner.read
        i == read.event.input
        page == {e \in DOMAIN read.page : deps[e][i] # None}
    IN /\ entries' = [e \in Entries |->
                        IF e \in page /\ entries[e] # None THEN Refreshed(e, i) ELSE entries[e]]
       /\ deps' = [e \in Entries |->
                     IF e \in page THEN [deps[e] EXCEPT ![i] = RefreshedDep(e, i)] ELSE deps[e]]
       /\ events' = IF read.last THEN Tail(events)
                    ELSE <<[read.event EXCEPT !.cursor = CHOOSE e \in DOMAIN read.page :
                              \A x \in DOMAIN read.page : x <= e]>> \o Tail(events)

Commit ==
    /\ runner.at = "commit"
    /\ IF StillRead THEN CommitBatch ELSE UNCHANGED <<entries, deps, events>>
    /\ runner' = GoesOn(runner)
    /\ UNCHANGED <<inputs, epoch, jobs, owed, draft, history, bounds>>

(* A transaction of the runner fails: it stops until a retry is asked for, *)
(* or a new worker has a new one.                                          *)
RunnerFails ==
    /\ runner.at # "off" /\ faults < MaxFaults /\ faults' = faults + 1
    /\ runner' = [Idle EXCEPT !.failed = TRUE]
    /\ UNCHANGED <<rows, owed, draft, history, edits, uses>>
Retry ==
    /\ runner.failed
    /\ runner' = [runner EXCEPT !.failed = FALSE] /\ owed' = TRUE
    /\ UNCHANGED <<rows, draft, history, bounds>>

(* The worker dies; the next one wakes its runner when it starts. *)
Die ==
    /\ faults < MaxFaults /\ faults' = faults + 1
    /\ runner' = Idle /\ owed' = TRUE /\ draft' = None
    /\ UNCHANGED <<rows, history, edits, uses>>

Use ==
    \/ \E i \in Inputs : Purge(i) \/ \E x \in Texts, out, named \in BOOLEAN : EditInput(i, x, out, named)
    \/ \E e \in Entries : EditEntry(e) \/ RemoveEntry(e) \/ RestoreEntry(e)
    \/ \E e \in Entries, s \in SUBSET Inputs : ReadEvidence(e, s)
    \/ CreateEntry \/ DropDraft
Run == Wake \/ Clean \/ ReadBatch \/ Commit

Next == Use \/ Run \/ RunnerFails \/ Retry \/ Die

Spec == Init /\ [][Next]_vars

(* Promises are settled, and a browser that is used starts the worker.     *)
Fairness == WF_vars(Run)

-----------------------------------------------------------------------------
TypeOK ==
    /\ \A e \in Entries :
         /\ entries[e] # None =>
              /\ entries[e].life \in {"active", "removed", "invalidated"}
              /\ entries[e].body \in Writings \cup {"derived"}
              /\ entries[e].of \in Inputs \cup {None} /\ entries[e].sources \subseteq Inputs
         /\ Evidence(e) \subseteq Inputs /\ removedSince[e] \subseteq Inputs
    /\ \A n \in 1..Len(events) : events[n].input \in Inputs /\ events[n].sequence <= epoch
    /\ runner.at \in {"off", "purge", "read", "commit"}

There == {e \in Entries : entries[e] # None}

(* A derived entry that is shown as current rests on inputs that are there *)
(* with the texts it was made from, and none of them was removed since,    *)
(* even if it is back.                                                     *)
ShownIsTrue ==
    \A e \in There \cap Derived :
        Shown(e).life = "active" /\ Shown(e).fresh = "current" =>
            \A i \in DOMAIN used[e] :
                Present(i) /\ inputs[i].text = used[e][i] /\ i \notin removedSince[e]

(* An entry nobody but the machine had a hand in is not shown any more     *)
(* when everything it was made of was removed, and does not come back.     *)
RemovalIsRemembered ==
    \A e \in There \cap Derived :
        Shown(e).life = "active" /\ ~entries[e].human => ~DOMAIN used[e] \subseteq removedSince[e]

(* When nothing is pending for its input, a mirror that is kept as one has *)
(* the text of an input that is there.                                     *)
MirrorsAgree ==
    \A e \in There : LET i == entries[e].of IN
        i # None /\ entries[e].life = "active" /\ (\A n \in 1..Len(events) : events[n].input # i)
        /\ ~inputs[i].purged
        => Present(i) /\ entries[e].body = inputs[i].text

(* Nothing of an entry is shown after the purge of an input it was made    *)
(* from, and once the cleanup is over no row of it is left.                *)
PurgedIsGone ==
    \A i \in Inputs : inputs[i].purged =>
        /\ \A e \in There : used[e] # None /\ i \in DOMAIN used[e] =>
             Shown(e).body = None /\ Shown(e).life # "active"
        /\ i \in cleaned =>
             \A e \in Entries : deps[e][i] = None /\ (e \in There => i \notin entries[e].sources)

(* What the library shows of the thoughts is sound.                        *)
EntriesAreSound ==
    TypeOK /\ ShownIsTrue /\ RemovalIsRemembered /\ MirrorsAgree /\ PurgedIsGone

(* An entry the user removed stays away until the user restores it. *)
RemovedStaysRemoved == \A e \in gone \cap There : Shown(e).life # "active"

(* Every purge is cleaned up and every edit reaches what was made of the   *)
(* input, unless the runner has failed and nobody asks for a retry.        *)
UpkeepEnds == <>[](~runner.failed => events = <<>> /\ jobs = <<>>)
=============================================================================
