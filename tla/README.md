# Formal models of PAIA

PAIA is a browser extension that archives and organises the owner's own words
from AI chats, with a small hosted gateway that carries its paid AI requests to
a model provider.  This directory holds TLA+ models of that system, TLC
instances that model-check them, and TLAPS proofs.  It starts where a mistake
costs money and cannot be undone (the gateway), goes on to the protocols by
which the extension keeps the owner's words (capture, store, import, settings,
synchronisation), and ends with the worker's protocols towards pages and hosts.

## 1. Inventory

### 1.1 The system's parts

| Part (under `src/`) | State it keeps | Operations | Talks to |
| --- | --- | --- | --- |
| **Accounting owner** `extension/core/ai-usage/{atomic-reservation,budget-window-policy,budget-window-reservation,admission-policy,result-finalization}.js` | one snapshot: a row per paid operation, a clock floor | reserve, record (dispatched, unknown, cancelled), settle, finalizeResult/failResult | storage (a transaction), trusted fact verifiers |
| **Ledger storage** `services/ai-gateway/postgres-ledger.mjs` | one PostgreSQL row, its lock, `last_now_ms`, a 16 MiB limit | transact(callback, guard) | accounting owner, request authority |
| **Reservation service and request authority** `reservation-service.mjs`, `postgres-authority.mjs` | none; reads control, principal, route, grant, evidence | reserve, record, cancel | storage, evidence, grants |
| **Declaration publisher** `postgres-declaration-publisher.mjs` | one grant per operation, never renewed | publish, revoke | same ledger lock |
| **Provider runner and evidence** `provider-runner.mjs`, `postgres-provider-evidence.mjs`, `provider-request/response/transport.mjs` | one-shot tickets in memory, immutable evidence rows | claim, sendOnce, publishUsage, unknown, revalidate; run | storage, provider |
| **Settlement, status, result services** `provider-settlement.mjs`, `operation-status-service.mjs`, `result-service.mjs` | none of their own | settle, query, finalize | storage, evidence |
| **Identity and deployment** `signed-identity.mjs`, `*-entry.mjs`, `deployment-*.mjs` | configuration | verify, parse, route | all services |
| **Currentness channel** `identity-currentness-service.mjs`, `-entry.mjs` and the client's `client-identity-currentness-transport.js`, `maintenance-identity-currentness.js`, `identity-currentness-hub.js` | both ends: at most eight slots; service: LISTEN connections; client: attached channels, leases, revoked generations | open, notify, close; reserve, open, observe, revoke, disconnect | PostgreSQL notifications, status queries, client sessions |
| **Pricing** `ratebook.js`, `usage-normalization.js` | rate tables | quote, price | accounting owner |
| **Client AI sessions** `extension/core/ai-usage/foundation.js`, `organize-service-client.js`, `assist-service-client.js`, `local-*-session.js`, `maintenance-*`, `ai-filter-*`, `topic-promotion-*` | durable jobs, usage rows, fences, flight rows and markers | prepare, run, poll status, recover, commit, report | gateway, local store |
| **Consents of the assistants** `background/{assist-consent,assist-reply-lease,ai-filter-consent,maintenance-processing-consent}.js` | one row of `chrome.storage.local` each, a serial and a generation in memory | capture, enable, disable, invalidate | the sessions, the pages |
| **Sync replica** `core/browser-native-sync/{core,checkpoints,publications}.js` | operations, heads, receipts, parked operations, outbox, checkpoints, staged restores, publications | commit, receive, resume, publish, checkpoint, restore, activate | journals of each entity, shared store |
| **Sync journals, plans and providers** the rest of `core/browser-native-sync/` | journals, codecs, group checkpoints | plan, materialise, compact | replica, providers |
| **Sync identity and keys** `sync-crypto.js`, `sync-key-management.js`, `secure-*.js`, `account-device-service-contract.js` | keys, envelopes | derive, wrap, rotate | key store |
| **Selection of a published copy** `application-generation-selection.js` | a receipt in each library, the settings row that names the one in use | prepare, activate, finish, cancel, cold start | both libraries, `chrome.storage.local` |
| **Worker leases of the selection** `background/application-*.js` | holds, reservations, editors' guards | reserve, hold, drain | windows, content scripts |
| **Capture** `content/capture.js`, `adapter/chatgpt-adapter.js`, `service-worker.js`, `indexed-store.js` | candidates and their age, leases, source rows | collect, send, admit, commit, purge | page, worker, store |
| **Capture recovery** `background/capture-recovery.js` | repairs under way, sweeps, a hold | request, sweep, hold, release | tabs and their documents |
| **Import of official exports** `core/import/ledger.js` | tasks, batches, evidence, receipts, official times | begin, evidence, commit, pause, cancel, complete | archive pages, store |
| **Prompt insertion** `background/prompt-reuse-commands.js`, `content/prompt-reuse.js`, `adapter/chatgpt-composer.js` | presses, a page's insertion under way | press, insert, read back | board, worker, page |
| **Archive arrival** `background/archive-arrival.js`, `ui/archive-arrival.js` | queue of intents, one pending intent per tab | request, claim, qualify, result | surface, worker, archive page |
| **Context connections** `background/context-connections.js` | a mirror row, a witness row, ports | pair, pause, revoke, reconnect, renew, suspend | native hosts, store |
| **Settings and their two places** `indexed-store.js`, `core/local-control-publication.js` | gate and lease in the database, row in `chrome.storage.local` | save, pause, consent, restore, recover | store, pages |
| **Migration of the local store** `core/idb-repository.js` | backup, chunks, cursor, seal | initialize, recoverMigration | `chrome.storage.local`, IndexedDB |
| **Filter of controls** `core/{smart-filter-store-owner,filter-runner}.js` | a decision row and an intent per input, mode and sequence, an upgrade's cursor | capture, edit, keep, purge, decide in batches, upgrade, read, hold | store, pages, selection |
| **Upkeep of thoughts** `core/{thought-store,thought-maintenance,thought-eligibility,safety-runner}.js` | thoughts, their dependencies on inputs, events, purge jobs | create on evidence, edit, remove, restore, invalidate, clean up | store, pages |
| **Local store and domain** the rest of `core/` (`store`, `topic-*`, `context-*`, `backup-*`, ...) | IndexedDB records with revisions | compare-and-set edits, purge, back up, restore | worker, UI |
| **Search, context bridge, native hosts, UI, website** | views, framing | | |

Every gateway transaction takes the lock of one ledger row first, then control,
principal, route, grant and evidence, in that order.  That serialises the
services; what remains concurrent is everything *between* two transactions: the
runs in several processes, the provider, timers, aborts, crashes, revocations
and lost acknowledgements.  In the extension every database transaction is
atomic, and everything else is not: the browser ends the service worker at any
await, `chrome.storage.local` is a second store without compare-and-swap whose
writes may land after their worker is gone, pages navigate without loading, and
every message may meet a page or a worker that is not the one it was meant for.

### 1.2 What makes each part hard, and correct

* **Accounting owner.** Outstanding holds in every window, charges re-dated at
  dispatch, children of one job that settle in any order, receipts presented
  twice, a history the owner refuses if it ever writes it wrongly.  Correct when
  no allowance is overrun, no hold at the provider is lost, a job has one
  complete result, and the ledger never closes itself.
* **Ledger storage.** A full snapshot must still take the outcome of everything
  it has admitted.
* **Dispatch protocol.** The physical request cannot be made atomic with the
  durable record of it.  Correct when each operation is sent at most once, with
  authority, is charged exactly its bill, and its hold is released only unsent.
* **Declaration grants.** Revocation may come before publication, and races
  every use.  Correct when a revoked or expired grant authorises nothing more.
* **Currentness channel.** A change between the snapshot and the subscription,
  silent losses, answers of different generations in any order, slots that leak.
  Correct when no identity is vouched for after the news that it is outdated,
  the news always comes, and every slot comes back.
* **Client sessions.** Worker ends between two steps of a job, plans made from
  what has changed, children whose outcome nobody knows.  Correct when a second
  job cannot start while the first may still cost, a child is sent once, a
  result is committed once, and a topic is freed in the end.
* **Sync replica.** Delivery in any order, twice and late; parents that are
  missing, or purged before they were published; a restore that forgets.
  Correct when heads are the maximal operations, nothing purged comes back, no
  accepted edit is lost, nothing is stranded, and devices converge.
* **Sync publication.** Several publishers, a purge under way, a store that
  loses what it acknowledged.  Correct when an operation leaves the queue only
  for objects read back whole, and a row is reserved by the one that holds it.
* **Capture.** A page that streams, navigates in place, freezes and is updated
  while it is read.  Correct when what is archived is settled text of the right
  chat, read under the present consent, and what stays is archived in the end.
* **Settings; generation selection; migration.** Two or three stores that
  cannot change together, with writes that land late.  Correct when a pause
  holds, what was acknowledged stays, revisions never go back, one library
  accepts writes, no edit is lost, and a start after any crash gets on.
* **Filter; upkeep of thoughts.** Work done after the answer, in batches that read
  in one transaction and write in the next, while the user edits, removes,
  restores and purges.  Correct when nothing is hidden that the rules or the user
  want seen, no thought is shown as current on what is gone or changed, a purge
  reaches everything made of it, and the work ends.
* **Import; connections; insertion; arrival; recovery.** Pages and workers that
  are replaced between two steps.  Correct when what is shown to the user is
  true, the user's last word holds, and every press is answered.

`PROJECT.json` lists the components and every hazard met so far at its line.

## 2. Plan

| Order | Module | What it is for |
| --- | --- | --- |
| 1 (done) | `BudgetLedger` | every operation of the accounting owner; money theorem |
| 2 (done) | `ProviderDispatch`, refining `PaidOperation` | the paid operation from reservation to charge across processes |
| 3 (done) | `CurrentnessWire`, `CurrentnessService`, `CurrentnessClient`, composed in `CurrentnessChannel` | the identity currentness channel end to end |
| 4 (done) | `GrantPublication` | the publisher's generations, spans and tombstones, and the reservation under them |
| 5 (done) | `SnapshotCapacity` | a dispatched operation can always be settled below 16 MiB; proved |
| 6 (done) | `OrganizeJob` | the job foundation of the client with the gateway as it meets it |
| 7 (done) | `SyncReplica`, `SyncRestore`, `SyncPublication` | the replicated operations, checkpoints and restores, publication |
| 8 (done) | `Capture`, `CaptureRecovery` | what is archived, and the scripts that archive it |
| 9 (done) | `ControlPublication`, `StoreMigration`, `GenerationSelection` | changes of two or three stores that cannot change together |
| 10 (done) | `ContextConnections`, `ImportLedger`, `PromptInsertion`, `ArchiveArrival` | the worker's protocols towards hosts and pages |
| 11 (done) | `SmartFilter`, `EntryUpkeep` | what the library works out after a user's writes |
| next | `Ratebook` | quote and price as pure operators against a reference rounding |
| next | topics and their journal | suggestions, suppressions and the records behind `EntryUpkeep`'s entries |
| next | selection reservations and drains of the worker | the holds that `GenerationSelection` takes for granted |

Every invariant a run checks is stated by a theorem of section 5.  Proofs still
worth doing are those of the action properties and of the conjunctions that
section 5 lists as only model-checked: first `ContextConnections`, whose
commands and readers share one row, then the settings.
Runs keep to two or three actors and the smallest bound at which each limit
binds.

## 3. What the modules model

### 3.1 `BudgetLedger` - the accounting owner

`rows[op]` is the snapshot's row of an operation and `lastNow` its clock stamp.
A call runs in one locked transaction, so a call is one action, and a call the
code refuses is no step.  `Transaction(t)` is what every call begins and ends
with: the clock does not roll back, the whole stored history validates
(`validateResultHistory`, `validateWindowHistory`), and storage stamps the
snapshot with a publication time up to `PublicationDelay` after the reading.

| Action | Code |
| --- | --- |
| `Reserve` | `AtomicReservationLedger.reserve`: job binding, cadence, `windowUsage`, `evaluateAdmission` |
| `RecordDispatched`, `RecordUnknown`, `RecordCancelled` | `record` |
| `SettleUnknown`, `Settle` | `settle`, including a last child that carries the committed result |
| `FinalizeResult` | `finalizeResult`, with `qualifiedGroup` |
| `Replay` | any call that repeats one already applied: acknowledged, only the clock moves |

Amounts are micros; `Amount` counts them one by one, which keeps the definition
free of recursion and provable.  Time zones and tiers are the tables `DayOf`,
`WindowEnd` and `Interval`, so calendar arithmetic is an input of the model and
its monotonicity an assumption.  `opens` marks the row that opened a maintenance
cycle, the first stored of its job.  `Call` is every call one request can make, with
everything that may come with it (`Anything`: receipts, verdicts, charges,
tiers, zones).  Left out: token allowances (the same sums over
token counts), the older mode without windows, prices and exchange rates behind
`quote` and `usd`, and settlement as `UNKNOWN` through the gateway, which the
owner offers (`SettleUnknown`) and no gateway service calls today.

### 3.2 `PaidOperation` - the promise to the payer

The abstract specification: money is held; the provider is asked once; the
provider bills; the hold is released only if nothing was sent, or exchanged for
a charge that is exactly the bill and within the hold.

### 3.3 `ProviderDispatch` - how the gateway keeps it

A *run* is one call of `runner.run` in one process.  `pc[w]` is the await it has
reached, and each transaction it makes is one action:

`start` -`Claim`-> `claimed` -`RecordDispatched`-> `dispatched` -`OpenFence`->
`fenced` -`Send`-> `awaiting` -`ReadUsage`-> `accounting` -`PublishUsage`->
`published` -`Settle`-> `settled` -`Deliver`-> `delivered`

with failures to `unknowing` (`PublishUnknown`, `RecordUnknown`) or `done`
(`AfterFailure` says where each await's failure leads) and crashes to `dead`.
`row`, `charge` are the ledger reduced to a row's lifecycle; `events`, `usage`
the immutable evidence; `grant` the declaration's grant; `fence` the run whose
send fence holds the ledger lock.  `LedgerFree` is the guard of every
transaction: the ledger row is locked by nobody.

What goes wrong is modelled, not assumed away: every `COMMIT` may be applied and
its acknowledgement lost (`Commits`), any call may fail (`Fail`), the caller may
abort or the deadline pass (`Abort`), the fence's connection may drop with its
lock while the run goes on (`LoseFence`), the provider may bill over the bound
(`ReadUsageOverCap` stops the process), a process may crash at any await
(`Crash`), and clients reserve, cancel, revoke and query status at any time.
The provider is external: `ProviderBills` says only that an operation which was
sent may be billed, once.  Two runs may be called for one operation, in two
processes, since nothing in the gateway prevents it.  Expiry of a grant is
`WithdrawGrant` too: an expired grant is never renewed either, and the fence
checks the expiry at the instant it sends.

Reduced: a grant's validity spans to none/current/withdrawn, the binding digests
(a mismatch is a `Fail`), the wire format to "usage known, content valid or
not", the limit of sixteen runs per process to the finite set `Runs`.

A run that dies between its claim and the record of it leaves a reserved row
with dispatch evidence.  It can be neither claimed nor cancelled and keeps its
place at the provider.  `RESERVATION-CANCELLATION.md` chooses this (an
evidenced row keeps its hold), and the model contains it, so the liveness below is about known costs
only.

### 3.4 `CurrentnessChannel` - is this identity still current?

The gateway opens one database connection per channel, subscribes to
invalidations, then reads the authority once under row locks and streams that
reading; database triggers notify every channel of every change.  The client
opens one channel per paid operation, attaches it to the operation's owner and
vouches for an identity (`isCurrent`) only while the owner's channels are all
open and a status query made meanwhile named the same generations.  Neither
side keeps anything after a restart, so there is nothing to recover.

| Module | State | Actions |
| --- | --- | --- |
| `CurrentnessWire` | the HTTP exchange and the frames under way | hang up, break |
| `CurrentnessService` | `generation` of the authority, and per channel `phase`, `connection`, `snap`, `notified`, `sent`; `occupied` slots | `Admit` ... `CommitSnapshot` are the awaits of `open` in order; `StartStream`, `SendPulse` the entry; `NoticeInvalidation`, `NoticeDrop`, `GiveUp`, `EndService`, `NoticeHangUp`, `DisposeService` the reasons to `Close` |
| `CurrentnessClient` | transport: `stage`, `fetchPending`, `opening`, `clientOccupied`, `ident`; owner: `entry`, `ticket`, `answer`, `lease`, `revoked`, `ended` | `Reserve`, `Prepare`, `StartFetch` ... open; `Respond`, `ReadReady`, `ReadPulse`, `ReadEnd` read; `Attach`, `AttachLate` the owner's await; `Observe`, `ObserveOther`, `Revoke` its leases; `CloseChannels` every close with the disconnection it causes |
| `CurrentnessChannel` | | composes them with `StatusAnswered` and `Breaks`; fairness |
| `CurrentnessHistory` | `latest`, what each owner vouched for last since it disconnected, and `parted`, what it gave up for something else | records, constrains nothing |

A step is what runs between two awaits.  Calls that run inside another one
(close, the listeners it calls, the owner's `disconnect`, which closes further
channels) are part of its step: `Closing` and `Disconnecting` compute how far a
close reaches.  A fetch may ignore its abort, so a channel that closes while its
fetch is pending may leave its exchange open (`CloseChannels`), and the pool's
pending acquisition survives the channel (`ConnectLate`).  A connection or an
exchange that breaks tells nobody; a notification waits while its connection is
inside a transaction.  `ChangeAuthority` cannot happen under a held snapshot's
row locks (`FOR SHARE`), `ChangeOther` can: it is a change of another
principal's row, and invalidates all the same.

Identities are reduced to the generation they carry; times to "may end now"
(`ClientClose`, `EndService`, `LeaseExpires`).  A channel has one observation
ticket at a time.  Left out: the deployment's bootstrap, which retires a whole
instance before its hosting limit, schema attestation, formats; the owner's own
limits (8 entries, 32 attempts, 8 tickets) and the hub's 8 owners, which are
refusals before any state changes.


### 3.5 `SnapshotCapacity` - room for every outcome

The ledger's snapshot may not exceed 16 MiB.  `footprint` adds to a row's bytes
the most its later states could need, and only `Reserve` compares the sum with
the limit; the writes of outcomes are not asked again.  A row is its state and
the lengths of its parts, a part of length n is the set of n cells, so a sum of
lengths is a cardinality and needs no recursion.  `Write(o)` is every later
write: a step of `BudgetLedger` reduced to which parts it adds.  The byte codec
is abstracted to the lengths it produces.

### 3.6 `GrantPublication` - the client's declarations

`Publish`, `Revoke` and `ReserveUnder` are one transaction each, with the three
readings of the database's clock that the code makes (at the locks, after the
checks, in the write).  `SetClock` may set the clock back; `Switch` is the
service's master switch.  `told` holds what the answers that arrived have said:
an answer may be lost and the call repeated, with this request or the other.
Not here: token signatures and contents, roles and row security; the grant's
race with the dispatch is in `ProviderDispatch`.

### 3.7 `OrganizeJob` - the client's side of a paid job

| Actions | Code |
| --- | --- |
| `AssertCanPlan`, `Plan`, `Replan`, `Prepare`, `Cancel` | `foundation.js`: what a click does before money is involved |
| `RequestReserve`, `ReserveAnswer`, `Dispatch`, `Send`, `Answered`, `Unanswered`, `Commit` | `organize-service-client.js`: flight and marker, reservation, the fence written before each child's request, the local commit |
| `Abandon`, `Crash`, `Capture`, `Query`, `CancelSeen`, `Reconcile`, `DropHandle` | stop and recovery: one handle at a time asks for each child and reconciles |
| `SaveReport`, `SendReport` | `domain-result-receipt.js`: the durable receipt and its acknowledged report |
| `Change`, `Replace` | authority or sources change; a restored library clears jobs, usage and flights but neither fences nor markers (`backup-service.js`) |
| `ReserveServer`, `DeliverReserve`, `DeliverExecute`, `SettleAtGateway`, `ReleaseUnsent`, `Lose` | external: the gateway (`PaidOperation` reduced to an operation's state) and the wire |

`asked` is a plan admitted by `assertCanPlan` and not yet written: the two are
separate transactions.  `retired` are jobs whose key digests an earlier restore
epoch: the same click then names another job.  Consent and principal are fixed,
all jobs are of one topic, N is at most 3 (4 in the code).  Two limits of the
code appear in the model: a page that dies between the marker and the gateway's
knowledge of every child leaves the topic blocked, since an unknown operation is
no evidence of a release; and a validated job whose commit went stale is kept
until it is stopped.

### 3.8 `SyncReplica`, `SyncRestore`, `SyncPublication`

*Replica* (`core.js`).  An operation is its identity, entity, kind and parents;
bodies, codecs and digests are abstracted.  `Prepare`, `Commit` are a local
change under the generation fence; `Receive` a published operation in any order
and any number of times; `TryDependent`, `CloseVisit` the walk over what was
parked for it, one transaction each, which a crash loses; `ResumeOne`,
`ResumeEnds` the walk after a restart; `Publish`, `Acknowledge` the queue.
*Restore* (`checkpoints.js`) extends it: `stored` checkpoints, a staged
namespace per device (`stage`), the tail received on top of it, and its
activation in one transaction.  *Publication* (`publications.js`): rows are
reserved, objects uploaded one after the other, each read back, and only then
taken off the queue; several publishers share a publication, entities are purged
under it, `overtaken` records objects the store lost after an acknowledgement
had read them.

Outside `checkpoints.js` and `sync-local-lifecycle.js` no production code calls
`receiveBatch`, `resumePending`, `publications` or `restore`: they are the seam
to a transport that only the tests provide, and `Converges` states what it
has to guarantee.  Not modelled: group receives, materialisers and conflict
owners, batches of several changes, explicit parents, size limits, the
quarantine of malformed operations.  A sequence is not used twice only because
every owner refuses a purged head at activation (`prompt-journal.js:110`,
`context-journal.js:68`, `context-desired-journal-owner.js:51`); the frontier's
gap after an operation purged before it was published stays for ever.

### 3.9 `Capture` - from the page to the archive

The controller's cycle: `AskStatus`, `Collect` (what the adapter found old
enough and settled), `SendBatch`, `Handle` (admission and store, in the worker),
`GiveUp`, `Superseded`, `Refused`.  The page: `Navigate` (in place), `Render`,
`Edit`, `PageHide`, `PageShow`; the extension: `Update`, `Replace` (a second
content script).  The user: `SetEnabled`, `PurgeRecord`.  A text is a version
number.  Age is abstracted: a collection finds any part of the unchanged
candidates old enough.  `misled` records messages first seen while the page
still showed another chat.  A message that a collection finds on display after
the route has changed, and before the next chat is shown, is bound to that route
(`chatgpt-adapter.js:262-266`); from then on its own chat is refused at every
collection (`staleIdentity`, 254-261 and 273-276) until the page loads anew or
its scripts are replaced.  `Mistaken(chat)` names this state.  It is what
`EventuallyArchived` leaves out: nothing is promised of a chat while it is
`Mistaken`, and every other message that stays on display is archived under its
own chat, wherever the page was before.  Not modelled: response-time evidence and the
enrichment by it, exclusion of chats, diagnostics, the limit of 10000
identities, several tabs (they meet only in the store's row).

### 3.10 `CaptureRecovery` - replacing scripts in open tabs

`Request` and `SweepRequest` ask for a repair; `task[t]` is the repair's loop of
awaited browser calls, and a call takes effect when it is answered (`Answer`).
`Navigate` and `RuntimeReady` are the page; `HoldStart`, `HoldDrained`,
`HoldExpires`, `Release` the selection hold, which only the local composition
takes.  `owed` follows a forced repair until a pass takes it up.

### 3.11 `ControlPublication` - settings in two places

A settings change is a run of one store instance: gate and lease in one
transaction, lease prepared with the row about to be written, the row of
`chrome.storage.local`, the lease released; `Run(s)` is its next step, `Land`
and `Reject` settle a row whenever the browser does, even after its worker is
gone (`flight`).  `Begin` starts consent, pause, preferences, captures; `Restore`
a restored backup with its marker; `Sleep`, `Crash` end a worker, and the next
one's startup (`todo`) releases what it can prove.  Two live instances are
modelled because `tests/local-control-publication-recovery.test.mjs` has them.
Digests and nonces stand for the values they digest.  The synchronised
preference journal is null in production; AI-style settings are not modelled.

### 3.12 `StoreMigration` - from one row to a database

One worker at a time; it remembers only the migration row it last read or
wrote, so its memory is its program counter.  `Work` is the next await of
`initialize`, `Fail` its failure or the worker's death, `Reset` the explicit
`recoverMigration`.  A chunk is 100 rows.  A seal dispatched may land later.
The backup's normalisation by the frozen loader is abstracted.

### 3.13 `GenerationSelection` - moving to a published copy

Each library is a database, the settings row names the one in use.  `Selecting`
walks the owner's path (receipts in both libraries, the row once, finish and
settle), `Ordinary` the edits and settings saves around it, `StartWorker` a
cold start that decides from the receipts alone; `CancelReview`, `WorkerLost`,
`RowLands` and `RowRejected` come in between.  A predecessor worker may be
alive.  The production configuration is null
(`readApplicationStoreConfiguration`): this runs in the local composition and
the tests.  The held staged action of the worker takes the same durable steps.
Not modelled: the proofs before the receipts (constant here), reverse review,
coordination of reservations, drains, the editors' guards.

### 3.14 `ContextConnections` - paired hosts

The row (`mirror`) is in `chrome.storage.local`; a witness in the database is
written before it (pending) and after it (settled).  `queue` holds commands
(`Pair`, `Restrict`, `Reconnect`, `RenewTimer`), `Run` takes the head's next
step; `Suspend`, `ReaderStarts`, `ReaderEnds`, `Invalidate`, `RestoreLibrary`,
`PortReady`, `PortCloses`, `WorkerRestarts` come in between.  Only the persistent
authorization policy.  The pending witness is committed (`Pend`) before the
worker remembers it (`Pended`); the settled one and what the worker remembers of
it are one step (`Settle`).  `barred`, `acked`, `cut`, `used` are histories.  Not
modelled: one-hour leases of the older policy, expiry of an authorization,
permission prompts, the bodies of requests, the limits of 8 and 32.

### 3.15 `ImportLedger` - official exports

`Begin`, `Preflight` (evidence of one batch), `Ready`, `Commit` (one batch),
`Pause`, `LatePause` (the grant was checked before the transaction, and another
page has begun meanwhile), `Complete`, `Cancel`; `GrantEnds` (restart, closed page), `Purge`,
`Capture`, `SetConsent` are what happens meanwhile.  A row is its source, text
and stated time; texts are numbered in the order of their records' identifiers,
which the code iterates in.  Of the two files one contradicts itself in its last
batch, the other overlaps it.  Not modelled: branches and relations, documents,
titles, counts of the preview, invalid times, resource limits.

### 3.16 `PromptInsertion` - text into the composer

`Press`, `Work` (the worker's checks and send), `Insert`, `ReadBack` (the page:
typing and reading the draft are two steps), `Refuse`, and what happens
meanwhile: `Edit`, `Reload`, `Reinject`, `Restart`, `Lost`, `Consent`, `Hold`,
`Release`.  A draft is the sequence of its pieces.  The receipts owner
(`prompt-insertion-receipts.js`) is not modelled: the worker does not create it
and it needs a profile no page announces.  A rejected `execCommand` is assumed to
leave the draft as it was.

### 3.17 `ArchiveArrival` - "open in PAIA"

`Press` queues an intent, `Issue` is the worker's next await for the first of
them, `Handle` and `Receive` the worker's handler and the page's receiver of one
document, `CheckFurther` the next of the awaited checks of such a handler (the
source, the search, the source again, the tab), each of which sees its own
moment, `Told` the browser's news of a tab or surface, `Expire` the time
limit.  `SurfaceLeaves`, `DataChanges`, `Reload`, `Close`, `Away`, `Restart` come
in between.  One archive tab per window, one surface per intent; the limit of 8
entries is not modelled.

### 3.18 `SmartFilter` - hiding mere controls

| Actions | Code |
| --- | --- |
| `Capture`, `Arrive`, `ArriveFails` | a capture is saved, and what the scan saw of references is merged in a second transaction, which may fail |
| `Edit`, `Keep`, `PurgeInput`, `SetMode`, `Recover` | the messages of the pages; each is followed by a wake (`wakeOwed`) |
| `ReadPage` | a reading takes mode and sequence with its first page |
| `BeginUpgrade`, `UpgradeBatch`, `FinishUpgrade` | a newer release of the rules, before any other operation; a pending row may bear the mark of a failed task |
| `WakeRunner`, `Status`, `Mark`, `Read`, `CommitDecisions`, `Settle`, `DrainFails` | `FilterRunner.drain`, one transaction a step |
| `AskHold`, `GrantHold`, `Release` | the hold for an application selection |
| `WorkerDies`, `Restart` | the worker's lifetime; the next one may run another release |

A batch is decided on rows of one transaction (`Read`) and applied in the next
(`CommitDecisions`) to those whose row and content revisions are still the ones
read.  The second queueing of an undecided row
(`smart-filter-store-owner.js:98`) is no step: it asks for a presence that is not
null and a decision for want of metadata, which is only committed for an invalid
scan, whose presence is null, so the rows it finds are pending already.  A text
is a kind, and `Hides` says which kinds a release hides.  Not modelled: the
AI filter, ranking, search caches, removed inputs, which are not listed whatever
is decided.

### 3.19 `EntryUpkeep` - thoughts and what they are made of

A *mirror* is an entry bound to one input whose text it repeats, a *derived* one
was worked out from several.  `ReadEvidence` and `CreateEntry` are the two halves
of a creation; `EditInput`, `Purge`, `EditEntry`, `RemoveEntry`, `RestoreEntry`
the user's transactions.  The safety runner: `Wake`, `Clean` (a batch of a purge
job), `ReadBatch` and `Commit` (the halves of an invalidation batch, compared
with the event and the input that were read), `RunnerFails`, `Retry`, `Die`.
`Shown` is what a page gets of an entry, with the checks it makes before the
invalidation has arrived.  `used` and `removedSince` are histories.

An edit comes with an operation id or without (`named`): only one that has it
makes the thoughts it reaches the user's own.  The editor's edits have one, an
edit without one is counted among the faults of the instance.

A digest is the text it digests.  Not modelled: the journal, topics,
suppressions and suggestions, the branch of the cleanup that keeps a user's
entry (no source of one can be purged), evidence used only as context.  One
consequence of comparing an event's reason only with the input as it is now: an
input excluded, restored with another text and edited once more before the
runner works leaves its mirror detached from it, with the older text; the mirror
is then no longer bound, so `MirrorsAgree` does not speak of it.

## 4. Runs

| Run | Instance | Question |
| --- | --- | --- |
| `budget` | money: 2 principals, 3 single-child jobs, quotes and charges 1-2, clock 0-2, DAY 1, MONTH 2, every cap between one and two reservations; results: a two-child job, a single one, two requests that try to rebind, 3 receipts, publication delay 1; cycles: 2 maintenance cycles (one of two children), 2 tiers, clock 0-3 | Reservations, claims, settlements, cancellations and results of one ledger in any order and with a clock that moves: no cap is ever exceeded, a hold lasts until it is settled; attempts, receipts and results of jobs with several children stay coherent and final; maintenance cycles keep their distance over changes of tier and cancellations. |
| `gateway_rules` | dispatch: 2 operations of different jobs, 3 runs (two for one operation), 2 processes, capacity 1, bound 1, bills 1 or 2; capacity: 3 operations, room for 26 bytes, parts of 0-3 bytes; grants: 2 operations, 2 declarations, clock 0-6 around every expiry | Three parts of the gateway, one at a time: a provider is called at most once per operation, under authority, and evidence and ledger agree, through crashes and cancellations; every dispatched operation can still be settled in a store that is nearly full; publications, lost answers and revocations of grants race reservations. |
| `currentness_safety` | 2 channels of one owner, slots for both, 1 change of the authority, 1 remembered revocation | Two channels of one owner while the authority changes and connections, exchanges and fetches break at any point: can the client vouch for an outdated identity that nothing is about to tell it of, or go back to one it has given up? |
| `gateway_liveness` | news: 1 channel, streams of up to 4 frames, 2 changes; timers: an owner's channel and a ticket's, 1 slot on either side, no remembered revocation; dispatch: 2 operations of one job, a run each, capacity 2 | What must happen at the gateway: a client that vouches for an outdated identity notices, every attempt at a channel gives its slots back, a known cost is charged and every run ends, through broken exchanges, dropped connections, crashes and refused transactions. |
| `sync_organize` | jobs: 2 jobs of 1 child each, or 1 of 3 children, 2 changes; publication: 3 operations (one purged by another), 1 publisher that runs twice, 2 objects, 2 faults; selection: 2 workers, 1 edit, 2 saves, 2 selections, 1 crash, 1 rejected write | Two paid jobs fighting for a topic, and one of three children, with crashes, cancellations, recoveries and library replacements; a publication of two objects by a publisher that runs twice, with lost answers and vanishing objects; the selection of a copied library against edits and saves. |
| `pages` | capture: 2 chats with a message each, 1 edit, 2 settings, 2 moves; repair: 2 tabs, 2 script groups, 2 documents, 2 requests, 1 hold; prompts: 2 presses, 2 addresses, drafts up to 3 pieces, 3 disturbances; arrival: 2 presses, 2 documents, 2 disturbances, time limit | A page that streams, navigates, freezes and is updated while it is captured; repairs, sweeps and holds of two tabs; prompts typed into a page that changes meanwhile; presses of 'open in PAIA' with reloads, closed tabs and worker restarts. |
| `stores` | replica: 2 devices, 1 entity, 4 operations, 1 crash; restore: 2 devices, 2 entities, 2 operations, 1 checkpoint, 1 restore; settings: 1 worker and its successors (4 operations, 1 restored backup) or 2 live workers (3 operations), 1 crash, 1 fault; hosts: 2 connections, 3 commands, 1 trouble, 1 restart | Two replicas of one entity in any order of delivery and with a crash, and two replicas of two entities with a checkpoint and a restore; settings with one and with two workers alive, and paired hosts restricted while they reconnect, under crashes at every await. |
| `library` | filter: 1 input of 2 kinds of text, 2 releases, 3 writes, 1 fault, 1 hold; entries: 2 inputs, a mirror, a derived thought, 2 edits of inputs, 1 of a thought, 1 fault, batches of 1; import: 2 tasks, 2 pages, 2 sources, 2 texts, 2 disturbances | What the filter hides while inputs are captured, edited, kept and purged, the rules change and the worker dies at any point of its work; what thoughts made of two inputs show while the inputs are edited, removed, restored and purged and the runner that repairs the thoughts fails or dies; two overlapping imports with purges and restarts. |
| `extension_liveness` | migration: 3 chunks, 4 faults, 2 resets; jobs: 1 job, 2 children, 1 change; replica: 2 devices, 4 operations, 1 crash; capture: 2 chats, a message of one, 2 moves; repair: 1 tab, 2 script groups, 3 requests, 1 hold; leases: 1 worker, 2 operations; presses: 2, without the time limit; filter: 1 input, 2 writes, 1 fault, 1 hold; entries: 1 input, its mirror, a derived thought, 2 edits, 1 fault | What must happen in the extension, each part under its own fairness: abandoned jobs close, replicas converge, messages are archived, repairs and leases and presses end, filter decisions and upkeep of thoughts are worked off, and a migration ends without ever risking the library. |
| `entry_removed` (violation) | 1 input, its mirror, a derived thought, 2 edits, no fault | A thought the user removed comes back when its input is removed and restored. |
| `sync_stranded` (violation) | 2 devices, 1 entity, 2 operations, 1 checkpoint, 1 restore | A device activates a restore while its own operation is only queued: can the other device's operation on top of it stay parked for ever? |
| `control_settings` (violation) | 1 worker, 1 crash, 1 restore | A worker that dies while it publishes the settings of a restored backup: the marker blocks the recovery of the lease and the lease blocks the settings, so neither ever goes and no setting can be changed again. |

Components that share no state are looked at in one run, one after the other:
the modules `MCGatewayRules`, `MCGatewayLiveness`, `MCSyncOrganize`, `MCPages`,
`MCStores`, `MCLibrary` and `MCExtensionLiveness` put several components beside
each other (`MCBudgetLedger` three settings of the ledger: money, results and
maintenance cycles), and a variable `part`, chosen at the start and never
changed, says which of them moves while the others stay as they were
initialised.  Nothing is interleaved that the system does not interleave, and
the state space is the sum of the parts'. A component that theorems speak of is
extended by its module, so that the run checks the very definitions the
theorems prove; the others are instances, and a property of such a module is
then the conjunction of its component's properties, named in the comment above
it.  (To be extended beside another, `SmartFilter`, `StoreMigration`,
`SyncPublication` and `GenerationSelection` name their own initial predicate
`FilterInit`, `MigrationInit`, and so on.) In `MCStores` one core serves two
parts, one entity with crashes, and two entities with few operations and a
restore; `OfOneEntity` and `OfFewOperations` are these bounds.

*The violations.*  Three runs state what a comment, a document or a test of the
repository says, and TLC finds what the code does instead.  Two further
divergences were found with `GenerationSelection` and are kept there as
definitions without a run of their own: each is violated when it is checked
against that module's `SelectionSpec`.

* `NothingStaysParked`, run `sync_stranded` (code bug, `extension/core/browser-native-sync/checkpoints.js:187`): core.js:282-283 says of parked operations: "Pending content is durable work too. A restore/compaction cut cannot silently strand it merely because no canonical head advanced yet." activate (checkpoints.js:187-189) refuses a live pending row, a staged one and an active publication, but does not look at the live outbox rows. When a device makes live a restore of a checkpoint that holds an operation it has committed and not yet published, the outbox row stays behind in the abandoned namespace: the operation is never published. What the device commits next descends from it, and every other device parks that operation for good: the missing parent is never delivered, and a restore of the checkpoint that holds it is refused there with BNS_RESTORE_LIVE_PENDING.
* `SettingsArrive`, run `control_settings` (doc code divergence, `extension/core/indexed-store.js:195`): recoverControlPublication leaves every lease alone while the backup-recovery-settings marker is present (195), and recoverSettings (backup-service.js:220) cannot save while a lease is present (local-control-publication.js:45), so a restart between the commit of the settings change and its release leaves both for ever; src/extension/BACKUP.md:49 says the settings are completed through the marker of the same transaction and idempotently filled in after a restart ("必要的小型设置通过同事务中的恢复标记完成；若恰在数据提交后重启，可幂等补齐设置"), as does the test "settings interruption after atomic data commit is recovered idempotently after restart" (src/extension/tests/backup-v081.test.mjs:215).
* `UndispatchedCanBeCancelled`, no run (doc code divergence, `extension/core/browser-native-sync/application-generation-selection.js:607`): cancelOriginalApplicationGenerationSelection refuses whenever a receipt exists, in the phase prepared as well (GENERATION_SELECTION_COLD_ACCOUNT_REQUIRED), and no other code withdraws a receipt; src/extension/core/browser-native-sync/application-generation-selection.js:417 says "Explicit cancel can remove only an undispatched exact original pending operation" and src/extension/background/application-selection-commands.js:49 "status and undispatched cancellation remain available". A selection that stops after its first receipt leaves the source closed to writes and every startup refused.
* `SelectedStaysOpen`, no run (code bug, `extension/core/browser-native-sync/application-generation-selection.js:593`): observeColdSelection calls a selected library 'finishing' while its settings lease is held (line 586) and refuses it when the revision of the row differs from the allocated revision (line 593). A settings save in the selected library that is interrupted keeps the lease, and one that storage rejects releases the lease but keeps the allocated revision, so every later startup is refused and recoverControlPublication, which could release the lease, never runs; src/extension/core/browser-native-sync/application-generation-selection.js:594 says "Later legitimate original publications and target edits remain compatible".
* `RemovedStaysRemoved`, run `entry_removed` (doc code divergence, `extension/core/thought-maintenance.js:53`): An entry the user removed becomes active again without the user: the invalidation of an excluded input overwrites the lifecycle "removed" of its mirror with "invalidated" (thought-maintenance.js:53), and the invalidation of the restored input turns every "invalidated" mirror into an active one (thought-maintenance.js:46). The foundation says the opposite at src/extension/THOUGHT_LIBRARY_FOUNDATION.md:306: "恢复 Input 不自动恢复 invalidated/removed Thought，前者生成重新验证候选，后者仍受 suppression 约束。" (Restoring an input does not automatically restore an invalidated or removed thought; the latter stays under its suppression.) The run shows create, remove, exclude, drain, restore, drain.

*Why these bounds are enough to be worth checking.*  Three operations are the
fewest with which one principal fills an allowance while another shares the
service's; the caps are chosen so that feature, user and service each refuse
some reservation the others accept.  Three clock readings with DAY 1 and MONTH 2
let a charge leave the day and stay in the month.  Two children are the fewest
that settle out of order, three receipts the fewest with a spare to misuse.  Two
cycles, the first of two children, are the fewest with a second child that joins
after the cycle began, and two tiers let the later one be admitted under another.
Three runs on two processes let a second run find every state a crashed first
one can leave while a third competes for capacity, and bills 1 and 2 around
bound 1 are at and over the bound.  Receipts are interchangeable, so their
permutations are a symmetry; the runs that check liveness use none.

Two channels of one owner are the fewest whose answers can disagree, and one
change of the authority the fewest that makes them; a third generation adds
nothing that a pair does not show, since every comparison in the code is between
two.  The slot limits (8 in the code) are 1 where slots are the question (the
part `timers` of `gateway_liveness`), so that the second attempt meets a full
transport, and 2 where they are not.  In `currentness_safety` a constraint
(`MCBound`) leaves out what follows the shutdown of a side and the loss of a
second exchange or connection; `gateway_liveness` and the proofs have no such
bound.  An owner that has retired more than `RevokedLimit` generations (32 in
the code) ends: 0 in `gateway_liveness` makes that happen, 1 in
`currentness_safety` keeps the owner going.  Frames per stream and the backlog
at which a stream gives up (61 and a stream buffer in the code) are 2 to 4.

In the extension the actors are one worker and its successor, two pages, two
tabs or two devices: every protocol compares a holder with at most one rival, by
a token, a revision or a document.  Disturbances (navigations, lost messages,
edits, deaths) share one counter per module, so that two of any kind may fall
between two steps.  A conflict needs two devices that edit apart, and its
resolution one of them; a third device that has seen neither branch repeats what
the second met when it received them in either order.  The liveness of `Capture`
has two chats and a message of one of them, so that the page can leave the chat
and return; a message of each chat was checked aside (562132 states) and is left
out of the run for its time.  Texts and rows are
numbers, and only those properties are stated that tell apart what the numbers
do.

*Deadlock.*  `budget` and `control_settings` check it:
the ledger never closes itself, and a settings store can always start something.
The others switch it off because their actors, presses or disturbances are
finite and the system may really be done; among the gateway's rules because a
full snapshot with every outcome written accepts nothing more.

*Fairness.*  `ProviderDispatch`: `WF` of each run's own steps and of
`QueryStatus` for each operation, and nothing of clients, the provider or
crashes.  A run's steps are bounded by timers: 30 s for the run
(`provider-runner.mjs:56`), shorter ones for transport and body, statement,
lock and idle timeouts in every transaction; a step includes its own failure.
Status is polled by clients while an operation is unsettled
(`extension/core/ai-usage/foundation.js`, the recovery paths).  A client that is
never opened again never polls: `KnownCostIsCharged` is a promise to clients
that come back.

`CurrentnessChannel`: `FairSpec` is for news: a
notification that was delivered and a TCP loss that was reported are handled, the
client reads what has arrived, and its three-second silence timer runs
(`client-identity-currentness-transport.js:47,77`).  No expiry is assumed, so
`StaleVouchEnds` does not merely wait for the 60 s limit of a stream.
`TimedSpec` is for slots: the five-second timers of both sides, the expiry of
streams, the pool's and the platform's eventual settling of an acquisition and
a fetch, and the `finally` with which a ticket's holder uses or releases it.
No invalidation, end of stream or reaction to a hang-up is assumed there.
`MCGatewayLiveness` takes each of these assumptions for its own part.

In `extension_liveness` every property has the form "if this is the part, its
component's `Fairness` implies its promise", so no component leans on another's
assumption.  `OrganizeJob`: the page that recovers captures a handle and drops
it again (`WF`), its queries, acknowledged cancellations and reconciliation
happen when they are possible again and again (`SF`: a crash drops the handle
each time), and the gateway settles what it has sent (`WF`).  `RecoveryCloses`
is stated from where the gateway knows every child.  `SyncReplica`: the
transport delivers what was neither received nor parked, a device finishes its
walks, and publishes (`WF` each); there is no production transport, so
`Converges` is a statement about the seam.  There is no scheduler of
publications either (`publications.js:22`), hence no liveness of them.
`Capture`: the status question is asked, a refused or superseded cycle ends, the
page renders (`WF`); collecting, sending and handling happen when possible again
and again (`SF`, the cycle is started by every mutation and by a timer).
`CaptureRecovery`, `PromptInsertion`: the browser answers calls; timers run.
`ControlPublication`: a worker's own run goes on, an idle worker sleeps, a write
that was dispatched lands (`WF`).  `StoreMigration`: the worker works.
`SmartFilter`: what was answered is followed by its second transaction and its
wake, the drain and an upgrade go on, a hold is released (it lives in the worker
and is released in a `finally`), the browser starts the worker again (`WF`
each).  `EntryUpkeep`: the runner's steps (`WF`).  Both promises leave out a
runner that has failed: it stands still until somebody asks for a retry or the
next worker starts.
`ArchiveArrival`: handlers, the page's receiver and the browser's events happen;
the instance has no time limit, so that an answer is not merely an expiry, and
no disturbance.

Each property has a mutant of the code's definitions in `PROJECT.json` (for
example: a second claim of an operation, a cancellation that ignores evidence,
an admission whose epoch is not compared, a copy that moves its cursor before
its rows) which TLC finds violating it under the same instance.

## 5. Proofs

For every set of operations, requests, runs, processes, channels, inputs and
chunks, and every cap, quote, charge, size, interval and calendar admitted by the
`ASSUME`s.  The properties in bold are those some run checks as well.

| Theorem | Shows |
| --- | --- |
| `TypeCorrect`, `Coherence` (`BudgetLedgerProofs`) | `TypeOK`, `JobsAreCoherent` |
| `HoldKept` | **`HoldIsKeptUntilSettled`**: nothing but a settlement ends a hold at the provider |
| `BudgetSafe` | **`BudgetNeverExceeded`** |
| `HistorySafe` | **`HistoryAccepted`**: the ledger never writes what its own validators refuse |
| `ReceiptsSafe` | **`ReceiptsAreSound`**: no receipt for two things, a committed result is complete |
| `ResultStays` | **`ResultIsFinal`** |
| `QuotasSafe` | **`QuotasHold`** |
| `CyclesSpaced` | **`MaintenanceCyclesAreSpaced`** |
| `DispatchTypeCorrect`, `AtMostOneSend`, `Agreement`, `OneOutcome`, `PaidBeforeDelivery`, `AuthorizedSends`, `CapacityKept` (`GatewayRulesProofs`) | the safety properties of `ProviderDispatch`, with **`SentOnce`**, **`LedgerAgreesWithEvidence`** and **`SendsUnderAuthority`** |
| `Implementation` | `Spec =>` **`ImplementsPaidOperation`** |
| `SlotsSafe`, `InvalidationsReach`, `ClientSlotsSafe` (`CurrentnessProofs`) | `ServiceSlotsAreConnections`, `NoMissedInvalidation`, `ClientSlots` |
| `LeasesSafe`, `VouchedSafe`, `GenerationsSafe` | **`LeasesAgree`**, **`VouchedIsCurrentOrInvalidated`**, **`GenerationsNeverAlternate`** |
| `GrantsSafe` | **`GrantsHold`** |
| `OutcomesFit` | **`EveryOutcomeFits`**: every admitted row can take each of its outcomes |
| `ReplicaSafe`, `ReplicaHistory` (`SyncProofs`) | `ReplicaIsWhole` and `HistoryIsKept` of `SyncReplica`: what a replica holds is a function of the operations it received, and no step forgets one |
| `RestoreSafe`, `RestoreHistory` | **`RestoredIsWhole`**, **`RestoreKeepsHistory`**: the same with staged replicas that replace live ones |
| `PublicationSafe` | **`PublicationIsSafe`** |
| `PaymentsAreKept`, `ReceiptsStand` (`OrganizeJobProofs`) | **`NoPaymentIsLost`**, **`ReceiptsAreTrue`** |
| `RepairsStayWhole` (`CaptureRecoveryProofs`) | **`RepairsAreWhole`** |
| `MigrationSafe` (`LibraryProofs`) | **`MigrationIsSafe`** |
| `EntriesSafe` | **`EntriesAreSound`** |
| `SelectionSafe` | **`SelectionIsSound`** |
| `FilterSafe` (`SmartFilterProofs`) | **`FilterIsSound`** |

*`BudgetLedger`: holds and money.*  Rows are large records, so each write of the code is an
operator (`Dispatched`, `Charged`, `Resolved`, ...) with a lemma on its type and
one on the fields it keeps.  `StepsAdvance` collects them: every step but a
reservation changes one row to one that "continues" it.  `HoldKept` and
`Coherence` follow from it.  `BudgetSafe` adds the counting argument: the micros
a window counts can only shrink under any such step and under the clock
(`OtherStepsSpendNothing`), and a reservation adds at most its quote to what
`WithinMoney` has just compared with the cap (`ReservationSpends`).  The
re-dating of a charge from reservation to dispatch is covered because an
unsettled row counts in every window.  The arguments rest on `DAY <= MONTH`, a
clock that does not roll back and quotes bounded by `MaxQuote`, all named
assumptions.

*`BudgetLedger`: results, quotas and cycles.*  `StepKinds` sorts the calls once
more, into lifecycle steps, charges and verdicts, and the proofs look at those.
`Sound` is inductive: what a row's state says about its charge and its result
(`Shapes`), that the history is accepted, and that receipts are sound.  The
last two lean on each other: that a result may be committed needs every sibling
settled, that settled siblings stay needs the acceptance of the history, and the
acceptance of the next history needs that a decided job takes no further change
(`DecidedIsTerminal`).  Quotas are the counting argument of the money again, with
two differences.  A result's slot belongs to a job and not to a row, and which
row holds it changes with every settlement, so that a step has to be compared by
jobs: no call but a reservation makes a job count that did not count before.
And a cap is that of some tier, since a principal may be downgraded after a
reservation was admitted.  The
spacing of cycles follows from `CadenceOpen` at the admission of the later cycle:
only the first row of a job opens one (`opens`), whatever joins at the same
reading of the clock, and cancelling keeps the row and its dates.

*`ProviderDispatch`.*  No safety property is inductive alone.  `IInv` adds:
`Tickets`, that only one run per operation is past its claim and what it has
done is recorded in the evidence, so that a second claim is impossible;
`OpenOutcomes`, that no outcome is recorded before the ticket's holder publishes
one; `Payments`, how row, evidence and bill move together (a sent operation
keeps its row, recorded usage is the bill); and `Fenced`, that while the fence
stands its grant is current.  Each part has its own
step lemma with one step per action, so `Inductive` only puts them together.
Capacity needs one more fact, that `Occupied` grows only in `Claim`.  The
refinement maps every row to its hold (`HoldOf`), and each action to one of
`PaidOperation` or to a stutter, using the inductive invariant.

*`CurrentnessChannel`.*  Each side has its own inductive invariant, and a third
ties them together.  `ServiceInv`: which connection each phase has, that the
slots are those connections, and the promise about invalidations extended back
to the moment the rows are read (`Subscribed`): the locks keep the authority
still until the commit, and from the subscription on the trigger reaches the
connection.  `ClientInv`: what a stage says of its fetch, that owners have
attached only open channels, and the agreement of leases; `CountInv` adds the
count of openings, by a lemma on how one attempt's step changes the cardinality
of those waiting.  `VouchInv` adds the wire: a ready frame, read or not, carries
what its service still serves, or the end of the stream is behind it (`Link`).
A frame is appended by the service and removed at the head by the client, so
`AppendFacts` and `TailFacts` carry that argument; every hang-up and break loses
the frames with the exchange.  `VouchedSafe` follows from the three: what is
served is current or `Subscribed` applies, otherwise the end is under way or the
exchange has broken.  Only finiteness of the set of channels and natural limits
are assumed.

*`CurrentnessHistory`.*  What an owner gave up is revoked, or the owner has
ended; what it vouched for last is revoked, or still leased (`Retired`).
`Keeping` states, for one owner and any step, what its revocations, leases and
identities keep; `GenerationsSafe` then needs no case of the channel any more.
That revocations outlive everything is what makes the property true: the owner
ends rather than forget one.

*`GrantPublication`.*  The invariants are inductive once they also say that a
grant that still authorizes does not outlive its declaration
(`WithinDeclaration`): a reservation relies on it and looks only at the grant.
That the last of three readings of the clock is still inside every validity
comes from the window added to the second one, whatever the third is.

*`SnapshotCapacity`.*  The bytes that count are sets of cells, so that a row's
footprint is compared by inclusion: `WriteShrinks` says a later write of a row
uses only cells its footprint had (a part that appears takes the place kept for
it), and `StepShrinks` lifts it to all rows.  `FootprintKept` is then inductive,
and every outcome fits because its cells are among the footprint's.  No
induction over a sum is needed.

*`StoreMigration`.*  The invariants become inductive with what a worker may rely
on at each point of its program, what each phase promises the next worker, and
that there is only one database id: `BackUp` happens once, since no step leads
back to the old row without a phase.  A seal that lands late can then only name
this database.

*`SmartFilter`.*  A decision is computed from rows of one transaction and applied
in another, so `FilterInv` has to say of a decision under way what it says of a
row: if the row and the content are still the ones that were read, the decision
is what the rules make of them now (`BatchOK`); revisions only grow, so a row
that was changed meanwhile is not applied to.  What speaks for a text (a keep, an
intent, a reference) is in the row before any decision is, through captures whose
second transaction has not come and through an upgrade that has gone over half of
the rows.  A reading stays because every decision after its snapshot has a
greater sequence.  That every batch is finite comes from `FilterAssumption`.

*`SyncReplica`.*  A replica is a value, so the proof is in two halves.
`Sound(O, R)` says that `R` is whole over the operations `O` there are: its heads
are the maximal admitted operations of each entity, its rows and its frontier say
the same, what waits has a parent missing, a purge leaves no body.  `ApplySound`
shows once that applying any operation whose parents exist keeps this, whether it
is admitted, parked or known already; order, repetition and crashes then need no
argument of their own, since every receiving action is an application of one
operation.  `ReplicaInv` adds what only the state can say: a device has all
operations that are its own (`OwnSound`), a dependent whose parents are all there
is on the list of a walk or still to be found by one (`VisitsSound`), and a sealed
change descends from the heads it is going to replace as long as its cut is
current (`PrepSound`).  A commit is the only step that adds an operation; the new
one is an ancestor of none, so the other replicas stay sound over the larger set
(`ReplicaKeepsSound`).

*`SyncRestore`.*  `ReplicaInv(kept)` lets the operations of `kept` count as shared:
what a device sealed is queued, published or in `kept`.  `RestoreInv` is that
invariant with some part of the checkpoints for `kept` (`LiveSound`); a checkpoint
is sound for whatever device is filled from it (`CutSound`), a staged replica is
sound, and all it holds is published or in a checkpoint (`StageSound`).  Activation
compares heads only (`Replaceable`).  That nothing is lost follows from `HeadCovers`:
every operation of the live replica is a head or an ancestor of one, and a staged
replica holds the ancestors of what it holds (`ReplaceableLosesNothing`).  The two
counters of sequences then agree, so no sequence is sealed twice.

*`SyncPublication`.*  `PublicationInv` ties each publisher to its row.  A
publisher is never ahead of the row, has tried the object it is at, and, about to
acknowledge, is past the last object and has read them all (`Publisher`), but for
what the store lost since (`overtaken`).  What a row calls verified is exactly
what lies before its next object, and a confirmed row was verified to its end
(`PackSound`): a slower publisher that meets it can pass.  The invariant also shows
that the code's checks for a row that is behind a publisher
(`BNS_PUBLICATION_CHANGED` in `publications.js:116,124`) or not verified to its end
when it is acknowledged (`BNS_PUBLICATION_INCOMPLETE`, lines 144-145) never fire.  Every
step either leaves queue and reservations and takes rows on (`RowsGoOn`), or moves
reservations and leaves the other publishers as they are (`QueueStep`); what a step
never does to a row (`RowKeeps`) is part of the same lemmas and gives the three
action properties.

*`OrganizeJob`.*  `OrganizeInv` says what each stored row stands for.  A recorded
fate is the gateway's (`FinTrue`) and the gateway never revises one
(`SettledStays`), so whatever recovery reads from a stale handle was true when it
was read and still is (`HandleSound`).  A child without a fence was never sent
(`SendsSound`); the fence outlives job, restore and marker, hence the single send.
`EffectsSound` carries the domain's side: a job that may be asked for again has
changed nothing yet.  `Frames` states once what follows from a variable left
alone, so the lemma of an action treats only what it writes.

*`CaptureRecovery`.*  There is one task per tab, so the invariant is one statement
about a tab's page, task and debt (`TabOK`), and each answer of the browser one
fact about the values it writes (`AnswerOutcome`).  The groups of one bundle stay
together because a pass between two groups has delivered the ones before, unless
the document changed, and then it delivers no more.

*`EntryUpkeep`.*  `UpkeepInv` has to say what an invalidation that has not been
worked off stands for.  `Made` relates an entry's row, its dependencies and the
history of its making: a derived entry that counts as current still has a
dependency on every source that was not purged, with the text it was made from.
`Agrees` says that a mirror has the text of its input, or an invalidation of that
input will still come to it, past the cursor and past the batch that was read
(`Waits`).  `Drafted` is about evidence that was read for an entry not yet created,
`Reading` about a batch between its two transactions, `Cleaning` about how far the
job of a purged input is.  The commit of a batch is the hardest step: the event at
the head is taken off only with its last batch, otherwise its cursor moves past
exactly the entries of the page (`EventsLeft`).  `InvariantShows` derives the
promises of `EntriesAreSound`.  TLC checked `UpkeepInv` as an invariant over 8.5
million states of two mirrors before it was proved.

*`GenerationSelection`.*  The two receipts are told apart by what the source's says.
Once it says dispatched (`Moving`), the copy either still holds the receipt and the
lease of the selection, or the selection is over (`Moved`), and `OneLibrary` says
which of the two libraries takes ordinary writes at each moment.  A row in flight is
always the one its library's lease was taken for (`LeaseHolds`), and a library with a
receipt has no lease that is not the selection's: so no late save of the source can
land after the row has named the copy, which is `NoWayBack` and `SelectedIsVisible`.
Several workers may prepare and may overwrite each other's prepared receipts, so no
receipt has an owner; what a worker compares is enough, because revisions and the
copy's write count only grow, and a worker that read before the last change of a
library sees it (`SourceRead`, `TargetRead`).  Only from the reservation of the copy
on is there one worker (`OneChosen`), since the reservation finds no lease and takes
it; a row that was sent never goes with another still to send (`SentOnce`).  The
steps fall into kinds that share a lemma: a worker that only moves on
(`AloneStep`), a write the library admits (`OrdinaryWrite`), a receipt
(`ReceiptWrite`), a beginning or an end (`NothingInHand`); `Onward` is what every
write keeps of what others have read.

*Assumptions.*  Each is named in its module and evaluated by TLC.  They bound the
model's counters by naturals (`ReplicaAssumption`, `RestoreAssumption`,
`MigrationAssumption`), make batches finite (`FilterAssumption`,
`EntryAssumption`: finitely many inputs and entries, entries numbered, no entry
both a mirror and derived), give every job at least one child
(`OrganizeAssumption`), every bundle at least one group (`RecoveryAssumption`),
make the entity that may be purged one with bodies and keep the queue's own words
from being publication identities (`PublicationAssumption`), and keep `None` and
`NoRecord` apart from the values beside which they are stored
(`SelectionAssumption`).

*What the proofs found in the model.*  A conjunct of `CommittedResultIsComplete`
was indented out of its quantifier and said less than meant; two arms of a
`CASE` in `CurrentnessClient`'s `Observe` overlapped, so that the model had a
choice the code does not have; and `GenerationsNeverAlternate` once said that a
generation left is never vouched for again *whatever* comes between, which two
channels obey and three do not: an owner whose last vouching ended with a
disconnection has revoked nothing, and may come back to that generation.  The
property now speaks of what an owner gave up without disconnecting, as the
code's revocation does.

`OutcomesAreFinal` of `SyncPublication` was a `CASE` with two overlapping arms
(`obsolete` is one of `Blocked`) and is now three implications.

*Proved and not run.*  `TypeOK` of the ledger and of the dispatch,
`WithinCapacity`, `DeliveredIsPaid`,
`OutcomeIsDecidedOnce`, `NoMissedInvalidation`, `ServiceSlotsAreConnections`,
`ClientSlots` and `FootprintKept` are theorems; no run lists them by
themselves.  (`JobsAreCoherent` is a conjunct of `QuotasHold`.)

*Only model-checked.* Safety: `CaptureIsFaithful`, `AnswersAreTrue` and
`ArrivalIsExact` of the pages, `SettingsHold` and `HostsAreGranted`,
`ImportIsExact`. Each is the conjunction of an instance's invariants and action
properties, so a theorem would first be one of the component's own module.  They
are long protocols whose invariants need a clause per program counter, with one
worker and its successor or one page for actors, so that a theorem would say less
beyond the instance than those above.  `HostsAreGranted` is the next to prove.
`ImportIsExact` is out of reach: what an import counts and writes are folds over
its rows, and what a fold computes for every input is an induction over data.  Not
stated by a theorem either are the full types of the two sides of the channel (the
proofs need weaker ones).

And all liveness: `CostsAreCharged`, `StaleVouchIsNoticed`, `SlotsAreReturned`,
`SharedWorkSettles` (`RecoveryCloses`, `Converges`), `PagesAreFollowed`
(`EventuallyArchived`, `RepairsEnd`), `StoreWorkEnds`, `EveryPressIsAnswered`,
`LibraryWorkEnds` (`FilterWorkEnds`, `UpkeepEnds`).  Liveness under fairness is
outside what the provers do, and so is what a recursive definition computes for
every input.

## 6. Not modelled

See `PROJECT.json` for each component and its reason.  In short:

* *Pure checks before a transaction*: signed identity, HTTP entries, deployment
  configuration, the codecs of the sync journals, the shapes of rows.
* *Pricing*: planned.
* *Cryptography*: envelopes and key derivation are assumed; key persistence is a
  validating gate without state of its own.
* *Sync journals and plans* (`human-library-plan.js` and its siblings): they
  turn documents into operations and back; the operations are modelled, the
  documents are not.
* *Topics, ranking, user interface, website*: large, mostly without protocol
  state of their own; what the archive page shares with the worker is modelled.
* *The worker's holds and reservations for a selection*: the production
  configuration does not take them; `GenerationSelection` starts behind them.

## 7. Running

    tlc -workers 2 -config GatewayRules.cfg MCGatewayRules.tla
    tlapm GatewayRulesProofs.tla

Each run ends within three minutes; each proof module is checked from nothing
within a few minutes.
