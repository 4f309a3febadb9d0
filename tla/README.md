# Ythril: a verification project

Ythril keeps *spaces* of records and files, and synchronises them between
instances that belong to the same network. This directory holds TLA+ modules of
the parts of the server whose correctness depends on the order things happen
in, the TLC configurations that check them on small instances, and TLAPS proofs
of what matters most in them for every instance. Paths are relative to
`src/`; the server is `src/server/src`, abbreviated to `…` in tables.

    PositionStream.tla         the clock, the holds, the cap, writes, transactions
    SettledStream.tla          what the stream promises to a reader (abstract)
    PositionPull.tla           one peer pulling that stream; tombstone prune
    CompleteDelivery.tla       what the pull promises (abstract)
    PositionPush.tla           this instance pushing the stream to one peer; full re-read
    RecordVersions.tla         one record on several members: edits, arrivals, deletions
    WipeRound.tla              a voted wipe: casts, outcome, act, and the hold around it
    ConfigFile.tla             config.json: its two saves, the watcher, the version mark
    MediaJob.tla               a media file: uploads, its job, its runs, its removal
    MC*.tla                    the instance of the module of that name for TLC
    PositionStreamProofs.tla, PositionPullProofs.tla, PositionRereadProofs.tla,
    PositionPushProofs.tla, RecordVersionsProofs.tla, WipeRoundProofs.tla,
    ConfigFileProofs.tla, MediaJobProofs.tla
                               theorems about those modules, proved with TLAPS
    *.cfg                      one configuration for each run
    PROJECT.json               the runs, the map to the source, the hazards, ...

Run a configuration with `tlc -config push.cfg MCPositionPush.tla`. The module
of each is: `stream` on `PositionStream`, `pull_*` on `MCPositionPull`, `push` on
`MCPositionPush`, `records*` on `MCRecordVersions`, `rounds` on `MCWipeRound`,
`config*` on `MCConfigFile`, `media_*` on `MCMediaJob`. Check proofs with
`tlapm PositionPushProofs.tla` and so on.


## 1. The system: components, state, operations

Everything that is shared between spaces or instances goes through one idea: a
**position stream**. Every document of a space carries a *position*; a peer
remembers one number, how far it has read, and asks for what lies above it. The
whole of synchronisation rests on two promises: a reader that was told
"complete through p" will never find anything new at or below p, and what it
was told about is really in its store.

| Component | State | Operations | What makes it correct |
|---|---|---|---|
| **Position clock and holds** (`…/util/position-clock.ts`, `horizon-holds.ts`) | per stream: `Clock.last`, a promise of the seeded clock; per space: the set of open holds (blocks and floors) | `withPositionBlock`, `withPositionFloor`, `settledPositionCap`, `clockOf`, the stall watchdog | positions are distinct; every stamped position that is not visible is at or above an open hold; a later stamp is above every cap handed out |
| **Record position stream** (`…/sync/record-position-stream.ts`) | the stored maximum, marks of our own stream | seed, `withLandingStamp` | the seed is above everything that was ever handed out and is still visible to anyone |
| **Held and bounded transactions** (`…/brain/held-transaction.ts`, `…/db/bounded-transaction.ts`, `write-bound.ts`) | a floor for the transaction; the session; the bound's timer | begin, statements, commit, transient retry, seal, kill of an operation | the floor outlives the commit's outcome; every write ends |
| **Position pages, wire form** (`…/util/position-keyset.ts`, `…/sync/wire-answer.ts`) | none (one request) | cap, finds in order, page cut, cursor, `through`, `head` | a page never names as complete what it did not carry |
| **Pull** (`…/sync/position-run-pager.ts`, `pull-family.ts`, `tombstone-transfer.ts`, `watermark.ts`, `space-exchange.ts`) | `lastPosReceived` (memory and disk); per turn: `deliveredThrough` of each transfer | page, land, stop, restart at 0, resolve the mark, forget the mark | nothing at or below the mark is missing here |
| **Served mark, tombstone prune** (`…/sync/served-watermark.ts`, `…/brain/tombstone-prune.ts`, `…/api/sync/tombstones.ts`) | `lastPosServed` of each member | record from a request's start, floor, prune | a pruned tombstone has been applied by every member |
| **Configuration saves, watcher** (`…/config/loader.ts`) | the configuration in memory, the file, save generations, the signature last known | durable save, coalesced save, poll, reload | a durable change never leaves the file; what an operator writes takes effect |
| **Version counter and mark** (`…/util/version-stamp.ts`, `version-mark.ts`) | a counter in the database, a mark in the configuration | stamp, raise, seed, follow | no version is handed out twice, though the database be lost |
| **Push** (`…/sync/push-position-runs.ts`, `push-family.ts`, `push-refusals.ts`) | `lastPosPushed` | read runs, send, take refusals, mark | nothing offered at or below the mark is unsent |
| **Arrivals, convergence** (`…/sync/arrivals.ts`, `upsert-plan.ts`, `accept-page.ts`, `tombstone-apply.ts`; at home `…/brain/write-at-read-version.ts`, `record-removal.ts`) | records, tombstones, forks | edit, remove, accept, keep, swap, bury | a late write covers nothing newer; a displaced text is a fork; members end with the same record |
| **Full re-read** (`…/sync/full-reread.ts`, `receive-marks.ts`, `positions-owed.ts`) | a space's re-read state, receive marks, owed positions | request, begin, end, forget marks | it ends only when everything was gone through, and it ends |
| **Cycle runner, scheduler** (`…/sync/coalescing-runner.ts`, `network-cycle-runner.ts`, `scheduler.ts`, `engine.ts`) | running and wanted cycles | trigger, run, rerun | no trigger is dropped; one turn of a space and peer at a time |
| **File sync, file tombstones** (`…/sync/file-sync.ts`, `file-tombstone-ack.ts`, `…/files/tombstones.ts`) | manifests, acknowledgement rows | pull, push, acknowledge, prune | as for the records, in a stream of the ISO unit |
| **Governance rounds** (`…/networks/round-*.ts`, `vote-acts.ts`, `…/sync/governance.ts`) | rounds, casts, the outcome log | propose, vote, gossip, conclude, expire, prune | a round is carried only by casts that were made; it is decided once, and everywhere |
| **Space hold, transfer fence** (`…/sync/space-exchange-set.ts`, `space-transfer-fence.ts`) | transfers in flight; read from rounds and acts | hold, enter, drain | what a member wiped does not come back from one that has not |
| **Space acts** (`…/spaces/space-act-runner.ts`, `rename.ts`, `space-deletion.ts`) | durable entries | register, drain, run, complete, fail, resume | an act that started ends, and runs alone |
| **Media job queue** (`…/files/media/job-queue.ts`, `lease.ts`, `worker.ts`) | a job per file, claim tokens, file rows, derived rows | enqueue, claim, run, complete, fail, stall reset, retry, cancel, move | a worker that lost its claim writes nothing; rows of old bytes never survive |
| **Embedding queue** (`…/brain/embed-queue.ts`, `embed-worker.ts`) | a job per record | as the media queue | as the media queue |
| **Webhooks** (`…/webhooks/dispatcher.ts`, `store.ts`) | deliveries, retries | enqueue, claim, send, disable | a delivery is made or given up |
| **Brain write plans** (`…/brain/write-plan/*`, `write-at-read-version.ts`) | a plan's read set | plan, validate, commit | a plan commits only on what it read |
| **Spaces, auth, REST and MCP doors, recall, extraction, backup, client** | documents, tokens, requests | — | mostly decision functions; no protocol state |

How they interact: every write of a record goes through *withLandingStamp* or a
held transaction, so through the **clock and its holds**; every page, for a
puller or for our own push, is read below a **settled cap**; the **tombstone
door** records the puller's start as a mark of our own stream, cut at a cap and
saved with the **configuration**; the **prune** deletes up to the lowest such
mark; on a start, the **seed** reads the store and those marks back. The marks
and the clock therefore feed each other, which is why the stream, the pull and
the prune are modelled together and not each by itself. What a row says is the
business of the other half: a page that arrives is planned against the copies
and tombstones held, written under a guard, and leaves positions of its own for
the next member. Rounds travel in the same cycle, before the rows: a member's
turn with a peer first takes the peer's rounds, then hands on its casts, and only
then exchanges the spaces that no round or act holds.

Apart from the streams stand the **job queues**: a write of a file leaves a
job, a worker claims it, and from then on the file's row, its derived rows and
the job belong to whoever holds the claim; uploads, removals, moves, retries and
stall recovery take the claim away while the run goes on.

What is hard here, and what no test of the repository orders on purpose: holds
of several writers that overlap each other and a reader's cap; a commit whose
answer is lost; a transient retry of a transaction; a wall clock set back; a
crash with marks unsaved; a run of equal positions (the legacy band) cut by a
page; a mark that seven transfers share while writes go on between them; a peer
restored from a backup; an arrival planned against a copy that an edit replaces
before it is written; a page fetched before a wipe and landed after it; an edit of
the configuration file in the middle of a reload; a run that writes after it lost
its claim; an upload, a
removal and a retry of one path in several writes each, with no lock around them. The complete list, each at its line and with the
properties that watch it, is `hazards` in `PROJECT.json`.


## 2. The modules and the code

### PositionStream

One space of one instance, its clock, its store and its concurrent writers.

| Variable | In the code |
|---|---|
| `wall` | the wall clock the clock reads, in microseconds |
| `last` | `Clock.last` (position-clock.ts) |
| `seeded` | `clockOf` has resolved for the stream |
| `hold[w]`, `floor[w]` | the space's open holds (horizon-holds.ts): a block's, a transaction's |
| `rowPos` | the store: each document's position field, 0 when there is none |
| `pending[w]` | stamped by `withLandingStamp`, not visible in the store yet |
| `removing[w]` | documents the transaction deletes at its commit |
| `phase[w]` | where the writer stands: nothing, a plain write, a session, a statement of it, committed and not yet answered |
| `ownMark`, `savedMark` | `lastPosServed` and `lastPosPushed` together, in memory and in the file: marks of our own stream, which the seed reads |
| `capServed` | history: the highest settled cap any reader was handed |

| Action | In the code |
|---|---|
| `StampWrite`, `LandRow`, `EndWrite` | `withLandingStamp` outside a session: stamp and hold in one tick, the documents of an unordered bulk one after the other, the release in the `finally` |
| `BeginTxn`, `StampStatement`, `EndStatement`, `RemoveRow`, `CommitTxn`, `RetryTxn`, `EndTxn` | `inHeldTransaction` around `inBoundedTransaction`: the floor before the session, statements that hold for themselves only while they run, a commit whose effect and whose answer are two steps, a transient failure that runs the body again under the first floor, an end that is a commit, an abort or a seal |
| `ReadCap` | `settledPositionCap` for any reader |
| `RecordMark`, `SaveMark` | `ownPositionMark` of any number a peer names; the coalesced save |
| `Seed`, `Crash`, `Restart` | `recordSeed` and `clockOf`; the end and the start of the process |
| `WallTick`, `WallStepBack` | time, and a clock set back by NTP, an administrator or a resumed machine |

A cap is a nondeterministic choice of the one value `SettledCap` accepts: the
lowest open hold, and with none open the next position. The legacy band
(`1 .. BandFloor`, the code's `MAX_SYNC_SEQ`) is where several rows may share a
position; the clock refuses to stamp while it reads inside it (`ClockUsable`).

### PositionPull

Extends `PositionStream` with one peer that pulls the space, one turn at a
time, as `space-exchange.ts` runs it: the families one after the other, each a
loop of pages, under one mark.

| Variable | In the code |
|---|---|
| `mark`, `diskMark` | `lastPosReceived` of the member, in the puller's memory and file |
| `got` | the puller's store, as the position of the version it holds |
| `stage`, `fam`, `from` | where the turn is; the family; the mark the turn began from |
| `through` | `deliveredThrough` of each transfer |
| `start` | what the next request reads after, a position or a cursor |
| `checked`, `behind`, `forgotAt` | the head guard of `position-run-pager.ts`; that it found the peer behind; history of what `forgetBehindMark` did |
| `pages` | requests of the transfer, up to `PULL_MAX_PAGES` |
| `answer` | the page: cap, rows, cursor |

| Action | In the code |
|---|---|
| `ServerTakesCap`, `ServerReadsPage` | one page of a family: the cap, *then* the finds below it (position-keyset.ts), the cut and the cursor (wire-answer.ts); on the tombstone door also the served mark (api/sync/tombstones.ts) |
| `StartTurn`, `DeliverPage`, `DeliverLastPage`, `RestartBehind`, `StopAtPageBound` | `pagePositionRuns` and what its callers do with each page |
| `StopEarly`, `LandingFails`, `TurnCut`, `PullerCrash`, `ServerCrash` | a status, a shutdown, a store that fails half-way through a page (arrival-stop.ts), a fetch that throws or an exchange that may not go on, either process dying |
| `ResolveWatermark`, `SavePullMark` | the least `deliveredThrough`, never below the start (watermark.ts); the save |
| `PruneTombstones` | tombstone-prune.ts up to `TombstoneFloor` |

All of `PositionStream` goes on in between. Family 1 is the tombstones, whose
requests also move the served mark and with it the floor and the seed.

### PositionPush

The push half: `pushToPeer` (space-exchange.ts) runs the transfers one after the
other under `lastPosPushed`, each a loop of pages (push-position-runs.ts). Here
the reader is the instance that keeps the stream, so it takes a settled cap of
its own for *each page*. An operator's full re-read (full-reread.ts) forgets the
mark and stays owed or under way over turns and restarts.

| Variable | In the code |
|---|---|
| `offered` | the position of each row the push's selection offers; 0 for a row that is not there, or came from another hand and is not offered (`writtenHere`, `issuedHere`) |
| `horizon` | the highest settled cap anybody was handed |
| `mark`, `diskMark` | `lastPosPushed` in memory and in the file |
| `reread` | the space's `fullRereadState`: none, owed, catching up |
| `stage`, `fam`, `through`, `after`, `pages`, `cap`, `page` | where the turn stands, the family, `deliveredThrough` of each, the cursor, the page and its cap |
| `whole` | no leg of the turn, the pull before it included, stopped early |
| `sent`, `promised` | history: the version the peer took since the re-read began; the horizon at its begin |

| Action | In the code |
|---|---|
| `TakeCap`, `ReadPage` | the cap, then the finds below it (both finds are one step) |
| `FullPageTaken`, `LastPageTaken` | the peer answers; sent counts from here. A full page is complete to before its last position only |
| `StopAtPageBound`, `TransferStops` | the tombstones' page bound; a refused page or held family: that transfer stops, the next goes on |
| `ResolveWatermark` | the least of all transfers, cut at a cap |
| `RequestReread`, `BeginReread`, `EndTurn` | the request; marks and state in one durable write; the end, only when `whole` |
| `TurnCut`, `SaveMark`, `Crash` | a throw, the coalesced save, the process dying |

`RunsFit` is the one assumption about data: a run of tombstones at one legacy
position is shorter than what one turn sends (500 pages of 200). A longer run
would be begun again each turn and never ended, in the push as in the pull.

### RecordVersions

One record of a family that keeps forks, on the members of a mesh that pull from
and push to each other. A body stands for its hash; at one version the lower body
is the parent, everywhere.

| Variable | In the code |
|---|---|
| `row`, `tomb`, `forks` | each member's copy, tombstone and forks of the record; `here` is `writtenHere` / `issuedHere` |
| `counter` | the space's version counter |
| `edit` | a local edit between its stamp and its write: the version it read |
| `turn[c]` | a channel's turn: what it is to carry, the document in hand, the copy the plan saw |
| `owed[c]` | what the source landed since the channel's mark (what `PositionPull` and `PositionPush` show the marks to mean) |
| `shadowed` | history: members where a copy landed under a tombstone that governs it |
| `crossed` | history: turns about to swap whose fork a removal at the member took |

| Action | In the code |
|---|---|
| `EditRecord`, `LandEdit`, `RetryEdit` | `writeAtReadVersion`: the stamp, the write filtered by the version read, the retries |
| `DeleteRecord` | the removal transaction: row and forks go, tombstone comes |
| `StartTurn`, `TurnFails` | an exchange of two members over one channel; a failure leaves the mark |
| `ReadTomb`, `JudgeTomb`, `StoreTomb`, `BuryRow`, `Cascade` | tombstone-apply.ts: who may delete, the guarded store, the delete bound by the author, the forks |
| `ReadRow`, `PlanRow`, `WriteRow`, `CleanTomb` | upsert-plan.ts and arrivals.ts: the plan against what is read, the guarded upsert with its read-back, the superseded tombstone |
| `KeepArriving`, `KeepDisplaced`, `SwapRow` | a tie: the copy that loses becomes a fork first, then the swap under `equalSeqSwapGuard` |
| `TakeForks` | forks arrive as rows of their own |

Each store call is a step of its own, so edits, removals and other channels fall
between the plan of an arrival and its write.

### WipeRound

One round to wipe a space, on members that decide it each for itself.

| Variable | In the code |
|---|---|
| `rule` | the network's type |
| `round`, `outcome`, `votes` | the round as the member has it, its outcome log, the casts it has taken |
| `late` | the member's clock is past the deadline |
| `act` | the wipe's entry: registered, running, done |
| `evidence` | `peersConcluded` |
| `rows` | rows from before the wipe are here |
| `cycle` | the member's sync cycle with a peer |
| `said` | history: who ever cast a yes |

| Action | In the code |
|---|---|
| `ProposeRound`, `CastVote` | the operator's doors; each settles the round |
| `DeadlinePasses`, `ExpiryTick` | the clock; the minute job that concludes and prunes |
| `AskVotes`, `TakeServed`, `LoseAnswer`, `PushCast` | the governance pass of a cycle: rounds pulled, adopted or merged, evidence noted, casts pushed one by one |
| `OpenTurn`, `AskRows`, `LandRows`, `SendRows`, `LandSent`, `EndCycle` | the exchange of the space, each door asking the hold for itself; what was fetched or admitted before a hold still lands |
| `StartAct`, `CompleteAct`, `FailAct` | the runner: drain, run, settle or retry |
| `Crash` | the cycle in flight is lost, a running act is resumed from its entry |

A handler is one synchronous turn that ends in a durable save, so a decision is
one step. `MaxCycles` bounds the cycles under way at once in the network.

### ConfigFile

`config.json` as the process, its coalesced saves and an operator's editor share it,
and the version mark that rides on the saves.

| Variable | In the code |
|---|---|
| `config`, `mark`, `file` | the configuration and the mark in memory; the file. `setting` counts durable changes, `edit` the operator's |
| `known`, `sampled` | `_lastKnown` is the file as it is; the watcher's last poll saw it |
| `written`, `flushed`, `scheduled`, `waiting`, `flush` | the generations, the scheduled flush, the flush lock and its holder's snapshot |
| `asked`, `reloading` | the reload lock |
| `counter` | the space's version counter in the database |
| `seen`, `started`, `alloc` | what the process saw of it, that a first stamp was checked, each allocation between its store calls |
| `used`, `reused`, `exposed`, `unsaved` | history: the highest version handed out, that one was not above those before its allocation, what excuses that, a flush that failed |

| Action | In the code |
|---|---|
| `SaveConfig`, `MutateConfig` | the durable save; the one that reads the file first |
| `RunScheduled`, `StartFlush`, `EndFlush`, `FlushFails` | `saveConfigSoon`'s flush: generation and snapshot, the awaited write, the stale check, the rename |
| `OperatorEdits`, `Poll`, `ReloadConfig`, `EndReload` | an editor, the watcher's verdict, the reload in its two ends |
| `Ask`, `RaiseFirst`, `RaisedFirst`, `Update`, `FindBack`, `RaiseAgain`, `Stamp` | an allocation of a version: the raise before the first stamp, the one update, the raise after a counter that went back, the mark that follows |
| `LoseDatabase`, `Restart` | the database emptied or put back; the process again, with `seedVersionMarks` |

`exposed` records the losses the source leaves open: a crash before a raised mark
was saved, and a counter lost between a raise and the first version this process
sees of it.

### The abstract specifications

`SettledStream` is the stream as a reader sees it: rows and a horizon; rows
appear only at or above the horizon, which only rises. `PositionStream` is
shown to implement it with the caps handed out as the horizon, and `PositionPush`
takes its rows from it (`Stream == INSTANCE SettledStream`), so that the push is
checked over everything the stream may do and not over one writer's schedule.
`CompleteDelivery` is the pull as an operator of the network sees it: a source,
a sink and a mark, and every row at or below the mark is in the sink as it
stands in the source, at every moment and not only when the mark moves.
`PositionPull` implements it with its own `rowPos`, `got` and `mark`.

### MediaJob

One path of one space that holds a media file (an image, a recording, a film)
whose hash is known: everything that writes its row, its job and its derived
rows (captions, segments, faces), each store call a step of its own.

| Variable | In the code |
|---|---|
| `disk` | the bytes at the path; contents stand for their SHA-256 |
| `row` | the file's row: `embeddingStatus` and `sha256` |
| `job` | `MediaJobDoc`: status, `claimToken`, attempts, `sha256`, how often it was deferred; `waits` is a `claimableAfter` still to come |
| `derived` | the derived rows, as pairs: the stamp `sourceSha256`, and (history) the bytes the run had really opened |
| `run[r]` | a slot of the worker: where `processJob` stands, the claim's hash, the bytes it opened |
| `upload[u]`, `removal`, `retry`, `bulk` | an upload, a delete, `retryJob` and `retryFailedJobs` between two of their writes |
| `amiss` | history: what happened that nothing in the code repairs (below) |

A token is drawn afresh for each claim. The model names it by the slot that drew
it: one slot's runs do not overlap, and a token goes when its claim is recovered,
released or reset, so a slot never meets a token of an earlier run of its own
except the one a refused end left behind, which the recovery then clears.

| Action | In the code |
|---|---|
| `Claim` | `claimNextJob`: pending and claimable, a token, an attempt |
| `Open`, `Mark`, `Clear`, `Write`, `CheckBytes`, `Complete`, `Fail` | `processJob` in its order: open the bytes, `markFileProcessing` (not waited for when the store refuses), `clearRowsOfOtherBytes`, the derived rows (`upsertDerivedFileRow`), `bytesPresent`, `completeJob`, and `failJob` from anywhere, at once for bytes that cannot be decoded |
| `KeepCaption`, `DeferJob` | a deferred job's run keeps the caption that is stored; the face gallery cannot answer, and the job goes back with its attempt, until the cap counted from its first deferral (`DEFERRAL_CAP_MS`, here a number) |
| `Abandon`, `EndIsRefused` | a fenced write or a heartbeat that finds the claim gone; an end the store refuses, which leaves the job claimed |
| `AssertHolds`, `ReconcileCancel`, `ReconcileArtefacts`, `ReconcileRetire` | `reconcileDeletedSource`: one read of the claim, then `removeFileHere` with failures swallowed |
| `RecoverDead`, `RecoverSlow`, `Release` | `resetStalledJobs` of a run that died and of one that beats too slowly; `releaseClaimedJob` |
| `WriteBytes`, `ReadPrior`, `WriteRow`, `ReadJob`, `MarkPending`, `ResetJob` | `storeFile`, `recordAndDispatchFile`, `replaceContent` |
| `RecordFails`, `DispatchFails` | `removeUnrecordedBytes`, `reportDoorFailure` |
| `Remove`, `Unlink`, `CancelJob`, `RemoveArtefacts`, `RetireRow`, `RemovalFails` | `deleteFileCascade` and `removeFileHere`, the row last |
| `RetryJob`, `RetryRow`; `BulkRead`, `BulkRows`, `BulkJobs` | `retryJob`, the job first; `retryFailedJobs`, the rows first |
| `WaitElapses` | `claimableAfter` passes |
| `Crash` | the process ends: runs and doors with it |

A step that writes under the claim (`writeUnderClaim`) has `Holds(r)` as a
conjunct and is one step with what it writes, since the fence is a write to the
job in the same transaction. A step that only read the claim before (the
reconcile) has no such guard, as in the code.

The one thing the model takes from the clock is what `REPLACE_SETTLE_MS` is for:
a job's wait ends only when no door and no reconcile is half-way
(`NothingIsHalfDone`). The three seconds are far longer than the store calls
that remain, but nothing in the code enforces it; the mutant that makes a job
claimable at once shows what depends on it.

`amiss` records four events after which a row may stay `pending` with no job, or
a derived row without its file, until someone writes the path again:

* `cut`: the process died, or a removal failed, between the row's write and the
  job's, or between the job's cancellation and the row's removal;
* `crossed`: a removal or a reconcile cancelled the job while an upload or a
  retry of the same path was half-way;
* `overtaken`: `retryFailedJobs` marked the row of a job that was no longer a
  failed one;
* `swallowed`: a reconcile went on after a step of it failed.

`RowAwaitsItsJob` asks nothing after any of them, `NoOrphanRows` nothing after
the last. They are listed among the hazards with the lines they come from;
where the source itself counts on a repair (a delete that is still owed, a
re-upload) the hazard's note says so.

### Assumptions of the models

* **One space, one peer at a time.** A space's streams are independent but for the
  clock's `last`, which only moves forward. The pull has one puller and one member:
  the tombstone floor is its served mark; the minimum over several is not modelled.
* **A version is its position.** What the puller does with a version it takes
  (keep, fork, refuse) is `RecordVersions`' question; in the pull landing means
  holding the version, in the push sending means that the peer answered.
* **An honest peer.** A page never says `through` above its head and a cursor
  always moves, so the pager's guards against an answer that breaks those rules
  have nothing to do and are left out.
* **A crash settles what was in flight** before the restart: a write on the
  store when the process dies lands before the crash or never. The residual the
  source describes (write-bound.ts:460) is the same for a killed write.
* **A start outlasts the clock's lead**: a block of *n* rows runs the clock *n*
  microseconds ahead of the wall clock, and a process does not start again
  within that time (`Restart`'s guard). Where the wall clock was set back the
  guard is dropped.
* **Marks mean what the stream modules show.** `RecordVersions` takes "owed since
  the mark" as given, `WipeRound` moves all rows of a space at once: each rests on
  the pull and the push for what a turn carries.
* **The file's signature changes with every write** (`ConfigFile`): size, time and
  inode of a renamed file; two writes never share one.
* `last`-position marks of served and pushed are one variable: both are folded
  the same way and read back by the same seed.
* A cap's tie read and range read are one step: both run below the same cap,
  and the range never meets a row the tie saw.


## 3. What the runs check

Every run that passes is exhaustive for its constants. Each property has a
mutant: the change to a mapped definition, named "the variant" where it stands,
that makes TLC find the property violated.

| Run | Properties | The question |
|---|---|---|
| `stream` | `TypeOK`, `StampsAreDistinct`, `OwnMarkIsCapped`, `EveryRowBecomesReadable` | Two overlapping writers, a crash, a clock set back, marks a peer names: is a position handed out twice, does a mark pass a cap, is a row kept from readers for ever? |
| `pull_ties` | `PullTypeOK`, `StampsStayAboveCaps`, `NothingLandsBelowACap`, `NothingSkipped`, `PrunableIsApplied`, `HonestHeadIsReached`, `PullIsComplete`, `EveryRowArrives` | May a reader trust a cap for good; does the mark keep its promise at every moment, in a run of equal positions cut by pages and across a crash of either side; may a tombstone below the floor be deleted; is a healthy server ever taken for one whose positions went back; does every row arrive once faults cease? |
| `pull_setback` | `RereadIsWhole`, `UnlandedIsHeld`, `StampsAreDistinct` | With the wall clock set back and blocks of two rows: are unlanded stamps still held, positions still distinct, and what the head guard restarted whole? |
| `pull_behind` | `ForgottenMarkIsRebuilt`, **violated** | Finding 1 |
| `push` | `PushTypeOK`, `NothingLeftBehind`, `RereadIsWhole`, `RereadEnds`, `MarkCatchesUp` | With a cap for each page, legacy ties, page bounds, stops, cuts, crashes and full re-reads: is anything at or below the push mark unsent; is a re-read that ended whole; does it end, and does the mark catch up? |
| `records` | `VersionsTypeOK`, `CopiesOnlyRise`, `DisplacedTextIsKept`, `HoldersAgree`, `RemovalTakesEffect` | Two members edit, remove and exchange one record, with a turn that fails half-way: does a late write cover a newer text, is a displaced text lost (but to a removal between its fork and the swap), do they end with one record, or with the author's removal? |
| `records_shadow` | `NothingLandsUnderATombstone`, **violated** | Finding 3 |
| `rounds` | `RoundsTypeOK`, `PassedIsAuthorised`, `WipedStaysWiped`, `DecidedOnce`, `DecisionReachesAll`, `HoldsEnd` | Three members decide one wipe from the casts they took, with a veto, lost pulls, deadlines, crashes and acts that fail: is it carried only by real casts, decided once and everywhere, do wiped rows stay away, does every hold end? |
| `config` | `ConfigTypeOK`, `DurableSavesStay`, `NoVersionIsReused`, `SavesReachTheDisk` | Saves of both kinds, reloads, failed flushes, a lost database and restarts: does a durable change leave the disk, does what was saved reach it, is every version above those handed out before? |
| `config_edit` | `EditsTakeEffect`, **violated** | Finding 4 |
| `media_live` | `MediaTypeOK`, `OneContentsRows`, `NoOrphanRows`, `RowAwaitsItsJob`, `EveryJobEnds` | Uploads, a removal, retries, deferrals, lost claims and a crash over one path: are a complete job's rows of one content, do removed files leave none, has a waiting file its job, does every job end? |
| `media_stamp` | `StampNamesItsBytes`, **violated** | Finding 2 |

### Bounds, and why they are enough

| | rows | writers | band | block | positions | set back | crashes |
|---|---|---|---|---|---|---|---|
| `stream` | 1 | 2 | 1 | 1 | 3 | 1 | 1 |
| `pull_ties` | 2, both tombstones; a second family empty | 1 | 1 | 1 | 2 | 0 | 1 |
| `pull_setback` | 1 of each of 2 families | 1 | 0 | 2 | 2 | 1 | 0 |
| `pull_behind` | 1 of each of 2 families | 1 | 1 | 1 | 3 | 1 | 0 |
| `push` | 2 of each of 2 families | any | 1 | any | 2 | — | any |

`PageSize` is 1 and `MaxPages` 2 in all of these: with two rows in a family every
page is cut and the page bound is met. Two rows make a block, a run of equal
positions and two families that disagree. Three positions leave room for a
stamp below, at and above a cap, after a seed and after a crash; where there are
two, the legacy position and one above it are what the run is about. The wall
clock's bound stops the clock, not the rows: every write that began still ends.
Two writers show every overlap of two holds; that no stamp falls below a cap is
checked with one writer in `pull_ties` and proved for any number (section 4).
`push` has no writers of its own: its rows come and go as `SettledStream` allows,
crashes are unbounded because marks and positions are bounded.

| Run | Instance | Why |
|---|---|---|
| `records` | 2 members, each pulls, the author pushes; 3 bodies; 2 acts; 1 turn that fails | two acts are two concurrent edits, or an edit and a removal; three bodies are the first one and two that tie; the push is a second channel that delivers the same version at another time |
| `records_shadow` | the same, no failure | |
| `rounds` | 3 members, democratic, 1 doubter, 1 cycle at once | with three a majority is not everybody, and rows may come back by way of a third; the other rules and any number of cycles are proved |
| `config` | 2 allocations, mark step 1, limit 4, 1 durable change, 1 edit, 2 versions, 2 faults | a version handed out, a loss and a version after it; two allocations cross one loss |
| `config_edit` | 2 edits, no allocation | the second edit during the reload of the first |
| `media_live` | 2 slots, 1 upload at once, 2 contents, 2 attempts, 1 deferral, 2 acts, 2 faults | a run and the one that replaced it; what a path held before and after; an upload and what overlaps it |
| `media_stamp` | 1 slot, no deferral, 2 acts, 1 fault | |

An act is an upload, a removal or a retry of the path, an edit or a removal of the
record; a fault is a crash, a step that fails, a claim taken from a live run or
handed back. `MarkLimit` lies above every version `config` hands out:
at the limit the mark stops following the counter, and nothing is promised there.

Deadlock is checked wherever the system never stops: a reader can always ask for
a cap, a member always begin another cycle. `CHECK_DEADLOCK FALSE` is in the
`media_*`, `config*` and `records*` runs, which come to rest when their acts and
faults are spent.

### Fairness

**Stream.** Time passes; a started process reads its seed when it is asked, a dead
one is started again; every plain write and every transaction ends. The last is
what `write-bound.ts` and `bounded-transaction.ts` are for: an operation that
outlasts its bound is killed, a transaction sealed. No fairness is given to new
writes, to commits or to readers.

**Pull.** Weak fairness of a turn's healthy steps, which is the scheduler's cycle,
and `FaultsCease`: from some moment on, each step of a fault is also one a healthy
turn could take. Without it a network that fails on every request would refute
any liveness.

**Push.** The same of its turns; and caps keep rising (`Settle`), which is
`EveryRowBecomesReadable` of the stream. Among the faults that cease is a turn
that could not begin an owed re-read: the slot is one space's at a time
(full-reread.ts), and other spaces' re-reads end by the same argument. Nothing is
assumed of requests for a re-read, saves or crashes.

**Records.** Each channel's turns begin again and again and their store calls
end; an edit's retries end. Edits, removals and failures are bounded and never owed.

**Rounds.** The expiry job ticks, a registered act starts once its space has
drained and is retried, every member begins its turn with every other again and
again, and lost pulls, failing acts and crashes come to an end. No operator has to
vote, no push of a cast and no turn with the space has to succeed: a decision
reaches a member by the pull alone.

**Configuration.** Pending callbacks run, the flush's write ends, the watcher polls.

**Media.** The worker's loop and the event loop: a claimable job is claimed, a run's
next step and a door's next step are taken, a wait elapses, the stall sweep finds
the claim of a run that is no more. Nobody has to upload, remove or retry; `Fail`,
`DeferJob` and every fault are allowed and never owed, so `EveryJobEnds` covers
runs that never succeed. Faults are bounded by a number, so a job that for ever
loses its run is not covered: `resetStalledJobs` charges attempts but does not
look at them.

### Findings

1. **A mark forgotten in the middle of a turn is rebuilt from what was read
   before** (space-exchange.ts:328; the comment at 301–308 says the space is read
   again from the start). The transfers that had ended before the one that found
   the peer behind keep a `deliveredThrough` computed from the forgotten mark,
   and the turn's new mark is the least of all: families read earlier in the
   turn are covered without being read again. `pull_behind` shows it;
   `pull_setback` shows that the families that *were* read again are whole.
2. **A run may stamp rows with a hash its bytes do not have** (worker.ts:432 and
   :462; derived-fields.ts:382 says the row carries the bytes it was made from). The
   hash is the job's when it was claimed, the bytes are what the path holds when
   they are opened, and an upload puts its bytes there before it resets the job.
   `media_stamp` shows it. The new job's run clears such rows, so it shows only
   where that job never comes (the upload's record fails, the process dies) or
   where the old bytes come back: `clearRowsOfOtherBytes` then takes the stamp for
   its own. `OneContentsRows` is the part that holds, of stamps.
3. **A copy may land under a tombstone** (arrivals.ts:675; docs/sync-protocol.md:369
   says every family checks a tombstone first). The check belongs to the plan of
   the page; the guarded upsert that follows asks for the stored copy's version
   only. A removal that commits between the two leaves no row, and the upsert
   inserts the removed copy beside its tombstone. `records_shadow` shows it.
   `RemovalTakesEffect` is what holds elsewhere; the members it exempts are those
   in `shadowed`.
4. **An edit made during a reload is never loaded** (loader.ts:838; the comment at 784
   says the file is reloaded whenever another hand changes it). The reload reads the
   file at its first step and records the signature of the file as it is at its
   last: a second edit in between is taken for known, and the next save writes
   over it. `config_edit` shows it.

Three observations no run states. *A cap taken while the stream is idle is not
kept*: with no hold open the cap is the next position, computed from the wall
clock and not stored (position-clock.ts:272), and the comment at 263–265 counts on
later stamps being above it; set the wall clock back and the next stamp is
`last + 1`, below it. What survives is proved: positions stay distinct and held,
marks stay cut. The pull's head guard notices if the puller asks before the clock
has caught up; the push has none, so that a row stamped below its mark waits for
the next write of it. *A changed file may be left complete under its new
hash* (dispatch.ts:290): the row takes the new hash and keeps `complete` one write
before it is marked pending, and after a crash in between the next upload of
the same bytes is skipped as settled. *A displaced text may be without its fork*
(accept-page.ts:369, whose comment says that it is never stored nowhere): a
removal at the member between the fork's write and the swap takes the forks with
the record; if another channel then lands the same copy again, the swap finds
the copy it was planned against and displaces it, and no fork is written a second
time. The text is still with the member it came from. This takes three members, more
than `records` has; the attempt to prove `DisplacedTextIsKept` without an exception
found it, and the property now exempts exactly those turns (`crossed`).


## 4. What is proved

The theorems hold for every value of the constants, under nothing but the
assumptions the modules state (bounds are numbers, there are rows, writers,
members), unless "Under" names more.

| Module | Theorem | Property | Under |
|---|---|---|---|
| `PositionStreamProofs` | `TypeCorrect` | `TypeOK` | — |
| | `StampsAreHeld` | `UnlandedIsHeld` | — |
| | `OwnMarksAreCapped` | `OwnMarkIsCapped` | — |
| | `PositionsAreDistinct` | `StampsAreDistinct` | — |
| | `LaterStampsStayAboveCaps` | `StampsStayAboveCaps` | the wall clock is never set back |
| | `StreamIsSettled` | `NothingLandsBelowACap` | the wall clock is never set back |
| `PositionPullProofs` | `PullTypesCorrect` | `PullTypeOK` | — |
| | `PulledStampsAreHeld` | `UnlandedIsHeld` | — |
| | `PulledPositionsAreDistinct` | `StampsAreDistinct` | — |
| | `PulledStampsStayAboveCaps` | `StampsStayAboveCaps` | the wall clock is never set back |
| | `PulledStreamIsSettled` | `NothingLandsBelowACap` | the wall clock is never set back |
| | `MarkSkipsNothing` | `NothingSkipped` | the wall clock is never set back |
| | `PrunedIsApplied` | `PrunableIsApplied` | the wall clock is never set back |
| | `HonestHeadsAreReached` | `HonestHeadIsReached` | the wall clock is never set back |
| | `PullDeliversCompletely` | `PullIsComplete` | the wall clock is never set back |
| `PositionRereadProofs` | `TransfersReadAgainAreWhole` | `RereadIsWhole` | while the wall clock was set back once at most, and no process has died |
| `PositionPushProofs` | `PushTypesCorrect` | `PushTypeOK` | — |
| | `PushedIsSent` | `NothingLeftBehind` | — |
| | `RereadsAreWhole` | `RereadIsWhole` | — |
| `RecordVersionsProofs` | `VersionTypesCorrect` | `VersionsTypeOK` | — |
| | `MemberCopiesOnlyRise` | `CopiesOnlyRise` | — |
| | `DisplacedTextsAreKept` | `DisplacedTextIsKept` | — |
| `WipeRoundProofs` | `RoundTypesCorrect` | `RoundsTypeOK` | — |
| | `PassedRoundsAreAuthorised` | `PassedIsAuthorised` | — |
| | `WipedMembersStayWiped` | `WipedStaysWiped` | — |
| | `RoundsAreDecidedOnce` | `DecidedOnce` | — |
| `ConfigFileProofs` | `ConfigTypeCorrect` | `ConfigTypeOK` | — |
| | `SavesStay` | `DurableSavesStay` | — |
| | `VersionsAreFresh` | `NoVersionIsReused` | while `used <= MarkLimit` |
| `MediaJobProofs` | `MediaTypeCorrect` | `MediaTypeOK` | — |
| | `RowsAreOfOneContents` | `OneContentsRows` | — |
| | `RemovalsLeaveNoRows` | `NoOrphanRows` | — |
| | `PendingRowsHaveJobs` | `RowAwaitsItsJob` | — |

Those that need a monotone clock say `ASSUME MaxStepBacks = 0`; the first
observation above is why they must. The two that say *while* state it in the
theorem, of each state: `[](stepBacks <= 1 /\ crashes = 0 => RereadIsWhole)`, for any
value of `MaxStepBacks` and `MaxCrashes`, and `[](used <= MarkLimit =>
NoVersionIsReused)`. A second set back, or a start with a clock that is behind,
can put a stamp below what the re-read itself has completed, as the first one did
below the mark; `MarkLimit` is the code's `MARK_LIMIT` (version-mark.ts:57), at which the
mark stops following the counter. None of the properties is inductive as it
stands; the invariants below are.

**The stream.**

* *Stamps are held.* A session's stamps outlive the hold of the statement that
  made them, so what covers them is the floor, and the floor covers them only
  because it was registered as handed out: `HoldsAreHandedOut` (a hold is at
  most `last`, a floor at most `last + 1`) makes every later stamp land at or above
  it. `HeldInv` adds which of the two holds covers which stamps (`StampsAreFloored`).
* *Positions are distinct.* A new block lies above `last`, so it is enough that
  everything stored or on its way is at or below `last` while the clock is
  seeded (`StoredIsHandedOut`). The crash breaks the clock and the seed restores
  it; without the seed's maximum over the store the invariant fails there.
* *Later stamps stay above caps.* With a hold open the cap is at or below it
  (`CapsAreBelowHolds`); with none open the cap is the next position, so it must
  stay at or below every next position to come (`CapIsBelowNext`), which is
  where a monotone wall clock is used, and across a restart that a start
  outlasts the clock's lead.
* *The stream implements `SettledStream`*: every step maps to `Publish`, to `Settle`
  or to a stutter. Rows appear only by `LandRow` and `CommitTxn`, from `pending`,
  which `CapInv` puts at or above every cap.

**The pull** (`PromiseInv`, on a monotone clock). The marks and the clock feed each other,
so the turn's invariant is proved together with the stream's (`CapInv`).

* Every place a mark stands or may move to is *settled* (below a cap that was
  handed out, so nothing appears at or below it) and *whole* (what the server
  shows of the family through there, the puller holds): both marks and every
  `deliveredThrough` (`MarksAreWhole`), and the tombstones' served marks
  (`ServedIsWhole`), which is what the prune rests on.
* Inside a transfer the cursor is ahead of what `deliveredThrough` claims: what the
  next request does not ask for is held already (`CursorIsHeld`). While a page is
  under way, what is whole is so below *its* cap and not merely below the highest cap
  of any reader (`Limit`); rows that move meanwhile land at or above that cap, so a
  version on the page is the one shown, was overtaken from above the cap, or is
  gone (`PageIsCurrent`), and a row below the cap that the page leaves out follows
  its cursor (`PageIsFirst`). So the claim made when the page lands is true of the
  rows as they are then.
* Each of these places is below the page's cap, hence no head is ever found
  behind the mark (`HeadIsNotBehind`, `Steady`, `HonestHeadIsReached`): on a monotone clock the guard of
  `position-run-pager.ts` never forgets a mark.
* *The pull implements `CompleteDelivery`*: every step moves at most one of the source,
  the sink and the mark, and maps to its step or to a stutter.

**The re-read** (`SetbackInv`). Once the wall clock was set back, the caps handed out
and the marks claim nothing. What the head guard restarts rests instead on what is
settled *now*: below the next position and below every open hold (`IsSettled`), which
stays so while the clock only rises from there. Before the set back `PromiseInv`
holds and nothing is found behind; a restarted transfer begins at 0, is complete
through a settled place (`RereadsAreFirm`), its page cut below a cap above all of
them (`PageIsSettled`); and a turn whose mark is forgotten goes on from 0, so
every transfer after it is a re-read too. The page lemmas are the pull's own: they
say nothing of marks.

**The push** (`SentInv`, `RereadCovers`). What the mark and every transfer claim has been
sent (`MarkIsSent`, `TransfersAreSent`); what the cursor has left behind has been sent,
which inside a run is more than the transfer claims (`CursorIsSent`). Between a
page's read and its answer rows move: one of the page is as it was read, gone, or
landed at or above the page's cap (`PageIsCurrent`), and a row below the cap that is
not in the page follows every row of a full one (`PageIsFirst`); so when the peer
answers, the claim before the last position is true of the rows as they are *then*.
`RereadCovers` follows a turn of a re-read through its families: while nothing
stopped, each finished transfer is through all that was settled at the begin.

**Versions** (`Typed`, `EditIsAbove`, `Fits`). A copy is written by an edit, whose stamp
is above the version it read and whose filter names that version; by a guarded
upsert, which rises; or by a swap, which names the copy it displaces, and
`Displaces` says that copy has the version that comes and the higher body,
through every stage between the plan and the swap. `KeptInv` adds that a turn about
to swap has its fork, of the copy it displaces, unless a removal took it since.

**Rounds** (`VotesInv`, `WipedInv`). A yes held or being served was cast
(`CastsAreReal`), and a count of yeses that carries still carries when more are
cast. For the wipe: evidence is true (`EvidenceIsTrue`), an act runs alone
(`RunsAlone`, the fence), a wiped member turns only to members it saw wiped
(`TurnsWithWiped`, the hold), and so nothing that could bring rows back is here or
on its way (`NothingOnItsWay`). The last two hold while nothing is pruned, and
`PrunedForGood` says that once something is, they are never asked again.

**Configuration** (`SavedInv`). Memory and file agree about durable changes, and a
snapshot being written that no durable save has overtaken agrees too; the
generation recorded with a snapshot is what makes the second part inductive.
For the versions (`VersionInv`), as long as every loss of the counter can be told:
the mark has reached what was handed out, what the process saw of the counter is the
highest of it, a counter that was raised and not looked at since is not below it,
and each allocation rests, by where it stands, on one of these as they were when
it began (`RestsOn`), so that the version it is answered lies above all of them. Two
allocations under way at once are not compared with each other.

**Media** (`Inductive`):

* *Rows of one content* (`RowsInv`). The run that holds the job analyses the job's
  own hash (`HolderKnowsTheJob`), and once it has cleared, nothing but that hash
  is left (`HolderHasCleared`). A fenced write is then of the job's hash, and an
  end finds what the clear left. Whoever takes the claim makes both vacuous, and
  a run without it changes nothing: that is why the fence has to be in the
  transaction of the write, and why the clear comes before the first write.
* *Removals leave no rows* (`OrphanInv`). After a removal or a reconcile has taken
  the derived rows and before it retires the row, a run may put one there only if it
  holds the job; the job went first, and one an upload or a retry writes anew is
  still waiting (`AfterCancel => NobodyHolds`, the settle wait). With nobody
  holding, the rows stay gone until the row does (`BeforeRetire`), and later writes
  find no parent.
* *Waiting files have jobs* (`AwaitInv`). A job that `retryJob` has reset waits until
  its row is written (`RetriedJobWaits`); the rows `retryFailedJobs` marked are
  waiting for jobs that are still failed (`AwaitedThroughBulk`); every end writes
  the row and the job together, and a deferral leaves the job waiting.

Every type invariant, safety invariant, action property and refinement of the passing runs
is stated by a theorem. Model-checked only is liveness (`EveryRowBecomesReadable`,
`EveryRowArrives`, `MarkCatchesUp`, `RereadEnds`, `HoldersAgree`, `RemovalTakesEffect`,
`DecisionReachesAll`, `HoldsEnd`, `SavesReachTheDisk`, `EveryJobEnds`): what a step
under fairness may do needs ENABLED, which is out of the prover's reach. The
violated properties of the findings are TLC's counterexamples.


## 5. What is not modelled

The component list in `PROJECT.json` gives each part's status. What stays out
whole: decision functions of one request (authentication, rights, schema
validation), text and numeric work (search, extraction, ranking), doors that parse
and dispatch, metrics and type declarations, the client and the packaging. They are
most of the repository's lines and keep no state whose order matters.

Of the modelled parts:

* *Stream, pull*: the ISO (millisecond) unit and the stall watchdog of the
  holds, which only logs; text encoding of cursors and the digest that stands for
  an over-long id; several members under one tombstone floor; a floor over no member.
* *Push, re-read*: the slot a re-read takes among several spaces and the carry of
  positions still owed; the receive mark's side (the pull is its verdict, `whole`);
  refused counts; the older wire of file metadata.
* *Versions*: files, families that keep no forks, unique keys, pages of many
  records, other network types, fork limits; bulk edits and removals. A removal by a
  member that is not the author, in the middle of a chain of three, and a stale
  push still in flight after it, are not in the instance checked.
* *Rounds*: joins, removals, additions and changes of the network's settings; the
  ancestors' electorate of a braintree and the publishers' of a pubsub; casts that
  are unsigned or forged (refused before they are taken); the eviction of the
  outcome log; wipes of some families only; rows written after the wipe; several
  networks over one space; acts other than wipes, and the shutdown.
* *Configuration*: encryption, permissions, validation, migrations, the other state
  files; an edit that is judged `unknown` during a save; the mark's rename and
  removal with its space.
* *Media job*: text runs (whose conversion is cleared whole), moves (the hold and
  the re-keying of a job), classes that are declined (too large, switched off), the
  rows of an earlier release that carry no stamp, arrivals from a peer and their
  `enqueueMediaJob`, soft deletion.


## 6. Plan

Done so far: the stream, the pull, the media job; then the push with the full
re-read, the configuration's saves with the version mark, rounds with the wipe and
its hold, the versions of a record, and the media job's deferral; then the theorems of
every safety property the runs check. Next:

1. `MediaJob` with moves (two paths, a hold, re-keying) and text runs.
2. File sync: the ISO stream, its acknowledgement rows and the tombstone floor over
   several members.
3. The embedding queue and the webhooks' delivery queue, over one lease module.
