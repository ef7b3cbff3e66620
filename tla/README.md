# A verification of LightRAG's coordination

The repository is a fork of LightRAG: a library (`src/lightrag/`) that turns
documents into a knowledge graph and vector indexes, and a server
(`src/lightrag/api/`) that does so for several users, in several worker
processes (gunicorn), over storages that may be shared.  Most of its 1117 files
are prompts, parsers, database adapters, a web front end, experiments and
deployment files.  What can go wrong in ways that a unit test hardly reaches is
in the coordination: many calls (upload, insert, scan, retry, clear, delete, SDK
calls) share the storages of one workspace; they are asyncio tasks of several
processes; a task may be cancelled at every `await`, and a process may be killed
anywhere.  This project models that coordination in TLA+, checks it with TLC on
small instances and proves its safety with TLAPS.

Paths below are relative to `src/lightrag/`.

## 1. The system

| Component | Code | State it keeps | Operations |
|---|---|---|---|
| Keyed locks: holder table | `kg/shared_storage.py` 690-930 | per lock key, in the Manager process: the holder record `{owner_pid, lease_id, start_delta}` | `try_acquire`, `release`; client `_KeyedLeaseLock` polls |
| Keyed locks: gates, several keys | `kg/shared_storage.py` 935-1404 | per process and key: an `asyncio.Lock` with a reference count | `KeyedUnifiedLock`, `UnifiedLock`, sorted multi-key acquisition |
| Pipeline reservations | `kg/shared_storage.py` 1640-3120, `pipeline.py`, `lightrag.py`, `api/routers/document_routes.py` | `pipeline_status`, one shared dictionary per workspace: `busy`, `destructive_busy`, `scanning`, `scanning_exclusive`, enqueue tokens, manual freeze, owners, recovery fence | acquire helpers, `release_owned_reservation`, `with_reservation_lock`, dead-owner reconciliation, `force_reset` |
| Processing run and mailbox | `pipeline.py`, `kg/pipeline_ingress.py` | the locals of a run; the workspace's mailbox in the Manager: a bounded document channel, a dirty flag, sticky retry requests; `doc_status` | `apipeline_process_enqueue_documents`, feeder, quiescence decision, drain and reset of FAILED documents |
| Enqueue and admission | `pipeline.py`, `api/admission*.py` | content hashes and file names in `doc_status`, weighted pending capacity | deduplication, capacity reservation |
| Life cycle of one document | `pipeline.py`, `lightrag.py` | status row, chunks, graph and vector writes, mutation marker | parse, analyze, process, purge, resume after a crash |
| Custom chunks journal | `lightrag.py` | journal row of a direct insert | insert, roll back |
| Scan jobs | `kg/scan_job_store.py` | job records | create, update by owner, abandon, evict |
| Global concurrency gate | `kg/shared_storage.py` 4030-4420 | slots and tickets with leases | acquire, renew, release, reclaim |
| Priority limiter | `utils.py` | bounded priority queue, workers | submit, time out, health check |
| Update flags, file storages | `kg/shared_storage.py` 3530-3600, `kg/json_*`, `file_atomic.py` | per-process copies of files, update flags | reload, mutate, save |
| Login rate limiter | `api/login_rate_limit.py` | counters | admit, record |
| Extraction, merging, query; database adapters; parsers; HTTP and UI | the rest | none that coordinates | |

**How they interact.**  The holder table makes `async with
get_namespace_lock("pipeline_status")` a critical section between processes.
Every reservation helper runs inside one such section, reads the whole status,
reconciles dead owners, decides, and writes.  Between two sections a caller
holds nothing but the reservation it has written under its own token.  Whoever
holds `busy` may process, delete or clear; whoever is refused leaves a signal in
the mailbox (a document id, the dirty flag, a sticky retry request), and whoever
gives `busy` back looks into the mailbox in the section that releases.  A run
decides under the lock whether to go on or to release, from pages of
`doc_status` that it read before it took the lock.

**What is hard.**

* A critical section that is not atomic where it matters: the RPC that takes a
  lock samples process identities without the server's lock.
* A decision that is committed in a lock, and a caller that learns of it only
  after the exit of the lock, where a cancellation may be delivered.
* State read before a lock and used under it (pages of `doc_status`, a job name).
* Signals that are consumed at one moment and owned by somebody at the next.
* Owners that die, by kill, with half their work done, and PIDs that come back.
* Waits whose end depends on another call, which may be dead, or be the waiter.

**What makes each component correct.**

* Holder table: two live clients never hold a key together, a live owner is
  never pre-empted, a dead one never blocks the others.
* Reservations: one writer under `busy`; destructive work excludes enqueues and
  scans, in both orders; the exclusive reset and the classification of files
  exclude enqueues; every reservation, fence and freeze ends with its owner;
  half-done destructive work of a dead owner is fenced, never forgotten.
* Run and mailbox: every document that was announced is processed or still
  announced; a retry request resets every document it was made for, from an idle
  pipeline, before it is forgotten, and grants one attempt.
* Locks of several keys: no two tasks share a key, no gate is lost or dropped in
  use, everyone is served.
* Limiter and gate: every call is answered, every reservation and slot comes
  back, the limit holds.
* Vector files: a save never takes back what another process saved, and a
  process that has not been flagged has what the file has.
* Documents and custom chunks: whatever fails, what is in the graph is named
  where a purge or a roll-back looks for it, and PROCESSED means stored.

## 2. The modules

| Module | What it is |
|---|---|
| `CrashSafeMutex` | abstract: what a keyed lock promises |
| `KeyedHolderTable` | the client and the server of one key; implements `CrashSafeMutex` |
| `KeyedLocks` | several keys: gates with reference counts in each process, sorted acquisition, over the slots of `CrashSafeMutex` |
| `KeyedLocks_proofs` | its proofs, and those of `KeyedHolderTable` |
| `PipelineReservations` | the reservations of one workspace, one action per critical section |
| `PipelineReservations_proofs` | its proofs |
| `ProcessingRun` | a run, the mailbox and the calls that feed it |
| `ProcessingRun_proofs` | its proofs |
| `LimitedCalls` | the priority limiter of one process over the global gate |
| `LimitedCalls_proofs` | its proofs |
| `ConcurrencyGate` | the global gate: leases in the Manager, renewed and reclaimed |
| `ConcurrencyGate_proofs` | its proofs |
| `VectorStorage` | the copies of one vector file in several processes, and their update flags |
| `VectorStorage_proofs` | its proofs |
| `DocumentRecovery` | one document: its attempts, purges, deletions and crashes |
| `DocumentRecovery_proofs` | its proofs |
| `CustomChunks` | a direct insert of chunks, its journal and its roll-back |
| `CustomChunks_proofs` | its proofs |
| `MC...` | the same with sets of calls and symmetry for TLC |

How they rest on each other.  `KeyedHolderTable` justifies what
`PipelineReservations` and `ProcessingRun` assume, that an
`async with pipeline_status_lock` block is one step, and what `KeyedLocks`
assumes of a key's slot.  `PipelineReservations` justifies what
`ProcessingRun`, `DocumentRecovery` and `CustomChunks` assume, that one job at a
time works under `busy`, and it leaves the run's own decisions nondeterministic;
`ProcessingRun` has these, and in turn leaves out the scan and the fences.
`LimitedCalls` uses the gate by what `ConcurrencyGate` shows of it: a limit on
the table, and the return of slots nobody renews.  `DocumentRecovery` and
`CustomChunks` are about the two ways a document gets into the stores and share
their picture of a store: what the process sees, and what a restart finds.  The
`"map"` of `PROJECT.json` names, for each definition, the lines it stands for.

### KeyedHolderTable

A lease is one `acquire()`; `place[l]` is where the coroutine and its RPC are.
`Begin`, `CancelWait`, `Enter` and `Release` are the client; `Snapshot`, `Sample`,
`SetIfEmpty`, `Probe` and `CompareAndSet` are the stretches of `try_acquire`
between which the server's threading lock is free.  `KillProcess` and `ReusePid`
are the operating system.  A server thread goes on after its client died: only `Snapshot` asks that
the client live.  A start time is a number, the n-th process of a PID has n;
`StartDelta` is the sample (0 is Python's `None`), `HolderDead` the verdict.

### PipelineReservations

`status` is `pipeline_status` without what nobody coordinates by.  `stage[j]` is
the step of its code that call j is about to take, named after what it is about
to do; `ret[j]` is where it continues when a run it drives ends.  One action is
one critical section, with the reconciliation that begins it and the branch the
caller takes on its answer.  The token of a call is the call itself, and
`Dead(t)` is the verdict of the identity probe on the token's process
(Linux, several workers).  `Abort` is an exception or a cancellation and goes where the
code's `except` and `finally` clauses go.  A cancellation that lands in the exit
of the lock is the same as an `Abort` in the stage after the acquisition, which is why
`resetTaken` is a stage of its own.  `Crash` is a kill; `ForceReset` is the
operator's endpoint.  `overridden` is a history variable: the operator took a
reservation away from somebody who still worked under it, after which nothing is
promised.

Free choices stand for what the run reads from `doc_status`: whether there is
more to do, whether a document turns up before the reset, whether the mailbox
has work at the exit of a deletion.  `ProcessingRun` resolves them.

### ProcessingRun

Documents are numbers in the order of `(created_at, id)`, so that a keyset
cursor is the last number seen.  `row` is `doc_status`, `mail` the mailbox,
`run` the locals of the run that holds `busy`.  The stages follow
`apipeline_process_enqueue_documents`: `start` (the peek), `sweep` (the
first page), `top` (the loop's head), `validate`, `batch`, `decide` (the
critical section), and one stage per continuation of a decision.  During a
batch workers (`StartDoc`, `FinishDoc`) and the feeder (`FeedDrain`,
`FeedRoute`, `FeedRetry`, `FeederStop`) interleave.  A stage that raises leaves
by `Abort`, whose `Compensated` is what the except clauses give back to the
mailbox.

Three variables are history: `announced` (documents whose enqueue has signalled
and that no batch or reset has taken over), `owes` (what a request was
made for and has not been reset), `granted` (what has been reset for it).
A batch takes over its own page (`Validate`, `FeedRoute`); for the pages behind it
only the cursor stands.  A run that ends in its `finally` without a wake-up to
re-arm gives up the rest of its sweep (`RestOfSweep`), and there the documents
leave `announced`; a run that releases by decision has to have taken all of them.

`NoLostWakeUp` asks for the signal itself: with the slot free, an announced
document that waits is in the mailbox, whether or not a call is on its way to
read it.  `WorkIsDriven` asks for the call.  Documents that a request has reset
are no longer announced, and if the run is aborted after it has acknowledged the
request nothing in the mailbox names them; `Processed` says of these, too, that
they are processed when nothing fails.

Abstractions: one document per enqueue; its content is readable, so the
validator deletes no inconsistent row; parsing, analysis and processing are one
`ACTIVE` status; the document channel is a set; custom-chunk journals, the
stall fence and the scan's reset are left out; paging is on; the mailbox's
memory of acknowledged requests, its cap on requests and the fallback when a publish
itself fails are left out; a kill in a deletion is left out, because it fences
the workspace (`HalfDoneIsFenced`).

### KeyedLocks

A task is one `async with get_storage_keyed_lock(keys)`.  It sorts its keys
(`Sorted`) and for each takes a reference on the process's gate (`Reference`),
waits for the gate (`LockGate`) and for the key's slot (`LeaseKey`).  `Cancel`
is a cancellation at either wait; `ReleaseEntry` is one step of `__aexit__` or of
the roll-back of a failed `__aenter__`.  `TableAfter` is the table of gates after a
release: an entry goes when its count reaches zero.  A gate object is named by
the task and position that created it, so two gates of one key can be told apart.
In single-process mode the gate is the lock.

### LimitedCalls

`phase[c]` is where `wait_func` of call c is suspended; a step is what the event
loop runs up to the next suspension.  `entry`, `givenUp`, `resolved` and
`liveQueued` are the bookkeeping of the caller's side, `queue` the physical queue,
`dispatch` what the pump has handed to workers, `held` and `pending` the leases
the maintenance renews and those whose release has failed.  `Final` is the `finally`
of `wait_func` up to its last `await`, the notification (`Notify`).
The shutdown is a chain of stages in `stop`.  `Expire` and `OthersTake` stand for
the gate.  The queue's order is a choice.

### ConcurrencyGate

Times are ages in heartbeats.  `Acquire`, `Release`, `Renew` and `Reconcile` hold the
group's lock from their read to their write; `StartRenewal` is the read of the
leases to renew, which happens before and may be old when `Renew` writes.
`Reclaimed` and `Marked` are the two passes of the reaper, the second look at a
suspect included.  `Stall` blocks the loop of a live process, `lapsed` is history:
a live process was silent for longer than lease and grace together, after which the cap
is not promised.

### VectorStorage

`file` is the file, `copy[p]` the storage object of process p: its client, the
buffered upserts, `_client_dirty` and the update flag.  A batch holds `busy`; an edit of the
graph only looked at it when it started, and holds its entity's lock.  One
action is one critical section of `_storage_lock`, except that a commit
replaces the file (`Save`) and sets the flags (`Notify`) in two steps, between
which a kill may fall.  `touched` (rows changed since the last load or save)
and `missed` (a replacement of which the process was not told) are history.

### DocumentRecovery

`mem` and `disk` are the stores as the process sees them and as a restart finds
them: the `doc_status` row, the chunks, the anchors (`full_entities`) and the
graph, whose elements are pairs of a name and a chunk.  `doc_status` writes
through; the others are on disk once flushed, and `OthersFlush` may do that for any of
them at any moment.  `doc` is `status_doc`, the copy of the row that a run writes
back with every change of status.  A *plan* is what an attempt makes of the
document; a second attempt may make another.  `Resolve` to `RetireJournal` are
`_purge_kg_contributions` with its journal phases, used by a resume and by a
deletion.  `amiss` is history: which of four things has happened to what a purge
goes by (section 6).

### CustomChunks

The same stores, for a document that exists or not.  `Create`, `Add` and
`Resume` are the beginnings of `ainsert_custom_chunks`; the journal is in the row
(`custom_chunk_patch`).  `Stage` to `Commit` are its body, `CallFails` its
error exit, `StartRollback` to `Removed` the roll-back of a scan.  Every
extraction may find other names than the one before it.  The merge and the
un-merge are element by element, so that an error or a kill leaves any part.

## 3. The runs

| Run | Instance | Shows |
|---|---|---|
| `holder_key` | 3 leases, 2 PIDs of 2 processes each | `MutualExclusion`, `HolderIsRecorded`, `ReclaimOnlyTheDead`, refinement of `CrashSafeMutex`, `WaiterServed` |
| `locks_served` | 3 tasks over 2 keys, lists of one or two keys in either order, one process or two | `Exclusive`, `CountIsExact`, `EveryoneServed` |
| `pipeline_mutex` | 2 calls of any of the eight kinds, 2 kills | `SingleWriter`, `DestructionAlone`, `ResetWithoutProducers`, `ClassifyWithoutProducers`, `FenceHolds`, `HalfDoneIsFenced`, `FreezeEnds`, `SlotReturned` |
| `run_wake` | 3 calls of insert, enqueue, cancel; anything may raise; channel of 1 | `NoLostWakeUp` |
| `run_retry` | 3 calls of insert, retry; 2 old documents, page size 1, 1 kill | `ResetFromIdle`, `RetryHonoured` |
| `run_live` | 2 calls of insert, retry, SDK delete, batch delete; 2 old documents, page size 1, no accidents | `WorkIsDriven`, `Processed`, `RetryServed` |
| `limiter_answered` | 3 calls, 1 worker, queue of 1, 1 global slot shared with other processes | `ReservationsExact`, `AdmissionToldOfRoom`, `GlobalLimit`, `NoOrphanLease`, `EveryCallAnswered` |
| `gate_slots` | 2 processes, 2 lease ids, limit 1, lease 2 and grace 1 heartbeats | `TableWithinLimit`, `CapIsExact`, `SlotComesBack` |
| `vectors_commits` | 2 processes, 2 rows, 2 writes, 3 starts; anything may fail | `UnflaggedCopyIsCurrent`, `UnsavedIsRemembered`, `CommitKeepsOthers` |
| `life_recover` | 7 jobs; two plans that share a chunk and differ in names; kills and errors everywhere | `CommitIsComplete`, `MarkIsTrue`, `Discoverable`, `RefusedOnlyAmiss` |
| `life_refused` | 5 jobs, no kill | expected violation of `NeverRefused` (section 6) |
| `custom_journal` | 6 calls and roll-backs; two inputs that share a chunk, two names, with or without a base document; kills and errors everywhere | `EveryContributionNamed`, `AllOrNothing`, `BaseKept` |

Every module also has a type invariant, which is proved.  Deadlock is not checked
where every call ends and the system rightly stops; `limiter_answered` and
`gate_slots`, which never stop, check it.

**Bounds.**  Three leases are a holder, and two waiters that race for the same
dead record; two processes per PID are a death and a reuse.  Whose the leases are
is fixed up to renaming by `UpToNames`, a constraint on initial states only.  Three tasks
on two keys are an entity and an edge named from both ends, and somebody in another
process.  Two calls are a holder and a contender, and a kill of either while the
other reacts; the properties relate two calls, or one and a record left by another; the
proofs do away with the bound.  Two kills are a dead owner and a dead producer,
or a reclaimer that dies in its turn.  Page size 1 and two or three documents
make every page a full one and give the sweep a beginning, a middle and rows
that enter and leave behind its cursor.  A channel of one document makes the
second overflow into the dirty flag.  In `run_live`, two calls are a request, or
a deletion, and an insert that comes at any stage of it.  A queue of one and
three calls are one that runs, one that is queued and one that waits for
admission; one slot makes the other processes and this one wait for each other.  A
lease of 2 and a grace of 1 heartbeat tell apart a short stall, one that makes a suspect
and one that loses the slot.  Two rows and two writes are a change of one's own
and one of another process; three starts let one process come back late.
Seven jobs are two failed attempts with their retries, a deletion that fails and
one that resumes.  Six in `custom_journal` are an insert, its resume with another extraction, a failed
roll-back, a second one and a new insert.  `MaxCrashes`, `MaxStart`, `MaxDoc`,
`MaxJobs`, `MaxWrites`, `MaxStarts` and the number of lease ids are bounds of the
models; `MaxRetries`, `PageSize`, `DocCapacity`, `MaxQueueSize`, `Limit`,
`DrainLimit`, `CompactAt`, `TTL` and `Grace` are parameters of the code.

## 4. Fairness

`Server`, `Enter`, `Release` are weakly fair for each lease: the poll loop
sleeps for a bounded time, the Manager runs each RPC in a thread to its end, and
the critical sections do no unbounded work.  No client has to call, give up or
die.  `Advance(j)` is weakly fair for each call: a live task is scheduled by its
event loop.  Accidents, `ForceReset`, the feeder, `MoreToDrain` and a cancelled
drain are never required.

`PipelineReservations` adds strong fairness of `ConfirmDrained \/ FenceDrain`:
there the outcome of the final look at `doc_status` is a free choice, and in the
code it cannot come out "one more document" for ever, because the freeze lets no
new enqueue in and a backlog that stays the same for three rounds raises the
fence (`pipeline.py` `_confirm_auto_drained` and the stall detection).
`ProcessingRun`, where the rows are explicit, needs no such assumption.

`WaiterServed` has one exception, `Indistinguishable`: a client that is killed
before the Manager has sampled its identity leaves a record without a start
time, or with that of its successor, and once its PID is in use again
`HolderDead` can never say that it is dead.  Without the exception TLC shows the
waiter that polls for ever.

`KeyedLocks`: each task is weakly fair; `asyncio.Lock` wakes a waiter, and the
poll of a slot comes back.  `LimitedCalls`: the event loop is weakly fair as a
whole (`Loop`), others give slots back, and the pump's poll is strongly fair, because
the gate queues its waiters.  Nobody has to call, time out, cancel or shut down.
`ConcurrencyGate`: time passes, stalls end, dead workers are replaced by
gunicorn, and the health checks go on (strong fairness, since a stall interrupts
them).  `VectorStorage`, `DocumentRecovery` and `CustomChunks` state safety only.

## 5. What is proved

TLAPS checks the proofs for every value of the constants: any number of
processes, leases, calls, retries and kills.

**`KeyedLocks_proofs`, the holder table.**  `TableTypes`, `NeverPreempted`
(`HolderIsRecorded`), `TableExclusion` (`MutualExclusion`), `ReclaimSound`
(`ReclaimOnlyTheDead`) and `Refinement` (`MutexSpec`).  `HolderIsRecorded` is not
inductive: that a probed holder is dead when the compare-and-set comes is a
fact about the past.  The invariant (`TableInv`) adds that a lease was born no
later than its process (`BornInTime`), that a stamp is the start time of its
owner or of a later process when the owner is dead (`StampSound`), that the
record a client is about to replace belongs to a dead owner (`SnapIsDead`), and
that a lease in the slot has called (`RecordsHaveCallers`, `Fresh`).  The dead
stay dead because start times only grow.  From this exclusion follows at once,
and each step maps to a step of the abstract mutex or a stutter.

**`PipelineReservations_proofs`.**  `TypeCorrect`, `OneWriter`
(`SingleWriter`), `NobodyBesidesDestruction` (`DestructionAlone`),
`NoProducerInReset`, `NoProducerInScan`, `FreezeHasOwner` (`FreezeBacked`),
`OneLeak` (`LeakOnlyFromScanReset`), `FenceRespected` (`FenceHolds`),
`RunsOwnTheirSlot` and `HalfDoneStaysFenced` (`HalfDoneIsFenced`).
`SingleWriter` speaks of stages only, and what keeps two jobs apart is
written in `pipeline_status`; the invariant says that the two agree.
`Reflects`: who works under the slot is its recorded owner, who destroys has
raised `destructive_busy`, a scan is recorded with its exclusion, a confirmed
drain has its freeze up.  `TokensHeld`: who enqueues has a token.  `Apart`: who
is never at work together.  `FreezeOwned` and `BusyOwned` are the converse, what
a recorded freeze or slot says of its owner.  `ReturnsToScan`, `HandoffReturns`
and `ScanReturns` say where a call will continue.  The central lemmas
(`ReconcileReflects` and those before it) say that reconciliation takes nothing
from a live owner, so that what an acquire decides on is as true as what it has
read; then each action is one case.

`HalfDoneIsFenced` makes no exception for `overridden`, so the invariant above
is of no use to it: nearly all of that speaks of a status nobody has forced.
`OwnerKnown` is what survives the operator.  A run owns the slot as long as it
is at work (`RunsOwn`), and no fence is up beside it, because the fence comes up
only as a run gives up or as a dead owner is reclaimed (`FencedOwner`).  Hence
`ForceReset`, which needs the fence, finds no run at work, and `Quiesce`, which
does not look at the owner, is never taken beside a dead one.

**`ProcessingRun_proofs`.**  `TypesHold`, `RetryIsHonoured` (`RetryHonoured`),
`ResetIsFromIdle` (`ResetFromIdle`), `SignalsLive` and `NoWakeUpIsLost`
(`NoLostWakeUp`), `WorkGetsDriven` (`WorkIsDriven`), for any number of calls,
documents, kills and failures, any page size and any capacity of the document
channel.  A run is a sequence of critical sections with `await`s between
them, so the invariant is indexed by the step the run is about to take: which
phase the drain is in there (`PhaseAt`), what its locals say of `doc_status`
(`ReadyFor`), what it has drained from the mailbox (`AnswersFor`).  `ReadyFor` is
where a cursor meets the rows: at every page of a reset, what the request still
is owed comes after the cursor, and so nothing is owed when a page without a
next cursor has been reset (`PageMissesNothing`).  It also has the two
confirmations: no enqueue is in flight from `confirm` on, and at `enterReset`
nothing waits, although both were read before.  The rest is about the others:
an enqueue in flight has a token and a document of its own (`OwnDocuments`), a
request is in the mailbox once (`Requests`), what is owed is FAILED (`Owed`), and
nobody is in the reset with it (`IdleReset`).

Where a signal is between the mailbox and the rows is a second invariant on top
of it, `Signalled`: every announced document that waits is in the mailbox or is
carried by the run (`Carries`): by the dirty flag it has consumed until it has read a
page, by that page and the cursor from then on, by the feeder's two buffers, or
by a fetch it has promised.  Its proof shows of every step that it puts out no
signal (`Relays`); that a page and the cursor behind it stand for everything that
waits is `PageMissesNothing` again.  A free slot has no run, so `NoLostWakeUp`
follows.  Two things are excepted.  A kill takes what the run has
drained with it, which is in the property.  A cancellation in the exit of the
decision's lock loses the flag the decision has consumed (section 6); it is a
hypothesis of the theorem, `~LockExitCancel`, and `run_wake` is checked with it.

`WorkGetsDriven` has the hypothesis `Undisturbed`, that nothing fails, is killed
or cancelled and no call only enqueues: the property is meant for that case,
its run is an instance of it, and a driver that fails leaves the work to the next
call.  `Quiet` says that then every insert that has signalled goes on to drive.  The argument is about the last section of whoever holds the
slot: a run that releases has found the mailbox empty in that section, hence by
`Signalled` nothing that was announced waits; a deletion that gives the slot back
drives when the mailbox has work.

**`KeyedLocks_proofs`, the gates.**  `Exclusion` (`Exclusive`) and `ExactCounts`
(`CountIsExact`), for any number of processes, tasks and keys.  Neither is
inductive: who is kept apart by what depends on the mode, and a gate is only
as good as the identity of the object two tasks lock.  The invariant adds that an
entry of a task is the gate the table has (`OneGate`), that a locked
gate has an owner who references it, that a slot held by a live task is one of its
entries, and that a key occurs once in a sorted request.  The counts are
cardinalities: each step adds or removes one pair of the set of references.

**`VectorStorage_proofs`.**  `CopiesAreCurrent` (`UnflaggedCopyIsCurrent`),
`ChangesAreRemembered` (`UnsavedIsRemembered`) and `OthersKept`
(`CommitKeepsOthers`), with every fault.  `Sound` joins the two invariants, which
speak of one copy each, and every method of the storage object keeps it as long
as the file stays.  A commit is two steps: the file is replaced in one, and the
flags are set and the dirty mark is dropped in the other.  `AsSaved` says that
between them the writer's copy is the file, `EditHeld` that an edit waits for
its commit, `Alive` that the owner of `busy` and of an edit is up.  That a
commit takes nothing back is then the invariant of the copy it starts from, for
it reloads when it is flagged.

**`CustomChunks_proofs`.**  `ContributionsNamed` (`EveryContributionNamed`),
`DoneOrUndone` (`AllOrNothing`) and `OwnContributionsKept` (`BaseKept`), for any
names, chunks and calls, and any number of attempts and roll-backs.  A kill
replaces what the process sees by what a restart finds, and a flush of one store
mixes the two, so the invariant speaks of both: `Named` that a contribution in
either graph is named in both sets of anchors or in the journal, `ChunksStored`
between which bounds both chunk stores are, `OwnKept` that no contribution of
the document's own is only on disk.  `JournalSound` says that the staged chunks
and the document's own have none in common, also after a resume.
`CallProgress`, `FirstAttempt` and `RollbackProgress` say how far a call or a
roll-back has come; they are what the commit and the restoration of the row
need.

**`ConcurrencyGate_proofs`.**  `TableIsWithinLimit` (`TableWithinLimit`),
`CapIsExactAlways` (`CapIsExact`), `HoldersKeepTheirLeases` and
`ReclaimedIsNotResurrected`, for any number of processes, leases and slots, any
lease time and grace, and every stall, kill, reused PID and late renewal.  The
table stays within the limit because only a grant adds to it.  That the calls
being executed do as well needs the ages: a lease that is reaped has been a
suspect for the grace (`SuspectIsOld`), a held lease is no older than its
holder's silence (`HeldIsFresh`), and a holder that silent has lapsed.  A
renewal writes what it read before it had the group's lock, so `HeldIsFresh`
also bounds a lease that such a renewal does not know by the time since it began.
`Exclusive` says that no id is in the books of two processes, and that a late
renewal can only find its own.

**`LimitedCalls_proofs`.**  `ReservationsAreExact` (`ReservationsExact`),
`SleepersAreToldOfRoom` (`AdmissionToldOfRoom`), `LeasesHaveOwners`
(`NoOrphanLease`) and `LimitIsGlobal` (`GlobalLimit`), with every timeout,
cancellation and crash of a worker, and through the shutdown.  Two books must
balance.  `live_queued` counts the registered calls that have not started
because a call is in one place at a time (`Places`): pump, worker, compaction
and caller never end the same one twice.  The slots in the gate's table bound
the calls being executed because a lease that travels is renewed, is not parked
for release, and travels with one call or with the pump (`Hands`).
`AdmissionToldOfRoom` is inductive only with `Closing`, what the shutdown
leaves behind.

**`DocumentRecovery_proofs`.**  `ProcessedIsComplete` (`CommitIsComplete`),
`PreGraphIsTrue` (`MarkIsTrue`), `ContributionsAreDiscoverable` (`Discoverable`)
and `RefusalHasCause` (`RefusedOnlyAmiss`), for any plans, names and chunks and
any number of attempts, deletions, failures and kills.  A kill replaces what the
process sees by what a restart finds, so the invariant has to know both, and what
they may differ by, after every step.  One half of it holds unconditionally:
what runs and what it has read (`Jobs`, `Copies`), that the journal is one step
ahead of the purge (`JournalPhase`), how far an attempt has come in memory and on
disk (`Progress`), and that a committed document is whole in both
(`Committed`).  The other half holds while the row has lost nothing
(`Kept`): nothing of the document is in a graph before the first merge and after
the purge of the graph (`NothingDerived`), and what is there is named by both
sets of anchors and by a chunk a purge would go by (`Found`); the journal is
about these chunks (`JournalIsOurs`), anchors go under the journal that says so
(`AnchorsGone`) and otherwise stay (`AnchorsKept`).  `Stuck` joins the two: a
refusal leaves one of the marks of `amiss` behind.  Each action is one lemma with a step for each
conjunct.

The proofs rest on the named assumptions of their modules (`TableAssumption`,
`ReservationAssumption`, `LocksAssumption`, `OpsAssumption`, ...), which only
say that Python's `None` is no call, no row and no journal, what a request may
look like, and that bounds are numbers.  Two say more.  `LimitedCallsAssumption`
has as many lease ids as the group has slots: the code draws ids at random, so
one that is not in use can always be had.  `NamesAssumption` of
`DocumentRecovery` says that a plan without chunks has no names: names are
extracted from chunks.  Every inductive invariant but that of
`VectorStorage_proofs` was checked with TLC on a small instance first; that of
`DocumentRecovery_proofs` also for inductiveness, from every state that
satisfies it with one chunk and one name.

Model-checked only: the liveness properties (`WaiterServed`, `EveryoneServed`,
`FreezeEnds`, `SlotReturned`, `Processed`, `RetryServed`, `EveryCallAnswered`,
`SlotComesBack`), since the prover knows neither fairness nor `ENABLED`.  Every
invariant and every action property that a passing run checks is a theorem.  No
module declares a RECURSIVE operator.

## 6. Where the code and its documentation disagree

`life_refused` is a run; its counterexample is a document that can neither be
retried nor deleted.  A resume purges the earlier attempt, anchors included, and
leaves the mark `graph_mutation_started`, which is monotonic.  If the second
attempt fails after its chunks are in the row and before its anchors are
written, which an error of the language model during extraction suffices for, the
FAILED row has chunks, the mark, no anchors and no journal, and
`_resolve_purge_recovery_proof` refuses every later purge until an operator
audits the document.  Nothing of the document is in the graph.

The following were found with these models, and each is stated in its module
or described here; a configuration that asks for the named property shows them.

* **A purge is refused, or has nothing to go by** (`DocumentRecovery`, `amiss`).
  Besides the above (`Bare`): `Forgets`, the transitions to PARSING and ANALYZING
  and a failure there write the row without `chunks_list` (`pipeline.py` 4246),
  so that a later attempt with other chunks leaves the contributions of the
  earlier one in the graph (`NoOrphans` fails); `Clobbers`, a failure inside the purge of a resume
  writes the run's copy of the row over the journal (`_finalize_doc_failure`,
  against the warning in `utils_pipeline.py` 386-391); `Carries`, the transition
  to PROCESSING after a purge brings back a journal the purge retired
  (`pipeline.py` 5716-5724).  `RefusedOnlyAmiss` shows that there is no fifth way.
* **A self-loop waits for itself** (`KeyedLocks`, `Requests <- SelfLoop`,
  `EveryoneServed`).  Extraction drops a relation whose ends are equal, and
  truncates long names afterwards (`operate.py` 1036 and 1055, 1605): two
  names that agree in their first 256 characters give the key list `[a, a]`, and
  the second acquisition waits for the first.  `utils_graph.py` 175-178 says that
  extraction never emits a self-loop.
* **The drain of an upload waits for itself** (`PipelineReservations`,
  `EveryFreezeEnds`).  The background task of an upload drives the queue before
  it gives its token back; if its run serves a retry request, the drain waits
  for `pending_enqueues == 0` for ever, and the freeze stays up.  `pipeline.py`
  185-186 calls the wait "bounded by the background enqueue's own duration".
* **A run beside a classification** (`ClassifyWithoutRuns`).  An SDK delete is
  refused by `busy` but not by a scan, and the run it hands its slot to skips
  the scan's exclusion, which a comment in `acquire_processing_reservation`
  rules out.
* **A leaked slot** (`NoLeak`).  A scan's reset that is cancelled as it leaves
  the lock in which it took `busy` does not know that it did.  The run itself
  arms `holds_busy` before the call; the scan's reset after it.
  `LeakOnlyFromScanReset` is proved: it is the only leak.
* **A lost signal** (`ProcessingRun`, `NoLostWakeUp` with `LockExitCancel`).  A
  cancellation delivered in the exit of the decision's lock loses the dirty flag
  the decision has consumed, although the `finally` is said to re-arm it.
* **Two attempts for one request** (`OneAttemptPerRequest` with a kill).  After a
  kill between the reset and its acknowledgement the next run drains first,
  so a document is attempted, fails and is reset again.
* **A deletion that does not commit** (`VectorStorage`, `DeletionCommits`).  A
  batch that starts between an edit's check of `busy` and its commit lets
  another process save the file; the edit's process reloads and loses its own
  deletion.  `document_routes.py` 1881-1886 calls the locks of the entities the
  last line of defence.
* **Copies that miss a commit** (`VectorStorage`, what `missed` stands for): a
  process reads the file at its start before it registers its flag
  (`nano_vector_db_impl.py` 193 and 211); a committer is killed between
  the file and the flags; `finalize` of a dirty client does not reload
  (906-912), and saves over what others have saved.  The buffered rows of a failed
  edit survive a clear by another process.

Read in the code beside the models, without a run:
`docs/FileProcessingPipeline.md` 1140 has every start of
`apipeline_process_enqueue_documents` pull FAILED documents as well, while the code
resets them for a retry request only (`Unfinished`, `ResetPage`); a run that is
cancelled or fails in a batch re-arms nothing, so that documents on the pages it has
not read wait for the next call, as the cursor is not remembered; a resume of custom
chunks over a half-done deletion carries its `kg_purge` journal along and a
later deletion skips work it believes done; an SDK delete may run beside a scan's
roll-back, whose last upsert re-creates the deleted row; the roll-back of a
created document flushes `full_docs` and `doc_status` in parallel, so that a
kill may leave a body without a row, after which a repeated call reports
"already in the storage" and does nothing; a deletion that joins a batch
deletion by its job name takes no reservation and may outlive the batch
(`JoinedDelete`); and the quiescence release is not owner-checked, although its
comment says so (`OneWriter` shows that it never needs to be).

## 7. Plan

Done, in this order: `CrashSafeMutex`, `KeyedHolderTable` and its proofs,
`PipelineReservations` and its proofs, `ProcessingRun`, `KeyedLocks` and its
proofs, `LimitedCalls`, `ConcurrencyGate`, `VectorStorage` and its proofs,
`DocumentRecovery`, `CustomChunks` and its proofs, the proofs of
`ConcurrencyGate`, `LimitedCalls`, `DocumentRecovery` and `ProcessingRun`.

Left, by importance:

1. An abstract `DocumentQueue` (announce, take, finish, retry) that
   `ProcessingRun` implements; `Signalled` is the invariant its refinement needs.
2. The deletion of a document with a custom-chunks journal, which joins
   `CustomChunks` and `DocumentRecovery`.
3. `Admission` (deduplication under `enqueue_serialize`, weighted capacity) and
   `ScanJobs` (owner-checked updates, abandonment, eviction).

## 8. What is not modelled, and why

* The components of the plan above, not yet.
* Extraction, merging, retrieval, prompts: transformations of data around
  answers of a language model.  The locks they take are `KeyedLocks`, the
  anchors and the order of the merge's writes `DocumentRecovery`.
* Database adapters: their concurrency is the database's.  The models use two
  contracts of the stores, keyset pages of `doc_status`, and that a flush makes a
  store's writes durable.
* Parsers, chunkers, HTTP plumbing, authentication, the user interface, tools,
  experiments, deployment.  They are most of the repository's lines, which is why
  the map covers a small share of it.
* Documents processed with `skip_kg` (`pipeline.py` 5418-5424, 5486): they have no
  anchors, are not merged and keep the mark `pre_graph`.  The option is fixed when
  the document is enqueued, so `DocumentRecovery` is about the other documents, and
  `CommitIsComplete` says nothing of these.  Likewise the early return of
  `_purge_stale_extraction_if_resuming` for content that was not extracted
  (5654) is no guard of `NothingToPurge`: `full_docs` is flushed at enqueueing and after
  parsing (1460-1462, 6128-6129), so a row with chunks has its content.
* The warning rows of a degraded roll-back (`lightrag.py` 2958-2966, 3029-3151): they
  do not touch the chunks, the journal or the anchors of a row.
* A second cancellation of a limited call at the notification in its `finally`
  (`utils.py` 2244).  The lock of `admission_cond` is never held over a suspension
  on Python 3.12, which the images ship, so entering it does not suspend.
  On 3.10 and 3.11 `wait_for` waits in a task of its own, the lock stays held until
  the caller resumes, and a cancellation there would lose the notification.
* Platforms other than Linux with several workers: there a dead owner of a
  reservation is not recognised.  `KeyedHolderTable` has the failing identity samples
  (`SampleMayFail`), for which the theorems hold and the run has no instance.
* The other callers of `acquire_reservation` (graph editing, custom knowledge
  graphs) use the two calls of `/clear` and are not actions of their own.
