# A TLA+ development of the OfferAgent Worker

OfferAgent is a local agent for an Obsidian vault. An Obsidian plugin
(TypeScript) spawns a Worker process (Python, `offeragent_harness`) and talks
framed JSON-RPC to it over stdio. The Worker runs an agent loop: a model plans,
the loop executes its tool calls through one kernel, results and state are
persisted with the events that describe them, and whatever a crash interrupts
is resolved at the next start. What makes it hard is not the agent but the
promise around its effects: a user's note is rewritten at most once, never
lost, and what the journal says about the rewrite is what happened, with
threads that cannot be stopped, a disk that fails, an editor that writes the
same files, and a process that may die anywhere.

This directory holds TLA+ modules translated from that code, TLC runs that
check them, and TLAPS proofs. Paths below are relative to
`packages/offeragent-harness/src/offeragent_harness`.

## Inventory

| Component | State it keeps | Operations | What is hard, and what must hold |
|---|---|---|---|
| Vault transaction coordinator (`vault/`) | plans by call; durable manifests; files under hidden names; open handles | prepare, revalidate, execute, complete, recover after restart | crash between any two renames, external editors, stragglers; nothing destroyed, failure leaves no trace, success is final |
| Effect gate (`tools/scheduler.py`) | readers inside, writer inside, FIFO of waiters | hold (enter, queue, wake, abandon, release) | cancellation racing a grant; exclusion, exact account, no starvation |
| Tool scheduler (`tools/scheduler.py`) | one frame per call | batches, attempts under timeout and cancellation, retries of safe reads | a late answer against a timeout; an effect is never retried or forgotten |
| Tool kernel and invocation journal (`tools/kernel.py`, `adapters/sqlite_stores.py`) | journal record per call: STARTED, COMPLETED, UNKNOWN | prepare, execute, finalize, replay | crash between effect and record; exactly one execution of an effect |
| Keyed locks (`tools/kernel.py`) | lock entries with reference counts | hold several keys | entry dropped and recreated under a waiter; lock order |
| Approval manager (`runtime/approval_manager.py`) | durable approvals and grants; waiters | request, resolve, expire, cancel, recover | user, expiry and cancellation compete; one decision, no lost wake-up |
| Harness service (`runtime/harness_service.py`) | Runs by session, `_command_lock` | start, retry, steer and cancel a turn, execute a Run, resume recovered Runs | a Run registered before it is durable; client gone or commit failed in between |
| Agent loop (`agent/`) | RunState: phase, pending calls, results, budgets | plan, execute batch, observe each result, finish, cancel | cancellation in a batch; recorded results never lost |
| Run recorder and event bus (`runtime/event_bus.py`) | Run entity, event log, subscribers | commit, publish, replay | lost acknowledgement of a commit; gap-free events |
| Restart recovery (`runtime/recovery*.py`, `runtime/startup.py`) | plan per interrupted Run | snapshot, resolve, apply, replay | interrupted again while recovering; applied once |
| Turn manager (`runtime/turn_manager.py`) and session service | active Run by session, slots, control inbox | start, steer, cancel, settle, shut down | one root Run per session; slots returned on every path |
| Subagents (`subagents/`) | agent records, mailboxes, slots, budgets | spawn, send, wait, close, recover | a parent waiting on a child while it holds something the child needs |
| Cancellation tree (`runtime/cancellation.py`) | scopes, children | child, cancel, wait | a child created while its parent is cancelled |
| Budgets (`agent/budgets.py`, `subagents/budget.py`) | reservations and usage | reserve, settle, checkpoint | shared budget never overspent, reservation returned |
| Duplex JSON-RPC, backpressure (`runtime/duplex_json_rpc.py`, `runtime/backpressure.py`) | pending requests both ways, bounded queue | request, respond, cancel, disconnect | response against cancellation; full queue |
| Process supervisor (`runtime/process_*.py`) | registered processes, lock file | spawn, register, terminate, adopt | crash between spawn and registration |
| Knowledge publisher (`knowledge/`) | Wiki, catalog, journal, transaction directories | compile, publish, recover, roll back | a crash in the swap of two directories; the published Wiki is never lost |
| Local artifacts (`adapters/local_artifacts.py`) | objects named by content, metadata files, rows of a small database, staging files | put, put_stream, metadata, read | a death or a cancellation between files and rows, identical puts at once; what is visible is whole, a retry succeeds |
| Memory store (`memory/`) | files with revisions | read, change | several files under one revision, concurrent edit |
| Obsidian client (`src/interface/obsidian/src/runtime`) | reduced event state, pending requests | reduce, hydrate, reconnect | gaps, duplicates, a full buffer; an event that is neither shown nor known to be missing |
| Providers, documents, hooks, shell, config, observability | | | parsing and I/O, mostly data; see `PROJECT.json` |

How they interact: `TurnManager` starts a Run's task; the agent loop calls the
kernel with a batch; the kernel resolves policy, hooks and possibly an approval
(which commits events, outside the gate), the scheduler takes the effect gate,
and inside it the kernel takes keyed locks, checks policy and approval again
when they may have changed, writes the journal record STARTED and hands the
call to its executor under a timeout and the Run's cancellation token. A Vault call's executor is
`VaultTransactionCoordinator._execute`, on an I/O thread. Coming back, the
kernel finalizes the journal, the preflight's `complete` retires the manifest,
and the loop's observer records result, state and event in one SQLite
transaction. At start-up, before the first request, the Vault coordinator
recovers its manifests, the recovery service resolves every interrupted Run,
child Runs are adopted or interrupted, and the Runs that go on are registered
with the `TurnManager`. A client's `turn/start` and `session/delete` meet there:
the first registers a Run before it is durable, the second cancels it through
the same manager. A child Run has a record of its own, a slot of the child
scheduler, a part of its root's budget, and a scope below its root's; it is
started by agent.spawn and awaited by agent.wait, which are tool calls like any
other and hold their place in the effect gate.

## Modules

| Module | What it is |
|---|---|
| `EffectDecision` | what a journalled effect promises its readers: decided once, reported as decided |
| `VaultTransaction` | the Vault transaction with its kernel caller, the disk, the user and crashes; implements `EffectDecision` |
| `VaultTransaction_proofs` | TLAPS: its invariant, one lemma per action and conjunct the action can disturb, and the theorems about it |
| `EffectGate` | `FairEffectGate` with its waiters and cancellations |
| `KeyedLocks` | `KeyedLockPool` and the locks of a call, taken in order |
| `ToolCalls` | `EffectGate` and `KeyedLocks` composed, with what the body of a call waits for |
| `ToolCalls_proofs` | TLAPS: the invariants of gate and locks, and what they exclude |
| `AgentRun` | one root Run: agent loop, kernel, scheduler, invocation journal, recorder and restart recovery composed; implements `EffectDecision` |
| `AgentRun_proofs` | TLAPS: its invariant, the theorems about it and the refinement |
| `Approvals` | the approval of one call: `ApprovalManager`, the kernel outside and inside the gate, the loop's observer, the clients, the deletion of the session, restart |
| `Approvals_proofs` | TLAPS: its invariant and the theorems about it |
| `Subagents` | child Runs: service, child scheduler, the root's budget, the cascade of a root, recovery of children |
| `Subagents_proofs` | TLAPS: induction for the scheduler's recursive functions, its invariant, one lemma per action, and the theorems about it |
| `Turns` | who holds a session: `start_turn`, `TurnManager` and `soft_delete` composed, with shutdown and restart |
| `Turns_proofs` | TLAPS: its two invariants, of the tasks and of the sessions, the theorems about them, and that no scope of `CancellationTree` escapes |
| `CancellationTree` | `CancellationScope`: children made and closed while a cancellation is on its way down |
| `KnowledgePublication` | the Wiki under `knowledge/`: `KnowledgePublisher` behind `KnowledgeCompiler`, its journal, its handler and its recovery |
| `ArtifactStore` | `LocalArtifactStore`: puts in their threads, their callers, a reader, the death of the Worker |
| `ArtifactStore_proofs` | TLAPS: its invariant and the theorems about it |
| `EventDelivery` | from the commit of an event to the client's view: sink, hub, connection, `EventReducer`, hydration of a session |
| `Delivery_proofs` | TLAPS: the invariants of `KnowledgePublication` and of `EventDelivery`, and the theorems about both |
| `MC*` | constants and symmetry for TLC; `MCProgress`, `MCTools`, `MCTurns` and `MCDelivery` put two or three systems side by side |

### VaultTransaction

Each call `c` rewrites or creates one and the same path. A file is a content
hash with an identity; `target` is the path, `bak[c]`, `tmp[c]`, `rbk[c]` the
hidden names beside it. `man[c]` is the durable manifest, `jrn[c]` the journal
record. `caller[c]` and `xpc[c]` are two program counters, because they are two
threads: the scheduler's frame on the event loop, and the executor on an I/O
thread which goes on when the frame has given up on it. `lease[c]` is the set
of files whose Windows handles (DELETE access, shared for reading) the executor
holds; those are out of everyone else's reach, the Worker's own snapshots
included, which is why `Readable` guards every snapshot. The temporary is made in
two steps, its name and its content, since what a failed write has left there
(`Torn`) stays: nothing is unlinked by name.

| Actions | Code |
|---|---|
| `Snapshot`, `Prepare` | `_build_plan`, `prepare`, outside the gate |
| `Admit` | gate acquired, `revalidate`, journal STARTED, executor dispatched |
| `Signal`, `Join`, `Abandon`, `Discard` | `_attempt_with_controls`, `_cancel_execution_bounded`, `_discard_straggler` |
| `Finalize`, `Retire`, `RetireDelete` | `_finalize_journal`, `_retire_completed_manifest` |
| `BeginManifest`, `CreateTemp`, `WriteTemp`, `WriteFails`, `Stage` ... `Commit`, `Cleanup` | `_execute` and `_apply_change` on `AtomicVaultChange` |
| `Sweep`, `UndoPublished`, `UndoClaimed`, `Purge`, `Settle` | `_rollback` and `AtomicVaultChange.rollback`; each may fail before its rename or deletion, or after it |
| `Crash`, `Rec*` | `recover_after_restart`; recovery can itself crash or meet faults |
| `UserSave`, `UserDelete`, `UserMeddle` | the user's other programs |

`DecidedOf` and `ReportedOf` map it to `EffectDecision`: the manifest decides
while it exists, and the journal remembers afterwards.

### EffectGate, KeyedLocks, ToolCalls

`Tasks` are concurrent tool calls, one after another in each task. In the gate
and in the lock pool no section under the internal lock awaits, so each is one
action. Granting a waiter of the gate resolves a future and counts the waiter as
inside (`granted`); it wakes in a later step, and `Cancel` may fall between:
`Abandon` then gives the slot back. A key has an entry in the pool only while
somebody uses it: `Enter` finds or makes it and counts the reference, `Leave`
drops the entry with its last user, and `Withdraw` is the acquirer that is
cancelled, perhaps after the lock was handed to it. `Generations` are the
entries that one key may have at a time.

`ToolCalls` instantiates both and adds `body`: what the call does inside.
`own` ends by itself (an executor with a timeout and a bounded grace; an approval
asked for again, with its expiry), `wait` is agent.wait, which ends with the
child's Run, at its timeout, or with the token. `AwaitedBy` says whose end it
waits for; the child's own calls go through the same gate.

| Actions | Code |
|---|---|
| `Arrive`, `WakeUp`, `Abandon`, `Release` | `FairEffectGate.hold` around `_execute_guarded` |
| `Guard`, `LockStep` | `_hold_invocation_locks`, `KeyedLockPool.hold` |
| `OwnEnds`, `AwaitedRunEnds`, `WaitTimesOut`, `BodyCancelled` | the body: executor, `ApprovalManager.request`, `SubagentService.wait` |

### AgentRun

The composition above the effects: what happens to a Run whose calls are
executed, recorded, cancelled, interrupted and recovered. A Vault call is here
one atomic effect (what `VaultTransaction` shows it to be to its caller) whose
journal record the Vault recovery settles before Runs are recovered. `kind[c]`
says what call `c` is, so that one run of TLC explores several batches.

Three copies of `RunState` exist. `rs` is the durable one, written with its
event in one SQLite transaction (`told[c]` is the statuses the events report of
call `c`). `local` is the variable `state` of `run_agent_loop`, on which its
exception handlers work. `inner` is the copy that the lifecycle observer
advances in a batch, or a nested coroutine (`_resume_recovered_tool_batch`,
`_complete_with_response`) in its own frame; the loop adopts it only when the
batch or the coroutine returns. Most of what is hard in this part comes from
their differences.

| Actions | Code |
|---|---|
| `Load`, `Plan`, `Accept`, `Check`, `Settle`, `EndBatch`, `Respond`, `Complete` | `run_agent_loop`, `_complete_with_response`, one action per commit |
| `LoopCheckpoint`, `Checkpoint` | `cancellation.checkpoint()` in the loop, and in kernel and scheduler |
| `Cancelled`, `Failed`, `Kill` | `_cancelled`, `_native_interrupted`, `_failed`; the task cancelled by `TurnManager.shutdown` |
| `Prepare`, `Journal`, `JournalUnavailable` | `_prepare_scheduled`, `_prepare_journal` |
| `ObserveStart`, `EventStart`, `ObserveResult`, `EventResult` | `_LoopToolLifecycleObserver`, and the stop of a batch in `execute_batch` |
| `Attempt`, `Return`, `Timeout`, `Expired`, `Finalize` | `_attempt_with_controls`, `_finalize_journal` |
| `Effect`, `StragglerEnds` | the executor's own task, which may outlive its caller |
| `Crash`, `SettleVault`, `Recover`, `Resume` | `RuntimeStartupCoordinator`: Vault recovery, `RecoveryCoordinator._resolve` with `RecoveryPlanApplier.apply`, `_resume_recovered_tool_batch` |

A commit (`Commit`) succeeds, fails with nothing written, or fails although it
is durable and even its read-back failed; then the recorder's revisions are
`stale` and every later commit of this Worker conflicts. `EffectDecision` is
instantiated once per write: it is decided when its effect takes place or when
the event stream reports that it did not, and reported by its first event.

Recovery applies its plan by compare and set; a plan that fails is applied at
the next start, so `Recover` is one step that happens or not. What the snapshot
finds wrong (corrupt entities, changed definitions, an expired deadline) is the
third disjunct: the Run is interrupted as it stands.

### Approvals

One call and its ApprovalRecord `rec`, durable with the session grant made from
it (`grant`). `lock` is the manager's lock with what its holder resolves and how
far it is: the record is read when the lock is taken, the decision is committed
(`Commit`), and the waiter is woken (`Settle`), with awaits in between. Readers
that expire a record do so without the lock (`Lapse`), as does the kernel's own
request (`Ensure`), so the commit is a compare and swap that may be lost. `pc`
follows the kernel's task; it passes `_resolve_approval` once outside the gate
and, if the approval does not hold any more, a second time inside it (`inGate`).
`got` is the decision it holds, `asked` whether the observer counts the approval
among the Run's durable pending approvals, `due` whether its time is over.

| Actions | Code |
|---|---|
| `Policy`, `Ensure`, `Required` | policy evaluation, `_ensure_pending`, the observer's `required` |
| `Register`, `Refresh`, `Wake`, `Pop` | `ApprovalManager.request`: future, second read, `asyncio.wait`, clean-up |
| `Answer`, `ResolveSystem`, `DeleteCancels`, then `Commit`, `Settle` | `ApprovalManager.resolve` for a client, for expiry and cancellation, for a deletion |
| `Observe`, `Receipt`, `Gate`, `Finish`, `Checkpoint` | the observer's `resolved`; `_resolve_approval`, `_revalidate_before_execution`, `execution_started` |
| `Look` | `approval/resolve` reads the record before it takes the lock |
| `Delete*` | `soft_delete`, `_cancel_pending_approvals`, `revoke_session`, `_finalize_delete` |
| `Expire`, `Cancel`, `Crash`, `Recover` | time, `TurnManager.cancel`, the Worker dies, recovery's validation of a pending approval |

A resolution is compared by state, scope, who made it and why, as
`_same_resolution_intent` compares it; two expiries with different reasons are
different. Of the scopes that make a grant only SESSION is modelled. The
settings do not change, so policy denies nothing. A task killed without the
death of its Worker leaves what `Crash` leaves, with the manager's future.

### Subagents

A child has a durable record (`status`, `leased`, `result`), a place in the
child scheduler (`sched`: a queue per root, the order of the roots, the active
children), a task (`pc`) and a reservation in its root's ledger (`held`,
`ledger`; `checkpoint` is the ledger in the root's last committed RunState).
The service's `_lock` serialises the changes of a record; `lock` shows it only
where a section awaits between two changes that others can see. The scheduler's
methods never await and are one step each.

| Actions | Code |
|---|---|
| `SpawnReserve`, `SpawnPersist`, `SpawnSubmit`, `SpawnRefused`, `SpawnLost`, `SpawnFailed`, `SpawnAbandoned` | `spawn`: reserve, persist, submit, and its four ways to fail |
| `Decide`, `DecideFails` | `_terminal_simple` and `_terminal_result`: commit, settle, notify; or a commit that raises, with nothing written or durable all the same |
| `Started`, `NotStarted`, `RunEnds`, `Finish`, `FinishDecided`, `FinishFails`, `Notify`, `Close` | the child's task: `_run_child` between dispatch and close |
| `CancelMark`, `CancelMarkFails`, `Signal*`, `FinishQueued`, `FinishQueuedFails` | `cancel`, which marks the record and then acts on what the scheduler said; a commit that raises ends it, or the cancellation of the Run that called it |
| `Wait*` | `wait`: generation, records, sleep |
| `EndRoot`, `RootEnded`, `RootLost`, `CancelScope` | the root's terminal commit and `parent_finished` |
| `Crash`, `AdoptFor`, `Requeue`, `Orphan`, `Resubmit`, `Interrupt`, `RecoveryDone` | `recover_orphans`, in the order of its records |

`HarnessRunner` chooses the runner: the port's contract, as the service's tests
use it, or what the Worker's own runner does with a child (see the findings).
A root reserves one unit for each child; the dimensions of a budget differ only
in their amounts.

### Turns

A request `q` is a turn or a deletion of a session, under an idempotency key
(`plan[q]`); a turn's Run is named like its request. `db` is what is durable:
the session's status and revision, the gate of a deletion, the lease of the
active root Run, the Runs and the receipts. `bySession` and `byRun` are the
`TurnManager`'s maps, `task[q]` the asyncio task it made for the Run, which
waits for a slot, then for `ready[q]`, and runs only then. `at[q]` is where the
request is, and `cut[q]` that its client has gone, which cancels its task at
the next suspension (`Disconnect`). `adrift` names the requests whose work
something outside has left behind: a failed commit, a killed task, a client that
went at the wrong moment.

| Actions | Code |
|---|---|
| `StartRequest` ... `Release`, `Abort`, `Aborted` | `start_turn`, `_drain_settled`, `_persist_turn_start`, `_abort_turn_start` |
| `TakeSlot`, `Enter`, `Finish`, `CleanUp`, `Remove` | `TurnManager.start`'s task and its `_remove` callback |
| `Dispatch`, `Record` | the Run enters and leaves an effectful phase |
| `DeleteRequest` ... `ReleaseGate` | `soft_delete`, with its replay and its recovery |
| `CancelRun`, `Rename`, `Disconnect`, `Shutdown`, `Kill`, `Restart` | what comes from outside, at most `MaxTroubles` in all |

### CancellationTree

`cancel` marks a scope and takes a snapshot of its children in one step; each
child is then cancelled by a task of its own (`due`), which comes later, and not
at all when its caller is killed before (`lost`). Children are made and closed
meanwhile.

### KnowledgePublication

A revision of the Wiki is a directory, abstracted to its revision and to whether
it is what its manifest says (`Whole`, `Torn`): `wiki` is `knowledge/` itself,
`staged` and `backup` lie in the transaction directory of an ingestion, of which
`roots` says which exist. `journal` is `active-publication.json`, `catalog` the
revision of the catalog file, whose replacement is the commit. `pc` is the line
that a call is at; every file operation is a step, so that a death of the Worker
(`Crash`) or an exception (`Fault`) may come between any two, inside the handler
and the recovery too. Publications follow one another: the tool holds the
exclusive effect gate.

| Actions | Code |
|---|---|
| `Compile`, `CompileRefused` | what `KnowledgeCompiler.publish` reads before it calls the publisher |
| `Recover*` | `recover`, for which the catalog decides |
| `Swap*`, `Removed` | `_rollback_uncommitted_swap` |
| `Sweep`, `Swept`, `Unlink` | `_finish_transaction` |
| `Check` ... `Verify` | `publish`, line by line |
| `Except`, `Raise`, `Fault` | its handler, and what leads into it |
| `UserEdit` | `knowledge/` lies in the Vault |

### ArtifactStore

A put `p` asks for a key and for metadata (`asked[p]`: artifact ID, content, and
what else the metadata says). `entries` and `idempotency` are the two tables,
whose write lock is `writer`. `objects[c]` is the put whose staging file has become
the object of the content, since the object is a hard link of it: `Links` counts
the two names, and `seen[p]` is the count that a verification began with.
`told[p]` is what the caller hears, which may be "cancelled" while the thread
`pc[p]` goes on; `owing` are the puts whose staging file must still be removed. On
Windows a file that is open cannot be removed (`Held`).

| Actions | Code |
|---|---|
| `Stage`, `Cancel`, `Cleanup` | `put` and `put_stream` on the event loop: staging, cancellation, the `finally` |
| `Begin`, `Refuse` | `_begin_immediate`, `_read_idempotency_row`, `_metadata_with_connection`: retry, new artifact, conflict |
| `OpenStaging`, `Promote`, `Verify` | `_promote_staging`, `_open_verified_object`, `_verify_open_stream` |
| `Describe`, `Commit`, `CommitFails` | `_write_metadata_file`, the two rows and their commit, which may raise after it is durable |
| `Checkpoint`, `StepFails` | the token between two steps, a failing file operation |
| `Read`, `ReadEnds`, `Crash` | a reader with the object open, the death of the Worker |

`disturbed` is history: the puts that were at work together with another, with a
reader, or when something went wrong. `RetryReconciles` is about the others.

### EventDelivery

`durable[r]` is the number of committed events of a Run, and all the rest are
copies that may be late: `untold`, `sink`, `wire`, the client's `view` and
`pending`. What the live way drops is put into `lost`, which nobody in the system
knows. Events and responses share the connection and arrive in order
(`wire`), but a response resolves a promise that is looked at later (`reply` is
`here`), so that live events come between a page and its use. The server
answers a request from one unit of work (`ReadHeads`, `ReadPage`) and sends the
answer later (`Send`), with commits in between.

| Actions | Code |
|---|---|
| `CommitEvent`, `Publish`, `Unpublished` | `UowRunRecorder.commit`, `BufferedEventSink.publish` |
| `Deliver`, `Written` | `BufferedEventSink._deliver`, `_EventHub.publish`, `send_event` with its wait for the write |
| `Connect`, `AddToHub`, `Disconnect` | `HarnessClient.connect`, `_serve_stdio_connection`, `_terminate` |
| `ReceiveEvent`, `ReceiveReply` | `JsonRpcPeer.acceptMessage`, `EventReducer.accept` |
| `Hydrate` ... `OnceMore` | `ChatStore.hydrateSessionOnce` and `HarnessClient.replaySession` |
| `ReadHeads`, `ReadPage`, `Send` | `session/get`, `replay_session_events`, `_dispatch_request` |

A Worker has one connection and ends with it, so `Down` takes both; the client's
view is new with the next one.

## Runs

| Run | Module and configuration | Properties | What it shows |
|---|---|---|---|
| vault | `MCVault`, `Vault.cfg` | LeftoversAreAccounted, FailureLeavesNoTrace, ManualOnlyWithCause, NeverDestroys, SuccessIsFinal, DecidedOnce | Two Vault calls on one path with a crash and a disk or database fault anywhere, or one call with two crashes, two faults and two edits by the user (recovery interrupted by a second crash, a temporary left half written, a rollback whose rename or deletion fails or is not confirmed, a file saved over or deleted between any two steps): nothing is left under hidden names that no manifest accounts for, nothing is destroyed, a failure leaves nothing, a success stays, recovery gives up only for a cause, and a call is decided once, as EffectDecision says. |
| agent | `MCAgentRun`, `AgentRun.cfg` | AtMostOnce, ToldIsTrue, EffectsAreTraceable, CompletedAccountsForAll, EffectsAreDecidedOnce, StreamIsFinal | A Run with two calls (two writes, one of them a Vault call; a group of two reads; a write and a query), two crashes and two database faults anywhere: no effect happens twice, every result is recorded once, what the events report is what happened, and they implement EffectDecision. |
| progress | `MCProgress`, `Progress.cfg` | VisibleIsWhole, ToldAsStored, RetryReconciles, RecoveryAndCallsEnd, ChildrenEnd | What is begun ends well. Three puts to the artifact store (a retry beside another artifact of the same content; a key and an ID that are asked for twice with different metadata) beside a reader, with two of a cancellation, a failing operation, a failing commit, a death, on POSIX and on Windows: what is visible is whole, answers are kept, and what a put that failed or died has left never stops an undisturbed retry. Under the fairness of the event loop and the I/O threads startup recovery of the Vault ends and a dispatched call ends or dies with the Worker, with two crashes, a fault and an edit by the user; and every child Run, of two that compete for a slot or alone with a crash and a fault, ends or is stranded for one of the causes that StrandedHasACause lists. |
| tools | `MCTools`, `Tools.cfg` | DeletedSessionHasNoGrant, CallsExclude, DecidedOnce, RunsOnlyApproved, DecisionReachesTheCall, NoOvertaking, EveryCallEnds | The approval of one call, with two answers racing each other, expiry, cancellation, the deletion of the session, a failing unit of work and a restart: one decision, told as it is, that lets the call run only in time, reaches the waiter, and survives no deletion. Or three tool calls through the effect gate and the keyed locks, one of which waits for a child Run, cancelled at any moment: exclusion by key and by writer, FIFO admission, and no deadlock: every call ends although agent.wait holds its place in the gate while it waits. |
| children | `MCSubagents`, `Subagents.cfg` | AccountsAreExact, RunsOnlyUndecided, StrandedHasACause, NoLostWakeup, DecisionIsFinal | Two child Runs of one root or of two, with room for one at a time, cancelled, awaited and closed at any moment, with a restart and a commit that fails or is not acknowledged under one root, and a submission that raises among five: slots and reservations stay exact, a decided child never runs, and a waiter misses no change but the one whose commit was not acknowledged. |
| turns | `MCTurns`, `Turns.cfg` | RunsAreReachable, HeldByTheLiving, AnswersAreTrue, NoEscape, EveryRequestIsAnswered | Three requests of clients (two turns and a deletion, two sessions and one slot, a repeated deletion, a repeated turn) with two of: a failing commit, a rename, a cancelled Run, a client that goes, a shutdown, a restart. Every task can be reached, a session is held only by who lets it go, clients are told the truth, and every request is answered. Beside it a tree of three cancellation scopes. |
| delivery | `MCDelivery`, `Delivery.cfg` | PublishedIsKept, OneFailureIsMended, NothingIsOverlooked, ReplayReachesTheHeads, ViewCatchesUp, RunEnds | Two revisions of the Wiki with two deaths of the Worker, two failing file operations and one edit: the published Wiki is never lost, and one failure is put right by the call it hits. And the events of two Runs, on their way to the view of a client that hydrates at any moment: none is overlooked, a replay reaches the heads read before it, and the view catches up with what is not lost. And a Run of two calls with a crash and a fault, which ends, or its task dies because its terminal commit failed. |
| agent_retry | `MCAgentRun`, `AgentRun_retry.cfg` | RetryIsClean | A batch that is cancelled or killed loses the recorded result of a write from the terminal RunState, and retry_turn, which reads only that state, accepts a retry the event stream forbids. |
| approvals_retry | `Approvals`, `Approvals_retry.cfg` | ExpiredRetryIsDenied | An approval that expires while its call queues for the effect gate is asked for again inside the gate; the observer has settled it already and raises, so a write that never started is reported unknown instead of denied. |
| subagents_result | `MCSubagents`, `Subagents_result.cfg` | CompletedRunIsCompleted | A child whose Agent Loop completes is recorded FAILED: the runner asks for a terminal stream event, a terminal Turn and a released lease, which a child never has. |
| subagents_restart | `MCSubagents`, `Subagents_restart.cfg` | WorkerStarts | A child that was queued or leased when the Worker died, and whose root is not resumed with the child's reservation, stops the startup at every restart. |
| artifacts_race | `MCProgress`, `Progress_race.cfg` | IdenticalPutsAreStored | Of two identical puts at once the second may be told that the artifact is corrupt: the first removes its staging file, which is a link of the object that the second is verifying by its link count. |

`CHECK_DEADLOCK FALSE` stands where the calls, requests or children of an instance are
finite and the system stops when all are done. Tool calls come again and again,
but `tools` does stop: the approval of its one call is settled once.

`MCProgress`, `MCTools`, `MCTurns` and `MCDelivery` hold two or three
systems each: `part`, chosen at the start, says which of them moves while the others
stay where they begin. None sees another; it is one instance that asks one kind of
question: what ends, what holds a call up, what is cancelled with a turn, what
outlives the Run that made it. In `MCVault` it chooses between two bounds.

Bounds of the Vault runs. `Calls`: every hazard found involves at most two
transactions of the path, one of them left behind by its caller. `MaxCrashes`:
one crash reaches every recovery path; the run with two crashes interrupts
recovery itself. `MaxFaults` and `MaxExternal`: one fault or edit reaches each
error branch; two make a rollback fail after a first failure. So `vault` has two
calls with one crash and one fault, and one call with two of each and two edits;
`progress`, for liveness, has one call with two crashes, one fault and one edit. The
theorems hold for all values.

Bounds of the artifacts. Three puts in two plans: a put, its retry and another
artifact of the same content; and a put, another that asks for its artifact ID, and
a third that asks for its key, with other metadata. Two troubles leave something
behind and then meet who finds it. One reader, which only keeps a file open, is as
good as several. The theorems hold for all values.

Bounds of the calls. Three tasks and two reader slots put a writer behind a
reader and a reader behind that writer; two keys named in either order are the
least that could be taken crosswise; three users of one key are one that leaves,
one that waits, and one that comes when the entry is dropped. The theorems hold for all
values.

Bounds of the children. Two children with room for one make one wait for the
other, under one root or under two; one crash and one fault leave a record, a
reservation or a checkpoint behind. Three more children belong to one scene
(`Scene`): a submission that raises because of what it dispatches needs a job of a
root that is gone, queued behind another root's. Under one root the first child is `c1`,
since the two differ in name only. Where there are two roots there is neither:
recovery treats its roots one by one, and so does the handler of a failed commit. In
`progress` two children wait for each other under one root, and one child alone has
a crash and a fault. The theorems hold for all values.

Bounds of the turns. Four plans: two turns and a deletion of one session; turns
of two sessions that compete for one slot, with a deletion; a turn and a
repeated deletion; a repeated turn and another. Two troubles are what it takes
to make one of the handlers of a first failure fail. Three scopes are a root, a
child and a grandchild, or two children. The theorems hold for all values.

Bounds of the delivery. The Wiki: two revisions are one that replaces nothing and
one that replaces another; two plans are a call repeated and another call; two
faults break the handler of a first failure, two deaths the recovery from a
first one; one edit reaches each refusal. The
events: two Runs share sink and connection; with three events, a sink, a reorder
buffer and a page of one each, the live way loses an event before one that it
carries, the buffer is full, and a replay has several pages while the heads move
on; two passes reach both ends of the loop of passes. One connection, because a
second begins as the first does, with more events committed. The theorems hold for
all values of both.

Bounds of the Run configurations. Two calls give every relation a batch has:
serial before serial, two reads in one group, a Vault call whose journal record
is settled and one whose record stays STARTED. Two crashes interrupt a
resumption; two faults lose an acknowledgement and then fail a handler. Two reads,
which have no effect to repeat, meet three of the four at most (`Bound`). A third
call adds longer batches but no new relation between two members.

Bounds of the approvals. Two clients are two answers that differ or agree; a
third finds what the second finds. One fault loses a commit or its
acknowledgement anywhere; one restart resumes a call whose approval was given,
asked for, or not yet registered. The theorems hold for all values.
`Approvals_retry` needs neither.

Fairness. The event loop runs callbacks that are ready and the I/O threads
progress (weak fairness per caller, executor and recovery); nothing ever forces
a crash, a fault, an edit, a timeout or a cancellation. In `ToolCalls` the task
of a call takes its next step, an executor ends or is given up, an approval
expires and a wait times out, because each has a bound in the code; no Run has to
be cancelled and no child has to end. In
`Approvals` it is the kernel's task and the holder of the lock that progress:
nobody has to answer, and expiry and cancellation never have to come, so that
`DecisionReachesTheCall` is not met by a timeout. In
`AgentRun` the fairness is on `Progress` as a whole: some ready callback runs,
or the startup that recovers the Run continues. In `Subagents` it is on the tool in
flight, and on the tasks of children and the cancellers together, each of whose
steps brings one of them nearer to its end. In `Turns` it is on
the steps of all requests and tasks together, each of which brings one of them
nearer to its end; a Run ends by itself or at its deadline. In `EventDelivery`
it is on the publication that follows a commit, on the sink's task with its
connection (each write is awaited under a deadline, after which the connection is
down), and on the client's reader; nobody has to hydrate, and the server has to
answer nothing: that the view catches up is a property of the live way alone.

Every property has a mutant in `PROJECT.json`: an operator of the modules named
`Mutant_...`, which the specification never uses and which, put in the place of
the definition it stands for, breaks the property.

## What is proved

Each `..._proofs` module states an invariant `IInv` that is inductive, proves that
it holds initially and is preserved by each action, and concludes. TLC checked each
of these invariants before it was proved. For every set of
calls, clients, requests, scopes, puts or Runs and all values of the bounds:

* `InvariantHolds` (`VaultTransaction_proofs`): The inductive invariant (manifest, journal, caller, file places, leases and recovery agree) holds for any set of calls and any number of crashes, faults and edits.
* `TypesHold` (`VaultTransaction_proofs`): Type correctness of the transaction for every value of the constants.
* `LeftoversHold` (`VaultTransaction_proofs`): A hidden backup, temporary or rollback file always has a durable manifest that will find it: what a failed write or an unconfirmed deletion or rename has left included.
* `FailuresLeaveNothing` (`VaultTransaction_proofs`): A call whose journal says FAILED has left none of its content, whole or torn, under any name, whatever write, rename, deletion or commit fails, crashes, is edited or is still on its way out of its thread.
* `NothingIsDestroyed` (`VaultTransaction_proofs`): No step of the Worker makes a file disappear that is not its own to destroy, whatever the user edits and whenever it crashes.
* `SuccessesStay` (`VaultTransaction_proofs`): A success is journalled over the new content in place, unless the user has edited it, and no later step, of recovery either, moves the original back.
* `ManualHasACause` (`VaultTransaction_proofs`): Without a fault, an edit or a straggler beside another call, recovery takes every call back or forward and never gives one up for manual review.
* `VaultRefinesDecision` (`VaultTransaction_proofs`): The transaction protocol implements EffectDecision: decided once, reported as decided.
* `ApprovalsInvariant` (`Approvals_proofs`): The inductive invariant of the approval (lock, future, kernel, deletion and Run agree with the record) holds for any clients and any number of crashes and faults.
* `ApprovalsTypes` (`Approvals_proofs`): Type correctness of the approval for every value of the constants.
* `DeletionLeavesNoGrant` (`Approvals_proofs`): Whatever answer races the deletion of a session, the deleted session keeps no grant and no approval that could make one.
* `DecisionIsFinal` (`Approvals_proofs`): A decided approval never changes, and every client that is told a decision is told the one on record.
* `NothingRunsUnapproved` (`Approvals_proofs`): A call starts only on an approval the user gave and that has not expired, or under an active grant.
* `TasksAreReachable` (`Turns_proofs`): No task of a Run escapes its TurnManager and a session never has two, for any requests, sessions, slots and number of troubles.
* `TypesHold` (`Turns_proofs`): Type correctness of manager, requests and store for every value of the constants.
* `SessionsAreLetGo` (`Turns_proofs`): For any requests, sessions and number of troubles, a session is held by a Run whose task goes on or by a deletion under way, unless a failed commit, a killed task or a client that went is the cause.
* `AnswersHold` (`Turns_proofs`): What a client was told stays so: an accepted turn is stored, a refused one never comes to life, and a deleted session stays deleted with no Run alive, whatever starts were late.
* `Invariant` (`AgentRun_proofs`): The inductive invariant of a root Run (its copies of RunState, the batch in hand, the journal, the executor and the event stream agree) holds for any calls, plans, crashes and faults.
* `TypeCorrect` (`AgentRun_proofs`): Type correctness of the Run for every value of the constants.
* `EffectsHappenOnce` (`AgentRun_proofs`): No effectful call runs twice, whatever crashes, times out or is replayed.
* `StreamIsTrue` (`AgentRun_proofs`): What the event stream says of a write is the truth about it: succeeded only if it took effect, failed only if it did not.
* `EffectsStayTraceable` (`AgentRun_proofs`): A write that took effect can be traced in the journal after any crash.
* `CompletionAccounts` (`AgentRun_proofs`): A Run that completed has a result, and one event, for each call it ever began.
* `NothingFollowsTheEnd` (`AgentRun_proofs`): A terminal Run changes no more, and no call is reported twice, but for a Run that died while it was CANCELLING.
* `WritesImplementDecision` (`AgentRun_proofs`): The Run implements EffectDecision for each of its writes: the effect is decided once and reported as decided.
* `Invariant` (`Subagents_proofs`): The inductive invariant of the children (scheduler, slots, records, spawn in flight, cancellers, recovery, budget, waiter and, while nothing fails, nobody lost) holds for any roots, children, ceilings, budgets, crashes and faults.
* `TypeCorrect` (`Subagents_proofs`): Type correctness of the child Runs for every value of the constants.
* `SlotsAndBudgetAreExact` (`Subagents_proofs`): On every way a child ends its slot and its reservation are given back exactly once: a child occupies a slot while it has a task, both ceilings hold, nobody is queued twice, and the ledger covers what is held, after a restart too.
* `LiveRunsAreUndecided` (`Subagents_proofs`): No canceller, finished job or recovery decides the record of a child whose task runs.
* `WaitersAreWoken` (`Subagents_proofs`): agent.wait is never asleep over a child that is done unless its generation has passed, or is about to, or the child's terminal commit raised although it was durable, which has left its reservation unsettled as well.
* `NobodyIsLostInCalm` (`Subagents_proofs`): Without a fault, a crash or a cancelled root the scheduler loses no child: whoever is undecided is queued, has a task, is being cancelled or spawned.
* `DecisionsAreFinal` (`Subagents_proofs`): A decided record and its result never change, and a child asked to stop is never completed or started again in that life.
* `TypeCorrect` (`Delivery_proofs`): Type correctness of the publication for every value of the constants.
* `PublishedIsNeverLost` (`Delivery_proofs`): With any number of revisions, crashes and failing file operations, the revision that the catalog names is whole in its place, or is the backup of a journaled publication.
* `OneFailureMends` (`Delivery_proofs`): Unless the user edits knowledge/ or the Worker dies, it takes a second failing operation for a later call to be refused.
* `DeliveryInvariant` (`Delivery_proofs`): The inductive invariant of the events (types, order of the live way, nothing overlooked on an open connection, what the open request asked for) holds for any Runs, any number of events and connections, and every capacity of sink, client and page.
* `EventsAreAccounted` (`Delivery_proofs`): A committed event that the view does not show is on its way, held back or lost to this connection, and the client holds back only behind an event that was lost.
* `ReplaysReachTheHeads` (`Delivery_proofs`): However live events fall between its requests, no replay ends short of the heads that were read before it.
* `TypeCorrect` (`ArtifactStore_proofs`): Type correctness of the artifact store for every value of the constants.
* `VisibleArtifactsAreWhole` (`ArtifactStore_proofs`): For any puts, keys, artifact IDs and contents and any number of cancellations, failures and deaths, a visible artifact has its object and its metadata file, and a bound key names one.
* `AnswersAreKept` (`ArtifactStore_proofs`): A put that returned stays stored as it was asked for, and a conflict was one.
* `RetriesReconcile` (`ArtifactStore_proofs`): Nothing that cancelled, failing or dying puts leave behind keeps a put that has the store to itself from storing its artifact.
* `NothingEscapes` (`Turns_proofs`): In a tree of any size no open child escapes the cancellation of its parent.
* `AccountsAreTrue` (`ToolCalls_proofs`): The accounts of effect gate and lock pool are true of the calls, of any number and whenever they are cancelled: who waits is queued once or granted, the readers counted are those admitted, the references of an entry are its users, and a call holds the lock of each entry it has got.
* `CallsAreExclusive` (`ToolCalls_proofs`): An effectful call is alone inside the gate and no key is held twice, for any number of calls and keys and any ceiling on readers.
* `FirstComeFirstAdmitted` (`ToolCalls_proofs`): No call is admitted to the gate before one that was queued ahead of it.

The assumptions are the modules' named `ASSUME`s: `Base`, `Alien` and `Partial` are not
calls, `Absent` is not a file, no client is named like the kernel or the deletion,
no child is named like a state of the service's lock,
no Run is named like a response,
`None` is not a session, a request, a directory, a journal, an ingestion, a put, a
content, metadata, a root or a child, what puts may ask for are keys and metadata, the bounds are
naturals. Two requests of one idempotency key ask for the same operation in the same
session: the receipts of starts are kept under the session and the key
(`harness_service.py`:618), those of deletions with a digest of the request, and
another request under the same key is refused. Tool calls are a finite set and
their keys naturals, since the code sorts them and only their order counts. The tree of scopes assumes nothing.

Why the invariant is needed: `LeftoversAreAccounted` alone is not inductive,
because a manifest is deleted by steps that read only the manifest and the
journal. `ManifestFollows` and `JournalFollows` tie manifest and journal to the
executor's place, `CallerFollows` says what the two retirement states have
established, `ContentPlace` says where the content of a call can be while its
executor lives (so that deleting or renaming a name touches only its own file),
`LeasePlace` which files are out of reach, and `RecoveryPlace` that recovery
works alone and on one manifest at a time. `NeverDestroys` and the refinement
then follow action by action.

`IInv` follows names and owners, not contents, and three properties need more.
`FailureLeavesNoTrace` speaks of every copy of a call's content, whole or torn: `TraceInv` says that a
call's own names hold its content or the user's, that a plan which found the content of
another call gets beyond its admission only if that call succeeded (a file that is
locked or set aside is what the plan saw), and that whatever is rolled back, failed or
not begun is nowhere. `SuccessIsFinal` follows from its other half, where a success is
told. `ManualOnlyWithCause` is about an undisturbed world, and needs to know exactly what
the four names hold there: `CalmInv` says that, as long as nothing fails, nobody edits,
and no caller lets go of one of several calls, one call at a time is open, and its
executor, its manifest and recovery each stand at a station (`Before`, `Written`,
`Claimed`, `Published`, `Unpublished`, `Undone`, `Committed`) whose disk recovery can take
back or forward.

For the approvals, `DeletedSessionHasNoGrant` says nothing of the answers that
are on their way. `LockOK` says that whoever holds the lock stores a decision,
an approval only for a user, and that once stored it is the record; `DecisionOK`
that the future and the kernel's copy are copies of the record and that a grant
stands beside an approved one; `DeleteOK` that after the scan no Run is left to
ask again, and after the recheck nothing is pending, so that no commit can make
a grant between the revocation and the end. `DecidedOnce` and `RunsOnlyApproved`
follow from these step by step.

For the root Run, every property is about what the journal, the executor and the
event stream hold of one call, and none is inductive alone. `WriteFollows` says of each
write what the journal and the executor can hold at each place of the call, and that a
result in hand is the truth already, so that recording it keeps `ToldIsTrue`.
`CopiesAgree` says which of the loop's, the observer's and the durable copy of
`RunState` are the same where the task is; in a batch the loop's copy is stale, and
that is why only a Run that is CANCELLING escapes `StreamIsFinal`. `Accounts`, held by
every state that recovery can resume, says that a call is pending and
unreported, recorded and reported once, or untouched: from it follow
`CompletedAccountsForAll` and that nothing is reported twice. `SerialFirst` is the
order of a batch: nothing behind a serial call has begun before it is done, so that
what a stopped batch cancels was never begun. The refinement follows: a first report
decides, and a later one, recovery's, repeats it.

For the turns, `Register` and `Remove` keep `RunsAreReachable` because each looks
at what stands in the manager now; it is the restart that needs more, since it
makes tasks from leases. A Run that lives holds the lease of its session
(`LeaseIsOfTheLiving`), only such a Run gets into its loop, whose end gives the
lease back (`LoopIsLive`), and nothing but a stored start frees a task that waits
for it (`ReadyWhenStored`).

What a session's clients were told needs an invariant of its own, `HInv`.
`LeaseKept` and `GateKept` say who will give back lease and gate, `Tidy` which
request can be where. `StartKnows` says what a
start knows of its own Run. A start that read the session before it waited must not
store its Run into one that was deleted meanwhile: `DeletionLasts` says that the
revision it read is at most the store's, and an older one once the session is
deleted, so that the comparison at the write refuses it. `ToldSo` is then kept by every step. For the scopes, `NoEscape` needs `Linked`: an open child
is among the children of its parent, so that the snapshot sees it.

For the children, the scheduler dispatches as many jobs as there are slots, by a
recursive function, and filters its order of roots by another. `Induction`, proved from
the library's well-founded order of the finite sets, lets both be reasoned about:
a step that stays in a set can be iterated in it (`IterationExists`,
`IterationStays`), so that `Dispatch` keeps `Sound` (queues of a root's own children,
each once and none active, under both ceilings) and only `Takes` children from queues
to slots (`DispatchSound`). `Sound` does not know the tasks; `SchedulerInv` adds that
those who have one are the active ones, and `Moved` says the same of the four actions
that start jobs. The budget is counted by `Holders`: what is held, with the unit a
spawn has reserved and not yet bound to a child, is at most what is reserved, and what
recovery adopted at most what counts as adopted; a settlement then never returns a unit
twice. `SpawnInv` says that nobody else knows of the child in the middle of its spawn, unless
its submission raised, and then that its Run has not begun; `RecordInv` also says that
who is decided while its task is at work is one whose commit was not acknowledged, and
`WaitInv` that a waiter has heard of each decision (`Heard`), or will, or never,
for that reason;
`CancelInv` that a child a canceller took out of its queue has no task, `RecoveryInv`
that recovery is alone and has scanned nobody twice. `StrandedHasACause` needs `CalmOf`:
while nothing fails, whoever is undecided is queued, in its task, about to be
finished by its canceller or being spawned, and whoever is queued under a root that
is ending is still on the list of the cascade.

For the Wiki, `PublishedIsKept` speaks of files only. `Swapped` adds that journal,
catalog and the two directories agree between any two steps: the catalog is at the
target and the new Wiki in its place, or it is at the base and the old one is in
its place or whole in the backup. `Placed` adds what each line of a publication
and of a rollback finds. Both hold as long as the user leaves `knowledge/` alone.
`OneFailureIsMended` needs that, without deaths and with at most one fault, nothing is
left behind when a call ends.

For the artifacts, `VisibleIsWhole` says nothing of the put that is about to commit.
`WriterKnows` does: only the put that has the write lock is between look-up and
commit, its key and its ID are then unbound or bound to its own request, once it has
promoted there is an object of its content, and once it has described the metadata
file is its own. That what other puts
and readers do cannot take this from it is the point of the lock; that nobody
removes an object or a metadata file, the point of the rest. `RetryReconciles` adds
`RetryInv`: whatever is written under a key or an ID was asked for under it, and a put
that is not disturbed is alone at work, so that it sees its own links only.

For the tool calls, the gate's actions are made of two operators on its account
(counters, queue and grants): release one call, grant the waiters. `Sound` says
of any account that it is true of a set of calls inside: nobody is queued
twice or queued and admitted, the counters count who is admitted, a writer is alone.
That the two keep it so is proved for any account (`ReleasedIsSound`,
`GrantingIsSound`), the least waiting writer by the library's well-founded order; the
invariant adds only that who waits is queued or granted, which a cancelled waiter
that was just granted must not break. For the locks, an entry is referred to by
exactly those who use it (`Users`), so that it leaves the pool with the last of them
and not before; a key then has one entry in use, and two calls that hold a key hold one
lock (`Holding`). Without the count `LastUser` would drop an entry under a waiter,
and the next call would take a second lock of the same key.

For the events, `NothingIsOverlooked` does not know in which order they come, and
that is what keeps it. `InOrder` says that the live way carries the events of a Run in
ascending order: what stands in the queue of the sink is newer than what is on the wire, both are
newer than what the client holds back, and the event that is committed and not yet told
is the newest. So an event that does not fit the view has an earlier one that is
neither shown nor under way, and by `Delivered` (on an open connection nothing is
overlooked, and what is held back does not fit) that one is lost: `HeldForALoss`.
`AcceptedShows` says what the reducer makes of any set of events it accepts, live or a
page: `Drained` is proved for views and buffers of any size, with the greatest element
of a finite set by induction over its size (`Greatest`). `ReplayReachesTheHeads` needs
`Requests`, that a response is the open request's, and `Replays`: while a replay is under
way its cursors are at most what is shown, a page is at or beyond the cursors
that asked for it, and the last one at or beyond the heads, because the
server reads it later than the snapshot and commits only add.

Only model-checked: the liveness properties, because fairness is out of the prover's
reach (`RecoveryAndCallsEnd`, `RunEnds`, `ChildrenEnd`, `EveryCallEnds`,
`DecisionReachesTheCall`, `EveryRequestIsAnswered`, `ViewCatchesUp`).

## What the models showed

Five runs end in a violation, each of a sentence of the repository's own; see
"findings" in `PROJECT.json`.

* `RetryIsClean`. The handlers of the loop commit the copy of `RunState` that is
  older than the batch. A write recorded in that batch, with its event, is no
  longer in the terminal state, and `retry_turn`, which reads the results of
  that state only, accepts a retry.
* `ExpiredRetryIsDenied`. The observer settles an approval once, the kernel may
  report it twice: inside the gate when the approval expired in the queue, and
  after a restart when it was settled before the crash. The second report
  raises, and the write that never started is reported unknown (in the gate), or
  the Run fails (outside it).
* `CompletedRunIsCompleted`. The Worker's runner accepts the end of an agent
  loop only if it finds a terminal event, a terminal Turn and no lease. A child
  has none of these, so every child is recorded FAILED.
* `WorkerStarts`. A child that was queued or leased and whose reservation is not
  in its root's checkpoint cannot be recovered; the startup fails, every time.
* `IdenticalPutsAreStored`. The staging file of a put is a link of the object, and
  its removal, after the transaction, changes the number of links under the
  verification of another put of the same content: that one is told that a sound
  object is corrupt. On Windows the removal is refused instead, and the put that was
  stored raises.

Found on the way, each by a counterexample or by reading for the model, and not
checked by a run of its own:

* A batch that runs stops behind an unsuccessful serial call
  (`test_transaction_kernel.py`:263). A batch that is recovered does not: the
  unsuccessful result is taken from the journal (`runtime/recovery_apply.py`:676)
  and the calls behind it are replayed.
* Recovery has no check of the phase. A Run that died between CANCELLING and
  CANCELLED with pending calls that can be resolved is resumed, the loop refuses
  its phase, `_failed` cannot leave CANCELLING either, and the Run keeps its lease
  until its deadline has expired at some restart.
* A write of the temporary, a read of its identity, or a deletion or rename of the
  rollback that fails leaves the call's content, or a part of it, under a hidden name:
  the call is reported unknown and its manifest stays PREPARED or STAGED
  (`coordinator.py`:424-440, 1663-1668). Unless a STAGED manifest lets recovery
  undo it, the file stays, and the next start marks the manifest MANUAL_REVIEW, even
  where nothing but the temporary was ever touched.
* agent.wait sleeps over a child that is done. The terminal commit of a child may
  raise although it is durable, and then its reservation is not settled and the
  generation does not move (`subagents/service.py`:1082-1087, 1202-1206): a parent
  that was asleep wakes at its timeout, or with the next change of another child, and
  the unit of its budget is gone until root or Worker ends. `NoLostWakeup` excepts it by
  its trace, the reservation.
* The cancellation of a Run may cut the agent.cancel of its own in two: the record is
  committed and its generation is not announced, or the loop over the children ends
  before its last one. The cascade of the root then finds the rest.
* Children stranded until the next restart: one that was CANCEL_REQUESTED in the
  queue at a crash, one left ORPHANED by a crash inside recovery, one whose spawn
  was cancelled between its record and its submission. `StrandedHasACause` lists
  them.
* `harness_service.py`:1262 reads `state.phase` from a state older than the loop,
  so the lifetimes that `parent_finished` distinguishes are never applied to a
  root; a child whose artifact budget is exhausted never becomes terminal; a
  CANCEL_REQUESTED child with a safe checkpoint is queued again after a restart.
* agent.wait for ALL returns at the first completion, with timedOut set; and it
  holds its place in the gate, so that an exclusive call of the awaited child
  waits for the parent's timeout (`EveryCallEnds` is met by that timeout only:
  its mutant takes it away).
* A message that a child's mailbox receives between the child's start and the
  registration of its controls (`runtime/subagent_runtime.py`:76-88) is seen only
  after a restart; and `receive(after_sequence=0)` stops at the first foreign Run
  (`subagents/mailbox.py`:148-160).
* A start whose commit went through and whose acknowledgement was lost leaves a
  durable Run with its lease that no task executes until a restart; so does a
  second cancellation while `start_turn` persists, at the end of a connection
  (`adrift`).
* `_abort_turn_start` waits, with `_command_lock` held, for a task that may be
  queued for a slot; and a Run that is cancelled in that queue ends only when a
  slot is free. Both end because Runs end.
* A steer whose receipt was committed and whose delivery failed is answered
  `accepted` when it is repeated, although nothing was delivered
  (`runtime/conversation_controls.py`).
* `soft_delete` decides from a state it read earlier that the Run has no effect
  under way (`_active_run_is_effectful`), and cancels two steps later: the Run may
  be in EXECUTING_TOOLS by then. A deletion that is itself cancelled while it
  waits for the Run's task cancels that task.
* When the task that cancels a scope is killed before the tasks it gathered have
  begun, the children below stay uncancelled, and a second `cancel` of the scope
  returns at once (`lost`).

* `recover` is called by `KnowledgePublisher.publish` only, and all ways there read
  the Wiki first (`compiler.py`:71-80, `wiki_compiler.py`): after a death between
  the first rename and the commit every later call is refused before it could
  recover, although the backup is there (`PublishedIsKept`) and README.md:23
  promises that local state converges after a crash. A death before the
  journal leaves the transaction directory, and the same ingestion, whose
  identity comes from its content, is refused for ever. `OneFailureIsMended`
  excepts both.
* A death, or a second failure, while the rollback removes the new Wiki leaves it
  torn; every recovery from then on refuses to remove what it cannot verify.
* An error after the commit of the catalog is reported as `knowledge_io_failed`
  although the revision is published (`knowledge/tools.py`:401-405).
* What the user saves in `knowledge/` between the copy and the first rename goes
  into the backup, and with it.
* `EventReducer.accept` looks whether its buffer is full before it looks whether the
  event fits: once full, it refuses even the event that would empty it. A
  hydration then fails, and a live event poisons the connection and so ends the
  Worker (`event_reducer.ts`:181).
* `HarnessClient` makes its reducer without `onGap` (line 138): a gap in a Run stays
  until somebody hydrates the session. An event that is published after
  `initialize` was answered and before the hub knows the connection is lost live.

* A put that is cancelled is stored nevertheless: its thread runs on, and so does the
  transaction in it. A retry with other metadata then conflicts; `process_supervisor`
  and `coordinator` derive the artifact ID from the call and take the time anew.
* The staging file of a put that died is never swept. It is a second link of its
  object for ever, and harms nothing else.

The others are not flaws but corners that the properties had to be stated
around, each found as a counterexample to a stronger one.

* A straggler (an executor whose caller timed out or was cancelled) lets two
  manifests exist on one path, and restart recovery may mark the healthy one
  MANUAL_REVIEW, depending on the order in which it examines them.
* A crash between the creation of the temporary and the STAGED manifest ends in
  MANUAL_REVIEW, never in a silent deletion.
* A transaction that timed out and yet rolled back cleanly leaves the journal
  at unknown beside a ROLLED_BACK manifest; a restart then asks for review.
* A COMMITTED save whose acknowledgement and re-reads fail is followed by a
  rollback: reported unknown, never success.
* `StreamIsFinal` excepts a Run that was CANCELLING when the Worker died: its state
  has forgotten the results of its batch, and recovery writes those that the
  journal holds into the event stream a second time.
* An answer that commits after its waiter was woken by expiry or cancellation
  makes the waiter's own resolution a conflict: the Run fails although the client
  was told that it resumes. So `DecisionReachesTheCall` asks only that the call
  stops waiting, and not that it runs.
* A request that expires before it is stored is decided without `required`, and
  the observer's `resolved` fails the Run.
* A grant approved between recovery and the policy check of the resumed call lets
  the call skip its pending approval, and `execution_started` refuses to start
  with one pending: unknown, though it never started.
* docs/adr/0004 says that only the user resumes an interrupted Run. The code
  resumes at startup a Run that a crash interrupted before it could become
  INTERRUPTED; the model follows the code.

## Plan

1. `VaultTransaction` with `EffectDecision` (done, proved).
2. `EffectGate`, `KeyedLocks` and `ToolCalls` (done, proved).
3. `AgentRun`: loop, kernel, journal, recorder and recovery (done, proved).
4. `Approvals` (done, proved).
5. `Turns` and `CancellationTree` (done, proved).
6. `Subagents` (done, proved).
7. `EventDelivery` and `KnowledgePublication` (done, proved).
8. `ArtifactStore` (done, proved).
9. `MemoryStore`, `ProcessSupervisor`, and the requests of the
   connection with their cancellation; deletes and transactions of several changes in
   `VaultTransaction`; results shared by idempotency key in `AgentRun`.

## What is not modelled

Manifest saves are one step: the store promotes a leftover pending file at every
read, so the pending file is the durable state. Parent directories, the diff
artifact and the POSIX fallback of the rename backend are left out, as are
transactions with several changes and deletes (see the plan). SQLite
transactions are atomic steps that may fail. Parts without state of their own
(parsing, providers, configuration, reporting) are listed in `PROJECT.json` with
the reason.

Of the children: the heartbeat, which only extends a lease; the limits on the
queue and on the children of one turn; worker ids reused by a later process;
lifecycle hooks; the artifact budget; amounts of usage; the mailbox. Of the
turns: `retry_turn`, which persists like `start_turn`; `steer`; a second
cancellation of a request whose client has gone. A Run whose deadline passes
between the scan and its resumption is not a case of its own: the loop then
does what `AgentRun`'s `Expired` and `Failed` do.

Of the artifacts: the checks of every path against links and replaced directories,
damage to what is written, a loss of power, what a reader is told, and the limits
on sizes, which refuse a put before it has begun.

Of the publication: the contents of a page and their validation, and the
preparation of the sources, which is a file of its own per ingestion. Of the
delivery: tabs and their order, Runs of other sessions, requests other than the
hydration's, and `activeRunId`, a second part of the watermark that only makes for
one more pass.
