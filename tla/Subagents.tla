------------------------------ MODULE Subagents ------------------------------
(***************************************************************************)
(* Child Runs: SubagentService and ChildRunScheduler of subagents/, the     *)
(* part of a root's BudgetLedger they reserve from, the cancellation        *)
(* registry, and what the end of a root Run and the start of a Worker do    *)
(* to its children.                                                         *)
(*                                                                          *)
(* The service's `_lock' serialises every change of a child's durable       *)
(* record.  A section that awaits between two changes others can see holds  *)
(* `lock' over several steps; the others are one step.  The scheduler's own *)
(* lock never covers an await, so each of its methods is one step.  A child *)
(* is dispatched, started, run, finished and closed by one asyncio task.    *)
(*                                                                          *)
(* agent.spawn and agent.cancel hold the Worker's effect gate alone and     *)
(* agent.wait shares it (EffectGate): at most one of them is in flight.     *)
(* The heartbeat, which only extends a lease, and the mailbox (Mailbox) are *)
(* not here.  A root reserves one unit of its budget for each child.        *)
(***************************************************************************)
EXTENDS Naturals, Sequences, FiniteSets, SequencesExt

CONSTANTS
    Roots, Children,
    Parents,         \* the ways the children are shared among the roots
    None,            \* no child
    MaxWorkspace,    \* ceiling on active children of the workspace
    MaxRoot,         \* ceiling on active children of one root
    RootBudget,      \* children a root's budget pays for
    HarnessRunner,   \* TRUE: the runner is the Worker's; FALSE: any runner that
                     \* keeps the port's contract, as the service's tests use
    MaxCrashes, MaxFaults

ASSUME SubagentsAssumption ==
    /\ Parents \subseteq [Children -> Roots] /\ None \notin Roots \cup Children
    /\ {"free", "spawn", "recovery"} \cap Children = {}
    /\ IsFiniteSet(Children) /\ IsFiniteSet(Roots)
    /\ MaxRoot \in 1..MaxWorkspace /\ MaxWorkspace \in Nat
    /\ RootBudget \in Nat /\ HarnessRunner \in BOOLEAN
    /\ MaxCrashes \in Nat /\ MaxFaults \in Nat

VARIABLES
    parent,     \* parent[c]: the root that may spawn c; it never changes
    status,     \* durable: the child's SubagentRunRecord, or "none"
    leased,     \* durable: its record names a lease owner
    result,     \* durable: the stored subagent_results entry, or "none"
    rootDone,   \* durable: the root's terminal commit happened
    checkpoint, \* durable: the root's ledger in its last committed RunState
    root,       \* the root's task: "running", "ending" (its cascade), "ended"
    scopeCancelled, \* the root's CancellationScope is cancelled
    ledger,     \* the root's BudgetLedger in memory
    held,       \* held[c]: "none", "fresh" or "adopted" budget reservation
    sched,      \* ChildRunScheduler: queues, root order and active children
    pc,         \* pc[c]: where the child's task is
    outcome,    \* what the child's Agent Loop ended with: a phase, or an error
    signalled,  \* the child's own scope is cancelled
    lock,       \* "free", or who holds the service's lock
    tool,       \* the agent.spawn, agent.cancel or agent.wait in flight
    cancel,     \* cancel[r]: the children left to cancel for root r, and the current one
    statusGeneration, \* counts `_notify_status'
    startup, unscanned, \* recover_orphans: where it is, the children left to scan
    crashes, faults

durable == <<parent, status, leased, result, rootDone, checkpoint>>
tasks == <<sched, pc, outcome, signalled>>
service == <<lock, tool, cancel, statusGeneration>>
roots == <<root, scopeCancelled>>
startupVars == <<startup, unscanned>>
bounds == <<crashes, faults>>
vars == <<durable, tasks, service, roots, ledger, held, startupVars, bounds>>

Terminal == {"completed", "cancelled", "failed", "interrupted"}
Leased == {"running", "cancel_requested"}     \* _ACTIVE, with a lease
Of(r) == {c \in Children : parent[c] = r}
NoTool == [op |-> "none", root |-> None, child |-> None, at |-> "none", seen |-> 0]
Idle == [todo |-> {}, child |-> None, at |-> "none"]
EmptyScheduler == [queue |-> [r \in Roots |-> <<>>], order |-> <<>>, active |-> {}]

Init ==
    /\ parent \in Parents
    /\ status = [c \in Children |-> "none"] /\ leased = [c \in Children |-> FALSE]
    /\ result = [c \in Children |-> "none"]
    /\ rootDone = [r \in Roots |-> Of(r) = {}]
    /\ ledger = [r \in Roots |-> [reserved |-> 0, adopted |-> 0, used |-> 0]]
    /\ checkpoint = ledger
    /\ root = [r \in Roots |-> IF rootDone[r] THEN "ended" ELSE "running"]
    /\ scopeCancelled = [r \in Roots |-> FALSE]
    /\ held = [c \in Children |-> "none"]
    /\ sched = EmptyScheduler
    /\ pc = [c \in Children |-> "none"] /\ outcome = [c \in Children |-> "none"]
    /\ signalled = [c \in Children |-> FALSE]
    /\ lock = "free" /\ tool = NoTool /\ cancel = [r \in Roots |-> Idle]
    /\ statusGeneration = 0
    /\ startup = "up" /\ unscanned = {}
    /\ crashes = 0 /\ faults = 0

Fault == faults < MaxFaults /\ faults' = faults + 1
NoFault == UNCHANGED faults

-----------------------------------------------------------------------------
(* BudgetLedger: reserve, adopt_reservation, and _settle_reservation.  An    *)
(* adopted reservation is told from the others only by its amount.           *)

Affordable(b) == b.used + b.reserved + 1 <= RootBudget
Reserve(b) == [b EXCEPT !.reserved = @ + 1]
Adoptable(b) == b.reserved > b.adopted
Adopt(b) == [b EXCEPT !.adopted = @ + 1]
Settle(b, how, spent) ==
    IF how = "none" THEN b
    ELSE [b EXCEPT !.reserved = @ - 1, !.used = @ + spent,
                   !.adopted = IF how = "adopted" THEN @ - 1 ELSE @]

\* The root's ledger resolves only while the root's components are prepared.
HasLedger(r) == root[r] = "running"

-----------------------------------------------------------------------------
(* ChildRunScheduler.  `_dispatch_locked' starts, while a slot is free, the  *)
(* first job of the first root in order that is under its own ceiling, and   *)
(* moves that root to the back.  A root that left the cancellation registry  *)
(* makes `create' raise after the job was taken from its queue.              *)

Registered(r, active) ==
    root[r] \in {"running", "ending"} \/ Of(r) \cap active # {}

Mutant_SlotFree(s) == Cardinality(s.active) <= MaxWorkspace
SlotFree(s) == Cardinality(s.active) < MaxWorkspace
Startable(s, i) ==
    /\ s.queue[s.order[i]] # <<>>
    /\ Cardinality(Of(s.order[i]) \cap s.active) < MaxRoot

\* What is left of an order of roots: SelectSeq, in a form the provers can unfold.
OnlyOf(some, order) ==
    LET kept[i \in 0..Len(order)] ==
            IF i = 0 THEN <<>>
            ELSE IF order[i] \in some THEN Append(kept[i - 1], order[i]) ELSE kept[i - 1]
    IN kept[Len(order)]
NonEmpty(s, order) == OnlyOf({r \in Roots : s.queue[r] # <<>>}, order)

DispatchOne(s) ==
    LET ready == {i \in 1..Len(s.order) : Startable(s, i)}
    IN IF s.broken \/ ~SlotFree(s) THEN s
       ELSE IF ready = {} THEN [s EXCEPT !.order = NonEmpty(s, @)]
       ELSE LET i == CHOOSE i \in ready : \A j \in ready : i <= j
                r == s.order[i]
                rest == Tail(s.queue[r])
                next == SubSeq(s.order, i + 1, Len(s.order))
                        \o NonEmpty(s, SubSeq(s.order, 1, i - 1))
            IN [queue |-> [s.queue EXCEPT ![r] = rest],
                order |-> IF rest = <<>> THEN next ELSE Append(next, r),
                active |-> IF Registered(r, s.active)
                           THEN s.active \cup {Head(s.queue[r])} ELSE s.active,
                broken |-> ~Registered(r, s.active)]

Dispatch(s) ==
    LET after[n \in 0..MaxWorkspace] ==
            IF n = 0 THEN [queue |-> s.queue, order |-> s.order,
                           active |-> s.active, broken |-> FALSE]
            ELSE DispatchOne(after[n - 1])
    IN after[MaxWorkspace]

Plain(s) == [queue |-> s.queue, order |-> s.order, active |-> s.active]

Submitted(c) ==
    LET r == parent[c]
    IN Dispatch([sched EXCEPT !.queue[r] = Append(@, c),
                              !.order = IF Contains(@, r) THEN @ ELSE Append(@, r)])

Queued(c) == Contains(sched.queue[parent[c]], c)
Unqueued(c) ==
    LET r == parent[c]
        q == sched.queue[r]
        rest == RemoveAt(q, CHOOSE i \in 1..Len(q) : q[i] = c)
    IN [sched EXCEPT !.queue[r] = rest,
                     !.order = IF rest = <<>> THEN OnlyOf(Roots \ {r}, @) ELSE @]

\* The jobs a dispatch took start as tasks, each under a scope of its own that
\* is born cancelled when the root's already is.
Start(s, pcs) ==
    LET new == s.active \ sched.active
    IN /\ sched' = Plain(s)
       /\ pc' = [c \in Children |-> IF c \in new THEN "dispatched" ELSE pcs[c]]
       /\ signalled' = [c \in Children |->
             IF c \in new THEN scopeCancelled[parent[c]] ELSE signalled[c] /\ c \in s.active]
       /\ outcome' = [c \in Children |-> IF c \in new THEN "none" ELSE outcome[c]]

Mutant_Closed(c) == [queue |-> sched.queue, order |-> sched.order,
                     active |-> sched.active \ {c}, broken |-> FALSE]
Closed(c) ==
    LET r == parent[c]
    IN Dispatch([sched EXCEPT !.active = @ \ {c},
                   !.order = IF sched.queue[r] # <<>> /\ ~Contains(@, r)
                             THEN Append(@, r) ELSE @])

-----------------------------------------------------------------------------
(* How a child's record is decided: _terminal_result and _terminal_simple.   *)

\* The terminal commit: record, result, reservation and events together.
Record(c, decided) ==
    /\ status' = [status EXCEPT ![c] = decided]
    /\ leased' = [leased EXCEPT ![c] = FALSE]
    /\ result' = [result EXCEPT ![c] = decided]

\* _reservations.pop, settle.
SettleOf(c) ==
    /\ ledger' = [ledger EXCEPT ![parent[c]] = Settle(@, held[c], 1)]
    /\ held' = [held EXCEPT ![c] = "none"]

NothingRecorded == UNCHANGED <<status, leased, result>>

\* Commit, settle, notify; a record that is already terminal is left alone.
Decide(c, decided) ==
    IF status[c] \in Terminal
    THEN NothingRecorded /\ UNCHANGED <<ledger, held, statusGeneration>>
    ELSE Record(c, decided) /\ SettleOf(c) /\ statusGeneration' = statusGeneration + 1

\* The commit raises.  It may have happened all the same, and then nothing is
\* settled and nobody is told.
DecideFails(c, decided) ==
    /\ \/ NothingRecorded
       \/ status[c] \notin Terminal /\ Record(c, decided)
    /\ UNCHANGED <<ledger, held, statusGeneration>>

-----------------------------------------------------------------------------
(* agent.spawn.  The lock is held from the reservation to the submission.    *)

Up == startup = "up"

SpawnReserve(r, c) ==
    /\ Up /\ tool = NoTool /\ lock = "free"
    /\ parent[c] = r /\ status[c] = "none"
    /\ root[r] = "running" /\ ~scopeCancelled[r]
    /\ Affordable(ledger[r])
    /\ ledger' = [ledger EXCEPT ![r] = Reserve(@)]
    /\ lock' = "spawn"
    /\ tool' = [NoTool EXCEPT !.op = "spawn", !.root = r, !.child = c, !.at = "reserved"]
    /\ UNCHANGED <<durable, tasks, cancel, statusGeneration, roots, held, startupVars, bounds>>

Spawning(at) == Up /\ tool.op = "spawn" /\ tool.at = at

\* The record, the Run, the context, the receipt and the event are one commit;
\* when the commit raises although it happened, the receipt says so.
SpawnPersist ==
    /\ Spawning("reserved")
    /\ status' = [status EXCEPT ![tool.child] = "queued"]
    /\ held' = [held EXCEPT ![tool.child] = "fresh"]
    /\ tool' = [tool EXCEPT !.at = "persisted"]
    /\ UNCHANGED <<parent, leased, result, rootDone, checkpoint, tasks, lock, cancel,
                   statusGeneration, roots, ledger, startupVars, bounds>>

\* Nothing was committed: the reservation goes back.
SpawnRefused ==
    /\ Spawning("reserved") /\ Fault
    /\ ledger' = [ledger EXCEPT ![tool.root] = Settle(@, "fresh", 0)]
    /\ lock' = "free" /\ tool' = NoTool
    /\ UNCHANGED <<durable, tasks, cancel, statusGeneration, roots, held, startupVars, crashes>>

\* It was, but reading the receipt back fails too.
SpawnLost ==
    /\ Spawning("reserved") /\ Fault
    /\ status' = [status EXCEPT ![tool.child] = "queued"]
    /\ lock' = "free" /\ tool' = NoTool
    /\ UNCHANGED <<parent, leased, result, rootDone, checkpoint, tasks, cancel, statusGeneration,
                   roots, ledger, held, startupVars, crashes>>

\* The submission raises when a job of another root that it dispatches does; the
\* child itself stays queued in the scheduler, or started, all the same.
SpawnSubmit ==
    /\ Spawning("persisted")
    /\ LET s == Submitted(tool.child)
       IN /\ Start(s, pc)
          /\ IF s.broken THEN tool' = [tool EXCEPT !.at = "raised"] /\ UNCHANGED lock
             ELSE tool' = NoTool /\ lock' = "free"
    /\ UNCHANGED <<durable, cancel, statusGeneration, roots, ledger, held, startupVars, bounds>>

\* Then the child is recorded as failed.
SpawnFailed ==
    /\ Spawning("raised")
    /\ \/ Decide(tool.child, "failed") /\ NoFault
       \/ DecideFails(tool.child, "failed") /\ Fault
    /\ lock' = "free" /\ tool' = NoTool
    /\ UNCHANGED <<parent, rootDone, checkpoint, tasks, cancel, roots, startupVars, crashes>>

\* The Run is cancelled while the call publishes its event: the child stays
\* queued in the database and is never handed to the scheduler.
SpawnAbandoned ==
    /\ Spawning("persisted") /\ scopeCancelled[tool.root]
    /\ lock' = "free" /\ tool' = NoTool
    /\ UNCHANGED <<durable, tasks, cancel, statusGeneration, roots, ledger, held,
                   startupVars, bounds>>

-----------------------------------------------------------------------------
(* A child's task: _started, _run_child, _finished, and `_execute' around    *)
(* them.                                                                     *)

\* A child cancelled while queued does not start, and the event stream of a
\* decided one takes no more events.
MayStart(c) == status[c] \notin Terminal \cup {"cancel_requested"}

Started(c) ==
    /\ Up /\ pc[c] = "dispatched" /\ lock = "free"
    /\ MayStart(c)
    /\ status' = [status EXCEPT ![c] = "running"] /\ leased' = [leased EXCEPT ![c] = TRUE]
    /\ pc' = [pc EXCEPT ![c] = "running"]
    /\ UNCHANGED <<parent, result, rootDone, checkpoint, sched, outcome, signalled, service,
                   roots, ledger, held, startupVars, bounds>>

NotStarted(c) ==
    /\ Up /\ pc[c] = "dispatched" /\ lock = "free"
    /\ \/ ~MayStart(c) /\ outcome' = [outcome EXCEPT ![c] = "cancelled"] /\ NoFault
       \/ MayStart(c) /\ outcome' = [outcome EXCEPT ![c] = "error"] /\ Fault
    /\ pc' = [pc EXCEPT ![c] = "finishing"]
    /\ UNCHANGED <<durable, sched, signalled, service, roots, ledger, held, startupVars, crashes>>

\* The Agent Loop ends in a terminal phase: cancelled only when its scope is,
\* though a result may come in before the loop notices.
RunEnds(c, phase) ==
    /\ Up /\ pc[c] = "running"
    /\ phase \in {"completed", "failed"} \cup (IF signalled[c] THEN {"cancelled"} ELSE {})
    /\ outcome' = [outcome EXCEPT ![c] = phase]
    /\ pc' = [pc EXCEPT ![c] = "finishing"]
    /\ UNCHANGED <<durable, sched, signalled, service, roots, ledger, held, startupVars, bounds>>

\* What the runner tells the scheduler.  `_execute_agent_run' looks for the
\* terminal event, the Turn and the released session lease that only a root Run
\* writes, misses them, and raises AgentLoopFailure.
Reported(c) == IF HarnessRunner THEN "error" ELSE outcome[c]

\* _finished_locked: what the record becomes.  A result that arrives after the
\* cancellation was requested is kept for audit only.
Decided(c) ==
    CASE Reported(c) \in {"completed", "failed"} ->
             IF status[c] = "cancel_requested" THEN "cancelled" ELSE Reported(c)
      [] Reported(c) = "cancelled" -> "cancelled"
      [] OTHER -> "failed"

\* The terminal commit; the lock is held until `_notify_status'.
Finish(c) ==
    /\ Up /\ pc[c] = "finishing" /\ lock = "free" /\ status[c] \notin Terminal
    /\ Record(c, Decided(c))
    /\ lock' = c
    /\ pc' = [pc EXCEPT ![c] = "committed"]
    /\ outcome' = [outcome EXCEPT ![c] = "none"]
    /\ UNCHANGED <<parent, rootDone, checkpoint, sched, signalled, tool, cancel,
                   statusGeneration, roots, ledger, held, startupVars, bounds>>

\* Already recorded as failed by the spawn that could not submit it.
FinishDecided(c) ==
    /\ Up /\ pc[c] = "finishing" /\ lock = "free" /\ status[c] \in Terminal
    /\ pc' = [pc EXCEPT ![c] = "closing"]
    /\ UNCHANGED <<durable, sched, outcome, signalled, service, roots, ledger, held,
                   startupVars, bounds>>

\* The commit raises: `_execute' closes the child all the same.
FinishFails(c) ==
    /\ Up /\ pc[c] = "finishing" /\ lock = "free" /\ Fault
    /\ DecideFails(c, Decided(c))
    /\ pc' = [pc EXCEPT ![c] = "closing"]
    /\ UNCHANGED <<parent, rootDone, checkpoint, sched, outcome, signalled, lock, tool, cancel,
                   roots, startupVars, crashes>>

Notify(c) ==
    /\ Up /\ pc[c] = "committed"
    /\ SettleOf(c)
    /\ statusGeneration' = statusGeneration + 1
    /\ lock' = "free"
    /\ pc' = [pc EXCEPT ![c] = "closing"]
    /\ UNCHANGED <<durable, sched, outcome, signalled, tool, cancel, roots, startupVars, bounds>>

Close(c) ==
    /\ Up /\ pc[c] = "closing"
    /\ Start(Closed(c), [pc EXCEPT ![c] = "gone"])
    /\ UNCHANGED <<durable, service, roots, ledger, held, startupVars, bounds>>

-----------------------------------------------------------------------------
(* Cancelling children: agent.cancel names one, the end of a root names all. *)

AgentCancel(r, c) ==
    /\ Up /\ tool = NoTool /\ root[r] = "running" /\ ~scopeCancelled[r]
    /\ parent[c] = r /\ status[c] \in {"queued", "running"}
    /\ cancel[r] = Idle
    /\ tool' = [NoTool EXCEPT !.op = "cancel", !.root = r, !.child = c]
    /\ cancel' = [cancel EXCEPT ![r].todo = {c}]
    /\ UNCHANGED <<durable, tasks, lock, statusGeneration, roots, ledger, held, startupVars, bounds>>

AgentCancelReturns ==
    /\ Up /\ tool.op = "cancel" /\ cancel[tool.root] = Idle
    /\ tool' = NoTool
    /\ UNCHANGED <<durable, tasks, lock, cancel, statusGeneration, roots, ledger, held,
                   startupVars, bounds>>

\* _mark_cancel_requested reads the record again under the lock.
Mutant_Marked(c) == IF status[c] = "cancel_requested" THEN status[c] ELSE "cancel_requested"
Marked(c) == IF status[c] \in Terminal THEN status[c] ELSE "cancel_requested"

CancelMark(r, c) ==
    /\ Up /\ cancel[r].child = None /\ c \in cancel[r].todo /\ lock = "free"
    /\ status' = [status EXCEPT ![c] = Marked(c)]
    /\ cancel' = [cancel EXCEPT ![r] = [todo |-> @.todo \ {c}, child |-> c, at |-> "marked"]]
    /\ UNCHANGED <<parent, leased, result, rootDone, checkpoint, tasks, lock, tool, statusGeneration,
                   roots, ledger, held, startupVars, bounds>>

\* A commit raises, durable or not; or the Run whose agent.cancel this is is
\* cancelled meanwhile, and the call with it.
CallOf(r) == tool.op = "cancel" /\ tool.root = r
CancelBreaks(r) == Fault \/ (CallOf(r) /\ scopeCancelled[r] /\ NoFault)

\* Either ends the loop over the children.
CancelMarkFails(r, c) ==
    /\ Up /\ cancel[r].child = None /\ c \in cancel[r].todo /\ lock = "free" /\ CancelBreaks(r)
    /\ status' \in {status, [status EXCEPT ![c] = Marked(c)]}
    /\ cancel' = [cancel EXCEPT ![r] = Idle]
    /\ UNCHANGED <<parent, leased, result, rootDone, checkpoint, tasks, lock, tool,
                   statusGeneration, roots, ledger, held, startupVars, crashes>>

Signalling(r, c) == Up /\ cancel[r].child = c /\ cancel[r].at = "marked"
Forget(r) == [cancel EXCEPT ![r] = [@ EXCEPT !.child = None, !.at = "none"]]

\* ChildRunScheduler.cancel: signal an active child ...
SignalActive(r, c) ==
    /\ Signalling(r, c) /\ c \in sched.active
    /\ signalled' = [signalled EXCEPT ![c] = TRUE]
    /\ cancel' = Forget(r)
    /\ UNCHANGED <<durable, sched, pc, outcome, lock, tool, statusGeneration, roots,
                   ledger, held, startupVars, bounds>>

\* ... or take a queued one out of its queue, and finish it right here ...
Mutant_FinishActive(r, c) ==
    /\ Signalling(r, c) /\ (c \in sched.active \/ Queued(c))
    /\ sched' = IF Queued(c) THEN Unqueued(c) ELSE sched
    /\ cancel' = [cancel EXCEPT ![r].at = "finish"]
    /\ UNCHANGED <<durable, pc, outcome, signalled, lock, tool, statusGeneration, roots,
                   ledger, held, startupVars, bounds>>
Mutant_DropQueued(r, c) ==
    /\ Signalling(r, c) /\ c \notin sched.active /\ Queued(c)
    /\ sched' = Unqueued(c)
    /\ cancel' = Forget(r)
    /\ UNCHANGED <<durable, pc, outcome, signalled, lock, tool, statusGeneration, roots,
                   ledger, held, startupVars, bounds>>
SignalQueued(r, c) ==
    /\ Signalling(r, c) /\ c \notin sched.active /\ Queued(c)
    /\ sched' = Unqueued(c)
    /\ cancel' = [cancel EXCEPT ![r].at = "finish"]
    /\ UNCHANGED <<durable, pc, outcome, signalled, lock, tool, statusGeneration, roots,
                   ledger, held, startupVars, bounds>>

\* ... or find that it is neither.
SignalNone(r, c) ==
    /\ Signalling(r, c) /\ c \notin sched.active /\ ~Queued(c)
    /\ cancel' = Forget(r)
    /\ UNCHANGED <<durable, tasks, lock, tool, statusGeneration, roots, ledger, held,
                   startupVars, bounds>>

FinishQueued(r, c) ==
    /\ Up /\ cancel[r].child = c /\ cancel[r].at = "finish" /\ lock = "free"
    /\ Decide(c, "cancelled")
    /\ cancel' = Forget(r)
    /\ UNCHANGED <<parent, rootDone, checkpoint, tasks, lock, tool, roots, startupVars, bounds>>

FinishQueuedFails(r, c) ==
    /\ Up /\ cancel[r].child = c /\ cancel[r].at = "finish" /\ lock = "free" /\ CancelBreaks(r)
    /\ \/ DecideFails(c, "cancelled")
       \/ /\ CallOf(r) /\ status[c] \notin Terminal    \* cut short in `_publish'
          /\ Record(c, "cancelled") /\ SettleOf(c) /\ UNCHANGED statusGeneration
    /\ cancel' = [cancel EXCEPT ![r] = Idle]
    /\ UNCHANGED <<parent, rootDone, checkpoint, tasks, lock, tool, roots, startupVars, crashes>>

-----------------------------------------------------------------------------
(* agent.wait for any child of the caller: the generation is read first, the *)
(* records next, and the wait is for a generation that differs.              *)

Waiting(at) == Up /\ tool.op = "wait" /\ tool.at = at
Done(r) == \E c \in Of(r) : status[c] \in Terminal
WaitReturn == tool' = NoTool

WaitBegin(r) ==
    /\ Up /\ tool = NoTool /\ root[r] = "running" /\ ~scopeCancelled[r]
    /\ \E c \in Of(r) : status[c] # "none"
    /\ tool' = [NoTool EXCEPT !.op = "wait", !.root = r, !.at = "counted",
                              !.seen = statusGeneration]
    /\ UNCHANGED <<durable, tasks, lock, cancel, statusGeneration, roots, ledger, held,
                   startupVars, bounds>>

WaitRead ==
    /\ Waiting("counted")
    /\ IF Done(tool.root) THEN WaitReturn ELSE tool' = [tool EXCEPT !.at = "read"]
    /\ UNCHANGED <<durable, tasks, lock, cancel, statusGeneration, roots, ledger, held,
                   startupVars, bounds>>

Mutant_Asleep == [tool EXCEPT !.at = "asleep", !.seen = statusGeneration]
Asleep == [tool EXCEPT !.at = "asleep"]
WaitSleep ==
    /\ Waiting("read")
    /\ tool' = Asleep
    /\ UNCHANGED <<durable, tasks, lock, cancel, statusGeneration, roots, ledger, held,
                   startupVars, bounds>>

\* Notified, timed out or cancelled, it reads the records once more and returns.
WaitEnds ==
    /\ Waiting("asleep")
    /\ WaitReturn
    /\ UNCHANGED <<durable, tasks, lock, cancel, statusGeneration, roots, ledger, held,
                   startupVars, bounds>>

-----------------------------------------------------------------------------
(* The root Run: it commits its RunState with a snapshot of its ledger, its  *)
(* scope may be cancelled, and its end cancels every child it ever spawned.  *)

\* (A snapshot that no crash is left to restore is not kept.)
Checkpoint(r) ==
    /\ Up /\ root[r] = "running" /\ checkpoint[r] # ledger[r] /\ crashes < MaxCrashes
    /\ checkpoint' = [checkpoint EXCEPT ![r] = ledger[r]]
    /\ UNCHANGED <<parent, status, leased, result, rootDone, tasks, service, roots, ledger, held,
                   startupVars, bounds>>

CancelScope(r) ==
    /\ Up /\ root[r] = "running" /\ ~scopeCancelled[r]
    /\ scopeCancelled' = [scopeCancelled EXCEPT ![r] = TRUE]
    /\ signalled' = [c \in Children |-> signalled[c] \/ c \in Of(r) \cap sched.active]
    /\ UNCHANGED <<durable, sched, pc, outcome, service, root, ledger, held, startupVars, bounds>>

\* No tool call of the Run is in flight when it ends: the kernel awaits them.
EndRoot(r) ==
    /\ Up /\ root[r] = "running" /\ tool.root # r
    /\ rootDone' = [rootDone EXCEPT ![r] = TRUE]
    /\ root' = [root EXCEPT ![r] = "ending"]
    /\ cancel' = [cancel EXCEPT ![r].todo = {c \in Of(r) : status[c] \notin Terminal \cup {"none"}}]
    /\ UNCHANGED <<parent, status, leased, result, checkpoint, tasks, lock, tool, statusGeneration,
                   scopeCancelled, ledger, held, startupVars, bounds>>

\* unregister_root keeps the scope while a child is open under it.
RootEnded(r) ==
    /\ Up /\ root[r] = "ending" /\ cancel[r] = Idle
    /\ root' = [root EXCEPT ![r] = "ended"]
    /\ UNCHANGED <<durable, tasks, service, scopeCancelled, ledger, held, startupVars, bounds>>

\* Its terminal commit fails: the task ends, and cancels no child.
RootLost(r) ==
    /\ Up /\ root[r] = "running" /\ tool.root # r /\ Fault
    /\ root' = [root EXCEPT ![r] = "ended"]
    /\ UNCHANGED <<durable, tasks, service, scopeCancelled, ledger, held, startupVars, crashes>>

-----------------------------------------------------------------------------
(* The Worker dies and starts again.  Restart recovery resumes some of the   *)
(* unfinished roots, their ledgers restored from the last checkpoint, and    *)
(* terminalises the rest; recover_orphans then scans the children.           *)

Crash(resumed) ==
    /\ crashes < MaxCrashes /\ crashes' = crashes + 1
    /\ resumed \subseteq {r \in Roots : ~rootDone[r]}
    /\ startup' = "recovering"
    /\ unscanned' = {c \in Children : status[c] = "queued" \/ (status[c] \in Leased /\ leased[c])}
    /\ root' = [r \in Roots |-> IF r \in resumed THEN "running" ELSE "ended"]
    /\ rootDone' = [r \in Roots |-> r \notin resumed]
    /\ ledger' = [r \in Roots |-> [checkpoint[r] EXCEPT !.adopted = 0]]
    /\ scopeCancelled' = [r \in Roots |-> FALSE]
    /\ held' = [c \in Children |-> "none"] /\ sched' = EmptyScheduler
    /\ pc' = [c \in Children |-> "none"] /\ outcome' = [c \in Children |-> "none"]
    /\ signalled' = [c \in Children |-> FALSE]
    /\ lock' = "recovery" /\ tool' = NoTool /\ cancel' = [r \in Roots |-> Idle]
    /\ statusGeneration' = 0
    /\ UNCHANGED <<parent, status, leased, result, checkpoint, faults>>

Recoverable(c) == HasLedger(parent[c]) /\ Adoptable(ledger[parent[c]])

\* No reservation to adopt: SubagentServiceError out of recover_orphans, and
\* the Worker does not start.
Blocked ==
    /\ startup' = "blocked"
    /\ UNCHANGED <<durable, tasks, service, roots, ledger, held, unscanned, bounds>>

\* One record at a time: an orphaned one is decided before the next is read.
Scanning(c) ==
    /\ startup = "recovering" /\ c \in unscanned
    /\ \A d \in unscanned \ {c} : status[d] # "orphaned"

AdoptFor(c) ==
    /\ ledger' = [ledger EXCEPT ![parent[c]] = Adopt(@)]
    /\ held' = [held EXCEPT ![c] = "adopted"]

\* _recover_queued
Requeue(c) ==
    /\ Scanning(c) /\ status[c] = "queued"
    /\ IF Recoverable(c)
       THEN /\ AdoptFor(c)
            /\ Start(Submitted(c), pc)
            /\ unscanned' = unscanned \ {c}
            /\ UNCHANGED <<durable, service, roots, startup, bounds>>
       ELSE Blocked

\* _mark_orphaned
Orphan(c) ==
    /\ Scanning(c) /\ status[c] \in Leased
    /\ status' = [status EXCEPT ![c] = "orphaned"] /\ leased' = [leased EXCEPT ![c] = FALSE]
    /\ UNCHANGED <<parent, result, rootDone, checkpoint, tasks, service, roots, ledger, held,
                   startupVars, bounds>>

\* At a safe checkpoint it is queued again, and else it is interrupted.
Resubmit(c) ==
    /\ Scanning(c) /\ status[c] = "orphaned"
    /\ IF Recoverable(c)
       THEN /\ AdoptFor(c)
            /\ status' = [status EXCEPT ![c] = "queued"]
            /\ Start(Submitted(c), pc)
            /\ unscanned' = unscanned \ {c}
            /\ UNCHANGED <<parent, leased, result, rootDone, checkpoint, service, roots, startup, bounds>>
       ELSE Blocked

Interrupt(c) ==
    /\ Scanning(c) /\ status[c] = "orphaned"
    /\ IF Recoverable(c)
       THEN /\ ledger' = [ledger EXCEPT ![parent[c]] = Settle(Adopt(@), "adopted", 1)]
            /\ Record(c, "interrupted")
            /\ unscanned' = unscanned \ {c}
            /\ statusGeneration' = statusGeneration + 1
            /\ UNCHANGED <<parent, rootDone, checkpoint, tasks, lock, tool, cancel, roots, held,
                           startup, bounds>>
       ELSE Blocked

RecoveryDone ==
    /\ startup = "recovering" /\ unscanned = {}
    /\ startup' = "up" /\ lock' = "free"
    /\ UNCHANGED <<durable, tasks, tool, cancel, statusGeneration, roots, ledger, held,
                   unscanned, bounds>>

-----------------------------------------------------------------------------
SpawnStep ==
    \/ SpawnPersist \/ SpawnRefused \/ SpawnLost \/ SpawnSubmit \/ SpawnFailed
    \/ SpawnAbandoned
WaitStep == WaitRead \/ WaitSleep \/ WaitEnds
ToolStep == SpawnStep \/ AgentCancelReturns \/ WaitStep
TaskStep(c) ==
    \/ Started(c) \/ NotStarted(c) \/ \E phase \in {"completed", "failed", "cancelled"} : RunEnds(c, phase)
    \/ Finish(c) \/ FinishDecided(c) \/ FinishFails(c) \/ Notify(c) \/ Close(c)
CancelStep(r) ==
    \/ \E c \in Children :
          \/ CancelMark(r, c) \/ CancelMarkFails(r, c)
          \/ SignalActive(r, c) \/ SignalQueued(r, c) \/ SignalNone(r, c)
          \/ FinishQueued(r, c) \/ FinishQueuedFails(r, c)
    \/ RootEnded(r)
RecoveryStep ==
    \/ \E c \in Children : Requeue(c) \/ Orphan(c) \/ Resubmit(c) \/ Interrupt(c)
    \/ RecoveryDone

Next ==
    \/ \E r \in Roots :
          \/ \E c \in Children : SpawnReserve(r, c) \/ AgentCancel(r, c)
          \/ WaitBegin(r) \/ Checkpoint(r) \/ CancelScope(r)
          \/ EndRoot(r) \/ RootLost(r) \/ CancelStep(r)
    \/ ToolStep
    \/ \E c \in Children : TaskStep(c)
    \/ RecoveryStep
    \/ \E resumed \in SUBSET Roots : Crash(resumed)

\* The event loop runs the tool in flight and some task that can run, a child's Run
\* ends at the latest by its deadline, and an I/O call answers.
Fairness ==
    /\ WF_vars(ToolStep)
    /\ WF_vars((\E c \in Children : TaskStep(c)) \/ (\E r \in Roots : CancelStep(r)))
    /\ WF_vars(RecoveryStep)

Spec == Init /\ [][Next]_vars
FairSpec == Spec /\ Fairness

-----------------------------------------------------------------------------
Statuses == Terminal \cup {"none", "queued", "running", "cancel_requested", "orphaned"}

\* Every variable has its type.
TypeOK ==
    /\ parent \in Parents
    /\ status \in [Children -> Statuses] /\ leased \in [Children -> BOOLEAN]
    /\ result \in [Children -> Terminal \cup {"none"}]
    /\ rootDone \in [Roots -> BOOLEAN]
    /\ \A r \in Roots : ledger[r].reserved \in Nat /\ checkpoint[r].reserved \in Nat
    /\ root \in [Roots -> {"running", "ending", "ended"}]
    /\ held \in [Children -> {"none", "fresh", "adopted"}]
    /\ pc \in [Children -> {"none", "dispatched", "running", "finishing", "committed",
                            "closing", "gone"}]
    /\ lock \in {"free", "spawn", "recovery"} \cup Children
    /\ startup \in {"up", "recovering", "blocked"}

InTask(c) == pc[c] \in {"dispatched", "running", "finishing", "committed", "closing"}

\* The scheduler's account is the truth, whatever way children were dispatched,
\* cancelled, failed or lost: a child has a task exactly while it occupies a
\* slot, the ceilings hold, and no child is queued twice or queued and active.
SlotsAreExact ==
    /\ sched.active = {c \in Children : InTask(c)}
    /\ Cardinality(sched.active) <= MaxWorkspace
    /\ \A r \in Roots : Cardinality(Of(r) \cap sched.active) <= MaxRoot
    /\ \A r \in Roots : IsInjective(sched.queue[r]) /\ ToSet(sched.queue[r]) \cap sched.active = {}

\* What the service holds for children is part of what the ledger has reserved,
\* after a restart that restored an older checkpoint too: settling a child never
\* returns budget that another one, or the root, is using.
ReservationsAreCovered ==
    startup # "blocked" =>
        \A r \in Roots :
            HasLedger(r) => Cardinality({c \in Of(r) : held[c] # "none"}) <= ledger[r].reserved

\* Neither slots nor budget are lost or counted twice on any way a child ends.
AccountsAreExact == SlotsAreExact /\ ReservationsAreCovered

\* A task runs a child only while its record is undecided: no step of a
\* canceller, a finished job or a recovery decides a record under a live run.
RunsOnlyUndecided ==
    \A c \in Children : pc[c] = "running" => status[c] \in Leased /\ leased[c]

\* agent.wait is never asleep over a child that is already done, unless whoever
\* decided it is about to move the generation on, or was told that its commit had
\* failed though it had not, and has left the child's reservation unsettled too.
NoLostWakeup ==
    Waiting("asleep") =>
        \A c \in Of(tool.root) :
            status[c] \in Terminal =>
                \/ tool.seen # statusGeneration
                \/ \E d \in Children : pc[d] = "committed"
                \/ held[c] # "none" /\ faults > 0

Undecided(c) == status[c] \notin Terminal \cup {"none"}
Scheduled(c) == Queued(c) \/ InTask(c) \/ c \in unscanned
Cancelling(c) == \E r \in Roots : cancel[r].child = c
Stranded(c) == Undecided(c) /\ ~Scheduled(c) /\ ~Cancelling(c) /\ tool.child # c

\* The scheduler loses no child by itself: one that nothing will ever decide was
\* struck by a fault, a crash, or a cancellation in the middle of its spawn.
StrandedHasACause ==
    \A c \in Children :
        Stranded(c) => faults > 0 \/ crashes > 0 \/ scopeCancelled[parent[c]]

\* A decided record is never decided again, and its stored result says the same,
\* with two cancellers, the child's own task and recovery after it.  And a result that
\* loses the race against a cancellation is not taken as one: a child asked to stop is
\* never completed, nor started, in that life.
DecisionIsFinal ==
    [][\A c \in Children :
          /\ status[c] \in Terminal => status'[c] = status[c] /\ result'[c] = status[c]
          /\ status[c] = "cancel_requested" =>
                status'[c] \in {"cancel_requested", "cancelled", "failed", "orphaned"}]_vars

\* Again and again there comes a moment when every child is decided or stranded,
\* or the Worker cannot start: no child keeps its slot, its place in the queue or
\* its canceller for ever.
ChildrenEnd ==
    []<>(startup = "blocked" \/ \A c \in Children : Undecided(c) => Stranded(c))

-----------------------------------------------------------------------------
\* What the repository says and the code does not do.

\* README.md:23, "converges after disconnections and crashes": a Worker that
\* crashed starts again.
WorkerStarts == startup # "blocked"

\* harness_service.py:1049, "Execute a persisted child through this
\* HarnessService's only Agent Loop": a child whose Agent Loop completed, and that
\* nobody cancelled, is recorded as completed.
CompletedRunIsCompleted ==
    [][\A c \in Children :
          pc[c] = "finishing" /\ outcome[c] = "completed" /\ status[c] = "running" /\ Finish(c) =>
              status'[c] = "completed"]_vars

=============================================================================
