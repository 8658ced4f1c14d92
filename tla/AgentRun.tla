------------------------------- MODULE AgentRun -------------------------------
(***************************************************************************)
(* One root Run of the OfferAgent Worker, from its first phase to its       *)
(* terminal commit and through the restarts that interrupt it:              *)
(* agent/loop.py driving tools/kernel.py and tools/scheduler.py over the    *)
(* Invocation Journal, each step recorded by runtime/event_bus.py, and      *)
(* runtime/recovery.py, recovery_apply.py and startup.py after a crash.     *)
(*                                                                          *)
(* Three copies of RunState exist and are not always equal: the durable one *)
(* (rs), the one the loop holds (local) and the one its lifecycle observer, *)
(* or a nested coroutine, advances during a batch or a response (inner).    *)
(*                                                                          *)
(* Abstractions.                                                            *)
(*  - A call is its number; a plan lists its calls in increasing order.     *)
(*    RunState is its phase, its pending calls and the status recorded for  *)
(*    each call; revisions are implied by `stale' (see Commit).             *)
(*  - Commits that change none of these (model attempts, controls, text     *)
(*    deltas) are left out, and with them budgets, hooks and approvals: a   *)
(*    call they refuse is one of the refusals of Prepare.                   *)
(*  - The Worker configures no RetryPolicy: a call is attempted once.       *)
(*  - max_parallel_reads is at least the size of a group of reads.          *)
(*  - FAILED, DENIED, CONFLICTED, TIMED_OUT and an executor's CANCELLED are  *)
(*    "failed": the statuses that promise that nothing was committed.       *)
(***************************************************************************)
EXTENDS Naturals, FiniteSets, Sequences

CONSTANTS
    Calls,        \* tool calls the model may plan, in their planned order
    Kinds,        \* what the calls of a Run may be: functions from Calls to Kind
    MaxCrashes,   \* bound: Worker crashes
    MaxFaults     \* bound: failing database operations

ASSUME ConstantsAssumption ==
    /\ Calls \subseteq Nat
    /\ Kinds \subseteq [Calls -> {"vault", "write", "read", "query"}]
    /\ MaxCrashes \in Nat /\ MaxFaults \in Nat

VARIABLES
    kind,       \* kind[c]: what call c is, if it is planned; it never changes
    rs,         \* durable RunState
    told,       \* told[c]: the statuses of c in the durable event stream
    jrn,        \* Invocation Journal: none, started, unknown, or the COMPLETED status
    exe,        \* exe[c]: the executor's task: none, running, applied, ended
    applied,    \* applied[c]: how often the effect of c took place
    runs,       \* runs[c]: how often c was handed to its executor
    pc,         \* where the Run's task is
    local,      \* RunState held by run_agent_loop
    inner,      \* RunState held by the observer, the resumption or the response
    batch,      \* calls of the batch in hand
    at,         \* at[c]: where the kernel is with a call of the batch
    out,        \* out[c]: its result so far
    cancel,     \* why the Run's cancellation scope was cancelled, or "none"
    stale,      \* the recorder's revisions are behind the database
    crashes, faults

durable == <<rs, told>>
world   == <<exe, applied, runs>>
frame   == <<batch, at, out>>
vars    == <<kind, durable, jrn, world, pc, local, inner, frame, cancel, stale, crashes, faults>>

\* Tools with a WRITE, DESTRUCTIVE or UNKNOWN side effect, some of which run as Vault
\* transactions; concurrency-safe reads, idempotent and retryable; and queries, free
\* of side effects but not replayable.
VaultCalls == {c \in Calls : kind[c] = "vault"}
Writes     == {c \in Calls : kind[c] \in {"vault", "write"}}
Reads      == {c \in Calls : kind[c] = "read"}

Status    == {"succeeded", "failed", "cancelled", "partial", "unknown"}
Terminal  == {"COMPLETED", "CANCELLED", "FAILED", "INTERRUPTED"}
Phase     == {"CREATED", "LOADING_CONTEXT", "SELECTING_MEMORY", "PLANNING",
              "VALIDATING_CALLS", "CHECKING_POLICY", "EXECUTING_TOOLS",
              "RECORDING_RESULTS", "RESPONDING", "PERSISTING", "CANCELLING"} \cup Terminal
RunState  == [phase : Phase, pending : SUBSET Calls, results : [Calls -> Status \cup {"none"}]]
JrnState  == {"none", "started", "succeeded", "failed", "partial", "unknown"}
ExecState == {"none", "running", "applied", "ended"}
RunPC     == {"run", "batch", "resume", "replay", "respond", "cancelled",
              "interrupted", "failing", "ended", "dead", "down"}
CallPC    == {"out", "queued", "ready", "journaled", "starting", "started",
              "running", "finalize", "record", "recording", "done"}

Serial(c)   == c \notin Reads                \* ~ _parallel_preparation_safe
In(s, p)    == [s EXCEPT !.phase = p]
Mutant_RecordPending(s, c, r) == [s EXCEPT !.results[c] = r]
Record(s, c, r) == [s EXCEPT !.pending = @ \ {c}, !.results[c] = r]
Nothing     == [c \in Calls |-> "none"]
Outside     == [c \in Calls |-> "out"]

\* ALLOWED_PHASE_TRANSITIONS without the approval phase.
Busy == {"CANCELLING", "FAILED", "INTERRUPTED"}
Allowed == [p \in Phase |->
    CASE p = "CREATED"           -> {"LOADING_CONTEXT", "CANCELLING", "FAILED"}
      [] p = "LOADING_CONTEXT"   -> {"SELECTING_MEMORY"} \cup Busy
      [] p = "SELECTING_MEMORY"  -> {"PLANNING"} \cup Busy
      [] p = "PLANNING"          -> {"VALIDATING_CALLS", "RESPONDING"} \cup Busy
      [] p = "VALIDATING_CALLS"  -> {"CHECKING_POLICY", "RECORDING_RESULTS"} \cup Busy
      [] p = "CHECKING_POLICY"   -> {"EXECUTING_TOOLS", "RECORDING_RESULTS"} \cup Busy
      [] p = "EXECUTING_TOOLS"   -> {"RECORDING_RESULTS"} \cup Busy
      [] p = "RECORDING_RESULTS" -> {"EXECUTING_TOOLS", "PLANNING"} \cup Busy
      [] p = "RESPONDING"        -> {"PERSISTING"} \cup Busy
      [] p = "PERSISTING"        -> {"COMPLETED", "INTERRUPTED", "FAILED"}
      [] p = "CANCELLING"        -> {"CANCELLED", "INTERRUPTED"}
      [] OTHER                   -> {}]

Init ==
    /\ kind \in Kinds
    /\ rs = [phase |-> "CREATED", pending |-> {}, results |-> Nothing]
    /\ told = [c \in Calls |-> <<>>]
    /\ jrn = Nothing /\ exe = Nothing
    /\ applied = [c \in Calls |-> 0] /\ runs = [c \in Calls |-> 0]
    /\ pc = "run" /\ local = rs /\ inner = rs
    /\ batch = {} /\ at = Outside /\ out = Nothing
    /\ cancel = "none" /\ stale = FALSE /\ crashes = 0 /\ faults = 0

-----------------------------------------------------------------------------
(* UowRunRecorder.commit: state, projection and event in one unit of work.  *)
(* A raised commit either left nothing, or is durable while even reading it *)
(* back failed: then the recorder's revisions are stale and whatever it     *)
(* commits next conflicts.                                                  *)

Commit(s, log, ok) ==
    \/ /\ ok /\ ~stale
       /\ rs' = s /\ told' = log /\ UNCHANGED <<stale, faults>>
    \/ /\ ~ok /\ stale
       /\ UNCHANGED <<durable, stale, faults>>
    \/ /\ ~ok /\ ~stale /\ faults < MaxFaults /\ faults' = faults + 1
       /\ \/ rs' = s /\ told' = log /\ stale' = TRUE
          \/ UNCHANGED <<durable, stale>>

LeaveBatch == batch' = {} /\ at' = Outside /\ out' = Nothing

\* The task leaves what it was doing for one of its exception handlers.
Raise(handler) == pc' = handler /\ inner' = local /\ LeaveBatch

-----------------------------------------------------------------------------
(* run_agent_loop *)

\* Context is loaded and memory selected.
NextPhase == [p \in {"CREATED", "LOADING_CONTEXT", "SELECTING_MEMORY"} |->
    CASE p = "CREATED"         -> "LOADING_CONTEXT"
      [] p = "LOADING_CONTEXT" -> "SELECTING_MEMORY"
      [] OTHER                 -> "PLANNING"]

Load ==
    /\ pc = "run" /\ local.phase \in DOMAIN NextPhase
    /\ LET s == In(local, NextPhase[local.phase]) IN
       \/ Commit(s, told, TRUE) /\ local' = s /\ inner' = s /\ UNCHANGED <<pc, frame>>
       \/ Commit(s, told, FALSE) /\ Raise("failing") /\ UNCHANGED local
    /\ UNCHANGED <<jrn, world, cancel, crashes>>

\* The model answers with calls it never asked for before (ids are fresh).
Plan ==
    /\ pc = "run" /\ local.phase = "PLANNING"
    /\ LET s == In(local, "VALIDATING_CALLS")
           fresh == {c \in Calls : local.results[c] = "none" /\ told[c] = <<>>}
       IN \E b \in (SUBSET fresh) \ {{}} :
          \/ /\ Commit(s, told, TRUE)
             /\ local' = s /\ inner' = s /\ batch' = b /\ UNCHANGED <<pc, at, out>>
          \/ Commit(s, told, FALSE) /\ Raise("failing") /\ UNCHANGED local
    /\ UNCHANGED <<jrn, world, cancel, crashes>>

\* accept_tool_calls: the loop's copy advances before its commit.
Accept ==
    /\ pc = "run" /\ local.phase = "VALIDATING_CALLS" /\ local.pending = {}
    /\ LET s == [local EXCEPT !.pending = batch] IN
       /\ local' = s
       /\ \/ Commit(s, told, TRUE) /\ inner' = s /\ UNCHANGED <<pc, frame>>
          \/ Commit(s, told, FALSE) /\ pc' = "failing" /\ inner' = s /\ LeaveBatch
    /\ UNCHANGED <<jrn, world, cancel, crashes>>

\* From here to the end of the batch only the observer's copy advances.
Check ==
    /\ pc = "run" /\ local.phase = "VALIDATING_CALLS" /\ local.pending # {}
    /\ LET s == In(local, "CHECKING_POLICY") IN
       \/ /\ Commit(s, told, TRUE) /\ local' = s /\ inner' = s /\ pc' = "batch"
          /\ at' = [c \in Calls |-> IF c \in batch THEN "queued" ELSE "out"]
          /\ UNCHANGED <<batch, out>>
       \/ Commit(s, told, FALSE) /\ Raise("failing") /\ UNCHANGED local
    /\ UNCHANGED <<jrn, world, cancel, crashes>>

InBatch == pc \in {"batch", "replay"}
BatchDone == InBatch /\ \A c \in batch : at[c] = "done"

\* A resumption without calls to replay passes RECORDING_RESULTS explicitly.
Settle ==
    /\ BatchDone /\ inner.phase # "RECORDING_RESULTS"
    /\ LET s == In(inner, "RECORDING_RESULTS") IN
       \/ Commit(s, told, TRUE) /\ inner' = s /\ UNCHANGED <<pc, frame>>
       \/ Commit(s, told, FALSE) /\ Raise("failing")
    /\ UNCHANGED <<jrn, world, local, cancel, crashes>>

\* The loop adopts the observer's copy (a resumption only when it returns).
EndBatch ==
    /\ BatchDone /\ inner.phase = "RECORDING_RESULTS"
    /\ LET s == In(inner, "PLANNING")
           kept == IF pc = "batch" THEN inner ELSE local
       IN \/ Commit(s, told, TRUE) /\ local' = s /\ inner' = s /\ pc' = "run"
          \/ Commit(s, told, FALSE) /\ local' = kept /\ inner' = kept /\ pc' = "failing"
    /\ LeaveBatch
    /\ UNCHANGED <<jrn, world, cancel, crashes>>

\* evaluate_response_readiness, then _complete_with_response on its own copy.
Respond ==
    /\ pc = "run" /\ local.phase = "PLANNING" /\ local.pending = {}
    /\ LET s == In(local, "RESPONDING") IN
       \/ Commit(s, told, TRUE) /\ inner' = s /\ pc' = "respond" /\ UNCHANGED frame
       \/ Commit(s, told, FALSE) /\ Raise("failing")
    /\ UNCHANGED <<jrn, world, local, cancel, crashes>>

Complete ==
    /\ pc = "respond"
    /\ LET last == inner.phase = "PERSISTING"
           s == In(inner, IF last THEN "COMPLETED" ELSE "PERSISTING")
       IN \/ Commit(s, told, TRUE) /\ inner' = s /\ pc' = (IF last THEN "ended" ELSE pc)
             /\ UNCHANGED frame
          \/ Commit(s, told, FALSE) /\ Raise("failing")
    /\ UNCHANGED <<jrn, world, local, cancel, crashes>>

-----------------------------------------------------------------------------
(* The exception handlers of run_agent_loop.  Each works on the loop's copy *)
(* and a failing commit ends the task with the Run's lease still held.      *)

Die == pc' = "dead" /\ UNCHANGED <<local, inner>>
HandlerCommit(p) ==
    LET s == In(local, p) IN
    \/ /\ p \in Allowed[local.phase] /\ Commit(s, told, TRUE)
       /\ local' = s /\ inner' = s /\ pc' = (IF p \in Terminal THEN "ended" ELSE pc)
    \/ p \in Allowed[local.phase] /\ Commit(s, told, FALSE) /\ Die
    \/ p \notin Allowed[local.phase] /\ Die /\ UNCHANGED <<durable, stale, faults>>

Failed ==
    /\ pc = "failing" /\ HandlerCommit("FAILED")
    /\ UNCHANGED <<jrn, world, frame, cancel, crashes>>

\* _cancelled: deadline fails the Run, shutdown interrupts it, the user cancels.
TerminalOf ==
    CASE pc = "interrupted" \/ cancel = "shutdown" -> "INTERRUPTED"
      [] cancel = "deadline"                       -> "FAILED"
      [] OTHER                                     -> "CANCELLED"

Cancelled ==
    /\ pc \in {"cancelled", "interrupted"}
    /\ HandlerCommit(IF TerminalOf = "FAILED" \/ TerminalOf \in Allowed[local.phase]
                     THEN TerminalOf ELSE "CANCELLING")
    /\ UNCHANGED <<jrn, world, frame, cancel, crashes>>

\* A budget is exhausted, or the planner, a hook or the preparation raises.
Raises ==
    /\ pc = "run" /\ local.phase \in DOMAIN NextPhase \cup {"PLANNING"}
    /\ Raise("failing")
    /\ UNCHANGED <<durable, jrn, world, local, cancel, stale, crashes, faults>>

\* A cancellation checkpoint of the loop itself.
LoopCheckpoint ==
    /\ cancel # "none"
    /\ \/ pc = "run" /\ local.phase \in {"CREATED", "LOADING_CONTEXT", "SELECTING_MEMORY", "PLANNING"}
       \/ pc = "resume"
       \/ pc = "respond" /\ inner.phase = "RESPONDING"
    /\ Raise("cancelled")
    /\ UNCHANGED <<durable, jrn, world, local, cancel, stale, crashes, faults>>

\* TurnManager.cancel, cancel_at_deadline, TurnManager.shutdown.
Cancel ==
    /\ cancel = "none" /\ pc \notin {"ended", "dead", "down"}
    /\ cancel' \in {"user", "deadline", "shutdown"}
    /\ UNCHANGED <<durable, jrn, world, pc, local, inner, frame, stale, crashes, faults>>

\* shutdown cancels the task itself after its grace period.
Kill ==
    /\ cancel # "none" /\ pc \notin {"ended", "dead", "down"}
    /\ IF pc \in {"cancelled", "interrupted", "failing"}
       THEN pc' = "dead" /\ UNCHANGED <<inner, frame>>
       ELSE Raise("interrupted")
    /\ UNCHANGED <<durable, jrn, world, local, cancel, stale, crashes, faults>>

-----------------------------------------------------------------------------
(* UnifiedToolKernel.execute_batch and ToolScheduler._execute_guarded: a     *)
(* serial call is a group of its own, neighbouring reads form one group,    *)
(* which is prepared in order and then executed concurrently.               *)

SameGroup(c, d) ==
    c = d \/ \A e \in batch : (e \in c..d \/ e \in d..c) => ~Serial(e)
InTurn(c) ==
    InBatch /\ \A d \in batch : d < c => (at[d] = "done" \/ SameGroup(c, d))
Prepared(c) ==
    InTurn(c) /\ \A d \in batch : SameGroup(c, d) => at[d] # "queued"
Mutant_NoObserver == \A c \in batch : at[c] \notin {"starting", "record", "recording"}
NoObserver == \A c \in batch : at[c] \notin {"starting", "recording"}

Go(c, place)        == at' = [at EXCEPT ![c] = place]
Finish(c, place, r) == at' = [at EXCEPT ![c] = place] /\ out' = [out EXCEPT ![c] = r]

\* What is reported when it cannot be known what an attempt has done.
Mutant_Doubt(c) == "failed"
Doubt(c) == IF c \in Writes THEN "unknown" ELSE "failed"

\* Registry, policy, hooks, preflight, approval: on to the gate, or refused.
Prepare(c) ==
    /\ at[c] = "queued" /\ InTurn(c)
    /\ \A d \in batch : d < c => at[d] # "queued"
    /\ \/ Go(c, "ready") /\ UNCHANGED out
       \/ Finish(c, "record", "failed")
    /\ UNCHANGED <<durable, jrn, world, pc, local, inner, batch, cancel, stale, crashes, faults>>

\* cancellation.checkpoint(): while preparing, at the gate and the locks,
\* before the journal, before the attempt, and while it is awaited.
Checkpoint(c) ==
    /\ cancel # "none" /\ at[c] \in {"queued", "ready", "started", "running"} /\ InTurn(c)
    /\ Raise("cancelled")
    /\ UNCHANGED <<durable, jrn, world, local, cancel, stale, crashes, faults>>

\* _prepare_journal, on what the journal holds before it is touched.
MayStart(c) == jrn[c] = "none" \/ (jrn[c] = "started" /\ c \in Reads)
PriorResult(c) == IF jrn[c] = "started" THEN Doubt(c) ELSE jrn[c]
PriorRecord(c) == IF jrn[c] = "started" /\ c \in Writes THEN "unknown" ELSE PriorResult(c)

Mutant_Begun(c) == jrn
Begun(c) == [jrn EXCEPT ![c] = "started"]
Journal(c) ==
    /\ at[c] = "ready" /\ Prepared(c)
    /\ IF MayStart(c)
       THEN jrn' = Begun(c) /\ Go(c, "journaled") /\ UNCHANGED out
       ELSE jrn' = [jrn EXCEPT ![c] = PriorRecord(c)] /\ Finish(c, "record", PriorResult(c))
    /\ UNCHANGED <<durable, world, pc, local, inner, batch, cancel, stale, crashes, faults>>

\* The journal raised, before or after its write: nothing will be attempted.
JournalUnavailable(c) ==
    /\ at[c] = "ready" /\ Prepared(c) /\ MayStart(c)
    /\ faults < MaxFaults /\ faults' = faults + 1
    /\ UNCHANGED jrn \/ jrn' = Begun(c)
    /\ Finish(c, "record", "failed")
    /\ UNCHANGED <<durable, world, pc, local, inner, batch, cancel, stale, crashes>>

\* execution_started: the phase if it changes, then the event of the call.
\* A failing commit is an exception of the guarded section, hence a result.
ObserveStart(c) ==
    /\ at[c] = "journaled" /\ NoObserver
    /\ IF inner.phase = "EXECUTING_TOOLS"
       THEN Go(c, "starting") /\ UNCHANGED <<durable, stale, faults, inner, out>>
       ELSE LET s == In(inner, "EXECUTING_TOOLS") IN
            \/ Commit(s, told, TRUE) /\ inner' = s /\ Go(c, "starting") /\ UNCHANGED out
            \/ Commit(s, told, FALSE) /\ Finish(c, "finalize", Doubt(c)) /\ UNCHANGED inner
    /\ UNCHANGED <<jrn, world, pc, local, batch, cancel, crashes>>

EventStart(c) ==
    /\ at[c] = "starting"
    /\ \/ Commit(inner, told, TRUE) /\ Go(c, "started") /\ UNCHANGED out
       \/ Commit(inner, told, FALSE) /\ Finish(c, "finalize", Doubt(c))
    /\ UNCHANGED <<jrn, world, pc, local, inner, batch, cancel, crashes>>

\* _attempt_with_controls hands the call over, unless its deadline has passed.
Attempt(c) ==
    /\ at[c] = "started" /\ cancel = "none"
    /\ Go(c, "running")
    /\ exe' = [exe EXCEPT ![c] = "running"] /\ runs' = [runs EXCEPT ![c] = @ + 1]
    /\ UNCHANGED <<durable, jrn, applied, pc, local, inner, batch, out, cancel, stale, crashes, faults>>

Expired(c) ==
    /\ at[c] = "started" /\ cancel = "none"
    /\ Finish(c, "finalize", Doubt(c))
    /\ UNCHANGED <<durable, jrn, world, pc, local, inner, batch, cancel, stale, crashes, faults>>

\* An executor answers what it did; an exception of a write leaves it unknown.
Mutant_Answers(c) == {"failed"} \cup (IF c \in Writes /\ exe[c] # "applied" THEN {} ELSE {"succeeded"})
Answers(c) ==
    CASE c \notin Writes       -> {"succeeded", "failed"}
      [] exe[c] = "applied"    -> {"succeeded", "partial", "unknown"}
      [] OTHER                 -> {"failed", "unknown"}

Return(c) ==
    /\ at[c] = "running"
    /\ \E r \in Answers(c) : Finish(c, "finalize", r)
    /\ exe' = [exe EXCEPT ![c] = "ended"]
    /\ UNCHANGED <<durable, jrn, applied, runs, pc, local, inner, batch, cancel, stale, crashes, faults>>

\* The grace period brought no committed result: the task may be a straggler.
Timeout(c) ==
    /\ at[c] = "running"
    /\ Finish(c, "finalize", Doubt(c))
    /\ UNCHANGED <<durable, jrn, world, pc, local, inner, batch, cancel, stale, crashes, faults>>

\* _finalize_journal; a failing write leaves the record STARTED or in place.
Mutant_AfterFinalizeFailure(c) == IF c \in Writes THEN "failed" ELSE out[c]
AfterFinalizeFailure(c) ==
    IF c \in Writes /\ out[c] # "failed" THEN "partial" ELSE out[c]

Finalize(c) ==
    /\ at[c] = "finalize"
    /\ LET done == [jrn EXCEPT ![c] = out[c]] IN
       \/ jrn' = done /\ Go(c, "record") /\ UNCHANGED <<out, faults>>
       \/ /\ faults < MaxFaults /\ faults' = faults + 1
          /\ UNCHANGED jrn \/ jrn' = done
          /\ Finish(c, "record", AfterFinalizeFailure(c))
    /\ UNCHANGED <<durable, world, pc, local, inner, batch, cancel, stale, crashes>>

\* result_available: phase, then result and event together.  It runs outside
\* the guarded section: a failing commit ends the batch and the Run.
ObserveResult(c) ==
    /\ at[c] = "record" /\ NoObserver /\ Prepared(c)
    /\ out[c] = "cancelled" => \A d \in batch : d < c => at[d] = "done"
    /\ IF inner.phase = "RECORDING_RESULTS"
       THEN Go(c, "recording") /\ UNCHANGED <<durable, stale, faults, inner, pc, batch, out>>
       ELSE LET s == In(inner, "RECORDING_RESULTS") IN
            \/ /\ Commit(s, told, TRUE) /\ inner' = s /\ Go(c, "recording")
               /\ UNCHANGED <<pc, batch, out>>
            \/ Commit(s, told, FALSE) /\ Raise("failing")
    /\ UNCHANGED <<jrn, world, local, cancel, crashes>>

\* _abort_remaining_batch_call: what follows an unsuccessful serial call.
Later(c) == {d \in batch : d > c}
StopsBatch(c) == Serial(c) /\ out[c] \notin {"succeeded", "cancelled"}

EventResult(c) ==
    /\ at[c] = "recording"
    /\ LET s == Record(inner, c, out[c])
           log == [told EXCEPT ![c] = Append(@, out[c])]
           stopped == IF StopsBatch(c) THEN Later(c) ELSE {}
       IN \/ /\ Commit(s, log, TRUE) /\ inner' = s
             /\ at' = [d \in Calls |-> CASE d = c -> "done" [] d \in stopped -> "record"
                                         [] OTHER -> at[d]]
             /\ out' = [d \in Calls |-> IF d \in stopped THEN "cancelled" ELSE out[d]]
             /\ UNCHANGED <<pc, batch>>
          \/ Commit(s, log, FALSE) /\ Raise("failing")
    /\ UNCHANGED <<jrn, world, local, cancel, crashes>>

-----------------------------------------------------------------------------
(* The executor's task, which its caller may have left behind.              *)

Effect(c) ==
    /\ c \in Writes /\ exe[c] = "running"
    /\ exe' = [exe EXCEPT ![c] = "applied"] /\ applied' = [applied EXCEPT ![c] = @ + 1]
    /\ UNCHANGED <<durable, jrn, runs, pc, local, inner, frame, cancel, stale, crashes, faults>>

\* Nobody awaits this one any more.
StragglerEnds(c) ==
    /\ exe[c] \in {"running", "applied"} /\ at[c] # "running"
    /\ exe' = [exe EXCEPT ![c] = "ended"]
    /\ UNCHANGED <<durable, jrn, applied, runs, pc, local, inner, frame, cancel, stale, crashes, faults>>

-----------------------------------------------------------------------------
(* Crash and restart.  An executor may outlive the Worker that called it.   *)

Crash ==
    /\ pc \notin {"ended", "down"} /\ crashes < MaxCrashes
    /\ crashes' = crashes + 1
    /\ pc' = "down" /\ local' = rs /\ inner' = rs /\ LeaveBatch
    /\ cancel' = "none" /\ stale' = FALSE
    /\ UNCHANGED <<durable, jrn, world, faults>>

\* Before Runs are recovered, Vault recovery completes the journal record of a
\* transaction whose manifest it can resolve; its thread died with the Worker.
SettleVault(c) ==
    /\ pc = "down" /\ c \in VaultCalls /\ jrn[c] = "started" /\ exe[c] # "none"
    /\ jrn' = [jrn EXCEPT ![c] = IF applied[c] > 0 THEN "succeeded" ELSE "failed"]
    /\ exe' = [exe EXCEPT ![c] = "ended"]
    /\ UNCHANGED <<durable, applied, runs, pc, local, inner, frame, cancel, stale, crashes, faults>>

\* RecoveryCoordinator._resolve: what the journal lets recovery do.
Replayable(c) == jrn[c] = "none" \/ (jrn[c] = "started" /\ c \in Reads)
Appliable(c)  == jrn[c] \in {"succeeded", "failed", "partial"}
Resumable ==
    /\ rs.pending # {}
    /\ \A c \in rs.pending : Replayable(c) \/ Appliable(c)

\* RecoveryPlanApplier: RESUME records what the journal knows and leaves the
\* rest pending; every other disposition interrupts the Run as it stands.
Mutant_Recovered(S) == [rs EXCEPT !.pending = @ \ S]
Recovered(S) == [rs EXCEPT !.pending = @ \ S,
                           !.results = [c \in Calls |-> IF c \in S THEN jrn[c] ELSE @[c]]]

Recover ==
    /\ pc = "down"
    /\ \/ /\ rs.phase \in Terminal
          /\ pc' = "ended" /\ UNCHANGED <<durable, local, inner, batch>>
       \/ /\ rs.phase \notin Terminal /\ Resumable
          /\ LET S == {c \in rs.pending : Appliable(c)} IN
             /\ rs' = Recovered(S) /\ local' = Recovered(S) /\ inner' = Recovered(S)
             /\ told' = [c \in Calls |-> IF c \in S THEN Append(told[c], jrn[c]) ELSE told[c]]
             /\ batch' = rs.pending \ S /\ pc' = "resume"
       \/ /\ rs.phase \notin Terminal    \* its deadline may have passed, too
          /\ LET s == In(rs, "INTERRUPTED") IN
             /\ rs' = s /\ local' = s /\ inner' = s /\ pc' = "ended"
             /\ UNCHANGED <<told, batch>>
    /\ UNCHANGED <<jrn, world, at, out, cancel, stale, crashes, faults>>

\* _resume_recovered_tool_batch; the loop's copy stays the recovered one.
ResumePhases ==
    {"VALIDATING_CALLS", "CHECKING_POLICY", "EXECUTING_TOOLS", "RECORDING_RESULTS"}
Resume ==
    /\ pc = "resume"
    /\ \/ /\ inner.phase = "VALIDATING_CALLS"
          /\ LET s == In(inner, "CHECKING_POLICY") IN
             \/ Commit(s, told, TRUE) /\ inner' = s /\ UNCHANGED <<pc, frame>>
             \/ Commit(s, told, FALSE) /\ Raise("failing")
       \/ /\ inner.phase \in ResumePhases \ {"VALIDATING_CALLS"}
          /\ pc' = "replay"
          /\ at' = [c \in Calls |-> IF c \in batch THEN "queued" ELSE "out"]
          /\ UNCHANGED <<durable, stale, faults, inner, batch, out>>
       \/ /\ inner.phase \notin ResumePhases
          /\ Raise("failing") /\ UNCHANGED <<durable, stale, faults>>
    /\ UNCHANGED <<jrn, world, local, cancel, crashes>>

-----------------------------------------------------------------------------
Kernel(c) ==
    \/ Prepare(c) \/ Journal(c) \/ ObserveStart(c) \/ EventStart(c)
    \/ Attempt(c) \/ Return(c) \/ Timeout(c) \/ Finalize(c)
    \/ ObserveResult(c) \/ EventResult(c) \/ Checkpoint(c)

Loop ==
    \/ Load \/ Plan \/ Accept \/ Check \/ Settle \/ EndBatch \/ Respond \/ Complete
    \/ Failed \/ Cancelled \/ LoopCheckpoint \/ Recover \/ Resume

Environment ==
    \/ Raises \/ Cancel \/ Kill \/ Crash
    \/ \E c \in Calls : JournalUnavailable(c) \/ Expired(c) \/ Effect(c)
                        \/ StragglerEnds(c) \/ SettleVault(c)

Progress == Loop \/ \E c \in Calls : Kernel(c)
Next == (Progress \/ Environment) /\ UNCHANGED kind

\* Ready callbacks of the event loop run, a startup continues, and every
\* attempt ends because it has a timeout and a bounded termination grace.
Fairness == WF_vars(Progress /\ UNCHANGED kind)

Spec     == Init /\ [][Next]_vars
FairSpec == Spec /\ Fairness

-----------------------------------------------------------------------------
TypeOK ==
    /\ kind \in Kinds
    /\ rs \in RunState /\ local \in RunState /\ inner \in RunState
    /\ told \in [Calls -> Seq(Status)] /\ jrn \in [Calls -> JrnState]
    /\ exe \in [Calls -> ExecState] /\ applied \in [Calls -> Nat] /\ runs \in [Calls -> Nat]
    /\ pc \in RunPC /\ batch \subseteq Calls
    /\ at \in [Calls -> CallPC] /\ out \in [Calls -> Status \cup {"none"}]
    /\ cancel \in {"none", "user", "deadline", "shutdown"} /\ stale \in BOOLEAN
    /\ crashes \in 0..MaxCrashes /\ faults \in 0..MaxFaults

\* A tool with side effects is handed to its executor at most once, and takes
\* effect at most once, whatever is cancelled, times out, fails or crashes
\* (docs/adr/0004: committed side effects must not be executed again).
AtMostOnce == \A c \in Writes : runs[c] <= 1 /\ applied[c] <= 1

\* What the event stream says of a write is the truth, now and later: success
\* means that it took effect, failure or cancellation that it did not and that
\* no straggler can still make it so.
Reported(c) == {told[c][i] : i \in DOMAIN told[c]}
ToldIsTrue ==
    \A c \in Writes :
        /\ "succeeded" \in Reported(c) => applied[c] = 1
        /\ Reported(c) \cap {"failed", "cancelled"} # {}
               => applied[c] = 0 /\ exe[c] # "running"

\* The event stream carries one result per call, be it recorded by the live
\* Worker, by recovery or after a replay.  Only a Run that was being cancelled
\* is an exception: its handler's commit forgets the results of the batch, and
\* recovery writes those the journal holds once more.  No commit follows the terminal
\* one: not by a straggling observer, a handler that believes its own commit failed,
\* or a restart.
StreamIsFinal ==
    [][/\ \A c \in Calls : told[c] # <<>> /\ told'[c] # told[c]
            => pc = "down" /\ rs.phase = "CANCELLING"
       /\ rs.phase \in Terminal => UNCHANGED durable]_vars

\* An effect in the world can be found: as long as its call has no recorded
\* result the journal holds it as STARTED, unknown, partial or succeeded, so recovery
\* neither replays nor forgets it.
EffectsAreTraceable ==
    \A c \in Writes : applied[c] > 0 => jrn[c] \in {"started", "unknown", "partial", "succeeded"}

\* A completed Run accounts for every call it ever attempted.
CompletedAccountsForAll ==
    rs.phase = "COMPLETED" =>
        /\ rs.pending = {}
        /\ \A c \in Calls : runs[c] > 0 => rs.results[c] # "none" /\ Len(told[c]) = 1

\* Seen from its event stream every write is an effect that is decided once and
\* reported as it was decided; a result that promises nothing is "unknown".
DecidedOf(c) ==
    CASE applied[c] > 0                              -> "commit"
      [] Reported(c) \cap {"failed", "cancelled"} # {} -> "abort"
      [] OTHER                                       -> "open"
ReportedOf(c) ==
    IF told[c] = <<>> THEN "none"
    ELSE CASE Head(told[c]) = "succeeded"             -> "success"
           [] Head(told[c]) \in {"failed", "cancelled"} -> "failed"
           [] OTHER                                   -> "unknown"

Decision(c) == INSTANCE EffectDecision WITH
    Calls    <- {c},
    decided  <- [d \in {c} |-> DecidedOf(d)],
    reported <- [d \in {c} |-> ReportedOf(d)]

\* One step of the Run (a recovery, for one) may move several effects, each as
\* EffectDecision allows.
EffectsAreDecidedOnce ==
    [][\A c \in Writes : UNCHANGED <<DecidedOf(c), ReportedOf(c)>> \/ Decision(c)!Next]_vars

\* The Run ends: with a terminal commit, or its task died because even that
\* commit failed, and then the next start will find it.
RunEnds == <>[](rs.phase \in Terminal \/ pc = "dead")

-----------------------------------------------------------------------------
\* HarnessService.retry_turn looks for side effects in the results of the
\* terminal RunState.
RetryAllowed ==
    /\ pc = "ended" /\ rs.phase \in Terminal
    /\ \A c \in Writes : rs.results[c] \notin {"succeeded", "partial", "unknown"}

\* "retry is denied because the source Run may have external side effects": no
\* retry is accepted of a Run whose own events report an effect.
RetryIsClean ==
    RetryAllowed => \A c \in Writes : Reported(c) \subseteq {"failed", "cancelled"}
=============================================================================
