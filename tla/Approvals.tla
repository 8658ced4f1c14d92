------------------------------ MODULE Approvals ------------------------------
(***************************************************************************)
(* The approval of one ToolCall: runtime/approval_manager.py between the     *)
(* kernel that asks (tools/kernel.py, outside the execution gate and again   *)
(* inside it), the observer that keeps the Run's pending approvals           *)
(* (agent/loop.py), the clients that answer approval/resolve, the deletion   *)
(* of the session, and the restart that recovers the Run.                    *)
(*                                                                          *)
(* Abstractions.                                                            *)
(*  - One call has at most one ApprovalRecord (_ensure_pending).  A          *)
(*    resolution is its state, its scope and who decided with which reason:  *)
(*    what _same_resolution_intent compares.  All clients act as one actor   *)
(*    and comment alike.  Of the reusable scopes only SESSION is kept.       *)
(*  - Settings do not change: policy allows the call when an active grant    *)
(*    matches it and asks otherwise; hooks and stale contexts, which only    *)
(*    deny, are left out.                                                    *)
(*  - The lock is held by `lock' where an await separates its acquisition    *)
(*    from its release; a unit of work is one step.                          *)
(***************************************************************************)
EXTENDS Naturals

CONSTANTS
    Clients,      \* approval/resolve commands, each sent once
    MaxCrashes,   \* bound: Worker crashes
    MaxFaults     \* bound: failing units of work

ASSUME ConstantsAssumption ==
    /\ MaxCrashes \in Nat /\ MaxFaults \in Nat
    /\ {"none", "call", "delete"} \cap Clients = {}

VARIABLES
    rec,        \* the durable ApprovalRecord
    grant,      \* the session grant made from it
    due,        \* binding.expires_at has passed
    lock,       \* ApprovalManager._lock: its holder, what it resolves, how far
    fut,        \* the future in _waiters; Pending while it is not done
    pc,         \* where the kernel is with the call
    inGate,     \* ... inside the execution gate
    got,        \* the resolution it holds
    asked,      \* the approval is among the Run's durable pending approvals
    run,        \* the Run, or how it ended
    cancel,     \* its cancellation scope was cancelled
    client,     \* the commands
    del,        \* where the deletion of the session is
    crashes, faults

manager == <<lock, fut>>
task    == <<pc, inGate, got>>
vars    == <<rec, grant, due, manager, task, asked, run, cancel, client, del, crashes, faults>>

Resolution ==
    [state : {"none", "pending", "approved", "denied", "expired", "cancelled"},
     by    : {"none", "user", "new", "expiry", "late", "drift", "run", "session"},
     scope : {"once", "session"}]
Says(state, who) == [state |-> state, by |-> who, scope |-> "once"]
NoRecord   == Says("none", "none")
Pending    == Says("pending", "none")
Expired    == Says("expired", "expiry")
Decided(r) == r.state \notin {"none", "pending"}
Answers    == {Says("denied", "user"), Says("approved", "user"),
               [state |-> "approved", by |-> "user", scope |-> "session"]}
Free       == [by |-> "none", want |-> NoRecord, at |-> "free"]
Replies    == {"approved", "denied", "expired", "cancelled"}
TaskPC     == {"policy", "ensure", "required", "register", "refresh", "wait", "cancelling",
               "expiring", "pop", "observe", "already", "receipt", "gate", "exec", "done", "down"}
Live       == run \in {"active", "executing"}
Up         == pc # "down"

Init ==
    /\ rec = NoRecord /\ grant = "none" /\ due = FALSE
    /\ lock = Free /\ fut = NoRecord
    /\ pc = "policy" /\ inGate = FALSE /\ got = NoRecord
    /\ asked = FALSE /\ run = "active" /\ cancel = FALSE
    /\ client = [k \in Clients |-> [at |-> "idle", want |-> NoRecord, already |-> FALSE]]
    /\ del = "idle" /\ crashes = 0 /\ faults = 0

Fault == faults < MaxFaults /\ faults' = faults + 1
Goto(p) == pc' = p /\ UNCHANGED <<inGate, got>>

\* The call, or the Run with it, is over.  An exception of the preparation
\* fails the Run; one of the guarded section leaves a write unknown.
End(fate) == run' = fate /\ Goto("done")
Raise == End(IF inGate THEN "unknown" ELSE "failed")

-----------------------------------------------------------------------------
(* ApprovalManager.resolve                                                  *)

Effective(w) == IF w.state = "approved" /\ due THEN Says("expired", "late") ELSE w
Woken(r) == IF fut = Pending THEN r ELSE fut

Returns(who, r) ==
    \/ /\ who = "call" /\ pc' = "pop" /\ got' = r
       /\ UNCHANGED <<inGate, run, client, del>>
    \/ /\ who = "delete" /\ del' = "revoke" /\ UNCHANGED <<task, run, client>>
    \/ /\ who \in Clients
       /\ client' = [client EXCEPT ![who].at = IF client[who].already THEN "already" ELSE r.state]
       /\ UNCHANGED <<task, run, del>>

\* ApprovalConflict.
Conflicts(who) ==
    \/ who = "call" /\ Raise /\ UNCHANGED <<client, del>>
    \/ who = "delete" /\ del' = "recheck" /\ UNCHANGED <<task, run, client>>
    \/ /\ who \in Clients /\ client' = [client EXCEPT ![who].at = "conflict"]
       /\ UNCHANGED <<task, run, del>>

\* Any other exception.
Fails(who) ==
    \/ who = "call" /\ Raise /\ UNCHANGED <<client, del>>
    \/ who = "delete" /\ del' = "idle" /\ UNCHANGED <<task, run, client>>
    \/ /\ who \in Clients /\ client' = [client EXCEPT ![who].at = "error"]
       /\ UNCHANGED <<task, run, del>>

\* What a resolver finds decided is the answer if it is the decision it wants.
Mutant_Replays(who, w) == Returns(who, w) /\ fut' = Woken(w)
Replays(who, w) ==
    \/ rec = w /\ Returns(who, rec) /\ fut' = Woken(rec)
    \/ rec # w /\ Conflicts(who) /\ UNCHANGED fut

Resolve(who, w) ==
    /\ lock = Free /\ Up
    /\ \/ Decided(rec) /\ Replays(who, Effective(w)) /\ UNCHANGED lock
       \/ /\ ~Decided(rec)
          /\ lock' = [by |-> who, want |-> Effective(w), at |-> "commit"]
          /\ UNCHANGED <<fut, task, run, client, del>>
    /\ UNCHANGED <<rec, grant, due, asked, cancel, crashes, faults>>

Grant(r) == IF r.state = "approved" /\ r.scope = "session" THEN "active" ELSE grant
Store(r) == rec' = r /\ grant' = Grant(r)

\* Compare-and-swap on the record's revision, with the grant in one commit.
Commit ==
    /\ lock.at = "commit"
    /\ \/ /\ rec = Pending /\ Store(lock.want)
          /\ lock' = [lock EXCEPT !.at = "settle"]
          /\ UNCHANGED <<fut, task, run, client, del, faults>>
       \/ /\ rec = Pending /\ Fault
          /\ Store(lock.want) \/ UNCHANGED <<rec, grant>>
          /\ lock' = Free /\ Fails(lock.by) /\ UNCHANGED fut
       \/ /\ rec # Pending /\ Replays(lock.by, lock.want)
          /\ lock' = Free /\ UNCHANGED <<rec, grant, faults>>
    /\ UNCHANGED <<due, asked, cancel, crashes>>

Settle ==
    /\ lock.at = "settle" /\ Returns(lock.by, lock.want)
    /\ fut' = Woken(lock.want) /\ lock' = Free
    /\ UNCHANGED <<rec, grant, due, asked, cancel, crashes, faults>>

\* pending, find_pending, list_pending: they expire a record without the lock.
Lapse ==
    /\ rec = Pending /\ due /\ Up /\ rec' = Expired
    /\ UNCHANGED <<grant, due, manager, task, asked, run, cancel, client, del, crashes, faults>>

-----------------------------------------------------------------------------
(* The kernel and ApprovalManager.request                                   *)

\* Policy asks unless a grant matches; the request expires a TTL from now.
Policy ==
    /\ pc = "policy"
    /\ IF grant = "active"
       THEN Goto("gate") /\ UNCHANGED due
       ELSE Goto("ensure") /\ due' = IF rec = NoRecord THEN FALSE ELSE due
    /\ UNCHANGED <<rec, grant, manager, asked, run, cancel, client, del, crashes, faults>>

\* The record as _ensure_pending leaves it.  After a restart the preflight may
\* have found another state: the binding drifted.
Ensured(drift) ==
    CASE rec = NoRecord            -> IF due THEN Says("expired", "new") ELSE Pending
      [] rec = Pending /\ drift    -> Says("cancelled", "drift")
      [] rec = Pending /\ due      -> Expired
      [] OTHER                     -> rec

Ensure(drift) ==
    /\ pc = "ensure" /\ (drift => rec # NoRecord /\ crashes > 0 /\ ~inGate)
    /\ LET r == Ensured(drift) IN
       \/ /\ rec' = r /\ UNCHANGED faults
          /\ \/ drift /\ Raise
             \/ /\ ~drift /\ pc' = (IF Decided(r) THEN "already" ELSE "required") /\ got' = r
                /\ UNCHANGED <<inGate, run>>
       \/ Fault /\ rec' \in {rec, r} /\ Raise
    /\ UNCHANGED <<grant, due, manager, asked, cancel, client, del, crashes>>

\* The observer's commits: approval.required, then the resolution.
Required ==
    /\ pc = "required"
    /\ \/ asked' = TRUE /\ Goto("register") /\ UNCHANGED <<run, faults>>
       \/ Fault /\ asked' \in {asked, TRUE} /\ Raise
    /\ UNCHANGED <<rec, grant, due, manager, cancel, client, del, crashes>>

Register ==
    /\ pc = "register" /\ lock = Free
    /\ fut' = Pending /\ Goto("refresh")
    /\ UNCHANGED <<rec, grant, due, lock, asked, run, cancel, client, del, crashes, faults>>

\* The read that closes the lost-wakeup window.
Mutant_Refresh ==
    /\ pc = "refresh" /\ Goto("wait")
    /\ UNCHANGED <<rec, grant, due, manager, asked, run, cancel, client, del, crashes, faults>>
Refresh ==
    /\ pc = "refresh"
    /\ fut' = IF Decided(rec) THEN Woken(rec) ELSE fut
    /\ Goto("wait")
    /\ UNCHANGED <<rec, grant, due, lock, asked, run, cancel, client, del, crashes, faults>>

\* asyncio.wait: a decision counts before a cancellation, and that before expiry.
Wake ==
    /\ pc = "wait"
    /\ \/ Decided(fut) /\ pc' = "pop" /\ got' = fut /\ UNCHANGED inGate
       \/ ~Decided(fut) /\ cancel /\ Goto("cancelling")
       \/ ~Decided(fut) /\ ~cancel /\ due /\ Goto("expiring")
    /\ UNCHANGED <<rec, grant, due, manager, asked, run, cancel, client, del, crashes, faults>>

\* _resolve_system
ResolveSystem ==
    \/ pc = "cancelling" /\ Resolve("call", Says("cancelled", "run"))
    \/ pc = "expiring" /\ Resolve("call", Expired)

Pop ==
    /\ pc = "pop" /\ lock = Free
    /\ fut' = NoRecord /\ Goto("observe")
    /\ UNCHANGED <<rec, grant, due, lock, asked, run, cancel, client, del, crashes, faults>>

\* The observer knows only the approvals it was asked for and has not settled.
Observe ==
    /\ pc \in {"observe", "already"}
    /\ \/ asked /\ asked' = FALSE /\ Goto("receipt") /\ UNCHANGED <<run, faults>>
       \/ asked /\ Fault /\ asked' \in BOOLEAN /\ Raise
       \/ ~asked /\ Raise /\ UNCHANGED <<asked, faults>>
    /\ UNCHANGED <<rec, grant, due, manager, cancel, client, del, crashes>>

\* The journal is started, and the observer refuses a start with approvals
\* pending: an exception of the guarded section.
Execute ==
    IF asked THEN End("unknown") ELSE run' = "executing" /\ Goto("exec")

\* _resolve_approval once it has the receipt.
Receipt ==
    /\ pc = "receipt" /\ ~cancel
    /\ IF got.state = "approved" /\ ~due
       THEN IF inGate THEN Execute ELSE Goto("gate") /\ UNCHANGED run
       ELSE End("denied")
    /\ UNCHANGED <<rec, grant, due, manager, asked, cancel, client, del, crashes, faults>>

\* _revalidate_before_execution, when the gate and the locks are held.
Mutant_StillApproved == got.state = "approved"
StillApproved == got.state = "approved" /\ ~due
Gate ==
    /\ pc = "gate" /\ ~cancel
    /\ IF grant = "active" \/ StillApproved
       THEN Execute
       ELSE pc' = "ensure" /\ inGate' = TRUE /\ UNCHANGED <<got, run>>
    /\ UNCHANGED <<rec, grant, due, manager, asked, cancel, client, del, crashes, faults>>

Finish ==
    /\ pc = "exec" /\ End("ran")
    /\ UNCHANGED <<rec, grant, due, manager, asked, cancel, client, del, crashes, faults>>

\* cancellation.checkpoint()
Checkpoint ==
    /\ cancel /\ pc \in {"policy", "receipt", "gate"} /\ End("cancelled")
    /\ UNCHANGED <<rec, grant, due, manager, asked, cancel, client, del, crashes, faults>>

-----------------------------------------------------------------------------
(* approval/resolve                                                         *)

\* A client knows the approval from its approval.required event.  Whether it
\* is already resolved is read before the lock is taken.
Look(k) ==
    /\ client[k].at = "idle" /\ (asked \/ Decided(rec)) /\ Up
    /\ \E w \in Answers :
          client' = [client EXCEPT ![k] = [at |-> "sent", want |-> w, already |-> Decided(rec)]]
    /\ UNCHANGED <<rec, grant, due, manager, task, asked, run, cancel, del, crashes, faults>>

Answer(k) == client[k].at = "sent" /\ Resolve(k, client[k].want)

-----------------------------------------------------------------------------
(* SessionService.soft_delete.  Its gate only keeps new Runs out.            *)

DeleteBegins ==
    /\ del = "idle" /\ Up /\ run # "executing"
    /\ del' = IF Live THEN "cancel_run" ELSE "scan"
    /\ UNCHANGED <<rec, grant, due, manager, task, asked, run, cancel, client, crashes, faults>>

DeleteCancelsRun ==
    /\ del = "cancel_run" /\ del' = "await" /\ cancel' = (Live \/ cancel)
    /\ UNCHANGED <<rec, grant, due, manager, task, asked, run, client, crashes, faults>>

DeleteAwaitsRun ==
    /\ del = "await" /\ ~Live /\ del' = "scan"
    /\ UNCHANGED <<rec, grant, due, manager, task, asked, run, cancel, client, crashes, faults>>

Mutant_AfterScan == "revoke"
AfterScan == IF rec = Pending THEN "cancel" ELSE "revoke"
DeleteScans ==
    /\ del = "scan" /\ del' = AfterScan
    /\ UNCHANGED <<rec, grant, due, manager, task, asked, run, cancel, client, crashes, faults>>

DeleteCancels == del = "cancel" /\ Resolve("delete", Says("cancelled", "session"))

\* Who lost against another decision goes on once nothing is pending.
DeleteRechecks ==
    /\ del = "recheck"
    /\ rec' = IF rec = Pending /\ due THEN Expired ELSE rec
    /\ del' = IF rec' = Pending THEN "idle" ELSE "revoke"
    /\ UNCHANGED <<grant, due, manager, task, asked, run, cancel, client, crashes, faults>>

Revoked == IF grant = "active" THEN "revoked" ELSE grant
DeleteRevokes ==
    /\ del = "revoke"
    /\ \/ grant' = Revoked /\ del' = "finalize" /\ UNCHANGED faults
       \/ Fault /\ grant' \in {grant, Revoked} /\ del' = "idle"
    /\ UNCHANGED <<rec, due, manager, task, asked, run, cancel, client, crashes>>

\* _finalize_delete; its commit is read back when it raises.
DeleteFinalizes ==
    /\ del = "finalize"
    /\ \/ del' = (IF rec # Pending THEN "deleted" ELSE "idle") /\ UNCHANGED faults
       \/ Fault /\ del' = "idle"
    /\ UNCHANGED <<rec, grant, due, manager, task, asked, run, cancel, client, crashes>>

-----------------------------------------------------------------------------
Expire ==
    /\ ~due /\ due' = TRUE
    /\ UNCHANGED <<rec, grant, manager, task, asked, run, cancel, client, del, crashes, faults>>

Cancel ==
    /\ run = "active" /\ Up /\ cancel' = TRUE
    /\ UNCHANGED <<rec, grant, due, manager, task, asked, run, client, del, crashes, faults>>

Crash ==
    /\ Up /\ crashes < MaxCrashes /\ crashes' = crashes + 1
    /\ lock' = Free /\ fut' = NoRecord
    /\ pc' = (IF Live THEN "down" ELSE "done") /\ inGate' = FALSE /\ got' = NoRecord
    /\ cancel' = FALSE
    /\ client' = [k \in Clients |->
           IF client[k].at = "sent" THEN [client[k] EXCEPT !.at = "error"] ELSE client[k]]
    /\ del' = IF del = "deleted" THEN del ELSE "idle"
    /\ UNCHANGED <<rec, grant, due, asked, run, faults>>

\* Recovery resumes the pending call only if the approval it waits for is open.
Recover ==
    /\ pc = "down"
    /\ \/ End("interrupted")
       \/ /\ run = "active" /\ (asked => rec = Pending /\ ~due)
          /\ Goto("policy") /\ UNCHANGED run
    /\ UNCHANGED <<rec, grant, due, manager, asked, cancel, client, del, crashes, faults>>

-----------------------------------------------------------------------------
Kernel ==
    \/ Policy \/ (\E drift \in BOOLEAN : Ensure(drift)) \/ Required \/ Register
    \/ Refresh \/ Wake \/ ResolveSystem \/ Pop \/ Observe \/ Receipt \/ Gate \/ Finish
    \/ Checkpoint

Delete ==
    \/ DeleteBegins \/ DeleteCancelsRun \/ DeleteAwaitsRun \/ DeleteScans
    \/ DeleteCancels \/ DeleteRechecks \/ DeleteRevokes \/ DeleteFinalizes

Next ==
    \/ Kernel \/ Commit \/ Settle \/ Lapse \/ Delete
    \/ \E k \in Clients : Look(k) \/ Answer(k)
    \/ Expire \/ Cancel \/ Crash \/ Recover

Spec == Init /\ [][Next]_vars

\* The event loop runs what is ready; nobody has to answer, cancel or wait.
FairSpec == Spec /\ WF_vars(Kernel) /\ WF_vars(Commit) /\ WF_vars(Settle)

-----------------------------------------------------------------------------
\* The types; a future is registered only for a call that waits or died
\* waiting, and the call goes on from its approval only with a decision.
TypeOK ==
    /\ fut # NoRecord =>
           pc \in {"refresh", "wait", "cancelling", "expiring", "pop", "done"}
    /\ pc \in {"pop", "observe", "already", "receipt"} => Decided(got)
    /\ rec \in Resolution /\ fut \in Resolution /\ got \in Resolution
    /\ grant \in {"none", "active", "revoked"}
    /\ lock \in [by : {"none", "call", "delete"} \cup Clients, want : Resolution,
                 at : {"free", "commit", "settle"}]
    /\ pc \in TaskPC /\ inGate \in BOOLEAN
    /\ due \in BOOLEAN /\ asked \in BOOLEAN /\ cancel \in BOOLEAN
    /\ run \in {"active", "executing", "ran", "denied", "unknown", "failed",
                "cancelled", "interrupted"}
    /\ client \in [Clients -> [at : {"idle", "sent", "already", "conflict", "error"} \cup Replies,
                               want : Resolution, already : BOOLEAN]]
    /\ del \in {"idle", "cancel_run", "await", "scan", "cancel", "recheck", "revoke",
                "finalize", "deleted"}
    /\ crashes \in 0..MaxCrashes /\ faults \in 0..MaxFaults

-----------------------------------------------------------------------------
(* The inductive invariant: what ties the lock, the future and the kernel's   *)
(* copy to the record, and the deletion to the end of the Run.               *)

\* The lock: who holds it is still at the step that took it, what it stores is
\* a decision, an approval only if a user said so, and once stored it stays.
LockOK ==
    /\ lock.at = "free" => lock = Free
    /\ lock.by = "call" => pc \in {"cancelling", "expiring"}
    /\ lock.by = "delete" => del = "cancel"
    /\ lock.at # "free" => Decided(lock.want)
    /\ lock.at # "free" /\ lock.want.state = "approved" => lock.want.by = "user"
    /\ lock.at = "settle" => rec = lock.want
    /\ \A k \in Clients : client[k].at = "sent" => client[k].want \in Answers

\* Every copy of a decision is the record's.
DecisionOK ==
    /\ rec.state = "approved" => rec.by = "user"
    /\ grant = "active" => rec.state = "approved"
    /\ Decided(fut) => fut = rec
    /\ Decided(got) => got = rec

\* The deletion goes on without a Run, and revokes when nothing is pending.
DeleteOK ==
    /\ del \in {"scan", "cancel", "recheck", "revoke", "finalize", "deleted"} => ~Live
    /\ del \in {"revoke", "finalize", "deleted"} => rec # Pending
    /\ del \in {"finalize", "deleted"} => grant # "active"

\* The task is over when the Run is.
RunOK == pc = "done" <=> ~Live

\* What every reachable state satisfies, in the form that is inductive.
IInv == TypeOK /\ LockOK /\ DecisionOK /\ DeleteOK /\ RunOK

-----------------------------------------------------------------------------
\* A decision is taken once: no later answer, expiry, cancellation, deletion or
\* restart changes it, and the client that is told a decision is told this one.
DecidedOnce ==
    [][ /\ Decided(rec) => rec' = rec
        /\ \A k \in Clients :
              client'[k].at \in Replies /\ client'[k].at # client[k].at
                  => rec'.state = client'[k].at ]_vars

\* A call starts only on a decision of the user, taken before it expired and
\* still unexpired as it starts, unless a grant lets it.
RunsOnlyApproved ==
    [][ run' = "executing" /\ run # "executing"
            => /\ rec.state = "approved" /\ rec.by = "user"
               /\ ~due \/ grant = "active" ]_vars

\* A deleted session keeps neither a grant nor an approval that could make one,
\* whatever answer was on its way when the deletion began.
DeletedSessionHasNoGrant ==
    del = "deleted" => grant # "active" /\ rec # Pending

\* What a client was told reaches a call that waits for it, with no help from
\* expiry or cancellation: no wake-up is lost between reading and registering.
DecisionReachesTheCall ==
    (pc = "wait" /\ \E k \in Clients : client[k].at \in {"approved", "denied"})
        ~> pc # "wait"

\* tests/contract/test_tool_kernel_contract.py:1660-1662: a call whose approval
\* expired while it queued for the gate is denied when it asks again; it neither
\* fails its Run nor is reported unknown.
ExpiredRetryIsDenied ==
    [][ pc = "already" /\ rec.state = "approved" /\ due
            => run' \notin {"failed", "unknown"} ]_vars
=============================================================================
