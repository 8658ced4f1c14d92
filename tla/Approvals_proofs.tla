--------------------------- MODULE Approvals_proofs ---------------------------
(***************************************************************************)
(* Theorems of Approvals, for any set of commands and any bounds.           *)
(***************************************************************************)
EXTENDS Approvals, TLAPS

\* What nearly every step below unfolds.
USE ConstantsAssumption DEF IInv, Resolution, Replies, TaskPC, Live, Decided, Free, Pending,
    NoRecord, Says, manager, task, Goto, End, Raise, Up, Fault

-----------------------------------------------------------------------------
(* Every action preserves the invariant; those that move several of its      *)
(* parts have one step per part.                                             *)

\* The commit stores a decision, and the lock remembers which.
LEMMA CommitPreserves == ASSUME IInv, Commit PROVE IInv'
<1> USE DEF Commit, Store, Grant, Replays, Returns, Conflicts, Fails, Woken
<1>1. TypeOK'
  <2>1. CASE lock.by = "call"
    BY <2>1 DEF TypeOK, LockOK, DecisionOK
  <2>2. CASE lock.by = "delete"
    BY <2>2 DEF TypeOK, LockOK, DecisionOK
  <2>3. CASE lock.by \in Clients
    BY <2>3 DEF TypeOK, LockOK, DecisionOK
  <2>4. CASE lock.by = "none"
    BY <2>4 DEF TypeOK, LockOK, DecisionOK
  <2> QED BY <2>1, <2>2, <2>3, <2>4 DEF TypeOK, LockOK, DecisionOK
<1>2. LockOK'
  BY DEF LockOK, TypeOK, DecisionOK
<1>3. DecisionOK'
  BY DEF DecisionOK, LockOK, TypeOK
<1>4. DeleteOK'
  BY DEF DeleteOK, LockOK, RunOK, TypeOK, DecisionOK
<1>5. RunOK'
  BY DEF RunOK, LockOK, TypeOK
<1> QED BY <1>1, <1>2, <1>3, <1>4, <1>5

\* Who holds the lock returns what is stored and wakes the waiter with it.
LEMMA SettlePreserves == ASSUME IInv, Settle PROVE IInv'
<1> USE DEF Settle, Returns, Woken
<1>1. TypeOK'
  <2>1. CASE lock.by = "call"
    BY <2>1 DEF TypeOK, LockOK, DecisionOK
  <2>2. CASE lock.by = "delete"
    BY <2>2 DEF TypeOK, LockOK, DecisionOK
  <2>3. CASE lock.by \in Clients
    <3>1. lock.want.state \in Replies
      BY <2>3 DEF TypeOK, LockOK
    <3>2. client' \in [Clients -> [at : {"idle", "sent", "already", "conflict", "error"} \cup Replies,
                                  want : Resolution, already : BOOLEAN]]
      BY <2>3, <3>1 DEF TypeOK
    <3> QED BY <2>3, <3>2 DEF TypeOK
  <2>4. CASE lock.by = "none"
    BY <2>4 DEF TypeOK, LockOK, DecisionOK
  <2> QED BY <2>1, <2>2, <2>3, <2>4 DEF TypeOK, LockOK, DecisionOK
<1>2. LockOK'
  BY DEF LockOK, TypeOK, DecisionOK
<1>3. DecisionOK'
  BY DEF DecisionOK, LockOK, TypeOK
<1>4. DeleteOK'
  BY DEF DeleteOK, LockOK, RunOK, TypeOK, DecisionOK
<1>5. RunOK'
  BY DEF RunOK, LockOK, TypeOK
<1> QED BY <1>1, <1>2, <1>3, <1>4, <1>5

\* A reader that expires a record leaves one that is decided.
LEMMA LapsePreserves == ASSUME IInv, Lapse PROVE IInv'
BY DEF Lapse, TypeOK, LockOK, DecisionOK, DeleteOK, RunOK, Expired

\* Policy touches no decision.
LEMMA PolicyPreserves == ASSUME IInv, Policy PROVE IInv'
<1> USE DEF Policy
<1>1. TypeOK'
  <2>1. CASE grant = "active"
    BY <2>1 DEF TypeOK, LockOK, DecisionOK
  <2>2. CASE grant # "active" /\ rec = NoRecord
    BY <2>2 DEF TypeOK, LockOK, DecisionOK
  <2>3. CASE grant # "active" /\ rec # NoRecord
    <3>1. due' \in BOOLEAN /\ asked' \in BOOLEAN
      BY <2>3, Zenon DEF TypeOK
    <3>2. faults' \in 0..MaxFaults
      BY <2>3 DEF TypeOK
    <3> QED BY <2>3, <3>1, <3>2 DEF TypeOK, LockOK, DecisionOK
  <2> QED BY <2>1, <2>2, <2>3 DEF TypeOK, LockOK, DecisionOK
<1>2. LockOK'
  BY DEF LockOK, TypeOK, DecisionOK
<1>3. DecisionOK'
  <2>1. CASE grant = "active"
    BY <2>1 DEF DecisionOK, LockOK, TypeOK
  <2>2. CASE grant # "active" /\ rec = NoRecord
    BY <2>2 DEF DecisionOK, LockOK, TypeOK
  <2>3. CASE grant # "active" /\ rec # NoRecord
    BY <2>3 DEF DecisionOK, LockOK, TypeOK
  <2> QED BY <2>1, <2>2, <2>3 DEF DecisionOK, LockOK, TypeOK
<1>4. DeleteOK'
  BY DEF DeleteOK, LockOK, RunOK, TypeOK, DecisionOK
<1>5. RunOK'
  BY DEF RunOK, LockOK, TypeOK
<1> QED BY <1>1, <1>2, <1>3, <1>4, <1>5

\* The request finds a decision, makes one, or leaves the record pending.
LEMMA EnsurePreserves == ASSUME NEW drift \in BOOLEAN, IInv, Ensure(drift) PROVE IInv'
BY DEF Ensure, TypeOK, LockOK, DecisionOK, DeleteOK, RunOK, Ensured, Expired

\* The observer's approval.required touches no decision.
LEMMA RequiredPreserves == ASSUME IInv, Required PROVE IInv'
<1> USE DEF Required
<1>1. TypeOK'
  <2>1. CASE asked' = TRUE
    BY <2>1 DEF TypeOK, LockOK, DecisionOK
  <2>2. CASE asked' = asked
    BY <2>2 DEF TypeOK, LockOK, DecisionOK
  <2> QED BY <2>1, <2>2 DEF TypeOK, LockOK, DecisionOK
<1>2. LockOK'
  BY DEF LockOK, TypeOK, DecisionOK
<1>3. DecisionOK'
  <2>1. CASE asked' = TRUE
    BY <2>1 DEF DecisionOK, LockOK, TypeOK
  <2>2. CASE asked' = asked
    BY <2>2 DEF DecisionOK, LockOK, TypeOK
  <2> QED BY <2>1, <2>2 DEF DecisionOK, LockOK, TypeOK
<1>4. DeleteOK'
  BY DEF DeleteOK, LockOK, RunOK, TypeOK, DecisionOK
<1>5. RunOK'
  BY DEF RunOK, LockOK, TypeOK
<1> QED BY <1>1, <1>2, <1>3, <1>4, <1>5

\* Registering the waiter starts from a pending future.
LEMMA RegisterPreserves == ASSUME IInv, Register PROVE IInv'
BY DEF Register, TypeOK, LockOK, DecisionOK, DeleteOK, RunOK

\* The waiter's read copies the record.
LEMMA RefreshPreserves == ASSUME IInv, Refresh PROVE IInv'
BY DEF Refresh, TypeOK, LockOK, DecisionOK, DeleteOK, RunOK, Woken

\* A waiter that wakes copies the future.
LEMMA WakePreserves == ASSUME IInv, Wake PROVE IInv'
BY DEF Wake, TypeOK, LockOK, DecisionOK, DeleteOK, RunOK

\* A cancellation or an expiry takes the lock or finds the decision.
LEMMA ResolveSystemPreserves == ASSUME IInv, ResolveSystem PROVE IInv'
BY DEF ResolveSystem, TypeOK, LockOK, DecisionOK, DeleteOK, RunOK, Resolve, Replays,
   Returns, Conflicts, Woken, Effective, Expired

\* The waiter leaves with its decision.
LEMMA PopPreserves == ASSUME IInv, Pop PROVE IInv'
BY DEF Pop, TypeOK, LockOK, DecisionOK, DeleteOK, RunOK

\* The observer's settlement touches no decision, and its failure ends the Run.
LEMMA ObservePreserves == ASSUME IInv, Observe PROVE IInv'
<1> USE DEF Observe
<1>1. TypeOK'
  <2>1. CASE asked /\ asked' = FALSE
    <3>1. due' \in BOOLEAN /\ asked' \in BOOLEAN
      BY <2>1, Zenon DEF TypeOK
    <3>2. faults' \in 0..MaxFaults
      BY <2>1 DEF TypeOK
    <3> QED BY <2>1, <3>1, <3>2 DEF TypeOK, LockOK, DecisionOK
  <2>2. CASE asked' = asked
    BY <2>2 DEF TypeOK, LockOK, DecisionOK
  <2>3. CASE asked /\ asked' = TRUE
    BY <2>3 DEF TypeOK, LockOK, DecisionOK
  <2> QED BY <2>1, <2>2, <2>3 DEF TypeOK, LockOK, DecisionOK
<1>2. LockOK'
  BY DEF LockOK, TypeOK, DecisionOK
<1>3. DecisionOK'
  BY DEF DecisionOK, LockOK, TypeOK
<1>4. DeleteOK'
  BY DEF DeleteOK, LockOK, RunOK, TypeOK, DecisionOK
<1>5. RunOK'
  BY DEF RunOK, LockOK, TypeOK
<1> QED BY <1>1, <1>2, <1>3, <1>4, <1>5

\* The receipt opens the gate, starts the call or ends it.
LEMMA ReceiptPreserves == ASSUME IInv, Receipt PROVE IInv'
BY DEF Receipt, TypeOK, LockOK, DecisionOK, DeleteOK, RunOK, Execute

\* Inside the gate the call starts or asks again.
LEMMA GatePreserves == ASSUME IInv, Gate PROVE IInv'
<1> USE DEF Gate, Execute, StillApproved
<1>1. TypeOK'
  <2>1. CASE ~(grant = "active" \/ StillApproved)
    BY <2>1 DEF TypeOK, LockOK, DecisionOK
  <2>2. CASE (grant = "active" \/ StillApproved) /\ asked
    BY <2>2 DEF TypeOK, LockOK, DecisionOK
  <2>3. CASE (grant = "active" \/ StillApproved) /\ ~asked
    BY <2>3 DEF TypeOK, LockOK, DecisionOK
  <2> QED BY <2>1, <2>2, <2>3 DEF TypeOK, LockOK, DecisionOK
<1>2. LockOK'
  BY DEF LockOK, TypeOK, DecisionOK
<1>3. DecisionOK'
  BY DEF DecisionOK, LockOK, TypeOK
<1>4. DeleteOK'
  BY DEF DeleteOK, LockOK, RunOK, TypeOK, DecisionOK
<1>5. RunOK'
  BY DEF RunOK, LockOK, TypeOK
<1> QED BY <1>1, <1>2, <1>3, <1>4, <1>5

\* The end of the call is the end of its task.
LEMMA FinishPreserves == ASSUME IInv, Finish PROVE IInv'
BY DEF Finish, TypeOK, LockOK, DecisionOK, DeleteOK, RunOK

\* A cancelled call ends with its task.
LEMMA CheckpointPreserves == ASSUME IInv, Checkpoint PROVE IInv'
BY DEF Checkpoint, TypeOK, LockOK, DecisionOK, DeleteOK, RunOK

\* A client chooses an answer.
LEMMA LookPreserves == ASSUME NEW k \in Clients, IInv, Look(k) PROVE IInv'
BY DEF Look, TypeOK, LockOK, DecisionOK, DeleteOK, RunOK, Answers

\* An answer takes the lock or finds the decision.
LEMMA AnswerPreserves == ASSUME NEW k \in Clients, IInv, Answer(k) PROVE IInv'
<1> USE DEF Answer, Resolve, Replays, Returns, Conflicts, Woken, Effective, Answers
<1>1. TypeOK'
  <2>1. CASE Decided(rec)
    BY <2>1 DEF TypeOK, LockOK, DecisionOK
  <2>2. CASE ~Decided(rec)
    BY <2>2 DEF TypeOK, LockOK, DecisionOK
  <2> QED BY <2>1, <2>2 DEF TypeOK, LockOK, DecisionOK
<1>2. LockOK'
  BY DEF LockOK, TypeOK, DecisionOK
<1>3. DecisionOK'
  BY DEF DecisionOK, LockOK, TypeOK
<1>4. DeleteOK'
  BY DEF DeleteOK, LockOK, RunOK, TypeOK, DecisionOK
<1>5. RunOK'
  BY DEF RunOK, LockOK, TypeOK
<1> QED BY <1>1, <1>2, <1>3, <1>4, <1>5

\* A deletion that begins scans only if no Run is left.
LEMMA DeleteBeginsPreserves == ASSUME IInv, DeleteBegins PROVE IInv'
BY DEF DeleteBegins, TypeOK, LockOK, DecisionOK, DeleteOK, RunOK

\* The deletion cancels the Run's scope.
LEMMA DeleteCancelsRunPreserves == ASSUME IInv, DeleteCancelsRun PROVE IInv'
BY DEF DeleteCancelsRun, TypeOK, LockOK, DecisionOK, DeleteOK, RunOK

\* The deletion goes on when the Run has ended.
LEMMA DeleteAwaitsRunPreserves == ASSUME IInv, DeleteAwaitsRun PROVE IInv'
BY DEF DeleteAwaitsRun, TypeOK, LockOK, DecisionOK, DeleteOK, RunOK

\* The scan goes on to the revocation only if nothing is pending.
LEMMA DeleteScansPreserves == ASSUME IInv, DeleteScans PROVE IInv'
BY DEF DeleteScans, TypeOK, LockOK, DecisionOK, DeleteOK, RunOK, AfterScan

\* The deletion's cancellation takes the lock or finds the decision.
LEMMA DeleteCancelsPreserves == ASSUME IInv, DeleteCancels PROVE IInv'
BY DEF DeleteCancels, TypeOK, LockOK, DecisionOK, DeleteOK, RunOK, Resolve, Replays,
   Returns, Conflicts, Woken, Effective

\* A deletion that lost goes on only if nothing is pending.
LEMMA DeleteRechecksPreserves == ASSUME IInv, DeleteRechecks PROVE IInv'
BY DEF DeleteRechecks, TypeOK, LockOK, DecisionOK, DeleteOK, RunOK, Expired

\* The revocation leaves no active grant, and no approval could make one.
LEMMA DeleteRevokesPreserves == ASSUME IInv, DeleteRevokes PROVE IInv'
BY DEF DeleteRevokes, TypeOK, LockOK, DecisionOK, DeleteOK, RunOK, Revoked

\* The last step of the deletion changes nothing else.
LEMMA DeleteFinalizesPreserves == ASSUME IInv, DeleteFinalizes PROVE IInv'
BY DEF DeleteFinalizes, TypeOK, LockOK, DecisionOK, DeleteOK, RunOK

\* Time touches no decision.
LEMMA ExpirePreserves == ASSUME IInv, Expire PROVE IInv'
BY DEF Expire, TypeOK, LockOK, DecisionOK, DeleteOK, RunOK

\* The cancellation of the Run touches no decision.
LEMMA CancelPreserves == ASSUME IInv, Cancel PROVE IInv'
BY DEF Cancel, TypeOK, LockOK, DecisionOK, DeleteOK, RunOK

\* A crash forgets the lock, the future, the kernel's copy and the deletion.
LEMMA CrashPreserves == ASSUME IInv, Crash PROVE IInv'
<1> USE DEF Crash
<1>1. TypeOK'
  <2> DEFINE C == [at : {"idle", "sent", "already", "conflict", "error"} \cup Replies,
                   want : Resolution, already : BOOLEAN]
  <2>1. ASSUME NEW k \in Clients
        PROVE  (IF client[k].at = "sent" THEN [client[k] EXCEPT !.at = "error"] ELSE client[k]) \in C
    BY DEF TypeOK
  <2>2. client' \in [Clients -> C]
    BY <2>1
  <2>3. del' \in {"idle", "cancel_run", "await", "scan", "cancel", "recheck", "revoke",
                "finalize", "deleted"} /\ crashes' \in 0..MaxCrashes
    BY DEF TypeOK
  <2>4. fut' = NoRecord /\ pc' \in {"down", "done"} /\ fut' \in Resolution /\ got' \in
     Resolution
    OBVIOUS
  <2>5. lock' \in [by : {"none", "call", "delete"} \cup Clients, want : Resolution,
                   at : {"free", "commit", "settle"}]
    OBVIOUS
  <2>6. run' = run /\ TypeOK
    OBVIOUS
  <2>7. faults' = faults /\ rec' = rec /\ grant' = grant /\ due' = due /\ asked' = asked
        /\ inGate' = FALSE /\ cancel' = FALSE
    OBVIOUS
  <2> HIDE DEF Crash, C, Resolution, NoRecord, Free, Says
  <2> QED BY <2>2, <2>3, <2>4, <2>5, <2>6, <2>7 DEF TypeOK, C
<1>2. LockOK'
  BY DEF LockOK, TypeOK, DecisionOK
<1>3. DecisionOK'
  BY DEF DecisionOK, LockOK, TypeOK
<1>4. DeleteOK'
  BY DEF DeleteOK, LockOK, RunOK, TypeOK, DecisionOK
<1>5. RunOK'
  BY DEF RunOK, LockOK, TypeOK
<1> QED BY <1>1, <1>2, <1>3, <1>4, <1>5

\* Recovery ends the Run or starts its task over.
LEMMA RecoverPreserves == ASSUME IInv, Recover PROVE IInv'
BY DEF Recover, TypeOK, LockOK, DecisionOK, DeleteOK, RunOK

-----------------------------------------------------------------------------
\* The invariant holds at first.
LEMMA InitInvariant == Init => IInv
<1> SUFFICES ASSUME Init PROVE IInv
  OBVIOUS
<1> USE DEF Init
<1>1. TypeOK
  <2>1. NoRecord \in Resolution
    BY DEF Resolution
  <2>2. lock \in [by : {"none", "call", "delete"} \cup Clients, want : Resolution,
                  at : {"free", "commit", "settle"}]
    BY <2>1
  <2>3. client \in [Clients -> [at : {"idle", "sent", "already", "conflict", "error"} \cup Replies,
                               want : Resolution, already : BOOLEAN]]
    BY <2>1
  <2>4. rec = NoRecord /\ fut = NoRecord /\ got = NoRecord /\ pc = "policy"
    OBVIOUS
  <2>5. grant = "none" /\ run = "active" /\ del = "idle" /\ crashes \in 0..MaxCrashes
        /\ faults \in 0..MaxFaults /\ due = FALSE /\ inGate = FALSE /\ asked = FALSE /\ cancel = FALSE
    OBVIOUS
  <2> HIDE DEF Init, Resolution, NoRecord, Free, Says
  <2> QED BY <2>1, <2>2, <2>3, <2>4, <2>5 DEF TypeOK
<1>2. LockOK /\ DecisionOK
  BY DEF LockOK, DecisionOK
<1>3. DeleteOK /\ RunOK
  BY DEF DeleteOK, RunOK
<1> QED BY <1>1, <1>2, <1>3 DEF IInv

\* It holds when nothing changes.
LEMMA StutterPreserves == ASSUME IInv, UNCHANGED vars PROVE IInv'
BY DEF vars, manager, task, IInv, TypeOK, LockOK, DecisionOK, DeleteOK, RunOK, Live

HIDE DEF IInv, Resolution, Replies, TaskPC, Live, Decided,
   Free, Pending,
    NoRecord, Says, manager, task, Goto, End, Raise, Up, Fault

\* It is inductive.
LEMMA NextPreserves == IInv /\ [Next]_vars => IInv'
<1> SUFFICES ASSUME IInv, [Next]_vars PROVE IInv'
  OBVIOUS
<1>1. ASSUME Kernel PROVE IInv'
  BY <1>1, PolicyPreserves, EnsurePreserves, RequiredPreserves, RegisterPreserves,
     RefreshPreserves, WakePreserves, ResolveSystemPreserves, PopPreserves, ObservePreserves,
     ReceiptPreserves, GatePreserves, FinishPreserves, CheckpointPreserves DEF Kernel
<1>2. ASSUME Delete PROVE IInv'
  BY <1>2, DeleteBeginsPreserves, DeleteCancelsRunPreserves, DeleteAwaitsRunPreserves,
     DeleteScansPreserves, DeleteCancelsPreserves, DeleteRechecksPreserves,
     DeleteRevokesPreserves, DeleteFinalizesPreserves DEF Delete
<1>3. ASSUME NEW k \in Clients, Look(k) \/ Answer(k) PROVE IInv'
  BY <1>3, LookPreserves, AnswerPreserves
<1>4. ASSUME Commit \/ Settle \/ Lapse PROVE IInv'
  BY <1>4, CommitPreserves, SettlePreserves, LapsePreserves
<1>5. ASSUME Expire \/ Cancel \/ Crash \/ Recover PROVE IInv'
  BY <1>5, ExpirePreserves, CancelPreserves, CrashPreserves, RecoverPreserves
<1> QED BY <1>1, <1>2, <1>3, <1>4, <1>5, StutterPreserves DEF Next

\* The inductive invariant holds in every reachable state.
THEOREM ApprovalsInvariant == Spec => []IInv
BY InitInvariant, NextPreserves, PTL DEF Spec

\* Type correctness of the record, the manager, the kernel and its clients.
THEOREM ApprovalsTypes == Spec => []TypeOK
<1>1. IInv => TypeOK
  BY DEF IInv
<1> QED BY <1>1, ApprovalsInvariant, PTL

\* A deleted session keeps neither a grant nor an approval that could make one.
THEOREM DeletionLeavesNoGrant == Spec => []DeletedSessionHasNoGrant
<1>1. IInv => DeletedSessionHasNoGrant
  BY DEF IInv, DeleteOK, DeletedSessionHasNoGrant
<1> QED BY <1>1, ApprovalsInvariant, PTL

-----------------------------------------------------------------------------
(* Decisions are taken once.                                                *)

\* No step changes a record that is decided.
LEMMA DecisionStays ==
    ASSUME IInv, [Next]_vars, Decided(rec) PROVE rec' = rec
<1> USE DEF Decided, Pending, NoRecord, Says
<1>1. CASE Commit
  BY <1>1 DEF Commit
<1>2. ASSUME NEW drift \in BOOLEAN, Ensure(drift) PROVE rec' = rec
  <2>1. Ensured(drift) = rec
    BY DEF Ensured
  <2> QED BY <1>2, <2>1 DEF Ensure
<1>7. CASE Kernel /\ ~\E drift \in BOOLEAN : Ensure(drift)
  BY <1>7 DEF Kernel, Policy, Required, Register, Refresh, Wake,
     ResolveSystem, Resolve, Pop, Observe, Receipt, Gate, Finish, Checkpoint
<1>3. CASE Delete
  BY <1>3 DEF Delete, DeleteBegins, DeleteCancelsRun, DeleteAwaitsRun, DeleteScans,
     DeleteCancels, Resolve, DeleteRechecks, DeleteRevokes, DeleteFinalizes
<1>4. CASE \E k \in Clients : Look(k) \/ Answer(k)
  BY <1>4 DEF Look, Answer, Resolve
<1>5. CASE Settle \/ Lapse \/ Expire \/ Cancel \/ Crash \/ Recover
  BY <1>5 DEF Settle, Lapse, Expire, Cancel, Crash, Recover
<1>6. CASE UNCHANGED vars
  BY <1>6 DEF vars
<1> QED BY <1>1, <1>2, <1>3, <1>4, <1>5, <1>6, <1>7 DEF Next

\* A command that is told a decision is told the one on record.
LEMMA RepliesAgree ==
    ASSUME IInv, [Next]_vars, NEW k \in Clients,
           client'[k].at \in Replies, client'[k].at # client[k].at
    PROVE  rec'.state = client'[k].at
<1> USE DEF Replies, IInv, TypeOK
<1>1. CASE Settle
  BY <1>1 DEF Settle, Returns, LockOK
<1>2. CASE Commit
  BY <1>2 DEF Commit, Store, Replays, Returns, Conflicts, Fails
<1>3. CASE ResolveSystem \/ DeleteCancels
  BY <1>3 DEF ResolveSystem, DeleteCancels, Resolve, Replays, Returns, Conflicts
<1>4. ASSUME NEW j \in Clients, Answer(j) PROVE rec'.state = client'[k].at
  BY <1>4 DEF Answer, Resolve, Replays, Returns, Conflicts
<1>5. ASSUME NEW j \in Clients, Look(j) PROVE FALSE
  BY <1>5 DEF Look
<1>6. CASE Crash
  BY <1>6 DEF Crash
<1>7. CASE UNCHANGED client
  BY <1>7
<1>8. CASE Lapse \/ Expire \/ Cancel \/ Recover
  BY <1>7, <1>8 DEF Lapse, Expire, Cancel, Recover
<1>9. CASE Kernel /\ ~ResolveSystem
  BY <1>7, <1>9 DEF Kernel, Policy, Ensure, Required, Register, Refresh, Wake, Pop, Observe,
     Receipt, Gate, Finish, Checkpoint
<1>10. CASE Delete /\ ~DeleteCancels
  BY <1>7, <1>10 DEF Delete, DeleteBegins, DeleteCancelsRun, DeleteAwaitsRun, DeleteScans,
     DeleteRechecks, DeleteRevokes, DeleteFinalizes
<1>11. CASE UNCHANGED vars
  BY <1>7, <1>11 DEF vars
<1> QED
  BY <1>1, <1>2, <1>3, <1>4, <1>5, <1>6, <1>8, <1>9, <1>10, <1>11 DEF Next

\* The record never changes its mind and nobody is told anything else.
THEOREM DecisionIsFinal == Spec => DecidedOnce
<1>1. ASSUME IInv, [Next]_vars
      PROVE  [ /\ Decided(rec) => rec' = rec
               /\ \A k \in Clients :
                     client'[k].at \in Replies /\ client'[k].at # client[k].at
                         => rec'.state = client'[k].at ]_vars
  BY <1>1, DecisionStays, RepliesAgree
<1> QED BY <1>1, ApprovalsInvariant, PTL DEF Spec, DecidedOnce

-----------------------------------------------------------------------------
(* Nothing runs unapproved.                                                 *)

\* The two steps that start a call hold a grant, or a decision still in time.
LEMMA StartIsApproved ==
    ASSUME IInv, [Next]_vars, run' = "executing", run # "executing"
    PROVE  rec.state = "approved" /\ rec.by = "user" /\ (~due \/ grant = "active")
<1> USE DEF IInv, DecisionOK, Decided
<1>1. CASE Gate
  BY <1>1 DEF Gate, StillApproved, Execute, End
<1>2. CASE Receipt
  BY <1>2 DEF Receipt, Execute, End
<1>3. run' = run \/ run' # "executing" \/ Gate \/ Receipt
  BY DEF Next, vars, Kernel, Delete, Commit, Settle, Lapse, Policy, Ensure, Required,
     Register, Refresh, Wake, ResolveSystem, Resolve, Pop, Observe, Finish, Checkpoint, Look,
     Answer, DeleteBegins, DeleteCancelsRun, DeleteAwaitsRun, DeleteScans, DeleteCancels,
     DeleteRechecks, DeleteRevokes, DeleteFinalizes, Expire, Cancel, Crash, Recover, Replays,
     Returns, Conflicts, Fails, Raise, End, task
<1> QED BY <1>1, <1>2, <1>3

\* Every call that starts was approved by the user and in time.
THEOREM NothingRunsUnapproved == Spec => RunsOnlyApproved
<1>1. ASSUME IInv, [Next]_vars
      PROVE  [ run' = "executing" /\ run # "executing"
                   => /\ rec.state = "approved" /\ rec.by = "user"
                      /\ ~due \/ grant = "active" ]_vars
  BY <1>1, StartIsApproved
<1> QED BY <1>1, ApprovalsInvariant, PTL DEF Spec, RunsOnlyApproved
=============================================================================
