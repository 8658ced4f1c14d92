------------------------------- MODULE ToolCalls -------------------------------
(***************************************************************************)
(* What a tool call waits for, one thing inside the other: the effect gate  *)
(* of the Worker (EffectGate), the keyed locks of its journal record and    *)
(* resources (KeyedLocks), and then whatever its own body waits for: an     *)
(* executor, the user's answer to an approval that has to be asked for      *)
(* again inside the gate, or, in agent.wait, the end of a child Run whose   *)
(* own calls go through the same gate.  ToolScheduler._execute_one and      *)
(* _execute_guarded of tools/scheduler.py, SubagentService.wait and         *)
(* ApprovalManager.request for the bodies.                                  *)
(*                                                                          *)
(* The Run of a call may be cancelled at any moment; every wait sees it.    *)
(***************************************************************************)
EXTENDS Naturals, Sequences, FiniteSets

CONSTANTS
    Tasks,        \* calls of the Runs of the Worker, one after another in each
    MaxReaders,   \* the ceiling on parallel safe reads
    KeyLists,     \* the lists of keys a call may name
    AwaitedBy     \* AwaitedBy[t]: the tasks of the child Runs that t may await

ASSUME CallsAssumption ==
    /\ IsFiniteSet(Tasks) /\ "none" \notin Tasks
    /\ MaxReaders \in Nat \ {0}
    /\ KeyLists \subseteq Seq(Nat)    \* keys are tuples of strings; only their order counts

VARIABLES
    activeReaders, writerActive, waiters, granted, where, read,    \* EffectGate
    current, references, holder, queue, at, wanted, keysHeld, trying,    \* KeyedLocks
    cancelled,    \* the token of the call's Run
    body,         \* what the call does once it has gate and locks
    ended         \* the Run of the task is over

gateVars == <<activeReaders, writerActive, waiters, granted, where, read>>
lockVars == <<current, references, holder, queue, at, wanted, keysHeld, trying>>
callVars == <<gateVars, lockVars, cancelled, body, ended>>

Effects == INSTANCE EffectGate WITH pc <- where
Locks == INSTANCE KeyedLocks WITH got <- keysHeld

\* agent.wait waits for others; every other body ends by itself.
Bodies == {"own", "wait"}

CallsInit ==
    /\ Effects!Init /\ Locks!Init
    /\ body = [t \in Tasks |-> "none"]
    /\ ended = [t \in Tasks |-> FALSE]

-----------------------------------------------------------------------------
\* The gate, entered by a Run that goes on.
Arrive(t, r) ==
    /\ ~ended[t]
    /\ Effects!Enter(t, r) \/ Effects!Queue(t, r)
    /\ UNCHANGED <<lockVars, body, ended>>

WakeUp(t) == Effects!Wake(t) /\ UNCHANGED <<lockVars, body, ended>>
Abandon(t) == Effects!Abandon(t) /\ UNCHANGED <<lockVars, body, ended>>

\* Inside it, the guard of the call.  Waiting for a child is a safe read.
Guard(t, q, b) ==
    /\ where[t] = "inside" /\ body[t] = "none"
    /\ b = "wait" => read[t] /\ AwaitedBy[t] # {}
    /\ Locks!Begin(t, q)
    /\ body' = [body EXCEPT ![t] = b]
    /\ UNCHANGED <<gateVars, ended>>

LockStep(t) == Locks!LockStep(t) /\ UNCHANGED <<gateVars, body, ended>>

-----------------------------------------------------------------------------
(* The body ends, for the first of the reasons it has.                      *)

BodyEnds(t, b) ==
    /\ body[t] = b
    /\ Locks!Release(t)
    /\ UNCHANGED <<gateVars, body, ended>>

\* _attempt_with_controls, an executor answers or is given up after its timeout;
\* ApprovalManager.request, the user answers or the approval expires.
OwnEnds(t) == BodyEnds(t, "own")

\* SubagentService.wait
AwaitedRunEnds(t) == (\E u \in AwaitedBy[t] : ended[u]) /\ BodyEnds(t, "wait")
Mutant_WaitTimesOut(t) == FALSE
WaitTimesOut(t) == BodyEnds(t, "wait")

\* Any of them: the token.
BodyCancelled(t) == cancelled[t] /\ \E b \in Bodies : BodyEnds(t, b)

\* All the locks given back, the gate as well.
Release(t) ==
    /\ body[t] # "none" /\ at[t] = "out"
    /\ Effects!Release(t)
    /\ body' = [body EXCEPT ![t] = "none"]
    /\ UNCHANGED <<lockVars, ended>>

\* Between two calls a child Run may end; a call of any may be cancelled.
ChildRunEnds(t) ==
    /\ where[t] = "out" /\ ~ended[t] /\ \E u \in Tasks : t \in AwaitedBy[u]
    /\ ended' = [ended EXCEPT ![t] = TRUE]
    /\ UNCHANGED <<gateVars, lockVars, cancelled, body>>

CancelCall(t) == Effects!Cancel(t) /\ UNCHANGED <<lockVars, body, ended>>

CallsNext ==
    \E t \in Tasks :
        \/ \E r \in BOOLEAN : Arrive(t, r)
        \/ WakeUp(t) \/ Abandon(t)
        \/ \E q \in KeyLists, b \in Bodies : Guard(t, q, b)
        \/ LockStep(t)
        \/ OwnEnds(t) \/ AwaitedRunEnds(t) \/ WaitTimesOut(t)
        \/ BodyCancelled(t) \/ Release(t) \/ ChildRunEnds(t) \/ CancelCall(t)

CallsSpec == CallsInit /\ [][CallsNext]_callVars

\* What the task of a call does as soon as it can: its callbacks run, an executor
\* ends or is given up, an approval expires, a wait times out.  Nobody has to
\* answer, to cancel a Run or to end it.
Progress(t) ==
    \/ WakeUp(t) \/ Abandon(t)
    \/ \E q \in KeyLists, b \in Bodies : Guard(t, q, b)
    \/ LockStep(t) \/ OwnEnds(t) \/ WaitTimesOut(t)
    \/ Release(t)

FairCallsSpec == CallsSpec /\ \A t \in Tasks : WF_callVars(Progress(t))

-----------------------------------------------------------------------------
(* Properties.                                                             *)

\* An effectful call has the Vault, the journal and everything else to itself, and
\* two calls that are inside the gate together never hold one key, whatever waiters
\* and entries came and went while acquirers were cancelled.
CallsExclude == Effects!WriterExcludes /\ Locks!KeysExclude

\* No call is admitted past one that queued up before it.
NoOvertaking == [][Effects!KeepsOrder]_callVars

\* Every call ends: gate, locks in one order, and a body that is bounded by its
\* timeout, its expiry or its token, even when an agent.wait holds a reader's place
\* that the awaited child's own call needs to be empty.
EveryCallEnds == \A t \in Tasks : []<>(where[t] = "out")
=============================================================================
