------------------------------ MODULE EffectGate ------------------------------
(***************************************************************************)
(* FairEffectGate of tools/scheduler.py: the Worker-wide reader/writer gate *)
(* every tool call of every Run holds from before its journal record is     *)
(* written until it is finalized.  A safe read shares it, up to MaxReaders; *)
(* anything else holds it alone.  Waiters are granted in FIFO order.        *)
(*                                                                          *)
(* No critical section of `_state_lock' awaits anything, so each is one     *)
(* step, its trailing grant of waiters included.  A grant only resolves the *)
(* waiter's future: the waiter wakes up in a later step, and cancellation   *)
(* may come in between.                                                     *)
(***************************************************************************)
EXTENDS Naturals, Sequences, FiniteSets

CONSTANTS
    Tasks,         \* concurrent tool calls, one after another in each task
    MaxReaders     \* the Worker's ceiling on parallel safe reads

VARIABLES
    activeReaders, writerActive,   \* the gate's own account of who is inside
    waiters,                       \* deque of queued tasks, with the kind of their call
    granted,                       \* waiters granted that have not woken yet
    pc,                            \* "out", "waiting" or "inside", per task
    read,                          \* read[t]: the task's call is a safe read
    cancelled                      \* cancelled[t]: its Run (or task) is cancelled

gate == <<activeReaders, writerActive, waiters, granted>>
vars == <<gate, pc, read, cancelled>>

Init ==
    /\ activeReaders = 0 /\ writerActive = FALSE
    /\ waiters = <<>> /\ granted = {}
    /\ pc = [t \in Tasks |-> "out"]
    /\ read = [t \in Tasks |-> TRUE]
    /\ cancelled = [t \in Tasks |-> FALSE]

-----------------------------------------------------------------------------
(* _mark_acquired, _mark_released and _grant_waiters_locked, as functions   *)
(* from the account the critical section has reached to the next one.       *)

Account(r, w, q, g) == [readers |-> r, writer |-> w, queue |-> q, granted |-> g]
Current == Account(activeReaders, writerActive, waiters, granted)

Released(t, a) ==
    IF read[t] THEN [a EXCEPT !.readers = @ - 1] ELSE [a EXCEPT !.writer = FALSE]

\* How many readers at the head of the queue fit under the ceiling.
ReadersAdmitted(a) ==
    CHOOSE n \in 0..Len(a.queue) :
        /\ \A i \in 1..n : a.queue[i].read
        /\ n = 0 \/ a.readers + n <= MaxReaders
        /\ n = Len(a.queue) \/ ~a.queue[n + 1].read \/ a.readers + n >= MaxReaders

Granting(a, n) ==
    [a EXCEPT !.queue = SubSeq(@, n + 1, Len(@)),
              !.granted = @ \cup {a.queue[i].task : i \in 1..n}]

GrantWaiters(a) ==
    IF a.writer \/ a.queue = <<>> THEN a
    ELSE IF ~Head(a.queue).read
    THEN IF a.readers = 0 THEN [Granting(a, 1) EXCEPT !.writer = TRUE] ELSE a
    ELSE [Granting(a, ReadersAdmitted(a)) EXCEPT !.readers = @ + ReadersAdmitted(a)]

Become(a) ==
    /\ activeReaders' = a.readers /\ writerActive' = a.writer
    /\ waiters' = a.queue /\ granted' = a.granted

-----------------------------------------------------------------------------
Mutant_EnterPastWaiters(r) ==
    ~writerActive /\ IF r THEN activeReaders < MaxReaders ELSE activeReaders = 0
CanEnterImmediately(r) ==
    /\ waiters = <<>> /\ ~writerActive
    /\ IF r THEN activeReaders < MaxReaders ELSE activeReaders = 0

\* hold: the call enters at once ...
Enter(t, r) ==
    /\ pc[t] = "out" /\ ~cancelled[t]
    /\ CanEnterImmediately(r)
    /\ read' = [read EXCEPT ![t] = r]
    /\ IF r THEN activeReaders' = activeReaders + 1 /\ UNCHANGED writerActive
            ELSE writerActive' = TRUE /\ UNCHANGED activeReaders
    /\ pc' = [pc EXCEPT ![t] = "inside"]
    /\ UNCHANGED <<waiters, granted, cancelled>>

\* ... or queues up.  Granting right after queueing may admit it at once.
Queue(t, r) ==
    /\ pc[t] = "out" /\ ~cancelled[t]
    /\ ~CanEnterImmediately(r)
    /\ read' = [read EXCEPT ![t] = r]
    /\ Become(GrantWaiters([Current EXCEPT !.queue = Append(@, [task |-> t, read |-> r])]))
    /\ pc' = [pc EXCEPT ![t] = "waiting"]
    /\ UNCHANGED cancelled

\* The granted waiter wakes up; a cancellation seen by then wins.
Wake(t) ==
    /\ pc[t] = "waiting" /\ t \in granted /\ ~cancelled[t]
    /\ granted' = granted \ {t}
    /\ pc' = [pc EXCEPT ![t] = "inside"]
    /\ UNCHANGED <<activeReaders, writerActive, waiters, read, cancelled>>

\* Cancelled while waiting: give back a grant that was never used, or leave
\* the queue; either way whoever is behind may now be admissible.
Place(q, t) == CHOOSE i \in 1..Len(q) : q[i].task = t
Without(q, t) == [i \in 1..(Len(q) - 1) |-> q[IF i < Place(q, t) THEN i ELSE i + 1]]

Abandoned(t) ==
    IF t \in granted THEN Released(t, [Current EXCEPT !.granted = @ \ {t}])
    ELSE [Current EXCEPT !.queue = Without(@, t)]

Abandon(t) ==
    /\ pc[t] = "waiting" /\ cancelled[t]
    /\ Become(GrantWaiters(Abandoned(t)))
    /\ pc' = [pc EXCEPT ![t] = "out"]
    /\ cancelled' = [cancelled EXCEPT ![t] = FALSE]
    /\ UNCHANGED read

\* The call ends, however it ends; the next one is another call's business.
Release(t) ==
    /\ pc[t] = "inside"
    /\ Become(GrantWaiters(Released(t, Current)))
    /\ pc' = [pc EXCEPT ![t] = "out"]
    /\ cancelled' = [cancelled EXCEPT ![t] = FALSE]
    /\ UNCHANGED read

\* The Run's token, or the task itself, is cancelled.
Cancel(t) ==
    /\ pc[t] # "out" /\ ~cancelled[t]
    /\ cancelled' = [cancelled EXCEPT ![t] = TRUE]
    /\ UNCHANGED <<gate, pc, read>>

Next ==
    \E t \in Tasks :
        \/ \E r \in BOOLEAN : Enter(t, r) \/ Queue(t, r)
        \/ Wake(t) \/ Abandon(t) \/ Release(t) \/ Cancel(t)

Spec == Init /\ [][Next]_vars

-----------------------------------------------------------------------------
(* Properties.                                                             *)

Queued == {waiters[i].task : i \in 1..Len(waiters)}

\* Whom the gate counts as inside: a grant counts before its waiter wakes.
Admitted == {t \in Tasks : pc[t] = "inside"} \cup granted

\* Type correctness, the queue holding each waiting task once.
TypeOK ==
    /\ activeReaders \in 0..MaxReaders /\ writerActive \in BOOLEAN
    /\ waiters \in Seq([task : Tasks, read : BOOLEAN]) /\ granted \subseteq Tasks
    /\ \A i, j \in 1..Len(waiters) : i # j => waiters[i].task # waiters[j].task
    /\ pc \in [Tasks -> {"out", "waiting", "inside"}]
    /\ read \in [Tasks -> BOOLEAN] /\ cancelled \in [Tasks -> BOOLEAN]

\* An effectful call has the Vault, the journal and everything else to itself.
WriterExcludes ==
    \A t, u \in Admitted : t # u => read[t] /\ read[u]

\* Nobody is admitted past a task that queued up before it.
KeepsOrder ==
    \A t \in Queued \cap Queued' : \A u \in Admitted' \ Admitted :
        \E i, j \in 1..Len(waiters) : i < j /\ waiters[i].task = u /\ waiters[j].task = t
NoOvertaking == [][KeepsOrder]_vars
=============================================================================
