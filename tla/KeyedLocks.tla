------------------------------ MODULE KeyedLocks ------------------------------
(***************************************************************************)
(* KeyedLockPool of tools/kernel.py, and `_hold_invocation_locks', which    *)
(* takes from it the lock of a call's journal record and of each resource   *)
(* its preflight named, in sorted order.                                    *)
(*                                                                          *)
(* The lock of a key lives in an entry that counts who may still observe it *)
(* and is dropped with its last user; the next user of the key makes a new  *)
(* one.  No section under `_metadata_lock' awaits, so each is one step.  An *)
(* asyncio.Lock is fair: a release hands it to the first waiter, which      *)
(* learns of it in a later step, and may be cancelled in between.           *)
(***************************************************************************)
EXTENDS Naturals, Sequences, FiniteSets

CONSTANTS
    Tasks,        \* tool calls of all the Runs of the Worker
    KeyLists      \* the lists of keys a call may name, in the order it names them

\* A key names a journal record or a resource.
Keys == UNION {{q[i] : i \in 1..Len(q)} : q \in KeyLists}

VARIABLES
    current,      \* the pool: current[k], the entry a newcomer to k would use
    references,   \* of an entry
    holder, queue,\* of an entry's lock
    at,           \* where the call is
    wanted,       \* the keys of the call, in the order it takes them
    got,          \* the entries it holds, in that order
    trying,       \* the entry it is entering or leaving
    cancelled     \* its Run's token

pool == <<current, references, holder, queue>>
lockVars == <<pool, at, wanted, got, trying>>
vars == <<lockVars, cancelled>>

Generations == 1..2     \* an entry is reused once nobody refers to it
Entries == Keys \X Generations
NoEntry == <<0, 0>>
NoTask == "none"
KeyOf(e) == e[1]

Init ==
    /\ current = [k \in Keys |-> NoEntry] /\ references = [e \in Entries |-> 0]
    /\ holder = [e \in Entries |-> NoTask] /\ queue = [e \in Entries |-> <<>>]
    /\ at = [t \in Tasks |-> "out"] /\ wanted = [t \in Tasks |-> <<>>]
    /\ got = [t \in Tasks |-> <<>>] /\ trying = [t \in Tasks |-> NoEntry]
    /\ cancelled = [t \in Tasks |-> FALSE]

Moves(t, to) == at' = [at EXCEPT ![t] = to]

\* The last element of a sequence, and what is before it.
Top(s) == s[Len(s)]
Below(s) == SubSeq(s, 1, Len(s) - 1)

\* The keys a call names, once each and sorted.
KeysOf(q) == {q[i] : i \in 1..Len(q)}
Ordered(q) ==
    CHOOSE s \in [1..Cardinality(KeysOf(q)) -> KeysOf(q)] :
        \A i, j \in DOMAIN s : i < j => s[i] < s[j]

\* _hold_invocation_locks, of a call that names the keys q
Begin(t, q) ==
    /\ at[t] = "out" /\ q # <<>>
    /\ wanted' = [wanted EXCEPT ![t] = Ordered(q)]
    /\ Moves(t, "next")
    /\ UNCHANGED <<pool, got, trying, cancelled>>

\* hold: find the entry of the next key, or make one.
Unused(k) == CHOOSE e \in {k} \X Generations : references[e] = 0
EntryFor(k) == IF current[k] = NoEntry THEN Unused(k) ELSE current[k]

Enter(t) ==
    /\ at[t] = "next" /\ Len(got[t]) < Len(wanted[t])
    /\ LET k == wanted[t][Len(got[t]) + 1]
       IN /\ current' = [current EXCEPT ![k] = EntryFor(k)]
          /\ references' = [references EXCEPT ![EntryFor(k)] = @ + 1]
          /\ trying' = [trying EXCEPT ![t] = EntryFor(k)]
    /\ Moves(t, "entered")
    /\ UNCHANGED <<holder, queue, wanted, got, cancelled>>

\* _acquire: the task that takes the lock takes it or queues ...
Request(t) ==
    LET e == trying[t]
    IN /\ at[t] = "entered" /\ ~cancelled[t]
       /\ IF holder[e] = NoTask
          THEN /\ holder' = [holder EXCEPT ![e] = t] /\ UNCHANGED queue
          ELSE /\ queue' = [queue EXCEPT ![e] = Append(@, t)] /\ UNCHANGED holder
       /\ Moves(t, "requested")
       /\ UNCHANGED <<current, references, wanted, got, trying, cancelled>>

\* ... the call learns that it has it ...
Acquired(t) ==
    /\ at[t] = "requested" /\ holder[trying[t]] = t /\ ~cancelled[t]
    /\ got' = [got EXCEPT ![t] = Append(@, trying[t])]
    /\ Moves(t, "next")
    /\ UNCHANGED <<pool, wanted, trying, cancelled>>

\* The lock passes to its first waiter.
HandOver(e) ==
    /\ holder' = [holder EXCEPT ![e] = IF queue[e] = <<>> THEN NoTask ELSE Head(queue[e])]
    /\ queue' = [queue EXCEPT ![e] = IF @ = <<>> THEN @ ELSE Tail(@)]

\* ... or that it is cancelled, and gives back even a lock it was just granted.
Queued(q, t) == \E i \in 1..Len(q) : q[i] = t
Place(q, t) == CHOOSE i \in 1..Len(q) : q[i] = t
Without(q, t) ==
    IF Queued(q, t) THEN [i \in 1..(Len(q) - 1) |-> q[IF i < Place(q, t) THEN i ELSE i + 1]]
    ELSE q

GiveUp(t, e) ==
    IF holder[e] = t THEN HandOver(e)
    ELSE queue' = [queue EXCEPT ![e] = Without(@, t)] /\ UNCHANGED holder

Withdraw(t) ==
    /\ at[t] \in {"entered", "requested"} /\ cancelled[t]
    /\ GiveUp(t, trying[t])
    /\ Moves(t, "leaving")
    /\ UNCHANGED <<current, references, wanted, got, trying, cancelled>>

\* The exit of hold: the last user drops the entry.
Mutant_LastUser(e) == references[e] <= 2
LastUser(e) == references[e] = 1

Leave(t) ==
    LET e == trying[t]
    IN /\ at[t] = "leaving"
       /\ references' = [references EXCEPT ![e] = @ - 1]
       /\ current' = [current EXCEPT ![KeyOf(e)] =
                         IF LastUser(e) /\ @ = e THEN NoEntry ELSE @]
       /\ Moves(t, "unwinding")
       /\ UNCHANGED <<holder, queue, wanted, got, trying, cancelled>>

HasAll(t) == at[t] = "next" /\ wanted[t] # <<>> /\ Len(got[t]) = Len(wanted[t])

\* The call is over: the locks are released in the opposite order.
Release(t) ==
    /\ HasAll(t)
    /\ Moves(t, "unwinding")
    /\ UNCHANGED <<pool, wanted, got, trying, cancelled>>

Unwind(t) ==
    /\ at[t] = "unwinding" /\ got[t] # <<>>
    /\ HandOver(Top(got[t]))
    /\ trying' = [trying EXCEPT ![t] = Top(got[t])]
    /\ got' = [got EXCEPT ![t] = Below(@)]
    /\ Moves(t, "leaving")
    /\ UNCHANGED <<current, references, wanted, cancelled>>

Out(t) ==
    /\ at[t] = "unwinding" /\ got[t] = <<>>
    /\ Moves(t, "out")
    /\ wanted' = [wanted EXCEPT ![t] = <<>>] /\ trying' = [trying EXCEPT ![t] = NoEntry]
    /\ UNCHANGED <<pool, got, cancelled>>

LockStep(t) ==
    \/ Enter(t) \/ Request(t) \/ Acquired(t) \/ Withdraw(t) \/ Leave(t) \/ Unwind(t) \/ Out(t)

\* The call's Run is cancelled; the next call of the task has a token of its own.
Cancel(t) ==
    /\ at[t] # "out" /\ ~cancelled[t]
    /\ cancelled' = [cancelled EXCEPT ![t] = TRUE]
    /\ UNCHANGED lockVars

Renew(t) ==
    /\ at[t] = "out" /\ cancelled[t]
    /\ cancelled' = [cancelled EXCEPT ![t] = FALSE]
    /\ UNCHANGED lockVars

Next ==
    \E t \in Tasks :
        \/ \E q \in KeyLists : Begin(t, q)
        \/ LockStep(t) \/ Release(t) \/ Cancel(t) \/ Renew(t)

Spec == Init /\ [][Next]_vars

-----------------------------------------------------------------------------
\* Every variable has its type.
TypeOK ==
    /\ current \in [Keys -> Entries \cup {NoEntry}]
    /\ references \in [Entries -> Nat]
    /\ holder \in [Entries -> Tasks \cup {NoTask}]
    /\ queue \in [Entries -> Seq(Tasks)]
    /\ at \in [Tasks -> {"out", "next", "entered", "requested", "leaving", "unwinding"}]
    /\ wanted \in [Tasks -> Seq(Keys)]
    /\ got \in [Tasks -> Seq(Entries)]
    /\ trying \in [Tasks -> Entries \cup {NoEntry}]
    /\ cancelled \in [Tasks -> BOOLEAN]

Holds(t, k) == \E i \in 1..Len(got[t]) : KeyOf(got[t][i]) = k

\* Two calls never hold one key, whatever entries for it came and went.
KeysExclude ==
    \A t, u \in Tasks : \A k \in Keys : Holds(t, k) /\ Holds(u, k) => t = u

Using(t, e) ==
    \/ \E i \in 1..Len(got[t]) : got[t][i] = e
    \/ at[t] \in {"entered", "requested", "leaving"} /\ trying[t] = e

\* Every reference is somebody's: an entry disappears with its last user, neither
\* under one that still waits for its lock nor long after.
EntriesAreCounted ==
    /\ \A e \in Entries : references[e] = Cardinality({t \in Tasks : Using(t, e)})
    /\ \A e \in Entries : references[e] > 0 <=> current[KeyOf(e)] = e
=============================================================================
