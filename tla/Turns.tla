-------------------------------- MODULE Turns --------------------------------
(***************************************************************************)
(* Who holds a session: HarnessService.start_turn, which registers a root   *)
(* Run with the TurnManager before it is durable, and                       *)
(* SessionLifecycleService.soft_delete, which takes the session's gate,     *)
(* cancels the Run through the same manager and deletes the session.        *)
(*                                                                          *)
(* `_command_lock' serialises the starts.  The manager's own lock never     *)
(* covers a suspension, so each of its methods is one step.  Of a Run there *)
(* is what the manager and a deletion see (AgentRun has the rest): the task *)
(* that waits for a slot, then for the start to be durable, then runs, and  *)
(* cleans up after its terminal commit.                                     *)
(***************************************************************************)
EXTENDS Naturals, FiniteSets

CONSTANTS
    Sessions, Requests, None,
    Plans,          \* what the requests may be, see `plan'
    MaxSlots,       \* Runs that may be at work at once
    MaxTroubles     \* what comes from outside, in all: see Trouble

ASSUME TurnsAssumption ==
    /\ IsFiniteSet(Requests) /\ None \notin Sessions \cup Requests
    /\ Plans \subseteq [Requests -> [op : {"start", "delete"}, session : Sessions, key : STRING]]
    /\ MaxSlots \in Nat \ {0} /\ MaxTroubles \in Nat

\* A key stands for where its receipt is: that of a start belongs to its session, and one
\* that a deletion of another session has used is refused as a conflict (left out).
ASSUME KeysAssumption ==
    \A p \in Plans : \A q, r \in Requests :
        p[q].key = p[r].key => p[q].op = p[r].op /\ p[q].session = p[r].session

VARIABLES
    plan,       \* plan[q]: operation, session and idempotency key; it never changes
    db,         \* durable: see Init.  The Run of a start is named like the request
    bySession, byRun,   \* TurnManager: the active Runs
    task,       \* task[q]: the asyncio task of the Run
    ready,      \* the future it waits for: "open", "set", "failed", "cancelled"
    cancelled,  \* its CancellationScope
    starter,    \* who holds `_command_lock'
    at,         \* where the request is
    seen,       \* the revision of the session it was made for, or has read
    victim,     \* the Run it waits for
    mine,       \* gate_acquired
    cut,        \* its client has gone
    answer,     \* "none", "ok", "refused", "gone"
    connected, accepting,
    adrift,     \* requests whose work a failed commit or a killed task has left behind
    troubles

manager == <<bySession, byRun>>
runs == <<task, ready, cancelled>>
mind == <<seen, victim, mine, cut>>
worker == <<connected, accepting>>
vars == <<plan, db, manager, runs, starter, at, mind, answer, worker, adrift, troubles>>

Op(q) == plan[q].op
Ses(q) == plan[q].session
Key(q) == plan[q].key
Undone(q) == task[q] \notin {"none", "done"}
InFlight(q) == at[q] \notin {"new", "done"}
Live(q) == db.run[q] \in {"idle", "busy"}

Init ==
    /\ plan \in Plans
    /\ db = [status |-> [s \in Sessions |-> "active"], revision |-> [s \in Sessions |-> 0],
             gate |-> [s \in Sessions |-> None],      \* the key of the deletion under way
             lease |-> [s \in Sessions |-> None],     \* active_root_runs
             run |-> [q \in Requests |-> "none"],     \* "idle", "busy" (effectful), "ended"
             receipt |-> [k \in {Key(q) : q \in Requests} |-> None]]
    /\ bySession = [s \in Sessions |-> None] /\ byRun = {}
    /\ task = [q \in Requests |-> "none"]
    /\ ready = [q \in Requests |-> "open"] /\ cancelled = [q \in Requests |-> FALSE]
    /\ starter = None
    /\ at = [q \in Requests |-> "new"] /\ seen = [q \in Requests |-> 0]
    /\ victim = [q \in Requests |-> None]
    /\ mine = [q \in Requests |-> FALSE] /\ cut = [q \in Requests |-> FALSE]
    /\ answer = [q \in Requests |-> "none"]
    /\ connected = TRUE /\ accepting = TRUE /\ adrift = {}
    /\ troubles = 0

\* A failing commit, a rename, a cancelled Run, a client that goes, a shutdown or
\* a crash may come at any moment; nothing makes it come.
Trouble == troubles < MaxTroubles /\ troubles' = troubles + 1

Goes(q, to) == at' = [at EXCEPT ![q] = to] /\ UNCHANGED answer

\* The answer is not sent when the client has gone.
Answers(q, a) ==
    /\ at' = [at EXCEPT ![q] = "done"]
    /\ answer' = [answer EXCEPT ![q] = IF cut[q] THEN "gone" ELSE a]

\* A unit of work commits, or it fails: with nothing written, or with the
\* acknowledgement of its commit lost.
Commit(d) == db' = d /\ UNCHANGED troubles
CommitFails(d) == Trouble /\ (db' = d \/ db' = db)

-----------------------------------------------------------------------------
\* start_turn

StartRequest(q) ==
    /\ at[q] = "new" /\ Op(q) = "start" /\ connected /\ starter = None
    /\ starter' = q /\ Goes(q, "read")
    /\ UNCHANGED <<plan, db, manager, runs, mind, worker, adrift, troubles>>

\* The stored receipt of the same key, a refusal, or the session as it is now.
ReadSession(q) ==
    LET s == Ses(q)
        fits == db.gate[s] = None /\ db.status[s] = "active"
    IN  /\ at[q] = "read"
        /\ \/ db.receipt[Key(q)] # None /\ Answers(q, "ok")
           \/ db.receipt[Key(q)] = None /\ ~fits /\ Answers(q, "refused")
           \/ db.receipt[Key(q)] = None /\ fits /\ Goes(q, "settle")
        /\ starter' = IF at'[q] = "done" THEN None ELSE q
        /\ seen' = [seen EXCEPT ![q] = db.revision[s]]
        /\ UNCHANGED <<plan, db, manager, runs, victim, mine, cut, worker, adrift, troubles>>

\* settle_terminal: a Run whose end is durable may still be cleaning up.
Settle(q) ==
    LET r == bySession[Ses(q)] IN
    /\ at[q] = "settle"
    /\ IF r = None \/ ~Undone(r) THEN Goes(q, "register") /\ UNCHANGED victim
       ELSE Goes(q, "check") /\ victim' = [victim EXCEPT ![q] = r]
    /\ UNCHANGED <<plan, db, manager, runs, starter, seen, mine, cut, worker, adrift, troubles>>

Check(q) ==
    /\ at[q] = "check"
    /\ Goes(q, IF db.run[victim[q]] = "ended" THEN "drain" ELSE "register")
    /\ UNCHANGED <<plan, db, manager, runs, starter, mind, worker, adrift, troubles>>

Drain(q) ==
    /\ at[q] = "drain" /\ ~Undone(victim[q]) /\ Goes(q, "register")
    /\ UNCHANGED <<plan, db, manager, runs, starter, mind, worker, adrift, troubles>>

\* TurnManager.start
Register(q) ==
    LET s == Ses(q)
        free == bySession[s] = None \/ ~Undone(bySession[s])
    IN  /\ at[q] = "register"
        /\ IF accepting /\ free
           THEN /\ task' = [task EXCEPT ![q] = "slot"]
                /\ bySession' = [bySession EXCEPT ![s] = q] /\ byRun' = byRun \cup {q}
                /\ Goes(q, "persist") /\ UNCHANGED starter
           ELSE Answers(q, "refused") /\ starter' = None /\ UNCHANGED <<manager, task>>
        /\ UNCHANGED <<plan, db, ready, cancelled, mind, worker, adrift, troubles>>

\* mutant: the session is written without comparing its revision.
Mutant_MayPersist(q) == db.gate[Ses(q)] = None /\ db.lease[Ses(q)] = None

\* What _persist_turn_start compares again, and what it writes.
MayPersist(q) ==
    /\ db.gate[Ses(q)] = None /\ db.lease[Ses(q)] = None
    /\ db.revision[Ses(q)] = seen[q]

Persisted(q) == [db EXCEPT !.lease[Ses(q)] = q, !.revision[Ses(q)] = @ + 1,
                           !.run[q] = "idle", !.receipt[Key(q)] = q]

\* mutant: a start whose client has gone is aborted, although it is durable.
Mutant_AfterCommit(q) == IF cut[q] THEN "abort" ELSE "release"

\* The persistence is shielded from the client that goes.
AfterCommit(q) == "release"

Persist(q) ==
    /\ at[q] = "persist"
    /\ \/ MayPersist(q) /\ Commit(Persisted(q)) /\ Goes(q, AfterCommit(q)) /\ UNCHANGED adrift
       \/ ~MayPersist(q) /\ UNCHANGED <<db, troubles, adrift>> /\ Goes(q, "abort")
       \/ /\ MayPersist(q) /\ CommitFails(Persisted(q)) /\ Goes(q, "abort")
          /\ adrift' = IF db' = db THEN adrift ELSE adrift \cup {q}
    /\ UNCHANGED <<plan, manager, runs, starter, mind, worker>>

\* The durable start releases the task, also for a client that has gone; the
\* future is only cancelled when the shutdown has killed the task.
Release(q) ==
    /\ at[q] = "release" /\ starter' = None
    /\ IF ready[q] = "open" THEN ready' = [ready EXCEPT ![q] = "set"] /\ Answers(q, "ok")
       ELSE Answers(q, "refused") /\ UNCHANGED ready
    /\ UNCHANGED <<plan, db, manager, task, cancelled, mind, worker, adrift, troubles>>

\* mutant: the scope of the Run is cancelled, but nothing in its task looks at it.
Mutant_FailedStart(q) == ready

FailedStart(q) == [ready EXCEPT ![q] = IF @ = "open" THEN "failed" ELSE @]

\* _abort_turn_start
Abort(q) ==
    /\ at[q] = "abort" /\ Goes(q, "aborting")
    /\ ready' = FailedStart(q)
    /\ cancelled' = [cancelled EXCEPT ![q] = TRUE]
    /\ UNCHANGED <<plan, db, manager, task, starter, mind, worker, adrift, troubles>>

Aborted(q) ==
    /\ at[q] = "aborting" /\ ~Undone(q)
    /\ Answers(q, "refused") /\ starter' = None
    /\ UNCHANGED <<plan, db, manager, runs, mind, worker, adrift, troubles>>

StartStep(q) ==
    \/ StartRequest(q) \/ ReadSession(q) \/ Settle(q) \/ Check(q) \/ Drain(q)
    \/ Register(q) \/ Persist(q) \/ Release(q) \/ Abort(q) \/ Aborted(q)

-----------------------------------------------------------------------------
\* The task of a Run

AtWork == {q \in Requests : task[q] \in {"ready", "loop", "cleanup"}}

TakeSlot(q) ==
    /\ task[q] = "slot" /\ Cardinality(AtWork) < MaxSlots
    /\ task' = [task EXCEPT ![q] = "ready"]
    /\ UNCHANGED <<plan, db, manager, ready, cancelled, starter, at, mind, answer, worker, adrift, troubles>>

Enter(q) ==
    /\ task[q] = "ready" /\ ready[q] # "open"
    /\ task' = [task EXCEPT ![q] = IF ready[q] = "set" THEN "loop" ELSE "done"]
    /\ UNCHANGED <<plan, db, manager, ready, cancelled, starter, at, mind, answer, worker, adrift, troubles>>

\* The loop enters and leaves the phases in which a tool may have an effect.
Dispatch(q) ==
    /\ task[q] = "loop" /\ db.run[q] = "idle" /\ ~cancelled[q]
    /\ db' = [db EXCEPT !.run[q] = "busy"]
    /\ UNCHANGED <<plan, manager, runs, starter, at, mind, answer, worker, adrift, troubles>>

Record(q) ==
    /\ task[q] = "loop" /\ db.run[q] = "busy"
    /\ db' = [db EXCEPT !.run[q] = "idle"]
    /\ UNCHANGED <<plan, manager, runs, starter, at, mind, answer, worker, adrift, troubles>>

\* The terminal commit, by itself or cancelled, gives the session back.
Finish(q) ==
    LET ended == [db EXCEPT !.run[q] = "ended", !.lease[Ses(q)] = None] IN
    /\ task[q] = "loop" /\ task' = [task EXCEPT ![q] = "cleanup"]
    /\ \/ Commit(ended) /\ UNCHANGED adrift
       \/ CommitFails(ended) /\ adrift' = IF db' = db THEN adrift \cup {q} ELSE adrift
    /\ UNCHANGED <<plan, manager, ready, cancelled, starter, at, mind, answer, worker>>

CleanUp(q) ==
    /\ task[q] = "cleanup" /\ task' = [task EXCEPT ![q] = "done"]
    /\ UNCHANGED <<plan, db, manager, ready, cancelled, starter, at, mind, answer, worker, adrift, troubles>>

\* mutant: the end of a Run removes whatever Run its session has by then.
Mutant_Removed(q) == [bySession EXCEPT ![Ses(q)] = None]

Removed(q) == [bySession EXCEPT ![Ses(q)] = IF @ = q THEN None ELSE @]

\* TurnManager._remove, a task of its own.
Remove(q) ==
    /\ task[q] = "done" /\ q \in byRun
    /\ byRun' = byRun \ {q}
    /\ bySession' = Removed(q)
    /\ cancelled' = [cancelled EXCEPT ![q] = FALSE]
    /\ UNCHANGED <<plan, db, task, ready, starter, at, mind, answer, worker, adrift, troubles>>

TaskStep(q) == TakeSlot(q) \/ Enter(q) \/ Finish(q) \/ CleanUp(q) \/ Remove(q)

\* TurnManager.cancel for the user.
CancelRun(q) ==
    /\ q \in byRun /\ ~cancelled[q] /\ connected /\ Trouble
    /\ cancelled' = [cancelled EXCEPT ![q] = TRUE]
    /\ UNCHANGED <<plan, db, manager, task, ready, starter, at, mind, answer, worker, adrift>>

-----------------------------------------------------------------------------
\* soft_delete.  The client names the revision of the session it has seen, and a
\* repeated request names the same.
DeleteRequest(q) ==
    LET first == {p \in Requests : Key(p) = Key(q) /\ at[p] # "new"} IN
    /\ at[q] = "new" /\ Op(q) = "delete" /\ connected
    /\ seen' = [seen EXCEPT ![q] = IF first = {} THEN db.revision[Ses(q)]
                                   ELSE seen[CHOOSE p \in first : TRUE]]
    /\ IF db.receipt[Key(q)] # None THEN Answers(q, "ok") ELSE Goes(q, "gate")
    /\ UNCHANGED <<plan, db, manager, runs, starter, victim, mine, cut, worker, adrift, troubles>>

Deletable(q) == db.status[Ses(q)] = "active" /\ db.revision[Ses(q)] = seen[q]

\* _acquire_delete_gate: an exception is forgiven when the gate is found in place.
AcquireGate(q) ==
    LET s == Ses(q)
        k == Key(q)
        Has(g) == mine' = [mine EXCEPT ![q] = g] /\ Goes(q, "replay")
        Fails == UNCHANGED mine /\ Goes(q, "recover")
        held == [db EXCEPT !.gate[s] = k]
    IN  /\ at[q] = "gate"
        /\ \/ db.receipt[k] # None /\ Has(FALSE) /\ UNCHANGED <<db, troubles>>
           \/ db.receipt[k] = None /\ db.gate[s] = k /\ Has(TRUE) /\ UNCHANGED <<db, troubles>>
           \/ /\ db.receipt[k] = None /\ db.gate[s] = None /\ Deletable(q)
              /\ \/ Commit(held) /\ Has(TRUE)
                 \/ CommitFails(held) /\ IF db' = held THEN Has(TRUE) ELSE Fails
           \/ /\ db.receipt[k] = None /\ db.gate[s] # k /\ ~(Deletable(q) /\ db.gate[s] = None)
              /\ Fails /\ UNCHANGED <<db, troubles>>
        /\ UNCHANGED <<plan, manager, runs, starter, seen, victim, cut, worker, adrift>>

Replay(q) ==
    /\ at[q] = "replay"
    /\ IF db.receipt[Key(q)] # None THEN Answers(q, "ok") ELSE Goes(q, "authority")
    /\ UNCHANGED <<plan, db, manager, runs, starter, mind, worker, adrift, troubles>>

\* _load_delete_authority names the active Run; each look at it is a later step.
Authority(q) ==
    LET r == db.lease[Ses(q)] IN
    /\ at[q] = "authority" /\ victim' = [victim EXCEPT ![q] = r]
    /\ Goes(q, IF ~Deletable(q) \/ db.gate[Ses(q)] # Key(q) THEN "recover"
               ELSE IF r = None THEN "finalize" ELSE "state")
    /\ UNCHANGED <<plan, db, manager, runs, starter, seen, mine, cut, worker, adrift, troubles>>

CheckEffects(q) ==
    /\ at[q] = "state"
    /\ Goes(q, IF db.run[victim[q]] = "busy" THEN "recover" ELSE "lookup")
    /\ UNCHANGED <<plan, db, manager, runs, starter, mind, worker, adrift, troubles>>

Lookup(q) ==
    /\ at[q] = "lookup"
    /\ Goes(q, IF victim[q] \in byRun THEN "cancel" ELSE "recover")
    /\ UNCHANGED <<plan, db, manager, runs, starter, mind, worker, adrift, troubles>>

CancelVictim(q) ==
    /\ at[q] = "cancel" /\ Goes(q, "await")
    /\ cancelled' = [cancelled EXCEPT ![victim[q]] = @ \/ victim[q] \in byRun]
    /\ UNCHANGED <<plan, db, manager, task, ready, starter, mind, worker, adrift, troubles>>

AwaitVictim(q) ==
    /\ at[q] = "await" /\ ~Undone(victim[q]) /\ Goes(q, "verify")
    /\ UNCHANGED <<plan, db, manager, runs, starter, mind, worker, adrift, troubles>>

VerifyTerminal(q) ==
    /\ at[q] = "verify"
    /\ Goes(q, IF db.lease[Ses(q)] = None /\ ~Live(victim[q]) THEN "finalize" ELSE "recover")
    /\ UNCHANGED <<plan, db, manager, runs, starter, mind, worker, adrift, troubles>>

\* _finalize_delete; the approvals and grants that go before are in Approvals.
Finalize(q) ==
    LET s == Ses(q)
        fits == Deletable(q) /\ db.gate[s] = Key(q) /\ db.lease[s] = None
        deleted == [db EXCEPT !.status[s] = "deleted", !.revision[s] = @ + 1,
                              !.receipt[Key(q)] = q, !.gate[s] = None]
    IN  /\ at[q] = "finalize"
        /\ \/ db.receipt[Key(q)] # None /\ Answers(q, "ok") /\ UNCHANGED <<db, troubles>>
           \/ /\ db.receipt[Key(q)] = None /\ fits
              /\ \/ Commit(deleted) /\ Answers(q, "ok")
                 \/ CommitFails(deleted) /\ Goes(q, "recover")
           \/ /\ db.receipt[Key(q)] = None /\ ~fits
              /\ Goes(q, "recover") /\ UNCHANGED <<db, troubles>>
        /\ UNCHANGED <<plan, manager, runs, starter, mind, worker, adrift>>

\* _recover_delete, in every handler: the receipt may be there all the same.
Recover(q) ==
    /\ at[q] = "recover"
    /\ IF db.receipt[Key(q)] # None THEN Answers(q, "ok")
       ELSE IF mine[q] THEN Goes(q, "ungate") ELSE Answers(q, "refused")
    /\ UNCHANGED <<plan, db, manager, runs, starter, mind, worker, adrift, troubles>>

\* _release_delete_gate, whose failure is swallowed.
ReleaseGate(q) ==
    LET s == Ses(q)
        free == [db EXCEPT !.gate[s] = IF @ = Key(q) THEN None ELSE @]
    IN  /\ at[q] = "ungate" /\ Answers(q, "refused")
        /\ \/ Commit(free) /\ UNCHANGED adrift
           \/ CommitFails(free) /\ adrift' = IF db' = db THEN adrift \cup {q} ELSE adrift
        /\ UNCHANGED <<plan, manager, runs, starter, mind, worker>>

DeleteStep(q) ==
    \/ DeleteRequest(q) \/ AcquireGate(q) \/ Replay(q) \/ Authority(q) \/ CheckEffects(q)
    \/ Lookup(q) \/ CancelVictim(q) \/ AwaitVictim(q) \/ VerifyTerminal(q) \/ Finalize(q)
    \/ Recover(q) \/ ReleaseGate(q)

\* session/rename, one unit of work.
Rename(s) ==
    /\ connected /\ Trouble
    /\ db.status[s] = "active" /\ db.gate[s] = None
    /\ db' = [db EXCEPT !.revision[s] = @ + 1]
    /\ UNCHANGED <<plan, manager, runs, starter, at, mind, answer, worker, adrift>>

-----------------------------------------------------------------------------
\* The Worker

\* A killed task ends, except that of a Run in its loop, whose handlers end the
\* Run as interrupted.
Ends(K) == [q \in Requests |-> IF q \in K /\ task[q] \in {"slot", "ready", "cleanup"}
                               THEN "done" ELSE task[q]]
Stops(K) == [q \in Requests |-> IF q \in K /\ task[q] = "ready" /\ ready[q] = "open"
                                THEN "cancelled" ELSE ready[q]]

\* The client goes: the connection cancels the tasks of the requests in flight,
\* and a request that gathers the task of a Run cancels that as well.  A start
\* that is being persisted goes on, and so does the release of a gate after an
\* error; a deletion cancelled elsewhere leaves its gate.
Disconnect ==
    LET goOn == {q \in Requests : at[q] \in {"persist", "release", "abort"}}
        ungate == {q \in Requests : at[q] = "recover" /\ mine[q]}
        flight == {q \in Requests : InFlight(q)}
        killed == {q \in Requests : at[q] = "aborting"}
                  \cup {victim[q] : q \in {p \in Requests : at[p] = "await"}}
    IN  /\ connected /\ connected' = FALSE /\ Trouble
        /\ cut' = [q \in Requests |-> cut[q] \/ q \in flight]
        /\ at' = [q \in Requests |-> IF q \in flight \ (goOn \cup ungate) THEN "done"
                                     ELSE IF q \in ungate THEN "ungate" ELSE at[q]]
        /\ answer' = [q \in Requests |-> IF q \in flight \ (goOn \cup ungate) THEN "gone" ELSE answer[q]]
        /\ starter' = IF starter \in goOn THEN starter ELSE None
        /\ task' = Ends(killed) /\ ready' = Stops(killed)
        /\ adrift' = adrift \cup killed
        /\ UNCHANGED <<plan, db, manager, cancelled, seen, victim, mine, accepting>>

\* TurnManager.shutdown, and, when its grace is over, the tasks that are left.
Shutdown ==
    /\ accepting /\ accepting' = FALSE /\ Trouble
    /\ cancelled' = [q \in Requests |-> cancelled[q] \/ q \in byRun]
    /\ UNCHANGED <<plan, db, manager, task, ready, starter, at, mind, answer, connected, adrift>>

Kill(q) ==
    /\ ~accepting /\ task[q] \in {"slot", "ready", "cleanup"}
    /\ task' = Ends({q}) /\ ready' = Stops({q}) /\ adrift' = adrift \cup {q}
    /\ UNCHANGED <<plan, db, manager, cancelled, starter, at, mind, answer, worker, troubles>>

\* The Worker dies and starts: recovery ends a Run that was interrupted, or
\* resume_recovered_runs registers it.
Restart ==
    /\ Trouble
    /\ \E R \in SUBSET {q \in Requests : Live(q)} :
        /\ db' = [db EXCEPT
                    !.run = [q \in Requests |-> IF q \in R THEN "idle"
                                                ELSE IF Live(q) THEN "ended" ELSE @[q]],
                    !.lease = [s \in Sessions |-> IF @[s] \in R THEN @[s] ELSE None]]
        /\ bySession' = [s \in Sessions |-> IF db.lease[s] \in R THEN db.lease[s] ELSE None]
        /\ byRun' = R
        /\ task' = [q \in Requests |-> IF q \in R THEN "slot" ELSE "none"]
        /\ ready' = [q \in Requests |-> IF q \in R THEN "set" ELSE "open"]
    /\ cancelled' = [q \in Requests |-> FALSE]
    /\ starter' = None
    /\ at' = [q \in Requests |-> IF InFlight(q) THEN "done" ELSE at[q]]
    /\ answer' = [q \in Requests |-> IF InFlight(q) THEN "gone" ELSE answer[q]]
    /\ connected' = TRUE /\ accepting' = TRUE
    /\ UNCHANGED <<plan, mind, adrift>>

\* Some ready callback runs, and a Run ends by itself or at its deadline; every one
\* of these steps brings a request or a task nearer to its end.
Progress == \E q \in Requests : StartStep(q) \/ DeleteStep(q) \/ TaskStep(q)

Next ==
    \/ Progress
    \/ \E q \in Requests : Dispatch(q) \/ Record(q) \/ CancelRun(q) \/ Kill(q)
    \/ \E s \in Sessions : Rename(s)
    \/ Disconnect \/ Shutdown \/ Restart

Spec == Init /\ [][Next]_vars
FairSpec == Spec /\ WF_vars(Progress)

-----------------------------------------------------------------------------
Keys == {Key(q) : q \in Requests}

Stored == [status : [Sessions -> {"active", "deleted"}], revision : [Sessions -> Nat],
           gate : [Sessions -> Keys \cup {None}], lease : [Sessions -> Requests \cup {None}],
           run : [Requests -> {"none", "idle", "busy", "ended"}],
           receipt : [Keys -> Requests \cup {None}]]

TypeOK ==
    /\ plan \in Plans
    /\ db \in Stored
    /\ bySession \in [Sessions -> Requests \cup {None}] /\ byRun \subseteq Requests
    /\ task \in [Requests -> {"none", "slot", "ready", "loop", "cleanup", "done"}]
    /\ ready \in [Requests -> {"open", "set", "failed", "cancelled"}]
    /\ at \in [Requests -> {"new", "read", "settle", "check", "drain", "register", "persist",
                            "release", "abort", "aborting", "gate", "replay", "authority",
                            "state", "lookup", "cancel", "await", "verify", "finalize",
                            "recover", "ungate", "done"}]

\* Every task of a Run can be reached by cancel, steer and shutdown, and a session
\* has one at most, although an ended Run is removed later, by a task of its own.
RunsAreReachable ==
    \A q \in Requests : Undone(q) => q \in byRun /\ bySession[Ses(q)] = q

\* A session is held by someone who will let it go: its lease by a Run whose task
\* goes on, its gate by a deletion that is under way.  Otherwise a failed commit,
\* a killed task or a client that went in the middle of a deletion is the cause.
HeldByTheLiving ==
    \A s \in Sessions :
        /\ db.lease[s] # None => Undone(db.lease[s]) \/ db.lease[s] \in adrift
        /\ db.gate[s] # None =>
             \E q \in Requests : /\ Op(q) = "delete" /\ Key(q) = db.gate[s]
                                 /\ (mine[q] /\ InFlight(q)) \/ answer[q] = "gone" \/ q \in adrift

\* What a client was told is so: a turn accepted is stored, one refused never comes
\* to life, and after a deletion the session stays deleted with no Run alive.
AnswersAreTrue ==
    \A q \in Requests :
        /\ Op(q) = "start" /\ answer[q] = "ok" =>
             db.receipt[Key(q)] # None /\ db.run[db.receipt[Key(q)]] # "none"
        /\ Op(q) = "start" /\ answer[q] = "refused" => db.run[q] = "none" \/ q \in adrift
        /\ Op(q) = "delete" /\ answer[q] = "ok" =>
             /\ db.status[Ses(q)] = "deleted"
             /\ \A p \in Requests : Op(p) = "start" /\ Ses(p) = Ses(q) => ~Live(p)

\* Every request is answered: nobody waits for ever for the lock of the starts, for
\* a Run's task, or for a Run that waits for the start.  (Requests are finitely
\* many, so none is in flight again and again.)
EveryRequestIsAnswered == []<>(\A q \in Requests : ~InFlight(q))

=============================================================================
