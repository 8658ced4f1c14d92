----------------------------- MODULE Turns_proofs -----------------------------
(***************************************************************************)
(* Whoever runs can be reached: no task of a Run is ever lost to its        *)
(* TurnManager, and a session never has two.                                *)
(*                                                                          *)
(* `Register' keeps this because it looks at the task of the Run that the   *)
(* session has, and `Remove' because it removes a Run that is done from     *)
(* where it still stands.  A restart makes tasks from leases: there it must *)
(* be known that a Run that lives holds the lease of its session            *)
(* (`LeaseIsOfTheLiving'), that only such a Run gets into its loop, whose   *)
(* end gives the lease back (`LoopIsLive'), and that nothing else frees a   *)
(* task that waits for its start (`ReadyWhenStored').                       *)
(*                                                                          *)
(* Sessions are let go, and clients were told the truth: the second part,   *)
(* from `Tidy' on.  Who has the lease or the gate will give it back, and a  *)
(* start that read the session before its deletion is behind its revision.  *)
(*                                                                          *)
(* At the end the tree of cancellation scopes, a module of its own.         *)
(***************************************************************************)
EXTENDS Turns, CancellationTree, TLAPS

LeaseIsOfTheLiving == \A q \in Requests : Live(q) => db.lease[Ses(q)] = q

LoopIsLive ==
    \A q \in Requests :
        /\ task[q] \in {"slot", "ready", "loop"}
        /\ ready[q] = "set" \/ at[q] = "release" \/ task[q] = "loop"
        => Live(q)

ReadyWhenStored ==
    \A q \in Requests :
        /\ at[q] # "done" => ready[q] # "set"
        /\ at[q] = "new" => ~Live(q)

IInv == TypeOK /\ RunsAreReachable /\ LeaseIsOfTheLiving /\ LoopIsLive /\ ReadyWhenStored

USE DEF Undone, Live, Ses, Key, Op

LEMMA InitIInv == Init => IInv
  BY TurnsAssumption
     DEF Init, IInv, TypeOK, Stored, Keys, RunsAreReachable, LeaseIsOfTheLiving, LoopIsLive, ReadyWhenStored

\* The types of the store do not move: the requests do not change.
LEMMA SameStore == plan' = plan => Stored' = Stored
  BY DEF Stored, Keys

\* Of what the requests are.
LEMMA Planned ==
  ASSUME IInv PROVE \A q \in Requests : Ses(q) \in Sessions /\ Key(q) \in Keys
  BY TurnsAssumption DEF IInv, TypeOK, Keys

\* What a unit of work writes is of the type of the store.
LEMMA StartStored ==
  ASSUME IInv, NEW q \in Requests PROVE Persisted(q) \in Stored
<1> DEFINE d1 == [db EXCEPT !.lease[Ses(q)] = q]
           d2 == [d1 EXCEPT !.revision[Ses(q)] = @ + 1]
           d3 == [d2 EXCEPT !.run[q] = "idle"]
           d4 == [d3 EXCEPT !.receipt[Key(q)] = q]
<1>1. d1 \in Stored  BY Planned DEF IInv, TypeOK, Stored
<1> HIDE DEF d1
<1>2. d2 \in Stored  BY <1>1, Planned DEF Stored
<1> HIDE DEF d2
<1>3. d3 \in Stored  BY <1>2 DEF Stored
<1> HIDE DEF d3
<1>4. d4 \in Stored  BY <1>3, Planned DEF Stored
<1> QED  BY <1>4 DEF d1, d2, d3, d4, Persisted

LEMMA EndStored ==
  ASSUME IInv, NEW q \in Requests
  PROVE  [db EXCEPT !.run[q] = "ended", !.lease[Ses(q)] = None] \in Stored
<1> DEFINE d1 == [db EXCEPT !.run[q] = "ended"]
           d2 == [d1 EXCEPT !.lease[Ses(q)] = None]
<1>1. d1 \in Stored  BY DEF IInv, TypeOK, Stored
<1> HIDE DEF d1
<1>2. d2 \in Stored  BY <1>1, Planned DEF Stored
<1> QED  BY <1>2 DEF d1, d2

LEMMA DeletionStored ==
  ASSUME IInv, NEW q \in Requests
  PROVE  [db EXCEPT !.status[Ses(q)] = "deleted", !.revision[Ses(q)] = @ + 1,
                    !.receipt[Key(q)] = q, !.gate[Ses(q)] = None] \in Stored
<1> DEFINE d1 == [db EXCEPT !.status[Ses(q)] = "deleted"]
           d2 == [d1 EXCEPT !.revision[Ses(q)] = @ + 1]
           d3 == [d2 EXCEPT !.receipt[Key(q)] = q]
           d4 == [d3 EXCEPT !.gate[Ses(q)] = None]
<1>1. d1 \in Stored  BY Planned DEF IInv, TypeOK, Stored
<1> HIDE DEF d1
<1>2. d2 \in Stored  BY <1>1, Planned DEF Stored
<1> HIDE DEF d2
<1>3. d3 \in Stored  BY <1>2, Planned DEF Stored
<1> HIDE DEF d3
<1>4. d4 \in Stored  BY <1>3, Planned DEF Stored
<1> QED  BY <1>4 DEF d1, d2, d3, d4

\* What a step that moves requests on, and touches nothing else of this, keeps.
LEMMA MovesOn ==
  ASSUME IInv, UNCHANGED <<plan, db, bySession, byRun, task, ready>>, TypeOK',
         \A q \in Requests :
            at'[q] = at[q] \/ (at[q] # "done" /\ at'[q] \notin {"new", "release"})
  PROVE  IInv'
  BY DEF IInv, RunsAreReachable, LeaseIsOfTheLiving, LoopIsLive, ReadyWhenStored

\* The same when the durable state changes, but no Run of it and no lease.
LEMMA StoresOn ==
  ASSUME IInv, UNCHANGED <<plan, bySession, byRun, task, ready>>, TypeOK',
         db'.run = db.run, db'.lease = db.lease,
         \A q \in Requests :
            at'[q] = at[q] \/ (at[q] # "done" /\ at'[q] \notin {"new", "release"})
  PROVE  IInv'
  BY DEF IInv, RunsAreReachable, LeaseIsOfTheLiving, LoopIsLive, ReadyWhenStored

-----------------------------------------------------------------------------
\* start_turn

LEMMA StartIInv ==
  ASSUME NEW q \in Requests, IInv, StartStep(q) PROVE IInv'
<1> USE DEF Goes, Answers
<1>1. CASE StartRequest(q)
  <2> TypeOK'  BY <1>1, SameStore DEF StartRequest, IInv, TypeOK, runs, manager
  <2> QED  BY <1>1, MovesOn DEF StartRequest, IInv, TypeOK, runs, manager
<1>2. CASE ReadSession(q)
  <2> TypeOK'  BY <1>2, SameStore DEF ReadSession, IInv, TypeOK, runs, manager
  <2> QED  BY <1>2, MovesOn DEF ReadSession, IInv, TypeOK, runs, manager
<1>3. CASE Settle(q)
  <2> TypeOK'  BY <1>3, SameStore DEF Settle, IInv, TypeOK, runs, manager
  <2> QED  BY <1>3, MovesOn DEF Settle, IInv, TypeOK, runs, manager
<1>4. CASE Check(q)
  <2> TypeOK'  BY <1>4, SameStore DEF Check, IInv, TypeOK, runs, manager
  <2> QED  BY <1>4, MovesOn DEF Check, IInv, TypeOK, runs, manager
<1>5. CASE Drain(q)
  <2> TypeOK'  BY <1>5, SameStore DEF Drain, IInv, TypeOK, runs, manager
  <2> QED  BY <1>5, MovesOn DEF Drain, IInv, TypeOK, runs, manager
<1>6. CASE Register(q)
  <2>1. TypeOK'  BY <1>6, SameStore DEF Register, IInv, TypeOK, manager, mind
  <2>2. RunsAreReachable'
    <3>1. CASE UNCHANGED <<plan, bySession, byRun, task>>
      BY <3>1 DEF IInv, RunsAreReachable
    <3>2. CASE UNCHANGED plan /\ bySession' = [bySession EXCEPT ![Ses(q)] = q]
               /\ byRun' = byRun \cup {q} /\ task' = [task EXCEPT ![q] = "slot"]
               /\ (bySession[Ses(q)] = None \/ ~Undone(bySession[Ses(q)]))
      <4> \A r \in Requests \ {q} : Undone(r) => Ses(r) # Ses(q)
        BY <3>2, TurnsAssumption DEF IInv, RunsAreReachable
      <4> QED  BY <3>2, Planned DEF IInv, TypeOK, RunsAreReachable
    <3> QED  BY <1>6, <3>1, <3>2 DEF Register, manager
  <2>3. LeaseIsOfTheLiving'  BY <1>6 DEF Register, IInv, LeaseIsOfTheLiving
  <2>4. LoopIsLive'  BY <1>6 DEF Register, IInv, TypeOK, LoopIsLive, ReadyWhenStored
  <2>5. ReadyWhenStored'  BY <1>6 DEF Register, IInv, TypeOK, ReadyWhenStored
  <2> QED  BY <2>1, <2>2, <2>3, <2>4, <2>5 DEF IInv
<1>7. CASE Persist(q)
  <2>1. /\ at[q] = "persist" /\ at' \in {[at EXCEPT ![q] = "release"], [at EXCEPT ![q] = "abort"]}
        /\ UNCHANGED <<plan, bySession, byRun, task, ready>>
    BY <1>7 DEF Persist, AfterCommit, runs, manager
  <2>2. CASE db' = db /\ at' = [at EXCEPT ![q] = "abort"]
    <3> TypeOK'  BY <2>1, <2>2, SameStore DEF IInv, TypeOK
    <3> QED  BY <2>1, <2>2, MovesOn DEF IInv, TypeOK
  <2>3. CASE MayPersist(q) /\ db' = Persisted(q)
    <3>1. /\ db'.run = [db.run EXCEPT ![q] = "idle"]
          /\ db'.lease = [db.lease EXCEPT ![Ses(q)] = q]
      BY <2>3 DEF Persisted, IInv, TypeOK, Stored
    <3>2. TypeOK'  BY <2>1, <2>3, StartStored, SameStore DEF IInv, TypeOK
    <3>3. RunsAreReachable'  BY <2>1 DEF IInv, RunsAreReachable
    <3>4. LeaseIsOfTheLiving'
      BY <2>1, <2>3, <3>1, Planned, TurnsAssumption DEF MayPersist, IInv, TypeOK, Stored, LeaseIsOfTheLiving
    <3>5. LoopIsLive' /\ ReadyWhenStored'
      BY <2>1, <3>1 DEF IInv, TypeOK, Stored, LoopIsLive, ReadyWhenStored
    <3> QED  BY <3>2, <3>3, <3>4, <3>5 DEF IInv
  <2> QED  BY <1>7, <2>2, <2>3 DEF Persist, Commit, CommitFails
<1>8. CASE Release(q)
  <2> USE DEF Release, manager
  <2>1. TypeOK'  BY <1>8, SameStore DEF IInv, TypeOK
  <2>2. RunsAreReachable' /\ LeaseIsOfTheLiving'
    BY <1>8 DEF IInv, RunsAreReachable, LeaseIsOfTheLiving
  <2>3. LoopIsLive' /\ ReadyWhenStored'  BY <1>8 DEF IInv, TypeOK, LoopIsLive, ReadyWhenStored
  <2> QED  BY <2>1, <2>2, <2>3 DEF IInv
<1>9. CASE Abort(q)
  <2> USE DEF Abort, FailedStart, manager
  <2>1. TypeOK'  BY <1>9, SameStore DEF IInv, TypeOK
  <2>2. RunsAreReachable' /\ LeaseIsOfTheLiving'
    BY <1>9 DEF IInv, RunsAreReachable, LeaseIsOfTheLiving
  <2>3. LoopIsLive' /\ ReadyWhenStored'  BY <1>9 DEF IInv, TypeOK, LoopIsLive, ReadyWhenStored
  <2> QED  BY <2>1, <2>2, <2>3 DEF IInv
<1>10. CASE Aborted(q)
  <2> TypeOK'  BY <1>10, SameStore DEF Aborted, IInv, TypeOK, runs, manager
  <2> QED  BY <1>10, MovesOn DEF Aborted, IInv, TypeOK, runs, manager
<1> QED  BY <1>1, <1>2, <1>3, <1>4, <1>5, <1>6, <1>7, <1>8, <1>9, <1>10 DEF StartStep

-----------------------------------------------------------------------------
\* soft_delete

LEMMA DeleteIInv ==
  ASSUME NEW q \in Requests, IInv, DeleteStep(q) PROVE IInv'
<1> USE DEF Goes, Answers
<1>1. CASE DeleteRequest(q)
  <2> TypeOK'  BY <1>1, SameStore DEF DeleteRequest, IInv, TypeOK, runs, manager
  <2> QED  BY <1>1, MovesOn DEF DeleteRequest, IInv, TypeOK, runs, manager
<1>2. CASE AcquireGate(q)
  <2>1. db' = db \/ db' = [db EXCEPT !.gate[Ses(q)] = Key(q)]
    BY <1>2 DEF AcquireGate, Commit, CommitFails
  <2>2. db' \in Stored /\ db'.run = db.run /\ db'.lease = db.lease
    BY <2>1, Planned DEF IInv, TypeOK, Stored
  <2>3. TypeOK'  BY <1>2, <2>2, SameStore DEF AcquireGate, IInv, TypeOK, runs, manager
  <2> QED  BY <1>2, <2>2, <2>3, StoresOn DEF AcquireGate, IInv, TypeOK, runs, manager
<1>3. CASE Replay(q)
  <2> TypeOK'  BY <1>3, SameStore DEF Replay, IInv, TypeOK, runs, manager
  <2> QED  BY <1>3, MovesOn DEF Replay, IInv, TypeOK, runs, manager
<1>4. CASE Authority(q)
  <2> TypeOK'  BY <1>4, SameStore DEF Authority, IInv, TypeOK, runs, manager
  <2> QED  BY <1>4, MovesOn DEF Authority, IInv, TypeOK, runs, manager
<1>5. CASE CheckEffects(q)
  <2> TypeOK'  BY <1>5, SameStore DEF CheckEffects, IInv, TypeOK, runs, manager
  <2> QED  BY <1>5, MovesOn DEF CheckEffects, IInv, TypeOK, runs, manager
<1>6. CASE Lookup(q)
  <2> TypeOK'  BY <1>6, SameStore DEF Lookup, IInv, TypeOK, runs, manager
  <2> QED  BY <1>6, MovesOn DEF Lookup, IInv, TypeOK, runs, manager
<1>7. CASE CancelVictim(q)
  <2> TypeOK'  BY <1>7, SameStore DEF CancelVictim, IInv, TypeOK, runs, manager
  <2> QED  BY <1>7, MovesOn DEF CancelVictim, IInv, TypeOK, runs, manager
<1>8. CASE AwaitVictim(q)
  <2> TypeOK'  BY <1>8, SameStore DEF AwaitVictim, IInv, TypeOK, runs, manager
  <2> QED  BY <1>8, MovesOn DEF AwaitVictim, IInv, TypeOK, runs, manager
<1>9. CASE VerifyTerminal(q)
  <2> TypeOK'  BY <1>9, SameStore DEF VerifyTerminal, IInv, TypeOK, runs, manager
  <2> QED  BY <1>9, MovesOn DEF VerifyTerminal, IInv, TypeOK, runs, manager
<1>10. CASE Finalize(q)
  <2>1. db' = db \/ db' = [db EXCEPT !.status[Ses(q)] = "deleted", !.revision[Ses(q)] = @ + 1,
                               !.receipt[Key(q)] = q, !.gate[Ses(q)] = None]
    BY <1>10 DEF Finalize, Commit, CommitFails
  <2>2. db' \in Stored /\ db'.run = db.run /\ db'.lease = db.lease
    BY <2>1, DeletionStored DEF IInv, TypeOK, Stored
  <2>3. TypeOK'  BY <1>10, <2>2, SameStore DEF Finalize, IInv, TypeOK, runs, manager
  <2> QED  BY <1>10, <2>2, <2>3, StoresOn DEF Finalize, IInv, TypeOK, runs, manager
<1>11. CASE Recover(q)
  <2> TypeOK'  BY <1>11, SameStore DEF Recover, IInv, TypeOK, runs, manager
  <2> QED  BY <1>11, MovesOn DEF Recover, IInv, TypeOK, runs, manager
<1>12. CASE ReleaseGate(q)
  <2>1. db' = db \/ db' = [db EXCEPT !.gate[Ses(q)] = IF @ = Key(q) THEN None ELSE @]
    BY <1>12 DEF ReleaseGate, Commit, CommitFails
  <2>2. db' \in Stored /\ db'.run = db.run /\ db'.lease = db.lease
    BY <2>1, Planned DEF IInv, TypeOK, Stored
  <2>3. TypeOK'  BY <1>12, <2>2, SameStore DEF ReleaseGate, IInv, TypeOK, runs, manager
  <2> QED  BY <1>12, <2>2, <2>3, StoresOn DEF ReleaseGate, IInv, TypeOK, runs, manager
<1> QED  BY <1>1, <1>2, <1>3, <1>4, <1>5, <1>6, <1>7, <1>8, <1>9, <1>10, <1>11, <1>12 DEF DeleteStep

-----------------------------------------------------------------------------
\* The task of a Run

LEMMA TaskIInv ==
  ASSUME NEW q \in Requests, IInv, TaskStep(q) PROVE IInv'
<1>1. CASE TakeSlot(q)
  BY <1>1, SameStore DEF TakeSlot, IInv, TypeOK, RunsAreReachable, LeaseIsOfTheLiving, LoopIsLive,
              ReadyWhenStored, manager
<1>2. CASE Enter(q)
  BY <1>2, SameStore DEF Enter, IInv, TypeOK, RunsAreReachable, LeaseIsOfTheLiving, LoopIsLive,
              ReadyWhenStored, manager
<1>3. CASE Finish(q)
  <2>1. /\ task[q] = "loop" /\ task' = [task EXCEPT ![q] = "cleanup"]
        /\ UNCHANGED <<plan, bySession, byRun, ready, at>>
        /\ db' = db \/ db' = [db EXCEPT !.run[q] = "ended", !.lease[Ses(q)] = None]
    BY <1>3 DEF Finish, Commit, CommitFails, manager
  <2>2. TypeOK'  BY <2>1, EndStored, SameStore DEF IInv, TypeOK
  <2>3. RunsAreReachable'  BY <2>1 DEF IInv, TypeOK, RunsAreReachable
  <2>4. Live(q)  BY <2>1 DEF IInv, LoopIsLive
  <2>7. db' = db \/ (/\ db'.run = [db.run EXCEPT ![q] = "ended"]
                     /\ db'.lease = [db.lease EXCEPT ![Ses(q)] = None])
    BY <2>1 DEF IInv, TypeOK, Stored
  <2>5. LeaseIsOfTheLiving'
    BY <2>1, <2>4, <2>7, Planned DEF IInv, TypeOK, Stored, LeaseIsOfTheLiving
  <2>6. LoopIsLive' /\ ReadyWhenStored'  BY <2>1, <2>7 DEF IInv, TypeOK, Stored, LoopIsLive, ReadyWhenStored
  <2> QED  BY <2>2, <2>3, <2>5, <2>6 DEF IInv
<1>4. CASE CleanUp(q)
  BY <1>4, SameStore DEF CleanUp, IInv, TypeOK, RunsAreReachable, LeaseIsOfTheLiving, LoopIsLive,
              ReadyWhenStored, manager
<1>5. CASE Remove(q)
  <2>1. TypeOK'  BY <1>5, Planned, SameStore DEF Remove, Removed, IInv, TypeOK, mind
  <2>2. RunsAreReachable'  BY <1>5 DEF Remove, Removed, IInv, TypeOK, RunsAreReachable
  <2>3. LeaseIsOfTheLiving' /\ LoopIsLive' /\ ReadyWhenStored'
    BY <1>5 DEF Remove, IInv, LeaseIsOfTheLiving, LoopIsLive, ReadyWhenStored
  <2> QED  BY <2>1, <2>2, <2>3 DEF IInv
<1> QED  BY <1>1, <1>2, <1>3, <1>4, <1>5 DEF TaskStep

LEMMA LoopIInv ==
  ASSUME NEW q \in Requests, IInv, Dispatch(q) \/ Record(q) PROVE IInv'
<1>1. /\ UNCHANGED <<plan, bySession, byRun, task, ready, at>>
      /\ \E to \in {"idle", "busy"} : Live(q) /\ db' = [db EXCEPT !.run[q] = to]
  BY DEF Dispatch, Record, runs, manager
<1>2. TypeOK'
  <2> db' \in Stored  BY <1>1 DEF IInv, TypeOK, Stored
  <2> QED  BY <1>1, SameStore DEF IInv, TypeOK
<1>3. \A r \in Requests : Live(r) <=> Live(r)'  BY <1>1 DEF IInv, TypeOK, Stored
<1>4. db'.lease = db.lease  BY <1>1
<1> QED  BY <1>1, <1>2, <1>3, <1>4 DEF IInv, RunsAreReachable, LeaseIsOfTheLiving, LoopIsLive,
                                       ReadyWhenStored

-----------------------------------------------------------------------------
\* The world outside

LEMMA WorldIInv ==
  ASSUME IInv,
         \/ \E q \in Requests : CancelRun(q) \/ Kill(q)
         \/ \E s \in Sessions : Rename(s)
         \/ Disconnect \/ Shutdown
  PROVE  IInv'
<1>1. CASE \E q \in Requests : CancelRun(q)
  <2> TypeOK'  BY <1>1, SameStore DEF CancelRun, IInv, TypeOK, manager
  <2> QED  BY <1>1, MovesOn DEF CancelRun, manager
<1>2. CASE \E q \in Requests : Kill(q)
  BY <1>2, SameStore DEF Kill, Ends, Stops, IInv, TypeOK, RunsAreReachable, LeaseIsOfTheLiving,
              LoopIsLive, ReadyWhenStored, manager
<1>3. CASE \E s \in Sessions : Rename(s)
  <2> db' \in Stored  BY <1>3 DEF Rename, IInv, TypeOK, Stored
  <2> TypeOK'  BY <1>3, SameStore DEF Rename, IInv, TypeOK, manager, runs
  <2> QED  BY <1>3, StoresOn DEF Rename, manager, runs, IInv, TypeOK
<1>4. CASE Disconnect
  <2>1. PICK K : task' = Ends(K) /\ ready' = Stops(K)  BY <1>4 DEF Disconnect
  <2>2. /\ UNCHANGED <<plan, db, bySession, byRun>>
    BY <1>4 DEF Disconnect, manager
  <2>6. PICK D, U : at' = [q \in Requests |-> IF InFlight(q) /\ q \in D THEN "done"
                                           ELSE IF InFlight(q) /\ q \in U THEN "ungate" ELSE at[q]]
    <3> DEFINE goOn == {q \in Requests : at[q] \in {"persist", "release", "abort"}}
               ungate == {q \in Requests : at[q] = "recover" /\ mine[q]}
               flight == {q \in Requests : InFlight(q)}
    <3>1. at' = [q \in Requests |-> IF q \in flight \ (goOn \cup ungate) THEN "done"
                                   ELSE IF q \in ungate THEN "ungate" ELSE at[q]]
      BY <1>4 DEF Disconnect
    <3>2. \A q \in ungate : InFlight(q)  BY DEF InFlight
    <3>3. at' = [q \in Requests |-> IF InFlight(q) /\ q \in flight \ (goOn \cup ungate) THEN "done"
                                   ELSE IF InFlight(q) /\ q \in ungate THEN "ungate" ELSE at[q]]
      BY <3>1, <3>2
    <3> QED  BY <3>3
  <2>3. TypeOK'  BY <2>1, <2>2, <2>6, SameStore DEF Ends, Stops, IInv, TypeOK
  <2>4. RunsAreReachable' /\ LeaseIsOfTheLiving'
    BY <2>1, <2>2 DEF Ends, IInv, TypeOK, RunsAreReachable, LeaseIsOfTheLiving
  <2>5. LoopIsLive' /\ ReadyWhenStored'
    BY <2>1, <2>2, <2>6 DEF Ends, Stops, InFlight, IInv, TypeOK, LoopIsLive, ReadyWhenStored
  <2> QED  BY <2>3, <2>4, <2>5 DEF IInv
<1>5. CASE Shutdown
  <2> TypeOK'  BY <1>5, SameStore DEF Shutdown, IInv, TypeOK, manager
  <2> QED  BY <1>5, MovesOn DEF Shutdown, manager
<1> QED  BY <1>1, <1>2, <1>3, <1>4, <1>5

LEMMA RestartIInv ==
  ASSUME IInv, Restart PROVE IInv'
<1>1. PICK R \in SUBSET {q \in Requests : Live(q)} :
        /\ db' = [db EXCEPT
                    !.run = [q \in Requests |-> IF q \in R THEN "idle"
                                                ELSE IF Live(q) THEN "ended" ELSE @[q]],
                    !.lease = [s \in Sessions |-> IF @[s] \in R THEN @[s] ELSE None]]
        /\ bySession' = [s \in Sessions |-> IF db.lease[s] \in R THEN db.lease[s] ELSE None]
        /\ byRun' = R
        /\ task' = [q \in Requests |-> IF q \in R THEN "slot" ELSE "none"]
        /\ ready' = [q \in Requests |-> IF q \in R THEN "set" ELSE "open"]
  BY DEF Restart
<1>2. /\ UNCHANGED plan
      /\ at' = [q \in Requests |-> IF InFlight(q) THEN "done" ELSE at[q]]
  BY DEF Restart
<1>3. TypeOK'
  <2> DEFINE d1 == [db EXCEPT !.run = [q \in Requests |-> IF q \in R THEN "idle"
                                     ELSE IF Live(q) THEN "ended" ELSE @[q]]]
             d2 == [d1 EXCEPT !.lease = [s \in Sessions |-> IF @[s] \in R THEN @[s] ELSE None]]
  <2>1. d1 \in Stored  BY DEF IInv, TypeOK, Stored
  <2> HIDE DEF d1
  <2>2. d2 \in Stored  BY <2>1 DEF Stored
  <2>3. db' \in Stored  BY <1>1, <2>2 DEF d1, d2
  <2> HIDE DEF d2
  <2> QED  BY <1>1, <1>2, <2>3, SameStore DEF IInv, TypeOK, Stored
<1>4. /\ \A q \in Requests : Live(q)' <=> q \in R
      /\ \A q \in R : db.lease[Ses(q)] = q /\ db'.lease[Ses(q)] = q
      /\ \A q \in Requests : Ses(q) \in Sessions
  BY <1>1, Planned DEF IInv, TypeOK, Stored, LeaseIsOfTheLiving
<1>5. RunsAreReachable' /\ LeaseIsOfTheLiving'
  BY <1>1, <1>2, <1>4 DEF RunsAreReachable, LeaseIsOfTheLiving
<1>6. LoopIsLive' /\ ReadyWhenStored'
  BY <1>1, <1>2, <1>4 DEF LoopIsLive, ReadyWhenStored, IInv, InFlight
<1> QED  BY <1>3, <1>5, <1>6 DEF IInv

LEMMA NextIInv == IInv /\ [Next]_vars => IInv'
<1>1. ASSUME IInv, UNCHANGED vars PROVE IInv'
  BY <1>1, SameStore DEF vars, manager, runs, IInv, TypeOK, RunsAreReachable, LeaseIsOfTheLiving,
              LoopIsLive, ReadyWhenStored
<1> QED  BY <1>1, StartIInv, DeleteIInv, TaskIInv, LoopIInv, WorldIInv, RestartIInv DEF Next, Progress

-----------------------------------------------------------------------------
\* No task of a Run escapes its TurnManager, for any requests, sessions, slots and
\* number of troubles: TurnManager.start, _remove, settle_terminal and the restart.
THEOREM TasksAreReachable == Spec => []RunsAreReachable
<1>1. Spec => []IInv  BY InitIInv, NextIInv, PTL DEF Spec
<1>2. IInv => RunsAreReachable  BY DEF IInv
<1> QED  BY <1>1, <1>2, PTL

\* The state of the manager, of the requests and of the store keeps its types.
THEOREM TypesHold == Spec => []TypeOK
<1>1. Spec => []IInv  BY InitIInv, NextIInv, PTL DEF Spec
<1>2. IInv => TypeOK  BY DEF IInv
<1> QED  BY <1>1, <1>2, PTL

-----------------------------------------------------------------------------
(* Who holds a session lets it go, and what was answered is so.             *)

StartPlace == {"new", "read", "settle", "check", "drain", "register", "persist",
               "release", "abort", "aborting", "done"}
DeletePlace == {"new", "gate", "replay", "authority", "state", "lookup", "cancel", "await",
                "verify", "finalize", "recover", "ungate", "done"}
HasRead == {"settle", "check", "drain", "register", "persist"}

Tidy ==
    /\ seen \in [Requests -> Nat] /\ mine \in [Requests -> BOOLEAN]
    /\ answer \in [Requests -> {"none", "ok", "refused", "gone"}]
    /\ \A q \in Requests : /\ at[q] \in IF Op(q) = "start" THEN StartPlace ELSE DeletePlace
                           /\ answer[q] # "none" => at[q] = "done"

\* The Run of a lease is its session's, and on its way to the end that gives it back.
OnItsWay(q) ==
    /\ task[q] \in {"slot", "ready", "loop"}
    /\ ready[q] = "set" \/ (ready[q] = "open" /\ at[q] = "release")
LeaseKept ==
    \A s \in Sessions : \A q \in Requests :
        db.lease[s] = q => Ses(q) = s /\ (OnItsWay(q) \/ q \in adrift)

\* A gate is that of a deletion of its session that is not decided yet.
Holds(q) == (mine[q] /\ InFlight(q)) \/ answer[q] = "gone" \/ q \in adrift
GateKept ==
    \A s \in Sessions :
        db.gate[s] # None =>
            /\ db.receipt[db.gate[s]] = None
            /\ \E q \in Requests : Op(q) = "delete" /\ Key(q) = db.gate[s] /\ Ses(q) = s /\ Holds(q)

\* What a start knows of its own Run.
Knows(q) == Op(q) = "start" =>
    /\ at[q] \in HasRead \cup {"new", "read"} => db.run[q] = "none"
    /\ at[q] \in (HasRead \ {"persist"}) \cup {"new", "read"} => task[q] = "none" /\ ready[q] = "open"
    /\ at[q] = "persist" => q \in adrift \/ (task[q] \in {"slot", "ready"} /\ ready[q] = "open")
    /\ at[q] = "release" => db.receipt[Key(q)] # None /\ (ready[q] = "open" \/ q \in adrift)
    /\ at[q] \in {"abort", "aborting"} => db.run[q] = "none" \/ q \in adrift
    /\ db.receipt[Key(q)] # None => db.run[db.receipt[Key(q)]] # "none"
StartKnows == \A q \in Requests : Knows(q)

\* A deletion with its receipt is one, and whoever read the session before is behind.
Lasts(q) ==
    /\ Op(q) = "delete" /\ db.receipt[Key(q)] # None => db.status[Ses(q)] = "deleted"
    /\ Op(q) = "start" =>
         /\ db.status[Ses(q)] = "deleted" => ~Live(q)
         /\ at[q] \in HasRead =>
              /\ seen[q] <= db.revision[Ses(q)]
              /\ db.status[Ses(q)] = "deleted" => seen[q] < db.revision[Ses(q)]
DeletionLasts == \A q \in Requests : Lasts(q)

\* AnswersAreTrue, of one request; that nothing lives in a deleted session is above.
Told(q) ==
    /\ Op(q) = "start" /\ answer[q] = "ok" => db.receipt[Key(q)] # None
    /\ Op(q) = "start" /\ answer[q] = "refused" => db.run[q] = "none" \/ q \in adrift
    /\ Op(q) = "delete" /\ answer[q] = "ok" => db.status[Ses(q)] = "deleted"
ToldSo == \A q \in Requests : Told(q)

HInv == Tidy /\ LeaseKept /\ GateKept /\ StartKnows /\ DeletionLasts /\ ToldSo

LEMMA HInvMeans == IInv /\ HInv => HeldByTheLiving /\ AnswersAreTrue
<1> SUFFICES ASSUME IInv, HInv PROVE HeldByTheLiving /\ AnswersAreTrue  OBVIOUS
<1>1. HeldByTheLiving
  BY DEF IInv, TypeOK, Stored, HInv, LeaseKept, GateKept, OnItsWay, Holds, HeldByTheLiving
<1>2. AnswersAreTrue
  BY DEF HInv, StartKnows, Knows, DeletionLasts, Lasts, ToldSo, Told, AnswersAreTrue
<1> QED  BY <1>1, <1>2

LEMMA InitHInv == Init => HInv
<1> SUFFICES ASSUME Init PROVE HInv  OBVIOUS
<1>1. IInv  BY InitIInv
<1>2. Tidy  BY <1>1, TurnsAssumption DEF Init, Tidy, StartPlace, DeletePlace
<1>3. LeaseKept /\ GateKept  BY TurnsAssumption DEF Init, LeaseKept, GateKept
<1>4. StartKnows /\ DeletionLasts /\ ToldSo
  BY <1>1, Planned DEF Init, StartKnows, Knows, DeletionLasts, Lasts, ToldSo, Told, HasRead, Keys
<1> QED  BY <1>2, <1>3, <1>4 DEF HInv

\* A request and its Run move on, and nothing durable changes.
LEMMA OneMoves ==
  ASSUME IInv, HInv, NEW q \in Requests, UNCHANGED <<plan, db>>, adrift \subseteq adrift',
         \A r \in Requests \ {q} :
            /\ at'[r] = at[r] /\ seen'[r] = seen[r] /\ mine'[r] = mine[r] /\ answer'[r] = answer[r]
            /\ task'[r] = task[r] /\ ready'[r] = ready[r],
         OnItsWay(q) => OnItsWay(q)' \/ q \in adrift',
         Op(q) = "delete" /\ Holds(q) => Holds(q)' \/ db.receipt[Key(q)] # None,
         Tidy', Knows(q)', Lasts(q)', Told(q)'
  PROVE  HInv'
<1>1. \A r \in Requests : OnItsWay(r) \/ r \in adrift => OnItsWay(r)' \/ r \in adrift'
  BY DEF OnItsWay
<1>2. LeaseKept'  BY <1>1 DEF HInv, LeaseKept
<1>3. \A r \in Requests : Op(r) = "delete" /\ Holds(r) => Holds(r)' \/ db.receipt[Key(r)] # None
  BY DEF Holds, InFlight
<1>4. GateKept'  BY <1>3 DEF HInv, GateKept
<1>5. \A r \in Requests \ {q} : Knows(r)' /\ Lasts(r)' /\ Told(r)'
  BY DEF HInv, StartKnows, Knows, DeletionLasts, Lasts, ToldSo, Told
<1> QED  BY <1>2, <1>4, <1>5 DEF HInv, StartKnows, DeletionLasts, ToldSo

LEMMA Kinds == IInv => \A q \in Requests : Op(q) \in {"start", "delete"}
  BY TurnsAssumption DEF IInv, TypeOK

\* Of whom a step is, which place shows.
LEMMA StartersPlace ==
  ASSUME IInv, HInv, NEW q \in Requests, at[q] \in StartPlace \ {"new", "done"} PROVE Op(q) = "start"
  BY Kinds DEF HInv, Tidy, StartPlace, DeletePlace

LEMMA DeletersPlace ==
  ASSUME IInv, HInv, NEW q \in Requests, at[q] \in DeletePlace \ {"new", "done"} PROVE Op(q) = "delete"
  BY Kinds DEF HInv, Tidy, StartPlace, DeletePlace

\* One request moves on, and nothing else that matters here.
LEMMA Steps ==
  ASSUME IInv, HInv, NEW q \in Requests, UNCHANGED <<plan, db, task, ready, adrift>>,
         seen' \in [Requests -> Nat], mine' \in [Requests -> BOOLEAN],
         answer' \in [Requests -> {"none", "ok", "refused", "gone"}],
         \A r \in Requests \ {q} :
            at'[r] = at[r] /\ seen'[r] = seen[r] /\ mine'[r] = mine[r] /\ answer'[r] = answer[r],
         at[q] \notin {"release", "done"},
         at'[q] \in (IF Op(q) = "start" THEN StartPlace ELSE DeletePlace) \ {"new"},
         answer'[q] # "none" => at'[q] = "done",
         Op(q) = "delete" =>
            \/ mine[q] => mine'[q] /\ at'[q] # "done"
            \/ answer'[q] = "gone" \/ db.receipt[Key(q)] # None,
         Knows(q)', Lasts(q)', Told(q)'
  PROVE  HInv'
<1>1. Tidy  BY DEF HInv
<1>2. Tidy'  BY <1>1 DEF Tidy
<1>3. OnItsWay(q) => OnItsWay(q)' \/ q \in adrift'
  BY DEF OnItsWay, HInv, Tidy, LeaseKept
<1>4. Op(q) = "delete" /\ Holds(q) => Holds(q)' \/ db.receipt[Key(q)] # None
  BY <1>1 DEF Holds, InFlight, Tidy
<1> QED  BY <1>1, <1>2, <1>3, <1>4, OneMoves

LEMMA GoesTo ==
  ASSUME IInv, HInv, NEW q \in Requests, NEW a, Goes(q, a)
  PROVE  /\ at'[q] = a /\ answer' = answer
         /\ \A r \in Requests \ {q} : at'[r] = at[r]
  BY DEF Goes, IInv, TypeOK

LEMMA AnswersWith ==
  ASSUME IInv, HInv, NEW q \in Requests, NEW a \in {"none", "ok", "refused", "gone"}, Answers(q, a)
  PROVE  /\ at'[q] = "done" /\ answer'[q] \in {a, "gone"}
         /\ \A r \in Requests \ {q} : at'[r] = at[r] /\ answer'[r] = answer[r]
         /\ answer' \in [Requests -> {"none", "ok", "refused", "gone"}]
  BY DEF Answers, IInv, TypeOK, HInv, Tidy

-----------------------------------------------------------------------------
\* start_turn

LEMMA StartHInv ==
  ASSUME IInv, HInv, NEW q \in Requests, StartStep(q), ~Persist(q) PROVE HInv'
<1> USE DEF StartPlace, DeletePlace, HasRead
<1>0. Tidy /\ StartKnows /\ DeletionLasts /\ ToldSo  BY DEF HInv
<1>k. Knows(q) /\ Lasts(q) /\ Told(q)  BY <1>0 DEF StartKnows, DeletionLasts, ToldSo
<1>p. Ses(q) \in Sessions /\ Key(q) \in Keys /\ db \in Stored  BY Planned DEF IInv, TypeOK
<1>t. /\ seen \in [Requests -> Nat] /\ mine \in [Requests -> BOOLEAN]
      /\ answer \in [Requests -> {"none", "ok", "refused", "gone"}]
      /\ at[q] # "done" => answer[q] = "none"
  BY <1>0 DEF Tidy
<1>1. CASE StartRequest(q)
  <2>0. /\ Op(q) = "start" /\ (Goes(q, "read"))
        /\ UNCHANGED <<plan, db, task, ready, adrift, seen, mine>>
    BY <1>1, StartersPlace DEF StartRequest, runs, mind
  <2>1. Knows(q)' /\ Lasts(q)' /\ Told(q)'
    BY <1>1, <1>k, <1>t, <2>0, GoesTo DEF StartRequest, Knows, Lasts, Told
  <2> QED  BY <1>1, <1>t, <2>0, <2>1, GoesTo, Steps DEF StartRequest
<1>2. CASE ReadSession(q)
  <2>0. /\ Op(q) = "start" /\ at[q] = "read"
        /\ UNCHANGED <<plan, db, task, ready, adrift, mine>>
        /\ seen' = [seen EXCEPT ![q] = db.revision[Ses(q)]]
    BY <1>2, StartersPlace DEF ReadSession, runs
  <2>1. /\ seen' \in [Requests -> Nat] /\ seen'[q] = db.revision[Ses(q)]
        /\ \A r \in Requests \ {q} : seen'[r] = seen[r]
        /\ db.revision[Ses(q)] \in Nat
    BY <1>t, <1>p, <2>0 DEF Stored
  <2>2. CASE Answers(q, "ok") /\ db.receipt[Key(q)] # None
    <3> Knows(q)' /\ Lasts(q)' /\ Told(q)'
      BY <1>k, <1>t, <2>0, <2>2, AnswersWith DEF Knows, Lasts, Told
    <3> QED  BY <1>t, <2>0, <2>1, <2>2, AnswersWith, Steps
  <2>3. CASE Answers(q, "refused")
    <3> Knows(q)' /\ Lasts(q)' /\ Told(q)'
      BY <1>k, <1>t, <2>0, <2>3, AnswersWith DEF Knows, Lasts, Told
    <3> QED  BY <1>t, <2>0, <2>1, <2>3, AnswersWith, Steps
  <2>4. CASE Goes(q, "settle") /\ db.status[Ses(q)] = "active"
    <3>1. Knows(q)' /\ Told(q)'  BY <1>k, <1>t, <2>0, <2>4, GoesTo DEF Knows, Told
    <3>2. Lasts(q)'  BY <1>k, <2>0, <2>1, <2>4, GoesTo DEF Lasts
    <3> QED  BY <1>t, <2>0, <2>1, <2>4, <3>1, <3>2, GoesTo, Steps
  <2> QED  BY <1>2, <2>2, <2>3, <2>4 DEF ReadSession
<1>3. CASE Settle(q)
  <2>0. /\ Op(q) = "start" /\ (Goes(q, "register") \/ Goes(q, "check"))
        /\ UNCHANGED <<plan, db, task, ready, adrift, seen, mine>>
    BY <1>3, StartersPlace DEF Settle, runs, mind
  <2>1. Knows(q)' /\ Lasts(q)' /\ Told(q)'
    BY <1>3, <1>k, <1>t, <2>0, GoesTo DEF Settle, Knows, Lasts, Told
  <2> QED  BY <1>3, <1>t, <2>0, <2>1, GoesTo, Steps DEF Settle
<1>4. CASE Check(q)
  <2>0. /\ Op(q) = "start" /\ (Goes(q, "drain") \/ Goes(q, "register"))
        /\ UNCHANGED <<plan, db, task, ready, adrift, seen, mine>>
    BY <1>4, StartersPlace DEF Check, runs, mind
  <2>1. Knows(q)' /\ Lasts(q)' /\ Told(q)'
    BY <1>4, <1>k, <1>t, <2>0, GoesTo DEF Check, Knows, Lasts, Told
  <2> QED  BY <1>4, <1>t, <2>0, <2>1, GoesTo, Steps DEF Check
<1>5. CASE Drain(q)
  <2>0. /\ Op(q) = "start" /\ (Goes(q, "register"))
        /\ UNCHANGED <<plan, db, task, ready, adrift, seen, mine>>
    BY <1>5, StartersPlace DEF Drain, runs, mind
  <2>1. Knows(q)' /\ Lasts(q)' /\ Told(q)'
    BY <1>5, <1>k, <1>t, <2>0, GoesTo DEF Drain, Knows, Lasts, Told
  <2> QED  BY <1>5, <1>t, <2>0, <2>1, GoesTo, Steps DEF Drain
<1>6. CASE Register(q)
  <2>0. /\ Op(q) = "start" /\ at[q] = "register"
        /\ UNCHANGED <<plan, db, ready, adrift, seen, mine>>
    BY <1>6, StartersPlace DEF Register, mind
  <2>1. OnItsWay(q) => OnItsWay(q)' \/ q \in adrift'
    BY <2>0 DEF OnItsWay, IInv, TypeOK, ReadyWhenStored
  <2>2. CASE Answers(q, "refused") /\ task' = task
    <3> Knows(q)' /\ Lasts(q)' /\ Told(q)'
      BY <1>k, <1>t, <2>0, <2>2, AnswersWith DEF Knows, Lasts, Told
    <3> QED  BY <1>t, <2>0, <2>2, AnswersWith, Steps
  <2>3. CASE Goes(q, "persist") /\ task' = [task EXCEPT ![q] = "slot"]
    <3>1. task'[q] = "slot" /\ \A r \in Requests \ {q} : task'[r] = task[r]
      BY <2>3 DEF IInv, TypeOK
    <3>2. ready[q] = "open"  BY <1>k, <2>0 DEF Knows
    <3>3. Knows(q)' /\ Lasts(q)' /\ Told(q)'
      BY <1>k, <1>t, <2>0, <2>3, <3>1, <3>2, GoesTo DEF Knows, Lasts, Told
    <3>4. Tidy'  BY <1>0, <2>0, <2>3, GoesTo DEF Tidy
    <3> QED  BY <2>0, <2>1, <2>3, <3>1, <3>3, <3>4, GoesTo, OneMoves
  <2> QED  BY <1>6, <2>2, <2>3 DEF Register
<1>7. CASE Release(q)
  <2>0. /\ Op(q) = "start" /\ at[q] = "release"
        /\ UNCHANGED <<plan, db, task, adrift, seen, mine>>
    BY <1>7, StartersPlace DEF Release, mind
  <2>1. PICK a \in {"ok", "refused"} :
          /\ Answers(q, a)
          /\ \/ a = "ok" /\ ready' = [ready EXCEPT ![q] = "set"]
             \/ a = "refused" /\ ready[q] # "open" /\ ready' = ready
    BY <1>7 DEF Release
  <2>2. /\ \A r \in Requests \ {q} : ready'[r] = ready[r]
        /\ a = "ok" => ready'[q] = "set"
    BY <2>1 DEF IInv, TypeOK
  <2>3. OnItsWay(q) => OnItsWay(q)' \/ q \in adrift'
    BY <1>k, <2>0, <2>1, <2>2 DEF OnItsWay, Knows
  <2>4. Knows(q)' /\ Lasts(q)' /\ Told(q)'
    BY <1>k, <1>t, <2>0, <2>1, AnswersWith DEF Knows, Lasts, Told
  <2>5. Tidy'  BY <1>0, <2>0, <2>1, AnswersWith DEF Tidy
  <2> QED  BY <2>0, <2>1, <2>2, <2>3, <2>4, <2>5, AnswersWith, OneMoves
<1>8. CASE Abort(q)
  <2>0. /\ Op(q) = "start" /\ at[q] = "abort" /\ Goes(q, "aborting")
        /\ UNCHANGED <<plan, db, task, adrift, seen, mine>>
    BY <1>8, StartersPlace DEF Abort, mind
  <2>1. /\ \A r \in Requests \ {q} : ready'[r] = ready[r]
        /\ ready[q] # "open" => ready'[q] = ready[q]
    BY <1>8 DEF Abort, FailedStart, IInv, TypeOK
  <2>2. OnItsWay(q) => OnItsWay(q)' \/ q \in adrift'
    BY <2>0, <2>1 DEF OnItsWay
  <2>3. Knows(q)' /\ Lasts(q)' /\ Told(q)'
    BY <1>k, <1>t, <2>0, GoesTo DEF Knows, Lasts, Told
  <2>4. Tidy'  BY <1>0, <2>0, GoesTo DEF Tidy
  <2> QED  BY <2>0, <2>1, <2>2, <2>3, <2>4, GoesTo, OneMoves
<1>9. CASE Aborted(q)
  <2>0. /\ Op(q) = "start" /\ Answers(q, "refused")
        /\ UNCHANGED <<plan, db, task, ready, adrift, seen, mine>>
    BY <1>9, StartersPlace DEF Aborted, runs, mind
  <2>1. Knows(q)' /\ Lasts(q)' /\ Told(q)'
    BY <1>9, <1>k, <1>t, <2>0, AnswersWith DEF Aborted, Knows, Lasts, Told
  <2> QED  BY <1>9, <1>t, <2>0, <2>1, AnswersWith, Steps DEF Aborted
<1> QED  BY <1>1, <1>2, <1>3, <1>4, <1>5, <1>6, <1>7, <1>8, <1>9 DEF StartStep

-----------------------------------------------------------------------------
\* soft_delete, the steps that write nothing

LEMMA DeleterMoves ==
  ASSUME IInv, HInv, NEW q \in Requests, UNCHANGED <<plan, db, task, ready, adrift, mine>>,
         Op(q) = "delete", at[q] # "done",
         seen' \in [Requests -> Nat], \A r \in Requests \ {q} : seen'[r] = seen[r],
         \/ \E a \in DeletePlace \ {"new", "done"} : Goes(q, a)
         \/ Answers(q, "ok") /\ db.receipt[Key(q)] # None
         \/ Answers(q, "refused") /\ ~mine[q]
  PROVE  HInv'
<1>1. Knows(q)' /\ Lasts(q)'  BY DEF HInv, DeletionLasts, Knows, Lasts
<1>2. /\ mine \in [Requests -> BOOLEAN] /\ answer \in [Requests -> {"none", "ok", "refused", "gone"}]
      /\ answer[q] = "none"
  BY DEF HInv, Tidy
<1>r. at[q] # "release"  BY Kinds, StartersPlace DEF StartPlace
<1>3. CASE \E a \in DeletePlace \ {"new", "done"} : Goes(q, a)
  <2> Told(q)'  BY <1>2, <1>3, GoesTo DEF Told
  <2> QED  BY <1>1, <1>2, <1>3, <1>r, GoesTo, Steps
<1>4. CASE Answers(q, "ok") /\ db.receipt[Key(q)] # None
  <2> Told(q)'  BY <1>2, <1>4, AnswersWith DEF Told, HInv, DeletionLasts, Lasts
  <2> QED  BY <1>1, <1>2, <1>4, <1>r, AnswersWith, Steps DEF DeletePlace
<1>5. CASE Answers(q, "refused") /\ ~mine[q]
  <2> Told(q)'  BY <1>2, <1>5, AnswersWith DEF Told
  <2> QED  BY <1>1, <1>2, <1>5, <1>r, AnswersWith, Steps DEF DeletePlace
<1> QED  BY <1>3, <1>4, <1>5

LEMMA DeleteHInv ==
  ASSUME IInv, HInv, NEW q \in Requests,
         \/ DeleteRequest(q) \/ Replay(q) \/ Authority(q) \/ CheckEffects(q) \/ Lookup(q)
         \/ CancelVictim(q) \/ AwaitVictim(q) \/ VerifyTerminal(q) \/ Recover(q)
  PROVE  HInv'
<1> USE DEF DeletePlace
<1>t. seen \in [Requests -> Nat]  BY DEF HInv, Tidy
<1>1. CASE DeleteRequest(q)
  <2> DEFINE first == {p \in Requests : Key(p) = Key(q) /\ at[p] # "new"}
  <2>1. seen' = [seen EXCEPT ![q] = IF first = {} THEN db.revision[Ses(q)]
                                   ELSE seen[CHOOSE p \in first : TRUE]]
    BY <1>1 DEF DeleteRequest
  <2>2. first # {} => (CHOOSE p \in first : TRUE) \in Requests  OBVIOUS
  <2>3. db.revision[Ses(q)] \in Nat  BY Planned DEF IInv, TypeOK, Stored
  <2> HIDE DEF first
  <2>4. seen' \in [Requests -> Nat] /\ \A r \in Requests \ {q} : seen'[r] = seen[r]
    BY <1>t, <2>1, <2>2, <2>3
  <2> QED  BY <1>1, <2>4, DeleterMoves DEF DeleteRequest, runs
<1>2. CASE Replay(q)
  BY <1>2, <1>t, DeletersPlace, DeleterMoves DEF Replay, runs, mind
<1>3. CASE Authority(q)
  BY <1>3, <1>t, DeletersPlace, DeleterMoves DEF Authority, runs, mind
<1>4. CASE CheckEffects(q)
  BY <1>4, <1>t, DeletersPlace, DeleterMoves DEF CheckEffects, runs, mind
<1>5. CASE Lookup(q)
  BY <1>5, <1>t, DeletersPlace, DeleterMoves DEF Lookup, runs, mind
<1>6. CASE CancelVictim(q)
  BY <1>6, <1>t, DeletersPlace, DeleterMoves DEF CancelVictim, runs, mind
<1>7. CASE AwaitVictim(q)
  BY <1>7, <1>t, DeletersPlace, DeleterMoves DEF AwaitVictim, runs, mind
<1>8. CASE VerifyTerminal(q)
  BY <1>8, <1>t, DeletersPlace, DeleterMoves DEF VerifyTerminal, runs, mind
<1>9. CASE Recover(q)
  BY <1>9, <1>t, DeletersPlace, DeleterMoves DEF Recover, runs, mind
<1> QED  BY <1>1, <1>2, <1>3, <1>4, <1>5, <1>6, <1>7, <1>8, <1>9

-----------------------------------------------------------------------------
\* The task of a Run

LEMMA TaskHInv ==
  ASSUME IInv, HInv, NEW q \in Requests,
         TakeSlot(q) \/ Enter(q) \/ CleanUp(q) \/ Remove(q) \/ CancelRun(q) \/ Kill(q)
  PROVE  HInv'
<1>1. /\ UNCHANGED <<plan, db, at, seen, mine, answer>> /\ adrift \subseteq adrift'
      /\ \A r \in Requests \ {q} : task'[r] = task[r] /\ ready'[r] = ready[r]
  BY DEF TakeSlot, Enter, CleanUp, Remove, CancelRun, Kill, Ends, Stops, mind, IInv, TypeOK
<1>2. OnItsWay(q) => OnItsWay(q)' \/ q \in adrift'
  BY DEF TakeSlot, Enter, CleanUp, Remove, CancelRun, Kill, Ends, Stops, OnItsWay, IInv, TypeOK
<1>3. Knows(q)  BY DEF HInv, StartKnows
<1>4. at[q] = "persist" /\ Op(q) = "start" =>
        q \in adrift' \/ (task'[q] \in {"slot", "ready"} /\ ready'[q] = "open")
  BY <1>3 DEF Knows, TakeSlot, Enter, CleanUp, Remove, CancelRun, Kill, Ends, Stops, IInv, TypeOK
<1>5. at[q] \in (HasRead \ {"persist"}) \cup {"new", "read"} /\ Op(q) = "start" =>
        task'[q] = "none" /\ ready'[q] = "open"
  BY <1>3 DEF Knows, TakeSlot, Enter, CleanUp, Remove, CancelRun, Kill, Ends, Stops, IInv, TypeOK
<1>6. ready[q] = "open" \/ q \in adrift => ready'[q] = "open" \/ q \in adrift'
  BY DEF TakeSlot, Enter, CleanUp, Remove, CancelRun, Kill, Ends, Stops, IInv, TypeOK
<1>7. Knows(q)'  BY <1>1, <1>3, <1>4, <1>5, <1>6 DEF Knows
<1>8. Lasts(q)' /\ Told(q)'  BY <1>1 DEF HInv, DeletionLasts, ToldSo, Lasts, Told
<1>9. Tidy' /\ (Holds(q) => Holds(q)')  BY <1>1 DEF HInv, Tidy, Holds, InFlight
<1> QED  BY <1>1, <1>2, <1>7, <1>8, <1>9, OneMoves

-----------------------------------------------------------------------------
\* The steps that write

LEMMA SameKey ==
  IInv => \A q, r \in Requests : Key(q) = Key(r) => Op(q) = Op(r) /\ Ses(q) = Ses(r)
  BY KeysAssumption DEF IInv, TypeOK

\* The fields of the store, as the steps change them.
LEMMA Fields ==
  ASSUME IInv
  PROVE  /\ db.status \in [Sessions -> {"active", "deleted"}] /\ db.revision \in [Sessions -> Nat]
         /\ db.gate \in [Sessions -> Keys \cup {None}]
         /\ db.lease \in [Sessions -> Requests \cup {None}]
         /\ db.run \in [Requests -> {"none", "idle", "busy", "ended"}]
         /\ db.receipt \in [Keys -> Requests \cup {None}]
         /\ \A q \in Requests : q # None
  BY TurnsAssumption DEF IInv, TypeOK, Stored

LEMMA PersistHInv ==
  ASSUME IInv, HInv, NEW q \in Requests, Persist(q) PROVE HInv'
<1> USE DEF HasRead
<1>0. Tidy /\ LeaseKept /\ GateKept /\ StartKnows /\ DeletionLasts /\ ToldSo  BY DEF HInv
<1>1. /\ at[q] = "persist" /\ Op(q) = "start" /\ answer[q] = "none"
      /\ UNCHANGED <<plan, task, ready, seen, mine, answer>> /\ adrift \subseteq adrift'
      /\ Ses(q) \in Sessions /\ Key(q) \in Keys
  BY <1>0, StartersPlace, Planned DEF Persist, Goes, mind, runs, StartPlace, Tidy
<1>k. Knows(q) /\ Lasts(q) /\ Told(q)  BY <1>0 DEF StartKnows, DeletionLasts, ToldSo
<1>2. CASE db' = db /\ Goes(q, "abort") /\ adrift' = adrift
  <2> Knows(q)' /\ Lasts(q)' /\ Told(q)'  BY <1>k, <1>1, <1>2, GoesTo DEF Knows, Lasts, Told
  <2> QED  BY <1>0, <1>1, <1>2, GoesTo, Steps DEF Tidy, StartPlace
<1>3. CASE /\ MayPersist(q) /\ db' = Persisted(q)
           /\ Goes(q, "release") \/ (Goes(q, "abort") /\ q \in adrift')
  <2>1. /\ db'.status = db.status /\ db'.gate = db.gate
        /\ db'.lease = [db.lease EXCEPT ![Ses(q)] = q]
        /\ db'.revision = [db.revision EXCEPT ![Ses(q)] = @ + 1]
        /\ db'.run = [db.run EXCEPT ![q] = "idle"]
        /\ db'.receipt = [db.receipt EXCEPT ![Key(q)] = q]
    BY <1>3 DEF Persisted, IInv, TypeOK, Stored
  <2>2. /\ \A r \in Requests \ {q} : at'[r] = at[r]
        /\ at'[q] = "release" \/ (at'[q] = "abort" /\ q \in adrift')
        /\ at' \in [Requests -> StartPlace \cup DeletePlace]
    <3> DOMAIN at = Requests  BY DEF IInv, TypeOK
    <3> \A p \in Requests : at[p] \in StartPlace \cup DeletePlace  BY <1>0 DEF Tidy
    <3> QED  BY <1>3 DEF Goes, StartPlace
  <2>3. Tidy'  BY <1>0, <1>1, <2>2 DEF Tidy, StartPlace
  <2>4. LeaseKept'
    <3> SUFFICES ASSUME NEW s \in Sessions, NEW r \in Requests, db'.lease[s] = r
                 PROVE  Ses(r) = s /\ (OnItsWay(r)' \/ r \in adrift')
      BY <1>1 DEF LeaseKept
    <3>1. CASE s = Ses(q)
      BY <1>1, <1>k, <2>1, <2>2, <3>1, Fields DEF Knows, OnItsWay
    <3>2. CASE s # Ses(q)
      BY <1>0, <1>1, <2>1, <2>2, <3>2, Fields DEF LeaseKept, OnItsWay
    <3> QED  BY <3>1, <3>2
  <2>5. GateKept'
    <3> SUFFICES ASSUME NEW s \in Sessions, db.gate[s] # None
                 PROVE  /\ db'.receipt[db.gate[s]] = None
                        /\ \E r \in Requests : /\ Op(r) = "delete" /\ Key(r) = db.gate[s] /\ Ses(r) = s
                                               /\ Holds(r)'
      BY <1>1, <2>1 DEF GateKept
    <3>1. PICK r \in Requests : Op(r) = "delete" /\ Key(r) = db.gate[s] /\ Ses(r) = s /\ Holds(r)
      BY <1>0 DEF GateKept
    <3>2. db.receipt[db.gate[s]] = None /\ db.gate[s] \in Keys  BY <1>0, <3>1, Planned DEF GateKept
    <3>3. r # q /\ Key(r) # Key(q)  BY <1>1, <3>1, SameKey
    <3> QED  BY <1>1, <2>1, <2>2, <3>1, <3>2, <3>3, Fields DEF Holds, InFlight
  <2>6. \A r \in Requests : db'.receipt[Key(r)] # None <=> (db.receipt[Key(r)] # None \/ Key(r) = Key(q))
    BY <2>1, Planned, Fields
  <2>7. \A r \in Requests : db'.run[r] = "none" <=> (db.run[r] = "none" /\ r # q)
    BY <2>1, Fields
  <2>8. ASSUME NEW r \in Requests PROVE Knows(r)'
    <3> SUFFICES ASSUME Op(r) = "start" PROVE Knows(r)'  BY <1>1 DEF Knows
    <3>1. Knows(r)  BY <1>0 DEF StartKnows
    <3>2. db'.receipt[Key(r)] # None => db'.run[db'.receipt[Key(r)]] # "none"
      BY <1>1, <2>1, <2>7, <3>1, Planned, Fields DEF Knows
    <3>3. CASE r = q  BY <1>1, <1>k, <2>2, <2>6, <3>2, <3>3 DEF Knows
    <3>4. CASE r # q  BY <1>1, <2>2, <2>6, <2>7, <3>1, <3>2, <3>4 DEF Knows
    <3> QED  BY <3>3, <3>4
  <2>9. ASSUME NEW r \in Requests PROVE Lasts(r)'
    <3>1. Lasts(r)  BY <1>0 DEF DeletionLasts
    <3>2. db.status[Ses(q)] # "deleted"
      BY <1>1, <1>3, <1>k, Fields DEF MayPersist, Lasts
    <3>3. Op(r) = "delete" => (db'.receipt[Key(r)] # None => db.receipt[Key(r)] # None)
      BY <1>1, <2>6, SameKey
    <3>4. Ses(r) # Ses(q) => (Live(r)' <=> Live(r)) /\ db'.revision[Ses(r)] = db.revision[Ses(r)]
                             /\ at'[r] = at[r]
      BY <2>1, <2>2, Planned, Fields
    <3>5. Ses(r) = Ses(q) => db'.revision[Ses(r)] = db.revision[Ses(r)] + 1
      BY <2>1, Planned, Fields
    <3>6. at'[r] \in HasRead => at[r] \in HasRead  BY <2>2, <1>1
    <3>7. seen[r] \in Nat /\ db.revision[Ses(r)] \in Nat  BY <1>0, Planned, Fields DEF Tidy
    <3>8. CASE Ses(r) = Ses(q)  BY <1>1, <2>1, <3>1, <3>2, <3>3, <3>5, <3>6, <3>7, <3>8 DEF Lasts
    <3>9. CASE Ses(r) # Ses(q)  BY <1>1, <2>1, <3>1, <3>3, <3>4, <3>9 DEF Lasts
    <3> QED  BY <3>8, <3>9
  <2>10. \A r \in Requests : Told(r)'
    BY <1>0, <1>1, <2>1, <2>6, <2>7 DEF ToldSo, Told
  <2> QED  BY <1>1, <2>3, <2>4, <2>5, <2>8, <2>9, <2>10 DEF HInv, StartKnows, DeletionLasts, ToldSo
<1> QED  BY <1>2, <1>3 DEF Persist, AfterCommit, Commit, CommitFails

LEMMA FinishHInv ==
  ASSUME IInv, HInv, NEW q \in Requests, Finish(q) PROVE HInv'
<1> USE DEF HasRead
<1>0. Tidy /\ LeaseKept /\ GateKept /\ StartKnows /\ DeletionLasts /\ ToldSo  BY DEF HInv
<1>1. /\ task[q] = "loop" /\ task' = [task EXCEPT ![q] = "cleanup"]
      /\ UNCHANGED <<plan, at, ready, seen, mine, answer>> /\ adrift \subseteq adrift'
      /\ \A r \in Requests \ {q} : task'[r] = task[r]
  BY DEF Finish, mind, IInv, TypeOK
<1>l. Live(q) /\ Ses(q) \in Sessions  BY <1>1, Planned DEF IInv, LoopIsLive
<1>k. Knows(q) /\ Lasts(q) /\ Told(q)  BY <1>0 DEF StartKnows, DeletionLasts, ToldSo
<1>t. Tidy' /\ \A r \in Requests : Holds(r) => Holds(r)'
  BY <1>0, <1>1 DEF Tidy, Holds, InFlight
<1>2. CASE db' = db /\ q \in adrift'
  <2> Knows(q)' /\ Lasts(q)' /\ Told(q)'  BY <1>k, <1>1, <1>2, <1>l DEF Knows, Lasts, Told
  <2> QED  BY <1>1, <1>2, <1>t, OneMoves
<1>3. CASE db' = [db EXCEPT !.run[q] = "ended", !.lease[Ses(q)] = None]
  <2>1. /\ db'.status = db.status /\ db'.gate = db.gate /\ db'.revision = db.revision
        /\ db'.receipt = db.receipt
        /\ db'.lease = [db.lease EXCEPT ![Ses(q)] = None]
        /\ db'.run = [db.run EXCEPT ![q] = "ended"]
    BY <1>3 DEF IInv, TypeOK, Stored
  <2>2. LeaseKept'
    <3> SUFFICES ASSUME NEW s \in Sessions, NEW r \in Requests, db'.lease[s] = r
                 PROVE  Ses(r) = s /\ (OnItsWay(r)' \/ r \in adrift')
      BY <1>1 DEF LeaseKept
    <3>1. s # Ses(q) /\ db.lease[s] = r  BY <2>1, Fields
    <3> QED  BY <1>0, <1>1, <3>1 DEF LeaseKept, OnItsWay
  <2>3. GateKept'  BY <1>0, <1>1, <1>t, <2>1 DEF GateKept
  <2>4. /\ \A r \in Requests : db'.run[r] = "none" <=> db.run[r] = "none"
        /\ \A r \in Requests : Live(r)' => Live(r)
    BY <1>l, <2>1, Fields
  <2>5. ASSUME NEW r \in Requests PROVE Knows(r)'
    <3>1. Knows(r)  BY <1>0 DEF StartKnows
    <3>2. db'.receipt[Key(r)] # None /\ Op(r) = "start" => db'.run[db'.receipt[Key(r)]] # "none"
      BY <2>1, <2>4, <3>1, Planned, Fields DEF Knows
    <3>3. r = q /\ Op(r) = "start" => at[r] \notin (HasRead \ {"persist"}) \cup {"new", "read", "persist"}
      BY <1>l, <1>k DEF Knows
    <3> QED  BY <1>1, <2>1, <2>4, <3>1, <3>2, <3>3 DEF Knows
  <2>6. \A r \in Requests : Lasts(r)' /\ Told(r)'
    BY <1>0, <1>1, <2>1, <2>4 DEF DeletionLasts, Lasts, ToldSo, Told
  <2> QED  BY <1>t, <2>2, <2>3, <2>5, <2>6 DEF HInv, StartKnows, DeletionLasts, ToldSo
<1> QED  BY <1>2, <1>3 DEF Finish, Commit, CommitFails

\* Where only what the Runs do, the revisions or nothing durable changes.
LEMMA Lives ==
  ASSUME IInv, HInv, UNCHANGED <<plan, task, ready, at, seen, mine, answer, adrift>>,
         db'.status = db.status, db'.gate = db.gate, db'.lease = db.lease, db'.receipt = db.receipt,
         \A r \in Requests : (Live(r)' <=> Live(r)) /\ (db'.run[r] = "none" <=> db.run[r] = "none"),
         \A s \in Sessions : db'.revision[s] \in Nat /\ db.revision[s] <= db'.revision[s]
  PROVE  HInv'
<1>0. Tidy /\ LeaseKept /\ GateKept /\ StartKnows /\ DeletionLasts /\ ToldSo  BY DEF HInv
<1>1. Tidy' /\ \A r \in Requests : (Holds(r) => Holds(r)') /\ (OnItsWay(r) => OnItsWay(r)')
  BY <1>0 DEF Tidy, Holds, InFlight, OnItsWay
<1>2. LeaseKept'  BY <1>0, <1>1 DEF LeaseKept
<1>3. GateKept'  BY <1>0, <1>1 DEF GateKept
<1>4. ASSUME NEW r \in Requests PROVE Knows(r)'
  <2>1. Knows(r)  BY <1>0 DEF StartKnows
  <2>2. db'.receipt[Key(r)] # None /\ Op(r) = "start" => db'.run[db'.receipt[Key(r)]] # "none"
    BY <2>1, Planned, Fields DEF Knows
  <2> QED  BY <2>1, <2>2 DEF Knows
<1>5. ASSUME NEW r \in Requests PROVE Lasts(r)' /\ Told(r)'
  <2>1. Lasts(r) /\ Told(r)  BY <1>0 DEF DeletionLasts, ToldSo
  <2>2. /\ seen[r] \in Nat /\ db.revision[Ses(r)] \in Nat /\ db'.revision[Ses(r)] \in Nat
        /\ db.revision[Ses(r)] <= db'.revision[Ses(r)]
    BY <1>0, Planned, Fields DEF Tidy
  <2> QED  BY <2>1, <2>2 DEF Lasts, Told
<1> QED  BY <1>1, <1>2, <1>3, <1>4, <1>5 DEF HInv, StartKnows, DeletionLasts, ToldSo

LEMMA LoopHInv ==
  ASSUME IInv, HInv, NEW q \in Requests, Dispatch(q) \/ Record(q) PROVE HInv'
<1>1. /\ UNCHANGED <<plan, task, ready, at, seen, mine, answer, adrift>>
      /\ \E to \in {"idle", "busy"} : Live(q) /\ db' = [db EXCEPT !.run[q] = to]
  BY DEF Dispatch, Record, runs, mind
<1>2. PICK to \in {"idle", "busy"} : Live(q) /\ db' = [db EXCEPT !.run[q] = to]  BY <1>1
<1>3. /\ db'.status = db.status /\ db'.gate = db.gate /\ db'.lease = db.lease /\ db'.receipt = db.receipt
      /\ db'.revision = db.revision /\ db'.run = [db.run EXCEPT ![q] = to]
  BY <1>2 DEF IInv, TypeOK, Stored
<1> QED  BY <1>1, <1>2, <1>3, Fields, Lives

LEMMA RenameHInv ==
  ASSUME IInv, HInv, NEW s \in Sessions, Rename(s) PROVE HInv'
<1>1. /\ UNCHANGED <<plan, task, ready, at, seen, mine, answer, adrift>>
      /\ db' = [db EXCEPT !.revision[s] = @ + 1]
  BY DEF Rename, runs, mind
<1>2. /\ db'.status = db.status /\ db'.gate = db.gate /\ db'.lease = db.lease /\ db'.receipt = db.receipt
      /\ db'.run = db.run /\ db'.revision = [db.revision EXCEPT ![s] = @ + 1]
  BY <1>1 DEF IInv, TypeOK, Stored
<1>3. \A z \in Sessions : db'.revision[z] \in Nat /\ db.revision[z] <= db'.revision[z]
  BY <1>2, Fields
<1> QED  BY <1>1, <1>2, <1>3, Lives

LEMMA AcquireHInv ==
  ASSUME IInv, HInv, NEW q \in Requests, AcquireGate(q) PROVE HInv'
<1> USE DEF DeletePlace
<1>0. Tidy /\ LeaseKept /\ GateKept /\ StartKnows /\ DeletionLasts /\ ToldSo  BY DEF HInv
<1>1. /\ at[q] = "gate" /\ Op(q) = "delete" /\ answer[q] = "none"
      /\ UNCHANGED <<plan, task, ready, seen, answer, adrift>>
      /\ Ses(q) \in Sessions /\ Key(q) \in Keys
  BY <1>0, DeletersPlace, Planned DEF AcquireGate, Goes, runs, Tidy
<1>m. mine \in [Requests -> BOOLEAN] /\ seen \in [Requests -> Nat]
      /\ answer \in [Requests -> {"none", "ok", "refused", "gone"}]
  BY <1>0 DEF Tidy
<1>2. CASE /\ db' = db
           /\ \/ mine' = [mine EXCEPT ![q] = FALSE] /\ db.receipt[Key(q)] # None /\ Goes(q, "replay")
              \/ mine' = [mine EXCEPT ![q] = TRUE] /\ Goes(q, "replay")
              \/ mine' = mine /\ Goes(q, "recover")
  <2>1. /\ mine' \in [Requests -> BOOLEAN] /\ \A r \in Requests \ {q} : mine'[r] = mine[r]
        /\ at'[q] \in {"replay", "recover"}
        /\ (mine[q] => mine'[q]) \/ db.receipt[Key(q)] # None
    BY <1>2, <1>m, GoesTo
  <2>2. Knows(q)' /\ Lasts(q)' /\ Told(q)'
    BY <1>0, <1>1, <1>2 DEF Knows, Lasts, Told, DeletionLasts
  <2>3. \A r \in Requests \ {q} : at'[r] = at[r]  BY <1>2, GoesTo
  <2> QED  BY <1>1, <1>2, <1>m, <2>1, <2>2, <2>3, Steps
<1>3. CASE /\ db' = [db EXCEPT !.gate[Ses(q)] = Key(q)] /\ db.receipt[Key(q)] = None
           /\ mine' = [mine EXCEPT ![q] = TRUE] /\ Goes(q, "replay")
  <2>1. /\ db'.status = db.status /\ db'.lease = db.lease /\ db'.receipt = db.receipt
        /\ db'.run = db.run /\ db'.revision = db.revision
        /\ db'.gate = [db.gate EXCEPT ![Ses(q)] = Key(q)]
    BY <1>3 DEF IInv, TypeOK, Stored
  <2>2. /\ mine' \in [Requests -> BOOLEAN] /\ \A r \in Requests \ {q} : mine'[r] = mine[r]
        /\ mine'[q] /\ at'[q] = "replay" /\ \A r \in Requests \ {q} : at'[r] = at[r]
    BY <1>3, <1>m, GoesTo
  <2>3. Tidy'  BY <1>0, <1>1, <1>m, <2>2 DEF Tidy
  <2>4. LeaseKept'  BY <1>0, <1>1, <2>1, <2>2 DEF LeaseKept, OnItsWay
  <2>5. GateKept'
    <3> SUFFICES ASSUME NEW s \in Sessions, db'.gate[s] # None
                 PROVE  /\ db.receipt[db'.gate[s]] = None
                        /\ \E r \in Requests : /\ Op(r) = "delete" /\ Key(r) = db'.gate[s] /\ Ses(r) = s
                                               /\ Holds(r)'
      BY <1>1, <2>1 DEF GateKept
    <3>1. CASE s = Ses(q)
      BY <1>1, <1>3, <2>1, <2>2, <3>1, Fields DEF Holds, InFlight
    <3>2. CASE s # Ses(q)
      <4>1. db'.gate[s] = db.gate[s]  BY <2>1, <3>2, Fields
      <4>2. PICK r \in Requests : Op(r) = "delete" /\ Key(r) = db.gate[s] /\ Ses(r) = s /\ Holds(r)
        BY <1>0, <4>1 DEF GateKept
      <4>3. Holds(r)'  BY <1>1, <2>2, <4>2, <3>2 DEF Holds, InFlight
      <4> QED  BY <1>0, <4>1, <4>2, <4>3 DEF GateKept
    <3> QED  BY <3>1, <3>2
  <2>6. \A r \in Requests : Knows(r)' /\ Lasts(r)' /\ Told(r)'
    BY <1>0, <1>1, <2>1, <2>2 DEF StartKnows, Knows, DeletionLasts, Lasts, ToldSo, Told
  <2> QED  BY <2>3, <2>4, <2>5, <2>6 DEF HInv, StartKnows, DeletionLasts, ToldSo
<1> QED  BY <1>2, <1>3 DEF AcquireGate, Commit, CommitFails

LEMMA FinalizeHInv ==
  ASSUME IInv, HInv, NEW q \in Requests, Finalize(q) PROVE HInv'
<1> USE DEF DeletePlace
<1>0. Tidy /\ LeaseKept /\ GateKept /\ StartKnows /\ DeletionLasts /\ ToldSo  BY DEF HInv
<1>1. /\ at[q] = "finalize" /\ Op(q) = "delete" /\ answer[q] = "none"
      /\ UNCHANGED <<plan, task, ready, seen, mine, adrift>>
      /\ Ses(q) \in Sessions /\ Key(q) \in Keys
  BY <1>0, DeletersPlace, Planned DEF Finalize, runs, mind, Tidy
<1>m. mine \in [Requests -> BOOLEAN] /\ seen \in [Requests -> Nat]
      /\ answer \in [Requests -> {"none", "ok", "refused", "gone"}]
  BY <1>0 DEF Tidy
<1>2. CASE db' = db /\ (Goes(q, "recover") \/ (Answers(q, "ok") /\ db.receipt[Key(q)] # None))
  BY <1>1, <1>2, <1>m, DeleterMoves
<1>3. CASE /\ db.lease[Ses(q)] = None
           /\ db' = [db EXCEPT !.status[Ses(q)] = "deleted", !.revision[Ses(q)] = @ + 1,
                               !.receipt[Key(q)] = q, !.gate[Ses(q)] = None]
           /\ Answers(q, "ok") \/ Goes(q, "recover")
  <2>1. /\ db'.lease = db.lease /\ db'.run = db.run
        /\ db'.status = [db.status EXCEPT ![Ses(q)] = "deleted"]
        /\ db'.revision = [db.revision EXCEPT ![Ses(q)] = @ + 1]
        /\ db'.receipt = [db.receipt EXCEPT ![Key(q)] = q]
        /\ db'.gate = [db.gate EXCEPT ![Ses(q)] = None]
    BY <1>3 DEF IInv, TypeOK, Stored
  <2>2. /\ at'[q] \in {"done", "recover"} /\ answer'[q] \in {"ok", "gone", "none"}
        /\ answer'[q] # "none" => at'[q] = "done"
        /\ \A r \in Requests \ {q} : at'[r] = at[r] /\ answer'[r] = answer[r]
        /\ answer' \in [Requests -> {"none", "ok", "refused", "gone"}]
    BY <1>1, <1>3, <1>m, GoesTo, AnswersWith
  <2>3. Tidy'  BY <1>0, <1>1, <1>m, <2>2 DEF Tidy
  <2>4. LeaseKept'  BY <1>0, <1>1, <2>1, <2>2 DEF LeaseKept, OnItsWay
  <2>5. GateKept'
    <3> SUFFICES ASSUME NEW s \in Sessions, db'.gate[s] # None
                 PROVE  /\ db'.receipt[db'.gate[s]] = None
                        /\ \E r \in Requests : /\ Op(r) = "delete" /\ Key(r) = db'.gate[s] /\ Ses(r) = s
                                               /\ Holds(r)'
      BY <1>1 DEF GateKept
    <3>1. s # Ses(q) /\ db'.gate[s] = db.gate[s]  BY <2>1, Fields
    <3>2. PICK r \in Requests : Op(r) = "delete" /\ Key(r) = db.gate[s] /\ Ses(r) = s /\ Holds(r)
      BY <1>0, <3>1 DEF GateKept
    <3>3. Key(r) # Key(q) /\ r # q  BY <3>1, <3>2, SameKey
    <3>4. db.receipt[Key(r)] = None /\ Key(r) \in Keys  BY <1>0, <3>1, <3>2, Planned DEF GateKept
    <3>5. Holds(r)'  BY <1>1, <2>2, <3>2, <3>3 DEF Holds, InFlight
    <3> QED  BY <2>1, <3>1, <3>2, <3>3, <3>4, <3>5, Fields
  <2>6. \A r \in Requests : Op(r) = "start" => db'.receipt[Key(r)] = db.receipt[Key(r)]
    BY <1>1, <2>1, SameKey, Planned, Fields
  <2>7. \A r \in Requests : Knows(r)' /\ Told(r)'
    BY <1>0, <1>1, <2>1, <2>2, <2>6, Fields DEF StartKnows, Knows, ToldSo, Told, HasRead
  <2>8. ASSUME NEW r \in Requests PROVE Lasts(r)'
    <3>1. Lasts(r) /\ Ses(r) \in Sessions /\ Key(r) \in Keys  BY <1>0, Planned DEF DeletionLasts
    <3>2. Op(r) = "delete" /\ db'.receipt[Key(r)] # None => db'.status[Ses(r)] = "deleted"
      <4>1. CASE Key(r) = Key(q)
        <5> Ses(r) = Ses(q)  BY <4>1, SameKey
        <5> QED  BY <1>1, <2>1, Fields
      <4>2. CASE Key(r) # Key(q)
        <5> db'.receipt[Key(r)] = db.receipt[Key(r)]  BY <2>1, <3>1, <4>2, Fields
        <5> QED  BY <1>1, <2>1, <3>1, Fields DEF Lasts
      <4> QED  BY <4>1, <4>2
    <3>3. CASE Ses(r) = Ses(q)
      <4>1. ~Live(r)  BY <1>3, <3>3, Fields DEF IInv, LeaseIsOfTheLiving
      <4>2. db'.revision[Ses(r)] = db.revision[Ses(r)] + 1 /\ db.revision[Ses(r)] \in Nat /\ seen[r] \in Nat
        BY <1>1, <1>m, <2>1, <3>3, Fields
      <4>3. at'[r] \in HasRead => at[r] \in HasRead  BY <1>1, <2>2 DEF HasRead
      <4> QED  BY <1>1, <2>1, <3>1, <3>2, <4>1, <4>2, <4>3 DEF Lasts
    <3>4. CASE Ses(r) # Ses(q)
      <4>1. db'.revision[Ses(r)] = db.revision[Ses(r)] /\ db'.status[Ses(r)] = db.status[Ses(r)] /\ r # q
        BY <1>1, <2>1, <3>1, <3>4, Fields
      <4> QED  BY <1>1, <2>1, <2>2, <3>1, <3>2, <4>1 DEF Lasts
    <3> QED  BY <3>3, <3>4
  <2> QED  BY <2>3, <2>4, <2>5, <2>7, <2>8 DEF HInv, StartKnows, DeletionLasts, ToldSo
<1> QED  BY <1>2, <1>3 DEF Finalize, Commit, CommitFails

LEMMA UngateHInv ==
  ASSUME IInv, HInv, NEW q \in Requests, ReleaseGate(q) PROVE HInv'
<1> USE DEF DeletePlace
<1>0. Tidy /\ LeaseKept /\ GateKept /\ StartKnows /\ DeletionLasts /\ ToldSo  BY DEF HInv
<1>1. /\ at[q] = "ungate" /\ Op(q) = "delete" /\ answer[q] = "none" /\ Answers(q, "refused")
      /\ UNCHANGED <<plan, task, ready, seen, mine>> /\ adrift \subseteq adrift'
      /\ Ses(q) \in Sessions /\ Key(q) \in Keys
  BY <1>0, DeletersPlace, Planned DEF ReleaseGate, runs, mind, Tidy
<1>2. /\ at'[q] = "done" /\ answer'[q] \in {"refused", "gone"}
      /\ \A r \in Requests \ {q} : at'[r] = at[r] /\ answer'[r] = answer[r]
      /\ answer' \in [Requests -> {"none", "ok", "refused", "gone"}]
  BY <1>1, AnswersWith
<1>3. Tidy'  BY <1>0, <1>1, <1>2 DEF Tidy
<1>4. /\ db'.status = db.status /\ db'.lease = db.lease /\ db'.receipt = db.receipt
      /\ db'.run = db.run /\ db'.revision = db.revision
      /\ \/ db'.gate = [db.gate EXCEPT ![Ses(q)] = IF @ = Key(q) THEN None ELSE @]
         \/ db'.gate = db.gate /\ q \in adrift'
  <2>1. \/ db' = [db EXCEPT !.gate[Ses(q)] = IF @ = Key(q) THEN None ELSE @]
        \/ db' = db /\ q \in adrift'
    BY DEF ReleaseGate, Commit, CommitFails
  <2> QED  BY <2>1 DEF IInv, TypeOK, Stored
<1>5. LeaseKept'  BY <1>0, <1>1, <1>2, <1>4 DEF LeaseKept, OnItsWay
<1>6. GateKept'
  <2> SUFFICES ASSUME NEW s \in Sessions, db'.gate[s] # None
               PROVE  /\ db.receipt[db'.gate[s]] = None
                      /\ \E r \in Requests : /\ Op(r) = "delete" /\ Key(r) = db'.gate[s] /\ Ses(r) = s
                                             /\ Holds(r)'
    BY <1>1, <1>4 DEF GateKept
  <2>1. db'.gate[s] = db.gate[s] /\ (q \in adrift' \/ s # Ses(q) \/ db.gate[s] # Key(q))
    BY <1>1, <1>4, Fields
  <2>2. PICK r \in Requests : Op(r) = "delete" /\ Key(r) = db.gate[s] /\ Ses(r) = s /\ Holds(r)
    BY <1>0, <2>1 DEF GateKept
  <2>3. Holds(r)'  BY <1>1, <1>2, <2>1, <2>2 DEF Holds, InFlight
  <2> QED  BY <1>0, <2>1, <2>2, <2>3 DEF GateKept
<1>7. \A r \in Requests : Knows(r)' /\ Lasts(r)' /\ Told(r)'
  BY <1>0, <1>1, <1>2, <1>4 DEF StartKnows, Knows, DeletionLasts, Lasts, ToldSo, Told
<1> QED  BY <1>3, <1>5, <1>6, <1>7 DEF HInv, StartKnows, DeletionLasts, ToldSo

-----------------------------------------------------------------------------
\* The Worker

LEMMA DisconnectHInv ==
  ASSUME IInv, HInv, Disconnect PROVE HInv'
<1> DEFINE goOn == {q \in Requests : at[q] \in {"persist", "release", "abort"}}
           ungate == {q \in Requests : at[q] = "recover" /\ mine[q]}
           flight == {q \in Requests : InFlight(q)}
           gone == flight \ (goOn \cup ungate)
<1>0. Tidy /\ LeaseKept /\ GateKept /\ StartKnows /\ DeletionLasts /\ ToldSo  BY DEF HInv
<1>1. /\ UNCHANGED <<plan, db, seen, mine>>
      /\ at' = [q \in Requests |-> IF q \in gone THEN "done" ELSE IF q \in ungate THEN "ungate" ELSE at[q]]
      /\ answer' = [q \in Requests |-> IF q \in gone THEN "gone" ELSE answer[q]]
  BY DEF Disconnect
<1>2. PICK K : task' = Ends(K) /\ ready' = Stops(K) /\ adrift' = adrift \cup K  BY DEF Disconnect
<1>3. \A q \in Requests :
        /\ at'[q] = at[q] \/ (at'[q] = "done" /\ q \in gone) \/ (at'[q] = "ungate" /\ q \in ungate)
        /\ answer'[q] = IF q \in gone THEN "gone" ELSE answer[q]
        /\ q \in gone => at'[q] = "done" /\ at[q] \notin {"persist", "release", "abort", "new", "done"}
        /\ q \in adrift => q \in adrift'
        /\ q \in adrift' \/ (task'[q] = task[q] /\ ready'[q] = ready[q])
        /\ task[q] = "none" => task'[q] = "none" /\ ready'[q] = ready[q]
  BY <1>1, <1>2 DEF Ends, Stops, InFlight
<1>4. \A q \in ungate : at[q] = "recover" /\ mine[q] /\ Op(q) = "delete"
  BY DeletersPlace DEF DeletePlace
<1>i. \A q \in flight : at[q] \notin {"new", "done"}  BY DEF InFlight
<1>f. \A q \in Requests : q \in gone \/ q \in ungate \/ at'[q] = at[q]  BY <1>3
<1>d. \A q \in Requests : InFlight(q) => q \in flight  OBVIOUS
<1>r. \A q \in goOn : Op(q) = "start"  BY StartersPlace DEF StartPlace
<1>e. /\ at' \in [Requests -> StartPlace \cup DeletePlace]
      /\ answer' \in [Requests -> {"none", "ok", "refused", "gone"}]
  BY <1>0, <1>1, Kinds DEF Tidy, DeletePlace, StartPlace
<1>5. Tidy'
  BY <1>0, <1>1, <1>3, <1>4, <1>e DEF Tidy, StartPlace, DeletePlace
<1>6. \A q \in Requests : OnItsWay(q) \/ q \in adrift => OnItsWay(q)' \/ q \in adrift'
  BY <1>3, <1>4 DEF OnItsWay
<1>7. LeaseKept'  BY <1>0, <1>1, <1>6 DEF LeaseKept
<1>8. ASSUME NEW q \in Requests, Op(q) = "delete", Holds(q) PROVE Holds(q)'
  <2>1. CASE q \in adrift \/ answer[q] = "gone"  BY <1>3, <2>1 DEF Holds
  <2>2. CASE mine[q] /\ InFlight(q)
    BY <1>1, <1>3, <1>d, <1>r, <1>8, <2>2 DEF Holds, InFlight
  <2> QED  BY <1>8, <2>1, <2>2 DEF Holds
<1>9. GateKept'  BY <1>0, <1>1, <1>8 DEF GateKept
<1> HIDE DEF goOn, ungate, flight, gone
<1>10. ASSUME NEW q \in Requests PROVE Knows(q)'
  <2> SUFFICES ASSUME Op(q) = "start" PROVE Knows(q)'  BY <1>1 DEF Knows
  <2>1. Knows(q) /\ at'[q] \in {at[q], "done"}  BY <1>0, <1>3, <1>4 DEF StartKnows
  <2> QED  BY <1>1, <1>3, <2>1 DEF Knows, HasRead
<1>11. ASSUME NEW q \in Requests PROVE Lasts(q)' /\ Told(q)'
  <2>1. Lasts(q) /\ Told(q) /\ at'[q] \in {at[q], "done", "ungate"}  BY <1>0, <1>3 DEF DeletionLasts, ToldSo
  <2>2. Lasts(q)'  BY <1>1, <2>1 DEF Lasts, HasRead
  <2>3. Told(q)'  BY <1>1, <1>3, <2>1 DEF Told
  <2> QED  BY <2>2, <2>3
<1> QED  BY <1>5, <1>7, <1>9, <1>10, <1>11 DEF HInv, StartKnows, DeletionLasts, ToldSo

LEMMA RestartHInv ==
  ASSUME IInv, HInv, Restart PROVE HInv'
<1>0. Tidy /\ LeaseKept /\ GateKept /\ StartKnows /\ DeletionLasts /\ ToldSo  BY DEF HInv
<1>1. PICK R \in SUBSET {q \in Requests : Live(q)} :
        /\ db' = [db EXCEPT
                    !.run = [q \in Requests |-> IF q \in R THEN "idle"
                                                ELSE IF Live(q) THEN "ended" ELSE @[q]],
                    !.lease = [s \in Sessions |-> IF @[s] \in R THEN @[s] ELSE None]]
        /\ task' = [q \in Requests |-> IF q \in R THEN "slot" ELSE "none"]
        /\ ready' = [q \in Requests |-> IF q \in R THEN "set" ELSE "open"]
  BY DEF Restart
<1>2. /\ UNCHANGED <<plan, seen, mine, adrift>>
      /\ at' = [q \in Requests |-> IF InFlight(q) THEN "done" ELSE at[q]]
      /\ answer' = [q \in Requests |-> IF InFlight(q) THEN "gone" ELSE answer[q]]
  BY DEF Restart, mind
<1>3. /\ db'.status = db.status /\ db'.gate = db.gate /\ db'.receipt = db.receipt
      /\ db'.revision = db.revision
      /\ \A q \in Requests : (Live(q)' <=> q \in R) /\ (db'.run[q] = "none" <=> db.run[q] = "none")
      /\ \A s \in Sessions : db'.lease[s] = IF db.lease[s] \in R THEN db.lease[s] ELSE None
  BY <1>1 DEF IInv, TypeOK, Stored
<1>4. \A q \in Requests : /\ at'[q] \in {"new", "done"} /\ (at'[q] = "new" <=> at[q] = "new")
                          /\ answer'[q] = IF InFlight(q) THEN "gone" ELSE answer[q]
                          /\ InFlight(q) => at'[q] = "done"
  BY <1>2 DEF InFlight
<1>5. Tidy'
  <2> at' \in [Requests -> {"new", "done"}] /\ answer' \in [Requests -> {"none", "ok", "refused", "gone"}]
    BY <1>0, <1>2 DEF Tidy, InFlight
  <2> QED  BY <1>0, <1>2, <1>4 DEF Tidy, StartPlace, DeletePlace, InFlight
<1>6. LeaseKept'
  <2> SUFFICES ASSUME NEW s \in Sessions, NEW r \in Requests, db'.lease[s] = r
               PROVE  Ses(r) = s /\ (OnItsWay(r)' \/ r \in adrift')
    BY <1>2 DEF LeaseKept
  <2>1. db.lease[s] = r /\ r \in R  BY <1>3, Fields
  <2> QED  BY <1>0, <1>1, <1>2, <2>1 DEF LeaseKept, OnItsWay
<1>7. \A q \in Requests : Holds(q) => Holds(q)'
  BY <1>2, <1>4 DEF Holds, InFlight
<1>8. GateKept'  BY <1>0, <1>2, <1>3, <1>7 DEF GateKept
<1>9. ASSUME NEW q \in Requests PROVE Knows(q)'
  <2> SUFFICES ASSUME Op(q) = "start" PROVE Knows(q)'  BY <1>2 DEF Knows
  <2>1. Knows(q)  BY <1>0 DEF StartKnows
  <2>2. db'.receipt[Key(q)] # None => db'.run[db'.receipt[Key(q)]] # "none"
    BY <1>2, <1>3, <2>1, Planned, Fields DEF Knows
  <2>3. at[q] = "new" => q \notin R  BY <2>1 DEF Knows
  <2>4. at[q] = "new" => task'[q] = "none" /\ ready'[q] = "open"  BY <1>1, <2>3
  <2> QED  BY <1>2, <1>3, <1>4, <2>1, <2>2, <2>4 DEF Knows, HasRead
<1>10. ASSUME NEW q \in Requests PROVE Lasts(q)' /\ Told(q)'
  <2>1. Lasts(q) /\ Told(q)  BY <1>0 DEF DeletionLasts, ToldSo
  <2>2. q \in R => Live(q)  OBVIOUS
  <2> QED  BY <1>2, <1>3, <1>4, <2>1, <2>2 DEF Lasts, Told, HasRead
<1> QED  BY <1>5, <1>6, <1>8, <1>9, <1>10 DEF HInv, StartKnows, DeletionLasts, ToldSo

LEMMA NextHInv == IInv /\ HInv /\ [Next]_vars => HInv'
<1> SUFFICES ASSUME IInv, HInv, [Next]_vars PROVE HInv'  OBVIOUS
<1>1. CASE UNCHANGED vars \/ Shutdown
  <2> UNCHANGED <<plan, db, task, ready, at, seen, mine, answer, adrift>>
    BY <1>1 DEF vars, runs, mind, Shutdown
  <2> QED  BY Fields, Lives
<1>2. ASSUME NEW q \in Requests, StartStep(q) PROVE HInv'
  BY <1>2, StartHInv, PersistHInv
<1>3. ASSUME NEW q \in Requests, DeleteStep(q) PROVE HInv'
  BY <1>3, DeleteHInv, AcquireHInv, FinalizeHInv, UngateHInv DEF DeleteStep
<1>4. ASSUME NEW q \in Requests, TaskStep(q) \/ CancelRun(q) \/ Kill(q) PROVE HInv'
  BY <1>4, TaskHInv, FinishHInv DEF TaskStep
<1>5. ASSUME NEW q \in Requests, Dispatch(q) \/ Record(q) PROVE HInv'
  BY <1>5, LoopHInv
<1>6. ASSUME NEW s \in Sessions, Rename(s) PROVE HInv'
  BY <1>6, RenameHInv
<1> QED
  BY <1>1, <1>2, <1>3, <1>4, <1>5, <1>6, DisconnectHInv, RestartHInv DEF Next, Progress

-----------------------------------------------------------------------------
\* A session is held by who will let it go, for any requests, sessions, slots and
\* number of troubles: the lease of a root Run by a task that goes on, the gate of
\* _acquire_delete_gate by a deletion under way, or a failed commit, a killed task
\* or a client that went is the cause.
THEOREM SessionsAreLetGo == Spec => []HeldByTheLiving
<1>1. Init => IInv /\ HInv  BY InitIInv, InitHInv
<1>2. IInv /\ HInv /\ [Next]_vars => IInv' /\ HInv'  BY NextIInv, NextHInv
<1>3. IInv /\ HInv => HeldByTheLiving  BY HInvMeans
<1> QED  BY <1>1, <1>2, <1>3, PTL DEF Spec

\* What the answers of start_turn and soft_delete say stays so, also after retries
\* with the same key, restarts and lost acknowledgements.
THEOREM AnswersHold == Spec => []AnswersAreTrue
<1>1. Init => IInv /\ HInv  BY InitIInv, InitHInv
<1>2. IInv /\ HInv /\ [Next]_vars => IInv' /\ HInv'  BY NextIInv, NextHInv
<1>3. IInv /\ HInv => AnswersAreTrue  BY HInvMeans
<1> QED  BY <1>1, <1>2, <1>3, PTL DEF Spec

-----------------------------------------------------------------------------
(* CancellationTree.  No child escapes: the open children of a scope are    *)
(* the ones it knows, so the snapshot that `cancel' takes in the step that  *)
(* marks the scope misses none, and who comes later sees the mark.          *)

\* The tree is linked, and nobody has escaped.
TreeInv == TreeTypeOK /\ Linked /\ NoEscape

\* It holds before there is a scope ...
LEMMA TreeInitInv == TreeInit => TreeInv
  BY DEF TreeInit, TreeInv, TreeTypeOK, Linked, NoEscape

\* ... and every step keeps it.
LEMMA TreeNextInv == TreeInv /\ [TreeNext]_scopeVars => TreeInv'
<1> SUFFICES ASSUME TreeInv, [TreeNext]_scopeVars PROVE TreeInv'
  OBVIOUS
<1> USE DEF TreeInv, TreeTypeOK, Linked, NoEscape
<1>1. ASSUME NEW s \in Scopes, CreateRoot(s) PROVE TreeInv'
  BY <1>1 DEF CreateRoot
<1>2. ASSUME NEW s \in Scopes, NEW p \in Scopes, CreateChild(s, p) PROVE TreeInv'
  <2>1. TreeTypeOK'
    BY <1>2 DEF CreateChild
  <2>2. Linked'
    BY <1>2 DEF CreateChild
  <2>3. NoEscape'
    BY <1>2 DEF CreateChild, BornCancelled
  <2> QED  BY <2>1, <2>2, <2>3
<1>3. ASSUME NEW s \in Scopes, Ask(s) PROVE TreeInv'
  BY <1>3 DEF Ask
<1>4. ASSUME NEW s \in Scopes, Cancel(s) PROVE TreeInv'
  <2>1. TreeTypeOK' /\ Linked'
    BY <1>4 DEF Cancel
  <2>2. NoEscape'
    BY <1>4 DEF Cancel
  <2> QED  BY <2>1, <2>2
<1>5. ASSUME NEW s \in Scopes, KillCall(s) PROVE TreeInv'
  BY <1>5 DEF KillCall
<1>6. ASSUME NEW s \in Scopes, Close(s) PROVE TreeInv'
  <2>1. TreeTypeOK'
    BY <1>6 DEF Close
  <2>2. Linked' /\ NoEscape'
    BY <1>6 DEF Close
  <2> QED  BY <2>1, <2>2
<1>7. CASE UNCHANGED scopeVars
  BY <1>7 DEF scopeVars
<1> QED  BY <1>1, <1>2, <1>3, <1>4, <1>5, <1>6, <1>7 DEF TreeNext

\* No open child escapes the cancellation of its parent, in any tree of scopes.
THEOREM NothingEscapes == TreeSpec => []NoEscape
<1>1. TreeInv => NoEscape
  BY DEF TreeInv
<1> QED  BY TreeInitInv, TreeNextInv, <1>1, PTL DEF TreeSpec
=============================================================================
