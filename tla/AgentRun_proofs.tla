---------------------------- MODULE AgentRun_proofs ----------------------------
(***************************************************************************)
(* The invariant of AgentRun and the theorems that follow from it, for      *)
(* every plan, every kind of call and any number of crashes and faults.     *)
(***************************************************************************)
EXTENDS AgentRun, SequenceTheorems, TLAPS

\* A call nobody has begun or reported.
Untouched(c) == told[c] = <<>> /\ runs[c] = 0 /\ jrn[c] = "none"

\* A RunState knows of each call that it is pending, recorded once, or untouched.
Accounts(s) ==
    \A c \in Calls :
        IF c \in s.pending THEN told[c] = <<>>
        ELSE Untouched(c) \/ (s.results[c] # "none" /\ Len(told[c]) = 1)

Same(s, t) == s.pending = t.pending /\ s.results = t.results

\* How the copies of RunState agree, by where the task is.
CopiesAgree ==
    /\ pc = "run" => ~stale /\ local = rs /\ inner = rs
    /\ pc = "respond" => ~stale /\ inner = rs /\ rs.pending = {} /\ rs.phase \in {"RESPONDING", "PERSISTING"}
    /\ pc = "resume" => ~stale /\ inner = rs /\ batch = rs.pending
    /\ InBatch => Same(inner, rs) /\ {inner.phase, rs.phase} \subseteq ResumePhases
    /\ pc = "down" => ~stale

\* A RunState that can be resumed, unless a cancellation wrote it, and that accounts for
\* everything when it is the last one of a Run that completed.
Fits(s) ==
    /\ s.phase \notin Terminal \cup {"CANCELLING"} => Accounts(s)
    /\ s.phase = "COMPLETED" => Accounts(s) /\ s.pending = {}

DurableAccounts ==
    /\ Fits(rs)
    /\ rs.phase \in Terminal => stale \/ pc \in {"ended", "down"}

\* What an attempt leaves in the journal.
Outcome == {"succeeded", "failed", "partial", "unknown"}
HasResult(c) ==
    /\ at[c] = "finalize" => out[c] \in Outcome
    /\ at[c] \in {"record", "recording"} => out[c] \in Status

\* The batch in hand: nobody has begun its calls before it is run, and once it is accepted
\* they are pending until they are done.  A write that is replayed was not begun either.
BatchPlace ==
    /\ ~InBatch => at = Outside
    /\ InBatch => /\ \A c \in Calls : at[c] = "out" <=> c \notin batch
                  /\ inner.pending = {c \in batch : at[c] # "done"}
                  /\ \A c \in Calls : HasResult(c)
    /\ pc = "run" => IF local.phase = "VALIDATING_CALLS"
                     THEN /\ \A c \in batch : Untouched(c)
                          /\ local.pending = {} \/ local.pending = batch
                     ELSE local.pending = {}
    /\ pc = "resume" => \A c \in batch : c \in Writes => jrn[c] = "none"

\* Nothing behind a serial call is begun before that call is done.
SerialFirst ==
    \A c, d \in batch :
        Serial(c) /\ c < d /\ at[c] # "done"
            => at[d] \in {"out", "queued"} \/ (at[d] = "record" /\ out[d] = "cancelled")

\* A result in hand is the truth about a write, now and later.
Truth(c, r) ==
    /\ r = "succeeded" => applied[c] = 1
    /\ r \in {"failed", "cancelled"} => applied[c] = 0 /\ exe[c] # "running"

\* The journal, the executor and the kernel agree about a write.
WriteOf(c) ==
    /\ runs[c] <= 1 /\ applied[c] <= runs[c]
    /\ exe[c] = "none" <=> runs[c] = 0
    /\ exe[c] = "running" => applied[c] = 0
    /\ exe[c] = "applied" => applied[c] = 1
    /\ jrn[c] = "none" => exe[c] = "none"
    /\ exe[c] = "running" \/ applied[c] > 0
           => jrn[c] \in {"started", "unknown", "partial", "succeeded"}
    /\ Truth(c, jrn[c])
    /\ at[c] \in {"queued", "ready"} => jrn[c] = "none"
    /\ at[c] \in {"journaled", "starting", "started"} => jrn[c] = "started" /\ exe[c] = "none"
    /\ at[c] = "running" => jrn[c] = "started" /\ exe[c] \in {"running", "applied"}
    /\ at[c] = "finalize" => jrn[c] = "started"
    /\ at[c] \in {"finalize", "record", "recording"} => Truth(c, out[c])

WriteFollows == \A c \in Writes : WriteOf(c)

IInv ==
    /\ TypeOK /\ CopiesAgree /\ DurableAccounts /\ BatchPlace /\ SerialFirst
    /\ WriteFollows /\ ToldIsTrue
-----------------------------------------------------------------------------
(* The operators.                                                           *)

\* Only the phase of a RunState changes.
LEMMA InFields ==
    ASSUME NEW s \in RunState, NEW p \in Phase
    PROVE  /\ In(s, p) \in RunState /\ In(s, p).phase = p
           /\ In(s, p).pending = s.pending /\ In(s, p).results = s.results
BY DEF In, RunState

\* A commit that succeeds is what the recorder was asked for.
LEMMA CommitSucceeds ==
    ASSUME NEW s, NEW log, Commit(s, log, TRUE)
    PROVE  ~stale /\ rs' = s /\ told' = log /\ stale' = stale /\ faults' = faults
BY DEF Commit

\* One that fails left nothing, or is durable and makes the recorder stale.
LEMMA CommitFails ==
    ASSUME TypeOK, NEW s, NEW log, Commit(s, log, FALSE)
    PROVE  /\ faults' \in 0..MaxFaults /\ stale' \in BOOLEAN /\ (stale => stale')
           /\ \/ rs' = rs /\ told' = told
              \/ ~stale /\ stale' /\ rs' = s /\ told' = log
<1>1. faults' \in 0..MaxFaults
  BY ConstantsAssumption DEF Commit, TypeOK
<1>2. /\ stale' \in BOOLEAN /\ (stale => stale')
      /\ \/ rs' = rs /\ told' = told
         \/ ~stale /\ stale' /\ rs' = s /\ told' = log
  BY Zenon DEF Commit, TypeOK, durable
<1> QED
  BY <1>1, <1>2

-----------------------------------------------------------------------------
(* What many actions have in common.                                        *)

\* Leaving a batch says nothing new of a write.
LEMMA LeavingKeepsWrites ==
    ASSUME WriteFollows, UNCHANGED <<kind, jrn, world>>, at' = Outside
    PROVE  WriteFollows'
BY DEF WriteFollows, WriteOf, Truth, world, Outside, Writes

LEMMA QuietKeepsTold ==
    ASSUME ToldIsTrue, UNCHANGED <<kind, told, world>>
    PROVE  ToldIsTrue'
BY DEF ToldIsTrue, Reported, world, Writes

\* The task goes to one of its handlers, or dies there: nothing was committed, or s, and
\* then the recorder may not know it.
LEMMA FailureKeeps ==
    ASSUME IInv, NEW s \in RunState, Fits(s),
           \/ UNCHANGED durable /\ UNCHANGED <<stale, faults>>
           \/ Commit(s, told, FALSE),
           pc' \in {"failing", "cancelled", "interrupted", "dead"},
           pc \notin {"ended", "down"},
           batch' \in SUBSET Calls, at' = Outside, out' \in [Calls -> Status \cup {"none"}],
           local' \in RunState, inner' \in RunState,
           UNCHANGED <<kind, jrn, world, cancel, crashes>>
    PROVE  IInv'
<1> USE DEF IInv
<1>0. /\ faults' \in 0..MaxFaults /\ stale' \in BOOLEAN /\ (stale => stale')
      /\ told' = told /\ (rs' = rs \/ (~stale /\ stale' /\ rs' = s))
  <2>1. CASE UNCHANGED durable /\ UNCHANGED <<stale, faults>>
    BY <2>1, Zenon DEF durable, TypeOK
  <2>2. CASE Commit(s, told, FALSE)
    BY <2>2, CommitFails, Zenon
  <2> QED
    BY <2>1, <2>2
<1>1. TypeOK'
  BY <1>0 DEF TypeOK, world, Outside, CallPC, RunPC
<1>2. CopiesAgree'
  BY DEF CopiesAgree, InBatch
<1>3. DurableAccounts'
  BY <1>0 DEF DurableAccounts, Fits, Accounts, Untouched, world
<1>4. BatchPlace'
  BY DEF BatchPlace, InBatch, Outside
<1>5. SerialFirst'
  BY <1>1 DEF SerialFirst, Outside, TypeOK
<1>6. WriteFollows'
  BY LeavingKeepsWrites
<1>7. ToldIsTrue'
  BY <1>0, QuietKeepsTold
<1> QED
  BY <1>1, <1>2, <1>3, <1>4, <1>5, <1>6, <1>7

\* The phases of a Run that goes on.
LEMMA OnlyPhase ==
    ASSUME Fits(rs), rs.phase \notin Terminal \cup {"CANCELLING"}, NEW s, Same(s, rs),
           s.phase = "COMPLETED" => s.pending = {}
    PROVE  Fits(s)
BY DEF Fits, Accounts, Same

\* A commit that succeeds keeps what is durable in order.
LEMMA SuccessKeepsDurable ==
    ASSUME NEW s, Fits(s), rs' = s, told' = told, UNCHANGED <<runs, jrn>>,
           s.phase \in Terminal => pc' \in {"ended", "down"}
    PROVE  DurableAccounts'
BY DEF DurableAccounts, Fits, Accounts, Untouched

-----------------------------------------------------------------------------
(* run_agent_loop                                                           *)

LEMMA InitInv == Init => IInv
<1> SUFFICES ASSUME Init PROVE IInv
  OBVIOUS
<1>1. TypeOK
  <2>1. Nothing \in [Calls -> Status \cup {"none"}] /\ Nothing \in [Calls -> JrnState \cap ExecState]
    BY DEF Nothing, JrnState, ExecState
  <2>2. /\ rs \in RunState /\ local = rs /\ inner = rs /\ kind \in Kinds
        /\ pc \in RunPC /\ batch \subseteq Calls /\ at \in [Calls -> CallPC]
    BY <2>1 DEF Init, RunState, Phase, RunPC, Outside, CallPC
  <2>3. told \in [Calls -> Seq(Status)]
    BY DEF Init
  <2>4. /\ jrn \in [Calls -> JrnState] /\ exe \in [Calls -> ExecState]
        /\ applied \in [Calls -> Nat] /\ runs \in [Calls -> Nat]
        /\ out \in [Calls -> Status \cup {"none"}]
        /\ cancel \in {"none", "user", "deadline", "shutdown"} /\ stale \in BOOLEAN
    BY <2>1 DEF Init
  <2>5. crashes \in 0..MaxCrashes /\ faults \in 0..MaxFaults
    BY ConstantsAssumption DEF Init
  <2> QED
    BY <2>2, <2>3, <2>4, <2>5 DEF TypeOK
<1>2. CopiesAgree /\ DurableAccounts /\ BatchPlace /\ SerialFirst /\ WriteFollows
  BY DEF Init, CopiesAgree, InBatch, DurableAccounts, Fits, Terminal, Accounts, Untouched, Nothing,
     BatchPlace, SerialFirst, WriteFollows, WriteOf, Truth, Writes, Outside
<1>3. ToldIsTrue
  BY DEF Init, ToldIsTrue, Reported, Writes
<1> QED
  BY <1>1, <1>2, <1>3 DEF IInv

LEMMA LoadKeeps ==
    ASSUME IInv, Load, UNCHANGED kind
    PROVE  IInv'
<1> DEFINE s == In(local, NextPhase[local.phase])
<1> USE DEF IInv
<1>0. /\ pc = "run" /\ local = rs /\ inner = rs /\ ~stale /\ local \in RunState
      /\ rs.phase \in {"CREATED", "LOADING_CONTEXT", "SELECTING_MEMORY"}
      /\ NextPhase[local.phase] \in {"LOADING_CONTEXT", "SELECTING_MEMORY", "PLANNING"}
      /\ UNCHANGED <<jrn, world, cancel, crashes>>
  BY DEF Load, CopiesAgree, NextPhase, TypeOK
<1>1. /\ s \in RunState /\ s.phase \in {"LOADING_CONTEXT", "SELECTING_MEMORY", "PLANNING"}
      /\ Same(s, rs)
  BY <1>0, InFields DEF Phase, Same
<1>2. Fits(s)
  BY <1>0, <1>1, OnlyPhase DEF DurableAccounts, Terminal
<1>3. CASE Commit(s, told, TRUE) /\ local' = s /\ inner' = s /\ UNCHANGED <<pc, frame>>
  <2>1. /\ rs' = s /\ told' = told /\ stale' = stale /\ faults' = faults
        /\ local' = s /\ inner' = s /\ UNCHANGED <<pc, batch, at, out>>
    BY <1>3, CommitSucceeds DEF frame
  <2>2. TypeOK'
    BY <1>0, <1>1, <2>1 DEF TypeOK, world
  <2>3. CopiesAgree'
    BY <1>0, <2>1 DEF CopiesAgree, InBatch
  <2>4. DurableAccounts'
    BY <1>0, <1>1, <1>2, <2>1, SuccessKeepsDurable DEF Terminal, world
  <2>5. BatchPlace'
    BY <1>0, <1>1, <2>1 DEF BatchPlace, InBatch, Same
  <2>6. SerialFirst'
    BY <2>1 DEF SerialFirst, Serial, Reads
  <2>7. WriteFollows' /\ ToldIsTrue'
    BY <1>0, <2>1, QuietKeepsTold, LeavingKeepsWrites DEF BatchPlace, InBatch
  <2> QED
    BY <2>2, <2>3, <2>4, <2>5, <2>6, <2>7
<1>4. CASE Commit(s, told, FALSE) /\ Raise("failing") /\ UNCHANGED local
  BY <1>0, <1>1, <1>2, <1>4, FailureKeeps DEF Raise, LeaveBatch, Nothing
<1> QED
  BY <1>3, <1>4 DEF Load

LEMMA PlanKeeps ==
    ASSUME IInv, Plan, UNCHANGED kind
    PROVE  IInv'
<1> DEFINE s == In(local, "VALIDATING_CALLS")
           fresh == {c \in Calls : local.results[c] = "none" /\ told[c] = <<>>}
<1> USE DEF IInv
<1>0. /\ pc = "run" /\ local = rs /\ inner = rs /\ ~stale /\ local \in RunState
      /\ rs.phase = "PLANNING" /\ local.pending = {}
      /\ UNCHANGED <<jrn, world, cancel, crashes>>
  BY DEF Plan, CopiesAgree, BatchPlace, TypeOK
<1>1. s \in RunState /\ s.phase = "VALIDATING_CALLS" /\ Same(s, rs)
  BY <1>0, InFields DEF Phase, Same
<1>2. Fits(s)
  BY <1>0, <1>1, OnlyPhase DEF DurableAccounts, Terminal
<1>3. ASSUME NEW b \in SUBSET fresh, Commit(s, told, TRUE), local' = s, inner' = s, batch' = b,
             UNCHANGED <<pc, at, out>>
      PROVE  IInv'
  <2>1. /\ rs' = s /\ told' = told /\ stale' = stale /\ faults' = faults
        /\ local' = s /\ inner' = s /\ UNCHANGED <<pc, at, out>> /\ b \subseteq Calls
    BY <1>3, CommitSucceeds
  <2>2. TypeOK'
    BY <1>0, <1>1, <1>3, <2>1 DEF TypeOK, world
  <2>3. CopiesAgree'
    BY <1>0, <2>1 DEF CopiesAgree, InBatch
  <2>4. DurableAccounts'
    BY <1>0, <1>1, <1>2, <2>1, SuccessKeepsDurable DEF Terminal, world
  <2>5. \A c \in b : Untouched(c)
    BY <1>0 DEF DurableAccounts, Fits, Accounts, Terminal
  <2>6. BatchPlace'
    BY <1>0, <1>1, <1>3, <2>1, <2>5 DEF BatchPlace, InBatch, Same, Untouched, world
  <2>7. SerialFirst'
    BY <1>0, <1>3, <2>1 DEF SerialFirst, BatchPlace, InBatch, Outside, Serial, Reads
  <2>8. WriteFollows' /\ ToldIsTrue'
    BY <1>0, <2>1, QuietKeepsTold, LeavingKeepsWrites DEF BatchPlace, InBatch
  <2> QED
    BY <2>2, <2>3, <2>4, <2>6, <2>7, <2>8
<1>4. CASE Commit(s, told, FALSE) /\ Raise("failing") /\ UNCHANGED local
  BY <1>0, <1>1, <1>2, <1>4, FailureKeeps DEF Raise, LeaveBatch, Nothing
<1> QED
  BY <1>3, <1>4 DEF Plan

LEMMA AcceptKeeps ==
    ASSUME IInv, Accept, UNCHANGED kind
    PROVE  IInv'
<1> DEFINE s == [local EXCEPT !.pending = batch]
<1> USE DEF IInv
<1>0. /\ pc = "run" /\ local = rs /\ inner = rs /\ ~stale /\ local \in RunState
      /\ rs.phase = "VALIDATING_CALLS" /\ \A c \in batch : Untouched(c)
      /\ local.pending = {} /\ local' = s /\ inner' = s /\ batch \subseteq Calls
      /\ UNCHANGED <<jrn, world, cancel, crashes>>
  BY DEF Accept, CopiesAgree, BatchPlace, TypeOK
<1>1. /\ s \in RunState /\ s.phase = "VALIDATING_CALLS" /\ s.pending = batch
      /\ s.results = rs.results
  BY <1>0 DEF RunState
<1>2. Fits(s)
  BY <1>0, <1>1 DEF DurableAccounts, Fits, Accounts, Untouched, Terminal
<1>3. CASE Commit(s, told, TRUE) /\ UNCHANGED <<pc, frame>>
  <2>1. /\ rs' = s /\ told' = told /\ stale' = stale /\ faults' = faults
        /\ UNCHANGED <<pc, batch, at, out>>
    BY <1>3, CommitSucceeds DEF frame
  <2>2. TypeOK'
    BY <1>0, <1>1, <2>1 DEF TypeOK, world
  <2>3. CopiesAgree'
    BY <1>0, <2>1 DEF CopiesAgree, InBatch
  <2>4. DurableAccounts'
    BY <1>0, <1>1, <1>2, <2>1, SuccessKeepsDurable DEF Terminal, world
  <2>5. BatchPlace'
    BY <1>0, <1>1, <2>1 DEF BatchPlace, InBatch, Untouched, world
  <2>6. SerialFirst'
    BY <2>1 DEF SerialFirst, Serial, Reads
  <2>7. WriteFollows' /\ ToldIsTrue'
    BY <1>0, <2>1, QuietKeepsTold, LeavingKeepsWrites DEF BatchPlace, InBatch
  <2> QED
    BY <2>2, <2>3, <2>4, <2>5, <2>6, <2>7
<1>4. CASE Commit(s, told, FALSE) /\ pc' = "failing" /\ inner' = s /\ LeaveBatch
  BY <1>0, <1>1, <1>2, <1>4, FailureKeeps DEF LeaveBatch, Nothing
<1> QED
  BY <1>0, <1>3, <1>4 DEF Accept

LEMMA CheckKeeps ==
    ASSUME IInv, Check, UNCHANGED kind
    PROVE  IInv'
<1> DEFINE s == In(local, "CHECKING_POLICY")
<1> USE DEF IInv
<1>0. /\ pc = "run" /\ local = rs /\ inner = rs /\ ~stale /\ local \in RunState
      /\ rs.phase = "VALIDATING_CALLS" /\ local.pending = batch
      /\ \A c \in batch : Untouched(c)
      /\ UNCHANGED <<jrn, world, cancel, crashes>>
  BY DEF Check, CopiesAgree, BatchPlace, TypeOK
<1>1. s \in RunState /\ s.phase = "CHECKING_POLICY" /\ Same(s, rs)
  BY <1>0, InFields DEF Phase, Same
<1>2. Fits(s)
  BY <1>0, <1>1, OnlyPhase DEF DurableAccounts, Terminal
<1>3. CASE /\ Commit(s, told, TRUE) /\ local' = s /\ inner' = s /\ pc' = "batch"
           /\ at' = [c \in Calls |-> IF c \in batch THEN "queued" ELSE "out"]
           /\ UNCHANGED <<batch, out>>
  <2>1. /\ rs' = s /\ told' = told /\ stale' = stale /\ faults' = faults
    BY <1>3, CommitSucceeds
  <2>2. TypeOK'
    BY <1>0, <1>1, <1>3, <2>1 DEF TypeOK, world, RunPC, CallPC
  <2>3. CopiesAgree'
    BY <1>0, <1>1, <1>3, <2>1 DEF CopiesAgree, InBatch, Same, ResumePhases
  <2>4. DurableAccounts'
    BY <1>0, <1>1, <1>2, <2>1, SuccessKeepsDurable DEF Terminal, world
  <2>5. BatchPlace'
    BY <1>0, <1>1, <1>3 DEF BatchPlace, InBatch, Same, HasResult, TypeOK
  <2>6. SerialFirst'
    BY <1>3 DEF SerialFirst, TypeOK
  <2>7. WriteFollows'
    BY <1>0, <1>3 DEF WriteFollows, WriteOf, Truth, Writes, Untouched, world
  <2>8. ToldIsTrue'
    BY <1>0, <2>1, QuietKeepsTold
  <2> QED
    BY <2>2, <2>3, <2>4, <2>5, <2>6, <2>7, <2>8
<1>4. CASE Commit(s, told, FALSE) /\ Raise("failing") /\ UNCHANGED local
  BY <1>0, <1>1, <1>2, <1>4, FailureKeeps DEF Raise, LeaveBatch, Nothing
<1> QED
  BY <1>3, <1>4 DEF Check

LEMMA SettleKeeps ==
    ASSUME IInv, Settle, UNCHANGED kind
    PROVE  IInv'
<1> DEFINE s == In(inner, "RECORDING_RESULTS")
<1> USE DEF IInv
<1>0. /\ InBatch /\ Same(inner, rs) /\ rs.phase \in ResumePhases /\ inner \in RunState
      /\ UNCHANGED <<jrn, world, local, cancel, crashes>>
  BY DEF Settle, BatchDone, CopiesAgree, TypeOK
<1>1. s \in RunState /\ s.phase = "RECORDING_RESULTS" /\ Same(s, rs)
  BY <1>0, InFields DEF Phase, Same
<1>2. Fits(s)
  BY <1>0, <1>1, OnlyPhase DEF DurableAccounts, Terminal, ResumePhases
<1>3. CASE Commit(s, told, TRUE) /\ inner' = s /\ UNCHANGED <<pc, frame>>
  <2>1. /\ rs' = s /\ told' = told /\ stale' = stale /\ faults' = faults
        /\ UNCHANGED <<pc, batch, at, out>>
    BY <1>3, CommitSucceeds DEF frame
  <2>2. TypeOK'
    BY <1>0, <1>1, <1>3, <2>1 DEF TypeOK, world
  <2>3. CopiesAgree'
    BY <1>0, <1>1, <1>3, <2>1 DEF CopiesAgree, InBatch, Same, ResumePhases
  <2>4. DurableAccounts'
    BY <1>0, <1>1, <1>2, <2>1, SuccessKeepsDurable DEF Terminal, world
  <2>5. BatchPlace'
    BY <1>0, <1>1, <1>3, <2>1 DEF BatchPlace, InBatch, Same, HasResult
  <2>6. SerialFirst'
    BY <2>1 DEF SerialFirst, Serial, Reads
  <2>7. WriteFollows' /\ ToldIsTrue'
    BY <1>0, <2>1, QuietKeepsTold DEF WriteFollows, WriteOf, Truth, Writes, world
  <2> QED
    BY <2>2, <2>3, <2>4, <2>5, <2>6, <2>7
<1>4. CASE Commit(s, told, FALSE) /\ Raise("failing")
  <2>1. local' \in RunState /\ pc \notin {"ended", "down"}
    BY <1>0 DEF TypeOK, InBatch
  <2> QED
    BY <1>0, <1>1, <1>2, <1>4, <2>1, FailureKeeps DEF Raise, LeaveBatch, Nothing
<1> QED
  BY <1>3, <1>4 DEF Settle

LEMMA EndBatchKeeps ==
    ASSUME IInv, EndBatch, UNCHANGED kind
    PROVE  IInv'
<1> DEFINE s == In(inner, "PLANNING")
           kept == IF pc = "batch" THEN inner ELSE local
<1> USE DEF IInv
<1>0. /\ InBatch /\ Same(inner, rs) /\ rs.phase \in ResumePhases /\ inner \in RunState
      /\ inner.pending = {} /\ batch' = {} /\ at' = Outside /\ out' = Nothing
      /\ local \in RunState /\ UNCHANGED <<jrn, world, cancel, crashes>>
  BY DEF EndBatch, BatchDone, LeaveBatch, CopiesAgree, BatchPlace, TypeOK
<1>1. s \in RunState /\ s.phase = "PLANNING" /\ Same(s, rs)
  BY <1>0, InFields DEF Phase, Same
<1>2. Fits(s)
  BY <1>0, <1>1, OnlyPhase DEF DurableAccounts, Terminal, ResumePhases
<1>3. CASE Commit(s, told, TRUE) /\ local' = s /\ inner' = s /\ pc' = "run"
  <2>1. /\ ~stale /\ rs' = s /\ told' = told /\ stale' = stale /\ faults' = faults
    BY <1>3, CommitSucceeds
  <2>2. TypeOK'
    BY <1>0, <1>1, <1>3, <2>1 DEF TypeOK, world, RunPC, Outside, CallPC, Nothing
  <2>3. CopiesAgree'
    BY <1>0, <1>1, <1>3, <2>1 DEF CopiesAgree, InBatch
  <2>4. DurableAccounts'
    BY <1>0, <1>1, <1>2, <2>1, SuccessKeepsDurable DEF Terminal, world
  <2>5. BatchPlace'
    BY <1>0, <1>1, <1>3 DEF BatchPlace, InBatch, Same
  <2>6. SerialFirst'
    BY <1>0 DEF SerialFirst
  <2>7. WriteFollows' /\ ToldIsTrue'
    BY <1>0, <2>1, QuietKeepsTold, LeavingKeepsWrites
  <2> QED
    BY <2>2, <2>3, <2>4, <2>5, <2>6, <2>7
<1>4. CASE Commit(s, told, FALSE) /\ local' = kept /\ inner' = kept /\ pc' = "failing"
  <2>1. kept \in RunState /\ pc \notin {"ended", "down"}
    BY <1>0 DEF InBatch
  <2> QED
    BY <1>0, <1>1, <1>2, <1>4, <2>1, FailureKeeps DEF Nothing
<1> QED
  BY <1>3, <1>4 DEF EndBatch

LEMMA RespondKeeps ==
    ASSUME IInv, Respond, UNCHANGED kind
    PROVE  IInv'
<1> DEFINE s == In(local, "RESPONDING")
<1> USE DEF IInv
<1>0. /\ pc = "run" /\ local = rs /\ inner = rs /\ ~stale /\ local \in RunState
      /\ rs.phase = "PLANNING" /\ rs.pending = {}
      /\ UNCHANGED <<jrn, world, local, cancel, crashes>>
  BY DEF Respond, CopiesAgree, TypeOK
<1>1. s \in RunState /\ s.phase = "RESPONDING" /\ Same(s, rs)
  BY <1>0, InFields DEF Phase, Same
<1>2. Fits(s)
  BY <1>0, <1>1, OnlyPhase DEF DurableAccounts, Terminal
<1>3. CASE Commit(s, told, TRUE) /\ inner' = s /\ pc' = "respond" /\ UNCHANGED frame
  <2>1. /\ rs' = s /\ told' = told /\ stale' = stale /\ faults' = faults
        /\ UNCHANGED <<batch, at, out>>
    BY <1>3, CommitSucceeds DEF frame
  <2>2. TypeOK'
    BY <1>0, <1>1, <1>3, <2>1 DEF TypeOK, world, RunPC
  <2>3. CopiesAgree'
    BY <1>0, <1>1, <1>3, <2>1 DEF CopiesAgree, InBatch, Same
  <2>4. DurableAccounts'
    BY <1>0, <1>1, <1>2, <2>1, SuccessKeepsDurable DEF Terminal, world
  <2>5. BatchPlace'
    BY <1>0, <1>3, <2>1 DEF BatchPlace, InBatch
  <2>6. SerialFirst'
    BY <2>1 DEF SerialFirst, Serial, Reads
  <2>7. WriteFollows' /\ ToldIsTrue'
    BY <1>0, <2>1, QuietKeepsTold, LeavingKeepsWrites DEF BatchPlace, InBatch
  <2> QED
    BY <2>2, <2>3, <2>4, <2>5, <2>6, <2>7
<1>4. CASE Commit(s, told, FALSE) /\ Raise("failing")
  BY <1>0, <1>1, <1>2, <1>4, FailureKeeps DEF Raise, LeaveBatch, Nothing
<1> QED
  BY <1>3, <1>4 DEF Respond

LEMMA CompleteKeeps ==
    ASSUME IInv, Complete, UNCHANGED kind
    PROVE  IInv'
<1> DEFINE last == inner.phase = "PERSISTING"
           s == In(inner, IF last THEN "COMPLETED" ELSE "PERSISTING")
<1> USE DEF IInv
<1>0. /\ pc = "respond" /\ inner = rs /\ ~stale /\ rs.pending = {} /\ inner \in RunState
      /\ rs.phase \in {"RESPONDING", "PERSISTING"}
      /\ UNCHANGED <<jrn, world, local, cancel, crashes>>
  BY DEF Complete, CopiesAgree, TypeOK
<1>1. /\ s \in RunState /\ Same(s, rs)
      /\ s.phase = IF last THEN "COMPLETED" ELSE "PERSISTING"
  BY <1>0, InFields DEF Phase, Terminal, Same
<1>2. Fits(s)
  BY <1>0, <1>1, OnlyPhase DEF DurableAccounts, Terminal, Same
<1>3. CASE /\ Commit(s, told, TRUE) /\ inner' = s /\ pc' = (IF last THEN "ended" ELSE pc)
           /\ UNCHANGED frame
  <2>1. /\ rs' = s /\ told' = told /\ stale' = stale /\ faults' = faults
    <3> HIDE DEF s, last
    <3> QED
      BY <1>3, CommitSucceeds
  <2>2. TypeOK'
    BY <1>0, <1>1, <1>3, <2>1 DEF TypeOK, world, RunPC, frame
  <2>3. CopiesAgree'
    BY <1>0, <1>1, <1>3, <2>1 DEF CopiesAgree, InBatch, Same
  <2>4. DurableAccounts'
    BY <1>0, <1>1, <1>2, <1>3, <2>1, SuccessKeepsDurable DEF Terminal, world
  <2>5. BatchPlace'
    BY <1>0, <1>3 DEF BatchPlace, InBatch, frame
  <2>6. SerialFirst'
    BY <1>0, <1>3 DEF SerialFirst, Serial, Reads, frame
  <2>7. WriteFollows' /\ ToldIsTrue'
    BY <1>0, <2>1, <1>3, QuietKeepsTold, LeavingKeepsWrites DEF BatchPlace, InBatch, frame
  <2> QED
    BY <2>2, <2>3, <2>4, <2>5, <2>6, <2>7
<1>4. CASE Commit(s, told, FALSE) /\ Raise("failing")
  <2>1. local' \in RunState
    BY <1>0 DEF TypeOK
  <2> QED
    BY <1>0, <1>1, <1>2, <1>4, <2>1, FailureKeeps DEF Raise, LeaveBatch, Nothing
<1> QED
  BY <1>3, <1>4 DEF Complete

-----------------------------------------------------------------------------
(* The exception handlers.                                                  *)

LEMMA HandlerKeeps ==
    ASSUME IInv, pc \in {"failing", "cancelled", "interrupted"},
           NEW p \in {"FAILED", "CANCELLED", "INTERRUPTED", "CANCELLING"}, HandlerCommit(p),
           UNCHANGED <<kind, jrn, world, frame, cancel, crashes>>
    PROVE  IInv'
<1> DEFINE s == In(local, p)
<1> USE DEF IInv
<1>0. /\ local \in RunState /\ inner \in RunState /\ rs \in RunState /\ at = Outside
      /\ UNCHANGED <<kind, jrn, world, cancel, crashes, batch, at, out>>
      /\ batch' \in SUBSET Calls /\ out' \in [Calls -> Status \cup {"none"}]
  BY DEF BatchPlace, InBatch, TypeOK, frame
<1>1. s \in RunState /\ s.phase = p
  BY <1>0, InFields DEF Phase, Terminal
<1>2. Fits(s) /\ Fits(rs)
  BY <1>1 DEF Fits, Terminal, DurableAccounts
<1>3. CASE Commit(s, told, TRUE) /\ local' = s /\ inner' = s
           /\ pc' = (IF p \in Terminal THEN "ended" ELSE pc)
  <2>1. /\ rs' = s /\ told' = told /\ stale' = stale /\ faults' = faults
    BY <1>3, CommitSucceeds
  <2>2. TypeOK'
    BY <1>0, <1>1, <1>3, <2>1 DEF TypeOK, world, RunPC
  <2>3. CopiesAgree'
    BY <1>3 DEF CopiesAgree, InBatch
  <2>4. DurableAccounts'
    BY <1>0, <1>1, <1>2, <1>3, <2>1, SuccessKeepsDurable DEF Terminal, world
  <2>5. BatchPlace'
    BY <1>0, <1>3 DEF BatchPlace, InBatch
  <2>6. SerialFirst'
    BY <1>0 DEF SerialFirst, Serial, Reads
  <2>7. WriteFollows' /\ ToldIsTrue'
    BY <1>0, <2>1, QuietKeepsTold, LeavingKeepsWrites
  <2> QED
    BY <2>2, <2>3, <2>4, <2>5, <2>6, <2>7
<1>4. CASE (Commit(s, told, FALSE) \/ UNCHANGED <<durable, stale, faults>>) /\ Die
  BY <1>0, <1>1, <1>2, <1>4, FailureKeeps DEF Die
<1> QED
  BY <1>3, <1>4 DEF HandlerCommit

LEMMA FailedKeeps ==
    ASSUME IInv, Failed, UNCHANGED kind
    PROVE  IInv'
BY HandlerKeeps DEF Failed

LEMMA CancelledKeeps ==
    ASSUME IInv, Cancelled, UNCHANGED kind
    PROVE  IInv'
<1>1. TerminalOf \in {"INTERRUPTED", "FAILED", "CANCELLED"}
  BY DEF TerminalOf
<1> QED
  BY <1>1, HandlerKeeps DEF Cancelled

\* What only raises: nothing is committed.
LEMMA RaisingKeeps ==
    ASSUME IInv, NEW h \in {"failing", "cancelled", "interrupted"}, Raise(h),
           pc \notin {"ended", "down"},
           UNCHANGED <<kind, durable, jrn, world, local, cancel, stale, crashes, faults>>
    PROVE  IInv'
<1>1. rs \in RunState /\ local \in RunState /\ Fits(rs)
  BY DEF IInv, TypeOK, DurableAccounts
<1> QED
  BY <1>1, FailureKeeps DEF Raise, LeaveBatch, Nothing

LEMMA RaisesKeeps ==
    ASSUME IInv, Raises, UNCHANGED kind
    PROVE  IInv'
BY RaisingKeeps DEF Raises

LEMMA LoopCheckpointKeeps ==
    ASSUME IInv, LoopCheckpoint, UNCHANGED kind
    PROVE  IInv'
BY RaisingKeeps DEF LoopCheckpoint

LEMMA CancelKeeps ==
    ASSUME IInv, Cancel, UNCHANGED kind
    PROVE  IInv'
<1> USE DEF IInv
<1>1. /\ UNCHANGED <<kind, durable, jrn, world, pc, local, inner, frame, stale, crashes, faults>>
      /\ cancel' \in {"user", "deadline", "shutdown"}
  BY DEF Cancel
<1>2. TypeOK' /\ CopiesAgree'
  BY <1>1 DEF durable, world, frame, TypeOK, CopiesAgree, InBatch
<1>3. DurableAccounts'
  BY <1>1 DEF durable, world, DurableAccounts, Fits, Accounts, Untouched
<1>4. BatchPlace' /\ SerialFirst'
  BY <1>1 DEF durable, world, frame, BatchPlace, HasResult, InBatch, Untouched, Writes,
     SerialFirst, Serial, Reads
<1>5. WriteFollows' /\ ToldIsTrue'
  BY <1>1, QuietKeepsTold DEF durable, world, frame, WriteFollows, WriteOf, Truth, Writes
<1> QED
  BY <1>2, <1>3, <1>4, <1>5

LEMMA KillKeeps ==
    ASSUME IInv, Kill, UNCHANGED kind
    PROVE  IInv'
<1>1. CASE Raise("interrupted")
  BY <1>1, RaisingKeeps DEF Kill
<1>2. CASE pc \in {"cancelled", "interrupted", "failing"} /\ pc' = "dead" /\ UNCHANGED <<inner, frame>>
  <2>1. /\ rs \in RunState /\ local \in RunState /\ inner \in RunState /\ Fits(rs)
        /\ at = Outside /\ batch \in SUBSET Calls /\ out \in [Calls -> Status \cup {"none"}]
    BY <1>2 DEF IInv, TypeOK, DurableAccounts, BatchPlace, InBatch
  <2> QED
    BY <1>2, <2>1, FailureKeeps DEF Kill, frame
<1> QED
  BY <1>1, <1>2 DEF Kill

-----------------------------------------------------------------------------
(* The kernel, with one call of the batch in hand.                          *)

\* A call that the kernel is at is pending, in a Run that can be resumed, and unreported.
LEMMA CallInHand ==
    ASSUME IInv, NEW c \in Calls, at[c] \notin {"out", "done"}
    PROVE  /\ InBatch /\ c \in batch /\ c \in rs.pending /\ c \in inner.pending
           /\ told[c] = <<>> /\ Accounts(rs) /\ Same(inner, rs)
           /\ {inner.phase, rs.phase} \subseteq ResumePhases
           /\ rs.phase \notin Terminal \cup {"CANCELLING"}
<1>1. InBatch
  BY DEF IInv, BatchPlace, Outside
<1>2. /\ c \in batch /\ c \in inner.pending /\ Same(inner, rs)
      /\ {inner.phase, rs.phase} \subseteq ResumePhases
  BY <1>1 DEF IInv, BatchPlace, CopiesAgree
<1>3. Accounts(rs) /\ rs.phase \notin Terminal \cup {"CANCELLING"}
  BY <1>2 DEF IInv, DurableAccounts, Fits, ResumePhases, Terminal
<1> QED
  BY <1>1, <1>2, <1>3 DEF Accounts, Same

LEMMA NothingReported ==
    ASSUME NEW c, told[c] = <<>>
    PROVE  Reported(c) = {}
BY DEF Reported

\* The kernel goes on with call c, and what it commits is at most a phase.
LEMMA KernelKeeps ==
    ASSUME IInv, NEW c \in Calls, at[c] \notin {"out", "done"},
           NEW place \in CallPC \ {"out", "done"}, at' = [at EXCEPT ![c] = place],
           UNCHANGED <<kind, told, pc, local, batch, cancel, crashes>>,
           rs' \in RunState, Same(rs', rs), rs'.phase \in ResumePhases,
           inner' \in RunState, Same(inner', inner), inner'.phase \in ResumePhases,
           stale' \in BOOLEAN, faults' \in 0..MaxFaults,
           jrn' \in [Calls -> JrnState], exe' \in [Calls -> ExecState],
           applied' \in [Calls -> Nat], runs' \in [Calls -> Nat],
           out' \in [Calls -> Status \cup {"none"}],
           HasResult(c)',
           \A d \in Calls \ {c} : /\ jrn'[d] = jrn[d] /\ exe'[d] = exe[d] /\ out'[d] = out[d]
                                  /\ applied'[d] = applied[d] /\ runs'[d] = runs[d],
           c \in Writes => WriteOf(c)',
           SerialFirst'
    PROVE  IInv'
<1> USE DEF IInv
<1>0. /\ InBatch /\ c \in batch /\ c \in rs.pending /\ told[c] = <<>> /\ Accounts(rs)
      /\ Same(inner, rs) /\ pc \in {"batch", "replay"}
  BY CallInHand DEF InBatch
<1>1. TypeOK'
  BY DEF TypeOK
<1>2. CopiesAgree'
  BY <1>0 DEF CopiesAgree, InBatch, Same
<1>3. DurableAccounts'
  <2>1. Accounts(rs)'
    BY <1>0 DEF Accounts, Untouched, Same
  <2> QED
    BY <2>1 DEF DurableAccounts, Fits, ResumePhases, Terminal
<1>4. BatchPlace'
  <2>1. \A d \in Calls : (at'[d] = "out" <=> at[d] = "out") /\ (at'[d] = "done" <=> at[d] = "done")
    BY DEF TypeOK
  <2> QED
    BY <1>0, <2>1 DEF BatchPlace, InBatch, Same, HasResult, TypeOK
<1>5. WriteFollows'
  <2> SUFFICES ASSUME NEW d \in Writes', d # c PROVE WriteOf(d)'
    BY DEF WriteFollows, Writes
  <2>1. d \in Calls /\ WriteOf(d) /\ at'[d] = at[d]
    BY DEF WriteFollows, Writes, TypeOK
  <2> QED
    BY <2>1 DEF WriteOf, Truth
<1>6. ToldIsTrue'
  <2> SUFFICES ASSUME NEW d \in Writes'
               PROVE  /\ "succeeded" \in Reported(d)' => applied'[d] = 1
                      /\ Reported(d)' \cap {"failed", "cancelled"} # {}
                             => applied'[d] = 0 /\ exe'[d] # "running"
    BY DEF ToldIsTrue
  <2>1. CASE d = c
    BY <1>0, <2>1, NothingReported DEF Reported
  <2>2. CASE d # c
    <3>1. /\ d \in Writes /\ Reported(d)' = Reported(d)
          /\ applied'[d] = applied[d] /\ exe'[d] = exe[d]
      BY <2>2 DEF Reported, Writes
    <3> QED
      BY <3>1, Zenon DEF ToldIsTrue
  <2> QED
    BY <2>1, <2>2
<1> QED
  BY <1>1, <1>2, <1>3, <1>4, <1>5, <1>6

\* Past its preparation a call has nothing serial before it that is not done.
LEMMA SerialKept ==
    ASSUME TypeOK, SerialFirst, NEW c \in Calls, at[c] \notin {"out", "queued", "done"},
           ~(at[c] = "record" /\ out[c] = "cancelled"),
           NEW place, place # "done", at' = [at EXCEPT ![c] = place],
           \A d \in Calls \ {c} : out'[d] = out[d], UNCHANGED <<kind, batch>>
    PROVE  SerialFirst'
BY ConstantsAssumption DEF SerialFirst, Serial, Reads, TypeOK

LEMMA PrepareKeeps ==
    ASSUME IInv, NEW c \in Calls, Prepare(c), UNCHANGED kind
    PROVE  IInv'
<1> USE DEF IInv
<1>0. /\ UNCHANGED <<kind, told, rs, pc, local, inner, batch, cancel, crashes, stale, faults,
                    jrn, exe, applied, runs>>
      /\ at[c] = "queued" /\ InTurn(c) /\ c \in batch
      /\ at \in [Calls -> CallPC] /\ out \in [Calls -> Status \cup {"none"}]
  BY CallInHand DEF Prepare, durable, world, TypeOK
<1>1. PICK place \in {"ready", "record"} :
        /\ at' = [at EXCEPT ![c] = place]
        /\ \/ place = "ready" /\ out' = out
           \/ place = "record" /\ out' = [out EXCEPT ![c] = "failed"]
  BY DEF Prepare, Go, Finish
<1>2. c \in Writes => WriteOf(c)'
  <2> SUFFICES ASSUME c \in Writes PROVE WriteOf(c)'
    OBVIOUS
  <2>1. jrn[c] = "none" /\ exe[c] = "none" /\ runs[c] = 0 /\ applied[c] = 0 /\ applied[c] \in Nat
    BY <1>0 DEF WriteFollows, WriteOf, TypeOK
  <2>2. at'[c] = place /\ (place = "record" => out'[c] = "failed")
    BY <1>0, <1>1
  <2> QED
    BY <1>0, <1>1, <2>1, <2>2 DEF WriteOf, Truth
<1>3. SerialFirst'
  <2> SUFFICES ASSUME NEW e \in batch, NEW d \in batch, Serial(e), e < d, at'[e] # "done"
               PROVE  at'[d] \in {"out", "queued"} \/ (at'[d] = "record" /\ out'[d] = "cancelled")
    BY <1>0 DEF SerialFirst, Serial, Reads
  <2>1. CASE d = c
    <3>1. SameGroup(c, e) /\ e # c
      BY <1>0, <1>1, <2>1, ConstantsAssumption DEF InTurn, TypeOK
    <3>2. e \in e..c /\ e \in batch
      BY <2>1, ConstantsAssumption DEF TypeOK
    <3> QED
      BY <3>1, <3>2 DEF SameGroup
  <2>2. CASE d # c
    BY <1>0, <1>1, <2>2 DEF SerialFirst, TypeOK
  <2> QED
    BY <2>1, <2>2
<1>4. /\ rs \in RunState /\ inner \in RunState /\ stale \in BOOLEAN /\ faults \in 0..MaxFaults
      /\ jrn \in [Calls -> JrnState] /\ exe \in [Calls -> ExecState]
      /\ applied \in [Calls -> Nat] /\ runs \in [Calls -> Nat]
      /\ rs.phase \in ResumePhases /\ inner.phase \in ResumePhases
  BY <1>0, CallInHand DEF TypeOK
<1>5. /\ out' \in [Calls -> Status \cup {"none"}] /\ \A d \in Calls \ {c} : out'[d] = out[d]
  BY <1>0, <1>1 DEF Status
<1> QED
  BY <1>0, <1>1, <1>2, <1>3, <1>4, <1>5, KernelKeeps DEF Same, HasResult, Status, CallPC

\* The kernel goes on with a call it has prepared, and commits nothing.
LEMMA PreparedKeeps ==
    ASSUME IInv, NEW c \in Calls, at[c] \notin {"out", "queued", "record", "done"},
           NEW place \in CallPC \ {"out", "done"}, at' = [at EXCEPT ![c] = place],
           UNCHANGED <<kind, durable, pc, local, inner, batch, cancel, stale, crashes>>,
           faults' \in 0..MaxFaults,
           jrn' \in [Calls -> JrnState], exe' \in [Calls -> ExecState],
           applied' \in [Calls -> Nat], runs' \in [Calls -> Nat],
           out' \in [Calls -> Status \cup {"none"}],
           HasResult(c)',
           \A d \in Calls \ {c} : /\ jrn'[d] = jrn[d] /\ exe'[d] = exe[d] /\ out'[d] = out[d]
                                  /\ applied'[d] = applied[d] /\ runs'[d] = runs[d],
           c \in Writes => WriteOf(c)'
    PROVE  IInv'
<1>1. SerialFirst'
  BY SerialKept DEF IInv
<1>2. /\ rs' \in RunState /\ inner' \in RunState /\ stale' \in BOOLEAN
      /\ Same(rs', rs) /\ Same(inner', inner) /\ rs'.phase \in ResumePhases
      /\ told' = told /\ inner'.phase \in ResumePhases
  BY CallInHand DEF IInv, TypeOK, durable, Same
<1> QED
  BY <1>1, <1>2, KernelKeeps

LEMMA CheckpointKeeps ==
    ASSUME IInv, NEW c \in Calls, Checkpoint(c), UNCHANGED kind
    PROVE  IInv'
<1>1. pc \notin {"ended", "down"}
  BY DEF Checkpoint, InTurn, InBatch
<1> QED
  BY <1>1, RaisingKeeps DEF Checkpoint

LEMMA JournalKeeps ==
    ASSUME IInv, NEW c \in Calls, Journal(c), UNCHANGED kind
    PROVE  IInv'
<1> USE DEF IInv
<1>0. /\ UNCHANGED <<kind, durable, pc, local, inner, batch, cancel, stale, crashes, faults>>
      /\ UNCHANGED <<exe, applied, runs>> /\ at[c] = "ready" /\ TypeOK
  BY DEF Journal, world
<1>1. CASE MayStart(c)
  <2>1. /\ jrn' = [jrn EXCEPT ![c] = "started"] /\ at' = [at EXCEPT ![c] = "journaled"]
        /\ out' = out
    BY <1>1 DEF Journal, Begun, Go
  <2>2. c \in Writes => WriteOf(c)'
    BY <1>0, <2>1 DEF WriteFollows, WriteOf, Truth, TypeOK
  <2> QED
    BY <1>0, <2>1, <2>2, PreparedKeeps DEF HasResult, TypeOK, CallPC, JrnState
<1>2. CASE ~MayStart(c)
  <2>1. /\ jrn' = [jrn EXCEPT ![c] = PriorRecord(c)] /\ at' = [at EXCEPT ![c] = "record"]
        /\ out' = [out EXCEPT ![c] = PriorResult(c)]
    BY <1>2 DEF Journal, Finish
  <2>2. c \notin Writes
    BY <1>0, <1>2 DEF MayStart, WriteFollows, WriteOf
  <2>3. jrn[c] \in JrnState \ {"none"}
    BY <1>0, <1>2 DEF MayStart, TypeOK
  <2>4. PriorRecord(c) \in JrnState /\ PriorResult(c) \in Status
    BY <2>3 DEF PriorRecord, PriorResult, Doubt, JrnState, Status
  <2> QED
    BY <1>0, <2>1, <2>2, <2>4, PreparedKeeps DEF HasResult, TypeOK, CallPC
<1> QED
  BY <1>1, <1>2

LEMMA JournalUnavailableKeeps ==
    ASSUME IInv, NEW c \in Calls, JournalUnavailable(c), UNCHANGED kind
    PROVE  IInv'
<1> USE DEF IInv
<1>0. /\ UNCHANGED <<kind, durable, pc, local, inner, batch, cancel, stale, crashes>>
      /\ UNCHANGED <<exe, applied, runs>> /\ at[c] = "ready" /\ TypeOK
      /\ at' = [at EXCEPT ![c] = "record"] /\ out' = [out EXCEPT ![c] = "failed"]
      /\ jrn' = jrn \/ jrn' = [jrn EXCEPT ![c] = "started"]
  BY DEF JournalUnavailable, world, Begun, Finish
<1>1. faults' \in 0..MaxFaults
  BY ConstantsAssumption DEF JournalUnavailable, TypeOK
<1>2. c \in Writes => WriteOf(c)'
  BY <1>0 DEF WriteFollows, WriteOf, Truth, TypeOK
<1>3. /\ jrn' \in [Calls -> JrnState] /\ out' \in [Calls -> Status \cup {"none"}]
      /\ \A d \in Calls \ {c} : jrn'[d] = jrn[d] /\ out'[d] = out[d]
  BY <1>0 DEF TypeOK, JrnState, Status
<1> QED
  BY <1>0, <1>1, <1>2, <1>3, PreparedKeeps DEF HasResult, TypeOK, CallPC

LEMMA AttemptKeeps ==
    ASSUME IInv, NEW c \in Calls, Attempt(c), UNCHANGED kind
    PROVE  IInv'
<1> USE DEF IInv
<1>0. /\ UNCHANGED <<kind, durable, pc, local, inner, batch, cancel, stale, crashes, faults>>
      /\ UNCHANGED <<jrn, applied, out>> /\ at[c] = "started" /\ TypeOK
      /\ at' = [at EXCEPT ![c] = "running"] /\ exe' = [exe EXCEPT ![c] = "running"]
      /\ runs' = [runs EXCEPT ![c] = @ + 1]
  BY DEF Attempt, Go
<1>1. c \in Writes => WriteOf(c)'
  BY <1>0 DEF WriteFollows, WriteOf, Truth, TypeOK
<1>2. /\ runs' \in [Calls -> Nat] /\ exe' \in [Calls -> ExecState]
      /\ \A d \in Calls \ {c} : runs'[d] = runs[d] /\ exe'[d] = exe[d]
  BY <1>0 DEF TypeOK, ExecState
<1> QED
  BY <1>0, <1>1, <1>2, PreparedKeeps DEF HasResult, TypeOK, CallPC

\* An attempt that is given up, or never made, is in doubt.
LEMMA DoubtKeeps ==
    ASSUME IInv, NEW c \in Calls, at[c] \in {"journaled", "starting", "started", "running"},
           Finish(c, "finalize", Doubt(c)),
           UNCHANGED <<kind, durable, jrn, world, pc, local, inner, batch, cancel, stale, crashes, faults>>
    PROVE  IInv'
<1> USE DEF IInv
<1>0. /\ at' = [at EXCEPT ![c] = "finalize"] /\ out' = [out EXCEPT ![c] = Doubt(c)]
      /\ UNCHANGED <<kind, durable, pc, local, inner, batch, cancel, stale, crashes, faults>>
      /\ UNCHANGED <<jrn, exe, applied, runs>> /\ TypeOK
  BY DEF Finish, world
<1>1. Doubt(c) \in Status /\ Doubt(c) \in Outcome /\ (c \in Writes => Doubt(c) = "unknown")
  BY DEF Doubt, Status, Outcome
<1>2. c \in Writes => WriteOf(c)'
  BY <1>0, <1>1 DEF WriteFollows, WriteOf, Truth, TypeOK
<1> QED
  BY <1>0, <1>1, <1>2, PreparedKeeps DEF HasResult, TypeOK, CallPC

LEMMA ExpiredKeeps ==
    ASSUME IInv, NEW c \in Calls, Expired(c), UNCHANGED kind
    PROVE  IInv'
BY DoubtKeeps DEF Expired

LEMMA TimeoutKeeps ==
    ASSUME IInv, NEW c \in Calls, Timeout(c), UNCHANGED kind
    PROVE  IInv'
BY DoubtKeeps DEF Timeout

LEMMA ReturnKeeps ==
    ASSUME IInv, NEW c \in Calls, Return(c), UNCHANGED kind
    PROVE  IInv'
<1> USE DEF IInv
<1>0. /\ UNCHANGED <<kind, durable, pc, local, inner, batch, cancel, stale, crashes, faults>>
      /\ UNCHANGED <<jrn, applied, runs>> /\ at[c] = "running" /\ TypeOK
      /\ exe' = [exe EXCEPT ![c] = "ended"]
  BY DEF Return
<1>1. PICK r \in Answers(c) : at' = [at EXCEPT ![c] = "finalize"] /\ out' = [out EXCEPT ![c] = r]
  BY DEF Return, Finish
<1>2. r \in Status /\ r \in Outcome
  BY <1>1 DEF Answers, Status, Outcome
<1>3. ASSUME c \in Writes PROVE WriteOf(c)'
  <2>1. WriteOf(c)
    BY <1>3 DEF WriteFollows
  <2>2. Truth(c, r)'
    BY <1>0, <1>1, <1>3, <2>1 DEF Answers, WriteOf, Truth, TypeOK
  <2> QED
    BY <1>0, <1>1, <2>1, <2>2 DEF WriteOf, Truth, TypeOK
<1>4. /\ out' \in [Calls -> Status \cup {"none"}] /\ exe' \in [Calls -> ExecState]
      /\ \A d \in Calls \ {c} : out'[d] = out[d] /\ exe'[d] = exe[d]
  BY <1>0, <1>1, <1>2 DEF TypeOK, ExecState
<1> QED
  BY <1>0, <1>1, <1>2, <1>3, <1>4, PreparedKeeps DEF HasResult, TypeOK, CallPC

LEMMA FinalizeKeeps ==
    ASSUME IInv, NEW c \in Calls, Finalize(c), UNCHANGED kind
    PROVE  IInv'
<1> USE DEF IInv
<1>0. /\ UNCHANGED <<kind, durable, pc, local, inner, batch, cancel, stale, crashes>>
      /\ UNCHANGED <<exe, applied, runs>> /\ at[c] = "finalize" /\ TypeOK
      /\ at' = [at EXCEPT ![c] = "record"]
      /\ jrn' = jrn \/ jrn' = [jrn EXCEPT ![c] = out[c]]
      /\ out' = out \/ out' = [out EXCEPT ![c] = AfterFinalizeFailure(c)]
  BY DEF Finalize, world, Go, Finish
<1>1. faults' \in 0..MaxFaults
  BY ConstantsAssumption DEF Finalize, TypeOK
<1>2. out[c] \in Outcome
  BY <1>0, CallInHand DEF BatchPlace, HasResult
<1>3. ASSUME c \in Writes PROVE WriteOf(c)'
  <2>1. WriteOf(c) /\ Truth(c, out[c]) /\ jrn[c] = "started"
    BY <1>0, <1>3 DEF WriteFollows, WriteOf
  <2>2. jrn'[c] \in {"started", out[c]} /\ out'[c] \in {out[c], "partial"} /\ at'[c] = "record"
    <3>1. at'[c] = "record" /\ (jrn'[c] = jrn[c] \/ jrn'[c] = out[c])
      BY <1>0 DEF TypeOK
    <3>2. out'[c] = out[c] \/ out'[c] = AfterFinalizeFailure(c)
      BY <1>0 DEF TypeOK
    <3>3. AfterFinalizeFailure(c) \in {out[c], "partial"}
      BY DEF AfterFinalizeFailure
    <3> QED
      BY <2>1, <3>1, <3>2, <3>3
  <2> QED
    BY <1>0, <1>2, <2>1, <2>2 DEF WriteOf, Truth, Outcome
<1>4. /\ jrn' \in [Calls -> JrnState] /\ out' \in [Calls -> Status \cup {"none"}]
      /\ \A d \in Calls \ {c} : jrn'[d] = jrn[d] /\ out'[d] = out[d]
  BY <1>0, <1>2 DEF TypeOK, AfterFinalizeFailure, Outcome, Status, JrnState
<1>5. HasResult(c)'
  BY <1>0, <1>2 DEF HasResult, TypeOK, AfterFinalizeFailure, Outcome, Status
<1> QED
  BY <1>0, <1>1, <1>3, <1>4, <1>5, PreparedKeeps DEF TypeOK, CallPC

-----------------------------------------------------------------------------
(* What the kernel's observer commits.                                      *)

\* The start of a call is recorded, or the call is given up in doubt.
LEMMA StartKeeps ==
    ASSUME IInv, NEW c \in Calls, at[c] \in {"journaled", "starting"},
           NEW place \in {"starting", "started"},
           NEW s \in RunState, Same(s, inner), s.phase \in ResumePhases,
           \/ Commit(s, told, TRUE) /\ inner' = s /\ Go(c, place) /\ UNCHANGED out
           \/ Commit(s, told, FALSE) /\ inner' = inner /\ Finish(c, "finalize", Doubt(c)),
           UNCHANGED <<kind, jrn, world, pc, local, batch, cancel, crashes>>
    PROVE  IInv'
<1> USE DEF IInv
<1>0. /\ Same(inner, rs) /\ inner.phase \in ResumePhases /\ rs.phase \in ResumePhases
      /\ TypeOK /\ UNCHANGED <<jrn, exe, applied, runs>>
      /\ stale \in BOOLEAN /\ faults \in 0..MaxFaults
  BY CallInHand DEF world, TypeOK
<1>1. CASE Commit(s, told, TRUE) /\ inner' = s /\ Go(c, place) /\ UNCHANGED out
  <2>1. /\ rs' = s /\ told' = told /\ stale' = stale /\ faults' = faults
        /\ at' = [at EXCEPT ![c] = place] /\ out' = out
    BY <1>1, CommitSucceeds DEF Go
  <2>2. c \in Writes => WriteOf(c)'
    BY <1>0, <2>1 DEF WriteFollows, WriteOf, Truth, TypeOK
  <2>3. HasResult(c)'
    BY <1>0, <2>1 DEF HasResult, TypeOK
  <2>4. SerialFirst'
    BY <2>1, SerialKept
  <2>5. stale' \in BOOLEAN /\ faults' \in 0..MaxFaults
    BY <1>0, <2>1
  <2>6. Same(rs', rs) /\ Same(inner', inner)
    BY <1>0, <1>1, <2>1 DEF Same
  <2> QED
    BY <1>0, <1>1, <2>1, <2>2, <2>3, <2>4, <2>5, <2>6, KernelKeeps DEF TypeOK, CallPC
<1>2. CASE Commit(s, told, FALSE) /\ inner' = inner /\ Finish(c, "finalize", Doubt(c))
  <2>1. /\ stale' \in BOOLEAN /\ faults' \in 0..MaxFaults /\ told' = told
        /\ rs' = rs \/ rs' = s
    BY <1>0, <1>2, CommitFails
  <2>2. /\ at' = [at EXCEPT ![c] = "finalize"] /\ out' = [out EXCEPT ![c] = Doubt(c)]
        /\ Doubt(c) \in Status /\ Doubt(c) \in Outcome /\ (c \in Writes => Doubt(c) = "unknown")
    BY <1>2 DEF Finish, Doubt, Status, Outcome
  <2>3. c \in Writes => WriteOf(c)'
    BY <1>0, <2>2 DEF WriteFollows, WriteOf, Truth, TypeOK
  <2>4. HasResult(c)' /\ out' \in [Calls -> Status \cup {"none"}]
    BY <1>0, <2>2 DEF HasResult, TypeOK
  <2>5. SerialFirst'
    BY <1>0, <2>2, SerialKept DEF TypeOK
  <2>6. /\ rs' \in RunState /\ Same(rs', rs) /\ rs'.phase \in ResumePhases
        /\ Same(inner', inner) /\ inner' \in RunState /\ inner'.phase \in ResumePhases
    BY <1>0, <1>2, <2>1 DEF Same, TypeOK
  <2> QED
    BY <1>0, <2>1, <2>2, <2>3, <2>4, <2>5, <2>6, KernelKeeps DEF TypeOK, CallPC
<1> QED
  BY <1>1, <1>2

LEMMA ObserveStartKeeps ==
    ASSUME IInv, NEW c \in Calls, ObserveStart(c), UNCHANGED kind
    PROVE  IInv'
<1> USE DEF IInv
<1>1. CASE inner.phase = "EXECUTING_TOOLS"
  <2>1. /\ at' = [at EXCEPT ![c] = "starting"] /\ at[c] = "journaled" /\ TypeOK
        /\ UNCHANGED <<kind, durable, jrn, pc, local, inner, batch, out, cancel, stale, crashes, faults>>
        /\ UNCHANGED <<exe, applied, runs>>
    BY <1>1 DEF ObserveStart, Go, world
  <2>2. c \in Writes => WriteOf(c)'
    BY <2>1 DEF WriteFollows, WriteOf, Truth, TypeOK
  <2> QED
    BY <2>1, <2>2, PreparedKeeps DEF HasResult, TypeOK, CallPC
<1>2. CASE inner.phase # "EXECUTING_TOOLS"
  <2> DEFINE s == In(inner, "EXECUTING_TOOLS")
  <2>1. /\ s \in RunState /\ Same(s, inner) /\ s.phase \in ResumePhases
    BY InFields DEF TypeOK, Phase, Same, ResumePhases
  <2>2. /\ at[c] = "journaled"
        /\ UNCHANGED <<kind, jrn, world, pc, local, batch, cancel, crashes>>
        /\ \/ Commit(s, told, TRUE) /\ inner' = s /\ Go(c, "starting") /\ UNCHANGED out
           \/ Commit(s, told, FALSE) /\ inner' = inner /\ Finish(c, "finalize", Doubt(c))
    BY <1>2 DEF ObserveStart
  <2> HIDE DEF s
  <2> QED
    BY <2>1, <2>2, StartKeeps
<1> QED
  BY <1>1, <1>2

LEMMA EventStartKeeps ==
    ASSUME IInv, NEW c \in Calls, EventStart(c), UNCHANGED kind
    PROVE  IInv'
<1>1. at[c] = "starting" /\ inner \in RunState /\ Same(inner, inner)
  BY DEF EventStart, IInv, TypeOK, Same
<1>2. inner.phase \in ResumePhases
  BY <1>1, CallInHand
<1>3. \/ Commit(inner, told, TRUE) /\ inner' = inner /\ Go(c, "started") /\ UNCHANGED out
      \/ Commit(inner, told, FALSE) /\ inner' = inner /\ Finish(c, "finalize", Doubt(c))
  BY DEF EventStart
<1> QED
  BY <1>1, <1>2, <1>3, StartKeeps DEF EventStart

LEMMA ObserveResultKeeps ==
    ASSUME IInv, NEW c \in Calls, ObserveResult(c), UNCHANGED kind
    PROVE  IInv'
<1> DEFINE s == In(inner, "RECORDING_RESULTS")
<1> USE DEF IInv
<1>0. /\ at[c] = "record" /\ InBatch /\ Same(inner, rs) /\ TypeOK
      /\ inner \in RunState /\ rs \in RunState /\ stale \in BOOLEAN /\ faults \in 0..MaxFaults
      /\ rs.phase \in ResumePhases /\ inner.phase \in ResumePhases
      /\ UNCHANGED <<kind, jrn, exe, applied, runs, local, cancel, crashes>> /\ world' = world
      /\ out[c] = "cancelled" => \A d \in batch : d < c => at[d] = "done"
  BY CallInHand DEF ObserveResult, TypeOK, world
<1>1. s \in RunState /\ s.phase = "RECORDING_RESULTS" /\ Same(s, rs) /\ Same(s, inner)
  BY <1>0, InFields DEF Phase, Same
<1>2. ASSUME Go(c, "recording"), UNCHANGED <<pc, batch, out, told, stale, faults>>,
             rs' \in {rs, s}, inner' \in {inner, s}
      PROVE  IInv'
  <2>1. at' = [at EXCEPT ![c] = "recording"] /\ HasResult(c)
    BY <1>0, <1>2, CallInHand DEF Go, BatchPlace
  <2>2. c \in Writes => WriteOf(c)'
    BY <1>0, <1>2, <2>1 DEF WriteFollows, WriteOf, Truth, TypeOK
  <2>3. HasResult(c)'
    BY <1>0, <1>2, <2>1 DEF HasResult, TypeOK
  <2>4. SerialFirst'
    <3>1. CASE out[c] = "cancelled"
      BY <1>0, <1>2, <2>1, <3>1, ConstantsAssumption DEF SerialFirst, Serial, Reads, TypeOK
    <3>2. CASE out[c] # "cancelled"
      BY <1>0, <1>2, <2>1, <3>2, SerialKept
    <3> QED
      BY <3>1, <3>2
  <2>5. /\ Same(rs', rs) /\ Same(inner', inner) /\ rs' \in RunState /\ inner' \in RunState
        /\ rs'.phase \in ResumePhases /\ inner'.phase \in ResumePhases
    BY <1>0, <1>1, <1>2 DEF Same, ResumePhases
  <2> HIDE DEF s
  <2> QED
    BY <1>0, <1>2, <2>1, <2>2, <2>3, <2>4, <2>5, KernelKeeps DEF TypeOK, CallPC
<1>3. CASE Commit(s, told, FALSE) /\ Raise("failing")
  <2>1. Fits(s) /\ local' \in RunState /\ pc \notin {"ended", "down"}
    BY <1>0, <1>1, OnlyPhase DEF DurableAccounts, Terminal, ResumePhases, InBatch, TypeOK
  <2> QED
    BY <1>0, <1>1, <1>3, <2>1, FailureKeeps DEF Raise, LeaveBatch, Nothing
<1>4. CASE Commit(s, told, TRUE) /\ inner' = s /\ Go(c, "recording") /\ UNCHANGED <<pc, batch, out>>
  <2>1. rs' = s /\ told' = told /\ stale' = stale /\ faults' = faults
    BY <1>4, CommitSucceeds
  <2> QED
    BY <1>2, <1>4, <2>1
<1>5. CASE Go(c, "recording") /\ UNCHANGED <<durable, stale, faults, inner, pc, batch, out>>
  BY <1>2, <1>5 DEF durable
<1> QED
  BY <1>3, <1>4, <1>5 DEF ObserveResult

\* What a result and its event, recorded together, leave durable.
LEMMA ResultRecorded ==
    ASSUME IInv, NEW c \in Calls, at[c] = "recording",
           told' = [told EXCEPT ![c] = Append(@, out[c])], UNCHANGED <<kind, jrn, world>>
    PROVE  /\ told' \in [Calls -> Seq(Status)] /\ ToldIsTrue'
           /\ rs' = Record(inner, c, out[c]) =>
                /\ rs' \in RunState /\ rs'.phase = inner.phase /\ Fits(rs)'
                /\ rs'.pending = inner.pending \ {c}
<1> USE DEF IInv
<1>0. /\ told[c] = <<>> /\ Accounts(rs) /\ Same(inner, rs) /\ out[c] \in Status
      /\ inner \in RunState /\ inner.phase \in ResumePhases
      /\ told \in [Calls -> Seq(Status)] /\ UNCHANGED <<jrn, exe, applied, runs>>
  BY CallInHand DEF BatchPlace, HasResult, TypeOK, world
<1>1. told'[c] = <<out[c]>> /\ \A d \in Calls \ {c} : told'[d] = told[d]
  BY <1>0
<1>2. told' \in [Calls -> Seq(Status)]
  BY <1>0
<1>3. ToldIsTrue'
  <2> SUFFICES ASSUME NEW d \in Writes'
               PROVE  /\ "succeeded" \in Reported(d)' => applied'[d] = 1
                      /\ Reported(d)' \cap {"failed", "cancelled"} # {}
                             => applied'[d] = 0 /\ exe'[d] # "running"
    BY DEF ToldIsTrue
  <2>1. CASE d = c
    <3>1. Reported(d)' = {out[c]}
      BY <1>1, <2>1 DEF Reported
    <3>2. Truth(c, out[c])
      BY <2>1 DEF WriteFollows, WriteOf, Writes
    <3> QED
      BY <1>0, <2>1, <3>1, <3>2 DEF Truth
  <2>2. CASE d # c
    <3>1. /\ d \in Writes /\ Reported(d)' = Reported(d)
          /\ applied'[d] = applied[d] /\ exe'[d] = exe[d]
      BY <1>0, <1>1, <2>2 DEF Reported, Writes
    <3> QED
      BY <3>1, Zenon DEF ToldIsTrue
  <2> QED
    BY <2>1, <2>2
<1>4. ASSUME rs' = Record(inner, c, out[c])
      PROVE  /\ rs' \in RunState /\ rs'.phase = inner.phase /\ Fits(rs)'
             /\ rs'.pending = inner.pending \ {c}
  <2>1. /\ rs' \in RunState /\ rs'.phase = inner.phase /\ rs'.pending = inner.pending \ {c}
        /\ rs'.results = [inner.results EXCEPT ![c] = out[c]] /\ inner.results \in [Calls -> Status \cup {"none"}]
    BY <1>0, <1>4 DEF Record, RunState
  <2>2. Accounts(rs)'
    <3> SUFFICES ASSUME NEW d \in Calls
                 PROVE  IF d \in rs'.pending THEN told'[d] = <<>>
                        ELSE Untouched(d)' \/ (rs'.results[d] # "none" /\ Len(told'[d]) = 1)
      BY DEF Accounts
    <3>1. CASE d = c
      BY <1>0, <1>1, <2>1, <3>1 DEF Status
    <3>2. CASE d # c
      BY <1>0, <1>1, <2>1, <3>2 DEF Accounts, Untouched, Same
    <3> QED
      BY <3>1, <3>2
  <2> QED
    BY <1>0, <2>1, <2>2 DEF Fits, ResumePhases
<1> QED
  BY <1>2, <1>3, <1>4

LEMMA EventResultKeeps ==
    ASSUME IInv, NEW c \in Calls, EventResult(c), UNCHANGED kind
    PROVE  IInv'
<1> DEFINE s == Record(inner, c, out[c])
           log == [told EXCEPT ![c] = Append(@, out[c])]
           stopped == IF StopsBatch(c) THEN Later(c) ELSE {}
<1> USE DEF IInv
<1>0. /\ at[c] = "recording" /\ InBatch /\ c \in batch /\ Same(inner, rs) /\ TypeOK
      /\ inner.phase \in ResumePhases /\ rs.phase \in ResumePhases
      /\ UNCHANGED <<kind, jrn, exe, applied, runs, local, cancel, crashes>> /\ world' = world
  BY CallInHand DEF EventResult, world
<1>1. CASE /\ Commit(s, log, TRUE) /\ inner' = s
           /\ at' = [d \in Calls |-> CASE d = c -> "done" [] d \in stopped -> "record"
                                       [] OTHER -> at[d]]
           /\ out' = [d \in Calls |-> IF d \in stopped THEN "cancelled" ELSE out[d]]
           /\ UNCHANGED <<pc, batch>>
  <2>1. rs' = s /\ told' = log /\ stale' = stale /\ faults' = faults /\ inner' = s
    <3> HIDE DEF s, log
    <3> QED
      BY <1>1, CommitSucceeds
  <2>2. /\ told' \in [Calls -> Seq(Status)] /\ ToldIsTrue' /\ Fits(rs)'
        /\ s \in RunState /\ s.phase = inner.phase /\ s.pending = inner.pending \ {c}
    BY <1>0, <2>1, ResultRecorded
  <2>3. /\ stopped \subseteq batch /\ c \notin stopped
        /\ \A d \in stopped : at[d] = "queued" \/ (at[d] = "record" /\ out[d] = "cancelled")
    <3>1. \A d \in Later(c) : d \in batch /\ c < d /\ d # c
      BY ConstantsAssumption, <1>0 DEF Later, TypeOK
    <3>2. \A d \in batch : at[d] # "out"
      BY <1>0 DEF BatchPlace, TypeOK
    <3> QED
      BY <1>0, <3>1, <3>2 DEF StopsBatch, SerialFirst
  <2>4. at'[c] = "done" /\ \A d \in Calls : /\ d \in stopped => at'[d] = "record" /\ out'[d] = "cancelled"
                                            /\ d \notin stopped => out'[d] = out[d]
                                            /\ d \notin stopped \cup {c} => at'[d] = at[d]
    BY <1>1, <2>3
  <2>5. TypeOK'
    <3>1. at' \in [Calls -> CallPC]
      BY <1>0, <1>1 DEF TypeOK, CallPC
    <3>2. out' \in [Calls -> Status \cup {"none"}]
      BY <1>0, <1>1 DEF TypeOK, Status
    <3> HIDE DEF s, log
    <3> QED
      BY <1>0, <1>1, <2>1, <2>2, <3>1, <3>2 DEF TypeOK
  <2>6. CopiesAgree'
    <3> HIDE DEF s, log
    <3> QED
      BY <1>0, <1>1, <2>1, <2>2 DEF CopiesAgree, InBatch, Same
  <2>7. DurableAccounts'
    BY <1>0, <2>1, <2>2 DEF DurableAccounts, ResumePhases, Terminal
  <2>8. BatchPlace'
    <3>1. \A d \in Calls : /\ at'[d] = "out" <=> d \notin batch
                           /\ d \in s.pending <=> d \in batch /\ at'[d] # "done"
                           /\ HasResult(d)'
      BY <1>0, <2>2, <2>3, <2>4 DEF BatchPlace, HasResult, TypeOK, Status
    <3>2. s.pending \subseteq Calls /\ batch \subseteq Calls
      BY <1>0, <2>2 DEF TypeOK, RunState
    <3> HIDE DEF s
    <3> QED
      BY <1>0, <1>1, <2>1, <3>1, <3>2 DEF BatchPlace, InBatch
  <2>9. SerialFirst'
    <3>0. /\ batch' = batch /\ \A e \in batch : Serial(e)' = Serial(e)
          /\ \A d \in stopped : at'[d] = "record" /\ out'[d] = "cancelled"
      BY <1>0, <1>1, <2>3, <2>4 DEF Serial, Reads, TypeOK
    <3> SUFFICES ASSUME NEW e \in batch, NEW d \in batch, Serial(e), e < d, at'[e] # "done",
                        d \notin stopped
                 PROVE  at'[d] \in {"out", "queued"} \/ (at'[d] = "record" /\ out'[d] = "cancelled")
      BY <3>0, Zenon DEF SerialFirst
    <3>1. e # c /\ e \in Calls /\ d \in Calls /\ c \in Nat /\ e \in Nat /\ d \in Nat
      BY <1>0, <2>4, ConstantsAssumption DEF TypeOK
    <3>2. e \notin stopped
      BY <3>1 DEF Later
    <3>3. at[e] # "done"
      BY <2>4, <3>1, <3>2
    <3>4. d # c
      BY <1>0, <3>3 DEF SerialFirst
    <3> QED
      BY <2>4, <3>1, <3>3, <3>4 DEF SerialFirst
  <2>10. WriteFollows'
    <3> SUFFICES ASSUME NEW d \in Writes PROVE WriteOf(d)'
      BY <1>0 DEF WriteFollows, Writes
    <3>0. d \in Calls /\ WriteOf(d) /\ applied[d] \in Nat
      BY <1>0 DEF WriteFollows, Writes, TypeOK
    <3>1. CASE d = c
      BY <1>0, <2>4, <3>0, <3>1 DEF WriteOf, Truth
    <3>2. CASE d \in stopped
      <4>1. applied[d] = 0 /\ exe[d] # "running" /\ at'[d] = "record" /\ out'[d] = "cancelled"
        BY <2>3, <2>4, <3>0, <3>2 DEF WriteOf, Truth
      <4> QED
        BY <1>0, <3>0, <4>1 DEF WriteOf, Truth
    <3>3. CASE d \notin stopped \cup {c}
      BY <1>0, <2>4, <3>0, <3>3 DEF WriteOf, Truth
    <3> QED
      BY <3>1, <3>2, <3>3
  <2> QED
    BY <2>2, <2>5, <2>6, <2>7, <2>8, <2>9, <2>10
<1>2. CASE Commit(s, log, FALSE) /\ Raise("failing")
  <2>1. /\ faults' \in 0..MaxFaults /\ stale' \in BOOLEAN /\ (stale => stale')
        /\ \/ rs' = rs /\ told' = told
           \/ ~stale /\ stale' /\ rs' = s /\ told' = log
    <3> HIDE DEF s, log
    <3> QED
      BY <1>2, CommitFails
  <2>2. /\ told' \in [Calls -> Seq(Status)] /\ ToldIsTrue' /\ Fits(rs)' /\ rs' \in RunState
        /\ rs'.phase \in ResumePhases
    <3>1. CASE rs' = rs /\ told' = told
      BY <1>0, <3>1, QuietKeepsTold DEF TypeOK, DurableAccounts, Fits, Accounts, Untouched
    <3>2. CASE rs' = s /\ told' = log
      BY <1>0, <3>2, ResultRecorded
    <3> QED
      BY <2>1, <3>1, <3>2
  <2>3. /\ pc' = "failing" /\ inner' = local /\ batch' = {} /\ at' = Outside /\ out' = Nothing
    BY <1>2 DEF Raise, LeaveBatch
  <2>4. TypeOK'
    BY <1>0, <2>1, <2>2, <2>3 DEF TypeOK, Outside, Nothing, CallPC, RunPC
  <2>5. CopiesAgree' /\ BatchPlace' /\ SerialFirst'
    BY <2>3 DEF CopiesAgree, InBatch, BatchPlace, SerialFirst
  <2>6. DurableAccounts'
    BY <2>2 DEF DurableAccounts, ResumePhases, Terminal
  <2>7. WriteFollows'
    BY <1>0, <2>3, LeavingKeepsWrites
  <2> QED
    BY <2>2, <2>4, <2>5, <2>6, <2>7
<1> QED
  BY <1>1, <1>2 DEF EventResult

-----------------------------------------------------------------------------
(* The executor's task, crash and restart.                                  *)

\* Something happens to the journal and the effect of a call that was begun, and to
\* nothing else.
LEMMA WorldKeeps ==
    ASSUME IInv, NEW c \in Calls, jrn[c] = "none" => jrn'[c] = "none",
           exe[c] = "running" \/ applied'[c] = applied[c], exe'[c] # "running",
           UNCHANGED <<kind, durable, runs, pc, local, inner, frame, cancel, stale, crashes, faults>>,
           pc = "resume" => UNCHANGED jrn,
           jrn' \in [Calls -> JrnState], exe' \in [Calls -> ExecState],
           applied' \in [Calls -> Nat],
           \A d \in Calls \ {c} : jrn'[d] = jrn[d] /\ exe'[d] = exe[d] /\ applied'[d] = applied[d],
           c \in Writes => WriteOf(c)'
    PROVE  IInv'
<1> USE DEF IInv
<1>0. /\ UNCHANGED <<kind, rs, told, runs, pc, local, inner, batch, at, out, cancel, stale, crashes, faults>>
      /\ TypeOK
  BY DEF durable, frame
<1>1. TypeOK' /\ CopiesAgree'
  BY <1>0 DEF TypeOK, CopiesAgree, InBatch
<1>2. \A d \in Calls : Untouched(d) => Untouched(d)'
  BY <1>0 DEF Untouched
<1>3. DurableAccounts'
  BY <1>0, <1>2 DEF DurableAccounts, Fits, Accounts
<1>4. BatchPlace'
  BY <1>0, <1>2 DEF BatchPlace, InBatch, HasResult, Writes, TypeOK
<1>5. SerialFirst'
  BY <1>0 DEF SerialFirst, Serial, Reads
<1>6. WriteFollows'
  <2> SUFFICES ASSUME NEW d \in Writes', d # c PROVE WriteOf(d)'
    BY DEF WriteFollows, Writes
  <2> QED
    BY <1>0 DEF WriteFollows, WriteOf, Truth, Writes
<1>7. ToldIsTrue'
  <2> SUFFICES ASSUME NEW d \in Writes
               PROVE  /\ "succeeded" \in Reported(d) => applied'[d] = 1
                      /\ Reported(d) \cap {"failed", "cancelled"} # {}
                             => applied'[d] = 0 /\ exe'[d] # "running"
    BY <1>0 DEF ToldIsTrue, Reported, Writes
  <2>1. /\ WriteOf(d) /\ d \in Calls
        /\ "succeeded" \in Reported(d) => applied[d] = 1
        /\ Reported(d) \cap {"failed", "cancelled"} # {} => applied[d] = 0 /\ exe[d] # "running"
    BY DEF WriteFollows, ToldIsTrue, Writes
  <2>2. CASE d = c
    BY <2>1, <2>2 DEF WriteOf
  <2>3. CASE d # c
    BY <2>1, <2>3
  <2> QED
    BY <2>2, <2>3
<1> QED
  BY <1>1, <1>3, <1>4, <1>5, <1>6, <1>7

LEMMA EffectKeeps ==
    ASSUME IInv, NEW c \in Calls, Effect(c), UNCHANGED kind
    PROVE  IInv'
<1> USE DEF IInv
<1>0. /\ c \in Writes /\ exe[c] = "running" /\ TypeOK /\ WriteOf(c)
      /\ exe' = [exe EXCEPT ![c] = "applied"] /\ applied' = [applied EXCEPT ![c] = @ + 1]
      /\ UNCHANGED <<kind, durable, jrn, runs, pc, local, inner, frame, cancel, stale, crashes, faults>>
      /\ UNCHANGED <<at, out>>
  BY DEF Effect, WriteFollows, frame
<1>1. WriteOf(c)'
  BY <1>0 DEF WriteOf, Truth, TypeOK
<1>2. /\ exe' \in [Calls -> ExecState] /\ applied' \in [Calls -> Nat] /\ exe'[c] # "running"
      /\ \A d \in Calls \ {c} : exe'[d] = exe[d] /\ applied'[d] = applied[d]
      /\ jrn' \in [Calls -> JrnState] /\ jrn' = jrn
  BY <1>0 DEF TypeOK, ExecState
<1> QED
  BY <1>0, <1>1, <1>2, WorldKeeps

LEMMA StragglerEndsKeeps ==
    ASSUME IInv, NEW c \in Calls, StragglerEnds(c), UNCHANGED kind
    PROVE  IInv'
<1> USE DEF IInv
<1>0. /\ exe[c] \in {"running", "applied"} /\ at[c] # "running" /\ TypeOK
      /\ exe' = [exe EXCEPT ![c] = "ended"]
      /\ UNCHANGED <<kind, durable, jrn, applied, runs, pc, local, inner, frame, cancel, stale, crashes, faults>>
      /\ UNCHANGED <<at, out>>
  BY DEF StragglerEnds, frame
<1>1. c \in Writes => WriteOf(c)'
  BY <1>0 DEF WriteFollows, WriteOf, Truth, TypeOK
<1> QED
  BY <1>0, <1>1, WorldKeeps DEF TypeOK, ExecState

LEMMA SettleVaultKeeps ==
    ASSUME IInv, NEW c \in Calls, SettleVault(c), UNCHANGED kind
    PROVE  IInv'
<1> USE DEF IInv
<1>0. /\ pc = "down" /\ c \in Writes /\ jrn[c] = "started" /\ exe[c] # "none" /\ TypeOK
      /\ jrn' = [jrn EXCEPT ![c] = IF applied[c] > 0 THEN "succeeded" ELSE "failed"]
      /\ exe' = [exe EXCEPT ![c] = "ended"]
      /\ UNCHANGED <<kind, durable, applied, runs, pc, local, inner, frame, cancel, stale, crashes, faults>>
      /\ UNCHANGED <<at, out>> /\ at[c] = "out"
  BY DEF SettleVault, VaultCalls, Writes, frame, BatchPlace, InBatch, Outside
<1>1. WriteOf(c)'
  BY <1>0 DEF WriteFollows, WriteOf, Truth, TypeOK
<1> QED
  BY <1>0, <1>1, WorldKeeps DEF TypeOK, ExecState, JrnState

LEMMA CrashKeeps ==
    ASSUME IInv, Crash, UNCHANGED kind
    PROVE  IInv'
<1> USE DEF IInv
<1>0. /\ UNCHANGED <<kind, rs, told, jrn, exe, applied, runs, faults>> /\ world' = world
      /\ pc' = "down" /\ local' = rs /\ inner' = rs /\ batch' = {} /\ at' = Outside
      /\ out' = Nothing /\ cancel' = "none" /\ stale' = FALSE /\ TypeOK
      /\ crashes < MaxCrashes /\ crashes' = crashes + 1
  BY DEF Crash, durable, world, LeaveBatch
<1>1. TypeOK'
  <2>1. crashes' \in 0..MaxCrashes
    BY <1>0, ConstantsAssumption DEF TypeOK
  <2>2. at' \in [Calls -> CallPC] /\ out' \in [Calls -> Status \cup {"none"}] /\ pc' \in RunPC
    BY <1>0 DEF Outside, CallPC, Nothing, RunPC
  <2> QED
    BY <1>0, <2>1, <2>2 DEF TypeOK
<1>2. CopiesAgree' /\ BatchPlace' /\ SerialFirst'
  BY <1>0 DEF CopiesAgree, InBatch, BatchPlace, SerialFirst
<1>3. DurableAccounts'
  BY <1>0 DEF DurableAccounts, Fits, Accounts, Untouched
<1>4. WriteFollows' /\ ToldIsTrue'
  BY <1>0, LeavingKeepsWrites, QuietKeepsTold
<1> QED
  BY <1>1, <1>2, <1>3, <1>4

\* What recovery makes of a Run that it resumes.
LEMMA RecoveredFits ==
    ASSUME IInv, NEW S, S = {c \in rs.pending : Appliable(c)}, rs.phase \notin Terminal,
           rs' = Recovered(S),
           told' = [c \in Calls |-> IF c \in S THEN Append(told[c], jrn[c]) ELSE told[c]],
           UNCHANGED <<kind, jrn, world>>
    PROVE  /\ rs' \in RunState /\ rs'.phase = rs.phase /\ rs'.pending = rs.pending \ S
           /\ told' \in [Calls -> Seq(Status)] /\ Fits(rs)' /\ ToldIsTrue'
<1> USE DEF IInv
<1>0. /\ rs \in RunState /\ told \in [Calls -> Seq(Status)] /\ S \subseteq Calls
      /\ \A c \in S : jrn[c] \in Status /\ c \in rs.pending
      /\ UNCHANGED <<jrn, exe, applied, runs>>
  BY DEF TypeOK, RunState, Appliable, Status, world
<1>1. /\ rs' \in RunState /\ rs'.phase = rs.phase /\ rs'.pending = rs.pending \ S
      /\ rs'.results = [c \in Calls |-> IF c \in S THEN jrn[c] ELSE rs.results[c]]
  BY <1>0 DEF Recovered, RunState
<1>2. told' \in [Calls -> Seq(Status)]
  BY <1>0
<1>3. Fits(rs)'
  <2>1. ASSUME rs.phase # "CANCELLING" PROVE Accounts(rs)'
    <3>1. Accounts(rs)
      BY <2>1 DEF DurableAccounts, Fits
    <3> SUFFICES ASSUME NEW d \in Calls
                 PROVE  IF d \in rs'.pending THEN told'[d] = <<>>
                        ELSE Untouched(d)' \/ (rs'.results[d] # "none" /\ Len(told'[d]) = 1)
      BY DEF Accounts
    <3>2. CASE d \in S
      <4>1. told[d] = <<>> /\ told'[d] = Append(told[d], jrn[d]) /\ jrn[d] \in Status
        BY <1>0, <3>1, <3>2 DEF Accounts
      <4>2. told'[d] = <<jrn[d]>> /\ jrn[d] # "none"
        BY <4>1 DEF Status
      <4> QED
        BY <1>1, <3>2, <4>2
    <3>3. CASE d \notin S
      BY <1>0, <1>1, <3>1, <3>3 DEF Accounts, Untouched
    <3> QED
      BY <3>2, <3>3
  <2> QED
    BY <1>1, <2>1 DEF Fits, Terminal
<1>4. ToldIsTrue'
  <2> SUFFICES ASSUME NEW d \in Writes
               PROVE  /\ "succeeded" \in Reported(d)' => applied[d] = 1
                      /\ Reported(d)' \cap {"failed", "cancelled"} # {}
                             => applied[d] = 0 /\ exe[d] # "running"
    BY <1>0 DEF ToldIsTrue, Writes
  <2>1. /\ Truth(d, jrn[d]) /\ d \in Calls
        /\ "succeeded" \in Reported(d) => applied[d] = 1
        /\ Reported(d) \cap {"failed", "cancelled"} # {} => applied[d] = 0 /\ exe[d] # "running"
    BY DEF WriteFollows, WriteOf, ToldIsTrue, Writes
  <2>2. Reported(d)' \subseteq Reported(d) \cup {jrn[d]}
    <3>1. CASE d \in S
      <4>1. told'[d] = Append(told[d], jrn[d]) /\ told[d] \in Seq(Status)
        BY <1>0, <2>1, <3>1
      <4>2. \A i \in DOMAIN told'[d] : told'[d][i] = jrn[d] \/ (i \in DOMAIN told[d] /\ told'[d][i] = told[d][i])
        BY <4>1
      <4> QED
        BY <4>2 DEF Reported
    <3>2. CASE d \notin S
      BY <2>1, <3>2 DEF Reported
    <3> QED
      BY <3>1, <3>2
  <2> QED
    BY <2>1, <2>2 DEF Truth
<1> QED
  BY <1>1, <1>2, <1>3, <1>4

LEMMA RecoverKeeps ==
    ASSUME IInv, Recover, UNCHANGED kind
    PROVE  IInv'
<1> USE DEF IInv
<1>0. /\ pc = "down" /\ ~stale /\ at = Outside /\ TypeOK /\ rs \in RunState
      /\ UNCHANGED <<kind, jrn, exe, applied, runs, at, out, cancel, stale, crashes, faults>>
      /\ world' = world
  <2>1. pc = "down" /\ UNCHANGED <<kind, jrn, world, at, out, cancel, stale, crashes, faults>>
    BY Zenon DEF Recover
  <2> QED
    BY <2>1 DEF world, CopiesAgree, BatchPlace, InBatch, TypeOK
<1>1. CASE rs.phase \in Terminal /\ pc' = "ended" /\ UNCHANGED <<durable, local, inner, batch>>
  <2>1. UNCHANGED <<rs, told, local, inner, batch>> /\ pc' = "ended"
    BY <1>1 DEF durable
  <2>2. TypeOK' /\ CopiesAgree' /\ BatchPlace' /\ SerialFirst'
    BY <1>0, <2>1 DEF TypeOK, RunPC, CopiesAgree, InBatch, BatchPlace, SerialFirst, Serial, Reads
  <2>3. DurableAccounts'
    BY <1>0, <2>1 DEF DurableAccounts, Fits, Accounts, Untouched
  <2>4. WriteFollows' /\ ToldIsTrue'
    BY <1>0, <2>1, LeavingKeepsWrites, QuietKeepsTold
  <2> QED
    BY <2>2, <2>3, <2>4
<1>2. ASSUME NEW S, S = {c \in rs.pending : Appliable(c)}, rs.phase \notin Terminal, Resumable,
             rs' = Recovered(S), local' = Recovered(S), inner' = Recovered(S),
             told' = [c \in Calls |-> IF c \in S THEN Append(told[c], jrn[c]) ELSE told[c]],
             batch' = rs.pending \ S, pc' = "resume"
      PROVE  IInv'
  <2>1. /\ rs' \in RunState /\ rs'.phase = rs.phase /\ rs'.pending = rs.pending \ S
        /\ told' \in [Calls -> Seq(Status)] /\ Fits(rs)' /\ ToldIsTrue'
    BY <1>0, <1>2, RecoveredFits
  <2>2. TypeOK'
    BY <1>0, <1>2, <2>1 DEF TypeOK, RunPC, RunState
  <2>3. CopiesAgree'
    BY <1>0, <1>2, <2>1 DEF CopiesAgree, InBatch
  <2>4. DurableAccounts'
    BY <1>2, <2>1 DEF DurableAccounts
  <2>5. \A c \in batch' : c \in Writes' => jrn'[c] = "none"
    BY <1>0, <1>2 DEF Resumable, Replayable, Writes, Reads
  <2>6. BatchPlace' /\ SerialFirst'
    BY <1>0, <1>2, <2>2, <2>5 DEF BatchPlace, InBatch, SerialFirst, Outside, TypeOK
  <2>7. WriteFollows'
    BY <1>0, LeavingKeepsWrites
  <2> QED
    BY <2>1, <2>2, <2>3, <2>4, <2>6, <2>7
<1>3. CASE LET s == In(rs, "INTERRUPTED")
           IN  rs' = s /\ local' = s /\ inner' = s /\ pc' = "ended" /\ UNCHANGED <<told, batch>>
  <2>1. /\ rs' \in RunState /\ rs'.phase = "INTERRUPTED" /\ local' = rs' /\ inner' = rs'
        /\ pc' = "ended" /\ UNCHANGED <<told, batch>>
    BY <1>0, <1>3, InFields DEF Phase, Terminal
  <2>2. TypeOK' /\ CopiesAgree' /\ BatchPlace' /\ SerialFirst'
    BY <1>0, <2>1 DEF TypeOK, RunPC, CopiesAgree, InBatch, BatchPlace, SerialFirst, Serial, Reads
  <2>3. DurableAccounts'
    BY <2>1 DEF DurableAccounts, Fits, Terminal
  <2>4. WriteFollows' /\ ToldIsTrue'
    BY <1>0, <2>1, LeavingKeepsWrites, QuietKeepsTold
  <2> QED
    BY <2>2, <2>3, <2>4
<1> QED
  BY <1>1, <1>2, <1>3 DEF Recover

LEMMA ResumeKeeps ==
    ASSUME IInv, Resume, UNCHANGED kind
    PROVE  IInv'
<1> DEFINE s == In(inner, "CHECKING_POLICY")
<1> USE DEF IInv
<1>0. /\ pc = "resume" /\ ~stale /\ inner = rs /\ batch = rs.pending /\ at = Outside /\ TypeOK
      /\ rs \in RunState /\ \A c \in batch : c \in Writes => jrn[c] = "none"
      /\ UNCHANGED <<kind, jrn, exe, applied, runs, local, cancel, crashes>> /\ world' = world
  BY DEF Resume, world, CopiesAgree, BatchPlace, InBatch, TypeOK
<1>1. s \in RunState /\ s.phase = "CHECKING_POLICY" /\ Same(s, rs)
  BY <1>0, InFields DEF Phase, Same
<1>2. ASSUME inner.phase = "VALIDATING_CALLS" PROVE Fits(s)
  BY <1>0, <1>1, <1>2, OnlyPhase DEF DurableAccounts, Terminal
<1>3. CASE /\ inner.phase = "VALIDATING_CALLS" /\ Commit(s, told, TRUE) /\ inner' = s
           /\ UNCHANGED <<pc, frame>>
  <2>1. /\ rs' = s /\ told' = told /\ stale' = stale /\ faults' = faults /\ inner' = s
        /\ UNCHANGED <<pc, batch, at, out>>
    BY <1>3, CommitSucceeds DEF frame
  <2>2. TypeOK'
    BY <1>0, <1>1, <2>1 DEF TypeOK
  <2>3. CopiesAgree'
    BY <1>0, <1>1, <2>1 DEF CopiesAgree, InBatch, Same
  <2>4. DurableAccounts'
    BY <1>0, <1>1, <1>2, <1>3, <2>1, SuccessKeepsDurable DEF Terminal
  <2>5. BatchPlace' /\ SerialFirst'
    BY <1>0, <2>1 DEF BatchPlace, InBatch, Writes, SerialFirst, Serial, Reads
  <2>6. WriteFollows' /\ ToldIsTrue'
    BY <1>0, <2>1, LeavingKeepsWrites, QuietKeepsTold
  <2> QED
    BY <2>2, <2>3, <2>4, <2>5, <2>6
<1>4. CASE inner.phase = "VALIDATING_CALLS" /\ Commit(s, told, FALSE) /\ Raise("failing")
  <2>1. local' \in RunState
    BY <1>0 DEF TypeOK
  <2> QED
    BY <1>0, <1>1, <1>2, <1>4, <2>1, FailureKeeps DEF Raise, LeaveBatch, Nothing
<1>5. CASE /\ inner.phase \in ResumePhases /\ pc' = "replay"
           /\ at' = [c \in Calls |-> IF c \in batch THEN "queued" ELSE "out"]
           /\ UNCHANGED <<durable, stale, faults, inner, batch, out>>
  <2>1. /\ UNCHANGED <<rs, told, stale, faults, inner, batch, out>> /\ pc' = "replay"
        /\ batch \subseteq Calls
    BY <1>0, <1>5 DEF durable, TypeOK
  <2>2. TypeOK'
    BY <1>0, <1>5, <2>1 DEF TypeOK, RunPC, CallPC
  <2>3. CopiesAgree'
    BY <1>0, <1>5, <2>1 DEF CopiesAgree, InBatch, Same
  <2>4. DurableAccounts'
    BY <1>0, <1>5, <2>1 DEF DurableAccounts, Fits, Accounts, Untouched, ResumePhases, Terminal
  <2>5. BatchPlace'
    BY <1>0, <1>5, <2>1 DEF BatchPlace, InBatch, HasResult
  <2>6. SerialFirst'
    BY <1>5, <2>1 DEF SerialFirst
  <2>7. WriteFollows'
    BY <1>0, <1>5, <2>1 DEF WriteFollows, WriteOf, Truth, Writes
  <2>8. ToldIsTrue'
    BY <1>0, <2>1, QuietKeepsTold
  <2> QED
    BY <2>2, <2>3, <2>4, <2>5, <2>6, <2>7, <2>8
<1>6. CASE Raise("failing") /\ UNCHANGED <<durable, stale, faults>>
  BY <1>0, <1>6, RaisingKeeps
<1> QED
  BY <1>3, <1>4, <1>5, <1>6 DEF Resume

-----------------------------------------------------------------------------
(* The theorems.                                                            *)

LEMMA NextKeeps ==
    ASSUME IInv, [Next]_vars
    PROVE  IInv'
<1>1. CASE Progress /\ UNCHANGED kind
  <2>1. CASE Loop
    BY <1>1, <2>1, LoadKeeps, PlanKeeps, AcceptKeeps, CheckKeeps, SettleKeeps, EndBatchKeeps,
       RespondKeeps, CompleteKeeps, FailedKeeps, CancelledKeeps, LoopCheckpointKeeps, RecoverKeeps,
       ResumeKeeps DEF Loop
  <2>2. ASSUME NEW c \in Calls, Kernel(c) PROVE IInv'
    BY <1>1, <2>2, PrepareKeeps, JournalKeeps, ObserveStartKeeps, EventStartKeeps, AttemptKeeps,
       ReturnKeeps, TimeoutKeeps, FinalizeKeeps, ObserveResultKeeps, EventResultKeeps,
       CheckpointKeeps DEF Kernel
  <2> QED
    BY <1>1, <2>1, <2>2 DEF Progress
<1>2. CASE Environment /\ UNCHANGED kind
  BY <1>2, RaisesKeeps, CancelKeeps, KillKeeps, CrashKeeps, JournalUnavailableKeeps, ExpiredKeeps,
     EffectKeeps, StragglerEndsKeeps, SettleVaultKeeps DEF Environment
<1>3. CASE UNCHANGED vars
  <2>1. /\ UNCHANGED <<kind, rs, told, jrn, exe, applied, runs, pc, local, inner>>
        /\ UNCHANGED <<batch, at, out, cancel, stale, crashes, faults>>
    BY <1>3 DEF vars, durable, world, frame
  <2>2. TypeOK' /\ CopiesAgree'
    BY <2>1 DEF IInv, TypeOK, CopiesAgree, InBatch
  <2>3. DurableAccounts' /\ BatchPlace' /\ SerialFirst'
    BY <2>1 DEF IInv, DurableAccounts, Fits, Accounts, Untouched, BatchPlace, InBatch, HasResult,
       SerialFirst, Serial, Reads, Writes
  <2>4. WriteFollows' /\ ToldIsTrue'
    BY <2>1 DEF IInv, WriteFollows, WriteOf, Truth, Writes, ToldIsTrue, Reported
  <2> QED
    BY <2>2, <2>3, <2>4 DEF IInv
<1> QED
  BY <1>1, <1>2, <1>3 DEF Next

\* The invariant holds in every reachable state.
THEOREM Invariant == Spec => []IInv
<1>1. Init => IInv
  BY InitInv
<1>2. IInv /\ [Next]_vars => IInv'
  BY NextKeeps
<1> QED
  BY <1>1, <1>2, PTL DEF Spec

\* Every variable keeps its type.
THEOREM TypeCorrect == Spec => []TypeOK
<1>1. IInv => TypeOK
  BY DEF IInv
<1> QED
  BY <1>1, Invariant, PTL

\* However a Run is cancelled, times out, fails or crashes, no tool with side effects is
\* handed to its executor twice, and none takes effect twice.
THEOREM EffectsHappenOnce == Spec => []AtMostOnce
<1>1. IInv => AtMostOnce
  <2> SUFFICES ASSUME IInv, NEW c \in Writes PROVE runs[c] <= 1 /\ applied[c] <= 1
    BY DEF AtMostOnce
  <2>1. WriteOf(c) /\ runs[c] \in Nat /\ applied[c] \in Nat
    BY DEF IInv, WriteFollows, TypeOK, Writes
  <2> QED
    BY <2>1 DEF WriteOf
<1> QED
  BY <1>1, Invariant, PTL

\* What the event stream says of a write is so, and stays so.
THEOREM StreamIsTrue == Spec => []ToldIsTrue
<1>1. IInv => ToldIsTrue
  BY DEF IInv
<1> QED
  BY <1>1, Invariant, PTL

\* An effect in the world is never one that the journal denies or does not know.
THEOREM EffectsStayTraceable == Spec => []EffectsAreTraceable
<1>1. IInv => EffectsAreTraceable
  BY DEF IInv, WriteFollows, WriteOf, EffectsAreTraceable
<1> QED
  BY <1>1, Invariant, PTL

\* A Run that completed left no call it attempted without a result and its one event.
THEOREM CompletionAccounts == Spec => []CompletedAccountsForAll
<1>1. IInv => CompletedAccountsForAll
  BY DEF IInv, DurableAccounts, Fits, Accounts, Untouched, CompletedAccountsForAll
<1> QED
  BY <1>1, Invariant, PTL

-----------------------------------------------------------------------------
(* What a step may do to what is durable.                                   *)

\* A step that tells nothing new commits at most a RunState, and only while the Run's task
\* lives and its recorder knows the revisions.
Quiet ==
    /\ UNCHANGED <<told, applied>>
    /\ rs' # rs => ~stale /\ pc \notin {"ended", "down"}

LEMMA PhaseCommit ==
    ASSUME NEW s, Commit(s, told, TRUE) \/ Commit(s, told, FALSE)
    PROVE  told' = told /\ (rs' # rs => ~stale)
BY Zenon DEF Commit, durable

\* Only a result, an effect and a recovery do more.
LEMMA Steps ==
    ASSUME IInv, [Next]_vars
    PROVE  Quiet \/ Recover \/ \E c \in Calls : EventResult(c) \/ Effect(c)
<1>1. ASSUME Load \/ Plan \/ Accept \/ Check \/ Settle \/ EndBatch \/ Respond \/ Complete \/ Resume
      PROVE  Quiet
  <2>1. applied' = applied
    BY <1>1 DEF Load, Plan, Accept, Check, Settle, EndBatch, Respond, Complete, Resume, world
  <2>2. pc \notin {"ended", "down"}
    BY <1>1 DEF Load, Plan, Accept, Check, Settle, EndBatch, BatchDone, InBatch, Respond, Complete,
       Resume
  <2>3. \/ \E s : Commit(s, told, TRUE) \/ Commit(s, told, FALSE)
        \/ UNCHANGED durable
    BY <1>1 DEF Load, Plan, Accept, Check, Settle, EndBatch, Respond, Complete, Resume
  <2> QED
    BY <2>1, <2>2, <2>3, PhaseCommit DEF Quiet, durable
<1>2. ASSUME Failed \/ Cancelled PROVE Quiet
  <2>1. PICK p : HandlerCommit(p)
    BY <1>2 DEF Failed, Cancelled
  <2>2. \/ \E s : Commit(s, told, TRUE) \/ Commit(s, told, FALSE)
        \/ UNCHANGED durable
    BY <2>1 DEF HandlerCommit
  <2>3. applied' = applied /\ pc \notin {"ended", "down"}
    BY <1>2 DEF Failed, Cancelled, world
  <2> QED
    BY <2>2, <2>3, PhaseCommit DEF Quiet, durable
<1>3. ASSUME LoopCheckpoint \/ Raises \/ Cancel \/ Kill \/ Crash PROVE Quiet
  BY <1>3 DEF LoopCheckpoint, Raises, Cancel, Kill, Crash, Quiet, durable, world
<1>4. ASSUME NEW c \in Calls,
             \/ Prepare(c) \/ Checkpoint(c) \/ Journal(c) \/ JournalUnavailable(c) \/ Attempt(c)
             \/ Expired(c) \/ Return(c) \/ Timeout(c) \/ Finalize(c) \/ StragglerEnds(c)
             \/ SettleVault(c)
      PROVE  Quiet
  BY <1>4 DEF Prepare, Checkpoint, Journal, JournalUnavailable, Attempt, Expired, Return, Timeout,
     Finalize, StragglerEnds, SettleVault, Quiet, durable, world
<1>5. ASSUME NEW c \in Calls, ObserveStart(c) \/ EventStart(c) \/ ObserveResult(c) PROVE Quiet
  <2>1. applied' = applied /\ at[c] \in {"journaled", "starting", "record"}
    BY <1>5 DEF ObserveStart, EventStart, ObserveResult, world
  <2>2. pc \notin {"ended", "down"}
    BY <1>5, <2>1, CallInHand DEF InBatch
  <2>3. \/ \E s : Commit(s, told, TRUE) \/ Commit(s, told, FALSE)
        \/ UNCHANGED durable
    BY <1>5 DEF ObserveStart, EventStart, ObserveResult
  <2> QED
    BY <2>1, <2>2, <2>3, PhaseCommit DEF Quiet, durable
<1>6. CASE UNCHANGED vars
  BY <1>6 DEF vars, durable, world, Quiet
<1>7. CASE Loop
  BY <1>1, <1>2, <1>3, <1>7 DEF Loop
<1>8. ASSUME NEW c \in Calls, Kernel(c)
      PROVE  Quiet \/ EventResult(c)
  BY <1>4, <1>5, <1>8 DEF Kernel
<1>9. CASE Environment
  BY <1>3, <1>4, <1>9 DEF Environment
<1> QED
  BY <1>6, <1>7, <1>8, <1>9 DEF Next, Progress

\* A call whose result is being recorded, and one that recovery settles, was not reported
\* before, unless the Run was being cancelled.
LEMMA NotReportedBefore ==
    ASSUME IInv, NEW c \in Calls, told[c] # <<>>, told'[c] # told[c],
           Recover \/ \E e \in Calls : EventResult(e)
    PROVE  pc = "down" /\ rs.phase = "CANCELLING"
<1>1. ASSUME NEW e \in Calls, EventResult(e) PROVE FALSE
  <2>1. at[e] = "recording" /\ told' \in {told, [told EXCEPT ![e] = Append(@, out[e])]}
    BY <1>1 DEF EventResult, Commit, durable
  <2>2. told[e] = <<>>
    BY <2>1, CallInHand
  <2> QED
    BY <2>1, <2>2 DEF IInv, TypeOK
<1>2. CASE Recover
  <2>1. pc = "down" /\ c \in rs.pending /\ rs.phase \notin Terminal
    BY <1>2 DEF Recover, durable
  <2>2. CASE rs.phase # "CANCELLING"
    BY <2>1, <2>2 DEF IInv, DurableAccounts, Fits, Accounts
  <2> QED
    BY <2>1, <2>2
<1> QED
  BY <1>1, <1>2

\* One result per call in the event stream, unless its Run was being cancelled, and no
\* commit after the terminal one.
THEOREM NothingFollowsTheEnd == Spec => StreamIsFinal
<1> DEFINE Final ==
        /\ \A c \in Calls : told[c] # <<>> /\ told'[c] # told[c]
             => pc = "down" /\ rs.phase = "CANCELLING"
        /\ rs.phase \in Terminal => UNCHANGED durable
<1>1. IInv /\ [Next]_vars => Final
  <2> SUFFICES ASSUME IInv, [Next]_vars PROVE Final
    OBVIOUS
  <2>1. CASE Quiet
    BY <2>1 DEF Quiet, IInv, DurableAccounts, durable
  <2>2. ASSUME NEW e \in Calls, Effect(e) PROVE Final
    BY <2>2 DEF Effect, durable
  <2>3. CASE Recover
    <3>1. rs.phase \in Terminal => UNCHANGED durable
      BY <2>3 DEF Recover
    <3> QED
      BY <2>3, <3>1, NotReportedBefore
  <2>4. ASSUME NEW e \in Calls, EventResult(e) PROVE Final
    <3>1. rs.phase \notin Terminal
      <4>1. at[e] = "recording"
        BY <2>4 DEF EventResult
      <4> QED
        BY <4>1, CallInHand
    <3> QED
      BY <2>4, <3>1, NotReportedBefore
  <2> QED
    BY <2>1, <2>2, <2>3, <2>4, Steps
<1>2. Final => [Final]_vars
  OBVIOUS
<1> QED
  BY <1>1, <1>2, Invariant, PTL DEF Spec, StreamIsFinal

-----------------------------------------------------------------------------
(* Each write as an effect that is decided once.                            *)

\* The steps of EffectDecision for the one call c.
LEMMA DecisionStep ==
    ASSUME NEW c,
           \/ /\ DecidedOf(c) = "open" /\ DecidedOf(c)' \in {"commit", "abort"}
              /\ ReportedOf(c)' = ReportedOf(c)
           \/ /\ ReportedOf(c) = "none" /\ ReportedOf(c)' = "success"
              /\ DecidedOf(c) = "commit" /\ DecidedOf(c)' = "commit"
           \/ /\ ReportedOf(c) = "none" /\ ReportedOf(c)' = "failed"
              /\ DecidedOf(c) \in {"open", "abort"} /\ DecidedOf(c)' = "abort"
           \/ /\ ReportedOf(c) = "none" /\ ReportedOf(c)' = "unknown"
              /\ DecidedOf(c)' = DecidedOf(c)
    PROVE  Decision(c)!Next
BY DEF Decision!Next, Decision!Decide, Decision!ReportSuccess, Decision!ReportFailure,
   Decision!ReportUnknown

\* The first report of a write, which is the truth.
LEMMA FirstReport ==
    ASSUME NEW c, NEW r \in Status, told[c] = <<>>, told'[c] = <<r>>, Truth(c, r),
           applied[c] \in Nat, applied'[c] = applied[c]
    PROVE  Decision(c)!Next
<1>1. Reported(c) = {} /\ Reported(c)' = {r} /\ Head(told'[c]) = r /\ told'[c] # <<>>
  BY DEF Reported
<1>2. ReportedOf(c) = "none" /\ DecidedOf(c) = IF applied[c] > 0 THEN "commit" ELSE "open"
  <2>1. Reported(c) \cap {"failed", "cancelled"} = {}
    BY <1>1
  <2>2. ReportedOf(c) = "none"
    BY DEF ReportedOf
  <2> QED
    BY <2>1, <2>2 DEF DecidedOf
<1>3. CASE r = "succeeded"
  <2>1. applied[c] > 0 /\ applied'[c] > 0
    BY <1>3 DEF Truth
  <2>2. ReportedOf(c)' = "success" /\ DecidedOf(c)' = "commit" /\ DecidedOf(c) = "commit"
    BY <1>1, <1>2, <1>3, <2>1 DEF ReportedOf, DecidedOf
  <2> QED
    BY <1>2, <2>2, DecisionStep
<1>4. CASE r \in {"failed", "cancelled"}
  <2>1. applied[c] = 0 /\ applied'[c] = 0
    BY <1>4 DEF Truth
  <2>2. ReportedOf(c)' = "failed"
    BY <1>1, <1>4 DEF ReportedOf
  <2>3. Reported(c)' \cap {"failed", "cancelled"} # {}
    BY <1>1, <1>4
  <2>4. DecidedOf(c)' = "abort" /\ DecidedOf(c) = "open"
    BY <1>2, <2>1, <2>3 DEF DecidedOf
  <2> QED
    BY <1>2, <2>2, <2>4, DecisionStep
<1>5. CASE r \in {"partial", "unknown"}
  <2>1. ReportedOf(c)' = "unknown" /\ DecidedOf(c)' = DecidedOf(c)
    BY <1>1, <1>5 DEF ReportedOf, DecidedOf
  <2> QED
    BY <1>2, <2>1, DecisionStep
<1> QED
  BY <1>3, <1>4, <1>5 DEF Status

\* What recovery says once more of a write that was reported already.
LEMMA LaterReport ==
    ASSUME NEW c, NEW r \in Status, told[c] # <<>>, told[c] \in Seq(Status),
           told'[c] = Append(told[c], r), Truth(c, r),
           applied[c] \in Nat, applied'[c] = applied[c]
    PROVE  UNCHANGED <<DecidedOf(c), ReportedOf(c)>> \/ Decision(c)!Next
<1>1. ReportedOf(c)' = ReportedOf(c)
  <2>1. Head(told'[c]) = Head(told[c]) /\ told'[c] # <<>>
    OBVIOUS
  <2> QED
    BY <2>1 DEF ReportedOf
<1>2. Reported(c)' = Reported(c) \cup {r}
  <2>1. \A i : i \in DOMAIN told'[c] <=> i \in DOMAIN told[c] \/ i = Len(told[c]) + 1
    OBVIOUS
  <2>2. /\ \A i \in DOMAIN told[c] : told'[c][i] = told[c][i]
        /\ told'[c][Len(told[c]) + 1] = r
    OBVIOUS
  <2> QED
    BY <2>1, <2>2 DEF Reported
<1>3. CASE applied[c] > 0 \/ r \notin {"failed", "cancelled"}
  <2>1. DecidedOf(c)' = DecidedOf(c)
    BY <1>2, <1>3 DEF DecidedOf
  <2> QED
    BY <1>1, <2>1
<1>4. CASE ~(applied[c] > 0) /\ r \in {"failed", "cancelled"}
  <2>1. DecidedOf(c)' = "abort" /\ DecidedOf(c) \in {"open", "abort"}
    BY <1>2, <1>4 DEF DecidedOf
  <2> QED
    BY <1>1, <2>1, DecisionStep
<1> QED
  BY <1>3, <1>4

\* Every write is decided once, and reported as it was decided.
THEOREM WritesImplementDecision == Spec => EffectsAreDecidedOnce
<1> DEFINE Once == \A c \in Writes : UNCHANGED <<DecidedOf(c), ReportedOf(c)>> \/ Decision(c)!Next
<1>1. IInv /\ [Next]_vars => Once
  <2> SUFFICES ASSUME IInv, [Next]_vars, NEW c \in Writes
               PROVE  UNCHANGED <<DecidedOf(c), ReportedOf(c)>> \/ Decision(c)!Next
    OBVIOUS
  <2>0. /\ c \in Calls /\ WriteOf(c) /\ told \in [Calls -> Seq(Status)] /\ applied[c] \in Nat
        /\ applied \in [Calls -> Nat]
        /\ "succeeded" \in Reported(c) => applied[c] = 1
        /\ Reported(c) \cap {"failed", "cancelled"} # {} => exe[c] # "running"
    BY DEF IInv, TypeOK, WriteFollows, ToldIsTrue, Writes
  <2>1. ASSUME told'[c] = told[c], applied'[c] = applied[c]
        PROVE  UNCHANGED <<DecidedOf(c), ReportedOf(c)>>
    BY <2>1 DEF DecidedOf, ReportedOf, Reported
  <2>2. ASSUME NEW e \in Calls, Effect(e)
        PROVE  UNCHANGED <<DecidedOf(c), ReportedOf(c)>> \/ Decision(c)!Next
    <3>1. told' = told /\ applied' = [applied EXCEPT ![e] = @ + 1] /\ exe[e] = "running"
      BY <2>2 DEF Effect, durable
    <3>2. CASE e # c
      BY <2>0, <2>1, <3>1, <3>2
    <3>3. CASE e = c
      <4>1. applied[c] = 0 /\ applied'[c] = 1 /\ Reported(c) \cap {"failed", "cancelled"} = {}
        BY <2>0, <3>1, <3>3 DEF WriteOf
      <4>2. DecidedOf(c) = "open" /\ DecidedOf(c)' = "commit"
        BY <3>1, <4>1 DEF DecidedOf, Reported
      <4>3. ReportedOf(c)' = ReportedOf(c)
        BY <3>1 DEF ReportedOf
      <4> QED
        BY <4>2, <4>3, DecisionStep
    <3> QED
      BY <3>2, <3>3
  <2>3. ASSUME NEW e \in Calls, EventResult(e)
        PROVE  UNCHANGED <<DecidedOf(c), ReportedOf(c)>> \/ Decision(c)!Next
    <3>1. /\ at[e] = "recording" /\ applied' = applied
          /\ told' \in {told, [told EXCEPT ![e] = Append(@, out[e])]}
      BY <2>3 DEF EventResult, Commit, durable, world
    <3>2. told[e] = <<>> /\ out[e] \in Status
      BY <3>1, CallInHand DEF IInv, BatchPlace, HasResult
    <3>3. CASE e # c \/ told' = told
      BY <2>0, <2>1, <3>1, <3>3
    <3>4. CASE e = c /\ told' = [told EXCEPT ![e] = Append(@, out[e])]
      <4>1. told'[c] = <<out[c]>> /\ Truth(c, out[c])
        BY <2>0, <3>1, <3>2, <3>4 DEF WriteOf
      <4> QED
        BY <2>0, <3>1, <3>2, <3>4, <4>1, FirstReport
    <3> QED
      BY <3>1, <3>3, <3>4
  <2>4. ASSUME Recover
        PROVE  UNCHANGED <<DecidedOf(c), ReportedOf(c)>> \/ Decision(c)!Next
    <3>1. /\ applied' = applied
          /\ \/ told'[c] = told[c]
             \/ Appliable(c) /\ told'[c] = Append(told[c], jrn[c])
      BY <2>0, <2>4 DEF Recover, durable, world
    <3>2. CASE told'[c] = told[c]
      BY <2>1, <3>1, <3>2
    <3>3. CASE Appliable(c) /\ told'[c] = Append(told[c], jrn[c])
      <4>1. jrn[c] \in Status /\ Truth(c, jrn[c]) /\ told[c] \in Seq(Status)
        BY <2>0, <3>3 DEF Appliable, Status, WriteOf
      <4>2. CASE told[c] = <<>>
        <5>1. told'[c] = <<jrn[c]>>
          BY <3>3, <4>1, <4>2
        <5> QED
          BY <2>0, <3>1, <4>1, <4>2, <5>1, FirstReport
      <4>3. CASE told[c] # <<>>
        BY <2>0, <3>1, <3>3, <4>1, <4>3, LaterReport
      <4> QED
        BY <4>2, <4>3
    <3> QED
      BY <3>1, <3>2, <3>3
  <2>5. CASE Quiet
    BY <2>1, <2>5 DEF Quiet
  <2> QED
    BY <2>2, <2>3, <2>4, <2>5, Steps
<1>2. Once => [Once]_vars
  OBVIOUS
<1> QED
  BY <1>1, <1>2, Invariant, PTL DEF Spec, EffectsAreDecidedOnce
=============================================================================
