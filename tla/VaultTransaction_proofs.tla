------------------------ MODULE VaultTransaction_proofs ------------------------
(***************************************************************************)
(* Theorems of VaultTransaction, for any calls and any bounds.              *)
(*                                                                         *)
(* First, every step preserves the inductive invariant IInv: one lemma per  *)
(* action, one step per conjunct of IInv; the steps that need an argument   *)
(* (taking the handles, retiring a manifest, edits by the user) have lemmas *)
(* of their own, before.  The theorems that follow from IInv come next.     *)
(*                                                                         *)
(* Then two more invariants, each beside IInv: TraceInv says where the      *)
(* content of a call can be, for FailureLeavesNoTrace and SuccessIsFinal;   *)
(* CalmInv says where its files are while nothing goes wrong, for           *)
(* ManualOnlyWithCause.                                                     *)
(***************************************************************************)
EXTENDS VaultTransaction, TLAPS

\* What a call writes is a file, and tells that call from every other.
LEMMA NewIsFile ==
    \A c \in Calls : /\ New(c) \in File /\ New(c) # Absent
                     /\ \A d \in Calls : New(c) = New(d) => c = d
BY AbsentAssumption DEF New, File, Stamp

\* A file cut short is a file, and tells its call from every other; it is nobody's content.
LEMMA TornIsFile ==
    \A c \in Calls : /\ Torn(c) \in File /\ Torn(c) # Absent /\ Torn(c).hash = Partial
                     /\ \A d \in Calls : /\ Torn(c) # New(d)
                                         /\ Torn(c) = Torn(d) => c = d
BY ConstantsAssumption, AbsentAssumption DEF New, Torn, File, Stamp

\* What the user saves is never taken for the content of a call.
LEMMA AlienIsNotNew ==
    ASSUME NEW f \in File, f.hash = Alien \/ f.id = Alien
    PROVE  f # Absent /\ \A c \in Calls : f # New(c)
BY ConstantsAssumption, AbsentAssumption DEF New

\* A leased file is out of everybody else's reach.
LEMMA HeldIsHeld ==
    ASSUME NEW c \in Calls, NEW f \in lease[c] PROVE f \in HeldFiles
BY DEF HeldFiles

\* When the target can be opened no executor stands on it: none has published
\* and not yet let go, none holds the original it is about to claim.
LEMMA ReadableIsFree ==
    ASSUME IInv, Readable, NEW c \in Calls
    PROVE  xpc[c] \notin HasTarget /\ ~(xpc[c] = "locked" /\ before[c] # Absent)
BY HeldIsHeld DEF IInv, ContentPlace, LeasePlace, Readable, HasTarget, Leased

\* A save by the user leaves a mark of the user's on the target.
LEMMA SavedFile ==
    ASSUME IInv, UserSave
    PROVE  target' \in File /\ (target'.hash = Alien \/ target'.id = Alien)
BY AbsentAssumption DEF IInv, TypeOK, UserSave, Slot, File, Stamp

\* What saving or deleting the target can change, and when it can happen.
LEMMA TargetEditEffect ==
    ASSUME IInv, UserSave \/ UserDelete
    PROVE  /\ UNCHANGED <<bak, tmp, rbk, man, jrn, before, caller, xpc, ctl, lease, res, mode, rq, rcur, rat, crashes, faults>>
           /\ externals' \in 0..MaxExternal
           /\ target' \in Slot /\ \A c \in Calls : target' # New(c)
           /\ \A c \in Calls : /\ xpc[c] \notin HasTarget
                               /\ ~(xpc[c] = "locked" /\ before[c] # Absent)
<1>1. /\ UNCHANGED <<bak, tmp, rbk, man, jrn, before, caller, xpc, ctl, lease, res, mode, rq, rcur, rat, crashes, faults>>
      /\ externals' \in 0..MaxExternal /\ Readable
  BY ConstantsAssumption DEF IInv, TypeOK, UserSave, UserDelete, Edit, durable, recv
<1>2. target' \in Slot /\ \A c \in Calls : target' # New(c)
  <2>1. CASE UserSave BY <2>1, SavedFile, AlienIsNotNew DEF Slot
  <2>2. CASE UserDelete BY <2>2, NewIsFile DEF UserDelete, Slot
  <2> QED BY <2>1, <2>2
<1> QED BY <1>1, <1>2, ReadableIsFree

\* The user's edits of the target preserve the invariant.
LEMMA TargetEditPreserves == ASSUME IInv, UserSave \/ UserDelete PROVE IInv'
<1> USE TargetEditEffect DEF IInv
<1>1. TypeOK'
  BY DEF TypeOK
<1>2. ManifestFollows'
  BY DEF ManifestFollows
<1>3. JournalFollows'
  BY DEF JournalFollows
<1>4. CallerFollows'
  BY DEF CallerFollows, InternalsAbsent
<1>5. ContentPlace'
  BY DEF ContentPlace
<1>6. LeasePlace'
  BY DEF LeasePlace
<1>7. RecoveryPlace'
  BY DEF RecoveryPlace, InternalsAbsent
<1>8. LeftoversAreAccounted'
  BY DEF LeftoversAreAccounted, InternalsAbsent
<1> QED BY <1>1, <1>2, <1>3, <1>4, <1>5, <1>6, <1>7, <1>8

\* What meddling makes of a hidden file.
LEMMA MeddledFile ==
    ASSUME NEW s \in Slot, NEW f \in Meddled(s)
    PROVE  /\ s \notin HeldFiles /\ s # Absent
           /\ f \in Slot /\ \A c \in Calls : f # New(c)
<1>1. s \in File \ HeldFiles
  BY DEF Meddled, Slot
<1>2. CASE f = Absent
  BY <1>1, <1>2, AbsentAssumption, NewIsFile DEF Slot
<1>3. CASE f = [hash |-> Alien, id |-> s.id]
  <2>1. f \in File /\ f.hash = Alien
    BY <1>1, <1>3 DEF File, Stamp
  <2> QED BY <1>1, <2>1, AlienIsNotNew, AbsentAssumption DEF Slot
<1> QED BY <1>1, <1>2, <1>3 DEF Meddled

\* What meddling with the hidden files can change.
LEMMA UserMeddleEffect ==
    ASSUME IInv, UserMeddle
    PROVE  /\ UNCHANGED <<target, man, jrn, before, caller, xpc, ctl, lease, res, mode, rq, rcur, rat, crashes, faults>>
           /\ externals' \in 0..MaxExternal
           /\ bak' \in [Calls -> Slot] /\ tmp' \in [Calls -> Slot] /\ rbk' \in [Calls -> Slot]
           /\ \A c \in Calls :
                /\ bak'[c] = bak[c] \/ (bak[c] # Absent /\ \A e \in Calls : bak'[c] # New(e))
                /\ tmp'[c] = tmp[c] \/ (tmp[c] # Absent /\ tmp[c] \notin HeldFiles)
                /\ rbk'[c] = rbk[c] \/ (rbk[c] # Absent /\ rbk[c] \notin HeldFiles)
<1>1. /\ UNCHANGED <<target, man, jrn, before, caller, xpc, ctl, lease, res, mode, rq, rcur, rat, crashes, faults>>
      /\ externals' \in 0..MaxExternal
      /\ bak \in [Calls -> Slot] /\ tmp \in [Calls -> Slot] /\ rbk \in [Calls -> Slot]
  BY ConstantsAssumption DEF IInv, TypeOK, UserMeddle, Edit, durable, recv
<1>2. PICK d \in Calls :
        \/ \E s \in Meddled(bak[d]) : bak' = [bak EXCEPT ![d] = s] /\ UNCHANGED <<tmp, rbk>>
        \/ \E s \in Meddled(tmp[d]) : tmp' = [tmp EXCEPT ![d] = s] /\ UNCHANGED <<bak, rbk>>
        \/ \E s \in Meddled(rbk[d]) : rbk' = [rbk EXCEPT ![d] = s] /\ UNCHANGED <<bak, tmp>>
  BY DEF UserMeddle
<1>3. CASE \E s \in Meddled(bak[d]) : bak' = [bak EXCEPT ![d] = s] /\ UNCHANGED <<tmp, rbk>>
  BY <1>1, <1>3, MeddledFile
<1>4. CASE \E s \in Meddled(tmp[d]) : tmp' = [tmp EXCEPT ![d] = s] /\ UNCHANGED <<bak, rbk>>
  BY <1>1, <1>4, MeddledFile
<1>5. CASE \E s \in Meddled(rbk[d]) : rbk' = [rbk EXCEPT ![d] = s] /\ UNCHANGED <<bak, tmp>>
  BY <1>1, <1>5, MeddledFile
<1> QED BY <1>2, <1>3, <1>4, <1>5

\* Meddling with the hidden files preserves the invariant: the files an
\* executor or recovery relies on are under its handles.
LEMMA UserMeddlePreserves == ASSUME IInv, UserMeddle PROVE IInv'
<1> USE UserMeddleEffect DEF IInv
<1>0. \A c \in Calls : InternalsAbsent(c) => InternalsAbsent(c)'
  BY DEF InternalsAbsent
<1>1. TypeOK'
  BY DEF TypeOK
<1>2. ManifestFollows'
  BY DEF ManifestFollows
<1>3. JournalFollows'
  BY DEF JournalFollows
<1>4. CallerFollows'
  BY <1>0 DEF CallerFollows
<1>5. ContentPlace'
  <2>1. \A c \in Calls : xpc[c] \in Leased => New(c) \in HeldFiles
    BY HeldIsHeld DEF LeasePlace
  <2>2. \A c \in Calls : tmp'[c] = tmp[c] \/ xpc[c] \notin Leased
    BY <2>1, NewIsFile DEF ContentPlace, Leased, HasTarget
  <2>3. \A c \in Calls : rbk'[c] = rbk[c] \/ xpc[c] \notin Leased \cup {"temped", "staged"}
    BY <2>1, NewIsFile DEF ContentPlace, Leased, HasTarget
  <2> QED BY <2>2, <2>3 DEF ContentPlace, Leased, HasTarget
<1>6. LeasePlace'
  BY DEF LeasePlace
<1>7. RecoveryPlace'
  BY <1>0 DEF RecoveryPlace, TypeOK
<1>8. LeftoversAreAccounted'
  BY <1>0 DEF LeftoversAreAccounted
<1> QED BY <1>1, <1>2, <1>3, <1>4, <1>5, <1>6, <1>7, <1>8

\* Taking the handles: no other call's content is among them.
LEMMA LockContent == ASSUME NEW c \in Calls, IInv, Lock(c) PROVE ContentPlace'
<1> USE DEF IInv
<1>0. UNCHANGED <<target, bak, tmp, rbk, jrn>>
  BY DEF Lock, disk, durable
<1>1. /\ xpc[c] = "staged" /\ xpc'[c] \in {"locked", "sweep"}
      /\ \A d \in Calls : d # c => xpc'[d] = xpc[d]
  BY DEF Lock, Step, TypeOK
<1>2. CASE lease' = lease
  <2>1. xpc'[c] = "sweep"
    BY SMTT(30), <1>1, <1>2, NewIsFile DEF Lock, Step, Lockable, TypeOK, HandlesOf, LeasePlace, Leased,
       HasTarget
  <2> QED BY <1>0, <1>1, <1>2, <2>1 DEF ContentPlace, Active, HasTarget, ExecPC
<1>3. CASE Lockable(c) /\ lease' = [lease EXCEPT ![c] = HandlesOf(c)]
  <2>1. \A d \in Calls : xpc[d] \notin HasTarget
    BY <1>3, ReadableIsFree DEF Lockable, Unchanged
  <2>2. ASSUME NEW d \in Calls, d # c, jrn[d] = "none" \/ xpc[d] \in Active
        PROVE  New(d) \notin lease'[c]
    BY <1>3, <2>1, <2>2, NewIsFile DEF ContentPlace, Lockable, HandlesOf, TypeOK
  <2>3. \A d, e \in Calls : (d # e /\ (jrn[d] = "none" \/ xpc[d] \in Active)) => New(d) \notin lease'[e]
    BY <1>3, <2>2 DEF ContentPlace, TypeOK
  <2>4. xpc[c] \in Active /\ xpc'[c] \in Active /\ xpc'[c] \notin HasTarget
    BY <1>1 DEF Active, HasTarget, ExecPC
  <2>5. \A d \in Calls : (jrn'[d] = "none" \/ xpc'[d] \in Active) <=> (jrn[d] = "none" \/ xpc[d] \in Active)
    BY <1>0, <1>1, <2>4
  <2>6. \A d \in Calls : xpc'[d] \in HasTarget <=> xpc[d] \in HasTarget
    BY <1>1, <2>1, <2>4
  <2>7. tmp[c] = New(c) /\ rbk[c] = Absent
    BY <1>1, <1>3 DEF Lockable, ContentPlace
  <2> QED BY <1>0, <1>1, <2>1, <2>3, <2>4, <2>5, <2>6, <2>7 DEF ContentPlace
<1> QED BY <1>2, <1>3 DEF Lock

\* Taking the handles: they are not among another executor's.
LEMMA LockLease == ASSUME NEW c \in Calls, IInv, Lock(c) PROVE LeasePlace'
<1> USE DEF IInv
<1>0. UNCHANGED <<target, before>>
  BY DEF Lock, disk
<1>1. /\ xpc[c] = "staged" /\ xpc'[c] \in {"locked", "sweep"}
      /\ \A d \in Calls : d # c => xpc'[d] = xpc[d]
  BY DEF Lock, Step, TypeOK
<1>2. CASE lease' = lease /\ xpc'[c] = "sweep"
  BY <1>0, <1>1, <1>2 DEF LeasePlace, Leased, HasTarget
<1>3. CASE Lockable(c) /\ lease' = [lease EXCEPT ![c] = HandlesOf(c)]
  <2>1. lease'[c] = HandlesOf(c) /\ \A d \in Calls : d # c => lease'[d] = lease[d]
    BY <1>3 DEF TypeOK
  <2>2. New(c) \in HandlesOf(c) /\ (before[c] # Absent => target \in HandlesOf(c))
    BY <1>3, NewIsFile DEF HandlesOf, Lockable, Unchanged, SameContent
  <2>3. \A d \in Calls : d # c => HandlesOf(c) \cap lease[d] = {}
    BY <1>1, <1>3, HeldIsHeld DEF HandlesOf, Lockable, Unchanged, Readable, ContentPlace, Active,
       ExecPC
  <2>4. xpc'[c] = "locked"
    BY <1>1, <1>3, <2>1, <2>2 DEF Lock, Step, TypeOK, LeasePlace, Leased, HasTarget
  <2> QED BY <1>0, <1>1, <2>1, <2>2, <2>3, <2>4 DEF LeasePlace, Leased
<1> QED BY <1>2, <1>3 DEF Lock, Step, TypeOK

\* A manifest found terminal and clean has no executor at work: a straggler
\* would hold the target or keep it from matching.
LEMMA RetiredIsQuiet ==
    ASSUME NEW c \in Calls, IInv,
           \/ man[c] = "COMMITTED" /\ CleanCommitted(c)
           \/ man[c] = "ROLLED_BACK" /\ CleanRolledBack(c)
    PROVE  xpc[c] \in {"none", "finish"} /\ InternalsAbsent(c)
<1> USE DEF IInv
<1>1. CASE man[c] = "COMMITTED" /\ CleanCommitted(c)
  <2>1. target = New(c) /\ xpc[c] \notin HasTarget
    BY <1>1, ReadableIsFree DEF CleanCommitted
  <2> QED BY <1>1, <2>1 DEF ContentPlace, CleanCommitted, Active, HasTarget, TypeOK
<1>2. CASE man[c] = "ROLLED_BACK" /\ CleanRolledBack(c)
  BY <1>2 DEF ManifestFollows, TypeOK, ExecPC, CleanRolledBack
<1> QED BY <1>1, <1>2

\* What retirement decides.
LEMMA RetireEffect ==
    ASSUME NEW c \in Calls, IInv, Retire(c)
    PROVE  /\ UNCHANGED <<target, bak, tmp, rbk, man, before, xpc, ctl, lease, res>>
           /\ UNCHANGED <<mode, rq, rcur, rat, crashes, faults, externals>>
           /\ \A d \in Calls : d # c => jrn'[d] = jrn[d] /\ caller'[d] = caller[d]
           /\ \/ caller'[c] = "done" /\ jrn'[c] = jrn[c]
              \/ /\ caller'[c] \in {"retire_delete", "abort_delete"}
                 /\ xpc[c] \in {"none", "finish"} /\ InternalsAbsent(c)
                 /\ \/ man[c] = "COMMITTED" /\ jrn'[c] = "success"
                    \/ man[c] = "ROLLED_BACK" /\ jrn'[c] = "failed"
<1> USE DEF IInv, TypeOK
<1>1. /\ UNCHANGED <<target, bak, tmp, rbk, man, before, xpc, ctl, lease, res>>
      /\ UNCHANGED <<mode, rq, rcur, rat, crashes, faults, externals>>
  BY DEF Retire, disk, recv, counts
<1>2. \A d \in Calls : d # c => jrn'[d] = jrn[d] /\ caller'[d] = caller[d]
  BY DEF Retire
<1>3. \/ caller'[c] = "done" /\ jrn'[c] = jrn[c]
      \/ /\ caller'[c] \in {"retire_delete", "abort_delete"}
         /\ \/ man[c] = "COMMITTED" /\ CleanCommitted(c) /\ jrn'[c] = "success"
            \/ man[c] = "ROLLED_BACK" /\ CleanRolledBack(c) /\ jrn'[c] = "failed"
  BY DEF Retire
<1> QED BY <1>1, <1>2, <1>3, RetiredIsQuiet

\* Retirement completes the journal as the manifest says.
LEMMA RetireJournal == ASSUME NEW c \in Calls, IInv, Retire(c) PROVE JournalFollows'
BY RetireEffect DEF IInv, JournalFollows, Active

\* Only an agreed, clean manifest goes on to be deleted.
LEMMA RetireCaller == ASSUME NEW c \in Calls, IInv, Retire(c) PROVE CallerFollows'
<1> USE RetireEffect DEF IInv
<1>1. UNCHANGED <<bak, tmp, rbk, man, xpc, res>>
  OBVIOUS
<1>2. caller[c] \in {"retire", "abort"}
  BY DEF Retire
<1>3. \A d \in Calls : InternalsAbsent(d)' = InternalsAbsent(d)
  BY <1>1 DEF InternalsAbsent
<1> QED BY <1>1, <1>2, <1>3 DEF CallerFollows

-----------------------------------------------------------------------------
(* The steps of the Worker, action by action.                              *)

\* Taking the plan's snapshot disturbs nothing.
LEMMA SnapshotPreserves == ASSUME NEW c \in Calls, IInv, Snapshot(c) PROVE IInv'
<1> USE ConstantsAssumption, AbsentAssumption, NewIsFile DEF IInv, TypeOK, Snapshot, Running,
        Readable, disk, durable, recv, counts
<1>1. TypeOK'
  BY DEF Slot, ManState, JrnState, CallerPC, ExecPC, Result, RecPC
<1>2. ManifestFollows'
  BY DEF ManifestFollows
<1>3. JournalFollows'
  BY DEF JournalFollows, Active, ExecPC
<1>4. CallerFollows'
  BY DEF CallerFollows, Active, InternalsAbsent, ExecPC
<1>5. ContentPlace'
  BY DEF ContentPlace, Active, HasTarget, ExecPC
<1>6. LeasePlace'
  BY DEF JournalFollows, CallerFollows, LeasePlace, Active, InternalsAbsent, Leased, ExecPC,
         HasTarget
<1>7. RecoveryPlace'
  BY DEF RecoveryPlace, InternalsAbsent
<1>8. LeftoversAreAccounted'
  BY DEF LeftoversAreAccounted, InternalsAbsent
<1> QED BY <1>1, <1>2, <1>3, <1>4, <1>5, <1>6, <1>7, <1>8

\* Nor does keeping the plan or dropping it.
LEMMA PreparePreserves == ASSUME NEW c \in Calls, IInv, Prepare(c) PROVE IInv'
<1> USE ConstantsAssumption, AbsentAssumption, NewIsFile DEF IInv, TypeOK, Prepare, Running,
        PathAvailable, disk, durable, recv, counts
<1>1. TypeOK'
  BY DEF Slot, ManState, JrnState, CallerPC, ExecPC, Result, RecPC
<1>2. ManifestFollows'
  BY DEF ManifestFollows
<1>3. JournalFollows'
  BY DEF JournalFollows, Active, ExecPC
<1>4. CallerFollows'
  BY DEF CallerFollows, Active, InternalsAbsent, ExecPC
<1>5. ContentPlace'
  BY DEF ContentPlace, Active, HasTarget, ExecPC
<1>6. LeasePlace'
  BY DEF LeasePlace, Leased, HasTarget
<1>7. RecoveryPlace'
  BY DEF RecoveryPlace, InternalsAbsent
<1>8. LeftoversAreAccounted'
  BY DEF LeftoversAreAccounted, InternalsAbsent
<1> QED BY <1>1, <1>2, <1>3, <1>4, <1>5, <1>6, <1>7, <1>8

\* A call enters with its journal record started, and its executor starts.
LEMMA AdmitPreserves == ASSUME NEW c \in Calls, IInv, Admit(c) PROVE IInv'
<1> USE ConstantsAssumption, AbsentAssumption, NewIsFile DEF IInv, TypeOK, Admit, Running, GateHeld,
        Unchanged, disk, recv, counts, Readable, SameContent
<1>1. TypeOK'
  BY DEF Slot, ManState, JrnState, CallerPC, ExecPC, Result, RecPC
<1>2. ManifestFollows'
  BY DEF ManifestFollows, JournalFollows, CallerFollows, Active, InternalsAbsent, ExecPC
<1>3. JournalFollows'
  BY DEF JournalFollows, Active, ExecPC
<1>4. CallerFollows'
  BY DEF CallerFollows, Active, InternalsAbsent, ExecPC
<1>5. ContentPlace'
  BY DEF CallerFollows, ContentPlace, Active, InternalsAbsent, HasTarget, ExecPC
<1>6. LeasePlace'
  BY DEF JournalFollows, CallerFollows, LeasePlace, Active, InternalsAbsent, Leased, ExecPC,
         HasTarget
<1>7. RecoveryPlace'
  BY DEF RecoveryPlace, InternalsAbsent
<1>8. LeftoversAreAccounted'
  BY DEF LeftoversAreAccounted, InternalsAbsent
<1> QED BY <1>1, <1>2, <1>3, <1>4, <1>5, <1>6, <1>7, <1>8

\* A cancellation or a timeout is only seen later.
LEMMA SignalPreserves == ASSUME NEW c \in Calls, NEW s \in {"cancel", "timeout"}, IInv, Signal(c, s) PROVE IInv'
<1> USE ConstantsAssumption, AbsentAssumption, NewIsFile DEF IInv, TypeOK, Signal, Running, disk,
        durable, recv, counts
<1>1. TypeOK'
  BY DEF Slot, ManState, JrnState, CallerPC, ExecPC, Result, RecPC
<1>2. ManifestFollows'
  BY DEF ManifestFollows
<1>3. JournalFollows'
  BY DEF JournalFollows, Active, ExecPC
<1>4. CallerFollows'
  BY DEF CallerFollows, Active, InternalsAbsent, ExecPC
<1>5. ContentPlace'
  BY DEF ContentPlace, Active, HasTarget, ExecPC
<1>6. LeasePlace'
  BY DEF LeasePlace, Leased, HasTarget
<1>7. RecoveryPlace'
  BY DEF RecoveryPlace, InternalsAbsent
<1>8. LeftoversAreAccounted'
  BY DEF LeftoversAreAccounted, InternalsAbsent
<1> QED BY <1>1, <1>2, <1>3, <1>4, <1>5, <1>6, <1>7, <1>8

\* The caller takes over the executor's result.
LEMMA JoinPreserves == ASSUME NEW c \in Calls, IInv, Join(c) PROVE IInv'
<1> USE ConstantsAssumption, AbsentAssumption, NewIsFile DEF IInv, TypeOK, Join, Running,
        EffectResult, disk, durable, recv, counts
<1>1. TypeOK'
  BY DEF Slot, ManState, JrnState, CallerPC, ExecPC, Result, RecPC
<1>2. ManifestFollows'
  BY DEF ManifestFollows
<1>3. JournalFollows'
  BY DEF JournalFollows, Active, ExecPC
<1>4. CallerFollows'
  BY DEF CallerFollows, Active, InternalsAbsent, ExecPC
<1>5. ContentPlace'
  BY DEF ContentPlace, Active, HasTarget, ExecPC
<1>6. LeasePlace'
  BY DEF LeasePlace, Leased, HasTarget
<1>7. RecoveryPlace'
  BY DEF RecoveryPlace, InternalsAbsent
<1>8. LeftoversAreAccounted'
  BY DEF LeftoversAreAccounted, InternalsAbsent
<1> QED BY <1>1, <1>2, <1>3, <1>4, <1>5, <1>6, <1>7, <1>8

\* The caller gives up on an executor that goes on.
LEMMA AbandonPreserves == ASSUME NEW c \in Calls, IInv, Abandon(c) PROVE IInv'
<1> USE ConstantsAssumption, AbsentAssumption, NewIsFile DEF IInv, TypeOK, Abandon, Running, disk,
        durable, recv, counts
<1>1. TypeOK'
  BY DEF Slot, ManState, JrnState, CallerPC, ExecPC, Result, RecPC
<1>2. ManifestFollows'
  BY DEF ManifestFollows
<1>3. JournalFollows'
  BY DEF JournalFollows, Active, ExecPC
<1>4. CallerFollows'
  BY DEF CallerFollows, Active, InternalsAbsent, ExecPC
<1>5. ContentPlace'
  BY DEF ContentPlace, Active, HasTarget, ExecPC
<1>6. LeasePlace'
  BY DEF LeasePlace, Leased, HasTarget
<1>7. RecoveryPlace'
  BY DEF RecoveryPlace, InternalsAbsent
<1>8. LeftoversAreAccounted'
  BY DEF LeftoversAreAccounted, InternalsAbsent
<1> QED BY <1>1, <1>2, <1>3, <1>4, <1>5, <1>6, <1>7, <1>8

\* A straggler's result is thrown away.
LEMMA DiscardPreserves == ASSUME NEW c \in Calls, IInv, Discard(c) PROVE IInv'
<1> USE ConstantsAssumption, AbsentAssumption, NewIsFile DEF IInv, TypeOK, Discard, Running, disk,
        durable, recv, counts
<1>1. TypeOK'
  BY DEF Slot, ManState, JrnState, CallerPC, ExecPC, Result, RecPC
<1>2. ManifestFollows'
  BY DEF ManifestFollows
<1>3. JournalFollows'
  BY DEF JournalFollows, Active, ExecPC
<1>4. CallerFollows'
  BY DEF CallerFollows, Active, InternalsAbsent, ExecPC
<1>5. ContentPlace'
  BY DEF ContentPlace, Active, HasTarget, ExecPC
<1>6. LeasePlace'
  BY DEF LeasePlace, Leased, HasTarget
<1>7. RecoveryPlace'
  BY DEF RecoveryPlace, InternalsAbsent
<1>8. LeftoversAreAccounted'
  BY DEF LeftoversAreAccounted, InternalsAbsent
<1> QED BY <1>1, <1>2, <1>3, <1>4, <1>5, <1>6, <1>7, <1>8

\* The journal takes the result, or the save fails.
LEMMA FinalizePreserves == ASSUME NEW c \in Calls, IInv, Finalize(c) PROVE IInv'
<1> USE ConstantsAssumption, AbsentAssumption, NewIsFile DEF IInv, TypeOK, Finalize, Running, disk,
        recv
<1>1. TypeOK'
  BY DEF Slot, ManState, JrnState, CallerPC, ExecPC, Result, RecPC
<1>2. ManifestFollows'
  BY DEF ManifestFollows
<1>3. JournalFollows'
  BY DEF JournalFollows, CallerFollows, Active, ExecPC, Result, JrnState
<1>4. CallerFollows'
  BY DEF CallerFollows, Active, InternalsAbsent, ExecPC
<1>5. ContentPlace'
  BY DEF CallerFollows, ContentPlace, Active, InternalsAbsent, HasTarget, ExecPC
<1>6. LeasePlace'
  BY DEF LeasePlace, Leased, HasTarget
<1>7. RecoveryPlace'
  BY DEF RecoveryPlace, InternalsAbsent
<1>8. LeftoversAreAccounted'
  BY DEF LeftoversAreAccounted, InternalsAbsent
<1> QED BY <1>1, <1>2, <1>3, <1>4, <1>5, <1>6, <1>7, <1>8

\* Retirement looks at the manifest and at the files.
LEMMA RetirePreserves == ASSUME NEW c \in Calls, IInv, Retire(c) PROVE IInv'
<1> USE ConstantsAssumption, AbsentAssumption, NewIsFile DEF IInv, TypeOK, Retire, Running,
        CleanCommitted, CleanRolledBack, disk, recv, counts, Readable, InternalsAbsent,
        MatchesBefore
<1>1. TypeOK'
  BY DEF Slot, ManState, JrnState, CallerPC, ExecPC, Result, RecPC
<1>2. ManifestFollows'
  BY DEF ManifestFollows
<1>3. JournalFollows'
  BY RetireJournal
<1>4. CallerFollows'
  BY RetireCaller
<1>5. ContentPlace'
  BY DEF ContentPlace, Active, HasTarget, ExecPC
<1>6. LeasePlace'
  BY DEF LeasePlace, Leased, HasTarget
<1>7. RecoveryPlace'
  BY DEF RecoveryPlace
<1>8. LeftoversAreAccounted'
  BY DEF LeftoversAreAccounted
<1> QED BY <1>1, <1>2, <1>3, <1>4, <1>5, <1>6, <1>7, <1>8

\* A manifest that agrees with its journal is deleted.
LEMMA RetireDeletePreserves == ASSUME NEW c \in Calls, IInv, RetireDelete(c) PROVE IInv'
<1> USE ConstantsAssumption, AbsentAssumption, NewIsFile DEF IInv, TypeOK, RetireDelete, Running,
        disk, recv
<1>1. TypeOK'
  BY DEF Slot, ManState, JrnState, CallerPC, ExecPC, Result, RecPC
<1>2. ManifestFollows'
  BY DEF ManifestFollows, CallerFollows, Active, InternalsAbsent, ExecPC
<1>3. JournalFollows'
  BY DEF JournalFollows, Active, ExecPC
<1>4. CallerFollows'
  BY DEF CallerFollows, Active, InternalsAbsent, ExecPC
<1>5. ContentPlace'
  BY DEF ContentPlace, Active, HasTarget, ExecPC
<1>6. LeasePlace'
  BY DEF LeasePlace, Leased, HasTarget
<1>7. RecoveryPlace'
  BY DEF RecoveryPlace, InternalsAbsent
<1>8. LeftoversAreAccounted'
  BY DEF CallerFollows, LeftoversAreAccounted, Active, InternalsAbsent, ExecPC
<1> QED BY <1>1, <1>2, <1>3, <1>4, <1>5, <1>6, <1>7, <1>8

\* The executor's first save.
LEMMA BeginManifestPreserves == ASSUME NEW c \in Calls, IInv, BeginManifest(c) PROVE IInv'
<1> USE ConstantsAssumption, AbsentAssumption, NewIsFile DEF IInv, TypeOK, BeginManifest, Running,
        counts, Cancelled, Return, Fault, disk, recv
<1>1. TypeOK'
  BY DEF Slot, ManState, JrnState, CallerPC, ExecPC, Result, RecPC
<1>2. ManifestFollows'
  BY DEF ManifestFollows
<1>3. JournalFollows'
  BY DEF JournalFollows, Active, ExecPC
<1>4. CallerFollows'
  BY DEF ManifestFollows, CallerFollows, Active, InternalsAbsent, ExecPC
<1>5. ContentPlace'
  BY DEF ContentPlace, Active, HasTarget, ExecPC
<1>6. LeasePlace'
  BY DEF LeasePlace, Leased, HasTarget
<1>7. RecoveryPlace'
  BY DEF RecoveryPlace, InternalsAbsent
<1>8. LeftoversAreAccounted'
  BY DEF LeftoversAreAccounted, InternalsAbsent
<1> QED BY <1>1, <1>2, <1>3, <1>4, <1>5, <1>6, <1>7, <1>8

\* The name of the temporary is created.
LEMMA CreateTempPreserves == ASSUME NEW c \in Calls, IInv, CreateTemp(c) PROVE IInv'
<1> USE ConstantsAssumption, AbsentAssumption, TornIsFile DEF IInv, TypeOK, CreateTemp, Unchanged,
        InternalsAbsent, Step, durable, recv, counts, Readable, SameContent, Running
<1>1. TypeOK'
  BY DEF Slot, ManState, JrnState, CallerPC, ExecPC, Result, RecPC
<1>2. ManifestFollows'
  BY DEF ManifestFollows
<1>3. JournalFollows'
  BY DEF JournalFollows, Active, ExecPC
<1>4. CallerFollows'
  BY DEF CallerFollows, Active, ExecPC
<1>5. ContentPlace'
  BY DEF ContentPlace, Active, HasTarget, ExecPC
<1>6. LeasePlace'
  BY DEF LeasePlace, Leased, HasTarget
<1>7. RecoveryPlace'
  BY DEF RecoveryPlace
<1>8. LeftoversAreAccounted'
  BY DEF ManifestFollows, LeftoversAreAccounted
<1> QED BY <1>1, <1>2, <1>3, <1>4, <1>5, <1>6, <1>7, <1>8

\* The new content goes into it.
LEMMA WriteTempPreserves == ASSUME NEW c \in Calls, IInv, WriteTemp(c) PROVE IInv'
<1> USE ConstantsAssumption, AbsentAssumption, NewIsFile, TornIsFile DEF IInv, TypeOK, WriteTemp,
        Filled, InternalsAbsent, Step, durable, recv, counts, Running
<1>1. TypeOK'
  BY DEF Slot, ManState, JrnState, CallerPC, ExecPC, Result, RecPC
<1>2. ManifestFollows'
  BY DEF ManifestFollows
<1>3. JournalFollows'
  BY DEF JournalFollows, Active, ExecPC
<1>4. CallerFollows'
  BY DEF CallerFollows, Active, ExecPC
<1>5. ContentPlace'
  BY DEF ContentPlace, Active, HasTarget, ExecPC
<1>6. LeasePlace'
  BY DEF LeasePlace, Leased, HasTarget
<1>7. RecoveryPlace'
  BY DEF RecoveryPlace
<1>8. LeftoversAreAccounted'
  BY DEF ManifestFollows, LeftoversAreAccounted
<1> QED BY <1>1, <1>2, <1>3, <1>4, <1>5, <1>6, <1>7, <1>8

\* The write fails.
LEMMA WriteFailsPreserves == ASSUME NEW c \in Calls, IInv, WriteFails(c) PROVE IInv'
<1> USE ConstantsAssumption, AbsentAssumption, NewIsFile, TornIsFile DEF IInv, TypeOK, WriteFails,
        Filled, Fault, InternalsAbsent, Step, durable, recv, counts, Running
<1>1. TypeOK'
  BY DEF Slot, ManState, JrnState, CallerPC, ExecPC, Result, RecPC
<1>2. ManifestFollows'
  BY DEF ManifestFollows
<1>3. JournalFollows'
  BY DEF JournalFollows, Active, ExecPC
<1>4. CallerFollows'
  BY DEF CallerFollows, Active, ExecPC
<1>5. ContentPlace'
  BY DEF ContentPlace, Active, HasTarget, ExecPC
<1>6. LeasePlace'
  BY DEF LeasePlace, Leased, HasTarget
<1>7. RecoveryPlace'
  BY DEF RecoveryPlace
<1>8. LeftoversAreAccounted'
  BY DEF ManifestFollows, LeftoversAreAccounted
<1> QED BY <1>1, <1>2, <1>3, <1>4, <1>5, <1>6, <1>7, <1>8

\* Refusals before anything is staged.
LEMMA RefuseBegunPreserves == ASSUME NEW c \in Calls, IInv, RefuseBegun(c) PROVE IInv'
<1> USE ConstantsAssumption, AbsentAssumption, NewIsFile DEF IInv, TypeOK, RefuseBegun, Step,
        Cancelled, counts, Unchanged, InternalsAbsent, Fault, disk, durable, recv, Running,
        Readable, SameContent
<1>1. TypeOK'
  BY DEF Slot, ManState, JrnState, CallerPC, ExecPC, Result, RecPC
<1>2. ManifestFollows'
  BY DEF ManifestFollows
<1>3. JournalFollows'
  BY DEF JournalFollows, Active, ExecPC
<1>4. CallerFollows'
  BY DEF CallerFollows, Active, ExecPC
<1>5. ContentPlace'
  BY DEF ContentPlace, Active, HasTarget, ExecPC
<1>6. LeasePlace'
  BY DEF LeasePlace, Leased, HasTarget
<1>7. RecoveryPlace'
  BY DEF RecoveryPlace
<1>8. LeftoversAreAccounted'
  BY DEF LeftoversAreAccounted
<1> QED BY <1>1, <1>2, <1>3, <1>4, <1>5, <1>6, <1>7, <1>8

\* The manifest becomes STAGED.
LEMMA StagePreserves == ASSUME NEW c \in Calls, IInv, Stage(c) PROVE IInv'
<1> USE ConstantsAssumption, AbsentAssumption, NewIsFile DEF IInv, TypeOK, Stage, Step, counts,
        Fault, disk, recv, Running
<1>1. TypeOK'
  BY DEF Slot, ManState, JrnState, CallerPC, ExecPC, Result, RecPC
<1>2. ManifestFollows'
  BY DEF ManifestFollows
<1>3. JournalFollows'
  BY DEF JournalFollows, Active, ExecPC
<1>4. CallerFollows'
  BY DEF CallerFollows, Active, InternalsAbsent, ExecPC
<1>5. ContentPlace'
  BY DEF ContentPlace, Active, HasTarget, ExecPC
<1>6. LeasePlace'
  BY DEF LeasePlace, Leased, HasTarget
<1>7. RecoveryPlace'
  BY DEF RecoveryPlace, InternalsAbsent
<1>8. LeftoversAreAccounted'
  BY DEF LeftoversAreAccounted, InternalsAbsent
<1> QED BY <1>1, <1>2, <1>3, <1>4, <1>5, <1>6, <1>7, <1>8

\* The staged file is gone before the manifest becomes STAGED.
LEMMA StageMissingPreserves == ASSUME NEW c \in Calls, IInv, StageMissing(c) PROVE IInv'
<1> USE ConstantsAssumption, AbsentAssumption, NewIsFile DEF IInv, TypeOK, StageMissing, Step, disk,
        durable, recv, counts, Running
<1>1. TypeOK'
  BY DEF Slot, ManState, JrnState, CallerPC, ExecPC, Result, RecPC
<1>2. ManifestFollows'
  BY DEF ManifestFollows
<1>3. JournalFollows'
  BY DEF JournalFollows, Active, ExecPC
<1>4. CallerFollows'
  BY DEF CallerFollows, Active, InternalsAbsent, ExecPC
<1>5. ContentPlace'
  BY DEF ContentPlace, Active, HasTarget, ExecPC
<1>6. LeasePlace'
  BY DEF LeasePlace, Leased, HasTarget
<1>7. RecoveryPlace'
  BY DEF RecoveryPlace, InternalsAbsent
<1>8. LeftoversAreAccounted'
  BY DEF LeftoversAreAccounted, InternalsAbsent
<1> QED BY <1>1, <1>2, <1>3, <1>4, <1>5, <1>6, <1>7, <1>8

\* The executor takes its handles.
LEMMA LockPreserves == ASSUME NEW c \in Calls, IInv, Lock(c) PROVE IInv'
<1> USE ConstantsAssumption, AbsentAssumption, NewIsFile DEF IInv, TypeOK, Lock, Lockable, Step,
        HandlesOf, counts, Fault, disk, durable, recv, Unchanged, Running, Readable, SameContent
<1>1. TypeOK'
  BY DEF Slot, ManState, JrnState, CallerPC, ExecPC, Result, RecPC
<1>2. ManifestFollows'
  BY DEF ManifestFollows
<1>3. JournalFollows'
  BY DEF JournalFollows, Active, ExecPC
<1>4. CallerFollows'
  BY DEF CallerFollows, Active, InternalsAbsent, ExecPC
<1>5. ContentPlace'
  BY LockContent
<1>6. LeasePlace'
  BY LockLease
<1>7. RecoveryPlace'
  BY DEF RecoveryPlace, InternalsAbsent
<1>8. LeftoversAreAccounted'
  BY DEF LeftoversAreAccounted, InternalsAbsent
<1> QED BY <1>1, <1>2, <1>3, <1>4, <1>5, <1>6, <1>7, <1>8

\* The original moves to the backup.
LEMMA ClaimPreserves == ASSUME NEW c \in Calls, IInv, Claim(c) PROVE IInv'
<1> USE ConstantsAssumption, AbsentAssumption, NewIsFile DEF IInv, TypeOK, Claim, Step, counts,
        Fault, durable, recv, Running
<1>1. TypeOK'
  BY DEF Slot, ManState, JrnState, CallerPC, ExecPC, Result, RecPC
<1>2. ManifestFollows'
  BY DEF ManifestFollows
<1>3. JournalFollows'
  BY DEF JournalFollows, Active, ExecPC
<1>4. CallerFollows'
  BY DEF CallerFollows, Active, InternalsAbsent, ExecPC
<1>5. ContentPlace'
  BY DEF ContentPlace, LeasePlace, Active, HasTarget, Leased, ExecPC
<1>6. LeasePlace'
  BY DEF LeasePlace, Leased, HasTarget
<1>7. RecoveryPlace'
  BY DEF RecoveryPlace, InternalsAbsent
<1>8. LeftoversAreAccounted'
  BY DEF ManifestFollows, LeftoversAreAccounted, InternalsAbsent
<1> QED BY <1>1, <1>2, <1>3, <1>4, <1>5, <1>6, <1>7, <1>8

\* The original may have moved when the call fails.
LEMMA ClaimUncertainPreserves == ASSUME NEW c \in Calls, IInv, ClaimUncertain(c) PROVE IInv'
<1> USE ConstantsAssumption, AbsentAssumption, NewIsFile DEF IInv, TypeOK, ClaimUncertain, Fault,
        Running, Return, durable, recv
<1>1. TypeOK'
  BY DEF Slot, ManState, JrnState, CallerPC, ExecPC, Result, RecPC
<1>2. ManifestFollows'
  BY DEF ManifestFollows
<1>3. JournalFollows'
  BY DEF JournalFollows, Active, ExecPC
<1>4. CallerFollows'
  BY DEF CallerFollows, Active, InternalsAbsent, ExecPC
<1>5. ContentPlace'
  BY DEF ContentPlace, LeasePlace, Active, HasTarget, Leased, ExecPC
<1>6. LeasePlace'
  BY DEF LeasePlace, Leased, HasTarget
<1>7. RecoveryPlace'
  BY DEF RecoveryPlace, InternalsAbsent
<1>8. LeftoversAreAccounted'
  BY DEF ManifestFollows, LeftoversAreAccounted, InternalsAbsent
<1> QED BY <1>1, <1>2, <1>3, <1>4, <1>5, <1>6, <1>7, <1>8

\* The staged file moves to the target.
LEMMA PublishPreserves == ASSUME NEW c \in Calls, IInv, Publish(c) PROVE IInv'
<1> USE ConstantsAssumption, AbsentAssumption, NewIsFile DEF IInv, TypeOK, Publish, Running,
        NoReplace, durable, recv, counts
<1>1. TypeOK'
  BY DEF Slot, ManState, JrnState, CallerPC, ExecPC, Result, RecPC
<1>2. ManifestFollows'
  BY DEF ManifestFollows
<1>3. JournalFollows'
  BY DEF JournalFollows, Active, ExecPC
<1>4. CallerFollows'
  BY DEF CallerFollows, Active, InternalsAbsent, ExecPC
<1>5. ContentPlace'
  BY DEF JournalFollows, ContentPlace, Active, HasTarget, ExecPC
<1>6. LeasePlace'
  BY DEF LeasePlace, Leased, HasTarget
<1>7. RecoveryPlace'
  BY DEF RecoveryPlace, InternalsAbsent
<1>8. LeftoversAreAccounted'
  BY DEF LeftoversAreAccounted, InternalsAbsent
<1> QED BY <1>1, <1>2, <1>3, <1>4, <1>5, <1>6, <1>7, <1>8

\* The staged file may have moved when the call fails.
LEMMA PublishUncertainPreserves == ASSUME NEW c \in Calls, IInv, PublishUncertain(c) PROVE IInv'
<1> USE ConstantsAssumption, AbsentAssumption, NewIsFile DEF IInv, TypeOK, PublishUncertain,
        Running, Fault, Return, durable, recv
<1>1. TypeOK'
  BY DEF Slot, ManState, JrnState, CallerPC, ExecPC, Result, RecPC
<1>2. ManifestFollows'
  BY DEF ManifestFollows
<1>3. JournalFollows'
  BY DEF JournalFollows, Active, ExecPC
<1>4. CallerFollows'
  BY DEF CallerFollows, Active, InternalsAbsent, ExecPC
<1>5. ContentPlace'
  BY DEF JournalFollows, ContentPlace, Active, HasTarget, ExecPC
<1>6. LeasePlace'
  BY DEF LeasePlace, Leased, HasTarget
<1>7. RecoveryPlace'
  BY DEF RecoveryPlace, InternalsAbsent
<1>8. LeftoversAreAccounted'
  BY DEF LeftoversAreAccounted, InternalsAbsent
<1> QED BY <1>1, <1>2, <1>3, <1>4, <1>5, <1>6, <1>7, <1>8

\* The manifest becomes COMMITTED.
LEMMA CommitPreserves == ASSUME NEW c \in Calls, IInv, Commit(c) PROVE IInv'
<1> USE ConstantsAssumption, AbsentAssumption, NewIsFile DEF IInv, TypeOK, Commit, Step, disk, recv,
        counts, Running
<1>1. TypeOK'
  BY DEF Slot, ManState, JrnState, CallerPC, ExecPC, Result, RecPC
<1>2. ManifestFollows'
  BY DEF ManifestFollows
<1>3. JournalFollows'
  BY DEF JournalFollows, Active, ExecPC
<1>4. CallerFollows'
  BY DEF CallerFollows, Active, InternalsAbsent, ExecPC
<1>5. ContentPlace'
  BY DEF ContentPlace, Active, HasTarget, ExecPC
<1>6. LeasePlace'
  BY DEF LeasePlace, Leased, HasTarget
<1>7. RecoveryPlace'
  BY DEF RecoveryPlace, InternalsAbsent
<1>8. LeftoversAreAccounted'
  BY DEF LeftoversAreAccounted, InternalsAbsent
<1> QED BY <1>1, <1>2, <1>3, <1>4, <1>5, <1>6, <1>7, <1>8

\* Refusals between staging and the decision.
LEMMA RefusePublishedPreserves == ASSUME NEW c \in Calls, IInv, RefusePublished(c) PROVE IInv'
<1> USE ConstantsAssumption, AbsentAssumption, NewIsFile DEF IInv, TypeOK, RefusePublished, Step,
        Cancelled, counts, Fault, disk, recv, Running
<1>1. TypeOK'
  BY DEF Slot, ManState, JrnState, CallerPC, ExecPC, Result, RecPC
<1>2. ManifestFollows'
  BY DEF ManifestFollows
<1>3. JournalFollows'
  BY DEF JournalFollows, Active, ExecPC
<1>4. CallerFollows'
  BY DEF CallerFollows, Active, InternalsAbsent, ExecPC
<1>5. ContentPlace'
  BY DEF ContentPlace, Active, HasTarget, ExecPC
<1>6. LeasePlace'
  BY DEF LeasePlace, Leased, HasTarget
<1>7. RecoveryPlace'
  BY DEF RecoveryPlace, InternalsAbsent
<1>8. LeftoversAreAccounted'
  BY DEF LeftoversAreAccounted, InternalsAbsent
<1> QED BY <1>1, <1>2, <1>3, <1>4, <1>5, <1>6, <1>7, <1>8

\* The backup of a committed change goes.
LEMMA CleanupPreserves == ASSUME NEW c \in Calls, IInv, Cleanup(c) PROVE IInv'
<1> USE ConstantsAssumption, AbsentAssumption, NewIsFile DEF IInv, TypeOK, Cleanup, Running, Return,
        counts, Fault, durable, recv
<1>1. TypeOK'
  BY DEF Slot, ManState, JrnState, CallerPC, ExecPC, Result, RecPC
<1>2. ManifestFollows'
  BY DEF ManifestFollows
<1>3. JournalFollows'
  BY DEF JournalFollows, Active, ExecPC
<1>4. CallerFollows'
  BY DEF ManifestFollows, CallerFollows, Active, InternalsAbsent, ExecPC
<1>5. ContentPlace'
  BY DEF ContentPlace, Active, HasTarget, ExecPC
<1>6. LeasePlace'
  BY DEF LeasePlace, Leased, HasTarget
<1>7. RecoveryPlace'
  BY DEF RecoveryPlace, InternalsAbsent
<1>8. LeftoversAreAccounted'
  BY DEF LeftoversAreAccounted, InternalsAbsent
<1> QED BY <1>1, <1>2, <1>3, <1>4, <1>5, <1>6, <1>7, <1>8

\* Hidden files of a change that never began go.
LEMMA SweepPreserves == ASSUME NEW c \in Calls, IInv, Sweep(c) PROVE IInv'
<1> USE ConstantsAssumption, AbsentAssumption, NewIsFile DEF IInv, TypeOK, Sweep, Running, counts,
        Return, Fault, durable, recv
<1>1. TypeOK'
  BY SMTT(30) DEF Slot, ManState, JrnState, CallerPC, ExecPC, Result, RecPC
<1>2. ManifestFollows'
  BY DEF ManifestFollows
<1>3. JournalFollows'
  BY DEF JournalFollows, Active, ExecPC
<1>4. CallerFollows'
  BY DEF CallerFollows, Active, InternalsAbsent, ExecPC
<1>5. ContentPlace'
  BY DEF ContentPlace, Active, HasTarget, ExecPC
<1>6. LeasePlace'
  BY DEF LeasePlace, Leased, HasTarget
<1>7. RecoveryPlace'
  BY DEF RecoveryPlace, InternalsAbsent
<1>8. LeftoversAreAccounted'
  BY DEF LeftoversAreAccounted, InternalsAbsent
<1> QED BY <1>1, <1>2, <1>3, <1>4, <1>5, <1>6, <1>7, <1>8

\* Rollback moves the published file away.
LEMMA UndoPublishedPreserves == ASSUME NEW c \in Calls, IInv, UndoPublished(c) PROVE IInv'
<1> USE ConstantsAssumption, AbsentAssumption, NewIsFile DEF IInv, TypeOK, UndoPublished, Running,
        counts, Fault, Return, durable, recv
<1>1. TypeOK'
  BY DEF Slot, ManState, JrnState, CallerPC, ExecPC, Result, RecPC
<1>2. ManifestFollows'
  BY DEF ManifestFollows
<1>3. JournalFollows'
  BY DEF JournalFollows, Active, ExecPC
<1>4. CallerFollows'
  BY DEF CallerFollows, Active, InternalsAbsent, ExecPC
<1>5. ContentPlace'
  BY DEF ContentPlace, Active, HasTarget, ExecPC
<1>6. LeasePlace'
  BY DEF ContentPlace, LeasePlace, Active, HasTarget, Leased, ExecPC
<1>7. RecoveryPlace'
  BY DEF RecoveryPlace, InternalsAbsent
<1>8. LeftoversAreAccounted'
  BY DEF ManifestFollows, LeftoversAreAccounted, InternalsAbsent
<1> QED BY <1>1, <1>2, <1>3, <1>4, <1>5, <1>6, <1>7, <1>8

\* Rollback moves the backup to the target again.
LEMMA UndoClaimedPreserves == ASSUME NEW c \in Calls, IInv, UndoClaimed(c) PROVE IInv'
<1> USE ConstantsAssumption, AbsentAssumption, NewIsFile DEF IInv, TypeOK, UndoClaimed, Running,
        NoReplace, counts, Return, Fault, durable, recv
<1>1. TypeOK'
  BY DEF Slot, ManState, JrnState, CallerPC, ExecPC, Result, RecPC
<1>2. ManifestFollows'
  BY DEF ManifestFollows
<1>3. JournalFollows'
  BY DEF JournalFollows, Active, ExecPC
<1>4. CallerFollows'
  BY DEF CallerFollows, Active, InternalsAbsent, ExecPC
<1>5. ContentPlace'
  BY DEF ContentPlace, Active, HasTarget, ExecPC
<1>6. LeasePlace'
  BY DEF LeasePlace, Leased, HasTarget
<1>7. RecoveryPlace'
  BY DEF RecoveryPlace, InternalsAbsent
<1>8. LeftoversAreAccounted'
  BY DEF LeftoversAreAccounted, InternalsAbsent
<1> QED BY <1>1, <1>2, <1>3, <1>4, <1>5, <1>6, <1>7, <1>8

\* Rollback deletes what it displaced.
LEMMA PurgePreserves == ASSUME NEW c \in Calls, IInv, Purge(c) PROVE IInv'
<1> USE ConstantsAssumption, AbsentAssumption, NewIsFile DEF IInv, TypeOK, Purge, Running, Return,
        Fault, durable, recv, counts
<1>1. TypeOK'
  <2>1. tmp' \in [Calls -> Slot] /\ rbk' \in [Calls -> Slot]
    BY DEF Slot
  <2>2. xpc' \in [Calls -> ExecPC] /\ res' \in [Calls -> Result]
    BY DEF ExecPC, Result
  <2>3. lease' \in [Calls -> SUBSET File] /\ faults' \in 0..MaxFaults
    OBVIOUS
  <2> QED BY <2>1, <2>2, <2>3
<1>2. ManifestFollows'
  BY DEF ManifestFollows
<1>3. JournalFollows'
  BY DEF JournalFollows, Active, ExecPC
<1>4. CallerFollows'
  BY DEF CallerFollows, Active, InternalsAbsent, ExecPC
<1>5. ContentPlace'
  BY DEF ContentPlace, Active, HasTarget, ExecPC
<1>6. LeasePlace'
  BY DEF LeasePlace, Leased, HasTarget
<1>7. RecoveryPlace'
  BY DEF RecoveryPlace, InternalsAbsent
<1>8. LeftoversAreAccounted'
  BY DEF LeftoversAreAccounted, InternalsAbsent
<1> QED BY <1>1, <1>2, <1>3, <1>4, <1>5, <1>6, <1>7, <1>8

\* The executor decides what it reports.
LEMMA SettlePreserves == ASSUME NEW c \in Calls, IInv, Settle(c) PROVE IInv'
<1> USE ConstantsAssumption, AbsentAssumption, NewIsFile DEF IInv, TypeOK, Settle, Running,
        MayRollBack, Return, counts, Fault, disk, recv, CleanRolledBack, Readable, InternalsAbsent,
        MatchesBefore
<1>1. TypeOK'
  BY SMTT(30) DEF Slot, ManState, JrnState, CallerPC, ExecPC, Result, RecPC
<1>2. ManifestFollows'
  BY DEF ManifestFollows
<1>3. JournalFollows'
  BY DEF JournalFollows, Active, ExecPC
<1>4. CallerFollows'
  BY DEF CallerFollows, Active, ExecPC
<1>5. ContentPlace'
  BY DEF ContentPlace, Active, HasTarget, ExecPC
<1>6. LeasePlace'
  BY DEF LeasePlace, Leased, HasTarget
<1>7. RecoveryPlace'
  BY DEF RecoveryPlace
<1>8. LeftoversAreAccounted'
  BY DEF LeftoversAreAccounted
<1> QED BY <1>1, <1>2, <1>3, <1>4, <1>5, <1>6, <1>7, <1>8

\* A crash takes handles and callers away, and keeps the files.
LEMMA CrashPreserves == ASSUME IInv, Crash PROVE IInv'
<1> USE ConstantsAssumption, AbsentAssumption, NewIsFile DEF IInv, TypeOK, Crash, disk, durable
<1>1. TypeOK'
  BY DEF Slot, ManState, JrnState, CallerPC, ExecPC, Result, RecPC
<1>2. ManifestFollows'
  BY DEF ManifestFollows
<1>3. JournalFollows'
  BY DEF JournalFollows, Active, ExecPC
<1>4. CallerFollows'
  BY DEF CallerFollows, Active, InternalsAbsent, ExecPC
<1>5. ContentPlace'
  BY DEF ContentPlace, Active, HasTarget, ExecPC
<1>6. LeasePlace'
  BY DEF LeasePlace, Leased, HasTarget
<1>7. RecoveryPlace'
  BY DEF RecoveryPlace, InternalsAbsent
<1>8. LeftoversAreAccounted'
  BY DEF LeftoversAreAccounted, InternalsAbsent
<1> QED BY <1>1, <1>2, <1>3, <1>4, <1>5, <1>6, <1>7, <1>8

\* Recovery takes the next manifest.
LEMMA RecTakePreserves == ASSUME NEW c \in Calls, IInv, RecTake(c) PROVE IInv'
<1> USE ConstantsAssumption, AbsentAssumption, NewIsFile DEF IInv, TypeOK, RecTake, disk, durable,
        counts
<1>1. TypeOK'
  BY DEF Slot, ManState, JrnState, CallerPC, ExecPC, Result, RecPC
<1>2. ManifestFollows'
  BY DEF ManifestFollows
<1>3. JournalFollows'
  BY DEF JournalFollows, Active, ExecPC
<1>4. CallerFollows'
  BY DEF CallerFollows, Active, InternalsAbsent, ExecPC
<1>5. ContentPlace'
  BY DEF ContentPlace, Active, HasTarget, ExecPC
<1>6. LeasePlace'
  BY DEF LeasePlace, Leased, HasTarget
<1>7. RecoveryPlace'
  BY DEF RecoveryPlace, InternalsAbsent
<1>8. LeftoversAreAccounted'
  BY DEF LeftoversAreAccounted, InternalsAbsent
<1> QED BY <1>1, <1>2, <1>3, <1>4, <1>5, <1>6, <1>7, <1>8

\* Recovery of a decided change looks at the target and the backup.
LEMMA RecCommittedPreserves == ASSUME NEW c \in Calls, IInv, RecCommitted(c) PROVE IInv'
<1> USE ConstantsAssumption, AbsentAssumption, NewIsFile DEF IInv, TypeOK, RecCommitted, InHand,
        MatchesBefore, Goto, ToManual, counts, Next_manifest
<1>1. TypeOK'
  BY DEF Slot, ManState, JrnState, CallerPC, ExecPC, Result, RecPC
<1>2. ManifestFollows'
  BY DEF ManifestFollows, RecoveryPlace, InternalsAbsent
<1>3. JournalFollows'
  BY DEF JournalFollows, Active, ExecPC
<1>4. CallerFollows'
  BY DEF CallerFollows, RecoveryPlace, Active, InternalsAbsent, ExecPC
<1>5. ContentPlace'
  BY DEF ContentPlace, Active, HasTarget, ExecPC
<1>6. LeasePlace'
  BY DEF LeasePlace, Leased, HasTarget
<1>7. RecoveryPlace'
  BY DEF RecoveryPlace, InternalsAbsent
<1>8. LeftoversAreAccounted'
  BY DEF LeftoversAreAccounted, InternalsAbsent
<1> QED BY <1>1, <1>2, <1>3, <1>4, <1>5, <1>6, <1>7, <1>8

\* Recovery of a manifest that was never staged.
LEMMA RecUnstagedPreserves == ASSUME NEW c \in Calls, IInv, RecUnstaged(c) PROVE IInv'
<1> USE ConstantsAssumption, AbsentAssumption, NewIsFile DEF IInv, TypeOK, RecUnstaged, InHand,
        CleanRolledBack, Goto, ToManual, disk, counts, Readable, InternalsAbsent, MatchesBefore,
        Next_manifest
<1>1. TypeOK'
  BY DEF Slot, ManState, JrnState, CallerPC, ExecPC, Result, RecPC
<1>2. ManifestFollows'
  BY DEF ManifestFollows, RecoveryPlace
<1>3. JournalFollows'
  BY DEF JournalFollows, Active, ExecPC
<1>4. CallerFollows'
  BY DEF CallerFollows, RecoveryPlace, Active, ExecPC
<1>5. ContentPlace'
  BY DEF ContentPlace, Active, HasTarget, ExecPC
<1>6. LeasePlace'
  BY DEF LeasePlace, Leased, HasTarget
<1>7. RecoveryPlace'
  BY DEF RecoveryPlace
<1>8. LeftoversAreAccounted'
  BY DEF LeftoversAreAccounted
<1> QED BY <1>1, <1>2, <1>3, <1>4, <1>5, <1>6, <1>7, <1>8

\* Recovery of a staged change looks at the three files.
LEMMA RecScanPreserves == ASSUME NEW c \in Calls, IInv, RecScan(c) PROVE IInv'
<1> USE ConstantsAssumption, AbsentAssumption, NewIsFile DEF IInv, TypeOK, RecScan, InHand,
        Undecided, StagedDrift, ToManual, Goto, disk, counts, MatchesBefore, Next_manifest
<1>1. TypeOK'
  BY DEF Slot, ManState, JrnState, CallerPC, ExecPC, Result, RecPC
<1>2. ManifestFollows'
  BY DEF ManifestFollows, RecoveryPlace, InternalsAbsent
<1>3. JournalFollows'
  BY DEF JournalFollows, Active, ExecPC
<1>4. CallerFollows'
  BY DEF CallerFollows, Active, InternalsAbsent, ExecPC
<1>5. ContentPlace'
  BY DEF ContentPlace, Active, HasTarget, ExecPC
<1>6. LeasePlace'
  BY DEF LeasePlace, Leased, HasTarget
<1>7. RecoveryPlace'
  BY DEF RecoveryPlace, InternalsAbsent
<1>8. LeftoversAreAccounted'
  BY DEF LeftoversAreAccounted, InternalsAbsent
<1> QED BY <1>1, <1>2, <1>3, <1>4, <1>5, <1>6, <1>7, <1>8

\* Recovery moves the published file away.
LEMMA RecClaimPreserves == ASSUME NEW c \in Calls, IInv, RecClaim(c) PROVE IInv'
<1> USE ConstantsAssumption, AbsentAssumption, NewIsFile DEF IInv, TypeOK, RecClaim, InHand, Goto,
        ToManual, counts, Next_manifest
<1>1. TypeOK'
  BY DEF Slot, ManState, JrnState, CallerPC, ExecPC, Result, RecPC
<1>2. ManifestFollows'
  BY DEF ManifestFollows, RecoveryPlace, InternalsAbsent
<1>3. JournalFollows'
  BY DEF JournalFollows, RecoveryPlace, Active, InternalsAbsent, ExecPC
<1>4. CallerFollows'
  BY DEF CallerFollows, RecoveryPlace, Active, InternalsAbsent, ExecPC
<1>5. ContentPlace'
  BY DEF ContentPlace, RecoveryPlace, Active, HasTarget, InternalsAbsent, ExecPC
<1>6. LeasePlace'
  BY DEF LeasePlace, RecoveryPlace, Leased, InternalsAbsent, HasTarget
<1>7. RecoveryPlace'
  BY DEF RecoveryPlace, InternalsAbsent
<1>8. LeftoversAreAccounted'
  BY DEF RecoveryPlace, LeftoversAreAccounted, InternalsAbsent
<1> QED BY <1>1, <1>2, <1>3, <1>4, <1>5, <1>6, <1>7, <1>8

\* Recovery moves the backup to the target again.
LEMMA RecRestorePreserves == ASSUME NEW c \in Calls, IInv, RecRestore(c) PROVE IInv'
<1> USE ConstantsAssumption, AbsentAssumption, NewIsFile DEF IInv, TypeOK, RecRestore, InHand,
        MatchesBefore, Goto, ToManual, counts, Next_manifest
<1>1. TypeOK'
  BY DEF Slot, ManState, JrnState, CallerPC, ExecPC, Result, RecPC
<1>2. ManifestFollows'
  BY DEF ManifestFollows, RecoveryPlace, InternalsAbsent
<1>3. JournalFollows'
  BY DEF JournalFollows, RecoveryPlace, Active, InternalsAbsent, ExecPC
<1>4. CallerFollows'
  BY DEF CallerFollows, RecoveryPlace, Active, InternalsAbsent, ExecPC
<1>5. ContentPlace'
  BY DEF ContentPlace, Active, HasTarget, ExecPC
<1>6. LeasePlace'
  BY DEF LeasePlace, Leased, HasTarget
<1>7. RecoveryPlace'
  BY DEF RecoveryPlace, InternalsAbsent
<1>8. LeftoversAreAccounted'
  BY DEF LeftoversAreAccounted, InternalsAbsent
<1> QED BY <1>1, <1>2, <1>3, <1>4, <1>5, <1>6, <1>7, <1>8

\* Recovery deletes a hidden file.
LEMMA RecSweepPreserves == ASSUME NEW c \in Calls, IInv, RecSweep(c) PROVE IInv'
<1> USE ConstantsAssumption, AbsentAssumption, NewIsFile DEF IInv, TypeOK, RecSweep, InHand, Goto,
        ToManual, counts, Next_manifest
<1>1. TypeOK'
  BY DEF Slot, ManState, JrnState, CallerPC, ExecPC, Result, RecPC
<1>2. ManifestFollows'
  BY DEF ManifestFollows, RecoveryPlace, InternalsAbsent
<1>3. JournalFollows'
  BY DEF JournalFollows, RecoveryPlace, Active, InternalsAbsent, ExecPC
<1>4. CallerFollows'
  BY DEF CallerFollows, RecoveryPlace, Active, InternalsAbsent, ExecPC
<1>5. ContentPlace'
  BY DEF ContentPlace, RecoveryPlace, Active, HasTarget, InternalsAbsent, ExecPC
<1>6. LeasePlace'
  BY DEF LeasePlace, Leased, HasTarget
<1>7. RecoveryPlace'
  BY DEF RecoveryPlace, InternalsAbsent
<1>8. LeftoversAreAccounted'
  BY DEF LeftoversAreAccounted, InternalsAbsent
<1> QED BY <1>1, <1>2, <1>3, <1>4, <1>5, <1>6, <1>7, <1>8

\* Recovery saves the decision.
LEMMA RecSavePreserves == ASSUME NEW c \in Calls, IInv, RecSave(c) PROVE IInv'
<1> USE ConstantsAssumption, AbsentAssumption, NewIsFile DEF IInv, TypeOK, RecSave, InHand,
        CleanRolledBack, Goto, ToManual, disk, counts, Readable, InternalsAbsent, MatchesBefore,
        Next_manifest
<1>1. TypeOK'
  BY DEF Slot, ManState, JrnState, CallerPC, ExecPC, Result, RecPC
<1>2. ManifestFollows'
  BY DEF ManifestFollows, RecoveryPlace
<1>3. JournalFollows'
  BY DEF JournalFollows, RecoveryPlace, Active, ExecPC
<1>4. CallerFollows'
  BY DEF CallerFollows, RecoveryPlace, Active, ExecPC
<1>5. ContentPlace'
  BY DEF ContentPlace, Active, HasTarget, ExecPC
<1>6. LeasePlace'
  BY DEF LeasePlace, Leased, HasTarget
<1>7. RecoveryPlace'
  BY DEF RecoveryPlace
<1>8. LeftoversAreAccounted'
  BY DEF LeftoversAreAccounted
<1> QED BY <1>1, <1>2, <1>3, <1>4, <1>5, <1>6, <1>7, <1>8

\* Recovery completes the journal.
LEMMA RecJournalPreserves == ASSUME NEW c \in Calls, IInv, RecJournal(c) PROVE IInv'
<1> USE ConstantsAssumption, AbsentAssumption, NewIsFile DEF IInv, TypeOK, RecJournal, InHand, Goto,
        ToManual, disk, counts, Next_manifest
<1>1. TypeOK'
  BY DEF Slot, ManState, JrnState, CallerPC, ExecPC, Result, RecPC
<1>2. ManifestFollows'
  BY DEF ManifestFollows, RecoveryPlace, InternalsAbsent
<1>3. JournalFollows'
  BY DEF JournalFollows, RecoveryPlace, Active, InternalsAbsent, ExecPC
<1>4. CallerFollows'
  BY DEF CallerFollows, RecoveryPlace, Active, InternalsAbsent, ExecPC
<1>5. ContentPlace'
  BY DEF ContentPlace, Active, HasTarget, ExecPC
<1>6. LeasePlace'
  BY DEF LeasePlace, Leased, HasTarget
<1>7. RecoveryPlace'
  BY DEF RecoveryPlace, InternalsAbsent
<1>8. LeftoversAreAccounted'
  BY DEF LeftoversAreAccounted, InternalsAbsent
<1> QED BY <1>1, <1>2, <1>3, <1>4, <1>5, <1>6, <1>7, <1>8

\* Recovery deletes the manifest.
LEMMA RecDeletePreserves == ASSUME NEW c \in Calls, IInv, RecDelete(c) PROVE IInv'
<1> USE ConstantsAssumption, AbsentAssumption, NewIsFile DEF IInv, TypeOK, RecDelete, InHand,
        Next_manifest, disk, counts
<1>1. TypeOK'
  BY DEF Slot, ManState, JrnState, CallerPC, ExecPC, Result, RecPC
<1>2. ManifestFollows'
  BY DEF ManifestFollows, RecoveryPlace, InternalsAbsent
<1>3. JournalFollows'
  BY DEF JournalFollows, Active, ExecPC
<1>4. CallerFollows'
  BY DEF CallerFollows, RecoveryPlace, Active, InternalsAbsent, ExecPC
<1>5. ContentPlace'
  BY DEF ContentPlace, Active, HasTarget, ExecPC
<1>6. LeasePlace'
  BY DEF LeasePlace, Leased, HasTarget
<1>7. RecoveryPlace'
  BY DEF RecoveryPlace, InternalsAbsent
<1>8. LeftoversAreAccounted'
  BY DEF RecoveryPlace, LeftoversAreAccounted, InternalsAbsent
<1> QED BY <1>1, <1>2, <1>3, <1>4, <1>5, <1>6, <1>7, <1>8

\* A storage failure stops recovery.
LEMMA RecFaultPreserves == ASSUME NEW c \in Calls, IInv, RecFault(c) PROVE IInv'
<1> USE ConstantsAssumption, AbsentAssumption, NewIsFile DEF IInv, TypeOK, RecFault, Fault,
        Next_manifest, disk
<1>1. TypeOK'
  BY DEF Slot, ManState, JrnState, CallerPC, ExecPC, Result, RecPC
<1>2. ManifestFollows'
  BY DEF ManifestFollows, RecoveryPlace, InternalsAbsent
<1>3. JournalFollows'
  BY DEF JournalFollows, RecoveryPlace, Active, InternalsAbsent, ExecPC
<1>4. CallerFollows'
  BY DEF CallerFollows, RecoveryPlace, Active, InternalsAbsent, ExecPC
<1>5. ContentPlace'
  BY DEF ContentPlace, Active, HasTarget, ExecPC
<1>6. LeasePlace'
  BY DEF LeasePlace, Leased, HasTarget
<1>7. RecoveryPlace'
  BY DEF RecoveryPlace, InternalsAbsent
<1>8. LeftoversAreAccounted'
  BY DEF LeftoversAreAccounted, InternalsAbsent
<1> QED BY <1>1, <1>2, <1>3, <1>4, <1>5, <1>6, <1>7, <1>8

\* Recovery ends with nothing left to take.
LEMMA RecDonePreserves == ASSUME IInv, RecDone PROVE IInv'
<1> USE ConstantsAssumption, AbsentAssumption, NewIsFile DEF IInv, TypeOK, RecDone, disk, durable,
        counts
<1>1. TypeOK'
  BY DEF Slot, ManState, JrnState, CallerPC, ExecPC, Result, RecPC
<1>2. ManifestFollows'
  BY DEF ManifestFollows
<1>3. JournalFollows'
  BY DEF JournalFollows, Active, ExecPC
<1>4. CallerFollows'
  BY DEF CallerFollows, Active, InternalsAbsent, ExecPC
<1>5. ContentPlace'
  BY DEF ContentPlace, Active, HasTarget, ExecPC
<1>6. LeasePlace'
  BY DEF LeasePlace, Leased, HasTarget
<1>7. RecoveryPlace'
  BY DEF RecoveryPlace, InternalsAbsent
<1>8. LeftoversAreAccounted'
  BY DEF LeftoversAreAccounted, InternalsAbsent
<1> QED BY <1>1, <1>2, <1>3, <1>4, <1>5, <1>6, <1>7, <1>8

-----------------------------------------------------------------------------
\* Steps that change nothing preserve the invariant.
LEMMA StutterPreserves == ASSUME IInv, UNCHANGED vars PROVE IInv'
<1> USE DEF IInv, vars, disk, durable, recv, counts
<1>1. TypeOK'
  BY DEF TypeOK
<1>2. ManifestFollows' /\ JournalFollows'
  BY DEF ManifestFollows, JournalFollows
<1>3. CallerFollows'
  BY DEF CallerFollows, InternalsAbsent
<1>4. ContentPlace' /\ LeasePlace'
  BY DEF ContentPlace, LeasePlace
<1>5. RecoveryPlace' /\ LeftoversAreAccounted'
  BY DEF RecoveryPlace, LeftoversAreAccounted, InternalsAbsent
<1> QED BY <1>1, <1>2, <1>3, <1>4, <1>5

\* The initial states satisfy the invariant.
LEMMA InitInvariant == Init => IInv
<1> SUFFICES ASSUME Init PROVE IInv
  OBVIOUS
<1> USE ConstantsAssumption, AbsentAssumption, NewIsFile DEF Init
<1>1. target \in Slot /\ \A c \in Calls : target # New(c)
  BY DEF Slot, File, Stamp, New
<1>2. TypeOK
  BY <1>1 DEF TypeOK, Slot, ManState, JrnState, CallerPC, ExecPC, RecPC, Result
<1>3. ManifestFollows /\ JournalFollows /\ CallerFollows
  BY DEF ManifestFollows, JournalFollows, CallerFollows, Active
<1>4. ContentPlace /\ LeasePlace
  BY <1>1 DEF ContentPlace, LeasePlace, Active, HasTarget, Leased
<1>5. RecoveryPlace /\ LeftoversAreAccounted
  BY DEF RecoveryPlace, LeftoversAreAccounted, InternalsAbsent
<1> QED BY <1>2, <1>3, <1>4, <1>5 DEF IInv

\* Every step preserves the invariant.
LEMMA NextPreserves == ASSUME IInv, [Next]_vars PROVE IInv'
<1>1. ASSUME NEW c \in Calls, CallerStep(c) PROVE IInv'
  BY <1>1, SnapshotPreserves, PreparePreserves, AdmitPreserves, JoinPreserves, AbandonPreserves,
     DiscardPreserves, FinalizePreserves, RetirePreserves, RetireDeletePreserves
     DEF CallerStep
<1>2. ASSUME NEW c \in Calls, ExecStep(c) PROVE IInv'
  BY <1>2, BeginManifestPreserves, CreateTempPreserves, WriteTempPreserves, WriteFailsPreserves,
     RefuseBegunPreserves, StagePreserves,
     StageMissingPreserves, LockPreserves, ClaimPreserves, ClaimUncertainPreserves,
     PublishPreserves, PublishUncertainPreserves, CommitPreserves, RefusePublishedPreserves,
     CleanupPreserves, SweepPreserves, UndoPublishedPreserves, UndoClaimedPreserves, PurgePreserves,
     SettlePreserves
     DEF ExecStep
<1>3. ASSUME NEW c \in Calls, RecStep(c) PROVE IInv'
  BY <1>3, RecTakePreserves, RecCommittedPreserves, RecUnstagedPreserves, RecScanPreserves,
     RecClaimPreserves, RecRestorePreserves, RecSweepPreserves, RecSavePreserves,
     RecJournalPreserves, RecDeletePreserves, RecFaultPreserves
     DEF RecStep
<1>4. ASSUME NEW c \in Calls, NEW s \in {"cancel", "timeout"}, Signal(c, s) PROVE IInv'
  BY <1>4, SignalPreserves
<1> QED BY <1>1, <1>2, <1>3, <1>4, CrashPreserves, RecDonePreserves, TargetEditPreserves,
           UserMeddlePreserves,
       StutterPreserves DEF Next

-----------------------------------------------------------------------------

\* The inductive invariant holds in every reachable state.
THEOREM InvariantHolds == Spec => []IInv
BY InitInvariant, NextPreserves, PTL DEF Spec

\* Type correctness of the transaction, its recovery and the user's edits.
THEOREM TypesHold == Spec => []TypeOK
<1>1. IInv => TypeOK
  BY DEF IInv
<1> QED BY <1>1, InvariantHolds, PTL

\* No hidden file is ever left without a manifest that will find it again.
THEOREM LeftoversHold == Spec => []LeftoversAreAccounted
<1>1. IInv => LeftoversAreAccounted
  BY DEF IInv
<1> QED BY <1>1, InvariantHolds, PTL

-----------------------------------------------------------------------------
(* NeverDestroys.                                                          *)

\* A file is on the disk under one of the four names.
LEMMA OnDiskNames ==
    \A f : f \in OnDisk <=> /\ f # Absent
                            /\ \/ f = target
                               \/ \E c \in Calls : f \in {bak[c], tmp[c], rbk[c]}
BY DEF OnDisk

\* ... and likewise after the step.
LEMMA OnDiskNamesNext ==
    \A f : f \in OnDisk' <=> /\ f # Absent
                             /\ \/ f = target'
                                \/ \E c \in Calls : f \in {bak'[c], tmp'[c], rbk'[c]}
BY DEF OnDisk

\* What one step may make disappear.
MayDrop(f) == \E c \in Calls :
                \/ man[c] = "COMMITTED" /\ f = bak[c]
                \/ f = New(c) /\ f \in {tmp[c], rbk[c]} /\ jrn[c] # "success"
                \/ f = Torn(c) /\ f = tmp[c] /\ tmp'[c] = New(c)

\* A step that leaves the four names alone drops nothing.
LEMMA SameDiskKeeps ==
    ASSUME UNCHANGED disk PROVE OnDisk \ OnDisk' = {}
BY OnDiskNames, OnDiskNamesNext DEF disk

\* A step of an executor drops a committed backup or unpublished content, or completes a file
\* it is writing.
LEMMA ExecKeeps ==
    ASSUME NEW c \in Calls, IInv, ExecStep(c), NEW f \in OnDisk \ OnDisk'
    PROVE  MayDrop(f)
<1> USE OnDiskNames, OnDiskNamesNext DEF IInv, TypeOK
<1>1. xpc[c] \in Active => jrn[c] # "success"
  BY DEF JournalFollows
<1>2. CASE UNCHANGED disk
  BY <1>2, SameDiskKeeps
<1>3. CASE CreateTemp(c)
  BY <1>3 DEF CreateTemp, InternalsAbsent
<1>10. CASE WriteTemp(c) \/ WriteFails(c)
  BY <1>10, TornIsFile DEF WriteTemp, WriteFails, Filled, MayDrop
<1>4. CASE Claim(c) \/ ClaimUncertain(c)
  BY <1>4 DEF Claim, ClaimUncertain
<1>5. CASE Publish(c) \/ PublishUncertain(c)
  BY <1>5 DEF Publish, PublishUncertain, NoReplace
<1>6. CASE Cleanup(c)
  BY <1>6 DEF Cleanup, ManifestFollows, MayDrop
<1>7. CASE Sweep(c)
  BY <1>1, <1>7 DEF Sweep, MayDrop, Active, ExecPC
<1>8. CASE UndoPublished(c) \/ UndoClaimed(c)
  BY <1>8 DEF UndoPublished, UndoClaimed, NoReplace
<1>9. CASE Purge(c)
  BY <1>1, <1>9 DEF Purge, MayDrop, Active, ExecPC, ContentPlace
<1> QED BY <1>2, <1>3, <1>4, <1>5, <1>6, <1>7, <1>8, <1>9, <1>10
   DEF ExecStep, BeginManifest, RefuseBegun, Stage, StageMissing, Lock, Commit,
       RefusePublished, Settle, disk

\* A step of recovery likewise.
LEMMA RecKeeps ==
    ASSUME NEW c \in Calls, IInv, RecStep(c), NEW f \in OnDisk \ OnDisk'
    PROVE  MayDrop(f)
<1> USE OnDiskNames, OnDiskNamesNext, AbsentAssumption DEF IInv, TypeOK
<1>1. CASE UNCHANGED disk
  BY <1>1, SameDiskKeeps
<1>2. CASE RecCommitted(c)
  BY <1>2 DEF RecCommitted, MayDrop
<1>3. CASE RecClaim(c)
  BY <1>3 DEF RecClaim
<1>4. CASE RecRestore(c)
  BY <1>4 DEF RecRestore
<1>5. CASE RecSweep(c)
  <2>1. jrn[c] # "success"
    BY <1>5 DEF RecSweep, InHand, RecoveryPlace, JournalFollows
  <2> QED BY <1>5, <2>1 DEF RecSweep, MayDrop
<1> QED BY <1>1, <1>2, <1>3, <1>4, <1>5
   DEF RecStep, RecTake, RecUnstaged, RecScan, RecSave, RecJournal, RecDelete, RecFault, disk

\* No step of the Worker destroys a file that is not its own to destroy.
THEOREM NothingIsDestroyed == Spec => NeverDestroys
<1>1. ASSUME IInv, [Next]_vars, externals' = externals, NEW f \in OnDisk \ OnDisk'
      PROVE  MayDrop(f)
  <2>1. CASE \E c \in Calls : ExecStep(c)
    BY <1>1, <2>1, ExecKeeps
  <2>2. CASE \E c \in Calls : RecStep(c)
    BY <1>1, <2>2, RecKeeps
  <2>3. CASE UNCHANGED disk
    BY <1>1, <2>3, SameDiskKeeps
  <2>4. CASE UserSave \/ UserDelete \/ UserMeddle
    BY <1>1, <2>4, ConstantsAssumption DEF UserSave, UserDelete, UserMeddle, Edit, IInv, TypeOK
  <2> QED BY <1>1, <2>1, <2>2, <2>3, <2>4
     DEF Next, CallerStep, Snapshot, Prepare, Admit, Join, Abandon, Discard, Finalize, Retire,
         RetireDelete, Signal, Crash, RecDone, vars, disk
<1>2. IInv /\ [Next]_vars =>
        [WorkerStep => \A f \in OnDisk \ OnDisk' :
            \E c \in Calls :
                \/ man[c] = "COMMITTED" /\ f = bak[c]
                \/ f = New(c) /\ f \in {tmp[c], rbk[c]} /\ jrn[c] # "success"
                \/ f = Torn(c) /\ f = tmp[c] /\ tmp'[c] = New(c)]_vars
  BY <1>1 DEF WorkerStep, MayDrop
<1> QED BY <1>2, InvariantHolds, PTL DEF Spec, NeverDestroys

-----------------------------------------------------------------------------
(* DecidedOnce.                                                            *)

\* How one step may change what is decided and reported of one call.
Reports(c, r) == ReportedOf(c) = "none" /\ ReportedOf(c)' = r
SameDecision(c) == DecidedOf(c)' = DecidedOf(c)
SameReport(c)   == ReportedOf(c)' = ReportedOf(c)

AbstractStep(c) ==
    \/ SameDecision(c) /\ SameReport(c)
    \/ DecidedOf(c) = "open" /\ DecidedOf(c)' \in {"commit", "abort"} /\ SameReport(c)
    \/ DecidedOf(c)' = "review" /\ SameReport(c)
    \/ Reports(c, "success") /\ DecidedOf(c) = "commit" /\ SameDecision(c)
    \/ Reports(c, "failed") /\ DecidedOf(c) \in {"open", "abort"} /\ DecidedOf(c)' = "abort"
    \/ Reports(c, "unknown") /\ SameDecision(c)

\* Only the call's own manifest and journal record may change.
OthersKeep(c) == \A d \in Calls : d # c => man'[d] = man[d] /\ jrn'[d] = jrn[d]

\* A change of one call along AbstractStep is a step of EffectDecision.
LEMMA AbstractStepMaps ==
    ASSUME NEW c \in Calls, OthersKeep(c), AbstractStep(c)
    PROVE  [Decision!Next]_<<[e \in Calls |-> DecidedOf(e)], [e \in Calls |-> ReportedOf(e)]>>
<1> DEFINE D == [e \in Calls |-> DecidedOf(e)]
           R == [e \in Calls |-> ReportedOf(e)]
<1>1. \A e \in Calls : e # c => D'[e] = D[e] /\ R'[e] = R[e]
  BY DEF OthersKeep, DecidedOf, ReportedOf
<1>2. D[c] = DecidedOf(c) /\ R[c] = ReportedOf(c) /\ D'[c] = DecidedOf(c)' /\ R'[c] = ReportedOf(c)'
  OBVIOUS
<1>3. /\ D' = [D EXCEPT ![c] = DecidedOf(c)']
      /\ R' = [R EXCEPT ![c] = ReportedOf(c)']
  BY <1>1, <1>2
<1>4. SameDecision(c) => D' = D
  BY <1>2, <1>3 DEF SameDecision
<1>5. SameReport(c) => R' = R
  BY <1>2, <1>3 DEF SameReport
<1> USE DEF Decision!Next
<1>6. CASE SameDecision(c) /\ SameReport(c)
  BY <1>4, <1>5, <1>6
<1>7. CASE DecidedOf(c) = "open" /\ DecidedOf(c)' \in {"commit", "abort"} /\ SameReport(c)
  <2>1. Decision!Decide(c)
    BY <1>2, <1>3, <1>5, <1>7 DEF Decision!Decide
  <2> QED BY <2>1
<1>8. CASE DecidedOf(c)' = "review" /\ SameReport(c)
  <2>1. Decision!Review(c)
    BY <1>3, <1>5, <1>8 DEF Decision!Review
  <2> QED BY <2>1
<1>9. CASE Reports(c, "success") /\ DecidedOf(c) = "commit" /\ SameDecision(c)
  <2>1. Decision!ReportSuccess(c)
    BY <1>2, <1>3, <1>4, <1>9 DEF Decision!ReportSuccess, Reports
  <2> QED BY <2>1
<1>10. CASE Reports(c, "failed") /\ DecidedOf(c) \in {"open", "abort"} /\ DecidedOf(c)' = "abort"
  <2>1. Decision!ReportFailure(c)
    BY <1>2, <1>3, <1>10 DEF Decision!ReportFailure, Reports
  <2> QED BY <2>1
<1>11. CASE Reports(c, "unknown") /\ SameDecision(c)
  <2>1. Decision!ReportUnknown(c)
    BY <1>2, <1>3, <1>4, <1>11 DEF Decision!ReportUnknown, Reports
  <2> QED BY <2>1
<1> QED BY <1>6, <1>7, <1>8, <1>9, <1>10, <1>11 DEF AbstractStep

\* Most steps leave both the manifests and the journal alone.
LEMMA DurableKeeps ==
    ASSUME UNCHANGED durable
    PROVE  UNCHANGED <<[e \in Calls |-> DecidedOf(e)], [e \in Calls |-> ReportedOf(e)]>>
BY DEF durable, DecidedOf, ReportedOf

\* The caller reports, and deletes a manifest the journal agrees with.
LEMMA CallerMaps ==
    ASSUME NEW c \in Calls, IInv,
           Admit(c) \/ Finalize(c) \/ Retire(c) \/ RetireDelete(c)
    PROVE  OthersKeep(c) /\ AbstractStep(c)
<1> USE DEF IInv, TypeOK, OthersKeep, AbstractStep, SameDecision, SameReport, Reports,
            DecidedOf, ReportedOf, JrnState, ManState
<1>1. CASE Admit(c)
  BY <1>1 DEF Admit, CallerFollows, JournalFollows
<1>2. CASE Finalize(c)
  BY <1>2 DEF Finalize, CallerFollows, Result
<1>3. CASE Retire(c)
  BY <1>3, RetireEffect DEF Retire
<1>4. CASE RetireDelete(c)
  BY <1>4 DEF RetireDelete, CallerFollows
<1> QED BY <1>1, <1>2, <1>3, <1>4

\* The executor opens the manifest, and decides.
LEMMA ExecMaps ==
    ASSUME NEW c \in Calls, IInv,
           BeginManifest(c) \/ Stage(c) \/ Commit(c) \/ RefusePublished(c) \/ Settle(c)
    PROVE  OthersKeep(c) /\ AbstractStep(c)
<1> USE DEF IInv, TypeOK, OthersKeep, AbstractStep, SameDecision, SameReport,
            DecidedOf, ReportedOf, ManifestFollows, JournalFollows, Active, ExecPC, Step
<1>1. CASE BeginManifest(c)
  BY <1>1 DEF BeginManifest
<1>2. CASE Stage(c)
  BY <1>2 DEF Stage
<1>3. CASE Commit(c)
  BY <1>3 DEF Commit
<1>4. CASE RefusePublished(c)
  BY <1>4 DEF RefusePublished
<1>5. CASE Settle(c)
  BY <1>5 DEF Settle, MayRollBack
<1> QED BY <1>1, <1>2, <1>3, <1>4, <1>5

\* Recovery decides what is open, reports what is decided, or asks for review.
LEMMA RecMaps ==
    ASSUME NEW c \in Calls, IInv, RecStep(c), ~ UNCHANGED durable
    PROVE  OthersKeep(c) /\ AbstractStep(c)
<1> USE DEF IInv, TypeOK, OthersKeep, AbstractStep, SameDecision, SameReport, Reports,
            DecidedOf, ReportedOf, ManState, JrnState, ToManual, durable
<1>1. CASE RecCommitted(c) \/ RecScan(c) \/ RecClaim(c) \/ RecRestore(c) \/ RecSweep(c)
  BY <1>1 DEF RecCommitted, RecScan, RecClaim, RecRestore, RecSweep
<1>2. CASE RecUnstaged(c)
  BY <1>2 DEF RecUnstaged, JournalFollows
<1>3. CASE RecSave(c)
  BY <1>3 DEF RecSave, InHand, RecoveryPlace, JournalFollows
<1>4. CASE RecJournal(c)
  BY <1>4 DEF RecJournal, InHand, RecoveryPlace
<1>5. CASE RecDelete(c)
  BY <1>5 DEF RecDelete, InHand, RecoveryPlace
<1>6. CASE RecFault(c)
  BY <1>6 DEF RecFault
<1> QED BY <1>1, <1>2, <1>3, <1>4, <1>5, <1>6 DEF RecStep, RecTake

\* The transaction protocol implements an effect decided once.
THEOREM VaultRefinesDecision == Spec => DecidedOnce
<1>1. Init => Decision!Init
  BY DEF Init, Decision!Init, DecidedOf, ReportedOf
<1>2. IInv /\ [Next]_vars =>
        [Decision!Next]_<<[c \in Calls |-> DecidedOf(c)], [c \in Calls |-> ReportedOf(c)]>>
  <2> SUFFICES ASSUME IInv, [Next]_vars, ~ UNCHANGED durable
               PROVE  \E c \in Calls : OthersKeep(c) /\ AbstractStep(c)
    BY AbstractStepMaps, DurableKeeps
  <2>1. CASE \E c \in Calls : CallerStep(c)
    BY <2>1, CallerMaps
       DEF CallerStep, Snapshot, Prepare, Join, Abandon, Discard, durable
  <2>2. CASE \E c \in Calls : ExecStep(c)
    BY <2>2, ExecMaps
       DEF ExecStep, CreateTemp, WriteTemp, WriteFails, RefuseBegun, StageMissing, Lock, Claim,
       ClaimUncertain, Publish,
           PublishUncertain, Cleanup, Sweep, UndoPublished, UndoClaimed, Purge, durable
  <2>3. CASE \E c \in Calls : RecStep(c)
    BY <2>3, RecMaps
  <2> QED BY <2>1, <2>2, <2>3
     DEF Next, Signal, Crash, RecDone, UserSave, UserDelete, UserMeddle, vars, durable
<1> QED BY <1>1, <1>2, InvariantHolds, PTL DEF Spec, DecidedOnce, Decision!Spec

-----------------------------------------------------------------------------
(* Where content can be: what FailureLeavesNoTrace and SuccessIsFinal need. *)

Has(f, c) == f # Absent /\ f.hash = c

\* No file holds the content of c, or a part of it.
NoTrace(c) ==
    /\ ~Has(target, c) /\ tmp[c] # Torn(c)
    /\ \A d \in Calls : ~Has(bak[d], c) /\ ~Has(tmp[d], c) /\ ~Has(rbk[d], c)

\* The executor of c has returned to the caller, who has not journalled it yet.
Told(c, r) == res[c] = r /\ (caller[c] = "journal" \/ (caller[c] = "executing" /\ xpc[c] = "finish"))

\* What a call finds and sets aside is not its own content; what it writes is.
OwnContent ==
    \A c \in Calls :
        /\ ~Has(before[c], c) /\ ~Has(bak[c], c)
        /\ \A f \in {tmp[c], rbk[c]} : f # Absent => f.hash \in {c, Alien, Partial}

\* A file cut short stays under the temporary name of the call that was writing it.
TornPlace ==
    /\ ~Has(target, Partial)
    /\ \A c \in Calls :
        /\ ~Has(before[c], Partial) /\ ~Has(bak[c], Partial) /\ ~Has(rbk[c], Partial)
        /\ Has(tmp[c], Partial) => tmp[c] = Torn(c)

\* The content of another call that a call builds on, once it is admitted, is that of a success.
BuiltOnSuccess ==
    \A c, d \in Calls : c # d =>
        /\ Has(before[d], c) => man[c] # "none" \/ jrn[c] \in {"success", "failed"}
        /\ Has(before[d], c) /\ caller[d] = "planned" => jrn[c] \in {"success", "failed"}
        /\ Has(before[d], c) /\ jrn[d] # "none" => jrn[c] = "success"
        /\ Has(bak[d], c) => jrn[c] = "success"

\* What an executor has locked is what its call planned on.
LockedAsPlanned ==
    \A c \in Calls : xpc[c] = "locked" /\ before[c] # Absent => SameContent(target, before[c])

\* What is undone, failed or not begun has left no trace.
Traceless ==
    \A c \in Calls :
        \/ man[c] = "none" /\ jrn[c] # "success"
        \/ man[c] = "ROLLED_BACK"
        \/ jrn[c] = "failed"
        \/ Told(c, "failed")
        => NoTrace(c)

\* What is told as a success, or confirmed by recovery, is in place.
InPlace(c) == tmp[c] = Absent /\ rbk[c] = Absent /\ (target = New(c) \/ externals > 0)
SuccessInPlace ==
    \A c \in Calls :
        \/ Told(c, "success")
        \/ rcur = c /\ rat = "journal" /\ man[c] = "COMMITTED"
        => InPlace(c)

TraceInv == /\ OwnContent /\ TornPlace /\ BuiltOnSuccess /\ LockedAsPlanned
            /\ Traceless /\ SuccessInPlace

\* Nothing spreads content but the executor that writes it.
LEMMA NoTraceStays ==
    ASSUME IInv, TraceInv, [Next]_vars, NEW c \in Calls, NoTrace(c), ~CreateTemp(c)
    PROVE  NoTrace(c)'
<1> USE TornIsFile DEF IInv, TypeOK, NoTrace, Has
<1>1. CASE UNCHANGED disk
  BY <1>1 DEF disk
<1>2. ASSUME NEW d \in Calls, CreateTemp(d) PROVE NoTrace(c)'
  BY <1>2, ConstantsAssumption DEF CreateTemp, Torn
<1>10. ASSUME NEW d \in Calls, WriteTemp(d) \/ WriteFails(d) PROVE NoTrace(c)'
  BY <1>10 DEF WriteTemp, WriteFails, Filled, New, Torn
<1>3. ASSUME NEW d \in Calls, Claim(d) \/ ClaimUncertain(d) PROVE NoTrace(c)'
  BY <1>3 DEF Claim, ClaimUncertain
<1>4. ASSUME NEW d \in Calls, Publish(d) \/ PublishUncertain(d) PROVE NoTrace(c)'
  BY <1>4 DEF Publish, PublishUncertain
<1>5. ASSUME NEW d \in Calls, Cleanup(d) \/ Sweep(d) \/ Purge(d) PROVE NoTrace(c)'
  BY <1>5 DEF Cleanup, Sweep, Purge
<1>6. ASSUME NEW d \in Calls, UndoPublished(d) \/ UndoClaimed(d) PROVE NoTrace(c)'
  BY <1>6 DEF UndoPublished, UndoClaimed
<1>7. ASSUME NEW d \in Calls, RecCommitted(d) \/ RecClaim(d) \/ RecRestore(d) \/ RecSweep(d)
      PROVE  NoTrace(c)'
  BY <1>7 DEF RecCommitted, RecClaim, RecRestore, RecSweep
<1>8. CASE UserSave \/ UserDelete
  BY <1>8, ConstantsAssumption DEF UserSave, UserDelete
<1>9. CASE UserMeddle
  <2>1. PICK d \in Calls :
          \/ \E s \in Meddled(bak[d]) : bak' = [bak EXCEPT ![d] = s] /\ UNCHANGED <<tmp, rbk>>
          \/ \E s \in Meddled(tmp[d]) : tmp' = [tmp EXCEPT ![d] = s] /\ UNCHANGED <<bak, rbk>>
          \/ \E s \in Meddled(rbk[d]) : rbk' = [rbk EXCEPT ![d] = s] /\ UNCHANGED <<bak, tmp>>
    BY <1>9 DEF UserMeddle
  <2>2. \A f : \A s \in Meddled(f) : ~Has(s, c) /\ s # Torn(c)
    BY ConstantsAssumption, TornIsFile DEF Meddled, Torn
  <2> QED BY <1>9, <2>1, <2>2 DEF UserMeddle
<1> HIDE DEF IInv, TypeOK, NoTrace, Has
<1> QED BY <1>1, <1>2, <1>3, <1>4, <1>5, <1>6, <1>7, <1>8, <1>9, <1>10
   DEF Next, CallerStep, ExecStep, RecStep, Snapshot, Prepare, Admit, Join, Abandon, Discard,
       Finalize, Retire, RetireDelete, Signal, Crash, RecDone, BeginManifest, RefuseBegun, Stage,
       StageMissing, Lock, Commit, RefusePublished, Settle, RecTake, RecUnstaged, RecScan,
       RecSave, RecJournal, RecDelete, RecFault, vars, disk

\* What the journal record of a call may do in one step ...
LEMMA JournalSteps ==
    ASSUME IInv, [Next]_vars, NEW c \in Calls
    PROVE  \/ jrn'[c] = jrn[c]
           \/ jrn[c] = "none" /\ Admit(c) /\ jrn'[c] = "started"
           \/ jrn[c] = "started" /\ Finalize(c) /\ jrn'[c] = res[c]
           \/ /\ jrn[c] = "started" /\ (Retire(c) \/ RecJournal(c))
              /\ jrn'[c] = IF man[c] = "COMMITTED" THEN "success" ELSE "failed"
<1> USE DEF IInv, TypeOK
<1>1. CASE UNCHANGED jrn
  BY <1>1
<1>2. ASSUME NEW d \in Calls, Admit(d) 
      PROVE  jrn'[c] = jrn[c] \/ (jrn[c] = "none" /\ Admit(c) /\ jrn'[c] = "started")
  BY <1>2 DEF Admit, CallerFollows
<1>3. ASSUME NEW d \in Calls, Finalize(d)
      PROVE  jrn'[c] = jrn[c] \/ (jrn[c] = "started" /\ Finalize(c) /\ jrn'[c] = res[c])
  <2>1. CASE d = c
    BY <1>3, <2>1 DEF Finalize, CallerFollows
  <2>2. CASE d # c
    BY <1>3, <2>2 DEF Finalize
  <2> QED BY <2>1, <2>2
<1>4. ASSUME NEW d \in Calls, Retire(d) \/ RecJournal(d)
      PROVE  \/ jrn'[c] = jrn[c]
             \/ /\ jrn[c] = "started" /\ (Retire(c) \/ RecJournal(c))
                /\ jrn'[c] = IF man[c] = "COMMITTED" THEN "success" ELSE "failed"
  BY <1>4 DEF Retire, RecJournal
<1> QED BY ZenonT(40), <1>1, <1>2, <1>3, <1>4
   DEF Next, CallerStep, ExecStep, RecStep, Snapshot, Prepare, Join, Abandon, Discard,
       RetireDelete, Signal, Crash, RecDone, BeginManifest, CreateTemp, WriteTemp, WriteFails,
       RefuseBegun, Stage,
       StageMissing, Lock, Claim, ClaimUncertain, Publish, PublishUncertain, Commit,
       RefusePublished, Cleanup, Sweep, UndoPublished, UndoClaimed, Purge, Settle, RecTake,
       RecCommitted, RecUnstaged, RecScan, RecClaim, RecRestore, RecSweep, RecSave, RecDelete,
       RecFault, UserSave, UserDelete, UserMeddle, vars, durable

\* ... and its manifest.
LEMMA ManifestSteps ==
    ASSUME IInv, [Next]_vars, NEW c \in Calls
    PROVE  \/ man'[c] = man[c]
           \/ /\ man'[c] = "none" /\ jrn'[c] = jrn[c]
              /\ \/ man[c] = "COMMITTED" /\ jrn[c] = "success"
                 \/ man[c] = "ROLLED_BACK" /\ jrn[c] = "failed"
           \/ /\ man'[c] = "ROLLED_BACK" /\ man[c] \in {"PREPARED", "STAGED"}
              /\ CleanRolledBack(c) /\ UNCHANGED disk
           \/ man'[c] \in {"PREPARED", "STAGED", "MANUAL_REVIEW"}
           \/ man'[c] = "COMMITTED" /\ rcur # c /\ mode = "running"
<1> USE DEF IInv, TypeOK
<1>1. CASE UNCHANGED man
  BY <1>1
<1>2. ASSUME NEW d \in Calls, RetireDelete(d) \/ RecDelete(d)
      PROVE  \/ man'[c] = man[c]
             \/ /\ man'[c] = "none" /\ jrn'[c] = jrn[c]
                /\ \/ man[c] = "COMMITTED" /\ jrn[c] = "success"
                   \/ man[c] = "ROLLED_BACK" /\ jrn[c] = "failed"
  BY <1>2 DEF RetireDelete, RecDelete, InHand, CallerFollows, RecoveryPlace
<1>3. ASSUME NEW d \in Calls, BeginManifest(d) \/ Stage(d)
      PROVE  man'[c] = man[c] \/ man'[c] \in {"PREPARED", "STAGED"}
  BY <1>3 DEF BeginManifest, Stage
<1>4. ASSUME NEW d \in Calls, Commit(d) \/ RefusePublished(d)
      PROVE  man'[c] = man[c] \/ (man'[c] = "COMMITTED" /\ rcur # c /\ mode = "running")
  BY <1>4, AbsentAssumption DEF Commit, RefusePublished, Step, Running, RecoveryPlace
<1>5. ASSUME NEW d \in Calls, Settle(d)
      PROVE  \/ man'[c] = man[c]
             \/ /\ man'[c] = "ROLLED_BACK" /\ man[c] \in {"PREPARED", "STAGED"}
                /\ CleanRolledBack(c) /\ UNCHANGED disk
  BY <1>5 DEF Settle, MayRollBack
<1>6. ASSUME NEW d \in Calls, RecUnstaged(d) \/ RecSave(d)
      PROVE  \/ man'[c] = man[c] \/ man'[c] = "MANUAL_REVIEW"
             \/ /\ man'[c] = "ROLLED_BACK" /\ man[c] \in {"PREPARED", "STAGED"}
                /\ CleanRolledBack(c) /\ UNCHANGED disk
  BY <1>6 DEF RecUnstaged, RecSave, ToManual, InHand, RecoveryPlace
<1>7. ASSUME NEW d \in Calls, \/ RecCommitted(d) \/ RecScan(d) \/ RecClaim(d) \/ RecRestore(d)
                              \/ RecSweep(d) \/ RecJournal(d) \/ RecFault(d)
      PROVE  man'[c] = man[c] \/ man'[c] = "MANUAL_REVIEW"
  BY <1>7 DEF RecCommitted, RecScan, RecClaim, RecRestore, RecSweep, RecJournal, RecFault, ToManual
<1> QED BY ZenonT(40), <1>1, <1>2, <1>3, <1>4, <1>5, <1>6, <1>7
   DEF Next, CallerStep, ExecStep, RecStep, Snapshot, Prepare, Admit, Join, Abandon, Discard,
       Finalize, Retire, Signal, Crash, RecDone, CreateTemp, WriteTemp, WriteFails, RefuseBegun,
       StageMissing, Lock,
       Claim, ClaimUncertain, Publish, PublishUncertain, Cleanup, Sweep, UndoPublished,
       UndoClaimed, Purge, RecTake, UserSave, UserDelete, UserMeddle, vars, durable

\* Which steps change the names on the disk.
LEMMA DiskWriters ==
    ASSUME [Next]_vars
    PROVE  /\ \/ UNCHANGED bak
              \/ \E d \in Calls : \/ Claim(d) \/ ClaimUncertain(d) \/ Cleanup(d) \/ UndoClaimed(d)
                                  \/ RecCommitted(d) \/ RecRestore(d)
              \/ UserMeddle
           /\ \/ UNCHANGED tmp
              \/ \E d \in Calls : \/ CreateTemp(d) \/ WriteTemp(d) \/ WriteFails(d) \/ Publish(d)
                                  \/ PublishUncertain(d) \/ Sweep(d) \/ Purge(d) \/ RecSweep(d)
              \/ UserMeddle
           /\ \/ UNCHANGED rbk
              \/ \E d \in Calls : UndoPublished(d) \/ RecClaim(d) \/ Purge(d) \/ RecSweep(d)
              \/ UserMeddle
           /\ \/ UNCHANGED target
              \/ \E d \in Calls : \/ Claim(d) \/ ClaimUncertain(d) \/ Publish(d)
                                  \/ PublishUncertain(d) \/ UndoPublished(d) \/ UndoClaimed(d)
                                  \/ RecClaim(d) \/ RecRestore(d)
              \/ UserSave \/ UserDelete
<1>1. ASSUME NEW d \in Calls, CallerStep(d) PROVE UNCHANGED disk
  BY <1>1 DEF CallerStep, Snapshot, Prepare, Admit, Join, Abandon, Discard, Finalize, Retire,
       RetireDelete, disk
<1>2. ASSUME NEW d \in Calls, NEW s \in {"cancel", "timeout"}, Signal(d, s) PROVE UNCHANGED disk
  BY <1>2 DEF Signal, disk
<1>3. ASSUME NEW d \in Calls,
             \/ BeginManifest(d) \/ RefuseBegun(d) \/ Stage(d) \/ StageMissing(d) \/ Lock(d)
             \/ Commit(d) \/ RefusePublished(d) \/ Settle(d)
      PROVE  UNCHANGED disk
  BY <1>3 DEF BeginManifest, RefuseBegun, Stage, StageMissing, Lock, Commit, RefusePublished,
       Settle, disk
<1>4. ASSUME NEW d \in Calls, Claim(d) \/ ClaimUncertain(d) PROVE UNCHANGED <<tmp, rbk>>
  BY <1>4 DEF Claim, ClaimUncertain
<1>5. ASSUME NEW d \in Calls, Publish(d) \/ PublishUncertain(d) PROVE UNCHANGED <<bak, rbk>>
  BY <1>5 DEF Publish, PublishUncertain
<1>6. ASSUME NEW d \in Calls, CreateTemp(d) \/ WriteTemp(d) \/ WriteFails(d) \/ Sweep(d)
      PROVE  UNCHANGED <<target, bak, rbk>>
  BY <1>6 DEF CreateTemp, WriteTemp, WriteFails, Sweep
<1>7. ASSUME NEW d \in Calls, Cleanup(d) PROVE UNCHANGED <<target, tmp, rbk>>
  BY <1>7 DEF Cleanup
<1>8. ASSUME NEW d \in Calls, UndoPublished(d) PROVE UNCHANGED <<bak, tmp>>
  BY <1>8 DEF UndoPublished
<1>9. ASSUME NEW d \in Calls, UndoClaimed(d) PROVE UNCHANGED <<tmp, rbk>>
  BY <1>9 DEF UndoClaimed
<1>10. ASSUME NEW d \in Calls, Purge(d) PROVE UNCHANGED <<target, bak>>
  BY <1>10 DEF Purge
<1>11. ASSUME NEW d \in Calls,
              \/ RecTake(d) \/ RecUnstaged(d) \/ RecScan(d) \/ RecSave(d) \/ RecJournal(d)
              \/ RecDelete(d) \/ RecFault(d)
       PROVE  UNCHANGED disk
  BY <1>11 DEF RecTake, RecUnstaged, RecScan, RecSave, RecJournal, RecDelete, RecFault, disk
<1>12. ASSUME NEW d \in Calls, RecCommitted(d) PROVE UNCHANGED <<target, tmp, rbk>>
  BY <1>12 DEF RecCommitted, disk
<1>13. ASSUME NEW d \in Calls, RecClaim(d) PROVE UNCHANGED <<bak, tmp>>
  BY <1>13 DEF RecClaim
<1>14. ASSUME NEW d \in Calls, RecRestore(d) PROVE UNCHANGED <<tmp, rbk>>
  BY <1>14 DEF RecRestore
<1>15. ASSUME NEW d \in Calls, RecSweep(d) PROVE UNCHANGED <<target, bak>>
  BY <1>15 DEF RecSweep
<1>16. CASE Crash \/ RecDone \/ UNCHANGED vars
  BY <1>16 DEF Crash, RecDone, vars, disk
<1>17. CASE UserSave \/ UserDelete
  <2>1. UNCHANGED <<bak, tmp, rbk>>  BY <1>17 DEF UserSave, UserDelete
  <2> QED  BY <1>17, <2>1
<1>18. CASE UserMeddle
  <2>1. UNCHANGED target  BY <1>18 DEF UserMeddle
  <2> QED  BY <1>18, <2>1
<1>19. ASSUME NEW d \in Calls, ExecStep(d)
       PROVE  \/ UNCHANGED disk
              \/ Claim(d) \/ ClaimUncertain(d) \/ Publish(d) \/ PublishUncertain(d)
              \/ CreateTemp(d) \/ WriteTemp(d) \/ WriteFails(d) \/ Sweep(d) \/ Cleanup(d)
              \/ UndoPublished(d) \/ UndoClaimed(d) \/ Purge(d)
  BY <1>3, <1>19 DEF ExecStep
<1>20. ASSUME NEW d \in Calls, RecStep(d)
       PROVE  \/ UNCHANGED disk
              \/ RecCommitted(d) \/ RecClaim(d) \/ RecRestore(d) \/ RecSweep(d)
  BY <1>11, <1>20 DEF RecStep
<1>21. CASE \E d \in Calls : ExecStep(d)
  BY <1>4, <1>5, <1>6, <1>7, <1>8, <1>9, <1>10, <1>19, <1>21 DEF disk
<1>22. CASE \E d \in Calls : RecStep(d)
  BY <1>12, <1>13, <1>14, <1>15, <1>20, <1>22 DEF disk
<1>23. CASE UNCHANGED disk
  BY <1>23 DEF disk
<1> QED
  BY <1>1, <1>2, <1>16, <1>17, <1>18, <1>21, <1>22, <1>23 DEF Next

\* How a step can change the backup, the temporary and the rollback name of a call ...
LEMMA BackupSteps ==
    ASSUME IInv, [Next]_vars, NEW c \in Calls
    PROVE  \/ bak'[c] \in {bak[c], Absent}
           \/ bak'[c] # Absent /\ bak'[c].hash = Alien
           \/ xpc[c] = "locked" /\ before[c] # Absent /\ bak'[c] = target /\ UNCHANGED jrn
<1> USE DEF IInv, TypeOK
<1>1. CASE UNCHANGED bak
  BY <1>1
<1>2. ASSUME NEW d \in Calls, Claim(d) \/ ClaimUncertain(d)
      PROVE  \/ bak'[c] = bak[c]
             \/ xpc[c] = "locked" /\ before[c] # Absent /\ bak'[c] = target /\ UNCHANGED jrn
  BY <1>2 DEF Claim, ClaimUncertain, Step, durable
<1>3. ASSUME NEW d \in Calls, Cleanup(d) \/ UndoClaimed(d) \/ RecCommitted(d) \/ RecRestore(d)
      PROVE  bak'[c] \in {bak[c], Absent}
  BY <1>3 DEF Cleanup, UndoClaimed, RecCommitted, RecRestore
<1>4. CASE UserMeddle
  <2>1. PICK d \in Calls : bak' = bak \/ \E s \in Meddled(bak[d]) : bak' = [bak EXCEPT ![d] = s]
    BY <1>4 DEF UserMeddle
  <2>2. \A f, s : s \in Meddled(f) => s = Absent \/ s.hash = Alien
    BY DEF Meddled
  <2> QED BY <2>1, <2>2
<1> QED  BY <1>1, <1>2, <1>3, <1>4, DiskWriters

LEMMA TemporarySteps ==
    ASSUME IInv, [Next]_vars, NEW c \in Calls
    PROVE  \/ tmp'[c] \in {tmp[c], Absent}
           \/ tmp[c] # Absent /\ tmp'[c] # Absent /\ tmp'[c].hash = Alien
           \/ xpc[c] = "begun" /\ tmp'[c] = Torn(c)
           \/ xpc[c] = "writing" /\ tmp[c] = Torn(c) /\ tmp'[c] = New(c)
<1> USE DEF IInv, TypeOK
<1>1. CASE UNCHANGED tmp
  BY <1>1
<1>2. ASSUME NEW d \in Calls, CreateTemp(d)
      PROVE  tmp'[c] = tmp[c] \/ (xpc[c] = "begun" /\ tmp'[c] = Torn(c))
  BY <1>2 DEF CreateTemp, Step
<1>5. ASSUME NEW d \in Calls, WriteTemp(d) \/ WriteFails(d)
      PROVE  \/ tmp'[c] = tmp[c]
             \/ xpc[c] = "writing" /\ tmp[c] = Torn(c) /\ tmp'[c] = New(c)
  BY <1>5 DEF WriteTemp, WriteFails, Filled, Step
<1>3. ASSUME NEW d \in Calls,
             Publish(d) \/ PublishUncertain(d) \/ Sweep(d) \/ Purge(d) \/ RecSweep(d)
      PROVE  tmp'[c] \in {tmp[c], Absent}
  BY <1>3 DEF Publish, PublishUncertain, Sweep, Purge, RecSweep
<1>4. CASE UserMeddle
  <2>1. PICK d \in Calls : tmp' = tmp \/ \E s \in Meddled(tmp[d]) : tmp' = [tmp EXCEPT ![d] = s]
    BY <1>4 DEF UserMeddle
  <2>2. \A f, s : s \in Meddled(f) => f # Absent /\ (s = Absent \/ s.hash = Alien)
    BY DEF Meddled
  <2> QED BY <2>1, <2>2
<1> QED  BY <1>1, <1>2, <1>3, <1>4, <1>5, DiskWriters

LEMMA RollbackSteps ==
    ASSUME IInv, [Next]_vars, NEW c \in Calls
    PROVE  \/ rbk'[c] \in {rbk[c], Absent}
           \/ rbk[c] # Absent /\ rbk'[c] # Absent /\ rbk'[c].hash = Alien
           \/ rbk'[c] = New(c) /\ (xpc[c] = "undo_published" \/ (rcur = c /\ rat = "claim"))
<1> USE DEF IInv, TypeOK
<1>1. CASE UNCHANGED rbk
  BY <1>1
<1>2. ASSUME NEW d \in Calls, UndoPublished(d)
      PROVE  rbk'[c] = rbk[c] \/ (rbk'[c] = New(c) /\ xpc[c] = "undo_published")
  BY <1>2 DEF UndoPublished, ContentPlace, HasTarget
<1>3. ASSUME NEW d \in Calls, RecClaim(d)
      PROVE  rbk'[c] = rbk[c] \/ (rbk'[c] = New(c) /\ rcur = c /\ rat = "claim")
  BY <1>3 DEF RecClaim, InHand
<1>4. ASSUME NEW d \in Calls, Purge(d) \/ RecSweep(d)
      PROVE  rbk'[c] \in {rbk[c], Absent}
  BY <1>4 DEF Purge, RecSweep
<1>5. CASE UserMeddle
  <2>1. PICK d \in Calls : rbk' = rbk \/ \E s \in Meddled(rbk[d]) : rbk' = [rbk EXCEPT ![d] = s]
    BY <1>5 DEF UserMeddle
  <2>2. \A f, s : s \in Meddled(f) => f # Absent /\ (s = Absent \/ s.hash = Alien)
    BY DEF Meddled
  <2> QED BY <2>1, <2>2
<1> QED  BY <1>1, <1>2, <1>3, <1>4, <1>5, DiskWriters

\* ... the target, which must be absent, or the acting step's own, to be changed ...
LEMMA TargetSteps ==
    ASSUME IInv, [Next]_vars
    PROVE  \/ target' = target \/ target = Absent
           \/ \E d \in Calls : /\ xpc[d] = "locked" /\ xpc'[d] # "locked" /\ before[d] # Absent
                               /\ target \in lease[d]
           \/ \E d \in Calls : xpc[d] = "undo_published" /\ target = New(d) /\ target \in lease[d]
           \/ \E d \in Calls : rcur = d /\ rat = "claim" /\ target = New(d)
           \/ Readable /\ externals' > 0
<1> USE DEF IInv, TypeOK
<1>1. CASE UNCHANGED target
  BY <1>1
<1>2. ASSUME NEW d \in Calls, Claim(d) \/ ClaimUncertain(d)
      PROVE  \/ target' = target
             \/ /\ xpc[d] = "locked" /\ xpc'[d] # "locked" /\ before[d] # Absent
                /\ target \in lease[d]
  BY <1>2 DEF Claim, ClaimUncertain, Step, LeasePlace
<1>3. ASSUME NEW d \in Calls, Publish(d) \/ PublishUncertain(d) \/ UndoClaimed(d) \/ RecRestore(d)
      PROVE  target' = target \/ target = Absent
  BY <1>3 DEF Publish, PublishUncertain, UndoClaimed, RecRestore, NoReplace
<1>4. ASSUME NEW d \in Calls, UndoPublished(d)
      PROVE  xpc[d] = "undo_published" /\ target = New(d) /\ target \in lease[d]
  BY <1>4 DEF UndoPublished, ContentPlace, LeasePlace, HasTarget, Leased
<1>5. ASSUME NEW d \in Calls, RecClaim(d)
      PROVE  target' = target \/ (rcur = d /\ rat = "claim" /\ target = New(d))
  BY <1>5 DEF RecClaim, InHand
<1>6. CASE UserSave \/ UserDelete
  BY <1>6, ConstantsAssumption DEF UserSave, UserDelete, Edit
<1> QED  BY <1>1, <1>2, <1>3, <1>4, <1>5, <1>6, DiskWriters

\* ... the plan, what the caller has been told, and what an executor has locked.
LEMMA PlanSteps ==
    ASSUME IInv, [Next]_vars, NEW c \in Calls
    PROVE  /\ \/ before'[c] = before[c]
              \/ /\ caller[c] = "idle" /\ jrn[c] = "none" /\ man[c] = "none" /\ xpc[c] = "none"
                 /\ before'[c] \in {target, Absent} /\ caller'[c] # "planned"
                 /\ UNCHANGED <<man, jrn, xpc>>
           /\ caller'[c] = "planned" /\ caller[c] # "planned" =>
                 PathAvailable /\ UNCHANGED <<man, jrn>> /\ before'[c] = before[c]
           /\ xpc'[c] = "locked" /\ xpc[c] # "locked" =>
                 Unchanged(c) /\ UNCHANGED <<target, before>>
<1> USE DEF IInv, TypeOK
<1>1. ASSUME NEW d \in Calls, Snapshot(d)
      PROVE  /\ \/ before'[c] = before[c]
                \/ /\ caller[c] = "idle" /\ jrn[c] = "none" /\ man[c] = "none" /\ xpc[c] = "none"
                   /\ before'[c] \in {target, Absent} /\ caller'[c] # "planned"
                   /\ UNCHANGED <<man, jrn, xpc>>
             /\ caller'[c] = "planned" => caller[c] = "planned"
             /\ UNCHANGED xpc
  BY <1>1 DEF Snapshot, CallerFollows, JournalFollows, durable
<1>2. ASSUME NEW d \in Calls, CallerStep(d), ~Snapshot(d)
      PROVE  /\ UNCHANGED before
             /\ caller'[c] = "planned" /\ caller[c] # "planned" =>
                   PathAvailable /\ UNCHANGED <<man, jrn>>
             /\ xpc'[c] = "locked" => xpc[c] = "locked"
  BY <1>2 DEF CallerStep, Prepare, Admit, Join, Abandon, Discard, Finalize, Retire, RetireDelete,
     durable
<1>3. ASSUME NEW d \in Calls, ExecStep(d)
      PROVE  /\ UNCHANGED <<before, caller>>
             /\ xpc'[c] = "locked" /\ xpc[c] # "locked" => Unchanged(c) /\ UNCHANGED target
  BY <1>3 DEF ExecStep, BeginManifest, CreateTemp, WriteTemp, WriteFails, RefuseBegun, Stage,
     StageMissing, Lock, Lockable,
              Claim, ClaimUncertain, Publish, PublishUncertain, Commit, RefusePublished, Cleanup,
              Sweep, UndoPublished, UndoClaimed, Purge, Settle, Step, Return, disk
<1>4. ASSUME NEW d \in Calls, RecStep(d) PROVE UNCHANGED <<before, caller, xpc>>
  BY <1>4 DEF RecStep, RecTake, RecCommitted, RecUnstaged, RecScan, RecClaim, RecRestore,
              RecSweep, RecSave, RecJournal, RecDelete, RecFault
<1> QED BY <1>1, <1>2, <1>3, <1>4
   DEF Next, Signal, Crash, RecDone, UserSave, UserDelete, UserMeddle, vars

\* A manifest that recovery has confirmed as committed.
LEMMA ConfirmSteps ==
    ASSUME IInv, [Next]_vars, NEW c \in Calls,
           rcur' = c, rat' = "journal", man'[c] = "COMMITTED"
    PROVE  (rcur = c /\ rat = "journal" /\ man[c] = "COMMITTED") \/ RecCommitted(c)
<1> USE AbsentAssumption DEF IInv, TypeOK, RecoveryPlace
<1>1. CASE UNCHANGED <<rcur, rat, man>>
  BY <1>1
<1>2. ASSUME NEW d \in Calls, CallerStep(d) \/ ExecStep(d)
      PROVE  rcur = Absent /\ rcur' = rcur
  BY <1>2 DEF CallerStep, ExecStep, Snapshot, Prepare, Admit, Join, Abandon, Discard, Finalize,
       Retire, RetireDelete, BeginManifest, CreateTemp, WriteTemp, WriteFails, RefuseBegun, Stage,
       StageMissing, Lock,
       Claim, ClaimUncertain, Publish, PublishUncertain, Commit, RefusePublished, Cleanup, Sweep,
       UndoPublished, UndoClaimed, Purge, Settle, Step, Running, recv
<1>3. ASSUME NEW d \in Calls, RecUnstaged(d) \/ RecSave(d)
      PROVE  FALSE
  BY <1>3 DEF RecUnstaged, RecSave, InHand, ToManual, Next_manifest, Goto
<1>4. ASSUME NEW d \in Calls, RecCommitted(d)
      PROVE  RecCommitted(c)
  BY <1>4 DEF RecCommitted, InHand, ToManual, Next_manifest, Goto
<1>5. ASSUME NEW d \in Calls, \/ RecTake(d) \/ RecScan(d) \/ RecClaim(d) \/ RecRestore(d)
                              \/ RecSweep(d) \/ RecJournal(d) \/ RecDelete(d) \/ RecFault(d)
      PROVE  FALSE
  BY <1>5 DEF RecTake, RecScan, RecClaim, RecRestore, RecSweep, RecJournal, RecDelete, RecFault,
       InHand, ToManual, Next_manifest, Goto, durable
<1>6. CASE Crash
  BY <1>6 DEF Crash
<1> QED BY <1>1, <1>2, <1>3, <1>4, <1>5, <1>6
   DEF Next, RecStep, Signal, RecDone, UserSave, UserDelete, UserMeddle, vars, durable, recv

\* The user's edits are only ever counted up.
LEMMA EditSteps ==
    ASSUME IInv, [Next]_vars PROVE externals' \in {externals, externals + 1}
<1> USE DEF IInv, TypeOK
<1>1. ASSUME NEW c \in Calls, CallerStep(c) PROVE externals' = externals
  BY <1>1 DEF CallerStep, Snapshot, Prepare, Admit, Join, Abandon, Discard, Finalize, Retire,
       RetireDelete, counts
<1>2. ASSUME NEW c \in Calls, ExecStep(c) PROVE externals' = externals
  BY <1>2 DEF ExecStep, BeginManifest, CreateTemp, WriteTemp, WriteFails, RefuseBegun, Stage,
     StageMissing, Lock, Claim,
       ClaimUncertain, Publish, PublishUncertain, Commit, RefusePublished, Cleanup, Sweep,
       UndoPublished, UndoClaimed, Purge, Settle, Fault, counts
<1>3. ASSUME NEW c \in Calls, RecStep(c) PROVE externals' = externals
  BY <1>3 DEF RecStep, RecTake, RecCommitted, RecUnstaged, RecScan, RecClaim, RecRestore, RecSweep,
       RecSave, RecJournal, RecDelete, RecFault, Fault, counts
<1>4. CASE UserSave \/ UserDelete \/ UserMeddle
  BY <1>4, ConstantsAssumption DEF UserSave, UserDelete, UserMeddle, Edit
<1> QED BY <1>1, <1>2, <1>3, <1>4 DEF Next, Signal, Crash, RecDone, vars, counts

\* What an executor has returned is judged in that very step, or was returned before.
LEMMA ToldSteps ==
    ASSUME IInv, [Next]_vars, NEW c \in Calls
    PROVE  /\ Told(c, "failed")' =>
                \/ Told(c, "failed")
                \/ xpc[c] = "start" /\ UNCHANGED disk
                \/ Settle(c) /\ MayRollBack(c)
           /\ Told(c, "success")' => Told(c, "success") \/ Cleanup(c)
<1> USE DEF IInv, TypeOK, Told
<1>1. ASSUME NEW d \in Calls, Snapshot(d) \/ Prepare(d) \/ Admit(d)
      PROVE  \A r : Told(c, r)' => Told(c, r)
  BY <1>1 DEF Snapshot, Prepare, Admit
<1>2. ASSUME NEW d \in Calls, Join(d) \/ Abandon(d)
      PROVE  \A r \in {"success", "failed"} : Told(c, r)' => Told(c, r)
  BY <1>2 DEF Join, Abandon
<1>3. ASSUME NEW d \in Calls, Discard(d) \/ Finalize(d) \/ Retire(d) \/ RetireDelete(d)
      PROVE  \A r : Told(c, r)' => Told(c, r)
  BY <1>3 DEF Discard, Finalize, Retire, RetireDelete
<1>4. ASSUME NEW d \in Calls, BeginManifest(d)
      PROVE  \A r : Told(c, r)' => Told(c, r) \/ (r = "failed" /\ xpc[c] = "start" /\ UNCHANGED disk)
  BY <1>4 DEF BeginManifest, Return
<1>5. ASSUME NEW d \in Calls, Settle(d)
      PROVE  \A r : Told(c, r)' => \/ Told(c, r) \/ r = "unknown"
                                   \/ r = "failed" /\ Settle(c) /\ MayRollBack(c)
  BY <1>5 DEF Settle, Return
<1>6. ASSUME NEW d \in Calls, Cleanup(d)
      PROVE  \A r : Told(c, r)' => Told(c, r) \/ (r = "success" /\ Cleanup(c))
  BY <1>6 DEF Cleanup, Return
<1>7. ASSUME NEW d \in Calls, \/ ClaimUncertain(d) \/ PublishUncertain(d) \/ Sweep(d)
                              \/ UndoPublished(d) \/ UndoClaimed(d) \/ Purge(d)
      PROVE  \A r : Told(c, r)' => Told(c, r) \/ r = "unknown"
  BY <1>7 DEF ClaimUncertain, PublishUncertain, Sweep, UndoPublished, UndoClaimed, Purge, Return
<1>8. ASSUME NEW d \in Calls, \/ WriteTemp(d) \/ CreateTemp(d) \/ WriteFails(d) \/ RefuseBegun(d)
                              \/ Stage(d) \/ StageMissing(d)
                              \/ Lock(d) \/ Claim(d) \/ Publish(d) \/ Commit(d) \/ RefusePublished(d)
      PROVE  \A r : Told(c, r)' => Told(c, r)
  BY <1>8 DEF CreateTemp, WriteTemp, WriteFails, RefuseBegun, Stage, StageMissing, Lock, Claim,
     Publish, Commit,
              RefusePublished, Step
<1>9. ASSUME NEW d \in Calls, RecStep(d) \/ \E s \in {"cancel", "timeout"} : Signal(d, s)
      PROVE  \A r : Told(c, r)' => Told(c, r)
  BY <1>9 DEF RecStep, RecTake, RecCommitted, RecUnstaged, RecScan, RecClaim, RecRestore, RecSweep,
              RecSave, RecJournal, RecDelete, RecFault, Signal
<1>10. CASE Crash
  BY <1>10 DEF Crash
<1>11. CASE RecDone \/ UserSave \/ UserDelete \/ UserMeddle \/ UNCHANGED vars
  BY <1>11 DEF RecDone, UserSave, UserDelete, UserMeddle, vars
<1> QED BY <1>1, <1>2, <1>3, <1>4, <1>5, <1>6, <1>7, <1>8, <1>9, <1>10, <1>11
   DEF Next, CallerStep, ExecStep

\* What is exactly as before holds nothing of the call, if it has not succeeded.
LEMMA CleanIsTraceless ==
    ASSUME TraceInv, NEW c \in Calls, CleanRolledBack(c), jrn[c] # "success"
    PROVE  NoTrace(c)
<1>1. ~Has(target, c)
  BY DEF CleanRolledBack, MatchesBefore, TraceInv, OwnContent
<1>2. ASSUME NEW d \in Calls PROVE ~Has(bak[d], c) /\ ~Has(tmp[d], c) /\ ~Has(rbk[d], c)
  <2>1. CASE d = c
    BY <2>1 DEF CleanRolledBack, InternalsAbsent, Has
  <2>2. CASE d # c
    BY <2>2, ConstantsAssumption DEF TraceInv, OwnContent, BuiltOnSuccess, Has
  <2> QED BY <2>1, <2>2
<1>3. tmp[c] # Torn(c)
  BY TornIsFile DEF CleanRolledBack, InternalsAbsent
<1> QED BY <1>1, <1>2, <1>3 DEF NoTrace

\* No step breaks what the names of a call may hold.
LEMMA OwnContentKept ==
    ASSUME IInv, TraceInv, [Next]_vars PROVE OwnContent'
<1> SUFFICES ASSUME NEW c \in Calls
             PROVE  /\ ~Has(before'[c], c) /\ ~Has(bak'[c], c)
                    /\ \A f \in {tmp'[c], rbk'[c]} : f # Absent => f.hash \in {c, Alien, Partial}
  BY DEF OwnContent, Has
<1>1. ~Has(before'[c], c)
  BY PlanSteps DEF TraceInv, OwnContent, Traceless, NoTrace, Has
<1>2. ~Has(bak'[c], c)
  BY BackupSteps, ConstantsAssumption DEF TraceInv, OwnContent, LockedAsPlanned, SameContent, Has
<1>3. /\ tmp[c] # Absent => tmp[c].hash \in {c, Alien, Partial}
      /\ rbk[c] # Absent => rbk[c].hash \in {c, Alien, Partial}
      /\ New(c).hash = c /\ Torn(c).hash = Partial
  BY DEF TraceInv, OwnContent, New, Torn
<1>4. tmp'[c] # Absent => tmp'[c].hash \in {c, Alien, Partial}
  BY <1>3, TemporarySteps
<1>5. rbk'[c] # Absent => rbk'[c].hash \in {c, Alien, Partial}
  BY <1>3, RollbackSteps
<1> QED BY <1>1, <1>2, <1>4, <1>5

\* No step publishes, claims or puts back a file that was cut short.
LEMMA TornPlaceKept ==
    ASSUME IInv, TraceInv, [Next]_vars PROVE TornPlace'
<1>0. TornPlace
  BY DEF TraceInv
<1> USE <1>0 DEF IInv, TypeOK, TornPlace, Has
<1>1. CASE UNCHANGED <<disk, before>>
  BY <1>1 DEF disk
<1>2. ASSUME NEW d \in Calls, Snapshot(d) PROVE TornPlace'
  BY <1>2 DEF Snapshot, disk
<1>3. ASSUME NEW d \in Calls, CreateTemp(d) PROVE TornPlace'
  BY <1>3 DEF CreateTemp
<1>4. ASSUME NEW d \in Calls, WriteTemp(d) \/ WriteFails(d) PROVE TornPlace'
  BY <1>4, ConstantsAssumption DEF WriteTemp, WriteFails, Filled, New
<1>5. ASSUME NEW d \in Calls, Claim(d) \/ ClaimUncertain(d) PROVE TornPlace'
  BY <1>5 DEF Claim, ClaimUncertain
<1>6. ASSUME NEW d \in Calls, Publish(d) \/ PublishUncertain(d) PROVE TornPlace'
  <2>1. tmp[d] = New(d) /\ New(d).hash # Partial
    BY <1>6, ConstantsAssumption DEF Publish, PublishUncertain, ContentPlace, New
  <2> QED BY <1>6, <2>1 DEF Publish, PublishUncertain
<1>7. ASSUME NEW d \in Calls, Cleanup(d) \/ Sweep(d) \/ Purge(d) PROVE TornPlace'
  BY <1>7 DEF Cleanup, Sweep, Purge
<1>8. ASSUME NEW d \in Calls, UndoPublished(d) \/ UndoClaimed(d) PROVE TornPlace'
  BY <1>8 DEF UndoPublished, UndoClaimed
<1>9. ASSUME NEW d \in Calls, RecCommitted(d) \/ RecClaim(d) \/ RecRestore(d) \/ RecSweep(d)
      PROVE  TornPlace'
  BY <1>9 DEF RecCommitted, RecClaim, RecRestore, RecSweep
<1>10. CASE UserSave \/ UserDelete
  BY <1>10, ConstantsAssumption DEF UserSave, UserDelete
<1>11. CASE UserMeddle
  <2>1. PICK d \in Calls :
          \/ \E s \in Meddled(bak[d]) : bak' = [bak EXCEPT ![d] = s] /\ UNCHANGED <<tmp, rbk>>
          \/ \E s \in Meddled(tmp[d]) : tmp' = [tmp EXCEPT ![d] = s] /\ UNCHANGED <<bak, rbk>>
          \/ \E s \in Meddled(rbk[d]) : rbk' = [rbk EXCEPT ![d] = s] /\ UNCHANGED <<bak, tmp>>
    BY <1>11 DEF UserMeddle
  <2>2. \A f : \A s \in Meddled(f) : s = Absent \/ s.hash # Partial
    BY ConstantsAssumption DEF Meddled
  <2> QED BY <1>11, <2>1, <2>2 DEF UserMeddle
<1> HIDE DEF IInv, TypeOK, TornPlace, Has
<1> QED BY <1>1, <1>2, <1>3, <1>4, <1>5, <1>6, <1>7, <1>8, <1>9, <1>10, <1>11
   DEF Next, CallerStep, ExecStep, RecStep, Prepare, Admit, Join, Abandon, Discard,
       Finalize, Retire, RetireDelete, Signal, Crash, RecDone, BeginManifest, RefuseBegun, Stage,
       StageMissing, Lock, Commit, RefusePublished, Settle, RecTake, RecUnstaged, RecScan,
       RecSave, RecJournal, RecDelete, RecFault, vars, disk

\* No step lets a call build on content that is not that of a success.
LEMMA BuiltOnSuccessKept ==
    ASSUME IInv, TraceInv, [Next]_vars PROVE BuiltOnSuccess'
<1> SUFFICES ASSUME NEW c \in Calls, NEW d \in Calls, c # d
             PROVE  /\ Has(before'[d], c) => man'[c] # "none" \/ jrn'[c] \in {"success", "failed"}
                    /\ Has(before'[d], c) /\ caller'[d] = "planned" => jrn'[c] \in {"success", "failed"}
                    /\ Has(before'[d], c) /\ jrn'[d] # "none" => jrn'[c] = "success"
                    /\ Has(bak'[d], c) => jrn'[c] = "success"
  BY DEF BuiltOnSuccess, Has
<1>0. /\ Has(before[d], c) => man[c] # "none" \/ jrn[c] \in {"success", "failed"}
      /\ Has(before[d], c) /\ caller[d] = "planned" => jrn[c] \in {"success", "failed"}
      /\ Has(before[d], c) /\ jrn[d] # "none" => jrn[c] = "success"
      /\ Has(bak[d], c) => jrn[c] = "success"
  BY DEF TraceInv, BuiltOnSuccess
<1>1. jrn[c] \in {"success", "failed"} => jrn'[c] = jrn[c]
  BY JournalSteps
<1>2. Has(target, c) => (man[c] # "none" \/ jrn[c] = "success") /\ jrn[c] # "failed"
  BY DEF TraceInv, Traceless, NoTrace
<1>3. Has(before'[d], c) => man'[c] # "none" \/ jrn'[c] \in {"success", "failed"}
  <2>1. CASE before'[d] = before[d]
    BY <1>0, <1>1, <2>1, ManifestSteps
  <2>2. CASE before'[d] \in {target, Absent} /\ UNCHANGED <<man, jrn>>
    BY <1>2, <2>2 DEF Has
  <2> QED BY <2>1, <2>2, PlanSteps
<1>4. Has(before'[d], c) /\ caller'[d] = "planned" => jrn'[c] \in {"success", "failed"}
  BY <1>0, <1>1, PlanSteps DEF PathAvailable
<1>5. Has(before'[d], c) /\ jrn'[d] # "none" => jrn'[c] = "success"
  <2>1. CASE jrn[d] # "none"
    BY <1>0, <1>1, <2>1, PlanSteps
  <2>2. CASE Admit(d)
    BY <1>0, <1>1, <1>2, <2>2 DEF Admit, Unchanged, SameContent, Has
  <2>3. CASE jrn'[d] = "none"
    BY <2>3
  <2> QED BY <2>1, <2>2, <2>3, JournalSteps
<1>6. Has(bak'[d], c) => jrn'[c] = "success"
  <2>1. CASE bak'[d] \in {bak[d], Absent}
    BY <1>0, <1>1, <2>1 DEF Has
  <2>2. CASE bak'[d].hash = Alien
    BY <2>2, ConstantsAssumption DEF Has
  <2>3. CASE xpc[d] = "locked" /\ before[d] # Absent /\ bak'[d] = target
    <3>1. jrn[d] # "none"
      BY <2>3 DEF IInv, JournalFollows, Active, ExecPC
    <3>2. Has(target, c) => Has(before[d], c)
      BY <2>3 DEF TraceInv, LockedAsPlanned, SameContent, Has
    <3> QED BY <1>0, <1>1, <2>3, <3>1, <3>2
  <2> QED BY <2>1, <2>2, <2>3, BackupSteps
<1> QED BY <1>3, <1>4, <1>5, <1>6

\* The lock is taken on the file of the plan, and nobody changes it while it is held.
LEMMA LockedAsPlannedKept ==
    ASSUME IInv, TraceInv, [Next]_vars PROVE LockedAsPlanned'
<1> SUFFICES ASSUME NEW c \in Calls, xpc'[c] = "locked", before'[c] # Absent
             PROVE  SameContent(target', before'[c])
  BY DEF LockedAsPlanned, SameContent
<1>1. CASE xpc[c] # "locked"
  BY <1>1, PlanSteps DEF Unchanged
<1>2. CASE xpc[c] = "locked"
  <2>1. before'[c] = before[c]
    BY <1>2, PlanSteps
  <2>2. target \in lease[c] /\ target # Absent
    BY <1>2, <2>1, AbsentAssumption DEF IInv, LeasePlace, TypeOK
  <2>3. mode = "running" /\ ~Readable
    BY <1>2, <2>2, HeldIsHeld DEF IInv, RecoveryPlace, TypeOK, Readable
  <2>4. rcur \notin Calls
    BY <2>3, AbsentAssumption DEF IInv, RecoveryPlace
  <2>5. \A d \in Calls : target \in lease[d] => d = c
    BY <2>2 DEF IInv, LeasePlace
  <2>6. target' = target
    BY <1>2, <2>2, <2>3, <2>4, <2>5, TargetSteps
  <2> QED BY <1>2, <2>1, <2>6 DEF TraceInv, LockedAsPlanned
<1> QED BY <1>1, <1>2

\* A call comes to nothing only where nothing of it is left.
LEMMA TracelessKept ==
    ASSUME IInv, TraceInv, [Next]_vars PROVE Traceless'
<1> SUFFICES ASSUME NEW c \in Calls,
                    \/ man'[c] = "none" /\ jrn'[c] # "success"
                    \/ man'[c] = "ROLLED_BACK"
                    \/ jrn'[c] = "failed"
                    \/ Told(c, "failed")'
             PROVE  NoTrace(c)'
  BY DEF Traceless
<1> DEFINE Gone == \/ man[c] = "none" /\ jrn[c] # "success"
                   \/ man[c] = "ROLLED_BACK"
                   \/ jrn[c] = "failed"
                   \/ Told(c, "failed")
<1>1. Gone => NoTrace(c)
  BY DEF TraceInv, Traceless
<1>2. CASE CreateTemp(c)
  BY <1>2 DEF CreateTemp, Step, IInv, TypeOK, ManifestFollows, JournalFollows, CallerFollows, Told,
              durable, Active, ExecPC
<1>3. CASE ~CreateTemp(c) /\ Gone
  BY <1>1, <1>3, NoTraceStays
<1>4. CASE ~Gone
  <2>1. ASSUME CleanRolledBack(c), jrn[c] # "success", UNCHANGED disk PROVE NoTrace(c)'
    BY <2>1, CleanIsTraceless DEF NoTrace, disk
  <2>2. CASE man'[c] = "ROLLED_BACK"
    <3>1. /\ man[c] \in {"PREPARED", "STAGED"} /\ CleanRolledBack(c) /\ UNCHANGED disk
      BY <1>4, <2>2, ManifestSteps
    <3>2. jrn[c] # "success"
      BY <3>1 DEF IInv, JournalFollows
    <3> QED BY <2>1, <3>1, <3>2
  <2>3. CASE jrn'[c] = "failed"
    <3>1. Finalize(c) => Told(c, jrn'[c]) \/ jrn'[c] = jrn[c]
      BY DEF Finalize, Told, IInv, TypeOK
    <3>2. (Retire(c) \/ RecJournal(c)) /\ man[c] # "COMMITTED" /\ jrn'[c] # jrn[c] => man[c] = "ROLLED_BACK"
      BY DEF Retire, RecJournal, InHand, IInv, TypeOK, RecoveryPlace
    <3> QED BY <1>4, <2>3, <3>1, <3>2, JournalSteps
  <2>4. CASE man'[c] = "none" /\ jrn'[c] # "success"
    BY <1>4, <2>4, ManifestSteps, JournalSteps
  <2>5. CASE Told(c, "failed")'
    <3>1. CASE xpc[c] = "start"
      BY <1>4, <3>1 DEF IInv, ManifestFollows, JournalFollows, Active, ExecPC
    <3>2. CASE Settle(c) /\ MayRollBack(c)
      <4>1. CleanRolledBack(c) /\ UNCHANGED disk /\ jrn[c] # "success"
        BY <3>2 DEF Settle, MayRollBack, IInv, JournalFollows
      <4> QED BY <2>1, <4>1
    <3> QED BY <1>4, <2>5, <3>1, <3>2, ToldSteps
  <2> QED BY <2>2, <2>3, <2>4, <2>5
<1> QED BY <1>2, <1>3, <1>4

\* A success is told, and confirmed, only over the content of the call in place.
LEMMA SuccessInPlaceKept ==
    ASSUME IInv, TraceInv, [Next]_vars PROVE SuccessInPlace'
<1> SUFFICES ASSUME NEW c \in Calls,
                    \/ Told(c, "success")'
                    \/ rcur' = c /\ rat' = "journal" /\ man'[c] = "COMMITTED"
             PROVE  InPlace(c)'
  BY DEF SuccessInPlace
<1>1. CASE Cleanup(c)
  BY <1>1 DEF Cleanup, InPlace, IInv, TypeOK, ContentPlace, HasTarget
<1>2. CASE RecCommitted(c) /\ rcur' = c
  BY <1>2, AbsentAssumption DEF RecCommitted, ToManual, Next_manifest, InPlace, IInv, TypeOK
<1> DEFINE Confirmed == rcur = c /\ rat = "journal" /\ man[c] = "COMMITTED"
<1>3. CASE Told(c, "success") \/ Confirmed
  <2>1. InPlace(c)
    BY <1>3 DEF TraceInv, SuccessInPlace
  <2>2. xpc[c] \notin Active /\ ~(rcur = c /\ rat = "claim")
    BY <1>3, AbsentAssumption DEF Told, Active, IInv, TypeOK, CallerFollows, RecoveryPlace
  <2>3. tmp'[c] = Absent /\ rbk'[c] = Absent
    BY <2>1, <2>2, TemporarySteps, RollbackSteps DEF InPlace, Active, ExecPC
  <2>4. externals > 0 => externals' > 0
    BY EditSteps, ConstantsAssumption DEF IInv, TypeOK
  <2>5. CASE target = New(c) /\ target' # New(c)
    <3>1. ASSUME NEW d \in Calls, xpc[d] = "locked", before[d] # Absent PROVE FALSE
      <4>1. jrn[d] # "none" /\ mode = "running" /\ d # c
        BY <2>2, <3>1 DEF IInv, TypeOK, JournalFollows, RecoveryPlace, Active, ExecPC
      <4>2. Has(before[d], c)
        BY <2>5, <3>1, NewIsFile DEF TraceInv, LockedAsPlanned, SameContent, Has, New
      <4>3. jrn[c] = "success"
        BY <4>1, <4>2 DEF TraceInv, BuiltOnSuccess
      <4>4. jrn[c] = "started"
        BY <1>3, <4>1 DEF Told, IInv, CallerFollows, RecoveryPlace
      <4> QED BY <4>3, <4>4
    <3>2. ASSUME NEW d \in Calls, target = New(d) PROVE d = c
      BY <2>5, <3>2, NewIsFile
    <3>3. target # Absent
      BY <2>5, NewIsFile
    <3>4. externals' > 0
      BY <2>2, <2>5, <3>1, <3>2, <3>3, TargetSteps DEF Active, ExecPC
    <3> QED BY <2>3, <3>4 DEF InPlace
  <2> QED BY <2>1, <2>3, <2>4, <2>5 DEF InPlace
<1>4. CASE ~Told(c, "success") /\ ~Confirmed
  <2>1. CASE Told(c, "success")'
    BY <1>1, <1>4, <2>1, ToldSteps
  <2>2. CASE rcur' = c /\ rat' = "journal" /\ man'[c] = "COMMITTED"
    BY <1>2, <1>4, <2>2, ConfirmSteps
  <2> QED BY <2>1, <2>2
<1> QED BY <1>3, <1>4

\* At the start no file holds the content of a call.
LEMMA TraceInit == Init => TraceInv
<1> SUFFICES ASSUME Init PROVE TraceInv
  OBVIOUS
<1> USE ConstantsAssumption DEF Init
<1>1. \A c \in Calls : NoTrace(c)
  BY TornIsFile DEF NoTrace, Has
<1>2. OwnContent /\ TornPlace /\ BuiltOnSuccess
  BY DEF OwnContent, TornPlace, BuiltOnSuccess, Has
<1>3. LockedAsPlanned /\ Traceless
  BY <1>1 DEF LockedAsPlanned, Traceless
<1>4. SuccessInPlace
  BY AbsentAssumption DEF SuccessInPlace, Told
<1> QED BY <1>2, <1>3, <1>4 DEF TraceInv

\* Where content can be, in every state.
LEMMA TraceHolds == Spec => []TraceInv
<1>1. IInv /\ TraceInv /\ [Next]_vars => TraceInv'
  BY OwnContentKept, TornPlaceKept, BuiltOnSuccessKept, LockedAsPlannedKept, TracelessKept,
     SuccessInPlaceKept
     DEF TraceInv
<1> QED BY <1>1, TraceInit, InvariantHolds, PTL DEF Spec

\* Of a call whose journal record says that it failed, nothing is left under any name, not even
\* a file whose writing or deletion failed half-way: the journal is written only when rollback
\* or recovery has seen the disk as it was before, content spreads to no other call's backup
\* unless the call has succeeded, and a file cut short never leaves its temporary name.
THEOREM FailuresLeaveNothing == Spec => []FailureLeavesNoTrace
<1>1. TraceInv => FailureLeavesNoTrace
  <2> SUFFICES ASSUME TraceInv, NEW c \in Calls, jrn[c] = "failed", NEW f \in OnDisk
               PROVE  f.hash # c /\ f # Torn(c)
    BY DEF FailureLeavesNoTrace
  <2>1. NoTrace(c)
    BY DEF TraceInv, Traceless
  <2>2. f.hash # c
    BY <2>1, OnDiskNames DEF NoTrace, Has
  <2>3. f # Torn(c)
    <3>1. f = Torn(c) => Has(f, Partial)
      BY TornIsFile DEF Has
    <3>2. f = Torn(c) => f = tmp[c]
      BY <3>1, OnDiskNames, TornIsFile DEF TraceInv, TornPlace
    <3> QED BY <2>1, <3>2 DEF NoTrace
  <2> QED BY <2>2, <2>3
<1> QED BY <1>1, TraceHolds, PTL

\* A success is journalled over a committed manifest and the new content in place, unless the
\* user has edited it since, and no later step moves the original back.
THEOREM SuccessesStay == Spec => SuccessIsFinal
<1>1. ASSUME IInv, TraceInv, [Next]_vars, NEW c \in Calls
      PROVE  /\ jrn[c] # "success" /\ jrn'[c] = "success" =>
                   /\ man[c] = "COMMITTED"
                   /\ rbk[c] = Absent /\ tmp[c] = Absent
                   /\ target = New(c) \/ externals > 0
             /\ jrn[c] = "success" /\ bak[c] # Absent /\ bak'[c] = Absent =>
                   target' # bak[c] \/ target' = target
  <2>1. ASSUME jrn[c] # "success", jrn'[c] = "success"
        PROVE  man[c] = "COMMITTED" /\ InPlace(c)
    <3>1. CASE Finalize(c) /\ jrn'[c] = res[c]
      BY <1>1, <2>1, <3>1 DEF Finalize, Told, TraceInv, SuccessInPlace, IInv, CallerFollows
    <3>2. CASE Retire(c) /\ man[c] = "COMMITTED"
      BY <2>1, <3>2 DEF Retire, CleanCommitted, InternalsAbsent, InPlace
    <3>3. CASE RecJournal(c) /\ man[c] = "COMMITTED"
      BY <1>1, <3>3 DEF RecJournal, InHand, TraceInv, SuccessInPlace
    <3> QED BY <1>1, <2>1, <3>1, <3>2, <3>3, JournalSteps
  <2>2. ASSUME jrn[c] = "success", bak[c] # Absent, bak'[c] # bak[c]
        PROVE  target' = target
    <3> USE <1>1, <2>2 DEF IInv, TypeOK
    <3>1. CASE UNCHANGED bak
      BY <3>1
    <3>2. ASSUME NEW d \in Calls, Claim(d) \/ ClaimUncertain(d) PROVE FALSE
      BY <3>2 DEF Claim, ClaimUncertain
    <3>3. ASSUME NEW d \in Calls, Cleanup(d) \/ RecCommitted(d) PROVE target' = target
      BY <3>3 DEF Cleanup, RecCommitted
    <3>4. ASSUME NEW d \in Calls, UndoClaimed(d) PROVE FALSE
      BY <3>4 DEF UndoClaimed, JournalFollows, Active, ExecPC
    <3>5. ASSUME NEW d \in Calls, RecRestore(d) PROVE FALSE
      BY <3>5 DEF RecRestore, InHand, RecoveryPlace, JournalFollows
    <3>6. CASE UserMeddle
      BY <3>6 DEF UserMeddle
    <3> QED  BY <3>1, <3>2, <3>3, <3>4, <3>5, <3>6, DiskWriters
  <2> QED BY <2>1, <2>2 DEF InPlace
<1>2. IInv /\ TraceInv /\ [Next]_vars =>
        [\A c \in Calls :
            /\ jrn[c] # "success" /\ jrn'[c] = "success" =>
                /\ man[c] = "COMMITTED"
                /\ rbk[c] = Absent /\ tmp[c] = Absent
                /\ target = New(c) \/ externals > 0
            /\ jrn[c] = "success" /\ bak[c] # Absent /\ bak'[c] = Absent =>
                target' # bak[c] \/ target' = target]_vars
  BY <1>1
<1> QED BY <1>2, InvariantHolds, TraceHolds, PTL DEF Spec, SuccessIsFinal

-----------------------------------------------------------------------------
(* ManualOnlyWithCause.  While nothing fails, nobody edits, and no caller   *)
(* has let go of one of several calls, the names hold exactly what the      *)
(* executor or the manifest says, and one call at a time has either.        *)

Calm == /\ faults = 0 /\ externals = 0
        /\ \A d, e \in Calls : d # e /\ jrn[e] # "none" => ctl[d] = "run"

\* The stations of the four names between the plan and the commit.
Before(c)      == target = before[c] /\ bak[c] = Absent /\ tmp[c] = Absent /\ rbk[c] = Absent
Opened(c)      == target = before[c] /\ bak[c] = Absent /\ tmp[c] = Torn(c) /\ rbk[c] = Absent
Written(c)     == target = before[c] /\ bak[c] = Absent /\ tmp[c] = New(c) /\ rbk[c] = Absent
Claimed(c)     == /\ before[c] # Absent
                  /\ target = Absent /\ bak[c] = before[c] /\ tmp[c] = New(c) /\ rbk[c] = Absent
Published(c)   == target = New(c) /\ bak[c] = before[c] /\ tmp[c] = Absent /\ rbk[c] = Absent
Unpublished(c) == /\ before[c] # Absent
                  /\ target = Absent /\ bak[c] = before[c] /\ tmp[c] = Absent /\ rbk[c] = New(c)
Undone(c)      == target = before[c] /\ bak[c] = Absent /\ tmp[c] = Absent /\ rbk[c] = New(c)
Committed(c)   == /\ target = New(c) /\ tmp[c] = Absent /\ rbk[c] = Absent
                  /\ bak[c] \in {Absent, before[c]}

\* Equal content means the same file, but for a file not written to its end.
Honest == /\ target # Absent => target.hash = target.id
          /\ \A c \in Calls : /\ \A f \in {before[c], bak[c], rbk[c]} : f # Absent => f.hash = f.id
                              /\ tmp[c] \notin {Absent, Torn(c)} => tmp[c].hash = tmp[c].id

\* Where an executor stands ...
StationOfExecutor(c) ==
    /\ xpc[c] # "sweep"
    /\ xpc[c] \in {"start", "begun", "settle"} => Before(c)
    /\ xpc[c] = "writing" => Opened(c)
    /\ xpc[c] \in {"temped", "staged", "locked"} => Written(c)
    /\ xpc[c] = "claimed" => Claimed(c)
    /\ xpc[c] \in {"published", "committed", "undo_published"} => Published(c)
    /\ xpc[c] \in {"undo_published", "undo_claimed", "purge"} => man[c] = "STAGED"
    /\ xpc[c] = "settle" => man[c] \in {"PREPARED", "STAGED"}
    /\ xpc[c] = "undo_claimed" => Unpublished(c)
    /\ xpc[c] = "purge" => Undone(c)

\* ... what its manifest tells ...
StationOfManifest(c) ==
    /\ man[c] = "PREPARED" => Before(c) \/ Opened(c) \/ Written(c)
    /\ man[c] = "STAGED" =>
          Before(c) \/ Written(c) \/ Claimed(c) \/ Published(c) \/ Unpublished(c) \/ Undone(c)
    /\ man[c] = "COMMITTED" => Committed(c)
    /\ man[c] = "ROLLED_BACK" => Before(c)
    /\ man[c] = "MANUAL_REVIEW" => jrn[c] = "unknown" \/ tmp[c] \in {New(c), Torn(c)}

\* ... what recovery has brought about ...
StationOfRecovery ==
    rcur # Absent =>
        /\ rat = "claim" => Published(rcur)
        /\ rat = "restore" => ~Published(rcur)
        /\ rat = "sweep" => Before(rcur) \/ Written(rcur) \/ Undone(rcur)
        /\ rat = "save" => Before(rcur)

\* ... and what the caller of an undisturbed call has been told.
Outcome(c, r) ==
    \/ r = "success" /\ man[c] = "COMMITTED" /\ target = New(c) /\ InternalsAbsent(c)
    \/ r = "failed" /\ man[c] = "ROLLED_BACK" /\ Before(c)
    \/ r = "failed" /\ man[c] = "none"
StationOfCaller(c) ==
    ctl[c] = "run" =>
        /\ xpc[c] = "finish" \/ caller[c] = "journal" => Outcome(c, res[c])
        /\ caller[c] = "retire" => Outcome(c, jrn[c])
        /\ caller[c] \in {"journal", "retire", "retire_delete", "done"} => xpc[c] = "none"
        /\ caller[c] = "done" => man[c] = "none"

Open(c) == xpc[c] # "none" \/ man[c] # "none"

OneAtATime == \A c, d \in Calls : Open(c) /\ Open(d) => c = d

CalmStations == /\ Honest /\ OneAtATime /\ StationOfRecovery
                /\ \A c \in Calls : /\ StationOfExecutor(c) /\ StationOfManifest(c)
                                    /\ StationOfCaller(c)

\* A caller gives a call up only after a signal; what a crash has left of a call is settled,
\* or is in the way of every plan.
GivenUp == \A c, d \in Calls :
    /\ caller[c] \in {"abort", "abort_delete"} => ctl[c] # "run"
    /\ caller[c] = "dead" => xpc[c] = "none"
    /\ caller[c] \in {"idle", "planning", "planned"} => ctl[c] = "run"
    /\ caller[c] = "dead" /\ caller[d] = "planned" => man[c] = "none"

CalmInv == GivenUp /\ (Calm => CalmStations)

\* The counters of faults and edits only grow, no signal is taken back, and what is dispatched
\* stays so: when all is calm after a step, it was before.
LEMMA CalmBefore ==
    ASSUME IInv, [Next]_vars, Calm'
    PROVE  Calm /\ UNCHANGED <<faults, externals>>
<1>1. faults' \in {faults, faults + 1}
  <2> USE DEF IInv, TypeOK
  <2>1. ASSUME NEW c \in Calls, CallerStep(c) PROVE faults' \in {faults, faults + 1}
    BY <2>1 DEF CallerStep, Snapshot, Prepare, Admit, Join, Abandon, Discard, Finalize, Retire,
         RetireDelete, counts
  <2>2. ASSUME NEW c \in Calls, ExecStep(c) PROVE faults' \in {faults, faults + 1}
    BY <2>2 DEF ExecStep, BeginManifest, CreateTemp, WriteTemp, WriteFails, RefuseBegun, Stage,
       StageMissing, Lock, Claim,
         ClaimUncertain, Publish, PublishUncertain, Commit, RefusePublished, Cleanup, Sweep,
         UndoPublished, UndoClaimed, Purge, Settle, Fault, counts
  <2>3. ASSUME NEW c \in Calls, RecStep(c) PROVE faults' \in {faults, faults + 1}
    BY <2>3 DEF RecStep, RecTake, RecCommitted, RecUnstaged, RecScan, RecClaim, RecRestore,
       RecSweep,
         RecSave, RecJournal, RecDelete, RecFault, Fault, counts
  <2> QED BY <2>1, <2>2, <2>3
     DEF Next, Signal, Crash, RecDone, UserSave, UserDelete, UserMeddle, Edit, vars, counts
<1>2. \A c \in Calls : ctl'[c] = "run" => ctl[c] = "run"
  <2> USE DEF IInv, TypeOK
  <2>1. ASSUME NEW d \in Calls, NEW s \in {"cancel", "timeout"}, Signal(d, s)
        PROVE  \A c \in Calls : ctl'[c] = "run" => ctl[c] = "run"
    BY <2>1 DEF Signal
  <2>2. ASSUME NEW d \in Calls, CallerStep(d)
        PROVE  \A c \in Calls : ctl'[c] = "run" => ctl[c] = "run"
    BY <2>2 DEF CallerStep, Snapshot, Prepare, Admit, Join, Abandon, Discard, Finalize, Retire,
         RetireDelete
  <2>3. ASSUME NEW d \in Calls, ExecStep(d) PROVE UNCHANGED ctl
    BY <2>3 DEF ExecStep, BeginManifest, CreateTemp, WriteTemp, WriteFails, RefuseBegun, Stage,
         StageMissing, Lock, Claim, ClaimUncertain, Publish, PublishUncertain, Commit,
         RefusePublished, Cleanup, Sweep, UndoPublished, UndoClaimed, Purge, Settle
  <2>4. ASSUME NEW d \in Calls, RecStep(d) PROVE UNCHANGED ctl
    BY <2>4 DEF RecStep, RecTake, RecCommitted, RecUnstaged, RecScan, RecClaim, RecRestore,
         RecSweep, RecSave, RecJournal, RecDelete, RecFault
  <2>5. CASE Crash \/ RecDone \/ UserSave \/ UserDelete \/ UserMeddle \/ UNCHANGED vars
    BY <2>5 DEF Crash, RecDone, UserSave, UserDelete, UserMeddle, vars
  <2> QED BY <2>1, <2>2, <2>3, <2>4, <2>5 DEF Next
<1>3. \A c \in Calls : jrn'[c] = "none" => jrn[c] = "none"
  BY JournalSteps DEF IInv, CallerFollows, Finalize, Result
<1>4. faults = 0 /\ externals = 0 /\ UNCHANGED <<faults, externals>>
  BY <1>1, EditSteps, ConstantsAssumption DEF Calm, IInv, TypeOK
<1> QED BY <1>2, <1>3, <1>4 DEF Calm

\* No step gives up a call that was not signalled.
LEMMA GivenUpKept ==
    ASSUME IInv, GivenUp, [Next]_vars PROVE GivenUp'
<1> USE DEF IInv, TypeOK, GivenUp
<1>1. ASSUME NEW c \in Calls, Snapshot(c) \/ Prepare(c) \/ Admit(c) PROVE GivenUp'
  BY <1>1 DEF Snapshot, Prepare, Admit, PathAvailable, durable
<1>2. ASSUME NEW c \in Calls, Join(c) \/ Abandon(c) \/ Discard(c) \/ Finalize(c) PROVE GivenUp'
  BY <1>2 DEF Join, Abandon, Discard, Finalize, durable
<1>3. ASSUME NEW c \in Calls, Retire(c) \/ RetireDelete(c) PROVE GivenUp'
  BY <1>3 DEF Retire, RetireDelete
<1>4. ASSUME NEW c \in Calls, NEW s \in {"cancel", "timeout"}, Signal(c, s) PROVE GivenUp'
  BY <1>4 DEF Signal, durable
<1>5. ASSUME NEW c \in Calls, ExecStep(c) PROVE GivenUp'
  <2>1. /\ xpc[c] # "none" /\ UNCHANGED <<caller, ctl>>
        /\ \A d \in Calls : d # c => xpc'[d] = xpc[d] /\ man'[d] = man[d]
    BY <1>5 DEF ExecStep, BeginManifest, CreateTemp, WriteTemp, WriteFails, RefuseBegun, Stage,
       StageMissing, Lock, Claim,
         ClaimUncertain, Publish, PublishUncertain, Commit, RefusePublished, Cleanup, Sweep,
         UndoPublished, UndoClaimed, Purge, Settle, Step, Return, durable
  <2> QED BY <2>1
<1>6. ASSUME NEW c \in Calls, RecStep(c) PROVE GivenUp'
  <2>1. UNCHANGED <<caller, ctl, xpc>> /\ \A d \in Calls : caller[d] # "planned"
    BY <1>6 DEF RecStep, RecTake, RecCommitted, RecUnstaged, RecScan, RecClaim, RecRestore,
       RecSweep,
         RecSave, RecJournal, RecDelete, RecFault, InHand, RecoveryPlace
  <2> QED BY <2>1
<1>7. CASE Crash
  BY <1>7 DEF Crash
<1>8. CASE RecDone \/ UserSave \/ UserDelete \/ UserMeddle \/ UNCHANGED vars
  BY <1>8 DEF RecDone, UserSave, UserDelete, UserMeddle, vars, durable
<1> QED BY <1>1, <1>2, <1>3, <1>4, <1>5, <1>6, <1>7, <1>8 DEF Next, CallerStep

\* While all is calm, content is identity.
LEMMA HonestKept ==
    ASSUME IInv, Honest, [Next]_vars, UNCHANGED <<faults, externals>>
    PROVE  Honest'
<1> USE DEF IInv, TypeOK, Honest
<1>1. CASE UNCHANGED <<disk, before>>
  BY <1>1 DEF disk
<1>2. ASSUME NEW d \in Calls, Snapshot(d) PROVE Honest'
  BY <1>2 DEF Snapshot, disk
<1>3. ASSUME NEW d \in Calls, CreateTemp(d) \/ WriteTemp(d) PROVE Honest'
  BY <1>3 DEF CreateTemp, WriteTemp, Filled, New
<1>10. ASSUME NEW d \in Calls, WriteFails(d) PROVE Honest'
  BY <1>10 DEF WriteFails, Fault
<1>4. ASSUME NEW d \in Calls, Claim(d) \/ ClaimUncertain(d) PROVE Honest'
  BY <1>4 DEF Claim, ClaimUncertain
<1>5. ASSUME NEW d \in Calls, Publish(d) \/ PublishUncertain(d) PROVE Honest'
  <2>1. tmp[d] = New(d) /\ New(d).hash = New(d).id
    BY <1>5 DEF Publish, PublishUncertain, ContentPlace, New
  <2> QED BY <1>5, <2>1 DEF Publish, PublishUncertain
<1>6. ASSUME NEW d \in Calls, Cleanup(d) \/ Sweep(d) \/ Purge(d) PROVE Honest'
  BY <1>6 DEF Cleanup, Sweep, Purge
<1>7. ASSUME NEW d \in Calls, UndoPublished(d) \/ UndoClaimed(d) PROVE Honest'
  BY <1>7 DEF UndoPublished, UndoClaimed
<1>8. ASSUME NEW d \in Calls, RecCommitted(d) \/ RecClaim(d) \/ RecRestore(d) \/ RecSweep(d)
      PROVE  Honest'
  BY <1>8 DEF RecCommitted, RecClaim, RecRestore, RecSweep
<1>9. ~(UserSave \/ UserDelete \/ UserMeddle)
  BY ConstantsAssumption DEF UserSave, UserDelete, UserMeddle, Edit
<1> HIDE DEF IInv, TypeOK, Honest
<1> QED BY <1>1, <1>2, <1>3, <1>4, <1>5, <1>6, <1>7, <1>8, <1>9, <1>10
   DEF Next, CallerStep, ExecStep, RecStep, Prepare, Admit, Join, Abandon, Discard,
       Finalize, Retire, RetireDelete, Signal, Crash, RecDone, BeginManifest, RefuseBegun, Stage,
       StageMissing, Lock, Commit, RefusePublished, Settle, RecTake, RecUnstaged, RecScan,
       RecSave, RecJournal, RecDelete, RecFault, vars, disk

\* A calm step, and what it keeps of one call.
Calmly == /\ IInv /\ TraceInv /\ GivenUp /\ Calm /\ Calm' /\ CalmStations
          /\ UNCHANGED <<faults, externals>>
StationsOf(c) == StationOfExecutor(c) /\ StationOfManifest(c) /\ StationOfCaller(c)

\* The one call that is open can open the target whenever it holds no handles.
LEMMA AloneIsReadable ==
    ASSUME Calmly, NEW c \in Calls, Open(c), xpc[c] \notin Leased
    PROVE  Readable
<1>1. \A d \in Calls : xpc[d] \notin Leased
  BY DEF Calmly, CalmStations, OneAtATime, Open, Leased, HasTarget
<1> QED BY <1>1 DEF Calmly, IInv, LeasePlace, Readable, HeldFiles

\* The calls that are not open look on.
LEMMA OthersLookOn ==
    ASSUME Calmly, NEW c \in Calls, Open(c),
           \A d \in Calls : d # c =>
               /\ xpc'[d] = xpc[d] /\ man'[d] = man[d] /\ caller'[d] = caller[d]
               /\ ctl'[d] = ctl[d] /\ res'[d] = res[d] /\ jrn'[d] = jrn[d]
    PROVE  OneAtATime' /\ \A d \in Calls : d # c => StationsOf(d)'
<1>1. \A d \in Calls : d # c => xpc[d] = "none" /\ man[d] = "none" /\ StationsOf(d)
  BY DEF Calmly, CalmStations, OneAtATime, Open, StationsOf
<1>2. OneAtATime'
  BY <1>1 DEF OneAtATime, Open
<1>3. ASSUME NEW d \in Calls, d # c PROVE StationsOf(d)'
  <2>1. xpc'[d] = "none" /\ man'[d] = "none" /\ StationsOf(d)
    BY <1>1, <1>3
  <2>2. StationOfExecutor(d)' /\ StationOfManifest(d)'
    BY <2>1 DEF StationOfExecutor, StationOfManifest
  <2>3. StationOfCaller(d)'
    BY <1>1, <1>3, <2>1 DEF StationsOf, StationOfCaller, Outcome
  <2> QED BY <2>2, <2>3 DEF StationsOf
<1> QED BY <1>2, <1>3

\* What an executor's step changes is its own call's.
LEMMA ExecutorIsAlone ==
    ASSUME Calmly, NEW c \in Calls, ExecStep(c)
    PROVE  /\ Open(c) /\ mode = "running" /\ rcur' = Absent
           /\ UNCHANGED <<jrn, before, caller, ctl>>
           /\ \A d \in Calls : d # c =>
               /\ xpc'[d] = xpc[d] /\ man'[d] = man[d] /\ caller'[d] = caller[d]
               /\ ctl'[d] = ctl[d] /\ res'[d] = res[d] /\ jrn'[d] = jrn[d]
<1> USE DEF Calmly, IInv, TypeOK
<1>1. xpc[c] # "none" /\ mode = "running" /\ UNCHANGED <<jrn, before, caller, ctl, rcur>>
  BY DEF ExecStep, BeginManifest, CreateTemp, WriteTemp, WriteFails, RefuseBegun, Stage,
     StageMissing, Lock, Claim,
         ClaimUncertain, Publish, PublishUncertain, Commit, RefusePublished, Cleanup, Sweep,
         UndoPublished, UndoClaimed, Purge, Settle, Step, Running, durable, recv
<1>2. \A d \in Calls : d # c => xpc'[d] = xpc[d] /\ man'[d] = man[d] /\ res'[d] = res[d]
  BY DEF ExecStep, BeginManifest, CreateTemp, WriteTemp, WriteFails, RefuseBegun, Stage,
     StageMissing, Lock, Claim,
         ClaimUncertain, Publish, PublishUncertain, Commit, RefusePublished, Cleanup, Sweep,
         UndoPublished, UndoClaimed, Purge, Settle, Step, Return, durable
<1>3. rcur = Absent
  BY <1>1, AbsentAssumption DEF RecoveryPlace
<1> QED BY <1>1, <1>2, <1>3 DEF Open

\* A caller that nobody has signalled waits for its executor.
LEMMA CallerWaits ==
    ASSUME Calmly, NEW c \in Calls, ctl[c] = "run", xpc[c] # "none"
    PROVE  caller[c] = "executing"
<1>1. caller[c] \notin {"journal", "retire", "retire_delete", "done"}
  BY DEF Calmly, CalmStations, StationOfCaller
<1>2. caller[c] \notin {"abort", "abort_delete", "dead"}
  BY DEF Calmly, GivenUp
<1>3. caller[c] \notin {"idle", "planning", "planned"}
  BY DEF Calmly, IInv, CallerFollows, JournalFollows
<1> QED BY <1>1, <1>2, <1>3 DEF Calmly, IInv, TypeOK, CallerPC

\* The executor goes from station to station.
LEMMA ExecutorGoesOn ==
    ASSUME Calmly, NEW c \in Calls, ExecStep(c)
    PROVE  StationsOf(c)'
<1> USE CallerWaits, NewIsFile
    DEF Calmly, CalmStations, IInv, TypeOK, StationsOf, StationOfExecutor, StationOfManifest,
        StationOfCaller, ManifestFollows, Return, Step
<1>0. ~(faults < MaxFaults /\ faults' = faults + 1)
  BY DEF IInv, TypeOK
<1>1. CASE BeginManifest(c)
  BY <1>0, <1>1 DEF BeginManifest, Fault, Before, Outcome, disk
<1>2. CASE CreateTemp(c)
  BY <1>2 DEF CreateTemp, Before, Opened, durable
<1>16. CASE WriteTemp(c)
  BY <1>16 DEF WriteTemp, Filled, Opened, Written, durable
<1>3. CASE RefuseBegun(c) \/ StageMissing(c)
  BY <1>3 DEF RefuseBegun, StageMissing, Before, Written, disk, durable
<1>4. CASE Stage(c)
  BY <1>0, <1>4 DEF Stage, Fault, Written, disk
<1>5. CASE Lock(c)
  <2>1. xpc[c] = "staged" /\ Readable
    BY <1>5, AloneIsReadable DEF Lock, Open, Leased, HasTarget
  <2>2. Lockable(c)
    BY <2>1 DEF Lockable, Unchanged, SameContent, Written
  <2> QED BY <1>0, <1>5, <2>1, <2>2 DEF Lock, Fault, Written, disk, durable
<1>6. CASE Claim(c)
  BY <1>0, <1>6 DEF Claim, Fault, Written, Claimed, durable
<1>7. CASE WriteFails(c) \/ ClaimUncertain(c) \/ PublishUncertain(c) \/ Sweep(c)
  BY <1>0, <1>7 DEF WriteFails, ClaimUncertain, PublishUncertain, Sweep, Fault
<1>8. CASE Publish(c)
  BY <1>8 DEF Publish, NoReplace, Written, Claimed, Published, durable
<1>9. CASE Commit(c)
  BY <1>9 DEF Commit, Published, Committed, disk
<1>10. CASE RefusePublished(c)
  BY <1>0, <1>10 DEF RefusePublished, Fault, Published, disk
<1>11. CASE Cleanup(c)
  BY <1>0, <1>11 DEF Cleanup, Fault, Published, Committed, Outcome, InternalsAbsent, durable
<1>12. CASE UndoPublished(c)
  BY <1>0, <1>12 DEF UndoPublished, Fault, Published, Unpublished, Undone, durable
<1>13. CASE UndoClaimed(c)
  BY <1>0, <1>13 DEF UndoClaimed, Fault, NoReplace, Unpublished, Undone, durable
<1>14. CASE Purge(c)
  BY <1>0, <1>14 DEF Purge, Fault, Undone, Before, durable
<1>15. CASE Settle(c)
  <2>1. xpc[c] = "settle" /\ Readable
    BY <1>15, AloneIsReadable DEF Settle, Open, Leased, HasTarget
  <2>2. MayRollBack(c)
    BY <2>1 DEF MayRollBack, CleanRolledBack, InternalsAbsent, MatchesBefore, Before
  <2> QED BY <1>0, <1>15, <2>1, <2>2 DEF Settle, Fault, Before, Outcome, disk
<1> QED BY <1>1, <1>2, <1>3, <1>4, <1>5, <1>6, <1>7, <1>8, <1>9, <1>10, <1>11, <1>12, <1>13,
           <1>14, <1>15, <1>16 DEF ExecStep

\* So an executor's step keeps all of them.
LEMMA ExecutorStaysCalm ==
    ASSUME Calmly, NEW c \in Calls, ExecStep(c)
    PROVE  OneAtATime' /\ StationOfRecovery' /\ \A d \in Calls : StationsOf(d)'
<1>1. OneAtATime' /\ \A d \in Calls : d # c => StationsOf(d)'
  BY ExecutorIsAlone, OthersLookOn
<1>2. StationOfRecovery'
  BY ExecutorIsAlone DEF StationOfRecovery
<1> QED BY <1>1, <1>2, ExecutorGoesOn

\* Recovery leads every station back to the start, or forward to the commit.
LEMMA RecoveryGoesOn ==
    ASSUME Calmly, NEW c \in Calls, RecStep(c)
    PROVE  StationOfRecovery' /\ StationOfManifest(c)'
<1> USE AbsentAssumption, NewIsFile, TornIsFile
    DEF Calmly, CalmStations, IInv, TypeOK, StationOfRecovery, StationOfManifest, InHand
<1>0. ~(faults < MaxFaults /\ faults' = faults + 1)
  OBVIOUS
<1>1. mode = "recovering" /\ xpc[c] = "none" /\ Readable
  <2>1. mode = "recovering" /\ c \in rq
    BY DEF RecStep, RecTake, RecCommitted, RecUnstaged, RecScan, RecClaim, RecRestore, RecSweep,
           RecSave, RecJournal, RecDelete, RecFault, RecoveryPlace
  <2>2. xpc[c] = "none" /\ man[c] # "none"
    BY <2>1 DEF RecoveryPlace
  <2> QED BY <2>1, <2>2, AloneIsReadable DEF Open, Leased, HasTarget
<1>2. before[c] # New(c)
  BY DEF TraceInv, OwnContent, Has, New
<1>3. CASE RecTake(c)
  BY <1>3 DEF RecTake, RecoveryPlace, disk, durable, Before, Opened, Written, Claimed, Published,
       Unpublished, Undone, Committed
<1>4. CASE RecCommitted(c)
  BY <1>4 DEF RecCommitted, Committed, MatchesBefore, Goto
<1>5. CASE RecUnstaged(c)
  <2>1. CASE Before(c)
    BY <1>1, <1>5, <2>1 DEF RecUnstaged, CleanRolledBack, InternalsAbsent, MatchesBefore, Before,
         Goto, disk
  <2>2. CASE Written(c)
    BY <1>5, <2>2 DEF RecUnstaged, CleanRolledBack, InternalsAbsent, Written, ToManual,
         Next_manifest, disk
  <2>3. CASE Opened(c)
    BY <1>5, <2>3 DEF RecUnstaged, CleanRolledBack, InternalsAbsent, Opened, ToManual,
         Next_manifest, disk
  <2> QED BY <1>5, <2>1, <2>2, <2>3 DEF RecUnstaged
<1>6. CASE RecScan(c)
  <2>1. ~StagedDrift(c) /\ (target = New(c) => Published(c))
    BY <1>2, <1>6 DEF RecScan, Undecided, StagedDrift, MatchesBefore, Before, Opened, Written,
       Claimed,
         Published, Unpublished, Undone
  <2>2. UNCHANGED <<disk, man, jrn, before>> /\ rcur' = c
        /\ rat' = IF target = New(c) THEN "claim" ELSE "restore"
    BY <1>6, <2>1 DEF RecScan, Goto
  <2> QED BY <2>1, <2>2 DEF disk, Before, Opened, Written, Claimed, Published, Unpublished, Undone,
             Committed
<1>7. CASE RecClaim(c)
  <2>1. Published(c) /\ man[c] = "STAGED"
    BY <1>7 DEF RecClaim, RecoveryPlace
  <2>2. /\ target' = Absent /\ rbk'[c] = New(c) /\ UNCHANGED <<bak, tmp, man, jrn, before>>
        /\ rcur' = c /\ rat' = "restore"
    BY <1>7, <2>1 DEF RecClaim, Published, Goto
  <2> QED BY <2>1, <2>2 DEF Published, Unpublished, Undone
<1>8. CASE RecRestore(c)
  <2>1. ~Published(c) /\ man[c] = "STAGED"
    BY <1>8 DEF RecRestore, RecoveryPlace
  <2>2. UNCHANGED <<tmp, rbk, man, jrn, before>> /\ rcur' = c /\ rat' = "sweep"
    BY <1>2, <1>8, <2>1 DEF RecRestore, MatchesBefore, Goto, Before, Opened, Written, Claimed,
       Published,
         Unpublished, Undone
  <2>3. Before(c)' \/ Written(c)' \/ Undone(c)'
    BY <1>2, <1>8, <2>1, <2>2 DEF RecRestore, MatchesBefore, Before, Opened, Written, Claimed,
       Published,
         Unpublished, Undone
  <2> QED BY <2>1, <2>2, <2>3
<1>9. CASE RecSweep(c)
  <2>1. (Before(c) \/ Written(c) \/ Undone(c)) /\ man[c] = "STAGED"
    BY <1>9 DEF RecSweep, RecoveryPlace
  <2>2. /\ tmp'[c] = Absent /\ rbk'[c] = Absent /\ UNCHANGED <<target, bak, man, jrn, before>>
        /\ rcur' = c /\ rat' = "save"
    BY <1>9, <2>1 DEF RecSweep, Goto, Before, Written, Undone
  <2> QED BY <2>1, <2>2 DEF Before, Written, Undone
<1>10. CASE RecSave(c)
  <2>1. Before(c) /\ CleanRolledBack(c)
    BY <1>1, <1>10 DEF RecSave, CleanRolledBack, InternalsAbsent, MatchesBefore, Before
  <2> QED BY <1>10, <2>1 DEF RecSave, Goto, Before, disk
<1>11. CASE RecJournal(c)
  BY <1>11 DEF RecJournal, RecoveryPlace, JournalFollows, JrnState, Goto, ToManual, Next_manifest,
     disk, Before,
       Committed
<1>12. CASE RecDelete(c) \/ RecFault(c)
  BY <1>0, <1>12 DEF RecDelete, RecFault, Fault, Next_manifest
<1> QED BY <1>3, <1>4, <1>5, <1>6, <1>7, <1>8, <1>9, <1>10, <1>11, <1>12 DEF RecStep

\* So a step of recovery keeps all of them.
LEMMA RecoveryStaysCalm ==
    ASSUME Calmly, NEW c \in Calls, RecStep(c)
    PROVE  OneAtATime' /\ StationOfRecovery' /\ \A d \in Calls : StationsOf(d)'
<1> USE DEF Calmly, IInv, TypeOK
<1>1. /\ UNCHANGED <<before, caller, xpc, ctl, lease, res>>
      /\ \A d \in Calls : d # c => man'[d] = man[d] /\ jrn'[d] = jrn[d]
  BY DEF RecStep, RecTake, RecCommitted, RecUnstaged, RecScan, RecClaim, RecRestore, RecSweep,
         RecSave, RecJournal, RecDelete, RecFault, ToManual, durable
<1>2. man[c] # "none" /\ xpc[c] = "none" /\ caller[c] \in {"idle", "done", "dead"}
  <2>1. mode = "recovering" /\ c \in rq
    BY AbsentAssumption
       DEF RecStep, RecTake, RecCommitted, RecUnstaged, RecScan, RecClaim, RecRestore, RecSweep,
           RecSave, RecJournal, RecDelete, RecFault, InHand, RecoveryPlace
  <2> QED BY <2>1 DEF RecoveryPlace
<1>3. OneAtATime' /\ \A d \in Calls : d # c => StationsOf(d)'
  BY <1>1, <1>2, OthersLookOn DEF Open
<1>4. StationOfExecutor(c)'
  BY <1>1, <1>2 DEF StationOfExecutor
<1>5. StationOfCaller(c)'
  BY <1>1, <1>2 DEF CalmStations, StationOfCaller
<1> QED BY <1>3, <1>4, <1>5, RecoveryGoesOn DEF StationsOf

\* The steps of the caller.  Only the admission of a call opens it.
LEMMA AdmitStaysCalm ==
    ASSUME Calmly, NEW c \in Calls, Admit(c), jrn'[c] # jrn[c]
    PROVE  OneAtATime' /\ \A d \in Calls : StationsOf(d)'
<1> USE DEF Calmly, IInv, TypeOK
<1>1. /\ UNCHANGED <<disk, man, before, ctl, lease, res>> /\ Unchanged(c)
      /\ xpc' = [xpc EXCEPT ![c] = "start"] /\ jrn' = [jrn EXCEPT ![c] = "started"]
      /\ caller' = [caller EXCEPT ![c] = "executing"]
  BY DEF Admit
<1>2. man[c] = "none" /\ xpc[c] = "none" /\ caller[c] = "planned"
  BY DEF Admit, CallerFollows, JournalFollows
<1>3. ASSUME NEW d \in Calls, d # c PROVE ~Open(d)
  <2>1. ctl[d] = "run"
    BY <1>1, <1>3 DEF Calm
  <2>2. caller[d] \notin {"executing", "journal", "retire", "retire_delete", "abort", "abort_delete"}
    BY <2>1 DEF Admit, GateHeld, GivenUp
  <2>3. CASE caller[d] = "done"
    BY <2>1, <2>3 DEF CalmStations, StationOfCaller, Open
  <2>4. CASE caller[d] = "dead"
    BY <1>2, <2>4 DEF GivenUp, Open
  <2>5. CASE caller[d] \in {"idle", "planning", "planned"}
    BY <2>5 DEF CallerFollows, JournalFollows, Open
  <2> QED BY <2>2, <2>3, <2>4, <2>5 DEF CallerPC
<1>4. Before(c)
  <2>1. target = before[c]
    BY <1>1 DEF Unchanged, SameContent, CalmStations, Honest, Slot, File
  <2>2. InternalsAbsent(c)
    BY <1>2 DEF LeftoversAreAccounted
  <2> QED BY <2>1, <2>2 DEF Before, InternalsAbsent
<1>5. StationsOf(c)'
  <2>1. StationOfExecutor(c)' /\ StationOfManifest(c)'
    BY <1>1, <1>2, <1>4 DEF StationOfExecutor, StationOfManifest, Before, disk
  <2>2. StationOfCaller(c)'
    BY <1>1 DEF StationOfCaller
  <2> QED BY <2>1, <2>2 DEF StationsOf
<1>6. ASSUME NEW d \in Calls, d # c PROVE StationsOf(d)'
  <2>1. xpc'[d] = "none" /\ man'[d] = "none" /\ UNCHANGED <<ctl, res>>
        /\ caller'[d] = caller[d] /\ jrn'[d] = jrn[d]
    BY <1>1, <1>3, <1>6 DEF Open
  <2>2. StationOfExecutor(d)' /\ StationOfManifest(d)'
    BY <2>1 DEF StationOfExecutor, StationOfManifest
  <2>3. StationOfCaller(d)'
    BY <1>3, <1>6, <2>1 DEF CalmStations, StationOfCaller, Outcome, Open
  <2> QED BY <2>2, <2>3 DEF StationsOf
<1>7. OneAtATime'
  BY <1>1, <1>3 DEF OneAtATime, Open
<1> QED BY <1>5, <1>6, <1>7

\* The other steps leave the four names, and the calls of others, alone.
LEMMA CallerKeepsOthers ==
    ASSUME Calmly, NEW c \in Calls,
           UNCHANGED disk, before'[c] = before[c] \/ ~Open(c),
           xpc'[c] \in {xpc[c], "none"},
           man'[c] = man[c] \/ (man'[c] = "none" /\ xpc[c] \in {"none", "finish"}),
           \A d \in Calls : d # c =>
               /\ xpc'[d] = xpc[d] /\ man'[d] = man[d] /\ caller'[d] = caller[d]
               /\ ctl'[d] = ctl[d] /\ res'[d] = res[d] /\ jrn'[d] = jrn[d] /\ before'[d] = before[d],
           man[c] = "MANUAL_REVIEW" /\ jrn[c] = "unknown" => jrn'[c] = "unknown",
           StationOfCaller(c)'
    PROVE  OneAtATime' /\ \A d \in Calls : StationsOf(d)'
<1> USE DEF Calmly, CalmStations
<1>1. OneAtATime'
  BY DEF OneAtATime, Open
<1>2. ASSUME NEW d \in Calls, d # c PROVE StationsOf(d)'
  <2>1. StationOfExecutor(d)' /\ StationOfManifest(d)'
    BY <1>2 DEF StationOfExecutor, StationOfManifest, Before, Opened, Written, Claimed, Published,
         Unpublished, Undone, Committed, disk
  <2>2. StationOfCaller(d)'
    BY <1>2 DEF StationOfCaller, Outcome, Before, InternalsAbsent, disk
  <2> QED BY <2>1, <2>2 DEF StationsOf
<1>3. CASE before'[c] = before[c]
  <2>1. StationOfExecutor(c)'
    BY <1>3 DEF StationOfExecutor, Before, Opened, Written, Claimed, Published, Unpublished,
       Undone, disk
  <2>2. StationOfManifest(c)'
    BY <1>3 DEF StationOfManifest, Before, Opened, Written, Claimed, Published, Unpublished, Undone,
         Committed, disk
  <2> QED BY <1>1, <1>2, <2>1, <2>2 DEF StationsOf
<1>4. CASE ~Open(c)
  BY <1>1, <1>2, <1>4 DEF Open, StationsOf, StationOfExecutor, StationOfManifest
<1> QED BY <1>3, <1>4

\* So a step of a caller keeps all of them.
LEMMA CallerStaysCalm ==
    ASSUME Calmly, NEW c \in Calls,
           CallerStep(c) \/ \E s \in {"cancel", "timeout"} : Signal(c, s)
    PROVE  OneAtATime' /\ \A d \in Calls : StationsOf(d)'
<1> USE DEF Calmly, IInv, TypeOK
<1>0. ~(faults < MaxFaults /\ faults' = faults + 1)
  OBVIOUS
<1>1. CASE Snapshot(c) \/ Prepare(c) \/ (Admit(c) /\ jrn'[c] = jrn[c])
  <2>1. xpc[c] = "none" /\ man[c] = "none" /\ jrn[c] = "none"
    BY <1>1 DEF Snapshot, Prepare, Admit, CallerFollows, JournalFollows
  <2>2. UNCHANGED <<disk, man, xpc, ctl, res, jrn>> /\ caller'[c] \in {"planning", "planned", "done"}
        /\ \A d \in Calls : d # c => caller'[d] = caller[d] /\ before'[d] = before[d]
    BY <1>1, <2>1 DEF Snapshot, Prepare, Admit, durable
  <2>3. StationOfCaller(c)'
    BY <2>1, <2>2 DEF StationOfCaller
  <2> QED BY <2>1, <2>2, <2>3, CallerKeepsOthers DEF Open
<1>2. CASE Admit(c) /\ jrn'[c] # jrn[c]
  BY <1>2, AdmitStaysCalm
<1>3. CASE \E s \in {"cancel", "timeout"} : Signal(c, s)
  <2>1. UNCHANGED <<disk, man, jrn, before, caller, xpc, res>> /\ ctl'[c] # "run"
        /\ \A d \in Calls : d # c => ctl'[d] = ctl[d]
    BY <1>3 DEF Signal, durable
  <2> QED BY <2>1, CallerKeepsOthers DEF StationOfCaller
<1>4. CASE Join(c)
  <2>1. UNCHANGED <<disk, man, jrn, before, ctl>> /\ xpc'[c] = "none"
        /\ (ctl[c] = "run" => caller'[c] = "journal" /\ res'[c] = res[c])
        /\ \A d \in Calls : d # c => caller'[d] = caller[d] /\ res'[d] = res[d] /\ xpc'[d] = xpc[d]
    BY <1>4 DEF Join, durable
  <2>2. xpc[c] = "finish"
    BY <1>4 DEF Join
  <2>3. StationOfCaller(c)'
    BY <2>1, <2>2 DEF CalmStations, StationOfCaller, Outcome, Before, InternalsAbsent, disk
  <2> QED BY <2>1, <2>3, CallerKeepsOthers
<1>5. CASE Abandon(c)
  <2>1. UNCHANGED <<disk, man, jrn, before, ctl, xpc>> /\ ctl[c] # "run"
        /\ \A d \in Calls : d # c => caller'[d] = caller[d] /\ res'[d] = res[d]
    BY <1>5 DEF Abandon, durable
  <2> QED BY <2>1, CallerKeepsOthers DEF StationOfCaller
<1>6. CASE Discard(c)
  <2>1. UNCHANGED <<disk, man, jrn, before, ctl, caller, res>> /\ ctl[c] # "run" /\ xpc'[c] = "none"
        /\ \A d \in Calls : d # c => xpc'[d] = xpc[d]
    BY <1>6, CallerWaits DEF Discard, durable
  <2> QED BY <2>1, CallerKeepsOthers DEF StationOfCaller
<1>7. CASE Finalize(c)
  <2>1. /\ UNCHANGED <<disk, man, before, ctl, xpc, res>> /\ jrn[c] = "started"
        /\ caller[c] = "journal" /\ caller'[c] = "retire" /\ jrn'[c] = res[c]
        /\ \A d \in Calls : d # c => caller'[d] = caller[d] /\ jrn'[d] = jrn[d]
    BY <1>0, <1>7 DEF Finalize, CallerFollows
  <2>2. StationOfCaller(c)'
    BY <2>1 DEF CalmStations, StationOfCaller, Outcome, Before, InternalsAbsent, disk
  <2> QED BY <2>1, <2>2, CallerKeepsOthers
<1>8. CASE Retire(c)
  <2>1. /\ UNCHANGED <<disk, man, before, ctl, xpc, res>>
        /\ jrn[c] # "started" => jrn'[c] = jrn[c]
        /\ \A d \in Calls : d # c => caller'[d] = caller[d] /\ jrn'[d] = jrn[d]
    BY <1>8 DEF Retire
  <2>2. ASSUME ctl[c] = "run"
        PROVE  xpc[c] = "none" /\ (man[c] = "none" \/ caller'[c] = "retire_delete")
    <3>1. caller[c] = "retire" /\ xpc[c] = "none" /\ Outcome(c, jrn[c])
      BY <1>8, <2>2 DEF Retire, GivenUp, CalmStations, StationOfCaller
    <3>2. man[c] # "none" => Readable
      BY <3>1, AloneIsReadable DEF Open, Leased, HasTarget
    <3> QED BY <1>8, <3>1, <3>2
       DEF Retire, Outcome, CleanCommitted, CleanRolledBack, MatchesBefore, InternalsAbsent, Before
  <2>3. StationOfCaller(c)'
    <3>1. caller'[c] \in {"retire_delete", "abort_delete", "done"}
      BY <1>8 DEF Retire
    <3> QED BY <2>1, <2>2, <3>1 DEF StationOfCaller
  <2> QED BY <2>1, <2>3, CallerKeepsOthers
<1>9. CASE RetireDelete(c)
  <2>1. /\ UNCHANGED <<disk, jrn, before, ctl, xpc, res>> /\ man'[c] = "none" /\ caller'[c] = "done"
        /\ \A d \in Calls : d # c => caller'[d] = caller[d] /\ man'[d] = man[d]
    BY <1>0, <1>9 DEF RetireDelete
  <2>2. xpc[c] \in {"none", "finish"}
    BY <1>9 DEF RetireDelete, CallerFollows
  <2>3. StationOfCaller(c)'
    BY <1>9, <2>1 DEF RetireDelete, GivenUp, CalmStations, StationOfCaller
  <2> QED BY <2>1, <2>2, <2>3, CallerKeepsOthers
<1> QED BY <1>1, <1>2, <1>3, <1>4, <1>5, <1>6, <1>7, <1>8, <1>9 DEF CallerStep

\* Every step keeps the stations, while all is calm.
LEMMA CalmStationsKept ==
    ASSUME Calmly, [Next]_vars PROVE CalmStations'
<1>1. Honest'
  BY HonestKept DEF Calmly, CalmStations
<1>2. ASSUME NEW c \in Calls, ExecStep(c) \/ RecStep(c)
      PROVE  OneAtATime' /\ StationOfRecovery' /\ \A d \in Calls : StationsOf(d)'
  BY <1>2, ExecutorStaysCalm, RecoveryStaysCalm
<1>3. ASSUME NEW c \in Calls, CallerStep(c) \/ \E s \in {"cancel", "timeout"} : Signal(c, s)
      PROVE  OneAtATime' /\ StationOfRecovery' /\ \A d \in Calls : StationsOf(d)'
  <2>1. mode = "running" /\ rcur' = rcur
    BY <1>3 DEF CallerStep, Snapshot, Prepare, Admit, Join, Abandon, Discard, Finalize, Retire,
         RetireDelete, Signal, Running, recv
  <2>2. StationOfRecovery'
    BY <2>1 DEF Calmly, IInv, RecoveryPlace, StationOfRecovery
  <2> QED BY <1>3, <2>2, CallerStaysCalm
<1>4. ASSUME Crash \/ RecDone \/ UNCHANGED vars
      PROVE  OneAtATime' /\ StationOfRecovery' /\ \A d \in Calls : StationsOf(d)'
  <2> USE DEF Calmly, CalmStations
  <2>1. UNCHANGED <<disk, durable, before, ctl, res>>
    BY <1>4 DEF Crash, RecDone, vars
  <2>2. /\ \A c \in Calls : xpc'[c] \in {xpc[c], "none"}
        /\ \A c \in Calls : caller'[c] \in {caller[c], "dead"}
        /\ rcur' = Absent \/ UNCHANGED <<rcur, rat>>
    BY <1>4 DEF Crash, RecDone, vars, recv, IInv, TypeOK
  <2>3. \A c \in Calls : xpc'[c] # xpc[c] => caller'[c] # "journal" /\ caller'[c] # "retire"
    BY <1>4 DEF Crash, RecDone, vars, IInv, TypeOK
  <2>4. OneAtATime'
    BY <2>1, <2>2 DEF OneAtATime, Open, durable
  <2>5. StationOfRecovery'
    BY <2>1, <2>2 DEF StationOfRecovery, disk, Before, Written, Published, Undone
  <2>6. ASSUME NEW c \in Calls PROVE StationsOf(c)'
    <3>1. StationOfExecutor(c)' /\ StationOfManifest(c)'
      BY <2>1, <2>2 DEF StationOfExecutor, StationOfManifest, Before, Opened, Written, Claimed,
         Published,
           Unpublished, Undone, Committed, disk, durable
    <3>2. StationOfCaller(c)'
      BY <2>1, <2>2 DEF StationOfCaller, Outcome, Before, InternalsAbsent, disk, durable
    <3> QED BY <3>1, <3>2 DEF StationsOf
  <2> QED BY <2>4, <2>5, <2>6
<1>5. ~(UserSave \/ UserDelete \/ UserMeddle)
  BY ConstantsAssumption DEF UserSave, UserDelete, UserMeddle, Edit, Calmly, IInv, TypeOK
<1>6. OneAtATime' /\ StationOfRecovery' /\ \A d \in Calls : StationsOf(d)'
  BY <1>2, <1>3, <1>4, <1>5 DEF Next
<1> QED BY <1>1, <1>6 DEF CalmStations, StationsOf

\* At the start every call is before its first station.
LEMMA CalmInit == Init => CalmInv
<1> SUFFICES ASSUME Init PROVE CalmInv
  OBVIOUS
<1>1. GivenUp /\ Honest /\ OneAtATime /\ StationOfRecovery
  BY DEF Init, GivenUp, Honest, OneAtATime, Open, StationOfRecovery
<1>2. \A c \in Calls : StationOfExecutor(c) /\ StationOfManifest(c) /\ StationOfCaller(c)
  BY DEF Init, StationOfExecutor, StationOfManifest, StationOfCaller
<1> QED BY <1>1, <1>2 DEF CalmInv, CalmStations

\* Restart recovery gives up only for a cause: where no operation has failed, nobody has edited
\* and no caller has let go of a call beside another, the manifest names the station of the
\* four names, and recovery can lead each of them back, or on to the commit.
THEOREM ManualHasACause == Spec => []ManualOnlyWithCause
<1>1. ASSUME IInv, TraceInv, CalmInv, [Next]_vars PROVE CalmInv'
  <2>1. GivenUp'
    BY <1>1, GivenUpKept DEF CalmInv
  <2>2. ASSUME Calm' PROVE CalmStations'
    <3>1. Calmly
      BY <1>1, <2>2, CalmBefore DEF CalmInv, Calmly
    <3> QED BY <1>1, <3>1, CalmStationsKept
  <2> QED BY <2>1, <2>2 DEF CalmInv
<1>2. IInv /\ CalmInv => ManualOnlyWithCause
  <2> SUFFICES ASSUME IInv, CalmInv, NEW c \in Calls, man[c] = "MANUAL_REVIEW",
                      ~(faults > 0), ~(externals > 0),
                      ~\E d, e \in Calls : d # e /\ ctl[d] # "run" /\ jrn[e] # "none"
               PROVE  jrn[c] = "unknown" \/ tmp[c] \in {New(c), Torn(c)}
    BY DEF ManualOnlyWithCause
  <2>1. Calm
    BY ConstantsAssumption DEF Calm, IInv, TypeOK
  <2> QED BY <2>1 DEF CalmInv, CalmStations, StationOfManifest
<1> QED BY <1>1, <1>2, CalmInit, InvariantHolds, TraceHolds, PTL DEF Spec
=============================================================================
