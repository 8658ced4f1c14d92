--------------------------- MODULE VaultTransaction ---------------------------
(***************************************************************************)
(* The durable single-path Vault transaction of the OfferAgent Worker:      *)
(* vault/coordinator.py driving vault/atomic_cas.py and                     *)
(* vault/durable_manifest.py, called by tools/kernel.py under the           *)
(* Worker-wide effect gate (tools/scheduler.py).                            *)
(*                                                                          *)
(* Every call of Calls rewrites (or creates) the SAME Vault path.  A file   *)
(* is its content hash and its filesystem identity.  Four names matter: the *)
(* target, and the call's own backup, temporary and rollback names.         *)
(*                                                                          *)
(* Abstractions.                                                            *)
(*  - A manifest save is one step.  The store fsyncs a `.pending' file and  *)
(*    promotes it; every later read promotes a leftover first, so the       *)
(*    pending file already IS the durable state.                            *)
(*  - Parent directories are not modelled (the path lies in an existing,    *)
(*    undisturbed folder), nor is the diff artifact.                        *)
(*  - Handles are those of _WindowsCasBackend, the shipped platform: while  *)
(*    a lease is open nobody else can write, rename or delete its files.    *)
(*  - Crashes, disk faults and external edits are bounded by Max*.          *)
(***************************************************************************)
EXTENDS Naturals, FiniteSets

CONSTANTS
    Calls,         \* tool calls, all of them vault.transaction on one path
    Base,          \* hash and identity of the file the user starts with
    Alien,         \* hash and identity of whatever the user saves meanwhile
    Partial,       \* hash of a file whose writing was cut short
    Absent,        \* no file under this name
    MaxCrashes,    \* bound: Worker crashes
    MaxFaults,     \* bound: failing disk or database operations
    MaxExternal    \* bound: edits by the user's other programs

ASSUME ConstantsAssumption ==
    /\ Base \notin Calls /\ Alien \notin Calls /\ Base # Alien
    /\ Partial \notin Calls \cup {Base, Alien}
    /\ MaxCrashes \in Nat /\ MaxFaults \in Nat /\ MaxExternal \in Nat

Stamp == Calls \cup {Base, Alien, Partial}
File  == [hash : Stamp, id : Stamp]
New(c)  == [hash |-> c, id |-> c]         \* what call c writes
Torn(c) == [hash |-> Partial, id |-> c]   \* the same file, not written to its end

ASSUME AbsentAssumption == Absent \notin File /\ Absent \notin Calls

Slot == File \cup {Absent}

VARIABLES
    target,     \* the Vault path itself
    bak,        \* bak[c]: .offeragent-tx-<c>.bak
    tmp,        \* tmp[c]: .offeragent-tx-<c>.tmp
    rbk,        \* rbk[c]: .offeragent-rollback-<c>
    man,        \* durable manifest of each call
    jrn,        \* Invocation Journal record of each call
    before,     \* before[c]: snapshot in the plan, bound into the manifest
    caller,     \* the kernel/scheduler frame that awaits the executor
    xpc,        \* the executor thread
    ctl,        \* what the caller told the executor: run, cancel, timeout
    lease,      \* lease[c]: the files whose handles the executor holds
    res,        \* result returned by the executor
    mode,       \* Worker: running or recovering
    rq,         \* recovery: manifests still to examine
    rcur,       \* recovery: the manifest in hand (or Absent)
    rat,        \* recovery: where in its steps
    crashes, faults, externals

disk    == <<target, bak, tmp, rbk>>
durable == <<man, jrn>>
recv    == <<mode, rq, rcur, rat>>
counts  == <<crashes, faults, externals>>
vars    == <<disk, durable, before, caller, xpc, ctl, lease, res, recv, counts>>

ManState == {"none", "PREPARED", "STAGED", "COMMITTED", "ROLLED_BACK", "MANUAL_REVIEW"}
JrnState == {"none", "started", "success", "failed", "unknown"}
Result   == {"none", "success", "failed", "unknown"}
CallerPC == {"idle", "planning", "planned", "executing", "journal", "retire",
             "retire_delete", "abort", "abort_delete", "done", "dead"}
ExecPC   == {"none", "start", "begun", "writing", "temped", "staged", "locked", "claimed",
             "published", "committed", "sweep", "undo_published", "undo_claimed",
             "purge", "settle", "finish"}
RecPC    == {"pick", "claim", "restore", "sweep", "save", "journal", "delete"}

\* The caller holds the effect gate, exclusive for a writer, in these states.
GateHeld == {"executing", "journal", "retire", "retire_delete"}

-----------------------------------------------------------------------------
(* What the code asks of the disk and of the manifest store.               *)

\* _matches_manifest_file of the manifest's before binding.
MatchesBefore(c, s) == s = before[c]

\* _snapshot(...).content_hash comparisons look at content only.
SameContent(s, t) ==
    \/ s = Absent /\ t = Absent
    \/ s # Absent /\ t # Absent /\ s.hash = t.hash

HeldFiles == UNION {lease[c] : c \in Calls}

\* _snapshot opens the path for reading without sharing DELETE, so it raises
\* on a file whose lease handle (opened for DELETE) is still open.
Readable == target \notin HeldFiles

\* A native rename refuses to replace whatever occupies the destination.
Mutant_Replace(s) == TRUE
NoReplace(s) == s = Absent

\* _manifest_terminal_state_is_clean
InternalsAbsent(c) == bak[c] = Absent /\ tmp[c] = Absent /\ rbk[c] = Absent
\* (A Mutant_ operator is a plausible bug; the specification never uses one.
\* PROJECT.json names the definition it stands in for and what it breaks.)
Mutant_TargetBefore(c) == Readable /\ MatchesBefore(c, target)
Mutant_TargetNew(c)    == Readable /\ target = New(c)
CleanRolledBack(c) == Readable /\ InternalsAbsent(c) /\ MatchesBefore(c, target)
CleanCommitted(c)  == Readable /\ InternalsAbsent(c) /\ target = New(c)

\* The target still has the content of the plan, as far as a snapshot tells.
Unchanged(c) == Readable /\ SameContent(target, before[c])

\* assert_paths_available: any manifest of the path blocks a new plan.
PathAvailable == \A c \in Calls : man[c] = "none"

Running   == mode = "running"

-----------------------------------------------------------------------------
Init ==
    /\ target \in {Absent, [hash |-> Base, id |-> Base]}
    /\ bak = [c \in Calls |-> Absent]
    /\ tmp = [c \in Calls |-> Absent]
    /\ rbk = [c \in Calls |-> Absent]
    /\ man = [c \in Calls |-> "none"]
    /\ jrn = [c \in Calls |-> "none"]
    /\ before = [c \in Calls |-> Absent]
    /\ caller = [c \in Calls |-> "idle"]
    /\ xpc = [c \in Calls |-> "none"]
    /\ ctl = [c \in Calls |-> "run"]
    /\ lease = [c \in Calls |-> {}]
    /\ res = [c \in Calls |-> "none"]
    /\ mode = "running" /\ rq = {} /\ rcur = Absent /\ rat = "pick"
    /\ crashes = 0 /\ faults = 0 /\ externals = 0

-----------------------------------------------------------------------------
(* The caller: preflight, gate, journal, control, retirement.              *)

\* _build_plan: snapshot the path (outside the gate), or fail to.
Snapshot(c) ==
    /\ Running /\ caller[c] = "idle"
    /\ before' = [before EXCEPT ![c] = IF Readable THEN target ELSE Absent]
    /\ caller' = [caller EXCEPT ![c] = IF Readable THEN "planning" ELSE "done"]
    /\ UNCHANGED <<disk, durable, xpc, ctl, lease, res, recv, counts>>

\* prepare: assert_paths_available, then store the plan.
Prepare(c) ==
    /\ Running /\ caller[c] = "planning"
    /\ caller' = [caller EXCEPT ![c] = IF PathAvailable THEN "planned" ELSE "done"]
    /\ UNCHANGED <<disk, durable, before, xpc, ctl, lease, res, recv, counts>>

\* Gate acquired; revalidate the plan; journal STARTED; executor dispatched.
Admit(c) ==
    /\ Running /\ caller[c] = "planned"
    /\ \A d \in Calls : caller[d] \notin GateHeld
    /\ IF Unchanged(c)
       THEN /\ jrn' = [jrn EXCEPT ![c] = "started"]
            /\ caller' = [caller EXCEPT ![c] = "executing"]
            /\ xpc' = [xpc EXCEPT ![c] = "start"]
       ELSE /\ caller' = [caller EXCEPT ![c] = "done"]
            /\ UNCHANGED <<jrn, xpc>>
    /\ UNCHANGED <<disk, man, before, ctl, lease, res, recv, counts>>

\* The Run is cancelled or the tool's timeout elapses while it executes.
Signal(c, s) ==
    /\ Running /\ caller[c] = "executing" /\ ctl[c] = "run"
    /\ ctl' = [ctl EXCEPT ![c] = s]
    /\ UNCHANGED <<disk, durable, before, caller, xpc, lease, res, recv, counts>>

\* A completed effect outcome beats cancellation and timeout.
EffectResult(r) == r \in {"success", "unknown"}

\* _attempt_with_controls, the executor having returned.
Join(c) ==
    /\ Running /\ caller[c] = "executing" /\ xpc[c] = "finish"
    /\ IF ctl[c] = "run" \/ EffectResult(res[c])
       THEN caller' = [caller EXCEPT ![c] = "journal"] /\ UNCHANGED res
       ELSE IF ctl[c] = "timeout"
       THEN /\ caller' = [caller EXCEPT ![c] = "journal"]
            /\ res' = [res EXCEPT ![c] = "unknown"]
       ELSE caller' = [caller EXCEPT ![c] = "abort"] /\ UNCHANGED res
    /\ xpc' = [xpc EXCEPT ![c] = "none"]
    /\ UNCHANGED <<disk, durable, before, ctl, lease, recv, counts>>

\* The termination grace passes: the executor runs on as a straggler while
\* the caller reports UNKNOWN_OUTCOME (timeout) or raises (cancellation).
Abandon(c) ==
    /\ Running /\ caller[c] = "executing" /\ ctl[c] # "run"
    /\ xpc[c] \notin {"none", "finish"}
    /\ caller' = [caller EXCEPT ![c] = IF ctl[c] = "timeout" THEN "journal" ELSE "abort"]
    /\ res' = [res EXCEPT ![c] = "unknown"]
    /\ UNCHANGED <<disk, durable, before, xpc, ctl, lease, recv, counts>>

\* A straggler's return value is discarded.
Discard(c) ==
    /\ Running /\ xpc[c] = "finish" /\ caller[c] # "executing"
    /\ xpc' = [xpc EXCEPT ![c] = "none"]
    /\ UNCHANGED <<disk, durable, before, caller, ctl, lease, res, recv, counts>>

\* _finalize_journal: complete or mark_unknown; it may fail.
Finalize(c) ==
    /\ Running /\ caller[c] = "journal"
    /\ caller' = [caller EXCEPT ![c] = "retire"]
    /\ \/ jrn' = [jrn EXCEPT ![c] = res[c]] /\ UNCHANGED faults
       \/ faults < MaxFaults /\ faults' = faults + 1 /\ UNCHANGED jrn
    /\ UNCHANGED <<disk, man, before, xpc, ctl, lease, res, recv, crashes, externals>>

\* _retire_completed_manifest, first half: decide, and complete a journal
\* record still STARTED from the manifest's terminal state.
Retire(c) ==
    /\ Running /\ caller[c] \in {"retire", "abort"}
    /\ LET clean == IF man[c] = "COMMITTED" THEN CleanCommitted(c) ELSE CleanRolledBack(c)
           terminal == man[c] \in {"COMMITTED", "ROLLED_BACK"}
           next == IF caller[c] = "retire" THEN "retire_delete" ELSE "abort_delete"
           agrees == \/ jrn[c] = "success" /\ man[c] = "COMMITTED"
                     \/ jrn[c] = "failed" /\ man[c] = "ROLLED_BACK"
       IN  \/ /\ terminal /\ clean /\ jrn[c] = "started"
              /\ jrn' = [jrn EXCEPT ![c] = IF man[c] = "COMMITTED" THEN "success" ELSE "failed"]
              /\ caller' = [caller EXCEPT ![c] = next]
           \/ /\ terminal /\ clean /\ agrees
              /\ caller' = [caller EXCEPT ![c] = next]
              /\ UNCHANGED jrn
           \/ /\ ~(terminal /\ clean /\ (jrn[c] = "started" \/ agrees))
              /\ caller' = [caller EXCEPT ![c] = "done"]
              /\ UNCHANGED jrn
    /\ UNCHANGED <<disk, man, before, xpc, ctl, lease, res, recv, counts>>

\* Second half: delete the manifest; the plan is popped either way.
RetireDelete(c) ==
    /\ Running /\ caller[c] \in {"retire_delete", "abort_delete"}
    /\ caller' = [caller EXCEPT ![c] = "done"]
    /\ \/ man' = [man EXCEPT ![c] = "none"] /\ UNCHANGED faults
       \/ faults < MaxFaults /\ faults' = faults + 1 /\ UNCHANGED man
    /\ UNCHANGED <<disk, jrn, before, xpc, ctl, lease, res, recv, crashes, externals>>

-----------------------------------------------------------------------------
(* The executor: _execute, _apply_change and AtomicVaultChange.            *)

Step(c, from, to) == Running /\ xpc[c] = from /\ xpc' = [xpc EXCEPT ![c] = to]

\* Return result r, closing every handle (close_preserving keeps the files).
\* Nobody reads the result of a straggler.
Return(c, r) ==
    /\ xpc' = [xpc EXCEPT ![c] = "finish"]
    /\ res' = IF caller[c] = "executing" THEN [res EXCEPT ![c] = r] ELSE res
    /\ lease' = [lease EXCEPT ![c] = {}]

Fault == faults < MaxFaults /\ faults' = faults + 1 /\ UNCHANGED <<crashes, externals>>

\* A signal is seen at a checkpoint, unless it falls just behind the last one.
Cancelled(c) == ctl[c] # "run"

\* _begin_durable_manifest: needs the exact STARTED record.  The last fault is
\* a write whose acknowledgement and whose re-read both failed.
BeginManifest(c) ==
    /\ Running /\ xpc[c] = "start"
    /\ \/ /\ jrn[c] = "started"
          /\ man' = [man EXCEPT ![c] = "PREPARED"]
          /\ xpc' = [xpc EXCEPT ![c] = "begun"]
          /\ UNCHANGED <<lease, res, counts>>
       \/ /\ jrn[c] # "started" \/ Cancelled(c)
          /\ Return(c, "failed") /\ UNCHANGED <<man, counts>>
       \/ /\ jrn[c] = "started" /\ Fault /\ Return(c, "failed")
          /\ man' \in {man, [man EXCEPT ![c] = "PREPARED"]}
    /\ UNCHANGED <<disk, jrn, before, caller, ctl, recv>>

\* Last content check; the temporary's name is created, exclusively.
CreateTemp(c) ==
    /\ Unchanged(c) /\ InternalsAbsent(c)
    /\ Step(c, "begun", "writing")
    /\ tmp' = [tmp EXCEPT ![c] = Torn(c)]
    /\ UNCHANGED <<target, bak, rbk, durable, before, caller, ctl, lease, res, recv, counts>>

\* Cancelled, drifted, or the name could not be created.
RefuseBegun(c) ==
    /\ Step(c, "begun", "settle")
    /\ \/ Cancelled(c) /\ UNCHANGED counts
       \/ ~(Unchanged(c) /\ InternalsAbsent(c)) /\ UNCHANGED counts
       \/ Fault
    /\ UNCHANGED <<disk, durable, before, caller, ctl, lease, res, recv>>

\* The temporary once its content is through, unless the user has had it.
Filled(c) == IF tmp[c] = Torn(c) THEN New(c) ELSE tmp[c]

\* The content is written and fsynced.
WriteTemp(c) ==
    /\ Step(c, "writing", "temped")
    /\ tmp' = [tmp EXCEPT ![c] = Filled(c)]
    /\ UNCHANGED <<target, bak, rbk, durable, before, caller, ctl, lease, res, recv, counts>>

\* The write or its fsync fails.  The file stays as it is, whole or not, for
\* nothing is unlinked by name and no identity was captured to delete it by.
WriteFails(c) ==
    /\ Step(c, "writing", "settle") /\ Fault
    /\ tmp' \in {tmp, [tmp EXCEPT ![c] = Filled(c)]}
    /\ UNCHANGED <<target, bak, rbk, durable, before, caller, ctl, lease, res, recv>>

\* Save STAGED, binding the temporary's identity.  A lost acknowledgement
\* here is not reconciled: the temporary is removed under a STAGED manifest.
\* When the identity cannot be read there is nothing to remove it by.
Stage(c) ==
    /\ tmp[c] # Absent
    /\ \/ /\ Step(c, "temped", "staged")
          /\ man' = [man EXCEPT ![c] = "STAGED"] /\ UNCHANGED counts
       \/ /\ Step(c, "temped", "sweep") /\ Fault
          /\ man' \in {man, [man EXCEPT ![c] = "STAGED"]}
       \/ Step(c, "temped", "settle") /\ Fault /\ UNCHANGED man
    /\ UNCHANGED <<disk, jrn, before, caller, ctl, lease, res, recv>>

\* The temporary has vanished before its identity could be read.
StageMissing(c) ==
    /\ tmp[c] = Absent /\ Step(c, "temped", "settle")
    /\ UNCHANGED <<disk, durable, before, caller, ctl, lease, res, recv, counts>>

\* AtomicVaultCas.begin and the head of apply: handles on the target (checked
\* by content) and on the temporary; another holder's handles refuse ours.
Lockable(c) ==
    /\ Unchanged(c) /\ tmp[c] = New(c)

\* The handles begin and apply end up holding.
HandlesOf(c) == {target, tmp[c]} \ {Absent}

Lock(c) ==
    /\ \/ /\ Lockable(c) /\ Step(c, "staged", "locked")
          /\ lease' = [lease EXCEPT ![c] = HandlesOf(c)]
          /\ UNCHANGED counts
       \/ /\ ~Lockable(c) /\ Step(c, "staged", "sweep") /\ UNCHANGED <<lease, counts>>
       \/ Step(c, "staged", "sweep") /\ Fault /\ UNCHANGED lease
    /\ UNCHANGED <<disk, durable, before, caller, ctl, res, recv>>

\* rename target -> backup, never replacing; or the rename is refused.
Claim(c) ==
    /\ before[c] # Absent
    /\ \/ /\ bak[c] = Absent /\ Step(c, "locked", "claimed")
          /\ bak' = [bak EXCEPT ![c] = target] /\ target' = Absent
          /\ UNCHANGED <<lease, counts>>
       \/ /\ Step(c, "locked", "sweep") /\ Fault
          /\ lease' = [lease EXCEPT ![c] = {}]
          /\ UNCHANGED <<target, bak>>
    /\ UNCHANGED <<tmp, rbk, durable, before, caller, ctl, res, recv>>

\* The claiming rename raised without saying whether it happened
\* (_claim_uncertain): rollback trusts only the names it can see.
ClaimUncertain(c) ==
    /\ before[c] # Absent /\ bak[c] = Absent /\ Fault
    /\ Running /\ xpc[c] = "locked"
    /\ \/ Return(c, "unknown") /\ UNCHANGED <<target, bak>>
       \/ /\ xpc' = [xpc EXCEPT ![c] = "purge"]
          /\ bak' = [bak EXCEPT ![c] = target] /\ target' = Absent
          /\ UNCHANGED <<lease, res>>
    /\ UNCHANGED <<tmp, rbk, durable, before, caller, ctl, recv>>

\* rename temporary -> target, never replacing an external file.
Publish(c) ==
    /\ Running /\ xpc[c] = IF before[c] = Absent THEN "locked" ELSE "claimed"
    /\ IF NoReplace(target)
       THEN /\ target' = tmp[c] /\ tmp' = [tmp EXCEPT ![c] = Absent]
            /\ xpc' = [xpc EXCEPT ![c] = "published"]
            /\ UNCHANGED lease
       ELSE /\ xpc' = [xpc EXCEPT ![c] = IF before[c] = Absent THEN "sweep" ELSE "undo_claimed"]
            /\ lease' = IF before[c] = Absent THEN [lease EXCEPT ![c] = {}] ELSE lease
            /\ UNCHANGED <<target, tmp>>
    /\ UNCHANGED <<bak, rbk, durable, before, caller, ctl, res, recv, counts>>

\* The publishing rename raised without saying whether it happened
\* (_publish_uncertain).  If it did, rollback finds the name occupied.
PublishUncertain(c) ==
    /\ Running /\ xpc[c] = IF before[c] = Absent THEN "locked" ELSE "claimed"
    /\ target = Absent /\ Fault
    /\ \/ /\ xpc' = [xpc EXCEPT ![c] = IF before[c] = Absent THEN "purge" ELSE "undo_claimed"]
          /\ UNCHANGED <<target, tmp, lease, res>>
       \/ /\ target' = tmp[c] /\ tmp' = [tmp EXCEPT ![c] = Absent]
          /\ Return(c, "unknown")
    /\ UNCHANGED <<bak, rbk, durable, before, caller, ctl, recv>>

Mutant_CommitUnsaved(c) ==
    /\ Step(c, "published", "committed")
    /\ UNCHANGED <<disk, durable, before, caller, ctl, lease, res, recv, counts>>
\* verify_committed, then the irreversible save of COMMITTED.
Commit(c) ==
    /\ Step(c, "published", "committed")
    /\ target = New(c)
    /\ man' = [man EXCEPT ![c] = "COMMITTED"]
    /\ UNCHANGED <<disk, jrn, before, caller, ctl, lease, res, recv, counts>>

\* Cancelled before that save, or the save failed.  In the last case it did
\* reach the disk but neither the acknowledgement nor the re-reads came back.
RefusePublished(c) ==
    /\ Step(c, "published", "undo_published")
    /\ \/ Cancelled(c) /\ UNCHANGED <<man, counts>>
       \/ Fault /\ man' \in {man, [man EXCEPT ![c] = "COMMITTED"]}
    /\ UNCHANGED <<disk, jrn, before, caller, ctl, lease, res, recv>>

\* cleanup_committed: delete the backup.  A deletion that failed or was not
\* confirmed is PARTIAL, which the journal completes like SUCCEEDED.
Cleanup(c) ==
    /\ Running /\ xpc[c] = "committed" /\ Return(c, "success")
    /\ \/ bak' = [bak EXCEPT ![c] = Absent] /\ UNCHANGED counts
       \/ Fault /\ bak' \in {bak, [bak EXCEPT ![c] = Absent]}
    /\ UNCHANGED <<target, tmp, rbk, durable, before, caller, ctl, recv>>

-----------------------------------------------------------------------------
(* Live rollback.  Any step may fail, before it has done anything or after  *)
(* (a deletion or rename that is not confirmed): the outcome is unknown.    *)

\* recover_delete / discard_unmutated of an unpublished temporary.
Sweep(c) ==
    /\ Running /\ xpc[c] = "sweep"
    /\ \/ /\ tmp[c] \in {Absent, New(c)}
          /\ tmp' = [tmp EXCEPT ![c] = Absent]
          /\ \/ xpc' = [xpc EXCEPT ![c] = "settle"] /\ UNCHANGED <<lease, res, counts>>
             \/ Fault /\ Return(c, "unknown")
       \/ tmp[c] \notin {Absent, New(c)} /\ Return(c, "unknown") /\ UNCHANGED <<tmp, counts>>
       \/ Fault /\ Return(c, "unknown") /\ UNCHANGED tmp
    /\ UNCHANGED <<target, bak, rbk, durable, before, caller, ctl, recv>>

\* rename target -> rollback name.
UndoPublished(c) ==
    /\ Running /\ xpc[c] = "undo_published"
    /\ \/ /\ rbk[c] = Absent
          /\ rbk' = [rbk EXCEPT ![c] = target] /\ target' = Absent
          /\ \/ /\ xpc' = [xpc EXCEPT ![c] = IF before[c] = Absent THEN "purge" ELSE "undo_claimed"]
                /\ UNCHANGED <<lease, res, counts>>
             \/ Fault /\ Return(c, "unknown")
       \/ Fault /\ Return(c, "unknown") /\ UNCHANGED <<target, rbk>>
    /\ UNCHANGED <<bak, tmp, durable, before, caller, ctl, recv>>

\* rename backup -> target, refused when the user has put a file there.
UndoClaimed(c) ==
    /\ Running /\ xpc[c] = "undo_claimed"
    /\ \/ /\ NoReplace(target)
          /\ target' = bak[c] /\ bak' = [bak EXCEPT ![c] = Absent]
          /\ \/ xpc' = [xpc EXCEPT ![c] = "purge"] /\ UNCHANGED <<lease, res, counts>>
             \/ Fault /\ Return(c, "unknown")
       \/ ~NoReplace(target) /\ Return(c, "unknown") /\ UNCHANGED <<target, bak, counts>>
       \/ Fault /\ Return(c, "unknown") /\ UNCHANGED <<target, bak>>
    /\ UNCHANGED <<tmp, rbk, durable, before, caller, ctl, recv>>

\* delete the new content, wherever it is now, and close the lease.
Purge(c) ==
    /\ Running /\ xpc[c] = "purge"
    /\ \/ /\ (before[c] = Absent \/ bak[c] # Absent) /\ target # Absent
          /\ Return(c, "unknown") /\ UNCHANGED <<tmp, rbk, counts>>
       \/ /\ (before[c] # Absent /\ bak[c] = Absent) \/ target = Absent
          /\ tmp' = [tmp EXCEPT ![c] = Absent]
          /\ rbk' = [rbk EXCEPT ![c] = Absent]
          /\ \/ /\ xpc' = [xpc EXCEPT ![c] = "settle"]
                /\ lease' = [lease EXCEPT ![c] = {}]
                /\ UNCHANGED <<res, counts>>
             \/ Fault /\ Return(c, "unknown")
       \/ Fault /\ Return(c, "unknown") /\ UNCHANGED <<tmp, rbk>>
    /\ UNCHANGED <<target, bak, durable, before, caller, ctl, recv>>

\* _validate_transition admits ROLLED_BACK, and the disk is exactly as before.
MayRollBack(c) == CleanRolledBack(c) /\ man[c] \in {"PREPARED", "STAGED"}

\* Record ROLLED_BACK only over a disk that is exactly as before.
Settle(c) ==
    /\ Running /\ xpc[c] = "settle"
    /\ \/ /\ MayRollBack(c)
          /\ man' = [man EXCEPT ![c] = "ROLLED_BACK"]
          /\ Return(c, "failed") /\ UNCHANGED counts
       \/ /\ ~MayRollBack(c)
          /\ Return(c, "unknown") /\ UNCHANGED <<man, counts>>
       \/ Fault /\ Return(c, "unknown") /\ UNCHANGED man
    /\ UNCHANGED <<disk, jrn, before, caller, ctl, recv>>

-----------------------------------------------------------------------------
(* Worker crash and recover_after_restart, which runs before any call.     *)

Crash ==
    /\ crashes < MaxCrashes /\ crashes' = crashes + 1
    /\ mode' = "recovering"
    /\ rq' = {c \in Calls : man[c] # "none"}
    /\ rcur' = Absent /\ rat' = "pick"
    /\ caller' = [c \in Calls |-> IF caller[c] \in {"idle", "done"} THEN caller[c] ELSE "dead"]
    /\ xpc' = [c \in Calls |-> "none"]
    /\ lease' = [c \in Calls |-> {}]
    /\ UNCHANGED <<disk, durable, before, ctl, res, faults, externals>>

InHand(c, at) == mode = "recovering" /\ rcur = c /\ rat = at

Goto(at) == rat' = at /\ UNCHANGED <<mode, rq, rcur>>

Next_manifest == rcur' = Absent /\ rat' = "pick" /\ rq' = rq \ {rcur} /\ UNCHANGED mode

\* An error inside filesystem or journal recovery.
ToManual(c) == man' = [man EXCEPT ![c] = "MANUAL_REVIEW"] /\ Next_manifest

Mutant_AbsentIsDrift(c) == target \notin {before[c], New(c)}
StagedDrift(c) ==
    \/ target # Absent /\ ~MatchesBefore(c, target) /\ target # New(c)
    \/ bak[c] # Absent /\ ~MatchesBefore(c, bak[c])
    \/ tmp[c] \notin {Absent, New(c)} \/ rbk[c] \notin {Absent, New(c)}
    \/ tmp[c] # Absent /\ rbk[c] # Absent
    \/ target = New(c) /\ before[c] # Absent /\ ~MatchesBefore(c, bak[c])

\* Take the next manifest; one already in MANUAL_REVIEW is only reported.
RecTake(c) ==
    /\ mode = "recovering" /\ rcur = Absent /\ c \in rq
    /\ IF man[c] = "MANUAL_REVIEW"
       THEN rq' = rq \ {c} /\ UNCHANGED <<mode, rcur, rat>>
       ELSE rcur' = c /\ UNCHANGED <<mode, rq, rat>>
    /\ UNCHANGED <<disk, durable, before, caller, xpc, ctl, lease, res, counts>>

\* _recover_committed_files: confirm the new content, drop the backup.
RecCommitted(c) ==
    /\ InHand(c, "pick") /\ man[c] = "COMMITTED"
    /\ IF /\ target = New(c) /\ tmp[c] = Absent /\ rbk[c] = Absent
          /\ bak[c] = Absent \/ MatchesBefore(c, bak[c])
       THEN /\ bak' = [bak EXCEPT ![c] = Absent]
            /\ Goto("journal") /\ UNCHANGED man
       ELSE ToManual(c) /\ UNCHANGED bak
    /\ UNCHANGED <<target, tmp, rbk, jrn, before, caller, xpc, ctl, lease, res, counts>>

\* PREPARED and ROLLED_BACK require a disk already exactly as before.
RecUnstaged(c) ==
    /\ InHand(c, "pick") /\ man[c] \in {"PREPARED", "ROLLED_BACK"}
    /\ IF CleanRolledBack(c)
       THEN man' = [man EXCEPT ![c] = "ROLLED_BACK"] /\ Goto("journal")
       ELSE ToManual(c)
    /\ UNCHANGED <<disk, jrn, before, caller, xpc, ctl, lease, res, counts>>

\* Only an undecided transaction is rolled back.
Mutant_UndoDecided(c) == man[c] \in {"STAGED", "COMMITTED"}
Undecided(c) == man[c] = "STAGED"

\* _recover_staged_files: classify.
RecScan(c) ==
    /\ InHand(c, "pick") /\ Undecided(c)
    /\ IF StagedDrift(c) THEN ToManual(c)
       ELSE Goto(IF target = New(c) THEN "claim" ELSE "restore") /\ UNCHANGED man
    /\ UNCHANGED <<disk, jrn, before, caller, xpc, ctl, lease, res, counts>>

\* target -> rollback name, by identity.
RecClaim(c) ==
    /\ InHand(c, "claim")
    /\ IF target = New(c) /\ rbk[c] = Absent
       THEN /\ rbk' = [rbk EXCEPT ![c] = target] /\ target' = Absent
            /\ Goto("restore") /\ UNCHANGED man
       ELSE ToManual(c) /\ UNCHANGED <<target, rbk>>
    /\ UNCHANGED <<bak, tmp, jrn, before, caller, xpc, ctl, lease, res, counts>>

\* backup -> target, by identity and without replacing.
RecRestore(c) ==
    /\ InHand(c, "restore")
    /\ \/ /\ target = Absent /\ before[c] # Absent /\ MatchesBefore(c, bak[c])
          /\ target' = bak[c] /\ bak' = [bak EXCEPT ![c] = Absent]
          /\ Goto("sweep") /\ UNCHANGED man
       \/ /\ MatchesBefore(c, target) /\ Goto("sweep")
          /\ UNCHANGED <<target, bak, man>>
       \/ /\ ~MatchesBefore(c, target)
          /\ ~(target = Absent /\ MatchesBefore(c, bak[c]))
          /\ ToManual(c) /\ UNCHANGED <<target, bak>>
    /\ UNCHANGED <<tmp, rbk, jrn, before, caller, xpc, ctl, lease, res, counts>>

\* delete whichever copy of the new content remains.
RecSweep(c) ==
    /\ InHand(c, "sweep")
    /\ IF {tmp[c], rbk[c]} \subseteq {Absent, New(c)}
       THEN /\ tmp' = [tmp EXCEPT ![c] = Absent]
            /\ rbk' = [rbk EXCEPT ![c] = Absent]
            /\ Goto("save") /\ UNCHANGED man
       ELSE ToManual(c) /\ UNCHANGED <<tmp, rbk>>
    /\ UNCHANGED <<target, bak, jrn, before, caller, xpc, ctl, lease, res, counts>>

\* confirm the disk, save ROLLED_BACK.
RecSave(c) ==
    /\ InHand(c, "save")
    /\ IF CleanRolledBack(c)
       THEN man' = [man EXCEPT ![c] = "ROLLED_BACK"] /\ Goto("journal")
       ELSE ToManual(c)
    /\ UNCHANGED <<disk, jrn, before, caller, xpc, ctl, lease, res, counts>>

\* _complete_recovery_journal.
RecJournal(c) ==
    /\ InHand(c, "journal")
    /\ LET decided == IF man[c] = "COMMITTED" THEN "success" ELSE "failed"
       IN  \/ /\ jrn[c] = "started"
              /\ jrn' = [jrn EXCEPT ![c] = decided] /\ Goto("delete") /\ UNCHANGED man
           \/ jrn[c] = decided /\ Goto("delete") /\ UNCHANGED <<man, jrn>>
           \/ jrn[c] \notin {"started", decided} /\ ToManual(c) /\ UNCHANGED jrn
    /\ UNCHANGED <<disk, before, caller, xpc, ctl, lease, res, counts>>

\* Delete the manifest: only now is the transaction forgotten.
RecDelete(c) ==
    /\ InHand(c, "delete")
    /\ man' = [man EXCEPT ![c] = "none"] /\ Next_manifest
    /\ UNCHANGED <<disk, jrn, before, caller, xpc, ctl, lease, res, counts>>

\* An I/O error in filesystem recovery; marking MANUAL_REVIEW may fail too.
RecFault(c) ==
    /\ mode = "recovering" /\ rcur = c /\ rat \notin {"journal", "delete"}
    /\ Fault /\ Next_manifest
    /\ man' \in {man, [man EXCEPT ![c] = "MANUAL_REVIEW"]}
    /\ UNCHANGED <<disk, jrn, before, caller, xpc, ctl, lease, res>>

Mutant_DoneWhenClear ==
    /\ mode = "recovering" /\ rq = {} /\ PathAvailable
    /\ mode' = "running"
    /\ UNCHANGED <<disk, durable, before, caller, xpc, ctl, lease, res, rq, rcur, rat, counts>>
RecDone ==
    /\ mode = "recovering" /\ rq = {}
    /\ mode' = "running"
    /\ UNCHANGED <<disk, durable, before, caller, xpc, ctl, lease, res, rq, rcur, rat, counts>>

-----------------------------------------------------------------------------
(* The user's other programs.  A file with an open handle is out of reach. *)

Edit == externals < MaxExternal /\ externals' = externals + 1 /\ UNCHANGED <<crashes, faults>>

\* Save the target: in place, as a new file, or a new file of equal content.
UserSave ==
    /\ Edit /\ Readable
    /\ IF target = Absent
       THEN target' = [hash |-> Alien, id |-> Alien]
       ELSE target' \in {[hash |-> Alien, id |-> target.id],
                         [hash |-> target.hash, id |-> Alien]}
    /\ UNCHANGED <<bak, tmp, rbk, durable, before, caller, xpc, ctl, lease, res, recv>>

UserDelete ==
    /\ Edit /\ Readable /\ target # Absent /\ target' = Absent
    /\ UNCHANGED <<bak, tmp, rbk, durable, before, caller, xpc, ctl, lease, res, recv>>

\* Delete or overwrite one of the hidden files beside it.
Meddled(s) == IF s \in HeldFiles \/ s = Absent THEN {}
              ELSE {Absent, [hash |-> Alien, id |-> s.id]}

UserMeddle ==
    /\ Edit
    /\ \E c \in Calls :
          \/ \E s \in Meddled(bak[c]) : bak' = [bak EXCEPT ![c] = s] /\ UNCHANGED <<tmp, rbk>>
          \/ \E s \in Meddled(tmp[c]) : tmp' = [tmp EXCEPT ![c] = s] /\ UNCHANGED <<bak, rbk>>
          \/ \E s \in Meddled(rbk[c]) : rbk' = [rbk EXCEPT ![c] = s] /\ UNCHANGED <<bak, tmp>>
    /\ UNCHANGED <<target, durable, before, caller, xpc, ctl, lease, res, recv>>

-----------------------------------------------------------------------------
CallerStep(c) ==
    \/ Snapshot(c) \/ Prepare(c) \/ Admit(c) \/ Join(c) \/ Abandon(c) \/ Discard(c)
    \/ Finalize(c) \/ Retire(c) \/ RetireDelete(c)

ExecStep(c) ==
    \/ BeginManifest(c) \/ CreateTemp(c) \/ RefuseBegun(c) \/ WriteTemp(c) \/ WriteFails(c)
    \/ Stage(c) \/ StageMissing(c)
    \/ Lock(c) \/ Claim(c) \/ ClaimUncertain(c) \/ Publish(c)
    \/ PublishUncertain(c) \/ Commit(c)
    \/ RefusePublished(c) \/ Cleanup(c)
    \/ Sweep(c) \/ UndoPublished(c) \/ UndoClaimed(c) \/ Purge(c) \/ Settle(c)

RecStep(c) ==
    \/ RecTake(c) \/ RecCommitted(c) \/ RecUnstaged(c) \/ RecScan(c) \/ RecClaim(c)
    \/ RecRestore(c) \/ RecSweep(c) \/ RecSave(c) \/ RecJournal(c) \/ RecDelete(c)
    \/ RecFault(c)

Next ==
    \/ \E c \in Calls : \/ CallerStep(c) \/ ExecStep(c) \/ RecStep(c)
                        \/ \E s \in {"cancel", "timeout"} : Signal(c, s)
    \/ Crash \/ RecDone \/ UserSave \/ UserDelete \/ UserMeddle

Spec == Init /\ [][Next]_vars

\* The event loop and the I/O threads run; nothing forces a crash, a signal,
\* a fault or an edit to happen or not to happen.
Fairness ==
    /\ \A c \in Calls : WF_vars(CallerStep(c)) /\ WF_vars(ExecStep(c)) /\ WF_vars(RecStep(c))
    /\ WF_vars(RecDone)

FairSpec == Spec /\ Fairness

-----------------------------------------------------------------------------
(* Properties.                                                             *)

\* Type correctness: every variable stays in its range.
TypeOK ==
    /\ target \in Slot
    /\ bak \in [Calls -> Slot] /\ tmp \in [Calls -> Slot] /\ rbk \in [Calls -> Slot]
    /\ man \in [Calls -> ManState] /\ jrn \in [Calls -> JrnState]
    /\ before \in [Calls -> Slot]
    /\ caller \in [Calls -> CallerPC] /\ xpc \in [Calls -> ExecPC]
    /\ ctl \in [Calls -> {"run", "cancel", "timeout"}]
    /\ lease \in [Calls -> SUBSET File]
    /\ res \in [Calls -> Result]
    /\ mode \in {"running", "recovering"}
    /\ rq \subseteq Calls /\ rcur \in Calls \cup {Absent} /\ rat \in RecPC
    /\ crashes \in 0..MaxCrashes /\ faults \in 0..MaxFaults /\ externals \in 0..MaxExternal

OnDisk == ({target} \cup {bak[c] : c \in Calls} \cup {tmp[c] : c \in Calls}
                    \cup {rbk[c] : c \in Calls}) \ {Absent}

WorkerStep == externals' = externals

\* No step of the Worker, live, rolling back or recovering, destroys a file
\* that is not its own to destroy: what disappears from the disk is the backup
\* of a COMMITTED transaction or the unpublished content of one not reported
\* successful (the file a call is writing becomes its content).
NeverDestroys ==
    [][WorkerStep =>
        \A f \in OnDisk \ OnDisk' :
            \E c \in Calls :
                \/ man[c] = "COMMITTED" /\ f = bak[c]
                \/ f = New(c) /\ f \in {tmp[c], rbk[c]} /\ jrn[c] # "success"
                \/ f = Torn(c) /\ f = tmp[c] /\ tmp'[c] = New(c)]_vars

\* A journal record that says success is written only over a COMMITTED
\* manifest, with the new content in place unless the user has edited since, and
\* once it says so no step moves the backup back.
SuccessIsFinal ==
    [][\A c \in Calls :
        /\ jrn[c] # "success" /\ jrn'[c] = "success" =>
            /\ man[c] = "COMMITTED"
            /\ rbk[c] = Absent /\ tmp[c] = Absent
            /\ target = New(c) \/ externals > 0
        /\ jrn[c] = "success" /\ bak[c] # Absent /\ bak'[c] = Absent =>
            target' # bak[c] \/ target' = target]_vars

\* A journal record that says failed, cancelled or conflicted means that none
\* of the call's content, whole or in part, is under any name, now or later:
\* whatever it could not clear away it reports as an unknown outcome.
FailureLeavesNoTrace ==
    \A c \in Calls : jrn[c] = "failed" =>
        \A f \in OnDisk : f.hash # c /\ f # Torn(c)

\* Every hidden backup, temporary or rollback file has a durable manifest that
\* will find it: no leftover is ever forgotten.
LeftoversAreAccounted ==
    \A c \in Calls : ~InternalsAbsent(c) => man[c] # "none"

\* Restart recovery gives up (MANUAL_REVIEW) only for a cause: an I/O fault, an
\* edit by the user, an outcome already journalled as unknown, a crash between
\* creating the temporary and binding it in STAGED, or two
\* dispatched transactions of the path, the caller of one having let go of it.
ManualOnlyWithCause ==
    \A c \in Calls : man[c] = "MANUAL_REVIEW" =>
        \/ faults > 0 \/ externals > 0
        \/ jrn[c] = "unknown"
        \/ tmp[c] \in {New(c), Torn(c)}
        \/ \E d, e \in Calls : d # e /\ ctl[d] # "run" /\ jrn[e] # "none"

\* Startup recovery always ends and lets the Worker serve again, and a dispatched
\* call always comes to an end, or dies with the Worker.
RecoveryAndCallsEnd ==
    /\ mode = "recovering" ~> mode = "running"
    /\ \A c \in Calls : caller[c] = "executing" ~> caller[c] \in {"done", "dead"}

-----------------------------------------------------------------------------
(* Implementation of EffectDecision.                                       *)

\* The manifest decides while it exists; afterwards the journal remembers.
DecidedOf(c) ==
    IF man[c] = "MANUAL_REVIEW" THEN "review"
    ELSE IF man[c] = "COMMITTED" \/ (man[c] = "none" /\ jrn[c] = "success") THEN "commit"
    ELSE IF man[c] = "ROLLED_BACK" \/ jrn[c] = "failed" THEN "abort"
    ELSE "open"

ReportedOf(c) == IF jrn[c] = "started" THEN "none" ELSE jrn[c]

Decision == INSTANCE EffectDecision WITH
    decided  <- [c \in Calls |-> DecidedOf(c)],
    reported <- [c \in Calls |-> ReportedOf(c)]

\* The transaction protocol, crashes and recovery included, is an effect that
\* is decided once and reported as decided.
DecidedOnce == Decision!Spec

-----------------------------------------------------------------------------
(* The inductive invariant behind the theorems.                            *)

Active    == ExecPC \ {"none", "finish"}
HasTarget == {"published", "committed", "undo_published"}
Leased    == HasTarget \cup {"locked", "claimed", "undo_claimed", "purge"}

\* The manifest follows the executor.
ManifestFollows ==
    \A c \in Calls :
        /\ xpc[c] = "start" => man[c] = "none"
        /\ xpc[c] \in {"begun", "writing", "temped"} => man[c] = "PREPARED"
        /\ xpc[c] \in {"staged", "locked", "claimed", "published"} => man[c] = "STAGED"
        /\ xpc[c] = "committed" => man[c] = "COMMITTED"
        /\ xpc[c] \in {"sweep", "settle"} => man[c] \in {"PREPARED", "STAGED", "COMMITTED"}
        /\ xpc[c] \in {"undo_published", "undo_claimed", "purge"} => man[c] \in {"STAGED", "COMMITTED"}

\* The journal follows the executor and the manifest.
JournalFollows ==
    \A c \in Calls :
        /\ xpc[c] \in Active => jrn[c] \in {"started", "unknown"}
        /\ jrn[c] = "none" => man[c] = "none" /\ xpc[c] = "none"
        /\ jrn[c] = "success" => man[c] \in {"none", "COMMITTED", "MANUAL_REVIEW"}
        /\ jrn[c] = "failed" => man[c] \in {"none", "PREPARED", "ROLLED_BACK", "MANUAL_REVIEW"}

\* What the caller may rely on in each of its states.
CallerFollows ==
    \A c \in Calls :
        /\ caller[c] \in {"idle", "planning", "planned"} => jrn[c] = "none"
        /\ caller[c] = "executing" => jrn[c] = "started" /\ xpc[c] # "none"
        /\ caller[c] = "journal" => jrn[c] = "started" /\ res[c] # "none"
        /\ caller[c] = "executing" /\ xpc[c] = "finish" => res[c] # "none"
        /\ caller[c] = "journal" \/ (caller[c] = "executing" /\ xpc[c] = "finish") =>
              /\ res[c] = "success" => man[c] = "COMMITTED" /\ xpc[c] \notin Active
              /\ res[c] = "failed" => /\ man[c] \in {"none", "PREPARED", "ROLLED_BACK"}
                                      /\ xpc[c] \notin Active
        /\ caller[c] \in {"retire_delete", "abort_delete"} =>
              /\ xpc[c] \in {"none", "finish"}
              /\ InternalsAbsent(c)
              /\ \/ man[c] = "COMMITTED" /\ jrn[c] = "success"
                 \/ man[c] = "ROLLED_BACK" /\ jrn[c] = "failed"

\* Where the content of a call can be while its executor lives.
ContentPlace ==
    \A c \in Calls :
        /\ jrn[c] = "none" \/ xpc[c] \in Active =>
              \A d \in Calls : bak[d] # New(c) /\ (d # c => New(c) \notin lease[d])
        /\ jrn[c] = "none" \/ xpc[c] \in Active \ HasTarget => target # New(c)
        /\ xpc[c] \in HasTarget => target = New(c) /\ tmp[c] = Absent
        /\ xpc[c] \in {"locked", "claimed"} => tmp[c] = New(c)
        /\ xpc[c] \in {"writing", "temped", "staged", "locked", "claimed"} \cup HasTarget =>
              rbk[c] = Absent
        /\ xpc[c] \in {"undo_claimed", "purge"} => {tmp[c], rbk[c]} \subseteq {Absent, New(c)}

\* Which handles an executor holds.
LeasePlace ==
    \A c \in Calls :
        /\ xpc[c] \in Leased => New(c) \in lease[c]
        /\ xpc[c] \notin Leased => lease[c] = {}
        /\ xpc[c] = "locked" /\ before[c] # Absent => target \in lease[c]
        /\ \A d \in Calls : c # d => lease[c] \cap lease[d] = {}

\* Recovery works alone, on one manifest at a time.
RecoveryPlace ==
    /\ mode = "recovering" => \A c \in Calls : xpc[c] = "none" /\ caller[c] \in {"idle", "done", "dead"}
    /\ rcur # Absent => rcur \in rq
    /\ \A c \in rq : man[c] # "none"
    /\ mode = "running" => rq = {}
    /\ rcur = Absent => rat = "pick"
    /\ rcur # Absent =>
          /\ rat \in {"claim", "restore", "sweep", "save"} => man[rcur] = "STAGED"
          /\ rat \in {"journal", "delete"} =>
                man[rcur] \in {"COMMITTED", "ROLLED_BACK"} /\ InternalsAbsent(rcur)
          /\ rat = "delete" =>
                jrn[rcur] = IF man[rcur] = "COMMITTED" THEN "success" ELSE "failed"

IInv == /\ TypeOK /\ ManifestFollows /\ JournalFollows /\ CallerFollows
        /\ ContentPlace /\ LeasePlace /\ RecoveryPlace /\ LeftoversAreAccounted
=============================================================================
