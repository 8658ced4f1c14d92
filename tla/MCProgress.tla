------------------------------ MODULE MCProgress ------------------------------
(***************************************************************************)
(* What is begun ends.  Three systems stand side by side and `part' says     *)
(* which of them moves, while the others stay where they begin: puts to the  *)
(* artifact store (ArtifactStore), a call on the Vault (VaultTransaction),   *)
(* and the child Runs of a root (Subagents), two of them or one alone and    *)
(* more going wrong.                                                         *)
(***************************************************************************)
EXTENDS ArtifactStore

CONSTANTS p1, p2, p3, Base, Alien, Partial, Absent, v, r1, c1, c2   \* v: a Vault call; a root, its children

VARIABLES
    part,
    target, bak, tmp, rbk, man, jrn, before, caller, xpc, ctl, lease, res,
    mode, rq, rcur, rat, crashes, faults, externals,
    parent, status, leased, result, rootDone, checkpoint, root, scopeCancelled,
    ledger, held, sched, childPc, outcome, signalled, lock, tool, childCancel,
    statusGeneration, startup, unscanned, childCrashes, childFaults

vaultVars == <<target, bak, tmp, rbk, man, jrn, before, caller, xpc, ctl, lease, res,
               mode, rq, rcur, rat, crashes, faults, externals>>
childVars == <<parent, status, leased, result, rootDone, checkpoint, root, scopeCancelled,
               ledger, held, sched, childPc, outcome, signalled, lock, tool, childCancel,
               statusGeneration, startup, unscanned, childCrashes, childFaults>>

Vault == INSTANCE VaultTransaction WITH
    Calls <- {v}, MaxCrashes <- 2, MaxFaults <- 1, MaxExternal <- 1

Child == INSTANCE Subagents WITH
    Roots <- {r1}, Children <- {c1, c2}, Parents <- {[c \in {c1, c2} |-> r1]},
    MaxWorkspace <- 1, MaxRoot <- 1, RootBudget <- 2, HarnessRunner <- FALSE,
    MaxCrashes <- 0, MaxFaults <- 0,
    pc <- childPc, cancel <- childCancel, crashes <- childCrashes, faults <- childFaults

\* The bounds of a child that is alone.
Only == INSTANCE Subagents WITH
    Roots <- {r1}, Children <- {c1, c2}, Parents <- {[c \in {c1, c2} |-> r1]},
    MaxWorkspace <- 1, MaxRoot <- 1, RootBudget <- 2, HarnessRunner <- FALSE,
    MaxCrashes <- 1, MaxFaults <- 1,
    pc <- childPc, cancel <- childCancel, crashes <- childCrashes, faults <- childFaults

Put(k, i, c, t) == [key |-> k, metadata |-> [id |-> i, content |-> c, at |-> t]]
Three(a, b, c) == [p \in Puts |-> IF p = p1 THEN a ELSE IF p = p2 THEN b ELSE c]

\* A retry of one request beside another artifact of the same content; and an
\* artifact ID and a key that are asked for twice, with different metadata.
MCPlans == {
    Three(Put("k", "i", "c", 0), Put("k", "i", "c", 0), Put("l", "j", "c", 0)),
    Three(Put("k", "i", "c", 0), Put("l", "i", "c", 1), Put("k", "j", "d", 0))}

MCInit ==
    /\ part \in {"artifacts", "vault", "children", "child"}
    /\ Init /\ Vault!Init /\ Child!Init
    /\ part # "artifacts" => system = "nt" /\ asked = CHOOSE plan \in MCPlans : TRUE
    /\ part # "vault" => target = Absent

PutsMove(A) == part = "artifacts" /\ A /\ UNCHANGED <<part, vaultVars, childVars>>
VaultMoves(A) == part = "vault" /\ A /\ UNCHANGED <<part, vars, childVars>>
ChildrenMove(A) == part = "children" /\ A /\ UNCHANGED <<part, vars, vaultVars>>
ChildMoves(A) ==
    part = "child" /\ A /\ status'[c2] = "none" /\ UNCHANGED <<part, vars, vaultVars>>

MCNext ==
    \/ PutsMove(Next)
    \/ VaultMoves(Vault!Next)
    \/ ChildrenMove(Child!Next) \/ ChildMoves(Only!Next)

allVars == <<part, vars, vaultVars, childVars>>

\* The fairness of each, while it is the one that moves.
MCSpec ==
    /\ MCInit /\ [][MCNext]_allVars
    /\ WF_vaultVars(part = "vault" /\ Vault!CallerStep(v))
    /\ WF_vaultVars(part = "vault" /\ Vault!ExecStep(v))
    /\ WF_vaultVars(part = "vault" /\ Vault!RecStep(v))
    /\ WF_vaultVars(part = "vault" /\ Vault!RecDone)
    /\ WF_childVars(part = "children" /\ Child!ToolStep)
    /\ WF_childVars(part = "children" /\ \/ \E c \in {c1, c2} : Child!TaskStep(c)
                                         \/ Child!CancelStep(r1))
    /\ WF_childVars(part = "child" /\ Only!ToolStep)
    /\ WF_childVars(part = "child" /\ (Only!TaskStep(c1) \/ Only!CancelStep(r1)))
    /\ WF_childVars(part = "child" /\ Only!RecoveryStep)

PutsSpec == MCInit /\ part = "artifacts" /\ [][PutsMove(Next)]_allVars

-----------------------------------------------------------------------------
\* Recovery of the Vault ends, and so does a call, unless it dies with the Worker.
RecoveryAndCallsEnd == Vault!RecoveryAndCallsEnd

\* Child Runs end, with their slots and cancellers.
ChildrenEnd == part \in {"children", "child"} => Child!ChildrenEnd
=============================================================================
