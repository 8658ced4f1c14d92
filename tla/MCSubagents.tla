---------------------------- MODULE MCSubagents ----------------------------
EXTENDS Subagents
CONSTANTS r1, r2, c1, c2, d1, d2, d3
OneRoot == [c \in Children |-> r1]
TwoRoots == [c \in Children |-> IF c \in {c2, d1} THEN r2 ELSE r1]
MCParents == {OneRoot, TwoRoots}
MCTwoRoots == {TwoRoots}

Spawned(c) == status[c] # "none" \/ tool.child = c

\* Five children take part in one scene only: the second root is lost while two of its
\* children are queued behind one of the first, which then spawns two more.
Scene ==
    /\ parent = TwoRoots /\ root[r1] = "running" /\ crashes = 0
    /\ tool.op \in {"none", "spawn"}
    /\ \A r \in Roots : ~scopeCancelled[r] /\ cancel[r] = Idle /\ checkpoint[r].reserved = 0
    /\ Spawned(c1) /\ Spawned(c2) /\ Spawned(d1)
    /\ root[r2] = "running" => pc[c1] = "running"
    /\ Spawned(d2) => root[r2] = "ended" /\ pc[c1] = "gone"
    /\ Spawned(d3) => Spawned(d2)

\* Two roots meet in the scheduler, not in recovery or in a handler of a failure.
\* Two children of one root differ only in their names: c1 is the first.
Bound ==
    IF \E c \in {d1, d2, d3} \cap Children : Spawned(c) THEN Scene
    ELSE /\ parent = TwoRoots => crashes = 0 /\ faults = 0
         /\ parent = OneRoot => (Spawned(c2) => Spawned(c1))
=============================================================================
