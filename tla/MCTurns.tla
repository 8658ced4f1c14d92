------------------------------- MODULE MCTurns -------------------------------
(***************************************************************************)
(* The requests of clients (Turns), and beside them, as `part' chooses, a    *)
(* tree of three scopes (CancellationTree) while the requests do not move.   *)
(***************************************************************************)
EXTENDS Turns, CancellationTree

CONSTANTS q1, q2, q3, s1, s2

VARIABLE part

Start(s, k) == [op |-> "start", session |-> s, key |-> k]
Delete(s, k) == [op |-> "delete", session |-> s, key |-> k]
Three(a, b, c) == [q \in Requests |-> IF q = q1 THEN a ELSE IF q = q2 THEN b ELSE c]

\* Two turns and a deletion in one session; two sessions and one slot; a request
\* repeated under its key.
MCPlans == {
    Three(Start(s1, "a"), Start(s1, "b"), Delete(s1, "d")),
    Three(Start(s1, "a"), Start(s2, "b"), Delete(s1, "d")),
    Three(Start(s1, "a"), Delete(s1, "d"), Delete(s1, "d")),
    Three(Start(s1, "a"), Start(s1, "a"), Start(s1, "b"))}

MCInit ==
    /\ Init /\ TreeInit /\ part \in {"turns", "scopes"}
    /\ part = "scopes" => plan = CHOOSE p \in MCPlans : TRUE

MCNext ==
    \/ part = "turns" /\ Next /\ UNCHANGED <<part, scopeVars>>
    \/ part = "scopes" /\ TreeNext /\ UNCHANGED <<part, vars>>

MCSpec ==
    /\ MCInit /\ [][MCNext]_<<part, vars, scopeVars>>
    /\ WF_vars(part = "turns" /\ Progress)
=============================================================================
