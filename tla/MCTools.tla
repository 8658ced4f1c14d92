------------------------------- MODULE MCTools -------------------------------
(***************************************************************************)
(* The approval of one call (Approvals), or, as `part' chooses, three tool  *)
(* calls through the effect gate and the keyed locks (ToolCalls), of which  *)
(* the first may await the Run of the second; two keys, named in either     *)
(* order.                                                                   *)
(***************************************************************************)
EXTENDS Approvals, ToolCalls

CONSTANTS t1, t2, t3

VARIABLE part

MCKeyLists == {<<1, 2>>, <<2, 1>>}
MCAwaitedBy == [t \in Tasks |-> IF t = t1 THEN {t2} ELSE {}]

MCInit == Init /\ CallsInit /\ part \in {"approval", "calls"}

Of(p, A, others) == part = p /\ A /\ UNCHANGED <<part, others>>

MCNext == Of("approval", Next, callVars) \/ Of("calls", CallsNext, vars)

MCSpec ==
    /\ MCInit /\ [][MCNext]_<<part, vars, callVars>>
    /\ WF_vars(part = "approval" /\ Kernel)
    /\ WF_vars(part = "approval" /\ Commit)
    /\ WF_vars(part = "approval" /\ Settle)
    /\ \A t \in Tasks : WF_callVars(part = "calls" /\ Progress(t))
=============================================================================
