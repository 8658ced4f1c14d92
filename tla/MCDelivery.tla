------------------------------ MODULE MCDelivery ------------------------------
(***************************************************************************)
(* What a Worker delivers, as `part' chooses.  The publication of the Wiki  *)
(* (KnowledgePublication).  The delivery of the events of two Runs          *)
(* (EventDelivery): three events (some of them told before there is a       *)
(* client), a sink, a page and a reorder buffer of one, two passes, and one *)
(* Worker with its connection: a second one starts as the first did, with   *)
(* more events committed.  A root Run with a Vault call and a query         *)
(* (AgentRun), which has to end.                                            *)
(***************************************************************************)
EXTENDS KnowledgePublication, EventDelivery

VARIABLES
    part,
    kind, rs, told, jrn, exe, applied, runs, runPc, local, inner, batch, at,
    out, cancel, stale, runCrashes, runFaults

runVars == <<kind, rs, told, jrn, exe, applied, runs, runPc, local, inner, batch, at,
             out, cancel, stale, runCrashes, runFaults>>

Run == INSTANCE AgentRun WITH
    Calls <- {1, 2}, Kinds <- {<<"vault", "query">>}, MaxCrashes <- 1, MaxFaults <- 1,
    pc <- runPc, crashes <- runCrashes, faults <- runFaults

MCInit == Init /\ DeliveryInit /\ Run!Init /\ part \in {"wiki", "events", "run"}

Of(p, A, others) == part = p /\ A /\ UNCHANGED <<part, others>>

MCNext ==
    \/ Of("wiki", Next, <<deliveryVars, runVars>>)
    \/ Of("events", DeliveryNext, <<vars, runVars>>)
    \/ Of("run", Run!Next, <<vars, deliveryVars>>)

\* The fairness of each, while it is the one that moves.
MCSpec ==
    /\ MCInit /\ [][MCNext]_<<part, vars, deliveryVars, runVars>>
    /\ WF_deliveryVars(part = "events" /\ Tell)
    /\ WF_deliveryVars(part = "events" /\ Pump)
    /\ WF_deliveryVars(part = "events" /\ Receive)
    /\ WF_runVars(part = "run" /\ Run!Progress /\ UNCHANGED kind)

-----------------------------------------------------------------------------
\* A root Run ends, by itself or at the next start.
RunEnds == part = "run" => Run!RunEnds
=============================================================================
