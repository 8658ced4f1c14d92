---------------------------- MODULE EffectDecision ----------------------------
(***************************************************************************)
(* What a durable effect promises to those who read its journal record:     *)
(* it is decided once, commit or abort, and what is reported agrees with    *)
(* the decision.  When the two can no longer be told to agree a human       *)
(* reviews it.  VaultTransaction implements this (VaultRefinesDecision).    *)
(***************************************************************************)
CONSTANT Calls

VARIABLES
    decided,    \* decided[c]: "open", "commit", "abort" or "review"
    reported    \* reported[c]: "none", "success", "failed" or "unknown"

Init ==
    /\ decided = [c \in Calls |-> "open"]
    /\ reported = [c \in Calls |-> "none"]

\* The effect becomes irreversible, or is abandoned with nothing left of it.
Decide(c) ==
    /\ decided[c] = "open"
    /\ \E d \in {"commit", "abort"} : decided' = [decided EXCEPT ![c] = d]
    /\ UNCHANGED reported

ReportSuccess(c) ==
    /\ reported[c] = "none" /\ decided[c] = "commit"
    /\ reported' = [reported EXCEPT ![c] = "success"]
    /\ UNCHANGED decided

\* Reporting a failure is itself the decision when none was taken before.
ReportFailure(c) ==
    /\ reported[c] = "none" /\ decided[c] \in {"open", "abort"}
    /\ reported' = [reported EXCEPT ![c] = "failed"]
    /\ decided' = [decided EXCEPT ![c] = "abort"]

\* The caller could not learn the outcome; deciding goes on without it.
ReportUnknown(c) ==
    /\ reported[c] = "none"
    /\ reported' = [reported EXCEPT ![c] = "unknown"]
    /\ UNCHANGED decided

Review(c) ==
    /\ decided' = [decided EXCEPT ![c] = "review"]
    /\ UNCHANGED reported

Next ==
    \E c \in Calls :
        \/ Decide(c) \/ Review(c)
        \/ ReportSuccess(c) \/ ReportFailure(c) \/ ReportUnknown(c)

Spec == Init /\ [][Next]_<<decided, reported>>
=============================================================================
