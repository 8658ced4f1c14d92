------------------------------- MODULE MCVault -------------------------------
(***************************************************************************)
(* Calls on one path of the Vault (VaultTransaction), as `part' chooses:    *)
(* two of them, or one alone and more going wrong.                          *)
(***************************************************************************)
EXTENDS VaultTransaction, TLC

VARIABLE part

\* The bounds of a call that has the path to itself.
Alone == INSTANCE VaultTransaction WITH MaxCrashes <- 2, MaxFaults <- 2, MaxExternal <- 2

Symmetry == Permutations(Calls)

MCInit == Init /\ part \in {"two calls", "one call"}

OneCall == \E c \in Calls : \A d \in Calls \ {c} : caller'[d] = "idle"

MCNext ==
    \/ part = "two calls" /\ Next /\ UNCHANGED part
    \/ part = "one call" /\ Alone!Next /\ OneCall /\ UNCHANGED part

MCSpec == MCInit /\ [][MCNext]_<<part, vars>>
=============================================================================
