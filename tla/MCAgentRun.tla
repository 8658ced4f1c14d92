------------------------------ MODULE MCAgentRun ------------------------------
(* Instances of AgentRun for TLC: two effectful calls, a group of two reads, and a *)
(* write with a query behind it.                                           *)
EXTENDS AgentRun
TwoWrites == <<"vault", "write">>
TwoReads == <<"read", "read">>
WriteAndQuery == <<"vault", "query">>
MCKinds == {TwoWrites, TwoReads, WriteAndQuery}
MCWrites == {TwoWrites}

\* Reads have no effect that could be repeated: three troubles in all.
Bound == kind = TwoReads => crashes + faults <= 3
=============================================================================
