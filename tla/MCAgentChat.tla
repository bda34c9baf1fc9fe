----------------------------- MODULE MCAgentChat -----------------------------
(* Small instances of AgentChat for TLC. *)
EXTENDS AgentChat

CONSTANTS t1, t2, x, y

MCTwoCalls == [t \in Turn |-> 2]
MCNoCalls == [t \in Turn |-> 0]

=============================================================================
