------------------------------ MODULE MCPaxos ------------------------------
(* Constants of the runs of Paxos.                                         *)
EXTENDS Paxos

\* The clients are numbered in the order of main.
Targets == [c \in Client |-> CASE c = "A" -> "n0" [] c = "B" -> "n1" [] c = "C" -> "n2"]

\* All at one agent, which alone proposes.
OneTarget == [c \in Client |-> "n0"]

=============================================================================
