------------------------------ MODULE MCGossip ------------------------------
(* Constants of the runs of Gossip.                                        *)
EXTENDS Gossip

\* As in main: everybody pings the first.
PingFirst == [a \in Agent |-> IF a = "p0" THEN {} ELSE {"p0"}]

=============================================================================
