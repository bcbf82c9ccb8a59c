------------------------------ MODULE MCSwarm -------------------------------
(* Values of the constants of Swarm that a cfg file cannot write. *)
EXTENDS Swarm, TLC

CONSTANTS n1, n2, n3, k1, k2, x1, x2

Ids == (n1 :> 1) @@ (n2 :> 2) @@ (n3 :> 3)
NodeIds == [n \in Nodes |-> Ids[n]]
Everywhere == [k \in Clients |-> Nodes]
AtFirst == [k \in Clients |-> {n1}]
OneXidEach == [k \in Clients |-> IF k = k1 THEN {x1} ELSE {x2}]
SharedXid == [k \in Clients |-> IF k = k1 THEN {x1} ELSE {x1, x2}]
=============================================================================
