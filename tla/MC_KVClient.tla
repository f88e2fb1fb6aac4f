---------------------------- MODULE MC_KVClient ----------------------------
(* Instances of KVClient for TLC. *)
EXTENDS KVClient, TLC

(* Nodes are interchangeable: ids are only compared for equality. *)
NodeSymmetry == Permutations(Node)

(* Bounds: no release loop once a node has crashed; a node that stands a   *)
(* second time, and term 4, only while nothing is logged and nobody has    *)
(* crashed.                                                                *)
Small ==
    /\ crashes > 0 => \A n \in Node : polls[n] = 0
    /\ \/ \A n \in Node : Len(ballots[n]) <= 1 /\ currentTerm[n] <= 3
       \/ crashes = 0 /\ \A n \in Node : log[n] = <<>>
=============================================================================
