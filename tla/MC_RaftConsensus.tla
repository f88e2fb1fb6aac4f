-------------------------- MODULE MC_RaftConsensus --------------------------
(* Instances of RaftConsensus for TLC. *)
EXTENDS RaftConsensus, TLC

(* Nodes are interchangeable: ids are only compared for equality. *)
NodeSymmetry == Permutations(Node)

(* Bound: vote calls under way, over all nodes. *)
FewVoteCalls == Cardinality(voteSent) + Cardinality(voteAnswered) <= 2
=============================================================================
