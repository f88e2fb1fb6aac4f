--------------------------- MODULE MC_DLockClient ---------------------------
(* Instances of DLockClient for TLC. *)
EXTENDS DLockClient, TLC

(* Clients are only compared for equality. *)
ClientSymmetry == Permutations(Client)

(* Bounds: one entry less after a change of leader or a late request, and  *)
(* two places in the acquirement list of a leader.                         *)
Small ==
    /\ Len(log) + takeovers + Cardinality(late) <= MaxLog
    /\ \A l \in Lock : Assigned(pending[l]) <= 2
=============================================================================
