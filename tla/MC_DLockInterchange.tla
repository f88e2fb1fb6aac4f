------------------------ MODULE MC_DLockInterchange ------------------------
(* Instances of DLockInterchange for TLC. *)
EXTENDS DLockInterchange, TLC

(* Clients are only compared for equality. *)
ClientSymmetry == Permutations(Client)

(* Bound: one entry less after a change of leader. *)
Small == Len(log) + takeovers <= MaxLog
=============================================================================
