------------------------------ MODULE StateMap ------------------------------
(***************************************************************************)
(* The lock state map (storage/statemap_memory_impl.go) as a function of   *)
(* the log.  StateMapMemoryDLock keeps, for every lock, the last command   *)
(* applied, and in prevIndex the index it has got to.  Applied entries     *)
(* never change, so the map's contents are determined by the log up to     *)
(* prevIndex: the state of a lock is its last entry there.  The module     *)
(* StateMapReplay runs the code's own loop and shows that it is so.        *)
(***************************************************************************)
EXTENDS Integers, Sequences

(* The largest element of a set of numbers. *)
LastOf(S) == CHOOSE i \in S : \A j \in S : j <= i

EntriesOf(l, lg, k) == {i \in 1 .. k : lg[i].lock = l}

(* QuerySpecificState: is there a state, and which. *)
HasState(l, lg, k) == EntriesOf(l, lg, k) # {}
LockState(l, lg, k) == lg[LastOf(EntriesOf(l, lg, k))]

\* mutant: a nonce that was used before is accepted again
AcceptedTwice(lg, i) ==
    HasState(lg[i].lock, lg, i - 1) =>
        lg[i].nonce >= LockState(lg[i].lock, lg, i - 1).nonce

(* UpdateStateFromLogEntry: an entry must carry the nonce after the one in *)
(* the map; the first entry of a lock may carry any.                       *)
Accepted(lg, i) ==
    HasState(lg[i].lock, lg, i - 1) =>
        lg[i].nonce = LockState(lg[i].lock, lg, i - 1).nonce + 1

(* UpdateStateFromLogMemory(start, end) with start = from + 1: applied one *)
(* by one, up to the first entry the map refuses.                          *)
AppliedUpTo(lg, from, end) ==
    LastOf({k \in from .. end : \A i \in from + 1 .. k : Accepted(lg, i)})
=============================================================================
