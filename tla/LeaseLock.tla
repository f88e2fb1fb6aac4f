------------------------------ MODULE LeaseLock ------------------------------
(***************************************************************************)
(* What the lock service promises, whatever nodes and clients do: each     *)
(* lock has one history of states that only grows.  A lock is granted for  *)
(* a lease, and only when the lease before has ended; a release is a state *)
(* with no owner and no lease, and only a held lock is released.           *)
(***************************************************************************)
EXTENDS Naturals, Sequences

CONSTANTS Lock, NoOwner

VARIABLE history         \* the states of each lock, oldest first

Ended(s, t) == s.ts + s.expire <= t

(* State s may come after the states of h. *)
Grants(h, s) ==
    /\ s.owner # NoOwner
    /\ h # <<>> => Ended(h[Len(h)], s.ts)

Releases(h, s) ==
    /\ s.owner = NoOwner /\ s.expire = 0
    /\ h # <<>>
    /\ h[Len(h)].owner # NoOwner
    /\ h[Len(h)].ts <= s.ts

Legal(h, s) ==
    /\ s.nonce = Len(h) + 1
    /\ Grants(h, s) \/ Releases(h, s)

Init == history = [l \in Lock |-> <<>>]

(* Several states may be added in one step, to several locks. *)
Extends(old, new) ==
    /\ Len(old) <= Len(new)
    /\ SubSeq(new, 1, Len(old)) = old
    /\ \A i \in Len(old) + 1 .. Len(new) : Legal(SubSeq(new, 1, i - 1), new[i])

Next ==
    /\ history' # history
    /\ \A l \in Lock : Extends(history[l], history'[l])

Spec == Init /\ [][Next]_history
=============================================================================
