--------------------------- MODULE StateMapProofs ---------------------------
(***************************************************************************)
(* Facts about the operators of module StateMap: the last entry of a lock, *)
(* which entries the lock state map accepts, and how far it gets.  They    *)
(* replace the CHOOSE in these operators by first-order statements, which  *)
(* the proofs about the lock service and the replay loops use.             *)
(***************************************************************************)
EXTENDS StateMap, TLAPS, WellFoundedInduction

(* Every non-empty set of numbers has a smallest one.  Applied to a set of *)
(* counterexamples this is induction.                                      *)
LEMMA SmallestExists ==
    ASSUME NEW S \in SUBSET Nat, S # {}
    PROVE  \E m \in S : \A k \in S : m <= k
<1>1. PICK m \in S : \A k \in S : ~(<<k, m>> \in OpToRel(<, Nat))
  BY NatLessThanWellFounded, WFMin, Zenon
<1>2. \A k \in S : k \in Nat /\ m \in Nat
  OBVIOUS
<1>3. \A k \in S : ~(k < m)
  BY <1>1, <1>2, Zenon DEF OpToRel
<1> HIDE <1>1
<1> QED BY <1>2, <1>3

(* A bounded non-empty set of numbers has a largest one, which LastOf      *)
(* picks.                                                                  *)
LEMMA LastOfIsLargest ==
    ASSUME NEW S \in SUBSET Nat, S # {}, NEW n \in Nat, \A k \in S : k <= n
    PROVE  LastOf(S) \in S /\ \A k \in S : k <= LastOf(S)
<1> DEFINE T == {n - k : k \in S}
<1>1. T \in SUBSET Nat /\ T # {}
  <2>1. \A k \in S : n - k \in Nat
    OBVIOUS
  <2> QED BY <2>1
<1>2. PICK x \in T : \A y \in T : x <= y
  <2> HIDE DEF T
  <2> QED BY <1>1, SmallestExists
<1>3. PICK m \in S : x = n - m
  BY <1>2
<1>4. \A k \in S : n - m <= n - k
  BY <1>2, <1>3
<1>5. \A k \in S : k <= m
  BY <1>4
<1>6. \E i \in S : \A j \in S : j <= i
  BY <1>5
<1> QED BY <1>6 DEF LastOf

LEMMA LastOfIs ==
    ASSUME NEW S \in SUBSET Nat, NEW m \in S, \A k \in S : k <= m
    PROVE  LastOf(S) = m
<1>1. LastOf(S) \in S /\ \A k \in S : k <= LastOf(S)
  BY LastOfIsLargest
<1>2. LastOf(S) \in Nat /\ m \in Nat /\ LastOf(S) <= m /\ m <= LastOf(S)
  BY <1>1
<1> QED BY <1>2

-----------------------------------------------------------------------------
(* q is the index of the last entry of lock l among the first k. *)
IsLast(l, lg, k, q) ==
    /\ q \in 1 .. k
    /\ lg[q].lock = l
    /\ \A r \in q + 1 .. k : lg[r].lock # l

(* A lock has a state exactly if it has a last entry, and that is it. *)
LEMMA LastExists ==
    ASSUME NEW l, NEW lg, NEW k \in Nat, HasState(l, lg, k)
    PROVE  \E q \in 1 .. k : IsLast(l, lg, k, q) /\ LockState(l, lg, k) = lg[q]
<1> DEFINE S == EntriesOf(l, lg, k)
           q == LastOf(S)
<1>1. S \in SUBSET Nat /\ S # {} /\ \A i \in S : i <= k
  BY DEF HasState, EntriesOf
<1> HIDE DEF S
<1>2. q \in S /\ \A i \in S : i <= q
  BY <1>1, LastOfIsLargest
<1> HIDE DEF q
<1>3. q \in 1 .. k /\ lg[q].lock = l
  BY <1>2 DEF S, EntriesOf
<1>4. \A r \in q + 1 .. k : lg[r].lock # l
  BY <1>2, <1>3 DEF S, EntriesOf
<1> QED BY <1>3, <1>4 DEF IsLast, LockState, q, S

LEMMA LastIsState ==
    ASSUME NEW l, NEW lg, NEW k \in Nat, NEW q, IsLast(l, lg, k, q)
    PROVE  HasState(l, lg, k) /\ LockState(l, lg, k) = lg[q]
<1> DEFINE S == EntriesOf(l, lg, k)
<1>1. S \in SUBSET Nat /\ q \in S
  BY DEF IsLast, EntriesOf
<1>2. \A i \in S : i <= q
  BY DEF IsLast, EntriesOf
<1> HIDE DEF S
<1>3. LastOf(S) = q
  BY <1>1, <1>2, LastOfIs
<1> QED BY <1>1, <1>3 DEF HasState, LockState, S

LEMMA HasStateIff ==
    ASSUME NEW l, NEW lg, NEW k
    PROVE  HasState(l, lg, k) <=> \E i \in 1 .. k : lg[i].lock = l
BY DEF HasState, EntriesOf

(* Only the first k entries matter for the state at k. *)
LEMMA SameState ==
    ASSUME NEW l, NEW lg, NEW lg2, NEW k \in Nat, \A i \in 1 .. k : lg[i] = lg2[i]
    PROVE  /\ HasState(l, lg, k) <=> HasState(l, lg2, k)
           /\ HasState(l, lg, k) => LockState(l, lg, k) = LockState(l, lg2, k)
<1>1. EntriesOf(l, lg, k) = EntriesOf(l, lg2, k)
  BY DEF EntriesOf
<1>2. ASSUME HasState(l, lg, k)
      PROVE  LockState(l, lg, k) = LockState(l, lg2, k)
  <2>1. PICK q \in 1 .. k : IsLast(l, lg, k, q) /\ LockState(l, lg, k) = lg[q]
    BY <1>2, LastExists
  <2>2. IsLast(l, lg2, k, q)
    BY <2>1 DEF IsLast
  <2> QED BY <2>1, <2>2, LastIsState
<1> QED BY <1>1, <1>2 DEF HasState

-----------------------------------------------------------------------------
(* The map accepts an entry exactly if its nonce follows that of the last  *)
(* entry of its lock before it, if there is one.                           *)
LEMMA AcceptedIff ==
    ASSUME NEW lg, NEW i \in Nat \ {0}
    PROVE  Accepted(lg, i) <=>
               \A q \in 1 .. i - 1 :
                   IsLast(lg[i].lock, lg, i - 1, q) => lg[i].nonce = lg[q].nonce + 1
<1>1. i - 1 \in Nat
  OBVIOUS
<1>2. CASE HasState(lg[i].lock, lg, i - 1)
  <2>1. PICK q \in 1 .. i - 1 : /\ IsLast(lg[i].lock, lg, i - 1, q)
                                /\ LockState(lg[i].lock, lg, i - 1) = lg[q]
    BY <1>1, <1>2, LastExists
  <2>2. \A r \in 1 .. i - 1 : IsLast(lg[i].lock, lg, i - 1, r) => lg[r] = lg[q]
    BY <1>1, <2>1, LastIsState
  <2> QED BY <1>2, <2>1, <2>2 DEF Accepted
<1>3. CASE ~HasState(lg[i].lock, lg, i - 1)
  BY <1>1, <1>3, LastIsState DEF Accepted
<1> QED BY <1>2, <1>3

LEMMA SameAccepted ==
    ASSUME NEW lg, NEW lg2, NEW i \in Nat \ {0}, \A j \in 1 .. i : lg[j] = lg2[j]
    PROVE  Accepted(lg, i) <=> Accepted(lg2, i)
<1>1. i - 1 \in Nat /\ (\A j \in 1 .. i - 1 : lg[j] = lg2[j]) /\ lg[i] = lg2[i]
  OBVIOUS
<1> QED BY <1>1, SameState DEF Accepted

(* An earlier entry of the lock gives a last one before i. *)
LEMMA PredecessorExists ==
    ASSUME NEW lg, NEW i \in Nat, NEW j \in 1 .. i - 1, lg[j].lock = lg[i].lock
    PROVE  \E q \in j .. i - 1 : IsLast(lg[i].lock, lg, i - 1, q)
<1>1. i - 1 \in Nat
  OBVIOUS
<1>2. HasState(lg[i].lock, lg, i - 1)
  BY HasStateIff
<1>3. PICK q \in 1 .. i - 1 : IsLast(lg[i].lock, lg, i - 1, q)
  BY <1>1, <1>2, LastExists
<1>4. q >= j
  BY <1>3 DEF IsLast
<1> QED BY <1>3, <1>4

(* Where every entry of a lock is accepted its nonces increase. *)
LEMMA LockNoncesIncrease ==
    ASSUME NEW lg, NEW d \in Nat, NEW l,
           \A i \in 1 .. d : lg[i].lock = l => lg[i].nonce \in Nat /\ Accepted(lg, i)
    PROVE  \A j \in 1 .. d : \A i \in 1 .. j - 1 :
               lg[i].lock = l /\ lg[j].lock = l => lg[i].nonce < lg[j].nonce
<1> DEFINE Bad == {j \in 1 .. d : \E i \in 1 .. j - 1 :
                       lg[i].lock = l /\ lg[j].lock = l /\ ~(lg[i].nonce < lg[j].nonce)}
<1> SUFFICES ASSUME Bad # {} PROVE FALSE
  OBVIOUS
<1>1. Bad \in SUBSET Nat
  OBVIOUS
<1>2. PICK j \in Bad : \A k \in Bad : j <= k
  <2> HIDE DEF Bad
  <2> QED BY <1>1, SmallestExists
<1>3. PICK i \in 1 .. j - 1 : lg[i].lock = l /\ lg[j].lock = l /\ ~(lg[i].nonce < lg[j].nonce)
  BY <1>2
<1>4. j \in 1 .. d /\ j \in Nat \ {0}
  BY <1>2
<1>5. PICK q \in i .. j - 1 : IsLast(lg[j].lock, lg, j - 1, q)
  BY <1>3, <1>4, PredecessorExists
<1>6. q \in 1 .. j - 1 /\ q \in 1 .. d /\ lg[q].lock = l
  BY <1>3, <1>4, <1>5 DEF IsLast
<1>7. lg[j].nonce = lg[q].nonce + 1
  BY <1>3, <1>4, <1>5, <1>6, AcceptedIff
<1>8. q \notin Bad
  BY <1>2, <1>4, <1>6
<1>9. i = q \/ lg[i].nonce < lg[q].nonce
  <2>1. i = q \/ i \in 1 .. q - 1
    BY <1>3, <1>4, <1>5
  <2> QED BY <2>1, <1>3, <1>6, <1>8
<1>10. lg[i].nonce \in Nat /\ lg[q].nonce \in Nat /\ lg[j].nonce \in Nat
  BY <1>3, <1>4, <1>6
<1> HIDE DEF Bad
<1> QED BY <1>3, <1>7, <1>9, <1>10

(* So they do where every entry is accepted. *)
LEMMA NoncesIncrease ==
    ASSUME NEW lg, NEW d \in Nat,
           \A i \in 1 .. d : lg[i].nonce \in Nat /\ Accepted(lg, i)
    PROVE  \A j \in 1 .. d : \A i \in 1 .. j - 1 :
               lg[i].lock = lg[j].lock => lg[i].nonce < lg[j].nonce
BY LockNoncesIncrease

(* The map gets to the last index up to which every entry is accepted. *)
LEMMA AppliedUpToProperties ==
    ASSUME NEW lg, NEW from \in Nat, NEW end \in Nat, from <= end
    PROVE  /\ AppliedUpTo(lg, from, end) \in from .. end
           /\ \A i \in from + 1 .. AppliedUpTo(lg, from, end) : Accepted(lg, i)
           /\ \A k \in from .. end : (\A i \in from + 1 .. k : Accepted(lg, i)) =>
                  k <= AppliedUpTo(lg, from, end)
<1> DEFINE S == {k \in from .. end : \A i \in from + 1 .. k : Accepted(lg, i)}
<1>1. S \in SUBSET Nat /\ from \in S /\ \A k \in S : k <= end
  OBVIOUS
<1>2. LastOf(S) \in S /\ \A k \in S : k <= LastOf(S)
  <2> HIDE DEF S
  <2> QED BY <1>1, LastOfIsLargest
<1>3. AppliedUpTo(lg, from, end) = LastOf(S)
  BY DEF AppliedUpTo
<1> HIDE <1>1
<1> DEFINE m == LastOf(S)
<1> HIDE DEF m
<1>4. m \in S /\ \A k \in S : k <= m
  BY <1>2 DEF m
<1>5. AppliedUpTo(lg, from, end) = m
  BY <1>3 DEF m
<1> HIDE <1>2, <1>3
<1> QED BY <1>4, <1>5
=============================================================================
