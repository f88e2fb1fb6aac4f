-------------------------- MODULE LeaseLockProofs --------------------------
(***************************************************************************)
(* The lock service implements the abstract lease lock, for every set of   *)
(* locks and clients and every value of the bounds: the committed states   *)
(* that the state maps accept form, lock by lock, a history of LeaseLock,  *)
(* and every step extends it or leaves it alone.                           *)
(***************************************************************************)
EXTENDS DLockInterchangeProofs

(* The first d entries of lg are accepted, and each one follows the entry  *)
(* of its lock before it, or is the first of its lock and grants it.       *)
Chained(lg, d) ==
    /\ lg \in Seq(Entry) /\ d \in Nat /\ d <= Len(lg)
    /\ \A i \in 1 .. d :
          /\ Accepted(lg, i)
          /\ ~HasState(lg[i].lock, lg, i - 1) => lg[i].nonce = 1 /\ lg[i].owner # NoOwner
          /\ \A q \in 1 .. i - 1 : IsLast(lg[i].lock, lg, i - 1, q) => Follows(lg[q], lg[i])

History(l, lg, d) ==
    LET count(k) == Cardinality(EntriesOf(l, lg, k))
    IN  [n \in 1 .. count(d) |-> lg[CHOOSE i \in EntriesOf(l, lg, Len(lg)) : count(i) = n]]

LEMMA EntriesFinite ==
    ASSUME NEW l, NEW lg, NEW k \in Nat
    PROVE  IsFiniteSet(EntriesOf(l, lg, k)) /\ Cardinality(EntriesOf(l, lg, k)) \in Nat
<1> DEFINE E == EntriesOf(l, lg, k)
<1>1. E \in SUBSET Nat /\ \A i \in E : i <= k
  BY DEF EntriesOf
<1> HIDE DEF E
<1>2. IsFiniteSet(E)
  BY <1>1, FS_BoundedSetOfNaturals
<1> QED BY <1>2, FS_CardinalityType DEF E

(* In a chained log the nonce of an entry counts the entries of its lock   *)
(* up to it.                                                               *)
LEMMA NonceIsCount ==
    ASSUME NEW lg, NEW d, Chained(lg, d)
    PROVE  \A i \in 1 .. d : Cardinality(EntriesOf(lg[i].lock, lg, i)) = lg[i].nonce
<1> DEFINE Bad == {i \in 1 .. d : Cardinality(EntriesOf(lg[i].lock, lg, i)) # lg[i].nonce}
<1> SUFFICES ASSUME Bad # {} PROVE FALSE
  OBVIOUS
<1>1. d \in Nat /\ Bad \in SUBSET Nat
  BY DEF Chained
<1>2. PICK i \in Bad : \A k \in Bad : i <= k
  <2> HIDE DEF Bad
  <2> QED BY <1>1, SmallestExists
<1>3. i \in 1 .. d /\ i \in Nat \ {0} /\ i - 1 \in Nat
  BY <1>1, <1>2
<1> DEFINE l == lg[i].lock
<1>4. CASE ~HasState(l, lg, i - 1)
  <2>1. \A j \in 1 .. i - 1 : lg[j].lock # l
    BY <1>4, HasStateIff
  <2>2. EntriesOf(l, lg, i) = {i}
    BY <1>3, <2>1 DEF EntriesOf
  <2>3. lg[i].nonce = 1
    BY <1>3, <1>4 DEF Chained
  <2>4. Cardinality({i}) = 1
    BY FS_Singleton
  <2> QED BY <1>2, <2>2, <2>3, <2>4
<1>5. CASE HasState(l, lg, i - 1)
  <2>1. PICK q \in 1 .. i - 1 : IsLast(l, lg, i - 1, q)
    BY <1>3, <1>5, LastExists
  <2>2. lg[i].nonce = lg[q].nonce + 1
    BY <1>3, <2>1, AcceptedIff DEF Chained
  <2>3. q \in 1 .. d /\ q \in Nat /\ q < i /\ lg[q].lock = l
    BY <1>1, <1>3, <2>1 DEF IsLast
  <2>4. Cardinality(EntriesOf(l, lg, q)) = lg[q].nonce
    BY <1>2, <1>3, <2>3
  <2>5. EntriesOf(l, lg, i) = EntriesOf(l, lg, q) \cup {i} /\ i \notin EntriesOf(l, lg, q)
    BY <1>3, <2>1, <2>3 DEF EntriesOf, IsLast
  <2>6. Cardinality(EntriesOf(l, lg, i)) = Cardinality(EntriesOf(l, lg, q)) + 1
    BY <2>3, <2>5, EntriesFinite, FS_AddElement
  <2> QED BY <1>2, <2>2, <2>4, <2>6
<1> QED BY <1>4, <1>5

(* The history of a lock: its k-th state is the entry with nonce k. *)
LEMMA HistoryStates ==
    ASSUME NEW lg, NEW d, Chained(lg, d), NEW l
    PROVE  /\ History(l, lg, d) \in Seq(Entry)
           /\ Len(History(l, lg, d)) = Cardinality(EntriesOf(l, lg, d))
           /\ \A i \in EntriesOf(l, lg, d) :
                 /\ lg[i].nonce \in 1 .. Len(History(l, lg, d))
                 /\ History(l, lg, d)[lg[i].nonce] = lg[i]
           /\ \A k \in 1 .. Len(History(l, lg, d)) :
                 \E i \in EntriesOf(l, lg, d) : lg[i].nonce = k /\ History(l, lg, d)[k] = lg[i]
<1> DEFINE E == EntriesOf(l, lg, d)
           n == Cardinality(E)
           count(k) == Cardinality(EntriesOf(l, lg, k))
           f == [i \in E |-> lg[i].nonce]
<1>1. d \in Nat /\ Len(lg) \in Nat /\ d <= Len(lg) /\ \A i \in 1 .. d : lg[i] \in Entry
  BY LenProperties, ElementOfSeq DEF Chained
<1>2. \A i \in E : i \in 1 .. d /\ i \in Nat /\ lg[i].lock = l /\ lg[i] \in Entry
  BY <1>1 DEF EntriesOf
<1>3. IsFiniteSet(E) /\ n \in Nat
  BY <1>1, EntriesFinite
<1>4. \A i \in E : count(i) = lg[i].nonce
  BY <1>2, NonceIsCount
<1>5. ASSUME NEW i \in E
      PROVE  lg[i].nonce \in 1 .. n
  <2>1. EntriesOf(l, lg, i) \in SUBSET E /\ i \in EntriesOf(l, lg, i)
    BY <1>1, <1>2 DEF EntriesOf
  <2>2. count(i) <= n /\ count(i) \in Nat
    <3> HIDE DEF E
    <3> QED BY <1>2, <1>3, <2>1, FS_Subset, EntriesFinite
  <2>3. count(i) # 0
    <3>1. IsFiniteSet(EntriesOf(l, lg, i))
      BY <1>2, EntriesFinite
    <3> QED BY <2>1, <3>1, FS_EmptySet
  <2> HIDE DEF E
  <2> QED BY <1>3, <1>4, <2>2, <2>3
<1>6. ASSUME NEW i \in E, NEW j \in E, lg[i].nonce = lg[j].nonce
      PROVE  i = j
  <2>1. \A m \in 1 .. d : lg[m].nonce \in Nat /\ Accepted(lg, m)
    BY <1>1 DEF Chained, Entry
  <2>2. \A b \in 1 .. d : \A a \in 1 .. b - 1 :
           lg[a].lock = lg[b].lock => lg[a].nonce < lg[b].nonce
    BY <1>1, <2>1, NoncesIncrease
  <2>3. i \in Nat /\ j \in Nat /\ lg[i].nonce \in Nat /\ lg[i].lock = lg[j].lock
    BY <1>2, <2>1
  <2>4. ~(i < j)
    BY <1>2, <1>6, <2>2, <2>3
  <2>5. ~(j < i)
    BY <1>2, <1>6, <2>2, <2>3
  <2> QED BY <2>3, <2>4, <2>5
<1> HIDE DEF E
<1>7. f \in Injection(E, 1 .. n)
  <2>1. f \in [E -> 1 .. n]
    BY <1>5
  <2>2. \A i, j \in E : f[i] = f[j] => i = j
    BY <1>6
  <2> QED BY <2>1, <2>2 DEF Injection, IsInjective
<1>8. f \in Surjection(E, 1 .. n)
  <2>1. IsFiniteSet(1 .. n) /\ Cardinality(1 .. n) = n
    BY <1>3, FS_Interval
  <2> HIDE DEF f
  <2> QED BY <1>7, <2>1, FS_Injection
<1>9. \A k \in 1 .. n : \E i \in E : lg[i].nonce = k
  BY <1>8 DEF Surjection
<1> DEFINE A == EntriesOf(l, lg, Len(lg))
           pos(k) == CHOOSE i \in A : count(i) = k
           H == [k \in 1 .. n |-> lg[pos(k)]]
<1>10. \A k \in 1 .. n : pos(k) \in E /\ lg[pos(k)].nonce = k
  <2> TAKE k \in 1 .. n
  <2>1. PICK i \in A : count(i) = k
    BY <1>1, <1>4, <1>9 DEF E, EntriesOf
  <2>2. pos(k) \in A /\ count(pos(k)) = k
    BY <2>1
  <2> DEFINE p == pos(k)
  <2>3. p \in Nat /\ p \in 1 .. Len(lg) /\ lg[p].lock = l /\ count(p) = k
    BY <2>2, <1>1 DEF EntriesOf
  <2> HIDE DEF p
  <2>4. ASSUME d < p PROVE FALSE
    <3> DEFINE C == EntriesOf(l, lg, p)
    <3>1. E \cup {p} \subseteq C /\ p \notin E
      BY <1>1, <2>3, <2>4 DEF EntriesOf, E
    <3>2. Cardinality(E \cup {p}) = n + 1 /\ IsFiniteSet(C) /\ Cardinality(C) \in Nat
      BY <1>3, <2>3, <3>1, EntriesFinite, FS_AddElement
    <3>3. n + 1 <= Cardinality(C)
      BY <3>1, <3>2, FS_Subset
    <3> QED BY <1>3, <2>3, <3>3
  <2>5. p \in E
    BY <1>1, <2>3, <2>4 DEF E, EntriesOf
  <2> QED BY <1>4, <2>3, <2>5 DEF p
<1>11. History(l, lg, d) = H
  BY DEF History, E
<1> HIDE DEF pos, n
<1>12. H \in Seq(Entry) /\ Len(H) = n
  <2>1. \A k \in 1 .. n : lg[pos(k)] \in Entry
    BY <1>2, <1>10
  <2> QED BY <1>3, <2>1
<1>13. \A k \in 1 .. n : H[k] = lg[pos(k)]
  OBVIOUS
<1> HIDE DEF H
<1>14. \A i \in E : lg[i].nonce \in 1 .. n /\ H[lg[i].nonce] = lg[i]
  <2> TAKE i \in E
  <2>1. lg[i].nonce \in 1 .. n
    BY <1>5
  <2>2. pos(lg[i].nonce) = i
    BY <1>6, <1>10, <2>1
  <2> QED BY <1>13, <2>1, <2>2
<1>15. \A k \in 1 .. n : \E i \in E : lg[i].nonce = k /\ H[k] = lg[i]
  BY <1>10, <1>13
<1> QED BY <1>11, <1>12, <1>14, <1>15 DEF E, n

(* Every state of the history may come after the states before it. *)
LEMMA HistoryLegal ==
    ASSUME NEW lg, NEW d, Chained(lg, d), NEW l,
           NEW k \in 1 .. Len(History(l, lg, d))
    PROVE  Abstract!Legal(SubSeq(History(l, lg, d), 1, k - 1), History(l, lg, d)[k])
<1> DEFINE H == History(l, lg, d)
           h == SubSeq(H, 1, k - 1)
<1>1. /\ H \in Seq(Entry) /\ Len(H) \in Nat
      /\ \A i \in EntriesOf(l, lg, d) : lg[i].nonce \in 1 .. Len(H) /\ H[lg[i].nonce] = lg[i]
  BY HistoryStates, LenProperties
<1>2. PICK i \in EntriesOf(l, lg, d) : lg[i].nonce = k /\ H[k] = lg[i]
  BY HistoryStates
<1> HIDE DEF H
<1>3. k \in 1 .. Len(H) /\ k \in Nat
  BY DEF H
<1>4. /\ h \in Seq(Entry) /\ Len(h) = k - 1 /\ \A m \in 1 .. k - 1 : h[m] = H[m]
  <2>1. \A m \in 1 .. k - 1 : H[m] \in Entry
    BY <1>1, <1>3, ElementOfSeq
  <2> QED BY <1>3, <2>1, SubSeqProperties
<1> HIDE DEF h
<1>5. /\ d \in Nat /\ i \in 1 .. d /\ i \in Nat \ {0} /\ i - 1 \in Nat /\ lg[i].lock = l
      /\ H[k].nonce = k
  BY <1>2 DEF Chained, EntriesOf
<1> SUFFICES Abstract!Legal(h, H[k])
  BY DEF h, H
<1>6. CASE ~HasState(l, lg, i - 1)
  <2>1. lg[i].nonce = 1 /\ lg[i].owner # NoOwner
    BY <1>5, <1>6 DEF Chained
  <2>2. k = 1 /\ h = <<>>
    BY <1>2, <1>4, <2>1
  <2> QED BY <1>2, <1>4, <1>5, <2>1, <2>2 DEF Abstract!Legal, Abstract!Grants
<1>7. CASE HasState(l, lg, i - 1)
  <2>1. PICK q \in 1 .. i - 1 : IsLast(l, lg, i - 1, q)
    BY <1>5, <1>7, LastExists
  <2>2. Follows(lg[q], lg[i]) /\ lg[i].nonce = lg[q].nonce + 1
    BY <1>5, <2>1, AcceptedIff DEF Chained
  <2>3. q \in EntriesOf(l, lg, d)
    BY <1>5, <2>1 DEF EntriesOf, IsLast
  <2>4. lg[q].nonce \in 1 .. Len(H) /\ H[lg[q].nonce] = lg[q]
    BY <1>1, <2>3
  <2>5. lg[q].nonce = k - 1 /\ k - 1 \in 1 .. k - 1
    BY <1>1, <1>2, <1>3, <2>2, <2>4
  <2>6. h # <<>> /\ h[Len(h)] = lg[q]
    BY <1>4, <2>4, <2>5
  <2>7. Abstract!Grants(h, H[k]) \/ Abstract!Releases(h, H[k])
    BY <1>2, <2>2, <2>6
       DEF Follows, Abstract!Grants, Abstract!Releases, Abstract!Ended
  <2> QED BY <1>3, <1>4, <1>5, <2>7 DEF Abstract!Legal
<1> QED BY <1>6, <1>7

(* A longer chained log that keeps the first d entries extends the         *)
(* history.                                                                *)
LEMMA HistoryExtends ==
    ASSUME NEW lg, NEW d, Chained(lg, d), NEW lg2, NEW d2, Chained(lg2, d2),
           d <= d2, \A i \in 1 .. d : lg2[i] = lg[i], NEW l
    PROVE  Abstract!Extends(History(l, lg, d), History(l, lg2, d2))
<1> DEFINE H == History(l, lg, d)
           H2 == History(l, lg2, d2)
<1>1. d \in Nat /\ d2 \in Nat
  BY DEF Chained
<1>2. /\ H \in Seq(Entry) /\ Len(H) \in Nat
      /\ Len(H) = Cardinality(EntriesOf(l, lg, d))
      /\ \A k \in 1 .. Len(H) : \E i \in EntriesOf(l, lg, d) : lg[i].nonce = k /\ H[k] = lg[i]
  BY HistoryStates, LenProperties
<1>3. /\ H2 \in Seq(Entry) /\ Len(H2) \in Nat
      /\ Len(H2) = Cardinality(EntriesOf(l, lg2, d2))
      /\ \A i \in EntriesOf(l, lg2, d2) :
            lg2[i].nonce \in 1 .. Len(H2) /\ H2[lg2[i].nonce] = lg2[i]
  BY HistoryStates, LenProperties
<1>4. \A k \in 1 .. Len(H2) : Abstract!Legal(SubSeq(H2, 1, k - 1), H2[k])
  BY HistoryLegal
<1> HIDE DEF H, H2
<1>5. EntriesOf(l, lg, d) \in SUBSET EntriesOf(l, lg2, d2)
  BY <1>1 DEF EntriesOf
<1>6. Len(H) <= Len(H2)
  BY <1>1, <1>2, <1>3, <1>5, EntriesFinite, FS_Subset
<1>7. \A k \in 1 .. Len(H) : H2[k] = H[k]
  <2> TAKE k \in 1 .. Len(H)
  <2>1. PICK i \in EntriesOf(l, lg, d) : lg[i].nonce = k /\ H[k] = lg[i]
    BY <1>2
  <2>2. i \in EntriesOf(l, lg2, d2) /\ lg2[i] = lg[i]
    BY <1>5, <2>1 DEF EntriesOf
  <2> QED BY <1>3, <2>1, <2>2
<1>8. SubSeq(H2, 1, Len(H)) = H
  <2>1. \A k \in 1 .. Len(H) : H2[k] \in Entry
    BY <1>2, <1>7, ElementOfSeq
  <2>2. /\ SubSeq(H2, 1, Len(H)) \in Seq(Entry)
        /\ Len(SubSeq(H2, 1, Len(H))) = Len(H)
        /\ \A k \in 1 .. Len(H) : SubSeq(H2, 1, Len(H))[k] = H2[k]
    BY <1>2, <2>1, SubSeqProperties
  <2> QED BY <1>2, <1>7, <2>2, SeqEqual
<1>9. \A k \in Len(H) + 1 .. Len(H2) : k \in 1 .. Len(H2)
  BY <1>2, <1>3
<1> QED BY <1>4, <1>6, <1>8, <1>9 DEF Abstract!Extends, H, H2

-----------------------------------------------------------------------------
(* The committed entries *)

(* The entries every state map applies are chained, whoever leads. *)
DurableChained == Chained(log, Durable)

LEMMA DurableIsChained == LeaseInv => DurableChained
<1> SUFFICES ASSUME LeaseInv PROVE DurableChained
  OBVIOUS
<1>1. /\ log \in Seq(Entry) /\ Len(log) \in Nat /\ committed \in Nat
      /\ committed <= Len(log)
  BY LenProperties DEF LeaseInv, TypeOK, IndexOrder
<1>2. Durable \in 0 .. committed /\ \A i \in 1 .. Durable : Accepted(log, i)
  BY <1>1, AppliedUpToProperties DEF Durable
<1> HIDE DEF Durable
<1>3. ASSUME NEW i \in 1 .. Durable
      PROVE  /\ ~HasState(log[i].lock, log, i - 1) => log[i].nonce = 1 /\ log[i].owner # NoOwner
             /\ \A q \in 1 .. i - 1 :
                   IsLast(log[i].lock, log, i - 1, q) => Follows(log[q], log[i])
  <2>1. i \in 1 .. Len(log) /\ \A k \in 1 .. i : Accepted(log, k)
    BY <1>1, <1>2
  <2> QED BY <2>1, AcceptedFollows
<1> QED BY <1>1, <1>2, <1>3 DEF DurableChained, Chained

(* No step takes a committed entry back or changes it. *)
LEMMA CommittedKept ==
    ASSUME LeaseInv, [Next]_vars
    PROVE  /\ committed <= committed'
           /\ \A i \in 1 .. committed : log'[i] = log[i]
<1>1. /\ log \in Seq(Entry) /\ Len(log) \in Nat /\ committed \in Nat
      /\ committed <= Len(log) /\ TypeOK
  BY LenProperties DEF LeaseInv, TypeOK, IndexOrder
<1>2. ASSUME LogStep, committed' = committed
      PROVE  committed <= committed' /\ \A i \in 1 .. committed : log'[i] = log[i]
  BY <1>1, <1>2 DEF LogStep, Continues
<1>3. ASSUME NEW c \in Client, NEW l \in Lock, ClientRequest(c, l)
      PROVE  committed <= committed' /\ \A i \in 1 .. committed : log'[i] = log[i]
  <2>1. LogStep
    BY <1>3, RequestLogs
  <2>2. committed' = committed
    BY <1>3 DEF ClientRequest, AcquireDLock, RefreshAcquirementBySequence, ReleaseDLock,
                PollRelease, PollTimeout, logVars
  <2> QED BY <1>2, <2>1, <2>2
<1>4. CASE ReleaseExpiredDLockPeriodically
  BY <1>2, <1>4, PeriodicScanLogs DEF ReleaseExpiredDLockPeriodically
<1>5. CASE CommitToStateMap
  BY <1>1, <1>5 DEF CommitToStateMap, logVars
<1>6. CASE Commit
  BY <1>1, <1>6 DEF Commit
<1>7. ASSUME NEW length \in committed .. Len(log), NEW known \in 0 .. committed,
             BecomeLeader(length, known)
      PROVE  committed <= committed' /\ \A i \in 1 .. committed : log'[i] = log[i]
  <2> DEFINE lg == SubSeq(log, 1, length)
             p == AppliedUpTo(lg, 0, known)
             hs == [l \in Lock |-> NewHandler(0)]
  <2>1. /\ known \in Nat /\ length \in 0 .. Len(log) /\ known <= length
    BY <1>1
  <2>2. /\ lg \in Seq(Entry) /\ Len(lg) = length /\ \A i \in 1 .. length : lg[i] = log[i]
        /\ \A j \in 1 .. Len(lg) : lg[j].ts <= now
    BY <2>1, PrefixWellBuilt
  <2>3. p \in 0 .. known
    BY <2>1, AppliedUpToProperties, SMTT(30)
  <2>4. hs \in [Lock -> Handler]
    BY EmptySeq DEF NewHandler, Handler
  <2>5. committed' = committed /\ ScanDLockStateMap(lg, p, {}, hs)
    BY <1>7 DEF BecomeLeader
  <2> HIDE DEF lg, p, hs
  <2>6. Continues(lg, log')
    <3>1. p \in Nat /\ p <= Len(lg) /\ {} \in SUBSET Lock
      BY <2>1, <2>2, <2>3
    <3> QED BY <1>1, <2>2, <2>4, <2>5, <3>1, ScanStep
  <2> QED BY <1>1, <2>1, <2>2, <2>5, <2>6 DEF Continues
<1>8. CASE Tick
  BY <1>1, <1>8 DEF Tick, logVars
<1>9. CASE UNCHANGED vars
  BY <1>1, <1>9 DEF vars, logVars
<1> QED BY <1>3, <1>4, <1>5, <1>6, <1>7, <1>8, <1>9 DEF Next

LEMMA DurableGrows ==
    ASSUME LeaseInv, LeaseInv', [Next]_vars
    PROVE  Durable <= Durable' /\ \A i \in 1 .. Durable : log'[i] = log[i]
<1> DEFINE d == Durable
           d2 == Durable'
           k == committed'
<1>1. committed \in Nat /\ k \in Nat
  BY DEF LeaseInv, TypeOK
<1>2. committed <= k /\ \A i \in 1 .. committed : log'[i] = log[i]
  BY <1>1, CommittedKept
<1>3. d \in 0 .. committed /\ \A i \in 1 .. d : Accepted(log, i)
  BY <1>1, AppliedUpToProperties DEF Durable
<1>4. d2 = AppliedUpTo(log', 0, k)
  BY DEF Durable
<1> HIDE DEF d, d2, k
<1>5. \A n \in 0 .. k : (\A i \in 1 .. n : Accepted(log', i)) => n <= d2
  BY <1>1, <1>4, AppliedUpToProperties
<1>6. d \in 0 .. k /\ \A i \in 1 .. d : log'[i] = log[i]
  BY <1>1, <1>2, <1>3
<1>7. \A i \in 1 .. d : Accepted(log', i)
  <2> TAKE i \in 1 .. d
  <2>1. i \in Nat \ {0} /\ \A j \in 1 .. i : log[j] = log'[j]
    BY <1>1, <1>3, <1>6
  <2> QED BY <1>3, <2>1, SameAccepted
<1>8. d <= d2
  BY <1>5, <1>6, <1>7
<1> QED BY <1>6, <1>8 DEF d, d2

-----------------------------------------------------------------------------
(* The refinement *)

LEMMA AbstractInit == Init => Abstract!Init
<1> SUFFICES ASSUME Init, NEW l \in Lock PROVE DurableHistory(l) = <<>>
  BY DEF Abstract!Init
<1>1. Durable = 0
  <2>1. committed \in Nat
    BY DEF Init
  <2>2. Durable \in 0 .. committed
    BY <2>1, AppliedUpToProperties DEF Durable
  <2> QED BY <2>2 DEF Init
<1>2. Cardinality(EntriesOf(l, log, Durable)) = 0
  BY <1>1, FS_EmptySet DEF EntriesOf
<1> QED BY <1>2 DEF DurableHistory

LEMMA AbstractStep ==
    ASSUME LeaseInv, LeaseInv', DurableChained, DurableChained', [Next]_vars
    PROVE  [Abstract!Next]_([l \in Lock |-> DurableHistory(l)])
<1> SUFFICES ASSUME NEW l \in Lock
             PROVE  Abstract!Extends(DurableHistory(l), DurableHistory(l)')
  BY DEF Abstract!Next
<1> DEFINE d == Durable
           d2 == Durable'
           lg == log
           lg2 == log'
<1>1. DurableHistory(l) = History(l, lg, d) /\ DurableHistory(l)' = History(l, lg2, d2)
  BY DEF DurableHistory, History
<1>2. Chained(lg, d) /\ Chained(lg2, d2)
  BY DEF DurableChained
<1>3. d <= d2 /\ \A i \in 1 .. d : lg2[i] = lg[i]
  BY DurableGrows
<1> HIDE DEF d, d2, lg, lg2
<1>4. Abstract!Extends(History(l, lg, d), History(l, lg2, d2))
  BY <1>2, <1>3, HistoryExtends
<1> QED BY <1>1, <1>4

(* The lock service with all its leaders implements the abstract lease     *)
(* lock: the entries that are committed and that the lock map accepts are, *)
(* for each lock, one growing history of legal grants and releases.        *)
THEOREM LeaseLockImplemented == Spec => ImplementsLeaseLock
<1>1. LeaseInv /\ LeaseInv' /\ DurableChained /\ DurableChained' /\ [Next]_vars
        => [Abstract!Next]_([l \in Lock |-> DurableHistory(l)])
  BY AbstractStep
<1> QED
  BY <1>1, LeaseInvInit, LeaseInvNext, DurableIsChained, AbstractInit, PTL
     DEF Spec, ImplementsLeaseLock, Abstract!Spec
=============================================================================
