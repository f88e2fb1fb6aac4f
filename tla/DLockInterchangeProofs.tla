----------------------- MODULE DLockInterchangeProofs -----------------------
(***************************************************************************)
(* The lock service keeps its promises for every set of locks and clients  *)
(* and every value of the bounds.                                          *)
(*                                                                         *)
(* Under every leader: each entry was built on some earlier entry of its   *)
(* lock (WellBuilt), not always the last one, because a new leader does    *)
(* not look at the entries it inherits; but the map accepts an entry only  *)
(* if its nonce follows, and that leaves the ones built on the last state. *)
(* Together with the order of the indexes this is LeaseInv.                *)
(*                                                                         *)
(* Under the first leader (FirstInv): LastAppendedNonce of each handler is *)
(* the nonce of the last entry of its lock in the log (Tracked), so that   *)
(* nothing is logged while an entry of the lock is on its way.             *)
(***************************************************************************)
EXTENDS DLockInterchange, StateMapProofs, SequenceTheorems, FiniteSetTheorems

-----------------------------------------------------------------------------
(* The acquirement list of a lock *)

(* The fields of an updated DlockVolatileAcquirement. *)
LEMMA WithQueue ==
    ASSUME NEW h \in Handler, NEW q \in Seq(Waiter)
    PROVE  /\ [h EXCEPT !.queue = q] \in Handler
           /\ [h EXCEPT !.queue = q].appended = h.appended
           /\ [h EXCEPT !.queue = q].queue = q
BY Zenon DEF Handler

LEMMA WithFront ==
    ASSUME NEW h \in Handler, NEW p \in Nat, NEW q \in Seq(Waiter)
    PROVE  /\ [h EXCEPT !.processed = p, !.queue = q] \in Handler
           /\ [h EXCEPT !.processed = p, !.queue = q].appended = h.appended
           /\ [h EXCEPT !.processed = p, !.queue = q].queue = q
<1>1. [h EXCEPT !.processed = p, !.queue = q] \in Handler
  BY Zenon DEF Handler
<1>2. /\ [h EXCEPT !.processed = p, !.queue = q].appended = h.appended
      /\ [h EXCEPT !.processed = p, !.queue = q].queue = q
  BY Zenon DEF Handler
<1> QED BY <1>1, <1>2, Zenon

LEMMA WithAppended ==
    ASSUME NEW h \in Handler, NEW a \in Nat
    PROVE  /\ [h EXCEPT !.appended = a] \in Handler
           /\ [h EXCEPT !.appended = a].appended = a
           /\ [h EXCEPT !.appended = a].queue = h.queue
BY Zenon DEF Handler

(* Abandoning drops a prefix of the list and touches nothing else. *)
LEMMA AbandonType ==
    ASSUME NEW h \in Handler, NEW t
    PROVE  /\ AbandonExpiredAcquirement(h, t) \in Handler
           /\ AbandonExpiredAcquirement(h, t).appended = h.appended
           /\ h.queue = <<>> => AbandonExpiredAcquirement(h, t).queue = <<>>
<1> DEFINE S == {k \in 0 .. Len(h.queue) : \A i \in 1 .. k : Outdated(h.queue[i], t)}
           gone == LastOf(S)
<1>1. h.queue \in Seq(Waiter) /\ h.processed \in Nat /\ h.appended \in Nat
  BY DEF Handler
<1>2. Len(h.queue) \in Nat
  BY <1>1, LenProperties
<1>3. S \in SUBSET Nat /\ 0 \in S /\ \A k \in S : k <= Len(h.queue)
  BY <1>2
<1>4. gone \in S
  <2> HIDE DEF S
  <2> QED BY <1>2, <1>3, LastOfIsLargest
<1>5. gone \in 0 .. Len(h.queue)
  BY <1>4
<1>6. AbandonExpiredAcquirement(h, t) =
        [h EXCEPT !.processed = @ + gone, !.queue = SubSeq(@, gone + 1, Len(@))]
  BY DEF AbandonExpiredAcquirement
<1> HIDE DEF gone, S
<1>7. SubSeq(h.queue, gone + 1, Len(h.queue)) \in Seq(Waiter)
  <2>1. \A i \in gone + 1 .. Len(h.queue) : h.queue[i] \in Waiter
    BY <1>1, <1>2, <1>5, ElementOfSeq
  <2> QED BY <1>2, <1>5, <2>1, SubSeqProperties
<1>8. h.queue = <<>> => SubSeq(h.queue, gone + 1, Len(h.queue)) = <<>>
  BY <1>2, <1>5, SubSeqEmpty
<1>9. h.processed + gone \in Nat
  BY <1>1, <1>5
<1> DEFINE q2 == SubSeq(h.queue, gone + 1, Len(h.queue))
           p2 == h.processed + gone
           h2 == [h EXCEPT !.processed = p2, !.queue = q2]
<1>10. AbandonExpiredAcquirement(h, t) = h2
  BY <1>6, Zenon
<1>11. q2 \in Seq(Waiter) /\ p2 \in Nat /\ (h.queue = <<>> => q2 = <<>>)
  BY <1>7, <1>8, <1>9
<1> HIDE DEF q2, p2
<1>12. h2 \in Handler /\ h2.appended = h.appended /\ h2.queue = q2
  BY <1>11, WithFront, ZenonT(40)
<1> HIDE DEF h2
<1> QED BY <1>10, <1>11, <1>12

LEMMA InsertType ==
    ASSUME NEW h \in Handler, NEW c \in Client, NEW expire \in Nat, NEW t \in Nat
    PROVE  /\ InsertNewAcquirement(h, c, expire, t) \in Handler
           /\ InsertNewAcquirement(h, c, expire, t).appended = h.appended
<1> DEFINE h1 == AbandonExpiredAcquirement(h, t)
           w == [acquirer |-> c, refreshed |-> t, expire |-> expire]
<1>1. h1 \in Handler /\ h1.appended = h.appended
  BY AbandonType
<1>2. w \in Waiter
  BY DEF Waiter
<1>3. InsertNewAcquirement(h, c, expire, t) =
        IF \E i \in 1 .. Len(h1.queue) : h1.queue[i].acquirer = c THEN h1
        ELSE [h1 EXCEPT !.queue = Append(@, w)]
  BY DEF InsertNewAcquirement
<1> HIDE DEF h1, w
<1>4. Append(h1.queue, w) \in Seq(Waiter)
  BY <1>1, <1>2, AppendProperties DEF Handler
<1>5. /\ [h1 EXCEPT !.queue = Append(@, w)] \in Handler
      /\ [h1 EXCEPT !.queue = Append(@, w)].appended = h1.appended
  BY <1>1, <1>4, WithQueue, Zenon
<1> QED BY <1>1, <1>3, <1>5, Zenon

LEMMA RefreshType ==
    ASSUME NEW h \in Handler, NEW seq \in Nat, NEW t \in Nat, Refreshable(h, seq, t)
    PROVE  /\ RefreshAcquirement(h, seq, t) \in Handler
           /\ RefreshAcquirement(h, seq, t).appended = h.appended
           /\ h.queue # <<>> /\ RefreshAcquirement(h, seq, t).queue # <<>>
           /\ Head(RefreshAcquirement(h, seq, t).queue).acquirer = Head(h.queue).acquirer
<1> DEFINE i == seq - h.processed
           w == [h.queue[i] EXCEPT !.refreshed = t]
           q == [h.queue EXCEPT ![i] = w]
<1>1. h.queue \in Seq(Waiter) /\ h.processed \in Nat /\ Len(h.queue) \in Nat
  BY LenProperties DEF Handler
<1>2. i \in 1 .. Len(h.queue)
  BY <1>1 DEF Refreshable, Assigned
<1>3. w \in Waiter /\ w.acquirer = h.queue[i].acquirer
  <2>1. h.queue[i] \in Waiter
    BY <1>1, <1>2, ElementOfSeq
  <2> QED BY <2>1, Zenon DEF Waiter
<1>4. RefreshAcquirement(h, seq, t) = [h EXCEPT !.queue = q]
  BY Zenon DEF RefreshAcquirement
<1> HIDE DEF i, w
<1>5. /\ q \in Seq(Waiter) /\ Len(q) = Len(h.queue)
      /\ \A j \in 1 .. Len(h.queue) : q[j] = IF j = i THEN w ELSE h.queue[j]
  BY <1>1, <1>2, <1>3, ExceptSeq
<1> HIDE DEF q
<1>6. h.queue # <<>> /\ q # <<>> /\ 1 \in 1 .. Len(h.queue)
  BY <1>1, <1>2, <1>5
<1>7. Head(q) = q[1] /\ Head(h.queue) = h.queue[1]
  BY <1>1, <1>5, <1>6
<1> DEFINE h2 == [h EXCEPT !.queue = q]
<1>8. h2 \in Handler /\ h2.appended = h.appended /\ h2.queue = q
  BY <1>5, WithQueue, Zenon
<1>9. RefreshAcquirement(h, seq, t) = h2
  BY <1>4
<1> HIDE <1>4 DEF h2
<1> QED BY <1>3, <1>5, <1>6, <1>7, <1>8, <1>9
-----------------------------------------------------------------------------
(* The inductive invariant for all leaders *)

(* What holds between a lock's state s and an entry e logged on it. *)
Follows(s, e) ==
    /\ e.nonce <= s.nonce + 1
    /\ \/ e.owner # NoOwner /\ s.ts + s.expire <= e.ts
       \/ e.owner = NoOwner /\ e.expire = 0 /\ s.owner # NoOwner /\ s.ts <= e.ts

(* An entry creates the lock or follows some earlier entry of it: perhaps  *)
(* not the one just before it, because a leader may inherit entries it     *)
(* does not know to be committed.                                          *)
Built(lg, j) ==
    \/ lg[j].nonce = 1 /\ lg[j].owner # NoOwner
    \/ \E q \in 1 .. j - 1 : lg[q].lock = lg[j].lock /\ Follows(lg[q], lg[j])

WellBuilt == \A j \in 1 .. Len(log) : log[j].nonce >= 1 /\ log[j].ts <= now /\ Built(log, j)

IndexOrder ==
    /\ prevIndex <= lastApplied /\ lastApplied <= commitIndex
    /\ commitIndex <= committed /\ committed <= Len(log)

MapAccepted == \A i \in 1 .. prevIndex : Accepted(log, i)

LeaseInv == TypeOK /\ IndexOrder /\ WellBuilt /\ MapAccepted

(* An entry that may be logged now, after the log lg. *)
Fresh(lg, e) ==
    /\ e \in Entry /\ e.ts = now /\ e.nonce >= 1
    /\ \/ e.nonce = 1 /\ e.owner # NoOwner
       \/ \E q \in 1 .. Len(lg) : lg[q].lock = e.lock /\ Follows(lg[q], e)

(* lg2 is lg and fresh entries. *)
Continues(lg, lg2) ==
    /\ lg2 \in Seq(Entry) /\ Len(lg) <= Len(lg2)
    /\ \A i \in 1 .. Len(lg) : lg2[i] = lg[i]
    /\ \A j \in Len(lg) + 1 .. Len(lg2) : Fresh(lg, lg2[j])

(* What the critical sections of the interchange do to log and lists. *)
LogStep == Continues(log, log') /\ handled' \subseteq Lock /\ pending' \in [Lock -> Handler]

LEMMA ContinuesItself ==
    ASSUME NEW lg \in Seq(Entry)
    PROVE  Continues(lg, lg)
<1>1. Len(lg) \in Nat
  BY LenProperties
<1> QED BY <1>1 DEF Continues

LEMMA AppendContinues ==
    ASSUME NEW lg \in Seq(Entry), NEW e, Fresh(lg, e)
    PROVE  Continues(lg, Append(lg, e))
<1>1. Len(lg) \in Nat /\ e \in Entry
  BY LenProperties DEF Fresh
<1>2. /\ Append(lg, e) \in Seq(Entry)
      /\ Len(Append(lg, e)) = Len(lg) + 1
      /\ \A i \in 1 .. Len(lg) : Append(lg, e)[i] = lg[i]
      /\ Append(lg, e)[Len(lg) + 1] = e
  BY <1>1, AppendProperties
<1>3. ASSUME NEW j \in Len(lg) + 1 .. Len(Append(lg, e))
      PROVE  Fresh(lg, Append(lg, e)[j])
  <2>1. j = Len(lg) + 1
    BY <1>1, <1>2
  <2> QED BY <1>2, <2>1
<1> QED BY <1>1, <1>2, <1>3 DEF Continues

(* The new log is well built if the old one is. *)
LEMMA ContinuesBuilt ==
    ASSUME NEW lg \in Seq(Entry), NEW lg2, Continues(lg, lg2), now \in Nat,
           \A j \in 1 .. Len(lg) : lg[j].nonce >= 1 /\ lg[j].ts <= now /\ Built(lg, j)
    PROVE  \A j \in 1 .. Len(lg2) : lg2[j].nonce >= 1 /\ lg2[j].ts <= now /\ Built(lg2, j)
<1>1. Len(lg) \in Nat /\ Len(lg2) \in Nat /\ Len(lg) <= Len(lg2)
  BY LenProperties DEF Continues
<1> TAKE j \in 1 .. Len(lg2)
<1>2. CASE j <= Len(lg)
  <2>1. j \in 1 .. Len(lg) /\ \A i \in 1 .. j : lg2[i] = lg[i]
    BY <1>1, <1>2 DEF Continues
  <2>2. Built(lg2, j)
    BY <2>1 DEF Built
  <2> QED BY <2>1, <2>2
<1>3. CASE j > Len(lg)
  <2>1. Fresh(lg, lg2[j])
    BY <1>1, <1>3 DEF Continues
  <2>2. lg2[j].nonce >= 1 /\ lg2[j].ts <= now
    BY <2>1 DEF Fresh
  <2>3. ASSUME NEW q \in 1 .. Len(lg), lg[q].lock = lg2[j].lock, Follows(lg[q], lg2[j])
        PROVE  Built(lg2, j)
    <3>1. q \in 1 .. j - 1 /\ lg2[q] = lg[q]
      BY <1>1, <1>3 DEF Continues
    <3> QED BY <2>3, <3>1 DEF Built
  <2>4. Built(lg2, j)
    BY <2>1, <2>3 DEF Fresh, Built
  <2> QED BY <2>2, <2>4
<1> QED BY <1>1, <1>2, <1>3

(* commitProcedure brings the map forward over accepted entries. *)
LEMMA AppliedIndexProperties ==
    ASSUME LeaseInv
    PROVE  /\ AppliedIndex \in prevIndex .. commitIndex
           /\ AppliedIndex \in Nat /\ AppliedIndex <= Len(log)
           /\ \A i \in 1 .. AppliedIndex : Accepted(log, i)
<1>1. /\ prevIndex \in Nat /\ commitIndex \in Nat /\ committed \in Nat /\ lastApplied \in Nat
      /\ Len(log) \in Nat /\ prevIndex <= commitIndex /\ commitIndex <= Len(log)
  BY LenProperties DEF LeaseInv, TypeOK, IndexOrder
<1> DEFINE a == AppliedUpTo(log, prevIndex, commitIndex)
<1>2. a \in prevIndex .. commitIndex /\ \A i \in prevIndex + 1 .. a : Accepted(log, i)
  BY <1>1, AppliedUpToProperties
<1>3. AppliedIndex = IF prevIndex = lastApplied THEN a ELSE prevIndex
  BY DEF AppliedIndex
<1> HIDE DEF a
<1>4. \A i \in 1 .. prevIndex : Accepted(log, i)
  BY DEF LeaseInv, MapAccepted
<1>5. \A i \in 1 .. AppliedIndex : Accepted(log, i)
  <2> TAKE i \in 1 .. AppliedIndex
  <2>1. i \in 1 .. prevIndex \/ i \in prevIndex + 1 .. a
    BY <1>1, <1>2, <1>3
  <2> QED BY <1>2, <1>4, <2>1
<1> QED BY <1>1, <1>2, <1>3, <1>5

(* The state of a lock in the map is an entry of the log. *)
LEMMA StateInLog ==
    ASSUME NEW lg \in Seq(Entry), NEW l \in Lock, NEW p \in Nat, p <= Len(lg),
           HasState(l, lg, p)
    PROVE  \E q \in 1 .. Len(lg) :
               /\ q \in 1 .. p /\ IsLast(l, lg, p, q) /\ LockState(l, lg, p) = lg[q]
               /\ lg[q] \in Entry /\ lg[q].lock = l
<1>1. Len(lg) \in Nat
  BY LenProperties
<1>2. PICK q \in 1 .. p : IsLast(l, lg, p, q) /\ LockState(l, lg, p) = lg[q]
  BY LastExists
<1>3. q \in 1 .. Len(lg) /\ lg[q].lock = l
  BY <1>1, <1>2 DEF IsLast
<1>4. lg[q] \in Entry
  BY <1>3, ElementOfSeq
<1> QED BY <1>2, <1>3, <1>4

LEMMA LogFields ==
    ASSUME TypeOK
    PROVE  \A i \in 1 .. Len(log) :
               /\ log[i] \in Entry /\ log[i].lock \in Lock
               /\ log[i].nonce \in Nat /\ log[i].ts \in Nat /\ log[i].expire \in Nat
<1> TAKE i \in 1 .. Len(log)
<1>1. log[i] \in Entry
  BY ElementOfSeq DEF TypeOK
<1> QED BY <1>1 DEF Entry

LEMMA SetHandlerType ==
    ASSUME TypeOK, NEW l \in Lock, NEW h \in Handler, SetHandler(l, h)
    PROVE  handled' \subseteq Lock /\ pending' \in [Lock -> Handler]
BY DEF TypeOK, SetHandler

(* A new state of l: the second half of LogStep follows. *)
LEMMA LogAndSet ==
    ASSUME TypeOK, NEW l \in Lock, NEW h \in Handler, NEW e,
           Fresh(log, e), InsertLogEntry(e), SetHandler(l, h)
    PROVE  LogStep
BY AppendContinues, SetHandlerType DEF TypeOK, InsertLogEntry, LogStep

LEMMA OnlySet ==
    ASSUME TypeOK, NEW l \in Lock, NEW h \in Handler, SetHandler(l, h), UNCHANGED log
    PROVE  LogStep
BY ContinuesItself, SetHandlerType DEF TypeOK, LogStep

LEMMA NothingLogged ==
    ASSUME TypeOK, UNCHANGED <<log, acqVars>>
    PROVE  LogStep
BY ContinuesItself DEF TypeOK, LogStep, acqVars

-----------------------------------------------------------------------------
(* One lemma per operation: it logs only fresh entries *)

LEMMA LogEntryType ==
    ASSUME TypeOK, NEW l \in Lock, NEW nonce \in Nat,
           NEW owner \in Client \cup {NoOwner}, NEW expire \in Nat
    PROVE  /\ LogEntry(l, nonce, owner, expire) \in Entry
           /\ LogEntry(l, nonce, owner, expire).lock = l
           /\ LogEntry(l, nonce, owner, expire).nonce = nonce
           /\ LogEntry(l, nonce, owner, expire).owner = owner
           /\ LogEntry(l, nonce, owner, expire).expire = expire
           /\ LogEntry(l, nonce, owner, expire).ts = now
BY DEF LogEntry, Entry, TypeOK

(* A grant on a state whose lease is over, with a nonce not too large. *)
LEMMA GrantIsFresh ==
    ASSUME LeaseInv, NEW l \in Lock, NEW p \in Nat, p <= Len(log), HasState(l, log, p),
           NEW nonce \in Nat, 1 <= nonce, nonce <= LockState(l, log, p).nonce + 1,
           LockState(l, log, p).ts + LockState(l, log, p).expire <= now,
           NEW c \in Client, NEW expire \in Nat
    PROVE  Fresh(log, LogEntry(l, nonce, c, expire))
<1> DEFINE e == LogEntry(l, nonce, c, expire)
<1>1. e \in Entry /\ e.lock = l /\ e.nonce = nonce /\ e.owner = c /\ e.ts = now
  BY LogEntryType DEF LeaseInv
<1> HIDE DEF e
<1>2. PICK q \in 1 .. Len(log) : LockState(l, log, p) = log[q] /\ log[q].lock = l
  BY StateInLog DEF LeaseInv, TypeOK
<1>3. Follows(log[q], e)
  BY <1>1, <1>2, LockAssumption DEF Follows
<1>4. Fresh(log, e)
  BY <1>1, <1>2, <1>3 DEF Fresh
<1> QED BY <1>4 DEF e

(* A release of a held lock. *)
LEMMA ReleaseIsFresh ==
    ASSUME TypeOK, NEW lg \in Seq(Entry), \A i \in 1 .. Len(lg) : lg[i].ts <= now,
           NEW l \in Lock, NEW p \in Nat, p <= Len(lg), HasState(l, lg, p),
           LockState(l, lg, p).owner # NoOwner
    PROVE  Fresh(lg, LogEntry(l, LockState(l, lg, p).nonce + 1, NoOwner, 0))
<1> DEFINE s == LockState(l, lg, p)
           e == LogEntry(l, s.nonce + 1, NoOwner, 0)
<1>1. PICK q \in 1 .. Len(lg) : s = lg[q] /\ lg[q].lock = l /\ lg[q] \in Entry
  BY StateInLog
<1> HIDE DEF s
<1>2. s.nonce \in Nat /\ s.ts <= now /\ s.owner # NoOwner
  BY <1>1 DEF Entry, s
<1>3. /\ e \in Entry /\ e.lock = l /\ e.nonce = s.nonce + 1
      /\ e.owner = NoOwner /\ e.expire = 0 /\ e.ts = now
  <2>1. s.nonce + 1 \in Nat /\ NoOwner \in Client \cup {NoOwner} /\ 0 \in Nat
    BY <1>2
  <2> QED BY <2>1 DEF LogEntry, Entry, TypeOK
<1> HIDE DEF e
<1>4. Follows(lg[q], e)
  BY <1>1, <1>2, <1>3 DEF Follows
<1>5. Fresh(lg, e)
  BY <1>1, <1>2, <1>3, <1>4 DEF Fresh
<1> QED BY <1>5 DEF e, s

LEMMA RefreshSpecificStep ==
    ASSUME LeaseInv, NEW l \in Lock, NEW p \in Nat, p <= Len(log), HasState(l, log, p),
           NEW c \in Client, NEW h \in Handler,
           RefreshSpecificDLock(l, h, LockState(l, log, p), c)
    PROVE  LogStep
<1> DEFINE s == LockState(l, log, p)
<1>1. TypeOK
  BY DEF LeaseInv
<1>2. CASE Grantable(h, s, c)
  <2> DEFINE e == LogEntry(l, h.appended + 1, c, Head(h.queue).expire)
             h2 == [processed |-> h.processed + 1, appended |-> h.appended + 1,
                    queue |-> Tail(h.queue)]
  <2>1. InsertLogEntry(e) /\ SetHandler(l, h2)
    BY <1>2 DEF RefreshSpecificDLock
  <2>2. /\ h.appended \in Nat /\ h.processed \in Nat /\ h.queue \in Seq(Waiter)
        /\ h.queue # <<>> /\ h.appended <= s.nonce /\ s.ts + s.expire <= now
    BY <1>2 DEF Grantable, Handler
  <2>3. Head(h.queue) \in Waiter /\ Tail(h.queue) \in Seq(Waiter)
    BY <2>2, HeadTailProperties
  <2>4. h2 \in Handler
    BY <2>2, <2>3 DEF Handler
  <2>5. Head(h.queue).expire \in Nat
    BY <2>3 DEF Waiter
  <2>6. h.appended + 1 \in Nat /\ 1 <= h.appended + 1 /\ h.appended + 1 <= s.nonce + 1
    <3>1. s \in Entry
      BY <1>1, StateInLog DEF TypeOK
    <3>2. s.nonce \in Nat
      BY <3>1, Zenon DEF Entry
    <3> HIDE DEF s
    <3> QED BY <2>2, <3>2
  <2>7. Fresh(log, e)
    BY <2>2, <2>5, <2>6, GrantIsFresh
  <2> HIDE DEF e, h2
  <2> QED BY <1>1, <2>1, <2>4, <2>7, LogAndSet
<1>3. CASE ~Grantable(h, s, c)
  BY <1>1, <1>3, OnlySet DEF RefreshSpecificDLock
<1> QED BY <1>2, <1>3

LEMMA AcquireStep ==
    ASSUME LeaseInv, NEW c \in Client, NEW l \in Lock, NEW expire \in Expires,
           NEW p \in Nat, p <= Len(log),
           \/ AcquireFirst(c, l, expire, p) \/ AcquireBehindFirst(c, l, expire, p)
           \/ AcquireDirectly(c, l, expire, p) \/ AcquireWaiting(c, l, expire, p)
           \/ AcquireFails(l, p)
    PROVE  LogStep
<1>1. TypeOK /\ expire \in Nat /\ now \in Nat /\ pending[l] \in Handler /\ log \in Seq(Entry)
  BY TimeAssumption DEF LeaseInv, TypeOK
<1> DEFINE s == LockState(l, log, p)
<1>2. CASE AcquireFirst(c, l, expire, p)
  <2> DEFINE e == LogEntry(l, 1, c, expire)
  <2>1. e \in Entry /\ e.nonce = 1 /\ e.owner = c /\ e.ts = now
    BY <1>1, LogEntryType
  <2> HIDE DEF e
  <2>2. Fresh(log, e)
    BY <2>1, LockAssumption DEF Fresh
  <2>3. NewHandler(1) \in Handler
    BY EmptySeq DEF NewHandler, Handler
  <2>4. InsertLogEntry(e) /\ SetHandler(l, NewHandler(1))
    BY <1>2 DEF AcquireFirst, e
  <2> QED BY <1>1, <2>2, <2>3, <2>4, LogAndSet
<1>3. CASE AcquireBehindFirst(c, l, expire, p)
  <2>1. InsertNewAcquirement(pending[l], c, expire, now) \in Handler
    BY <1>1, InsertType
  <2> QED BY <1>1, <1>3, <2>1, OnlySet DEF AcquireBehindFirst
<1>4. CASE AcquireDirectly(c, l, expire, p)
  <2> DEFINE e == LogEntry(l, s.nonce + 1, c, expire)
             h == [pending[l] EXCEPT !.appended = @ + 1]
  <2>1. HasState(l, log, p) /\ DirectlyFree(pending[l], s) /\ InsertLogEntry(e)
    BY <1>4 DEF AcquireDirectly
  <2>2. SetHandler(l, h)
    BY <1>4, Zenon DEF AcquireDirectly
  <2>3. h \in Handler
    <3>1. pending[l].appended + 1 \in Nat
      BY <1>1 DEF Handler
    <3> QED BY <1>1, <3>1, WithAppended, Zenon
  <2>4. s \in Entry
    BY <1>1, <2>1, StateInLog
  <2>5. s.nonce + 1 \in Nat /\ 1 <= s.nonce + 1 /\ s.ts + s.expire <= now
    <3> HIDE DEF s
    <3> QED BY <1>1, <2>1, <2>4 DEF DirectlyFree, Entry
  <2>6. Fresh(log, e)
    BY <1>1, <2>1, <2>5, GrantIsFresh
  <2> HIDE DEF e, h
  <2> QED BY <1>1, <2>1, <2>2, <2>3, <2>6, LogAndSet
<1>5. CASE AcquireWaiting(c, l, expire, p)
  <2>1. InsertNewAcquirement(pending[l], c, expire, now) \in Handler
    BY <1>1, InsertType
  <2> QED BY <1>5, <2>1, RefreshSpecificStep DEF AcquireWaiting
<1>6. CASE AcquireFails(l, p)
  BY <1>1, <1>6, NothingLogged DEF AcquireFails
<1> QED BY <1>2, <1>3, <1>4, <1>5, <1>6

LEMMA RefreshStep ==
    ASSUME LeaseInv, NEW c \in Client, NEW l \in Lock, NEW seq \in Nat,
           NEW p \in Nat, p <= Len(log),
           \/ RefreshLive(c, l, seq, p) \/ RefreshObsolete(l, seq)
           \/ l \notin handled /\ UNCHANGED <<log, acqVars>>
    PROVE  LogStep
<1> DEFINE h1 == AbandonExpiredAcquirement(pending[l], now)
           h2 == RefreshAcquirement(h1, seq, now)
<1>1. TypeOK /\ now \in Nat /\ pending[l] \in Handler
  BY DEF LeaseInv, TypeOK
<1>2. h1 \in Handler
  BY <1>1, AbandonType
<1>3. CASE RefreshLive(c, l, seq, p)
  <2>1. /\ Refreshable(h1, seq, now)
        /\ IF HasState(l, log, p) THEN RefreshSpecificDLock(l, h2, LockState(l, log, p), c)
           ELSE SetHandler(l, h2) /\ UNCHANGED log
    BY <1>3 DEF RefreshLive
  <2> HIDE DEF h1
  <2>2. h2 \in Handler
    BY <1>1, <1>2, <2>1, RefreshType
  <2> HIDE DEF h2
  <2> QED BY <1>1, <2>1, <2>2, RefreshSpecificStep, OnlySet
<1>4. CASE RefreshObsolete(l, seq)
  BY <1>1, <1>2, <1>4, OnlySet DEF RefreshObsolete
<1>5. CASE l \notin handled /\ UNCHANGED <<log, acqVars>>
  BY <1>1, <1>5, NothingLogged
<1> QED BY <1>3, <1>4, <1>5

LEMMA LogReleaseStep ==
    ASSUME LeaseInv, NEW c \in Client, NEW l \in Lock, NEW p \in Nat, p <= Len(log),
           LogRelease(c, l, p)
    PROVE  LogStep /\ HasState(l, log, p) /\ l \in handled
<1> DEFINE s == LockState(l, log, p)
           e == LogEntry(l, s.nonce + 1, NoOwner, 0)
           h == [pending[l] EXCEPT !.appended = @ + 1]
<1>1. /\ TypeOK /\ log \in Seq(Entry) /\ pending[l] \in Handler
      /\ \A i \in 1 .. Len(log) : log[i].ts <= now
  BY DEF LeaseInv, TypeOK, WellBuilt
<1>2. HasState(l, log, p) /\ s.owner = c /\ l \in handled
  BY DEF LogRelease, ReleaseOver, ReleaseLater, ReleaseFails
<1>3. Fresh(log, e)
  <2>1. s.owner # NoOwner
    BY <1>2, LockAssumption
  <2> QED BY <1>1, <1>2, <2>1, ReleaseIsFresh
<1>4. h \in Handler
  <2>1. pending[l].appended + 1 \in Nat
    BY <1>1 DEF Handler
  <2> QED BY <1>1, <2>1, WithAppended, Zenon
<1>5. InsertLogEntry(e) /\ SetHandler(l, h)
  BY Zenon DEF LogRelease
<1> HIDE DEF e, h
<1> QED BY <1>1, <1>2, <1>3, <1>4, <1>5, LogAndSet

(* The entry scanDLockStateMap logs for an expired lock. *)
ReleaseOf(l, lg, p) == LogEntry(l, LockState(l, lg, p).nonce + 1, NoOwner, 0)

LEMMA DueIsFinite ==
    ASSUME NEW lg, NEW p \in Nat, NEW hs
    PROVE  IsFiniteSet(ToRelease(lg, p, hs))
<1> DEFINE f == [i \in 1 .. p |-> lg[i].lock]
           T == {lg[i].lock : i \in 1 .. p}
           D == ToRelease(lg, p, hs)
<1>1. f \in Surjection(1 .. p, T)
  BY DEF Surjection
<1>2. IsFiniteSet(1 .. p)
  BY FS_Interval
<1>3. IsFiniteSet(T)
  <2> HIDE DEF f, T
  <2> QED BY <1>1, <1>2, FS_Surjection
<1>4. D \in SUBSET T
  BY DEF ToRelease, HasState, EntriesOf
<1> HIDE DEF T, D
<1>5. IsFiniteSet(D)
  BY <1>3, <1>4, FS_Subset
<1> QED BY <1>5 DEF D

(* An order of a finite set goes through each element once. *)
LEMMA OrderIsBijection ==
    ASSUME NEW S, IsFiniteSet(S), NEW order \in Orders(S)
    PROVE  /\ Cardinality(S) \in Nat
           /\ order \in [1 .. Cardinality(S) -> S]
           /\ \A i, j \in 1 .. Cardinality(S) : order[i] = order[j] => i = j
           /\ \A x \in S : \E i \in 1 .. Cardinality(S) : order[i] = x
<1> DEFINE n == Cardinality(S)
<1>1. n \in Nat
  BY FS_CardinalityType
<1> HIDE DEF n
<1>2. order \in [1 .. n -> S] /\ \A i, j \in 1 .. n : order[i] = order[j] => i = j
  BY DEF Orders, n
<1>3. order \in Injection(1 .. n, S)
  BY <1>2 DEF Injection, IsInjective
<1>4. Cardinality(1 .. n) = n
  BY <1>1, FS_Interval
<1>5. order \in Surjection(1 .. n, S)
  BY <1>3, <1>4, FS_Injection DEF n
<1>6. \A x \in S : \E i \in 1 .. n : order[i] = x
  BY <1>5 DEF Surjection
<1> QED BY <1>1, <1>2, <1>6 DEF n

LEMMA ScanDetails ==
    ASSUME TypeOK, NEW lg \in Seq(Entry), \A i \in 1 .. Len(lg) : lg[i].ts <= now,
           NEW p \in Nat, p <= Len(lg), NEW hd, NEW hs,
           ScanDLockStateMap(lg, p, hd, hs), NEW due,
           due = ToRelease(lg, p, Scanned(lg, p, hd, hs))
    PROVE  /\ Continues(lg, log')
           /\ \A j \in Len(lg) + 1 .. Len(log') :
                 \E l \in due : log'[j] = ReleaseOf(l, lg, p) /\ log'[j].lock = l
           /\ \A l \in due : \E j \in Len(lg) + 1 .. Len(log') : log'[j].lock = l
           /\ \A j, k \in Len(lg) + 1 .. Len(log') : log'[j].lock = log'[k].lock => j = k
<1> DEFINE n == Cardinality(due)
<1>1. IsFiniteSet(due)
  BY DueIsFinite
<1>2. PICK order \in Orders(due) :
         log' = lg \o [i \in DOMAIN order |-> ReleaseOf(order[i], lg, p)]
  BY DEF ScanDLockStateMap, ReleaseOf
<1>3. /\ n \in Nat /\ order \in [1 .. n -> due]
      /\ \A i, j \in 1 .. n : order[i] = order[j] => i = j
      /\ \A x \in due : \E i \in 1 .. n : order[i] = x
  BY <1>1, OrderIsBijection
<1> HIDE DEF n
<1>4. ASSUME NEW l \in due
      PROVE  /\ l \in Lock /\ Fresh(lg, ReleaseOf(l, lg, p))
             /\ ReleaseOf(l, lg, p) \in Entry /\ ReleaseOf(l, lg, p).lock = l
  <2>1. l \in Lock /\ HasState(l, lg, p) /\ LockState(l, lg, p).owner # NoOwner
    BY DEF ToRelease
  <2>2. Fresh(lg, ReleaseOf(l, lg, p))
    BY <2>1, ReleaseIsFresh DEF ReleaseOf
  <2>3. ReleaseOf(l, lg, p).lock = l
    BY DEF ReleaseOf, LogEntry
  <2> QED BY <2>1, <2>2, <2>3 DEF Fresh
<1> DEFINE r == [i \in 1 .. n |-> ReleaseOf(order[i], lg, p)]
<1>5. r \in Seq(Entry) /\ Len(r) = n
  <2>1. \A i \in 1 .. n : ReleaseOf(order[i], lg, p) \in Entry
    BY <1>3, <1>4
  <2> QED BY <1>3, <2>1
<1>6. log' = lg \o r
  BY <1>2, <1>3
<1>7. \A i \in 1 .. n : r[i] = ReleaseOf(order[i], lg, p)
  OBVIOUS
<1> HIDE DEF r
<1>8. Len(lg) \in Nat
  BY LenProperties
<1>9. /\ log' \in Seq(Entry) /\ Len(log') = Len(lg) + n
      /\ \A i \in 1 .. Len(lg) : log'[i] = lg[i]
      /\ \A j \in Len(lg) + 1 .. Len(log') : log'[j] = r[j - Len(lg)]
  <2>1. /\ log' \in Seq(Entry) /\ Len(log') = Len(lg) + Len(r)
        /\ \A i \in 1 .. Len(lg) + Len(r) :
              log'[i] = IF i <= Len(lg) THEN lg[i] ELSE r[i - Len(lg)]
    BY <1>5, <1>6, ConcatProperties
  <2>2. /\ \A i \in 1 .. Len(lg) : i \in 1 .. Len(lg) + Len(r) /\ i <= Len(lg)
        /\ \A j \in Len(lg) + 1 .. Len(lg) + Len(r) :
              j \in 1 .. Len(lg) + Len(r) /\ ~(j <= Len(lg))
    BY <1>3, <1>5, <1>8
  <2> QED BY <1>5, <2>1, <2>2
<1>10. \A j \in Len(lg) + 1 .. Len(log') :
          /\ j - Len(lg) \in 1 .. n
          /\ log'[j] = ReleaseOf(order[j - Len(lg)], lg, p)
          /\ log'[j].lock = order[j - Len(lg)]
  <2> TAKE j \in Len(lg) + 1 .. Len(log')
  <2>1. j - Len(lg) \in 1 .. n
    BY <1>3, <1>8, <1>9
  <2>2. order[j - Len(lg)] \in due
    BY <1>3, <2>1
  <2>3. log'[j] = ReleaseOf(order[j - Len(lg)], lg, p)
    BY <1>7, <1>9, <2>1
  <2> QED BY <1>4, <2>1, <2>2, <2>3
<1>11. Continues(lg, log')
  <2>1. \A j \in Len(lg) + 1 .. Len(log') : Fresh(lg, log'[j])
    BY <1>3, <1>4, <1>10
  <2> QED BY <1>3, <1>8, <1>9, <2>1 DEF Continues
<1>12. ASSUME NEW l \in due
       PROVE  \E j \in Len(lg) + 1 .. Len(log') : log'[j].lock = l
  <2>1. PICK i \in 1 .. n : order[i] = l
    BY <1>3
  <2>2. Len(lg) + i \in Len(lg) + 1 .. Len(log') /\ (Len(lg) + i) - Len(lg) = i
    BY <1>3, <1>8, <1>9
  <2> QED BY <1>10, <2>1, <2>2
<1>13. ASSUME NEW j \in Len(lg) + 1 .. Len(log'), NEW k \in Len(lg) + 1 .. Len(log'),
              log'[j].lock = log'[k].lock
       PROVE  j = k
  <2> DEFINE a == j - Len(lg)
             b == k - Len(lg)
  <2>1. /\ a \in 1 .. n /\ log'[j].lock = order[a]
        /\ b \in 1 .. n /\ log'[k].lock = order[b]
    BY <1>10
  <2>2. order[a] = order[b]
    BY <1>13, <2>1
  <2>3. a = b
    <3> HIDE DEF a, b
    <3> QED BY <1>3, <2>1, <2>2
  <2> QED BY <1>8, <2>3
<1> QED BY <1>3, <1>10, <1>11, <1>12, <1>13

LEMMA ScannedType ==
    ASSUME NEW lg \in Seq(Entry), NEW p \in Nat, p <= Len(lg), NEW hd,
           NEW hs \in [Lock -> Handler]
    PROVE  Scanned(lg, p, hd, hs) \in [Lock -> Handler]
<1>1. ASSUME NEW l \in Lock, HasState(l, lg, p)
      PROVE  NewHandler(LockState(l, lg, p).nonce) \in Handler
  <2>1. LockState(l, lg, p) \in Entry
    BY <1>1, StateInLog
  <2> QED BY <2>1, EmptySeq DEF NewHandler, Handler, Entry
<1>2. \A l \in Lock : AbandonExpiredAcquirement(hs[l], now) \in Handler
  BY AbandonType
<1> QED BY <1>1, <1>2 DEF Scanned

LEMMA CountReleasesType ==
    ASSUME NEW hs \in [Lock -> Handler], NEW due
    PROVE  /\ CountReleases(hs, due) \in [Lock -> Handler]
           /\ \A l \in Lock :
                 CountReleases(hs, due)[l].appended =
                     IF l \in due THEN hs[l].appended + 1 ELSE hs[l].appended
<1>1. ASSUME NEW l \in Lock
      PROVE  /\ [hs[l] EXCEPT !.appended = @ + 1] \in Handler
             /\ [hs[l] EXCEPT !.appended = @ + 1].appended = hs[l].appended + 1
  <2>1. hs[l] \in Handler /\ hs[l].appended + 1 \in Nat
    BY DEF Handler
  <2> QED BY <2>1, WithAppended, Zenon
<1> DEFINE g(l) == [hs[l] EXCEPT !.appended = @ + 1]
<1>2. \A l \in Lock : g(l) \in Handler /\ g(l).appended = hs[l].appended + 1
  BY <1>1
<1>3. CountReleases(hs, due) = [l \in Lock |-> IF l \in due THEN g(l) ELSE hs[l]]
  BY Zenon DEF CountReleases
<1> HIDE DEF g
<1> QED BY <1>2, <1>3

LEMMA ScanStep ==
    ASSUME TypeOK, NEW lg \in Seq(Entry), \A i \in 1 .. Len(lg) : lg[i].ts <= now,
           NEW p \in Nat, p <= Len(lg), NEW hd \in SUBSET Lock, NEW hs \in [Lock -> Handler],
           ScanDLockStateMap(lg, p, hd, hs)
    PROVE  Continues(lg, log') /\ handled' \subseteq Lock /\ pending' \in [Lock -> Handler]
<1> DEFINE hs1 == Scanned(lg, p, hd, hs)
           due == ToRelease(lg, p, hs1)
<1>1. Continues(lg, log')
  BY ScanDetails
<1>2. /\ handled' = hd \cup {l \in Lock : HasState(l, lg, p)}
      /\ pending' = CountReleases(hs1, due)
  BY DEF ScanDLockStateMap
<1>3. hs1 \in [Lock -> Handler]
  BY ScannedType
<1> HIDE DEF hs1, due
<1>4. pending' \in [Lock -> Handler]
  BY <1>2, <1>3, CountReleasesType
<1> QED BY <1>1, <1>2, <1>4

-----------------------------------------------------------------------------
(* Every step preserves LeaseInv *)

(* A critical section of the interchange: commitProcedure runs first. *)
LEMMA ServiceStep ==
    ASSUME LeaseInv, LogStep, CommitProcedure, UNCHANGED <<now, commitIndex, committed>>,
           polls' \subseteq Lock \X Client, hung' \in BOOLEAN, takeovers' \in Nat,
           inherited' \subseteq Nat
    PROVE  LeaseInv'
<1>1. /\ log \in Seq(Entry) /\ Len(log) \in Nat /\ now \in Nat
      /\ prevIndex \in Nat /\ commitIndex \in Nat /\ committed \in Nat
  BY LenProperties DEF LeaseInv, TypeOK
<1>2. /\ AppliedIndex \in Nat /\ AppliedIndex <= commitIndex /\ AppliedIndex <= Len(log)
      /\ \A i \in 1 .. AppliedIndex : Accepted(log, i)
  BY <1>1, AppliedIndexProperties
<1>3. /\ log' \in Seq(Entry) /\ Len(log') \in Nat /\ Len(log) <= Len(log')
      /\ \A i \in 1 .. Len(log) : log'[i] = log[i]
  BY LenProperties DEF LogStep, Continues
<1>4. prevIndex' = AppliedIndex /\ lastApplied' = commitIndex
  BY DEF CommitProcedure
<1>5. TypeOK'
  BY <1>1, <1>2, <1>3, <1>4 DEF TypeOK, LogStep
<1>6. IndexOrder'
  BY <1>1, <1>2, <1>3, <1>4 DEF IndexOrder, LeaseInv
<1>7. WellBuilt'
  BY <1>1, ContinuesBuilt DEF WellBuilt, LeaseInv, LogStep
<1>8. MapAccepted'
  <2> SUFFICES ASSUME NEW i \in 1 .. AppliedIndex PROVE Accepted(log', i)
    BY <1>4 DEF MapAccepted
  <2>1. i \in Nat \ {0} /\ \A j \in 1 .. i : log[j] = log'[j]
    BY <1>1, <1>2, <1>3
  <2> QED BY <1>2, <2>1, SameAccepted
<1> QED BY <1>5, <1>6, <1>7, <1>8 DEF LeaseInv

LEMMA RequestLogs ==
    ASSUME LeaseInv, NEW c \in Client, NEW l \in Lock, ClientRequest(c, l)
    PROVE  LogStep
<1>1. AppliedIndex \in Nat /\ AppliedIndex <= Len(log) /\ TypeOK
  BY AppliedIndexProperties DEF LeaseInv
<1>2. ASSUME NEW expire \in Expires, AcquireDLock(c, l, expire)
      PROVE  LogStep
  BY <1>1, <1>2, AcquireStep DEF AcquireDLock
<1>3. ASSUME NEW seq \in 1 .. Assigned(pending[l]) + 1, RefreshAcquirementBySequence(c, l, seq)
      PROVE  LogStep
  <2>1. seq \in Nat
    OBVIOUS
  <2> QED BY <1>1, <1>3, <2>1, RefreshStep DEF RefreshAcquirementBySequence
<1>4. CASE ReleaseDLock(c, l)
  BY <1>1, <1>4, LogReleaseStep, NothingLogged DEF ReleaseDLock
<1>5. CASE PollRelease(c, l)
  BY <1>1, <1>5, LogReleaseStep, NothingLogged DEF PollRelease
<1>6. CASE PollTimeout(c, l)
  BY <1>1, <1>6, NothingLogged DEF PollTimeout, logVars
<1> QED BY <1>2, <1>3, <1>4, <1>5, <1>6 DEF ClientRequest

LEMMA ClientRequestStep ==
    ASSUME LeaseInv, NEW c \in Client, NEW l \in Lock, ClientRequest(c, l)
    PROVE  LeaseInv'
<1>1. LogStep
  BY RequestLogs
<1>2. /\ polls \subseteq Lock \X Client /\ hung \in BOOLEAN /\ takeovers \in Nat
      /\ inherited \subseteq Nat
  BY DEF LeaseInv, TypeOK
<1>3. ASSUME NEW expire \in Expires, AcquireDLock(c, l, expire)
      PROVE  LeaseInv'
  BY <1>1, <1>2, <1>3, ServiceStep DEF AcquireDLock
<1>4. ASSUME NEW seq \in 1 .. Assigned(pending[l]) + 1, RefreshAcquirementBySequence(c, l, seq)
      PROVE  LeaseInv'
  BY <1>1, <1>2, <1>4, ServiceStep DEF RefreshAcquirementBySequence
<1>5. CASE ReleaseDLock(c, l)
  <2>1. polls' \subseteq Lock \X Client
    BY <1>2, <1>5 DEF ReleaseDLock
  <2>2. hung' \in BOOLEAN
    BY <1>2, <1>5, Zenon DEF ReleaseDLock
  <2> QED BY <1>1, <1>2, <1>5, <2>1, <2>2, ServiceStep DEF ReleaseDLock
<1>6. CASE PollRelease(c, l)
  <2>1. polls' \subseteq Lock \X Client /\ hung' \in BOOLEAN
    BY <1>2, <1>6 DEF PollRelease
  <2> QED BY <1>1, <1>2, <1>6, <2>1, ServiceStep DEF PollRelease
<1>7. CASE PollTimeout(c, l)
  <2>1. polls' \subseteq Lock \X Client
    BY <1>2, <1>7 DEF PollTimeout
  <2> QED BY <1>7, <2>1 DEF PollTimeout, LeaseInv, TypeOK, IndexOrder, WellBuilt, Built,
                            MapAccepted, logVars, mapVars, acqVars
<1> QED BY <1>3, <1>4, <1>5, <1>6, <1>7 DEF ClientRequest

LEMMA PeriodicScanLogs ==
    ASSUME LeaseInv, ReleaseExpiredDLockPeriodically
    PROVE  LogStep
<1>1. AppliedIndex \in Nat /\ AppliedIndex <= Len(log)
  BY AppliedIndexProperties
<1>2. /\ TypeOK /\ log \in Seq(Entry) /\ \A i \in 1 .. Len(log) : log[i].ts <= now
      /\ handled \in SUBSET Lock /\ pending \in [Lock -> Handler]
  BY DEF LeaseInv, TypeOK, WellBuilt
<1> QED BY <1>1, <1>2, ScanStep DEF ReleaseExpiredDLockPeriodically, LogStep

LEMMA ScanPeriodicallyStep ==
    ASSUME LeaseInv, ReleaseExpiredDLockPeriodically
    PROVE  LeaseInv'
<1>1. /\ polls \subseteq Lock \X Client /\ hung \in BOOLEAN /\ takeovers \in Nat
      /\ inherited \subseteq Nat
  BY DEF LeaseInv, TypeOK
<1> QED BY <1>1, PeriodicScanLogs, ServiceStep DEF ReleaseExpiredDLockPeriodically

LEMMA CommitToStateMapStep ==
    ASSUME LeaseInv, CommitToStateMap
    PROVE  LeaseInv'
<1>1. /\ polls' \subseteq Lock \X Client /\ hung' \in BOOLEAN /\ takeovers' \in Nat
      /\ inherited' \subseteq Nat
      /\ TypeOK /\ CommitProcedure /\ UNCHANGED <<log, acqVars>>
      /\ UNCHANGED <<now, commitIndex, committed>>
  BY DEF CommitToStateMap, LeaseInv, TypeOK, logVars, acqVars
<1>2. LogStep
  BY <1>1, NothingLogged
<1> QED BY <1>1, <1>2, ServiceStep

LEMMA CommitStep ==
    ASSUME LeaseInv, Commit
    PROVE  LeaseInv'
<1>1. /\ Len(log) \in Nat /\ commitIndex \in Nat /\ committed \in Nat /\ lastApplied \in Nat
      /\ prevIndex \in Nat /\ IndexOrder
  BY LenProperties DEF LeaseInv, TypeOK
<1>2. /\ commitIndex' \in Nat /\ commitIndex < commitIndex' /\ commitIndex' <= Len(log)
      /\ committed' = IF commitIndex' > committed THEN commitIndex' ELSE committed
      /\ UNCHANGED <<now, log, mapVars, acqVars, polls, hung, takeovers, inherited>>
  BY <1>1 DEF Commit
<1>3. TypeOK'
  BY <1>1, <1>2 DEF LeaseInv, TypeOK, mapVars, acqVars
<1>4. IndexOrder'
  BY <1>1, <1>2 DEF IndexOrder, mapVars
<1>5. WellBuilt' /\ MapAccepted'
  BY <1>2 DEF LeaseInv, WellBuilt, Built, MapAccepted, mapVars
<1> QED BY <1>3, <1>4, <1>5 DEF LeaseInv

(* A leader that is missing some uncommitted entries. *)
LEMMA PrefixWellBuilt ==
    ASSUME LeaseInv, NEW length \in 0 .. Len(log), NEW lg, lg = SubSeq(log, 1, length)
    PROVE  /\ lg \in Seq(Entry) /\ Len(lg) = length
           /\ \A i \in 1 .. length : lg[i] = log[i]
           /\ \A j \in 1 .. Len(lg) : lg[j].nonce >= 1 /\ lg[j].ts <= now /\ Built(lg, j)
<1>1. log \in Seq(Entry) /\ Len(log) \in Nat
  BY LenProperties DEF LeaseInv, TypeOK
<1>2. \A i \in 1 .. length : log[i] \in Entry
  BY <1>1, ElementOfSeq
<1>3. /\ lg \in Seq(Entry) /\ Len(lg) = length
      /\ \A i \in 1 .. length : lg[i] = log[i]
  BY <1>1, <1>2, SubSeqProperties
<1>4. ASSUME NEW j \in 1 .. length
      PROVE  lg[j].nonce >= 1 /\ lg[j].ts <= now /\ Built(lg, j)
  <2>1. /\ j \in 1 .. Len(log) /\ lg[j] = log[j]
        /\ \A q \in 1 .. j - 1 : lg[q] = log[q]
    BY <1>1, <1>3
  <2>2. log[j].nonce >= 1 /\ log[j].ts <= now /\ Built(log, j)
    BY <2>1 DEF LeaseInv, WellBuilt
  <2> QED BY <2>1, <2>2 DEF Built
<1> QED BY <1>3, <1>4

LEMMA BecomeLeaderStep ==
    ASSUME LeaseInv, NEW length \in committed .. Len(log), NEW known \in 0 .. committed,
           BecomeLeader(length, known)
    PROVE  LeaseInv'
<1> DEFINE lg == SubSeq(log, 1, length)
           p == AppliedUpTo(lg, 0, known)
           hs == [l \in Lock |-> NewHandler(0)]
<1>1. committed \in Nat /\ Len(log) \in Nat /\ TypeOK /\ now \in Nat /\ takeovers \in Nat
  BY LenProperties DEF LeaseInv, TypeOK
<1>2. known \in Nat /\ length \in 0 .. Len(log) /\ known <= length
  BY <1>1
<1>3. /\ lg \in Seq(Entry) /\ Len(lg) = length
      /\ \A j \in 1 .. Len(lg) : lg[j].nonce >= 1 /\ lg[j].ts <= now /\ Built(lg, j)
  BY <1>2, PrefixWellBuilt
<1>4. p \in 0 .. known /\ \A i \in 1 .. p : Accepted(lg, i)
  BY <1>2, AppliedUpToProperties
<1>5. hs \in [Lock -> Handler]
  BY EmptySeq DEF NewHandler, Handler
<1>6. /\ commitIndex' = known /\ lastApplied' = known /\ prevIndex' = p
      /\ committed' = committed /\ now' = now /\ polls' = {} /\ hung' = FALSE
      /\ takeovers' = takeovers + 1 /\ inherited' = p + 1 .. length
      /\ ScanDLockStateMap(lg, p, {}, hs)
  BY DEF BecomeLeader
<1> HIDE DEF lg, p, hs
<1>7. Continues(lg, log') /\ handled' \subseteq Lock /\ pending' \in [Lock -> Handler]
  <2>1. p \in Nat /\ p <= Len(lg) /\ {} \in SUBSET Lock
    BY <1>2, <1>3, <1>4
  <2> QED BY <1>1, <1>3, <1>5, <1>6, <2>1, ScanStep
<1>8. /\ log' \in Seq(Entry) /\ Len(log') \in Nat /\ length <= Len(log')
      /\ \A i \in 1 .. length : log'[i] = lg[i]
  BY <1>3, <1>7, LenProperties DEF Continues
<1>9. TypeOK'
  <2>1. hung' \in BOOLEAN
    BY <1>6, Zenon
  <2>2. inherited' \subseteq Nat
    BY <1>1, <1>2, <1>4, <1>6
  <2> QED BY <1>1, <1>2, <1>4, <1>6, <1>7, <1>8, <2>1, <2>2 DEF TypeOK
<1>10. IndexOrder'
  BY <1>1, <1>2, <1>4, <1>6, <1>8 DEF IndexOrder
<1>11. WellBuilt'
  BY <1>1, <1>3, <1>6, <1>7, ContinuesBuilt DEF WellBuilt
<1>12. MapAccepted'
  <2> SUFFICES ASSUME NEW i \in 1 .. p PROVE Accepted(log', i)
    BY <1>6 DEF MapAccepted
  <2>1. i \in Nat \ {0} /\ \A j \in 1 .. i : lg[j] = log'[j]
    BY <1>1, <1>2, <1>4, <1>8
  <2> QED BY <1>4, <2>1, SameAccepted
<1> QED BY <1>9, <1>10, <1>11, <1>12 DEF LeaseInv

LEMMA TickStep ==
    ASSUME LeaseInv, Tick
    PROVE  LeaseInv'
<1>1. now \in Nat /\ now' = now + 1 /\ UNCHANGED <<logVars, mapVars, acqVars, polls, hung, takeovers, inherited>>
  BY DEF Tick, LeaseInv, TypeOK
<1>2. TypeOK' /\ IndexOrder' /\ MapAccepted'
  BY <1>1 DEF LeaseInv, TypeOK, IndexOrder, MapAccepted, logVars, mapVars, acqVars
<1>3. WellBuilt'
  <2>1. \A j \in 1 .. Len(log) : log[j].ts \in Nat
    BY LogFields DEF LeaseInv
  <2> QED BY <1>1, <2>1 DEF LeaseInv, WellBuilt, Built, logVars
<1> QED BY <1>2, <1>3 DEF LeaseInv

LEMMA LeaseInvInit == Init => LeaseInv
<1> SUFFICES ASSUME Init PROVE LeaseInv
  OBVIOUS
<1>1. TypeOK
  BY EmptySeq DEF Init, TypeOK, NewHandler, Handler
<1>2. Len(log) = 0
  BY EmptySeq DEF Init
<1> QED BY <1>1, <1>2 DEF Init, LeaseInv, IndexOrder, WellBuilt, MapAccepted

LEMMA LeaseInvNext == LeaseInv /\ [Next]_vars => LeaseInv'
<1> SUFFICES ASSUME LeaseInv, [Next]_vars PROVE LeaseInv'
  OBVIOUS
<1>1. CASE UNCHANGED vars
  BY <1>1 DEF vars, logVars, mapVars, acqVars, LeaseInv, TypeOK, IndexOrder, WellBuilt, Built,
              MapAccepted
<1>2. CASE Next
  BY <1>2, ClientRequestStep, ScanPeriodicallyStep, CommitToStateMapStep, CommitStep,
     BecomeLeaderStep, TickStep DEF Next
<1> QED BY <1>1, <1>2

(* The log, the indexes and the acquirement lists (dlock_interchange.go,   *)
(* dlock_acquirement.go) keep their types, whoever leads.                  *)
THEOREM TypeCorrect == Spec => []TypeOK
<1>1. LeaseInv => TypeOK
  BY DEF LeaseInv
<1> QED BY <1>1, LeaseInvInit, LeaseInvNext, PTL DEF Spec

(* An accepted entry follows the entry of its lock just before it, or is   *)
(* the first: the map refuses every entry that was built on a state which  *)
(* is not the last.                                                        *)
LEMMA AcceptedFollows ==
    ASSUME LeaseInv, NEW j \in 1 .. Len(log), \A i \in 1 .. j : Accepted(log, i)
    PROVE  /\ ~HasState(log[j].lock, log, j - 1) => log[j].nonce = 1 /\ log[j].owner # NoOwner
           /\ \A q \in 1 .. j - 1 :
                 IsLast(log[j].lock, log, j - 1, q) => Follows(log[q], log[j])
<1>1. log \in Seq(Entry) /\ Len(log) \in Nat
  BY LenProperties DEF LeaseInv, TypeOK
<1>2. \A i \in 1 .. Len(log) : log[i].nonce \in Nat /\ log[i].nonce >= 1
  BY LogFields DEF LeaseInv, WellBuilt
<1>3. Built(log, j)
  BY DEF LeaseInv, WellBuilt
<1>4. j \in Nat \ {0} /\ j - 1 \in Nat /\ Accepted(log, j)
  BY <1>1
<1>5. \A k \in 1 .. j : \A i \in 1 .. k - 1 :
         log[i].lock = log[k].lock => log[i].nonce < log[k].nonce
  <2>1. \A i \in 1 .. j : log[i].nonce \in Nat /\ Accepted(log, i)
    BY <1>1, <1>2
  <2> QED BY <1>4, <2>1, NoncesIncrease
<1>6. ASSUME ~HasState(log[j].lock, log, j - 1)
      PROVE  log[j].nonce = 1 /\ log[j].owner # NoOwner
  BY <1>3, <1>6, HasStateIff DEF Built
<1>7. ASSUME NEW q \in 1 .. j - 1, IsLast(log[j].lock, log, j - 1, q)
      PROVE  Follows(log[q], log[j])
  <2>1. log[j].nonce = log[q].nonce + 1 /\ log[q].lock = log[j].lock
    BY <1>4, <1>7, AcceptedIff DEF IsLast
  <2>2. log[q].nonce \in Nat /\ log[q].nonce >= 1
    BY <1>1, <1>2
  <2>3. PICK r \in 1 .. j - 1 : log[r].lock = log[j].lock /\ Follows(log[r], log[j])
    BY <1>3, <2>1, <2>2 DEF Built
  <2>4. r <= q
    BY <1>7, <2>3 DEF IsLast
  <2>5. CASE r = q
    BY <2>3, <2>5
  <2>6. CASE r < q
    <3>1. log[r].nonce < log[q].nonce
      BY <1>4, <1>5, <2>1, <2>3, <2>6
    <3>2. log[r].nonce \in Nat /\ log[j].nonce <= log[r].nonce + 1
      BY <1>1, <1>2, <2>3 DEF Follows
    <3> QED BY <2>1, <2>2, <3>1, <3>2
  <2> QED BY <2>4, <2>5, <2>6
<1> QED BY <1>6, <1>7

(* Mutual exclusion by lease, across changes of leader: what the lock map  *)
(* applies (UpdateStateFromLogEntry) never grants a lock inside the lease  *)
(* before.                                                                 *)
THEOREM LeaseIsRespected == Spec => []LeaseRespected
<1>1. LeaseInv => LeaseRespected
  <2> SUFFICES ASSUME LeaseInv, NEW i \in 1 .. prevIndex,
                      log[i].owner # NoOwner, HasState(log[i].lock, log, i - 1)
               PROVE  LockState(log[i].lock, log, i - 1).ts
                        + LockState(log[i].lock, log, i - 1).expire <= log[i].ts
    BY DEF LeaseRespected
  <2>1. prevIndex \in Nat /\ i \in 1 .. Len(log) /\ i - 1 \in Nat
    BY LenProperties DEF LeaseInv, TypeOK, IndexOrder
  <2>2. \A k \in 1 .. i : Accepted(log, k)
    BY <2>1 DEF LeaseInv, MapAccepted
  <2>3. PICK q \in 1 .. i - 1 : /\ IsLast(log[i].lock, log, i - 1, q)
                                /\ LockState(log[i].lock, log, i - 1) = log[q]
    BY <2>1, LastExists
  <2>4. Follows(log[q], log[i])
    BY <2>1, <2>2, <2>3, AcceptedFollows
  <2> QED BY <2>3, <2>4 DEF Follows
<1> QED BY <1>1, LeaseInvInit, LeaseInvNext, PTL DEF Spec

-----------------------------------------------------------------------------
(* The first leadership *)

(* The acquirement handlers know the last entry of each lock in the log. *)
Tracked ==
    \A l \in Lock :
        /\ HasState(l, log, Len(log)) => l \in handled
        /\ l \in handled => \E q \in 1 .. Len(log) : /\ IsLast(l, log, Len(log), q)
                                                     /\ pending[l].appended = log[q].nonce

AllAccepted == \A i \in 1 .. Len(log) : Accepted(log, i)

OneUncommitted ==
    \A i, j \in commitIndex + 1 .. Len(log) : log[i].lock = log[j].lock => i = j

InControl ==
    /\ prevIndex = lastApplied /\ ~hung
    /\ AllAccepted /\ Tracked /\ OneUncommitted

FirstInv == FirstLeadership => InControl

(* What a critical section does to one lock: nothing that matters here, or *)
(* one entry is logged while none is on its way.                           *)
LockKept(l) ==
    /\ \A j \in Len(log) + 1 .. Len(log') : log'[j].lock # l
    /\ l \in handled' <=> l \in handled
    /\ l \in handled => pending'[l].appended = pending[l].appended

NothingUncommitted(l) == \A q \in commitIndex + 1 .. Len(log) : log[q].lock # l

LockLogged(l) ==
    \E j \in Len(log) + 1 .. Len(log') :
        /\ log'[j].lock = l
        /\ \A r \in Len(log) + 1 .. Len(log') : log'[r].lock = l => r = j
        /\ l \in handled' /\ pending'[l].appended = log'[j].nonce
        /\ NothingUncommitted(l)
        /\ \A q \in 1 .. Len(log) :
              IsLast(l, log, Len(log), q) => log'[j].nonce = log[q].nonce + 1

FirstStep == \A l \in Lock : LockKept(l) \/ LockLogged(l)

LEMMA FirstStepKeepsControl ==
    ASSUME LeaseInv, InControl, LogStep, FirstStep, CommitProcedure,
           commitIndex' = commitIndex, ~hung'
    PROVE  InControl'
<1>1. /\ log \in Seq(Entry) /\ Len(log) \in Nat /\ commitIndex \in Nat /\ lastApplied \in Nat
      /\ prevIndex \in Nat /\ commitIndex <= Len(log) /\ prevIndex <= commitIndex
      /\ committed \in Nat
  BY LenProperties DEF LeaseInv, TypeOK, IndexOrder
<1>2. /\ log' \in Seq(Entry) /\ Len(log') \in Nat /\ Len(log) <= Len(log')
      /\ \A i \in 1 .. Len(log) : log'[i] = log[i]
      /\ \A j \in Len(log) + 1 .. Len(log') : log'[j] \in Entry /\ log'[j].lock \in Lock
  <2>1. /\ log' \in Seq(Entry) /\ Len(log') \in Nat /\ Len(log) <= Len(log')
        /\ \A i \in 1 .. Len(log) : log'[i] = log[i]
    BY LenProperties DEF LogStep, Continues
  <2>2. \A j \in Len(log) + 1 .. Len(log') : log'[j] \in Entry
    BY DEF LogStep, Continues, Fresh
  <2>3. \A j \in Len(log) + 1 .. Len(log') : log'[j].lock \in Lock
    BY <2>2 DEF Entry
  <2> QED BY <2>1, <2>2, <2>3
<1>3. prevIndex' = lastApplied'
  <2>1. \A k \in prevIndex .. commitIndex : \A i \in prevIndex + 1 .. k : Accepted(log, i)
    BY <1>1 DEF InControl, AllAccepted
  <2> DEFINE a == AppliedUpTo(log, prevIndex, commitIndex)
  <2>2. a \in prevIndex .. commitIndex /\ commitIndex <= a
    BY <1>1, <2>1, AppliedUpToProperties
  <2>3. AppliedIndex = a
    BY DEF AppliedIndex, InControl
  <2> HIDE DEF a
  <2>4. a = commitIndex
    BY <1>1, <2>2
  <2> QED BY <2>3, <2>4 DEF CommitProcedure
<1>4. \A j \in Len(log) + 1 .. Len(log') : LockLogged(log'[j].lock)
  BY <1>2 DEF FirstStep, LockKept
<1>5. AllAccepted'
  <2> SUFFICES ASSUME NEW i \in 1 .. Len(log') PROVE Accepted(log', i)
    BY DEF AllAccepted
  <2>1. CASE i <= Len(log)
    <3>1. i \in Nat \ {0} /\ i \in 1 .. Len(log) /\ \A j \in 1 .. i : log[j] = log'[j]
      BY <1>1, <1>2, <2>1
    <3> QED BY <3>1, SameAccepted DEF InControl, AllAccepted
  <2>2. CASE i > Len(log)
    <3> DEFINE l == log'[i].lock
    <3>1. i \in Len(log) + 1 .. Len(log') /\ i \in Nat \ {0}
      BY <1>1, <1>2, <2>2
    <3>2. PICK j \in Len(log) + 1 .. Len(log') :
             /\ \A r \in Len(log) + 1 .. Len(log') : log'[r].lock = l => r = j
             /\ \A q \in 1 .. Len(log) :
                   IsLast(l, log, Len(log), q) => log'[j].nonce = log[q].nonce + 1
      BY <1>4, <3>1 DEF LockLogged
    <3>3. i = j
      BY <3>1, <3>2
    <3>4. ASSUME NEW q \in 1 .. i - 1, IsLast(l, log', i - 1, q)
          PROVE  log'[i].nonce = log'[q].nonce + 1
      <4>1. q \in 1 .. Len(log)
        <5>1. q \notin Len(log) + 1 .. Len(log')
          BY <1>1, <1>2, <3>1, <3>2, <3>3, <3>4 DEF IsLast
        <5> QED BY <1>1, <1>2, <3>1, <5>1
      <4>2. IsLast(l, log, Len(log), q)
        BY <1>1, <1>2, <3>1, <3>4, <4>1, SMTT(30) DEF IsLast
      <4> QED BY <1>2, <3>2, <3>3, <4>1, <4>2
    <3> QED BY <3>1, <3>4, AcceptedIff
  <2> QED BY <1>1, <1>2, <2>1, <2>2
<1>6. OneUncommitted'
  <2> SUFFICES ASSUME NEW i \in commitIndex + 1 .. Len(log'), NEW j \in commitIndex + 1 .. Len(log'),
                      log'[i].lock = log'[j].lock, i < j
               PROVE  FALSE
    BY <1>1, <1>2 DEF OneUncommitted
  <2>1. CASE j <= Len(log)
    <3>1. i \in commitIndex + 1 .. Len(log) /\ j \in commitIndex + 1 .. Len(log)
      BY <1>1, <1>2, <2>1
    <3>2. log[i].lock = log[j].lock
      BY <1>1, <1>2, <3>1
    <3> QED BY <3>1, <3>2 DEF InControl, OneUncommitted
  <2>2. CASE j > Len(log)
    <3>1. j \in Len(log) + 1 .. Len(log')
      BY <1>1, <1>2, <2>2
    <3>2. PICK k \in Len(log) + 1 .. Len(log') :
             /\ \A r \in Len(log) + 1 .. Len(log') : log'[r].lock = log'[j].lock => r = k
             /\ NothingUncommitted(log'[j].lock)
      BY <1>4, <3>1 DEF LockLogged
    <3>3. i \notin Len(log) + 1 .. Len(log')
      BY <3>1, <3>2
    <3>4. i \in commitIndex + 1 .. Len(log) /\ log'[i] = log[i]
      BY <1>1, <1>2, <3>3
    <3> QED BY <3>2, <3>4 DEF NothingUncommitted
  <2> QED BY <1>1, <1>2, <2>1, <2>2
<1>7. Tracked'
  <2> SUFFICES ASSUME NEW l \in Lock
               PROVE  /\ HasState(l, log', Len(log')) => l \in handled'
                      /\ l \in handled' =>
                            \E q \in 1 .. Len(log') : /\ IsLast(l, log', Len(log'), q)
                                                      /\ pending'[l].appended = log'[q].nonce
    BY DEF Tracked
  <2>1. CASE LockKept(l)
    <3>1. HasState(l, log', Len(log')) => l \in handled'
      <4> SUFFICES ASSUME HasState(l, log', Len(log')) PROVE l \in handled'
        OBVIOUS
      <4>1. PICK i \in 1 .. Len(log') : log'[i].lock = l
        BY HasStateIff
      <4>2. i \in 1 .. Len(log) /\ log[i].lock = l
        BY <1>1, <1>2, <2>1, <4>1 DEF LockKept
      <4>3. HasState(l, log, Len(log))
        BY <4>2, HasStateIff
      <4> QED BY <2>1, <4>3 DEF InControl, Tracked, LockKept
    <3>2. ASSUME l \in handled'
          PROVE  \E q \in 1 .. Len(log') : /\ IsLast(l, log', Len(log'), q)
                                           /\ pending'[l].appended = log'[q].nonce
      <4>1. l \in handled /\ pending'[l].appended = pending[l].appended
        BY <2>1, <3>2 DEF LockKept
      <4>2. PICK q \in 1 .. Len(log) : /\ IsLast(l, log, Len(log), q)
                                       /\ pending[l].appended = log[q].nonce
        BY <4>1 DEF InControl, Tracked
      <4>3. q \in 1 .. Len(log') /\ log'[q] = log[q]
        BY <1>1, <1>2
      <4>4. \A r \in q + 1 .. Len(log') : log'[r].lock # l
        <5> TAKE r \in q + 1 .. Len(log')
        <5>1. CASE r <= Len(log)
          BY <1>1, <1>2, <4>2, <5>1 DEF IsLast
        <5>2. CASE r > Len(log)
          <6>1. r \in Len(log) + 1 .. Len(log')
            BY <1>1, <1>2, <5>2
          <6> QED BY <2>1, <6>1 DEF LockKept
        <5> QED BY <1>1, <1>2, <5>1, <5>2
      <4> QED BY <4>1, <4>2, <4>3, <4>4 DEF IsLast
    <3> QED BY <3>1, <3>2
  <2>2. CASE LockLogged(l)
    <3>1. PICK j \in Len(log) + 1 .. Len(log') :
             /\ log'[j].lock = l
             /\ \A r \in Len(log) + 1 .. Len(log') : log'[r].lock = l => r = j
             /\ l \in handled' /\ pending'[l].appended = log'[j].nonce
      BY <2>2 DEF LockLogged
    <3>2. j \in 1 .. Len(log') /\ \A r \in j + 1 .. Len(log') : log'[r].lock # l
      BY <1>1, <1>2, <3>1
    <3> QED BY <3>1, <3>2 DEF IsLast
  <2> QED BY <2>1, <2>2 DEF FirstStep
<1> QED BY <1>3, <1>5, <1>6, <1>7 DEF InControl

(* If LastAppendedNonce is not above the nonce in the map, no entry of the *)
(* lock is on its way and the nonce in the map is the last in the log.     *)
LEMMA NothingOnItsWay ==
    ASSUME LeaseInv, InControl, NEW l \in Lock, l \in handled,
           NEW p \in Nat, p <= commitIndex, HasState(l, log, p),
           pending[l].appended <= LockState(l, log, p).nonce
    PROVE  /\ NothingUncommitted(l)
           /\ pending[l].appended = LockState(l, log, p).nonce
           /\ \A q \in 1 .. Len(log) :
                 IsLast(l, log, Len(log), q) => log[q].nonce = pending[l].appended
<1>1. /\ log \in Seq(Entry) /\ Len(log) \in Nat /\ commitIndex \in Nat /\ commitIndex <= Len(log)
      /\ committed \in Nat /\ p <= Len(log)
  BY LenProperties DEF LeaseInv, TypeOK, IndexOrder
<1>2. PICK s \in 1 .. Len(log) : /\ s \in 1 .. p /\ LockState(l, log, p) = log[s]
                                 /\ log[s].lock = l
  BY <1>1, StateInLog
<1>3. PICK t \in 1 .. Len(log) : /\ IsLast(l, log, Len(log), t)
                                 /\ pending[l].appended = log[t].nonce
  BY DEF InControl, Tracked
<1>4. \A i \in 1 .. Len(log) : log[i].nonce \in Nat /\ Accepted(log, i)
  BY LogFields DEF LeaseInv, InControl, AllAccepted
<1>5. s <= t /\ log[t].lock = l
  BY <1>1, <1>2, <1>3 DEF IsLast
<1>6. ~(s < t)
  <2> SUFFICES ASSUME s < t PROVE FALSE
    OBVIOUS
  <2>1. log[s].nonce < log[t].nonce
    <3>1. s \in 1 .. t - 1
      BY <1>1, <1>2
    <3> QED BY <1>1, <1>2, <1>4, <1>5, <3>1, NoncesIncrease
  <2> QED BY <1>2, <1>3, <1>4, <2>1
<1>7. s = t
  BY <1>1, <1>2, <1>3, <1>5, <1>6
<1>8. NothingUncommitted(l)
  BY <1>1, <1>2, <1>3, <1>7 DEF NothingUncommitted, IsLast
<1>9. \A q \in 1 .. Len(log) : IsLast(l, log, Len(log), q) => q = t
  BY <1>1, <1>3 DEF IsLast
<1> QED BY <1>2, <1>3, <1>7, <1>8, <1>9

LEMMA FirstAppend ==
    ASSUME LeaseInv, InControl, NEW l \in Lock, NEW e \in Entry, e.lock = l,
           NEW h, h.appended = e.nonce, InsertLogEntry(e), SetHandler(l, h),
           NothingUncommitted(l),
           \A q \in 1 .. Len(log) : IsLast(l, log, Len(log), q) => e.nonce = log[q].nonce + 1
    PROVE  FirstStep
<1>1. log \in Seq(Entry) /\ Len(log) \in Nat /\ pending \in [Lock -> Handler]
  BY LenProperties DEF LeaseInv, TypeOK
<1>2. Len(log') = Len(log) + 1 /\ log'[Len(log) + 1] = e
  BY <1>1, AppendProperties DEF InsertLogEntry
<1>3. \A j \in Len(log) + 1 .. Len(log') : j = Len(log) + 1
  BY <1>1, <1>2
<1>4. handled' = handled \cup {l} /\ pending' = [pending EXCEPT ![l] = h]
  BY DEF SetHandler
<1>5. LockLogged(l)
  <2>1. Len(log) + 1 \in Len(log) + 1 .. Len(log')
    BY <1>1, <1>2
  <2>2. l \in handled' /\ pending'[l].appended = e.nonce
    BY <1>1, <1>4
  <2> QED BY <1>2, <1>3, <2>1, <2>2 DEF LockLogged
<1>6. ASSUME NEW k \in Lock, k # l
      PROVE  LockKept(k)
  <2>1. pending'[k] = pending[k] /\ (k \in handled' <=> k \in handled)
    BY <1>1, <1>4, <1>6
  <2> QED BY <1>2, <1>3, <1>6, <2>1 DEF LockKept
<1> QED BY <1>5, <1>6 DEF FirstStep

LEMMA FirstSet ==
    ASSUME LeaseInv, NEW l \in Lock, l \in handled, NEW h,
           h.appended = pending[l].appended, SetHandler(l, h), UNCHANGED log
    PROVE  FirstStep
<1>1. Len(log) \in Nat /\ pending \in [Lock -> Handler]
  BY LenProperties DEF LeaseInv, TypeOK
<1>2. \A k \in Lock : pending'[k].appended = pending[k].appended
  BY <1>1 DEF SetHandler
<1>3. handled' = handled
  BY DEF SetHandler
<1> QED BY <1>1, <1>2, <1>3 DEF FirstStep, LockKept

LEMMA FirstNothing ==
    ASSUME LeaseInv, UNCHANGED <<log, acqVars>>
    PROVE  FirstStep
<1>1. Len(log) \in Nat
  BY LenProperties DEF LeaseInv, TypeOK
<1> QED BY <1>1 DEF FirstStep, LockKept, acqVars

LEMMA FirstRefreshSpecific ==
    ASSUME LeaseInv, InControl, NEW l \in Lock, l \in handled,
           NEW p \in Nat, p <= commitIndex, HasState(l, log, p),
           NEW c \in Client, NEW h \in Handler, h.appended = pending[l].appended,
           RefreshSpecificDLock(l, h, LockState(l, log, p), c)
    PROVE  FirstStep
<1> DEFINE s == LockState(l, log, p)
<1>1. CASE Grantable(h, s, c)
  <2> DEFINE e == LogEntry(l, h.appended + 1, c, Head(h.queue).expire)
             h2 == [processed |-> h.processed + 1, appended |-> h.appended + 1,
                    queue |-> Tail(h.queue)]
  <2>1. InsertLogEntry(e) /\ SetHandler(l, h2)
    BY <1>1 DEF RefreshSpecificDLock
  <2>2. h.appended \in Nat /\ h.queue \in Seq(Waiter) /\ h.queue # <<>> /\ h.appended <= s.nonce
    BY <1>1 DEF Grantable, Handler
  <2>3. Head(h.queue).expire \in Nat
    <3>1. Head(h.queue) \in Waiter
      BY <2>2, HeadTailProperties
    <3> QED BY <3>1 DEF Waiter
  <2>4. e \in Entry /\ e.lock = l /\ e.nonce = h.appended + 1
    BY <2>2, <2>3, LogEntryType, SMTT(30) DEF LeaseInv
  <2>5. h2.appended = e.nonce
    BY <2>4
  <2>6. /\ NothingUncommitted(l)
        /\ \A q \in 1 .. Len(log) :
              IsLast(l, log, Len(log), q) => log[q].nonce = pending[l].appended
    BY <2>2, NothingOnItsWay
  <2> HIDE DEF e, h2
  <2> QED BY <2>1, <2>4, <2>5, <2>6, FirstAppend
<1>2. CASE ~Grantable(h, s, c)
  BY <1>2, FirstSet DEF RefreshSpecificDLock
<1> QED BY <1>1, <1>2

LEMMA FirstAcquire ==
    ASSUME LeaseInv, InControl, NEW c \in Client, NEW l \in Lock, NEW expire \in Expires,
           NEW p \in Nat, p <= commitIndex,
           \/ AcquireFirst(c, l, expire, p) \/ AcquireBehindFirst(c, l, expire, p)
           \/ AcquireDirectly(c, l, expire, p) \/ AcquireWaiting(c, l, expire, p)
           \/ AcquireFails(l, p)
    PROVE  FirstStep
<1>1. /\ TypeOK /\ expire \in Nat /\ now \in Nat /\ pending[l] \in Handler /\ log \in Seq(Entry)
      /\ Len(log) \in Nat /\ p <= Len(log) /\ commitIndex \in Nat
  BY TimeAssumption, LenProperties DEF LeaseInv, TypeOK, IndexOrder
<1> DEFINE s == LockState(l, log, p)
<1>2. CASE AcquireFirst(c, l, expire, p)
  <2> DEFINE e == LogEntry(l, 1, c, expire)
  <2>1. e \in Entry /\ e.lock = l /\ e.nonce = 1
    BY <1>1, LogEntryType
  <2>2. NewHandler(1).appended = e.nonce
    BY <2>1 DEF NewHandler
  <2> HIDE DEF e
  <2>3. l \notin handled /\ InsertLogEntry(e) /\ SetHandler(l, NewHandler(1))
    BY <1>2 DEF AcquireFirst, e
  <2>4. \A q \in 1 .. Len(log) : log[q].lock # l
    BY <2>3, HasStateIff DEF InControl, Tracked
  <2>5. /\ NothingUncommitted(l)
        /\ \A q \in 1 .. Len(log) : ~IsLast(l, log, Len(log), q)
    BY <1>1, <2>4 DEF NothingUncommitted, IsLast
  <2> QED BY <2>1, <2>2, <2>3, <2>5, FirstAppend
<1>3. CASE AcquireBehindFirst(c, l, expire, p)
  <2>1. InsertNewAcquirement(pending[l], c, expire, now).appended = pending[l].appended
    BY <1>1, InsertType, ZenonT(40)
  <2> QED BY <1>3, <2>1, FirstSet DEF AcquireBehindFirst
<1>4. CASE AcquireDirectly(c, l, expire, p)
  <2> DEFINE e == LogEntry(l, s.nonce + 1, c, expire)
             h == [pending[l] EXCEPT !.appended = @ + 1]
  <2>1. /\ HasState(l, log, p) /\ l \in handled /\ DirectlyFree(pending[l], s)
        /\ InsertLogEntry(e)
    BY <1>4 DEF AcquireDirectly
  <2>2. SetHandler(l, h)
    BY <1>4, Zenon DEF AcquireDirectly
  <2>3. h.appended = pending[l].appended + 1
    <3>1. pending[l].appended + 1 \in Nat
      BY <1>1 DEF Handler
    <3> QED BY <1>1, <3>1, WithAppended, Zenon
  <2>4. pending[l].appended \in Nat /\ pending[l].appended = s.nonce
    BY <1>1, <2>1 DEF DirectlyFree, Handler
  <2>5. e \in Entry /\ e.lock = l /\ e.nonce = s.nonce + 1
    <3>1. s.nonce + 1 \in Nat
      BY <2>4
    <3> HIDE DEF s
    <3> QED BY <1>1, <3>1 DEF LogEntry, Entry, TypeOK
  <2>6. /\ NothingUncommitted(l)
        /\ \A q \in 1 .. Len(log) :
              IsLast(l, log, Len(log), q) => log[q].nonce = pending[l].appended
    BY <2>1, <2>4, NothingOnItsWay
  <2> HIDE DEF e, h
  <2> QED BY <2>1, <2>2, <2>3, <2>4, <2>5, <2>6, FirstAppend
<1>5. CASE AcquireWaiting(c, l, expire, p)
  <2> DEFINE h == InsertNewAcquirement(pending[l], c, expire, now)
  <2>1. h \in Handler /\ h.appended = pending[l].appended
    BY <1>1, InsertType, ZenonT(40)
  <2>2. HasState(l, log, p) /\ l \in handled /\ RefreshSpecificDLock(l, h, s, c)
    BY <1>5 DEF AcquireWaiting
  <2> HIDE DEF h
  <2> QED BY <2>1, <2>2, FirstRefreshSpecific
<1>6. CASE AcquireFails(l, p)
  BY <1>6, FirstNothing DEF AcquireFails
<1> QED BY <1>2, <1>3, <1>4, <1>5, <1>6

LEMMA FirstRefresh ==
    ASSUME LeaseInv, InControl, NEW c \in Client, NEW l \in Lock, NEW seq \in Nat,
           NEW p \in Nat, p <= commitIndex,
           \/ RefreshLive(c, l, seq, p) \/ RefreshObsolete(l, seq)
           \/ l \notin handled /\ UNCHANGED <<log, acqVars>>
    PROVE  FirstStep
<1> DEFINE h1 == AbandonExpiredAcquirement(pending[l], now)
           h2 == RefreshAcquirement(h1, seq, now)
<1>1. now \in Nat /\ pending[l] \in Handler
  BY DEF LeaseInv, TypeOK
<1>2. h1 \in Handler /\ h1.appended = pending[l].appended
  BY <1>1, AbandonType
<1>3. CASE RefreshLive(c, l, seq, p)
  <2>1. /\ Refreshable(h1, seq, now) /\ l \in handled
        /\ IF HasState(l, log, p) THEN RefreshSpecificDLock(l, h2, LockState(l, log, p), c)
           ELSE SetHandler(l, h2) /\ UNCHANGED log
    BY <1>3 DEF RefreshLive
  <2> HIDE DEF h1
  <2>2. h2 \in Handler /\ h2.appended = pending[l].appended
    BY <1>1, <1>2, <2>1, RefreshType
  <2> HIDE DEF h2
  <2> QED BY <2>1, <2>2, FirstRefreshSpecific, FirstSet
<1>4. CASE RefreshObsolete(l, seq)
  BY <1>2, <1>4, FirstSet DEF RefreshObsolete
<1>5. CASE l \notin handled /\ UNCHANGED <<log, acqVars>>
  BY <1>5, FirstNothing
<1> QED BY <1>3, <1>4, <1>5

LEMMA FirstLogRelease ==
    ASSUME LeaseInv, InControl, NEW c \in Client, NEW l \in Lock,
           NEW p \in Nat, p <= commitIndex, LogRelease(c, l, p)
    PROVE  FirstStep
<1> DEFINE s == LockState(l, log, p)
           e == LogEntry(l, s.nonce + 1, NoOwner, 0)
           h == [pending[l] EXCEPT !.appended = @ + 1]
<1>1. /\ TypeOK /\ pending[l] \in Handler /\ log \in Seq(Entry)
      /\ Len(log) \in Nat /\ p <= Len(log) /\ commitIndex \in Nat
  BY LenProperties DEF LeaseInv, TypeOK, IndexOrder
<1>2. HasState(l, log, p) /\ l \in handled /\ ~(pending[l].appended > s.nonce)
  BY DEF LogRelease, ReleaseOver, ReleaseLater, ReleaseFails
<1>3. s.nonce \in Nat /\ pending[l].appended \in Nat
  <2>1. s \in Entry
    BY <1>1, <1>2, StateInLog
  <2> HIDE DEF s
  <2> QED BY <1>1, <2>1 DEF Handler, Entry
<1>4. pending[l].appended <= s.nonce
  BY <1>2, <1>3
<1>5. /\ NothingUncommitted(l) /\ pending[l].appended = s.nonce
      /\ \A q \in 1 .. Len(log) :
            IsLast(l, log, Len(log), q) => log[q].nonce = pending[l].appended
  BY <1>2, <1>4, NothingOnItsWay
<1>6. e \in Entry /\ e.lock = l /\ e.nonce = s.nonce + 1
  <2>1. s.nonce + 1 \in Nat /\ now \in Nat
    BY <1>1, <1>3 DEF TypeOK
  <2> HIDE DEF s
  <2> QED BY <2>1 DEF LogEntry, Entry
<1>7. h.appended = pending[l].appended + 1
  <2>1. pending[l].appended + 1 \in Nat
    BY <1>3
  <2> QED BY <1>1, <2>1, WithAppended, Zenon
<1>8. InsertLogEntry(e) /\ SetHandler(l, h)
  BY Zenon DEF LogRelease
<1> HIDE DEF e, h
<1> QED BY <1>3, <1>5, <1>6, <1>7, <1>8, FirstAppend

LEMMA FirstScan ==
    ASSUME LeaseInv, InControl, NEW p \in Nat, p <= commitIndex,
           ScanDLockStateMap(log, p, handled, pending)
    PROVE  FirstStep
<1> DEFINE hs1 == Scanned(log, p, handled, pending)
           due == ToRelease(log, p, hs1)
<1>1. /\ TypeOK /\ log \in Seq(Entry) /\ Len(log) \in Nat /\ p <= Len(log)
      /\ commitIndex \in Nat /\ pending \in [Lock -> Handler]
      /\ \A i \in 1 .. Len(log) : log[i].ts <= now
  BY LenProperties DEF LeaseInv, TypeOK, IndexOrder, WellBuilt
<1>2. /\ handled' = handled \cup {l \in Lock : HasState(l, log, p)}
      /\ pending' = CountReleases(hs1, due)
  BY DEF ScanDLockStateMap
<1>3. /\ \A j \in Len(log) + 1 .. Len(log') :
            \E l \in due : log'[j] = ReleaseOf(l, log, p) /\ log'[j].lock = l
      /\ \A l \in due : \E j \in Len(log) + 1 .. Len(log') : log'[j].lock = l
      /\ \A j, k \in Len(log) + 1 .. Len(log') : log'[j].lock = log'[k].lock => j = k
  <2>1. due = ToRelease(log, p, Scanned(log, p, handled, pending))
    OBVIOUS
  <2> HIDE DEF due, hs1
  <2> QED BY <1>1, <2>1, ScanDetails
<1>4. \A l \in Lock : HasState(l, log, p) => l \in handled
  <2> SUFFICES ASSUME NEW l \in Lock, HasState(l, log, p) PROVE l \in handled
    OBVIOUS
  <2>1. HasState(l, log, Len(log))
    BY <1>1, HasStateIff
  <2> QED BY <2>1 DEF InControl, Tracked
<1>5. hs1 \in [Lock -> Handler]
  BY <1>1, ScannedType
<1>6. \A l \in Lock : hs1[l].appended = pending[l].appended
  <2> TAKE l \in Lock
  <2>1. AbandonExpiredAcquirement(pending[l], now).appended = pending[l].appended
    BY <1>1, AbandonType
  <2> QED BY <1>4, <2>1 DEF Scanned
<1>7. \A l \in due : /\ l \in Lock /\ HasState(l, log, p)
                     /\ hs1[l].appended <= LockState(l, log, p).nonce
  BY DEF ToRelease
<1> HIDE DEF hs1, due
<1>8. \A l \in Lock : pending'[l].appended =
         IF l \in due THEN pending[l].appended + 1 ELSE pending[l].appended
  BY <1>2, <1>5, <1>6, CountReleasesType
<1> SUFFICES ASSUME NEW l \in Lock PROVE LockKept(l) \/ LockLogged(l)
  BY DEF FirstStep
<1>9. CASE l \in due
  <2>1. HasState(l, log, p) /\ l \in handled /\ l \in handled'
    BY <1>2, <1>4, <1>7, <1>9
  <2>2. pending[l].appended <= LockState(l, log, p).nonce
    BY <1>6, <1>7, <1>9
  <2>3. /\ NothingUncommitted(l) /\ pending[l].appended = LockState(l, log, p).nonce
        /\ \A q \in 1 .. Len(log) :
              IsLast(l, log, Len(log), q) => log[q].nonce = pending[l].appended
    BY <2>1, <2>2, NothingOnItsWay
  <2>4. PICK j \in Len(log) + 1 .. Len(log') : log'[j].lock = l
    BY <1>3, <1>9
  <2>5. log'[j] = ReleaseOf(l, log, p)
    BY <1>3, <2>4
  <2>6. log'[j].nonce = pending[l].appended + 1
    BY <2>3, <2>5 DEF ReleaseOf, LogEntry
  <2>7. pending'[l].appended = log'[j].nonce
    BY <1>8, <1>9, <2>6
  <2>8. \A r \in Len(log) + 1 .. Len(log') : log'[r].lock = l => r = j
    BY <1>3, <2>4
  <2> QED BY <2>1, <2>3, <2>4, <2>6, <2>7, <2>8 DEF LockLogged
<1>10. CASE l \notin due
  <2>1. \A j \in Len(log) + 1 .. Len(log') : log'[j].lock # l
    BY <1>3, <1>10
  <2>2. l \in handled' <=> l \in handled
    BY <1>2, <1>4
  <2> QED BY <1>8, <1>10, <2>1, <2>2 DEF LockKept
<1> QED BY <1>9, <1>10

(* A lock in the map has a handler, so a release does not fail. *)
LEMMA FirstHandlerExists ==
    ASSUME LeaseInv, InControl, NEW l \in Lock, NEW p \in Nat, p <= Len(log), HasState(l, log, p)
    PROVE  l \in handled
<1>1. Len(log) \in Nat
  BY LenProperties DEF LeaseInv, TypeOK
<1>2. HasState(l, log, Len(log))
  BY <1>1, HasStateIff
<1> QED BY <1>2 DEF InControl, Tracked

LEMMA FirstClientRequest ==
    ASSUME LeaseInv, InControl, NEW c \in Client, NEW l \in Lock, ClientRequest(c, l)
    PROVE  InControl'
<1>1. /\ AppliedIndex \in Nat /\ AppliedIndex <= Len(log) /\ AppliedIndex <= commitIndex
      /\ LogStep
  BY AppliedIndexProperties, RequestLogs DEF LeaseInv, TypeOK
<1>2. ASSUME NEW expire \in Expires, AcquireDLock(c, l, expire)
      PROVE  InControl'
  <2>1. FirstStep /\ ~hung'
    BY <1>1, <1>2, FirstAcquire DEF AcquireDLock
  <2> QED BY <1>1, <1>2, <2>1, FirstStepKeepsControl DEF AcquireDLock
<1>3. ASSUME NEW seq \in 1 .. Assigned(pending[l]) + 1, RefreshAcquirementBySequence(c, l, seq)
      PROVE  InControl'
  <2>1. seq \in Nat
    OBVIOUS
  <2>2. FirstStep /\ ~hung'
    BY <1>1, <1>3, <2>1, FirstRefresh DEF RefreshAcquirementBySequence
  <2> QED BY <1>1, <1>3, <2>2, FirstStepKeepsControl DEF RefreshAcquirementBySequence
<1>4. ~ReleaseFails(c, l, AppliedIndex)
  BY <1>1, FirstHandlerExists DEF ReleaseFails, ReleaseOver
<1>5. CASE ReleaseDLock(c, l)
  <2>1. FirstStep
    BY <1>1, <1>5, FirstLogRelease, FirstNothing DEF ReleaseDLock
  <2>2. ~hung'
    BY <1>4, <1>5 DEF ReleaseDLock
  <2> QED BY <1>1, <1>5, <2>1, <2>2, FirstStepKeepsControl DEF ReleaseDLock
<1>6. CASE PollRelease(c, l)
  <2>1. FirstStep
    BY <1>1, <1>6, FirstLogRelease, FirstNothing DEF PollRelease
  <2>2. ~hung'
    BY <1>6 DEF PollRelease
  <2> QED BY <1>1, <1>6, <2>1, <2>2, FirstStepKeepsControl DEF PollRelease
<1>7. CASE PollTimeout(c, l)
  BY <1>7 DEF PollTimeout, InControl, AllAccepted, Tracked, OneUncommitted,
              logVars, mapVars, acqVars
<1> QED BY <1>2, <1>3, <1>5, <1>6, <1>7 DEF ClientRequest

LEMMA FirstInvNext == LeaseInv /\ FirstInv /\ [Next]_vars => FirstInv'
<1> SUFFICES ASSUME LeaseInv, FirstInv, [Next]_vars, takeovers' = 0
             PROVE  InControl'
  BY DEF FirstInv, FirstLeadership
<1>1. AppliedIndex \in Nat /\ AppliedIndex <= commitIndex /\ takeovers \in Nat /\ TypeOK
  BY AppliedIndexProperties DEF LeaseInv, TypeOK
<1>2. CASE UNCHANGED vars
  <2>1. InControl
    BY <1>2 DEF FirstInv, FirstLeadership, vars
  <2> QED BY <1>2, <2>1 DEF vars, logVars, mapVars, acqVars, InControl, AllAccepted, Tracked,
                            OneUncommitted
<1>3. ASSUME NEW c \in Client, NEW l \in Lock, ClientRequest(c, l)
      PROVE  InControl'
  <2>1. takeovers' = takeovers
    BY <1>3 DEF ClientRequest, AcquireDLock, RefreshAcquirementBySequence, ReleaseDLock,
                PollRelease, PollTimeout
  <2>2. InControl
    BY <2>1 DEF FirstInv, FirstLeadership
  <2> QED BY <1>3, <2>2, FirstClientRequest
<1>4. CASE ReleaseExpiredDLockPeriodically
  <2>1. InControl /\ ~hung' /\ commitIndex' = commitIndex /\ CommitProcedure
    BY <1>4 DEF ReleaseExpiredDLockPeriodically, FirstInv, FirstLeadership
  <2>2. FirstStep
    BY <1>1, <1>4, <2>1, FirstScan DEF ReleaseExpiredDLockPeriodically
  <2>3. LogStep
    BY <1>4, PeriodicScanLogs
  <2> QED BY <2>1, <2>2, <2>3, FirstStepKeepsControl
<1>5. CASE CommitToStateMap
  <2>1. /\ InControl /\ ~hung' /\ commitIndex' = commitIndex /\ CommitProcedure
        /\ UNCHANGED <<log, acqVars>>
    BY <1>5 DEF CommitToStateMap, FirstInv, FirstLeadership, logVars, acqVars
  <2> QED BY <1>1, <2>1, FirstNothing, NothingLogged, FirstStepKeepsControl
<1>6. CASE Commit
  <2>1. /\ InControl /\ commitIndex \in Nat /\ Len(log) \in Nat
        /\ commitIndex' \in commitIndex + 1 .. Len(log)
        /\ UNCHANGED <<now, log, mapVars, acqVars, polls, hung, takeovers, inherited>>
    BY <1>6, LenProperties DEF Commit, FirstInv, FirstLeadership, LeaseInv, TypeOK
  <2>2. \A i \in commitIndex' + 1 .. Len(log) : i \in commitIndex + 1 .. Len(log)
    <3>1. commitIndex' \in Nat /\ commitIndex < commitIndex'
      BY <2>1
    <3>2. commitIndex \in Nat /\ Len(log) \in Nat
      BY <2>1
    <3> DEFINE k == commitIndex'
    <3>3. k \in Nat /\ commitIndex < k
      BY <3>1
    <3> HIDE DEF k
    <3>4. \A i \in k + 1 .. Len(log) : i \in commitIndex + 1 .. Len(log)
      BY <3>2, <3>3
    <3> QED BY <3>4 DEF k
  <2>3. OneUncommitted'
    BY <2>1, <2>2 DEF InControl, OneUncommitted
  <2> QED BY <2>1, <2>3 DEF InControl, AllAccepted, Tracked, mapVars, acqVars
<1>7. ASSUME NEW length, NEW known, BecomeLeader(length, known)
      PROVE  FALSE
  BY <1>1, <1>7 DEF BecomeLeader
<1>8. CASE Tick
  <2>1. InControl /\ UNCHANGED <<logVars, mapVars, acqVars, polls, hung, takeovers, inherited>>
    BY <1>8 DEF Tick, FirstInv, FirstLeadership
  <2> QED BY <2>1 DEF logVars, mapVars, acqVars, InControl, AllAccepted, Tracked, OneUncommitted
<1> QED BY <1>2, <1>3, <1>4, <1>5, <1>6, <1>7, <1>8 DEF Next

LEMMA FirstInvInit == Init => FirstInv
<1> SUFFICES ASSUME Init PROVE InControl
  BY DEF FirstInv
<1>1. Len(log) = 0
  BY EmptySeq DEF Init
<1> QED BY <1>1, HasStateIff DEF Init, InControl, AllAccepted, Tracked, OneUncommitted

(* What InControl says in the terms of the specification. *)
LEMMA FirstInvImplies ==
    ASSUME LeaseInv, FirstInv
    PROVE  NoncesConsecutive /\ OneEntryOnItsWay /\ MapKeepsUp
BY DEF FirstInv, InControl, AllAccepted, OneUncommitted, NoncesConsecutive,
       OneEntryOnItsWay, MapKeepsUp

LEMMA FirstInvHolds == Spec => [](LeaseInv /\ FirstInv)
BY LeaseInvInit, LeaseInvNext, FirstInvInit, FirstInvNext, PTL DEF Spec

(* In the first leadership LastAppendedNonce is enough: the nonces of each *)
(* lock are consecutive in the log, so the map will accept every entry.    *)
THEOREM NoncesAreConsecutive == Spec => []NoncesConsecutive
BY FirstInvHolds, FirstInvImplies, PTL

(* In the first leadership a lock has one uncommitted entry at most,       *)
(* although acquire, refresh, release and scan all log entries             *)
(* (dlock_interchange.go).                                                 *)
THEOREM AtMostOneOnItsWay == Spec => []OneEntryOnItsWay
BY FirstInvHolds, FirstInvImplies, PTL

(* In the first leadership the lock map never stops for good: it gets as   *)
(* far as LastAppliedIndex (commitProcedure in node.go).                   *)
THEOREM MapAlwaysKeepsUp == Spec => []MapKeepsUp
BY FirstInvHolds, FirstInvImplies, PTL

-----------------------------------------------------------------------------
(* Handlers *)

(* What a critical section does: no handler goes, and a lock that gets an  *)
(* entry has one.                                                          *)
KeepsHandlers ==
    /\ handled \subseteq handled'
    /\ \A j \in Len(log) + 1 .. Len(log') : log'[j].lock \in handled'

LEMMA HandledIfUnlogged ==
    ASSUME TypeOK, log' = log, handled \subseteq handled'
    PROVE  KeepsHandlers
<1>1. Len(log) \in Nat
  BY LenProperties DEF TypeOK
<1> QED BY <1>1 DEF KeepsHandlers

LEMMA HandledIfLogged ==
    ASSUME TypeOK, NEW l \in Lock, NEW nonce, NEW owner, NEW expire, NEW h,
           LogEntry(l, nonce, owner, expire) \in Entry,
           InsertLogEntry(LogEntry(l, nonce, owner, expire)), SetHandler(l, h)
    PROVE  KeepsHandlers
<1> DEFINE e == LogEntry(l, nonce, owner, expire)
<1>1. e \in Entry /\ e.lock = l /\ log \in Seq(Entry) /\ Len(log) \in Nat
  BY LenProperties DEF LogEntry, TypeOK
<1>2. log' = Append(log, e) /\ handled' = handled \cup {l}
  BY DEF InsertLogEntry, SetHandler
<1> HIDE DEF e
<1>3. Len(log') = Len(log) + 1 /\ log'[Len(log) + 1] = e
  BY <1>1, <1>2, AppendProperties
<1>4. \A j \in Len(log) + 1 .. Len(log') : j = Len(log) + 1
  BY <1>1, <1>3
<1> QED BY <1>1, <1>2, <1>3, <1>4 DEF KeepsHandlers

LEMMA HandledRefreshSpecific ==
    ASSUME LeaseInv, NEW l \in Lock, NEW h \in Handler, NEW s, NEW c \in Client,
           RefreshSpecificDLock(l, h, s, c)
    PROVE  KeepsHandlers
<1>1. TypeOK /\ now \in Nat /\ h.appended \in Nat /\ h.queue \in Seq(Waiter)
  BY DEF LeaseInv, TypeOK, Handler
<1>2. CASE Grantable(h, s, c)
  <2>1. Head(h.queue) \in Waiter
    BY <1>1, <1>2, HeadTailProperties DEF Grantable
  <2>2. Head(h.queue).expire \in Nat /\ h.appended + 1 \in Nat
    BY <1>1, <2>1 DEF Waiter
  <2>3. LogEntry(l, h.appended + 1, c, Head(h.queue).expire) \in Entry
    BY <1>1, <2>2, LogEntryType
  <2> QED BY <1>1, <1>2, <2>3, HandledIfLogged DEF RefreshSpecificDLock
<1>3. CASE ~Grantable(h, s, c)
  BY <1>1, <1>3, HandledIfUnlogged DEF RefreshSpecificDLock, SetHandler
<1> QED BY <1>2, <1>3

LEMMA HandledAcquire ==
    ASSUME LeaseInv, NEW c \in Client, NEW l \in Lock, NEW expire \in Expires,
           AcquireDLock(c, l, expire)
    PROVE  KeepsHandlers
<1> DEFINE p == AppliedIndex
           s == LockState(l, log, p)
<1>1. /\ TypeOK /\ expire \in Nat /\ now \in Nat /\ pending[l] \in Handler
      /\ p \in Nat /\ p <= Len(log)
  BY TimeAssumption, AppliedIndexProperties DEF LeaseInv, TypeOK
<1> HIDE DEF p
<1>2. CASE AcquireFirst(c, l, expire, p)
  <2>1. LogEntry(l, 1, c, expire) \in Entry
    BY <1>1, LogEntryType
  <2> QED BY <1>1, <1>2, <2>1, HandledIfLogged DEF AcquireFirst
<1>3. CASE AcquireBehindFirst(c, l, expire, p)
  BY <1>1, <1>3, HandledIfUnlogged DEF AcquireBehindFirst, SetHandler
<1>4. CASE AcquireDirectly(c, l, expire, p)
  <2>1. HasState(l, log, p) /\ log \in Seq(Entry)
    BY <1>1, <1>4 DEF AcquireDirectly, TypeOK
  <2>2. s \in Entry
    BY <1>1, <2>1, StateInLog
  <2>3. s.nonce + 1 \in Nat
    <3> HIDE DEF s
    <3> QED BY <2>2 DEF Entry
  <2>4. LogEntry(l, s.nonce + 1, c, expire) \in Entry
    BY <1>1, <2>3, LogEntryType
  <2>5. /\ InsertLogEntry(LogEntry(l, s.nonce + 1, c, expire))
        /\ SetHandler(l, [pending[l] EXCEPT !.appended = @ + 1])
    BY <1>4, Zenon DEF AcquireDirectly
  <2> QED BY <1>1, <2>4, <2>5, HandledIfLogged, Zenon
<1>5. CASE AcquireWaiting(c, l, expire, p)
  <2>1. InsertNewAcquirement(pending[l], c, expire, now) \in Handler
    BY <1>1, InsertType
  <2> QED BY <1>5, <2>1, HandledRefreshSpecific DEF AcquireWaiting
<1>6. CASE AcquireFails(l, p)
  BY <1>1, <1>6, HandledIfUnlogged DEF AcquireFails, acqVars
<1> QED BY <1>2, <1>3, <1>4, <1>5, <1>6 DEF AcquireDLock, p

LEMMA HandledRefresh ==
    ASSUME LeaseInv, NEW c \in Client, NEW l \in Lock, NEW seq \in Nat,
           RefreshAcquirementBySequence(c, l, seq)
    PROVE  KeepsHandlers
<1> DEFINE p == AppliedIndex
           h1 == AbandonExpiredAcquirement(pending[l], now)
           h2 == RefreshAcquirement(h1, seq, now)
<1>1. TypeOK /\ now \in Nat /\ pending[l] \in Handler
  BY DEF LeaseInv, TypeOK
<1>2. h1 \in Handler
  BY <1>1, AbandonType
<1>3. CASE RefreshLive(c, l, seq, p)
  <2>1. /\ Refreshable(h1, seq, now)
        /\ IF HasState(l, log, p) THEN RefreshSpecificDLock(l, h2, LockState(l, log, p), c)
           ELSE SetHandler(l, h2) /\ UNCHANGED log
    BY <1>3 DEF RefreshLive
  <2> HIDE DEF h1, p
  <2>2. h2 \in Handler
    BY <1>1, <1>2, <2>1, RefreshType
  <2> HIDE DEF h2
  <2>3. CASE HasState(l, log, p)
    BY <2>1, <2>2, <2>3, HandledRefreshSpecific
  <2>4. CASE ~HasState(l, log, p)
    BY <1>1, <2>1, <2>4, HandledIfUnlogged DEF SetHandler
  <2> QED BY <2>3, <2>4
<1>4. CASE RefreshObsolete(l, seq)
  BY <1>1, <1>4, HandledIfUnlogged DEF RefreshObsolete, SetHandler
<1>5. CASE l \notin handled /\ UNCHANGED <<log, acqVars>>
  BY <1>1, <1>5, HandledIfUnlogged DEF acqVars
<1> QED BY <1>3, <1>4, <1>5 DEF RefreshAcquirementBySequence

LEMMA HandledLogRelease ==
    ASSUME LeaseInv, NEW c \in Client, NEW l \in Lock, LogRelease(c, l, AppliedIndex)
    PROVE  KeepsHandlers
<1> DEFINE p == AppliedIndex
           s == LockState(l, log, p)
<1>1. /\ TypeOK /\ log \in Seq(Entry) /\ now \in Nat /\ p \in Nat /\ p <= Len(log)
  BY AppliedIndexProperties DEF LeaseInv, TypeOK
<1>2. HasState(l, log, p)
  BY DEF LogRelease, ReleaseOver, ReleaseLater, ReleaseFails
<1>3. s \in Entry
  BY <1>1, <1>2, StateInLog
<1>4. s.nonce + 1 \in Nat
  <2> HIDE DEF s
  <2> QED BY <1>3 DEF Entry
<1>5. LogEntry(l, s.nonce + 1, NoOwner, 0) \in Entry
  BY <1>1, <1>4, LogEntryType
<1>6. /\ InsertLogEntry(LogEntry(l, s.nonce + 1, NoOwner, 0))
      /\ SetHandler(l, [pending[l] EXCEPT !.appended = @ + 1])
  BY Zenon DEF LogRelease
<1> QED BY <1>1, <1>5, <1>6, HandledIfLogged, Zenon

LEMMA HandledScan ==
    ASSUME LeaseInv, ReleaseExpiredDLockPeriodically
    PROVE  KeepsHandlers
<1> DEFINE p == AppliedIndex
           due == ToRelease(log, p, Scanned(log, p, handled, pending))
<1>1. /\ TypeOK /\ log \in Seq(Entry) /\ \A i \in 1 .. Len(log) : log[i].ts <= now
      /\ p \in Nat /\ p <= Len(log)
  BY AppliedIndexProperties DEF LeaseInv, TypeOK, WellBuilt
<1>2. ScanDLockStateMap(log, p, handled, pending)
  BY DEF ReleaseExpiredDLockPeriodically
<1>3. handled' = handled \cup {l \in Lock : HasState(l, log, p)}
  BY <1>2 DEF ScanDLockStateMap
<1>4. \A l \in due : l \in Lock /\ HasState(l, log, p)
  BY DEF ToRelease
<1> HIDE DEF p
<1>5. \A j \in Len(log) + 1 .. Len(log') : log'[j].lock \in due
  BY <1>1, <1>2, ScanDetails
<1> HIDE DEF due
<1> QED BY <1>3, <1>4, <1>5 DEF KeepsHandlers

LEMMA KeptHandlersExist ==
    ASSUME LeaseInv, HandlerExists, LogStep, KeepsHandlers, inherited' = inherited
    PROVE  HandlerExists'
<1> SUFFICES ASSUME NEW l \in Lock, l \notin handled', NEW i \in 1 .. Len(log'),
                    log'[i].lock = l
             PROVE  i \in inherited
  BY DEF HandlerExists, EntriesOf
<1>1. /\ Len(log) \in Nat /\ Len(log') \in Nat
      /\ \A j \in 1 .. Len(log) : log'[j] = log[j]
  BY LenProperties DEF LeaseInv, TypeOK, LogStep, Continues
<1>2. l \notin handled /\ i \notin Len(log) + 1 .. Len(log')
  BY DEF KeepsHandlers
<1>3. i \in 1 .. Len(log)
  BY <1>1, <1>2
<1> QED BY <1>1, <1>2, <1>3 DEF HandlerExists, EntriesOf

LEMMA LeaderFindsHandlers ==
    ASSUME LeaseInv, NEW length \in committed .. Len(log), NEW known \in 0 .. committed,
           BecomeLeader(length, known)
    PROVE  HandlerExists'
<1> DEFINE lg == SubSeq(log, 1, length)
           p == AppliedUpTo(lg, 0, known)
           hs == [l \in Lock |-> NewHandler(0)]
           due == ToRelease(lg, p, Scanned(lg, p, {}, hs))
<1>1. committed \in Nat /\ Len(log) \in Nat /\ TypeOK
  BY LenProperties DEF LeaseInv, TypeOK
<1>2. known \in Nat /\ length \in 0 .. Len(log) /\ known <= length
  BY <1>1
<1>3. /\ lg \in Seq(Entry) /\ Len(lg) = length /\ \A j \in 1 .. Len(lg) : lg[j].ts <= now
  BY <1>2, PrefixWellBuilt
<1>4. p \in 0 .. known
  BY <1>2, AppliedUpToProperties
<1>5. inherited' = p + 1 .. length /\ ScanDLockStateMap(lg, p, {}, hs)
  BY DEF BecomeLeader
<1> HIDE DEF lg, p, hs
<1>6. handled' = {l \in Lock : HasState(l, lg, p)}
  BY <1>5 DEF ScanDLockStateMap
<1>7. \A l \in due : l \in Lock /\ HasState(l, lg, p)
  BY DEF ToRelease
<1>8. p \in Nat /\ p <= Len(lg)
  BY <1>2, <1>3, <1>4
<1>9. Continues(lg, log') /\ \A j \in Len(lg) + 1 .. Len(log') : log'[j].lock \in due
  <2>1. due = ToRelease(lg, p, Scanned(lg, p, {}, hs))
    OBVIOUS
  <2> HIDE DEF due
  <2> QED BY <1>1, <1>3, <1>5, <1>8, <2>1, ScanDetails
<1> HIDE DEF due
<1>10. /\ Len(log') \in Nat /\ \A i \in 1 .. length : log'[i] = lg[i]
  BY <1>3, <1>9, LenProperties DEF Continues
<1> SUFFICES ASSUME NEW l \in Lock, l \notin handled', NEW i \in 1 .. Len(log'),
                    log'[i].lock = l
             PROVE  i \in inherited'
  BY DEF HandlerExists, EntriesOf
<1>11. l \notin due /\ ~HasState(l, lg, p)
  BY <1>6, <1>7
<1>12. i \in 1 .. length
  BY <1>2, <1>3, <1>9, <1>10, <1>11
<1>13. lg[i].lock = l
  BY <1>10, <1>12
<1>14. i \notin 1 .. p
  BY <1>11, <1>13 DEF HasState, EntriesOf
<1> QED BY <1>2, <1>5, <1>8, <1>12, <1>14

LEMMA HandlerNext ==
    ASSUME LeaseInv, HandlerExists, [Next]_vars
    PROVE  HandlerExists'
<1>1. TypeOK /\ Len(log) \in Nat
  BY LenProperties DEF LeaseInv, TypeOK
<1>2. ASSUME log' = log, handled' = handled, inherited' = inherited
      PROVE  HandlerExists'
  BY <1>2 DEF HandlerExists, EntriesOf
<1>3. ASSUME NEW c \in Client, NEW l \in Lock, ClientRequest(c, l)
      PROVE  HandlerExists'
  <2>1. LogStep
    BY <1>3, RequestLogs
  <2>2. ASSUME NEW expire \in Expires, AcquireDLock(c, l, expire)
        PROVE  KeepsHandlers /\ inherited' = inherited
    BY <2>2, HandledAcquire DEF AcquireDLock
  <2>3. ASSUME NEW seq \in 1 .. Assigned(pending[l]) + 1, RefreshAcquirementBySequence(c, l, seq)
        PROVE  KeepsHandlers /\ inherited' = inherited
    <3>1. seq \in Nat
      OBVIOUS
    <3> QED BY <2>3, <3>1, HandledRefresh DEF RefreshAcquirementBySequence
  <2>4. ASSUME ReleaseDLock(c, l)
        PROVE  KeepsHandlers
    BY <1>1, <2>4, HandledLogRelease, HandledIfUnlogged DEF ReleaseDLock, acqVars
  <2>5. ASSUME PollRelease(c, l)
        PROVE  KeepsHandlers
    BY <1>1, <2>5, HandledLogRelease, HandledIfUnlogged DEF PollRelease, acqVars
  <2>6. ASSUME PollTimeout(c, l)
        PROVE  KeepsHandlers
    BY <1>1, <2>6, HandledIfUnlogged DEF PollTimeout, logVars, acqVars
  <2>7. inherited' = inherited
    BY <1>3, <2>2, <2>3 DEF ClientRequest, ReleaseDLock, PollRelease, PollTimeout
  <2>8. KeepsHandlers
    BY <1>3, <2>2, <2>3, <2>4, <2>5, <2>6 DEF ClientRequest
  <2> QED BY <2>1, <2>7, <2>8, KeptHandlersExist
<1>4. CASE ReleaseExpiredDLockPeriodically
  BY <1>4, PeriodicScanLogs, HandledScan, KeptHandlersExist DEF ReleaseExpiredDLockPeriodically
<1>5. CASE CommitToStateMap \/ Commit \/ Tick \/ UNCHANGED vars
  BY <1>2, <1>5 DEF CommitToStateMap, Commit, Tick, vars, logVars, acqVars
<1>6. ASSUME NEW length \in committed .. Len(log), NEW known \in 0 .. committed,
             BecomeLeader(length, known)
      PROVE  HandlerExists'
  BY <1>6, LeaderFindsHandlers
<1> QED BY <1>3, <1>4, <1>5, <1>6 DEF Next

(* Under every leader, and whatever part of the uncommitted entries of the *)
(* leader before it found: a lock without a handler in PendingAcquire,     *)
(* which ReleaseDLock requires (dlock_interchange.go:335), has only        *)
(* entries that its leader inherited and had not applied.                  *)
THEOREM HandlerAlwaysExists == Spec => []HandlerExists
<1>1. Init => HandlerExists
  <2> SUFFICES ASSUME Init PROVE HandlerExists
    OBVIOUS
  <2>1. Len(log) = 0
    BY EmptySeq DEF Init
  <2> QED BY <2>1 DEF HandlerExists, EntriesOf
<1>2. LeaseInv /\ HandlerExists /\ [Next]_vars => LeaseInv' /\ HandlerExists'
  BY LeaseInvNext, HandlerNext
<1> QED BY <1>1, <1>2, LeaseInvInit, PTL DEF Spec

-----------------------------------------------------------------------------
(* First come, first served *)

Served ==
    \A i \in Len(log) + 1 .. Len(log') :
        log'[i].owner # NoOwner /\ log'[i].lock \in handled =>
            LET waiting == AbandonExpiredAcquirement(pending[log'[i].lock], now).queue
            IN  waiting # <<>> => log'[i].owner = Head(waiting).acquirer

(* A newcomer goes to the end of those who wait. *)
LEMMA InsertKeepsFront ==
    ASSUME NEW h \in Handler, NEW c \in Client, NEW expire \in Nat, NEW t \in Nat,
           AbandonExpiredAcquirement(h, t).queue # <<>>
    PROVE  Head(InsertNewAcquirement(h, c, expire, t).queue)
               = Head(AbandonExpiredAcquirement(h, t).queue)
<1> DEFINE h1 == AbandonExpiredAcquirement(h, t)
           w == [acquirer |-> c, refreshed |-> t, expire |-> expire]
           h2 == [h1 EXCEPT !.queue = Append(@, w)]
<1>1. h1 \in Handler /\ h1.queue # <<>>
  BY AbandonType
<1>2. w \in Waiter
  BY DEF Waiter
<1>3. InsertNewAcquirement(h, c, expire, t) =
        IF \E i \in 1 .. Len(h1.queue) : h1.queue[i].acquirer = c THEN h1 ELSE h2
  BY DEF InsertNewAcquirement
<1> HIDE DEF h1, w
<1>4. h1.queue \in Seq(Waiter) /\ Append(h1.queue, w) \in Seq(Waiter)
  BY <1>1, <1>2, AppendProperties DEF Handler
<1>5. h2.queue = Append(h1.queue, w)
  BY <1>1, <1>4, WithQueue, Zenon
<1>6. Head(Append(h1.queue, w)) = Head(h1.queue)
  BY <1>1, <1>2, <1>4, HeadTailAppend
<1> HIDE DEF h2
<1>7. Head(InsertNewAcquirement(h, c, expire, t).queue) = Head(h1.queue)
  BY <1>3, <1>5, <1>6
<1> QED BY <1>7 DEF h1

LEMMA ServedIfUnchanged ==
    ASSUME TypeOK, UNCHANGED log
    PROVE  Served
<1>1. Len(log) \in Nat
  BY LenProperties DEF TypeOK
<1> QED BY <1>1 DEF Served

LEMMA ServedAppend ==
    ASSUME TypeOK, NEW e \in Entry, InsertLogEntry(e),
           e.owner # NoOwner /\ e.lock \in handled =>
               LET waiting == AbandonExpiredAcquirement(pending[e.lock], now).queue
               IN  waiting # <<>> => e.owner = Head(waiting).acquirer
    PROVE  Served
<1>1. log \in Seq(Entry) /\ Len(log) \in Nat
  BY LenProperties DEF TypeOK
<1>2. Len(log') = Len(log) + 1 /\ log'[Len(log) + 1] = e
  BY <1>1, AppendProperties DEF InsertLogEntry
<1>3. \A j \in Len(log) + 1 .. Len(log') : j = Len(log) + 1
  BY <1>1, <1>2
<1> QED BY <1>2, <1>3 DEF Served

LEMMA ServedRefreshSpecific ==
    ASSUME TypeOK, NEW l \in Lock, NEW h \in Handler, NEW s, NEW c \in Client,
           RefreshSpecificDLock(l, h, s, c),
           LET waiting == AbandonExpiredAcquirement(pending[l], now).queue
           IN  waiting # <<>> => Head(h.queue).acquirer = Head(waiting).acquirer
    PROVE  Served
<1>1. CASE Grantable(h, s, c)
  <2> DEFINE e == LogEntry(l, h.appended + 1, c, Head(h.queue).expire)
  <2>1. h.appended \in Nat /\ h.queue \in Seq(Waiter) /\ h.queue # <<>> /\ Head(h.queue).acquirer = c
    BY <1>1 DEF Grantable, Handler
  <2>2. Head(h.queue).expire \in Nat
    <3>1. Head(h.queue) \in Waiter
      BY <2>1, HeadTailProperties
    <3> QED BY <3>1 DEF Waiter
  <2>3. e \in Entry /\ e.lock = l /\ e.owner = c
    BY <2>1, <2>2, LogEntryType
  <2>4. InsertLogEntry(e)
    BY <1>1 DEF RefreshSpecificDLock
  <2> HIDE DEF e
  <2> QED BY <2>1, <2>3, <2>4, ServedAppend
<1>2. CASE ~Grantable(h, s, c)
  BY <1>2, ServedIfUnchanged DEF RefreshSpecificDLock
<1> QED BY <1>1, <1>2

LEMMA ServedRequest ==
    ASSUME LeaseInv, NEW c \in Client, NEW l \in Lock, ClientRequest(c, l)
    PROVE  Served
<1> DEFINE p == AppliedIndex
           s == LockState(l, log, p)
           waiting == AbandonExpiredAcquirement(pending[l], now).queue
<1>1. /\ TypeOK /\ now \in Nat /\ pending[l] \in Handler /\ log \in Seq(Entry)
      /\ p \in Nat /\ p <= Len(log)
  BY AppliedIndexProperties DEF LeaseInv, TypeOK
<1> HIDE DEF p
<1>2. ASSUME NEW expire \in Expires, AcquireDLock(c, l, expire)
      PROVE  Served
  <2>1. expire \in Nat
    BY TimeAssumption
  <2>2. CASE AcquireFirst(c, l, expire, p)
    <3> DEFINE e == LogEntry(l, 1, c, expire)
    <3>1. e \in Entry /\ e.lock = l
      BY <1>1, <2>1, LogEntryType
    <3>2. InsertLogEntry(e) /\ l \notin handled
      BY <2>2 DEF AcquireFirst
    <3> HIDE DEF e
    <3> QED BY <1>1, <3>1, <3>2, ServedAppend
  <2>3. CASE AcquireBehindFirst(c, l, expire, p)
    BY <1>1, <2>3, ServedIfUnchanged DEF AcquireBehindFirst
  <2>4. CASE AcquireDirectly(c, l, expire, p)
    <3> DEFINE e == LogEntry(l, s.nonce + 1, c, expire)
    <3>1. HasState(l, log, p) /\ pending[l].queue = <<>> /\ InsertLogEntry(e)
      BY <2>4 DEF AcquireDirectly, DirectlyFree
    <3>2. waiting = <<>>
      BY <1>1, <3>1, AbandonType
    <3>3. s \in Entry
      BY <1>1, <3>1, StateInLog
    <3>4. e \in Entry /\ e.lock = l
      <4>1. s.nonce + 1 \in Nat
        BY <3>3 DEF Entry
      <4> HIDE DEF s
      <4> QED BY <1>1, <2>1, <4>1 DEF LogEntry, Entry
    <3> HIDE DEF e
    <3> QED BY <1>1, <3>1, <3>2, <3>4, ServedAppend
  <2>5. CASE AcquireWaiting(c, l, expire, p)
    <3> DEFINE h == InsertNewAcquirement(pending[l], c, expire, now)
    <3>1. h \in Handler /\ RefreshSpecificDLock(l, h, s, c)
      BY <1>1, <2>1, <2>5, InsertType DEF AcquireWaiting
    <3>2. waiting # <<>> => Head(h.queue) = Head(waiting)
      BY <1>1, <2>1, InsertKeepsFront
    <3> HIDE DEF h, s
    <3> QED BY <1>1, <3>1, <3>2, ServedRefreshSpecific
  <2>6. CASE AcquireFails(l, p)
    BY <1>1, <2>6, ServedIfUnchanged DEF AcquireFails
  <2> QED BY <1>2, <2>2, <2>3, <2>4, <2>5, <2>6 DEF AcquireDLock, p
<1>3. ASSUME NEW seq \in 1 .. Assigned(pending[l]) + 1, RefreshAcquirementBySequence(c, l, seq)
      PROVE  Served
  <2> DEFINE h1 == AbandonExpiredAcquirement(pending[l], now)
             h2 == RefreshAcquirement(h1, seq, now)
  <2>1. seq \in Nat /\ h1 \in Handler
    BY <1>1, AbandonType
  <2>2. CASE RefreshLive(c, l, seq, p)
    <3>1. /\ Refreshable(h1, seq, now)
          /\ RefreshSpecificDLock(l, h2, s, c) \/ UNCHANGED log
      BY <2>2 DEF RefreshLive
    <3>2. waiting = h1.queue
      OBVIOUS
    <3> HIDE DEF h1
    <3>3. h2 \in Handler /\ Head(h2.queue).acquirer = Head(h1.queue).acquirer
      BY <1>1, <2>1, <3>1, RefreshType
    <3> HIDE DEF h2, s
    <3> QED BY <1>1, <3>1, <3>2, <3>3, ServedRefreshSpecific, ServedIfUnchanged
  <2>3. CASE RefreshObsolete(l, seq)
    BY <1>1, <2>3, ServedIfUnchanged DEF RefreshObsolete
  <2>4. CASE UNCHANGED log
    BY <1>1, <2>4, ServedIfUnchanged
  <2> QED BY <1>3, <2>2, <2>3, <2>4 DEF RefreshAcquirementBySequence, p
<1>4. ASSUME LogRelease(c, l, p)
      PROVE  Served
  <2> DEFINE e == LogEntry(l, s.nonce + 1, NoOwner, 0)
  <2>1. HasState(l, log, p)
    BY <1>1, <1>4, LogReleaseStep
  <2>2. s \in Entry
    BY <1>1, <2>1, StateInLog
  <2>3. e \in Entry /\ e.owner = NoOwner
    <3>1. s.nonce + 1 \in Nat
      BY <2>2 DEF Entry
    <3> HIDE DEF s
    <3> QED BY <1>1, <3>1 DEF LogEntry, Entry
  <2>4. InsertLogEntry(e)
    BY <1>4 DEF LogRelease
  <2> HIDE DEF e
  <2> QED BY <1>1, <2>3, <2>4, ServedAppend
<1>5. CASE ReleaseDLock(c, l)
  BY <1>1, <1>4, <1>5, ServedIfUnchanged DEF ReleaseDLock, p
<1>6. CASE PollRelease(c, l)
  BY <1>1, <1>4, <1>6, ServedIfUnchanged DEF PollRelease, p
<1>7. CASE PollTimeout(c, l)
  BY <1>1, <1>7, ServedIfUnchanged DEF PollTimeout, logVars
<1> QED BY <1>2, <1>3, <1>5, <1>6, <1>7 DEF ClientRequest

(* A scan logs releases only. *)
LEMMA ServedScan ==
    ASSUME TypeOK, NEW lg \in Seq(Entry), \A i \in 1 .. Len(lg) : lg[i].ts <= now,
           Len(lg) <= Len(log), NEW p \in Nat, p <= Len(lg), NEW hd, NEW hs,
           ScanDLockStateMap(lg, p, hd, hs)
    PROVE  Served
<1> DEFINE due == ToRelease(lg, p, Scanned(lg, p, hd, hs))
<1>1. \A j \in Len(lg) + 1 .. Len(log') : \E l \in due : log'[j] = ReleaseOf(l, lg, p)
  <2>1. due = ToRelease(lg, p, Scanned(lg, p, hd, hs))
    OBVIOUS
  <2> HIDE DEF due
  <2> QED BY <2>1, ScanDetails
<1>2. \A l : ReleaseOf(l, lg, p).owner = NoOwner
  BY DEF ReleaseOf, LogEntry
<1>3. Len(lg) \in Nat /\ Len(log) \in Nat
  BY LenProperties DEF TypeOK
<1>4. ASSUME NEW i \in Len(log) + 1 .. Len(log')
      PROVE  log'[i].owner = NoOwner
  <2>1. i \in Len(lg) + 1 .. Len(log')
    BY <1>3
  <2> HIDE DEF due
  <2> QED BY <1>1, <1>2, <2>1
<1> QED BY <1>4 DEF Served

(* First come, first served, under every leader: AcquireDLock and          *)
(* refreshSpecificDLock grant a lock to nobody but the first in its list.  *)
THEOREM ServedInOrder == Spec => FirstComeFirstServed
<1>1. ASSUME LeaseInv, Next
      PROVE  Served
  <2>1. TypeOK /\ log \in Seq(Entry) /\ \A i \in 1 .. Len(log) : log[i].ts <= now
    BY <1>1 DEF LeaseInv, TypeOK, WellBuilt
  <2>2. CASE ReleaseExpiredDLockPeriodically
    <3>1. AppliedIndex \in Nat /\ AppliedIndex <= Len(log) /\ Len(log) <= Len(log)
      BY <1>1, <2>1, AppliedIndexProperties, LenProperties
    <3> QED BY <2>1, <2>2, <3>1, ServedScan DEF ReleaseExpiredDLockPeriodically
  <2>3. ASSUME NEW length \in committed .. Len(log), NEW known \in 0 .. committed,
               BecomeLeader(length, known)
        PROVE  Served
    <3> DEFINE lg == SubSeq(log, 1, length)
               p == AppliedUpTo(lg, 0, known)
               hs == [l \in Lock |-> NewHandler(0)]
    <3>1. /\ known \in Nat /\ length \in 0 .. Len(log) /\ known <= length /\ Len(log) \in Nat
      BY <1>1, <2>1, LenProperties DEF LeaseInv, TypeOK
    <3>2. /\ lg \in Seq(Entry) /\ Len(lg) = length
          /\ \A i \in 1 .. Len(lg) : lg[i].ts <= now
      BY <1>1, <3>1, PrefixWellBuilt
    <3>3. p \in 0 .. known
      BY <3>1, AppliedUpToProperties
    <3>4. ScanDLockStateMap(lg, p, {}, hs)
      BY <2>3 DEF BecomeLeader
    <3> HIDE DEF lg, p, hs
    <3>5. Len(lg) <= Len(log) /\ p \in Nat /\ p <= Len(lg)
      BY <3>1, <3>2, <3>3
    <3> QED BY <2>1, <3>2, <3>4, <3>5, ServedScan
  <2>4. CASE UNCHANGED log
    BY <2>1, <2>4, ServedIfUnchanged
  <2> QED BY <1>1, <2>2, <2>3, <2>4, ServedRequest
          DEF Next, CommitToStateMap, Commit, Tick, logVars
<1>2. ASSUME LeaseInv, [Next]_vars
      PROVE  [Served]_vars
  BY <1>1, <1>2
<1>3. Spec => [][Served]_vars
  BY <1>2, LeaseInvInit, LeaseInvNext, PTL DEF Spec
<1> QED BY <1>3 DEF FirstComeFirstServed, Served
=============================================================================
