-------------------------- MODULE DLockInterchange --------------------------
(***************************************************************************)
(* The lock service of the leader: the volatile acquirement lists          *)
(* (dlock_interchange.go, dlock_acquirement.go), the lock state map they   *)
(* are checked against (statemap_memory_impl.go), the commit procedure     *)
(* that feeds it (node.go) and the two gRPC services that use them         *)
(* (clisrv_server.go).  Every action is one critical section of the node   *)
(* mutex and carries the time.Now() it reads.                              *)
(*                                                                         *)
(* Consensus is abstract here, and correct: entries are committed in order *)
(* (Commit), and a new leader (BecomeLeader) has all committed entries,    *)
(* perhaps some uncommitted ones, and may not know yet that its last       *)
(* entries are committed.                                                  *)
(*                                                                         *)
(* The lock state map is the log up to prevIndex, the field of             *)
(* StateMapMemory: see module StateMap, and StateMapReplay for why.        *)
(* Entries of the key-value store only move prevIndex and are left out.    *)
(***************************************************************************)
EXTENDS StateMap, FiniteSets

CONSTANTS
    Lock, Client,
    NoOwner,             \* the empty owner of a released lock
    Expires,             \* lease durations clients ask for
    AcquirementExpire,   \* how long a waiting acquirement lives unrefreshed
    \* bounds of the model
    MaxTime,             \* the clock stops here
    MaxLog,              \* no entry beyond this index
    MaxTakeovers         \* changes of leader after the first

ASSUME LockAssumption == NoOwner \notin Client

ASSUME TimeAssumption ==
    /\ Expires \subseteq Nat
    /\ {AcquirementExpire, MaxTime, MaxLog, MaxTakeovers} \subseteq Nat

VARIABLES
    now,                 \* the clock
    log,                 \* LogMemory of the leader
    commitIndex, lastApplied,
    prevIndex,           \* how far the state map got
    handled,             \* the locks that have an entry in PendingAcquire
    pending,             \* their DlockVolatileAcquirement
    polls,               \* ReleaseDLockService loops: lock and applicant
    hung,                \* ReleaseDLockService returned with the mutex locked
    committed,           \* what some leader has committed
    takeovers,
    inherited            \* history: what the leader found in its log, not applied

logVars == <<log, commitIndex, committed>>
mapVars == <<lastApplied, prevIndex>>
acqVars == <<handled, pending>>
vars == <<now, logVars, mapVars, acqVars, polls, hung, takeovers, inherited>>

(* A CommandDLock in the log, also a DlockState of the state map. *)
Entry == [lock : Lock, nonce : Nat, owner : Client \cup {NoOwner},
          ts : Nat, expire : Nat]

(* DlockAcquirementInfo; "expire" is the lease its command asks for. *)
Waiter == [acquirer : Client, refreshed : Nat, expire : Nat]

(* DlockVolatileAcquirement: lastProcessedAcquirement, LastAppendedNonce   *)
(* and the acquirements processed+1 .. lastAssignedAcquirement in order.   *)
Handler == [processed : Nat, appended : Nat, queue : Seq(Waiter)]

(* What kind of value every variable holds. *)
TypeOK ==
    /\ now \in Nat
    /\ log \in Seq(Entry)
    /\ commitIndex \in Nat /\ committed \in Nat
    /\ lastApplied \in Nat /\ prevIndex \in Nat
    /\ handled \subseteq Lock
    /\ pending \in [Lock -> Handler]
    /\ polls \subseteq Lock \X Client
    /\ hung \in BOOLEAN
    /\ takeovers \in Nat
    /\ inherited \subseteq Nat

-----------------------------------------------------------------------------
(* The commit procedure *)

(* The map's prevIndex after commitProcedure.  LastAppliedIndex moves to   *)
(* the commit index also when the map stopped earlier; from then on the    *)
(* start index never fits and the map refuses everything.                  *)
AppliedIndex ==
    IF prevIndex = lastApplied THEN AppliedUpTo(log, prevIndex, commitIndex)
    ELSE prevIndex

CommitProcedure ==
    /\ prevIndex' = AppliedIndex
    /\ lastApplied' = commitIndex

-----------------------------------------------------------------------------
(* DlockVolatileAcquirement *)

NewHandler(nonce) == [processed |-> 0, appended |-> nonce, queue |-> <<>>]

Assigned(h) == h.processed + Len(h.queue)

Outdated(w, t) == w.refreshed + AcquirementExpire < t

(* AbandonExpiredAcquirement: drops expired acquirements from the front,   *)
(* up to the first that is not expired.                                    *)
AbandonExpiredAcquirement(h, t) ==
    LET gone == LastOf({k \in 0 .. Len(h.queue) :
                           \A i \in 1 .. k : Outdated(h.queue[i], t)})
    IN  [h EXCEPT !.processed = @ + gone,
                  !.queue = SubSeq(@, gone + 1, Len(@))]

\* mutant: the time stored is the one before which it would have expired
InsertNewAcquirementBackdated(h, c, expire, t) ==
    LET h1 == AbandonExpiredAcquirement(h, t)
    IN  IF \E i \in 1 .. Len(h1.queue) : h1.queue[i].acquirer = c THEN h1
        ELSE [h1 EXCEPT !.queue =
                 Append(@, [acquirer |-> c, refreshed |-> t - AcquirementExpire,
                            expire |-> expire])]

(* InsertNewAcquirement: an acquirer that already waits keeps its place.   *)
InsertNewAcquirement(h, c, expire, t) ==
    LET h1 == AbandonExpiredAcquirement(h, t)
    IN  IF \E i \in 1 .. Len(h1.queue) : h1.queue[i].acquirer = c THEN h1
        ELSE [h1 EXCEPT !.queue =
                 Append(@, [acquirer |-> c, refreshed |-> t, expire |-> expire])]

(* RefreshAcquirement of sequence number seq, when it is still waiting. *)
Refreshable(h, seq, t) ==
    /\ seq \in h.processed + 1 .. Assigned(h)
    /\ ~Outdated(h.queue[seq - h.processed], t)

RefreshAcquirement(h, seq, t) ==
    [h EXCEPT !.queue[seq - h.processed].refreshed = t]

-----------------------------------------------------------------------------
(* Logging lock commands *)

LogEntry(l, nonce, owner, expire) ==
    [lock |-> l, nonce |-> nonce, owner |-> owner, ts |-> now, expire |-> expire]

InsertLogEntry(e) ==
    /\ Len(log) < MaxLog
    /\ log' = Append(log, e)

(* The handler of l becomes h. *)
SetHandler(l, h) ==
    /\ handled' = handled \cup {l}
    /\ pending' = [pending EXCEPT ![l] = h]

\* mutant: an entry on its way is not waited for
GrantableAtOnce(h, s, c) ==
    /\ s.ts + s.expire <= now
    /\ h.queue # <<>>
    /\ Head(h.queue).acquirer = c

(* refreshSpecificDLock for a lock with handler h (its expired waiters     *)
(* just abandoned) and state s: if the lease is over and no entry is on    *)
(* its way, and c is the first in the list, its acquirement is logged.     *)
Grantable(h, s, c) ==
    /\ s.ts + s.expire <= now
    /\ h.appended <= s.nonce
    /\ h.queue # <<>>
    /\ Head(h.queue).acquirer = c

RefreshSpecificDLock(l, h, s, c) ==
    IF Grantable(h, s, c)
    THEN /\ InsertLogEntry(LogEntry(l, h.appended + 1, c, Head(h.queue).expire))
         /\ SetHandler(l, [processed |-> h.processed + 1,
                           appended |-> h.appended + 1,
                           queue |-> Tail(h.queue)])
    ELSE /\ SetHandler(l, h)
         /\ UNCHANGED log

(* scanDLockStateMap over the map at index p, for handlers hs of the locks *)
(* in hd: locks without handler get one, expired waiters go, and a lock    *)
(* that is held, expired and has no entry on its way is to be released.    *)
Scanned(lg, p, hd, hs) ==
    [l \in Lock |->
        IF ~HasState(l, lg, p) THEN hs[l]
        ELSE IF l \in hd THEN AbandonExpiredAcquirement(hs[l], now)
        ELSE NewHandler(LockState(l, lg, p).nonce)]

\* mutants: an entry on its way is not waited for; only awaited locks are released
ToReleaseAtOnce(lg, p, hs) ==
    {l \in Lock :
        /\ HasState(l, lg, p)
        /\ LET s == LockState(l, lg, p)
           IN  s.ts + s.expire < now /\ s.owner # NoOwner}

ToReleaseAwaited(lg, p, hs) ==
    {l \in Lock :
        /\ HasState(l, lg, p)
        /\ hs[l].queue # <<>>
        /\ LET s == LockState(l, lg, p)
           IN  /\ hs[l].appended <= s.nonce
               /\ s.ts + s.expire < now
               /\ s.owner # NoOwner}

ToRelease(lg, p, hs) ==
    {l \in Lock :
        /\ HasState(l, lg, p)
        /\ LET s == LockState(l, lg, p)
           IN  /\ hs[l].appended <= s.nonce
               /\ s.ts + s.expire < now
               /\ s.owner # NoOwner}

(* LastAppendedNonce counts every logged release. *)
CountReleases(hs, due) ==
    [l \in Lock |-> IF l \in due THEN [hs[l] EXCEPT !.appended = @ + 1] ELSE hs[l]]

(* The order of a Go map range: any. *)
Orders(S) == {q \in [1 .. Cardinality(S) -> S] : \A i, j \in DOMAIN q : q[i] = q[j] => i = j}

ScanDLockStateMap(lg, p, hd, hs) ==
    LET hs1 == Scanned(lg, p, hd, hs)
        due == ToRelease(lg, p, hs1)
        release(l) == LogEntry(l, LockState(l, lg, p).nonce + 1, NoOwner, 0)
    IN
    /\ Len(lg) + Cardinality(due) <= MaxLog
    /\ handled' = hd \cup {l \in Lock : HasState(l, lg, p)}
    /\ pending' = CountReleases(hs1, due)
    /\ \E order \in Orders(due) : log' = lg \o [i \in DOMAIN order |-> release(order[i])]

-----------------------------------------------------------------------------
(* AcquireDLockService with sequence 0: AcquireDLock.  Here and below p is  *)
(* the index of the state map after commitProcedure, which runs first.      *)

\* mutant: no handler is kept
AcquireFirstUnhandled(c, l, expire, p) ==
    /\ ~HasState(l, log, p)
    /\ l \notin handled
    /\ InsertLogEntry(LogEntry(l, 1, c, expire))
    /\ UNCHANGED acqVars

(* case 1: the map has no such lock.  Without a handler the lock is        *)
(* created; with one (its first entry is on its way) the client waits.     *)
AcquireFirst(c, l, expire, p) ==
    /\ ~HasState(l, log, p)
    /\ l \notin handled
    /\ InsertLogEntry(LogEntry(l, 1, c, expire))
    /\ SetHandler(l, NewHandler(1))

AcquireBehindFirst(c, l, expire, p) ==
    /\ ~HasState(l, log, p)
    /\ l \in handled
    /\ SetHandler(l, InsertNewAcquirement(pending[l], c, expire, now))
    /\ UNCHANGED log

\* mutant: waiting clients are overlooked
DirectlyFreeUnqueued(h, s) ==
    /\ h.appended = s.nonce
    /\ s.ts + s.expire < now

(* case 2: nobody waits, nothing is on its way and the lease is over. *)
DirectlyFree(h, s) ==
    /\ h.appended = s.nonce
    /\ h.queue = <<>>
    /\ s.ts + s.expire < now

\* mutant: LastAppendedNonce is not refreshed
AcquireDirectlyUncounted(c, l, expire, p) ==
    LET s == LockState(l, log, p)
    IN
    /\ HasState(l, log, p)
    /\ l \in handled
    /\ DirectlyFree(pending[l], s)
    /\ InsertLogEntry(LogEntry(l, s.nonce + 1, c, expire))
    /\ UNCHANGED acqVars

AcquireDirectly(c, l, expire, p) ==
    LET s == LockState(l, log, p)
    IN
    /\ HasState(l, log, p)
    /\ l \in handled
    /\ DirectlyFree(pending[l], s)
    /\ InsertLogEntry(LogEntry(l, s.nonce + 1, c, expire))
    /\ SetHandler(l, [pending[l] EXCEPT !.appended = @ + 1])

(* case 3: wait in the list, then see whether the lock can be had at once. *)
MustWait(h, s) ==
    h.appended > s.nonce \/ h.queue # <<>> \/ s.ts + s.expire >= now

AcquireWaiting(c, l, expire, p) ==
    LET s == LockState(l, log, p)
    IN
    /\ HasState(l, log, p)
    /\ l \in handled
    /\ ~DirectlyFree(pending[l], s)
    /\ MustWait(pending[l], s)
    /\ RefreshSpecificDLock(l, InsertNewAcquirement(pending[l], c, expire, now), s, c)

(* EmptyDLockVolatileAcquirementError and AcquireDLockUnexpectedError. *)
AcquireFails(l, p) ==
    LET s == LockState(l, log, p)
    IN
    /\ HasState(l, log, p)
    /\ l \in handled => ~DirectlyFree(pending[l], s) /\ ~MustWait(pending[l], s)
    /\ UNCHANGED <<log, acqVars>>

AcquireDLock(c, l, expire) ==
    LET p == AppliedIndex
    IN
    /\ ~hung
    /\ CommitProcedure
    /\ \/ AcquireFirst(c, l, expire, p) \/ AcquireBehindFirst(c, l, expire, p)
       \/ AcquireDirectly(c, l, expire, p) \/ AcquireWaiting(c, l, expire, p)
       \/ AcquireFails(l, p)
    /\ UNCHANGED <<now, commitIndex, committed, polls, hung, takeovers, inherited>>

-----------------------------------------------------------------------------
(* AcquireDLockService with a sequence number: RefreshAcquirementBySequence *)

RefreshLive(c, l, seq, p) ==
    LET h1 == AbandonExpiredAcquirement(pending[l], now)
        h2 == RefreshAcquirement(h1, seq, now)
    IN
    /\ l \in handled
    /\ Refreshable(h1, seq, now)
    /\ IF HasState(l, log, p)
       THEN RefreshSpecificDLock(l, h2, LockState(l, log, p), c)
       ELSE SetHandler(l, h2) /\ UNCHANGED log

(* The sequence number was processed, abandoned or has expired. *)
RefreshObsolete(l, seq) ==
    LET h1 == AbandonExpiredAcquirement(pending[l], now)
    IN
    /\ l \in handled
    /\ ~Refreshable(h1, seq, now)
    /\ SetHandler(l, h1)
    /\ UNCHANGED log

RefreshAcquirementBySequence(c, l, seq) ==
    LET p == AppliedIndex
    IN
    /\ ~hung
    /\ CommitProcedure
    /\ \/ RefreshLive(c, l, seq, p) \/ RefreshObsolete(l, seq)
       \/ l \notin handled /\ UNCHANGED <<log, acqVars>>
    /\ UNCHANGED <<now, commitIndex, committed, polls, hung, takeovers, inherited>>

-----------------------------------------------------------------------------
(* ReleaseDLockService *)

(* The four results of ReleaseDLock, after commitProcedure; its error is   *)
(* a held lock without a handler.                                          *)
ReleaseOver(c, l, p) ==
    IF HasState(l, log, p)
    THEN LockState(l, log, p).owner # c
    ELSE l \notin handled \/ pending[l].appended = 0

ReleaseLater(c, l, p) ==
    /\ ~ReleaseOver(c, l, p)
    /\ l \in handled
    /\ HasState(l, log, p) =>
          pending[l].appended > LockState(l, log, p).nonce

ReleaseFails(c, l, p) == ~ReleaseOver(c, l, p) /\ l \notin handled

LogRelease(c, l, p) ==
    /\ ~ReleaseOver(c, l, p) /\ ~ReleaseLater(c, l, p) /\ ~ReleaseFails(c, l, p)
    /\ InsertLogEntry(LogEntry(l, LockState(l, log, p).nonce + 1, NoOwner, 0))
    /\ SetHandler(l, [pending[l] EXCEPT !.appended = @ + 1])

(* The request: an error of ReleaseDLock returns without unlocking.  A     *)
(* release that has to come later leaves a loop that polls; two loops of   *)
(* one client for one lock do the same and are one.                        *)
ReleaseDLock(c, l) ==
    LET p == AppliedIndex
    IN
    /\ ~hung
    /\ CommitProcedure
    /\ \/ LogRelease(c, l, p) /\ UNCHANGED <<polls, hung>>
       \/ ReleaseOver(c, l, p) /\ UNCHANGED <<log, acqVars, polls, hung>>
       \/ /\ ReleaseLater(c, l, p)
          /\ polls' = polls \cup {<<l, c>>}
          /\ UNCHANGED <<log, acqVars, hung>>
       \/ ReleaseFails(c, l, p) /\ hung' = TRUE /\ UNCHANGED <<log, acqVars, polls>>
    /\ UNCHANGED <<now, commitIndex, committed, takeovers, inherited>>

(* A poll: ends unless the release still has to come later. *)
PollRelease(c, l) ==
    LET p == AppliedIndex
    IN
    /\ ~hung
    /\ <<l, c>> \in polls
    /\ CommitProcedure
    /\ \/ LogRelease(c, l, p) /\ polls' = polls \ {<<l, c>>}
       \/ /\ ReleaseOver(c, l, p) \/ ReleaseFails(c, l, p)
          /\ polls' = polls \ {<<l, c>>}
          /\ UNCHANGED <<log, acqVars>>
       \/ ReleaseLater(c, l, p) /\ UNCHANGED <<log, acqVars, polls>>
    /\ UNCHANGED <<now, commitIndex, committed, hung, takeovers, inherited>>

(* StateChangeTimeout. *)
PollTimeout(c, l) ==
    /\ <<l, c>> \in polls
    /\ polls' = polls \ {<<l, c>>}
    /\ UNCHANGED <<now, logVars, mapVars, acqVars, hung, takeovers, inherited>>

-----------------------------------------------------------------------------
(* Background goroutines, consensus and time *)

ReleaseExpiredDLockPeriodically ==
    /\ ~hung
    /\ CommitProcedure
    /\ ScanDLockStateMap(log, AppliedIndex, handled, pending)
    /\ UNCHANGED <<now, commitIndex, committed, polls, hung, takeovers, inherited>>

CommitToStateMap ==
    /\ ~hung
    /\ commitIndex > lastApplied
    /\ CommitProcedure
    /\ UNCHANGED <<now, logVars, acqVars, polls, hung, takeovers, inherited>>

(* Consensus: the leader learns that a majority has more of its entries. *)
Commit ==
    /\ ~hung
    /\ commitIndex' \in commitIndex + 1 .. Len(log)
    /\ committed' = IF commitIndex' > committed THEN commitIndex' ELSE committed
    /\ UNCHANGED <<now, log, mapVars, acqVars, polls, hung, takeovers, inherited>>

(* Another node becomes leader.  It has all committed entries, the first   *)
(* "length" entries of the leader before it, and knows of the first        *)
(* "known" ones that they are committed; BecomeLeader creates a new        *)
(* interchange and InitFromDLockStateMap scans the map.  The uncommitted   *)
(* entries of a leader before the last one do not come back here.  The     *)
(* release loops of the old leader (polls) end with their connections.     *)
BecomeLeader(length, known) ==
    LET lg == SubSeq(log, 1, length)
        p  == AppliedUpTo(lg, 0, known)
    IN
    /\ takeovers < MaxTakeovers
    /\ takeovers' = takeovers + 1
    /\ inherited' = p + 1 .. length
    /\ commitIndex' = known
    /\ lastApplied' = known
    /\ prevIndex' = p
    /\ ScanDLockStateMap(lg, p, {}, [l \in Lock |-> NewHandler(0)])
    /\ polls' = {}
    /\ hung' = FALSE
    /\ UNCHANGED <<now, committed>>

Tick ==
    /\ now < MaxTime
    /\ now' = now + 1
    /\ UNCHANGED <<logVars, mapVars, acqVars, polls, hung, takeovers, inherited>>

-----------------------------------------------------------------------------
Init ==
    /\ now = 0
    /\ log = <<>>
    /\ commitIndex = 0 /\ committed = 0
    /\ lastApplied = 0 /\ prevIndex = 0
    /\ handled = {}
    /\ pending = [l \in Lock |-> NewHandler(0)]
    /\ polls = {}
    /\ hung = FALSE
    /\ takeovers = 0
    /\ inherited = {}

ClientRequest(c, l) ==
    \/ \E expire \in Expires : AcquireDLock(c, l, expire)
    \/ \E seq \in 1 .. Assigned(pending[l]) + 1 : RefreshAcquirementBySequence(c, l, seq)
    \/ ReleaseDLock(c, l)
    \/ PollRelease(c, l)
    \/ PollTimeout(c, l)

Next ==
    \/ \E c \in Client, l \in Lock : ClientRequest(c, l)
    \/ ReleaseExpiredDLockPeriodically
    \/ CommitToStateMap
    \/ Commit
    \/ \E length \in committed .. Len(log), known \in 0 .. committed :
          BecomeLeader(length, known)
    \/ Tick

Spec == Init /\ [][Next]_vars

(* The background goroutines keep running and time passes.  Nothing is     *)
(* assumed of clients.                                                     *)
Fairness ==
    /\ WF_vars(Tick)
    /\ WF_vars(Commit)
    /\ WF_vars(ReleaseExpiredDLockPeriodically)

FairSpec == Spec /\ Fairness

-----------------------------------------------------------------------------
(* Properties.  The next three are about one leadership: a leader that     *)
(* inherits uncommitted entries breaks each of them.                       *)

FirstLeadership == takeovers = 0

(* Every entry in the log continues the nonces of its lock, so the state   *)
(* map will accept it: LastAppendedNonce keeps the leader from logging two *)
(* entries with one nonce (dlock_acquirement.go:29).                       *)
NoncesConsecutive == FirstLeadership => \A i \in 1 .. Len(log) : Accepted(log, i)

(* At most one entry of a lock is in the log and not committed             *)
(* (dlock_interchange.go:193), whoever acquires, refreshes, releases and   *)
(* scans concurrently.                                                     *)
OneEntryOnItsWay ==
    FirstLeadership =>
        \A l \in Lock, i, j \in commitIndex + 1 .. Len(log) :
            log[i].lock = l /\ log[j].lock = l => i = j

(* LastAppliedIndex is the last index applied to the state map             *)
(* (node_context.go:26): the map never stops for good.                     *)
MapKeepsUp == FirstLeadership => prevIndex = lastApplied

(* Under every leader, a lock without an acquirement handler has no entry  *)
(* in the log but those its leader found there and had not applied: who    *)
(* logs a command for a lock, and who finds the lock in the map, leaves it *)
(* a handler.  "If dlock state is not nil, there should be an acquirement  *)
(* handler" (dlock_interchange.go:335) is thus wrong of inherited entries  *)
(* only, until a scan comes, and right of every first leader.              *)
HandlerExists ==
    \A l \in Lock : l \notin handled => EntriesOf(l, log, Len(log)) \subseteq inherited

(* No release request leaves the mutex of the node locked, as it would if  *)
(* a lock in the map had no handler (clisrv_server.go:409, and             *)
(* dlock_interchange.go:335: "if dlock state is not nil, there should be   *)
(* an acquirement handler").  It fails when a leader applies an entry it   *)
(* inherited and the release comes before the next scan: dlock_hang.cfg.   *)
NeverHung == ~hung

(* Mutual exclusion by lease: in what the state map has applied, a lock is *)
(* granted only when the lease of the entry before has run out or its      *)
(* holder has released (a release has lease 0).  It holds across changes   *)
(* of leader, because the map refuses the second of two entries built on   *)
(* the same state.                                                         *)
LeaseRespected ==
    \A i \in 1 .. prevIndex :
        log[i].owner # NoOwner /\ HasState(log[i].lock, log, i - 1) =>
            LET before == LockState(log[i].lock, log, i - 1)
            IN  before.ts + before.expire <= log[i].ts

(* The committed entries that every state map accepts, and the states they *)
(* give a lock, in their order.                                            *)
Durable == AppliedUpTo(log, 0, committed)

DurableHistory(l) ==
    LET count(k) == Cardinality(EntriesOf(l, log, k))
    IN  [n \in 1 .. count(Durable) |->
            log[CHOOSE i \in EntriesOf(l, log, Len(log)) : count(i) = n]]

Abstract == INSTANCE LeaseLock WITH history <- [l \in Lock |-> DurableHistory(l)]

(* The service implements the abstract lease lock: whatever leaders come   *)
(* and go, whatever they inherit and forget, the committed states of a     *)
(* lock only grow, by grants after the lease before and releases of a held *)
(* lock, with consecutive nonces.                                          *)
ImplementsLeaseLock == Abstract!Spec

(* First come, first served (README.md:261): when a lock is granted while  *)
(* clients wait that have kept their acquirement alive, the one that has   *)
(* waited longest gets it, under every leader.                             *)
FirstComeFirstServed ==
    [][\A i \in Len(log) + 1 .. Len(log') :
          log'[i].owner # NoOwner /\ log'[i].lock \in handled =>
             LET waiting == AbandonExpiredAcquirement(pending[log'[i].lock], now).queue
             IN  waiting # <<>> => log'[i].owner = Head(waiting).acquirer]_vars

(* A held lock whose lease ends before the clock stops is released or      *)
(* passed on, unless the log is full or the leader hangs: the cluster      *)
(* releases expired locks by itself (README.md:251).                       *)
Held(l, n) ==
    /\ HasState(l, log, prevIndex)
    /\ LET s == LockState(l, log, prevIndex)
       IN  s.nonce = n /\ s.owner # NoOwner /\ s.ts + s.expire < MaxTime

ExpiredLockComesFree ==
    \A l \in Lock : \A n \in 1 .. MaxLog :
        Held(l, n) ~> (~Held(l, n) \/ Len(log) = MaxLog \/ hung)
=============================================================================
