---------------------------- MODULE DLockClient ----------------------------
(***************************************************************************)
(* The client library (dlock_raft_client_API.go over clisrv_client.go) on  *)
(* top of the lock service.  A client is in at most one call and sends one *)
(* gRPC request at a time: a request that is served and answered is one    *)
(* step of client and leader together.  A client may give up at any time   *)
(* (its timer, a deadline of gRPC, a broken connection); a request it has  *)
(* sent may still be served at any time later, and its answer is lost.     *)
(*                                                                         *)
(* The first request of a call goes to any node.  One that does not lead   *)
(* redirects it, with no effect but the time it takes, so a call begins at *)
(* the leader.  The rest of the call stays with that node: a call that is  *)
(* in progress when the leader changes is not followed further.  It may    *)
(* return false, but also true, because a node that does not lead answers  *)
(* queries too, and the library does not compare the owner.                *)
(***************************************************************************)
EXTENDS DLockInterchange

CONSTANT MaxLate         \* bound: kinds of late requests, over all clients

ASSUME LateAssumption == MaxLate \in Nat

VARIABLES
    call,                \* the API call each client is in
    \* histories, read by no guard but MaxLate:
    outcome,             \* what the client's last call returned, if true
    late                 \* the clients that had a request served after they
                         \* gave up on it, and which: "acquire" (also for
                         \* its refreshes) or "release"

clientVars == <<call, outcome, late>>
clientSystemVars == <<vars, clientVars>>

-----------------------------------------------------------------------------
(* The phases of AcquireDLock and ReleaseDLock *)

Idle == [phase |-> "idle"]

(* request.Sequence # 0: the acquirement waits. *)
Refreshing(l, seq) == [phase |-> "refresh", lock |-> l, seq |-> seq]

(* startQueryTag, with recordedNonce. *)
Querying(l, nonce) == [phase |-> "query", lock |-> l, nonce |-> nonce]

(* The release request is inside the polling loop of ReleaseDLockService. *)
Polling(l) == [phase |-> "poll", lock |-> l]

Confirming(l, nonce) == [phase |-> "confirm", lock |-> l, nonce |-> nonce]

NoOutcome == [op |-> "none"]

(* What a call that returned true was about.  A nonce of 0 is no promise:  *)
(* see RefreshRequest.  "sound" is WellPromised when the query was         *)
(* answered, which the library cannot know.                                *)
Acquired(l, nonce, sound) == [op |-> "acquired", lock |-> l, nonce |-> nonce, sound |-> sound]
Released(l, sound) == [op |-> "released", lock |-> l, sound |-> sound]

Enter(c, phase) == call' = [call EXCEPT ![c] = phase]

(* A call begins: what the last one returned does not count any more. *)
Begins(c, phase) ==
    /\ call[c] = Idle
    /\ Enter(c, phase)
    /\ outcome' = [outcome EXCEPT ![c] = NoOutcome]
    /\ UNCHANGED late

GoesOn(c, phase) == Enter(c, phase) /\ UNCHANGED <<outcome, late>>

Succeeds(c, o) ==
    /\ Enter(c, Idle)
    /\ outcome' = [outcome EXCEPT ![c] = o]
    /\ UNCHANGED late

(* A request of c is served for nobody. *)
ServedLate(c, which) ==
    /\ late' = late \cup {<<c, which>>}
    /\ UNCHANGED <<call, outcome>>

-----------------------------------------------------------------------------
(* AcquireDLock *)

(* The three answers of AcquireDLockService to sequence 0: the entry is    *)
(* logged (Pending = false, with its nonce), an error, or a place in the   *)
(* acquirement list; the last also if RefreshSpecificDLock has logged it.  *)
AcquiredAtOnce(l, p) ==
    IF HasState(l, log, p)
    THEN l \in handled /\ DirectlyFree(pending[l], LockState(l, log, p))
    ELSE l \notin handled

AcquireRefused(l, p) ==
    /\ HasState(l, log, p)
    /\ l \in handled => LET s == LockState(l, log, p)
                        IN  ~DirectlyFree(pending[l], s) /\ ~MustWait(pending[l], s)

SequenceOf(c, h) ==
    h.processed + (CHOOSE i \in 1 .. Len(h.queue) : h.queue[i].acquirer = c)

AcquireRequest(c, l, expire) ==
    LET p == AppliedIndex
    IN
    /\ AcquireDLock(c, l, expire)
    /\ \/ /\ AcquiredAtOnce(l, p)
          /\ Begins(c, Querying(l, pending'[l].appended))
       \/ /\ AcquireRefused(l, p)
          /\ Begins(c, Idle)
       \/ /\ ~AcquiredAtOnce(l, p) /\ ~AcquireRefused(l, p)
          /\ Begins(c, Refreshing(l,
                    SequenceOf(c, InsertNewAcquirement(pending[l], c, expire, now))))

(* tickerRefresh.  A sequence number that is not in the list any more is   *)
(* answered with Pending = false and nonce 0, one that has expired in the  *)
(* list, or whose lock has no state yet, with an error.                    *)
RefreshRequest(c) ==
    LET l == call[c].lock
        seq == call[c].seq
        p == AppliedIndex
        h1 == AbandonExpiredAcquirement(pending[l], now)
        listed == seq \in h1.processed + 1 .. Assigned(h1)
        live == Refreshable(h1, seq, now)
        won == /\ live /\ HasState(l, log, p)
               /\ Grantable(RefreshAcquirement(h1, seq, now), LockState(l, log, p), c)
    IN
    /\ call[c].phase = "refresh"
    /\ RefreshAcquirementBySequence(c, l, seq)
    /\ \/ /\ l \in handled /\ ~listed
          /\ GoesOn(c, Querying(l, 0))
       \/ /\ l \in handled /\ listed /\ (~live \/ ~HasState(l, log, p))
          /\ GoesOn(c, Idle)
       \/ /\ l \in handled /\ won
          /\ GoesOn(c, Querying(l, h1.appended + 1))
       \/ /\ l \notin handled \/ (live /\ HasState(l, log, p) /\ ~won)
          /\ UNCHANGED clientVars

\* mutant: the entry before the promised one is enough
QuerySatisfiedEarly(l, nonce, p) ==
    /\ HasState(l, log, p)
    /\ LockState(l, log, p).nonce + 1 >= nonce

(* responseQuery.Nonce >= recordedNonce; a lock without state is an error. *)
QuerySatisfied(l, nonce, p) ==
    /\ HasState(l, log, p)
    /\ LockState(l, log, p).nonce >= nonce

(* tickerQuery of either call, answered by QueryDLockService; answers that *)
(* do not satisfy it change nothing.                                       *)
Confirmed(q) ==
    /\ ~hung
    /\ QuerySatisfied(q.lock, q.nonce, prevIndex)

(* The leader has no two entries of the lock with one nonce in its log: it *)
(* did not build on the map while entries it had inherited were missing    *)
(* there.  Otherwise the nonce in the answer may be that of another entry. *)
WellPromised(q) ==
    \A i \in EntriesOf(q.lock, log, Len(log)) : Accepted(log, i)

AcquireConfirmed(c) ==
    LET q == call[c]
    IN
    /\ q.phase = "query"
    /\ Confirmed(q)
    /\ Succeeds(c, Acquired(q.lock, q.nonce, WellPromised(q)))
    /\ UNCHANGED vars

-----------------------------------------------------------------------------
(* ReleaseDLock *)

(* Bound: not while a loop of an earlier release of c still runs. *)
ReleaseRequest(c, l) ==
    LET p == AppliedIndex
    IN
    /\ <<l, c>> \notin polls
    /\ ReleaseDLock(c, l)
    /\ \/ /\ ReleaseOver(c, l, p) \/ ReleaseFails(c, l, p)
          /\ Begins(c, Idle)
       \/ ReleaseLater(c, l, p) /\ Begins(c, Polling(l))
       \/ /\ ~ReleaseOver(c, l, p) /\ ~ReleaseFails(c, l, p) /\ ~ReleaseLater(c, l, p)
          /\ Begins(c, Confirming(l, LockState(l, log, p).nonce + 1))

(* A poll of the leader, awaited by its client or not. *)
PollRequest(c, l) ==
    LET p == AppliedIndex
        awaited == call[c] = Polling(l)
        over == ReleaseOver(c, l, p) \/ ReleaseFails(c, l, p)
    IN
    /\ PollRelease(c, l)
    /\ \/ <<l, c>> \in polls' /\ UNCHANGED clientVars
       \/ /\ <<l, c>> \notin polls' /\ awaited
          /\ GoesOn(c, IF over THEN Idle
                       ELSE Confirming(l, LockState(l, log, p).nonce + 1))
       \/ /\ <<l, c>> \notin polls' /\ ~awaited
          /\ ServedLate(c, "release")

PollGivenUp(c, l) ==
    /\ PollTimeout(c, l)
    /\ IF call[c] = Polling(l) THEN GoesOn(c, Idle) ELSE UNCHANGED clientVars

ReleaseConfirmed(c) ==
    LET q == call[c]
    IN
    /\ q.phase = "confirm"
    /\ Confirmed(q)
    /\ Succeeds(c, Released(q.lock, WellPromised(q)))
    /\ UNCHANGED vars

-----------------------------------------------------------------------------
(* Failures *)

(* The call returns false; a polling loop goes on without the client. *)
GiveUp(c) ==
    /\ call[c] # Idle
    /\ GoesOn(c, Idle)
    /\ UNCHANGED vars

(* The leader serves a request of a call that has ended: a release, an     *)
(* acquirement, or its refresh, of a place in the list that is or was c's. *)
MayBeLate == Cardinality(late) < MaxLate

LateRelease(c, l) ==
    /\ MayBeLate
    /\ ReleaseDLock(c, l)
    /\ ServedLate(c, "release")

LateAcquire(c, l, expire) ==
    /\ MayBeLate
    /\ AcquireDLock(c, l, expire)
    /\ ServedLate(c, "acquire")

LateRefresh(c, l, seq) ==
    LET h == pending[l]
    IN
    /\ MayBeLate
    /\ seq > h.processed => h.queue[seq - h.processed].acquirer = c
    /\ RefreshAcquirementBySequence(c, l, seq)
    /\ ServedLate(c, "acquire")

(* The calls in progress stay with the leader of the past (see above). *)
ChangeOfLeader(length, known) ==
    /\ BecomeLeader(length, known)
    /\ call' = [c \in Client |-> Idle]
    /\ UNCHANGED <<outcome, late>>

-----------------------------------------------------------------------------
ClientInit ==
    /\ Init
    /\ call = [c \in Client |-> Idle]
    /\ outcome = [c \in Client |-> NoOutcome]
    /\ late = {}

LibraryStep(c) ==
    \/ RefreshRequest(c) \/ AcquireConfirmed(c)
    \/ ReleaseConfirmed(c)
    \/ GiveUp(c)
    \/ \E l \in Lock :
          \/ \E expire \in Expires : AcquireRequest(c, l, expire) \/ LateAcquire(c, l, expire)
          \/ \E seq \in 1 .. Assigned(pending[l]) : LateRefresh(c, l, seq)
          \/ ReleaseRequest(c, l)
          \/ PollRequest(c, l) \/ PollGivenUp(c, l)
          \/ LateRelease(c, l)

ClientNext ==
    \/ \E c \in Client : LibraryStep(c)
    \/ \E length \in committed .. Len(log), known \in 0 .. committed :
          ChangeOfLeader(length, known)
    \/ /\ ReleaseExpiredDLockPeriodically \/ CommitToStateMap \/ Commit \/ Tick
       /\ UNCHANGED clientVars

ClientSpec == ClientInit /\ [][ClientNext]_clientSystemVars

-----------------------------------------------------------------------------
(* Properties.  They are about calls that returned true while one leader   *)
(* served them (see above), and the first two about sound answers.         *)

(* A lock that the leader promised with a nonce and then confirmed is the  *)
(* client's own for the whole lease: its grant is committed, and until the *)
(* lease is over nobody else gets the lock and nobody releases it, across  *)
(* later changes of leader, lost answers and late requests of all clients. *)
(* The exceptions: an answer that was not sound (WellPromised), and a      *)
(* release request of the client itself that comes late: it names no nonce *)
(* and ends the next grant (dlock_raft_client_API.go:402).                 *)
PromisedLeaseKept ==
    \A c \in Client :
        LET o == outcome[c]
        IN  o.op = "acquired" /\ o.nonce > 0 /\ o.sound /\ <<c, "release">> \notin late =>
                \E i \in EntriesOf(o.lock, log, Durable) :
                    /\ log[i].nonce = o.nonce
                    /\ log[i].owner = c
                    /\ now < log[i].ts + log[i].expire =>
                          i = LastOf(EntriesOf(o.lock, log, Durable))

(* Neither in what is committed nor by an entry on its way. *)
NotOwner(c, l) ==
    \A k \in Durable .. Len(log) :
        HasState(l, log, k) => LockState(l, log, k).owner # c

(* When ReleaseDLock returns true on a sound answer the client does not    *)
(* own the lock any more and does not get it back before it asks again: an *)
(* acquirement it once gave up on and that still waits in the list is not  *)
(* granted (the leader only grants in answer to a request of the same      *)
(* client, dlock_interchange.go:193).  The exception is an AcquireDLock or *)
(* refresh of its own that comes late.                                     *)
ReleasedMeansGone ==
    \A c \in Client :
        LET o == outcome[c]
        IN  o.op = "released" /\ o.sound /\ <<c, "acquire">> \notin late =>
                NotOwner(c, o.lock)

(* README.md:244, "ok == true iff the lock is released": whatever the      *)
(* leader had inherited.  It fails (client_release.cfg): the library takes *)
(* any nonce that is large enough for its own (line 455), also that of an  *)
(* inherited grant.                                                        *)
ReleasedMeansReleased ==
    \A c \in Client :
        LET o == outcome[c]
        IN  o.op = "released" /\ <<c, "acquire">> \notin late => NotOwner(c, o.lock)

(* README.md:226: AcquireDLock returns true only if the client has         *)
(* acquired the lock, so the log grants it, committed or not.              *)
AcquiredMeansGranted ==
    \A c \in Client :
        LET o == outcome[c]
        IN  o.op = "acquired" =>
                \E i \in EntriesOf(o.lock, log, Len(log)) : log[i].owner = c
=============================================================================
