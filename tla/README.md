# A TLA+ model of the Raft-based distributed lock

This directory holds the formal model of the lock service in this repository:
TLA+ modules translated from the Go code, TLC runs that check them on small
instances, and TLAPS proofs for every number of nodes, locks, clients and
entries. `PROJECT.json` maps each
definition to the lines it models and lists the runs, the mutants that show each
property can fail, the findings, the hazards and the theorems.

To repeat a check: `tlc -workers 2 -config <run>.cfg <module>` for a run of the
table below, `tlapm <module>Proofs.tla` for the proofs of section 5.

## 1. The system

A cluster of nodes runs Raft to agree on a log of commands. Applying the log
gives two maps: locks and keys. Clients call any node; a node that does not lead
redirects them.

| Component | State | Operations | Modelled in |
|---|---|---|---|
| Election (`node.go`, `p2p_server.go`) | term, role, vote, known leader | detector timeout, vote requests and answers, becoming follower or leader | `RaftConsensus` |
| Replication (`node.go`, `p2p_server.go`, `peer.go`) | log, commit index, NextIndex and MatchIndex per peer | heartbeat, AppendEntries, conflict resolution, commitment | `RaftConsensus` |
| LogMemory (`log_memory.go`) | index -> entry, maximum index | insert, overwrite, last index of a term, store | `LogMemory` |
| Backup and restart (`node.go`, `log_memory.go`, `log_entry.go`) | file of committed entries | periodic backup, reload at start | `BackupFile`; `RaftConsensus` (atomic writes) |
| State maps (`statemap_memory_impl.go`) | lock states, keys; prevIndex and prevTerm of each map | apply one entry, apply a range | `StateMapReplay`, `StateMap` |
| Lock interchange (`dlock_interchange.go`) | a handler per lock | acquire, refresh, release, scan | `DLockInterchange` |
| Acquirement list (`dlock_acquirement.go`) | waiting clients with sequence numbers, LastAppendedNonce | insert, refresh, abandon, pop | `DLockInterchange` |
| Client services (`clisrv_server.go`) | polling loops | Put, Del, Acquire, Release, Query, Get | `DLockInterchange`, `DLockClient`, `KVClient`, `StateMapReplay` |
| Client library (`dlock_api/`, `clisrv_client.go`) | sequence, nonce, leader address | acquire, release, put and delete with redirects and timeouts | `DLockClient`, `KVClient` |
| Configuration, logging, protobuf, deployment | | | no |

**Interaction.** One mutex per node guards everything; each goroutine and each
RPC service takes it for short critical sections and lets go of it around calls
and waits. `DlockInterchange` decides from the *applied* state (the lock map) and
appends to the *log*; between the two lies consensus. `commitProcedure` feeds the
maps and is run by a goroutine and also at the start of every lock operation.

**What is hard here.** State that was read before an RPC is used after it, in a
leadership that may be another one (`node.go:562`); several ballots and several
leaderships of a node overlap; nothing but committed entries survives a restart;
acquire, refresh, release and the scan run while an entry of the same lock is
logged and not committed; a new leader inherits entries it does not know to be
committed; polling loops outlive the leadership they were started in; a map that
refuses one entry stops; the library confirms an acquirement or a release from a
nonce alone, after its first request was answered; a record of the backup file is
two writes.

**What makes it correct.** Elections: a leader was elected by a majority, one per
term; redirects name it. Replication: indexes never leave the log, commitments
are not taken back and are found in later leaders. Locks: one grant at a time and
never inside the previous lease, in order of arrival, and expired locks come
free. Maps: their contents are a function of the log and they never stop. The
file: what was stored is found again. Clients: what a call returns is true of the
log.

## 2. Modules

`LogMemory` - operators on a log as a sequence. The Go map has no gaps because
every caller inserts at most one past its maximum; `InsertValidEntryListType` in
the proofs shows that the append service keeps it so.

`RaftConsensus` - the consensus part of all nodes. Every critical section of the
mutex is one action. A CandidateVotes or AppendEntries goroutine is a record that
moves from `spawned` (before its first critical section) to `sent` (the request is
built and under way) to `answered` (the service has run on the other node), and
leaves when the response is handled. It keeps what the Go closure captures: the
ballot, and the term at its start. Calls overtake each other and may be lost in
either direction; gRPC does not duplicate them. `Crash` keeps only the backup
file; `NewNode` rebuilds the node from it. The histories `elected` and `granted`
are written for the properties and read by no guard. A crash takes the node's own
requests along (section 6). Command contents are
opaque here: whether the maps accept the file at a restart is reduced to their
condition on terms (`Replayable`).

| Action | Code |
|---|---|
| `StartCandidateVoteModule` | `RunElectionDetectorModule` timing out into `StartCandidateVoteModule` |
| `SendCandidateVotes`, `AbandonCandidateVotes` | vote goroutine, first critical section |
| `GrantHigherTermVote`, `AnswerSameTermVote` | `CandidateVotesService` |
| `HandleVoteHigherTerm`, `CollectVote`, `WinElection`, `IgnoreVote` | vote goroutine, second critical section; `BecomeLeader` |
| `HeartBeat`, `SendAppendEntriesToPeers` | heartbeat goroutine and the function it calls without the lock |
| `SendAppendEntries`, `AbandonAppendEntries` | append goroutine, first critical section |
| `RefuseObsoleteAppend`, `AcceptAppend`, `RefuseConflictingAppend` | `AppendEntriesService` |
| `HandleAppendHigherTerm`, `HandleAppendSuccess`, `HandleAppendConflict`, `IgnoreAppendResponse` | append goroutine, second critical section |
| `LoseVoteCall`, `LoseAppendCall` | errors of `SendGrpcCandidateVotes`, `SendGrpcAppendEntries` |
| `LogCommand` | Put, Del and lock operations on a leader |
| `StartReleasePoll`, `PollRelease`, `EndReleasePoll` | the loop of `ReleaseDLockService` |
| `NewNode`, `Crash`, `BackUpLogMemoryToDisk` | start, end of the process, `backupProcedure` |

`KVClient` (extends `RaftConsensus`) - `PutState` and `DelState` over
`PutStateKVService`: `PutStateKV` is a `LogCommand` whose call remembers index and
term, `PollPut` the check of the service's loop, `PutFails` any of the timeouts.
The loops go on when their node stops leading and end when it crashes. Redirects
are not steps: they change nothing. The history `shared` collects the terms whose
entries may have two authors: a release loop appended in that term on a node that
did not lead (`PollReleaseAnywhere`), or a winner of the term crashed
(`CrashWithLoops`).

`StateMap` - the lock map as a function of the log: the state of a lock is its
last entry up to prevIndex. `StateMapReplay` runs the code's loops for both maps,
one iteration per action, and its properties say that `StateMap` is right.

`BackupFile` (extends `StateMapReplay`) - one node with its maps, its backup file
and its restarts. The file is a sequence of length lines and encoded entries;
`BackUpLogMemoryToDisk` starts the loop of `StoreLogMemory`, `WriteLength` and
`WriteEntry` are its two writes per entry, `WriteFails` is an error of either,
which may leave a part of what it was to write (`TornLine`, `TornEntry`; leading
blanks of a line count as nothing, since reading skips them). The history `damaged`
says that a failed write left half a record: a part, or a length line whose entry
failed. The log only grows and is never overwritten, here and in
`StateMapReplay`: both are relative to a correct consensus. `NewNode` reads the file (`Readable`,
`Reloaded`), then `FeedMaps` feeds both maps, and `StartFails` is a map's refusal.
The mutex is held during a backup, so no map is fed meanwhile.

`DLockInterchange` - the lock service of the leader, with the acquirement lists,
the maps' indexes, the clock and the release loops. Consensus is abstract, and
correct: `Commit` commits entries in order, `BecomeLeader` is a new leader with
all committed entries, perhaps more, which may know fewer to be committed. Its
log is a prefix of that of the leader before it. The history `inherited` holds the
indexes it came with. So what fails here fails even on top of a correct Raft. Sub-actions of
`AcquireDLock` (`AcquireFirst`, `AcquireBehindFirst`, `AcquireDirectly`,
`AcquireWaiting`, `AcquireFails`), of `RefreshAcquirementBySequence` and of
`ReleaseDLock` are the branches of the Go functions. `hung` says that
`ReleaseDLockService` returned with the mutex locked (`clisrv_server.go:409`).
Release loops of the *old* leader's node are followed in `RaftConsensus`, not
here, and two loops of one client for one lock are one.

`LeaseLock` - what the service promises, in one variable: the history of each
lock only grows, nonces count it, a grant comes only when the lease before has
ended, and only a held lock is released. `DLockInterchange` implements it under
the mapping that takes as history the entries of a lock that are committed and
that the map accepts (`DurableHistory`), across changes of leader.

`DLockClient` (extends `DLockInterchange`) - `AcquireDLock` and `ReleaseDLock` of
the library. A client is in one phase of one call; a request that is served and
answered is one step of client and leader together (`AcquireRequest`,
`RefreshRequest`, `ReleaseRequest`, `PollRequest`), and a query that is satisfied
ends the call (`AcquireConfirmed`, `ReleaseConfirmed`). `GiveUp` is the timer, a
deadline or a broken connection, at any time; a polling loop of the service goes
on without its client, and `LateRelease`, `LateAcquire` and `LateRefresh` are
requests that are served although nobody waits for them any more. The history
`late` says who had one served; `outcome` is what the last call returned, with
`sound` for whether the nonce it relied on was in the leader's log once
(`WellPromised`), which the library cannot know.

`*Proofs` - the theorems (section 5): `RaftConsensusProofs`, `RaftElectionProofs`,
`KVClientProofs`, `DLockInterchangeProofs`, `LeaseLockProofs`, `DLockClientProofs`,
`BackupFileProofs`; `StateMapProofs` has the lemmas about `StateMap` that four of
them use. `MC_*` - symmetry sets and state constraints for TLC.

A definition marked `\* mutant` is a plausible bug, used in place of the
definition after it to show that a property can fail.

## 3. Runs

All runs set `CHECK_DEADLOCK FALSE`: a node always has something to do in the
code, and what stops a behaviour in the model is only a bound (terms, ballots, log
length, clock). In the Raft runs `MaxTerm` counts from 1, the term of a fresh
node: 2 means one candidacy per node from the start.

Passing runs:

| Run | Instance | Shows |
|---|---|---|
| `raft_first_term` | 3 nodes, first term, 1 entry, no crash | `FirstTermHasOneLeader`, `CommittedOnMajority`, `LeaderHasMajority` |
| `raft_kv` | 2 nodes, 3 terms, 2 entries (a put, a lock command), 1 crash, 1 ballot each between crashes, a polling release; 4 terms and 2 ballots before the first entry | `TypeOK`, `IndexesInOrder`, `NextIndexInRange`, `HopWonCurrentTerm`, `AckedPutIsOwn`, `AckedPutOnMajority`, `LeaderAppendOnly`, `CommitNeverDecreases`, `CommittedForGood` |
| `dlock_term` | 1 lock, 2 clients, leases of 1, clock to 3, 3 entries, 1 change of leader | `TypeOK`, `NoncesConsecutive`, `OneEntryOnItsWay`, `MapKeepsUp`, `HandlerExists`, `LeaseRespected`, `FirstComeFirstServed`, `ImplementsLeaseLock` |
| `dlock_expiry` | 1 lock, 1 client, fairness | `ExpiredLockComesFree` |
| `dlock_client` | 1 lock, 2 clients of the library, clock to 2, 3 entries, 1 change of leader, 1 kind of late request | `PromisedLeaseKept`, `ReleasedMeansGone` |
| `node_storage` | 1 lock, 1 key, 3 entries, 2 nonces, 2 terms, 2 crashes, 1 failing write | `DLockMapIsLogPrefix`, `KVMapIsLogPrefix`, `SavedSurvives`, `BackupLeavesNoGap`, `OneCrashIsSurvived` |

*Why these bounds.* Elections need three nodes for a vote split and a minority;
`LeaderHasMajority` is then proved for all terms and with crashes. Indexes, match
indexes, redirects and acknowledgements are pairwise, so two nodes and more terms
reach more; the indexes and redirects are proved for any number of both. Two
entries with at most one per request make logs of different lengths, conflicts
and overwritten tails. `raft_kv` has the constraint that release loops end where
crashes begin: either the loop appends on a node that stopped leading, or a node
forgets its log, not both in one behaviour. Two ballots of a node, which it takes
to be led back to a lower term by the answer to the older one (`node.go:355`), are
within the bounds while the logs are empty. For locks, two clients are an owner
and a waiter; a lease and an acquirement lifetime of one tick within a clock of
two to four let both run out, also at the very instant the code's `<`, `>` and
`>=` differ; three entries are grant, release, grant. In `dlock_term` and
`dlock_client` the log is one entry shorter after a change of leader, and in the
second also after a late request: either leaves a grant before it and an entry
after it. In `dlock_client` a leader's acquirement list has two places to give: two
clients wait, or one that gave up waits again. In `node_storage` three entries
and a commitment in any batches give backups of one, two and three records, so a
crash or a failing write hits the first, a middle and the last one; two crashes
are needed for a second life that writes behind what the first one left.

*Fairness* is used in `dlock_expiry` and `dlock_frozen` only: weak fairness of
`Tick` (time passes), of `Commit` (a leader with a majority commits what it has
logged) and of `ReleaseExpiredDLockPeriodically` (a goroutine with a ticker that
ends only with the leadership). Nothing is assumed of clients. `Commit` is the
strong assumption: it is that consensus works during that leadership.

## 4. Where the code differs from what it says

Each of these runs checks one statement of a comment or document and TLC finds a
behaviour of the code that breaks it.

| Run | Statement | Behaviour |
|---|---|---|
| `raft_committed_lost` | `README.md:7`: tolerates the failure of less than half of the nodes; `p2p_server.go:205`: votes only for candidates whose log is not behind | a vote for a *higher* term is granted without comparing logs (line 176), so a node without a committed entry comes to lead although nothing fails |
| `raft_two_leaders` | `p2p_server.go:67`: an append of the same term comes from the leader | term and vote are not persisted; after a restart a node votes twice in a term |
| `dlock_frozen` | `README.md:252`: the cluster releases a lock as soon as it expires | a new leader counts nonces from the applied state and not from its uncommitted entries, so a nonce is logged twice; the map refuses all later entries while LastAppliedIndex goes on |
| `statemap_double_delete` | `node_context.go:26`: LastAppliedIndex is the last index applied | a second deletion of a key does not move prevIndex and stops the key-value map |
| `client_acquire` | `README.md:226`: `ok == true` iff the lock is acquired | a refresh of an acquirement that was dropped from the list is answered "not pending, nonce 0"; any state of the lock then confirms it, and the call returns true although the lock was never granted to the client |
| `backup_orphan` | `log_memory.go:148`: recovers the entire log after sudden crashes | a crash between the two writes of a record leaves a length line; the restart takes it for the end of the file, the next backup writes behind it, and the start after that fails for good |

A term also gets two leaders without any crash. A vote response is compared with
the term of its ballot, as `node.go:350` says, and not with the node's own term; so
a candidate of term 4 that hears of term 3 on its ballot of term 2 goes back to term
3 (`node.go:355`) with its vote free, and gives it a second time. It takes three
nodes and four terms, so `raft_term_back.cfg` (for `MC_RaftConsensus`, with neither
log nor appends and few vote calls at a time) shows it apart from the runs, by the
same `OneLeaderPerTerm`. That is why `FirstTermHasOneLeader` speaks of the first
term only.

`LeaseRespected` holds in spite of the duplicate nonces of `dlock_frozen`: of two
entries built on the same state the map applies the first and refuses the second,
at the price that it then stops.

`NoncesConsecutive`, `OneEntryOnItsWay` and `MapKeepsUp` are about one leadership
(`FirstLeadership`); TLC refutes each of them without that premise.

Three more statements fail by behaviours that have a configuration each, to be run
like the runs of section 3, next to the six above:

| Configuration | Statement | Behaviour |
|---|---|---|
| `dlock_hang.cfg` (`MC_DLockInterchange`, `NeverHung`) | `dlock_interchange.go:335`: if the lock has a state there is an acquirement handler | a new leader applies an entry it inherited; the lock has a state and no handler, and a release request that comes before the next scan returns with the node mutex locked (`clisrv_server.go:409`). `HandlerExists` says that inherited entries are the only way to it |
| `client_release.cfg` (`MC_DLockClient`, `ReleasedMeansReleased`) | `README.md:244`: `ok == true` iff the lock is released | a new leader logs the client's release with a nonce that an inherited entry carries; the map applies the inherited entries, a later grant to the client among them, the answer's nonce is large enough, and `ReleaseDLock` returns true to the owner (`dlock_raft_client_API.go:455`) |
| `backup_failed.cfg` (`MC_BackupFile`, `FailedWriteLeavesFileReadable`) | `log_memory.go:148`: recovers the entire log | a write of an entry fails after its length line, or in the middle; at the latest with the next backup behind it the file does not decode any more, and `NewNode` fails for good (`node.go:120`) |

`SavedSurvives` must be read with the last one: what was stored is found again, in
its place, *when* the file can be read. `OneCrashIsSurvived` says when it can.

Premises of the two client properties stand for behaviours that TLC shows when they
are dropped. (1) A release request names a client and no grant, so one that is
served late ends a grant the client got since; `PromisedLeaseKept` leaves out
clients with a late release. (2) An `AcquireDLock` or a refresh that is served late
gives the client a lock it has since released; `ReleasedMeansGone` leaves out
clients with a late acquirement. (3) A new leader promises a nonce that an inherited
uncommitted entry already carries; when that entry is applied, its owner and the
client with the promise are both told that they have the lock, or a client that
owns it that it is released. Both properties are about answers that are `sound`.
Both are also about calls that one leader served to the end (section 6).

`AckedPutIsOwn` has two premises: every term had one leader, and the put's term
had one author (`shared`). Without the first (`raft_two_leaders`) the entry found
at the put's index and term may be another one. Nor is the second for free. In a
behaviour of 38 steps with two nodes and three leaderships, n1 leads term 3 and
logs a put at index 2; a release loop that n2 started in term 2 appends, on n2,
its own entry at index 2 with term 3; n2 leads term 4, a delayed response lowers
NextIndex, and the put on n1 is overwritten with an entry of the same index and
term. The loop of the put then answers that it is committed
(`clisrv_server.go:154`, `clisrv_server.go:444`). The bounds of `raft_kv` do not
reach it; a larger instance, run for the inductive invariant, does.

A node that restarts feeds its whole file to the maps and does not start if one
of them refuses an entry (`node.go:150`); so the entries that `dlock_frozen` and
`statemap_double_delete` log stop, once backed up, also every later restart.

Four more departures are part of the model, without a run of their own: after a refusal
NextIndex may stay where it was, and the same request is sent again, although
`node.go:620` says that it decreases (`node.go:631`); a
response is compared with the term at the start of its goroutine, so a re-elected
leader may step down over an answer that is not of a higher term
(`node.go:561-562`); `BecomeLeader` does not reset MatchIndex (`node.go:412`,
`peer.go:21`); and the loop of `ReleaseDLockService` appends to the log of a node
that has stopped leading (`clisrv_server.go:444`, `node.go:56`). The theorems of
section 5 hold in spite of all four.

## 5. Proofs

Every theorem is about the specification that the runs check, for every value of
the constants. The assumptions, which TLC evaluates on the runs:
`NodeAssumption` (finitely many nodes, `Nobody` is none of them), `PutAssumption`
(puts are commands), `LockAssumption` (`NoOwner` is no client), `TimeAssumption`,
`BoundsAssumption`, `LateAssumption` and the like for the other bounds (natural
numbers; a request may carry at least one entry). Sets of locks, keys and clients
may be infinite.

| Module | Theorem | Property |
|---|---|---|
| `RaftConsensusProofs` | `TypeCorrect` | `TypeOK` |
| | `IndexesStayInOrder` | `IndexesInOrder` |
| | `NextIndexStaysInRange` | `NextIndexInRange` |
| | `CommitIndexMonotone` | `CommitNeverDecreases` |
| | `LeaderOnlyAppends` | `LeaderAppendOnly` |
| `RaftElectionProofs` | `RedirectsToAWinner` | `HopWonCurrentTerm` |
| | `EveryLeaderHadMajority` | `LeaderHasMajority` |
| | `OneVoteOneLeader` | `OneLeaderPerTerm` while no vote is given twice |
| | `OneLeaderOfFirstTerm` | `FirstTermHasOneLeader` |
| | `CommittedIsOnMajority` | `CommittedOnMajority` |
| | `CommittedStays` | `CommittedForGood` |
| `KVClientProofs` | `AcknowledgedPutIsOwn` | `AckedPutIsOwn` |
| | `AcknowledgedPutIsOnMajority` | `AckedPutOnMajority` |
| | `ServicesKeepConsensus` | `KVSpec => Spec` |
| `DLockInterchangeProofs` | `TypeCorrect` | `TypeOK` |
| | `LeaseIsRespected` | `LeaseRespected` |
| | `NoncesAreConsecutive` | `NoncesConsecutive` |
| | `AtMostOneOnItsWay` | `OneEntryOnItsWay` |
| | `MapAlwaysKeepsUp` | `MapKeepsUp` |
| | `HandlerAlwaysExists` | `HandlerExists` |
| | `ServedInOrder` | `FirstComeFirstServed` |
| `LeaseLockProofs` | `LeaseLockImplemented` | `ImplementsLeaseLock` |
| `DLockClientProofs` | `PromisedLeaseIsKept` | `PromisedLeaseKept` |
| | `ReleasedLockIsGone` | `ReleasedMeansGone` |
| `BackupFileProofs` | `DLockMapFollowsLog` | `DLockMapIsLogPrefix` |
| | `KVMapFollowsLog` | `KVMapIsLogPrefix` |
| | `SavedEntriesSurvive` | `SavedSurvives` |
| | `BackupIsContiguous` | `BackupLeavesNoGap` |
| | `OneCrashSurvived` | `OneCrashIsSurvived` |

*Indexes* (`RaftConsensusProofs`). The inductive invariant `IndexInv` adds to the
properties:
- `BallotsExist`: a vote call names a ballot of its node, so its term is defined;
- `CallsWithinLog`: what an append call quotes (previous index plus number of
  entries, and the conflict index of an answer) is within the *sender's* log. This
  is why a response of an earlier leadership cannot push NextIndex out of range:
  logs are never truncated, only a crash shortens them, and a crash ends the
  node's goroutines;
- `DeadIsEmpty`: a process that is down has no log and no release loops in memory,
  so a restart loads the file into an empty node;
- `NoSelfCalls`: nobody calls itself.

That no comparison of the code keeps stale responses out does not matter for the
indexes. The lemmas before the invariant say what `LogMemory`'s operators return;
then there is one lemma per action. `LeaderOnlyAppends` looks at each step of a
node that leads before and after it in the same term: the append service, the only
one that overwrites, makes the node a follower.

*Elections* (`RaftElectionProofs`). `LeadershipInv` says that leaders, and the
senders of all appends under way, won the term they send in; a follower learns
its leader from an append only. `VotesInv` follows a vote from the `granted`
history through the answer to the ballot: requests carry their ballot's term and
accepted answers stand for granted votes. The two are proved on top of
`TypeCorrect` and `NoSelfCalls`. Two majorities of a finite set meet
(`MajoritiesMeet`, from the cardinality theorems of the library), so
`OneVoteOneLeader`: with crashes, late answers and terms that go back, a term has
one leader as long as nobody votes twice in it. `OneLeaderPerTerm` itself is *not*
a theorem, because nodes do vote twice: after a restart (`raft_two_leaders`) and
when an old ballot's answer takes them back (`raft_term_back`).

The first term is the exception. `TermFloor` says that no ballot, append or
heartbeat belongs to a term below it. What takes a node back is an answer above
the term of one of its own calls, hence above the first term: a node that has
voted in the first term leaves it only for higher ones and does not return.
`FirstVotes` then follows the votes: who granted one is, while in that term, a
follower that still has it as its vote (`GrantKept`), and who won leads while it is in that
term (`LeaderKept`). A candidate that hears of the leader of its own term does
forget its vote (`BecomeFollower` frees it), but that vote was for itself
(`SelfVote`), and as a follower it cannot win the term any more.

*Replication under one leader* (`RaftElectionProofs`). `CommittedOnMajority` and
`CommittedForGood` assume `OneNodeLeads`: no crash, and one node that has won all
the elections there were, in any number of terms, between which it may have been
a follower. More is not true of this code: a second leader may lack what is
committed (`raft_committed_lost`). The inductive invariant is `Follows(x)`, for the
node `x` that leads: every log is a prefix of that of `x`; nobody else runs a
release loop or has committed more; requests under way carry parts of that log
and commit indexes of `x`; and MatchIndex, as well as every positive answer under
way, is at most the length of the follower's log. The last part is why a
MatchIndex that survives from an earlier leadership does no harm: logs do not
shrink without a crash. `HeldWith` draws from it that each committed index is on a majority. Neither
premise is vacuous: the runs' behaviours with one leader commit and acknowledge, and
the mutants of `LeaderCommit` and `EntriesAfter` break the properties there.

*Acknowledged puts* (`KVClientProofs`). The loop reads one place of one log, but
what stands there may have gone through files, requests and other logs and come
back. So `PutInv` is about every copy of every entry: `PlaceIsTaken` says that a
copy with the index and term of a waiting put is the put, and `EntriesHaveAuthor`
that an entry of a term is within the log of its winner, so that the winner cannot
log a second entry at an index of the term. Both are about terms with one author;
`WaitsInLog` ties the put to a term its node has won.

`ServicesKeepConsensus` shows that the services only add to consensus, so `Follows`
holds with clients too. `SolePutInv` adds that the only leader keeps each put it
accepted at its index, also while it is a follower; then what the loop finds
committed is the put, and `CommittedIsOnMajority` says how many nodes have it. This
theorem does not need the premise on `shared`: release loops are the only leader's
own.

*The lock service* (`DLockInterchangeProofs`). `LeaseInv` holds under every
leader: besides types and the order of the indexes it says that each entry was
built on *some* earlier entry of its lock (`WellBuilt`) and that what the map has
applied was accepted. A new leader does not look at uncommitted entries, so the
state an entry was built on may not be the last one; but then its nonce is too
small and the map refuses it. `AcceptedFollows` draws that conclusion, and
`LeaseIsRespected` is a corollary. `FirstInv` is the stronger invariant of the
first leadership: `Tracked` says that LastAppendedNonce of each handler is the
nonce of the lock's last entry in the log, applied or not. It is exactly what a
change of leader breaks. `HandlerExists` is inductive under every leader, next to
`LeaseInv`: every step that logs leaves a handler behind.

*Refinement* (`LeaseLockProofs`). `Chained` is what `AcceptedFollows` gives for
the committed entries; in a chained log the nonce of an entry counts the entries
of its lock (`NonceIsCount`), so the history of a lock is a sequence indexed by
nonces (`HistoryStates`) and each state is legal after the ones before it
(`HistoryLegal`). Committed entries stay (`CommittedKept`), so every step extends
the histories or leaves them alone (`AbstractStep`).

*Clients* (`DLockClientProofs`). `ClientInv` follows a call from its first
request. For sound answers: the leader logged an entry for it (`Keeps`, `Gone`); where the entries of
the lock are all accepted, nonces name entries (`SameNonceSameEntry`), so a
release with the next nonce was built on that entry, after its lease or by a
request of the client; and an answer with that nonce or a higher one means that
the entry is durable (`ConfirmedIsDurable`). Entries that are not durable yet
belong to the invariant too: they are the releases that might come true later.
The steps of the library are shown to be steps of `DLockInterchange`
(`ClientNextIsNext`), whose invariants then hold.

*One node's storage* (`BackupFileProofs`). `NodeInv` says inside every iteration of
the loops what the properties say between them; its part `FileInv` is about the
file: entries of the same index are equal, also those written again after a
failure, no index is left out, and a node that is up finds in it only entries of
its own log. So `Reloaded` begins with what was stored whatever else is in the
file (`SavedReloaded`). `CrashInv` counts records: unless something was left by a
failed write they are whole and come in pairs, with half a pair between the two
writes.

*Induction.* The library's induction theorems cannot be instantiated here. Where
an argument is by induction (`LockNoncesIncrease`, `NonceIsCount`), the set of
counterexamples is formed and its smallest element (`SmallestExists`, from the
well-foundedness of the natural numbers) refuted.

*Only model-checked:* `ExpiredLockComesFree`, which is liveness under fairness.
Every other property of a passing run is a theorem. The properties of section 4
are false of the code, and TLC has the behaviours.

## 6. Not modelled

- A request of a node that crashes before its peer serves it. The peer would serve
  it all the same; in the model it is served before the crash or not at all.
- A new leader of the lock service that holds uncommitted entries of an earlier
  leader than the one before it. `DLockInterchange` has leaders that inherit any
  part of their predecessor's entries, and the theorems are about these.
- Committed entries that consensus loses (`raft_committed_lost`), seen from the
  maps, the backup file and the lock service.
- What a library call in progress at a change of leader goes on to return. The
  call stays with its node, whose answers to queries may be old; the model ends it.
- Get and Query as calls of their own (they only read), the redirect address, how
  long a call blocks.
- The protobuf format, and a crash in the middle of one write (a failing write may
  leave a part).
- Clocks: there is one. Leases are compared with the clock of the leader, and two
  leaders' clocks may differ in reality.
- How many election detectors and heartbeat goroutines are alive, and the
  one-place channels: their wake-ups may come at any time in the model, which
  includes what the code does.
- The width of integers: indexes, terms and nonces do not reach 2^32 or 2^64;
  where unsigned subtraction could wrap, `NextIndexInRange` shows that it does not.
- `RecoverEntriesService` (a stub), configuration, logging, deployment.

## 7. What could follow

*Goroutines of one node.* Detectors, heartbeats and the channels with their lost
wake-ups; liveness of elections and of catching up after a refusal. Safety does
not depend on them: the model lets every wake-up come at any time.
