--------------------------- MODULE RaftConsensus ---------------------------
(***************************************************************************)
(* The consensus part of a node: election (node.go, StartCandidateVote-    *)
(* Module), log replication (node.go, SendAppendEntriesToPeers), the two   *)
(* RPC services (p2p_server.go), backup to disk and restart.               *)
(*                                                                         *)
(* Every critical section of the node mutex is one action.  An outgoing    *)
(* RPC is a goroutine that takes the mutex twice: to build its request and *)
(* to handle the response.  It is a record that moves through the sets     *)
(*     spawned -> sent -> answered                                         *)
(* and keeps what the goroutine captured (the term it was started in, the  *)
(* ballot it belongs to, the index it sent from).  The caller's node may   *)
(* change arbitrarily between these phases.  A call fails (timeout, broken *)
(* connection) by leaving "sent" or "answered" without being handled, and  *)
(* calls overtake each other freely; gRPC does not duplicate them.         *)
(*                                                                         *)
(* Applying committed entries to the state maps is in DLockInterchange.    *)
(***************************************************************************)
EXTENDS LogMemory, FiniteSets

CONSTANTS
    Node,                \* the configured node ids
    Nobody,              \* id 0: no vote, no known leader
    Command,             \* what a client may ask to be logged
    MaxLogUnitsRecover,  \* configured limit of entries per AppendEntries
    \* bounds of the model
    MaxTerm,             \* no candidacy beyond this term
    MaxLog,              \* no log grows beyond this length
    MaxCrash,            \* crashes, over all nodes
    MaxBallots,          \* candidacies of a node between two crashes
    MaxInFlight,         \* AppendEntries goroutines from one node to another
    MaxPolls             \* ReleaseDLock requests waiting on one node

ASSUME NodeAssumption == IsFiniteSet(Node) /\ Nobody \notin Node

ASSUME BoundsAssumption ==
    /\ MaxLogUnitsRecover \in Nat \ {0}
    /\ {MaxTerm, MaxLog, MaxCrash, MaxBallots, MaxInFlight, MaxPolls} \subseteq Nat

VARIABLES
    \* NodeContext (node_context.go) and LogMemory, per node
    currentTerm, state, votedPeer, hop, log, commitIndex,
    \* the backup file; LastBackupIndex is its length
    disk,
    \* PeerNode (peer.go), per node and peer
    nextIndex, matchIndex,
    \* the votes of each StartCandidateVoteModule, captured by its goroutines
    ballots,
    \* CandidateVotes goroutines
    voteSpawned, voteSent, voteAnswered,
    \* SendAppendEntriesToPeers calls not yet run, and AppendEntries goroutines
    sendDue, appendSpawned, appendSent, appendAnswered,
    \* ReleaseDLockService loops waiting to retry, per node
    polls,
    \* number of crashes so far
    crashes,
    \* history: who became leader of which term by whose votes; votes granted
    elected, granted

nodeVars   == <<currentTerm, state, votedPeer, hop>>
logVars    == <<log, commitIndex>>
peerVars   == <<nextIndex, matchIndex>>
voteCalls  == <<voteSpawned, voteSent, voteAnswered>>
appendCalls == <<sendDue, appendSpawned, appendSent, appendAnswered>>
history    == <<elected, granted>>
vars == <<nodeVars, logVars, disk, peerVars, ballots, voteCalls, appendCalls,
          polls, crashes, history>>

-----------------------------------------------------------------------------
(* Types *)

States == {"Dead", "Leader", "Candidate", "Follower"}

Entry == [term : Nat, cmd : Command]

Ballot == [term : Nat, voters : SUBSET Node]

VoteSpawn    == [src : Node, dst : Node, ballot : Nat]
VoteRequest  == [src : Node, dst : Node, ballot : Nat,
                 term : Nat, prevIndex : Nat, prevTerm : Nat]
VoteResponse == [src : Node, dst : Node, ballot : Nat,
                 term : Nat, accepted : BOOLEAN]

SendDue        == [src : Node, peers : SUBSET Node]
AppendSpawn    == [src : Node, dst : Node, start : Nat]
AppendRequest  == [src : Node, dst : Node, start : Nat,
                   term : Nat, prevIndex : Nat, prevTerm : Nat,
                   commit : Nat, entries : Seq(Entry)]
AppendResponse == [src : Node, dst : Node, start : Nat,
                   prevIndex : Nat, count : Nat,
                   term : Nat, success : BOOLEAN,
                   conflictIndex : Nat, conflictTerm : Nat]

(* What kind of value every variable holds. *)
TypeOK ==
    /\ currentTerm \in [Node -> Nat]
    /\ state \in [Node -> States]
    /\ votedPeer \in [Node -> Node \cup {Nobody}]
    /\ hop \in [Node -> Node \cup {Nobody}]
    /\ log \in [Node -> Seq(Entry)]
    /\ commitIndex \in [Node -> Nat]
    /\ disk \in [Node -> Seq(Entry)]
    /\ nextIndex \in [Node -> [Node -> Nat]]
    /\ matchIndex \in [Node -> [Node -> Nat]]
    /\ ballots \in [Node -> Seq(Ballot)]
    /\ voteSpawned \subseteq VoteSpawn
    /\ voteSent \subseteq VoteRequest
    /\ voteAnswered \subseteq VoteResponse
    /\ sendDue \subseteq SendDue
    /\ appendSpawned \subseteq AppendSpawn
    /\ appendSent \subseteq AppendRequest
    /\ appendAnswered \subseteq AppendResponse
    /\ polls \in [Node -> Nat]
    /\ crashes \in Nat
    /\ elected \subseteq [term : Nat, node : Node, voters : SUBSET Node]
    /\ granted \subseteq [voter : Node, term : Nat, cand : Node]

-----------------------------------------------------------------------------
(* Helpers *)

Peers(n) == Node \ {n}

(* 2 * count > len(PeerId) + 1; the configured peers exclude the node. *)
IsMajority(count) == 2 * count > Cardinality(Node)

(* A candidate's last entry as the equal-term branch of                    *)
(* CandidateVotesService compares it with the local log.                   *)
UpToDate(prevTerm, prevIndex, l) ==
    \/ prevTerm > LastTerm(l)
    \/ prevTerm = LastTerm(l) /\ prevIndex >= MaximumIndex(l)

(* AppendEntries goroutines of src towards dst, in any phase. *)
InFlight(src, dst) ==
    LET mine(calls) == Cardinality({c \in calls : c.src = src /\ c.dst = dst})
    IN  mine(appendSpawned) + mine(appendSent) + mine(appendAnswered)

(* NewStartNodeContext and NewPeerNodeListFromConfig: what is in memory    *)
(* before the backup file is read.                                         *)
FreshTerm == 1
FreshPeers == [p \in Node |-> 0]

\* mutant: the node keeps its state
BecomeFollowerKeepingState(n, term, vote) ==
    /\ currentTerm' = [currentTerm EXCEPT ![n] = term]
    /\ votedPeer' = [votedPeer EXCEPT ![n] = vote]
    /\ UNCHANGED state

(* BecomeFollower resets the vote, also when the term stays the same.      *)
(* CandidateVotesService overwrites the vote right after the call.         *)
BecomeFollowerVoting(n, term, vote) ==
    /\ currentTerm' = [currentTerm EXCEPT ![n] = term]
    /\ state' = [state EXCEPT ![n] = "Follower"]
    /\ votedPeer' = [votedPeer EXCEPT ![n] = vote]

BecomeFollower(n, term) == BecomeFollowerVoting(n, term, Nobody)

(* A higher term seen in a response: forget the leader, become follower of *)
(* the response's term, whatever the current one is.                       *)
StepDown(n, term) ==
    /\ BecomeFollower(n, term)
    /\ hop' = [hop EXCEPT ![n] = Nobody]

(* BecomeLeader.  InitFromDLockStateMap may append releases of locks found *)
(* expired ("released", at most one here; it needs a committed lock) before *)
(* NextIndex is set for every peer.  MatchIndex keeps its value.           *)
BecomeLeader(n, voters, released) ==
    /\ released = <<>> \/ commitIndex[n] > 0
    /\ Len(log[n]) + Len(released) <= MaxLog
    /\ state' = [state EXCEPT ![n] = "Leader"]
    /\ log' = [log EXCEPT ![n] =
                 @ \o [i \in DOMAIN released |-> [term |-> currentTerm[n], cmd |-> released[i]]]]
    /\ nextIndex' = [nextIndex EXCEPT ![n] =
                 [p \in Node |-> IF p = n THEN @[p]
                                 ELSE Len(log[n]) + Len(released) + 1]]
    /\ elected' = elected \cup
                 {[term |-> currentTerm[n], node |-> n, voters |-> voters]}

-----------------------------------------------------------------------------
(* Start, crash, backup *)

Init ==
    /\ currentTerm = [n \in Node |-> FreshTerm]
    /\ state = [n \in Node |-> "Dead"]
    /\ votedPeer = [n \in Node |-> Nobody]
    /\ hop = [n \in Node |-> Nobody]
    /\ log = [n \in Node |-> <<>>]
    /\ commitIndex = [n \in Node |-> 0]
    /\ disk = [n \in Node |-> <<>>]
    /\ nextIndex = [n \in Node |-> FreshPeers]
    /\ matchIndex = [n \in Node |-> FreshPeers]
    /\ ballots = [n \in Node |-> <<>>]
    /\ voteSpawned = {} /\ voteSent = {} /\ voteAnswered = {}
    /\ sendDue = {} /\ appendSpawned = {} /\ appendSent = {} /\ appendAnswered = {}
    /\ polls = [n \in Node |-> 0]
    /\ crashes = 0
    /\ elected = {} /\ granted = {}

(* NewNode and InitRaftConsensusModule: everything is rebuilt from the     *)
(* backup file; the term is that of its last entry.  If the state maps     *)
(* refuse the file, NewNode fails and the node stays down.                 *)
NewNode(n) ==
    /\ state[n] = "Dead"
    /\ Replayable(disk[n])
    /\ state' = [state EXCEPT ![n] = "Follower"]
    /\ log' = [log EXCEPT ![n] = disk[n]]
    /\ commitIndex' = [commitIndex EXCEPT ![n] = Len(disk[n])]
    /\ currentTerm' = [currentTerm EXCEPT ![n] =
                         IF disk[n] = <<>> THEN FreshTerm ELSE LastTerm(disk[n])]
    /\ UNCHANGED <<votedPeer, hop, disk, peerVars, ballots, voteCalls,
                   appendCalls, polls, crashes, history>>

(* The process dies: memory, goroutines and the requests it has not served *)
(* are gone; answers it sent may still arrive.  Its own requests are gone  *)
(* too, although a peer whose service waits for the mutex would serve them *)
(* still: the model lets them be served before the crash only.             *)
Crash(n) ==
    /\ state[n] # "Dead"
    /\ crashes < MaxCrash
    /\ crashes' = crashes + 1
    /\ state' = [state EXCEPT ![n] = "Dead"]
    /\ currentTerm' = [currentTerm EXCEPT ![n] = FreshTerm]
    /\ votedPeer' = [votedPeer EXCEPT ![n] = Nobody]
    /\ hop' = [hop EXCEPT ![n] = Nobody]
    /\ log' = [log EXCEPT ![n] = <<>>]
    /\ commitIndex' = [commitIndex EXCEPT ![n] = 0]
    /\ nextIndex' = [nextIndex EXCEPT ![n] = FreshPeers]
    /\ matchIndex' = [matchIndex EXCEPT ![n] = FreshPeers]
    /\ ballots' = [ballots EXCEPT ![n] = <<>>]
    /\ polls' = [polls EXCEPT ![n] = 0]
    /\ voteSpawned' = {c \in voteSpawned : c.src # n}
    /\ voteSent' = {c \in voteSent : n \notin {c.src, c.dst}}
    /\ voteAnswered' = {c \in voteAnswered : c.src # n}
    /\ sendDue' = {c \in sendDue : c.src # n}
    /\ appendSpawned' = {c \in appendSpawned : c.src # n}
    /\ appendSent' = {c \in appendSent : n \notin {c.src, c.dst}}
    /\ appendAnswered' = {c \in appendAnswered : c.src # n}
    /\ UNCHANGED <<disk, history>>

(* backupProcedure: committed entries not yet on disk are written. *)
BackUpLogMemoryToDisk(n) ==
    /\ state[n] # "Dead"
    /\ commitIndex[n] > Len(disk[n])
    /\ disk' = [disk EXCEPT ![n] = StoreLogMemory(@, log[n], commitIndex[n])]
    /\ UNCHANGED <<nodeVars, logVars, peerVars, ballots, voteCalls,
                   appendCalls, polls, crashes, history>>

-----------------------------------------------------------------------------
(* Election *)

\* mutant: the last known leader is not forgotten
StartCandidateKeepingHop(n) ==
    /\ state[n] \in {"Candidate", "Follower"}
    /\ currentTerm[n] < MaxTerm
    /\ Len(ballots[n]) < MaxBallots
    /\ state' = [state EXCEPT ![n] = "Candidate"]
    /\ currentTerm' = [currentTerm EXCEPT ![n] = @ + 1]
    /\ votedPeer' = [votedPeer EXCEPT ![n] = n]
    /\ ballots' = [ballots EXCEPT ![n] =
                     Append(@, [term |-> currentTerm[n] + 1, voters |-> {n}])]
    /\ voteSpawned' = voteSpawned \cup
          {[src |-> n, dst |-> p, ballot |-> Len(ballots[n]) + 1] : p \in Peers(n)}
    /\ UNCHANGED <<hop, logVars, disk, peerVars, voteSent, voteAnswered, appendCalls,
                   polls, crashes, history>>

(* The election detector of a follower or candidate times out and enters   *)
(* StartCandidateVoteModule.  Such a node always has a running detector.   *)
StartCandidateVoteModule(n) ==
    /\ state[n] \in {"Candidate", "Follower"}
    /\ currentTerm[n] < MaxTerm
    /\ Len(ballots[n]) < MaxBallots
    /\ state' = [state EXCEPT ![n] = "Candidate"]
    /\ currentTerm' = [currentTerm EXCEPT ![n] = @ + 1]
    /\ votedPeer' = [votedPeer EXCEPT ![n] = n]
    /\ hop' = [hop EXCEPT ![n] = Nobody]
    /\ ballots' = [ballots EXCEPT ![n] =
                     Append(@, [term |-> currentTerm[n] + 1, voters |-> {n}])]
    /\ voteSpawned' = voteSpawned \cup
          {[src |-> n, dst |-> p, ballot |-> Len(ballots[n]) + 1] : p \in Peers(n)}
    /\ UNCHANGED <<logVars, disk, peerVars, voteSent, voteAnswered, appendCalls,
                   polls, crashes, history>>

(* First critical section of a CandidateVotes goroutine: the request has   *)
(* the ballot's term and the log as it is now.                             *)
SendCandidateVotes(c) ==
    LET saved == ballots[c.src][c.ballot].term
    IN
    /\ state[c.src] \in {"Candidate", "Follower"}
    /\ currentTerm[c.src] <= saved
    /\ voteSpawned' = voteSpawned \ {c}
    /\ voteSent' = voteSent \cup
          {[src |-> c.src, dst |-> c.dst, ballot |-> c.ballot, term |-> saved,
            prevIndex |-> MaximumIndex(log[c.src]), prevTerm |-> LastTerm(log[c.src])]}
    /\ UNCHANGED <<nodeVars, logVars, disk, peerVars, ballots, voteAnswered,
                   appendCalls, polls, crashes, history>>

(* ... which returns if the node leads or has moved to a later term. *)
AbandonCandidateVotes(c) ==
    /\ \/ state[c.src] \notin {"Candidate", "Follower"}
       \/ currentTerm[c.src] > ballots[c.src][c.ballot].term
    /\ voteSpawned' = voteSpawned \ {c}
    /\ UNCHANGED <<nodeVars, logVars, disk, peerVars, ballots, voteSent,
                   voteAnswered, appendCalls, polls, crashes, history>>

AnswerVote(m, term, accepted) ==
    /\ voteSent' = voteSent \ {m}
    /\ voteAnswered' = voteAnswered \cup
          {[src |-> m.src, dst |-> m.dst, ballot |-> m.ballot,
            term |-> term, accepted |-> accepted]}
    /\ granted' = IF accepted
                  THEN granted \cup {[voter |-> m.dst, term |-> m.term, cand |-> m.src]}
                  ELSE granted
    /\ UNCHANGED <<logVars, disk, peerVars, ballots, voteSpawned, appendCalls,
                   polls, crashes, elected>>

(* CandidateVotesService for a higher term: the vote is granted without a  *)
(* look at the logs.                                                       *)
GrantHigherTermVote(m) ==
    /\ state[m.dst] # "Dead"
    /\ m.term > currentTerm[m.dst]
    /\ BecomeFollowerVoting(m.dst, m.term, m.src)
    /\ hop' = [hop EXCEPT ![m.dst] = Nobody]
    /\ AnswerVote(m, m.term, TRUE)

\* mutant: an equal-term vote is given whoever has it already
AnswerSameTermVoteAgain(m) ==
    LET n == m.dst
        accepted == /\ m.term = currentTerm[n]
                    /\ UpToDate(m.prevTerm, m.prevIndex, log[n])
    IN
    /\ state[n] # "Dead"
    /\ m.term <= currentTerm[n]
    /\ votedPeer' = IF accepted THEN [votedPeer EXCEPT ![n] = m.src] ELSE votedPeer
    /\ AnswerVote(m, currentTerm[n], accepted)
    /\ UNCHANGED <<currentTerm, state, hop>>

(* CandidateVotesService otherwise: an equal-term vote needs a free vote   *)
(* and an up-to-date candidate; everything else is refused.                *)
AnswerSameTermVote(m) ==
    LET n == m.dst
        accepted == /\ m.term = currentTerm[n]
                    /\ votedPeer[n] \in {Nobody, m.src}
                    /\ UpToDate(m.prevTerm, m.prevIndex, log[n])
    IN
    /\ state[n] # "Dead"
    /\ m.term <= currentTerm[n]
    /\ votedPeer' = IF accepted THEN [votedPeer EXCEPT ![n] = m.src] ELSE votedPeer
    /\ AnswerVote(m, currentTerm[n], accepted)
    /\ UNCHANGED <<currentTerm, state, hop>>

(* Second critical section of a CandidateVotes goroutine. *)
HandleVoteHigherTerm(r) ==
    /\ state[r.src] = "Candidate"
    /\ r.term > ballots[r.src][r.ballot].term
    /\ StepDown(r.src, r.term)
    /\ voteAnswered' = voteAnswered \ {r}
    /\ UNCHANGED <<logVars, disk, peerVars, ballots, voteSpawned, voteSent,
                   appendCalls, polls, crashes, history>>

InTimeVote(r) ==
    LET saved == ballots[r.src][r.ballot].term
    IN  /\ state[r.src] = "Candidate"
        /\ r.term = saved
        /\ currentTerm[r.src] = saved

\* mutant: every response counts as a vote
CollectedResponses(r) == ballots[r.src][r.ballot].voters \cup {r.dst}

(* The votes of the ballot once the response is counted. *)
CollectedVotes(r) ==
    ballots[r.src][r.ballot].voters \cup (IF r.accepted THEN {r.dst} ELSE {})

CollectVote(r) ==
    /\ InTimeVote(r)
    /\ ~IsMajority(Cardinality(CollectedVotes(r)))
    /\ ballots' = [ballots EXCEPT ![r.src][r.ballot].voters = CollectedVotes(r)]
    /\ voteAnswered' = voteAnswered \ {r}
    /\ UNCHANGED <<nodeVars, logVars, disk, peerVars, voteSpawned, voteSent,
                   appendCalls, polls, crashes, history>>

WinElection(r, released) ==
    /\ InTimeVote(r)
    /\ IsMajority(Cardinality(CollectedVotes(r)))
    /\ ballots' = [ballots EXCEPT ![r.src][r.ballot].voters = CollectedVotes(r)]
    /\ BecomeLeader(r.src, CollectedVotes(r), released)
    /\ voteAnswered' = voteAnswered \ {r}
    /\ UNCHANGED <<currentTerm, votedPeer, hop, commitIndex, disk, matchIndex,
                   voteSpawned, voteSent, appendCalls, polls, crashes, granted>>

(* A late or obsolete response is dropped. *)
IgnoreVote(r) ==
    /\ ~InTimeVote(r)
    /\ ~(state[r.src] = "Candidate" /\ r.term > ballots[r.src][r.ballot].term)
    /\ voteAnswered' = voteAnswered \ {r}
    /\ UNCHANGED <<nodeVars, logVars, disk, peerVars, ballots, voteSpawned,
                   voteSent, appendCalls, polls, crashes, history>>

(* The RPC fails: no answer within the timeout, or no connection. *)
LoseVoteCall ==
    /\ \/ \E m \in voteSent : voteSent' = voteSent \ {m} /\ UNCHANGED voteAnswered
       \/ \E r \in voteAnswered : voteAnswered' = voteAnswered \ {r} /\ UNCHANGED voteSent
    /\ UNCHANGED <<nodeVars, logVars, disk, peerVars, ballots, voteSpawned,
                   appendCalls, polls, crashes, history>>

-----------------------------------------------------------------------------
(* Replication *)

(* The heartbeat goroutine of BecomeLeader ticks (or is woken by           *)
(* AppendEntryChan), sees that the node leads, and unlocks before it calls *)
(* SendAppendEntriesToPeers(nil).                                          *)
HeartBeat(n) ==
    /\ state[n] = "Leader"
    /\ sendDue' = sendDue \cup {[src |-> n, peers |-> Peers(n)]}
    /\ UNCHANGED <<nodeVars, logVars, disk, peerVars, ballots, voteCalls,
                   appendSpawned, appendSent, appendAnswered, polls, crashes, history>>

(* SendAppendEntriesToPeers: records the current term, without asking      *)
(* whether the node still leads, and starts a goroutine per peer.          *)
SendAppendEntriesToPeers(d) ==
    /\ \A p \in d.peers : InFlight(d.src, p) < MaxInFlight
    /\ sendDue' = sendDue \ {d}
    /\ appendSpawned' = appendSpawned \cup
          {[src |-> d.src, dst |-> p, start |-> currentTerm[d.src]] : p \in d.peers}
    /\ UNCHANGED <<nodeVars, logVars, disk, peerVars, ballots, voteCalls,
                   appendSent, appendAnswered, polls, crashes, history>>

(* First critical section of an AppendEntries goroutine.  The request has  *)
(* the term and the log of this moment.                                    *)
SendAppendEntries(c) ==
    LET n == c.src
        prevIndex == nextIndex[n][c.dst] - 1
        entryLength == Smaller(MaxLogUnitsRecover, MaximumIndex(log[n]) - prevIndex)
    IN
    /\ state[n] = "Leader"
    /\ appendSpawned' = appendSpawned \ {c}
    /\ appendSent' = appendSent \cup
          {[src |-> n, dst |-> c.dst, start |-> c.start, term |-> currentTerm[n],
            prevIndex |-> prevIndex, prevTerm |-> TermAt(log[n], prevIndex),
            commit |-> commitIndex[n],
            entries |-> EntriesAfter(log[n], prevIndex, entryLength)]}
    /\ UNCHANGED <<nodeVars, logVars, disk, peerVars, ballots, voteCalls,
                   sendDue, appendAnswered, polls, crashes, history>>

AbandonAppendEntries(c) ==
    /\ state[c.src] # "Leader"
    /\ appendSpawned' = appendSpawned \ {c}
    /\ UNCHANGED <<nodeVars, logVars, disk, peerVars, ballots, voteCalls, sendDue,
                   appendSent, appendAnswered, polls, crashes, history>>

AnswerAppend(m, term, success, conflictIndex, conflictTerm) ==
    /\ appendSent' = appendSent \ {m}
    /\ appendAnswered' = appendAnswered \cup
          {[src |-> m.src, dst |-> m.dst, start |-> m.start,
            prevIndex |-> m.prevIndex, count |-> Len(m.entries),
            term |-> term, success |-> success,
            conflictIndex |-> conflictIndex, conflictTerm |-> conflictTerm]}
    /\ UNCHANGED <<disk, peerVars, ballots, voteCalls, sendDue, appendSpawned,
                   polls, crashes, history>>

(* AppendEntriesService for an older term: only tell the newer one. *)
RefuseObsoleteAppend(m) ==
    /\ state[m.dst] # "Dead"
    /\ m.term < currentTerm[m.dst]
    /\ AnswerAppend(m, currentTerm[m.dst], FALSE, 0, 0)
    /\ UNCHANGED <<nodeVars, logVars>>

(* The sender of an append of the same or a higher term is the leader.     *)
FollowLeader(m) ==
    /\ hop' = [hop EXCEPT ![m.dst] = m.src]
    /\ IF m.term > currentTerm[m.dst] \/ state[m.dst] # "Follower"
       THEN BecomeFollower(m.dst, m.term)
       ELSE UNCHANGED <<currentTerm, state, votedPeer>>

PrevMatches(m, l) ==
    /\ m.prevIndex <= MaximumIndex(l)
    /\ m.prevIndex # 0 => l[m.prevIndex].term = m.prevTerm

\* mutants: the leader's commit index is taken as it is; or followed downwards
FollowerCommitUnbounded(m, commit, l) ==
    IF m.commit > commit THEN m.commit ELSE commit

FollowerCommitBackwards(m, commit, l) == Smaller(m.commit, MaximumIndex(l))

(* The follower's commit index after it inserted entries into log l. *)
FollowerCommit(m, commit, l) ==
    IF m.commit > commit THEN Smaller(m.commit, MaximumIndex(l)) ELSE commit

AcceptAppend(m) ==
    LET n == m.dst
        newLog == InsertValidEntryList(log[n], m.prevIndex, m.entries)
    IN
    /\ state[n] # "Dead"
    /\ m.term >= currentTerm[n]
    /\ PrevMatches(m, log[n])
    /\ FollowLeader(m)
    /\ log' = [log EXCEPT ![n] = newLog]
    /\ commitIndex' = [commitIndex EXCEPT ![n] = FollowerCommit(m, @, newLog)]
    /\ AnswerAppend(m, m.term, TRUE, 0, 0)

(* The entry a follower points the leader to: its last one if the leader's *)
(* previous index is beyond it, else the one at that index.                *)
ConflictEntryIndex(m, l) == Smaller(m.prevIndex, MaximumIndex(l))

RefuseConflictingAppend(m) ==
    LET n == m.dst
        conflict == ConflictEntryIndex(m, log[n])
    IN
    /\ state[n] # "Dead"
    /\ m.term >= currentTerm[n]
    /\ ~PrevMatches(m, log[n])
    /\ FollowLeader(m)
    /\ AnswerAppend(m, m.term, FALSE, conflict, TermAt(log[n], conflict))
    /\ UNCHANGED logVars

(* Second critical section of an AppendEntries goroutine.  The response's  *)
(* term is compared with the term recorded when the goroutine was started. *)
HandleAppendHigherTerm(r) ==
    /\ state[r.src] = "Leader"
    /\ r.term > r.start
    /\ StepDown(r.src, r.term)
    /\ appendAnswered' = appendAnswered \ {r}
    /\ UNCHANGED <<logVars, disk, peerVars, ballots, voteCalls, sendDue,
                   appendSpawned, appendSent, polls, crashes, history>>

\* mutant: the majority is counted one index too low
LeaderCommitOffByOne(n, match) ==
    LET replicated(k) == IsMajority(1 + Cardinality({p \in Peers(n) : match[p] >= k - 1}))
        committable == {k \in commitIndex[n] + 1 .. MaximumIndex(log[n]) : replicated(k)}
    IN  IF committable = {} THEN commitIndex[n]
        ELSE CHOOSE k \in committable : \A j \in committable : j <= k

(* The leader's commit index for given match indexes: the last entry, of   *)
(* whatever term, that a majority is known to have.                        *)
LeaderCommit(n, match) ==
    LET replicated(k) == IsMajority(1 + Cardinality({p \in Peers(n) : match[p] >= k}))
        committable == {k \in commitIndex[n] + 1 .. MaximumIndex(log[n]) : replicated(k)}
    IN  IF committable = {} THEN commitIndex[n]
        ELSE CHOOSE k \in committable : \A j \in committable : j <= k

HandleAppendSuccess(r) ==
    LET n == r.src
        next == r.prevIndex + 1 + r.count
        match == [matchIndex[n] EXCEPT ![r.dst] = Larger(@, next - 1)]
    IN
    /\ state[n] = "Leader"
    /\ r.term = r.start
    /\ r.success
    /\ nextIndex' = [nextIndex EXCEPT ![n][r.dst] = next]
    /\ matchIndex' = [matchIndex EXCEPT ![n] = match]
    /\ commitIndex' = [commitIndex EXCEPT ![n] = LeaderCommit(n, match)]
    /\ appendAnswered' = appendAnswered \ {r}
    /\ UNCHANGED <<nodeVars, log, disk, ballots, voteCalls, sendDue, appendSpawned,
                   appendSent, polls, crashes, history>>

\* mutants: one below the follower's entry; or an empty follower not treated apart
NextBeforeConflict(r, l) ==
    LET last == FetchLastIndexOfTerm(l, r.conflictTerm)
    IN  IF r.conflictTerm > 0 /\ last # 0 THEN last + 1 ELSE r.conflictIndex - 1

NextAfterConflictUnchecked(r, l) ==
    LET last == FetchLastIndexOfTerm(l, r.conflictTerm)
    IN  IF r.conflictTerm > 0 /\ last # 0 THEN last + 1 ELSE r.conflictIndex

(* Where the leader continues after a refusal: behind its own last entry   *)
(* of the conflicting term, or at the follower's conflicting entry.        *)
NextAfterConflict(r, l) ==
    LET last == FetchLastIndexOfTerm(l, r.conflictTerm)
    IN  IF r.conflictTerm > 0
        THEN IF last = 0 THEN r.conflictIndex ELSE last + 1
        ELSE IF r.conflictIndex = 0 THEN 1 ELSE r.conflictIndex

HandleAppendConflict(r) ==
    LET n == r.src
    IN
    /\ state[n] = "Leader"
    /\ r.term = r.start
    /\ ~r.success
    /\ nextIndex' = [nextIndex EXCEPT ![n][r.dst] = NextAfterConflict(r, log[n])]
    /\ sendDue' = sendDue \cup {[src |-> n, peers |-> {r.dst}]}
    /\ appendAnswered' = appendAnswered \ {r}
    /\ UNCHANGED <<nodeVars, logVars, disk, matchIndex, ballots, voteCalls,
                   appendSpawned, appendSent, polls, crashes, history>>

IgnoreAppendResponse(r) ==
    /\ state[r.src] # "Leader" \/ r.term < r.start
    /\ appendAnswered' = appendAnswered \ {r}
    /\ UNCHANGED <<nodeVars, logVars, disk, peerVars, ballots, voteCalls, sendDue,
                   appendSpawned, appendSent, polls, crashes, history>>

LoseAppendCall ==
    /\ \/ \E m \in appendSent : appendSent' = appendSent \ {m} /\ UNCHANGED appendAnswered
       \/ \E r \in appendAnswered : appendAnswered' = appendAnswered \ {r} /\ UNCHANGED appendSent
    /\ UNCHANGED <<nodeVars, logVars, disk, peerVars, ballots, voteCalls, sendDue,
                   appendSpawned, polls, crashes, history>>

-----------------------------------------------------------------------------
(* Entries that enter the log at this node *)

AppendEntry(n, c) ==
    /\ Len(log[n]) < MaxLog
    /\ log' = [log EXCEPT ![n] =
                 InsertLogEntry(@, [term |-> currentTerm[n], cmd |-> c])]
    /\ UNCHANGED <<nodeVars, commitIndex, disk, peerVars, ballots, voteCalls,
                   appendCalls, crashes, history>>

(* A client operation (or the periodic scan for expired locks) on a leader. *)
LogCommand(n, c) ==
    /\ state[n] = "Leader"
    /\ AppendEntry(n, c)
    /\ UNCHANGED polls

(* ReleaseDLockService finds an uncommitted entry of the lock at the       *)
(* leader and starts to poll (TriggerReleaseLater).                        *)
StartReleasePoll(n) ==
    /\ state[n] = "Leader"
    /\ MaximumIndex(log[n]) > commitIndex[n]
    /\ polls[n] < MaxPolls
    /\ polls' = [polls EXCEPT ![n] = @ + 1]
    /\ UNCHANGED <<nodeVars, logVars, disk, peerVars, ballots, voteCalls,
                   appendCalls, crashes, history>>

(* A later poll finds the lock committed and owned by the applicant and    *)
(* appends its release; the loop does not ask whether the node still leads. *)
PollRelease(n, c) ==
    /\ polls[n] > 0
    /\ commitIndex[n] > 0
    /\ AppendEntry(n, c)
    /\ polls' = [polls EXCEPT ![n] = @ - 1]

(* The loop ends: timeout, or the lock is gone. *)
EndReleasePoll(n) ==
    /\ polls[n] > 0
    /\ polls' = [polls EXCEPT ![n] = @ - 1]
    /\ UNCHANGED <<nodeVars, logVars, disk, peerVars, ballots, voteCalls,
                   appendCalls, crashes, history>>

-----------------------------------------------------------------------------
CandidateVotes ==
    \/ \E c \in voteSpawned : SendCandidateVotes(c) \/ AbandonCandidateVotes(c)
    \/ \E m \in voteSent : GrantHigherTermVote(m) \/ AnswerSameTermVote(m)
    \/ \E r \in voteAnswered :
          \/ HandleVoteHigherTerm(r) \/ CollectVote(r) \/ IgnoreVote(r)
          \/ \E released \in {<<>>} \cup {<<c>> : c \in Command} : WinElection(r, released)
    \/ LoseVoteCall

AppendEntries ==
    \/ \E d \in sendDue : SendAppendEntriesToPeers(d)
    \/ \E c \in appendSpawned : SendAppendEntries(c) \/ AbandonAppendEntries(c)
    \/ \E m \in appendSent :
          RefuseObsoleteAppend(m) \/ AcceptAppend(m) \/ RefuseConflictingAppend(m)
    \/ \E r \in appendAnswered :
          \/ HandleAppendHigherTerm(r) \/ HandleAppendSuccess(r)
          \/ HandleAppendConflict(r) \/ IgnoreAppendResponse(r)
    \/ LoseAppendCall

LocalStep(n) ==
    \/ NewNode(n) \/ Crash(n) \/ BackUpLogMemoryToDisk(n)
    \/ StartCandidateVoteModule(n) \/ HeartBeat(n)
    \/ StartReleasePoll(n) \/ EndReleasePoll(n)
    \/ \E c \in Command : LogCommand(n, c) \/ PollRelease(n, c)

Next == CandidateVotes \/ AppendEntries \/ \E n \in Node : LocalStep(n)

Spec == Init /\ [][Next]_vars

-----------------------------------------------------------------------------
(* Properties of the code *)

Alive(n) == state[n] # "Dead"

WonTerm(n, term) == \E e \in elected : e.node = n /\ e.term = term

(* The backup file never runs ahead of the commit index, nor the commit    *)
(* index ahead of the log: backupProcedure and commitProcedure fetch       *)
(* LastBackupIndex+1 .. CommitIndex and LastAppliedIndex+1 .. CommitIndex  *)
(* and would fail for ever on an index the log does not have.  It holds    *)
(* across restarts, overwritten logs and stale match indexes.              *)
IndexesInOrder ==
    \A n \in Node : Alive(n) =>
        /\ Len(disk[n]) <= commitIndex[n]
        /\ commitIndex[n] <= MaximumIndex(log[n])

(* A leader's NextIndex of a peer is always the index of one of its own    *)
(* entries or the one after the last, so the uint64 subtractions           *)
(* NextIndex-1 and maximumIndex-prevIndexRecord of SendAppendEntriesTo-    *)
(* Peers never wrap around and every entry it fetches exists, although     *)
(* NextIndex starts at 0 and responses of an earlier leadership are        *)
(* applied to it.                                                          *)
NextIndexInRange ==
    \A n \in Node : state[n] = "Leader" =>
        \A p \in Peers(n) : nextIndex[n][p] \in 1 .. MaximumIndex(log[n]) + 1

(* The node a follower redirects clients to (HopToCurrentLeaderId) is      *)
(* another node that did win the election of the follower's current term,  *)
(* even after terms moved back and forth; candidates and leaders redirect  *)
(* to nobody.                                                              *)
HopWonCurrentTerm ==
    \A n \in Node : hop[n] # Nobody =>
        /\ hop[n] # n
        /\ state[n] = "Follower"
        /\ WonTerm(hop[n], currentTerm[n])

(* Whoever became leader of a term was granted a vote of exactly that term *)
(* by every node of a majority (itself excepted): responses that arrive    *)
(* late, for an earlier ballot or after a step down never count.           *)
LeaderHasMajority ==
    \A e \in elected :
        /\ 2 * Cardinality(e.voters) > Cardinality(Node)
        /\ \A v \in e.voters \ {e.node} :
              [voter |-> v, term |-> e.term, cand |-> e.node] \in granted

(* The first term anybody can win has one leader as long as no process     *)
(* dies, whatever later terms do: a candidate that hears from that leader  *)
(* gets its vote back in the same term (BecomeFollower), but its own       *)
(* ballot is over by then.  Later terms may have two: see raft_term_back.  *)
FirstTermHasOneLeader ==
    crashes = 0 =>
        \A d, e \in elected :
            d.term = FreshTerm + 1 /\ e.term = d.term => d.node = e.node

(* No process has died and only one node has led, in whatever terms. *)
OneNodeLeads == crashes = 0 /\ \A d, e \in elected : d.node = e.node

(* What any node has committed is then on a majority of the nodes, though  *)
(* appends and their answers come late, out of order or not at all, and    *)
(* MatchIndex outlives a leadership.  (A second leader or a restart break  *)
(* it: see LeaderKeepsCommitted.)                                          *)
CommittedOnMajority ==
    OneNodeLeads =>
        \A n \in Node : \A k \in 1 .. commitIndex[n] :
            LET holders == {p \in Node : k <= Len(log[p]) /\ log[p][k] = log[n][k]}
            IN  2 * Cardinality(holders) > Cardinality(Node)

(* Then, too, what one node has committed at an index is what every node   *)
(* has committed there, now and later: the state maps of all nodes are fed *)
(* the same commands.                                                      *)
CommittedForGood ==
    [][OneNodeLeads' =>
          \A n, m \in Node : \A k \in 1 .. Smaller(commitIndex[n], commitIndex'[m]) :
              log'[m][k] = log[n][k]]_vars

(* While a node leads it only appends to its log: an AppendEntries that    *)
(* overwrites entries always makes it a follower first.                    *)
LeaderAppendOnly ==
    [][\A n \in Node : state[n] = "Leader" /\ state'[n] = "Leader" =>
          /\ Len(log[n]) <= Len(log'[n])
          /\ SubSeq(log'[n], 1, Len(log[n])) = log[n]]_vars

(* Until it crashes, a node never takes back that an index is committed,   *)
(* whichever leaders it follows or leads under.                            *)
CommitNeverDecreases ==
    [][\A n \in Node : state'[n] # "Dead" => commitIndex'[n] >= commitIndex[n]]_vars

-----------------------------------------------------------------------------
(* Claims of comments and documents that the code does not keep *)

(* README.md:7: less than half of the nodes failing is tolerated, so what  *)
(* a node has committed is in the log of every leader of a later term.     *)
LeaderKeepsCommitted ==
    \A n, l \in Node :
        state[l] = "Leader" /\ currentTerm[l] > currentTerm[n] =>
            \A i \in 1 .. commitIndex[n] :
                i <= Len(log[l]) /\ log[l][i] = log[n][i]

(* p2p_server.go:67: an append of the node's own term always comes from    *)
(* the leader, so no two nodes lead in one term.                           *)
OneLeaderPerTerm ==
    \A d, e \in elected : d.term = e.term => d.node = e.node
=============================================================================
