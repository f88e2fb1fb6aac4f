------------------------- MODULE RaftElectionProofs -------------------------
(***************************************************************************)
(* What elections guarantee in RaftConsensus, and what replication         *)
(* guarantees where elections do, proved for every number of nodes:        *)
(*   - the leader a follower knows has won the follower's term;            *)
(*   - every leader had a majority of votes of its term, so a term has one *)
(*     leader as long as nobody votes twice in it.  Nodes do vote twice:   *)
(*     see raft_two_leaders and raft_term_back;                            *)
(*   - the first term has one leader while no process dies;                *)
(*   - what is committed under one leader is on a majority of the nodes,   *)
(*     is never changed, and is the same on all nodes.                     *)
(***************************************************************************)
EXTENDS RaftConsensusProofs

USE DEF nodeVars, logVars, peerVars, voteCalls, appendCalls, history

(* Whoever leads won an election of its current term. *)
LeaderWon == \A n \in Node : state[n] = "Leader" => WonTerm(n, currentTerm[n])

(* So did the sender of every append, in the request's term. *)
AppendsFromWinners == \A m \in appendSent : WonTerm(m.src, m.term)

(* The inductive invariant behind HopWonCurrentTerm: a follower learns its *)
(* leader from an append, which says something about the sender only       *)
(* because leaders have won the term they send in.                         *)
LeadershipInv == HopWonCurrentTerm /\ LeaderWon /\ AppendsFromWinners

(* A won election stays won. *)
LEMMA WonForGood ==
    ASSUME elected \subseteq elected', NEW n, NEW term, WonTerm(n, term)
    PROVE  WonTerm(n, term)'
BY DEF WonTerm

(* A step that changes no role, term or known leader. *)
LEMMA LeadershipFrame ==
    ASSUME LeadershipInv, UNCHANGED <<hop, state, currentTerm>>,
           elected \subseteq elected', appendSent' \subseteq appendSent
    PROVE  LeadershipInv'
<1>1. \A n, term : WonTerm(n, term) => WonTerm(n, term)'
  BY WonForGood
<1> QED BY <1>1 DEF LeadershipInv, HopWonCurrentTerm, LeaderWon, AppendsFromWinners

(* A step that makes one node forget its leader and not lead. *)
LEMMA LeadershipReset ==
    ASSUME TypeOK, LeadershipInv, NEW n \in Node,
           hop'[n] = Nobody, state'[n] # "Leader",
           \A x \in Node : x # n => /\ hop'[x] = hop[x] /\ state'[x] = state[x]
                                    /\ currentTerm'[x] = currentTerm[x],
           elected' = elected, appendSent' \subseteq appendSent
    PROVE  LeadershipInv'
<1>1. \A x, term : WonTerm(x, term)' <=> WonTerm(x, term)
  BY DEF WonTerm
<1>2. HopWonCurrentTerm'
  BY <1>1 DEF LeadershipInv, HopWonCurrentTerm
<1>3. LeaderWon'
  BY <1>1 DEF LeadershipInv, LeaderWon
<1>4. AppendsFromWinners'
  BY <1>1 DEF LeadershipInv, AppendsFromWinners
<1> QED BY <1>2, <1>3, <1>4 DEF LeadershipInv

(* AppendEntriesService adopts the sender as leader of the request's term. *)
LEMMA LeadershipFollow ==
    ASSUME TypeOK, NoSelfCalls, LeadershipInv, NEW m \in appendSent,
           m.term >= currentTerm[m.dst], FollowLeader(m),
           elected' = elected, appendSent' \subseteq appendSent
    PROVE  LeadershipInv'
<1> DEFINE n == m.dst
<1>1. m.src \in Node /\ n \in Node /\ m.term \in Nat /\ m.src # n /\ WonTerm(m.src, m.term)
  BY DEF TypeOK, AppendRequest, NoSelfCalls, LeadershipInv, AppendsFromWinners
<1>2. /\ hop'[n] = m.src /\ state'[n] = "Follower" /\ currentTerm'[n] = m.term
      /\ \A x \in Node : x # n => /\ hop'[x] = hop[x] /\ state'[x] = state[x]
                                  /\ currentTerm'[x] = currentTerm[x]
  <2>1. CASE m.term > currentTerm[n] \/ state[n] # "Follower"
    BY <2>1, <1>1, SMTT(30) DEF TypeOK, FollowLeader, BecomeFollower, BecomeFollowerVoting
  <2>2. CASE ~(m.term > currentTerm[n] \/ state[n] # "Follower")
    <3>0. currentTerm[n] \in Nat
      BY <1>1 DEF TypeOK
    <3>1. m.term = currentTerm[n]
      BY <2>2, <3>0, <1>1
    <3> QED BY <2>2, <3>1, <1>1 DEF TypeOK, FollowLeader
  <2> QED BY <2>1, <2>2
<1>3. \A x, term : WonTerm(x, term)' <=> WonTerm(x, term)
  BY DEF WonTerm
<1>4. HopWonCurrentTerm'
  BY <1>1, <1>2, <1>3 DEF LeadershipInv, HopWonCurrentTerm
<1>5. LeaderWon'
  BY <1>2, <1>3 DEF LeadershipInv, LeaderWon
<1>6. AppendsFromWinners'
  BY <1>3 DEF LeadershipInv, AppendsFromWinners
<1> QED BY <1>4, <1>5, <1>6 DEF LeadershipInv

(* The winner of an election leads, and redirects to nobody. *)
LEMMA LeadershipWin ==
    ASSUME IndexInv, LeadershipInv, NEW r \in voteAnswered, NEW released,
           WinElection(r, released)
    PROVE  LeadershipInv'
<1> DEFINE n == r.src
<1>1. n \in Node /\ state[n] = "Candidate"
  BY DEF IndexInv, TypeOK, VoteResponse, WinElection, InTimeVote
<1>2. /\ state' = [state EXCEPT ![n] = "Leader"]
      /\ UNCHANGED <<hop, currentTerm, appendSent>>
      /\ elected' = elected \cup
            {[term |-> currentTerm[n], node |-> n, voters |-> CollectedVotes(r)]}
  BY DEF WinElection, BecomeLeader
<1>3. \A x, term : WonTerm(x, term) => WonTerm(x, term)'
  BY <1>2, WonForGood
<1>4. WonTerm(n, currentTerm[n])'
  <2> DEFINE e == [term |-> currentTerm[n], node |-> n, voters |-> CollectedVotes(r)]
  <2>1. e \in elected' /\ e.node = n /\ e.term = currentTerm[n]
    BY <1>2
  <2> HIDE DEF e
  <2>2. \E d \in elected' : d.node = n /\ d.term = currentTerm'[n]
    BY <2>1, <1>2
  <2> QED BY <2>2 DEF WonTerm
<1>5. HopWonCurrentTerm'
  BY <1>1, <1>2, <1>3 DEF LeadershipInv, HopWonCurrentTerm, IndexInv, TypeOK
<1>6. LeaderWon'
  BY <1>1, <1>2, <1>3, <1>4 DEF LeadershipInv, LeaderWon, IndexInv, TypeOK
<1>7. AppendsFromWinners'
  BY <1>2, <1>3 DEF LeadershipInv, AppendsFromWinners
<1> QED BY <1>5, <1>6, <1>7 DEF LeadershipInv

(* A leader sends requests of its current term. *)
LEMMA LeadershipSend ==
    ASSUME IndexInv, LeadershipInv, NEW c \in appendSpawned, SendAppendEntries(c)
    PROVE  LeadershipInv'
<1>1. c.src \in Node /\ state[c.src] = "Leader"
  BY DEF IndexInv, TypeOK, AppendSpawn, SendAppendEntries
<1>2. WonTerm(c.src, currentTerm[c.src])
  BY <1>1 DEF LeadershipInv, LeaderWon
<1>3. UNCHANGED <<hop, state, currentTerm, elected>>
  BY DEF SendAppendEntries
<1>4. \A x, term : WonTerm(x, term)' <=> WonTerm(x, term)
  BY <1>3 DEF WonTerm
<1>5. \A m \in appendSent' : m \in appendSent \/ (m.src = c.src /\ m.term = currentTerm[c.src])
  BY DEF SendAppendEntries
<1>6. AppendsFromWinners'
  BY <1>2, <1>4, <1>5 DEF LeadershipInv, AppendsFromWinners
<1>7. HopWonCurrentTerm' /\ LeaderWon'
  BY <1>3, <1>4 DEF LeadershipInv, HopWonCurrentTerm, LeaderWon
<1> QED BY <1>6, <1>7 DEF LeadershipInv

(* Every step keeps the invariant. *)
LEMMA LeadershipNext ==
    ASSUME IndexInv, NoSelfCalls, LeadershipInv, [Next]_vars
    PROVE  LeadershipInv'
<1>0. TypeOK
  BY DEF IndexInv
<1>1. CASE \E n \in Node : LocalStep(n)
  <2>1. PICK n \in Node : LocalStep(n)
    BY <1>1
  <2>2. CASE NewNode(n)
    <3>1. hop[n] = Nobody
      BY <2>2 DEF NewNode, LeadershipInv, HopWonCurrentTerm
    <3>2. /\ hop'[n] = Nobody /\ state'[n] # "Leader" /\ elected' = elected
          /\ appendSent' = appendSent
          /\ \A x \in Node : x # n => /\ hop'[x] = hop[x] /\ state'[x] = state[x]
                                      /\ currentTerm'[x] = currentTerm[x]
      BY <2>2, <3>1, <1>0 DEF NewNode, TypeOK
    <3> QED BY <3>2, <1>0, LeadershipReset
  <2>3. CASE Crash(n)
    <3>1. /\ hop'[n] = Nobody /\ state'[n] # "Leader" /\ elected' = elected
          /\ appendSent' \subseteq appendSent
          /\ \A x \in Node : x # n => /\ hop'[x] = hop[x] /\ state'[x] = state[x]
                                      /\ currentTerm'[x] = currentTerm[x]
      BY <2>3, <1>0 DEF Crash, TypeOK
    <3> QED BY <3>1, <1>0, LeadershipReset
  <2>4. CASE StartCandidateVoteModule(n)
    <3>1. /\ hop'[n] = Nobody /\ state'[n] # "Leader" /\ elected' = elected
          /\ appendSent' = appendSent
          /\ \A x \in Node : x # n => /\ hop'[x] = hop[x] /\ state'[x] = state[x]
                                      /\ currentTerm'[x] = currentTerm[x]
      BY <2>4, <1>0 DEF StartCandidateVoteModule, TypeOK
    <3> QED BY <3>1, <1>0, LeadershipReset
  <2>5. CASE ~NewNode(n) /\ ~Crash(n) /\ ~StartCandidateVoteModule(n)
    <3>1. UNCHANGED <<hop, state, currentTerm, elected, appendSent>>
      BY <2>1, <2>5 DEF LocalStep, BackUpLogMemoryToDisk, HeartBeat, StartReleasePoll,
         EndReleasePoll, LogCommand, PollRelease, AppendEntry
    <3> QED BY <3>1, LeadershipFrame
  <2> QED BY <2>2, <2>3, <2>4, <2>5
<1>2. CASE CandidateVotes
  <2>1. CASE \E m \in voteSent : GrantHigherTermVote(m)
    <3>1. PICK m \in voteSent : GrantHigherTermVote(m)
      BY <2>1
    <3>2. m.dst \in Node
      BY <1>0 DEF TypeOK, VoteRequest
    <3>3. /\ hop'[m.dst] = Nobody /\ state'[m.dst] # "Leader" /\ elected' = elected
          /\ appendSent' = appendSent
          /\ \A x \in Node : x # m.dst => /\ hop'[x] = hop[x] /\ state'[x] = state[x]
                                          /\ currentTerm'[x] = currentTerm[x]
      BY <3>1, <3>2, <1>0 DEF GrantHigherTermVote, BecomeFollowerVoting, AnswerVote, TypeOK
    <3> QED BY <3>2, <3>3, <1>0, LeadershipReset
  <2>2. CASE \E r \in voteAnswered : HandleVoteHigherTerm(r)
    <3>1. PICK r \in voteAnswered : HandleVoteHigherTerm(r)
      BY <2>2
    <3>2. r.src \in Node
      BY <1>0 DEF TypeOK, VoteResponse
    <3>3. /\ hop'[r.src] = Nobody /\ state'[r.src] # "Leader" /\ elected' = elected
          /\ appendSent' = appendSent
          /\ \A x \in Node : x # r.src => /\ hop'[x] = hop[x] /\ state'[x] = state[x]
                                          /\ currentTerm'[x] = currentTerm[x]
      BY <3>1, <3>2, <1>0
         DEF HandleVoteHigherTerm, StepDown, BecomeFollower, BecomeFollowerVoting, TypeOK
    <3> QED BY <3>2, <3>3, <1>0, LeadershipReset
  <2>3. CASE \E r \in voteAnswered : \E released \in {<<>>} \cup {<<c>> : c \in Command} :
                WinElection(r, released)
    BY <2>3, LeadershipWin
  <2>4. CASE \/ \E c \in voteSpawned : SendCandidateVotes(c) \/ AbandonCandidateVotes(c)
             \/ \E m \in voteSent : AnswerSameTermVote(m)
             \/ \E r \in voteAnswered : CollectVote(r) \/ IgnoreVote(r)
             \/ LoseVoteCall
    <3>1. UNCHANGED <<hop, state, currentTerm, elected, appendSent>>
      BY <2>4 DEF SendCandidateVotes, AbandonCandidateVotes, AnswerSameTermVote, AnswerVote,
         CollectVote, IgnoreVote, LoseVoteCall
    <3> QED BY <3>1, LeadershipFrame
  <2> QED BY <1>2, <2>1, <2>2, <2>3, <2>4 DEF CandidateVotes
<1>3. CASE AppendEntries
  <2>1. CASE \E c \in appendSpawned : SendAppendEntries(c)
    BY <2>1, LeadershipSend
  <2>2. CASE \E m \in appendSent : AcceptAppend(m) \/ RefuseConflictingAppend(m)
    <3>1. PICK m \in appendSent : AcceptAppend(m) \/ RefuseConflictingAppend(m)
      BY <2>2
    <3>2. /\ m.term >= currentTerm[m.dst] /\ FollowLeader(m)
          /\ elected' = elected /\ appendSent' \subseteq appendSent
      BY <3>1 DEF AcceptAppend, RefuseConflictingAppend, AnswerAppend
    <3> QED BY <3>2, <1>0, LeadershipFollow
  <2>3. CASE \E r \in appendAnswered : HandleAppendHigherTerm(r)
    <3>1. PICK r \in appendAnswered : HandleAppendHigherTerm(r)
      BY <2>3
    <3>2. r.src \in Node
      BY <1>0 DEF TypeOK, AppendResponse
    <3>3. /\ hop'[r.src] = Nobody /\ state'[r.src] # "Leader" /\ elected' = elected
          /\ appendSent' = appendSent
          /\ \A x \in Node : x # r.src => /\ hop'[x] = hop[x] /\ state'[x] = state[x]
                                          /\ currentTerm'[x] = currentTerm[x]
      BY <3>1, <3>2, <1>0
         DEF HandleAppendHigherTerm, StepDown, BecomeFollower, BecomeFollowerVoting, TypeOK
    <3> QED BY <3>2, <3>3, <1>0, LeadershipReset
  <2>4. CASE \/ \E d \in sendDue : SendAppendEntriesToPeers(d)
             \/ \E c \in appendSpawned : AbandonAppendEntries(c)
             \/ \E m \in appendSent : RefuseObsoleteAppend(m)
             \/ \E r \in appendAnswered :
                   HandleAppendSuccess(r) \/ HandleAppendConflict(r) \/ IgnoreAppendResponse(r)
             \/ LoseAppendCall
    <3>1. UNCHANGED <<hop, state, currentTerm, elected>> /\ appendSent' \subseteq appendSent
      BY <2>4 DEF SendAppendEntriesToPeers, AbandonAppendEntries, RefuseObsoleteAppend,
         AnswerAppend, HandleAppendSuccess, HandleAppendConflict, IgnoreAppendResponse,
         LoseAppendCall
    <3> QED BY <3>1, LeadershipFrame
  <2> QED BY <1>3, <2>1, <2>2, <2>3, <2>4 DEF AppendEntries
<1>4. CASE UNCHANGED vars
  BY <1>4, LeadershipFrame DEF vars
<1> QED BY <1>1, <1>2, <1>3, <1>4 DEF Next

(* In every behaviour HopToCurrentLeaderId, to which clisrv_server.go      *)
(* redirects clients, names another node that won the election of the      *)
(* redirecting node's current term, although terms may go back and two     *)
(* nodes may win one term.                                                 *)
THEOREM RedirectsToAWinner == Spec => []HopWonCurrentTerm
<1>1. Init => LeadershipInv
  BY DEF Init, LeadershipInv, HopWonCurrentTerm, LeaderWon, AppendsFromWinners
<1>2. IndexInv /\ NoSelfCalls /\ LeadershipInv /\ [Next]_vars => LeadershipInv'
  BY LeadershipNext
<1>3. LeadershipInv => HopWonCurrentTerm
  BY DEF LeadershipInv
<1> QED BY <1>1, <1>2, <1>3, IndexInvariance, PTL DEF Spec

-----------------------------------------------------------------------------
(* A vote as CandidateVotesService grants it. *)
Vote(v, term, n) == [voter |-> v, term |-> term, cand |-> n]

(* Whom a ballot counts (itself excepted) has granted a vote of its term. *)
BallotVotesGranted ==
    \A n \in Node : \A b \in 1 .. Len(ballots[n]) : \A v \in ballots[n][b].voters :
        v # n => Vote(v, ballots[n][b].term, n) \in granted

(* A vote request carries the term of the ballot it belongs to. *)
RequestsOfBallot == \A m \in voteSent : m.term = ballots[m.src][m.ballot].term

(* A positive answer is a vote granted in the term of the ballot. *)
AnswersGranted ==
    \A r \in voteAnswered :
        r.accepted => Vote(r.dst, ballots[r.src][r.ballot].term, r.src) \in granted

(* The inductive invariant behind LeaderHasMajority: it follows a vote     *)
(* from the service that grants it through the response to the ballot that *)
(* counts it, so that the candidate's own term may change in between.      *)
VotesInv ==
    BallotVotesGranted /\ RequestsOfBallot /\ AnswersGranted /\ LeaderHasMajority

(* A step that changes no ballot and grants and counts no vote. *)
LEMMA VotesFrame ==
    ASSUME IndexInv, VotesInv, UNCHANGED <<ballots, elected, granted>>,
           voteSent' \subseteq voteSent, voteAnswered' \subseteq voteAnswered
    PROVE  VotesInv'
<1>1. BallotVotesGranted'
  BY DEF VotesInv, BallotVotesGranted
<1>2. RequestsOfBallot'
  BY DEF VotesInv, RequestsOfBallot
<1>3. AnswersGranted'
  BY DEF VotesInv, AnswersGranted
<1>4. LeaderHasMajority'
  BY DEF VotesInv, LeaderHasMajority
<1> QED BY <1>1, <1>2, <1>3, <1>4 DEF VotesInv

(* A crash forgets the ballots of a node together with their calls. *)
LEMMA VotesCrash ==
    ASSUME IndexInv, VotesInv, NEW n \in Node, Crash(n)
    PROVE  VotesInv'
<1>1. /\ ballots'[n] = <<>> /\ \A x \in Node : x # n => ballots'[x] = ballots[x]
      /\ UNCHANGED <<elected, granted>>
  BY DEF Crash, IndexInv, TypeOK
<1>2. BallotVotesGranted'
  <2>1. Len(ballots'[n]) = 0
    BY <1>1
  <2> QED BY <1>1, <2>1 DEF VotesInv, BallotVotesGranted
<1>3. RequestsOfBallot'
  BY <1>1 DEF VotesInv, RequestsOfBallot, Crash, IndexInv, TypeOK, VoteRequest
<1>4. AnswersGranted'
  BY <1>1 DEF VotesInv, AnswersGranted, Crash, IndexInv, TypeOK, VoteResponse
<1>5. LeaderHasMajority'
  BY <1>1 DEF VotesInv, LeaderHasMajority
<1> QED BY <1>2, <1>3, <1>4, <1>5 DEF VotesInv

(* A new ballot starts with the candidate's own vote. *)
LEMMA VotesStart ==
    ASSUME IndexInv, VotesInv, NEW n \in Node, StartCandidateVoteModule(n)
    PROVE  VotesInv'
<1> DEFINE ballot == [term |-> currentTerm[n] + 1, voters |-> {n}]
<1>1. ballots[n] \in Seq(Ballot) /\ Len(ballots[n]) \in Nat /\ ballot \in Ballot
  <2>1. ballots[n] \in Seq(Ballot)
    BY DEF IndexInv, TypeOK
  <2>2. ballot \in Ballot
    BY DEF IndexInv, TypeOK, Ballot
  <2> HIDE DEF ballot
  <2> QED BY <2>1, <2>2, LenProperties
<1>2. /\ ballots'[n] = Append(ballots[n], ballot)
      /\ \A x \in Node : x # n => ballots'[x] = ballots[x]
      /\ UNCHANGED <<elected, granted, voteSent, voteAnswered>>
  BY DEF StartCandidateVoteModule, IndexInv, TypeOK
<1>3. /\ Len(ballots'[n]) = Len(ballots[n]) + 1
      /\ \A i \in 1 .. Len(ballots[n]) : ballots'[n][i] = ballots[n][i]
      /\ ballots'[n][Len(ballots[n]) + 1] = ballot
  BY <1>1, <1>2, AppendProperties
<1>4. ballot.voters = {n}
  OBVIOUS
<1> HIDE DEF ballot
<1>5. BallotVotesGranted'
  <2> SUFFICES ASSUME NEW x \in Node, NEW b \in 1 .. Len(ballots'[x]),
                      NEW v \in ballots'[x][b].voters, v # x
               PROVE  Vote(v, ballots'[x][b].term, x) \in granted'
    BY DEF BallotVotesGranted, Vote
  <2>1. CASE x # n
    BY <2>1, <1>2 DEF VotesInv, BallotVotesGranted
  <2>2. CASE x = n /\ b \in 1 .. Len(ballots[n])
    BY <2>2, <1>2, <1>3 DEF VotesInv, BallotVotesGranted
  <2>3. CASE x = n /\ b = Len(ballots[n]) + 1
    BY <2>3, <1>3, <1>4
  <2> QED BY <2>1, <2>2, <2>3, <1>1, <1>3
<1>6. \A x \in Node : \A b \in 1 .. Len(ballots[x]) : ballots'[x][b] = ballots[x][b]
  BY <1>2, <1>3
<1>7. RequestsOfBallot'
  <2>1. \A m \in voteSent : m.src \in Node /\ m.ballot \in 1 .. Len(ballots[m.src])
    BY DEF IndexInv, TypeOK, BallotsExist, VoteRequest
  <2> QED BY <2>1, <1>2, <1>6 DEF VotesInv, RequestsOfBallot
<1>8. AnswersGranted'
  <2>1. \A r \in voteAnswered : r.src \in Node /\ r.ballot \in 1 .. Len(ballots[r.src])
    BY DEF IndexInv, TypeOK, BallotsExist, VoteResponse
  <2> QED BY <2>1, <1>2, <1>6 DEF VotesInv, AnswersGranted, Vote
<1>9. LeaderHasMajority'
  BY <1>2 DEF VotesInv, LeaderHasMajority
<1> QED BY <1>5, <1>7, <1>8, <1>9 DEF VotesInv

(* Requests are built from the ballot. *)
LEMMA VotesSend ==
    ASSUME IndexInv, VotesInv, NEW c \in voteSpawned, SendCandidateVotes(c)
    PROVE  VotesInv'
<1>1. UNCHANGED <<ballots, elected, granted, voteAnswered>>
  BY DEF SendCandidateVotes
<1>2. BallotVotesGranted' /\ AnswersGranted' /\ LeaderHasMajority'
  BY <1>1 DEF VotesInv, BallotVotesGranted, AnswersGranted, LeaderHasMajority, Vote
<1>3. RequestsOfBallot'
  BY <1>1 DEF VotesInv, RequestsOfBallot, SendCandidateVotes
<1> QED BY <1>2, <1>3 DEF VotesInv

(* CandidateVotesService records every vote it answers with. *)
LEMMA VotesAnswer ==
    ASSUME IndexInv, VotesInv, NEW m \in voteSent,
           GrantHigherTermVote(m) \/ AnswerSameTermVote(m)
    PROVE  VotesInv'
<1>1. /\ m.src \in Node /\ m.dst \in Node
      /\ m.term = ballots[m.src][m.ballot].term
  BY DEF IndexInv, TypeOK, VoteRequest, VotesInv, RequestsOfBallot
<1>2. PICK term, accepted : AnswerVote(m, term, accepted)
  BY DEF GrantHigherTermVote, AnswerSameTermVote
<1>3. /\ UNCHANGED <<ballots, elected>>
      /\ granted \subseteq granted'
      /\ accepted => Vote(m.dst, m.term, m.src) \in granted'
      /\ voteSent' \subseteq voteSent
  BY <1>2 DEF AnswerVote, Vote
<1>4. \A r \in voteAnswered' :
         \/ r \in voteAnswered
         \/ r.src = m.src /\ r.dst = m.dst /\ r.ballot = m.ballot /\ r.accepted = accepted
  BY <1>2 DEF AnswerVote
<1>5. BallotVotesGranted'
  BY <1>3 DEF VotesInv, BallotVotesGranted, Vote
<1>6. RequestsOfBallot'
  BY <1>3 DEF VotesInv, RequestsOfBallot
<1>7. AnswersGranted'
  BY <1>1, <1>3, <1>4 DEF VotesInv, AnswersGranted, Vote
<1>8. LeaderHasMajority'
  BY <1>3 DEF VotesInv, LeaderHasMajority
<1> QED BY <1>5, <1>6, <1>7, <1>8 DEF VotesInv

(* Counting a response keeps the facts about ballots and calls, and all    *)
(* votes counted (but the candidate's own) have been granted.              *)
LEMMA VotesCount ==
    ASSUME IndexInv, VotesInv, NEW r \in voteAnswered,
           ballots' = [ballots EXCEPT ![r.src][r.ballot].voters = CollectedVotes(r)],
           voteAnswered' = voteAnswered \ {r}, UNCHANGED <<voteSent, granted>>
    PROVE  /\ BallotVotesGranted' /\ RequestsOfBallot' /\ AnswersGranted'
           /\ \A v \in CollectedVotes(r) \ {r.src} :
                 Vote(v, ballots[r.src][r.ballot].term, r.src) \in granted
<1>1. r.src \in Node /\ r.ballot \in 1 .. Len(ballots[r.src]) /\ CollectedVotes(r) \in SUBSET Node
  BY CollectedVotesType
<1>2. \A v \in CollectedVotes(r) \ {r.src} : Vote(v, ballots[r.src][r.ballot].term, r.src) \in granted
  BY <1>1 DEF CollectedVotes, VotesInv, BallotVotesGranted, AnswersGranted
<1>3. /\ \A x \in Node : Len(ballots'[x]) = Len(ballots[x])
      /\ \A x \in Node : \A i \in 1 .. Len(ballots[x]) :
            /\ ballots'[x][i].term = ballots[x][i].term
            /\ x = r.src /\ i = r.ballot => ballots'[x][i].voters = CollectedVotes(r)
            /\ x # r.src \/ i # r.ballot => ballots'[x][i].voters = ballots[x][i].voters
  <2>1. ballots[r.src] \in Seq(Ballot) /\ ballots[r.src][r.ballot] \in Ballot
    BY <1>1, LogLengths, BallotType DEF IndexInv
  <2>2. ballots'[r.src] = [ballots[r.src] EXCEPT ![r.ballot].voters = CollectedVotes(r)]
    BY <1>1 DEF IndexInv, TypeOK
  <2>3. ballots'[r.src][r.ballot] = [ballots[r.src][r.ballot] EXCEPT !.voters = CollectedVotes(r)]
    BY <1>1, <2>1, <2>2
  <2>4. ballots'[r.src][r.ballot].voters = CollectedVotes(r)
    BY <2>1, <2>3 DEF Ballot
  <2>5. \A x \in Node : Len(ballots'[x]) = Len(ballots[x])
    BY <1>1, VotesCounted DEF IndexInv
  <2>6. \A x \in Node : \A i \in 1 .. Len(ballots[x]) :
           ballots'[x][i].term = ballots[x][i].term
    BY <1>1, VotesCounted DEF IndexInv
  <2>7. \A x \in Node : \A i \in 1 .. Len(ballots[x]) :
           x # r.src \/ i # r.ballot => ballots'[x][i].voters = ballots[x][i].voters
    BY <1>1, VotesCounted DEF IndexInv
  <2> QED BY <2>4, <2>5, <2>6, <2>7
<1>4. BallotVotesGranted'
  <2> SUFFICES ASSUME NEW x \in Node, NEW i \in 1 .. Len(ballots'[x]),
                      NEW v \in ballots'[x][i].voters, v # x
               PROVE  Vote(v, ballots'[x][i].term, x) \in granted'
    BY DEF BallotVotesGranted, Vote
  <2>0. i \in 1 .. Len(ballots[x]) /\ ballots'[x][i].term = ballots[x][i].term
    BY <1>3
  <2>1. CASE x = r.src /\ i = r.ballot
    BY <2>0, <2>1, <1>2, <1>3
  <2>2. CASE ~(x = r.src /\ i = r.ballot)
    BY <2>0, <2>2, <1>3 DEF VotesInv, BallotVotesGranted
  <2> QED BY <2>1, <2>2
<1>5. RequestsOfBallot'
  <2>1. \A m \in voteSent : m.src \in Node /\ m.ballot \in 1 .. Len(ballots[m.src])
    BY DEF IndexInv, TypeOK, BallotsExist, VoteRequest
  <2> QED BY <2>1, <1>3 DEF VotesInv, RequestsOfBallot
<1>6. AnswersGranted'
  <2>1. \A a \in voteAnswered : a.src \in Node /\ a.ballot \in 1 .. Len(ballots[a.src])
    BY DEF IndexInv, TypeOK, BallotsExist, VoteResponse
  <2> QED BY <2>1, <1>3 DEF VotesInv, AnswersGranted, Vote
<1> QED BY <1>2, <1>4, <1>5, <1>6

(* An election is won by a majority of votes of the current term, because  *)
(* only in-time responses are counted.                                     *)
LEMMA VotesWin ==
    ASSUME IndexInv, VotesInv, NEW r \in voteAnswered, NEW released, WinElection(r, released)
    PROVE  VotesInv'
<1> DEFINE e == [term |-> currentTerm[r.src], node |-> r.src, voters |-> CollectedVotes(r)]
<1>1. /\ BallotVotesGranted' /\ RequestsOfBallot' /\ AnswersGranted'
      /\ \A v \in CollectedVotes(r) \ {r.src} :
            Vote(v, ballots[r.src][r.ballot].term, r.src) \in granted
  BY VotesCount DEF WinElection
<1>2. /\ currentTerm[r.src] = ballots[r.src][r.ballot].term
      /\ 2 * Cardinality(CollectedVotes(r)) > Cardinality(Node)
      /\ elected' = elected \cup {e} /\ granted' = granted
  BY DEF WinElection, BecomeLeader, InTimeVote, IsMajority
<1>3. /\ 2 * Cardinality(e.voters) > Cardinality(Node)
      /\ \A v \in e.voters \ {e.node} :
            [voter |-> v, term |-> e.term, cand |-> e.node] \in granted
  BY <1>1, <1>2 DEF Vote
<1>4. LeaderHasMajority'
  <2> HIDE DEF e
  <2> SUFFICES ASSUME NEW d \in elected'
               PROVE  /\ 2 * Cardinality(d.voters) > Cardinality(Node)
                      /\ \A v \in d.voters \ {d.node} :
                            [voter |-> v, term |-> d.term, cand |-> d.node] \in granted
    BY <1>2 DEF LeaderHasMajority
  <2>1. CASE d = e
    BY <2>1, <1>3
  <2>2. CASE d \in elected
    BY <2>2 DEF VotesInv, LeaderHasMajority
  <2> QED BY <2>1, <2>2, <1>2
<1> QED BY <1>1, <1>4 DEF VotesInv

(* Every step keeps the invariant. *)
LEMMA VotesNext ==
    ASSUME IndexInv, VotesInv, [Next]_vars
    PROVE  VotesInv'
<1>1. CASE \E n \in Node : LocalStep(n)
  <2>1. PICK n \in Node : LocalStep(n)
    BY <1>1
  <2>2. CASE Crash(n)
    BY <2>2, VotesCrash
  <2>3. CASE StartCandidateVoteModule(n)
    BY <2>3, VotesStart
  <2>4. CASE ~Crash(n) /\ ~StartCandidateVoteModule(n)
    <3>1. UNCHANGED <<ballots, elected, granted, voteSent, voteAnswered>>
      BY <2>1, <2>4 DEF LocalStep, NewNode, BackUpLogMemoryToDisk, HeartBeat,
         StartReleasePoll, EndReleasePoll, LogCommand, PollRelease, AppendEntry
    <3> QED BY <3>1, VotesFrame
  <2> QED BY <2>2, <2>3, <2>4
<1>2. CASE CandidateVotes
  <2>1. CASE \E c \in voteSpawned : SendCandidateVotes(c)
    BY <2>1, VotesSend
  <2>2. CASE \E m \in voteSent : GrantHigherTermVote(m) \/ AnswerSameTermVote(m)
    BY <2>2, VotesAnswer
  <2>3. CASE \E r \in voteAnswered : CollectVote(r)
    <3>1. PICK r \in voteAnswered : CollectVote(r)
      BY <2>3
    <3>2. BallotVotesGranted' /\ RequestsOfBallot' /\ AnswersGranted'
      BY <3>1, VotesCount DEF CollectVote
    <3>3. LeaderHasMajority'
      BY <3>1 DEF CollectVote, VotesInv, LeaderHasMajority
    <3> QED BY <3>2, <3>3 DEF VotesInv
  <2>4. CASE \E r \in voteAnswered : \E released \in {<<>>} \cup {<<c>> : c \in Command} :
                WinElection(r, released)
    BY <2>4, VotesWin
  <2>5. CASE \/ \E c \in voteSpawned : AbandonCandidateVotes(c)
             \/ \E r \in voteAnswered : HandleVoteHigherTerm(r) \/ IgnoreVote(r)
             \/ LoseVoteCall
    <3>1. /\ UNCHANGED <<ballots, elected, granted>>
          /\ voteSent' \subseteq voteSent /\ voteAnswered' \subseteq voteAnswered
      BY <2>5 DEF AbandonCandidateVotes, HandleVoteHigherTerm, IgnoreVote, LoseVoteCall
    <3> QED BY <3>1, VotesFrame
  <2> QED BY <1>2, <2>1, <2>2, <2>3, <2>4, <2>5 DEF CandidateVotes
<1>3. CASE AppendEntries
  <2>1. UNCHANGED <<ballots, elected, granted, voteSent, voteAnswered>>
    BY <1>3 DEF AppendEntries, SendAppendEntriesToPeers, SendAppendEntries,
       AbandonAppendEntries, RefuseObsoleteAppend, AcceptAppend, RefuseConflictingAppend,
       AnswerAppend, HandleAppendHigherTerm, HandleAppendSuccess, HandleAppendConflict,
       IgnoreAppendResponse, LoseAppendCall
  <2> QED BY <2>1, VotesFrame
<1>4. CASE UNCHANGED vars
  BY <1>4, VotesFrame DEF vars
<1> QED BY <1>1, <1>2, <1>3, <1>4 DEF Next

(* In every behaviour each leader of a term was granted votes of exactly   *)
(* that term by a majority of the nodes (StartCandidateVoteModule in       *)
(* node.go, CandidateVotesService in p2p_server.go), for any number of     *)
(* nodes, crashes and late responses.                                      *)
THEOREM EveryLeaderHadMajority == Spec => []LeaderHasMajority
<1>1. Init => VotesInv
  BY DEF Init, VotesInv, BallotVotesGranted, RequestsOfBallot, AnswersGranted,
         LeaderHasMajority
<1>2. IndexInv /\ VotesInv /\ [Next]_vars => VotesInv'
  BY VotesNext
<1>3. VotesInv => LeaderHasMajority
  BY DEF VotesInv
<1> QED BY <1>1, <1>2, <1>3, IndexInvariance, PTL DEF Spec

-----------------------------------------------------------------------------
(* One leader of a term *)

(* Two majorities have a node in common. *)
LEMMA MajoritiesMeet ==
    ASSUME NEW A \in SUBSET Node, NEW B \in SUBSET Node,
           2 * Cardinality(A) > Cardinality(Node), 2 * Cardinality(B) > Cardinality(Node)
    PROVE  \E v \in Node : v \in A /\ v \in B
<1>1. /\ IsFiniteSet(Node) /\ Cardinality(Node) \in Nat
      /\ Cardinality(A) \in Nat /\ Cardinality(B) \in Nat
  BY NodeAssumption, FS_CardinalityType, FS_Subset
<1>2. Cardinality(A) + Cardinality(B) > Cardinality(Node)
  BY <1>1
<1> QED BY <1>1, <1>2, FS_MajoritiesIntersect

(* Every node has one vote in a term, and who is elected gave it to itself. *)
OneVotePerTerm ==
    /\ \A g, h \in granted : g.voter = h.voter /\ g.term = h.term => g.cand = h.cand
    /\ \A g \in granted, e \in elected : g.voter = e.node => g.term # e.term

(* Votes given twice are all that can give a term two leaders: in every    *)
(* behaviour, with crashes, terms that go back and late answers, the term  *)
(* has one leader as long as CandidateVotesService has given no second     *)
(* vote in a term.  raft_two_leaders and raft_term_back are the ways in    *)
(* which it does.                                                          *)
THEOREM OneVoteOneLeader == Spec => [](OneVotePerTerm => OneLeaderPerTerm)
<1>1. TypeOK /\ LeaderHasMajority => (OneVotePerTerm => OneLeaderPerTerm)
  <2> SUFFICES ASSUME TypeOK, LeaderHasMajority, OneVotePerTerm,
                      NEW d \in elected, NEW e \in elected, d.term = e.term, d.node # e.node
               PROVE  FALSE
    BY DEF OneLeaderPerTerm
  <2>1. PICK v \in Node : v \in d.voters /\ v \in e.voters
    BY MajoritiesMeet DEF TypeOK, LeaderHasMajority
  <2>2. v # d.node => Vote(v, d.term, d.node) \in granted
    BY <2>1 DEF LeaderHasMajority, Vote
  <2>3. v # e.node => Vote(v, d.term, e.node) \in granted
    BY <2>1 DEF LeaderHasMajority, Vote
  <2> QED BY <2>2, <2>3 DEF OneVotePerTerm, Vote
<1> QED BY <1>1, TypeCorrect, EveryLeaderHadMajority, PTL

-----------------------------------------------------------------------------
(* The first term *)

(* The first term in which a node can be a candidate. *)
FirstTerm == FreshTerm + 1

(* Without crashes nobody comes back to the term before the first: what    *)
(* sends a node back (StepDown) names a term above that of an earlier      *)
(* ballot, or of an earlier leadership, of the node.                       *)
NodeFloor(n) ==
    /\ currentTerm[n] >= FreshTerm
    /\ state[n] \in {"Candidate", "Leader"} => currentTerm[n] >= FirstTerm
    /\ state[n] = "Dead" => currentTerm[n] = FreshTerm /\ disk[n] = <<>>

BallotFloor == \A n \in Node : \A b \in 1 .. Len(ballots[n]) : ballots[n][b].term >= FirstTerm

SendFloor == \A d \in sendDue : state[d.src] # "Dead" /\ currentTerm[d.src] >= FirstTerm

StartFloor ==
    \A c \in appendSpawned \cup appendSent \cup appendAnswered : c.start >= FirstTerm

TermFloor == (\A n \in Node : NodeFloor(n)) /\ BallotFloor /\ SendFloor /\ StartFloor

(* A step without new ballots, in which nodes keep their role and term or  *)
(* become followers of a term that is not lower, or not below the first.   *)
LEMMA FloorFrame ==
    ASSUME TypeOK, TypeOK', TermFloor, ballots' = ballots, sendDue' \subseteq sendDue,
           \A n \in Node : disk'[n] = disk[n] \/ state[n] # "Dead",
           StartFloor',
           \A n \in Node : \/ state'[n] = state[n] /\ currentTerm'[n] = currentTerm[n]
                           \/ /\ state[n] # "Dead" /\ state'[n] = "Follower"
                              /\ \/ currentTerm'[n] >= currentTerm[n]
                                 \/ currentTerm'[n] >= FirstTerm
    PROVE  TermFloor'
<1>1. \A n \in Node : currentTerm[n] \in Nat /\ currentTerm'[n] \in Nat
  BY DEF TypeOK
<1>2. \A n \in Node : NodeFloor(n)'
  BY <1>1 DEF TermFloor, NodeFloor, FirstTerm, FreshTerm
<1>3. BallotFloor'
  BY DEF TermFloor, BallotFloor
<1>4. SendFloor'
  <2>1. \A d \in sendDue : d.src \in Node
    BY DEF TypeOK, SendDue
  <2> QED BY <1>1, <2>1 DEF TermFloor, SendFloor, FirstTerm, FreshTerm
<1> QED BY <1>2, <1>3, <1>4 DEF TermFloor

(* A candidacy is of the first term or a later one. *)
LEMMA FloorStart ==
    ASSUME IndexInv, IndexInv', TermFloor, NEW n \in Node, StartCandidateVoteModule(n)
    PROVE  TermFloor'
<1>0. /\ TypeOK /\ TypeOK' /\ currentTerm[n] \in Nat
      /\ ballots[n] \in Seq(Ballot) /\ Len(ballots[n]) \in Nat
  BY LogLengths DEF IndexInv, TypeOK
<1> DEFINE b == [term |-> currentTerm[n] + 1, voters |-> {n}]
<1>1. /\ currentTerm'[n] = currentTerm[n] + 1 /\ state'[n] = "Candidate" /\ state[n] # "Dead"
      /\ \A x \in Node : x # n => state'[x] = state[x] /\ currentTerm'[x] = currentTerm[x]
      /\ ballots'[n] = Append(ballots[n], b)
      /\ \A x \in Node : x # n => ballots'[x] = ballots[x]
      /\ UNCHANGED <<disk, appendCalls>>
  BY <1>0 DEF StartCandidateVoteModule, TypeOK
<1>2. currentTerm[n] >= FreshTerm
  BY DEF TermFloor, NodeFloor
<1>3. \A x \in Node : NodeFloor(x)'
  BY <1>0, <1>1, <1>2 DEF TermFloor, NodeFloor, FirstTerm, FreshTerm
<1>4. BallotFloor'
  <2> SUFFICES ASSUME NEW i \in 1 .. Len(ballots'[n]) PROVE ballots'[n][i].term >= FirstTerm
    BY <1>1 DEF TermFloor, BallotFloor
  <2>1. b.term >= FirstTerm
    BY <1>0, <1>2 DEF FirstTerm, FreshTerm
  <2>2. b \in Ballot
    BY <1>0 DEF Ballot
  <2> HIDE DEF b
  <2>3. /\ Len(Append(ballots[n], b)) = Len(ballots[n]) + 1
        /\ \A j \in 1 .. Len(ballots[n]) : Append(ballots[n], b)[j] = ballots[n][j]
        /\ Append(ballots[n], b)[Len(ballots[n]) + 1] = b
    BY <1>0, <2>2, AppendProperties
  <2>4. CASE i \in 1 .. Len(ballots[n])
    BY <1>1, <2>3, <2>4 DEF TermFloor, BallotFloor
  <2>5. CASE i = Len(ballots[n]) + 1
    BY <1>1, <2>1, <2>3, <2>5
  <2> QED BY <1>0, <1>1, <2>3, <2>4, <2>5
<1>5. SendFloor'
  <2>1. \A d \in sendDue : d.src \in Node
    BY <1>0 DEF TypeOK, SendDue
  <2> QED BY <1>0, <1>1, <2>1 DEF TermFloor, SendFloor, FirstTerm, FreshTerm
<1>6. StartFloor'
  BY <1>1 DEF TermFloor, StartFloor
<1> QED BY <1>3, <1>4, <1>5, <1>6 DEF TermFloor

(* Counting a vote leaves the terms of the ballots alone. *)
LEMMA FloorCount ==
    ASSUME IndexInv, IndexInv', TermFloor, NEW r \in voteAnswered,
           ballots' = [ballots EXCEPT ![r.src][r.ballot].voters = CollectedVotes(r)]
    PROVE  BallotFloor'
<1>1. r.src \in Node /\ r.ballot \in 1 .. Len(ballots[r.src]) /\ TypeOK
  BY DEF IndexInv, BallotsExist, TypeOK, VoteResponse
<1>2. /\ ballots[r.src] \in Seq(Ballot)
      /\ \A x \in Node : x # r.src => ballots'[x] = ballots[x]
      /\ ballots'[r.src] = [ballots[r.src] EXCEPT ![r.ballot].voters = CollectedVotes(r)]
  BY <1>1 DEF TypeOK
<1>3. Len(ballots'[r.src]) = Len(ballots[r.src])
  BY <1>1, <1>2
<1>4. \A b \in 1 .. Len(ballots[r.src]) : ballots'[r.src][b].term = ballots[r.src][b].term
  <2>1. \A b \in 1 .. Len(ballots[r.src]) : ballots[r.src][b] \in Ballot
    BY <1>2, ElementOfSeq
  <2> QED BY <1>1, <1>2, <2>1 DEF Ballot
<1> QED BY <1>2, <1>3, <1>4 DEF TermFloor, BallotFloor

(* A process that died is counted for ever. *)
LEMMA NobodyCrashed ==
    ASSUME TypeOK, [Next]_vars, crashes' = 0
    PROVE  crashes = 0 /\ \A n \in Node : ~Crash(n)
<1>1. crashes \in Nat
  BY DEF TypeOK
<1>2. \A n \in Node : ~Crash(n)
  BY <1>1 DEF Crash
<1>3. CASE \E n \in Node : LocalStep(n)
  BY <1>2, <1>3 DEF LocalStep, NewNode, BackUpLogMemoryToDisk, StartCandidateVoteModule,
     HeartBeat, StartReleasePoll, EndReleasePoll, LogCommand, PollRelease, AppendEntry
<1>4. CASE CandidateVotes
  BY <1>2, <1>4 DEF CandidateVotes, SendCandidateVotes, AbandonCandidateVotes, GrantHigherTermVote,
     AnswerSameTermVote, AnswerVote, HandleVoteHigherTerm, CollectVote, IgnoreVote,
     WinElection, LoseVoteCall
<1>5. CASE AppendEntries
  BY <1>2, <1>5 DEF AppendEntries, SendAppendEntriesToPeers, SendAppendEntries,
     AbandonAppendEntries, RefuseObsoleteAppend, AcceptAppend, RefuseConflictingAppend,
     AnswerAppend, HandleAppendHigherTerm, HandleAppendSuccess, HandleAppendConflict,
     IgnoreAppendResponse, LoseAppendCall
<1>6. CASE UNCHANGED vars
  BY <1>2, <1>6 DEF vars
<1> QED BY <1>2, <1>3, <1>4, <1>5, <1>6 DEF Next

(* What a message in either direction does to the role and term of a node. *)
LEMMA FollowStep ==
    ASSUME TypeOK, NEW m, m.dst \in Node, m.term \in Nat, FollowLeader(m),
           m.term >= currentTerm[m.dst]
    PROVE  /\ \A x \in Node : x # m.dst => /\ state'[x] = state[x] /\ votedPeer'[x] = votedPeer[x]
                                           /\ currentTerm'[x] = currentTerm[x]
           /\ currentTerm'[m.dst] = m.term /\ state'[m.dst] = "Follower"
           /\ \/ m.term = currentTerm[m.dst] /\ state[m.dst] = "Follower"
                 /\ votedPeer'[m.dst] = votedPeer[m.dst]
              \/ /\ m.term > currentTerm[m.dst] \/ state[m.dst] # "Follower"
                 /\ votedPeer'[m.dst] = Nobody
<1>1. currentTerm[m.dst] \in Nat
  BY DEF TypeOK
<1>2. CASE m.term > currentTerm[m.dst] \/ state[m.dst] # "Follower"
  BY <1>2 DEF FollowLeader, BecomeFollower, BecomeFollowerVoting, TypeOK
<1>3. CASE ~(m.term > currentTerm[m.dst] \/ state[m.dst] # "Follower")
  <2>1. m.term = currentTerm[m.dst]
    BY <1>1, <1>3
  <2> QED BY <1>3, <2>1 DEF FollowLeader
<1> QED BY <1>2, <1>3

(* Every step keeps the floor as long as no process dies. *)
LEMMA FloorNext ==
    ASSUME IndexInv, IndexInv', TermFloor, [Next]_vars, crashes' = 0
    PROVE  TermFloor'
<1>0. TypeOK /\ TypeOK' /\ \A n \in Node : ~Crash(n)
  BY NobodyCrashed DEF IndexInv
<1>1. StartFloor
  BY DEF TermFloor
<1>2. CASE \E n \in Node : LocalStep(n)
  <2>1. PICK n \in Node : LocalStep(n)
    BY <1>2
  <2>2. CASE NewNode(n)
    <3>1. state[n] = "Dead" /\ currentTerm[n] = FreshTerm /\ disk[n] = <<>>
      BY <2>2 DEF NewNode, TermFloor, NodeFloor
    <3>2. /\ currentTerm'[n] = FreshTerm /\ state'[n] = "Follower"
          /\ \A x \in Node : x # n => state'[x] = state[x] /\ currentTerm'[x] = currentTerm[x]
          /\ UNCHANGED <<disk, ballots, appendCalls>>
      BY <2>2, <3>1, <1>0 DEF NewNode, TypeOK
    <3>3. \A x \in Node : NodeFloor(x)'
      BY <3>2 DEF TermFloor, NodeFloor, FreshTerm
    <3>4. BallotFloor' /\ StartFloor'
      BY <3>2 DEF TermFloor, BallotFloor, StartFloor
    <3>5. SendFloor'
      <4>1. \A d \in sendDue : d.src \in Node /\ d.src # n
        BY <1>0, <3>1 DEF TypeOK, SendDue, TermFloor, SendFloor
      <4> QED BY <3>2, <4>1 DEF TermFloor, SendFloor
    <3> QED BY <3>3, <3>4, <3>5 DEF TermFloor
  <2>3. CASE StartCandidateVoteModule(n)
    BY <2>3, FloorStart
  <2>4. CASE HeartBeat(n)
    <3>1. /\ UNCHANGED <<state, currentTerm, disk, ballots>>
          /\ UNCHANGED <<appendSpawned, appendSent, appendAnswered>>
          /\ state[n] = "Leader" /\ sendDue' = sendDue \cup {[src |-> n, peers |-> Peers(n)]}
      BY <2>4 DEF HeartBeat
    <3>2. currentTerm[n] >= FirstTerm
      BY <3>1 DEF TermFloor, NodeFloor
    <3>3. (\A x \in Node : NodeFloor(x)') /\ BallotFloor' /\ StartFloor'
      BY <3>1 DEF TermFloor, NodeFloor, BallotFloor, StartFloor
    <3>4. SendFloor'
      BY <3>1, <3>2 DEF TermFloor, SendFloor
    <3> QED BY <3>3, <3>4 DEF TermFloor
  <2>5. CASE ~NewNode(n) /\ ~StartCandidateVoteModule(n) /\ ~HeartBeat(n)
    <3>1. UNCHANGED <<state, currentTerm, ballots, appendCalls>>
      BY <1>0, <2>1, <2>5 DEF LocalStep, BackUpLogMemoryToDisk, StartReleasePoll,
         EndReleasePoll, LogCommand, PollRelease, AppendEntry
    <3>2. \A x \in Node : disk'[x] = disk[x] \/ state[x] # "Dead"
      BY <1>0, <2>1, <2>5 DEF LocalStep, BackUpLogMemoryToDisk, StartReleasePoll,
         EndReleasePoll, LogCommand, PollRelease, AppendEntry, TypeOK
    <3>3. StartFloor'
      BY <1>1, <3>1 DEF StartFloor
    <3> QED BY <1>0, <3>1, <3>2, <3>3, FloorFrame
  <2> QED BY <1>0, <2>2, <2>3, <2>4, <2>5
<1>3. CASE CandidateVotes
  <2>0. UNCHANGED <<disk, appendCalls>>
    BY <1>3 DEF CandidateVotes, SendCandidateVotes, AbandonCandidateVotes, GrantHigherTermVote,
       AnswerSameTermVote, AnswerVote, HandleVoteHigherTerm, CollectVote, IgnoreVote,
       WinElection, LoseVoteCall
  <2>1. StartFloor'
    BY <1>1, <2>0 DEF StartFloor
  <2>2. CASE \E m \in voteSent : GrantHigherTermVote(m)
    <3>1. PICK m \in voteSent : GrantHigherTermVote(m)
      BY <2>2
    <3>2. m.dst \in Node /\ m.term \in Nat /\ currentTerm[m.dst] \in Nat
      BY <1>0 DEF TypeOK, VoteRequest
    <3>3. /\ ballots' = ballots /\ state[m.dst] # "Dead" /\ state'[m.dst] = "Follower"
          /\ currentTerm'[m.dst] = m.term /\ m.term > currentTerm[m.dst]
          /\ \A x \in Node : x # m.dst => state'[x] = state[x] /\ currentTerm'[x] = currentTerm[x]
      BY <3>1, <3>2, <1>0 DEF GrantHigherTermVote, BecomeFollowerVoting, AnswerVote, TypeOK
    <3>4. currentTerm'[m.dst] >= currentTerm[m.dst]
      BY <3>2, <3>3
    <3> QED BY <1>0, <2>0, <2>1, <3>3, <3>4, FloorFrame
  <2>3. CASE \E r \in voteAnswered : HandleVoteHigherTerm(r)
    <3>1. PICK r \in voteAnswered : HandleVoteHigherTerm(r)
      BY <2>3
    <3>2. /\ r.src \in Node /\ r.term \in Nat /\ r.ballot \in 1 .. Len(ballots[r.src])
          /\ ballots[r.src] \in Seq(Ballot)
      BY <1>0 DEF TypeOK, VoteResponse, IndexInv, BallotsExist
    <3>3. ballots[r.src][r.ballot].term >= FirstTerm /\ ballots[r.src][r.ballot].term \in Nat
      <4>1. ballots[r.src][r.ballot] \in Ballot
        BY <3>2, ElementOfSeq
      <4> QED BY <3>2, <4>1 DEF TermFloor, BallotFloor, Ballot
    <3>4. /\ ballots' = ballots /\ state[r.src] # "Dead" /\ state'[r.src] = "Follower"
          /\ currentTerm'[r.src] = r.term /\ r.term > ballots[r.src][r.ballot].term
          /\ \A x \in Node : x # r.src => state'[x] = state[x] /\ currentTerm'[x] = currentTerm[x]
      BY <3>1, <3>2, <1>0
         DEF HandleVoteHigherTerm, StepDown, BecomeFollower, BecomeFollowerVoting, TypeOK
    <3>5. currentTerm'[r.src] >= FirstTerm
      BY <3>2, <3>3, <3>4 DEF FirstTerm, FreshTerm
    <3> QED BY <1>0, <2>0, <2>1, <3>4, <3>5, FloorFrame
  <2>4. CASE \E r \in voteAnswered : \E released \in {<<>>} \cup {<<c>> : c \in Command} :
                WinElection(r, released)
    <3>1. PICK r \in voteAnswered : \E released : WinElection(r, released)
      BY <2>4
    <3>2. r.src \in Node
      BY <1>0 DEF TypeOK, VoteResponse
    <3>3. /\ state[r.src] = "Candidate" /\ currentTerm' = currentTerm
          /\ ballots' = [ballots EXCEPT ![r.src][r.ballot].voters = CollectedVotes(r)]
          /\ state' = [state EXCEPT ![r.src] = "Leader"]
      BY <3>1 DEF WinElection, InTimeVote, BecomeLeader
    <3>4. BallotFloor'
      BY <3>3, FloorCount
    <3>5. \A x \in Node : state'[x] = IF x = r.src THEN "Leader" ELSE state[x]
      BY <1>0, <3>2, <3>3 DEF TypeOK
    <3>6. \A x \in Node : NodeFloor(x)'
      BY <2>0, <3>3, <3>5 DEF TermFloor, NodeFloor
    <3>7. SendFloor'
      <4>1. \A d \in sendDue : d.src \in Node
        BY <1>0 DEF TypeOK, SendDue
      <4> QED BY <2>0, <3>3, <3>5, <4>1 DEF TermFloor, SendFloor
    <3> QED BY <2>1, <3>4, <3>6, <3>7 DEF TermFloor
  <2>5. CASE \E r \in voteAnswered : CollectVote(r)
    <3>1. PICK r \in voteAnswered : CollectVote(r)
      BY <2>5
    <3>2. UNCHANGED <<state, currentTerm>>
      BY <3>1 DEF CollectVote
    <3>3. BallotFloor'
      BY <3>1, FloorCount DEF CollectVote
    <3>4. (\A x \in Node : NodeFloor(x)') /\ SendFloor'
      BY <2>0, <3>2 DEF TermFloor, NodeFloor, SendFloor
    <3> QED BY <2>1, <3>3, <3>4 DEF TermFloor
  <2>6. CASE \/ \E c \in voteSpawned : SendCandidateVotes(c) \/ AbandonCandidateVotes(c)
             \/ \E m \in voteSent : AnswerSameTermVote(m)
             \/ \E r \in voteAnswered : IgnoreVote(r)
             \/ LoseVoteCall
    <3>1. UNCHANGED <<state, currentTerm, ballots>>
      BY <2>6 DEF SendCandidateVotes, AbandonCandidateVotes, AnswerSameTermVote, AnswerVote,
         IgnoreVote, LoseVoteCall
    <3> QED BY <1>0, <2>0, <2>1, <3>1, FloorFrame
  <2> QED BY <1>3, <2>2, <2>3, <2>4, <2>5, <2>6 DEF CandidateVotes
<1>4. CASE AppendEntries
  <2>0. UNCHANGED <<disk, ballots>>
    BY <1>4 DEF AppendEntries, SendAppendEntriesToPeers, SendAppendEntries,
       AbandonAppendEntries, RefuseObsoleteAppend, AcceptAppend, RefuseConflictingAppend,
       AnswerAppend, HandleAppendHigherTerm, HandleAppendSuccess, HandleAppendConflict,
       IgnoreAppendResponse, LoseAppendCall
  <2>1. CASE \E d \in sendDue : SendAppendEntriesToPeers(d)
    <3>1. PICK d \in sendDue : SendAppendEntriesToPeers(d)
      BY <2>1
    <3>2. currentTerm[d.src] >= FirstTerm
      BY DEF TermFloor, SendFloor
    <3>3. StartFloor'
      BY <1>1, <3>1, <3>2 DEF SendAppendEntriesToPeers, StartFloor
    <3>4. UNCHANGED <<state, currentTerm>> /\ sendDue' \subseteq sendDue
      BY <3>1 DEF SendAppendEntriesToPeers
    <3> QED BY <1>0, <2>0, <3>3, <3>4, FloorFrame
  <2>2. CASE \E c \in appendSpawned : SendAppendEntries(c) \/ AbandonAppendEntries(c)
    <3>1. StartFloor'
      BY <1>1, <2>2 DEF SendAppendEntries, AbandonAppendEntries, StartFloor
    <3>2. UNCHANGED <<state, currentTerm, sendDue>>
      BY <2>2 DEF SendAppendEntries, AbandonAppendEntries
    <3> QED BY <1>0, <2>0, <3>1, <3>2, FloorFrame
  <2>3. CASE \E m \in appendSent : AcceptAppend(m) \/ RefuseConflictingAppend(m)
    <3>1. PICK m \in appendSent : AcceptAppend(m) \/ RefuseConflictingAppend(m)
      BY <2>3
    <3>2. m.dst \in Node /\ m.term \in Nat /\ currentTerm[m.dst] \in Nat
      BY <1>0 DEF TypeOK, AppendRequest
    <3>3. /\ m.term >= currentTerm[m.dst] /\ FollowLeader(m) /\ state[m.dst] # "Dead"
          /\ sendDue' = sendDue
      BY <3>1 DEF AcceptAppend, RefuseConflictingAppend, AnswerAppend
    <3>4. StartFloor'
      BY <1>1, <3>1 DEF AcceptAppend, RefuseConflictingAppend, AnswerAppend, StartFloor
    <3>5. /\ state'[m.dst] = "Follower" /\ currentTerm'[m.dst] >= currentTerm[m.dst]
          /\ \A x \in Node : x # m.dst => state'[x] = state[x] /\ currentTerm'[x] = currentTerm[x]
      BY <1>0, <3>2, <3>3, FollowStep
    <3> QED BY <1>0, <2>0, <3>3, <3>4, <3>5, FloorFrame
  <2>4. CASE \E r \in appendAnswered : HandleAppendHigherTerm(r)
    <3>1. PICK r \in appendAnswered : HandleAppendHigherTerm(r)
      BY <2>4
    <3>2. r.src \in Node /\ r.term \in Nat /\ r.start \in Nat /\ r.start >= FirstTerm
      BY <1>0, <1>1 DEF TypeOK, AppendResponse, StartFloor
    <3>3. /\ state[r.src] # "Dead" /\ state'[r.src] = "Follower" /\ sendDue' = sendDue
          /\ currentTerm'[r.src] = r.term /\ r.term > r.start
          /\ \A x \in Node : x # r.src => state'[x] = state[x] /\ currentTerm'[x] = currentTerm[x]
      BY <3>1, <3>2, <1>0
         DEF HandleAppendHigherTerm, StepDown, BecomeFollower, BecomeFollowerVoting, TypeOK
    <3>4. currentTerm'[r.src] >= FirstTerm
      BY <3>2, <3>3 DEF FirstTerm, FreshTerm
    <3>5. StartFloor'
      BY <1>1, <3>1 DEF HandleAppendHigherTerm, StartFloor
    <3> QED BY <1>0, <2>0, <3>3, <3>4, <3>5, FloorFrame
  <2>5. CASE \E r \in appendAnswered : HandleAppendConflict(r)
    <3>1. PICK r \in appendAnswered : HandleAppendConflict(r)
      BY <2>5
    <3>2. /\ UNCHANGED <<state, currentTerm>> /\ state[r.src] = "Leader" /\ r.src \in Node
          /\ sendDue' = sendDue \cup {[src |-> r.src, peers |-> {r.dst}]}
      BY <1>0, <3>1 DEF HandleAppendConflict, TypeOK, AppendResponse
    <3>3. currentTerm[r.src] >= FirstTerm
      BY <3>2 DEF TermFloor, NodeFloor
    <3>4. StartFloor'
      BY <1>1, <3>1 DEF HandleAppendConflict, StartFloor
    <3>5. (\A x \in Node : NodeFloor(x)') /\ BallotFloor'
      BY <2>0, <3>2 DEF TermFloor, NodeFloor, BallotFloor
    <3>6. SendFloor'
      BY <3>2, <3>3 DEF TermFloor, SendFloor
    <3> QED BY <3>4, <3>5, <3>6 DEF TermFloor
  <2>6. CASE \/ \E m \in appendSent : RefuseObsoleteAppend(m)
             \/ \E r \in appendAnswered : HandleAppendSuccess(r) \/ IgnoreAppendResponse(r)
             \/ LoseAppendCall
    <3>1. UNCHANGED <<state, currentTerm, sendDue>>
      BY <2>6 DEF RefuseObsoleteAppend, AnswerAppend, HandleAppendSuccess,
         IgnoreAppendResponse, LoseAppendCall
    <3>2. StartFloor'
      <4>1. CASE \E m \in appendSent : RefuseObsoleteAppend(m)
        BY <1>1, <4>1 DEF RefuseObsoleteAppend, AnswerAppend, StartFloor
      <4>2. CASE \/ \E r \in appendAnswered : HandleAppendSuccess(r) \/ IgnoreAppendResponse(r)
                 \/ LoseAppendCall
        <5>1. /\ appendSpawned' = appendSpawned /\ appendSent' \subseteq appendSent
              /\ appendAnswered' \subseteq appendAnswered
          BY <4>2 DEF HandleAppendSuccess, IgnoreAppendResponse, LoseAppendCall
        <5> QED BY <1>1, <5>1 DEF StartFloor
      <4> QED BY <2>6, <4>1, <4>2
    <3> QED BY <1>0, <2>0, <3>1, <3>2, FloorFrame
  <2> QED BY <1>4, <2>1, <2>2, <2>3, <2>4, <2>5, <2>6 DEF AppendEntries
<1>5. CASE UNCHANGED vars
  <2>1. UNCHANGED <<state, currentTerm, sendDue, disk, ballots, appendCalls>>
    BY <1>5 DEF vars
  <2>2. StartFloor'
    BY <1>1, <2>1 DEF StartFloor
  <2> QED BY <1>0, <2>1, <2>2, FloorFrame
<1> QED BY <1>2, <1>3, <1>4, <1>5 DEF Next

(* StartCandidateVoteModule only asks peers, never the node itself. *)
NoSelfVotes == \A c \in voteSpawned \cup voteSent \cup voteAnswered : c.src # c.dst

(* Every step keeps it. *)
LEMMA NoSelfVotesNext ==
    ASSUME NoSelfVotes, [Next]_vars
    PROVE  NoSelfVotes'
<1>1. CASE AppendEntries
  <2>1. UNCHANGED voteCalls
    BY <1>1 DEF AppendEntries, SendAppendEntriesToPeers, SendAppendEntries,
       AbandonAppendEntries, RefuseObsoleteAppend, AcceptAppend, RefuseConflictingAppend,
       AnswerAppend, HandleAppendHigherTerm, HandleAppendSuccess, HandleAppendConflict,
       IgnoreAppendResponse, LoseAppendCall
  <2> QED BY <2>1 DEF NoSelfVotes
<1>2. CASE \E c \in voteSpawned : SendCandidateVotes(c) \/ AbandonCandidateVotes(c)
  BY <1>2 DEF NoSelfVotes, SendCandidateVotes, AbandonCandidateVotes
<1>3. CASE \E m \in voteSent : GrantHigherTermVote(m) \/ AnswerSameTermVote(m)
  <2>1. PICK m \in voteSent : \E term, accepted : AnswerVote(m, term, accepted)
    BY <1>3 DEF GrantHigherTermVote, AnswerSameTermVote
  <2> QED BY <2>1 DEF NoSelfVotes, AnswerVote
<1>4. CASE \E r \in voteAnswered :
              \/ HandleVoteHigherTerm(r) \/ CollectVote(r) \/ IgnoreVote(r)
              \/ \E released \in {<<>>} \cup {<<c>> : c \in Command} : WinElection(r, released)
  <2>1. voteSpawned' = voteSpawned /\ voteSent' = voteSent /\ voteAnswered' \subseteq voteAnswered
    BY <1>4 DEF HandleVoteHigherTerm, CollectVote, IgnoreVote, WinElection
  <2> QED BY <2>1 DEF NoSelfVotes
<1>5. CASE LoseVoteCall
  BY <1>5 DEF NoSelfVotes, LoseVoteCall
<1>6. CASE \E n \in Node : LocalStep(n)
  <2>1. PICK n \in Node : LocalStep(n)
    BY <1>6
  <2>2. CASE Crash(n)
    BY <2>2 DEF NoSelfVotes, Crash
  <2>3. CASE StartCandidateVoteModule(n)
    BY <2>3 DEF NoSelfVotes, StartCandidateVoteModule, Peers
  <2>4. CASE ~Crash(n) /\ ~StartCandidateVoteModule(n)
    <3>1. UNCHANGED voteCalls
      BY <2>1, <2>4 DEF LocalStep, NewNode, BackUpLogMemoryToDisk, HeartBeat,
         StartReleasePoll, EndReleasePoll, LogCommand, PollRelease, AppendEntry
    <3> QED BY <3>1 DEF NoSelfVotes
  <2> QED BY <2>2, <2>3, <2>4
<1>7. CASE UNCHANGED vars
  BY <1>7 DEF NoSelfVotes, vars
<1> QED BY <1>1, <1>2, <1>3, <1>4, <1>5, <1>6, <1>7 DEF Next, CandidateVotes

(* Who asks for votes in the first term, or leads in it, voted for itself. *)
SelfVote(n) ==
    state[n] \in {"Candidate", "Leader"} /\ currentTerm[n] = FirstTerm => votedPeer[n] = n

(* Who granted a vote of the first term still has it as its vote while it  *)
(* stays in that term.                                                     *)
GrantKept(g) ==
    /\ currentTerm[g.voter] >= FirstTerm
    /\ currentTerm[g.voter] = FirstTerm => /\ state[g.voter] = "Follower"
                                           /\ votedPeer[g.voter] = g.cand

(* Who won the first term leads while it stays in that term. *)
LeaderKept(e) ==
    /\ currentTerm[e.node] >= FirstTerm
    /\ currentTerm[e.node] = FirstTerm => state[e.node] = "Leader"

(* The inductive invariant behind FirstTermHasOneLeader: memory of the     *)
(* votes of the first term is lost only by leaving the term, or by a       *)
(* candidate whose own vote counts for nothing from then on.               *)
FirstVotes ==
    /\ \A n \in Node : SelfVote(n)
    /\ \A g \in granted : g.term = FirstTerm => GrantKept(g)
    /\ \A g, h \in granted :
          g.voter = h.voter /\ g.term = FirstTerm /\ h.term = FirstTerm => g.cand = h.cand
    /\ \A e \in elected : e.term = FirstTerm =>
          LeaderKept(e) /\ \A g \in granted : g.voter = e.node => g.term # FirstTerm

(* The vote of the first term is a node's to give, or was for itself. *)
FreeVote(n) ==
    \/ currentTerm[n] < FirstTerm
    \/ currentTerm[n] = FirstTerm /\ state[n] = "Candidate"
    \/ currentTerm[n] = FirstTerm /\ state[n] = "Follower" /\ votedPeer[n] = Nobody

(* What a step may do to a node: nothing, put it past the first term, or   *)
(* use a free vote.                                                        *)
VoteStep(n) ==
    \/ UNCHANGED <<currentTerm[n], state[n], votedPeer[n]>>
    \/ currentTerm'[n] > FirstTerm
    \/ FreeVote(n) /\ SelfVote(n)' /\ currentTerm'[n] = FirstTerm
    \/ currentTerm[n] < FirstTerm /\ SelfVote(n)'

(* Such a step keeps what is remembered of the votes and leaders so far. *)
LEMMA FirstVotesRemembered ==
    ASSUME TypeOK, TypeOK', FirstVotes, \A n \in Node : VoteStep(n)
    PROVE  /\ \A n \in Node : SelfVote(n)'
           /\ \A g \in granted : g.term = FirstTerm => GrantKept(g)'
           /\ \A e \in elected : e.term = FirstTerm => LeaderKept(e)'
<1>1. \A n \in Node : currentTerm[n] \in Nat /\ currentTerm'[n] \in Nat
  BY DEF TypeOK
<1>2. ASSUME NEW n \in Node PROVE SelfVote(n)'
  <2>1. SelfVote(n) /\ VoteStep(n)
    BY DEF FirstVotes
  <2>2. currentTerm'[n] > FirstTerm => currentTerm'[n] # FirstTerm
    BY <1>1 DEF FirstTerm, FreshTerm
  <2> QED BY <2>1, <2>2 DEF SelfVote, VoteStep
<1>3. ASSUME NEW g \in granted, g.term = FirstTerm PROVE GrantKept(g)'
  <2>1. g.voter \in Node /\ g.cand # Nobody
    BY NodeAssumption DEF TypeOK
  <2>2. GrantKept(g) /\ VoteStep(g.voter)
    BY <1>3, <2>1 DEF FirstVotes
  <2>3. ~FreeVote(g.voter) /\ ~(currentTerm[g.voter] < FirstTerm)
    BY <1>1, <2>1, <2>2 DEF GrantKept, FreeVote, FirstTerm, FreshTerm
  <2> QED BY <1>1, <2>1, <2>2, <2>3 DEF GrantKept, VoteStep, FirstTerm, FreshTerm
<1>4. ASSUME NEW e \in elected, e.term = FirstTerm PROVE LeaderKept(e)'
  <2>1. e.node \in Node
    BY DEF TypeOK
  <2>2. LeaderKept(e) /\ VoteStep(e.node)
    BY <1>4, <2>1 DEF FirstVotes
  <2>3. ~FreeVote(e.node) /\ ~(currentTerm[e.node] < FirstTerm)
    BY <1>1, <2>1, <2>2 DEF LeaderKept, FreeVote, FirstTerm, FreshTerm
  <2> QED BY <1>1, <2>1, <2>2, <2>3 DEF LeaderKept, VoteStep, FirstTerm, FreshTerm
<1> QED BY <1>2, <1>3, <1>4

(* A step that grants no vote and elects nobody keeps the invariant. *)
LEMMA FirstVotesFrame ==
    ASSUME TypeOK, TypeOK', FirstVotes, \A n \in Node : VoteStep(n),
           UNCHANGED <<elected, granted>>
    PROVE  FirstVotes'
BY FirstVotesRemembered DEF FirstVotes

(* Then the first term has one leader. *)
LEMMA OneFirstLeader ==
    ASSUME TypeOK, LeaderHasMajority, FirstVotes,
           NEW d \in elected, NEW e \in elected, d.term = FirstTerm, e.term = FirstTerm
    PROVE  d.node = e.node
<1> SUFFICES ASSUME d.node # e.node PROVE FALSE
  OBVIOUS
<1>1. PICK v \in Node : v \in d.voters /\ v \in e.voters
  BY MajoritiesMeet DEF TypeOK, LeaderHasMajority
<1>2. v # d.node => Vote(v, FirstTerm, d.node) \in granted
  BY <1>1 DEF LeaderHasMajority, Vote
<1>3. v # e.node => Vote(v, FirstTerm, e.node) \in granted
  BY <1>1 DEF LeaderHasMajority, Vote
<1> QED BY <1>2, <1>3 DEF FirstVotes, Vote

(* CandidateVotesService gives a vote of the first term at most once. *)
LEMMA FirstVotesGrant ==
    ASSUME TypeOK, TypeOK', NoSelfVotes, FirstVotes, NEW m \in voteSent,
           GrantHigherTermVote(m) \/ AnswerSameTermVote(m)
    PROVE  FirstVotes'
<1> DEFINE n == m.dst
           g == Vote(n, m.term, m.src)
<1>1. /\ n \in Node /\ m.src \in Node /\ m.src # n /\ m.src # Nobody /\ n # Nobody
      /\ m.term \in Nat /\ currentTerm[n] \in Nat
      /\ state[n] # "Dead" /\ state[n] \in States
  BY NodeAssumption DEF TypeOK, VoteRequest, NoSelfVotes, GrantHigherTermVote, AnswerSameTermVote
<1>2. \A x \in Node : x # n => UNCHANGED <<currentTerm[x], state[x], votedPeer[x]>>
  BY <1>1 DEF GrantHigherTermVote, BecomeFollowerVoting, AnswerSameTermVote, TypeOK
<1>3. elected' = elected
  BY DEF GrantHigherTermVote, AnswerSameTermVote, AnswerVote
<1>4. CASE GrantHigherTermVote(m)
  <2>1. /\ m.term > currentTerm[n] /\ currentTerm'[n] = m.term /\ state'[n] = "Follower"
        /\ votedPeer'[n] = m.src /\ granted' = granted \cup {g}
    BY <1>1, <1>4 DEF GrantHigherTermVote, BecomeFollowerVoting, AnswerVote, TypeOK, Vote
  <2>2. VoteStep(n)
    BY <1>1, <2>1 DEF VoteStep, SelfVote, FirstTerm, FreshTerm
  <2>3. \A x \in Node : VoteStep(x)
    BY <1>2, <2>2 DEF VoteStep
  <2>4. g.term = FirstTerm => GrantKept(g)'
    BY <1>1, <2>1 DEF GrantKept, Vote, FirstTerm, FreshTerm
  <2>5. m.term = FirstTerm => \A h \in granted : h.voter = n => h.term # FirstTerm
    BY <1>1, <2>1 DEF FirstVotes, GrantKept, FirstTerm, FreshTerm
  <2>6. m.term = FirstTerm => \A e \in elected : e.node = n => e.term # FirstTerm
    BY <1>1, <2>1 DEF FirstVotes, LeaderKept, FirstTerm, FreshTerm
  <2>7. g.voter = n /\ g.term = m.term /\ g.cand = m.src
    BY DEF Vote
  <2> HIDE DEF g
  <2> QED BY <1>3, <2>1, <2>3, <2>4, <2>5, <2>6, <2>7, FirstVotesRemembered DEF FirstVotes
<1>5. CASE AnswerSameTermVote(m)
  <2>1. /\ m.term <= currentTerm[n]
        /\ UNCHANGED <<currentTerm, state>>
        /\ \/ UNCHANGED <<votedPeer, granted>>
           \/ /\ m.term = currentTerm[n] /\ votedPeer[n] \in {Nobody, m.src}
              /\ votedPeer'[n] = m.src /\ granted' = granted \cup {g}
    BY <1>1, <1>5 DEF AnswerSameTermVote, AnswerVote, TypeOK, Vote
  <2>2. CASE UNCHANGED <<votedPeer, granted>>
    <3>1. \A x \in Node : VoteStep(x)
      BY <2>1, <2>2 DEF VoteStep
    <3> QED BY <1>3, <2>2, <3>1, FirstVotesFrame
  <2>3. CASE /\ m.term = currentTerm[n] /\ votedPeer[n] \in {Nobody, m.src}
             /\ votedPeer'[n] = m.src /\ granted' = granted \cup {g}
    <3>1. currentTerm[n] = FirstTerm => state[n] = "Follower"
      BY <1>1, <2>3 DEF FirstVotes, SelfVote, States
    <3>2. VoteStep(n)
      <4>1. CASE currentTerm[n] = FirstTerm
        <5>1. SelfVote(n)' /\ currentTerm'[n] = FirstTerm
          BY <2>1, <3>1, <4>1 DEF SelfVote
        <5>2. CASE votedPeer[n] = Nobody
          BY <5>1, <5>2, <3>1, <4>1 DEF VoteStep, FreeVote
        <5>3. CASE votedPeer[n] = m.src
          BY <2>1, <2>3, <5>3 DEF VoteStep
        <5> QED BY <2>3, <5>2, <5>3
      <4>2. CASE currentTerm[n] < FirstTerm
        BY <1>1, <2>1, <4>2 DEF VoteStep, SelfVote, FirstTerm, FreshTerm
      <4>3. CASE currentTerm[n] > FirstTerm
        BY <2>1, <4>3 DEF VoteStep
      <4> QED BY <1>1, <4>1, <4>2, <4>3 DEF FirstTerm, FreshTerm
    <3>3. \A x \in Node : VoteStep(x)
      BY <1>2, <3>2 DEF VoteStep
    <3>4. g.voter = n /\ g.term = m.term /\ g.cand = m.src
      BY DEF Vote
    <3> HIDE DEF g
    <3>5. g.term = FirstTerm => GrantKept(g)'
      BY <1>1, <2>1, <2>3, <3>1, <3>4 DEF GrantKept, FirstTerm, FreshTerm
    <3>6. m.term = FirstTerm =>
             \A h \in granted : h.voter = n /\ h.term = FirstTerm => h.cand = m.src
      <4>1. \A h \in granted : h.cand # Nobody
        BY NodeAssumption DEF TypeOK
      <4> QED BY <1>1, <2>3, <4>1 DEF FirstVotes, GrantKept
    <3>7. m.term = FirstTerm => \A e \in elected : e.node = n => e.term # FirstTerm
      BY <2>3, <3>1 DEF FirstVotes, LeaderKept
    <3> QED BY <1>3, <2>3, <3>3, <3>4, <3>5, <3>6, <3>7, FirstVotesRemembered DEF FirstVotes
  <2> QED BY <2>1, <2>2, <2>3
<1> QED BY <1>4, <1>5

(* Whoever wins the first term gave its vote to itself. *)
LEMMA FirstVotesWin ==
    ASSUME TypeOK, TypeOK', FirstVotes, NEW r \in voteAnswered, NEW released,
           WinElection(r, released)
    PROVE  FirstVotes'
<1> DEFINE n == r.src
<1>1. PICK w : w = [term |-> currentTerm[n], node |-> n, voters |-> CollectedVotes(r)]
  OBVIOUS
<1>2. /\ n \in Node /\ currentTerm[n] \in Nat /\ state[n] = "Candidate"
      /\ state' = [state EXCEPT ![n] = "Leader"]
      /\ UNCHANGED <<currentTerm, votedPeer, granted>> /\ elected' = elected \cup {w}
  BY <1>1 DEF TypeOK, VoteResponse, WinElection, InTimeVote, BecomeLeader
<1>3. state'[n] = "Leader" /\ \A x \in Node : x # n => state'[x] = state[x]
  BY <1>2 DEF TypeOK
<1>4. SelfVote(n)'
  BY <1>2 DEF FirstVotes, SelfVote
<1>5. VoteStep(n)
  BY <1>2, <1>4 DEF VoteStep, FreeVote, FirstTerm, FreshTerm
<1>6. \A x \in Node : VoteStep(x)
  BY <1>2, <1>3, <1>5 DEF VoteStep
<1>7. w.node = n /\ w.term = currentTerm[n]
  BY <1>1
<1>8. w.term = FirstTerm => LeaderKept(w)'
  BY <1>2, <1>3, <1>7 DEF LeaderKept, FirstTerm, FreshTerm
<1>9. w.term = FirstTerm => \A g \in granted : g.voter = n => g.term # FirstTerm
  BY <1>2, <1>7 DEF FirstVotes, GrantKept
<1> QED BY <1>2, <1>6, <1>7, <1>8, <1>9, FirstVotesRemembered DEF FirstVotes

(* An append of the first term reaches its leader from nobody else. *)
LEMMA FirstVotesFollow ==
    ASSUME TypeOK, TypeOK', NoSelfCalls, LeadershipInv, LeaderHasMajority, FirstVotes,
           NEW m \in appendSent, state[m.dst] # "Dead", m.term >= currentTerm[m.dst],
           FollowLeader(m), UNCHANGED <<elected, granted>>
    PROVE  FirstVotes'
<1> DEFINE n == m.dst
<1>1. /\ n \in Node /\ m.term \in Nat /\ currentTerm[n] \in Nat /\ m.src # n
      /\ state[n] \in States
  BY DEF TypeOK, AppendRequest, NoSelfCalls
<1>2. /\ \A x \in Node : x # n => UNCHANGED <<currentTerm[x], state[x], votedPeer[x]>>
      /\ currentTerm'[n] = m.term /\ state'[n] = "Follower"
      /\ \/ UNCHANGED <<currentTerm[n], state[n], votedPeer[n]>>
         \/ m.term > currentTerm[n] \/ state[n] # "Follower"
  BY <1>1, FollowStep
<1>3. currentTerm[n] = FirstTerm /\ m.term = FirstTerm => state[n] # "Leader"
  <2> SUFFICES ASSUME currentTerm[n] = FirstTerm, m.term = FirstTerm, state[n] = "Leader"
               PROVE  FALSE
    OBVIOUS
  <2>1. PICK d \in elected : d.node = n /\ d.term = FirstTerm
    BY <1>1 DEF LeadershipInv, LeaderWon, WonTerm
  <2>2. PICK e \in elected : e.node = m.src /\ e.term = FirstTerm
    BY DEF LeadershipInv, AppendsFromWinners, WonTerm
  <2> QED BY <1>1, <2>1, <2>2, OneFirstLeader
<1>4. SelfVote(n)'
  BY <1>2 DEF SelfVote
<1>5. VoteStep(n)
  <2>1. CASE UNCHANGED <<currentTerm[n], state[n], votedPeer[n]>>
    BY <2>1 DEF VoteStep
  <2>2. CASE m.term > FirstTerm
    BY <1>2, <2>2 DEF VoteStep
  <2>3. CASE currentTerm[n] < FirstTerm
    BY <1>4, <2>3 DEF VoteStep
  <2>4. CASE currentTerm[n] = FirstTerm /\ m.term = FirstTerm /\ state[n] # "Follower"
    <3>1. state[n] = "Candidate"
      BY <1>1, <1>3, <2>4 DEF States
    <3> QED BY <1>2, <1>4, <2>4, <3>1 DEF VoteStep, FreeVote
  <2>5. CASE ~(m.term > FirstTerm) /\ ~(currentTerm[n] < FirstTerm)
    <3>1. currentTerm[n] = FirstTerm /\ m.term = FirstTerm
      BY <1>1, <2>5 DEF FirstTerm, FreshTerm
    <3>2. ~(m.term > currentTerm[n])
      BY <1>1, <3>1
    <3> QED BY <1>2, <2>1, <2>4, <3>1, <3>2
  <2> QED BY <2>2, <2>3, <2>5
<1>6. \A x \in Node : VoteStep(x)
  BY <1>2, <1>5 DEF VoteStep
<1> QED BY <1>6, FirstVotesFrame

(* Every step keeps the invariant as long as no process dies. *)
LEMMA FirstVotesNext ==
    ASSUME IndexInv, IndexInv', NoSelfCalls, NoSelfVotes, LeadershipInv, VotesInv,
           TermFloor, FirstVotes, [Next]_vars, crashes' = 0
    PROVE  FirstVotes'
<1>0. TypeOK /\ TypeOK' /\ LeaderHasMajority /\ \A n \in Node : ~Crash(n)
  BY NobodyCrashed DEF IndexInv, VotesInv
<1>1. \A n \in Node : currentTerm[n] \in Nat /\ currentTerm'[n] \in Nat
  BY <1>0 DEF TypeOK
<1>2. CASE \E n \in Node : LocalStep(n)
  <2>1. PICK n \in Node : LocalStep(n)
    BY <1>2
  <2>2. UNCHANGED <<elected, granted>>
    BY <1>0, <2>1 DEF LocalStep, NewNode, BackUpLogMemoryToDisk, StartCandidateVoteModule,
       HeartBeat, StartReleasePoll, EndReleasePoll, LogCommand, PollRelease, AppendEntry
  <2>3. CASE NewNode(n)
    <3>1. currentTerm[n] < FirstTerm
      BY <2>3 DEF NewNode, TermFloor, NodeFloor, FirstTerm, FreshTerm
    <3>2. /\ state'[n] = "Follower"
          /\ \A x \in Node : x # n => UNCHANGED <<currentTerm[x], state[x], votedPeer[x]>>
      BY <1>0, <2>3 DEF NewNode, TypeOK
    <3>3. \A x \in Node : VoteStep(x)
      BY <3>1, <3>2 DEF VoteStep, SelfVote
    <3> QED BY <1>0, <2>2, <3>3, FirstVotesFrame
  <2>4. CASE StartCandidateVoteModule(n)
    <3>1. /\ votedPeer'[n] = n /\ currentTerm'[n] = currentTerm[n] + 1
          /\ \A x \in Node : x # n => UNCHANGED <<currentTerm[x], state[x], votedPeer[x]>>
      BY <1>0, <2>4 DEF StartCandidateVoteModule, TypeOK
    <3>2. VoteStep(n)
      BY <1>1, <3>1 DEF VoteStep, SelfVote, FirstTerm, FreshTerm
    <3>3. \A x \in Node : VoteStep(x)
      BY <3>1, <3>2 DEF VoteStep
    <3> QED BY <1>0, <2>2, <3>3, FirstVotesFrame
  <2>5. CASE ~NewNode(n) /\ ~StartCandidateVoteModule(n)
    <3>1. UNCHANGED <<currentTerm, state, votedPeer>>
      BY <1>0, <2>1, <2>5 DEF LocalStep, BackUpLogMemoryToDisk, HeartBeat, StartReleasePoll,
         EndReleasePoll, LogCommand, PollRelease, AppendEntry
    <3>2. \A x \in Node : VoteStep(x)
      BY <3>1 DEF VoteStep
    <3> QED BY <1>0, <2>2, <3>2, FirstVotesFrame
  <2> QED BY <2>3, <2>4, <2>5
<1>3. CASE CandidateVotes
  <2>1. CASE \E m \in voteSent : GrantHigherTermVote(m) \/ AnswerSameTermVote(m)
    BY <1>0, <2>1, FirstVotesGrant
  <2>2. CASE \E r \in voteAnswered : \E released \in {<<>>} \cup {<<c>> : c \in Command} :
                WinElection(r, released)
    BY <1>0, <2>2, FirstVotesWin
  <2>3. CASE \E r \in voteAnswered : HandleVoteHigherTerm(r)
    <3>1. PICK r \in voteAnswered : HandleVoteHigherTerm(r)
      BY <2>3
    <3>2. /\ r.src \in Node /\ r.term \in Nat /\ r.ballot \in 1 .. Len(ballots[r.src])
          /\ ballots[r.src] \in Seq(Ballot)
      BY <1>0 DEF TypeOK, VoteResponse, IndexInv, BallotsExist
    <3>3. ballots[r.src][r.ballot].term >= FirstTerm /\ ballots[r.src][r.ballot].term \in Nat
      <4>1. ballots[r.src][r.ballot] \in Ballot
        BY <3>2, ElementOfSeq
      <4> QED BY <3>2, <4>1 DEF TermFloor, BallotFloor, Ballot
    <3>4. /\ currentTerm'[r.src] = r.term /\ r.term > ballots[r.src][r.ballot].term
          /\ \A x \in Node : x # r.src => UNCHANGED <<currentTerm[x], state[x], votedPeer[x]>>
          /\ UNCHANGED <<elected, granted>>
      BY <3>1, <3>2, <1>0
         DEF HandleVoteHigherTerm, StepDown, BecomeFollower, BecomeFollowerVoting, TypeOK
    <3>5. currentTerm'[r.src] > FirstTerm
      BY <3>2, <3>3, <3>4 DEF FirstTerm, FreshTerm
    <3>6. \A x \in Node : VoteStep(x)
      BY <3>4, <3>5 DEF VoteStep
    <3> QED BY <1>0, <3>4, <3>6, FirstVotesFrame
  <2>4. CASE \/ \E c \in voteSpawned : SendCandidateVotes(c) \/ AbandonCandidateVotes(c)
             \/ \E r \in voteAnswered : CollectVote(r) \/ IgnoreVote(r)
             \/ LoseVoteCall
    <3>1. UNCHANGED <<currentTerm, state, votedPeer, elected, granted>>
      BY <2>4 DEF SendCandidateVotes, AbandonCandidateVotes, CollectVote, IgnoreVote,
         LoseVoteCall
    <3>2. \A x \in Node : VoteStep(x)
      BY <3>1 DEF VoteStep
    <3> QED BY <1>0, <3>1, <3>2, FirstVotesFrame
  <2> QED BY <1>3, <2>1, <2>2, <2>3, <2>4 DEF CandidateVotes
<1>4. CASE AppendEntries
  <2>0. UNCHANGED <<elected, granted>>
    BY <1>4 DEF AppendEntries, SendAppendEntriesToPeers, SendAppendEntries,
       AbandonAppendEntries, RefuseObsoleteAppend, AcceptAppend, RefuseConflictingAppend,
       AnswerAppend, HandleAppendHigherTerm, HandleAppendSuccess, HandleAppendConflict,
       IgnoreAppendResponse, LoseAppendCall
  <2>1. CASE \E m \in appendSent : AcceptAppend(m) \/ RefuseConflictingAppend(m)
    <3>1. PICK m \in appendSent : AcceptAppend(m) \/ RefuseConflictingAppend(m)
      BY <2>1
    <3>2. m.term >= currentTerm[m.dst] /\ FollowLeader(m) /\ state[m.dst] # "Dead"
      BY <3>1 DEF AcceptAppend, RefuseConflictingAppend
    <3> QED BY <1>0, <2>0, <3>2, FirstVotesFollow
  <2>2. CASE \E r \in appendAnswered : HandleAppendHigherTerm(r)
    <3>1. PICK r \in appendAnswered : HandleAppendHigherTerm(r)
      BY <2>2
    <3>2. r.src \in Node /\ r.term \in Nat /\ r.start \in Nat /\ r.start >= FirstTerm
      BY <1>0 DEF TypeOK, AppendResponse, TermFloor, StartFloor
    <3>3. /\ currentTerm'[r.src] = r.term /\ r.term > r.start
          /\ \A x \in Node : x # r.src => UNCHANGED <<currentTerm[x], state[x], votedPeer[x]>>
      BY <3>1, <3>2, <1>0
         DEF HandleAppendHigherTerm, StepDown, BecomeFollower, BecomeFollowerVoting, TypeOK
    <3>4. currentTerm'[r.src] > FirstTerm
      BY <3>2, <3>3 DEF FirstTerm, FreshTerm
    <3>5. \A x \in Node : VoteStep(x)
      BY <3>3, <3>4 DEF VoteStep
    <3> QED BY <1>0, <2>0, <3>5, FirstVotesFrame
  <2>3. CASE \/ \E d \in sendDue : SendAppendEntriesToPeers(d)
             \/ \E c \in appendSpawned : SendAppendEntries(c) \/ AbandonAppendEntries(c)
             \/ \E m \in appendSent : RefuseObsoleteAppend(m)
             \/ \E r \in appendAnswered : \/ HandleAppendSuccess(r) \/ HandleAppendConflict(r)
                                          \/ IgnoreAppendResponse(r)
             \/ LoseAppendCall
    <3>1. UNCHANGED <<currentTerm, state, votedPeer>>
      BY <2>3 DEF SendAppendEntriesToPeers, SendAppendEntries, AbandonAppendEntries,
         RefuseObsoleteAppend, HandleAppendSuccess, HandleAppendConflict,
         IgnoreAppendResponse, LoseAppendCall
    <3>2. \A x \in Node : VoteStep(x)
      BY <3>1 DEF VoteStep
    <3> QED BY <1>0, <2>0, <3>2, FirstVotesFrame
  <2> QED BY <1>4, <2>1, <2>2, <2>3 DEF AppendEntries
<1>5. CASE UNCHANGED vars
  <2>1. UNCHANGED <<currentTerm, state, votedPeer, elected, granted>>
    BY <1>5 DEF vars
  <2>2. \A x \in Node : VoteStep(x)
    BY <2>1 DEF VoteStep
  <2> QED BY <1>0, <2>1, <2>2, FirstVotesFrame
<1> QED BY <1>2, <1>3, <1>4, <1>5 DEF Next

(* What elections guarantee in every behaviour, in one place. *)
ElectionInv == IndexInv /\ NoSelfCalls /\ NoSelfVotes /\ LeadershipInv /\ VotesInv

(* ... and while no process has died. *)
CalmInv == crashes = 0 => TermFloor /\ FirstVotes

(* Both hold in every behaviour. *)
LEMMA ElectionInvariance == Spec => [](ElectionInv /\ CalmInv)
<1>1. Init => ElectionInv /\ CalmInv
  <2> SUFFICES ASSUME Init PROVE ElectionInv /\ CalmInv
    OBVIOUS
  <2>1. LeadershipInv
    BY DEF Init, LeadershipInv, HopWonCurrentTerm, LeaderWon, AppendsFromWinners
  <2>2. VotesInv
    BY DEF Init, VotesInv, BallotVotesGranted, RequestsOfBallot, AnswersGranted,
           LeaderHasMajority
  <2>3. IndexInv /\ NoSelfCalls /\ NoSelfVotes
    BY IndexInvInit DEF Init, NoSelfCalls, NoSelfVotes
  <2>4. TermFloor
    BY DEF Init, TermFloor, NodeFloor, BallotFloor, SendFloor, StartFloor, FreshTerm
  <2>5. FirstVotes
    BY DEF Init, FirstVotes, SelfVote
  <2> QED BY <2>1, <2>2, <2>3, <2>4, <2>5 DEF ElectionInv, CalmInv
<1>2. ElectionInv /\ CalmInv /\ [Next]_vars => (ElectionInv /\ CalmInv)'
  <2> SUFFICES ASSUME ElectionInv, CalmInv, [Next]_vars
               PROVE  (ElectionInv /\ CalmInv)'
    OBVIOUS
  <2>1. ElectionInv'
    BY IndexInvNext, NoSelfCallsNext, NoSelfVotesNext, LeadershipNext, VotesNext
       DEF ElectionInv
  <2>2. CalmInv'
    <3> SUFFICES ASSUME crashes' = 0 PROVE TermFloor' /\ FirstVotes'
      BY DEF CalmInv
    <3>1. crashes = 0
      BY NobodyCrashed DEF ElectionInv, IndexInv
    <3> QED BY <2>1, <3>1, FloorNext, FirstVotesNext DEF ElectionInv, CalmInv
  <2> QED BY <2>1, <2>2
<1> QED BY <1>1, <1>2, PTL DEF Spec

(* In every behaviour, whatever the number of nodes and however calls are  *)
(* delayed, lost or overtake each other, at most one node wins the first   *)
(* term while no process has died (BecomeFollower and                      *)
(* StartCandidateVoteModule in node.go, CandidateVotesService in           *)
(* p2p_server.go), although later terms may have two leaders.              *)
THEOREM OneLeaderOfFirstTerm == Spec => []FirstTermHasOneLeader
<1>1. ElectionInv /\ CalmInv => FirstTermHasOneLeader
  BY OneFirstLeader
     DEF ElectionInv, CalmInv, IndexInv, VotesInv, FirstTermHasOneLeader, FirstTerm
<1> QED BY <1>1, ElectionInvariance, PTL

-----------------------------------------------------------------------------
(* Replication under one leader *)

(* Log l starts with the entries of log k. *)
Extends(l, k) == Len(k) <= Len(l) /\ \A i \in 1 .. Len(k) : l[i] = k[i]

(* Nobody but x has ever led. *)
SoleLeader(x) == \A e \in elected : e.node = x

(* A request quotes the log and a commit index of x ... *)
RequestFollows(m, x) ==
    /\ m.src = x /\ m.commit <= commitIndex[x]
    /\ \A i \in 1 .. Len(m.entries) : m.entries[i] = log[x][m.prevIndex + i]

(* ... and what an answer acknowledges is in the log of its sender. *)
AnswerFollows(r, x) ==
    r.src = x /\ (r.success => r.prevIndex + r.count <= Len(log[r.dst]))

(* A majority, x included, has an entry of index k. *)
HeldWith(x, k) == IsMajority(1 + Cardinality({p \in Peers(x) : Len(log[p]) >= k}))

(* The inductive invariant behind CommittedOnMajority and CommittedForGood *)
(* while nobody but x has led and no process has died: every log is a part *)
(* of the log of x, and the leader's books (MatchIndex, answers under way) *)
(* are never ahead of the follower's log.                                  *)
Follows(x) ==
    /\ \A n \in Node : Extends(log[x], log[n])
    /\ \A n \in Node : n # x => polls[n] = 0
    /\ \A n \in Node : commitIndex[n] <= commitIndex[x]
    /\ \A m \in appendSent : RequestFollows(m, x)
    /\ \A r \in appendAnswered : AnswerFollows(r, x)
    /\ \A p \in Peers(x) : matchIndex[x][p] <= Len(log[p])
    /\ \A k \in 1 .. commitIndex[x] : HeldWith(x, k)

(* Extending is reflexive ... *)
LEMMA ExtendsItself ==
    ASSUME NEW l \in Seq(Entry)
    PROVE  Extends(l, l)
BY LenProperties DEF Extends

(* ... and transitive. *)
LEMMA ExtendsTransitive ==
    ASSUME NEW j \in Seq(Entry), NEW k \in Seq(Entry), NEW l \in Seq(Entry),
           Extends(l, k), Extends(k, j)
    PROVE  Extends(l, j)
<1>1. Len(j) \in Nat /\ Len(k) \in Nat /\ Len(l) \in Nat
  BY LenProperties
<1>2. \A i \in 1 .. Len(j) : i \in 1 .. Len(k)
  BY <1>1 DEF Extends
<1> QED BY <1>1, <1>2 DEF Extends

(* A majority stays one when more nodes have the entry. *)
LEMMA MoreHolders ==
    ASSUME NEW x \in Node, NEW S \in SUBSET Peers(x), NEW T \in SUBSET Peers(x), S \subseteq T,
           IsMajority(1 + Cardinality(S))
    PROVE  IsMajority(1 + Cardinality(T))
<1>1. IsFiniteSet(Node) /\ IsFiniteSet(T) /\ T \subseteq Node
  BY NodeAssumption, FS_Subset DEF Peers
<1>2. Cardinality(S) \in Nat /\ Cardinality(T) \in Nat /\ Cardinality(Node) \in Nat
  BY <1>1, FS_Subset, FS_CardinalityType
<1>3. Cardinality(S) <= Cardinality(T)
  BY <1>1, FS_Subset
<1> QED BY <1>2, <1>3 DEF IsMajority

(* A process that is down has committed nothing, the others only entries   *)
(* they have.                                                              *)
LEMMA CommittedWithinLog ==
    ASSUME IndexInv, NEW n \in Node
    PROVE  commitIndex[n] <= Len(log[n])
<1>1. CASE state[n] = "Dead"
  BY <1>1, EmptySeq DEF IndexInv, DeadIsEmpty
<1>2. CASE state[n] # "Dead"
  BY <1>2 DEF IndexInv, IndexesInOrder, Alive, MaximumIndex
<1> QED BY <1>1, <1>2

(* Whoever leads is x. *)
LEMMA LeaderIsSole ==
    ASSUME LeadershipInv, NEW x \in Node, SoleLeader(x), NEW n \in Node, state[n] = "Leader"
    PROVE  n = x
BY DEF LeadershipInv, LeaderWon, WonTerm, SoleLeader

(* A step that leaves the logs and what is known of them alone. *)
LEMMA FollowsFrame ==
    ASSUME NEW x \in Node, Follows(x), UNCHANGED <<log, commitIndex, matchIndex>>,
           \A n \in Node : n # x => polls'[n] = 0, appendSent' \subseteq appendSent,
           \A r \in appendAnswered' : r \in appendAnswered \/ AnswerFollows(r, x)
    PROVE  Follows(x)'
<1>1. \A n \in Node : Extends(log[x], log[n])'
  BY DEF Follows, Extends
<1>2. \A m \in appendSent' : RequestFollows(m, x)'
  BY DEF Follows, RequestFollows
<1>3. \A r \in appendAnswered' : AnswerFollows(r, x)'
  BY DEF Follows, AnswerFollows
<1>4. \A k \in 1 .. commitIndex'[x] : HeldWith(x, k)'
  BY DEF Follows, HeldWith
<1> QED BY <1>1, <1>2, <1>3, <1>4 DEF Follows

(* A step in which logs grow by entries of x and nothing new is committed  *)
(* by x or known to it.                                                    *)
LEMMA FollowsGrow ==
    ASSUME IndexInv, TypeOK', NEW x \in Node, Follows(x),
           \A n \in Node : Extends(log'[n], log[n]) /\ Extends(log'[x], log'[n]),
           \A n \in Node : commitIndex'[n] <= commitIndex'[x],
           commitIndex'[x] = commitIndex[x], matchIndex' = matchIndex,
           \A n \in Node : n # x => polls'[n] = 0, appendSent' \subseteq appendSent,
           \A r \in appendAnswered' : r \in appendAnswered \/ AnswerFollows(r, x)'
    PROVE  Follows(x)'
<1>1. \A n \in Node : Len(log[n]) \in Nat /\ Len(log'[n]) \in Nat /\ Len(log[n]) <= Len(log'[n])
  BY LogLengths, LenProperties DEF IndexInv, TypeOK, Extends
<1>2. ASSUME NEW m \in appendSent PROVE RequestFollows(m, x)'
  <2>1. /\ m.prevIndex \in Nat /\ Len(m.entries) \in Nat /\ RequestFollows(m, x)
        /\ m.prevIndex + Len(m.entries) <= Len(log[x])
    <3>1. m.prevIndex \in Nat /\ m.entries \in Seq(Entry) /\ RequestFollows(m, x)
      BY DEF IndexInv, TypeOK, AppendRequest, Follows
    <3> QED BY <3>1, LenProperties DEF IndexInv, CallsWithinLog, SentWithinLog, RequestFollows
  <2>2. \A i \in 1 .. Len(m.entries) : m.prevIndex + i \in 1 .. Len(log[x])
    BY <1>1, <2>1
  <2>3. \A i \in 1 .. Len(m.entries) : log'[x][m.prevIndex + i] = log[x][m.prevIndex + i]
    BY <2>2 DEF Extends
  <2> QED BY <2>1, <2>3 DEF RequestFollows
<1>3. ASSUME NEW r \in appendAnswered PROVE AnswerFollows(r, x)'
  <2>1. r.dst \in Node /\ r.prevIndex \in Nat /\ r.count \in Nat /\ AnswerFollows(r, x)
    BY DEF IndexInv, TypeOK, AppendResponse, Follows
  <2> QED BY <1>1, <2>1 DEF AnswerFollows
<1>4. ASSUME NEW p \in Peers(x) PROVE matchIndex'[x][p] <= Len(log'[p])
  <2>1. p \in Node /\ matchIndex[x][p] \in Nat /\ matchIndex[x][p] <= Len(log[p])
    BY DEF IndexInv, TypeOK, Follows, Peers
  <2> QED BY <1>1, <2>1
<1>5. ASSUME NEW k \in 1 .. commitIndex'[x] PROVE HeldWith(x, k)'
  <2> DEFINE S == {p \in Peers(x) : Len(log[p]) >= k}
             T == {p \in Peers(x) : Len(log'[p]) >= k}
  <2>1. IsMajority(1 + Cardinality(S))
    BY DEF Follows, HeldWith
  <2>2. k \in Nat
    BY DEF TypeOK
  <2>3. S \subseteq T
    BY <1>1, <2>2 DEF Peers
  <2>4. IsMajority(1 + Cardinality(T))
    <3> HIDE DEF S, T
    <3>1. S \in SUBSET Peers(x) /\ T \in SUBSET Peers(x)
      BY DEF S, T
    <3> QED BY <2>1, <2>3, <3>1, MoreHolders
  <2> QED BY <2>4 DEF HeldWith, IsMajority, Peers
<1> QED BY <1>2, <1>3, <1>4, <1>5 DEF Follows

(* The log of x grows: a client operation, a release poll or the releases  *)
(* of BecomeLeader.                                                        *)
LEMMA FollowsAppend ==
    ASSUME IndexInv, TypeOK', NEW x \in Node, Follows(x),
           Extends(log'[x], log[x]), \A n \in Node : n # x => log'[n] = log[n],
           UNCHANGED <<commitIndex, matchIndex, appendSent, appendAnswered>>,
           \A n \in Node : n # x => polls'[n] = 0
    PROVE  Follows(x)'
<1>1. \A n \in Node : log[n] \in Seq(Entry) /\ log'[n] \in Seq(Entry)
  BY DEF IndexInv, TypeOK
<1>2. \A n \in Node : Extends(log'[n], log[n])
  BY <1>1, ExtendsItself
<1>3. \A n \in Node : Extends(log'[x], log'[n])
  <2> TAKE n \in Node
  <2>1. CASE n = x
    BY <1>1, <2>1, ExtendsItself
  <2>2. CASE n # x
    <3>1. Extends(log[x], log[n])
      BY DEF Follows
    <3> QED BY <1>1, <2>2, <3>1, ExtendsTransitive
  <2> QED BY <2>1, <2>2
<1>4. \A n \in Node : commitIndex'[n] <= commitIndex'[x]
  BY DEF Follows
<1> QED BY <1>2, <1>3, <1>4, FollowsGrow

(* A request of x quotes its log as it is. *)
LEMMA FollowsSend ==
    ASSUME IndexInv, NoSelfCalls, NEW x \in Node, Follows(x), NEW c \in appendSpawned,
           c.src = x, SendAppendEntries(c)
    PROVE  Follows(x)'
<1> DEFINE prev == nextIndex[x][c.dst] - 1
           count == Smaller(MaxLogUnitsRecover, MaximumIndex(log[x]) - prev)
<1>1. PICK m : m = [src |-> x, dst |-> c.dst, start |-> c.start, term |-> currentTerm[x],
                    prevIndex |-> prev, prevTerm |-> TermAt(log[x], prev),
                    commit |-> commitIndex[x],
                    entries |-> EntriesAfter(log[x], prev, count)]
  OBVIOUS
<1>2. /\ appendSent' = appendSent \cup {m}
      /\ UNCHANGED <<log, commitIndex, matchIndex, polls, appendAnswered>>
  BY <1>1 DEF SendAppendEntries
<1>3. log[x] \in Seq(Entry) /\ Len(log[x]) \in Nat /\ commitIndex[x] \in Nat
  BY LogLengths DEF IndexInv
<1>4. prev \in Nat /\ prev <= Len(log[x])
  <2>1. nextIndex[x][c.dst] \in 1 .. Len(log[x]) + 1
    <3>1. c.dst \in Peers(x) /\ state[x] = "Leader"
      BY DEF IndexInv, TypeOK, AppendSpawn, NoSelfCalls, Peers, SendAppendEntries
    <3> QED BY <3>1 DEF IndexInv, NextIndexInRange, MaximumIndex
  <2> QED BY <2>1, <1>3
<1>5. count \in Nat /\ prev + count <= Len(log[x])
  BY <1>3, <1>4, BoundsAssumption, SMTT(30) DEF Smaller, MaximumIndex
<1> HIDE DEF prev, count
<1>6. /\ m.entries = EntriesAfter(log[x], prev, count) /\ m.prevIndex = prev
      /\ m.src = x /\ m.commit = commitIndex[x]
  BY <1>1
<1>7. Len(m.entries) = count /\ \A i \in 1 .. count : m.entries[i] = log[x][prev + i]
  <2>1. Len(m.entries) = count
    BY <1>3, <1>4, <1>5, <1>6, EntriesAfterType
  <2> QED BY <1>6, <2>1 DEF EntriesAfter
<1>8. RequestFollows(m, x)
  BY <1>3, <1>6, <1>7 DEF RequestFollows
<1>9. \A q \in appendSent' : RequestFollows(q, x)'
  BY <1>2, <1>8 DEF Follows, RequestFollows
<1>10. \A n \in Node : Extends(log[x], log[n])'
  BY <1>2 DEF Follows, Extends
<1>11. \A r \in appendAnswered' : AnswerFollows(r, x)'
  BY <1>2 DEF Follows, AnswerFollows
<1>12. \A k \in 1 .. commitIndex'[x] : HeldWith(x, k)'
  BY <1>2 DEF Follows, HeldWith
<1> QED BY <1>2, <1>9, <1>10, <1>11, <1>12 DEF Follows

(* Entries of x, inserted behind an index both logs have, make the log of  *)
(* a follower a longer part of the log of x.                               *)
LEMMA InsertedFollows ==
    ASSUME NEW k \in Seq(Entry), NEW l \in Seq(Entry), NEW entries \in Seq(Entry),
           NEW prev \in Nat, prev <= Len(l), prev + Len(entries) <= Len(k), Extends(k, l),
           \A i \in 1 .. Len(entries) : entries[i] = k[prev + i]
    PROVE  /\ Extends(InsertValidEntryList(l, prev, entries), l)
           /\ Extends(k, InsertValidEntryList(l, prev, entries))
<1> DEFINE new == InsertValidEntryList(l, prev, entries)
           N == Larger(Len(l), prev + Len(entries))
<1>1. Len(l) \in Nat /\ Len(k) \in Nat /\ Len(entries) \in Nat
  BY LenProperties
<1>2. new \in Seq(Entry) /\ Len(new) = N
  BY InsertValidEntryListType
<1>3. N \in Nat /\ Len(l) <= N /\ N <= Len(k)
  BY <1>1 DEF Larger, Extends
<1>4. ASSUME NEW i \in 1 .. N PROVE new[i] = k[i]
  <2>1. new[i] = IF prev < i /\ i <= prev + Len(entries) THEN entries[i - prev] ELSE l[i]
    BY DEF InsertValidEntryList
  <2>2. CASE prev < i /\ i <= prev + Len(entries)
    <3>1. i - prev \in 1 .. Len(entries) /\ prev + (i - prev) = i
      BY <1>1, <1>3, <2>2
    <3> QED BY <2>1, <2>2, <3>1
  <2>3. CASE ~(prev < i /\ i <= prev + Len(entries))
    <3>1. i \in 1 .. Len(l)
      BY <1>1, <1>3, <2>3 DEF Larger
    <3> QED BY <2>1, <2>3, <3>1 DEF Extends
  <2> QED BY <2>2, <2>3
<1> HIDE DEF new, N
<1>5. Extends(k, new)
  BY <1>2, <1>3, <1>4 DEF Extends
<1>6. Extends(new, l)
  <2>1. \A i \in 1 .. Len(l) : i \in 1 .. N
    BY <1>1, <1>3
  <2> QED BY <1>2, <1>3, <1>4, <2>1 DEF Extends
<1> QED BY <1>5, <1>6 DEF new

(* A follower takes over entries of x, in whatever order they come, and    *)
(* acknowledges no more than it has.                                       *)
LEMMA FollowsAccept ==
    ASSUME IndexInv, TypeOK', NoSelfCalls, NEW x \in Node, Follows(x), NEW m \in appendSent,
           AcceptAppend(m)
    PROVE  Follows(x)' /\ log'[x] = log[x]
<1> DEFINE n == m.dst
           new == InsertValidEntryList(log[n], m.prevIndex, m.entries)
           commit == FollowerCommit(m, commitIndex[n], new)
<1>1. /\ n \in Node /\ m.src = x /\ n # x /\ m.prevIndex \in Nat /\ m.entries \in Seq(Entry)
      /\ m.commit \in Nat /\ m.commit <= commitIndex[x] /\ RequestFollows(m, x)
  BY DEF IndexInv, TypeOK, AppendRequest, NoSelfCalls, Follows, RequestFollows
<1>2. /\ log[n] \in Seq(Entry) /\ log[x] \in Seq(Entry) /\ Len(log[n]) \in Nat
      /\ Len(m.entries) \in Nat /\ commitIndex[n] \in Nat /\ commitIndex[x] \in Nat
      /\ m.prevIndex <= Len(log[n]) /\ m.prevIndex + Len(m.entries) <= Len(log[x])
      /\ commitIndex[n] <= commitIndex[x] /\ Extends(log[x], log[n])
  <2>1. m.prevIndex <= Len(log[n])
    BY DEF AcceptAppend, PrevMatches, MaximumIndex
  <2>2. m.prevIndex + Len(m.entries) <= Len(log[x])
    BY <1>1 DEF IndexInv, CallsWithinLog, SentWithinLog
  <2>3. commitIndex[n] <= commitIndex[x] /\ Extends(log[x], log[n])
    BY <1>1 DEF Follows
  <2> QED BY <1>1, <2>1, <2>2, <2>3, LogLengths, LenProperties DEF IndexInv
<1>3. Extends(new, log[n]) /\ Extends(log[x], new)
  <2>1. \A i \in 1 .. Len(m.entries) : m.entries[i] = log[x][m.prevIndex + i]
    BY <1>1 DEF RequestFollows
  <2> QED BY <1>1, <1>2, <2>1, InsertedFollows
<1>4. Len(new) = Larger(Len(log[n]), m.prevIndex + Len(m.entries)) /\ Len(new) \in Nat
  BY <1>1, <1>2, InsertValidEntryListType DEF Larger
<1>5. commit <= commitIndex[x]
  <2> HIDE DEF new
  <2> QED BY <1>1, <1>2, <1>4 DEF FollowerCommit, Smaller, MaximumIndex
<1>6. /\ log' = [log EXCEPT ![n] = new] /\ commitIndex' = [commitIndex EXCEPT ![n] = commit]
      /\ AnswerAppend(m, m.term, TRUE, 0, 0)
  BY DEF AcceptAppend
<1> HIDE DEF new, commit
<1>7. /\ log'[n] = new /\ commitIndex'[n] = commit
      /\ \A y \in Node : y # n => log'[y] = log[y] /\ commitIndex'[y] = commitIndex[y]
  BY <1>1, <1>6 DEF IndexInv, TypeOK
<1>8. log'[x] = log[x] /\ commitIndex'[x] = commitIndex[x]
  BY <1>1, <1>7
<1>9. \A y \in Node : Extends(log'[y], log[y]) /\ Extends(log'[x], log'[y])
  <2> TAKE y \in Node
  <2>1. CASE y = n
    BY <1>3, <1>7, <1>8, <2>1
  <2>2. CASE y # n
    BY <1>7, <1>8, <2>2, ExtendsItself DEF IndexInv, TypeOK, Follows
  <2> QED BY <2>1, <2>2
<1>10. \A y \in Node : commitIndex'[y] <= commitIndex'[x]
  BY <1>5, <1>7, <1>8 DEF Follows
<1>11. PICK r : r = [src |-> m.src, dst |-> n, start |-> m.start,
                     prevIndex |-> m.prevIndex, count |-> Len(m.entries),
                     term |-> m.term, success |-> TRUE, conflictIndex |-> 0, conflictTerm |-> 0]
  OBVIOUS
<1>12. /\ appendSent' \subseteq appendSent /\ appendAnswered' = appendAnswered \cup {r}
       /\ UNCHANGED <<matchIndex, polls>>
  BY <1>6, <1>11 DEF AnswerAppend
<1>13. AnswerFollows(r, x)'
  <2>1. r.src = x /\ r.dst = n /\ r.prevIndex + r.count = m.prevIndex + Len(m.entries)
    BY <1>1, <1>11
  <2>2. m.prevIndex + Len(m.entries) <= Len(new)
    BY <1>1, <1>2, <1>4 DEF Larger
  <2> QED BY <1>7, <2>1, <2>2 DEF AnswerFollows
<1>14. \A y \in Node : y # x => polls'[y] = 0
  BY <1>12 DEF Follows
<1>15. \A q \in appendAnswered' : q \in appendAnswered \/ AnswerFollows(q, x)'
  BY <1>12, <1>13
<1> QED BY <1>8, <1>9, <1>10, <1>12, <1>14, <1>15, FollowsGrow

(* What the commit loop of the leader newly commits, a majority has. *)
LEMMA NewlyCommittedHeld ==
    ASSUME IndexInv, NEW x \in Node, NEW match \in [Node -> Nat],
           \A p \in Peers(x) : match[p] <= Len(log[p]),
           NEW k \in 1 .. LeaderCommit(x, match), k > commitIndex[x]
    PROVE  HeldWith(x, k)
<1> DEFINE replicated(j) == IsMajority(1 + Cardinality({p \in Peers(x) : match[p] >= j}))
           C == {j \in commitIndex[x] + 1 .. MaximumIndex(log[x]) : replicated(j)}
           c == LeaderCommit(x, match)
<1>1. log[x] \in Seq(Entry) /\ Len(log[x]) \in Nat /\ commitIndex[x] \in Nat
  BY LogLengths DEF IndexInv
<1>2. C \in SUBSET Nat /\ \A j \in C : j <= Len(log[x]) /\ replicated(j)
  BY <1>1 DEF MaximumIndex
<1>3. c = IF C = {} THEN commitIndex[x] ELSE CHOOSE j \in C : \A i \in C : i <= j
  BY DEF LeaderCommit
<1>4. c \in Nat /\ k \in Nat /\ k <= c
  <2>1. c \in Nat
    BY <1>1, LeaderCommitBounds, CommittedWithinLog
  <2> QED BY <2>1
<1> HIDE DEF C, c, replicated
<1>5. C # {}
  BY <1>1, <1>3, <1>4
<1>6. \E j \in C : \A i \in C : i <= j
  BY <1>1, <1>2, <1>5, MaximumExists
<1>7. c \in C
  BY <1>3, <1>5, <1>6
<1>8. replicated(c)
  BY <1>2, <1>7
<1> DEFINE S == {p \in Peers(x) : match[p] >= c}
           T == {p \in Peers(x) : Len(log[p]) >= k}
<1>9. IsMajority(1 + Cardinality(S))
  BY <1>8 DEF replicated
<1>10. S \subseteq T
  <2>1. \A p \in Peers(x) : Len(log[p]) \in Nat /\ match[p] \in Nat
    BY LogLengths DEF IndexInv, Peers
  <2> QED BY <1>4, <2>1
<1>11. S \in SUBSET Peers(x) /\ T \in SUBSET Peers(x)
  OBVIOUS
<1> HIDE DEF S, T
<1>12. IsMajority(1 + Cardinality(T))
  BY <1>9, <1>10, <1>11, MoreHolders
<1> QED BY <1>12 DEF HeldWith, T

(* A success response tells x only what its sender has. *)
LEMMA FollowsSuccess ==
    ASSUME IndexInv, TypeOK', NoSelfCalls, NEW x \in Node, Follows(x), NEW r \in appendAnswered,
           HandleAppendSuccess(r)
    PROVE  Follows(x)'
<1> DEFINE next == r.prevIndex + 1 + r.count
           match == [matchIndex[x] EXCEPT ![r.dst] = Larger(@, next - 1)]
           commit == LeaderCommit(x, match)
<1>1. /\ r.src = x /\ r.dst \in Node /\ r.prevIndex \in Nat /\ r.count \in Nat /\ r.dst # x
      /\ r.prevIndex + r.count <= Len(log[r.dst])
  BY DEF IndexInv, TypeOK, AppendResponse, Follows, AnswerFollows, HandleAppendSuccess, NoSelfCalls
<1>2. next - 1 \in Nat /\ next - 1 = r.prevIndex + r.count
  BY <1>1
<1>3. matchIndex[x] \in [Node -> Nat]
  BY DEF IndexInv, TypeOK
<1>4. /\ matchIndex' = [matchIndex EXCEPT ![x] = match]
      /\ commitIndex' = [commitIndex EXCEPT ![x] = commit]
      /\ UNCHANGED <<log, polls, appendSent>> /\ appendAnswered' \subseteq appendAnswered
  BY <1>1 DEF HandleAppendSuccess
<1> HIDE DEF next
<1>5. match \in [Node -> Nat]
  <2>1. Larger(matchIndex[x][r.dst], next - 1) \in Nat
    BY <1>1, <1>2, <1>3 DEF Larger
  <2> QED BY <1>1, <1>3, <2>1
<1>6. ASSUME NEW p \in Peers(x) PROVE match[p] <= Len(log[p])
  <2>1. p \in Node /\ matchIndex[x][p] <= Len(log[p])
    BY DEF Follows, Peers
  <2>2. CASE p = r.dst
    <3>1. match[p] = Larger(matchIndex[x][p], next - 1)
      BY <1>1, <1>3, <2>1, <2>2
    <3> QED BY <1>1, <1>2, <2>1, <2>2, <3>1 DEF Larger
  <2>3. CASE p # r.dst
    BY <1>1, <1>3, <2>1, <2>3
  <2> QED BY <2>2, <2>3
<1> HIDE DEF match
<1>7. commit \in Nat /\ commitIndex[x] <= commit
  BY LogLengths, LeaderCommitBounds, CommittedWithinLog DEF IndexInv
<1>8. ASSUME NEW k \in 1 .. commit PROVE HeldWith(x, k)
  <2>1. k \in Nat /\ commitIndex[x] \in Nat
    BY <1>7, LogLengths DEF IndexInv
  <2>2. CASE k <= commitIndex[x]
    BY <2>1, <2>2 DEF Follows
  <2>3. CASE k > commitIndex[x]
    BY <1>5, <1>6, <2>3, NewlyCommittedHeld
  <2> QED BY <2>1, <2>2, <2>3
<1> HIDE DEF commit
<1>9. /\ matchIndex'[x] = match /\ commitIndex'[x] = commit
      /\ \A n \in Node : n # x => commitIndex'[n] = commitIndex[n]
  BY <1>4 DEF IndexInv, TypeOK
<1>10. \A n \in Node : commitIndex'[n] <= commitIndex'[x]
  <2>1. \A n \in Node : commitIndex[n] \in Nat /\ commitIndex[n] <= commitIndex[x]
    BY LogLengths DEF IndexInv, Follows
  <2> QED BY <1>7, <1>9, <2>1
<1>11. \A n \in Node : Extends(log[x], log[n])'
  BY <1>4 DEF Follows, Extends
<1>12. \A m \in appendSent' : RequestFollows(m, x)'
  <2>1. commitIndex[x] \in Nat /\ \A m \in appendSent : m.commit \in Nat
    BY LogLengths DEF IndexInv, TypeOK, AppendRequest
  <2> QED BY <1>4, <1>7, <1>9, <2>1 DEF Follows, RequestFollows
<1>13. \A q \in appendAnswered' : AnswerFollows(q, x)'
  BY <1>4 DEF Follows, AnswerFollows
<1>14. \A k \in 1 .. commitIndex'[x] : HeldWith(x, k)'
  BY <1>4, <1>8, <1>9 DEF HeldWith
<1>15. \A p \in Peers(x) : matchIndex'[x][p] <= Len(log'[p])
  BY <1>4, <1>6, <1>9
<1> QED BY <1>4, <1>10, <1>11, <1>12, <1>13, <1>14, <1>15 DEF Follows

(* Every step keeps the invariant, and the log of x only grows, as long as *)
(* no process dies and nobody else wins an election.                       *)
LEMMA FollowsNext ==
    ASSUME ElectionInv, IndexInv', TermFloor, NEW x \in Node, SoleLeader(x), SoleLeader(x)',
           Follows(x), [Next]_vars, crashes' = 0
    PROVE  Follows(x)' /\ Extends(log'[x], log[x])
<1>0. /\ IndexInv /\ TypeOK /\ TypeOK' /\ NoSelfCalls /\ LeadershipInv
      /\ log[x] \in Seq(Entry) /\ \A n \in Node : ~Crash(n)
  BY NobodyCrashed DEF ElectionInv, IndexInv, TypeOK
<1>1. CASE UNCHANGED <<log, commitIndex, matchIndex, polls, appendSent, appendAnswered>>
  <2>1. \A n \in Node : n # x => polls'[n] = 0
    BY <1>1 DEF Follows
  <2>2. Follows(x)'
    BY <1>1, <2>1, FollowsFrame
  <2> QED BY <1>0, <1>1, <2>2, ExtendsItself
<1>2. CASE \E n \in Node : LocalStep(n)
  <2>1. PICK n \in Node : LocalStep(n)
    BY <1>2
  <2>2. CASE NewNode(n)
    <3>1. /\ state[n] = "Dead" /\ disk[n] = <<>> /\ log[n] = <<>> /\ commitIndex[n] = 0
      BY <1>0, <2>2 DEF NewNode, TermFloor, NodeFloor, IndexInv, DeadIsEmpty
    <3>2. UNCHANGED <<log, commitIndex>>
      BY <1>0, <2>2, <3>1 DEF NewNode, TypeOK
    <3> QED BY <1>1, <2>2, <3>2 DEF NewNode
  <2>3. CASE StartReleasePoll(n) \/ EndReleasePoll(n)
    <3>1. /\ UNCHANGED <<log, commitIndex, matchIndex, appendSent, appendAnswered>>
          /\ \A y \in Node : y # n => polls'[y] = polls[y]
      BY <1>0, <2>3 DEF StartReleasePoll, EndReleasePoll, TypeOK
    <3>2. n = x
      <4>1. CASE StartReleasePoll(n)
        BY <1>0, <4>1, LeaderIsSole DEF StartReleasePoll
      <4>2. CASE EndReleasePoll(n)
        BY <4>2 DEF EndReleasePoll, Follows
      <4> QED BY <2>3, <4>1, <4>2
    <3>3. \A y \in Node : y # x => polls'[y] = 0
      BY <3>1, <3>2 DEF Follows
    <3>4. Follows(x)'
      BY <3>1, <3>3, FollowsFrame
    <3> QED BY <1>0, <3>1, <3>4, ExtendsItself
  <2>4. CASE \E c \in Command : LogCommand(n, c) \/ PollRelease(n, c)
    <3>1. PICK c \in Command : LogCommand(n, c) \/ PollRelease(n, c)
      BY <2>4
    <3>2. n = x
      <4>1. CASE LogCommand(n, c)
        BY <1>0, <4>1, LeaderIsSole DEF LogCommand
      <4>2. CASE PollRelease(n, c)
        BY <4>2 DEF PollRelease, Follows
      <4> QED BY <3>1, <4>1, <4>2
    <3>3. /\ AppendEntry(n, c)
          /\ \A y \in Node : y # n => polls'[y] = polls[y]
      BY <1>0, <3>1 DEF LogCommand, PollRelease, TypeOK
    <3>4. PICK e : e = [term |-> currentTerm[n], cmd |-> c]
      OBVIOUS
    <3>5. log' = [log EXCEPT ![x] = Append(log[x], e)]
      BY <3>2, <3>3, <3>4 DEF AppendEntry, InsertLogEntry
    <3>6. e \in Entry
      BY <1>0, <3>4 DEF Entry, TypeOK
    <3>7. log'[x] = Append(log[x], e) /\ \A y \in Node : y # x => log'[y] = log[y]
      BY <1>0, <3>5 DEF TypeOK
    <3>8. Extends(log'[x], log[x])
      BY <1>0, <3>6, <3>7, AppendProperties, LenProperties DEF Extends
    <3>9. UNCHANGED <<commitIndex, matchIndex, appendSent, appendAnswered>>
      BY <3>3 DEF AppendEntry
    <3>10. \A y \in Node : y # x => polls'[y] = 0
      BY <3>2, <3>3 DEF Follows
    <3> QED BY <1>0, <3>7, <3>8, <3>9, <3>10, FollowsAppend
  <2>5. CASE BackUpLogMemoryToDisk(n) \/ StartCandidateVoteModule(n) \/ HeartBeat(n)
    BY <1>1, <2>5 DEF BackUpLogMemoryToDisk, StartCandidateVoteModule, HeartBeat
  <2> QED BY <1>0, <2>1, <2>2, <2>3, <2>4, <2>5 DEF LocalStep
<1>3. CASE CandidateVotes
  <2>1. CASE \E r \in voteAnswered : \E released \in {<<>>} \cup {<<c>> : c \in Command} :
                WinElection(r, released)
    <3>1. PICK r \in voteAnswered, released \in {<<>>} \cup {<<c>> : c \in Command} :
              WinElection(r, released)
      BY <2>1
    <3>2. r.src = x
      <4>1. PICK e : e = [term |-> currentTerm[r.src], node |-> r.src,
                          voters |-> CollectedVotes(r)]
        OBVIOUS
      <4>2. e \in elected' /\ e.node = r.src
        BY <3>1, <4>1 DEF WinElection, BecomeLeader
      <4> QED BY <4>2 DEF SoleLeader
    <3> DEFINE releases == [i \in DOMAIN released |->
                               [term |-> currentTerm[x], cmd |-> released[i]]]
    <3>3. releases \in Seq(Entry)
      <4>1. \A c \in Command : <<c>> \in Seq(Command)
        OBVIOUS
      <4>2. released \in Seq(Command)
        BY <4>1, EmptySeq
      <4>3. DOMAIN released = 1 .. Len(released) /\ Len(released) \in Nat
        BY <4>2, LenProperties
      <4>4. \A i \in 1 .. Len(released) : [term |-> currentTerm[x], cmd |-> released[i]] \in Entry
        BY <1>0, <4>2, ElementOfSeq DEF Entry, TypeOK
      <4> QED BY <4>3, <4>4
    <3>4. log' = [log EXCEPT ![x] = log[x] \o releases]
      BY <3>1, <3>2 DEF WinElection, BecomeLeader
    <3> HIDE DEF releases
    <3>5. log'[x] = log[x] \o releases /\ \A y \in Node : y # x => log'[y] = log[y]
      BY <1>0, <3>4 DEF TypeOK
    <3>6. Extends(log'[x], log[x])
      <4>1. Len(log[x]) \in Nat /\ Len(releases) \in Nat
        BY <1>0, <3>3, LenProperties
      <4> QED BY <1>0, <3>3, <3>5, <4>1, ConcatProperties DEF Extends
    <3>7. UNCHANGED <<commitIndex, matchIndex, appendSent, appendAnswered, polls>>
      BY <3>1 DEF WinElection
    <3>8. \A y \in Node : y # x => polls'[y] = 0
      BY <3>7 DEF Follows
    <3> QED BY <1>0, <3>5, <3>6, <3>7, <3>8, FollowsAppend
  <2>2. CASE ~\E r \in voteAnswered : \E released \in {<<>>} \cup {<<c>> : c \in Command} :
                WinElection(r, released)
    <3>1. UNCHANGED <<log, commitIndex, matchIndex, polls, appendSent, appendAnswered>>
      BY <1>3, <2>2 DEF CandidateVotes, SendCandidateVotes, AbandonCandidateVotes,
         GrantHigherTermVote, AnswerSameTermVote, AnswerVote, HandleVoteHigherTerm,
         CollectVote, IgnoreVote, LoseVoteCall
    <3> QED BY <1>1, <3>1
  <2> QED BY <2>1, <2>2
<1>4. CASE AppendEntries
  <2>1. CASE \E c \in appendSpawned : SendAppendEntries(c)
    <3>1. PICK c \in appendSpawned : SendAppendEntries(c)
      BY <2>1
    <3>2. c.src = x
      BY <1>0, <3>1, LeaderIsSole DEF TypeOK, AppendSpawn, SendAppendEntries
    <3>3. log' = log
      BY <3>1 DEF SendAppendEntries
    <3> QED BY <1>0, <3>1, <3>2, <3>3, FollowsSend, ExtendsItself
  <2>2. CASE \E m \in appendSent : AcceptAppend(m)
    BY <1>0, <2>2, FollowsAccept, ExtendsItself
  <2>3. CASE \E m \in appendSent : RefuseObsoleteAppend(m) \/ RefuseConflictingAppend(m)
    <3>1. PICK m \in appendSent :
                \E term, index, cterm : AnswerAppend(m, term, FALSE, index, cterm)
      BY <2>3 DEF RefuseObsoleteAppend, RefuseConflictingAppend
    <3>2. UNCHANGED <<log, commitIndex>>
      BY <2>3 DEF RefuseObsoleteAppend, RefuseConflictingAppend
    <3>3. m.src = x
      BY DEF Follows, RequestFollows
    <3>4. \A r \in appendAnswered' : r \in appendAnswered \/ AnswerFollows(r, x)
      BY <3>1, <3>3 DEF AnswerAppend, AnswerFollows
    <3>5. UNCHANGED <<matchIndex, polls>> /\ appendSent' \subseteq appendSent
      BY <3>1 DEF AnswerAppend
    <3>6. \A y \in Node : y # x => polls'[y] = 0
      BY <3>5 DEF Follows
    <3>7. Follows(x)'
      BY <3>2, <3>4, <3>5, <3>6, FollowsFrame
    <3> QED BY <1>0, <3>2, <3>7, ExtendsItself
  <2>4. CASE \E r \in appendAnswered : HandleAppendSuccess(r)
    <3>1. log' = log
      BY <2>4 DEF HandleAppendSuccess
    <3> QED BY <1>0, <2>4, <3>1, FollowsSuccess, ExtendsItself
  <2>5. CASE \/ \E d \in sendDue : SendAppendEntriesToPeers(d)
             \/ \E c \in appendSpawned : AbandonAppendEntries(c)
             \/ \E r \in appendAnswered : \/ HandleAppendHigherTerm(r) \/ HandleAppendConflict(r)
                                          \/ IgnoreAppendResponse(r)
             \/ LoseAppendCall
    <3>1. /\ UNCHANGED <<log, commitIndex, matchIndex, polls>>
          /\ appendSent' \subseteq appendSent /\ appendAnswered' \subseteq appendAnswered
      BY <2>5 DEF SendAppendEntriesToPeers, AbandonAppendEntries, HandleAppendHigherTerm,
         HandleAppendConflict, IgnoreAppendResponse, LoseAppendCall
    <3>2. \A y \in Node : y # x => polls'[y] = 0
      BY <3>1 DEF Follows
    <3>3. Follows(x)'
      BY <3>1, <3>2, FollowsFrame
    <3> QED BY <1>0, <3>1, <3>3, ExtendsItself
  <2> QED BY <1>4, <2>1, <2>2, <2>3, <2>4, <2>5 DEF AppendEntries
<1>5. CASE UNCHANGED vars
  BY <1>1, <1>5 DEF vars
<1> QED BY <1>2, <1>3, <1>4, <1>5 DEF Next

(* Who led stays a leader of the past. *)
LEMMA ElectedForGood ==
    ASSUME [Next]_vars
    PROVE  elected \subseteq elected'
<1>1. CASE \E n \in Node : LocalStep(n)
  BY <1>1 DEF LocalStep, NewNode, Crash, BackUpLogMemoryToDisk, StartCandidateVoteModule,
     HeartBeat, StartReleasePoll, EndReleasePoll, LogCommand, PollRelease, AppendEntry
<1>2. CASE CandidateVotes
  BY <1>2 DEF CandidateVotes, SendCandidateVotes, AbandonCandidateVotes, GrantHigherTermVote,
     AnswerSameTermVote, AnswerVote, HandleVoteHigherTerm, CollectVote, IgnoreVote,
     WinElection, BecomeLeader, LoseVoteCall
<1>3. CASE AppendEntries
  BY <1>3 DEF AppendEntries, SendAppendEntriesToPeers, SendAppendEntries,
     AbandonAppendEntries, RefuseObsoleteAppend, AcceptAppend, RefuseConflictingAppend,
     AnswerAppend, HandleAppendHigherTerm, HandleAppendSuccess, HandleAppendConflict,
     IgnoreAppendResponse, LoseAppendCall
<1>4. CASE UNCHANGED vars
  BY <1>4 DEF vars
<1> QED BY <1>1, <1>2, <1>3, <1>4 DEF Next

(* While no process has died, everyone follows the only leader there was. *)
OneLeaderInv == crashes = 0 => \A x \in Node : SoleLeader(x) => Follows(x)

(* A step after which x is still the only leader there was. *)
LEMMA OneLeaderNext ==
    ASSUME ElectionInv, IndexInv', CalmInv, OneLeaderInv, [Next]_vars, crashes' = 0,
           NEW x \in Node, SoleLeader(x)'
    PROVE  Follows(x) /\ Follows(x)' /\ Extends(log'[x], log[x])
<1>1. SoleLeader(x)
  BY ElectedForGood DEF SoleLeader
<1>2. crashes = 0
  BY NobodyCrashed DEF ElectionInv, IndexInv
<1>3. TermFloor /\ Follows(x)
  BY <1>1, <1>2 DEF CalmInv, OneLeaderInv
<1> QED BY <1>1, <1>3, FollowsNext

(* It holds in every behaviour. *)
LEMMA OneLeaderInvariance == Spec => []OneLeaderInv
<1>1. Init => OneLeaderInv
  <2> SUFFICES ASSUME Init, NEW x \in Node PROVE Follows(x)
    BY DEF OneLeaderInv
  <2>1. \A n \in Node : Len(log[n]) = 0 /\ log[n] = <<>> /\ matchIndex[x][n] = 0
    BY EmptySeq DEF Init, FreshPeers
  <2>2. \A n \in Node : Extends(log[x], log[n])
    BY <2>1 DEF Extends
  <2> QED BY <2>1, <2>2 DEF Init, Follows, Peers
<1>2. ElectionInv /\ CalmInv /\ (ElectionInv /\ CalmInv)' /\ OneLeaderInv /\ [Next]_vars
      => OneLeaderInv'
  <2> SUFFICES ASSUME ElectionInv, ElectionInv', CalmInv, OneLeaderInv, [Next]_vars,
                      crashes' = 0, NEW x \in Node, SoleLeader(x)'
               PROVE  Follows(x)'
    BY DEF OneLeaderInv
  <2> QED BY OneLeaderNext DEF ElectionInv
<1> QED BY <1>1, <1>2, ElectionInvariance, PTL DEF Spec

(* In every behaviour, for any number of nodes and calls that come late,   *)
(* out of order or not at all, a majority has every entry that any node    *)
(* has committed while one node has been the only leader (the commit loop  *)
(* of SendAppendEntriesToPeers in node.go, AppendEntriesService in         *)
(* p2p_server.go).                                                         *)
THEOREM CommittedIsOnMajority == Spec => []CommittedOnMajority
<1>1. ElectionInv /\ OneLeaderInv => CommittedOnMajority
  <2> SUFFICES ASSUME ElectionInv, OneLeaderInv, OneNodeLeads, NEW n \in Node,
                      NEW k \in 1 .. commitIndex[n]
               PROVE  2 * Cardinality({p \in Node : k <= Len(log[p]) /\ log[p][k] = log[n][k]})
                         > Cardinality(Node)
    BY DEF CommittedOnMajority
  <2>1. IndexInv
    BY DEF ElectionInv
  <2>2. PICK x \in Node : Follows(x)
    <3>1. \E x \in Node : SoleLeader(x)
      <4>1. CASE elected = {}
        BY <4>1 DEF SoleLeader
      <4>2. CASE elected # {}
        <5>1. PICK e \in elected : TRUE
          BY <4>2
        <5>2. e.node \in Node
          BY <2>1 DEF IndexInv, TypeOK
        <5> QED BY <5>1, <5>2 DEF OneNodeLeads, SoleLeader
      <4> QED BY <4>1, <4>2
    <3> QED BY <3>1 DEF OneLeaderInv, OneNodeLeads
  <2>3. /\ commitIndex[n] \in Nat /\ commitIndex[x] \in Nat /\ k \in Nat
        /\ \A p \in Node : Len(log[p]) \in Nat /\ commitIndex[p] <= Len(log[p])
    BY <2>1, LogLengths, CommittedWithinLog DEF IndexInv
  <2>4. k \in 1 .. commitIndex[x] /\ k \in 1 .. Len(log[n]) /\ k <= Len(log[x])
    BY <2>2, <2>3 DEF Follows
  <2> DEFINE S == {p \in Peers(x) : Len(log[p]) >= k}
             H == {p \in Node : k <= Len(log[p]) /\ log[p][k] = log[n][k]}
  <2>5. IsMajority(1 + Cardinality(S))
    BY <2>2, <2>4 DEF Follows, HeldWith
  <2>6. \A p \in Node : k <= Len(log[p]) => log[p][k] = log[n][k]
    <3>1. \A p \in Node : k <= Len(log[p]) => k \in 1 .. Len(log[p])
      BY <2>3
    <3> QED BY <2>2, <2>4, <3>1 DEF Follows, Extends
  <2>7. S \cup {x} \subseteq H /\ H \subseteq Node /\ S \subseteq Node /\ x \notin S
    BY <2>3, <2>4, <2>6 DEF Peers
  <2> HIDE DEF S, H
  <2>8. IsFiniteSet(Node) /\ IsFiniteSet(S) /\ IsFiniteSet(H)
    BY <2>7, NodeAssumption, FS_Subset
  <2>9. Cardinality(S \cup {x}) = Cardinality(S) + 1
    BY <2>7, <2>8, FS_AddElement
  <2>10. Cardinality(S \cup {x}) <= Cardinality(H)
    BY <2>7, <2>8, FS_Subset
  <2>11. Cardinality(S) \in Nat /\ Cardinality(H) \in Nat /\ Cardinality(Node) \in Nat
    BY <2>8, FS_CardinalityType
  <2>12. 2 * Cardinality(H) > Cardinality(Node)
    BY <2>5, <2>9, <2>10, <2>11 DEF IsMajority
  <2> QED BY <2>12 DEF H
<1> QED BY <1>1, ElectionInvariance, OneLeaderInvariance, PTL

(* Then no step of any node changes what some node has committed at an     *)
(* index, and all nodes commit the same entries (AppendEntriesService in   *)
(* p2p_server.go, InsertValidEntryList in log_memory.go), so the state     *)
(* maps of all nodes are fed the same commands.                            *)
THEOREM CommittedStays == Spec => CommittedForGood
<1>1. ElectionInv /\ CalmInv /\ (ElectionInv /\ CalmInv)' /\ OneLeaderInv /\ [Next]_vars
      => (OneNodeLeads' =>
            \A n, m \in Node : \A k \in 1 .. Smaller(commitIndex[n], commitIndex'[m]) :
                log'[m][k] = log[n][k])
  <2> SUFFICES ASSUME ElectionInv, CalmInv, ElectionInv', OneLeaderInv, [Next]_vars,
                      OneNodeLeads', NEW n \in Node, NEW m \in Node,
                      NEW k \in 1 .. Smaller(commitIndex[n], commitIndex'[m])
               PROVE  log'[m][k] = log[n][k]
    OBVIOUS
  <2>1. IndexInv /\ IndexInv' /\ crashes' = 0
    BY DEF ElectionInv, OneNodeLeads
  <2>2. PICK x \in Node : SoleLeader(x)'
    <3>1. CASE elected' = {}
      BY <3>1 DEF SoleLeader
    <3>2. CASE elected' # {}
      <4>1. PICK e \in elected' : TRUE
        BY <3>2
      <4>2. e.node \in Node
        BY <2>1 DEF IndexInv, TypeOK
      <4> QED BY <4>1, <4>2 DEF OneNodeLeads, SoleLeader
    <3> QED BY <3>1, <3>2
  <2>3. Follows(x) /\ Follows(x)' /\ Extends(log'[x], log[x])
    BY <2>1, <2>2, OneLeaderNext
  <2>4. commitIndex[n] <= Len(log[n]) /\ commitIndex[n] \in Nat /\ Len(log[n]) \in Nat
    BY <2>1, LogLengths, CommittedWithinLog DEF IndexInv
  <2>5. commitIndex'[m] <= Len(log'[m]) /\ commitIndex'[m] \in Nat /\ Len(log'[m]) \in Nat
    <3>1. commitIndex'[m] <= Len(log'[m])
      BY <2>1, EmptySeq DEF IndexInv, DeadIsEmpty, IndexesInOrder, Alive, MaximumIndex
    <3>2. commitIndex'[m] \in Nat /\ log'[m] \in Seq(Entry)
      BY <2>1 DEF IndexInv, TypeOK
    <3> QED BY <3>1, <3>2, LenProperties
  <2>6. k \in 1 .. Len(log[n]) /\ k \in 1 .. Len(log'[m])
    BY <2>4, <2>5 DEF Smaller
  <2>7. log[x][k] = log[n][k] /\ Len(log[n]) <= Len(log[x]) /\ Len(log[x]) \in Nat
    BY <2>1, <2>3, <2>6, LogLengths DEF Follows, Extends, IndexInv
  <2>8. log'[x][k] = log[x][k]
    <3>1. k \in 1 .. Len(log[x])
      BY <2>4, <2>6, <2>7
    <3> QED BY <2>3, <3>1 DEF Extends
  <2>9. log'[x][k] = log'[m][k]
    BY <2>3, <2>6 DEF Follows, Extends
  <2> QED BY <2>7, <2>8, <2>9
<1> QED BY <1>1, ElectionInvariance, OneLeaderInvariance, PTL DEF Spec, CommittedForGood
=============================================================================
