------------------------ MODULE RaftConsensusProofs ------------------------
(***************************************************************************)
(* The index arithmetic of RaftConsensus is safe, proved for every number  *)
(* of nodes and every value of the bounds: types, the order of backup,     *)
(* commit and last index, the range of NextIndex, and the monotonicity of  *)
(* the commit index.  First come facts about the log operators, then the   *)
(* inductive invariant, then one lemma per action, then the theorems.      *)
(***************************************************************************)
EXTENDS RaftConsensus, TLAPS, SequenceTheorems, FiniteSetTheorems, WellFoundedInduction

(* A non-empty set of numbers with an upper bound has a largest element.   *)
(* It gives a value to the CHOOSE that stands for the downward commit loop *)
(* of SendAppendEntriesToPeers.                                            *)
LEMMA MaximumExists ==
    ASSUME NEW S \in SUBSET Nat, S # {}, NEW n \in Nat, \A k \in S : k <= n
    PROVE  \E m \in S : \A k \in S : k <= m
<1> DEFINE T == {n - k : k \in S}
           R == OpToRel(<, Nat)
<1>1. T \subseteq Nat /\ T # {}
  <2>1. \A k \in S : n - k \in Nat
    OBVIOUS
  <2> QED BY <2>1
<1>2. IsWellFoundedOn(R, Nat)
  BY NatLessThanWellFounded
<1> HIDE DEF T, R
<1>3. PICK x \in T : \A y \in T : ~(<<y, x>> \in R)
  BY <1>1, <1>2, WFMin
<1>4. PICK m \in S : x = n - m
  BY <1>3 DEF T
<1>5. ASSUME NEW k \in S PROVE k <= m
  <2>1. n - k \in T /\ n - k \in Nat
    BY <1>1 DEF T
  <2>2. ~(n - k < x)
    BY <1>3, <1>1, <2>1 DEF R, OpToRel
  <2> QED BY <2>2, <1>4
<1> QED BY <1>5

(* The commit loop of the leader never lowers the commit index and never   *)
(* passes the end of the log, whatever the match indexes are.              *)
LEMMA LeaderCommitBounds ==
    ASSUME NEW n \in Node, commitIndex[n] \in Nat, log[n] \in Seq(Entry), NEW match,
           commitIndex[n] <= Len(log[n])
    PROVE  /\ LeaderCommit(n, match) \in Nat
           /\ commitIndex[n] <= LeaderCommit(n, match)
           /\ LeaderCommit(n, match) <= Len(log[n])
<1> DEFINE replicated(k) == IsMajority(1 + Cardinality({p \in Peers(n) : match[p] >= k}))
           S == {k \in commitIndex[n] + 1 .. MaximumIndex(log[n]) : replicated(k)}
<1>1. S \in SUBSET Nat /\ \A k \in S : commitIndex[n] <= k /\ k <= Len(log[n])
  BY DEF MaximumIndex
<1>2. LeaderCommit(n, match) = IF S = {} THEN commitIndex[n]
                               ELSE CHOOSE k \in S : \A j \in S : j <= k
  BY DEF LeaderCommit
<1> HIDE DEF S
<1>3. Len(log[n]) \in Nat
  BY LenProperties
<1>4. CASE S = {}
  BY <1>2, <1>4
<1>5. CASE S # {}
  <2>1. \E m \in S : \A j \in S : j <= m
    BY <1>1, <1>3, <1>5, MaximumExists
  <2>2. LeaderCommit(n, match) \in S
    BY <1>2, <1>5, <2>1
  <2> QED BY <1>1, <2>2
<1> QED BY <1>4, <1>5

(* FetchLastIndexOfTerm returns an index of the log, or 0. *)
LEMMA LastIndexBounds ==
    ASSUME NEW l \in Seq(Entry), NEW term
    PROVE  FetchLastIndexOfTerm(l, term) \in 0 .. Len(l)
<1> DEFINE S == {i \in 1 .. Len(l) : l[i].term = term}
<1>1. Len(l) \in Nat
  BY LenProperties
<1>2. CASE S = {}
  BY <1>1, <1>2 DEF FetchLastIndexOfTerm
<1>3. CASE S # {}
  <2>1. S \in SUBSET Nat /\ \A k \in S : k <= Len(l)
    BY <1>1
  <2>2. PICK m \in S : \A k \in S : k <= m
    <3> HIDE DEF S
    <3> QED BY <2>1, <1>1, <1>3, MaximumExists
  <2>3. l[m].term = term /\ \A j \in m + 1 .. Len(l) : l[j].term # term
    BY <2>2, <1>1
  <2> DEFINE last == CHOOSE i \in 1 .. Len(l) :
                 l[i].term = term /\ \A j \in (i + 1) .. Len(l) : l[j].term # term
  <2>4. last \in 1 .. Len(l)
    BY <2>2, <2>3
  <2>5. FetchLastIndexOfTerm(l, term) = last
    BY <1>3 DEF FetchLastIndexOfTerm
  <2> QED BY <2>4, <2>5
<1> QED BY <1>2, <1>3

(* Inserting entries behind an index of the log gives a log without gaps,  *)
(* and never a shorter one (log_memory.go never truncates).                *)
LEMMA InsertValidEntryListType ==
    ASSUME NEW l \in Seq(Entry), NEW entries \in Seq(Entry),
           NEW prev \in Nat, prev <= Len(l)
    PROVE  /\ InsertValidEntryList(l, prev, entries) \in Seq(Entry)
           /\ Len(InsertValidEntryList(l, prev, entries)) = Larger(Len(l), prev + Len(entries))
<1> DEFINE N == Larger(Len(l), prev + Len(entries))
           f(i) == IF prev < i /\ i <= prev + Len(entries) THEN entries[i - prev] ELSE l[i]
<1>1. Len(l) \in Nat /\ Len(entries) \in Nat
  BY LenProperties
<1>2. N \in Nat
  BY <1>1 DEF Larger
<1>3. ASSUME NEW i \in 1 .. N PROVE f(i) \in Entry
  <2>1. CASE prev < i /\ i <= prev + Len(entries)
    <3>1. i - prev \in 1 .. Len(entries)
      BY <2>1, <1>1, <1>2
    <3> QED BY <3>1, <2>1, ElementOfSeq
  <2>2. CASE ~(prev < i /\ i <= prev + Len(entries))
    <3>1. i \in 1 .. Len(l)
      BY <2>2, <1>1, <1>2 DEF Larger
    <3> QED BY <3>1, <2>2, ElementOfSeq
  <2> QED BY <2>1, <2>2
<1> HIDE DEF N, f
<1>4. InsertValidEntryList(l, prev, entries) = [i \in 1 .. N |-> f(i)]
  BY DEF InsertValidEntryList, N, f
<1> QED BY <1>2, <1>3, <1>4 DEF N

(* A request carries exactly the entries it announces. *)
LEMMA EntriesAfterType ==
    ASSUME NEW l \in Seq(Entry), NEW prev \in Nat, NEW n \in Nat, prev + n <= Len(l)
    PROVE  EntriesAfter(l, prev, n) \in Seq(Entry) /\ Len(EntriesAfter(l, prev, n)) = n
<1>1. \A i \in 1 .. n : l[prev + i] \in Entry
  BY ElementOfSeq, LenProperties
<1> QED BY <1>1 DEF EntriesAfter

(* After a backup the file holds exactly the entries up to the commit      *)
(* index.                                                                  *)
LEMMA StoreLogMemoryType ==
    ASSUME NEW d \in Seq(Entry), NEW l \in Seq(Entry), NEW last \in Nat, last <= Len(l)
    PROVE  StoreLogMemory(d, l, last) \in Seq(Entry) /\ Len(StoreLogMemory(d, l, last)) = last
<1>1. \A i \in 1 .. last : (IF i <= Len(d) THEN d[i] ELSE l[i]) \in Entry
  BY ElementOfSeq, LenProperties
<1> QED BY <1>1 DEF StoreLogMemory

(* The term quoted for an index of the log (or for 0) is a number. *)
LEMMA TermAtType ==
    ASSUME NEW l \in Seq(Entry), NEW i \in 0 .. Len(l)
    PROVE  TermAt(l, i) \in Nat
<1>1. i # 0 => l[i] \in Entry
  BY ElementOfSeq, LenProperties
<1> QED BY <1>1 DEF TermAt, Entry

-----------------------------------------------------------------------------
(* Every CandidateVotes goroutine belongs to a candidacy of its node that  *)
(* is still in memory: Crash forgets both together.                        *)
BallotsExist ==
    /\ \A c \in voteSpawned : c.ballot \in 1 .. Len(ballots[c.src])
    /\ \A m \in voteSent : m.ballot \in 1 .. Len(ballots[m.src])
    /\ \A r \in voteAnswered : r.ballot \in 1 .. Len(ballots[r.src])

(* A request of a live goroutine covers only entries its sender still has. *)
SentWithinLog(m) == m.prevIndex + Len(m.entries) <= Len(log[m.src])

(* So does its answer; a conflict with a term has an index. *)
AnsweredWithinLog(r) ==
    /\ r.prevIndex + r.count <= Len(log[r.src])
    /\ r.conflictIndex <= Len(log[r.src])
    /\ r.conflictTerm > 0 => r.conflictIndex > 0

(* Needed because success and conflict responses set NextIndex, possibly   *)
(* in a later term, when the sender has followed other leaders: logs only  *)
(* grow while the process lives, so an index that was once in the log      *)
(* stays in it.                                                            *)
CallsWithinLog ==
    /\ \A m \in appendSent : SentWithinLog(m)
    /\ \A r \in appendAnswered : AnsweredWithinLog(r)

(* A process that is down has nothing in memory: restart loads the file    *)
(* into an empty log.                                                      *)
DeadIsEmpty ==
    \A n \in Node : state[n] = "Dead" => log[n] = <<>> /\ commitIndex[n] = 0 /\ polls[n] = 0

(* The inductive invariant behind the index properties. IndexesInOrder and *)
(* NextIndexInRange are not inductive by themselves: a response could set  *)
(* NextIndex anywhere (CallsWithinLog), a restart could meet old memory    *)
(* (DeadIsEmpty), and a vote could be counted for a ballot that is gone    *)
(* (BallotsExist).                                                         *)
IndexInv ==
    /\ TypeOK
    /\ BallotsExist
    /\ CallsWithinLog
    /\ DeadIsEmpty
    /\ IndexesInOrder
    /\ NextIndexInRange

USE DEF nodeVars, logVars, peerVars, voteCalls, appendCalls, history

(* SendAppendEntriesToPeers only calls peers, never the node itself. *)
NoSelfCalls ==
    /\ \A d \in sendDue : d.src \notin d.peers
    /\ \A c \in appendSpawned \cup appendSent \cup appendAnswered : c.src # c.dst

(* Every step keeps NoSelfCalls. *)
LEMMA NoSelfCallsNext ==
    ASSUME NoSelfCalls, [Next]_vars
    PROVE  NoSelfCalls'
<1>1. CASE CandidateVotes
  BY <1>1 DEF NoSelfCalls, CandidateVotes, SendCandidateVotes, AbandonCandidateVotes,
     GrantHigherTermVote, AnswerSameTermVote, AnswerVote, HandleVoteHigherTerm, CollectVote,
     IgnoreVote, WinElection, LoseVoteCall
<1>2. CASE \E d \in sendDue : SendAppendEntriesToPeers(d)
  BY <1>2 DEF NoSelfCalls, SendAppendEntriesToPeers
<1>3. CASE \E c \in appendSpawned : SendAppendEntries(c) \/ AbandonAppendEntries(c)
  BY <1>3 DEF NoSelfCalls, SendAppendEntries, AbandonAppendEntries
<1>4. CASE \E m \in appendSent :
              RefuseObsoleteAppend(m) \/ AcceptAppend(m) \/ RefuseConflictingAppend(m)
  BY <1>4 DEF NoSelfCalls, RefuseObsoleteAppend, AcceptAppend, RefuseConflictingAppend,
     AnswerAppend
<1>5. CASE \E r \in appendAnswered :
              \/ HandleAppendHigherTerm(r) \/ HandleAppendSuccess(r)
              \/ HandleAppendConflict(r) \/ IgnoreAppendResponse(r)
  BY <1>5 DEF NoSelfCalls, HandleAppendHigherTerm, HandleAppendSuccess, HandleAppendConflict,
     IgnoreAppendResponse
<1>6. CASE LoseAppendCall
  BY <1>6 DEF NoSelfCalls, LoseAppendCall
<1>7. CASE \E n \in Node : LocalStep(n)
  <2>1. PICK n \in Node : LocalStep(n)
    BY <1>7
  <2>2. CASE Crash(n)
    BY <2>2 DEF NoSelfCalls, Crash
  <2>3. CASE HeartBeat(n)
    BY <2>3 DEF NoSelfCalls, HeartBeat, Peers
  <2>4. CASE ~Crash(n) /\ ~HeartBeat(n)
    <3>1. UNCHANGED appendCalls
      BY <2>1, <2>4 DEF LocalStep, NewNode, BackUpLogMemoryToDisk, StartCandidateVoteModule,
         StartReleasePoll, EndReleasePoll, LogCommand, PollRelease, AppendEntry
    <3> QED BY <3>1 DEF NoSelfCalls
  <2> QED BY <2>2, <2>3, <2>4
<1>8. CASE UNCHANGED vars
  BY <1>8 DEF NoSelfCalls, vars
<1> QED BY <1>1, <1>2, <1>3, <1>4, <1>5, <1>6, <1>7, <1>8 DEF Next, AppendEntries

(* Consequences of TypeOK for one node, in the form the provers use. *)
LEMMA LogLengths ==
    ASSUME TypeOK
    PROVE  \A n \in Node : /\ log[n] \in Seq(Entry) /\ Len(log[n]) \in Nat
                           /\ disk[n] \in Seq(Entry) /\ Len(disk[n]) \in Nat
                           /\ ballots[n] \in Seq(Ballot) /\ Len(ballots[n]) \in Nat
                           /\ commitIndex[n] \in Nat
BY LenProperties DEF TypeOK

(* The last term of a log is a number. *)
LEMMA LastTermType ==
    ASSUME NEW l \in Seq(Entry)
    PROVE  LastTerm(l) \in Nat
<1>1. Len(l) \in Nat
  BY LenProperties
<1> QED BY <1>1, TermAtType DEF LastTerm, MaximumIndex

(* Calls stay within the log if the log of every node with a live call     *)
(* does not shrink and the new calls are within it.                        *)
LEMMA CallsStayWithinLog ==
    ASSUME TypeOK, TypeOK', CallsWithinLog,
           \A n \in Node : (\E c \in appendSent' \cup appendAnswered' : c.src = n)
                            => Len(log[n]) <= Len(log'[n]),
           \A m \in appendSent' \ appendSent : SentWithinLog(m)',
           \A r \in appendAnswered' \ appendAnswered : AnsweredWithinLog(r)'
    PROVE  CallsWithinLog'
<1>1. \A n \in Node : Len(log[n]) \in Nat /\ Len(log'[n]) \in Nat
  BY LenProperties DEF TypeOK
<1>2. ASSUME NEW m \in appendSent' PROVE SentWithinLog(m)'
  <2>1. CASE m \in appendSent
    <3>1. m.src \in Node /\ m.prevIndex \in Nat /\ m.entries \in Seq(Entry)
      BY <1>2 DEF TypeOK, AppendRequest
    <3>2. Len(m.entries) \in Nat
      BY <3>1, LenProperties
    <3> QED BY <2>1, <1>1, <3>1, <3>2 DEF CallsWithinLog, SentWithinLog
  <2> QED BY <2>1
<1>3. ASSUME NEW r \in appendAnswered' PROVE AnsweredWithinLog(r)'
  <2>1. CASE r \in appendAnswered
    <3>1. r \in AppendResponse
      BY <2>1 DEF TypeOK
    <3> QED BY <2>1, <1>1, <3>1 DEF CallsWithinLog, AnsweredWithinLog, AppendResponse
  <2> QED BY <2>1
<1> QED BY <1>2, <1>3 DEF CallsWithinLog

(* The index properties survive a step that touches no index and makes no  *)
(* node a leader.                                                          *)
LEMMA IndexesFrame ==
    ASSUME IndexInv, UNCHANGED <<log, commitIndex, disk, nextIndex, polls>>,
           \A n \in Node : /\ state[n] = "Dead" <=> state'[n] = "Dead"
                           /\ state'[n] = "Leader" => state[n] = "Leader"
    PROVE  DeadIsEmpty' /\ IndexesInOrder' /\ NextIndexInRange'
<1>1. DeadIsEmpty'
  BY DEF IndexInv, DeadIsEmpty
<1>2. IndexesInOrder'
  BY DEF IndexInv, IndexesInOrder, Alive
<1>3. NextIndexInRange'
  BY DEF IndexInv, NextIndexInRange
<1> QED BY <1>1, <1>2, <1>3

(* Restart: the whole file becomes the log and the commit index. *)
LEMMA IndexInvNewNode ==
    ASSUME IndexInv, NEW n \in Node, NewNode(n)
    PROVE  IndexInv'
<1>1. TypeOK'
  <2>1. LastTerm(disk[n]) \in Nat
    BY LogLengths, LastTermType DEF IndexInv
  <2>2. currentTerm' \in [Node -> Nat] /\ commitIndex' \in [Node -> Nat]
    BY <2>1, LogLengths DEF IndexInv, TypeOK, NewNode, FreshTerm
  <2> QED BY <2>2 DEF IndexInv, TypeOK, NewNode, States
<1>2. BallotsExist'
  BY DEF IndexInv, BallotsExist, NewNode
<1>3. CallsWithinLog'
  <2>1. \A x \in Node : Len(log[x]) <= Len(log'[x])
    BY LogLengths, EmptySeq DEF IndexInv, TypeOK, DeadIsEmpty, NewNode
  <2> QED BY <1>1, <2>1, CallsStayWithinLog DEF IndexInv, NewNode
<1>4. DeadIsEmpty'
  BY DEF IndexInv, DeadIsEmpty, NewNode, TypeOK
<1>5. IndexesInOrder'
  <2> SUFFICES ASSUME NEW x \in Node, Alive(x)'
               PROVE  Len(disk'[x]) <= commitIndex'[x] /\ commitIndex'[x] <= Len(log'[x])
    BY DEF IndexesInOrder, MaximumIndex
  <2>1. CASE x = n
    BY <2>1, LogLengths DEF IndexInv, TypeOK, NewNode
  <2>2. CASE x # n
    BY <2>2 DEF IndexInv, IndexesInOrder, NewNode, TypeOK, Alive, MaximumIndex
  <2> QED BY <2>1, <2>2
<1>6. NextIndexInRange'
  BY DEF IndexInv, NextIndexInRange, NewNode, TypeOK, MaximumIndex
<1> QED BY <1>1, <1>2, <1>3, <1>4, <1>5, <1>6 DEF IndexInv

(* Crash: the goroutines go with the memory they refer to. *)
LEMMA IndexInvCrash ==
    ASSUME IndexInv, NEW n \in Node, Crash(n)
    PROVE  IndexInv'
<1>1. TypeOK'
  <2>1. /\ nextIndex' \in [Node -> [Node -> Nat]]
        /\ matchIndex' \in [Node -> [Node -> Nat]]
        /\ log' \in [Node -> Seq(Entry)]
        /\ ballots' \in [Node -> Seq(Ballot)]
    BY EmptySeq DEF IndexInv, TypeOK, Crash, FreshPeers
  <2>2. /\ currentTerm' \in [Node -> Nat] /\ state' \in [Node -> States]
        /\ votedPeer' \in [Node -> Node \cup {Nobody}]
        /\ hop' \in [Node -> Node \cup {Nobody}]
        /\ commitIndex' \in [Node -> Nat]
        /\ polls' \in [Node -> Nat] /\ crashes' \in Nat
    BY DEF IndexInv, TypeOK, Crash, States, FreshTerm
  <2>3. /\ voteSpawned' \subseteq voteSpawned /\ voteSent' \subseteq voteSent
        /\ voteAnswered' \subseteq voteAnswered /\ sendDue' \subseteq sendDue
        /\ appendSpawned' \subseteq appendSpawned /\ appendSent' \subseteq appendSent
        /\ appendAnswered' \subseteq appendAnswered
        /\ UNCHANGED <<disk, elected, granted>>
    BY DEF Crash
  <2> QED BY <2>1, <2>2, <2>3 DEF IndexInv, TypeOK
<1>2. BallotsExist'
  BY DEF IndexInv, BallotsExist, Crash, TypeOK, VoteSpawn, VoteRequest, VoteResponse
<1>3. CallsWithinLog'
  <2>1. \A x \in Node : (\E c \in appendSent' \cup appendAnswered' : c.src = x)
                          => Len(log[x]) <= Len(log'[x])
    BY LogLengths DEF IndexInv, TypeOK, Crash
  <2> QED BY <1>1, <2>1, CallsStayWithinLog DEF IndexInv, Crash
<1>4. DeadIsEmpty'
  BY DEF IndexInv, DeadIsEmpty, Crash, TypeOK
<1>5. IndexesInOrder'
  BY DEF IndexInv, IndexesInOrder, Crash, TypeOK, Alive, MaximumIndex
<1>6. NextIndexInRange'
  BY DEF IndexInv, NextIndexInRange, Crash, TypeOK, MaximumIndex
<1> QED BY <1>1, <1>2, <1>3, <1>4, <1>5, <1>6 DEF IndexInv

(* Backup: the file catches up with the commit index. *)
LEMMA IndexInvBackUp ==
    ASSUME IndexInv, NEW n \in Node, BackUpLogMemoryToDisk(n)
    PROVE  IndexInv'
<1>1. /\ StoreLogMemory(disk[n], log[n], commitIndex[n]) \in Seq(Entry)
      /\ Len(StoreLogMemory(disk[n], log[n], commitIndex[n])) = commitIndex[n]
  BY LogLengths, StoreLogMemoryType
     DEF IndexInv, IndexesInOrder, Alive, MaximumIndex, BackUpLogMemoryToDisk
<1>2. TypeOK'
  BY <1>1 DEF IndexInv, TypeOK, BackUpLogMemoryToDisk
<1>3. BallotsExist' /\ CallsWithinLog' /\ DeadIsEmpty' /\ NextIndexInRange'
  BY DEF IndexInv, BallotsExist, CallsWithinLog, SentWithinLog, AnsweredWithinLog,
         DeadIsEmpty, NextIndexInRange, BackUpLogMemoryToDisk
<1>4. IndexesInOrder'
  BY <1>1, LogLengths DEF IndexInv, IndexesInOrder, Alive, TypeOK, BackUpLogMemoryToDisk
<1> QED BY <1>2, <1>3, <1>4 DEF IndexInv

-----------------------------------------------------------------------------
(* A ballot of a node is a Ballot. *)
LEMMA BallotType ==
    ASSUME TypeOK, NEW n \in Node, NEW b \in 1 .. Len(ballots[n])
    PROVE  ballots[n][b] \in Ballot
BY LogLengths, ElementOfSeq

(* Counting a vote changes the voters of one ballot and nothing else. *)
LEMMA VotesCounted ==
    ASSUME TypeOK, NEW n \in Node, NEW b \in 1 .. Len(ballots[n]), NEW V \in SUBSET Node,
           ballots' = [ballots EXCEPT ![n][b].voters = V]
    PROVE  /\ ballots' \in [Node -> Seq(Ballot)]
           /\ \A x \in Node : Len(ballots'[x]) = Len(ballots[x])
           /\ \A x \in Node : \A i \in 1 .. Len(ballots[x]) :
                 /\ ballots'[x][i].term = ballots[x][i].term
                 /\ x = n /\ i = b => ballots'[x][i].voters = V
                 /\ x # n \/ i # b => ballots'[x][i].voters = ballots[x][i].voters
<1> DEFINE q == ballots[n]
           new == [q[b] EXCEPT !.voters = V]
<1>1. q \in Seq(Ballot) /\ q[b] \in Ballot
  BY LogLengths, BallotType
<1>2. new \in Ballot /\ new.term = q[b].term /\ new.voters = V
  BY <1>1 DEF Ballot
<1>3. ballots' = [ballots EXCEPT ![n] = [q EXCEPT ![b] = new]]
  BY DEF TypeOK
<1> HIDE DEF new
<1>4. /\ [q EXCEPT ![b] = new] \in Seq(Ballot)
      /\ Len([q EXCEPT ![b] = new]) = Len(q)
      /\ \A i \in 1 .. Len(q) : [q EXCEPT ![b] = new][i] = IF i = b THEN new ELSE q[i]
  BY <1>1, <1>2, ExceptSeq
<1>5. ballots' \in [Node -> Seq(Ballot)]
  BY <1>3, <1>4 DEF TypeOK
<1>6. \A x \in Node : ballots'[x] = IF x = n THEN [q EXCEPT ![b] = new] ELSE ballots[x]
  BY <1>3 DEF TypeOK
<1> QED BY <1>2, <1>4, <1>5, <1>6

(* A candidacy opens one ballot; earlier ballots keep their number. *)
LEMMA IndexInvStartCandidate ==
    ASSUME IndexInv, NEW n \in Node, StartCandidateVoteModule(n)
    PROVE  IndexInv'
<1> DEFINE ballot == [term |-> currentTerm[n] + 1, voters |-> {n}]
<1>1. /\ Append(ballots[n], ballot) \in Seq(Ballot)
      /\ Len(Append(ballots[n], ballot)) = Len(ballots[n]) + 1
  <2>1. ballot \in Ballot
    BY DEF IndexInv, TypeOK, Ballot
  <2> QED BY <2>1, LogLengths, AppendProperties DEF IndexInv
<1>2. Len(ballots[n]) \in Nat /\ Len(ballots'[n]) = Len(ballots[n]) + 1
  <2>1. ballots' = [ballots EXCEPT ![n] = Append(ballots[n], ballot)]
    BY DEF StartCandidateVoteModule
  <2>2. ballots'[n] = Append(ballots[n], ballot)
    BY <2>1 DEF IndexInv, TypeOK
  <2> QED BY <2>2, <1>1, LogLengths DEF IndexInv
<1> HIDE DEF ballot
<1>9. ASSUME NEW x \in Node, NEW b \in 1 .. Len(ballots[x])
      PROVE  b \in 1 .. Len(ballots'[x])
  <2>1. CASE x = n
    BY <2>1, <1>2
  <2>2. CASE x # n
    BY <2>2 DEF IndexInv, TypeOK, StartCandidateVoteModule
  <2> QED BY <2>1, <2>2
<1>3. voteSpawned' \subseteq VoteSpawn
  <2>1. \A p \in Peers(n) :
           [src |-> n, dst |-> p, ballot |-> Len(ballots[n]) + 1] \in VoteSpawn
    BY <1>2 DEF VoteSpawn, Peers
  <2> QED BY <2>1 DEF IndexInv, TypeOK, StartCandidateVoteModule
<1>4. TypeOK'
  <2>1. /\ currentTerm' \in [Node -> Nat] /\ state' \in [Node -> States]
        /\ votedPeer' \in [Node -> Node \cup {Nobody}]
        /\ hop' \in [Node -> Node \cup {Nobody}]
    BY DEF IndexInv, TypeOK, StartCandidateVoteModule, States
  <2>2. ballots' \in [Node -> Seq(Ballot)]
    BY <1>1 DEF IndexInv, TypeOK, StartCandidateVoteModule, ballot
  <2> QED BY <2>1, <2>2, <1>3 DEF IndexInv, TypeOK, StartCandidateVoteModule
<1>5. BallotsExist'
  <2>1. \A c \in voteSpawned' : c.ballot \in 1 .. Len(ballots'[c.src])
    <3>1. ASSUME NEW c \in voteSpawned PROVE c.ballot \in 1 .. Len(ballots'[c.src])
      <4>1. c.src \in Node
        BY DEF IndexInv, TypeOK, VoteSpawn
      <4>2. c.ballot \in 1 .. Len(ballots[c.src])
        BY DEF IndexInv, BallotsExist
      <4> QED BY <4>1, <4>2, <1>9
    <3>2. Len(ballots[n]) + 1 \in 1 .. Len(ballots'[n])
      BY <1>2
    <3> QED BY <3>1, <3>2 DEF StartCandidateVoteModule
  <2>2. \A m \in voteSent : m.src \in Node
    BY DEF IndexInv, TypeOK, VoteRequest
  <2>3. \A r \in voteAnswered : r.src \in Node
    BY DEF IndexInv, TypeOK, VoteResponse
  <2> QED BY <2>1, <2>2, <2>3, <1>9 DEF IndexInv, BallotsExist, StartCandidateVoteModule
<1>6. CallsWithinLog' /\ DeadIsEmpty' /\ IndexesInOrder' /\ NextIndexInRange'
  BY DEF IndexInv, TypeOK, CallsWithinLog, SentWithinLog, AnsweredWithinLog, DeadIsEmpty,
         IndexesInOrder, NextIndexInRange, StartCandidateVoteModule, Alive, MaximumIndex
<1> QED BY <1>4, <1>5, <1>6 DEF IndexInv

(* A vote request moves from spawned to sent. *)
LEMMA IndexInvSendCandidateVotes ==
    ASSUME IndexInv, NEW c \in voteSpawned, SendCandidateVotes(c)
    PROVE  IndexInv'
<1>1. c.src \in Node /\ c.dst \in Node /\ c.ballot \in 1 .. Len(ballots[c.src])
  BY DEF IndexInv, TypeOK, BallotsExist, VoteSpawn
<1>2. ballots[c.src][c.ballot].term \in Nat /\ c.ballot \in Nat
  BY <1>1, LogLengths, BallotType DEF IndexInv, Ballot
<1>3. MaximumIndex(log[c.src]) \in Nat /\ LastTerm(log[c.src]) \in Nat
  BY <1>1, LogLengths, LastTermType DEF IndexInv, MaximumIndex
<1>4. voteSent' \subseteq VoteRequest
  <2>1. [src |-> c.src, dst |-> c.dst, ballot |-> c.ballot,
         term |-> ballots[c.src][c.ballot].term,
         prevIndex |-> MaximumIndex(log[c.src]), prevTerm |-> LastTerm(log[c.src])]
           \in VoteRequest
    BY <1>1, <1>2, <1>3 DEF VoteRequest
  <2> QED BY <2>1 DEF IndexInv, TypeOK, SendCandidateVotes
<1>5. TypeOK'
  BY <1>4 DEF IndexInv, TypeOK, SendCandidateVotes
<1>6. BallotsExist'
  BY <1>1 DEF IndexInv, BallotsExist, SendCandidateVotes
<1>7. CallsWithinLog' /\ DeadIsEmpty' /\ IndexesInOrder' /\ NextIndexInRange'
  BY DEF IndexInv, CallsWithinLog, SentWithinLog, AnsweredWithinLog, DeadIsEmpty,
         IndexesInOrder, NextIndexInRange, SendCandidateVotes, Alive
<1> QED BY <1>5, <1>6, <1>7 DEF IndexInv

(* CandidateVotesService changes no index; a leader that grants a vote of  *)
(* a higher term stops leading.                                            *)
LEMMA IndexInvAnswerVote ==
    ASSUME IndexInv, NEW m \in voteSent, GrantHigherTermVote(m) \/ AnswerSameTermVote(m)
    PROVE  IndexInv'
<1>1. /\ m.src \in Node /\ m.dst \in Node /\ m.ballot \in Nat /\ m.term \in Nat
      /\ m.ballot \in 1 .. Len(ballots[m.src])
  BY DEF IndexInv, TypeOK, BallotsExist, VoteRequest
<1>2. PICK term \in Nat, accepted \in BOOLEAN : AnswerVote(m, term, accepted)
  BY <1>1 DEF IndexInv, TypeOK, GrantHigherTermVote, AnswerSameTermVote
<1> DEFINE answer == [src |-> m.src, dst |-> m.dst, ballot |-> m.ballot,
                      term |-> term, accepted |-> accepted]
<1>3. answer \in VoteResponse
  BY <1>1 DEF VoteResponse
<1>4. voteAnswered' \subseteq VoteResponse /\ voteSent' \subseteq VoteRequest
  BY <1>2, <1>3 DEF IndexInv, TypeOK, AnswerVote
<1>5. granted' \subseteq [voter : Node, term : Nat, cand : Node]
  <2>1. [voter |-> m.dst, term |-> m.term, cand |-> m.src]
           \in [voter : Node, term : Nat, cand : Node]
    BY <1>1
  <2> QED BY <2>1, <1>2 DEF IndexInv, TypeOK, AnswerVote
<1>6. /\ currentTerm' \in [Node -> Nat] /\ state' \in [Node -> States]
      /\ votedPeer' \in [Node -> Node \cup {Nobody}]
      /\ hop' \in [Node -> Node \cup {Nobody}]
  <2>1. CASE GrantHigherTermVote(m)
    BY <2>1, <1>1 DEF IndexInv, TypeOK, GrantHigherTermVote, BecomeFollowerVoting, States
  <2>2. CASE AnswerSameTermVote(m)
    <3>1. votedPeer' = votedPeer \/ votedPeer' = [votedPeer EXCEPT ![m.dst] = m.src]
      BY <2>2 DEF AnswerSameTermVote
    <3> QED BY <2>2, <3>1, <1>1 DEF IndexInv, TypeOK, AnswerSameTermVote
  <2> QED BY <2>1, <2>2
<1>7. TypeOK'
  BY <1>2, <1>4, <1>5, <1>6 DEF IndexInv, TypeOK, AnswerVote
<1>8. BallotsExist'
  BY <1>1, <1>2 DEF IndexInv, BallotsExist, AnswerVote
<1>9. \A n \in Node : /\ state[n] = "Dead" <=> state'[n] = "Dead"
                      /\ state'[n] = "Leader" => state[n] = "Leader"
  <2>1. CASE GrantHigherTermVote(m)
    BY <2>1, <1>1 DEF IndexInv, TypeOK, GrantHigherTermVote, BecomeFollowerVoting
  <2>2. CASE AnswerSameTermVote(m)
    BY <2>2 DEF AnswerSameTermVote
  <2> QED BY <2>1, <2>2
<1>10. /\ UNCHANGED <<log, commitIndex, disk, nextIndex, polls>>
       /\ UNCHANGED <<appendSent, appendAnswered>>
  BY <1>2 DEF AnswerVote
<1>11. CallsWithinLog'
  BY <1>10 DEF IndexInv, CallsWithinLog, SentWithinLog, AnsweredWithinLog
<1>12. DeadIsEmpty' /\ IndexesInOrder' /\ NextIndexInRange'
  BY <1>9, <1>10, IndexesFrame
<1> QED BY <1>7, <1>8, <1>11, <1>12 DEF IndexInv

(* Stepping down over a response changes no index. *)
LEMMA IndexInvStepDown ==
    ASSUME IndexInv,
           \/ \E r \in voteAnswered : HandleVoteHigherTerm(r)
           \/ \E r \in appendAnswered : HandleAppendHigherTerm(r)
    PROVE  IndexInv'
<1>1. PICK n \in Node, term \in Nat : state[n] # "Dead" /\ StepDown(n, term)
  BY DEF IndexInv, TypeOK, VoteResponse, AppendResponse,
         HandleVoteHigherTerm, HandleAppendHigherTerm
<1>2. /\ UNCHANGED <<log, commitIndex, disk, nextIndex, matchIndex, ballots, voteSpawned,
                     voteSent, sendDue, appendSpawned, appendSent, polls, crashes,
                     elected, granted>>
      /\ voteAnswered' \subseteq voteAnswered
      /\ appendAnswered' \subseteq appendAnswered
  BY DEF HandleVoteHigherTerm, HandleAppendHigherTerm
<1>3. TypeOK'
  BY <1>1, <1>2 DEF IndexInv, TypeOK, StepDown, BecomeFollower, BecomeFollowerVoting, States
<1>4. BallotsExist'
  BY <1>2 DEF IndexInv, BallotsExist
<1>5. CallsWithinLog'
  BY <1>2 DEF IndexInv, CallsWithinLog, SentWithinLog, AnsweredWithinLog
<1>6. \A x \in Node : /\ state[x] = "Dead" <=> state'[x] = "Dead"
                      /\ state'[x] = "Leader" => state[x] = "Leader"
  BY <1>1 DEF IndexInv, TypeOK, StepDown, BecomeFollower, BecomeFollowerVoting
<1>7. DeadIsEmpty' /\ IndexesInOrder' /\ NextIndexInRange'
  BY <1>2, <1>6, IndexesFrame
<1> QED BY <1>3, <1>4, <1>5, <1>7 DEF IndexInv

(* The votes counted with a response are votes of nodes, for a ballot that *)
(* exists.                                                                 *)
LEMMA CollectedVotesType ==
    ASSUME IndexInv, NEW r \in voteAnswered
    PROVE  /\ r.src \in Node /\ r.ballot \in 1 .. Len(ballots[r.src])
           /\ CollectedVotes(r) \in SUBSET Node
<1>1. r.src \in Node /\ r.dst \in Node /\ r.ballot \in 1 .. Len(ballots[r.src])
  BY DEF IndexInv, TypeOK, BallotsExist, VoteResponse
<1>2. ballots[r.src][r.ballot] \in Ballot
  BY <1>1, BallotType DEF IndexInv
<1> QED BY <1>1, <1>2 DEF CollectedVotes, Ballot

(* Counting a response keeps the ballots of all other calls. *)
LEMMA CountedBallotsExist ==
    ASSUME IndexInv, NEW r \in voteAnswered,
           ballots' = [ballots EXCEPT ![r.src][r.ballot].voters = CollectedVotes(r)],
           UNCHANGED <<voteSpawned, voteSent>>, voteAnswered' = voteAnswered \ {r}
    PROVE  ballots' \in [Node -> Seq(Ballot)] /\ BallotsExist'
<1>1. /\ ballots' \in [Node -> Seq(Ballot)]
      /\ \A x \in Node : Len(ballots'[x]) = Len(ballots[x])
  <2> HIDE DEF CollectedVotes
  <2> QED BY CollectedVotesType, VotesCounted DEF IndexInv
<1>2. /\ \A c \in voteSpawned : c.src \in Node
      /\ \A m \in voteSent : m.src \in Node
      /\ \A a \in voteAnswered : a.src \in Node
  BY DEF IndexInv, TypeOK, VoteSpawn, VoteRequest, VoteResponse
<1> QED BY <1>1, <1>2 DEF IndexInv, BallotsExist

(* A counted vote without majority. *)
LEMMA IndexInvCollectVote ==
    ASSUME IndexInv, NEW r \in voteAnswered, CollectVote(r)
    PROVE  IndexInv'
<1>1. ballots' \in [Node -> Seq(Ballot)] /\ BallotsExist'
  BY CountedBallotsExist DEF CollectVote
<1>2. TypeOK'
  BY <1>1 DEF IndexInv, TypeOK, CollectVote
<1>3. CallsWithinLog'
  BY DEF IndexInv, CallsWithinLog, SentWithinLog, AnsweredWithinLog, CollectVote
<1>4. DeadIsEmpty' /\ IndexesInOrder' /\ NextIndexInRange'
  BY IndexesFrame DEF CollectVote
<1> QED BY <1>1, <1>2, <1>3, <1>4 DEF IndexInv

(* A won election: NextIndex is set behind the releases that               *)
(* InitFromDLockStateMap has appended, so it is in range from the first    *)
(* moment of leadership although it was 0 or stale before.                 *)
LEMMA IndexInvWinElection ==
    ASSUME IndexInv, NEW r \in voteAnswered,
           NEW released \in {<<>>} \cup {<<c>> : c \in Command}, WinElection(r, released)
    PROVE  IndexInv'
<1> DEFINE n == r.src
           releases == [i \in DOMAIN released |-> [term |-> currentTerm[n], cmd |-> released[i]]]
<1>1. n \in Node /\ CollectedVotes(r) \in SUBSET Node
  BY CollectedVotesType
<1>2. ballots' \in [Node -> Seq(Ballot)] /\ BallotsExist'
  BY CountedBallotsExist DEF WinElection
<1>3. /\ log[n] \in Seq(Entry) /\ Len(log[n]) \in Nat
      /\ releases \in Seq(Entry) /\ Len(releases) \in Nat /\ Len(releases) = Len(released)
  <2>1. released \in Seq(Command) /\ Len(released) \in Nat
    <3>1. \A c \in Command : <<c>> \in Seq(Command)
      OBVIOUS
    <3>2. released \in Seq(Command)
      BY <3>1, EmptySeq
    <3> QED BY <3>2, LenProperties
  <2>2. currentTerm[n] \in Nat
    BY <1>1 DEF IndexInv, TypeOK
  <2>3. DOMAIN released = 1 .. Len(released)
    BY <2>1, LenProperties
  <2>4. \A i \in 1 .. Len(released) : [term |-> currentTerm[n], cmd |-> released[i]] \in Entry
    BY <2>1, <2>2, ElementOfSeq DEF Entry
  <2> QED BY <1>1, <2>1, <2>3, <2>4, LogLengths DEF IndexInv
<1> HIDE DEF releases
<1>4. /\ log' = [log EXCEPT ![n] = log[n] \o releases]
      /\ nextIndex' = [nextIndex EXCEPT ![n] =
             [p \in Node |-> IF p = n THEN nextIndex[n][p] ELSE Len(log[n]) + Len(released) + 1]]
      /\ state' = [state EXCEPT ![n] = "Leader"]
      /\ elected' = elected \cup
             {[term |-> currentTerm[n], node |-> n, voters |-> CollectedVotes(r)]}
  BY DEF WinElection, BecomeLeader, releases
<1>5. log[n] \o releases \in Seq(Entry) /\ Len(log[n] \o releases) = Len(log[n]) + Len(releases)
  BY <1>3, ConcatProperties
<1>6. /\ log'[n] = log[n] \o releases
      /\ \A x \in Node : x # n => log'[x] = log[x]
  BY <1>1, <1>4 DEF IndexInv, TypeOK
<1>7. TypeOK'
  <2>1. log' \in [Node -> Seq(Entry)]
    BY <1>1, <1>4, <1>5 DEF IndexInv, TypeOK
  <2>2. nextIndex' \in [Node -> [Node -> Nat]]
    <3>1. [p \in Node |-> IF p = n THEN nextIndex[n][p] ELSE Len(log[n]) + Len(released) + 1]
             \in [Node -> Nat]
      BY <1>1, <1>3 DEF IndexInv, TypeOK
    <3> QED BY <1>1, <1>4, <3>1 DEF IndexInv, TypeOK
  <2>3. state' \in [Node -> States]
    BY <1>1, <1>4 DEF IndexInv, TypeOK, States
  <2>4. elected' \subseteq [term : Nat, node : Node, voters : SUBSET Node]
    BY <1>1, <1>4 DEF IndexInv, TypeOK
  <2> QED BY <2>1, <2>2, <2>3, <2>4, <1>2 DEF IndexInv, TypeOK, WinElection
<1>8. \A x \in Node : Len(log[x]) <= Len(log'[x])
  <2> TAKE x \in Node
  <2>1. CASE x = n
    BY <2>1, <1>3, <1>5, <1>6
  <2>2. CASE x # n
    BY <2>2, <1>6, LogLengths DEF IndexInv
  <2> QED BY <2>1, <2>2
<1>9. CallsWithinLog'
  BY <1>7, <1>8, CallsStayWithinLog DEF IndexInv, WinElection
<1>10. DeadIsEmpty'
  BY <1>1, <1>4, <1>6 DEF IndexInv, DeadIsEmpty, TypeOK, WinElection
<1>11. IndexesInOrder'
  <2> SUFFICES ASSUME NEW x \in Node, Alive(x)'
               PROVE  Len(disk'[x]) <= commitIndex'[x] /\ commitIndex'[x] <= Len(log'[x])
    BY DEF IndexesInOrder, MaximumIndex
  <2>1. Alive(x)
    BY <1>1, <1>4 DEF IndexInv, TypeOK, Alive, WinElection, InTimeVote
  <2>2. Len(disk[x]) <= commitIndex[x] /\ commitIndex[x] <= Len(log[x])
    BY <2>1 DEF IndexInv, IndexesInOrder, MaximumIndex
  <2>3. Len(log[x]) \in Nat /\ Len(log'[x]) \in Nat /\ commitIndex[x] \in Nat
    BY <1>7, LogLengths, LenProperties DEF IndexInv, TypeOK
  <2> QED BY <2>2, <2>3, <1>8 DEF WinElection
<1>12. NextIndexInRange'
  <2> SUFFICES ASSUME NEW x \in Node, state'[x] = "Leader", NEW p \in Peers(x)
               PROVE  nextIndex'[x][p] \in 1 .. Len(log'[x]) + 1
    BY DEF NextIndexInRange, MaximumIndex, Peers
  <2>1. CASE x = n
    <3>1. nextIndex'[n][p] = Len(log[n]) + Len(released) + 1
      BY <2>1, <1>1, <1>4 DEF IndexInv, TypeOK, Peers
    <3>2. Len(log'[n]) = Len(log[n]) + Len(released)
      BY <1>3, <1>5, <1>6
    <3> QED BY <3>1, <3>2, <2>1, <1>3
  <2>2. CASE x # n
    BY <2>2, <1>4, <1>6 DEF IndexInv, TypeOK, NextIndexInRange, MaximumIndex
  <2> QED BY <2>1, <2>2
<1> QED BY <1>2, <1>7, <1>9, <1>10, <1>11, <1>12 DEF IndexInv

-----------------------------------------------------------------------------
(* A heartbeat only schedules sending. *)
LEMMA IndexInvHeartBeat ==
    ASSUME IndexInv, NEW n \in Node, HeartBeat(n)
    PROVE  IndexInv'
<1>1. [src |-> n, peers |-> Peers(n)] \in SendDue
  BY DEF SendDue, Peers
<1>2. TypeOK'
  BY <1>1 DEF IndexInv, TypeOK, HeartBeat
<1>3. BallotsExist' /\ CallsWithinLog'
  BY DEF IndexInv, BallotsExist, CallsWithinLog, SentWithinLog, AnsweredWithinLog, HeartBeat
<1>4. DeadIsEmpty' /\ IndexesInOrder' /\ NextIndexInRange'
  BY IndexesFrame DEF HeartBeat
<1> QED BY <1>2, <1>3, <1>4 DEF IndexInv

(* Starting the AppendEntries goroutines. *)
LEMMA IndexInvSendAppendEntriesToPeers ==
    ASSUME IndexInv, NEW d \in sendDue, SendAppendEntriesToPeers(d)
    PROVE  IndexInv'
<1>1. d.src \in Node /\ d.peers \subseteq Node
  BY DEF IndexInv, TypeOK, SendDue
<1>2. \A p \in d.peers : [src |-> d.src, dst |-> p, start |-> currentTerm[d.src]] \in AppendSpawn
  BY <1>1 DEF IndexInv, TypeOK, AppendSpawn
<1>3. TypeOK'
  BY <1>2 DEF IndexInv, TypeOK, SendAppendEntriesToPeers
<1>4. BallotsExist' /\ CallsWithinLog'
  BY DEF IndexInv, BallotsExist, CallsWithinLog, SentWithinLog, AnsweredWithinLog,
         SendAppendEntriesToPeers
<1>5. DeadIsEmpty' /\ IndexesInOrder' /\ NextIndexInRange'
  BY IndexesFrame DEF SendAppendEntriesToPeers
<1> QED BY <1>3, <1>4, <1>5 DEF IndexInv

(* Building a request: NextIndexInRange makes NextIndex-1 an index of the  *)
(* log (or 0), so the entries exist and the request is within the log.     *)
LEMMA IndexInvSendAppendEntries ==
    ASSUME IndexInv, NoSelfCalls, NEW c \in appendSpawned, SendAppendEntries(c)
    PROVE  IndexInv'
<1> DEFINE n == c.src
           prev == nextIndex[n][c.dst] - 1
           count == Smaller(MaxLogUnitsRecover, MaximumIndex(log[n]) - prev)
           request == [src |-> n, dst |-> c.dst, start |-> c.start, term |-> currentTerm[n],
                       prevIndex |-> prev, prevTerm |-> TermAt(log[n], prev),
                       commit |-> commitIndex[n],
                       entries |-> EntriesAfter(log[n], prev, count)]
<1>1. /\ n \in Node /\ c.dst \in Node /\ c.start \in Nat
      /\ currentTerm[n] \in Nat /\ commitIndex[n] \in Nat
      /\ log[n] \in Seq(Entry) /\ Len(log[n]) \in Nat
  BY LogLengths DEF IndexInv, TypeOK, AppendSpawn
<1>2. prev \in Nat /\ prev <= Len(log[n])
  <2>1. nextIndex[n][c.dst] \in 1 .. Len(log[n]) + 1
    BY <1>1 DEF IndexInv, NoSelfCalls, NextIndexInRange, Peers, MaximumIndex, SendAppendEntries
  <2> QED BY <2>1, <1>1
<1>3. count \in Nat /\ prev + count <= Len(log[n])
  BY <1>1, <1>2, BoundsAssumption, SMTT(30) DEF Smaller, MaximumIndex
<1>4. appendSent' = appendSent \cup {request}
  BY DEF SendAppendEntries
<1> HIDE DEF prev, count
<1>5. TermAt(log[n], prev) \in Nat
  BY <1>1, <1>2, TermAtType
<1>6. /\ EntriesAfter(log[n], prev, count) \in Seq(Entry)
      /\ Len(EntriesAfter(log[n], prev, count)) = count
  BY <1>1, <1>2, <1>3, EntriesAfterType
<1>7. request \in AppendRequest
  BY <1>1, <1>2, <1>5, <1>6 DEF AppendRequest
<1>8. PICK m : m = request
  OBVIOUS
<1>9. SentWithinLog(m)'
  <2>1. log' = log
    BY DEF SendAppendEntries
  <2> QED BY <2>1, <1>3, <1>6, <1>8 DEF SentWithinLog
<1> HIDE DEF request
<1>10. TypeOK'
  BY <1>4, <1>7 DEF IndexInv, TypeOK, SendAppendEntries
<1>11. BallotsExist'
  BY DEF IndexInv, BallotsExist, SendAppendEntries
<1>12. CallsWithinLog'
  BY <1>4, <1>8, <1>9 DEF IndexInv, CallsWithinLog, SentWithinLog, AnsweredWithinLog,
                           SendAppendEntries
<1>13. DeadIsEmpty' /\ IndexesInOrder' /\ NextIndexInRange'
  BY IndexesFrame DEF SendAppendEntries
<1> QED BY <1>10, <1>11, <1>12, <1>13 DEF IndexInv

(* Following the sender of an append never makes a node a leader and never *)
(* brings one up or down.                                                  *)
LEMMA FollowLeaderType ==
    ASSUME IndexInv, NEW m \in appendSent, FollowLeader(m), state[m.dst] # "Dead"
    PROVE  /\ currentTerm' \in [Node -> Nat] /\ state' \in [Node -> States]
           /\ votedPeer' \in [Node -> Node \cup {Nobody}]
           /\ hop' \in [Node -> Node \cup {Nobody}]
           /\ \A n \in Node : /\ state[n] = "Dead" <=> state'[n] = "Dead"
                              /\ state'[n] = "Leader" => state[n] = "Leader"
<1>1. m.src \in Node /\ m.dst \in Node /\ m.term \in Nat
  BY DEF IndexInv, TypeOK, AppendRequest
<1>2. CASE BecomeFollower(m.dst, m.term)
  BY <1>1, <1>2 DEF IndexInv, TypeOK, FollowLeader, BecomeFollower, BecomeFollowerVoting, States
<1>3. CASE UNCHANGED <<currentTerm, state, votedPeer>>
  BY <1>1, <1>3 DEF IndexInv, TypeOK, FollowLeader
<1> QED BY <1>2, <1>3 DEF FollowLeader

(* The answer to an append is within the log of the sender, because the    *)
(* request is and a conflict index is at most its previous index.          *)
LEMMA AnswerAppendType ==
    ASSUME IndexInv, NEW m \in appendSent, NEW term \in Nat, NEW success \in BOOLEAN,
           NEW index \in Nat, NEW conflictTerm \in Nat, index <= m.prevIndex,
           conflictTerm > 0 => index > 0, \A n \in Node : Len(log[n]) <= Len(log'[n]),
           log' \in [Node -> Seq(Entry)],
           AnswerAppend(m, term, success, index, conflictTerm)
    PROVE  /\ appendAnswered' \subseteq AppendResponse
           /\ CallsWithinLog'
<1> DEFINE answer == [src |-> m.src, dst |-> m.dst, start |-> m.start,
                      prevIndex |-> m.prevIndex, count |-> Len(m.entries),
                      term |-> term, success |-> success,
                      conflictIndex |-> index, conflictTerm |-> conflictTerm]
<1>1. /\ m.src \in Node /\ m.dst \in Node /\ m.start \in Nat
      /\ m.prevIndex \in Nat /\ m.entries \in Seq(Entry)
  BY DEF IndexInv, TypeOK, AppendRequest
<1>2. Len(m.entries) \in Nat
  BY <1>1, LenProperties
<1>3. \A n \in Node : Len(log[n]) \in Nat /\ Len(log'[n]) \in Nat
  BY LogLengths, LenProperties DEF IndexInv
<1>4. answer \in AppendResponse
  BY <1>1, <1>2 DEF AppendResponse
<1>5. appendAnswered' = appendAnswered \cup {answer} /\ appendSent' \subseteq appendSent
  BY DEF AnswerAppend
<1>6. PICK r : r = answer
  OBVIOUS
<1>7. AnsweredWithinLog(r)'
  <2>1. m.prevIndex + Len(m.entries) <= Len(log[m.src])
    BY DEF IndexInv, CallsWithinLog, SentWithinLog
  <2>2. Len(log[m.src]) <= Len(log'[m.src])
    BY <1>1
  <2> QED BY <1>1, <1>2, <1>3, <1>6, <2>1, <2>2, SMTT(30) DEF AnsweredWithinLog
<1> HIDE DEF answer
<1>8. \A a \in appendAnswered : AnsweredWithinLog(a)'
  <2> TAKE a \in appendAnswered
  <2>1. a \in AppendResponse /\ AnsweredWithinLog(a)
    BY DEF IndexInv, TypeOK, CallsWithinLog
  <2> QED BY <2>1, <1>3 DEF AnsweredWithinLog, AppendResponse
<1>9. \A a \in appendSent : SentWithinLog(a)'
  <2> TAKE a \in appendSent
  <2>1. a.src \in Node /\ a.prevIndex \in Nat /\ a.entries \in Seq(Entry) /\ SentWithinLog(a)
    BY DEF IndexInv, TypeOK, CallsWithinLog, AppendRequest
  <2>2. Len(a.entries) \in Nat
    BY <2>1, LenProperties
  <2> QED BY <2>1, <2>2, <1>3 DEF SentWithinLog
<1>10. appendAnswered' \subseteq AppendResponse
  BY <1>4, <1>5 DEF IndexInv, TypeOK
<1> QED BY <1>5, <1>6, <1>7, <1>8, <1>9, <1>10 DEF CallsWithinLog

(* A refused append changes no log. *)
LEMMA IndexInvRefuseAppend ==
    ASSUME IndexInv, NEW m \in appendSent,
           RefuseObsoleteAppend(m) \/ RefuseConflictingAppend(m)
    PROVE  IndexInv'
<1>1. m.src \in Node /\ m.dst \in Node /\ m.term \in Nat /\ m.prevIndex \in Nat
  BY DEF IndexInv, TypeOK, AppendRequest
<1>2. log[m.dst] \in Seq(Entry) /\ Len(log[m.dst]) \in Nat
  BY <1>1, LogLengths DEF IndexInv
<1> DEFINE conflict == ConflictEntryIndex(m, log[m.dst])
<1>3. conflict \in Nat /\ conflict <= m.prevIndex /\ conflict <= Len(log[m.dst])
  BY <1>1, <1>2 DEF ConflictEntryIndex, Smaller, MaximumIndex
<1>4. TermAt(log[m.dst], conflict) \in Nat /\ (TermAt(log[m.dst], conflict) > 0 => conflict > 0)
  <2>1. TermAt(log[m.dst], conflict) \in Nat
    <3> HIDE DEF conflict
    <3> QED BY <1>2, <1>3, TermAtType
  <2>2. conflict = 0 => TermAt(log[m.dst], conflict) = 0
    BY DEF TermAt
  <2> QED BY <2>1, <2>2, <1>3
<1>5. PICK term \in Nat, index \in Nat, conflictTerm \in Nat :
         /\ AnswerAppend(m, term, FALSE, index, conflictTerm)
         /\ index <= m.prevIndex
         /\ conflictTerm > 0 => index > 0
  <2>1. CASE RefuseObsoleteAppend(m)
    <3>1. currentTerm[m.dst] \in Nat
      BY <1>1 DEF IndexInv, TypeOK
    <3>2. AnswerAppend(m, currentTerm[m.dst], FALSE, 0, 0)
      BY <2>1 DEF RefuseObsoleteAppend
    <3>3. 0 \in Nat /\ 0 <= m.prevIndex /\ (0 > 0 => 0 > 0)
      BY <1>1
    <3> QED BY <3>1, <3>2, <3>3, Zenon
  <2>2. CASE RefuseConflictingAppend(m)
    <3>1. AnswerAppend(m, m.term, FALSE, conflict, TermAt(log[m.dst], conflict))
      BY <2>2 DEF RefuseConflictingAppend
    <3> HIDE DEF conflict
    <3> QED BY <3>1, <1>1, <1>3, <1>4
  <2> QED BY <2>1, <2>2
<1>6. log' = log /\ commitIndex' = commitIndex
  BY DEF RefuseObsoleteAppend, RefuseConflictingAppend
<1>7. /\ currentTerm' \in [Node -> Nat] /\ state' \in [Node -> States]
      /\ votedPeer' \in [Node -> Node \cup {Nobody}]
      /\ hop' \in [Node -> Node \cup {Nobody}]
      /\ \A n \in Node : /\ state[n] = "Dead" <=> state'[n] = "Dead"
                         /\ state'[n] = "Leader" => state[n] = "Leader"
  <2>1. CASE RefuseObsoleteAppend(m)
    BY <2>1 DEF RefuseObsoleteAppend, IndexInv, TypeOK
  <2>2. CASE RefuseConflictingAppend(m)
    BY <2>2, FollowLeaderType DEF RefuseConflictingAppend
  <2> QED BY <2>1, <2>2
<1>8. appendAnswered' \subseteq AppendResponse /\ CallsWithinLog'
  <2>1. \A n \in Node : Len(log[n]) <= Len(log'[n])
    BY <1>6, LogLengths DEF IndexInv
  <2>2. log' \in [Node -> Seq(Entry)]
    BY <1>6 DEF IndexInv, TypeOK
  <2> QED BY <1>5, <2>1, <2>2, AnswerAppendType
<1>9. TypeOK'
  BY <1>5, <1>6, <1>7, <1>8 DEF IndexInv, TypeOK, AnswerAppend
<1>10. BallotsExist'
  BY <1>5 DEF IndexInv, BallotsExist, AnswerAppend
<1>11. DeadIsEmpty' /\ IndexesInOrder' /\ NextIndexInRange'
  BY <1>5, <1>6, <1>7, IndexesFrame DEF AnswerAppend
<1> QED BY <1>8, <1>9, <1>10, <1>11 DEF IndexInv

(* An accepted append: the log does not shrink, and the new commit index   *)
(* is cut off at its end.                                                  *)
LEMMA IndexInvAcceptAppend ==
    ASSUME IndexInv, NEW m \in appendSent, AcceptAppend(m)
    PROVE  IndexInv'
<1> DEFINE n == m.dst
           newLog == InsertValidEntryList(log[n], m.prevIndex, m.entries)
           newCommit == FollowerCommit(m, commitIndex[n], newLog)
<1>1. /\ m.src \in Node /\ n \in Node /\ m.term \in Nat /\ m.prevIndex \in Nat
      /\ m.entries \in Seq(Entry) /\ m.commit \in Nat
  BY DEF IndexInv, TypeOK, AppendRequest
<1>2. /\ log[n] \in Seq(Entry) /\ Len(log[n]) \in Nat /\ Len(m.entries) \in Nat
      /\ Len(disk[n]) \in Nat /\ commitIndex[n] \in Nat
      /\ m.prevIndex <= Len(log[n]) /\ commitIndex[n] <= Len(log[n])
      /\ Len(disk[n]) <= commitIndex[n]
  <2>1. m.prevIndex <= Len(log[n])
    BY DEF AcceptAppend, PrevMatches, MaximumIndex
  <2>2. commitIndex[n] <= Len(log[n]) /\ Len(disk[n]) <= commitIndex[n]
    BY <1>1 DEF IndexInv, IndexesInOrder, Alive, AcceptAppend, MaximumIndex
  <2> QED BY <1>1, <2>1, <2>2, LogLengths, LenProperties DEF IndexInv
<1>3. newLog \in Seq(Entry) /\ Len(newLog) = Larger(Len(log[n]), m.prevIndex + Len(m.entries))
  BY <1>1, <1>2, InsertValidEntryListType
<1>4. Len(newLog) \in Nat /\ Len(log[n]) <= Len(newLog)
  <2> HIDE DEF newLog
  <2> QED BY <1>1, <1>2, <1>3 DEF Larger
<1>5. newCommit \in Nat /\ commitIndex[n] <= newCommit /\ newCommit <= Len(newLog)
  <2> HIDE DEF newLog
  <2> QED BY <1>1, <1>2, <1>4 DEF FollowerCommit, Smaller, MaximumIndex
<1>6. /\ log' = [log EXCEPT ![n] = newLog]
      /\ commitIndex' = [commitIndex EXCEPT ![n] = newCommit]
      /\ AnswerAppend(m, m.term, TRUE, 0, 0)
      /\ FollowLeader(m) /\ state[n] # "Dead"
  BY DEF AcceptAppend
<1> HIDE DEF newLog, newCommit
<1>7. /\ log' \in [Node -> Seq(Entry)] /\ commitIndex' \in [Node -> Nat]
      /\ log'[n] = newLog /\ commitIndex'[n] = newCommit
      /\ \A x \in Node : x # n => log'[x] = log[x] /\ commitIndex'[x] = commitIndex[x]
  BY <1>1, <1>3, <1>5, <1>6 DEF IndexInv, TypeOK
<1>8. \A x \in Node : Len(log[x]) <= Len(log'[x])
  <2> TAKE x \in Node
  <2>1. CASE x = n
    BY <2>1, <1>4, <1>7
  <2>2. CASE x # n
    BY <2>2, <1>7, LogLengths DEF IndexInv
  <2> QED BY <2>1, <2>2
<1>9. /\ currentTerm' \in [Node -> Nat] /\ state' \in [Node -> States]
      /\ votedPeer' \in [Node -> Node \cup {Nobody}]
      /\ hop' \in [Node -> Node \cup {Nobody}]
      /\ \A x \in Node : /\ state[x] = "Dead" <=> state'[x] = "Dead"
                         /\ state'[x] = "Leader" => state[x] = "Leader"
  BY <1>6, FollowLeaderType
<1>10. appendAnswered' \subseteq AppendResponse /\ CallsWithinLog'
  <2>1. 0 \in Nat /\ 0 <= m.prevIndex /\ (0 > 0 => 0 > 0) /\ TRUE \in BOOLEAN
    BY <1>1
  <2> QED BY <2>1, <1>1, <1>6, <1>7, <1>8, AnswerAppendType
<1>11. TypeOK'
  BY <1>6, <1>7, <1>9, <1>10 DEF IndexInv, TypeOK, AnswerAppend
<1>12. BallotsExist'
  BY <1>6 DEF IndexInv, BallotsExist, AnswerAppend
<1>13. DeadIsEmpty'
  <2>1. polls' = polls
    BY <1>6 DEF AnswerAppend
  <2> QED BY <2>1, <1>6, <1>7, <1>9 DEF IndexInv, DeadIsEmpty
<1>14. IndexesInOrder'
  <2> SUFFICES ASSUME NEW x \in Node, Alive(x)'
               PROVE  Len(disk'[x]) <= commitIndex'[x] /\ commitIndex'[x] <= Len(log'[x])
    BY DEF IndexesInOrder, MaximumIndex
  <2>1. disk' = disk
    BY <1>6 DEF AnswerAppend
  <2>2. CASE x = n
    BY <2>1, <2>2, <1>2, <1>5, <1>7
  <2>3. CASE x # n
    BY <2>1, <2>3, <1>7, <1>9 DEF IndexInv, IndexesInOrder, Alive, MaximumIndex
  <2> QED BY <2>2, <2>3
<1>15. NextIndexInRange'
  <2> SUFFICES ASSUME NEW x \in Node, state'[x] = "Leader", NEW p \in Peers(x)
               PROVE  nextIndex'[x][p] \in 1 .. Len(log'[x]) + 1
    BY DEF NextIndexInRange, MaximumIndex, Peers
  <2>1. nextIndex' = nextIndex
    BY <1>6 DEF AnswerAppend
  <2>2. nextIndex[x][p] \in 1 .. Len(log[x]) + 1
    BY <1>9 DEF IndexInv, NextIndexInRange, MaximumIndex
  <2>3. Len(log[x]) \in Nat /\ Len(log'[x]) \in Nat
    BY <1>7, LogLengths, LenProperties DEF IndexInv
  <2> QED BY <2>1, <2>2, <2>3, <1>8
<1> QED BY <1>10, <1>11, <1>12, <1>13, <1>14, <1>15 DEF IndexInv

(* A success response: NextIndex moves behind entries the leader has, the  *)
(* commit index stays within the log.                                      *)
LEMMA IndexInvAppendSuccess ==
    ASSUME IndexInv, NEW r \in appendAnswered, HandleAppendSuccess(r)
    PROVE  IndexInv'
<1> DEFINE n == r.src
           next == r.prevIndex + 1 + r.count
           match == [matchIndex[n] EXCEPT ![r.dst] = Larger(@, next - 1)]
           commit == LeaderCommit(n, match)
<1>1. /\ n \in Node /\ r.dst \in Node /\ r.prevIndex \in Nat /\ r.count \in Nat
      /\ next \in Nat /\ next - 1 \in Nat /\ next >= 1
  <2>1. /\ n \in Node /\ r.dst \in Node /\ r.prevIndex \in Nat /\ r.count \in Nat
    BY DEF IndexInv, TypeOK, AppendResponse
  <2> QED BY <2>1
<1>2. /\ log[n] \in Seq(Entry) /\ Len(log[n]) \in Nat /\ Len(disk[n]) \in Nat
      /\ commitIndex[n] \in Nat /\ commitIndex[n] <= Len(log[n])
      /\ Len(disk[n]) <= commitIndex[n]
  <2>1. commitIndex[n] <= Len(log[n]) /\ Len(disk[n]) <= commitIndex[n]
    BY <1>1 DEF IndexInv, IndexesInOrder, Alive, HandleAppendSuccess, MaximumIndex
  <2> QED BY <1>1, <2>1, LogLengths DEF IndexInv
<1>3. next <= Len(log[n]) + 1
  BY <1>1, <1>2 DEF IndexInv, CallsWithinLog, AnsweredWithinLog
<1>4. match \in [Node -> Nat]
  BY <1>1, ZenonT(40) DEF IndexInv, TypeOK, Larger
<1>5. /\ nextIndex' = [nextIndex EXCEPT ![n][r.dst] = next]
      /\ matchIndex' = [matchIndex EXCEPT ![n] = match]
      /\ commitIndex' = [commitIndex EXCEPT ![n] = commit]
  BY DEF HandleAppendSuccess
<1> HIDE DEF next, match
<1>6. commit \in Nat /\ commitIndex[n] <= commit /\ commit <= Len(log[n])
  BY <1>1, <1>2, LeaderCommitBounds
<1> HIDE DEF commit
<1>7. TypeOK'
  <2>1. nextIndex' \in [Node -> [Node -> Nat]]
    BY <1>1, <1>5 DEF IndexInv, TypeOK
  <2>2. matchIndex' \in [Node -> [Node -> Nat]]
    BY <1>1, <1>4, <1>5 DEF IndexInv, TypeOK
  <2>3. commitIndex' \in [Node -> Nat]
    BY <1>1, <1>5, <1>6 DEF IndexInv, TypeOK
  <2> QED BY <2>1, <2>2, <2>3 DEF IndexInv, TypeOK, HandleAppendSuccess
<1>8. BallotsExist' /\ DeadIsEmpty'
  BY DEF IndexInv, BallotsExist, DeadIsEmpty, HandleAppendSuccess
<1>9. CallsWithinLog'
  BY DEF IndexInv, CallsWithinLog, SentWithinLog, AnsweredWithinLog, HandleAppendSuccess
<1>10. IndexesInOrder'
  <2> SUFFICES ASSUME NEW x \in Node, Alive(x)'
               PROVE  Len(disk'[x]) <= commitIndex'[x] /\ commitIndex'[x] <= Len(log'[x])
    BY DEF IndexesInOrder, MaximumIndex
  <2>1. disk' = disk /\ log' = log /\ state' = state
    BY DEF HandleAppendSuccess
  <2>2. CASE x = n
    BY <2>1, <2>2, <1>1, <1>2, <1>5, <1>6 DEF IndexInv, TypeOK
  <2>3. CASE x # n
    BY <2>1, <2>3, <1>5 DEF IndexInv, TypeOK, IndexesInOrder, Alive, MaximumIndex
  <2> QED BY <2>2, <2>3
<1>11. NextIndexInRange'
  <2> SUFFICES ASSUME NEW x \in Node, state'[x] = "Leader", NEW p \in Peers(x)
               PROVE  nextIndex'[x][p] \in 1 .. Len(log'[x]) + 1
    BY DEF NextIndexInRange, MaximumIndex, Peers
  <2>1. log' = log /\ state' = state
    BY DEF HandleAppendSuccess
  <2>2. nextIndex[x][p] \in 1 .. Len(log[x]) + 1
    BY <2>1 DEF IndexInv, NextIndexInRange, MaximumIndex
  <2>3. nextIndex'[x][p] = IF x = n /\ p = r.dst THEN next ELSE nextIndex[x][p]
    BY <1>1, <1>5 DEF IndexInv, TypeOK, Peers
  <2> QED BY <2>1, <2>2, <2>3, <1>1, <1>2, <1>3
<1> QED BY <1>7, <1>8, <1>9, <1>10, <1>11 DEF IndexInv

(* A conflict response: NextIndex is the follower's conflict index, or     *)
(* behind the last entry of the conflicting term, or 1.                    *)
LEMMA IndexInvAppendConflict ==
    ASSUME IndexInv, NEW r \in appendAnswered, HandleAppendConflict(r)
    PROVE  IndexInv'
<1> DEFINE n == r.src
           next == NextAfterConflict(r, log[n])
<1>1. /\ n \in Node /\ r.dst \in Node /\ r.conflictIndex \in Nat /\ r.conflictTerm \in Nat
      /\ log[n] \in Seq(Entry) /\ Len(log[n]) \in Nat
  BY LogLengths DEF IndexInv, TypeOK, AppendResponse
<1>2. next \in 1 .. Len(log[n]) + 1
  <2>1. /\ r.conflictIndex <= Len(log[n])
        /\ r.conflictTerm > 0 => r.conflictIndex > 0
    BY DEF IndexInv, CallsWithinLog, AnsweredWithinLog
  <2>2. FetchLastIndexOfTerm(log[n], r.conflictTerm) \in 0 .. Len(log[n])
    BY <1>1, LastIndexBounds
  <2> QED BY <1>1, <2>1, <2>2 DEF NextAfterConflict
<1>3. nextIndex' = [nextIndex EXCEPT ![n][r.dst] = next]
  BY DEF HandleAppendConflict
<1> HIDE DEF next
<1>4. TypeOK'
  <2>1. nextIndex' \in [Node -> [Node -> Nat]]
    <3>1. next \in Nat
      BY <1>1, <1>2
    <3> QED BY <3>1, <1>1, <1>3 DEF IndexInv, TypeOK
  <2>2. [src |-> n, peers |-> {r.dst}] \in SendDue
    BY <1>1 DEF SendDue
  <2> QED BY <2>1, <2>2 DEF IndexInv, TypeOK, HandleAppendConflict
<1>5. BallotsExist' /\ DeadIsEmpty' /\ IndexesInOrder'
  BY DEF IndexInv, BallotsExist, DeadIsEmpty, IndexesInOrder, Alive, HandleAppendConflict
<1>6. CallsWithinLog'
  BY DEF IndexInv, CallsWithinLog, SentWithinLog, AnsweredWithinLog, HandleAppendConflict
<1>7. NextIndexInRange'
  <2> SUFFICES ASSUME NEW x \in Node, state'[x] = "Leader", NEW p \in Peers(x)
               PROVE  nextIndex'[x][p] \in 1 .. Len(log'[x]) + 1
    BY DEF NextIndexInRange, MaximumIndex, Peers
  <2>1. log' = log /\ state' = state
    BY DEF HandleAppendConflict
  <2>2. nextIndex[x][p] \in 1 .. Len(log[x]) + 1
    BY <2>1 DEF IndexInv, NextIndexInRange, MaximumIndex
  <2>3. nextIndex'[x][p] = IF x = n /\ p = r.dst THEN next ELSE nextIndex[x][p]
    BY <1>1, <1>3 DEF IndexInv, TypeOK, Peers
  <2> QED BY <2>1, <2>2, <2>3, <1>1, <1>2
<1> QED BY <1>4, <1>5, <1>6, <1>7 DEF IndexInv

(* A node appends an entry of its own. *)
LEMMA IndexInvAppendEntry ==
    ASSUME IndexInv, NEW n \in Node, NEW c \in Command, state[n] # "Dead", AppendEntry(n, c),
           polls' \in [Node -> Nat], \A x \in Node : polls[x] = 0 => polls'[x] = 0
    PROVE  IndexInv'
<1> DEFINE entry == [term |-> currentTerm[n], cmd |-> c]
<1>1. entry \in Entry
  BY DEF IndexInv, TypeOK, Entry
<1>2. log[n] \in Seq(Entry) /\ Len(log[n]) \in Nat
  BY LogLengths DEF IndexInv
<1>3. log' = [log EXCEPT ![n] = Append(log[n], entry)]
  BY DEF AppendEntry, InsertLogEntry
<1> HIDE DEF entry
<1>4. Append(log[n], entry) \in Seq(Entry) /\ Len(Append(log[n], entry)) = Len(log[n]) + 1
  BY <1>1, <1>2, AppendProperties
<1>5. /\ log' \in [Node -> Seq(Entry)]
      /\ log'[n] = Append(log[n], entry)
      /\ \A x \in Node : x # n => log'[x] = log[x]
  BY <1>3, <1>4 DEF IndexInv, TypeOK
<1>6. \A x \in Node : Len(log[x]) <= Len(log'[x]) /\ Len(log[x]) \in Nat /\ Len(log'[x]) \in Nat
  <2> TAKE x \in Node
  <2>1. CASE x = n
    BY <2>1, <1>2, <1>4, <1>5
  <2>2. CASE x # n
    BY <2>2, <1>5, LogLengths DEF IndexInv
  <2> QED BY <2>1, <2>2
<1>7. TypeOK'
  BY <1>5 DEF IndexInv, TypeOK, AppendEntry
<1>8. BallotsExist'
  BY DEF IndexInv, BallotsExist, AppendEntry
<1>9. CallsWithinLog'
  BY <1>6, <1>7, CallsStayWithinLog DEF IndexInv, AppendEntry
<1>10. DeadIsEmpty'
  BY <1>5 DEF IndexInv, DeadIsEmpty, AppendEntry
<1>11. IndexesInOrder'
  <2> SUFFICES ASSUME NEW x \in Node, Alive(x)'
               PROVE  Len(disk'[x]) <= commitIndex'[x] /\ commitIndex'[x] <= Len(log'[x])
    BY DEF IndexesInOrder, MaximumIndex
  <2>1. Len(disk[x]) <= commitIndex[x] /\ commitIndex[x] <= Len(log[x])
    BY DEF IndexInv, IndexesInOrder, Alive, AppendEntry, MaximumIndex
  <2>2. commitIndex[x] \in Nat
    BY LogLengths DEF IndexInv
  <2> QED BY <2>1, <2>2, <1>6 DEF AppendEntry
<1>12. NextIndexInRange'
  <2> SUFFICES ASSUME NEW x \in Node, state'[x] = "Leader", NEW p \in Peers(x)
               PROVE  nextIndex'[x][p] \in 1 .. Len(log'[x]) + 1
    BY DEF NextIndexInRange, MaximumIndex, Peers
  <2>1. nextIndex[x][p] \in 1 .. Len(log[x]) + 1 /\ nextIndex' = nextIndex
    BY DEF IndexInv, NextIndexInRange, MaximumIndex, AppendEntry
  <2> QED BY <2>1, <1>6
<1> QED BY <1>7, <1>8, <1>9, <1>10, <1>11, <1>12 DEF IndexInv

(* Client operations, and ReleaseDLockService polls whether or not the     *)
(* node leads.                                                             *)
LEMMA IndexInvPolls ==
    ASSUME IndexInv, NEW n \in Node,
           \/ \E c \in Command : LogCommand(n, c) \/ PollRelease(n, c)
           \/ StartReleasePoll(n) \/ EndReleasePoll(n)
    PROVE  IndexInv'
<1>1. polls[n] \in Nat /\ polls \in [Node -> Nat]
  BY DEF IndexInv, TypeOK
<1>2. CASE \E c \in Command : LogCommand(n, c)
  BY <1>1, <1>2, IndexInvAppendEntry DEF LogCommand
<1>3. CASE \E c \in Command : PollRelease(n, c)
  <2>1. PICK c \in Command : PollRelease(n, c)
    BY <1>3
  <2>2. state[n] # "Dead"
    BY <1>1, <2>1 DEF PollRelease, IndexInv, DeadIsEmpty
  <2>3. polls' \in [Node -> Nat] /\ \A x \in Node : polls[x] = 0 => polls'[x] = 0
    BY <1>1, <2>1 DEF PollRelease
  <2> QED BY <2>1, <2>2, <2>3, IndexInvAppendEntry DEF PollRelease
<1>4. CASE StartReleasePoll(n) \/ EndReleasePoll(n)
  <2>1. polls' \in [Node -> Nat]
    BY <1>1, <1>4 DEF StartReleasePoll, EndReleasePoll
  <2>2. UNCHANGED <<nodeVars, logVars, disk, peerVars, ballots, voteCalls,
                    appendCalls, crashes, history>>
    BY <1>4 DEF StartReleasePoll, EndReleasePoll
  <2>3. TypeOK'
    BY <2>1, <2>2 DEF IndexInv, TypeOK
  <2>4. BallotsExist' /\ CallsWithinLog'
    BY <2>2 DEF IndexInv, BallotsExist, CallsWithinLog, SentWithinLog, AnsweredWithinLog
  <2>5. IndexesInOrder' /\ NextIndexInRange'
    BY <2>2 DEF IndexInv, IndexesInOrder, NextIndexInRange, Alive
  <2>6. DeadIsEmpty'
    <3>1. state[n] # "Dead"
      BY <1>1, <1>4 DEF StartReleasePoll, EndReleasePoll, IndexInv, DeadIsEmpty
    <3>2. \A x \in Node : x # n => polls'[x] = polls[x]
      BY <1>1, <1>4 DEF StartReleasePoll, EndReleasePoll
    <3> QED BY <3>1, <3>2, <2>2 DEF IndexInv, DeadIsEmpty
  <2> QED BY <2>3, <2>4, <2>5, <2>6 DEF IndexInv
<1> QED BY <1>2, <1>3, <1>4

(* Calls that are abandoned, ignored or lost change nothing else. *)
LEMMA IndexInvDropCall ==
    ASSUME IndexInv,
           UNCHANGED <<nodeVars, logVars, disk, peerVars, ballots, polls, crashes, history, sendDue>>,
           voteSpawned' \subseteq voteSpawned, voteSent' \subseteq voteSent,
           voteAnswered' \subseteq voteAnswered, appendSpawned' \subseteq appendSpawned,
           appendSent' \subseteq appendSent, appendAnswered' \subseteq appendAnswered
    PROVE  IndexInv'
<1>1. TypeOK'
  BY DEF IndexInv, TypeOK
<1>2. BallotsExist' /\ CallsWithinLog'
  BY DEF IndexInv, BallotsExist, CallsWithinLog, SentWithinLog, AnsweredWithinLog
<1>3. DeadIsEmpty' /\ IndexesInOrder' /\ NextIndexInRange'
  BY IndexesFrame
<1> QED BY <1>1, <1>2, <1>3 DEF IndexInv

-----------------------------------------------------------------------------
(* Every step keeps the invariant. *)
LEMMA IndexInvNext ==
    ASSUME IndexInv, NoSelfCalls, [Next]_vars
    PROVE  IndexInv'
<1>1. CASE \E n \in Node : LocalStep(n)
  BY <1>1, IndexInvNewNode, IndexInvCrash, IndexInvBackUp, IndexInvStartCandidate,
     IndexInvHeartBeat, IndexInvPolls DEF LocalStep
<1>2. CASE CandidateVotes
  <2>1. CASE \E c \in voteSpawned : SendCandidateVotes(c)
    BY <2>1, IndexInvSendCandidateVotes
  <2>2. CASE \E m \in voteSent : GrantHigherTermVote(m) \/ AnswerSameTermVote(m)
    BY <2>2, IndexInvAnswerVote
  <2>3. CASE \E r \in voteAnswered : HandleVoteHigherTerm(r)
    BY <2>3, IndexInvStepDown
  <2>4. CASE \E r \in voteAnswered : CollectVote(r)
    BY <2>4, IndexInvCollectVote
  <2>5. CASE \E r \in voteAnswered : \E released \in {<<>>} \cup {<<c>> : c \in Command} :
                WinElection(r, released)
    BY <2>5, IndexInvWinElection
  <2>6. CASE \/ \E c \in voteSpawned : AbandonCandidateVotes(c)
             \/ \E r \in voteAnswered : IgnoreVote(r)
             \/ LoseVoteCall
    BY <2>6, IndexInvDropCall DEF AbandonCandidateVotes, IgnoreVote, LoseVoteCall
  <2> QED BY <1>2, <2>1, <2>2, <2>3, <2>4, <2>5, <2>6 DEF CandidateVotes
<1>3. CASE AppendEntries
  <2>1. CASE \E d \in sendDue : SendAppendEntriesToPeers(d)
    BY <2>1, IndexInvSendAppendEntriesToPeers
  <2>2. CASE \E c \in appendSpawned : SendAppendEntries(c)
    BY <2>2, IndexInvSendAppendEntries
  <2>3. CASE \E m \in appendSent : RefuseObsoleteAppend(m) \/ RefuseConflictingAppend(m)
    BY <2>3, IndexInvRefuseAppend
  <2>4. CASE \E m \in appendSent : AcceptAppend(m)
    BY <2>4, IndexInvAcceptAppend
  <2>5. CASE \E r \in appendAnswered : HandleAppendHigherTerm(r)
    BY <2>5, IndexInvStepDown
  <2>6. CASE \E r \in appendAnswered : HandleAppendSuccess(r)
    BY <2>6, IndexInvAppendSuccess
  <2>7. CASE \E r \in appendAnswered : HandleAppendConflict(r)
    BY <2>7, IndexInvAppendConflict
  <2>8. CASE \/ \E c \in appendSpawned : AbandonAppendEntries(c)
             \/ \E r \in appendAnswered : IgnoreAppendResponse(r)
             \/ LoseAppendCall
    BY <2>8, IndexInvDropCall DEF AbandonAppendEntries, IgnoreAppendResponse, LoseAppendCall
  <2> QED BY <1>3, <2>1, <2>2, <2>3, <2>4, <2>5, <2>6, <2>7, <2>8 DEF AppendEntries
<1>4. CASE UNCHANGED vars
  BY <1>4, IndexInvDropCall DEF vars
<1> QED BY <1>1, <1>2, <1>3, <1>4 DEF Next

(* The invariant holds when all processes are down and no file exists. *)
LEMMA IndexInvInit ==
    ASSUME Init
    PROVE  IndexInv /\ NoSelfCalls
<1>1. TypeOK
  BY EmptySeq DEF Init, TypeOK, States, FreshTerm, FreshPeers
<1>2. BallotsExist /\ CallsWithinLog /\ DeadIsEmpty /\ NoSelfCalls
  BY DEF Init, BallotsExist, CallsWithinLog, DeadIsEmpty, NoSelfCalls
<1>3. IndexesInOrder /\ NextIndexInRange
  BY DEF Init, IndexesInOrder, NextIndexInRange, Alive
<1> QED BY <1>1, <1>2, <1>3 DEF IndexInv

(* The inductive invariant holds in every behaviour. *)
LEMMA IndexInvariance == Spec => [](IndexInv /\ NoSelfCalls)
<1>1. Init => IndexInv /\ NoSelfCalls
  BY IndexInvInit
<1>2. IndexInv /\ NoSelfCalls /\ [Next]_vars => (IndexInv /\ NoSelfCalls)'
  BY IndexInvNext, NoSelfCallsNext
<1> QED BY <1>1, <1>2, PTL DEF Spec

(* In every behaviour each variable of the model has its type: in          *)
(* particular logs and backup files have no gaps, and the indexes kept as  *)
(* uint64 never go below 0 (node_context.go, peer.go, log_memory.go).      *)
THEOREM TypeCorrect == Spec => []TypeOK
BY IndexInvariance, PTL DEF IndexInv

(* In every behaviour, for any number of nodes, terms, crashes and calls   *)
(* in flight: backup index <= commit index <= last index at every live     *)
(* node, so commitProcedure and backupProcedure (node.go) never ask for an *)
(* entry the log does not have.                                            *)
THEOREM IndexesStayInOrder == Spec => []IndexesInOrder
BY IndexInvariance, PTL DEF IndexInv

(* In every behaviour the NextIndex of a leader is in its log or one       *)
(* behind it, so SendAppendEntriesToPeers (node.go) never underflows and   *)
(* never fetches a missing entry, even with responses of earlier           *)
(* leaderships.                                                            *)
THEOREM NextIndexStaysInRange == Spec => []NextIndexInRange
BY IndexInvariance, PTL DEF IndexInv

-----------------------------------------------------------------------------
(* One step never lowers the commit index of a node that stays up. *)
LEMMA CommitStep ==
    ASSUME IndexInv, [Next]_vars, NEW n \in Node, state'[n] # "Dead"
    PROVE  commitIndex'[n] >= commitIndex[n]
<1>0. /\ commitIndex \in [Node -> Nat] /\ commitIndex[n] \in Nat
      /\ log[n] \in Seq(Entry) /\ Len(log[n]) \in Nat /\ Len(disk[n]) \in Nat
  BY LogLengths DEF IndexInv, TypeOK
<1>1. CASE \E x \in Node : NewNode(x)
  BY <1>0, <1>1 DEF NewNode, IndexInv, DeadIsEmpty
<1>2. CASE \E x \in Node : Crash(x)
  BY <1>0, <1>2 DEF Crash, IndexInv, TypeOK
<1>3. CASE \E m \in appendSent : AcceptAppend(m)
  <2>1. PICK m \in appendSent : AcceptAppend(m)
    BY <1>3
  <2> DEFINE newLog == InsertValidEntryList(log[n], m.prevIndex, m.entries)
  <2>2. /\ m.dst \in Node /\ m.prevIndex \in Nat /\ m.entries \in Seq(Entry) /\ m.commit \in Nat
    BY DEF IndexInv, TypeOK, AppendRequest
  <2>3. CASE m.dst # n
    BY <2>1, <2>2, <2>3, <1>0 DEF AcceptAppend
  <2>4. CASE m.dst = n
    <3>1. m.prevIndex <= Len(log[n]) /\ commitIndex[n] <= Len(log[n])
      BY <2>1, <2>4 DEF AcceptAppend, PrevMatches, MaximumIndex, IndexInv, IndexesInOrder, Alive
    <3>2. Len(newLog) = Larger(Len(log[n]), m.prevIndex + Len(m.entries))
      BY <1>0, <2>2, <3>1, InsertValidEntryListType
    <3>3. commitIndex'[n] = FollowerCommit(m, commitIndex[n], newLog)
      BY <1>0, <2>1, <2>4 DEF AcceptAppend
    <3>4. Len(m.entries) \in Nat
      BY <2>2, LenProperties
    <3> HIDE DEF newLog
    <3> QED BY <1>0, <2>2, <3>1, <3>2, <3>3, <3>4
            DEF FollowerCommit, Smaller, Larger, MaximumIndex
  <2> QED BY <2>3, <2>4
<1>4. CASE \E r \in appendAnswered : HandleAppendSuccess(r)
  <2>1. PICK r \in appendAnswered : HandleAppendSuccess(r)
    BY <1>4
  <2> DEFINE match == [matchIndex[r.src] EXCEPT
                          ![r.dst] = Larger(@, (r.prevIndex + 1 + r.count) - 1)]
  <2>2. r.src \in Node
    BY DEF IndexInv, TypeOK, AppendResponse
  <2>3. commitIndex' = [commitIndex EXCEPT ![r.src] = LeaderCommit(r.src, match)]
    BY <2>1 DEF HandleAppendSuccess
  <2> HIDE DEF match
  <2>4. CASE r.src = n
    <3>1. commitIndex[n] <= Len(log[n])
      BY <2>1, <2>4 DEF HandleAppendSuccess, IndexInv, IndexesInOrder, Alive, MaximumIndex
    <3>2. commitIndex[n] <= LeaderCommit(n, match) /\ LeaderCommit(n, match) \in Nat
      BY <1>0, <3>1, LeaderCommitBounds
    <3> QED BY <1>0, <2>3, <2>4, <3>2
  <2>5. CASE r.src # n
    BY <1>0, <2>3, <2>5
  <2> QED BY <2>4, <2>5
<1>5. CASE UNCHANGED commitIndex
  BY <1>0, <1>5
<1>6. CASE CandidateVotes
  <2>1. UNCHANGED commitIndex
    BY <1>6 DEF CandidateVotes, SendCandidateVotes, AbandonCandidateVotes, GrantHigherTermVote,
       AnswerSameTermVote, AnswerVote, HandleVoteHigherTerm, CollectVote, IgnoreVote,
       WinElection, LoseVoteCall
  <2> QED BY <2>1, <1>5
<1>7. CASE AppendEntries
  <2>1. \/ UNCHANGED commitIndex
        \/ \E m \in appendSent : AcceptAppend(m)
        \/ \E r \in appendAnswered : HandleAppendSuccess(r)
    BY <1>7 DEF AppendEntries, SendAppendEntriesToPeers, SendAppendEntries,
       AbandonAppendEntries, RefuseObsoleteAppend, RefuseConflictingAppend,
       HandleAppendHigherTerm, HandleAppendConflict, IgnoreAppendResponse, LoseAppendCall
  <2> QED BY <2>1, <1>3, <1>4, <1>5
<1>8. CASE \E x \in Node : LocalStep(x)
  <2>1. \/ UNCHANGED commitIndex
        \/ \E x \in Node : NewNode(x) \/ Crash(x)
    BY <1>8 DEF LocalStep, BackUpLogMemoryToDisk, StartCandidateVoteModule, HeartBeat,
       StartReleasePoll, EndReleasePoll, LogCommand, PollRelease, AppendEntry
  <2> QED BY <2>1, <1>1, <1>2, <1>5
<1> QED BY <1>5, <1>6, <1>7, <1>8 DEF Next, vars

(* In every behaviour the commit index of a live node never goes back      *)
(* (AppendEntriesService in p2p_server.go, the commit loop in node.go).    *)
THEOREM CommitIndexMonotone == Spec => CommitNeverDecreases
<1>1. IndexInv /\ [Next]_vars =>
        [\A n \in Node : state'[n] # "Dead" => commitIndex'[n] >= commitIndex[n]]_vars
  BY CommitStep
<1> QED BY <1>1, IndexInvariance, PTL DEF Spec, CommitNeverDecreases

-----------------------------------------------------------------------------
(* A sequence is a prefix of itself and of itself with one more element. *)
LEMMA PrefixOfExtension ==
    ASSUME NEW S, NEW s \in Seq(S), NEW x
    PROVE  /\ Len(s) <= Len(s) /\ SubSeq(s, 1, Len(s)) = s
           /\ Len(s) <= Len(Append(s, x)) /\ SubSeq(Append(s, x), 1, Len(s)) = s
OBVIOUS

(* One step of a node that leads before and after it only appends: the     *)
(* one step that overwrites entries (AcceptAppend) ends as a follower.     *)
LEMMA LeaderStep ==
    ASSUME IndexInv, [Next]_vars, NEW n \in Node,
           state[n] = "Leader", state'[n] = "Leader"
    PROVE  /\ Len(log[n]) <= Len(log'[n])
           /\ SubSeq(log'[n], 1, Len(log[n])) = log[n]
<1>0. /\ log \in [Node -> Seq(Entry)] /\ log[n] \in Seq(Entry)
      /\ state \in [Node -> States]
  BY DEF IndexInv, TypeOK
<1>1. CASE log'[n] = log[n]
  BY <1>0, <1>1, PrefixOfExtension
<1>2. CASE \E x \in Node, c \in Command : AppendEntry(x, c)
  <2>1. PICK x \in Node, c \in Command : AppendEntry(x, c)
    BY <1>2
  <2> DEFINE new == [term |-> currentTerm[x], cmd |-> c]
  <2>2. log' = [log EXCEPT ![x] = Append(@, new)]
    BY <2>1 DEF AppendEntry, InsertLogEntry
  <2> HIDE DEF new
  <2>3. log'[n] = log[n] \/ log'[n] = Append(log[n], new)
    BY <1>0, <2>2
  <2> QED BY <1>0, <1>1, <2>3, PrefixOfExtension
<1>3. CASE \E m \in appendSent : AcceptAppend(m)
  <2>1. PICK m \in appendSent : AcceptAppend(m)
    BY <1>3
  <2>2. m.dst \in Node
    BY DEF IndexInv, TypeOK, AppendRequest
  <2>3. m.dst # n
    BY <1>0, <2>1, <2>2 DEF AcceptAppend, FollowLeader, BecomeFollower, BecomeFollowerVoting
  <2>4. log'[n] = log[n]
    BY <1>0, <2>1, <2>2, <2>3 DEF AcceptAppend
  <2> QED BY <1>1, <2>4
<1>4. CASE \E r \in voteAnswered : \E released \in {<<>>} \cup {<<c>> : c \in Command} :
                WinElection(r, released)
  <2>1. PICK r \in voteAnswered, released \in {<<>>} \cup {<<c>> : c \in Command} :
            WinElection(r, released)
    BY <1>4
  <2>2. r.src # n
    BY <2>1 DEF WinElection, InTimeVote
  <2>3. log'[n] = log[n]
    BY <1>0, <2>1, <2>2 DEF WinElection, BecomeLeader
  <2> QED BY <1>1, <2>3
<1>5. CASE \E x \in Node : NewNode(x) \/ Crash(x)
  <2>1. PICK x \in Node : NewNode(x) \/ Crash(x)
    BY <1>5
  <2>2. x # n
    BY <1>0, <2>1 DEF NewNode, Crash
  <2>3. log'[n] = log[n]
    BY <1>0, <2>1, <2>2 DEF NewNode, Crash
  <2> QED BY <1>1, <2>3
<1>6. CASE CandidateVotes
  <2>1. \/ UNCHANGED log
        \/ \E r \in voteAnswered : \E released \in {<<>>} \cup {<<c>> : c \in Command} :
              WinElection(r, released)
    BY <1>6 DEF CandidateVotes, SendCandidateVotes, AbandonCandidateVotes, GrantHigherTermVote,
       AnswerSameTermVote, AnswerVote, HandleVoteHigherTerm, CollectVote, IgnoreVote,
       LoseVoteCall, logVars
  <2> QED BY <1>1, <1>4, <2>1
<1>7. CASE AppendEntries
  <2>1. UNCHANGED log \/ \E m \in appendSent : AcceptAppend(m)
    BY <1>7 DEF AppendEntries, SendAppendEntriesToPeers, SendAppendEntries,
       AbandonAppendEntries, RefuseObsoleteAppend, RefuseConflictingAppend,
       HandleAppendHigherTerm, HandleAppendSuccess, HandleAppendConflict,
       IgnoreAppendResponse, LoseAppendCall, logVars
  <2> QED BY <1>1, <1>3, <2>1
<1>8. CASE \E x \in Node : LocalStep(x)
  <2>1. \/ UNCHANGED log
        \/ \E x \in Node : NewNode(x) \/ Crash(x)
        \/ \E x \in Node, c \in Command : AppendEntry(x, c)
    BY <1>8 DEF LocalStep, BackUpLogMemoryToDisk, StartCandidateVoteModule, HeartBeat,
       StartReleasePoll, EndReleasePoll, LogCommand, PollRelease, logVars
  <2> QED BY <1>1, <1>2, <1>5, <2>1
<1> QED BY <1>1, <1>6, <1>7, <1>8 DEF Next, vars, logVars

(* In every behaviour, for any number of nodes, terms and crashes, a node  *)
(* only appends to its log while it leads: neither AppendEntriesService of *)
(* another leader nor a restart changes an entry of a leader that stays    *)
(* one (p2p_server.go, BecomeFollower in node_context.go).                 *)
THEOREM LeaderOnlyAppends == Spec => LeaderAppendOnly
<1>1. IndexInv /\ [Next]_vars =>
        [\A n \in Node : state[n] = "Leader" /\ state'[n] = "Leader" =>
            /\ Len(log[n]) <= Len(log'[n])
            /\ SubSeq(log'[n], 1, Len(log[n])) = log[n]]_vars
  BY LeaderStep
<1> QED BY <1>1, IndexInvariance, PTL DEF Spec, LeaderAppendOnly
=============================================================================
