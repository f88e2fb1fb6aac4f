--------------------------- MODULE KVClientProofs ---------------------------
(***************************************************************************)
(* PutStateKVService acknowledges a put by index and term only.  Proved    *)
(* here, for any number of nodes, terms, crashes and calls: in a term with *)
(* one author the entry it finds there is the put itself.                  *)
(*                                                                         *)
(* The argument follows every copy of every entry: those in the logs, in   *)
(* the backup files and in the AppendEntries requests on their way.  A     *)
(* step either moves copies, which keeps index, term and command together  *)
(* (StoredOrigin), or appends one new entry at the end of one node's log.  *)
(* As long as the author of a term does not crash its log never shrinks    *)
(* (LogsGrow), so that it never uses an index of the term twice.           *)
(*                                                                         *)
(* Where one node has been the only leader and nobody has crashed, every   *)
(* log is a part of the leader's (Follows in RaftElectionProofs), and what *)
(* is acknowledged is on a majority.                                       *)
(***************************************************************************)
EXTENDS KVClient, RaftElectionProofs

USE DEF nodeVars, logVars, peerVars, voteCalls, appendCalls, history

InLog(l, i, e) == i \in 1 .. Len(l) /\ l[i] = e

(* Some log, file or request has entry e with index i. *)
Stored(i, e) ==
    \/ \E n \in Node : InLog(log[n], i, e) \/ InLog(disk[n], i, e)
    \/ \E m \in appendSent : InLog(m.entries, i - m.prevIndex, e)

(* A step that logs nothing: it moves, copies or forgets entries. *)
MovesEntries ==
    \/ UNCHANGED <<log, disk>> /\ appendSent' \subseteq appendSent
    \/ \E n \in Node : NewNode(n) \/ Crash(n) \/ BackUpLogMemoryToDisk(n)
    \/ \E c \in appendSpawned : SendAppendEntries(c)
    \/ \E m \in appendSent : AcceptAppend(m)

-----------------------------------------------------------------------------
(* Where the entries of a log after an insertion come from. *)
LEMMA InLogInserted ==
    ASSUME NEW l \in Seq(Entry), NEW entries \in Seq(Entry), NEW prev \in Nat,
           prev <= Len(l), NEW i, NEW e, InLog(InsertValidEntryList(l, prev, entries), i, e)
    PROVE  InLog(l, i, e) \/ InLog(entries, i - prev, e)
<1> DEFINE new == InsertValidEntryList(l, prev, entries)
<1>1. Len(l) \in Nat /\ Len(entries) \in Nat
  BY LenProperties
<1>2. Len(new) = Larger(Len(l), prev + Len(entries))
  BY InsertValidEntryListType
<1>3. i \in 1 .. Larger(Len(l), prev + Len(entries)) /\ new[i] = e
  BY <1>2 DEF InLog
<1>4. e = IF prev < i /\ i <= prev + Len(entries) THEN entries[i - prev] ELSE l[i]
  BY <1>3 DEF InsertValidEntryList
<1>5. CASE prev < i /\ i <= prev + Len(entries)
  BY <1>1, <1>3, <1>4, <1>5 DEF InLog
<1>6. CASE ~(prev < i /\ i <= prev + Len(entries))
  BY <1>1, <1>3, <1>4, <1>6 DEF InLog, Larger
<1> QED BY <1>5, <1>6

(* Where the entries of a backup file come from. *)
LEMMA InLogBackedUp ==
    ASSUME NEW d \in Seq(Entry), NEW l \in Seq(Entry), NEW last \in Nat, last <= Len(l),
           NEW i, NEW e, InLog(StoreLogMemory(d, l, last), i, e)
    PROVE  InLog(d, i, e) \/ InLog(l, i, e)
<1>1. Len(l) \in Nat /\ Len(d) \in Nat
  BY LenProperties
<1>2. Len(StoreLogMemory(d, l, last)) = last
  BY StoreLogMemoryType
<1>3. i \in 1 .. last /\ e = StoreLogMemory(d, l, last)[i]
  BY <1>2 DEF InLog
<1>4. e = IF i <= Len(d) THEN d[i] ELSE l[i]
  BY <1>3 DEF StoreLogMemory
<1> QED BY <1>1, <1>3, <1>4 DEF InLog

(* Where the entries of a request come from. *)
LEMMA InLogSent ==
    ASSUME NEW l \in Seq(Entry), NEW prev \in Nat, NEW n \in Nat, prev + n <= Len(l),
           NEW i \in Int, NEW e, InLog(EntriesAfter(l, prev, n), i - prev, e)
    PROVE  InLog(l, i, e)
<1>1. Len(l) \in Nat
  BY LenProperties
<1>2. Len(EntriesAfter(l, prev, n)) = n
  BY EntriesAfterType
<1>3. i - prev \in 1 .. n /\ e = EntriesAfter(l, prev, n)[i - prev]
  BY <1>2 DEF InLog
<1>4. e = l[prev + (i - prev)]
  BY <1>3 DEF EntriesAfter
<1>5. prev + (i - prev) = i
  OBVIOUS
<1> QED BY <1>1, <1>3, <1>4, <1>5 DEF InLog

(* Where the entries of a log with one more entry come from. *)
LEMMA InLogAppended ==
    ASSUME NEW l \in Seq(Entry), NEW x, NEW i, NEW e, InLog(Append(l, x), i, e)
    PROVE  InLog(l, i, e) \/ (i = Len(l) + 1 /\ e = x)
BY DEF InLog

-----------------------------------------------------------------------------
(* What the steps do to the copies of entries. *)
LEMMA CopyCases ==
    ASSUME [Next]_vars
    PROVE  \/ MovesEntries
           \/ \E n \in Node, c \in Command : AppendEntry(n, c)
           \/ \E r \in voteAnswered, released \in {<<>>} \cup {<<c>> : c \in Command} :
                 WinElection(r, released)
<1>1. CASE CandidateVotes
  BY <1>1 DEF MovesEntries, CandidateVotes, SendCandidateVotes, AbandonCandidateVotes, GrantHigherTermVote,
     AnswerSameTermVote, AnswerVote, HandleVoteHigherTerm, CollectVote, IgnoreVote, LoseVoteCall
<1>2. CASE AppendEntries
  BY <1>2 DEF MovesEntries, AppendEntries, SendAppendEntriesToPeers, AbandonAppendEntries,
     RefuseObsoleteAppend, RefuseConflictingAppend, AnswerAppend, HandleAppendHigherTerm,
     HandleAppendSuccess, HandleAppendConflict, IgnoreAppendResponse, LoseAppendCall
<1>3. CASE \E n \in Node : LocalStep(n)
  BY <1>3 DEF MovesEntries, LocalStep, StartCandidateVoteModule, HeartBeat, StartReleasePoll,
     EndReleasePoll, LogCommand, PollRelease
<1> QED BY <1>1, <1>2, <1>3 DEF MovesEntries, Next, vars

(* The log of a new leader: one release at most is added to it. *)
LEMMA LogAfterElection ==
    ASSUME TypeOK, NEW r \in voteAnswered, NEW released \in {<<>>} \cup {<<c>> : c \in Command},
           WinElection(r, released)
    PROVE  /\ r.src \in Node /\ UNCHANGED <<disk, appendSent, currentTerm>>
           /\ \A n \in Node : n # r.src => log'[n] = log[n]
           /\ \/ log'[r.src] = log[r.src]
              \/ \E c \in Command :
                    log'[r.src] = Append(log[r.src], [term |-> currentTerm[r.src], cmd |-> c])
<1> DEFINE n == r.src
           new == [i \in DOMAIN released |-> [term |-> currentTerm[n], cmd |-> released[i]]]
<1>1. n \in Node /\ log \in [Node -> Seq(Entry)] /\ log[n] \in Seq(Entry)
  BY DEF TypeOK, VoteResponse
<1>2. /\ log' = [log EXCEPT ![n] = @ \o new] /\ UNCHANGED <<disk, appendSent, currentTerm>>
  BY DEF WinElection, BecomeLeader
<1>3. log'[n] = log[n] \o new /\ \A x \in Node : x # n => log'[x] = log[x]
  <2> HIDE DEF new
  <2> QED BY <1>1, <1>2
<1>4. CASE released = <<>>
  <2>1. new = <<>>
    BY <1>4
  <2>2. log[n] \o <<>> = log[n]
    BY <1>1
  <2> QED BY <1>1, <1>2, <1>3, <2>1, <2>2
<1>5. CASE \E c \in Command : released = <<c>>
  <2>1. PICK c \in Command : released = <<c>>
    BY <1>5
  <2>2. new = <<[term |-> currentTerm[n], cmd |-> c]>>
    BY <2>1
  <2> DEFINE entry == [term |-> currentTerm[n], cmd |-> c]
  <2> HIDE DEF entry
  <2>3. log[n] \o <<entry>> = Append(log[n], entry)
    BY <1>1
  <2>4. log'[n] = Append(log[n], entry)
    BY <1>3, <2>2, <2>3 DEF entry
  <2> QED BY <1>1, <1>2, <1>3, <2>4 DEF entry
<1> QED BY <1>4, <1>5

(* A node's log only shrinks when the node crashes. *)
LEMMA LogsGrow ==
    ASSUME IndexInv, [Next]_vars, NEW n \in Node, ~Crash(n)
    PROVE  Len(log[n]) <= Len(log'[n])
<1>0. /\ log \in [Node -> Seq(Entry)] /\ log[n] \in Seq(Entry) /\ Len(log[n]) \in Nat
      /\ Len(disk[n]) \in Nat
  BY LogLengths DEF IndexInv, TypeOK
<1>1. CASE log'[n] = log[n]
  BY <1>0, <1>1
<1>2. CASE \E x \in Node : NewNode(x)
  <2>1. PICK x \in Node : NewNode(x)
    BY <1>2
  <2>2. CASE x = n
    <3>1. log[n] = <<>> /\ log'[n] = disk[n]
      BY <1>0, <2>1, <2>2 DEF NewNode, IndexInv, DeadIsEmpty
    <3> QED BY <1>0, <3>1
  <2>3. CASE x # n
    BY <1>0, <1>1, <2>1, <2>3 DEF NewNode
  <2> QED BY <2>2, <2>3
<1>3. CASE \E x \in Node : Crash(x)
  <2>1. PICK x \in Node : Crash(x)
    BY <1>3
  <2>2. x # n
    BY <2>1
  <2>3. log' = [log EXCEPT ![x] = <<>>]
    BY <2>1 DEF Crash
  <2> QED BY <1>0, <1>1, <2>2, <2>3
<1>4. CASE \E x \in Node, c \in Command : AppendEntry(x, c)
  <2>1. PICK x \in Node, c \in Command : AppendEntry(x, c)
    BY <1>4
  <2> DEFINE new == [term |-> currentTerm[x], cmd |-> c]
  <2>2. log' = [log EXCEPT ![x] = Append(@, new)]
    BY <2>1 DEF AppendEntry, InsertLogEntry
  <2> HIDE DEF new
  <2>3. log'[n] = log[n] \/ log'[n] = Append(log[n], new)
    BY <1>0, <2>2
  <2> QED BY <1>0, <2>3, PrefixOfExtension
<1>5. CASE \E m \in appendSent : AcceptAppend(m)
  <2>1. PICK m \in appendSent : AcceptAppend(m)
    BY <1>5
  <2>2. /\ m.dst \in Node /\ m.prevIndex \in Nat /\ m.entries \in Seq(Entry)
    BY DEF IndexInv, TypeOK, AppendRequest
  <2>3. CASE m.dst # n
    BY <1>0, <1>1, <2>1, <2>2, <2>3 DEF AcceptAppend
  <2>4. CASE m.dst = n
    <3>1. m.prevIndex <= Len(log[n]) /\ Len(m.entries) \in Nat
      BY <2>1, <2>2, <2>4, LenProperties DEF AcceptAppend, PrevMatches, MaximumIndex
    <3>2. log'[n] = InsertValidEntryList(log[n], m.prevIndex, m.entries)
      BY <1>0, <2>1, <2>4 DEF AcceptAppend
    <3>3. Len(InsertValidEntryList(log[n], m.prevIndex, m.entries))
             = Larger(Len(log[n]), m.prevIndex + Len(m.entries))
      BY <1>0, <2>2, <3>1, InsertValidEntryListType
    <3> QED BY <1>0, <2>2, <3>1, <3>2, <3>3 DEF Larger
  <2> QED BY <2>3, <2>4
<1>6. CASE \E r \in voteAnswered, released \in {<<>>} \cup {<<c>> : c \in Command} :
              WinElection(r, released)
  <2>1. log'[n] = log[n] \/ \E e : log'[n] = Append(log[n], e)
    BY <1>6, LogAfterElection DEF IndexInv
  <2> QED BY <1>0, <1>1, <2>1, PrefixOfExtension
<1>7. CASE \/ \E x \in Node : BackUpLogMemoryToDisk(x)
           \/ \E c \in appendSpawned : SendAppendEntries(c)
  <2>1. log' = log
    BY <1>7 DEF BackUpLogMemoryToDisk, SendAppendEntries
  <2> QED BY <1>1, <2>1
<1> QED BY <1>1, <1>2, <1>3, <1>4, <1>5, <1>6, <1>7, CopyCases DEF MovesEntries

(* Moving entries makes no new one: index, term and command stay together. *)
LEMMA StoredMoved ==
    ASSUME IndexInv, NoSelfCalls, MovesEntries, NEW i \in Int, NEW e, Stored(i, e)'
    PROVE  Stored(i, e)
<1>0. /\ log \in [Node -> Seq(Entry)] /\ disk \in [Node -> Seq(Entry)]
      /\ \A n \in Node : /\ log[n] \in Seq(Entry) /\ disk[n] \in Seq(Entry)
                         /\ Len(log[n]) \in Nat /\ commitIndex[n] \in Nat
  BY LogLengths DEF IndexInv, TypeOK
<1>1. CASE UNCHANGED <<log, disk>> /\ appendSent' \subseteq appendSent
  BY <1>1 DEF Stored
<1>2. CASE \E x \in Node : NewNode(x)
  <2>1. PICK x \in Node : NewNode(x)
    BY <1>2
  <2>2. /\ \A n \in Node : log'[n] = IF n = x THEN disk[n] ELSE log[n]
        /\ UNCHANGED <<disk, appendSent>>
    BY <1>0, <2>1 DEF NewNode
  <2> QED BY <2>2 DEF Stored
<1>3. CASE \E x \in Node : Crash(x)
  <2>1. PICK x \in Node : Crash(x)
    BY <1>3
  <2>2. /\ \A n \in Node : log'[n] = IF n = x THEN <<>> ELSE log[n]
        /\ disk' = disk /\ appendSent' \subseteq appendSent
    BY <1>0, <2>1 DEF Crash
  <2>3. ~InLog(<<>>, i, e)
    BY DEF InLog
  <2> QED BY <2>2, <2>3 DEF Stored
<1>4. CASE \E x \in Node : BackUpLogMemoryToDisk(x)
  <2>1. PICK x \in Node : BackUpLogMemoryToDisk(x)
    BY <1>4
  <2>2. /\ UNCHANGED <<log, appendSent>>
        /\ disk'[x] = StoreLogMemory(disk[x], log[x], commitIndex[x])
        /\ \A n \in Node : n # x => disk'[n] = disk[n]
        /\ state[x] # "Dead"
    BY <1>0, <2>1 DEF BackUpLogMemoryToDisk
  <2>3. commitIndex[x] <= Len(log[x])
    BY <2>2 DEF IndexInv, IndexesInOrder, Alive, MaximumIndex
  <2>4. InLog(disk'[x], i, e) => InLog(disk[x], i, e) \/ InLog(log[x], i, e)
    BY <1>0, <2>2, <2>3, InLogBackedUp
  <2> QED BY <2>2, <2>4 DEF Stored
<1>5. CASE \E c \in appendSpawned : SendAppendEntries(c)
  <2>1. PICK c \in appendSpawned : SendAppendEntries(c)
    BY <1>5
  <2> DEFINE n == c.src
             prev == nextIndex[n][c.dst] - 1
             count == Smaller(MaxLogUnitsRecover, MaximumIndex(log[n]) - prev)
             entries == EntriesAfter(log[n], prev, count)
             request == [src |-> n, dst |-> c.dst, start |-> c.start, term |-> currentTerm[n],
                         prevIndex |-> prev, prevTerm |-> TermAt(log[n], prev),
                         commit |-> commitIndex[n], entries |-> entries]
  <2>2. /\ n \in Node /\ state[n] = "Leader" /\ UNCHANGED <<log, disk>>
        /\ appendSent' = appendSent \cup {request}
    BY <2>1 DEF SendAppendEntries, IndexInv, TypeOK, AppendSpawn
  <2>3. nextIndex[n][c.dst] \in 1 .. Len(log[n]) + 1
    BY <2>2 DEF IndexInv, TypeOK, AppendSpawn, NoSelfCalls, NextIndexInRange, Peers, MaximumIndex
  <2>4. prev \in Nat /\ prev <= Len(log[n])
    BY <1>0, <2>2, <2>3
  <2>5. count \in Nat /\ prev + count <= Len(log[n])
    BY <1>0, <2>2, <2>4, BoundsAssumption, SMTT(30) DEF Smaller, MaximumIndex
  <2>6. request.entries = entries /\ request.prevIndex = prev
    OBVIOUS
  <2> HIDE DEF n, prev, count
  <2>7. InLog(entries, i - prev, e) => InLog(log[n], i, e)
    BY <1>0, <2>2, <2>4, <2>5, InLogSent
  <2> HIDE DEF request, entries
  <2> QED BY <2>2, <2>6, <2>7 DEF Stored
<1>6. CASE \E m \in appendSent : AcceptAppend(m)
  <2>1. PICK m \in appendSent : AcceptAppend(m)
    BY <1>6
  <2> DEFINE x == m.dst
  <2>2. /\ x \in Node /\ m.prevIndex \in Nat /\ m.entries \in Seq(Entry)
    BY DEF IndexInv, TypeOK, AppendRequest
  <2>3. /\ m.prevIndex <= Len(log[x])
        /\ log'[x] = InsertValidEntryList(log[x], m.prevIndex, m.entries)
        /\ \A n \in Node : n # x => log'[n] = log[n]
        /\ disk' = disk /\ appendSent' \subseteq appendSent
    BY <1>0, <2>1, <2>2 DEF AcceptAppend, AnswerAppend, PrevMatches, MaximumIndex
  <2>4. InLog(log'[x], i, e) => InLog(log[x], i, e) \/ InLog(m.entries, i - m.prevIndex, e)
    BY <1>0, <2>2, <2>3, InLogInserted
  <2> QED BY <2>2, <2>3, <2>4 DEF Stored
<1> QED BY <1>1, <1>2, <1>3, <1>4, <1>5, <1>6 DEF MovesEntries

(* Logging a command makes one new entry, behind the last one of the log. *)
LEMMA StoredAppended ==
    ASSUME TypeOK, NEW x \in Node, NEW c \in Command, AppendEntry(x, c),
           NEW i \in Int, NEW e, Stored(i, e)'
    PROVE  \/ Stored(i, e)
           \/ i = Len(log[x]) + 1 /\ e = [term |-> currentTerm[x], cmd |-> c]
<1> DEFINE new == [term |-> currentTerm[x], cmd |-> c]
<1>1. log \in [Node -> Seq(Entry)] /\ log[x] \in Seq(Entry)
  BY DEF TypeOK
<1>2. log' = [log EXCEPT ![x] = Append(@, new)] /\ UNCHANGED <<disk, appendSent>>
  BY DEF AppendEntry, InsertLogEntry
<1> SUFFICES Stored(i, e) \/ (i = Len(log[x]) + 1 /\ e = new)
  OBVIOUS
<1> HIDE DEF new
<1>3. log'[x] = Append(log[x], new) /\ \A n \in Node : n # x => log'[n] = log[n]
  BY <1>1, <1>2
<1>4. InLog(log'[x], i, e) => InLog(log[x], i, e) \/ (i = Len(log[x]) + 1 /\ e = new)
  BY <1>1, <1>3, InLogAppended
<1> QED BY <1>2, <1>3, <1>4 DEF Stored

(* So does a new leader that releases an expired lock. *)
LEMMA StoredElected ==
    ASSUME TypeOK, NEW r \in voteAnswered, NEW released \in {<<>>} \cup {<<c>> : c \in Command},
           WinElection(r, released), NEW i \in Int, NEW e, Stored(i, e)'
    PROVE  \/ Stored(i, e)
           \/ /\ i = Len(log[r.src]) + 1 /\ i <= Len(log'[r.src])
              /\ e.term = currentTerm[r.src]
<1> DEFINE x == r.src
           new(c) == [term |-> currentTerm[x], cmd |-> c]
<1>1. /\ x \in Node /\ UNCHANGED <<disk, appendSent>>
      /\ \A n \in Node : n # x => log'[n] = log[n]
      /\ log'[x] = log[x] \/ \E c \in Command : log'[x] = Append(log[x], new(c))
  BY LogAfterElection
<1>2. \A c : new(c).term = currentTerm[x]
  OBVIOUS
<1>3. log[x] \in Seq(Entry)
  BY <1>1 DEF TypeOK
<1> HIDE DEF new
<1>4. CASE log'[x] = log[x]
  BY <1>1, <1>4 DEF Stored
<1>5. ASSUME NEW c \in Command, log'[x] = Append(log[x], new(c))
      PROVE  \/ Stored(i, e)
             \/ i = Len(log[x]) + 1 /\ i <= Len(log'[x]) /\ e.term = currentTerm[x]
  <2>1. InLog(log'[x], i, e) => InLog(log[x], i, e) \/ (i = Len(log[x]) + 1 /\ e = new(c))
    BY <1>3, <1>5, InLogAppended
  <2>2. Len(Append(log[x], new(c))) = Len(log[x]) + 1
    BY <1>3
  <2>3. i = Len(log[x]) + 1 => i <= Len(log'[x])
    BY <1>3, <1>5, <2>2, LenProperties
  <2> QED BY <1>1, <1>2, <2>1, <2>3 DEF Stored
<1> QED BY <1>1, <1>4, <1>5

-----------------------------------------------------------------------------
IsWaiting(c) == puts[c].phase = "waiting"

(* A put waits for an entry of a term that its node has won, and at an     *)
(* index that the node's log has reached.                                  *)
WaitsInLog ==
    \A c \in Put : IsWaiting(c) =>
        /\ puts[c].node \in Node /\ puts[c].index \in Nat \ {0} /\ puts[c].term \in Nat
        /\ WonTerm(puts[c].node, puts[c].term)
        /\ puts[c].index <= Len(log[puts[c].node])

(* Every entry of a term with one author is within the log of a node that  *)
(* has won that term.                                                      *)
EntriesHaveAuthor ==
    \A i \in Nat, e \in Entry :
        Stored(i, e) /\ e.term \notin shared =>
            \E x \in elected : x.term = e.term /\ i <= Len(log[x.node])

(* Wherever an entry has the index and the term that a put waits for, it   *)
(* is the put.                                                             *)
PlaceIsTaken ==
    \A i \in Nat, e \in Entry : Stored(i, e) /\ e.term \notin shared =>
        \A c \in Put : IsWaiting(c) /\ puts[c].index = i /\ puts[c].term = e.term => e.cmd = c

(* The inductive invariant behind AckedPutIsOwn.  What the loop reads on   *)
(* its own node may have come back from anywhere, so all copies matter;    *)
(* and a later put must not get an index of its term that is in use,       *)
(* although the author's own log may have been overwritten in between.     *)
PutInv ==
    /\ DOMAIN puts = Put
    /\ WaitsInLog
    /\ EntriesHaveAuthor
    /\ OneLeaderPerTerm => PlaceIsTaken

(* A step of the services is a step of consensus, or none. *)
LEMMA KVNextIsNext ==
    ASSUME [KVNext]_kvVars
    PROVE  [Next]_vars
<1>1. CASE \E c \in Put : \E n \in Node : PutStateKV(c, n)
  BY <1>1, PutAssumption DEF PutStateKV, Next, LocalStep
<1>2. CASE \E c \in Put : PollPut(c) \/ PutFails(c)
  BY <1>2 DEF PollPut, PutFails
<1>3. CASE \E n \in Node : CrashWithLoops(n)
  BY <1>3 DEF CrashWithLoops, Next, LocalStep
<1>4. CASE \E n \in Node, c \in Command \ Put : PollReleaseAnywhere(n, c)
  BY <1>4 DEF PollReleaseAnywhere, Next, LocalStep
<1>5. CASE CandidateVotes \/ AppendEntries
  BY <1>5 DEF Next
<1>6. CASE \E n \in Node : NodeStep(n)
  BY <1>6 DEF NodeStep, Next, LocalStep
<1>7. CASE UNCHANGED kvVars
  BY <1>7 DEF kvVars
<1> QED BY <1>1, <1>2, <1>3, <1>4, <1>5, <1>6, <1>7 DEF KVNext

(* A step that adds no put and no entry of a term that another node has    *)
(* written.                                                                *)
LEMMA PutInvFrame ==
    ASSUME TypeOK, PutInv, DOMAIN puts' = Put,
           elected \subseteq elected', shared \subseteq shared',
           \A x \in elected : x.term \in shared' \/ Len(log[x.node]) <= Len(log'[x.node]),
           \A c \in Put : IsWaiting(c)' =>
               puts'[c] = puts[c] /\ Len(log[puts[c].node]) <= Len(log'[puts[c].node]),
           \A i \in Nat, e \in Entry : Stored(i, e)' /\ e.term \notin shared' =>
               \/ Stored(i, e)
               \/ \E n \in Node : /\ i = Len(log[n]) + 1 /\ i <= Len(log'[n])
                                  /\ WonTerm(n, e.term)',
           \A n \in Node : Len(log'[n]) \in Nat
    PROVE  PutInv'
<1>0. /\ \A n \in Node : Len(log[n]) \in Nat /\ Len(log'[n]) \in Nat
      /\ \A x \in elected : x.node \in Node
  BY LogLengths DEF TypeOK
<1>1. \A c \in Put : IsWaiting(c)' => IsWaiting(c) /\ puts'[c] = puts[c]
  BY DEF IsWaiting
<1>2. WaitsInLog'
  <2> SUFFICES ASSUME NEW c \in Put, IsWaiting(c)'
               PROVE  /\ puts'[c].node \in Node /\ puts'[c].index \in Nat \ {0}
                      /\ puts'[c].term \in Nat
                      /\ WonTerm(puts[c].node, puts[c].term)'
                      /\ puts'[c].index <= Len(log'[puts'[c].node])
    BY <1>1 DEF WaitsInLog, WonTerm
  <2>1. /\ puts[c].node \in Node /\ puts[c].index \in Nat \ {0} /\ puts[c].term \in Nat
        /\ WonTerm(puts[c].node, puts[c].term)
        /\ puts[c].index <= Len(log[puts[c].node])
    BY <1>1 DEF PutInv, WaitsInLog
  <2>2. WonTerm(puts[c].node, puts[c].term)'
    BY <1>1, <2>1 DEF WonTerm
  <2> QED BY <1>0, <1>1, <2>1, <2>2
<1>3. EntriesHaveAuthor'
  <2> SUFFICES ASSUME NEW i \in Nat, NEW e \in Entry, Stored(i, e)', e.term \notin shared'
               PROVE  \E x \in elected' : x.term = e.term /\ i <= Len(log'[x.node])
    BY DEF EntriesHaveAuthor
  <2>1. CASE Stored(i, e)
    <3>1. PICK x \in elected : x.term = e.term /\ i <= Len(log[x.node])
      BY <2>1 DEF PutInv, EntriesHaveAuthor
    <3>2. Len(log[x.node]) <= Len(log'[x.node])
      BY <3>1
    <3> QED BY <1>0, <3>1, <3>2
  <2>2. CASE \E n \in Node : i <= Len(log'[n]) /\ WonTerm(n, e.term)'
    BY <2>2 DEF WonTerm
  <2> QED BY <2>1, <2>2
<1>4. ASSUME OneLeaderPerTerm' PROVE PlaceIsTaken'
  <2>1. PlaceIsTaken
    BY <1>4 DEF PutInv, OneLeaderPerTerm
  <2> SUFFICES ASSUME NEW i \in Nat, NEW e \in Entry, Stored(i, e)', e.term \notin shared',
                      NEW c \in Put, IsWaiting(c)', puts'[c].index = i, puts'[c].term = e.term
               PROVE  e.cmd = c
    BY DEF PlaceIsTaken
  <2>2. IsWaiting(c) /\ puts[c].index = i /\ puts[c].term = e.term
    BY <1>1
  <2>3. CASE Stored(i, e)
    BY <2>1, <2>2, <2>3 DEF PlaceIsTaken
  <2>4. ASSUME NEW n \in Node, i = Len(log[n]) + 1, WonTerm(n, e.term)' PROVE FALSE
    <3>1. /\ puts[c].node \in Node /\ WonTerm(puts[c].node, e.term)
          /\ i <= Len(log[puts[c].node])
      BY <2>2 DEF PutInv, WaitsInLog
    <3>2. n = puts[c].node
      BY <1>4, <2>4, <3>1 DEF WonTerm, OneLeaderPerTerm
    <3> QED BY <1>0, <2>4, <3>1, <3>2
  <2> QED BY <2>3, <2>4
<1> QED BY <1>2, <1>3, <1>4 DEF PutInv

(* Steps that change no log entry but may copy some, or end a loop. *)
LEMMA PutInvMove ==
    ASSUME IndexInv, IndexInv', NoSelfCalls, PutInv, [Next]_vars, MovesEntries,
           crashes' = crashes, elected' = elected, shared' = shared, DOMAIN puts' = Put,
           \A c \in Put : IsWaiting(c)' => puts'[c] = puts[c]
    PROVE  PutInv'
<1>1. \A n \in Node : ~Crash(n)
  BY DEF Crash, IndexInv, TypeOK
<1>2. \A n \in Node : Len(log[n]) <= Len(log'[n])
  BY <1>1, LogsGrow
<1>3. /\ TypeOK /\ \A n \in Node : Len(log'[n]) \in Nat
  BY LenProperties DEF IndexInv, TypeOK
<1>4. \A x \in elected : x.node \in Node
  BY <1>3 DEF TypeOK
<1>5. \A c \in Put : IsWaiting(c)' => IsWaiting(c) /\ puts[c].node \in Node
  BY DEF IsWaiting, PutInv, WaitsInLog
<1>6. \A i \in Nat, e \in Entry : Stored(i, e)' => Stored(i, e)
  <2> TAKE i \in Nat, e \in Entry
  <2>1. i \in Int
    OBVIOUS
  <2> QED BY <2>1, StoredMoved
<1> QED BY <1>2, <1>3, <1>4, <1>5, <1>6, PutInvFrame

(* A crash ends the loops of the node and gives up the terms it has won. *)
LEMMA PutInvCrash ==
    ASSUME IndexInv, IndexInv', NoSelfCalls, PutInv, NEW n \in Node, CrashWithLoops(n)
    PROVE  PutInv'
<1>1. /\ elected' = elected /\ log' = [log EXCEPT ![n] = <<>>]
      /\ shared' = shared \cup {e.term : e \in {w \in elected : w.node = n}}
      /\ puts' = [c \in Put |-> IF WaitsAt(c, n) THEN Returned ELSE puts[c]]
  BY DEF CrashWithLoops, Crash
<1>2. /\ TypeOK /\ \A x \in Node : Len(log[x]) \in Nat /\ Len(log'[x]) \in Nat
      /\ log \in [Node -> Seq(Entry)]
  BY LenProperties DEF IndexInv, TypeOK
<1>3. \A x \in Node : x # n => log'[x] = log[x]
  BY <1>1, <1>2
<1>4. \A x \in elected : x.term \in shared' \/ Len(log[x.node]) <= Len(log'[x.node])
  <2> TAKE x \in elected
  <2>1. x.node \in Node
    BY <1>2 DEF TypeOK
  <2>2. CASE x.node = n
    BY <1>1, <2>2
  <2> QED BY <1>2, <1>3, <2>1, <2>2
<1>5. \A c \in Put : IsWaiting(c)' =>
         puts'[c] = puts[c] /\ Len(log[puts[c].node]) <= Len(log'[puts[c].node])
  <2> SUFFICES ASSUME NEW c \in Put, IsWaiting(c)'
               PROVE  puts'[c] = puts[c] /\ Len(log[puts[c].node]) <= Len(log'[puts[c].node])
    OBVIOUS
  <2>1. Returned.phase # "waiting"
    BY DEF Returned
  <2>2. ~WaitsAt(c, n) /\ puts'[c] = puts[c]
    BY <1>1, <2>1 DEF IsWaiting
  <2>3. IsWaiting(c)
    BY <2>2 DEF IsWaiting
  <2>4. puts[c].node # n /\ puts[c].node \in Node
    BY <2>2, <2>3 DEF WaitsAt, IsWaiting, PutInv, WaitsInLog
  <2> QED BY <1>2, <1>3, <2>2, <2>4
<1>6. \A i \in Nat, e \in Entry : Stored(i, e)' => Stored(i, e)
  <2> TAKE i \in Nat, e \in Entry
  <2>1. i \in Int /\ MovesEntries
    BY DEF MovesEntries, CrashWithLoops
  <2> QED BY <2>1, StoredMoved
<1>7. DOMAIN puts' = Put /\ elected \subseteq elected' /\ shared \subseteq shared'
  BY <1>1
<1> QED BY <1>2, <1>4, <1>5, <1>6, <1>7, PutInvFrame

(* Commands other than puts: a leader's, and the release of a loop, which  *)
(* makes the term shared if the node does not lead.                        *)
LEMMA PutInvLog ==
    ASSUME IndexInv, IndexInv', LeadershipInv, PutInv, [Next]_vars,
           NEW n \in Node, NEW c \in Command, AppendEntry(n, c),
           puts' = puts, shared \subseteq shared',
           state[n] = "Leader" \/ currentTerm[n] \in shared'
    PROVE  PutInv'
<1>1. \A x \in Node : ~Crash(x)
  BY DEF Crash, IndexInv, TypeOK, AppendEntry
<1>2. \A x \in Node : Len(log[x]) <= Len(log'[x])
  BY <1>1, LogsGrow
<1>3. /\ TypeOK /\ \A x \in Node : Len(log'[x]) \in Nat
  BY LenProperties DEF IndexInv, TypeOK
<1>4. elected' = elected /\ \A x \in elected : x.node \in Node
  BY <1>3 DEF TypeOK, AppendEntry
<1>5. \A d \in Put : IsWaiting(d)' => IsWaiting(d) /\ puts[d].node \in Node
  BY DEF IsWaiting, PutInv, WaitsInLog
<1>6. ASSUME NEW i \in Nat, NEW e \in Entry, Stored(i, e)', e.term \notin shared'
      PROVE  \/ Stored(i, e)
             \/ i = Len(log[n]) + 1 /\ i <= Len(log'[n]) /\ WonTerm(n, e.term)'
  <2>1. \/ Stored(i, e)
        \/ i = Len(log[n]) + 1 /\ e = [term |-> currentTerm[n], cmd |-> c]
    <3>1. i \in Int
      OBVIOUS
    <3> QED BY <1>3, <1>6, <3>1, StoredAppended
  <2>2. CASE i = Len(log[n]) + 1 /\ e = [term |-> currentTerm[n], cmd |-> c]
    <3>1. e.term = currentTerm[n]
      BY <2>2
    <3>2. WonTerm(n, currentTerm[n])'
      BY <1>4, <1>6, <3>1 DEF LeadershipInv, LeaderWon, WonTerm, AppendEntry
    <3>3. log[n] \in Seq(Entry) /\ Len(log[n]) \in Nat
      BY <1>3, LogLengths
    <3>4. Len(log'[n]) = Len(log[n]) + 1
      BY <1>3, <3>3 DEF AppendEntry, InsertLogEntry, TypeOK
    <3> QED BY <2>2, <3>1, <3>2, <3>3, <3>4 DEF AppendEntry
  <2> QED BY <2>1, <2>2
<1>7. DOMAIN puts' = Put /\ elected \subseteq elected'
  BY <1>4 DEF PutInv
<1> QED BY <1>2, <1>3, <1>4, <1>5, <1>6, <1>7, PutInvFrame

(* A new leader may log a release in the term it has just won. *)
LEMMA PutInvWin ==
    ASSUME IndexInv, IndexInv', PutInv, [Next]_vars,
           NEW r \in voteAnswered, NEW released \in {<<>>} \cup {<<c>> : c \in Command},
           WinElection(r, released), UNCHANGED callVars
    PROVE  PutInv'
<1> DEFINE n == r.src
<1>1. \A x \in Node : ~Crash(x)
  BY DEF Crash, IndexInv, TypeOK, WinElection
<1>2. \A x \in Node : Len(log[x]) <= Len(log'[x])
  BY <1>1, LogsGrow
<1>3. /\ TypeOK /\ n \in Node /\ \A x \in Node : Len(log'[x]) \in Nat
  BY LenProperties DEF IndexInv, TypeOK, VoteResponse
<1>4. /\ \A x \in elected : x.node \in Node
      /\ elected' = elected \cup {[term |-> currentTerm[n], node |-> n, voters |-> CollectedVotes(r)]}
      /\ puts' = puts /\ shared' = shared
  BY <1>3 DEF TypeOK, WinElection, BecomeLeader, callVars
<1>5. \A d \in Put : IsWaiting(d)' => IsWaiting(d) /\ puts[d].node \in Node
  BY <1>4 DEF IsWaiting, PutInv, WaitsInLog
<1>6. WonTerm(n, currentTerm[n])'
  <2> DEFINE w == [term |-> currentTerm[n], node |-> n, voters |-> CollectedVotes(r)]
  <2>1. w \in elected' /\ w.node = n /\ w.term = currentTerm[n] /\ currentTerm' = currentTerm
    BY <1>4 DEF WinElection
  <2> HIDE DEF w
  <2> QED BY <2>1 DEF WonTerm
<1>7. ASSUME NEW i \in Nat, NEW e \in Entry, Stored(i, e)'
      PROVE  \/ Stored(i, e)
             \/ i = Len(log[n]) + 1 /\ i <= Len(log'[n]) /\ WonTerm(n, e.term)'
  <2>1. i \in Int
    OBVIOUS
  <2>2. \/ Stored(i, e)
        \/ i = Len(log[n]) + 1 /\ i <= Len(log'[n]) /\ e.term = currentTerm[n]
    BY <1>3, <1>7, <2>1, StoredElected
  <2>3. currentTerm' = currentTerm
    BY DEF WinElection
  <2> QED BY <1>6, <2>2, <2>3
<1>8. DOMAIN puts' = Put /\ elected \subseteq elected' /\ shared \subseteq shared'
  BY <1>4 DEF PutInv
<1> HIDE DEF n
<1> QED BY <1>2, <1>3, <1>4, <1>5, <1>7, <1>8, PutInvFrame

(* PutStateKVService logs the put at an index of its term that no copy of  *)
(* an entry has: the leader's log is the longest of the term.              *)
LEMMA PutInvPut ==
    ASSUME IndexInv, IndexInv', LeadershipInv, PutInv, [Next]_vars,
           NEW c \in Put, NEW n \in Node, PutStateKV(c, n)
    PROVE  PutInv'
<1> DEFINE new == [term |-> currentTerm[n], cmd |-> c]
           wait == Waiting(n, Len(log[n]) + 1, currentTerm[n])
<1>0. /\ c \in Command /\ TypeOK /\ state[n] = "Leader" /\ AppendEntry(n, c)
      /\ puts' = [puts EXCEPT ![c] = wait] /\ shared' = shared
      /\ currentTerm' = currentTerm /\ elected' = elected /\ crashes' = crashes
  BY PutAssumption DEF PutStateKV, LogCommand, AppendEntry, IndexInv
<1>1. \A x \in Node : Len(log[x]) <= Len(log'[x])
  <2>1. \A x \in Node : ~Crash(x)
    BY <1>0 DEF Crash, TypeOK
  <2> QED BY <2>1, LogsGrow
<1>2. /\ \A x \in Node : Len(log[x]) \in Nat /\ Len(log'[x]) \in Nat
      /\ \A x \in elected : x.node \in Node
      /\ currentTerm[n] \in Nat /\ log[n] \in Seq(Entry)
  BY LenProperties DEF IndexInv, TypeOK
<1>3. Len(log'[n]) = Len(log[n]) + 1
  BY <1>0, <1>2 DEF AppendEntry, InsertLogEntry, TypeOK
<1>4. WonTerm(n, currentTerm[n]) /\ WonTerm(n, currentTerm[n])'
  BY <1>0 DEF LeadershipInv, LeaderWon, WonTerm
<1>5. /\ wait.phase = "waiting" /\ wait.node = n /\ wait.index = Len(log[n]) + 1
      /\ wait.term = currentTerm[n] /\ new.term = currentTerm[n] /\ new.cmd = c
  BY DEF Waiting
<1>6. \A i \in Nat, e \in Entry :
         Stored(i, e)' => Stored(i, e) \/ (i = Len(log[n]) + 1 /\ e = new)
  <2> TAKE i \in Nat, e \in Entry
  <2>1. i \in Int
    OBVIOUS
  <2> QED BY <1>0, <2>1, StoredAppended
<1> HIDE DEF new, wait
<1>7. /\ DOMAIN puts' = Put /\ puts'[c] = wait
      /\ \A d \in Put : d # c => puts'[d] = puts[d]
  BY <1>0 DEF PutInv
<1>8. WaitsInLog'
  <2> SUFFICES ASSUME NEW d \in Put, IsWaiting(d)'
               PROVE  /\ puts'[d].node \in Node /\ puts'[d].index \in Nat \ {0}
                      /\ puts'[d].term \in Nat
                      /\ WonTerm(puts'[d].node, puts'[d].term)
                      /\ puts'[d].index <= Len(log'[puts'[d].node])
    BY <1>0 DEF WaitsInLog, WonTerm
  <2>1. CASE d = c
    BY <1>2, <1>3, <1>4, <1>5, <1>7, <2>1
  <2>2. CASE d # c
    <3>1. /\ puts[d].node \in Node /\ puts[d].index \in Nat \ {0} /\ puts[d].term \in Nat
          /\ WonTerm(puts[d].node, puts[d].term) /\ puts[d].index <= Len(log[puts[d].node])
      BY <1>7, <2>2 DEF IsWaiting, PutInv, WaitsInLog
    <3> QED BY <1>1, <1>2, <1>7, <2>2, <3>1
  <2> QED BY <2>1, <2>2
<1>9. EntriesHaveAuthor'
  <2> SUFFICES ASSUME NEW i \in Nat, NEW e \in Entry, Stored(i, e)', e.term \notin shared
               PROVE  \E x \in elected : x.term = e.term /\ i <= Len(log'[x.node])
    BY <1>0 DEF EntriesHaveAuthor
  <2>1. CASE Stored(i, e)
    <3>1. PICK x \in elected : x.term = e.term /\ i <= Len(log[x.node])
      BY <2>1 DEF PutInv, EntriesHaveAuthor
    <3> QED BY <1>1, <1>2, <3>1
  <2>2. CASE i = Len(log[n]) + 1 /\ e = new
    BY <1>2, <1>3, <1>4, <1>5, <2>2 DEF WonTerm
  <2> QED BY <1>6, <2>1, <2>2
<1>10. ASSUME OneLeaderPerTerm' PROVE PlaceIsTaken'
  <2>1. OneLeaderPerTerm /\ PlaceIsTaken
    BY <1>0, <1>10 DEF PutInv, OneLeaderPerTerm
  <2> SUFFICES ASSUME NEW i \in Nat, NEW e \in Entry, Stored(i, e)', e.term \notin shared,
                      NEW d \in Put, IsWaiting(d)', puts'[d].index = i, puts'[d].term = e.term
               PROVE  e.cmd = d
    BY <1>0 DEF PlaceIsTaken
  <2>2. CASE d = c
    <3>1. i = Len(log[n]) + 1 /\ e.term = currentTerm[n]
      BY <1>5, <1>7, <2>2
    <3>2. ~Stored(i, e)
      <4>1. SUFFICES ASSUME Stored(i, e) PROVE FALSE
        OBVIOUS
      <4>2. PICK x \in elected : x.term = e.term /\ i <= Len(log[x.node])
        BY <4>1 DEF PutInv, EntriesHaveAuthor
      <4>3. x.node = n
        BY <1>4, <2>1, <3>1, <4>2 DEF WonTerm, OneLeaderPerTerm
      <4> QED BY <1>2, <3>1, <4>2, <4>3
    <3> QED BY <1>5, <1>6, <2>2, <3>2
  <2>3. CASE d # c
    <3>1. IsWaiting(d) /\ puts[d].index = i /\ puts[d].term = e.term
      BY <1>7, <2>3 DEF IsWaiting
    <3>2. CASE Stored(i, e)
      BY <2>1, <3>1, <3>2 DEF PlaceIsTaken
    <3>3. CASE i = Len(log[n]) + 1 /\ e = new
      <4>1. WonTerm(puts[d].node, e.term) /\ i <= Len(log[puts[d].node])
        BY <3>1 DEF PutInv, WaitsInLog
      <4>2. puts[d].node = n
        BY <1>4, <1>5, <2>1, <3>3, <4>1 DEF WonTerm, OneLeaderPerTerm
      <4> QED BY <1>2, <3>3, <4>1, <4>2
    <3> QED BY <1>6, <3>2, <3>3
  <2> QED BY <2>2, <2>3
<1> QED BY <1>7, <1>8, <1>9, <1>10 DEF PutInv

(* Every step keeps PutInv. *)
LEMMA PutInvNext ==
    ASSUME IndexInv, IndexInv', NoSelfCalls, LeadershipInv, PutInv, [KVNext]_kvVars
    PROVE  PutInv'
<1>0. [Next]_vars
  BY KVNextIsNext
<1>1. CASE \E c \in Put : \E n \in Node : PutStateKV(c, n)
  BY <1>0, <1>1, PutInvPut
<1>2. CASE \E c \in Put : PollPut(c) \/ PutFails(c)
  <2>1. PICK c \in Put : PollPut(c) \/ PutFails(c)
    BY <1>2
  <2>2. puts' = [puts EXCEPT ![c] = Returned] /\ UNCHANGED <<vars, shared>>
    BY <2>1 DEF PollPut, PutFails
  <2>3. Returned.phase # "waiting"
    BY DEF Returned
  <2>4. DOMAIN puts' = Put /\ \A d \in Put : IsWaiting(d)' => puts'[d] = puts[d]
    BY <2>2, <2>3 DEF PutInv, IsWaiting
  <2>5. MovesEntries /\ UNCHANGED <<crashes, elected, shared>>
    BY <2>2 DEF vars, MovesEntries
  <2> QED BY <1>0, <2>4, <2>5, PutInvMove
<1>3. CASE \E n \in Node : CrashWithLoops(n)
  BY <1>3, PutInvCrash
<1>4. CASE \E n \in Node, c \in Command \ Put : PollReleaseAnywhere(n, c)
  <2>1. PICK n \in Node, c \in Command \ Put : PollReleaseAnywhere(n, c)
    BY <1>4
  <2>2. /\ AppendEntry(n, c) /\ puts' = puts /\ shared \subseteq shared'
        /\ state[n] = "Leader" \/ currentTerm[n] \in shared'
    BY <2>1 DEF PollReleaseAnywhere, PollRelease
  <2> QED BY <1>0, <2>2, PutInvLog
<1>5. ASSUME UNCHANGED callVars, MovesEntries, crashes' = crashes, elected' = elected
      PROVE  PutInv'
  <2>1. shared' = shared /\ DOMAIN puts' = Put /\ \A c \in Put : puts'[c] = puts[c]
    BY <1>5 DEF callVars, PutInv
  <2> QED BY <1>0, <1>5, <2>1, PutInvMove
<1>6. CASE CandidateVotes /\ UNCHANGED callVars
  <2>1. \/ MovesEntries /\ crashes' = crashes /\ elected' = elected
        \/ \E r \in voteAnswered, released \in {<<>>} \cup {<<c>> : c \in Command} :
              WinElection(r, released)
    BY <1>6 DEF MovesEntries, CandidateVotes, SendCandidateVotes, AbandonCandidateVotes,
       GrantHigherTermVote, AnswerSameTermVote, AnswerVote, HandleVoteHigherTerm, CollectVote,
       IgnoreVote, LoseVoteCall
  <2> QED BY <1>0, <1>5, <1>6, <2>1, PutInvWin
<1>7. CASE AppendEntries /\ UNCHANGED callVars
  <2>1. crashes' = crashes /\ elected' = elected
    BY <1>7 DEF AppendEntries, SendAppendEntriesToPeers, SendAppendEntries, AcceptAppend,
       AbandonAppendEntries, RefuseObsoleteAppend, RefuseConflictingAppend, AnswerAppend,
       HandleAppendHigherTerm, HandleAppendSuccess, HandleAppendConflict,
       IgnoreAppendResponse, LoseAppendCall
  <2>2. MovesEntries
    BY <1>7 DEF MovesEntries, AppendEntries, SendAppendEntriesToPeers, AbandonAppendEntries,
       RefuseObsoleteAppend, RefuseConflictingAppend, AnswerAppend, HandleAppendHigherTerm,
       HandleAppendSuccess, HandleAppendConflict, IgnoreAppendResponse, LoseAppendCall
  <2> QED BY <1>5, <1>7, <2>1, <2>2
<1>8. CASE \E n \in Node : NodeStep(n) /\ UNCHANGED callVars
  <2>1. PICK n \in Node : NodeStep(n) /\ UNCHANGED callVars
    BY <1>8
  <2>2. CASE \E c \in Command \ Put : LogCommand(n, c)
    BY <1>0, <2>1, <2>2, PutInvLog DEF LogCommand, callVars
  <2>3. CASE ~\E c \in Command \ Put : LogCommand(n, c)
    <3>1. MovesEntries /\ crashes' = crashes /\ elected' = elected
      BY <2>1, <2>3 DEF NodeStep, MovesEntries, NewNode, BackUpLogMemoryToDisk,
         StartCandidateVoteModule, HeartBeat, StartReleasePoll, EndReleasePoll
    <3> QED BY <1>5, <2>1, <3>1
  <2> QED BY <2>2, <2>3
<1>9. CASE UNCHANGED kvVars
  BY <1>5, <1>9 DEF kvVars, vars, MovesEntries
<1> QED BY <1>1, <1>2, <1>3, <1>4, <1>6, <1>7, <1>8, <1>9 DEF KVNext

-----------------------------------------------------------------------------
(* In every behaviour, for any number of nodes, terms, crashes and calls:  *)
(* whenever the loop of PutStateKVService (clisrv_server.go) would answer  *)
(* that a put is committed, the entry at that index is the put, as long as *)
(* the put's term has one author.                                          *)
THEOREM AcknowledgedPutIsOwn == KVSpec => []AckedPutIsOwn
<1>1. KVInit => IndexInv /\ NoSelfCalls /\ LeadershipInv /\ PutInv
  <2> SUFFICES ASSUME KVInit PROVE IndexInv /\ NoSelfCalls /\ LeadershipInv /\ PutInv
    OBVIOUS
  <2>1. Init
    BY DEF KVInit
  <2>2. IndexInv
    BY <2>1, IndexInvInit
  <2>3. NoSelfCalls
    BY <2>1 DEF Init, NoSelfCalls
  <2>4. LeadershipInv
    BY <2>1 DEF Init, LeadershipInv, HopWonCurrentTerm, LeaderWon, AppendsFromWinners
  <2>5. DOMAIN puts = Put /\ \A c \in Put : ~IsWaiting(c)
    BY DEF KVInit, Unsent, IsWaiting
  <2>6. \A i \in Nat, e \in Entry : ~Stored(i, e)
    BY <2>1 DEF Init, Stored, InLog
  <2> QED BY <2>2, <2>3, <2>4, <2>5, <2>6
          DEF PutInv, WaitsInLog, EntriesHaveAuthor, PlaceIsTaken
<1>2. /\ IndexInv /\ NoSelfCalls /\ LeadershipInv /\ PutInv
      /\ [KVNext]_kvVars
      => (IndexInv /\ NoSelfCalls /\ LeadershipInv /\ PutInv)'
  BY KVNextIsNext, IndexInvNext, NoSelfCallsNext, LeadershipNext, PutInvNext
<1>3. IndexInv /\ PutInv => AckedPutIsOwn
  <2> SUFFICES ASSUME IndexInv, PutInv, OneLeaderPerTerm, NEW c \in Put,
                      puts[c].phase = "waiting", puts[c].term \notin shared,
                      CommittedAs(puts[c].node, puts[c].index, puts[c].term)
               PROVE  log[puts[c].node][puts[c].index].cmd = c
    BY DEF AckedPutIsOwn
  <2> DEFINE n == puts[c].node
             i == puts[c].index
             e == log[n][i]
  <2>1. n \in Node /\ i \in Nat \ {0} /\ i <= Len(log[n]) /\ IsWaiting(c)
    BY DEF PutInv, WaitsInLog, IsWaiting
  <2>2. log[n] \in Seq(Entry) /\ Len(log[n]) \in Nat
    BY <2>1, LogLengths DEF IndexInv
  <2>3. InLog(log[n], i, e) /\ e \in Entry
    BY <2>1, <2>2, ElementOfSeq DEF InLog
  <2>4. e.term = puts[c].term
    BY DEF CommittedAs
  <2>5. Stored(i, e)
    BY <2>1, <2>3 DEF Stored
  <2> QED BY <2>1, <2>3, <2>4, <2>5 DEF PutInv, PlaceIsTaken
<1> QED BY <1>1, <1>2, <1>3, PTL DEF KVSpec

-----------------------------------------------------------------------------
(* The services only add to consensus: every behaviour of nodes that serve *)
(* puts (PutStateKVService in clisrv_server.go) is one of consensus, so    *)
(* that all that is proved of RaftConsensus holds with clients too.        *)
THEOREM ServicesKeepConsensus == KVSpec => Spec
<1>1. KVInit => Init
  BY DEF KVInit
<1>2. [KVNext]_kvVars => [Next]_vars
  BY KVNextIsNext
<1> QED BY <1>1, <1>2, PTL DEF KVSpec, Spec

(* The put that c waits for is in the log of x, where c looks for it. *)
PutAtLeader(c, x) ==
    /\ puts[c].node = x /\ puts[c].index \in 1 .. Len(log[x])
    /\ log[x][puts[c].index].cmd = c

(* The inductive invariant behind AckedPutOnMajority: the only leader      *)
(* there was keeps every put at its index, also when it follows a term for *)
(* a while.                                                                *)
SolePutInv ==
    /\ DOMAIN puts = Put
    /\ \A c \in Put : IsWaiting(c) => puts[c].node \in Node
    /\ crashes = 0 => \A x \in Node : SoleLeader(x) =>
          \A c \in Put : IsWaiting(c) => PutAtLeader(c, x)

(* Every step keeps it. *)
LEMMA SolePutNext ==
    ASSUME ElectionInv, IndexInv', CalmInv, OneLeaderInv, SolePutInv, [KVNext]_kvVars
    PROVE  SolePutInv'
<1>1. [Next]_vars
  BY KVNextIsNext
<1>2. DOMAIN puts' = Put /\ \A c \in Put : \/ IsWaiting(c)' => puts'[c] = puts[c]
                                           \/ \E n \in Node : PutStateKV(c, n)
  <2>1. CASE \E c \in Put : \E n \in Node : PutStateKV(c, n)
    BY <2>1 DEF SolePutInv, PutStateKV
  <2>2. CASE \E c \in Put : PollPut(c) \/ PutFails(c)
    BY <2>2 DEF SolePutInv, PollPut, PutFails, IsWaiting, Returned
  <2>3. CASE \E n \in Node : CrashWithLoops(n)
    BY <2>3 DEF CrashWithLoops, IsWaiting, Returned
  <2>4. CASE UNCHANGED puts
    BY <2>4 DEF SolePutInv
  <2> QED BY <2>1, <2>2, <2>3, <2>4 DEF KVNext, PollReleaseAnywhere, callVars, kvVars
<1>3. \A c \in Put : IsWaiting(c)' => puts'[c].node \in Node
  BY <1>2 DEF SolePutInv, IsWaiting, PutStateKV, Waiting
<1> SUFFICES ASSUME crashes' = 0, NEW x \in Node, SoleLeader(x)', NEW c \in Put, IsWaiting(c)'
             PROVE  PutAtLeader(c, x)'
  BY <1>2, <1>3 DEF SolePutInv
<1>4. /\ Extends(log'[x], log[x]) /\ SoleLeader(x) /\ crashes = 0 /\ TypeOK
      /\ log[x] \in Seq(Entry) /\ Len(log[x]) \in Nat /\ Len(log'[x]) \in Nat
  <2>1. Extends(log'[x], log[x]) /\ SoleLeader(x)
    BY <1>1, OneLeaderNext, ElectedForGood DEF SoleLeader
  <2>2. crashes = 0
    BY <1>1, NobodyCrashed DEF ElectionInv, IndexInv
  <2> QED BY <2>1, <2>2, LenProperties DEF ElectionInv, IndexInv, TypeOK
<1>5. CASE IsWaiting(c)' => puts'[c] = puts[c]
  <2>1. puts'[c] = puts[c] /\ PutAtLeader(c, x)
    BY <1>4, <1>5 DEF SolePutInv, IsWaiting
  <2>2. puts[c].index \in 1 .. Len(log'[x]) /\ log'[x][puts[c].index] = log[x][puts[c].index]
    BY <1>4, <2>1 DEF PutAtLeader, Extends
  <2> QED BY <2>1, <2>2 DEF PutAtLeader
<1>6. CASE \E n \in Node : PutStateKV(c, n)
  <2>1. PICK n \in Node : PutStateKV(c, n)
    BY <1>6
  <2>2. n = x
    BY <1>4, <2>1, LeaderIsSole DEF PutStateKV, LogCommand, ElectionInv
  <2>3. PICK e : e = [term |-> currentTerm[n], cmd |-> c]
    OBVIOUS
  <2>4. e \in Entry /\ e.cmd = c
    BY <1>4, <2>3, PutAssumption DEF Entry, TypeOK
  <2>5. log'[x] = Append(log[x], e)
    BY <1>4, <2>1, <2>2, <2>3
       DEF PutStateKV, LogCommand, AppendEntry, InsertLogEntry, TypeOK
  <2>6. Len(log'[x]) = Len(log[x]) + 1 /\ log'[x][Len(log[x]) + 1] = e
    BY <1>4, <2>4, <2>5, AppendProperties
  <2>7. puts'[c].node = x /\ puts'[c].index = Len(log[x]) + 1
    BY <2>1, <2>2 DEF PutStateKV, Waiting, SolePutInv
  <2> QED BY <1>4, <2>4, <2>6, <2>7 DEF PutAtLeader
<1> QED BY <1>2, <1>5, <1>6

(* In every behaviour, for any number of nodes and puts and whatever calls *)
(* are late or lost: what PutStateKVService (clisrv_server.go)             *)
(* acknowledges is on a majority of the nodes, while one node has been the *)
(* only leader and no process has died.                                    *)
THEOREM AcknowledgedPutIsOnMajority == KVSpec => []AckedPutOnMajority
<1>1. KVInit => SolePutInv
  BY DEF KVInit, SolePutInv, Unsent, IsWaiting
<1>2. ElectionInv /\ CalmInv /\ (ElectionInv /\ CalmInv)' /\ OneLeaderInv
      /\ SolePutInv /\ [KVNext]_kvVars => SolePutInv'
  BY SolePutNext DEF ElectionInv
<1>3. ElectionInv /\ CommittedOnMajority /\ SolePutInv => AckedPutOnMajority
  <2> SUFFICES ASSUME ElectionInv, CommittedOnMajority, SolePutInv, OneNodeLeads, NEW c \in Put,
                      IsWaiting(c), CommittedAs(puts[c].node, puts[c].index, puts[c].term)
               PROVE  2 * Cardinality({p \in Node : /\ puts[c].index <= Len(log[p])
                                                    /\ log[p][puts[c].index].cmd = c})
                         > Cardinality(Node)
    BY DEF AckedPutOnMajority, IsWaiting
  <2> DEFINE k == puts[c].index
             x == puts[c].node
             H == {p \in Node : k <= Len(log[p]) /\ log[p][k] = log[x][k]}
             J == {p \in Node : k <= Len(log[p]) /\ log[p][k].cmd = c}
  <2>1. IndexInv /\ TypeOK
    BY DEF ElectionInv, IndexInv
  <2>2. x \in Node /\ k \in 1 .. Len(log[x]) /\ log[x][k].cmd = c
    <3>1. PICK y \in Node : SoleLeader(y)
      <4>1. CASE elected = {}
        BY <4>1 DEF SoleLeader, SolePutInv
      <4>2. CASE elected # {}
        BY <2>1, <4>2 DEF OneNodeLeads, SoleLeader, TypeOK
      <4> QED BY <4>1, <4>2
    <3> QED BY <3>1 DEF SolePutInv, OneNodeLeads, PutAtLeader
  <2>3. k \in 1 .. commitIndex[x]
    <3>1. commitIndex[x] \in Nat /\ Len(log[x]) \in Nat
      BY <2>1, <2>2, LogLengths
    <3> QED BY <2>2, <3>1 DEF CommittedAs
  <2>4. 2 * Cardinality(H) > Cardinality(Node)
    BY <2>2, <2>3 DEF CommittedOnMajority
  <2>5. H \subseteq J /\ J \subseteq Node
    BY <2>2
  <2> HIDE DEF H, J
  <2>6. /\ IsFiniteSet(Node) /\ IsFiniteSet(J) /\ Cardinality(H) <= Cardinality(J)
        /\ Cardinality(H) \in Nat /\ Cardinality(J) \in Nat /\ Cardinality(Node) \in Nat
    BY <2>5, NodeAssumption, FS_Subset, FS_CardinalityType
  <2>7. 2 * Cardinality(J) > Cardinality(Node)
    BY <2>4, <2>6
  <2> QED BY <2>7 DEF J
<1> QED BY <1>1, <1>2, <1>3, ServicesKeepConsensus, ElectionInvariance, OneLeaderInvariance,
           CommittedIsOnMajority, PTL DEF KVSpec
=============================================================================
