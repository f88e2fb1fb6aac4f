------------------------------ MODULE KVClient ------------------------------
(***************************************************************************)
(* PutState and DelState of the client library over PutStateKVService      *)
(* (clisrv_server.go) on top of consensus.  The leader logs the command    *)
(* and keeps index and term; a loop in the service then looks, at every    *)
(* tick, whether that index is committed with an entry of that term, also  *)
(* when the node does not lead any more.  A node that does not lead        *)
(* redirects the client, which calls again: that changes no state, so a    *)
(* call is followed from the leader that takes it.                         *)
(*                                                                         *)
(* Each put is made once and is a command of its own.  A deletion is the   *)
(* same service with an empty value; that it first looks for the key is in *)
(* StateMapReplay.                                                         *)
(***************************************************************************)
EXTENDS RaftConsensus

CONSTANT Put             \* the commands that are puts or deletions

ASSUME PutAssumption == Put \subseteq Command

VARIABLES
    puts,                \* where each call is
    shared               \* history: terms whose entries may have two authors

callVars == <<puts, shared>>
kvVars == <<vars, callVars>>

Unsent == [phase |-> "unsent"]
Returned == [phase |-> "returned"]
Waiting(n, index, term) == [phase |-> "waiting", node |-> n, index |-> index, term |-> term]

WaitsAt(c, n) == puts[c].phase = "waiting" /\ puts[c].node = n

-----------------------------------------------------------------------------
PutStateKV(c, n) ==
    /\ puts[c] = Unsent
    /\ LogCommand(n, c)
    /\ puts' = [puts EXCEPT ![c] = Waiting(n, Len(log[n]) + 1, currentTerm[n])]
    /\ UNCHANGED shared

\* mutant: the term is not compared
CommittedWhateverTerm(n, index, term) == commitIndex[n] >= index

(* The check of the loop. *)
CommittedAs(n, index, term) ==
    commitIndex[n] >= index /\ log[n][index].term = term

PollPut(c) ==
    LET w == puts[c]
    IN
    /\ w.phase = "waiting"
    /\ CommittedAs(w.node, w.index, w.term)
    /\ puts' = [puts EXCEPT ![c] = Returned]
    /\ UNCHANGED <<vars, shared>>

(* StateChangeTimeout, a deadline of the client or a broken connection. *)
PutFails(c) ==
    /\ puts[c].phase = "waiting"
    /\ puts' = [puts EXCEPT ![c] = Returned]
    /\ UNCHANGED <<vars, shared>>

-----------------------------------------------------------------------------
KVInit == Init /\ puts = [c \in Put |-> Unsent] /\ shared = {}

(* The loops of a node that crashes end with it.  A leader that crashes    *)
(* forgets its term and entries, and may win the term a second time.       *)
CrashWithLoops(n) ==
    /\ Crash(n)
    /\ puts' = [c \in Put |-> IF WaitsAt(c, n) THEN Returned ELSE puts[c]]
    /\ shared' = shared \cup {e.term : e \in {w \in elected : w.node = n}}

(* The loop of a release appends also on a node that does not lead, with   *)
(* the current term, which is another node's.                              *)
PollReleaseAnywhere(n, c) ==
    /\ PollRelease(n, c)
    /\ shared' = shared \cup (IF state[n] = "Leader" THEN {} ELSE {currentTerm[n]})
    /\ UNCHANGED puts

(* No other step logs a put. *)
LogsNoPut ==
    \A n \in Node : \A i \in Len(log[n]) + 1 .. Len(log'[n]) : log'[n][i].cmd \notin Put

NodeStep(n) ==
    \/ NewNode(n) \/ BackUpLogMemoryToDisk(n)
    \/ StartCandidateVoteModule(n) \/ HeartBeat(n)
    \/ StartReleasePoll(n) \/ EndReleasePoll(n)
    \/ \E c \in Command \ Put : LogCommand(n, c)

KVNext ==
    \/ \E c \in Put : \/ \E n \in Node : PutStateKV(c, n)
                      \/ PollPut(c) \/ PutFails(c)
    \/ \E n \in Node : CrashWithLoops(n)
    \/ \E n \in Node, c \in Command \ Put : PollReleaseAnywhere(n, c)
    \/ CandidateVotes /\ LogsNoPut /\ UNCHANGED callVars
    \/ AppendEntries /\ UNCHANGED callVars
    \/ \E n \in Node : NodeStep(n) /\ UNCHANGED callVars

KVSpec == KVInit /\ [][KVNext]_kvVars

-----------------------------------------------------------------------------
(* Properties *)

(* Whenever the service would answer that a put is committed, the entry it *)
(* finds committed at that index is the put itself and not one that took   *)
(* its place: the loop compares only index and term                        *)
(* (clisrv_server.go:154), while leaders change and nodes crash.  It needs *)
(* one author per term: one leader, that has not crashed since, and no     *)
(* release loop that appended on another node in that term.                *)
AckedPutIsOwn ==
    OneLeaderPerTerm =>
        \A c \in Put :
            LET w == puts[c]
            IN  /\ w.phase = "waiting"
                /\ w.term \notin shared
                /\ CommittedAs(w.node, w.index, w.term)
                => log[w.node][w.index].cmd = c

(* While one node has led alone and no process has died, the service       *)
(* acknowledges a put only when a majority of the nodes has it, at the     *)
(* index the loop looks at: no append of a release, no late or repeated    *)
(* answer and no step down of the leader in between makes it count too     *)
(* early or look at another entry, in whatever terms the leader has led.   *)
AckedPutOnMajority ==
    OneNodeLeads =>
        \A c \in Put :
            LET w == puts[c]
                holders == {p \in Node : w.index <= Len(log[p]) /\ log[p][w.index].cmd = c}
            IN  w.phase = "waiting" /\ CommittedAs(w.node, w.index, w.term)
                => 2 * Cardinality(holders) > Cardinality(Node)
=============================================================================
