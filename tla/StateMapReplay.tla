--------------------------- MODULE StateMapReplay ---------------------------
(***************************************************************************)
(* The two state maps of a node and the loops that feed them:              *)
(* commitProcedure (node.go) calls UpdateStateFromLogMemory of the lock    *)
(* map and then of the key-value map (statemap_memory_impl.go), each going *)
(* through the newly committed entries one by one.  One action is one      *)
(* iteration; the node mutex is held meanwhile.  Entries of both kinds are *)
(* in the log.  Lock entries carry any nonce (DLockInterchange says which  *)
(* ones a leader logs); key-value entries come from PutStateKVService.     *)
(* The log only grows: consensus is taken to be correct, so that no        *)
(* committed entry is overwritten.                                         *)
(***************************************************************************)
EXTENDS StateMap

CONSTANTS Lock, Key,
    None,      \* the lock of a key-value entry, the key of a lock entry
    \* bounds of the model
    MaxLog, MaxNonce, MaxTerm

ASSUME ReplayAssumption ==
    /\ None \notin Lock \cup Key
    /\ {MaxLog, MaxNonce, MaxTerm} \subseteq Nat

VARIABLES
    log, commitIndex, lastApplied,
    loop,                        \* which map is being fed, if any
    sequence, end,               \* the loop variables
    dlock, dlockIndex, dlockTerm,  \* lock map: nonces (0: no such lock), prevIndex, prevTerm
    kv, kvIndex, kvTerm          \* key-value map: the keys present, prevIndex, prevTerm

dlockVars == <<dlock, dlockIndex, dlockTerm>>
kvVars == <<kv, kvIndex, kvTerm>>
vars == <<log, commitIndex, lastApplied, loop, sequence, end, dlockVars, kvVars>>

Init ==
    /\ log = <<>> /\ commitIndex = 0 /\ lastApplied = 0
    /\ loop = "idle" /\ sequence = 0 /\ end = 0
    /\ dlock = [l \in Lock |-> 0] /\ dlockIndex = 0 /\ dlockTerm = 0
    /\ kv = {} /\ kvIndex = 0 /\ kvTerm = 0

-----------------------------------------------------------------------------
(* What gets into the log, and its commitment *)

InsertLogEntry(e) ==
    /\ loop = "idle"
    /\ Len(log) < MaxLog
    /\ log' = Append(log, e)
    /\ UNCHANGED <<commitIndex, lastApplied, loop, sequence, end, dlockVars, kvVars>>

LogDLock(term, l, nonce) ==
    InsertLogEntry([term |-> term, op |-> "dlock", lock |-> l, nonce |-> nonce, key |-> None])

PutStateKV(term, k) ==
    InsertLogEntry([term |-> term, op |-> "put", lock |-> None, nonce |-> 0, key |-> k])

(* A deletion is logged only if the map has the key at that moment. *)
DelStateKV(term, k) ==
    /\ k \in kv
    /\ InsertLogEntry([term |-> term, op |-> "del", lock |-> None, nonce |-> 0, key |-> k])

Commit ==
    /\ loop = "idle"
    /\ commitIndex' \in commitIndex + 1 .. Len(log)
    /\ UNCHANGED <<log, lastApplied, loop, sequence, end, dlockVars, kvVars>>

-----------------------------------------------------------------------------
(* commitProcedure *)

(* Start feeding the map that has got to index "prev" (or skip it: the     *)
(* start index must be the next one).                                      *)
StartDLock ==
    /\ loop = "idle"
    /\ commitIndex > lastApplied
    /\ loop' = IF lastApplied = dlockIndex THEN "dlock" ELSE "dlockDone"
    /\ sequence' = lastApplied + 1
    /\ end' = commitIndex
    /\ UNCHANGED <<log, commitIndex, lastApplied, dlockVars, kvVars>>

StartKV ==
    /\ loop = "dlockDone"
    /\ loop' = IF lastApplied = kvIndex THEN "kv" ELSE "kvDone"
    /\ sequence' = lastApplied + 1
    /\ UNCHANGED <<log, commitIndex, lastApplied, end, dlockVars, kvVars>>

Finish ==
    /\ loop = "kvDone"
    /\ loop' = "idle"
    /\ lastApplied' = end
    /\ sequence' = 0 /\ end' = 0
    /\ UNCHANGED <<log, commitIndex, dlockVars, kvVars>>

(* The loop goes on after an entry unless the entry was the last, or an    *)
(* error ends it.                                                          *)
Continue(this, done, ok) ==
    /\ loop' = IF ok /\ sequence < end THEN this ELSE done
    /\ sequence' = sequence + 1
    /\ UNCHANGED <<log, commitIndex, lastApplied, end>>

InOrder(index, term) ==
    index + 1 = sequence /\ term <= log[sequence].term

\* mutant: an entry of an unknown lock must have nonce 1
DLockRefusesLateStart(e) ==
    \/ ~InOrder(dlockIndex, dlockTerm)
    \/ e.op = "dlock" /\ e.nonce # dlock[e.lock] + 1

(* UpdateStateFromLogEntry of the lock map. *)
DLockRefuses(e) ==
    \/ ~InOrder(dlockIndex, dlockTerm)
    \/ e.op = "dlock" /\ dlock[e.lock] # 0 /\ e.nonce # dlock[e.lock] + 1

UpdateDLock ==
    LET e == log[sequence]
    IN
    /\ loop = "dlock"
    /\ ~DLockRefuses(e)
    /\ dlock' = IF e.op = "dlock" THEN [dlock EXCEPT ![e.lock] = e.nonce] ELSE dlock
    /\ dlockIndex' = sequence
    /\ dlockTerm' = e.term
    /\ Continue("dlock", "dlockDone", TRUE)
    /\ UNCHANGED kvVars

FailDLock ==
    /\ loop = "dlock"
    /\ DLockRefuses(log[sequence])
    /\ Continue("dlock", "dlockDone", FALSE)
    /\ UNCHANGED <<dlockVars, kvVars>>

\* mutant: prevIndex and prevTerm are not moved
UpdateKVInPlace ==
    LET e == log[sequence]
    IN
    /\ loop = "kv"
    /\ ~(e.op = "del" /\ e.key \notin kv)
    /\ kv' = CASE e.op = "put" -> kv \cup {e.key}
               [] e.op = "del" -> kv \ {e.key}
               [] OTHER        -> kv
    /\ UNCHANGED <<kvIndex, kvTerm>>
    /\ Continue("kv", "kvDone", TRUE)
    /\ UNCHANGED dlockVars

(* UpdateStateFromLogEntry of the key-value map.  A deletion of an absent  *)
(* key does not move prevIndex, but does not end the loop either.          *)
UpdateKV ==
    LET e == log[sequence]
    IN
    /\ loop = "kv"
    /\ InOrder(kvIndex, kvTerm)
    /\ ~(e.op = "del" /\ e.key \notin kv)
    /\ kv' = CASE e.op = "put" -> kv \cup {e.key}
               [] e.op = "del" -> kv \ {e.key}
               [] OTHER        -> kv
    /\ kvIndex' = sequence
    /\ kvTerm' = e.term
    /\ Continue("kv", "kvDone", TRUE)
    /\ UNCHANGED dlockVars

SkipKV ==
    LET e == log[sequence]
    IN
    /\ loop = "kv"
    /\ InOrder(kvIndex, kvTerm)
    /\ e.op = "del" /\ e.key \notin kv
    /\ Continue("kv", "kvDone", TRUE)
    /\ UNCHANGED <<dlockVars, kvVars>>

FailKV ==
    /\ loop = "kv"
    /\ ~InOrder(kvIndex, kvTerm)
    /\ Continue("kv", "kvDone", FALSE)
    /\ UNCHANGED <<dlockVars, kvVars>>

-----------------------------------------------------------------------------
Next ==
    \/ \E term \in 1 .. MaxTerm :
          \/ \E l \in Lock, nonce \in 1 .. MaxNonce : LogDLock(term, l, nonce)
          \/ \E k \in Key : PutStateKV(term, k) \/ DelStateKV(term, k)
    \/ Commit
    \/ StartDLock \/ UpdateDLock \/ FailDLock
    \/ StartKV \/ UpdateKV \/ SkipKV \/ FailKV
    \/ Finish

Spec == Init /\ [][Next]_vars

-----------------------------------------------------------------------------
(* Properties *)

(* An entry the lock map takes, in terms of the log alone. *)
Fits(i) ==
    /\ i > 1 => log[i - 1].term <= log[i].term
    /\ log[i].op = "dlock" => Accepted(log, i)

(* Between two commit procedures the lock map is a function of the log, as *)
(* module StateMap has it: it has got to the entry before the first it     *)
(* must refuse, however the entries were split into batches, it never      *)
(* resumes after that, and a lock's state is its last entry up to there.   *)
DLockMapIsLogPrefix ==
    loop = "idle" =>
        /\ dlockIndex = LastOf({k \in 0 .. lastApplied : \A i \in 1 .. k : Fits(i)})
        /\ \A l \in Lock :
              dlock[l] = IF HasState(l, log, dlockIndex)
                         THEN LockState(l, log, dlockIndex).nonce ELSE 0

(* A key is in the key-value map exactly if its last entry up to prevIndex *)
(* is a put, even when the map has stopped.                                *)
KVMapIsLogPrefix ==
    loop = "idle" =>
        \A k \in Key :
            LET S == {i \in 1 .. kvIndex : log[i].key = k}
            IN  k \in kv <=> S # {} /\ log[LastOf(S)].op = "put"

(* node_context.go:26: LastAppliedIndex is the last index applied to the   *)
(* key-value map (as long as the terms in the log do not decrease).        *)
KVMapKeepsUp ==
    loop = "idle" /\ (\A i \in 2 .. Len(log) : log[i - 1].term <= log[i].term)
        => kvIndex = lastApplied
=============================================================================
