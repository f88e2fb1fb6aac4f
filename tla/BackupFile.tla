----------------------------- MODULE BackupFile -----------------------------
(***************************************************************************)
(* The backup file of a node and its restart, around the state maps of     *)
(* StateMapReplay.  backupProcedure (node.go) stores the newly committed   *)
(* entries one by one, each as two writes: a line with the length of the   *)
(* encoded entry, then the encoded entry (log_entry.go, LogStore).  The    *)
(* node may crash between any two writes, and a write may fail.  NewNode   *)
(* reads the file to its end, takes what it finds as committed, and feeds  *)
(* it to both maps.  The file is opened without truncation and written     *)
(* where reading it ended.                                                 *)
(*                                                                         *)
(* A record of the file is a length line or an encoded entry; a failed     *)
(* write may leave a part of either.  Bytes that are not an encoded entry  *)
(* never decode to one.                                                    *)
(*                                                                         *)
(* The log only grows here and a committed entry stays as it is: what the  *)
(* module says is relative to a correct consensus.                         *)
(***************************************************************************)
EXTENDS StateMapReplay

CONSTANTS MaxCrash, MaxFailures      \* bounds of the model

ASSUME FaultAssumption == {MaxCrash, MaxFailures} \subseteq Nat

VARIABLES
    file,                \* DiskLogEntry
    lastBackup,          \* LastBackupIndex
    node,                \* "up", "starting" (in NewNode) or "down"
    crashes, failures,
    saved,               \* history: the entries of the backups that succeeded
    damaged              \* history: a failed write left half a record

fileVars == <<file, lastBackup, saved, damaged>>
faultVars == <<node, crashes, failures>>
memoryVars == <<log, commitIndex, lastApplied, dlockVars, kvVars>>
loopVars == <<loop, sequence, end>>
backupVars == <<vars, fileVars, faultVars>>

Line(i) == [kind |-> "length", index |-> i]
Body(i, e) == [kind |-> "entry", index |-> i, entry |-> e]
TornLine == [kind |-> "tornLine"]        \* digits of a length line
TornEntry == [kind |-> "tornEntry"]      \* bytes of an encoded entry

-----------------------------------------------------------------------------
(* backupProcedure: StoreLogMemory(LastBackupIndex + 1, CommitIndex) with   *)
(* the node mutex held                                                     *)

IdleLoop == loop' = "idle" /\ sequence' = 0 /\ end' = 0

BackUpLogMemoryToDisk ==
    /\ node = "up"
    /\ loop = "idle"
    /\ commitIndex > lastBackup
    /\ loop' = "length" /\ sequence' = lastBackup + 1 /\ end' = commitIndex
    /\ UNCHANGED <<memoryVars, fileVars, faultVars>>

WriteLength ==
    /\ loop = "length"
    /\ loop' = "entry"
    /\ file' = Append(file, Line(sequence))
    /\ UNCHANGED <<memoryVars, sequence, end, lastBackup, saved, damaged, faultVars>>

(* After the last entry LastBackupIndex becomes the commit index. *)
WriteEntry ==
    /\ loop = "entry"
    /\ file' = Append(file, Body(sequence, log[sequence]))
    /\ \/ /\ sequence < end
          /\ loop' = "length" /\ sequence' = sequence + 1
          /\ UNCHANGED <<end, lastBackup, saved>>
       \/ /\ sequence = end
          /\ IdleLoop
          /\ lastBackup' = end
          /\ saved' = SubSeq(log, 1, end)
    /\ UNCHANGED <<memoryVars, damaged, faultVars>>

(* What a failing write may leave of its record: nothing, or a part.  The  *)
(* leading blanks of a length line are nothing, as reading skips them.     *)
Leftover == {file, Append(file, IF loop = "length" THEN TornLine ELSE TornEntry)}

\* mutant: LastBackupIndex moves past the entry that was not written
WriteFailsUnnoticed ==
    /\ loop \in {"length", "entry"}
    /\ failures < MaxFailures
    /\ failures' = failures + 1
    /\ file' \in Leftover
    /\ damaged' = (damaged \/ loop = "entry" \/ file' # file)
    /\ IdleLoop
    /\ lastBackup' = sequence
    /\ UNCHANGED <<memoryVars, saved, node, crashes>>

(* A write returns an error, perhaps after a part of it: the procedure     *)
(* ends, LastBackupIndex stays, and the next backup starts over at the end *)
(* of what is there, which nobody removes.                                 *)
WriteFails ==
    /\ loop \in {"length", "entry"}
    /\ failures < MaxFailures
    /\ failures' = failures + 1
    /\ file' \in Leftover
    /\ damaged' = (damaged \/ loop = "entry" \/ file' # file)
    /\ IdleLoop
    /\ UNCHANGED <<memoryVars, lastBackup, saved, node, crashes>>

-----------------------------------------------------------------------------
(* Crash and restart *)

(* The process ends, with all that is in memory. *)
GoDown ==
    /\ node' = "down"
    /\ log' = <<>> /\ commitIndex' = 0 /\ lastApplied' = 0
    /\ IdleLoop
    /\ dlock' = [l \in Lock |-> 0] /\ dlockIndex' = 0 /\ dlockTerm' = 0
    /\ kv' = {} /\ kvIndex' = 0 /\ kvTerm' = 0
    /\ lastBackup' = 0
    /\ UNCHANGED <<file, saved, damaged, failures>>

Crash ==
    /\ node # "down"
    /\ crashes < MaxCrash
    /\ crashes' = crashes + 1
    /\ GoDown

(* What LogReload expects to find as the i-th record. *)
DueKind(i) == IF i % 2 = 1 THEN "length" ELSE "entry"

\* mutant: a length line at the end of the file is an error
ReadableStrictly ==
    Len(file) % 2 = 0 /\ \A i \in DOMAIN file : file[i].kind = DueKind(i)

(* LogReload of the file succeeds: length lines and entries alternate.  A  *)
(* length line at the very end, or its digits, counts as the end of the    *)
(* file, because reading nothing after it gives io.EOF.                    *)
Readable ==
    \A i \in DOMAIN file :
        \/ file[i].kind = DueKind(i)
        \/ i = Len(file) /\ DueKind(i) = "length" /\ file[i].kind = "tornLine"

\* mutant: the last entry before the end of the file is not kept
ReloadedButLast ==
    LET stored(i) == {k \in DOMAIN file : file[k].kind = "entry" /\ file[k].index = i}
        last == LastOf({0} \cup {i \in 1 .. MaxLog : stored(i) # {}})
    IN  [i \in 1 .. last - 1 |-> file[LastOf(stored(i))].entry]

(* The log it gives: the last entry of each index. *)
Reloaded ==
    LET stored(i) == {k \in DOMAIN file : file[k].kind = "entry" /\ file[k].index = i}
        last == LastOf({0} \cup {i \in 1 .. MaxLog : stored(i) # {}})
    IN  [i \in 1 .. last |-> file[LastOf(stored(i))].entry]

(* NewNode up to the maps: everything in the file counts as committed and  *)
(* backed up.  LastAppliedIndex is set to the maximum as well; here it is  *)
(* 0 until both maps are fed, which nobody sees.                           *)
NewNode ==
    /\ node = "down"
    /\ Readable
    /\ log' = Reloaded
    /\ commitIndex' = Len(Reloaded)
    /\ lastBackup' = Len(Reloaded)
    /\ node' = IF Reloaded = <<>> THEN "up" ELSE "starting"
    /\ UNCHANGED <<lastApplied, loopVars, dlockVars, kvVars, file, saved, damaged>>
    /\ UNCHANGED <<crashes, failures>>

(* An error of either map: NewNode returns no node. *)
StartFails ==
    /\ node = "starting"
    /\ \/ loop = "dlock" /\ DLockRefuses(log[sequence])
       \/ loop = "kv" /\ ~InOrder(kvIndex, kvTerm)
    /\ GoDown
    /\ UNCHANGED crashes

(* The maps are fed, at the start or while the node runs. *)
FeedMaps ==
    /\ \/ /\ node # "down"
          /\ StartDLock \/ UpdateDLock \/ StartKV \/ UpdateKV \/ SkipKV
       \/ /\ node = "up"
          /\ FailDLock \/ FailKV
    /\ UNCHANGED <<fileVars, faultVars>>

Fed ==
    /\ node # "down"
    /\ Finish
    /\ node' = "up"
    /\ UNCHANGED <<fileVars, crashes, failures>>

-----------------------------------------------------------------------------
BackupInit ==
    /\ Init
    /\ file = <<>> /\ lastBackup = 0 /\ saved = <<>> /\ damaged = FALSE
    /\ node = "up" /\ crashes = 0 /\ failures = 0

LogAndCommit ==
    /\ node = "up"
    /\ \/ \E term \in 1 .. MaxTerm :
             \/ \E l \in Lock, nonce \in 1 .. MaxNonce : LogDLock(term, l, nonce)
             \/ \E k \in Key : PutStateKV(term, k) \/ DelStateKV(term, k)
       \/ Commit
    /\ UNCHANGED <<fileVars, faultVars>>

BackupNext ==
    \/ LogAndCommit
    \/ FeedMaps \/ Fed \/ StartFails
    \/ BackUpLogMemoryToDisk \/ WriteLength \/ WriteEntry \/ WriteFails
    \/ Crash \/ NewNode

BackupSpec == BackupInit /\ [][BackupNext]_backupVars

-----------------------------------------------------------------------------
(* Properties *)

BeginsWith(s, t) == Len(t) <= Len(s) /\ SubSeq(s, 1, Len(t)) = t

(* What backups have stored successfully is at its place in the log of     *)
(* every node that runs, and in what LogReload gives whenever it succeeds: *)
(* entries written twice after a failure, a length line without an entry   *)
(* or a line cut short neither shift, replace nor hide any.  It does not   *)
(* say that LogReload succeeds.  When a failed write has left half a       *)
(* record and another backup has written behind it, LogReload and with it  *)
(* NewNode fail for good (log_memory.go:166, node.go:120), and everything  *)
(* stored is out of reach: FailedWriteLeavesFileReadable.                  *)
SavedSurvives ==
    /\ Readable => BeginsWith(Reloaded, saved)
    /\ node # "down" => BeginsWith(log, saved)

(* LastBackupIndex is never more than the number of entries that a restart *)
(* would find, when it can read the file: the next backup leaves no gap    *)
(* (node.go:737).                                                          *)
BackupLeavesNoGap ==
    node # "down" /\ loop \notin {"length", "entry"} /\ Readable => lastBackup <= Len(Reloaded)

(* One crash, at any point of a backup, leaves a file that can be read,    *)
(* and so do failed writes that left nothing of their record.  (A second   *)
(* crash does not: see CrashLeavesFileReadable.)                           *)
OneCrashIsSurvived ==
    crashes <= 1 /\ ~damaged /\ node = "down" => Readable

(* log_memory.go:148: the whole log is recovered from the file after       *)
(* sudden crashes.                                                         *)
CrashLeavesFileReadable ==
    failures = 0 /\ node = "down" => Readable

(* The same line, about a write that fails and a backup after it: the      *)
(* process has not crashed, LogReload would still read the file.           *)
FailedWriteLeavesFileReadable ==
    crashes = 0 => Readable
=============================================================================
