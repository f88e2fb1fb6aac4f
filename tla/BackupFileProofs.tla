-------------------------- MODULE BackupFileProofs --------------------------
(***************************************************************************)
(* What module BackupFile says of the state maps, the backup file and the  *)
(* restart, proved for every set of locks and keys, every length of the    *)
(* log and every number of crashes and failed writes.                      *)
(*                                                                         *)
(* The invariant has five parts.  IndexInv places the loop variables       *)
(* between lastApplied and the commit index.  DLockInv and KVInv say at    *)
(* every iteration of the loops what the properties say between two of     *)
(* them.  FileInv is about the file: entries of the same index are equal,  *)
(* also those written twice, no index is left out, and while the node is   *)
(* up the file holds entries of its log only.  CrashInv says when the file *)
(* is made of whole records.                                               *)
(***************************************************************************)
EXTENDS BackupFile, StateMapProofs, SequenceTheorems, TLAPS

(* An entry of the log. *)
LogRecord ==
    {e \in [term : Nat, op : {"dlock", "put", "del"}, lock : Lock \cup {None},
            nonce : Nat, key : Key \cup {None}] :
        IF e.op = "dlock" THEN e.lock \in Lock /\ e.nonce >= 1 /\ e.key = None
        ELSE e.lock = None /\ e.key \in Key}

FeedingLoops == {"dlock", "dlockDone", "kv", "kvDone"}
WritingLoops == {"length", "entry"}

IndexInv ==
    /\ log \in Seq(LogRecord) /\ Len(log) <= MaxLog
    /\ commitIndex \in 0 .. Len(log)
    /\ lastApplied \in 0 .. commitIndex
    /\ loop \in {"idle"} \cup FeedingLoops \cup WritingLoops
    /\ loop = "idle" => sequence = 0 /\ end = 0
    /\ loop \in FeedingLoops => end = commitIndex /\ lastApplied < end
    /\ loop \in {"dlock", "kv"} => sequence \in lastApplied + 1 .. end
    /\ loop \in WritingLoops => node = "up" /\ end = commitIndex /\ sequence \in lastBackup + 1 .. end
    /\ lastBackup \in Nat
    /\ node \in {"up", "starting", "down"}
    /\ node = "down" =>
          /\ log = <<>> /\ lastApplied = 0 /\ loop = "idle" /\ lastBackup = 0
          /\ dlockIndex = 0 /\ dlockTerm = 0 /\ kvIndex = 0

(* The lock map has taken the entries up to dlockIndex, and will not take  *)
(* the next one if the loop has gone past it.                              *)
Passed == IF loop \in {"dlockDone", "kv", "kvDone"} THEN end ELSE lastApplied

(* Fits for any log. *)
FitsIn(lg, i) ==
    /\ i > 1 => lg[i - 1].term <= lg[i].term
    /\ lg[i].op = "dlock" => Accepted(lg, i)

DLockInv ==
    /\ dlockIndex \in 0 .. commitIndex
    /\ dlockTerm = IF dlockIndex = 0 THEN 0 ELSE log[dlockIndex].term
    /\ dlock \in [Lock -> Nat]
    /\ \A l \in Lock : dlock[l] = IF HasState(l, log, dlockIndex)
                                  THEN LockState(l, log, dlockIndex).nonce ELSE 0
    /\ \A i \in 1 .. dlockIndex : FitsIn(log, i)
    /\ loop = "dlock" => dlockIndex = sequence - 1
    /\ loop # "dlock" => dlockIndex <= Passed /\ (dlockIndex < Passed => ~FitsIn(log, dlockIndex + 1))

(* The last entry of a key up to prevIndex. *)
EntriesOfKey(k, lg, n) == {i \in 1 .. n : lg[i].key = k}
Present(k, lg, n) ==
    EntriesOfKey(k, lg, n) # {} /\ lg[LastOf(EntriesOfKey(k, lg, n))].op = "put"

KVInv ==
    /\ kvIndex \in 0 .. Len(log)
    /\ kv \subseteq Key
    /\ \A k \in Key : k \in kv <=> Present(k, log, kvIndex)

FileRecord == {Line(i) : i \in Nat} \cup {TornLine, TornEntry} \cup
              {Body(i, e) : i \in 1 .. MaxLog, e \in LogRecord}

Stored(f, i) == {k \in DOMAIN f : f[k].kind = "entry" /\ f[k].index = i}

FileInv ==
    /\ file \in Seq(FileRecord)
    /\ saved \in Seq(LogRecord)
    \* no index is left out
    /\ \A i \in 1 .. MaxLog : Stored(file, i) # {} => \A j \in 1 .. i : Stored(file, j) # {}
    \* equal entries under the same index, and those of the saved backups are there
    /\ \A i \in 1 .. MaxLog : \A j, k \in Stored(file, i) : file[j].entry = file[k].entry
    /\ \A i \in 1 .. Len(saved) : Stored(file, i) # {} /\ \A k \in Stored(file, i) : file[k].entry = saved[i]
    \* of the node's own log, as far as LastBackupIndex and the loop have got
    /\ node # "down" =>
          /\ \A i \in 1 .. MaxLog : \A k \in Stored(file, i) : i <= Len(log) /\ file[k].entry = log[i]
          /\ Len(saved) <= Len(log) /\ \A i \in 1 .. Len(saved) : log[i] = saved[i]
          /\ \A i \in 1 .. lastBackup : Stored(file, i) # {}
    /\ loop \in WritingLoops => \A i \in 1 .. sequence - 1 : Stored(file, i) # {}

(* Without a crash or a failed write that leaves something the file is a   *)
(* sequence of pairs of whole records, with half a pair at the end between *)
(* the two writes; the first crash can leave that half, and nothing is     *)
(* written before the restart.                                             *)
Whole == \A i \in DOMAIN file : file[i].kind = DueKind(i)
Pairs == Len(file) % 2 = (IF loop = "entry" THEN 1 ELSE 0)

CrashInv ==
    /\ crashes \in Nat /\ failures \in Nat
    /\ damaged \in BOOLEAN
    /\ ~damaged /\ crashes = 0 => node = "up" /\ Whole /\ Pairs
    /\ ~damaged /\ crashes = 1 /\ node # "up" => Whole

NodeInv == IndexInv /\ DLockInv /\ KVInv /\ FileInv /\ CrashInv

-----------------------------------------------------------------------------
(* The file *)

LEMMA Bounds == MaxLog \in Nat /\ None \notin Lock /\ None \notin Key
BY ReplayAssumption

(* Only an encoded entry adds to what is stored. *)
LEMMA RecordKinds ==
    ASSUME NEW r \in FileRecord
    PROVE  r.kind = "entry" => r.index \in 1 .. MaxLog /\ r.entry \in LogRecord
BY DEF FileRecord, Line, Body, TornLine, TornEntry

LEMMA StoredRecords ==
    ASSUME NEW f \in Seq(FileRecord), NEW i, NEW k \in Stored(f, i)
    PROVE  k \in 1 .. Len(f) /\ i \in 1 .. MaxLog /\ f[k].entry \in LogRecord
<1>1. k \in 1 .. Len(f)
  BY LenProperties DEF Stored
<1>2. f[k] \in FileRecord
  BY <1>1, ElementOfSeq
<1> QED BY <1>1, <1>2, RecordKinds DEF Stored

Extended(f2, f, r) == f2 = Append(f, r)

LEMMA AppendOther ==
    ASSUME NEW f \in Seq(FileRecord), NEW r \in FileRecord, r.kind # "entry",
           NEW f2, Extended(f2, f, r)
    PROVE  /\ f2 \in Seq(FileRecord)
           /\ \A i : Stored(f2, i) = Stored(f, i)
           /\ \A i : \A k \in Stored(f, i) : f2[k] = f[k]
<1>1. /\ f2 \in Seq(FileRecord) /\ Len(f2) = Len(f) + 1
      /\ \A i \in 1 .. Len(f) : f2[i] = f[i]
      /\ f2[Len(f) + 1] = r
  BY AppendProperties DEF Extended
<1>2. Len(f) \in Nat /\ DOMAIN f = 1 .. Len(f) /\ DOMAIN f2 = 1 .. Len(f) + 1
  BY <1>1, LenProperties
<1>3. \A i : Stored(f2, i) = Stored(f, i)
  <2>1. \A k \in 1 .. Len(f) + 1 : k \in 1 .. Len(f) \/ k = Len(f) + 1
    BY <1>2
  <2> QED BY <1>1, <1>2, <2>1 DEF Stored
<1> QED BY <1>1, <1>2, <1>3 DEF Stored

LEMMA AppendBody ==
    ASSUME NEW f \in Seq(FileRecord), NEW n \in 1 .. MaxLog, NEW e \in LogRecord,
           NEW r, r = Body(n, e), NEW f2, Extended(f2, f, r)
    PROVE  /\ f2 \in Seq(FileRecord)
           /\ Stored(f2, n) = Stored(f, n) \cup {Len(f) + 1}
           /\ \A i \in Nat : i # n => Stored(f2, i) = Stored(f, i)
           /\ \A i \in Nat : \A k \in Stored(f, i) : f2[k] = f[k]
           /\ f2[Len(f) + 1].entry = e
<1>1. r \in FileRecord /\ r.kind = "entry" /\ r.index = n /\ r.entry = e
  BY DEF FileRecord, Body
<1>2. /\ f2 \in Seq(FileRecord) /\ Len(f2) = Len(f) + 1
      /\ \A i \in 1 .. Len(f) : f2[i] = f[i]
      /\ f2[Len(f) + 1] = r
  BY <1>1, AppendProperties DEF Extended
<1>3. Len(f) \in Nat /\ DOMAIN f = 1 .. Len(f) /\ DOMAIN f2 = 1 .. Len(f) + 1
  BY <1>2, LenProperties
<1>4. \A k \in 1 .. Len(f) + 1 : k \in 1 .. Len(f) \/ k = Len(f) + 1
  BY <1>3
<1>5. \A i : i # n => Stored(f2, i) = Stored(f, i)
  BY <1>1, <1>2, <1>3, <1>4 DEF Stored
<1>6. Stored(f2, n) = Stored(f, n) \cup {Len(f) + 1}
  BY <1>1, <1>2, <1>3, <1>4 DEF Stored
<1> QED BY <1>1, <1>2, <1>3, <1>5, <1>6 DEF Stored

LEMMA BodyIsRecord ==
    ASSUME NEW n \in 1 .. MaxLog, NEW e \in LogRecord
    PROVE  Body(n, e) \in FileRecord /\ Body(n, e).kind = "entry"
BY DEF FileRecord, Body

(* NewNode finds every stored entry, at its index. *)
LEMMA ReloadedLog ==
    ASSUME FileInv
    PROVE  /\ Reloaded \in Seq(LogRecord) /\ Len(Reloaded) \in 0 .. MaxLog
           /\ \A i \in 1 .. Len(Reloaded) : Stored(file, i) # {}
           /\ \A i \in 1 .. MaxLog : \A k \in Stored(file, i) :
                 i <= Len(Reloaded) /\ Reloaded[i] = file[k].entry
<1> DEFINE S == {0} \cup {i \in 1 .. MaxLog : Stored(file, i) # {}}
           last == LastOf(S)
           R == [i \in 1 .. last |-> file[LastOf(Stored(file, i))].entry]
<1>1. MaxLog \in Nat /\ file \in Seq(FileRecord)
  BY Bounds DEF FileInv
<1>2. S \in SUBSET Nat /\ 0 \in S /\ \A k \in S : k <= MaxLog
  BY <1>1
<1>3. last \in S /\ \A k \in S : k <= last
  <2> HIDE DEF S
  <2> QED BY <1>1, <1>2, LastOfIsLargest
<1>4. Reloaded = R
  BY DEF Reloaded, Stored
<1>5. last \in 0 .. MaxLog
  BY <1>1, <1>3
<1>6. \A i \in 1 .. last : i \in 1 .. MaxLog /\ Stored(file, i) # {}
  <2>1. last # 0 => Stored(file, last) # {}
    BY <1>3
  <2>2. \A i \in 1 .. MaxLog : Stored(file, i) # {} => \A j \in 1 .. i : Stored(file, j) # {}
    BY DEF FileInv
  <2> HIDE DEF last
  <2> TAKE i \in 1 .. last
  <2>3. last \in 1 .. MaxLog /\ i \in 1 .. MaxLog
    BY <1>1, <1>5
  <2> QED BY <2>1, <2>2, <2>3
<1>7. \A i \in 1 .. MaxLog : Stored(file, i) # {} => i <= last
  BY <1>3
<1> HIDE DEF last, S
<1>8. ASSUME NEW i \in 1 .. last
      PROVE  LastOf(Stored(file, i)) \in Stored(file, i)
  <2> DEFINE T == Stored(file, i)
  <2>1. Len(file) \in Nat /\ T # {}
    BY <1>1, <1>6, LenProperties
  <2>2. \A k \in T : k \in 1 .. Len(file)
    BY <1>1, StoredRecords
  <2> HIDE DEF T
  <2>3. T \in SUBSET Nat /\ \A k \in T : k <= Len(file)
    BY <2>1, <2>2
  <2>4. LastOf(T) \in T
    BY <2>1, <2>3, LastOfIsLargest
  <2> QED BY <2>4 DEF T
<1>9. \A i \in 1 .. last : file[LastOf(Stored(file, i))].entry \in LogRecord
  BY <1>1, <1>8, StoredRecords
<1>10. R \in Seq(LogRecord) /\ Len(R) = last
  BY <1>5, <1>9
<1>11. \A i \in 1 .. last : \A k \in Stored(file, i) : R[i] = file[k].entry
  BY <1>6, <1>8 DEF FileInv
<1> HIDE DEF R
<1>12. \A i \in 1 .. MaxLog : \A k \in Stored(file, i) : i \in 1 .. last
  BY <1>1, <1>5, <1>7
<1> QED BY <1>4, <1>5, <1>6, <1>10, <1>11, <1>12

(* LogReload finds the entries of the successful backups at their index.   *)
LEMMA SavedReloaded ==
    ASSUME FileInv
    PROVE  Len(saved) <= Len(Reloaded) /\ \A i \in 1 .. Len(saved) : Reloaded[i] = saved[i]
<1> DEFINE R == Reloaded
<1>1. /\ Len(R) \in Nat
      /\ \A i \in 1 .. MaxLog : \A k \in Stored(file, i) : i <= Len(R) /\ R[i] = file[k].entry
  BY ReloadedLog
<1>2. saved \in Seq(LogRecord) /\ Len(saved) \in Nat /\ file \in Seq(FileRecord)
  BY LenProperties DEF FileInv
<1> HIDE DEF R
<1>3. \A i \in 1 .. Len(saved) : i <= Len(R) /\ R[i] = saved[i]
  <2> TAKE i \in 1 .. Len(saved)
  <2>1. PICK k \in Stored(file, i) : file[k].entry = saved[i]
    BY DEF FileInv
  <2>2. i \in 1 .. MaxLog
    BY <1>2, <2>1, StoredRecords
  <2> QED BY <1>1, <2>1, <2>2
<1>4. Len(saved) <= Len(R)
  <2>1. CASE Len(saved) = 0
    BY <1>1, <2>1
  <2>2. CASE Len(saved) # 0
    <3>1. Len(saved) \in 1 .. Len(saved)
      BY <1>2, <2>2
    <3> QED BY <1>3, <3>1
  <2> QED BY <2>1, <2>2
<1> QED BY <1>3, <1>4 DEF R

-----------------------------------------------------------------------------
(* The log and the loop variables *)

(* What a running node does to its log. *)
LEMMA LogGrows ==
    ASSUME IndexInv, LogAndCommit
    PROVE  /\ log' \in Seq(LogRecord) /\ Len(log') \in Nat /\ Len(log') <= MaxLog
           /\ Len(log) <= Len(log') /\ \A i \in 1 .. Len(log) : log'[i] = log[i]
           /\ commitIndex' \in commitIndex .. Len(log')
           /\ node = "up" /\ loop = "idle"
           /\ UNCHANGED <<lastApplied, loop, sequence, end, dlockVars, kvVars, fileVars, faultVars>>
<1>1. /\ log \in Seq(LogRecord) /\ Len(log) \in Nat /\ Len(log) <= MaxLog /\ MaxLog \in Nat
      /\ commitIndex \in Nat /\ commitIndex <= Len(log)
  BY Bounds, LenProperties DEF IndexInv
<1>2. node = "up" /\ UNCHANGED <<fileVars, faultVars>>
  BY DEF LogAndCommit
<1>3. ASSUME NEW e \in LogRecord, InsertLogEntry(e)
      PROVE  /\ log' \in Seq(LogRecord) /\ Len(log') \in Nat /\ Len(log') <= MaxLog
             /\ Len(log) <= Len(log') /\ \A i \in 1 .. Len(log) : log'[i] = log[i]
             /\ commitIndex' \in commitIndex .. Len(log')
             /\ loop = "idle"
             /\ UNCHANGED <<lastApplied, loop, sequence, end, dlockVars, kvVars>>
  BY <1>1, <1>3, AppendProperties DEF InsertLogEntry
<1>4. ASSUME NEW term \in 1 .. MaxTerm, NEW l \in Lock, NEW nonce \in 1 .. MaxNonce
      PROVE  [term |-> term, op |-> "dlock", lock |-> l, nonce |-> nonce, key |-> None] \in LogRecord
  BY ReplayAssumption DEF LogRecord
<1>5. ASSUME NEW term \in 1 .. MaxTerm, NEW k \in Key
      PROVE  /\ [term |-> term, op |-> "put", lock |-> None, nonce |-> 0, key |-> k] \in LogRecord
             /\ [term |-> term, op |-> "del", lock |-> None, nonce |-> 0, key |-> k] \in LogRecord
  BY ReplayAssumption DEF LogRecord
<1>6. CASE Commit
  BY <1>1, <1>2, <1>6 DEF Commit
<1>7. ASSUME NEW term \in 1 .. MaxTerm, NEW l \in Lock, NEW nonce \in 1 .. MaxNonce,
             LogDLock(term, l, nonce)
      PROVE  \E e \in LogRecord : InsertLogEntry(e)
  BY <1>4, <1>7 DEF LogDLock
<1>8. ASSUME NEW term \in 1 .. MaxTerm, NEW k \in Key, PutStateKV(term, k) \/ DelStateKV(term, k)
      PROVE  \E e \in LogRecord : InsertLogEntry(e)
  BY <1>5, <1>8 DEF PutStateKV, DelStateKV
<1>9. Commit \/ \E e \in LogRecord : InsertLogEntry(e)
  BY <1>7, <1>8 DEF LogAndCommit
<1> QED BY <1>2, <1>3, <1>6, <1>9

(* The steps of the feeding loops, as far as the indices go. *)
LEMMA IndexFeeds ==
    ASSUME IndexInv, FeedMaps \/ Fed
    PROVE  IndexInv'
<1>1. /\ log \in Seq(LogRecord) /\ Len(log) \in Nat /\ commitIndex \in Nat /\ lastApplied \in Nat
  BY LenProperties DEF IndexInv
<1>2. CASE node # "down" /\ StartDLock /\ UNCHANGED <<fileVars, faultVars>>
  BY <1>1, <1>2 DEF IndexInv, StartDLock, FeedingLoops, WritingLoops, fileVars, faultVars, dlockVars,
                    kvVars
<1>3. CASE node # "down" /\ StartKV /\ UNCHANGED <<fileVars, faultVars>>
  BY <1>1, <1>3 DEF IndexInv, StartKV, FeedingLoops, WritingLoops, fileVars, faultVars, dlockVars,
                    kvVars
<1>4. ASSUME node # "down", NEW done \in {"dlockDone", "kvDone"},
             \/ loop = "dlock" /\ loop' \in {"dlock", done} /\ (loop' = "dlock" => sequence < end)
             \/ loop = "kv" /\ loop' \in {"kv", done} /\ (loop' = "kv" => sequence < end),
             sequence' = sequence + 1,
             UNCHANGED <<log, commitIndex, lastApplied, end>>, UNCHANGED <<fileVars, faultVars>>
      PROVE  IndexInv'
  BY <1>1, <1>4 DEF IndexInv, FeedingLoops, WritingLoops, fileVars, faultVars
<1>5. CASE node # "down" /\ (UpdateDLock \/ FailDLock) /\ UNCHANGED <<fileVars, faultVars>>
  BY <1>4, <1>5 DEF UpdateDLock, FailDLock, Continue
<1>6. CASE node # "down" /\ (UpdateKV \/ SkipKV \/ FailKV) /\ UNCHANGED <<fileVars, faultVars>>
  BY <1>4, <1>6 DEF UpdateKV, SkipKV, FailKV, Continue
<1>7. CASE Fed
  BY <1>1, <1>7 DEF IndexInv, Fed, Finish, FeedingLoops, WritingLoops, fileVars, dlockVars, kvVars
<1> QED BY <1>2, <1>3, <1>5, <1>6, <1>7 DEF FeedMaps

LEMMA IndexNext ==
    ASSUME NodeInv, BackupNext
    PROVE  IndexInv'
<1>1. /\ log \in Seq(LogRecord) /\ Len(log) \in Nat /\ commitIndex \in Nat /\ lastApplied \in Nat
      /\ IndexInv /\ FileInv
  BY LenProperties DEF NodeInv, IndexInv
<1>2. CASE LogAndCommit
  BY <1>1, <1>2, LogGrows DEF IndexInv, FeedingLoops, WritingLoops, fileVars, faultVars, dlockVars,
                              kvVars
<1>3. CASE FeedMaps \/ Fed
  BY <1>1, <1>3, IndexFeeds
<1>4. ASSUME GoDown
      PROVE  IndexInv'
  BY <1>4, EmptySeq, Bounds DEF GoDown, IdleLoop, IndexInv, FeedingLoops, WritingLoops
<1>5. CASE StartFails \/ Crash
  BY <1>4, <1>5 DEF StartFails, Crash
<1>6. CASE BackUpLogMemoryToDisk
  BY <1>1, <1>6 DEF BackUpLogMemoryToDisk, IndexInv, memoryVars, fileVars, faultVars, FeedingLoops,
                    WritingLoops, dlockVars, kvVars
<1>7. CASE WriteLength
  BY <1>1, <1>7 DEF WriteLength, IndexInv, memoryVars, faultVars, FeedingLoops,
                    WritingLoops, dlockVars, kvVars
<1>8. CASE WriteEntry
  BY <1>1, <1>8 DEF WriteEntry, IdleLoop, IndexInv, memoryVars, faultVars, FeedingLoops,
                    WritingLoops, dlockVars, kvVars
<1>9. CASE WriteFails
  BY <1>1, <1>9 DEF WriteFails, IdleLoop, IndexInv, memoryVars, FeedingLoops,
                    WritingLoops, dlockVars, kvVars
<1>10. CASE NewNode
  <2>1. Reloaded \in Seq(LogRecord) /\ Len(Reloaded) \in 0 .. MaxLog
    BY <1>1, ReloadedLog
  <2> QED BY <1>1, <1>10, <2>1 DEF NewNode, IndexInv, loopVars, FeedingLoops,
                    WritingLoops, dlockVars, kvVars
<1> QED BY <1>2, <1>3, <1>5, <1>6, <1>7, <1>8, <1>9, <1>10 DEF BackupNext

-----------------------------------------------------------------------------
(* The lock map *)

LEMMA SameFits ==
    ASSUME NEW lg, NEW lg2, NEW i \in Nat \ {0}, \A j \in 1 .. i : lg2[j] = lg[j]
    PROVE  FitsIn(lg2, i) <=> FitsIn(lg, i)
<1>1. Accepted(lg, i) <=> Accepted(lg2, i)
  BY SameAccepted
<1>2. lg2[i] = lg[i] /\ (i > 1 => lg2[i - 1] = lg[i - 1])
  OBVIOUS
<1> QED BY <1>1, <1>2 DEF FitsIn

(* A step that leaves the map and the applied entries alone, and does not  *)
(* go past further entries.                                                *)
LEMMA DLockKept ==
    ASSUME IndexInv, DLockInv, UNCHANGED dlockVars, commitIndex' \in Nat, commitIndex <= commitIndex',
           \A i \in 1 .. commitIndex : log'[i] = log[i],
           loop # "dlock", loop' # "dlock", Passed' = Passed
    PROVE  DLockInv'
<1>1. /\ commitIndex \in Nat /\ dlockIndex \in 0 .. commitIndex /\ Passed \in 0 .. commitIndex
      /\ UNCHANGED <<dlock, dlockIndex, dlockTerm>>
  BY DEF IndexInv, DLockInv, Passed, FeedingLoops, dlockVars
<1>2. dlockTerm' = IF dlockIndex' = 0 THEN 0 ELSE log'[dlockIndex'].term
  BY <1>1 DEF DLockInv
<1>3. \A i \in 1 .. commitIndex : FitsIn(log', i) <=> FitsIn(log, i)
  <2> TAKE i \in 1 .. commitIndex
  <2>1. i \in Nat \ {0} /\ \A j \in 1 .. i : log'[j] = log[j]
    BY <1>1
  <2> QED BY <2>1, SameFits
<1>4. ASSUME NEW l \in Lock
      PROVE  dlock'[l] = IF HasState(l, log', dlockIndex')
                         THEN LockState(l, log', dlockIndex').nonce ELSE 0
  <2>1. dlockIndex \in Nat /\ \A i \in 1 .. dlockIndex : log[i] = log'[i]
    BY <1>1
  <2>2. /\ HasState(l, log, dlockIndex) <=> HasState(l, log', dlockIndex)
        /\ HasState(l, log, dlockIndex) => LockState(l, log, dlockIndex) = LockState(l, log', dlockIndex)
    BY <2>1, SameState
  <2> QED BY <1>1, <2>2 DEF DLockInv
<1>5. \A i \in 1 .. dlockIndex' : FitsIn(log', i)
  BY <1>1, <1>3 DEF DLockInv
<1>6. dlockIndex' <= Passed' /\ (dlockIndex' < Passed' => ~FitsIn(log', dlockIndex' + 1))
  <2>1. dlockIndex <= Passed /\ (dlockIndex < Passed => ~FitsIn(log, dlockIndex + 1))
    BY DEF DLockInv
  <2>2. dlockIndex < Passed => dlockIndex + 1 \in 1 .. commitIndex
    BY <1>1
  <2>3. dlockIndex < Passed => ~FitsIn(log', dlockIndex + 1)
    BY <1>3, <2>1, <2>2
  <2> QED BY <1>1, <2>1, <2>3
<1>7. dlockIndex' \in 0 .. commitIndex' /\ dlock' \in [Lock -> Nat]
  BY <1>1 DEF DLockInv
<1> QED BY <1>2, <1>4, <1>5, <1>6, <1>7 DEF DLockInv

(* The checks of UpdateStateFromLogEntry, in terms of the log. *)
LEMMA RefusesIff ==
    ASSUME IndexInv, DLockInv, loop = "dlock"
    PROVE  DLockRefuses(log[sequence]) <=> ~FitsIn(log, sequence)
<1> DEFINE e == log[sequence]
           k == dlockIndex
<1>1. /\ sequence \in Nat \ {0} /\ sequence \in 1 .. Len(log) /\ k = sequence - 1 /\ k \in Nat
      /\ log \in Seq(LogRecord) /\ Len(log) \in Nat
  BY LenProperties DEF IndexInv, DLockInv
<1>2. \A i \in 1 .. Len(log) : log[i] \in LogRecord
  BY <1>1, ElementOfSeq
<1>3. e \in LogRecord /\ e.term \in Nat /\ (e.op = "dlock" => e.lock \in Lock)
  BY <1>1, <1>2 DEF LogRecord
<1>4. InOrder(dlockIndex, dlockTerm) <=> (sequence > 1 => log[sequence - 1].term <= e.term)
  BY <1>1, <1>3 DEF InOrder, DLockInv
<1>5. ASSUME e.op = "dlock"
      PROVE  (dlock[e.lock] # 0 /\ e.nonce # dlock[e.lock] + 1) <=> ~Accepted(log, sequence)
  <2>1. e.lock \in Lock
    BY <1>3, <1>5
  <2>2. dlock[e.lock] = IF HasState(e.lock, log, k) THEN LockState(e.lock, log, k).nonce ELSE 0
    BY <2>1 DEF DLockInv
  <2>3. HasState(e.lock, log, k) => LockState(e.lock, log, k).nonce # 0
    <3> SUFFICES ASSUME HasState(e.lock, log, k) PROVE LockState(e.lock, log, k).nonce # 0
      OBVIOUS
    <3>1. PICK q \in 1 .. k : IsLast(e.lock, log, k, q) /\ LockState(e.lock, log, k) = log[q]
      BY <1>1, LastExists
    <3>2. log[q] \in LogRecord /\ log[q].lock \in Lock
      BY <1>1, <1>2, <2>1, <3>1 DEF IsLast
    <3> QED BY Bounds, <3>1, <3>2 DEF LogRecord
  <2> QED BY <1>1, <2>2, <2>3 DEF Accepted
<1> QED BY <1>4, <1>5 DEF DLockRefuses, FitsIn

LEMMA DLockUpdated ==
    ASSUME IndexInv, DLockInv, UpdateDLock
    PROVE  DLockInv'
<1> DEFINE e == log[sequence]
           k == dlockIndex
<1>1. /\ sequence \in Nat \ {0} /\ sequence \in 1 .. Len(log) /\ k = sequence - 1 /\ k \in Nat
      /\ log \in Seq(LogRecord) /\ Len(log) \in Nat /\ loop = "dlock"
      /\ sequence \in 1 .. end /\ end = commitIndex /\ commitIndex \in Nat
  BY LenProperties DEF IndexInv, DLockInv, UpdateDLock, FeedingLoops
<1>2. e \in LogRecord
  BY <1>1, ElementOfSeq
<1>3. e.nonce \in Nat /\ (e.op = "dlock" => e.lock \in Lock) /\ (e.op # "dlock" => e.lock \notin Lock)
  BY <1>2, Bounds DEF LogRecord
<1>4. FitsIn(log, sequence)
  BY <1>1, RefusesIff DEF UpdateDLock
<1>5. /\ UNCHANGED <<log, commitIndex, lastApplied, end>>
      /\ dlockIndex' = sequence /\ dlockTerm' = e.term
      /\ dlock' = IF e.op = "dlock" THEN [dlock EXCEPT ![e.lock] = e.nonce] ELSE dlock
      /\ sequence' = sequence + 1
      /\ loop' = IF sequence < end THEN "dlock" ELSE "dlockDone"
  BY DEF UpdateDLock, Continue
<1>6. \A i \in 1 .. sequence : FitsIn(log', i)
  <2>1. \A i \in 1 .. sequence : FitsIn(log, i)
    BY <1>1, <1>4 DEF DLockInv
  <2> QED BY <1>5, <2>1
<1>7. dlock' \in [Lock -> Nat]
  BY <1>3, <1>5 DEF DLockInv
<1>8. ASSUME NEW l \in Lock
      PROVE  dlock'[l] = IF HasState(l, log, sequence) THEN LockState(l, log, sequence).nonce ELSE 0
  <2>1. CASE e.lock = l
    <3>1. IsLast(l, log, sequence, sequence)
      BY <1>1, <2>1 DEF IsLast
    <3>2. HasState(l, log, sequence) /\ LockState(l, log, sequence) = e
      BY <1>1, <3>1, LastIsState
    <3>3. dlock'[l] = e.nonce
      BY <1>3, <1>5, <2>1 DEF DLockInv
    <3> QED BY <3>2, <3>3
  <2>2. CASE e.lock # l
    <3>1. dlock'[l] = dlock[l]
      BY <1>3, <1>5, <2>2 DEF DLockInv
    <3>2. EntriesOf(l, log, sequence) = EntriesOf(l, log, k)
      BY <1>1, <2>2 DEF EntriesOf
    <3> QED BY <3>1, <3>2 DEF DLockInv, HasState, LockState
  <2> QED BY <2>1, <2>2
<1>9. loop' # "dlock" => Passed' = sequence
  BY <1>1, <1>5 DEF Passed
<1>10. /\ dlockIndex' \in 0 .. commitIndex'
       /\ dlockTerm' = IF dlockIndex' = 0 THEN 0 ELSE log'[dlockIndex'].term
       /\ loop' = "dlock" => dlockIndex' = sequence' - 1
  BY <1>1, <1>5
<1> HIDE DEF e, k
<1> QED BY <1>1, <1>5, <1>6, <1>7, <1>8, <1>9, <1>10 DEF DLockInv

LEMMA DLockNext ==
    ASSUME NodeInv, IndexInv', BackupNext
    PROVE  DLockInv'
<1>1. /\ log \in Seq(LogRecord) /\ Len(log) \in Nat /\ commitIndex \in Nat /\ lastApplied \in Nat
      /\ commitIndex <= Len(log) /\ IndexInv /\ DLockInv /\ dlockIndex \in 0 .. commitIndex
      /\ commitIndex' \in Nat
  BY LenProperties DEF NodeInv, IndexInv, DLockInv
<1>2. CASE LogAndCommit
  <2>1. Passed' = Passed
    BY <1>1, <1>2, LogGrows DEF Passed
  <2> QED BY <1>1, <1>2, <2>1, LogGrows, DLockKept
<1>3. ASSUME UNCHANGED <<log, commitIndex, dlockVars>>, loop # "dlock", loop' # "dlock",
             Passed' = Passed
      PROVE  DLockInv'
  BY <1>1, <1>3, DLockKept
<1>4. CASE StartDLock
  <2>1. /\ loop' = IF lastApplied = dlockIndex THEN "dlock" ELSE "dlockDone"
        /\ sequence' = lastApplied + 1 /\ end' = commitIndex /\ loop = "idle"
        /\ UNCHANGED <<log, commitIndex, lastApplied, dlock, dlockIndex, dlockTerm>>
        /\ lastApplied < commitIndex
    BY <1>1, <1>4 DEF StartDLock, dlockVars
  <2>2. dlockIndex <= lastApplied /\ (dlockIndex < lastApplied => ~FitsIn(log, dlockIndex + 1))
    BY <2>1 DEF NodeInv, DLockInv, Passed
  <2>4. loop' = "dlock" => dlockIndex' = sequence' - 1
    BY <1>1, <2>1
  <2>5. ASSUME loop' # "dlock"
        PROVE  dlockIndex' <= Passed' /\ (dlockIndex' < Passed' => ~FitsIn(log', dlockIndex' + 1))
    <3>1. Passed' = commitIndex /\ dlockIndex < lastApplied
      BY <1>1, <2>1, <2>2, <2>5 DEF Passed
    <3> QED BY <1>1, <2>1, <2>2, <3>1
  <2> QED BY <1>1, <2>1, <2>4, <2>5 DEF DLockInv
<1>5. CASE UpdateDLock
  BY <1>1, <1>5, DLockUpdated
<1>6. CASE FailDLock
  <2>1. /\ loop = "dlock" /\ loop' = "dlockDone" /\ DLockRefuses(log[sequence])
        /\ UNCHANGED <<log, commitIndex, lastApplied, end, dlock, dlockIndex, dlockTerm>>
    BY <1>6 DEF FailDLock, Continue, dlockVars
  <2>2. ~FitsIn(log, sequence) /\ dlockIndex + 1 = sequence /\ sequence \in 1 .. end /\ end \in Nat
    BY <1>1, <2>1, RefusesIff DEF IndexInv, DLockInv, FeedingLoops
  <2>4. Passed' = end
    BY <2>1 DEF Passed
  <2>5. dlockIndex' <= Passed' /\ ~FitsIn(log', dlockIndex' + 1)
    BY <1>1, <2>1, <2>2, <2>4
  <2> QED BY <1>1, <2>1, <2>5 DEF DLockInv
<1>7. CASE StartKV \/ UpdateKV \/ SkipKV \/ FailKV
  BY <1>3, <1>7 DEF StartKV, UpdateKV, SkipKV, FailKV, Continue, Passed
<1>8. CASE Fed
  BY <1>3, <1>8 DEF Fed, Finish, Passed
<1>9. ASSUME GoDown
      PROVE  DLockInv'
  <2>1. /\ dlockIndex' = 0 /\ dlockTerm' = 0 /\ dlock' = [l \in Lock |-> 0] /\ loop' = "idle"
        /\ lastApplied' = 0 /\ commitIndex' = 0
    BY <1>9 DEF GoDown, IdleLoop
  <2>2. Passed' = 0
    BY <2>1 DEF Passed
  <2>3. \A l \in Lock : ~HasState(l, log', 0)
    BY HasStateIff
  <2> QED BY <2>1, <2>2, <2>3 DEF DLockInv
<1>10. CASE StartFails \/ Crash
  BY <1>9, <1>10 DEF StartFails, Crash
<1>11. CASE BackUpLogMemoryToDisk \/ WriteLength \/ WriteEntry \/ WriteFails
  BY <1>3, <1>11 DEF BackUpLogMemoryToDisk, WriteLength, WriteEntry, WriteFails, IdleLoop,
                     memoryVars, Passed
<1>12. CASE NewNode
  <2>1. /\ dlockIndex = 0 /\ dlockTerm = 0 /\ loop = "idle" /\ lastApplied = 0
        /\ UNCHANGED <<dlock, dlockIndex, dlockTerm, loop, lastApplied>>
    BY <1>1, <1>12 DEF NewNode, IndexInv, dlockVars, loopVars
  <2>2. Passed' = 0
    BY <2>1 DEF Passed
  <2>3. \A l \in Lock : ~HasState(l, log', 0) /\ ~HasState(l, log, 0)
    BY HasStateIff
  <2> QED BY <1>1, <2>1, <2>2, <2>3 DEF DLockInv
<1> QED BY <1>2, <1>4, <1>5, <1>6, <1>7, <1>8, <1>10, <1>11, <1>12 DEF BackupNext, FeedMaps

-----------------------------------------------------------------------------
(* The key-value map *)

(* q is the index of the last entry of key k among the first n. *)
LastOfKey(k, lg, n, q) ==
    q \in 1 .. n /\ lg[q].key = k /\ \A r \in q + 1 .. n : lg[r].key # k

LEMMA PresentIff ==
    ASSUME NEW k, NEW lg, NEW n \in Nat
    PROVE  Present(k, lg, n) <=> \E q \in 1 .. n : LastOfKey(k, lg, n, q) /\ lg[q].op = "put"
<1> DEFINE S == EntriesOfKey(k, lg, n)
<1>1. S \in SUBSET Nat /\ \A i \in S : i <= n
  BY DEF EntriesOfKey
<1>2. \A q \in S : LastOfKey(k, lg, n, q) <=> \A i \in S : i <= q
  BY DEF LastOfKey, EntriesOfKey
<1>3. \A q \in 1 .. n : LastOfKey(k, lg, n, q) => q \in S
  BY DEF LastOfKey, EntriesOfKey
<1>4. Present(k, lg, n) <=> S # {} /\ lg[LastOf(S)].op = "put"
  BY DEF Present
<1>5. \A q \in S : q \in 1 .. n
  BY DEF EntriesOfKey
<1> HIDE DEF S
<1>6. S # {} => LastOf(S) \in S /\ \A i \in S : i <= LastOf(S)
  BY <1>1, LastOfIsLargest
<1>7. \A q \in S : (\A i \in S : i <= q) => LastOf(S) = q
  BY <1>1, LastOfIs
<1> QED BY <1>2, <1>3, <1>4, <1>5, <1>6, <1>7

LEMMA SamePresent ==
    ASSUME NEW k, NEW lg, NEW lg2, NEW n \in Nat, \A i \in 1 .. n : lg2[i] = lg[i]
    PROVE  Present(k, lg2, n) <=> Present(k, lg, n)
BY PresentIff DEF LastOfKey

(* One more entry: it decides about its own key. *)
LEMMA PresentNext ==
    ASSUME NEW k, NEW lg, NEW n \in Nat
    PROVE  Present(k, lg, n + 1) <=>
              IF lg[n + 1].key = k THEN lg[n + 1].op = "put" ELSE Present(k, lg, n)
<1>1. CASE lg[n + 1].key = k
  <2>1. \A q \in 1 .. n + 1 : LastOfKey(k, lg, n + 1, q) <=> q = n + 1
    BY <1>1 DEF LastOfKey
  <2> QED BY <1>1, <2>1, PresentIff
<1>2. CASE lg[n + 1].key # k
  <2>1. \A q \in 1 .. n + 1 : LastOfKey(k, lg, n + 1, q) <=> q \in 1 .. n /\ LastOfKey(k, lg, n, q)
    BY <1>2 DEF LastOfKey
  <2> QED BY <1>2, <2>1, PresentIff
<1> QED BY <1>1, <1>2

LEMMA KVKept ==
    ASSUME KVInv, UNCHANGED kvVars, Len(log) \in Nat, Len(log') \in Nat, Len(log) <= Len(log'),
           \A i \in 1 .. Len(log) : log'[i] = log[i]
    PROVE  KVInv'
<1>1. kv' = kv /\ kvIndex' = kvIndex /\ kvIndex \in Nat /\ kvIndex <= Len(log)
  BY DEF KVInv, kvVars
<1>2. \A k \in Key : Present(k, log', kvIndex) <=> Present(k, log, kvIndex)
  BY <1>1, SamePresent
<1> QED BY <1>1, <1>2 DEF KVInv

LEMMA KVUpdated ==
    ASSUME IndexInv, KVInv, UpdateKV
    PROVE  KVInv'
<1> DEFINE e == log[sequence]
<1>1. /\ log \in Seq(LogRecord) /\ Len(log) \in Nat /\ kvIndex \in Nat
      /\ sequence = kvIndex + 1 /\ sequence \in 1 .. Len(log)
  BY LenProperties DEF IndexInv, KVInv, UpdateKV, InOrder, FeedingLoops
<1>2. e \in LogRecord
  BY <1>1, ElementOfSeq
<1>3. log' = log /\ kvIndex' = sequence
  BY DEF UpdateKV, Continue
<1>4. /\ e.op = "put" => kv' = kv \cup {e.key}
      /\ e.op = "del" => kv' = kv \ {e.key}
      /\ e.op = "dlock" => kv' = kv
  BY DEF UpdateKV
<1>5. /\ e.op = "dlock" => e.key \notin Key
      /\ e.op # "dlock" => e.key \in Key
      /\ e.op \in {"dlock", "put", "del"}
  BY <1>2, Bounds DEF LogRecord
<1>6. \A k \in Key : Present(k, log, sequence) <=>
                        IF e.key = k THEN e.op = "put" ELSE Present(k, log, kvIndex)
  BY <1>1, PresentNext
<1> HIDE DEF e
<1>7. \A k \in Key : k \in kv' <=> Present(k, log, sequence)
  BY <1>4, <1>5, <1>6 DEF KVInv
<1>8. kv' \subseteq Key
  BY <1>4, <1>5 DEF KVInv
<1> QED BY <1>1, <1>3, <1>7, <1>8 DEF KVInv

LEMMA KVNext ==
    ASSUME NodeInv, IndexInv', BackupNext
    PROVE  KVInv'
<1>1. /\ log \in Seq(LogRecord) /\ Len(log) \in Nat /\ IndexInv /\ KVInv
  BY LenProperties DEF NodeInv, IndexInv
<1>2. CASE LogAndCommit
  BY <1>1, <1>2, LogGrows, KVKept
<1>3. ASSUME UNCHANGED <<log, kvVars>>
      PROVE  KVInv'
  BY <1>1, <1>3, KVKept
<1>4. CASE StartDLock \/ UpdateDLock \/ FailDLock \/ StartKV \/ SkipKV \/ FailKV \/ Fed
  BY <1>3, <1>4 DEF StartDLock, UpdateDLock, FailDLock, StartKV, SkipKV, FailKV, Fed, Finish, Continue
<1>5. CASE UpdateKV
  BY <1>1, <1>5, KVUpdated
<1>6. CASE BackUpLogMemoryToDisk \/ WriteLength \/ WriteEntry \/ WriteFails
  BY <1>3, <1>6 DEF BackUpLogMemoryToDisk, WriteLength, WriteEntry, WriteFails, memoryVars
<1>7. \A k, lg : ~Present(k, lg, 0)
  BY DEF Present, EntriesOfKey
<1>8. Len(log') \in Nat
  BY LenProperties DEF IndexInv
<1>9. ASSUME GoDown
      PROVE  KVInv'
  BY <1>7, <1>8, <1>9 DEF GoDown, KVInv
<1>10. CASE StartFails \/ Crash
  BY <1>9, <1>10 DEF StartFails, Crash
<1>11. CASE NewNode
  <2>1. kvIndex = 0 /\ UNCHANGED kvVars
    BY <1>1, <1>11 DEF NewNode, IndexInv
  <2> QED BY <1>1, <1>7, <1>8, <2>1 DEF KVInv, kvVars
<1> QED BY <1>2, <1>4, <1>5, <1>6, <1>10, <1>11 DEF BackupNext, FeedMaps

-----------------------------------------------------------------------------
(* The file and the restart *)

(* A step that adds no entry to the file. *)
LEMMA FileKept ==
    ASSUME FileInv, Len(log) \in Nat, Len(log') \in Nat,
           file' \in Seq(FileRecord), \A i : Stored(file', i) = Stored(file, i),
           \A i : \A k \in Stored(file, i) : file'[k] = file[k],
           saved' = saved,
           node' # "down" => /\ node # "down" /\ lastBackup' = lastBackup
                             /\ Len(log) <= Len(log') /\ \A i \in 1 .. Len(log) : log'[i] = log[i],
           loop' \in WritingLoops => \A i \in 1 .. sequence' - 1 : Stored(file, i) # {}
    PROVE  FileInv'
<1>1. Len(saved) \in Nat
  BY LenProperties DEF FileInv
<1>2. \A i \in 1 .. MaxLog : Stored(file', i) # {} => \A j \in 1 .. i : Stored(file', j) # {}
  BY DEF FileInv
<1>3. \A i \in 1 .. MaxLog : \A j, k \in Stored(file', i) : file'[j].entry = file'[k].entry
  BY DEF FileInv
<1>4. \A i \in 1 .. Len(saved') :
         Stored(file', i) # {} /\ \A k \in Stored(file', i) : file'[k].entry = saved'[i]
  BY DEF FileInv
<1>5. ASSUME node' # "down"
      PROVE  /\ \A i \in 1 .. MaxLog : \A k \in Stored(file', i) :
                   i <= Len(log') /\ file'[k].entry = log'[i]
             /\ Len(saved') <= Len(log') /\ \A i \in 1 .. Len(saved') : log'[i] = saved'[i]
             /\ \A i \in 1 .. lastBackup' : Stored(file', i) # {}
  <2>1. \A i \in 1 .. MaxLog : \A k \in Stored(file, i) : i \in 1 .. Len(log) /\ file[k].entry = log[i]
    BY <1>5, Bounds DEF FileInv
  <2>2. \A i \in 1 .. MaxLog : \A k \in Stored(file', i) :
           i <= Len(log') /\ file'[k].entry = log'[i]
    BY <1>5, <2>1
  <2>3. \A i \in 1 .. Len(saved) : i \in 1 .. Len(log)
    BY <1>1, <1>5 DEF FileInv
  <2> QED BY <1>1, <1>5, <2>2, <2>3 DEF FileInv
<1>6. saved' \in Seq(LogRecord)
  BY DEF FileInv
<1> QED BY <1>2, <1>3, <1>4, <1>5, <1>6 DEF FileInv

LEMMA FileWritten ==
    ASSUME IndexInv, FileInv, WriteEntry
    PROVE  FileInv'
<1> DEFINE e == log[sequence]
           n == Len(file) + 1
<1>1. /\ log \in Seq(LogRecord) /\ Len(log) \in Nat /\ MaxLog \in Nat /\ Len(log) <= MaxLog
      /\ loop = "entry" /\ node = "up" /\ end = commitIndex /\ commitIndex <= Len(log)
      /\ lastBackup \in Nat /\ commitIndex \in Nat
      /\ sequence \in 1 .. end /\ sequence \in 1 .. MaxLog /\ sequence \in 1 .. Len(log)
      /\ file \in Seq(FileRecord) /\ Len(file) \in Nat
  BY LenProperties, Bounds DEF IndexInv, FileInv, WriteEntry, WritingLoops
<1>2. e \in LogRecord
  BY <1>1, ElementOfSeq
<1>3. /\ file' \in Seq(FileRecord)
      /\ Stored(file', sequence) = Stored(file, sequence) \cup {n}
      /\ \A i \in Nat : i # sequence => Stored(file', i) = Stored(file, i)
      /\ \A i \in Nat : \A k \in Stored(file, i) : file'[k] = file[k]
      /\ file'[n].entry = e
  <2> DEFINE r == Body(sequence, e)
  <2>1. Extended(file', file, r)
    BY DEF WriteEntry, Extended
  <2>2. r = Body(sequence, e)
    OBVIOUS
  <2> HIDE DEF e, r
  <2> QED BY <1>1, <1>2, <2>1, <2>2, AppendBody
<1>4. node' = "up" /\ log' = log
  BY <1>1 DEF WriteEntry, faultVars, memoryVars
<1> HIDE DEF n
\* every entry of the file, the new one included, is that of the log
<1>5. \A i \in 1 .. MaxLog : \A k \in Stored(file', i) : i <= Len(log) /\ file'[k].entry = log[i]
  <2> TAKE i \in 1 .. MaxLog
  <2>1. \A k \in Stored(file, i) : i <= Len(log) /\ file[k].entry = log[i]
    BY <1>1 DEF FileInv
  <2> QED BY <1>1, <1>3, <2>1
<1>6. \A i \in 1 .. sequence : Stored(file', i) # {}
  <2>1. \A i \in 1 .. sequence - 1 : Stored(file, i) # {}
    BY <1>1 DEF FileInv, WritingLoops
  <2> QED BY <1>1, <1>3, <2>1, SMTT(30)
<1>7. \A i \in 1 .. MaxLog : Stored(file', i) # {} => \A j \in 1 .. i : Stored(file', j) # {}
  <2> SUFFICES ASSUME NEW i \in 1 .. MaxLog, Stored(file', i) # {}, NEW j \in 1 .. i
               PROVE  Stored(file', j) # {}
    OBVIOUS
  <2>1. CASE i = sequence
    BY <1>6, <2>1
  <2>2. CASE i # sequence
    <3>1. Stored(file, i) # {}
      BY <1>3, <2>2
    <3>2. Stored(file, j) # {}
      BY <3>1 DEF FileInv
    <3> QED BY <1>3, <3>2
  <2> QED BY <2>1, <2>2
<1>8. \A i \in 1 .. lastBackup : Stored(file', i) # {}
  <2>1. \A i \in 1 .. lastBackup : Stored(file, i) # {}
    BY <1>1 DEF FileInv
  <2> QED BY <1>3, <2>1
<1>9. \A i \in 1 .. MaxLog : \A j, k \in Stored(file', i) : file'[j].entry = file'[k].entry
  BY <1>5
<1>10. CASE sequence < end
  <2>1. saved' = saved /\ sequence' = sequence + 1 /\ lastBackup' = lastBackup
    BY <1>1, <1>10 DEF WriteEntry
  <2>2. saved \in Seq(LogRecord) /\ Len(saved) \in Nat
    BY LenProperties DEF FileInv
  <2>3. Len(saved) <= Len(log) /\ \A i \in 1 .. Len(saved) : log[i] = saved[i]
    BY <1>1 DEF FileInv
  <2>4. \A i \in 1 .. Len(saved) :
           Stored(file', i) # {} /\ \A k \in Stored(file', i) : file'[k].entry = saved[i]
    <3> TAKE i \in 1 .. Len(saved)
    <3>1. i \in 1 .. MaxLog /\ Stored(file, i) # {}
      BY <1>1, <2>2, <2>3 DEF FileInv
    <3> QED BY <1>3, <1>5, <2>3, <3>1
  <2>5. \A i \in 1 .. sequence' - 1 : Stored(file', i) # {}
    BY <1>1, <1>6, <2>1
  <2> QED BY <1>3, <1>4, <1>5, <1>7, <1>8, <1>9, <2>1, <2>2, <2>3, <2>4, <2>5 DEF FileInv
<1>11. CASE sequence = end
  <2>1. saved' = SubSeq(log, 1, end) /\ lastBackup' = end /\ loop' = "idle"
    BY <1>1, <1>11 DEF WriteEntry, IdleLoop
  <2>2. \A i \in 1 .. end : log[i] \in LogRecord
    BY <1>1, ElementOfSeq
  <2>3. /\ saved' \in Seq(LogRecord) /\ Len(saved') = end
        /\ \A i \in 1 .. end : log[i] = saved'[i]
    BY <1>1, <2>1, <2>2, SubSeqProperties
  <2>4. \A i \in 1 .. end :
           Stored(file', i) # {} /\ \A k \in Stored(file', i) : file'[k].entry = saved'[i]
    BY <1>1, <1>5, <1>6, <1>11, <2>3
  <2>5. end <= Len(log) /\ \A i \in 1 .. end : Stored(file', i) # {}
    BY <1>1, <2>4
  <2> QED BY <1>3, <1>4, <1>5, <1>7, <1>9, <2>1, <2>3, <2>4, <2>5 DEF FileInv, WritingLoops
<1> QED BY <1>1, <1>10, <1>11

(* The restarted node has all that the file has. *)
LEMMA FileReloaded ==
    ASSUME IndexInv, FileInv, NewNode
    PROVE  FileInv'
<1> DEFINE R == Reloaded
<1>1. /\ R \in Seq(LogRecord) /\ Len(R) \in 0 .. MaxLog
      /\ \A i \in 1 .. Len(R) : Stored(file, i) # {}
      /\ \A i \in 1 .. MaxLog : \A k \in Stored(file, i) : i <= Len(R) /\ R[i] = file[k].entry
  BY ReloadedLog
<1>2. /\ log' = R /\ lastBackup' = Len(R) /\ file' = file /\ saved' = saved /\ loop' = loop
      /\ loop = "idle"
  BY DEF NewNode, loopVars, IndexInv
<1> HIDE DEF R
<1>3. Len(saved) <= Len(R) /\ \A i \in 1 .. Len(saved) : R[i] = saved[i]
  BY SavedReloaded DEF R
<1> QED BY <1>1, <1>2, <1>3, ZenonT(40) DEF FileInv, WritingLoops

LEMMA FileNext ==
    ASSUME NodeInv, IndexInv', BackupNext
    PROVE  FileInv'
<1>1. /\ log \in Seq(LogRecord) /\ Len(log) \in Nat /\ Len(log') \in Nat /\ IndexInv /\ FileInv
      /\ file \in Seq(FileRecord) /\ lastBackup \in Nat
  BY LenProperties DEF NodeInv, IndexInv, FileInv
<1>2. CASE LogAndCommit
  <2>1. loop' \notin WritingLoops /\ UNCHANGED <<file, lastBackup, saved, node>> /\ node = "up"
    BY <1>1, <1>2, LogGrows DEF WritingLoops, fileVars, faultVars
  <2> QED BY <1>1, <1>2, <2>1, LogGrows, FileKept
<1>3. ASSUME UNCHANGED <<log, file, saved, lastBackup>>, node # "down", loop' \notin WritingLoops
      PROVE  FileInv'
  BY <1>1, <1>3, FileKept
<1>4. CASE FeedMaps
  <2>1. UNCHANGED <<log, file, saved, lastBackup>> /\ node # "down"
    BY <1>4 DEF FeedMaps, StartDLock, UpdateDLock, FailDLock, StartKV, UpdateKV, SkipKV, FailKV,
                Continue, fileVars
  <2>2. loop' \notin WritingLoops
    BY <1>4 DEF FeedMaps, StartDLock, UpdateDLock, FailDLock, StartKV, UpdateKV, SkipKV, FailKV,
                Continue, WritingLoops
  <2> QED BY <1>3, <2>1, <2>2
<1>5. CASE Fed
  BY <1>3, <1>5 DEF Fed, Finish, fileVars, WritingLoops
<1>6. ASSUME GoDown
      PROVE  FileInv'
  <2>1. node' = "down" /\ file' = file /\ saved' = saved /\ loop' \notin WritingLoops
    BY <1>6 DEF GoDown, IdleLoop, WritingLoops
  <2> QED BY <1>1, <2>1, FileKept
<1>7. CASE StartFails \/ Crash
  BY <1>6, <1>7 DEF StartFails, Crash
<1>8. CASE BackUpLogMemoryToDisk
  <2>1. /\ UNCHANGED <<log, file, saved, lastBackup, node>> /\ node = "up"
        /\ sequence' = lastBackup + 1
    BY <1>8 DEF BackUpLogMemoryToDisk, memoryVars, fileVars, faultVars
  <2>2. \A i \in 1 .. sequence' - 1 : Stored(file, i) # {}
    BY <1>1, <2>1 DEF FileInv
  <2> QED BY <1>1, <2>1, <2>2, FileKept
<1>9. CASE WriteLength
  <2>1. /\ UNCHANGED <<log, saved, lastBackup, node, sequence>> /\ loop \in WritingLoops
        /\ file' = Append(file, Line(sequence)) /\ node = "up" /\ sequence \in Nat
    BY <1>1, <1>9 DEF WriteLength, memoryVars, faultVars, IndexInv, WritingLoops
  <2>2. Line(sequence) \in FileRecord /\ Line(sequence).kind # "entry"
    BY <2>1 DEF FileRecord, Line
  <2>3. \A i \in 1 .. sequence' - 1 : Stored(file, i) # {}
    BY <2>1 DEF NodeInv, FileInv
  <2>4. /\ file' \in Seq(FileRecord) /\ \A i : Stored(file', i) = Stored(file, i)
        /\ \A i : \A k \in Stored(file, i) : file'[k] = file[k]
    <3> DEFINE r == Line(sequence)
    <3>1. Extended(file', file, r) /\ r \in FileRecord /\ r.kind # "entry"
      BY <2>1, <2>2 DEF Extended
    <3> HIDE DEF r
    <3> QED BY <1>1, <3>1, AppendOther
  <2>5. UNCHANGED <<saved, lastBackup, node, log>> /\ node = "up"
    BY <2>1
  <2> QED BY <1>1, <2>3, <2>4, <2>5, FileKept
<1>10. CASE WriteEntry
  BY <1>1, <1>10, FileWritten
<1>11. CASE WriteFails
  <2>1. /\ UNCHANGED <<log, saved, lastBackup, node>> /\ loop' \notin WritingLoops /\ node = "up"
        /\ file' = file \/ Extended(file', file, TornLine) \/ Extended(file', file, TornEntry)
    BY <1>1, <1>11 DEF WriteFails, Leftover, Extended, IdleLoop, memoryVars, WritingLoops, IndexInv
  <2>2. /\ TornLine \in FileRecord /\ TornLine.kind # "entry"
        /\ TornEntry \in FileRecord /\ TornEntry.kind # "entry"
    BY DEF FileRecord, TornLine, TornEntry
  <2>3. /\ file' \in Seq(FileRecord) /\ \A i : Stored(file', i) = Stored(file, i)
        /\ \A i : \A k \in Stored(file, i) : file'[k] = file[k]
    BY <1>1, <2>1, <2>2, AppendOther
  <2> QED BY <1>1, <2>1, <2>3, FileKept
<1>12. CASE NewNode
  BY <1>1, <1>12, FileReloaded
<1> QED BY <1>2, <1>4, <1>5, <1>7, <1>8, <1>9, <1>10, <1>11, <1>12 DEF BackupNext

-----------------------------------------------------------------------------
(* Crashes *)

LEMMA Parity ==
    ASSUME NEW n \in Nat
    PROVE  /\ n % 2 = 0 => (n + 1) % 2 = 1
           /\ n % 2 = 1 => (n + 1) % 2 = 0
OBVIOUS

(* The file with one more record of the kind that is due. *)
LEMMA StillWhole ==
    ASSUME Whole, file \in Seq(FileRecord), NEW r \in FileRecord, Extended(file', file, r),
           r.kind = DueKind(Len(file) + 1)
    PROVE  Whole' /\ Len(file') = Len(file) + 1
<1>1. /\ file' \in Seq(FileRecord) /\ Len(file') = Len(file) + 1
      /\ \A i \in 1 .. Len(file) : file'[i] = file[i]
      /\ file'[Len(file) + 1] = r
  BY AppendProperties DEF Extended
<1>2. Len(file) \in Nat /\ DOMAIN file = 1 .. Len(file) /\ DOMAIN file' = 1 .. Len(file) + 1
  BY <1>1, LenProperties
<1>3. \A i \in 1 .. Len(file) + 1 : i \in 1 .. Len(file) \/ i = Len(file) + 1
  BY <1>2
<1> QED BY <1>1, <1>2, <1>3 DEF Whole

LEMMA CrashNext ==
    ASSUME NodeInv, BackupNext
    PROVE  CrashInv'
<1>1. IndexInv /\ FileInv /\ CrashInv /\ crashes \in Nat /\ failures \in Nat
      /\ file \in Seq(FileRecord) /\ Len(file) \in Nat
  BY LenProperties DEF NodeInv, CrashInv, FileInv
<1>2. ASSUME UNCHANGED <<file, crashes, failures, damaged>>, loop # "entry", loop' # "entry",
             node' \in {node, "up"}
      PROVE  CrashInv'
  BY <1>1, <1>2 DEF CrashInv, Whole, Pairs
<1>3. CASE LogAndCommit
  BY <1>1, <1>2, <1>3, LogGrows DEF fileVars, faultVars
<1>4. CASE FeedMaps
  <2>1. UNCHANGED <<file, crashes, failures, damaged, node>>
    BY <1>4 DEF FeedMaps, fileVars, faultVars
  <2>2. loop # "entry" /\ loop' # "entry"
    BY <1>4 DEF FeedMaps, StartDLock, UpdateDLock, FailDLock, StartKV, UpdateKV, SkipKV, FailKV,
                Continue
  <2> QED BY <1>2, <2>1, <2>2
<1>5. CASE Fed
  BY <1>2, <1>5 DEF Fed, Finish, fileVars
<1>6. CASE BackUpLogMemoryToDisk
  BY <1>2, <1>6 DEF BackUpLogMemoryToDisk, fileVars, faultVars
<1>7. CASE StartFails
  BY <1>1, <1>7 DEF StartFails, GoDown, CrashInv, Whole
<1>8. CASE Crash
  BY <1>1, <1>8 DEF Crash, GoDown, CrashInv, Whole
<1>9. CASE NewNode
  BY <1>1, <1>9 DEF NewNode, CrashInv, Whole
<1>10. CASE WriteFails
  <2>1. node' = "up" /\ node = "up" /\ crashes' = crashes /\ failures' \in Nat
    BY <1>1, <1>10 DEF WriteFails, IndexInv, WritingLoops
  <2>2. loop' # "entry" /\ damaged' = (damaged \/ loop = "entry" \/ file' # file)
    BY <1>10 DEF WriteFails, IdleLoop
  <2>3. ~damaged' => ~damaged /\ file' = file /\ loop # "entry"
    BY <2>2
  <2>4. damaged' \in BOOLEAN
    BY <2>2
  <2> QED BY <1>1, <2>1, <2>2, <2>3, <2>4 DEF CrashInv, Whole, Pairs
<1>11. CASE WriteLength
  <2> DEFINE r == Line(sequence)
  <2>1. /\ Extended(file', file, r) /\ UNCHANGED <<node, crashes, failures, damaged>> /\ node = "up"
        /\ loop = "length" /\ loop' = "entry" /\ sequence \in Nat
    BY <1>1, <1>11 DEF WriteLength, Extended, faultVars, IndexInv, WritingLoops
  <2>2. r \in FileRecord /\ r.kind = "length"
    BY <2>1 DEF FileRecord, Line
  <2> HIDE DEF r
  <2>3. ASSUME ~damaged, crashes = 0
        PROVE  Whole' /\ Pairs'
    <3>1. Whole /\ Len(file) % 2 = 0
      BY <1>1, <2>1, <2>3 DEF CrashInv, Pairs
    <3>2. (Len(file) + 1) % 2 = 1
      BY <1>1, <3>1, Parity
    <3>3. Whole' /\ Len(file') = Len(file) + 1
      BY <1>1, <2>1, <2>2, <3>1, <3>2, StillWhole DEF DueKind
    <3> QED BY <2>1, <3>2, <3>3 DEF Pairs
  <2> QED BY <1>1, <2>1, <2>3 DEF CrashInv
<1>12. CASE WriteEntry
  <2> DEFINE r == Body(sequence, log[sequence])
  <2>1. /\ Extended(file', file, r) /\ UNCHANGED <<node, crashes, failures, damaged>> /\ node = "up"
        /\ loop = "entry" /\ loop' # "entry"
    BY <1>1, <1>12 DEF WriteEntry, IdleLoop, Extended, faultVars, IndexInv, WritingLoops
  <2>2. r \in FileRecord /\ r.kind = "entry"
    <3>1. /\ log \in Seq(LogRecord) /\ Len(log) \in Nat /\ MaxLog \in Nat /\ Len(log) <= MaxLog
          /\ sequence \in 1 .. MaxLog /\ sequence \in 1 .. Len(log)
      BY <1>1, <2>1, LenProperties, Bounds DEF IndexInv, WritingLoops
    <3>2. log[sequence] \in LogRecord
      BY <3>1, ElementOfSeq
    <3> QED BY <3>1, <3>2, BodyIsRecord
  <2> HIDE DEF r
  <2>3. ASSUME ~damaged, crashes = 0
        PROVE  Whole' /\ Pairs'
    <3>1. Whole /\ Len(file) % 2 = 1
      BY <1>1, <2>1, <2>3 DEF CrashInv, Pairs
    <3>2. (Len(file) + 1) % 2 = 0
      BY <1>1, <3>1, Parity
    <3>3. Whole' /\ Len(file') = Len(file) + 1
      BY <1>1, <2>1, <2>2, <3>1, <3>2, StillWhole DEF DueKind
    <3> QED BY <2>1, <3>2, <3>3 DEF Pairs
  <2> QED BY <1>1, <2>1, <2>3 DEF CrashInv
<1> QED BY <1>3, <1>4, <1>5, <1>6, <1>7, <1>8, <1>9, <1>10, <1>11, <1>12 DEF BackupNext

-----------------------------------------------------------------------------
(* The theorems *)

LEMMA NodeInvInit == BackupInit => NodeInv
<1> SUFFICES ASSUME BackupInit PROVE NodeInv
  OBVIOUS
<1>1. /\ log = <<>> /\ file = <<>> /\ saved = <<>> /\ Len(log) = 0 /\ Len(file) = 0 /\ Len(saved) = 0
      /\ log \in Seq(LogRecord) /\ file \in Seq(FileRecord) /\ saved \in Seq(LogRecord)
  BY EmptySeq DEF BackupInit, Init
<1>2. IndexInv
  BY <1>1, Bounds DEF BackupInit, Init, IndexInv, FeedingLoops, WritingLoops
<1>3. DLockInv
  <2>1. \A l \in Lock : ~HasState(l, log, 0)
    BY HasStateIff
  <2> QED BY <1>2, <2>1 DEF BackupInit, Init, DLockInv, Passed, IndexInv
<1>4. KVInv
  <2>1. \A k : ~Present(k, log, 0)
    BY DEF Present, EntriesOfKey
  <2> QED BY <1>1, <2>1 DEF BackupInit, Init, KVInv
<1>5. DOMAIN file = {}
  BY <1>1
<1>6. FileInv
  <2>1. \A i : Stored(file, i) = {}
    BY <1>5 DEF Stored
  <2> QED BY <1>1, <2>1 DEF BackupInit, Init, FileInv, WritingLoops
<1>7. CrashInv
  <2>1. Whole
    BY <1>5 DEF Whole
  <2>2. 0 % 2 = 0
    OBVIOUS
  <2> QED BY <1>1, <2>1, <2>2 DEF BackupInit, Init, CrashInv, Pairs
<1> QED BY <1>2, <1>3, <1>4, <1>6, <1>7 DEF NodeInv

LEMMA NodeInvNext == NodeInv /\ [BackupNext]_backupVars => NodeInv'
<1> SUFFICES ASSUME NodeInv, [BackupNext]_backupVars PROVE NodeInv'
  OBVIOUS
<1>1. CASE BackupNext
  <2>1. IndexInv'
    BY <1>1, IndexNext
  <2> QED BY <1>1, <2>1, DLockNext, KVNext, FileNext, CrashNext DEF NodeInv
<1>2. CASE UNCHANGED backupVars
  <2>1. /\ UNCHANGED <<log, commitIndex, lastApplied, loop, sequence, end>>
        /\ UNCHANGED <<dlock, dlockIndex, dlockTerm, kv, kvIndex, kvTerm>>
        /\ UNCHANGED <<file, lastBackup, saved, damaged, node, crashes, failures>>
    BY <1>2 DEF backupVars, vars, dlockVars, kvVars, fileVars, faultVars
  <2>2. IndexInv' /\ DLockInv' /\ KVInv'
    BY <2>1 DEF NodeInv, IndexInv, DLockInv, KVInv, Passed
  <2>3. FileInv' /\ CrashInv'
    BY <2>1, SMTT(30) DEF NodeInv, FileInv, CrashInv, Pairs, Whole
  <2> QED BY <2>2, <2>3 DEF NodeInv
<1> QED BY <1>1, <1>2

LEMMA NodeInvHolds == BackupSpec => []NodeInv
BY NodeInvInit, NodeInvNext, PTL DEF BackupSpec

(* Between two commit procedures the lock map is the log up to the entry   *)
(* before the first one that it must refuse, however the entries were      *)
(* split into batches and however often the node was restarted.            *)
THEOREM DLockMapFollowsLog == BackupSpec => []DLockMapIsLogPrefix
<1>1. NodeInv => DLockMapIsLogPrefix
  <2> SUFFICES ASSUME NodeInv, loop = "idle"
               PROVE  /\ dlockIndex = LastOf({k \in 0 .. lastApplied : \A i \in 1 .. k : Fits(i)})
                      /\ \A l \in Lock : dlock[l] = IF HasState(l, log, dlockIndex)
                                                    THEN LockState(l, log, dlockIndex).nonce ELSE 0
    BY DEF DLockMapIsLogPrefix
  <2>1. /\ lastApplied \in Nat /\ dlockIndex \in 0 .. lastApplied
        /\ dlockIndex < lastApplied => ~FitsIn(log, dlockIndex + 1)
        /\ \A i \in 1 .. dlockIndex : FitsIn(log, i)
    BY DEF NodeInv, IndexInv, DLockInv, Passed
  <2> DEFINE S == {k \in 0 .. lastApplied : \A i \in 1 .. k : Fits(i)}
  <2>2. \A i : Fits(i) <=> FitsIn(log, i)
    BY DEF Fits, FitsIn
  <2>3. S \in SUBSET Nat /\ dlockIndex \in S
    BY <2>1, <2>2
  <2>4. \A k \in S : k <= dlockIndex
    <3> SUFFICES ASSUME NEW k \in S, k > dlockIndex PROVE FALSE
      BY <2>1
    <3>1. dlockIndex < lastApplied /\ dlockIndex + 1 \in 1 .. k
      BY <2>1
    <3>2. Fits(dlockIndex + 1)
      BY <3>1
    <3> QED BY <2>1, <2>2, <3>1, <3>2
  <2> HIDE DEF S
  <2>5. LastOf(S) = dlockIndex
    BY <2>3, <2>4, LastOfIs
  <2> QED BY <2>5 DEF S, NodeInv, DLockInv
<1> QED BY <1>1, NodeInvHolds, PTL

(* A key is in the key-value map exactly if its last applied entry is a    *)
(* put and not a deletion (statemap_memory_impl.go).                       *)
THEOREM KVMapFollowsLog == BackupSpec => []KVMapIsLogPrefix
<1>1. NodeInv => KVMapIsLogPrefix
  BY DEF NodeInv, KVInv, KVMapIsLogPrefix, Present, EntriesOfKey
<1> QED BY <1>1, NodeInvHolds, PTL

(* Sequences with the same beginning. *)
LEMMA Beginning ==
    ASSUME NEW s \in Seq(LogRecord), NEW t \in Seq(LogRecord), Len(t) <= Len(s),
           \A i \in 1 .. Len(t) : s[i] = t[i]
    PROVE  BeginsWith(s, t)
<1>1. Len(s) \in Nat /\ Len(t) \in Nat
  BY LenProperties
<1>2. \A i \in 1 .. Len(t) : s[i] \in LogRecord
  BY <1>1, ElementOfSeq
<1>3. /\ SubSeq(s, 1, Len(t)) \in Seq(LogRecord)
      /\ Len(SubSeq(s, 1, Len(t))) = Len(t)
      /\ \A i \in 1 .. Len(t) : SubSeq(s, 1, Len(t))[i] = s[i]
  BY <1>1, <1>2, SubSeqProperties
<1>4. SubSeq(s, 1, Len(t)) = t
  BY <1>3, SeqEqual
<1> QED BY <1>4 DEF BeginsWith

(* What backups have stored (StoreLogMemory) is at its place in the log of *)
(* every node that runs and in what LogReload gives whenever it succeeds.  *)
THEOREM SavedEntriesSurvive == BackupSpec => []SavedSurvives
<1>1. NodeInv => SavedSurvives
  <2> SUFFICES ASSUME NodeInv PROVE SavedSurvives
    OBVIOUS
  <2>1. /\ saved \in Seq(LogRecord) /\ log \in Seq(LogRecord) /\ FileInv
        /\ node # "down" => Len(saved) <= Len(log) /\ \A i \in 1 .. Len(saved) : log[i] = saved[i]
    BY DEF NodeInv, FileInv, IndexInv
  <2>2. node # "down" => BeginsWith(log, saved)
    BY <2>1, Beginning
  <2>3. Reloaded \in Seq(LogRecord)
    BY <2>1, ReloadedLog
  <2>4. BeginsWith(Reloaded, saved)
    BY <2>1, <2>3, SavedReloaded, Beginning
  <2> QED BY <2>2, <2>4 DEF SavedSurvives
<1> QED BY <1>1, NodeInvHolds, PTL

(* LastBackupIndex is never ahead of what a restart would find in the      *)
(* file, so the next backup leaves no gap (backupProcedure in node.go).    *)
THEOREM BackupIsContiguous == BackupSpec => []BackupLeavesNoGap
<1>1. NodeInv => BackupLeavesNoGap
  <2> SUFFICES ASSUME NodeInv, node # "down" PROVE lastBackup <= Len(Reloaded)
    BY DEF BackupLeavesNoGap
  <2>1. /\ Len(Reloaded) \in Nat
        /\ \A i \in 1 .. MaxLog : \A k \in Stored(file, i) : i <= Len(Reloaded)
    BY ReloadedLog DEF NodeInv
  <2>2. lastBackup \in Nat /\ file \in Seq(FileRecord) /\ \A i \in 1 .. lastBackup : Stored(file, i) # {}
    BY DEF NodeInv, IndexInv, FileInv
  <2>3. CASE lastBackup = 0
    BY <2>1, <2>3
  <2>4. CASE lastBackup # 0
    <3>1. PICK k \in Stored(file, lastBackup) : TRUE
      BY <2>2, <2>4
    <3> QED BY <2>1, <2>2, <3>1, StoredRecords
  <2> QED BY <2>3, <2>4
<1> QED BY <1>1, NodeInvHolds, PTL

(* One crash, at any point of a backup, leaves a file that LogReload can   *)
(* read, if no failed write has left half a record in it (LogStore).       *)
THEOREM OneCrashSurvived == BackupSpec => []OneCrashIsSurvived
<1>1. NodeInv => OneCrashIsSurvived
  <2> SUFFICES ASSUME NodeInv, crashes <= 1, ~damaged, node = "down" PROVE Readable
    BY DEF OneCrashIsSurvived
  <2>1. crashes = 0 \/ crashes = 1
    BY DEF NodeInv, CrashInv
  <2>2. Whole
    BY <2>1 DEF NodeInv, CrashInv
  <2> QED BY <2>2 DEF Whole, Readable
<1> QED BY <1>1, NodeInvHolds, PTL
=============================================================================
