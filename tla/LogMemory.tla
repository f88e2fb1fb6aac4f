----------------------------- MODULE LogMemory -----------------------------
(***************************************************************************)
(* The in-memory log of a node (storage/log_memory.go).  The Go code keeps *)
(* a map from index to entry and a maximum index.  Every caller inserts at *)
(* most one past the maximum, so the indexes are always 1..maximumIndex    *)
(* and the map is modelled by a sequence of entries: the entry of index i  *)
(* is l[i].  An entry is a record with at least a field "term".            *)
(***************************************************************************)
EXTENDS Integers, Sequences

Larger(a, b) == IF a >= b THEN a ELSE b

Smaller(a, b) == IF a <= b THEN a ELSE b

(* The largest index in the log; 0 for an empty one. *)
MaximumIndex(l) == Len(l)

(* The term a vote or append request quotes for the entry of index i: the  *)
(* entry's own, or 0 for index 0, which no entry has.                      *)
TermAt(l, i) == IF i = 0 THEN 0 ELSE l[i].term

LastTerm(l) == TermAt(l, MaximumIndex(l))

(* InsertLogEntry of an entry that the caller built with MaximumIndex + 1. *)
InsertLogEntry(l, e) == Append(l, e)

(* InsertValidEntryList of the entries that follow index prev: each one    *)
(* overwrites what has its index; entries after the last one are kept.     *)
InsertValidEntryList(l, prev, entries) ==
    [i \in 1 .. Larger(Len(l), prev + Len(entries)) |->
        IF prev < i /\ i <= prev + Len(entries) THEN entries[i - prev] ELSE l[i]]

\* mutant: the last n entries of the log
EntriesFromEnd(l, prev, n) == [i \in 1 .. n |-> l[Len(l) - n + i]]

(* The entries prev+1 .. prev+n, as a request carries them. *)
EntriesAfter(l, prev, n) == [i \in 1 .. n |-> l[prev + i]]

(* The last index that holds an entry of this term; 0 stands for the       *)
(* error InMemoryNoSpecificTerm.                                           *)
FetchLastIndexOfTerm(l, term) ==
    IF \E i \in 1 .. Len(l) : l[i].term = term
    THEN CHOOSE i \in 1 .. Len(l) :
            l[i].term = term /\ \A j \in (i + 1) .. Len(l) : l[j].term # term
    ELSE 0

(* The entries a backup writes to disk: indexes 1 .. last. *)
StoreLogMemory(disk, l, last) ==
    [i \in 1 .. last |-> IF i <= Len(disk) THEN disk[i] ELSE l[i]]

(* A state map accepts the log from index 1 only if terms never decrease.  *)
Replayable(l) == \A i \in 1 .. Len(l) - 1 : l[i].term <= l[i + 1].term
=============================================================================
