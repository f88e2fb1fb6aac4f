--------------------------- MODULE MC_BackupFile ---------------------------
(* Instances of BackupFile for TLC. *)
EXTENDS BackupFile, TLC
=============================================================================
