------------------------------ MODULE MCBackupNas ------------------------------
(* Small instances of BackupNas for TLC. *)
EXTENDS BackupNas
===============================================================================
