----------------------------- MODULE MCSyncConfig ------------------------------
(* Small instances of SyncConfig for TLC. *)
EXTENDS SyncConfig

CONSTANTS driver, camera, dir, preset, nes
===============================================================================
