--------------------------- MODULE MCSyncPlaylists -----------------------------
(* Small instances of SyncPlaylists for TLC. *)
EXTENDS SyncPlaylists

CONSTANTS nes, snes, gba
===============================================================================
