----------------------------- MODULE MCSyncMirror ------------------------------
(* Small instances of SyncMirror for TLC. *)
EXTENDS SyncMirror

CONSTANTS root, saga, Saga, a, b, info

\* A file on top that the firmware has too among the games, one in a directory of two spellings.
Spellings == [d \in Dirs |-> IF d = root THEN root ELSE saga]
Flat == {<<root, a>>, <<root, b>>}
Nested == {<<root, info>>, <<saga, b>>, <<Saga, b>>}
===============================================================================
