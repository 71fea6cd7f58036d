-------------------------- MODULE MCSnapshotSources --------------------------
(* Small instances of SnapshotSources for TLC.                             *)
EXTENDS SnapshotSources
=============================================================================
