------------------------------ MODULE MCBackup ------------------------------
(***************************************************************************)
(* Small instances of Backup for TLC.                                      *)
(***************************************************************************)
EXTENDS Backup, TLC

\* Files and versions are interchangeable.
Symmetry == Permutations(Key) \cup Permutations(Version)
=============================================================================
