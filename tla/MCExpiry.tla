------------------------------ MODULE MCExpiry ------------------------------
(***************************************************************************)
(* Small instances of Backup for TLC.  A behaviour is of one of three      *)
(* scenarios: days of runs that fail and stop, with trash and a disk that  *)
(* is quiet during runs; a day and a midnight on a busy disk that cannot   *)
(* always be read; or renames and copies among more files, without trash,  *)
(* failures or stops.                                                      *)
(***************************************************************************)
EXTENDS Backup, TLC

CONSTANTS MoreKeys,  \* files there are only in the scenario with renames
          MoreEdits  \* and its bound on changes made on disk

ASSUME MoreAssumption == None \notin MoreKeys /\ MoreEdits \in Nat

VARIABLE scenario

Overnight == INSTANCE Backup WITH
    BusyDisk <- TRUE, Unreadable <- TRUE, MaxFaults <- 1, MaxDays <- 1
Renaming == INSTANCE Backup WITH
    Key <- Key \cup MoreKeys, RetentionDays <- 0, Renames <- TRUE,
    MaxEdits <- MoreEdits, MaxFaults <- 0, MaxStops <- 0, MaxDays <- 0

Scenarios == \/ scenario = "expiry" /\ Init
             \/ scenario = "overnight" /\ Overnight!Init
             \/ scenario = "renames" /\ Renaming!Init
Steps == /\ UNCHANGED scenario
         /\ \/ scenario = "expiry" /\ Next
            \/ scenario = "overnight" /\ Overnight!Next
            \/ scenario = "renames" /\ Renaming!Next
All == Scenarios /\ [][Steps]_<<vars, scenario>>

\* RecordedIsKept, without renames: with them a file the scan cannot read is
\* taken for the source of one, and moved (the run unreadable).
KeptWithoutRenames == scenario = "overnight" => RecordedIsKept

\* UnchangedIsStored, of files that can be read and stay as they are during a
\* run.
QuietIsStored == scenario # "overnight" => UnchangedIsStored

\* RenameCopiesItsMatch, which needs runs that are not stopped between their
\* upload and its record.
RenamesCopyTheirMatch ==
    [][\A k \in Key \cup MoreKeys :
          scenario = "renames" /\ Renaming!IsMove(k) /\ job[k] = "queued" /\ job'[k] = "done"
             => current'[k] = index[source[k]]]_<<vars, scenario>>

\* Files, and versions, are interchangeable.
Symmetry == Permutations(Key) \cup Permutations(MoreKeys) \cup Permutations(Version)
=============================================================================
