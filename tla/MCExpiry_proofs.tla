--------------------------- MODULE MCExpiry_proofs ---------------------------
(***************************************************************************)
(* The three scenarios TLC explores of a backup, each a Backup of its own  *)
(* constants: what is proved of Backup holds of every one of them, for     *)
(* every set of files and versions.                                        *)
(***************************************************************************)
EXTENDS MCExpiry, Backup_proofs

\* The theorems about Backup, with the constants of two of the scenarios.
Overnights == INSTANCE Backup_proofs WITH
    BusyDisk <- TRUE, Unreadable <- TRUE, MaxFaults <- 1, MaxDays <- 1
Renamings == INSTANCE Backup_proofs WITH
    Key <- Key \cup MoreKeys, RetentionDays <- 0, Renames <- TRUE,
    MaxEdits <- MoreEdits, MaxFaults <- 0, MaxStops <- 0, MaxDays <- 0

\* Their constants are ones Backup can have.
LEMMA ScenariosFit ==
    /\ Overnights!NoneAssumption /\ Overnights!SwitchAssumption /\ Overnights!BoundAssumption
    /\ Renamings!NoneAssumption /\ Renamings!SwitchAssumption /\ Renamings!BoundAssumption
<1>1. None \notin Version /\ Torn \notin Version /\ None # Torn /\ None \notin Key /\ None \notin Key \cup MoreKeys
  BY NoneAssumption, MoreAssumption
<1>2. /\ Bundling \cup {Renames, TRUE, TRUE, Returns} \subseteq BOOLEAN
      /\ Bundling \cup {TRUE, BusyDisk, Unreadable, Returns} \subseteq BOOLEAN
  BY SwitchAssumption
<1>3. {RetentionDays, MaxEdits, 1, MaxStops, 1} \subseteq Nat /\ {0, MoreEdits, 0, 0, 0} \subseteq Nat
  BY BoundAssumption, MoreAssumption
<1>. QED  BY <1>1, <1>2, <1>3

LEMMA SameOvernight ==
    /\ Overnight!Init <=> Overnights!Init
    /\ Overnight!Next <=> Overnights!Next
<1>1. Overnight!Init <=> Overnights!Init
  BY DEF
     Overnight!Nothing, Overnight!RunAtRest, Overnight!Init, Overnights!Nothing,
     Overnights!RunAtRest, Overnights!Init
<1>2. Overnight!Next <=> Overnights!Next
  BY DEF
     Overnight!storeVars, Overnight!planVars, Overnight!workVars, Overnight!tickVars,
     Overnight!runVars, Overnight!envVars, Overnight!Nothing, Overnight!Read, Overnight!Sealed,
     Overnight!SetStore, Overnight!StorePut, Overnight!StoreDelete, Overnight!Pending,
     Overnight!SaveAll, Overnight!SealFails, Overnight!IndexFails, Overnight!Fault,
     Overnight!NoFault, Overnight!RequestFails, Overnight!FlushOk, Overnight!FlushReports,
     Overnight!FlushFails, Overnight!RunOver, Overnight!InUpload, Overnight!Edit, Overnight!Save,
     Overnight!Remove, Overnight!Rename, Overnight!Midnight, Overnight!Cancel, Overnight!Reopened,
     Overnight!Crash, Overnight!Exit, Overnight!Goto, Overnight!Start, Overnight!Scan,
     Overnight!ScanFails, Overnight!Vanished, Overnight!Candidate, Overnight!Changed,
     Overnight!Match, Overnight!Plan, Overnight!Empties, Overnight!Drops, Overnight!Binned,
     Overnight!TrashMove, Overnight!TrashMoveFails, Overnight!TrashDone, Overnight!IsMove,
     Overnight!Moved, Overnight!Working, Overnight!JobTo, Overnight!transferRest, Overnight!Begin,
     Overnight!Sent, Overnight!Land, Overnight!PutFails, Overnight!Check, Overnight!CheckGone,
     Overnight!TornDelete, Overnight!TornDeleteFails, Overnight!Move, Overnight!Doomed,
     Overnight!EndTransfer, Overnight!DeleteMany, Overnight!TickTake, Overnight!TickAsk,
     Overnight!Records, Overnight!Requeued, Overnight!TickEnd, Overnight!recordRest,
     Overnight!Flush, Overnight!Record, Overnight!Forget, Overnight!RecordMove,
     Overnight!MovesDone, Overnight!Salvage, Overnight!Note, Overnight!Due, Overnight!tidyRest,
     Overnight!ClaimDailyPrune, Overnight!Prune, Overnight!Close, Overnight!People,
     Overnight!Engine, Overnight!Checkpointer, Overnight!Run, Overnight!Next, Overnights!storeVars,
     Overnights!planVars, Overnights!workVars, Overnights!tickVars, Overnights!runVars,
     Overnights!envVars, Overnights!Nothing, Overnights!Read, Overnights!Sealed,
     Overnights!SetStore, Overnights!StorePut, Overnights!StoreDelete, Overnights!Pending,
     Overnights!SaveAll, Overnights!SealFails, Overnights!IndexFails, Overnights!Fault,
     Overnights!NoFault, Overnights!RequestFails, Overnights!FlushOk, Overnights!FlushReports,
     Overnights!FlushFails, Overnights!RunOver, Overnights!InUpload, Overnights!Edit,
     Overnights!Save, Overnights!Remove, Overnights!Rename, Overnights!Midnight, Overnights!Cancel,
     Overnights!Reopened, Overnights!Crash, Overnights!Exit, Overnights!Goto, Overnights!Start,
     Overnights!Scan, Overnights!ScanFails, Overnights!Vanished, Overnights!Candidate,
     Overnights!Changed, Overnights!Match, Overnights!Plan, Overnights!Empties, Overnights!Drops,
     Overnights!Binned, Overnights!TrashMove, Overnights!TrashMoveFails, Overnights!TrashDone,
     Overnights!IsMove, Overnights!Moved, Overnights!Working, Overnights!JobTo,
     Overnights!transferRest, Overnights!Begin, Overnights!Sent, Overnights!Land,
     Overnights!PutFails, Overnights!Check, Overnights!CheckGone, Overnights!TornDelete,
     Overnights!TornDeleteFails, Overnights!Move, Overnights!Doomed, Overnights!EndTransfer,
     Overnights!DeleteMany, Overnights!TickTake, Overnights!TickAsk, Overnights!Records,
     Overnights!Requeued, Overnights!TickEnd, Overnights!recordRest, Overnights!Flush,
     Overnights!Record, Overnights!Forget, Overnights!RecordMove, Overnights!MovesDone,
     Overnights!Salvage, Overnights!Note, Overnights!Due, Overnights!tidyRest,
     Overnights!ClaimDailyPrune, Overnights!Prune, Overnights!Close, Overnights!People,
     Overnights!Engine, Overnights!Checkpointer, Overnights!Run, Overnights!Next
<1>. QED  BY <1>1, <1>2

LEMMA SameRenaming ==
    /\ Renaming!Init <=> Renamings!Init
    /\ Renaming!Next <=> Renamings!Next
<1>1. Renaming!Init <=> Renamings!Init
  BY DEF
     Renaming!Nothing, Renaming!RunAtRest, Renaming!Init, Renamings!Nothing, Renamings!RunAtRest,
     Renamings!Init
<1>2. Renaming!Next <=> Renamings!Next
  BY DEF
     Renaming!storeVars, Renaming!planVars, Renaming!workVars, Renaming!tickVars, Renaming!runVars,
     Renaming!envVars, Renaming!Nothing, Renaming!Read, Renaming!Sealed, Renaming!SetStore,
     Renaming!StorePut, Renaming!StoreDelete, Renaming!Pending, Renaming!SaveAll,
     Renaming!SealFails, Renaming!IndexFails, Renaming!Fault, Renaming!NoFault,
     Renaming!RequestFails, Renaming!FlushOk, Renaming!FlushReports, Renaming!FlushFails,
     Renaming!RunOver, Renaming!InUpload, Renaming!Edit, Renaming!Save, Renaming!Remove,
     Renaming!Rename, Renaming!Midnight, Renaming!Cancel, Renaming!Reopened, Renaming!Crash,
     Renaming!Exit, Renaming!Goto, Renaming!Start, Renaming!Scan, Renaming!ScanFails,
     Renaming!Vanished, Renaming!Candidate, Renaming!Changed, Renaming!Match, Renaming!Plan,
     Renaming!Empties, Renaming!Drops, Renaming!Binned, Renaming!TrashMove,
     Renaming!TrashMoveFails, Renaming!TrashDone, Renaming!IsMove, Renaming!Moved,
     Renaming!Working, Renaming!JobTo, Renaming!transferRest, Renaming!Begin, Renaming!Sent,
     Renaming!Land, Renaming!PutFails, Renaming!Check, Renaming!CheckGone, Renaming!TornDelete,
     Renaming!TornDeleteFails, Renaming!Move, Renaming!Doomed, Renaming!EndTransfer,
     Renaming!DeleteMany, Renaming!TickTake, Renaming!TickAsk, Renaming!Records, Renaming!Requeued,
     Renaming!TickEnd, Renaming!recordRest, Renaming!Flush, Renaming!Record, Renaming!Forget,
     Renaming!RecordMove, Renaming!MovesDone, Renaming!Salvage, Renaming!Note, Renaming!Due,
     Renaming!tidyRest, Renaming!ClaimDailyPrune, Renaming!Prune, Renaming!Close, Renaming!People,
     Renaming!Engine, Renaming!Checkpointer, Renaming!Run, Renaming!Next, Renamings!storeVars,
     Renamings!planVars, Renamings!workVars, Renamings!tickVars, Renamings!runVars,
     Renamings!envVars, Renamings!Nothing, Renamings!Read, Renamings!Sealed, Renamings!SetStore,
     Renamings!StorePut, Renamings!StoreDelete, Renamings!Pending, Renamings!SaveAll,
     Renamings!SealFails, Renamings!IndexFails, Renamings!Fault, Renamings!NoFault,
     Renamings!RequestFails, Renamings!FlushOk, Renamings!FlushReports, Renamings!FlushFails,
     Renamings!RunOver, Renamings!InUpload, Renamings!Edit, Renamings!Save, Renamings!Remove,
     Renamings!Rename, Renamings!Midnight, Renamings!Cancel, Renamings!Reopened, Renamings!Crash,
     Renamings!Exit, Renamings!Goto, Renamings!Start, Renamings!Scan, Renamings!ScanFails,
     Renamings!Vanished, Renamings!Candidate, Renamings!Changed, Renamings!Match, Renamings!Plan,
     Renamings!Empties, Renamings!Drops, Renamings!Binned, Renamings!TrashMove,
     Renamings!TrashMoveFails, Renamings!TrashDone, Renamings!IsMove, Renamings!Moved,
     Renamings!Working, Renamings!JobTo, Renamings!transferRest, Renamings!Begin, Renamings!Sent,
     Renamings!Land, Renamings!PutFails, Renamings!Check, Renamings!CheckGone,
     Renamings!TornDelete, Renamings!TornDeleteFails, Renamings!Move, Renamings!Doomed,
     Renamings!EndTransfer, Renamings!DeleteMany, Renamings!TickTake, Renamings!TickAsk,
     Renamings!Records, Renamings!Requeued, Renamings!TickEnd, Renamings!recordRest,
     Renamings!Flush, Renamings!Record, Renamings!Forget, Renamings!RecordMove,
     Renamings!MovesDone, Renamings!Salvage, Renamings!Note, Renamings!Due, Renamings!tidyRest,
     Renamings!ClaimDailyPrune, Renamings!Prune, Renamings!Close, Renamings!People,
     Renamings!Engine, Renamings!Checkpointer, Renamings!Run, Renamings!Next
<1>. QED  BY <1>1, <1>2

\* A behaviour is of one scenario, and a behaviour of that Backup.
IsExpiry    == scenario = "expiry"
IsOvernight == scenario = "overnight"
IsRenames   == scenario = "renames"

LEMMA ScenarioStarts ==
    /\ Scenarios => IsExpiry \/ IsOvernight \/ IsRenames
    /\ Scenarios /\ IsExpiry => Init
    /\ Scenarios /\ IsOvernight => Overnights!Init
    /\ Scenarios /\ IsRenames => Renamings!Init
BY SameOvernight, SameRenaming DEF Scenarios, IsExpiry, IsOvernight, IsRenames

LEMMA ScenarioSteps ==
    ASSUME [Steps]_<<vars, scenario>>
    PROVE  /\ (IsExpiry' <=> IsExpiry) /\ (IsOvernight' <=> IsOvernight) /\ (IsRenames' <=> IsRenames)
           /\ IsExpiry => [Next]_vars
           /\ IsOvernight => [Overnights!Next]_(Overnights!vars)
           /\ IsRenames => [Renamings!Next]_(Renamings!vars)
<1>1. vars = Overnights!vars /\ vars = Renamings!vars /\ (UNCHANGED vars => UNCHANGED Overnights!vars /\ UNCHANGED Renamings!vars)
  BY DEF vars, storeVars, planVars, workVars, tickVars, runVars, envVars,
     Overnights!vars, Overnights!storeVars, Overnights!planVars, Overnights!workVars, Overnights!tickVars, Overnights!runVars, Overnights!envVars,
     Renamings!vars, Renamings!storeVars, Renamings!planVars, Renamings!workVars, Renamings!tickVars, Renamings!runVars, Renamings!envVars
<1>2. CASE UNCHANGED <<vars, scenario>>
  BY <1>1, <1>2 DEF IsExpiry, IsOvernight, IsRenames
<1>3. CASE Steps
  BY <1>3, SameOvernight, SameRenaming DEF Steps, IsExpiry, IsOvernight, IsRenames
<1>. QED  BY <1>2, <1>3

\* Each scenario follows the specification of its own Backup.
LEMMA EachScenario ==
    All => \/ []IsExpiry /\ Spec
           \/ []IsOvernight /\ Overnights!Spec
           \/ []IsRenames /\ Renamings!Spec
<1>1. /\ Scenarios => IsExpiry \/ IsOvernight \/ IsRenames
      /\ Scenarios /\ IsExpiry => Init
      /\ Scenarios /\ IsOvernight => Overnights!Init
      /\ Scenarios /\ IsRenames => Renamings!Init
  BY ScenarioStarts
<1>2. [Steps]_<<vars, scenario>> =>
        /\ (IsExpiry' <=> IsExpiry) /\ (IsOvernight' <=> IsOvernight) /\ (IsRenames' <=> IsRenames)
        /\ IsExpiry => [Next]_vars
        /\ IsOvernight => [Overnights!Next]_(Overnights!vars)
        /\ IsRenames => [Renamings!Next]_(Renamings!vars)
  BY ScenarioSteps
<1>. QED  BY <1>1, <1>2, PTL DEF All, Spec, Overnights!Spec, Renamings!Spec

\* Storage holds a file that looks like its record (place.go:11), through days
\* of runs that fail and stop, and through renames nothing disturbs.
THEOREM QuietStaysStored == ASSUME Quiet PROVE All => []QuietIsStored
<1>1. Spec => []UnchangedIsStored
  BY UnchangedStaysStored
<1>2. Renamings!Undisturbed
  BY DEF Renamings!Undisturbed, Quiet
<1>3. Renamings!Spec => [](Renamings!UnchangedIsStored /\ Renamings!InStepAtEnd)
  BY <1>2, ScenariosFit, Renamings!UndisturbedStaysStored
<1>4. Renamings!UnchangedIsStored /\ Renamings!InStepAtEnd => UnchangedIsStored
  BY DEF UnchangedIsStored, Renamings!UnchangedIsStored
<1>5. (IsOvernight => QuietIsStored) /\ (UnchangedIsStored => QuietIsStored)
  BY DEF IsOvernight, QuietIsStored
<1>. QED  BY <1>1, <1>3, <1>4, <1>5, EachScenario, PTL

\* What was recorded can be got back (README.md:273), on a busy disk that
\* cannot always be read, in a day with a fault and over a midnight.
THEOREM KeptOvernight == ASSUME ~Renames, RetentionDays > 0 PROVE All => []KeptWithoutRenames
<1>1. Overnights!Spec => []Overnights!RecordedIsKept
  BY ScenariosFit, Overnights!RecordsAreKept
<1>2. (Overnights!RecordedIsKept => KeptWithoutRenames) /\ (IsExpiry \/ IsRenames => KeptWithoutRenames)
  BY DEF IsExpiry, IsRenames, KeptWithoutRenames, RecordedIsKept, Kept, Overnights!RecordedIsKept, Overnights!Kept
<1>. QED  BY <1>1, <1>2, EachScenario, PTL

\* A rename copies what it was matched by (plan.go:271).
THEOREM MatchesAreCopied == ASSUME ~BusyDisk PROVE All => RenamesCopyTheirMatch
<1>1. Renamings!Undisturbed
  BY DEF Renamings!Undisturbed
<1>2. Renamings!Spec => Renamings!RenameCopiesItsMatch
  BY <1>1, ScenariosFit, Renamings!RenamesCopyTheMatch
<1>3. [\A k \in Key \cup MoreKeys : Renamings!IsMove(k) /\ job[k] = "queued" /\ job'[k] = "done"
           => current'[k] = index[source[k]]]_(Renamings!vars)
      => (IsRenames => [\A k \in Key \cup MoreKeys :
            scenario = "renames" /\ Renaming!IsMove(k) /\ job[k] = "queued" /\ job'[k] = "done"
              => current'[k] = index[source[k]]]_<<vars, scenario>>)
  BY DEF Renamings!IsMove, Renaming!IsMove, vars, storeVars, planVars, workVars, tickVars, runVars, envVars,
     Overnights!vars, Overnights!storeVars, Overnights!planVars, Overnights!workVars, Overnights!tickVars, Overnights!runVars, Overnights!envVars,
     Renamings!vars, Renamings!storeVars, Renamings!planVars, Renamings!workVars, Renamings!tickVars, Renamings!runVars, Renamings!envVars
<1>4. IsExpiry \/ IsOvernight
      => [\A k \in Key \cup MoreKeys :
            scenario = "renames" /\ Renaming!IsMove(k) /\ job[k] = "queued" /\ job'[k] = "done"
              => current'[k] = index[source[k]]]_<<vars, scenario>>
  BY DEF IsExpiry, IsOvernight
<1>. QED  BY <1>2, <1>3, <1>4, EachScenario, PTL DEF RenamesCopyTheirMatch, Renamings!RenameCopiesItsMatch
=============================================================================
