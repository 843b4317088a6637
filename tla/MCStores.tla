------------------------------ MODULE MCStores ------------------------------
(***************************************************************************)
(* Small instances for TLC of storage from its other sides: restoring, the *)
(* second copy, Drime, Ultra fast mode, and what is left out. They share   *)
(* no state with one another: a behaviour is of one of them, chosen by     *)
(* `part', and the others stay as they begin.                              *)
(***************************************************************************)
EXTENDS Restore, Mirror, Drime, UltraFast, Picker

CONSTANT Parts \* the components explored
VARIABLE part

partVars == <<part, restoreVars, mirrorVars, drimeVars, ultraVars, pickVars>>
\* Only the component q acts, and the others keep all they have.
Only(q) ==
    /\ part = q /\ UNCHANGED part
    /\ q # "restore" => UNCHANGED restoreVars
    /\ q # "mirror" => UNCHANGED mirrorVars
    /\ q # "drime" => UNCHANGED drimeVars
    /\ q # "ultra" => UNCHANGED ultraVars
    /\ q # "picker" => UNCHANGED pickVars
InRestore == Only("restore")
InMirror == Only("mirror")
InDrime == Only("drime")
InUltra == Only("ultra")
InPicker == Only("picker")

Init ==
    /\ part \in Parts
    /\ RestoreInit /\ MirrorInit /\ DrimeInit /\ UltraInit /\ PickInit
    /\ part # "mirror" => keptOut = {}
    /\ part # "picker" => excludes = {} /\ height = 1
\* Each action is a disjunct of its own, so that TLC counts every one.
Next ==
    \/ \E w \in Fetcher : (InRestore /\ Dispatch(w)) \/ (InRestore /\ Get(w))
                          \/ (InRestore /\ OpenTemp(w)) \/ (InRestore /\ Copied(w))
                          \/ (InRestore /\ Place(w)) \/ (InRestore /\ Verify(w))
                          \/ (InRestore /\ Unlink(w)) \/ (InRestore /\ Symlink(w))
    \/ (InRestore /\ PlanSet) \/ (InRestore /\ PlanDeleted) \/ (InRestore /\ PlanFails)
       \/ (InRestore /\ FinishRestore) \/ (InRestore /\ Browse)
       \/ (InRestore /\ StartRestore) \/ (InRestore /\ CancelRestore)
       \/ (InRestore /\ DismissRestore) \/ (InRestore /\ Kill)
    \/ \E p \in Path : (InRestore /\ Store(p)) \/ (InRestore /\ TrashDelete(p))
                       \/ (InRestore /\ Save(p))
    \/ \E r \in Copier : (InMirror /\ StartMirror(r)) \/ (InMirror /\ ListSource(r))
                         \/ (InMirror /\ PlanCopy(r)) \/ (InMirror /\ ListFails(r))
                         \/ (InMirror /\ PutObject(r))
                         \/ (InMirror /\ (\E k \in Keys : GetObject(r, k)))
                         \/ (InMirror /\ DeleteBatch(r)) \/ (InMirror /\ FinishMirror(r))
                         \/ (InMirror /\ AskMirror(r)) \/ (InMirror /\ AutoMirror(r))
                         \/ (InMirror /\ Killed(r)) \/ (InMirror /\ CancelMirror(r))
    \/ \E k \in Keys : (InMirror /\ StoreMain(k))
    \/ \E s \in Scope : (InMirror /\ FolderOn(s))
                        \/ (InMirror /\ (\E b \in BOOLEAN : FolderOff(s, b)))
                        \/ (InMirror /\ (\E b \in BOOLEAN : DropBackup(s, b)))
    \/ \E u \in Uploader : (InDrime /\ BeginCall(u)) \/ (InDrime /\ Resolve(u))
                           \/ (InDrime /\ ListFolder(u)) \/ (InDrime /\ CreateFolder(u))
                           \/ (InDrime /\ Send(u)) \/ (InDrime /\ SendRelists(u))
                           \/ (InDrime /\ Replace(u)) \/ (InDrime /\ FindCopy(u))
                           \/ (InDrime /\ Carry(u)) \/ (InDrime /\ GiveTrashName(u))
                           \/ (InDrime /\ DeleteFolder(u)) \/ (InDrime /\ FolderGone(u))
                           \/ (InDrime /\ FolderStays(u)) \/ (InDrime /\ Note(u))
    \/ (InDrime /\ DriveDeletes) \/ (InDrime /\ SaveNotes) \/ (InDrime /\ NotesSaved)
    \/ \E n \in Leaf : (InDrime /\ OtherRun(n))
    \/ \E a \in CfAccount : (InUltra /\ TurnOn(a))
    \/ (InUltra /\ Uploads) \/ (InUltra /\ OpensAddress) \/ (InUltra /\ Undoes)
       \/ (InUltra /\ DropsOld) \/ (InUltra /\ Saves) \/ (InUltra /\ TurnOff)
       \/ (InUltra /\ Deletes) \/ (InUltra /\ Forgotten) \/ (InUltra /\ CutShort)
       \/ (InUltra /\ NewBinary) \/ (InUltra /\ StartCopy) \/ (InUltra /\ Health)
       \/ (InUltra /\ PutsUp) \/ (InUltra /\ SavesVersion) \/ (InUltra /\ SwitchesOver)
       \/ (InUltra /\ EndCopy)
    \/ \E f \in File : (InUltra /\ Offer(f)) \/ (InUltra /\ ReadyFails(f))
                       \/ (InUltra /\ GetLinks(f)) \/ (InUltra /\ FinishUpload(f))
                       \/ (InUltra /\ AbandonUpload(f)) \/ (InUltra /\ CopyHere(f))
                       \/ (InUltra /\ CopyBreaks(f)) \/ (InUltra /\ NetworkBack(f))
                       \/ (InUltra /\ NetworkStaysAway(f)) \/ (InUltra /\ Replaced(f))
    \/ \E f \in File : \E p \in PartsOf(f) : (InUltra /\ StartPart(f, p))
                                             \/ (InUltra /\ PartSent(f, p))
                                             \/ (InUltra /\ PartFails(f, p))
                                             \/ (InUltra /\ PartStops(f, p))
    \/ (InPicker /\ Toggle) \/ (InPicker /\ MovesCursor) \/ (InPicker /\ Collapses)
       \/ (InPicker /\ Expands) \/ (InPicker /\ Resized) \/ (InPicker /\ Cancels)
       \/ (InPicker /\ Accepts)
    \/ \E d \in Folders : (InPicker /\ OpensPicker(d))
    \/ \E s \in {"on", "off"} : (InPicker /\ SetAll(s))
    \/ \E p \in KeyPath, gone \in BOOLEAN : (InPicker /\ Switch(p, gone))
Spec == Init /\ [][Next]_partVars

\* Every variable of every component has its type.
Consistent == RestoreTypeOK /\ MirrorTypeOK /\ DrimeTypeOK /\ UltraTypeOK /\
    PickTypeOK
=============================================================================
