------------------------------- MODULE MCDesk -------------------------------
(***************************************************************************)
(* Small instances for TLC of what several programs or computers keep      *)
(* between them: folders, the account, the program file itself and its     *)
(* schedule. They share no state with one another: a behaviour is of one   *)
(* of them, chosen by `part', and the others stay as they begin.           *)
(***************************************************************************)
EXTENDS SetStore, Account, SelfUpdate, Schedule, TLC

CONSTANT Parts \* the components explored
VARIABLE part

partVars == <<part, setVars, accountVars, updateVars, schedVars>>
\* Only the component q acts, and the others keep all they have.
Only(q) ==
    /\ part = q /\ UNCHANGED part
    /\ q # "setstore" => UNCHANGED setVars
    /\ q # "account" => UNCHANGED accountVars
    /\ q # "update" => UNCHANGED updateVars
    /\ q # "schedule" => UNCHANGED schedVars
InSetstore == Only("setstore")
InAccount == Only("account")
InUpdate == Only("update")
InSchedule == Only("schedule")

Init ==
    /\ part \in Parts
    /\ SetsInit /\ AccountInit /\ UpdateInit /\ SchedInit
    /\ part # "setstore" => here = CHOOSE s \in Store : TRUE
    /\ part # "account" => keys = [c \in Computer |-> NoKeys] /\ token = [c \in Computer |-> 0] /\ stored_keys = NoKeys
    /\ part # "update" => windows
    /\ part # "schedule" => os = "windows" /\ exe = CHOOSE p \in Place : TRUE
\* Each action is a disjunct of its own, so that TLC counts every one.
Next ==
    \/ \E p \in Program : (InSetstore /\ Added(p)) \/ (InSetstore /\ BacksUp(p))
                          \/ (InSetstore /\ Notes(p)) \/ (InSetstore /\ EndsRun(p))
                          \/ (InSetstore /\ Parks(p)) \/ (InSetstore /\ SaysWhere(p))
                          \/ (InSetstore /\ MovesRecords(p))
                          \/ (InSetstore /\ TakesName(p)) \/ (InSetstore /\ NameRefused(p))
                          \/ (InSetstore /\ Purges(p)) \/ (InSetstore /\ PurgeFails(p))
                          \/ (InSetstore /\ DropsRecords(p))
                          \/ (InSetstore /\ NotRemoved(p)) \/ (InSetstore /\ Forgets(p))
                          \/ (InSetstore /\ IsKilled(p))
                          \/ (InSetstore /\ (\E n \in Title : AddFolder(p, n)))
                          \/ (InSetstore /\ (\E f \in Item : Sends(p, f)))
                          \/ (InSetstore /\ (\E s \in Folder : TakesIndex(p, s)))
                          \/ (InSetstore /\ (\E s \in Folder : NoIndexFor(p, s)))
                          \/ (InSetstore /\ (\E s \in Folder : Relink(p, s)))
                          \/ (InSetstore /\ (\E s \in Folder, to \in Title : Renames(p, s, to)))
                          \/ (InSetstore /\ (\E s \in Folder, purge \in BOOLEAN : Removes(p, s, purge)))
    \/ (InSetstore /\ Draws)
    \/ \E n \in Title : (InSetstore /\ DeletesStored(n)) \/ (InSetstore /\ FolderMoves(n))
    \/ \E s \in Store : (InSetstore /\ SwitchStore(s))
    \/ \E c \in Computer : (InAccount /\ AskCode(c))
                           \/ (InAccount /\ (\E n \in 1..MaxCodes : n <= codes /\ EnterCode(c, n)))
                           \/ (InAccount /\ (\E typed \in BOOLEAN : SignInPin(c, typed)))
                           \/ (InAccount /\ ChallengeEnds(c))
                           \/ (InAccount /\ SetupLook(c)) \/ (InAccount /\ SetupPut(c))
                           \/ (InAccount /\ ResetLook(c)) \/ (InAccount /\ ResetPut(c))
                           \/ (InAccount /\ ResetWipe(c)) \/ (InAccount /\ LetInToMove(c))
                           \/ (InAccount /\ MovePut(c)) \/ (InAccount /\ SaveSealKey(c))
                           \/ (InAccount /\ SaveToken(c)) \/ (InAccount /\ GetKeys(c))
                           \/ (InAccount /\ Adopt(c)) \/ (InAccount /\ PushKeys(c))
                           \/ (InAccount /\ PutKeys(c)) \/ (InAccount /\ Synced(c))
                           \/ (InAccount /\ Connect(c)) \/ (InAccount /\ CheckSession(c))
                           \/ (InAccount /\ SessionChecked(c)) \/ (InAccount /\ SignOut(c))
                           \/ (InAccount /\ ClearsKey(c)) \/ (InAccount /\ SessionExpires(c))
    \/ (InAccount /\ Unlock)
    \/ \E c \in Copy : (InUpdate /\ Launches(c)) \/ (InUpdate /\ Quits(c))
                       \/ (InUpdate /\ WorksOn(c)) \/ (InUpdate /\ WorkDone(c))
                       \/ (InUpdate /\ LooksUp(c)) \/ (InUpdate /\ Takes(c))
                       \/ (InUpdate /\ Declines(c)) \/ (InUpdate /\ Fetches(c))
                       \/ (InUpdate /\ FetchFails(c)) \/ (InUpdate /\ Replaces(c))
                       \/ (InUpdate /\ ClearsOld(c)) \/ (InUpdate /\ MovesAside(c))
                       \/ (InUpdate /\ MoveAsideFails(c)) \/ (InUpdate /\ Installs(c))
                       \/ (InUpdate /\ InstallFails(c)) \/ (InUpdate /\ PutsBack(c))
                       \/ (InUpdate /\ PutBackFails(c))
    \/ (InUpdate /\ TrayRestarts) \/ (InUpdate /\ Boots) \/ (InUpdate /\ Publishes)
    \/ \E n \in Name : (InSchedule /\ (\E w \in Wish : Registers(n, w)))
                       \/ (InSchedule /\ (\E w \in Wish : PanelRegisters(n, w)))
                       \/ (InSchedule /\ Unregisters(n))
                       \/ (InSchedule /\ PanelUnregisters(n)) \/ (InSchedule /\ Repairs(n))
                       \/ (InSchedule /\ PanelRepairs(n)) \/ (InSchedule /\ Offers(n))
                       \/ (InSchedule /\ FirstRun(n)) \/ (InSchedule /\ Looks(n))
                       \/ (InSchedule /\ LookIsOld(n))
    \/ (InSchedule /\ SignsIn) \/ (InSchedule /\ ProgramMoves)
Spec == Init /\ [][Next]_partVars

\* Computers are alike, and so are storages: where `here' is chosen it is never read.
Alike == Permutations(Computer) \cup Permutations(Store)

\* Every variable of every component has its type, and what a component keeps in
\* two places agrees.
Consistent == SetsTypeOK /\ AccountTypeOK /\ SyncSaves /\ SignInStays /\
    UpdateTypeOK /\ SchedTypeOK
=============================================================================
