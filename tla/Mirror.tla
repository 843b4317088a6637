------------------------------- MODULE Mirror -------------------------------
(***************************************************************************)
(* The second copy: mirror.Run between the store backups go to and another *)
(* one, started by the panel or after a backup, while backups go on being  *)
(* stored, folders are kept out of the copy and whole backups are deleted. *)
(*                                                                         *)
(* A key belongs to a scope, one backup of one computer.  A store holds of *)
(* a key a version and the time it was written there; a listing shows that *)
(* time and the version's size, and both stores go by one clock.           *)
(***************************************************************************)
EXTENDS Naturals, FiniteSets

CONSTANTS Scope, Pair,     \* backups, and those of two files; the others have one
          Copier,          \* copies that may run at once
          Nobody,
          BusyCopies,      \* a source object may change while its bytes are on their way
          CopyBack,        \* copies the other way are asked for
          MaxWrites, MaxSettings, MaxBreaks, MaxCopies  \* bounds for TLC

ASSUME MirrorAssumption == Pair \subseteq Scope /\ {BusyCopies, CopyBack} \subseteq BOOLEAN

Keys == (Scope \X {1}) \cup (Pair \X {2})
KeysOf(s) == {k \in Keys : k[1] = s}

VARIABLES
    main, second,   \* what the stores hold of each key
    time,
    keptOut,        \* scopes turned off for the secondary backup
    panelJob,       \* the panel's copy
    phase, reverse, range, \* each copier: step, direction, its prefixes
    srcList, copies, deletes, moving, \* source listing, what the plan has left, the file on its way
    broken, ended,  \* a failure was recorded; its context was cancelled
    changed, alone, \* history: keys written in its source since it listed them; no other copy met it
    wiped,          \* history: what the second copy held of a backup deleted from main
    writes, settings, breaks, begun

storesVars == <<main, second, time>>
copierVars == <<phase, reverse, range, srcList, copies, deletes, moving, broken, ended>>
pastVars   == <<changed, alone, wiped>>
boundVars  == <<writes, settings, breaks, begun>>
mirrorVars == <<storesVars, keptOut, panelJob, copierVars, pastVars, boundVars>>

Gone == [ver |-> 0, at |-> 0]
Still == [key |-> Nobody, ver |-> 0]
\* Of the versions one after the other, some change the size and some do not.
Size(o) == (o.ver + 1) \div 2

MirrorInit ==
    /\ main = [k \in Keys |-> [ver |-> 1, at |-> 1]]
    /\ second = [k \in Keys |-> [ver |-> 1, at |-> 2]]
    /\ time = 2 /\ keptOut \in SUBSET Scope /\ panelJob = Nobody
    /\ phase = [r \in Copier |-> "idle"] /\ reverse = [r \in Copier |-> FALSE] /\ range = [r \in Copier |-> {}]
    /\ srcList = [r \in Copier |-> main] /\ copies = [r \in Copier |-> {}] /\ deletes = [r \in Copier |-> {}]
    /\ moving = [r \in Copier |-> Still] /\ broken = [r \in Copier |-> FALSE] /\ ended = [r \in Copier |-> FALSE]
    /\ changed = [r \in Copier |-> {}] /\ alone = [r \in Copier |-> TRUE] /\ wiped = [s \in Scope |-> {}]
    /\ writes = 0 /\ settings = 0 /\ breaks = 0 /\ begun = 0

Busy == {r \in Copier : phase[r] \notin {"idle", "asked"}}
Break == breaks < MaxBreaks /\ breaks' = breaks + 1
Src(r) == IF reverse[r] THEN second ELSE main
Dst(r) == IF reverse[r] THEN main ELSE second
SetDst(r, f) == IF reverse[r] THEN main' = f /\ UNCHANGED second ELSE second' = f /\ UNCHANGED main
Goto(r, p) == phase' = [phase EXCEPT ![r] = p]

-----------------------------------------------------------------------------
(* Starting.                                                               *)

\* startMirror: the check that none is running and the job it leaves are two
\* critical sections.
AskMirror(r) ==
    /\ phase[r] = "idle" /\ panelJob = Nobody
    /\ begun < MaxCopies /\ begun' = begun + 1
    /\ Goto(r, "asked")
    /\ UNCHANGED <<storesVars, keptOut, panelJob, reverse, range, srcList, copies, deletes, moving, broken, ended,
                   pastVars, writes, settings, breaks>>
Begin(r, back) ==
    /\ Goto(r, "source")
    /\ range' = [range EXCEPT ![r] = IF back THEN Scope ELSE Scope \ keptOut]
    /\ reverse' = [reverse EXCEPT ![r] = back]
    /\ alone' = [q \in Copier |-> IF q = r THEN Busy = {} ELSE alone[q] /\ q \notin Busy]
    /\ broken' = [broken EXCEPT ![r] = FALSE] /\ ended' = [ended EXCEPT ![r] = FALSE]
    /\ UNCHANGED <<storesVars, keptOut, srcList, copies, deletes, moving, changed, wiped, writes, settings, breaks>>
StartMirror(r) ==
    /\ phase[r] = "asked"
    /\ \E back \in {FALSE, CopyBack} : Begin(r, back)
    /\ panelJob' = r
    /\ UNCHANGED begun
\* autoMirror, after a backup.
AutoMirror(r) ==
    /\ phase[r] = "idle" /\ Scope # keptOut
    /\ begun < MaxCopies /\ begun' = begun + 1
    /\ Begin(r, FALSE)
    /\ UNCHANGED panelJob

-----------------------------------------------------------------------------
(* mirror.Run.                                                             *)

InRange(r) == {k \in Keys : k[1] \in range[r]}
Listed(r, store) == {k \in InRange(r) : store[k].ver # 0}

ListSource(r) ==
    /\ phase[r] = "source"
    /\ Goto(r, "destination")
    /\ srcList' = [srcList EXCEPT ![r] = Src(r)]
    /\ changed' = [changed EXCEPT ![r] = {}]
    /\ UNCHANGED <<storesVars, keptOut, panelJob, reverse, range, copies, deletes, moving, broken, ended, alone, wiped, boundVars>>

\* plan, from the two listings.
\* Slip: a file is told from its copy by size alone.
StaleBySize(s, d) == d.ver = 0 \/ Size(d) # Size(s)
Stale(s, d) == d.ver = 0 \/ Size(d) # Size(s) \/ s.at > d.at
\* Slip: only a source that lists nothing at all is spared.
AliveIfAny(r) == IF Listed(r, srcList[r]) = {} THEN {} ELSE Scope
Alive(r) == {k[1] : k \in Listed(r, srcList[r])}
PlanCopy(r) ==
    /\ phase[r] = "destination"
    /\ Goto(r, "copy")
    /\ copies' = [copies EXCEPT ![r] = {k \in Listed(r, srcList[r]) : Stale(srcList[r][k], Dst(r)[k])}]
    /\ deletes' = [deletes EXCEPT ![r] =
          IF reverse[r] THEN {}
          ELSE {k \in Listed(r, Dst(r)) : srcList[r][k].ver = 0 /\ k[1] \in Alive(r)}]
    /\ UNCHANGED <<storesVars, keptOut, panelJob, reverse, range, srcList, moving, broken, ended, pastVars, boundVars>>
ListFails(r) ==
    /\ phase[r] \in {"source", "destination"}
    /\ (ended[r] /\ UNCHANGED breaks) \/ Break
    /\ Goto(r, "end") /\ broken' = [broken EXCEPT ![r] = TRUE]
    /\ UNCHANGED <<storesVars, keptOut, panelJob, reverse, range, srcList, copies, deletes, moving, ended, pastVars,
                   writes, settings, begun>>

copyRest(r) == /\ UNCHANGED <<keptOut, panelJob, phase, reverse, range, srcList, deletes, ended, pastVars, writes, settings, begun>>

\* copyOne: Get, then Put with the size the listing gave.
GetObject(r, k) ==
    /\ phase[r] = "copy" /\ moving[r] = Still /\ ~ended[r] /\ k \in copies[r]
    /\ copies' = [copies EXCEPT ![r] = @ \ {k}]
    /\ \/ Src(r)[k].ver # 0 /\ moving' = [moving EXCEPT ![r] = [key |-> k, ver |-> Src(r)[k].ver]] /\ UNCHANGED <<broken, breaks>>
       \/ /\ (Src(r)[k].ver = 0 /\ UNCHANGED breaks) \/ Break
          /\ broken' = [broken EXCEPT ![r] = TRUE] /\ UNCHANGED moving
    /\ UNCHANGED storesVars /\ copyRest(r)
PutObject(r) ==
    /\ phase[r] = "copy" /\ moving[r] # Still
    /\ moving' = [moving EXCEPT ![r] = Still]
    /\ LET k == moving[r].key
           fits == Size(moving[r]) = Size(srcList[r][k])
       IN \/ /\ fits /\ ~ended[r]
             /\ SetDst(r, [Dst(r) EXCEPT ![k] = [ver |-> moving[r].ver, at |-> time + 1]])
             /\ time' = time + 1
             /\ UNCHANGED <<broken, breaks>>
          \/ /\ ((~fits \/ ended[r]) /\ UNCHANGED breaks) \/ Break
             /\ broken' = [broken EXCEPT ![r] = TRUE] /\ UNCHANGED storesVars
    /\ UNCHANGED copies /\ copyRest(r)

\* Deletions go last, and only if the run was not stopped.
DeletesDue(r) == phase[r] = "copy" /\ moving[r] = Still /\ (copies[r] = {} \/ ended[r])
DeleteBatch(r) ==
    /\ DeletesDue(r)
    /\ Goto(r, "end")
    /\ IF ended[r] THEN UNCHANGED <<main, second, broken, breaks>>
       ELSE \/ SetDst(r, [k \in Keys |-> IF k \in deletes[r] THEN Gone ELSE Dst(r)[k]]) /\ UNCHANGED <<broken, breaks>>
            \/ /\ deletes[r] # {} /\ Break /\ broken' = [broken EXCEPT ![r] = TRUE]
               /\ \E some \in SUBSET deletes[r] : SetDst(r, [k \in Keys |-> IF k \in some THEN Gone ELSE Dst(r)[k]])
    /\ UNCHANGED <<time, keptOut, panelJob, reverse, range, srcList, copies, deletes, moving, ended, pastVars, writes, settings, begun>>

\* The report, or the end of the process; the panel's job is dismissed.
Reset(r) ==
    /\ Goto(r, "idle")
    /\ panelJob' = IF panelJob = r THEN Nobody ELSE panelJob
    /\ copies' = [copies EXCEPT ![r] = {}] /\ deletes' = [deletes EXCEPT ![r] = {}] /\ moving' = [moving EXCEPT ![r] = Still]
    /\ UNCHANGED <<storesVars, keptOut, reverse, range, srcList, broken, ended, pastVars, writes, settings, begun>>
FinishMirror(r) == phase[r] = "end" /\ Reset(r) /\ UNCHANGED breaks
Killed(r) == phase[r] \notin {"idle", "end"} /\ Break /\ Reset(r)
\* mirrorCancel reaches the panel's job; Ctrl-C its own.
CancelMirror(r) ==
    /\ phase[r] \in {"source", "destination", "copy"} /\ ~ended[r] /\ Break
    /\ ended' = [ended EXCEPT ![r] = TRUE]
    /\ UNCHANGED <<storesVars, keptOut, panelJob, phase, reverse, range, srcList, copies, deletes, moving, broken,
                   pastVars, writes, settings, begun>>

-----------------------------------------------------------------------------
(* The backups, and what a person decides about them.                      *)

Quiet(k) == BusyCopies \/ \A r \in Copier : moving[r].key # k
Touch(ks) == changed' = [r \in Copier |-> changed[r] \cup ks]

\* A backup stores a version of a file, or deletes it.
StoreMain(k) ==
    /\ Quiet(k) /\ writes < MaxWrites /\ writes' = writes + 1
    /\ \/ main' = [main EXCEPT ![k] = [ver |-> writes + 2, at |-> time + 1]]
       \/ main' = [main EXCEPT ![k] = Gone] /\ \E j \in KeysOf(k[1]) \ {k} : main[j].ver # 0
    /\ time' = time + 1 /\ Touch({k})
    /\ wiped' = [wiped EXCEPT ![k[1]] = {}]
    /\ UNCHANGED <<second, keptOut, panelJob, copierVars, alone, settings, breaks, begun>>

HeldOf(store, s) == {[key |-> k, ver |-> store[k].ver] : k \in {j \in KeysOf(s) : store[j].ver # 0}}

\* storedDelete and remove --purge: a whole backup goes, from the second copy
\* too when that is asked for. It waits for a backup, not for a copy.
DropBackup(s, both) ==
    /\ settings < MaxSettings /\ settings' = settings + 1
    /\ \A k \in KeysOf(s) : Quiet(k)
    /\ main' = [k \in Keys |-> IF k[1] = s THEN Gone ELSE main[k]]
    /\ second' = IF both THEN [k \in Keys |-> IF k[1] = s THEN Gone ELSE second[k]] ELSE second
    /\ wiped' = [wiped EXCEPT ![s] = IF both \/ Busy # {} THEN {} ELSE HeldOf(second, s)]
    /\ Touch(KeysOf(s))
    /\ UNCHANGED <<time, keptOut, panelJob, copierVars, alone, writes, breaks, begun>>

\* setFolderSecondary: off, off with what is there dropped (refused while a
\* copy of the panel runs), on.
FolderOff(s, drop) ==
    /\ s \notin keptOut /\ settings < MaxSettings /\ settings' = settings + 1
    /\ drop => panelJob = Nobody
    /\ keptOut' = keptOut \cup {s}
    /\ IF drop THEN /\ second' = [k \in Keys |-> IF k[1] = s THEN Gone ELSE second[k]]
                    /\ Touch(KeysOf(s)) /\ wiped' = [wiped EXCEPT ![s] = {}]
       ELSE UNCHANGED <<second, changed, wiped>>
    /\ UNCHANGED <<main, time, panelJob, copierVars, alone, writes, breaks, begun>>
FolderOn(s) ==
    /\ s \in keptOut /\ settings < MaxSettings /\ settings' = settings + 1
    /\ keptOut' = keptOut \ {s}
    /\ UNCHANGED <<storesVars, panelJob, copierVars, pastVars, writes, breaks, begun>>

RunOf(r) == \/ StartMirror(r) \/ ListSource(r) \/ PlanCopy(r) \/ ListFails(r) \/ PutObject(r)
            \/ (\E k \in Keys : GetObject(r, k)) \/ DeleteBatch(r) \/ FinishMirror(r)
MirrorNext == \/ \E r \in Copier : RunOf(r) \/ AskMirror(r) \/ AutoMirror(r) \/ Killed(r) \/ CancelMirror(r)
              \/ \E k \in Keys : StoreMain(k)
              \/ \E s \in Scope : FolderOn(s) \/ \E b \in BOOLEAN : FolderOff(s, b) \/ DropBackup(s, b)
MirrorSpec == MirrorInit /\ [][MirrorNext]_mirrorVars

-----------------------------------------------------------------------------
(* Properties.                                                             *)

Object == [ver : Nat, at : Nat]
MirrorTypeOK ==
    /\ main \in [Keys -> Object] /\ second \in [Keys -> Object]
    /\ keptOut \subseteq Scope /\ panelJob \in Copier \cup {Nobody}
    /\ phase \in [Copier -> {"idle", "asked", "source", "destination", "copy", "end"}]
    /\ copies \in [Copier -> SUBSET Keys] /\ deletes \in [Copier -> SUBSET Keys]

\* The day the source goes wrong: of a backup deleted from where backups go
\* only, the second copy keeps all it had, however many copies run after it.
DeletedBackupStays == \A s \in Scope : wiped[s] \subseteq HeldOf(second, s)

\* A copy that met no failure, no stop and no other copy leaves the second
\* store as the first: every key not written meanwhile, of every backup the
\* source still has.
CopyIsExact ==
    \A r \in Copier :
        phase[r] = "end" /\ ~broken[r] /\ ~ended[r] /\ alone[r] /\ ~reverse[r] =>
            \A k \in InRange(r) \ changed[r] : k[1] \in Alive(r) => second[k].ver = main[k].ver

\* "Fills in what's missing. Removes nothing.": copying back puts no older
\* version over one that was stored before the copy looked.
CopyBackOnlyFills ==
    [][\A r \in Copier, k \in Keys :
          PutObject(r) /\ reverse[r] /\ moving[r].key = k /\ k \notin changed[r]
             => main[k].ver <= main'[k].ver]_mirrorVars
=============================================================================
