------------------------------ MODULE Restore ------------------------------
(***************************************************************************)
(* Bringing files back: the panel's one restore (cli/tray_restore), the    *)
(* list and plan of restore.runSet, the newest trashed version that        *)
(* runDeleted looks for, and the workers that fetch each object and put it *)
(* on a disk its owner goes on using while a backup goes on storing.       *)
(*                                                                         *)
(* An entry of the disk is what lies at a path: whose version (0 is the    *)
(* person's own), of which kind, and whether it is all there.              *)
(***************************************************************************)
EXTENDS Naturals, FiniteSets

CONSTANTS Path, Links,   \* paths, and those whose objects are symlinks
          Fetcher,       \* download workers
          Absent,
          MaxRestores, MaxStores, MaxOwn, MaxSlips, MaxKills  \* bounds for TLC

ASSUME RestoreAssumption == Absent \notin Fetcher

VARIABLES
    stored,    \* version of each live object, 0 for none
    binned,    \* trashed versions: path, day, second of that day, version
    disk,      \* what lies at each path
    temps,     \* .r2restore- files: path and whether it is all there
    listing,   \* restoreTree's cached listing
    job,       \* the panel's restore: phase, overwrite, deleted or not
    picked,    \* OnlyAny, {} for everything
    jobs, fetching, got, \* items left, what each worker is at, its object
    results,   \* skipped, restored, failed, mismatched paths
    stop,      \* its context was cancelled
    before, touched, wanted, newest, \* history: disk at the plan, paths others changed since,
                                     \* what the listing had of what was asked for, latest version binned
    restores, stores, owns, slips, kills

storageVars == <<stored, binned>>
jobVars  == <<job, picked, jobs, fetching, got, results, stop, before, wanted, newest>>
countVars == <<restores, stores, owns, slips, kills>>
restoreVars == <<storageVars, disk, temps, listing, jobVars, touched, countVars>>

Nil    == [kind |-> "none", ver |-> 0, whole |-> TRUE]
Own    == [kind |-> "file", ver |-> 0, whole |-> TRUE]
Put(p, v) == [kind |-> IF p \in Links THEN "link" ELSE "file", ver |-> v, whole |-> TRUE]
NoRestore  == [phase |-> "none", over |-> FALSE, deleted |-> FALSE]
Idle   == [p |-> Absent, step |-> "idle"]
NoResults == [skipped |-> {}, restored |-> {}, failed |-> {}, mismatched |-> {}]

\* Every version was binned on a later day than the one before, at an earlier hour.
Stamp(p, sec, v) == [path |-> p, day |-> v, sec |-> sec, ver |-> v]

\* Two versions of each file have been replaced, and the disk is lost.
RestoreInit ==
    /\ stored = [p \in Path |-> 3]
    /\ binned = {Stamp(p, 2 - v, v) : p \in Path, v \in 1..2}
    /\ disk = [p \in Path |-> Nil] /\ temps = {} /\ listing = {}
    /\ job = NoRestore /\ picked = {} /\ jobs = {} /\ fetching = [w \in Fetcher |-> Idle]
    /\ got = [w \in Fetcher |-> 0] /\ results = NoResults /\ stop = FALSE
    /\ before = disk /\ touched = {} /\ wanted = {} /\ newest = 0
    /\ restores = 0 /\ stores = 0 /\ owns = 0 /\ slips = 0 /\ kills = 0

Live == {p \in Path : stored[p] # 0}
\* No change is of interest after the last restore.
Watched == job.phase \in {"list", "fetch"} \/ restores < MaxRestores
Slip == slips < MaxSlips /\ slips' = slips + 1

-----------------------------------------------------------------------------
(* The panel.                                                              *)

\* restoreTree: listed again, or answered from a cache of five minutes.
Browse ==
    /\ Watched /\ listing' = Live
    /\ UNCHANGED <<storageVars, disk, temps, jobVars, touched, countVars>>

\* startRestore, of everything or of what was picked in the tree.
StartRestore ==
    /\ job.phase \in {"none", "ok", "error", "stopped"} /\ restores < MaxRestores
    /\ restores' = restores + 1
    /\ \E over \in BOOLEAN :
         \/ picked' \in SUBSET listing /\ job' = [phase |-> "list", over |-> over, deleted |-> FALSE]
         \/ \E p \in Path : picked' = {p} /\ job' = [phase |-> "list", over |-> over, deleted |-> TRUE]
    /\ results' = NoResults /\ stop' = FALSE /\ jobs' = {}
    /\ UNCHANGED <<storageVars, disk, temps, listing, fetching, got, before, touched, wanted, newest, stores, owns, slips, kills>>
CancelRestore ==
    /\ job.phase \in {"list", "fetch"} /\ ~stop
    /\ stop' = TRUE
    /\ UNCHANGED <<storageVars, disk, temps, listing, job, picked, jobs, fetching, got, results, before, touched, wanted, newest, countVars>>
DismissRestore ==
    /\ job.phase \in {"ok", "error", "stopped"}
    /\ job' = NoRestore /\ picked' = {} /\ results' = NoResults /\ stop' = FALSE
    /\ before' = disk /\ touched' = {} /\ wanted' = {} /\ newest' = 0
    /\ UNCHANGED <<storageVars, disk, temps, listing, jobs, fetching, got, countVars>>

\* The job ends with an error: "Stopped" if that is why.
EndWith(bad) ==
    job' = [job EXCEPT !.phase = IF ~bad THEN "ok" ELSE IF stop THEN "stopped" ELSE "error"]

-----------------------------------------------------------------------------
(* List and plan.                                                          *)

\* findInTrash: the latest date, then the latest time of that date.
\* Slip: by the time of day alone.
LaterInDay(a, b) == a.sec > b.sec
Later(a, b) == a.day > b.day \/ (a.day = b.day /\ a.sec > b.sec)
Versions(p) == {b \in binned : b.path = p}
findInTrash(p) == CHOOSE b \in Versions(p) : \A c \in Versions(p) : c = b \/ Later(b, c)

\* os.Lstat: a link that points nowhere counts as something.
Exists(p) == disk[p].kind # "none"

\* List and buildPlan of runSet.
PlanSet ==
    /\ job.phase = "list" /\ ~job.deleted /\ ~stop
    /\ LET chosen == IF picked = {} THEN Live ELSE Live \cap picked
           skip   == {p \in chosen : ~job.over /\ Exists(p)}
       IN /\ results' = [results EXCEPT !.skipped = skip]
          /\ IF chosen \subseteq skip
               THEN EndWith(chosen = {}) /\ UNCHANGED jobs
               ELSE /\ job' = [job EXCEPT !.phase = "fetch"]
                    /\ jobs' = {[p |-> p, ver |-> 0] : p \in chosen \ skip}
          /\ wanted' = chosen
    /\ before' = disk /\ touched' = {} /\ newest' = 0
    /\ UNCHANGED <<storageVars, disk, temps, listing, picked, fetching, got, stop, countVars>>

\* runDeleted: one key, fixed by the listing.
PlanDeleted ==
    /\ job.phase = "list" /\ job.deleted /\ ~stop
    /\ LET p == CHOOSE q \in picked : TRUE
       IN IF Versions(p) = {} THEN EndWith(TRUE) /\ UNCHANGED <<jobs, results, newest>>
          ELSE /\ newest' = (CHOOSE b \in Versions(p) : \A c \in Versions(p) : c.ver <= b.ver).ver
               /\ IF ~job.over /\ Exists(p)
                    THEN EndWith(FALSE) /\ results' = [results EXCEPT !.skipped = {p}] /\ UNCHANGED jobs
                    ELSE /\ jobs' = {[p |-> p, ver |-> findInTrash(p).ver]}
                         /\ job' = [job EXCEPT !.phase = "fetch"]
                         /\ UNCHANGED results
    /\ before' = disk /\ touched' = {} /\ wanted' = picked
    /\ UNCHANGED <<storageVars, disk, temps, listing, picked, fetching, got, stop, countVars>>
PlanFails ==
    /\ job.phase = "list"
    /\ (stop /\ UNCHANGED slips) \/ Slip
    /\ EndWith(TRUE)
    /\ UNCHANGED <<storageVars, disk, temps, listing, picked, jobs, fetching, got, results, stop, before, touched, wanted, newest,
                   restores, stores, owns, kills>>

-----------------------------------------------------------------------------
(* The workers.                                                            *)

Step(w, s) == fetching' = [fetching EXCEPT ![w].step = s]
Done(w, list) ==
    /\ fetching' = [fetching EXCEPT ![w] = Idle]
    /\ got' = [got EXCEPT ![w] = 0]
    /\ results' = [results EXCEPT ![list] = @ \cup {fetching[w].p}]
storageRest == <<storageVars, listing, job, picked, jobs, stop, before, touched, wanted, newest, restores, stores, owns, kills>>

\* A job taken after the cancel is left unreported.
Dispatch(w) ==
    /\ job.phase = "fetch" /\ fetching[w] = Idle
    /\ \E j \in jobs :
         /\ jobs' = jobs \ {j}
         /\ IF stop THEN UNCHANGED <<fetching, got>>
            ELSE /\ fetching' = [fetching EXCEPT ![w] = [p |-> j.p, step |-> "get"]]
                 /\ got' = [got EXCEPT ![w] = j.ver]
    /\ UNCHANGED <<storageVars, disk, temps, listing, job, picked, results, stop, before, touched, wanted, newest, countVars>>

\* Get: the object as it is now, or the trashed version the plan names.
Held(w) == LET p == fetching[w].p
           IN IF ~job.deleted THEN stored[p]
              ELSE IF \E b \in Versions(p) : b.ver = got[w] THEN got[w] ELSE 0
Get(w) ==
    /\ fetching[w].step = "get"
    /\ \/ /\ Held(w) # 0 /\ ~stop
          /\ got' = [got EXCEPT ![w] = Held(w)]
          /\ Step(w, IF fetching[w].p \in Links THEN "unlink" ELSE "copy")
          /\ UNCHANGED <<results, slips>>
       \/ (Held(w) = 0 \/ stop) /\ Done(w, "failed") /\ UNCHANGED slips
       \/ Held(w) # 0 /\ Slip /\ Done(w, "failed")
    /\ UNCHANGED <<disk, temps, storageRest>>

\* restoreFile: the temporary file, filled, then renamed over the path.
OpenTemp(w) ==
    /\ fetching[w].step = "copy"
    /\ \A t \in temps : t.owner # w
    /\ temps' = temps \cup {[owner |-> w, path |-> fetching[w].p, whole |-> FALSE]}
    /\ UNCHANGED <<disk, fetching, got, results, slips, storageRest>>
Mine(w) == CHOOSE t \in temps : t.owner = w
\* Slip: the error of io.Copy is not looked at.
CopiedRegardless(w) ==
    /\ fetching[w].step = "copy" /\ \E t \in temps : t.owner = w
    /\ \/ temps' = (temps \ {Mine(w)}) \cup {[Mine(w) EXCEPT !.whole = TRUE]} /\ UNCHANGED slips
       \/ Slip /\ UNCHANGED temps
    /\ Step(w, "place")
    /\ UNCHANGED <<disk, got, results, storageRest>>
Copied(w) ==
    /\ fetching[w].step = "copy" /\ \E t \in temps : t.owner = w
    /\ \/ /\ temps' = (temps \ {Mine(w)}) \cup {[Mine(w) EXCEPT !.whole = TRUE]}
          /\ Step(w, "place")
          /\ UNCHANGED <<got, results, slips>>
       \/ /\ (stop /\ UNCHANGED slips) \/ Slip
          /\ temps' = temps \ {Mine(w)}
          /\ Done(w, "failed")
    /\ UNCHANGED <<disk, storageRest>>
Place(w) ==
    /\ fetching[w].step = "place"
    /\ temps' = temps \ {Mine(w)}
    /\ \/ /\ disk' = [disk EXCEPT ![fetching[w].p] = [Put(fetching[w].p, got[w]) EXCEPT !.whole = Mine(w).whole]]
          /\ Step(w, "verify")
          /\ UNCHANGED <<got, results, slips>>
       \/ Slip /\ Done(w, "failed") /\ UNCHANGED disk
    /\ UNCHANGED storageRest

\* verifyFile, when asked for, finds what was written or something else.
Verify(w) ==
    /\ fetching[w].step = "verify"
    /\ IF disk[fetching[w].p] = Put(fetching[w].p, got[w])
         THEN Done(w, "restored")
         ELSE \E l \in {"restored", "mismatched"} : Done(w, l)
    /\ UNCHANGED <<disk, temps, slips, storageRest>>

\* restoreSymlink: what was there is removed, then the link is made.
Unlink(w) ==
    /\ fetching[w].step = "unlink"
    /\ disk' = [disk EXCEPT ![fetching[w].p] = Nil]
    /\ Step(w, "link")
    /\ UNCHANGED <<temps, got, results, slips, storageRest>>
Symlink(w) ==
    /\ fetching[w].step = "link"
    /\ \/ /\ ~Exists(fetching[w].p)
          /\ disk' = [disk EXCEPT ![fetching[w].p] = Put(fetching[w].p, got[w])]
          /\ Done(w, "restored")
          /\ UNCHANGED slips
       \/ Exists(fetching[w].p) /\ Done(w, "failed") /\ UNCHANGED <<disk, slips>>
       \/ Slip /\ Done(w, "failed") /\ UNCHANGED disk
    /\ UNCHANGED <<temps, storageRest>>

\* wg.Wait, and what dashboard.Restore makes of the report.
FinishRestore ==
    /\ job.phase = "fetch" /\ jobs = {} /\ \A w \in Fetcher : fetching[w] = Idle
    /\ EndWith(\/ results.failed \cup results.mismatched # {}
               \/ picked # {} /\ ~job.deleted /\ results.restored \cup results.skipped = {})
    /\ UNCHANGED <<storageVars, disk, temps, listing, picked, jobs, fetching, got, results, stop, before, touched, wanted, newest, countVars>>
-----------------------------------------------------------------------------
(* The world: a backup, the person at the disk, a trash that is emptied.   *)

Store(p) ==
    /\ Watched /\ stores < MaxStores /\ stores' = stores + 1
    /\ \E v \in {0, stores + 4} : stored' = [stored EXCEPT ![p] = v]
    /\ binned' = IF stored[p] = 0 THEN binned ELSE binned \cup {Stamp(p, 0, stored[p])}
    /\ UNCHANGED <<disk, temps, listing, jobVars, touched, restores, owns, slips, kills>>
\* trashDelete: all that is binned of one path.
TrashDelete(p) ==
    /\ Watched /\ stores < MaxStores /\ stores' = stores + 1
    /\ binned' = binned \ Versions(p)
    /\ UNCHANGED <<stored, disk, temps, listing, jobVars, touched, restores, owns, slips, kills>>
Save(p) ==
    /\ Watched /\ owns < MaxOwn /\ owns' = owns + 1
    /\ disk' \in {[disk EXCEPT ![p] = Own], [disk EXCEPT ![p] = Nil]}
    /\ touched' = touched \cup {p}
    /\ UNCHANGED <<storageVars, temps, listing, jobVars, restores, stores, slips, kills>>
Kill ==
    /\ job.phase \in {"list", "fetch"} /\ kills < MaxKills
    /\ kills' = kills + 1
    /\ job' = NoRestore /\ jobs' = {} /\ fetching' = [w \in Fetcher |-> Idle] /\ got' = [w \in Fetcher |-> 0]
    /\ temps' = {[t EXCEPT !.owner = Absent] : t \in temps}
    /\ listing' = {} /\ picked' = {} /\ results' = NoResults /\ stop' = FALSE
    /\ before' = disk /\ touched' = {} /\ wanted' = {} /\ newest' = 0
    /\ UNCHANGED <<storageVars, disk, restores, stores, owns, slips>>

Fetch(w) == \/ Dispatch(w) \/ Get(w) \/ OpenTemp(w) \/ Copied(w) \/ Place(w)
            \/ Verify(w) \/ Unlink(w) \/ Symlink(w)
RestoreGoesOn  == PlanSet \/ PlanDeleted \/ PlanFails \/ FinishRestore \/ \E w \in Fetcher : Fetch(w)
RestoreNext == \/ RestoreGoesOn \/ Browse \/ StartRestore \/ CancelRestore \/ DismissRestore \/ Kill
               \/ \E p \in Path : Store(p) \/ TrashDelete(p) \/ Save(p)
RestoreSpec == RestoreInit /\ [][RestoreNext]_restoreVars

-----------------------------------------------------------------------------
(* Properties.                                                             *)

RestoreTypeOK ==
    /\ stored \in [Path -> Nat]
    /\ disk \in [Path -> [kind : {"none", "file", "link"}, ver : Nat, whole : BOOLEAN]]
    /\ listing \subseteq Path /\ picked \subseteq Path
    /\ job.phase \in {"none", "list", "fetch", "ok", "error", "stopped"}
    /\ \A w \in Fetcher : fetching[w].step \in {"idle", "get", "copy", "place", "verify", "unlink", "link"}
    /\ got \in [Fetcher -> Nat]

\* A restore leaves a path as it was or puts a whole object there: a killed or
\* failed download never shows, one reported failed has not replaced a file,
\* and without Overwrite what the plan met is still there.
OwnFilesKept ==
    \A p \in Path \ touched :
        \/ disk[p] = before[p]
        \/ /\ p \notin results.skipped \cup (results.failed \ Links)
           /\ disk[p].whole /\ (disk[p].ver # 0 \/ p \in Links)

\* A restore that was not stopped and says it went well has brought back all
\* it was asked for: each path was already there, or now holds a stored version,
\* of a deleted file the one trashed last; and it left nothing else behind.
SuccessIsComplete ==
    job.phase = "ok" /\ ~stop =>
        /\ \A p \in wanted :
             p \in touched \cup results.skipped \/ disk[p].ver # 0
        /\ job.deleted => \A p \in picked \ (touched \cup results.skipped) : disk[p].ver = newest
        /\ kills = 0 => temps = {}
=============================================================================
