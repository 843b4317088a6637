------------------------------- MODULE Backup -------------------------------
(***************************************************************************)
(* One backup set through its runs: internal/backup (Run, checkpointer),   *)
(* the transfer half of internal/engine, the decisions of internal/plan,   *)
(* internal/trash Move and Prune, and the store contract those rely on.    *)
(*                                                                         *)
(* Three things have to be kept in step: the folder on disk, the local     *)
(* index (what a run believes is in storage) and the storage itself.       *)
(* Between them run a scan, a plan, a trash step, concurrent uploads and   *)
(* renames, a checkpointer that writes the index while they go, deletes,   *)
(* a flush and the final record.  People edit files meanwhile, requests    *)
(* fail, runs are cancelled and the machine crashes.                       *)
(*                                                                         *)
(* The store is the one every command opens (cli/store.go): a              *)
(* bundle.Store over S3 or Drime.  packing FALSE is bundling off, where a  *)
(* write is in storage when it returns; packing TRUE is bundling on with   *)
(* files small enough to be packed, where it is in storage only after the  *)
(* pack is sent and the bundle index is saved.                             *)
(*                                                                         *)
(* A definition introduced as a slip is not part of the model. It is the   *)
(* definition after it with a plausible mistake in it; put in its place,   *)
(* it breaks the property README.md names.                                 *)
(***************************************************************************)
EXTENDS Naturals, FiniteSets

CONSTANTS
    Key,            \* paths inside the set
    Version,        \* contents a file can have; each has its own size and mtime
    None,           \* no file, no record, no object
    Torn,           \* an object whose bytes or date mix two contents of a file
    Bundling,       \* whether bundling is on: what a behaviour may start with
    RetentionDays,  \* days the set keeps trash, 0 for no trash
    Renames,        \* files are renamed and copied, so a fingerprint can recur
    BusyDisk,       \* files change while a run is going on
    Unreadable,     \* the scan may fail to read a file or its directory
    Returns,        \* a file can come back to the size and mtime on record
    MaxEdits,       \* bound: changes made on disk
    MaxFaults,      \* bound: requests and file operations that fail
    MaxStops,       \* bound: crashes and cancellations
    MaxDays         \* bound: midnights

ASSUME NoneAssumption == None \notin Version /\ Torn \notin Version /\ None # Torn
                         /\ None \notin Key
ASSUME SwitchAssumption == Bundling \cup {Renames, BusyDisk, Unreadable, Returns} \subseteq BOOLEAN
ASSUME BoundAssumption ==
    {RetentionDays, MaxEdits, MaxFaults, MaxStops, MaxDays} \subseteq Nat

VARIABLES
    disk,          \* what the folder holds
    index,         \* the local index: the version recorded for each key
    current,       \* <prefix>/current/ as this process reads it, sealed packs only
    spool,         \* entries of the pack still being filled
    trash,         \* <prefix>/trash/ as this process reads it: <<key, content, date>>
    packing,       \* bundling is on
    failed,        \* space.failed: a pack was lost after its Puts returned
    savedCurrent,  \* what any other process, or this one restarted, would read
    savedTrash,
    claimed,       \* today's prune has been claimed
    phase,         \* where backup.run is
    todo,          \* what is left of the loop the phase is in
    seen,          \* scan.Walk's answer
    source,        \* the plan's renames: source[to] = from
    deletes,       \* the plan's deletes
    job,           \* each upload's or rename's progress through the engine
    pre,           \* the stat taken just before an upload
    retried,       \* uploads on their one retry after a change mid-upload
    landed,        \* checkpointer.landed
    batch,         \* the landed files a tick has in hand
    tick,          \* where the checkpointer's goroutine is
    deleted,       \* Result.Deleted > 0
    cancelled,     \* ctx is cancelled
    err,           \* the trash step met an error
    edits, faults, stops, day

storeVars == <<packing, current, spool, trash, failed, savedCurrent, savedTrash>>
planVars  == <<seen, source, deletes>>
workVars  == <<job, pre, retried>>
tickVars  == <<landed, batch, tick>>
runVars   == <<phase, todo, planVars, workVars, tickVars, deleted, cancelled, err>>
envVars   == <<edits, stops, day>>
vars == <<disk, index, storeVars, claimed, runVars, envVars, faults>>

Content == Version \cup {Torn}
Nothing == [k \in Key |-> None]

(***************************************************************************)
(* The store.  Reading k looks in the pack being filled first.             *)
(***************************************************************************)
Read(k) == IF spool[k] # None THEN spool[k] ELSE current[k]
Sealed  == [k \in Key |-> Read(k)]

\* Set what the process reads; a store that holds nothing back has it saved too.
SetStore(cur, pack, bin) ==
    /\ UNCHANGED packing
    /\ current' = cur
    /\ spool' = pack
    /\ trash' = bin
    /\ savedCurrent' = IF packing THEN savedCurrent ELSE cur
    /\ savedTrash' = IF packing THEN savedTrash ELSE bin

\* Put of k: into the pack being filled, which may thereby be full and sent,
\* or as an object of its own.
StorePut(k, c) ==
    IF packing
    THEN \/ SetStore(current, [spool EXCEPT ![k] = c], trash)
         \/ SetStore([Sealed EXCEPT ![k] = c], Nothing, trash)
    ELSE SetStore([current EXCEPT ![k] = c], spool, trash)

\* The key of every object in gone is empty afterwards; a missing one is no error.
StoreDelete(gone) ==
    SetStore([k \in Key |-> IF k \in gone THEN None ELSE current[k]],
             [k \in Key |-> IF k \in gone THEN None ELSE spool[k]], trash)
\* Slip: a lost pack is not counted as held back.
PendingWithoutFailed == spool # Nothing \/ current # savedCurrent \/ trash # savedTrash

\* Something a write returned for is not in storage yet.
Pending == \/ spool # Nothing
           \/ failed
           \/ current # savedCurrent
           \/ trash # savedTrash

\* The pack is sent and the index saved.
SaveAll == /\ current' = Sealed
           /\ spool' = Nothing
           /\ savedCurrent' = Sealed
           /\ savedTrash' = trash
           /\ UNCHANGED <<packing, trash>>

\* The pack could not be sent: its files, whose Puts returned, are gone.
SealFails == /\ spool # Nothing
             /\ SetStore(current, Nothing, trash)

\* The pack was sent, the index could not be saved: everything stays held back.
IndexFails == /\ packing
              /\ SetStore(Sealed, Nothing, trash)

Fault == faults < MaxFaults /\ faults' = faults + 1
NoFault == UNCHANGED faults

\* A request that fails: it met a fault, or the run's context is cancelled.
RequestFails == Fault \/ (cancelled /\ NoFault)
\* Slip: a lost pack is reported by every flush after it.
FlushReportsForever == failed /\ SaveAll /\ UNCHANGED failed

\* FlushStore and what it can answer. A pack lost earlier is reported once.
FlushOk      == ~failed /\ SaveAll /\ UNCHANGED failed
FlushReports == failed /\ SaveAll /\ failed' = FALSE
FlushFails   == /\ packing => Pending
                /\ SealFails \/ IndexFails \/ (~packing /\ SetStore(current, spool, trash))
                /\ failed' = FALSE

(***************************************************************************)
(* Between runs.                                                           *)
(***************************************************************************)
RunAtRest ==
    /\ phase = "idle" /\ todo = {}
    /\ seen = Nothing /\ source = Nothing /\ deletes = {}
    /\ job = [k \in Key |-> "none"] /\ pre = Nothing /\ retried = {}
    /\ landed = Nothing /\ batch = Nothing /\ tick = "idle"
    /\ deleted = FALSE /\ cancelled = FALSE /\ err = FALSE

\* The run returns: everything it kept in memory is gone.
RunOver ==
    /\ phase' = "idle" /\ todo' = {}
    /\ seen' = Nothing /\ source' = Nothing /\ deletes' = {}
    /\ job' = [k \in Key |-> "none"] /\ pre' = Nothing /\ retried' = {}
    /\ landed' = Nothing /\ batch' = Nothing /\ tick' = "idle"
    /\ deleted' = FALSE /\ cancelled' = FALSE /\ err' = FALSE

\* The folder was backed up before, and nothing has changed since.
Init ==
    /\ disk \in [Key -> Version \cup {None}]
    /\ Renames \/ \A a, b \in Key : disk[a] = disk[b] => a = b \/ disk[a] = None
    /\ packing \in Bundling
    /\ index = disk /\ current = disk /\ savedCurrent = disk
    /\ spool = Nothing /\ trash = {} /\ savedTrash = {} /\ failed = FALSE
    /\ claimed = FALSE
    /\ RunAtRest
    /\ edits = 0 /\ faults = 0 /\ stops = 0 /\ day = 0

(***************************************************************************)
(* The world around a run.                                                 *)
(***************************************************************************)
InUpload(k) == job[k] \in {"sending", "sent"}

Edit == /\ edits < MaxEdits /\ edits' = edits + 1
        /\ BusyDisk \/ phase = "idle"

\* A save or a new file. It changes the size or the mtime, which is what the
\* stats around an upload go by.
Save(k, v) ==
    /\ Edit
    /\ v # disk[k]
    /\ InUpload(k) => v # pre[k]
    /\ Returns \/ index[k] # v
    /\ Renames \/ \A o \in Key \ {k} : v \notin {disk[o], index[o], pre[o]}
    /\ disk' = [disk EXCEPT ![k] = v]
    /\ UNCHANGED <<index, storeVars, claimed, runVars, faults, stops, day>>

Remove(k) ==
    /\ Edit
    /\ disk[k] # None
    /\ disk' = [disk EXCEPT ![k] = None]
    /\ UNCHANGED <<index, storeVars, claimed, runVars, faults, stops, day>>

\* A rename keeps the size and the mtime.
Rename(a, b) ==
    /\ Edit /\ Renames
    /\ disk[a] # None /\ disk[b] = None
    /\ InUpload(b) => disk[a] # pre[b]
    /\ Returns \/ index[b] # disk[a]
    /\ disk' = [disk EXCEPT ![a] = None, ![b] = disk[a]]
    /\ UNCHANGED <<index, storeVars, claimed, runVars, faults, stops, day>>

\* Runs are taken to be shorter than a day.
Midnight ==
    /\ phase = "idle" /\ day < MaxDays
    /\ day' = day + 1
    /\ claimed' = FALSE
    /\ UNCHANGED <<disk, index, storeVars, runVars, edits, faults, stops>>

\* Someone stops the run.
Cancel ==
    /\ phase \notin {"idle", "closing"} /\ ~cancelled
    /\ stops < MaxStops /\ stops' = stops + 1
    /\ cancelled' = TRUE
    /\ UNCHANGED <<disk, index, storeVars, claimed, phase, todo, planVars, workVars,
                   tickVars, deleted, err, edits, faults, day>>

\* A process that opens the store sees what was saved.
Reopened ==
    /\ current' = savedCurrent /\ trash' = savedTrash
    /\ spool' = Nothing /\ failed' = FALSE
    /\ UNCHANGED <<packing, savedCurrent, savedTrash>>

\* The machine, or the process, goes away during a run.
Crash ==
    /\ phase # "idle"
    /\ stops < MaxStops /\ stops' = stops + 1
    /\ Reopened /\ RunOver
    /\ UNCHANGED <<disk, index, claimed, edits, faults, day>>

\* A command line run ends with its process; the tray keeps its store.
Exit ==
    /\ phase = "idle" /\ Pending
    /\ Reopened
    /\ UNCHANGED <<disk, index, claimed, runVars, envVars, faults>>

(***************************************************************************)
(* Start, scan and plan.                                                   *)
(***************************************************************************)
Goto(p, left) == phase' = p /\ todo' = left

\* Earlier changes are flushed, then the scan starts.
Start ==
    /\ phase = "idle"
    /\ \/ FlushOk /\ NoFault /\ Goto("scan", Key)
       \/ FlushReports /\ NoFault /\ Goto("closing", {})
       \/ FlushFails /\ Fault /\ Goto("closing", {})
    /\ UNCHANGED <<disk, index, claimed, planVars, workVars, tickVars, deleted,
                   cancelled, err, envVars>>

\* scan.Walk stats one file. What cannot be read is a problem to report, and
\* left out of the answer like a file that is gone.
Scan(k) ==
    /\ phase = "scan" /\ k \in todo
    /\ \/ seen' = [seen EXCEPT ![k] = disk[k]] /\ NoFault
       \/ Unreadable /\ Fault /\ UNCHANGED seen
    /\ Goto("scan", todo \ {k})
    /\ UNCHANGED <<disk, index, storeVars, claimed, source, deletes, workVars, tickVars,
                   deleted, cancelled, err, envVars>>

\* The folder cannot be walked, or the run is cancelled meanwhile.
ScanFails ==
    /\ phase = "scan"
    /\ RequestFails
    /\ Goto("closing", {})
    /\ UNCHANGED <<disk, index, storeVars, claimed, planVars, workVars, tickVars,
                   deleted, cancelled, err, envVars>>
\* Slip: a changed file counts as deleted.
VanishedOrChanged == {k \in Key : index[k] # None /\ seen[k] # index[k]}

Vanished  == {k \in Key : index[k] # None /\ seen[k] = None}
Candidate == {k \in Key : index[k] = None /\ seen[k] # None}
Changed   == {k \in Key : None \notin {index[k], seen[k]} /\ seen[k] # index[k]}

\* A rename is believed when one vanished record and one new file, and no
\* others, share a size and mtime.
Match(from, to) ==
    /\ from \in Vanished /\ to \in Candidate
    /\ index[from] = seen[to]
    /\ \A o \in Vanished : index[o] = index[from] => o = from
    /\ \A o \in Candidate : seen[o] = seen[to] => o = to

\* plan.Build, and the objects whose versions go to trash, unless the run has
\* been cancelled by now.
Plan ==
    LET src  == [k \in Key |-> IF \E f \in Key : Match(f, k)
                               THEN CHOOSE f \in Key : Match(f, k) ELSE None]
        gone == {k \in Vanished : \A t \in Key : src[t] # k}
        doomed == IF RetentionDays > 0 THEN gone \cup Changed ELSE {}
    IN /\ phase = "scan" /\ todo = {}
       /\ source' = src /\ deletes' = gone /\ seen' = Nothing
       /\ job' = [k \in Key |-> IF k \in Candidate \cup Changed THEN "queued" ELSE "none"]
       /\ CASE Vanished \cup Candidate \cup Changed = {} -> Goto("tidy", {})
            [] doomed # {} /\ cancelled -> Goto("closing", {})
            [] OTHER -> Goto("trash", doomed)
       /\ UNCHANGED <<disk, index, storeVars, claimed, pre, retried, tickVars, deleted,
                      cancelled, err, envVars, faults>>

(***************************************************************************)
(* Trash: the store can move, so the key a version leaves is empty.        *)
(***************************************************************************)
Empties(k) == [current EXCEPT ![k] = None]
Drops(k)   == [spool EXCEPT ![k] = None]
Binned(k)  == trash \cup {<<k, Read(k), day>>}

TrashMove(k) ==
    /\ phase = "trash" /\ k \in todo
    /\ Read(k) # None
    /\ SetStore(Empties(k), Drops(k), Binned(k))
    /\ Goto("trash", todo \ {k})
    /\ UNCHANGED <<disk, index, failed, claimed, planVars, workVars, tickVars, deleted,
                   cancelled, err, envVars, faults>>

\* There is nothing to move; or the request fails, before it did anything or,
\* without bundling, with the copy made, or with all of it done and the answer
\* lost.
TrashMoveFails(k) ==
    /\ phase = "trash" /\ k \in todo
    /\ \/ Read(k) = None /\ NoFault /\ SetStore(current, spool, trash)
       \/ /\ RequestFails
          /\ \/ SetStore(current, spool, trash)
             \/ ~packing /\ Read(k) # None /\ SetStore(current, spool, Binned(k))
             \/ ~packing /\ Read(k) # None /\ SetStore(Empties(k), spool, Binned(k))
    /\ err' = TRUE
    /\ Goto("trash", todo \ {k})
    /\ UNCHANGED <<disk, index, failed, claimed, planVars, workVars, tickVars, deleted,
                   cancelled, envVars>>
\* Slip: the run goes on after trash failed.
TrashDoneRegardless ==
    /\ phase = "trash" /\ todo = {}
    /\ Goto("transfer", {})
    /\ UNCHANGED <<disk, index, storeVars, claimed, planVars, workVars, tickVars, deleted,
                   cancelled, err, envVars, faults>>

\* Any error ends the run: nothing is sent over a version trash does not have.
TrashDone ==
    /\ phase = "trash" /\ todo = {}
    /\ Goto(IF err THEN "closing" ELSE "transfer", {})
    /\ UNCHANGED <<disk, index, storeVars, claimed, planVars, workVars, tickVars, deleted,
                   cancelled, err, envVars, faults>>

(***************************************************************************)
(* Transfer: engine workers, one job each.                                 *)
(***************************************************************************)
IsMove(k) == source[k] # None
\* Slip: uploads are taken for renames.
MovedOrSent == {k \in Key : job[k] = "done"}

Moved == {k \in Key : IsMove(k) /\ job[k] = "done"}
Working(k, state) == phase = "transfer" /\ job[k] = state
JobTo(k, state) == job' = [job EXCEPT ![k] = state]
transferRest == <<phase, todo, planVars, batch, tick, deleted, cancelled, err>>

\* uploadFile's first stat and open. A run that has ended leaves the job.
Begin(k) ==
    /\ Working(k, "queued") /\ ~IsMove(k) /\ ~cancelled
    /\ \/ disk[k] # None /\ NoFault /\ JobTo(k, "sending") /\ pre' = [pre EXCEPT ![k] = disk[k]]
       \/ disk[k] = None /\ NoFault /\ JobTo(k, "failed") /\ UNCHANGED pre
       \/ Fault /\ JobTo(k, "failed") /\ UNCHANGED pre
    /\ UNCHANGED <<disk, index, storeVars, claimed, transferRest, retried, landed, envVars>>

\* What an upload may have read of a file: all as the stat described it, or,
\* once the file has changed, a mixture.
Sent(k) == {pre[k]} \cup (IF disk[k] = pre[k] THEN {} ELSE {Torn})

\* The upload's Put returns.
Land(k) ==
    /\ Working(k, "sending")
    /\ \E c \in Sent(k) : StorePut(k, c)
    /\ JobTo(k, "sent")
    /\ UNCHANGED <<disk, index, failed, claimed, transferRest, pre, retried, landed, envVars,
                   faults>>

\* Put fails: a fault, the run's end, or a file that changed while it was read.
\* A lone object may be there all the same. A pack may have filled up, and
\* failed to send, with the files it held.
PutFails(k) ==
    /\ Working(k, "sending")
    /\ RequestFails \/ (disk[k] # pre[k] /\ NoFault)
    /\ \/ SetStore(current, spool, trash) /\ UNCHANGED failed
       \/ /\ ~packing /\ UNCHANGED failed
          /\ \E c \in Sent(k) : SetStore([current EXCEPT ![k] = c], spool, trash)
       \/ packing /\ SetStore(current, Nothing, trash) /\ failed' = TRUE
    /\ JobTo(k, "failed")
    /\ UNCHANGED <<disk, index, claimed, transferRest, pre, retried, landed, envVars>>
\* The second stat. The file is as it was: the upload is reported. It changed:
\* what was sent is deleted, and sent again once. It is gone, or cannot be
\* looked at: the upload fails and what was sent stays.
Check(k) ==
    /\ Working(k, "sent")
    /\ disk[k] = pre[k]
    /\ JobTo(k, "done")
    /\ landed' = [landed EXCEPT ![k] = pre[k]]
    /\ UNCHANGED <<disk, index, storeVars, claimed, transferRest, pre, retried, envVars, faults>>

CheckGone(k) ==
    /\ Working(k, "sent")
    /\ (disk[k] = None /\ NoFault) \/ Fault
    /\ JobTo(k, "failed")
    /\ UNCHANGED <<disk, index, storeVars, claimed, transferRest, pre, retried, landed, envVars>>

TornDelete(k) ==
    /\ Working(k, "sent")
    /\ disk[k] \notin {pre[k], None}
    /\ StoreDelete({k})
    /\ JobTo(k, IF k \in retried THEN "failed" ELSE "queued")
    /\ retried' = retried \cup {k}
    /\ UNCHANGED <<disk, index, failed, claimed, transferRest, pre, landed, envVars, faults>>

\* Deleting what was sent takes a request for a lone object, and for a packed
\* one the index does not know yet.
TornDeleteFails(k) ==
    /\ Working(k, "sent")
    /\ disk[k] \notin {pre[k], None}
    /\ RequestFails
    /\ \/ packing /\ current[k] = None /\ StoreDelete({k})
       \/ ~packing /\ SetStore(current, spool, trash)
    /\ JobTo(k, "failed")
    /\ UNCHANGED <<disk, index, failed, claimed, transferRest, pre, retried, landed, envVars>>

\* A rename in storage. It fails the ways a move to trash does. The pack being
\* filled holds neither key: it was sent before the scan, and a rename's source
\* is not uploaded.
Move(k) ==
    /\ Working(k, "queued") /\ IsMove(k) /\ ~cancelled
    /\ LET from == source[k]
           copied == [current EXCEPT ![k] = Read(from)]
           whole  == [copied EXCEPT ![from] = None]
       IN \/ /\ Read(from) # None /\ NoFault
             /\ SetStore(whole, [Drops(k) EXCEPT ![from] = None], trash)
             /\ JobTo(k, "done")
          \/ /\ Read(from) = None /\ NoFault
             /\ SetStore(current, spool, trash)
             /\ JobTo(k, "failed")
          \/ /\ Fault
             /\ \/ SetStore(current, spool, trash)
                \/ ~packing /\ Read(from) # None /\ SetStore(copied, spool, trash)
                \/ ~packing /\ Read(from) # None /\ SetStore(whole, spool, trash)
             /\ JobTo(k, "failed")
    /\ UNCHANGED <<disk, index, failed, claimed, transferRest, pre, retried, landed, envVars>>
\* Slip: a rename deletes its new key.
DoomedTargets == deletes \cup Moved

\* The pool is drained, or abandoned by cancellation. Deletes come last, and
\* not after a cancellation.
Doomed == deletes \cup {source[k] : k \in Moved}
EndTransfer ==
    /\ phase = "transfer"
    /\ \A k \in Key : job[k] \notin {"sending", "sent"}
    /\ cancelled \/ \A k \in Key : job[k] # "queued"
    /\ Goto(CASE cancelled -> "salvage"
              [] ~cancelled /\ Doomed # {} -> "delete"
              [] OTHER -> "flush", {})
    /\ UNCHANGED <<disk, index, storeVars, claimed, planVars, workVars, tickVars, deleted,
                   cancelled, err, envVars, faults>>

\* One DeleteBatch, which can fail with some of it done. A bundle's deletes are
\* edits of its index.
DeleteMany ==
    /\ phase = "delete"
    /\ \/ StoreDelete(Doomed) /\ deleted' = TRUE /\ NoFault
       \/ /\ RequestFails /\ UNCHANGED deleted
          /\ \E gone \in SUBSET Doomed : StoreDelete(IF packing THEN Doomed ELSE gone)
    /\ Goto(IF cancelled THEN "salvage" ELSE "flush", {})
    /\ UNCHANGED <<disk, index, failed, claimed, planVars, workVars, tickVars, cancelled,
                   err, envVars>>

(***************************************************************************)
(* The checkpointer, while the engine runs.                                *)
(***************************************************************************)
TickTake ==
    /\ phase \in {"transfer", "delete"} /\ tick = "idle"
    /\ landed # Nothing
    /\ batch' = landed /\ landed' = Nothing
    /\ tick' = "asking"
    /\ UNCHANGED <<disk, index, storeVars, claimed, phase, todo, planVars, workVars,
                   deleted, cancelled, err, envVars, faults>>

\* Is anything held back, and if so, is it time for a checkpoint, and does
\* that go through?
TickAsk ==
    /\ tick = "asking"
    /\ \/ ~Pending /\ UNCHANGED <<storeVars, faults>> /\ tick' = "safe"
       \/ Pending /\ UNCHANGED <<storeVars, faults>> /\ tick' = "unsafe"
       \/ Pending /\ ~failed /\ SaveAll /\ UNCHANGED <<failed, faults>> /\ tick' = "safe"
       \/ failed /\ IndexFails /\ UNCHANGED <<failed, faults>> /\ tick' = "unsafe"
       \/ Pending /\ RequestFails /\ SealFails /\ failed' = TRUE /\ tick' = "unsafe"
       \/ Pending /\ RequestFails /\ IndexFails /\ UNCHANGED failed /\ tick' = "unsafe"
    /\ UNCHANGED <<disk, index, claimed, phase, todo, planVars, workVars, landed, batch,
                   deleted, cancelled, err, envVars>>
Records(recs) == index' = [k \in Key |-> IF recs[k] # None THEN recs[k] ELSE index[k]]

Requeued == landed' = [k \in Key |-> IF landed[k] # None THEN landed[k] ELSE batch[k]]

\* The records are written, or, unsafe or unwritten, put back.
TickEnd ==
    /\ \/ tick = "safe" /\ Records(batch) /\ NoFault /\ UNCHANGED landed
       \/ tick = "safe" /\ Fault /\ Requeued /\ UNCHANGED index
       \/ tick = "unsafe" /\ NoFault /\ Requeued /\ UNCHANGED index
    /\ batch' = Nothing /\ tick' = "idle"
    /\ UNCHANGED <<disk, storeVars, claimed, phase, todo, planVars, workVars, deleted,
                   cancelled, err, envVars>>

(***************************************************************************)
(* Flush and record.                                                       *)
(***************************************************************************)
recordRest == <<disk, claimed, planVars, workVars, tickVars, deleted, cancelled, err, envVars>>

Flush ==
    /\ phase = "flush" /\ tick = "idle"
    /\ \/ FlushOk /\ (cancelled => ~Pending) /\ NoFault /\ Goto("record", {})
       \/ FlushReports /\ NoFault /\ Goto("closing", {})
       \/ FlushFails /\ RequestFails /\ Goto("closing", {})
    /\ UNCHANGED <<index, recordRest>>

\* What landed is recorded, in one transaction.
Record ==
    /\ phase = "record"
    /\ \/ Records(landed) /\ NoFault /\ Goto("forget", {})
       \/ Fault /\ UNCHANGED index /\ Goto("closing", {})
    /\ UNCHANGED <<storeVars, recordRest>>

\* The deleted keys are forgotten, if the deletes went through.
Forget ==
    /\ phase = "forget"
    /\ \/ /\ index' = [k \in Key |-> IF deleted /\ k \in deletes THEN None ELSE index[k]]
          /\ NoFault /\ Goto("moves", Moved)
       \/ deleted /\ deletes # {} /\ Fault /\ UNCHANGED index /\ Goto("closing", {})
    /\ UNCHANGED <<storeVars, recordRest>>

\* A rename is two transactions: the new key is recorded, then the old one is
\* forgotten.
RecordMove(k) ==
    /\ phase = "moves" /\ k \in todo
    /\ \/ /\ index[k] = None /\ NoFault
          /\ index' = [index EXCEPT ![k] = index[source[k]]]
          /\ UNCHANGED <<phase, todo>>
       \/ /\ index[k] # None /\ NoFault
          /\ index' = [index EXCEPT ![source[k]] = None]
          /\ Goto("moves", todo \ {k})
       \/ Fault /\ UNCHANGED index /\ Goto("closing", {})
    /\ UNCHANGED <<storeVars, recordRest>>

MovesDone ==
    /\ phase = "moves" /\ todo = {}
    /\ Goto("tidy", {})
    /\ UNCHANGED <<index, storeVars, recordRest, faults>>
\* A stopped run records what landed if the store can still be flushed, on a
\* context of its own.
Salvage ==
    /\ phase = "salvage" /\ tick = "idle"
    /\ \/ landed = Nothing /\ UNCHANGED storeVars /\ NoFault /\ Goto("closing", {})
       \/ landed # Nothing /\ FlushOk /\ NoFault /\ Goto("note", {})
       \/ landed # Nothing /\ FlushReports /\ NoFault /\ Goto("closing", {})
       \/ landed # Nothing /\ FlushFails /\ Fault /\ Goto("closing", {})
    /\ UNCHANGED <<index, recordRest>>

Note ==
    /\ phase = "note"
    /\ \/ Records(landed) /\ NoFault
       \/ UNCHANGED index /\ Fault
    /\ Goto("closing", {})
    /\ UNCHANGED <<storeVars, recordRest>>

(***************************************************************************)
(* Trash expires, at most once a day.                                      *)
(***************************************************************************)
\* Slip: the retention window is ignored.
DueToday == {t \in trash : t[3] <= day}

Due == {t \in trash : t[3] + RetentionDays < day}
tidyRest == <<disk, index, failed, planVars, workVars, tickVars, deleted, cancelled, err,
              envVars>>

\* Today is claimed before the sweep, so one that fails is not tried again.
ClaimDailyPrune == ~claimed /\ claimed' = TRUE

Prune ==
    /\ phase = "tidy"
    /\ \/ /\ claimed \/ RetentionDays = 0
          /\ SetStore(current, spool, trash) /\ UNCHANGED claimed /\ NoFault
       \/ /\ RetentionDays > 0 /\ ~claimed /\ Fault
          /\ SetStore(current, spool, trash) /\ UNCHANGED claimed
       \/ /\ RetentionDays > 0 /\ ClaimDailyPrune
          /\ \/ NoFault /\ SetStore(current, spool, trash \ Due)
             \/ /\ RequestFails
                /\ \E gone \in SUBSET Due : SetStore(current, spool, trash \ gone)
    /\ Goto("closing", {})
    /\ UNCHANGED tidyRest

\* However the run ended, the store is flushed, on a context of its own.
Close ==
    /\ phase = "closing"
    /\ \/ FlushOk /\ NoFault
       \/ FlushReports /\ NoFault
       \/ FlushFails /\ Fault
    /\ RunOver
    /\ UNCHANGED <<disk, index, claimed, envVars>>

(***************************************************************************)
(* The system.                                                             *)
(***************************************************************************)
People == \/ \E k \in Key : Remove(k) \/ \E v \in Version : Save(k, v)
          \/ \E a, b \in Key : Rename(a, b)
          \/ Cancel

Engine == \/ \E k \in Key : \/ Begin(k) \/ Land(k) \/ PutFails(k) \/ Check(k)
                            \/ CheckGone(k) \/ TornDelete(k) \/ TornDeleteFails(k)
                            \/ Move(k)
          \/ EndTransfer
          \/ DeleteMany

Checkpointer == TickTake \/ TickAsk \/ TickEnd

Run == \/ Start \/ ScanFails \/ Plan \/ TrashDone
       \/ \E k \in Key : Scan(k) \/ TrashMove(k) \/ TrashMoveFails(k) \/ RecordMove(k)
       \/ Engine
       \/ Flush \/ Record \/ Forget \/ MovesDone \/ Salvage \/ Note \/ Prune \/ Close

Next == People \/ Midnight \/ Crash \/ Exit \/ Run \/ Checkpointer

Spec == Init /\ [][Next]_vars

\* Runs are started again and again, and goroutines are scheduled.
FairSpec == Spec /\ WF_vars(Run) /\ WF_vars(Checkpointer)

(***************************************************************************)
(* Properties.                                                             *)
(***************************************************************************)
Objects    == [Key -> Content \cup {None}]
Entries    == [Key -> Version \cup {None}]
TrashEntry == Key \X Content \X (0..MaxDays)

StoreOK ==
    /\ current \in Objects /\ spool \in Objects /\ savedCurrent \in Objects
    /\ packing \in BOOLEAN /\ (packing \/ spool = Nothing)
    /\ trash \subseteq TrashEntry /\ savedTrash \subseteq TrashEntry
    /\ failed \in BOOLEAN

RunOK ==
    /\ phase \in {"idle", "scan", "trash", "transfer", "delete", "flush", "record",
                  "forget", "moves", "salvage", "note", "tidy", "closing"}
    /\ todo \subseteq Key /\ deletes \subseteq Key /\ retried \subseteq Key
    /\ seen \in Entries /\ pre \in Entries /\ landed \in Entries /\ batch \in Entries
    /\ source \in [Key -> Key \cup {None}]
    /\ phase = "moves" => \A k \in todo : IsMove(k)
    /\ job \in [Key -> {"none", "queued", "sending", "sent", "done", "failed"}]
    /\ tick \in {"idle", "asking", "safe", "unsafe"}
    /\ deleted \in BOOLEAN /\ cancelled \in BOOLEAN /\ err \in BOOLEAN

\* Every variable stays in its domain.
TypeOK ==
    /\ disk \in Entries /\ index \in Entries /\ claimed \in BOOLEAN
    /\ StoreOK /\ RunOK
    /\ edits \in 0..MaxEdits /\ faults \in 0..MaxFaults
    /\ stops \in 0..MaxStops /\ day \in 0..MaxDays

\* "Only what genuinely landed is recorded" (backup.go:316): when a step writes
\* a new version into the record of a file the run uploads, that version is in
\* storage where a restarted process would read it, not only in a pack or an
\* index edit held in memory. Pack seals, checkpoints, the salvage of a stopped
\* run and the final flush all have to respect it.
NotedOnlyWhenStored ==
    [][\A k \in Key : index'[k] \notin {None, index[k]} /\ ~IsMove(k)
                      => savedCurrent[k] = index'[k]]_vars

\* Why that is so. What has landed and is not yet recorded stays readable in the
\* process that sent it, unless a lost pack has been noted in failed; it is safe
\* once storage has been asked. Neither the run's deletes nor its renames touch
\* a file it sends.
Safe(k, v) == spool[k] = None /\ current[k] = v /\ savedCurrent[k] = v

Apart == \A k \in Key : job[k] # "none" => k \notin deletes /\ \A t \in Key : source[t] # k

Reported == \A k \in Key : landed[k] # None \/ batch[k] # None => job[k] = "done" /\ ~IsMove(k)

\* A mixture is only ever sent of a file that no longer is as it was.
Uploading ==
    \A k \in Key : InUpload(k) => phase = "transfer" /\ pre[k] # None /\ ~IsMove(k)
Whole ==
    \A k \in Key : job[k] = "sent" /\ disk[k] = pre[k] => failed \/ Read(k) = pre[k]

Ticking ==
    /\ tick = "idle" => batch = Nothing
    /\ tick # "idle" => phase \in {"transfer", "delete", "flush", "salvage"}
    /\ phase \in {"idle", "scan", "trash"} => landed = Nothing

Readable(files) == \A k \in Key : files[k] # None => failed \/ Read(k) = files[k]
AllSafe(files)  == \A k \in Key : files[k] # None => Safe(k, files[k])

Accounted ==
    /\ Apart /\ Reported /\ Uploading /\ Whole /\ Ticking
    /\ phase \in {"transfer", "delete", "flush", "salvage"} => Readable(landed)
    /\ tick \in {"asking", "unsafe"} => Readable(batch)
    /\ tick = "safe" => AllSafe(batch)
    /\ phase \in {"record", "note"} => AllSafe(landed)

Kept(k, c) == savedCurrent[k] = c \/ \E t \in savedTrash : t[1] = k /\ t[2] = c

\* What a record says was backed up can be got back, from current/ or from
\* trash, by a process that starts at any moment, whatever failed, crashed or
\* was cancelled since: "anything deleted or overwritten goes to trash first"
\* (README.md:273). Until the retention window has passed it is that version.
RecordedIsKept ==
    day <= RetentionDays => \A k \in Key : index[k] # None => Kept(k, index[k])

\* And later it is that version or another whole one: expiring trash never
\* takes the only copy of a file that was backed up and is still on disk.
NothingLost ==
    \A k \in Key : None \notin {disk[k], index[k]} => \E v \in Version : Kept(k, v)

\* A file that looks like its record is not sent again, so storage has to hold
\* it: a record means "this file is already in storage" (place.go:11).
UnchangedIsStored ==
    \A k \in Key : disk[k] # None /\ disk[k] = index[k] => savedCurrent[k] = disk[k]

\* "Deletes are keys present remotely and gone locally" (plan.go:81): on a disk
\* that is quiet during runs, a backed-up file the run is about to delete from
\* storage is not in the folder any more.
DeletesAreGone == \A k \in deletes : disk[k] = None

\* A rename copies in storage what its fingerprint stands for. "Guessing wrong
\* would copy the wrong bytes to the wrong key -- an error a backup can never be
\* allowed to make" (plan.go:271).
RenameCopiesItsMatch ==
    [][\A k \in Key : IsMove(k) /\ job[k] = "queued" /\ job'[k] = "done"
                      => current'[k] = index[source[k]]]_vars

\* Once the folder, the storage and the machine are left in peace, some run
\* brings storage and index to what is on disk, and every later one keeps them
\* there: what failed is "retried next run" (cli/run.go:220).
InStep == \A k \in Key : /\ index[k] = disk[k]
                         /\ disk[k] # None => savedCurrent[k] = disk[k]
Converges == <>[]InStep
=============================================================================
