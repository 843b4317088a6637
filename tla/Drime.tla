------------------------------- MODULE Drime -------------------------------
(***************************************************************************)
(* A set's folder in Drime, as the workers of one process use it through   *)
(* drime.Client: a drive that allows two entries of one name, the cached   *)
(* folder tree, uploads that replace, trash by moving, whole folders       *)
(* deleted, and the manifest of dates kept in memory and saved as one      *)
(* file.  Between its sessions other runs use the same folder.             *)
(***************************************************************************)
EXTENDS Naturals, FiniteSets

CONSTANTS Uploader,    \* goroutines of one process that use the client
          Leaf,        \* names of files of the set
          LostFolders, \* whether the answer to a folder's creation can be lost
          MaxCalls, MaxHitches, MaxOthers \* bounds for TLC

ASSUME DrimeAssumption ==
    Leaf # {} /\ LostFolders \in BOOLEAN /\ {MaxCalls, MaxHitches, MaxOthers} \subseteq Nat

Dir == {"current", "trash"}
\* A file in trash has a name made for it, which no other file has.
Stored(n)  == [dir |-> "current", name |-> <<n>>]
Trashed(n) == [dir |-> "trash", name |-> <<n, "binned">>]
FileKey == {Stored(n) : n \in Leaf} \cup {Trashed(n) : n \in Leaf}

VARIABLES
    folders, entries, dying, ids, \* the drive: ids grow, and the dates with them
    saved,                        \* the manifest in Drime: the version each key's details are of
    known, cache, inflight,       \* tree: the root's listing, listed folders, folders being asked for
    call,                         \* what each worker is in the middle of
    details, loaded, dirty, saving, \* manifests
    noted,                        \* history: the version whose details each key was last promised
    session,                      \* the client has been used since its last flush
    acked, owed,                  \* history: what each key was last promised to hold, versions owed
    calls, hitches, others

driveVars == <<folders, entries, dying, ids>>
treeVars  == <<known, cache, inflight>>
noteVars  == <<details, loaded, dirty, saving, noted>>
ackVars   == <<acked, owed>>
drimeVars == <<driveVars, saved, treeVars, call, noteVars, session, ackVars, calls, hitches, others>>

NotListed == [fid |-> 0, files |-> {}]
NoDetails == [k \in FileKey |-> 0]
NoCall    == [kind |-> "none", name |-> CHOOSE n \in Leaf : TRUE, at |-> "idle", asks |-> "nothing", found |-> {}]
NotSaving == [on |-> FALSE, snap |-> NoDetails, count |-> 0, forget |-> FALSE]

DrimeInit ==
    /\ folders = {} /\ entries = {} /\ dying = {} /\ ids = 0 /\ saved = NoDetails
    /\ known = [d \in Dir |-> 0] /\ cache = [d \in Dir |-> NotListed] /\ inflight = {}
    /\ call = [u \in Uploader |-> NoCall]
    /\ details = NoDetails /\ loaded = FALSE /\ dirty = 0 /\ saving = NotSaving /\ noted = NoDetails /\ session = FALSE
    /\ acked = NoDetails /\ owed = {}
    /\ calls = 0 /\ hitches = 0 /\ others = 0

Hitch   == hitches < MaxHitches /\ hitches' = hitches + 1
Smooth  == UNCHANGED hitches
In(fid) == {e \in entries : e.fid = fid}
Named(es, k) == {e \in es : e.name = k.name}
Newest(es)   == {e \in es : \A f \in es : f.id <= e.id}
\* What a process that starts now reads at a key: of two folders with one name
\* the first, of two files the newest.
FirstFolder(d) == {f \in folders : f.dir = d /\ \A g \in folders : g.dir = d => f.id <= g.id}
Fresh(k) == Newest(UNION {Named(In(f.id), k) : f \in FirstFolder(k.dir)})

At(u, s)   == call[u].at = s /\ call[u].asks = "nothing"
To(u, s)   == call' = [call EXCEPT ![u].at = s]
Fails(u)   == call' = [call EXCEPT ![u] = NoCall]
\* The folder a call needs next.
Needs(u)   == IF call[u].kind = "empty" \/ call[u].at = "target" THEN "trash" ELSE "current"
Creates(u) == call[u].kind = "put" \/ call[u].at = "target"
\* Where a call goes on once that folder is listed.
GoesOn(u) == CASE call[u].kind = "put"   -> "send"
              [] call[u].kind = "empty" -> "delete"
              [] call[u].kind = "move" /\ call[u].at = "source" -> "look"
              [] OTHER                  -> "carry"

-----------------------------------------------------------------------------
(* The tree: resolve and load.                                             *)

\* Slip: a folder that another worker is making is asked for once more.
MarkNone(u) == inflight' = inflight
\* What is asked of Drime is marked, and the lock is let go meanwhile.
Mark(u) == Needs(u) \notin inflight /\ inflight' = inflight \cup {Needs(u)}
Resolve(u) ==
    /\ call[u].at \in {"source", "target"} /\ call[u].asks = "nothing"
    /\ LET d == Needs(u)
       IN \/ cache[d].fid # 0 /\ To(u, GoesOn(u)) /\ UNCHANGED inflight
          \/ /\ cache[d].fid = 0 /\ known[d] # 0 /\ Mark(u)
             /\ call' = [call EXCEPT ![u].asks = "listing", ![u].found = In(known[d])]
          \/ /\ cache[d].fid = 0 /\ known[d] = 0 /\ Creates(u) /\ Mark(u)
             /\ call' = [call EXCEPT ![u].asks = "folder"]
          \/ /\ cache[d].fid = 0 /\ known[d] = 0 /\ ~Creates(u) /\ d \notin inflight
             /\ Fails(u) /\ UNCHANGED inflight
    /\ UNCHANGED <<driveVars, saved, known, cache, noteVars, session, ackVars, calls, hitches, others>>

\* Slip: a request that fails leaves its mark, and who waits on it waits on.
AnsweredWell(u) == inflight' = IF hitches' = hitches THEN inflight \ {Needs(u)} ELSE inflight
\* Whatever the answer, the mark goes and those who wait look again.
Answered(u) == inflight' = inflight \ {Needs(u)}
ListFolder(u) ==
    /\ call[u].asks = "listing"
    /\ LET d == Needs(u)
       IN \/ /\ Smooth /\ cache' = [cache EXCEPT ![d] = [fid |-> known[d], files |-> call[u].found]]
             /\ call' = [call EXCEPT ![u].at = GoesOn(u), ![u].asks = "nothing", ![u].found = {}]
          \/ Hitch /\ Fails(u) /\ UNCHANGED cache
    /\ Answered(u)
    /\ UNCHANGED <<driveVars, saved, known, noteVars, session, ackVars, calls, others>>

\* It fails; or its answer is lost, and send asks once more or gives up.
CreateFolder(u) ==
    /\ call[u].asks = "folder"
    /\ LET d == Needs(u)
           Made(n) == /\ folders' = folders \cup {[id |-> i, dir |-> d] : i \in ids + 1 .. ids + n}
                      /\ ids' = ids + n
           Heard == /\ known' = [known EXCEPT ![d] = ids']
                    /\ cache' = [cache EXCEPT ![d] = [fid |-> ids', files |-> {}]]
                    /\ call' = [call EXCEPT ![u].at = GoesOn(u), ![u].asks = "nothing"]
           Unheard == Fails(u) /\ UNCHANGED <<known, cache>>
       IN \/ Smooth /\ Made(1) /\ Heard
          \/ Hitch /\ Made(0) /\ Unheard
          \/ LostFolders /\ Hitch /\ ((Made(1) /\ Unheard) \/ (Made(2) /\ Heard))
    /\ Answered(u)
    /\ UNCHANGED <<entries, dying, saved, noteVars, session, ackVars, calls, others>>

-----------------------------------------------------------------------------
(* Put, Move and DeletePrefix.                                             *)

NoneCalling == \A u \in Uploader : call[u] = NoCall
\* A run's moves to trash come before its uploads, and emptying the trash last.
BeginCall(u) ==
    /\ call[u] = NoCall /\ calls < MaxCalls /\ calls' = calls + 1
    /\ \E kind \in {"put", "move", "empty"}, n \in Leaf :
         /\ \A v \in Uploader : call[v] # NoCall => kind # "empty" /\ call[v].kind = kind /\ call[v].name # n
         /\ call' = [call EXCEPT ![u] = [NoCall EXCEPT !.kind = kind, !.name = n, !.at = "source"]]
    /\ session' = TRUE
    /\ UNCHANGED <<driveVars, saved, treeVars, noteVars, ackVars, hitches, others>>


\* Slip: the old copies go first.
SendClearing(u) ==
    /\ At(u, "send")
    /\ LET old == Named(cache["current"].files, Stored(call[u].name))
           new == [id |-> ids + 1, fid |-> cache["current"].fid, name |-> Stored(call[u].name).name, ver |-> ids + 1]
       IN /\ ids' = ids + 1
          /\ \/ Smooth /\ entries' = (entries \ old) \cup {new}
                /\ call' = [call EXCEPT ![u].at = "replace", ![u].found = {new}] /\ UNCHANGED cache
             \/ Hitch /\ entries' = entries \ old /\ Fails(u) /\ cache' = [cache EXCEPT !["current"] = NotListed]
    /\ UNCHANGED <<folders, dying, saved, known, inflight, noteVars, session, ackVars, calls, others>>
\* The new copy goes up beside the old ones, which are looked up first. When an
\* answer is lost the request is sent again, which leaves two copies, or fails,
\* and the folder is listed afresh next time if the network was to blame. (A
\* refresh by another worker can come first; the call then holds on to the
\* listing it resolved.)
Send(u) ==
    /\ At(u, "send")
    /\ cache["current"].fid # 0
    /\ LET k == Stored(call[u].name)
           new == {[id |-> i, fid |-> cache["current"].fid, name |-> k.name, ver |-> ids + 1] : i \in {ids + 1, ids + 2}}
           Copies(n) == ids' = ids + n /\ entries' = entries \cup {e \in new : e.id <= ids + n}
           Heard == /\ call' = [call EXCEPT ![u].at = "replace",
                          ![u].found = Named(cache["current"].files, k) \cup {e \in new : e.id = ids'}]
                    /\ UNCHANGED cache
           Unheard == Fails(u) /\ cache' \in {cache, [cache EXCEPT !["current"] = NotListed]}
       IN \/ Smooth /\ Copies(1) /\ Heard
          \/ Hitch /\ ((Copies(2) /\ Heard) \/ ((Copies(1) \/ Copies(0)) /\ Unheard))
    /\ UNCHANGED <<folders, dying, saved, known, inflight, noteVars, session, ackVars, calls, others>>
\* A listing dropped between resolve and the look for old copies is asked for again.
SendRelists(u) ==
    /\ At(u, "send") /\ cache["current"].fid = 0
    /\ To(u, "source")
    /\ UNCHANGED <<driveVars, saved, treeVars, noteVars, session, ackVars, calls, hitches, others>>

\* deleteEntries answers "invalid" when an id is not there, and that counts as
\* done, whether or not the others were deleted.
Deleted(es) == \/ entries' = entries \ es
               \/ ~(es \subseteq entries) /\ UNCHANGED entries
\* forgetIDs and put: the new entry is the only one listed at its key.
Listing(d, e, gone) ==
    IF cache[d].fid = 0 THEN cache
    ELSE [cache EXCEPT ![d].files = {f \in @ : f \notin gone /\ f.name # e.name} \cup {e}]
Replace(u) ==
    /\ At(u, "replace")
    /\ LET new == Newest(call[u].found)
           old == call[u].found \ new
       IN /\ owed' = owed \ {e.ver : e \in old}
          /\ \/ /\ Smooth /\ Deleted(old)
                /\ cache' = Listing("current", CHOOSE e \in new : TRUE, old)
                /\ call' = [call EXCEPT ![u].at = "note", ![u].found = new]
             \/ /\ Hitch /\ old # {} /\ (Deleted(old) \/ UNCHANGED entries)
                /\ Fails(u) /\ UNCHANGED cache
    /\ UNCHANGED <<folders, dying, ids, saved, known, inflight, noteVars, session, acked, calls, others>>

\* The manifest as a worker has it, read when the process holds none.
NotesHeld == IF loaded THEN details ELSE saved
\* Move: the newest copy listed, or nothing to move; and the key's details,
\* which are whatever the manifest has there.
FindCopy(u) ==
    /\ At(u, "look")
    /\ LET there == Newest(Named(cache["current"].files, Stored(call[u].name)))
       IN \/ there = {} /\ Smooth /\ Fails(u) /\ UNCHANGED <<details, loaded>>
          \/ /\ there # {} /\ Smooth /\ details' = NotesHeld /\ loaded' = TRUE
             /\ call' = [call EXCEPT ![u].at = "target", ![u].found = there]
          \/ there # {} /\ ~loaded /\ Hitch /\ Fails(u) /\ UNCHANGED <<details, loaded>>
    /\ UNCHANGED <<driveVars, saved, treeVars, dirty, saving, noted, session, ackVars, calls, others>>
\* It keeps its name on the way, and is forgotten from where it was.
Carry(u) ==
    /\ At(u, "carry")
    /\ LET e == CHOOSE x \in call[u].found : TRUE
           there == [e EXCEPT !.fid = cache["trash"].fid]
           Carried == entries' = (entries \ {e}) \cup {there}
       IN \/ e \notin entries /\ Smooth /\ Fails(u) /\ UNCHANGED <<entries, cache, ackVars>>
          \/ /\ e \in entries /\ Smooth /\ Carried
             /\ cache' = [cache EXCEPT !["current"].files = @ \ {e}]
             /\ call' = [call EXCEPT ![u].at = "rename", ![u].found = {there}]
             /\ acked' = [acked EXCEPT ![Stored(call[u].name)] = 0] /\ UNCHANGED owed
          \/ /\ e \in entries /\ Hitch /\ (Carried \/ UNCHANGED entries)
             /\ Fails(u) /\ UNCHANGED <<cache, owed>>
             /\ acked' = [acked EXCEPT ![Stored(call[u].name)] = 0]
    /\ UNCHANGED <<folders, dying, ids, saved, known, inflight, noteVars, session, calls, others>>
GiveTrashName(u) ==
    /\ At(u, "rename")
    /\ LET e == CHOOSE x \in call[u].found : TRUE
           renamed == [e EXCEPT !.name = Trashed(call[u].name).name]
           Renamed == entries' = (entries \ {e}) \cup {renamed}
       IN \/ /\ Smooth /\ Renamed
             /\ cache' = Listing("trash", renamed, {})
             /\ call' = [call EXCEPT ![u].at = "note", ![u].found = {renamed}]
          \/ Hitch /\ (Renamed \/ UNCHANGED entries) /\ Fails(u) /\ UNCHANGED cache
    /\ UNCHANGED <<folders, dying, ids, saved, known, inflight, noteVars, session, ackVars, calls, others>>

\* DeletePrefix: a folder with all in it, which may outlast the request. The
\* tree then forgets it, and the manifest what was in it.
TrashGone == /\ cache' = [cache EXCEPT !["trash"] = NotListed] /\ known' = [known EXCEPT !["trash"] = 0]
Emptied(u) ==
    /\ TrashGone /\ Fails(u)
    /\ details' = [k \in FileKey |-> IF k.dir = "trash" /\ loaded THEN 0 ELSE details[k]]
    /\ dirty' = IF details' = details THEN dirty ELSE dirty + 1
    /\ noted' = [k \in FileKey |-> IF k.dir = "trash" THEN 0 ELSE noted[k]]
    /\ UNCHANGED <<loaded, saving>>
Vanishing(fid) == /\ folders' = {f \in folders : f.id # fid} /\ entries' = {e \in entries : e.fid # fid}
DeleteFolder(u) ==
    /\ At(u, "delete")
    /\ acked' = [k \in FileKey |-> IF k.dir = "trash" THEN 0 ELSE acked[k]]
    /\ owed' = owed \ {e.ver : e \in In(known["trash"])}
    /\ \/ Smooth /\ Vanishing(known["trash"]) /\ Emptied(u) /\ UNCHANGED dying
       \/ /\ Hitch /\ dying' = dying \cup {known["trash"]} /\ To(u, "wait")
          /\ UNCHANGED <<folders, entries, known, cache, noteVars>>
    /\ UNCHANGED <<ids, saved, inflight, session, calls, others>>
\* waitFolderGone: it is looked for afresh until it is gone.
FolderGone(u) ==
    /\ At(u, "wait") /\ FirstFolder("trash") = {}
    /\ Emptied(u)
    /\ UNCHANGED <<driveVars, saved, inflight, session, ackVars, calls, hitches, others>>
\* Or until folderGoneWait is over: the deletion failed, at once or half way,
\* and what is left is listed. (One that goes on after that is left out.)
FolderStays(u) ==
    /\ At(u, "wait") /\ dying' = {} /\ Fails(u)
    /\ \E f \in FirstFolder("trash"), gone \in SUBSET {e \in entries : e.fid \in dying} :
         /\ entries' = entries \ gone
         /\ known' = [known EXCEPT !["trash"] = f.id]
         /\ cache' = [cache EXCEPT !["trash"] = [fid |-> f.id, files |-> In(f.id) \ gone]]
    /\ UNCHANGED <<folders, ids, saved, inflight, noteVars, session, ackVars, calls, hitches, others>>
DriveDeletes ==
    /\ \E fid \in dying : Vanishing(fid) /\ dying' = dying \ {fid}
    /\ UNCHANGED <<ids, saved, treeVars, call, noteVars, session, ackVars, calls, hitches, others>>
-----------------------------------------------------------------------------
(* The manifest.                                                           *)

\* The last of a Put or a Move: remove, and set. A move gives the file the
\* details FindCopy read at the key it had (nobody has changed them since),
\* which are of an older version, or none, if its own were never noted.
Note(u) ==
    /\ At(u, "note")
    /\ LET e == CHOOSE x \in call[u].found : TRUE
           from == Stored(call[u].name)
           k == IF call[u].kind = "move" THEN Trashed(call[u].name) ELSE from
           Kept(notes) == IF call[u].kind # "move" \/ notes[from] = e.ver THEN e.ver ELSE 0
       IN \/ /\ Smooth
             /\ details' = [NotesHeld EXCEPT ![from] = 0, ![k] = IF call[u].kind = "move" THEN NotesHeld[from] ELSE e.ver]
             /\ loaded' = TRUE /\ dirty' = dirty + 1
             /\ acked' = [acked EXCEPT ![k] = e.ver]
             /\ noted' = [noted EXCEPT ![from] = 0, ![k] = Kept(noted)]
             /\ owed' = owed \cup {e.ver}
          \/ ~loaded /\ Hitch /\ UNCHANGED <<details, loaded, dirty, noted, ackVars>>
    /\ Fails(u)
    /\ UNCHANGED <<driveVars, saved, treeVars, saving, session, calls, others>>
\* write: a copy is taken under the lock, and sent without it; one at a time.
SaveNotes ==
    /\ ~saving.on
    /\ \E forget \in {FALSE, NoneCalling} :
         /\ dirty > 0 \/ (forget /\ session)
         /\ saving' = [on |-> TRUE, snap |-> details, count |-> dirty, forget |-> forget]
    /\ UNCHANGED <<driveVars, saved, treeVars, call, details, loaded, dirty, noted, session, ackVars, calls, hitches, others>>
\* Slip: what was noted while the copy was on its way counts as saved.
LeftDirtyNone == 0
\* Changes made while this was uploading stay counted.
LeftDirty == dirty - saving.count
NotesSaved ==
    /\ saving.on /\ saving' = NotSaving
    /\ \/ /\ Smooth
          /\ saved' = IF saving.count = 0 THEN saved ELSE saving.snap
          /\ dirty' = LeftDirty
          /\ IF saving.forget /\ dirty' = 0 /\ NoneCalling THEN loaded' = FALSE /\ details' = NoDetails /\ session' = FALSE
             ELSE UNCHANGED <<loaded, details, session>>
       \/ /\ saving.count > 0 /\ Hitch /\ saved' \in {saved, saving.snap}
          /\ UNCHANGED <<dirty, loaded, details, session>>
    /\ UNCHANGED <<driveVars, treeVars, call, noted, ackVars, calls, others>>
-----------------------------------------------------------------------------
\* Another process backs a file up, between this one's sessions.
OtherRun(n) ==
    /\ ~session /\ FirstFolder("current") # {} /\ others < MaxOthers /\ others' = others + 1
    /\ LET e == [id |-> ids + 1, fid |-> (CHOOSE f \in FirstFolder("current") : TRUE).id, name |-> Stored(n).name, ver |-> ids + 1]
       IN /\ entries' = (entries \ Named(In(e.fid), Stored(n))) \cup {e}
          /\ ids' = ids + 1
          /\ saved' = [saved EXCEPT ![Stored(n)] = e.ver] /\ noted' = [noted EXCEPT ![Stored(n)] = e.ver]
          /\ acked' = [acked EXCEPT ![Stored(n)] = e.ver] /\ owed' = (owed \ {f.ver : f \in entries \ entries'}) \cup {e.ver}
    /\ UNCHANGED <<folders, dying, treeVars, call, details, loaded, dirty, saving, session, calls, hitches>>

WorkerOf(u) == \/ BeginCall(u) \/ Resolve(u) \/ ListFolder(u) \/ CreateFolder(u) \/ Send(u) \/ SendRelists(u) \/ Replace(u)
               \/ FindCopy(u) \/ Carry(u) \/ GiveTrashName(u) \/ DeleteFolder(u) \/ FolderGone(u) \/ FolderStays(u)
               \/ Note(u)
DrimeNext == \/ \E u \in Uploader : WorkerOf(u)
             \/ DriveDeletes \/ SaveNotes \/ NotesSaved
             \/ \E n \in Leaf : OtherRun(n)
DrimeSpec == DrimeInit /\ [][DrimeNext]_drimeVars

-----------------------------------------------------------------------------
(* Properties.                                                             *)

DrimeTypeOK ==
    /\ \A f \in folders : f.id \in 1..ids /\ f.dir \in Dir
    /\ \A e \in entries : e.id \in 1..ids /\ e.ver \in 1..ids /\ \E f \in folders : f.id = e.fid
    /\ \A d \in inflight : \E u \in Uploader : call[u].asks # "nothing" /\ Needs(u) = d
    /\ inflight \subseteq Dir /\ dying \subseteq 1..ids
    /\ saved \in [FileKey -> 0..ids] /\ details \in [FileKey -> 0..ids] /\ dirty \in Nat /\ loaded \in BOOLEAN

\* Uploads into a new folder at once create it once.
OneFolder == LostFolders \/ \A f, g \in folders : f.dir = g.dir => f = g

\* What a Put or a Move acknowledged, a process that looks afresh finds at that
\* key, or something sent there later, until the key is moved or emptied: no
\* interrupted replacement leaves nothing, or an older copy as the newest. A
\* version a move was stopped in is still somewhere.
StoredIsFound ==
    /\ \A k \in FileKey : acked[k] # 0 => \E e \in Fresh(k) : e.ver >= acked[k]
    /\ owed \subseteq {e.ver : e \in entries}

\* Once nothing is left to save, the manifest in Drime has the details promised:
\* of the version whose Put last returned at a key, and after a move of that
\* version at the key it got, whichever process recorded them and whatever was
\* noted while a save was on its way. A version whose Put did not return, moved,
\* is promised none: it gets those of the version before it.
DetailsAreSaved ==
    dirty = 0 /\ ~saving.on => \A k \in FileKey : noted[k] # 0 => saved[k] = noted[k]
=============================================================================
