---------------------------- MODULE Drime_proofs ----------------------------
(***************************************************************************)
(* What holds of the Drime store for any number of uploads at one time, of *)
(* files, of failed or unheard requests and of other computers' runs.      *)
(*                                                                         *)
(* DrimeCore says where each call stands and what it may hold of folders   *)
(* and files there; NotesHold what the manifest of details has of each     *)
(* acknowledged file, in memory, on its way and in the drive; AckedHeld    *)
(* that what is acknowledged is in the folder this process knows.          *)
(***************************************************************************)
EXTENDS Drime, Sequences, WellFoundedInduction, TLAPS

(***************************************************************************)
(* Types, and what each call is in the middle of.                          *)
(***************************************************************************)
FileName == {k.name : k \in FileKey}
FileEntry(n) == [id : 1..n, fid : 1..n, name : FileName, ver : 1..n]
CallSteps == {"idle", "source", "send", "replace", "look", "target", "carry", "rename", "note", "delete", "wait"}
DriveCall(n) ==
    [kind : {"none", "put", "move", "empty"}, name : Leaf, at : CallSteps,
     asks : {"nothing", "listing", "folder"}, found : SUBSET FileEntry(n)]
DriveTypes ==
    /\ ids \in Nat /\ folders \subseteq [id : 1..ids, dir : Dir]
    /\ entries \subseteq FileEntry(ids) /\ dying \subseteq 1..ids
    /\ known \in [Dir -> 0..ids] /\ inflight \subseteq Dir
    /\ cache \in [Dir -> [fid : 0..ids, files : SUBSET FileEntry(ids)]]
    /\ call \in [Uploader -> DriveCall(ids)] /\ session \in BOOLEAN
NoteTypes ==
    /\ saved \in [FileKey -> 0..ids] /\ details \in [FileKey -> 0..ids] /\ acked \in [FileKey -> 0..ids]
    /\ noted \in [FileKey -> 0..ids]
    /\ saving \in [on : BOOLEAN, snap : [FileKey -> 0..ids], count : Nat, forget : BOOLEAN]
    /\ loaded \in BOOLEAN /\ dirty \in Nat /\ saving.count <= dirty
    /\ owed \subseteq 1..ids

Working(u) == call[u] # NoCall
CallShape(c) ==
    \/ c = NoCall
    \/ c.kind = "put" /\ c.at \in {"source", "send", "replace", "note"}
    \/ c.kind = "move" /\ c.at \in {"source", "look", "target", "carry", "rename", "note"}
    \/ c.kind = "empty" /\ c.at \in {"source", "delete", "wait"}
\* What a worker asks of Drime, it asks alone, and for a folder nobody knows or one somebody does.
AsksOnce(u) ==
    /\ call[u].asks # "nothing" => call[u].at \in {"source", "target"} /\ Needs(u) \in inflight
    /\ call[u].asks = "folder" => known[Needs(u)] = 0
    /\ call[u].asks = "listing" => /\ call[u].at = "source" /\ known[Needs(u)] # 0
                                   /\ \A e \in call[u].found : e.fid = known[Needs(u)]
Apart(u, v) ==
    /\ Working(u) /\ Working(v) =>
          call[u].kind = call[v].kind /\ call[u].kind # "empty" /\ call[u].name # call[v].name
    /\ call[u].asks # "nothing" /\ call[v].asks # "nothing" => Needs(u) # Needs(v)
CallsOrdered ==
    /\ \A u \in Uploader : CallShape(call[u]) /\ AsksOnce(u) /\ (Working(u) => session)
    /\ \A u, v \in Uploader : u # v => Apart(u, v)
    /\ \A d \in inflight : \E u \in Uploader : call[u].asks # "nothing" /\ Needs(u) = d

FolderAt(d) == [id |-> known[d], dir |-> d]
FoldersHeld ==
    /\ \A f, g \in folders : f.id = g.id => f = g
    /\ \A e \in entries : \E f \in folders : f.id = e.fid
    /\ \A d \in Dir : cache[d].fid \in {0, known[d]} /\ \A e \in cache[d].files : e.fid = cache[d].fid
    /\ known["current"] # 0 => FolderAt("current") \in folders
    /\ known["trash"] # 0 =>
          /\ cache["trash"].fid # 0
          /\ FolderAt("trash") \in folders \/ \E u \in Uploader : call[u].at = "wait"
    /\ \A i \in dying : i = known["trash"] /\ FolderAt("trash") \in folders /\ \E u \in Uploader : call[u].at = "wait"
    /\ \A u \in Uploader : call[u].at \in {"carry", "delete", "wait"} => known["trash"] # 0
    /\ \A u \in Uploader : call[u].at = "wait" => dying # {} \/ \A f \in folders : f.id # known["trash"]

NoteKey(u) == IF call[u].kind = "move" THEN Trashed(call[u].name) ELSE Stored(call[u].name)
\* The one entry this is, in the drive at key k.
AtKey(es, e, k) == es = {e} /\ e \in entries /\ e.fid = known[k.dir] /\ e.name = k.name
FoundRight(u) ==
    LET c == call[u]
        k == Stored(c.name)
    IN /\ c.at = "replace" =>
             \E e \in c.found : /\ e \in entries /\ e.fid = known["current"]
                                /\ \A x \in c.found : x.name = k.name /\ (x # e => x.id < e.id)
       /\ c.at \in {"target", "carry"} => \E e \in c.found : c.found = {e} /\ e.name = k.name
       /\ c.at = "rename" => \E e \in c.found : AtKey(c.found, e, [dir |-> "trash", name |-> k.name])
       /\ c.at = "note" => \E e \in c.found : AtKey(c.found, e, NoteKey(u))
Seen == entries \cup (UNION {cache[d].files : d \in Dir}) \cup (UNION {call[u].found : u \in Uploader})
IdsTell == \A x, y \in Seen : x.id <= y.id => x.ver <= y.ver
AllFound == \A u \in Uploader : FoundRight(u)
DrimeCore == DriveTypes /\ NoteTypes /\ CallsOrdered /\ FoldersHeld /\ AllFound /\ IdsTell

(***************************************************************************)
(* The manifest.                                                           *)
(***************************************************************************)
Agrees(notes) == \A k \in FileKey : noted[k] # 0 => notes[k] = noted[k]
Released(u) ==
    /\ call[u].at = "rename" \/ (call[u].at = "note" /\ call[u].kind = "move") => acked[Stored(call[u].name)] = 0
    /\ call[u].at = "wait" => \A n \in Leaf : acked[Trashed(n)] = 0
NotesHold ==
    /\ dirty = 0 => Agrees(saved)
    /\ loaded => Agrees(details) /\ session
    /\ ~loaded => dirty = 0
    /\ saving.on /\ saving.count > 0 /\ saving.count = dirty => Agrees(saving.snap)
    /\ \A u \in Uploader : Released(u)

(***************************************************************************)
(* What is acknowledged is there.                                          *)
(***************************************************************************)
SoleFolders == \A f \in folders : f.id = known[f.dir]
HeldAt(k) == \E e \in entries : e.fid = known[k.dir] /\ e.name = k.name /\ e.ver >= acked[k]
AckedHeld ==
    /\ \A k \in FileKey : acked[k] # 0 => HeldAt(k)
    /\ owed \subseteq {e.ver : e \in entries}
    /\ \A e \in entries : e.fid \in dying => e.ver \notin owed

(***************************************************************************)
(* Keys, ids and the beginning.                                            *)
(***************************************************************************)
\* A set of naturals with a bound, not empty, has a greatest one.
LEMMA HasGreatest ==
    ASSUME NEW n \in Nat, NEW T, T \subseteq 0..n, T # {}
    PROVE  \E x \in T : \A y \in T : y <= x
<1>. DEFINE D == {n - y : y \in T}
<1>0. \A y \in T : y \in 0..n
  OBVIOUS
<1>1. D \subseteq Nat /\ D # {}
  <2>1. ASSUME NEW y \in T  PROVE n - y \in Nat
    <3>1. y \in 0..n
      BY <1>0
    <3>. QED  BY <3>1
  <2>. QED  BY <2>1
<1>2. PICK m \in D : \A d \in D : ~(<<d, m>> \in OpToRel(<, Nat))
  BY <1>1, NatLessThanWellFounded, WFMin, Zenon
<1>3. \A d \in D : ~(d < m)
  BY <1>1, <1>2 DEF OpToRel
<1>4. PICK x \in T : m = n - x
  OBVIOUS
<1>5. ASSUME NEW y \in T  PROVE y <= x
  <2>1. ~(n - y < m)
    BY <1>3
  <2>2. x \in 0..n /\ y \in 0..n
    BY <1>0
  <2>. QED  BY <1>4, <2>1, <2>2
<1>. QED  BY <1>5

\* A key tells its folder and its name, and a name is of one key.
LEMMA KeyNames ==
    /\ \A n \in Leaf : /\ Stored(n) \in FileKey /\ Stored(n).dir = "current" /\ Stored(n).name \in FileName
                       /\ Trashed(n) \in FileKey /\ Trashed(n).dir = "trash" /\ Trashed(n).name \in FileName
    /\ \A k \in FileKey : k.dir \in Dir /\ k.name \in FileName
    /\ \A m, n \in Leaf : /\ Stored(m).name # Trashed(n).name
                          /\ Stored(m).name = Stored(n).name => m = n
                          /\ Trashed(m).name = Trashed(n).name => m = n
    /\ \A k, l \in FileKey : k.name = l.name => k = l
<1>1. \A m, n \in Leaf : <<m>> # <<n, "binned">>
  <2> SUFFICES ASSUME NEW m \in Leaf, NEW n \in Leaf, <<m>> = <<n, "binned">> PROVE FALSE
    OBVIOUS
  <2>1. Len(<<m>>) = 1 /\ Len(<<n, "binned">>) = 2
    OBVIOUS
  <2> QED BY <2>1
<1>2. \A m, n \in Leaf : (<<m>> = <<n>> => m = n) /\ (<<m, "binned">> = <<n, "binned">> => m = n)
  OBVIOUS
<1>3. \A n \in Leaf : /\ Stored(n) \in FileKey /\ Stored(n).dir = "current" /\ Stored(n).name = <<n>>
                      /\ Trashed(n) \in FileKey /\ Trashed(n).dir = "trash" /\ Trashed(n).name = <<n, "binned">>
  BY DEF Stored, Trashed, FileKey
<1>4. \A k \in FileKey : \E n \in Leaf : k = Stored(n) \/ k = Trashed(n)
  BY DEF FileKey
<1>5. \A k \in FileKey : k.name \in FileName
  BY DEF FileName
<1>6. \A k, l \in FileKey : k.name = l.name => k = l
  BY <1>1, <1>2, <1>3, <1>4
<1>7. \A k \in FileKey : k.dir \in Dir
  BY <1>3, <1>4 DEF Dir
<1>8. \A n \in Leaf : Stored(n).name \in FileName /\ Trashed(n).name \in FileName
  BY <1>3, <1>5
<1> QED BY <1>1, <1>2, <1>3, <1>5, <1>6, <1>7, <1>8

\* What is true of the ids so far is true of more of them.
LEMMA IdsGrow ==
    ASSUME NEW m \in Nat, NEW n \in Nat, m <= n
    PROVE  /\ 1..m \subseteq 1..n /\ 0..m \subseteq 0..n
           /\ FileEntry(m) \subseteq FileEntry(n) /\ DriveCall(m) \subseteq DriveCall(n)
           /\ [id : 1..m, dir : Dir] \subseteq [id : 1..n, dir : Dir]
           /\ [Dir -> 0..m] \subseteq [Dir -> 0..n] /\ [FileKey -> 0..m] \subseteq [FileKey -> 0..n]
           /\ [fid : 0..m, files : SUBSET FileEntry(m)] \subseteq [fid : 0..n, files : SUBSET FileEntry(n)]
<1>1. 1..m \subseteq 1..n /\ 0..m \subseteq 0..n
  OBVIOUS
<1>2. FileEntry(m) \subseteq FileEntry(n)
  BY <1>1 DEF FileEntry
<1>3. DriveCall(m) \subseteq DriveCall(n)
  BY <1>2 DEF DriveCall
<1>4. [id : 1..m, dir : Dir] \subseteq [id : 1..n, dir : Dir]
  BY <1>1
<1>5. [Dir -> 0..m] \subseteq [Dir -> 0..n] /\ [FileKey -> 0..m] \subseteq [FileKey -> 0..n]
  BY <1>1
<1>6. [fid : 0..m, files : SUBSET FileEntry(m)] \subseteq [fid : 0..n, files : SUBSET FileEntry(n)]
  BY <1>1, <1>2
<1> QED BY <1>1, <1>2, <1>3, <1>4, <1>5, <1>6

\* No call is a call.
LEMMA NoCallTyped == \A n \in Nat : NoCall \in DriveCall(n) /\ NoCall.at = "idle" /\ NoCall.asks = "nothing" /\ NoCall.found = {}
BY DrimeAssumption DEF NoCall, DriveCall, CallSteps

\* Everything holds of a drive and a process that begin.
LEMMA DrimeStarts == DrimeInit => DrimeCore /\ NotesHold /\ SoleFolders /\ AckedHeld
<1> SUFFICES ASSUME DrimeInit
             PROVE  DrimeCore /\ NotesHold /\ SoleFolders /\ AckedHeld
  OBVIOUS
<1>1. NoDetails \in [FileKey -> 0..0] /\ \A k \in FileKey : NoDetails[k] = 0
  BY DEF NoDetails
<1>2. DriveTypes
  <2>1. ids = 0 /\ ids \in Nat
    BY DEF DrimeInit
  <2>2. NotListed \in [fid : 0..ids, files : SUBSET FileEntry(ids)]
    BY <2>1 DEF NotListed
  <2>3. cache \in [Dir -> [fid : 0..ids, files : SUBSET FileEntry(ids)]]
    BY <2>2 DEF DrimeInit
  <2>4. call \in [Uploader -> DriveCall(ids)]
    BY <2>1, NoCallTyped DEF DrimeInit
  <2>5. known \in [Dir -> 0..ids]
    BY <2>1 DEF DrimeInit
  <2> QED BY <2>1, <2>3, <2>4, <2>5 DEF DrimeInit, DriveTypes
<1>3. NoteTypes
  <2>0. noted = NoDetails
    BY DEF DrimeInit
  <2>1. ids = 0 /\ NotSaving \in [on : BOOLEAN, snap : [FileKey -> 0..0], count : Nat, forget : BOOLEAN] /\ NotSaving.count = 0
    BY <1>1 DEF DrimeInit, NotSaving
  <2>2. /\ saved = NoDetails /\ details = NoDetails /\ acked = NoDetails /\ saving = NotSaving
        /\ loaded = FALSE /\ dirty = 0 /\ owed = {}
    BY DEF DrimeInit
  <2>3. saving.count <= dirty /\ dirty \in Nat /\ owed \subseteq 1..ids
    BY <2>1, <2>2
  <2> QED BY <1>1, <2>0, <2>1, <2>2, <2>3 DEF NoteTypes
<1>4. \A u \in Uploader : call[u] = NoCall
  BY DEF DrimeInit
<1>5. CallsOrdered
  BY <1>4, NoCallTyped DEF DrimeInit, CallsOrdered, CallShape, AsksOnce, Working, Apart
<1>6. FoldersHeld
  <2>1. folders = {} /\ entries = {} /\ dying = {} /\ known["current"] = 0 /\ known["trash"] = 0
    BY DEF DrimeInit, Dir
  <2>2. \A d \in Dir : cache[d].fid = 0 /\ cache[d].files = {}
    BY DEF DrimeInit, NotListed
  <2>3. \A u \in Uploader : call[u].at = "idle"
    BY <1>4, NoCallTyped
  <2> QED BY <2>1, <2>2, <2>3 DEF FoldersHeld
<1>7. AllFound
  BY <1>4, NoCallTyped DEF AllFound, FoundRight
<1>8. IdsTell
  <2>1. Seen = {}
    BY <1>4, NoCallTyped DEF DrimeInit, Seen, NotListed
  <2> QED BY <2>1 DEF IdsTell
<1>9. NotesHold
  BY <1>1, <1>4, NoCallTyped DEF DrimeInit, NotesHold, Agrees, Released, NotSaving
<1>10. SoleFolders /\ AckedHeld
  BY <1>1 DEF DrimeInit, SoleFolders, AckedHeld
<1> QED BY <1>2, <1>3, <1>5, <1>6, <1>7, <1>8, <1>9, <1>10 DEF DrimeCore

WorldOfDrime == DriveDeletes \/ SaveNotes \/ NotesSaved \/ \E n \in Leaf : OtherRun(n)

\* A worker's step is its own.
LEMMA WorkerAlone ==
    ASSUME DriveTypes, NEW u \in Uploader, WorkerOf(u), NEW v \in Uploader, v # u
    PROVE  call'[v] = call[v]
BY DEF DriveTypes, WorkerOf, BeginCall, Resolve, ListFolder, CreateFolder, Send, SendRelists, Replace, FindCopy, Carry,
       GiveTrashName, DeleteFolder, FolderGone, FolderStays, Note, To, Fails, Emptied

(***************************************************************************)
(* What a step leaves of its worker's call.                                *)
(***************************************************************************)
Now(u, s, a, f) == call'[u] = [kind |-> call[u].kind, name |-> call[u].name, at |-> s, asks |-> a, found |-> f]
CallOver(u) == call'[u] = NoCall
TheOne(u) == CHOOSE x \in call[u].found : TRUE
SentCopy(u, i) == [id |-> i, fid |-> cache["current"].fid, name |-> Stored(call[u].name).name, ver |-> ids + 1]
InTrash(e) == [e EXCEPT !.fid = cache["trash"].fid]
TrashNamed(u, e) == [e EXCEPT !.name = Trashed(call[u].name).name]
AfterCreateFolder(u) ==
    /\ ids' \in {ids, ids + 1, ids + 2}
    /\ folders' = folders \cup {[id |-> i, dir |-> Needs(u)] : i \in ids + 1 .. ids'}
    /\ \/ /\ ids' # ids /\ (LostFolders \/ ids' = ids + 1)
          /\ known' = [known EXCEPT ![Needs(u)] = ids']
          /\ cache' = [cache EXCEPT ![Needs(u)] = [fid |-> ids', files |-> {}]]
          /\ Now(u, GoesOn(u), "nothing", call[u].found)
       \/ /\ (LostFolders \/ ids' = ids)
          /\ CallOver(u) /\ UNCHANGED <<known, cache>>
AfterSend(u) ==
    /\ ids' \in {ids, ids + 1, ids + 2}
    /\ entries' = entries \cup {SentCopy(u, i) : i \in ids + 1 .. ids'}
    /\ \/ /\ ids' # ids /\ UNCHANGED cache
          /\ Now(u, "replace", "nothing", Named(cache["current"].files, Stored(call[u].name)) \cup {SentCopy(u, ids')})
       \/ CallOver(u) /\ cache' \in {cache, [cache EXCEPT !["current"] = NotListed]}
AfterReplace(u) ==
    LET new == Newest(call[u].found)
        old == call[u].found \ new
    IN /\ owed' = owed \ {e.ver : e \in old}
       /\ Deleted(old) \/ UNCHANGED entries
       /\ \/ /\ Now(u, "note", "nothing", new) /\ Deleted(old)
             /\ cache' = Listing("current", CHOOSE e \in new : TRUE, old)
          \/ CallOver(u) /\ UNCHANGED cache
AfterFindCopy(u) ==
    LET there == Newest(Named(cache["current"].files, Stored(call[u].name)))
    IN CallOver(u) \/ (there # {} /\ Now(u, "target", "nothing", there))
AfterCarry(u) ==
    LET Carried == /\ TheOne(u) \in entries
                   /\ entries' = (entries \ {TheOne(u)}) \cup {InTrash(TheOne(u))}
    IN \/ CallOver(u) /\ UNCHANGED <<entries, cache, ackVars>>
       \/ /\ acked' = [acked EXCEPT ![Stored(call[u].name)] = 0] /\ UNCHANGED owed
          /\ \/ /\ Carried /\ Now(u, "rename", "nothing", {InTrash(TheOne(u))})
                /\ cache' = [cache EXCEPT !["current"].files = @ \ {TheOne(u)}]
             \/ (Carried \/ UNCHANGED entries) /\ CallOver(u) /\ UNCHANGED cache
AfterGiveTrashName(u) ==
    LET renamed == TrashNamed(u, TheOne(u))
        Renamed == entries' = (entries \ {TheOne(u)}) \cup {renamed}
    IN \/ Renamed /\ cache' = Listing("trash", renamed, {}) /\ Now(u, "note", "nothing", {renamed})
       \/ (Renamed \/ UNCHANGED entries) /\ CallOver(u) /\ UNCHANGED cache

LEMMA CallFields ==
    ASSUME DriveTypes, NEW u \in Uploader
    PROVE  /\ call[u] \in DriveCall(ids)
           /\ \A s : To(u, s) => Now(u, s, call[u].asks, call[u].found)
           /\ Fails(u) => CallOver(u)
           /\ \A s, f : call' = [call EXCEPT ![u].at = s, ![u].found = f] => Now(u, s, call[u].asks, f)
           /\ \A a, f : call' = [call EXCEPT ![u].asks = a, ![u].found = f] => Now(u, call[u].at, a, f)
           /\ \A s, a : call' = [call EXCEPT ![u].at = s, ![u].asks = a] => Now(u, s, a, call[u].found)
           /\ \A s, a, f : call' = [call EXCEPT ![u].at = s, ![u].asks = a, ![u].found = f] => Now(u, s, a, f)
           /\ \A a : call' = [call EXCEPT ![u].asks = a] => Now(u, call[u].at, a, call[u].found)
<1>1. call \in [Uploader -> DriveCall(ids)] /\ call[u] \in DriveCall(ids)
  BY DEF DriveTypes
<1>2. \A s : To(u, s) => Now(u, s, call[u].asks, call[u].found)
  BY <1>1 DEF To, Now, DriveCall
<1>3. Fails(u) => CallOver(u)
  BY <1>1 DEF Fails, CallOver
<1>4. \A s, f : call' = [call EXCEPT ![u].at = s, ![u].found = f] => Now(u, s, call[u].asks, f)
  BY <1>1 DEF Now, DriveCall
<1>5. \A a, f : call' = [call EXCEPT ![u].asks = a, ![u].found = f] => Now(u, call[u].at, a, f)
  BY <1>1 DEF Now, DriveCall
<1>6. \A s, a : call' = [call EXCEPT ![u].at = s, ![u].asks = a] => Now(u, s, a, call[u].found)
  BY <1>1 DEF Now, DriveCall
<1>7. \A s, a, f : call' = [call EXCEPT ![u].at = s, ![u].asks = a, ![u].found = f] => Now(u, s, a, f)
  BY <1>1 DEF Now, DriveCall
<1>8. \A a : call' = [call EXCEPT ![u].asks = a] => Now(u, call[u].at, a, call[u].found)
  BY <1>1 DEF Now, DriveCall
<1> QED BY <1>1, <1>2, <1>3, <1>4, <1>5, <1>6, <1>7, <1>8

LEMMA ResolveCalls ==
    ASSUME DriveTypes, NEW u \in Uploader, Resolve(u)
    PROVE  \/ cache[Needs(u)].fid # 0 /\ Now(u, GoesOn(u), "nothing", call[u].found) /\ UNCHANGED inflight
           \/ /\ cache[Needs(u)].fid = 0 /\ known[Needs(u)] # 0 /\ Mark(u)
              /\ Now(u, call[u].at, "listing", In(known[Needs(u)]))
           \/ /\ cache[Needs(u)].fid = 0 /\ known[Needs(u)] = 0 /\ Creates(u) /\ Mark(u)
              /\ Now(u, call[u].at, "folder", call[u].found)
           \/ CallOver(u) /\ UNCHANGED inflight
<1>1. call[u].asks = "nothing"
  BY DEF Resolve
<1>2. CASE cache[Needs(u)].fid # 0 /\ To(u, GoesOn(u)) /\ UNCHANGED inflight
  BY <1>1, <1>2, CallFields
<1>3. CASE /\ cache[Needs(u)].fid = 0 /\ known[Needs(u)] # 0 /\ Mark(u)
           /\ call' = [call EXCEPT ![u].asks = "listing", ![u].found = In(known[Needs(u)])]
  BY <1>3, CallFields
<1>4. CASE /\ cache[Needs(u)].fid = 0 /\ known[Needs(u)] = 0 /\ Creates(u) /\ Mark(u)
           /\ call' = [call EXCEPT ![u].asks = "folder"]
  BY <1>4, CallFields
<1>5. CASE Fails(u) /\ UNCHANGED inflight
  BY <1>5, CallFields
<1> QED BY <1>2, <1>3, <1>4, <1>5 DEF Resolve

LEMMA ListCalls ==
    ASSUME DriveTypes, NEW u \in Uploader, ListFolder(u)
    PROVE  \/ /\ cache' = [cache EXCEPT ![Needs(u)] = [fid |-> known[Needs(u)], files |-> call[u].found]]
              /\ Now(u, GoesOn(u), "nothing", {})
           \/ CallOver(u) /\ UNCHANGED cache
<1>1. CASE /\ cache' = [cache EXCEPT ![Needs(u)] = [fid |-> known[Needs(u)], files |-> call[u].found]]
           /\ call' = [call EXCEPT ![u].at = GoesOn(u), ![u].asks = "nothing", ![u].found = {}]
  BY <1>1, CallFields
<1>2. CASE Fails(u) /\ UNCHANGED cache
  BY <1>2, CallFields
<1> QED BY <1>1, <1>2 DEF ListFolder

LEMMA CreateCalls ==
    ASSUME DriveTypes, NEW u \in Uploader, CreateFolder(u)
    PROVE  AfterCreateFolder(u)
<1> USE DEF AfterCreateFolder
<1> DEFINE Made(n) == /\ folders' = folders \cup {[id |-> i, dir |-> Needs(u)] : i \in ids + 1 .. ids + n}
                      /\ ids' = ids + n
           Heard == /\ known' = [known EXCEPT ![Needs(u)] = ids']
                    /\ cache' = [cache EXCEPT ![Needs(u)] = [fid |-> ids', files |-> {}]]
                    /\ call' = [call EXCEPT ![u].at = GoesOn(u), ![u].asks = "nothing"]
           Unheard == Fails(u) /\ UNCHANGED <<known, cache>>
<1>1. (Made(1) /\ Heard) \/ (Made(0) /\ Unheard) \/ (LostFolders /\ ((Made(1) /\ Unheard) \/ (Made(2) /\ Heard)))
  BY DEF CreateFolder
<1>2. ids \in Nat
  BY DEF DriveTypes
<1>3. Heard => Now(u, GoesOn(u), "nothing", call[u].found)
  BY CallFields
<1>4. Unheard => CallOver(u) /\ UNCHANGED <<known, cache>>
  BY CallFields
<1>5. \A n \in {0, 1, 2} : Made(n) => /\ ids' = ids + n
         /\ folders' = folders \cup {[id |-> i, dir |-> Needs(u)] : i \in ids + 1 .. ids'}
  OBVIOUS
<1> HIDE DEF Made, Heard, Unheard
<1>6. CASE Made(1) /\ Heard
  BY <1>2, <1>3, <1>5, <1>6 DEF Heard
<1>7. CASE Made(0) /\ Unheard
  <2>1. ids' = ids
    BY <1>2, <1>5, <1>7
  <2> QED BY <1>4, <1>5, <1>7, <2>1
<1>8. CASE LostFolders /\ Made(1) /\ Unheard
  BY <1>2, <1>4, <1>5, <1>8
<1>9. CASE LostFolders /\ Made(2) /\ Heard
  BY <1>2, <1>3, <1>5, <1>9 DEF Heard
<1> QED BY <1>1, <1>6, <1>7, <1>8, <1>9

LEMMA SendCalls ==
    ASSUME DriveTypes, NEW u \in Uploader, Send(u)
    PROVE  AfterSend(u)
<1> USE DEF AfterSend
<1> DEFINE k == Stored(call[u].name)
           new == {[id |-> i, fid |-> cache["current"].fid, name |-> k.name, ver |-> ids + 1] : i \in {ids + 1, ids + 2}}
           Copies(n) == ids' = ids + n /\ entries' = entries \cup {e \in new : e.id <= ids + n}
           Found == Named(cache["current"].files, k) \cup {e \in new : e.id = ids'}
           Heard == call' = [call EXCEPT ![u].at = "replace", ![u].found = Found] /\ UNCHANGED cache
           Unheard == Fails(u) /\ cache' \in {cache, [cache EXCEPT !["current"] = NotListed]}
<1>1. (Copies(1) /\ Heard) \/ (Copies(2) /\ Heard) \/ ((Copies(1) \/ Copies(0)) /\ Unheard)
  BY DEF Send
<1>2. ids \in Nat /\ call[u].asks = "nothing"
  BY DEF DriveTypes, Send, At
<1>3. \A n \in {0, 1, 2} : {e \in new : e.id <= ids + n} = {SentCopy(u, i) : i \in ids + 1 .. ids + n}
  BY <1>2 DEF SentCopy
<1>4. \A n \in {1, 2} : {e \in new : e.id = ids + n} = {SentCopy(u, ids + n)}
  BY <1>2 DEF SentCopy
<1>5. Heard => Now(u, "replace", "nothing", Found) /\ UNCHANGED cache
  <2>1. \A f : call' = [call EXCEPT ![u].at = "replace", ![u].found = f] => Now(u, "replace", call[u].asks, f)
    BY CallFields
  <2> HIDE DEF Found
  <2> QED BY <1>2, <2>1
<1>6. Unheard => CallOver(u) /\ cache' \in {cache, [cache EXCEPT !["current"] = NotListed]}
  BY CallFields
<1>7. \A n \in {0, 1, 2} : Copies(n) => ids' = ids + n /\ entries' = entries \cup {SentCopy(u, i) : i \in ids + 1 .. ids'}
  BY <1>3
<1>8. \A n \in {1, 2} : Copies(n) => Found = Named(cache["current"].files, k) \cup {SentCopy(u, ids')}
  BY <1>4
<1> HIDE DEF k, new, Copies, Found, Heard, Unheard
<1>9. CASE \E n \in {1, 2} : Copies(n) /\ Heard
  <2>1. PICK n \in {1, 2} : Copies(n) /\ Heard
    BY <1>9
  <2>2. Found = Named(cache["current"].files, k) \cup {SentCopy(u, ids')} /\ ids' \in {ids + 1, ids + 2}
    BY <1>7, <1>8, <2>1
  <2>3. entries' = entries \cup {SentCopy(u, i) : i \in ids + 1 .. ids'}
    BY <1>7, <2>1
  <2>4. Now(u, "replace", "nothing", Named(cache["current"].files, k) \cup {SentCopy(u, ids')}) /\ UNCHANGED cache
    BY <1>5, <2>1, <2>2
  <2>5. ids' # ids
    BY <1>2, <2>2
  <2> QED BY <2>2, <2>3, <2>4, <2>5 DEF k
<1>10. CASE \E n \in {0, 1} : Copies(n) /\ Unheard
  <2>1. PICK n \in {0, 1} : Copies(n) /\ Unheard
    BY <1>10
  <2>2. ids' \in {ids, ids + 1}
    BY <1>2, <1>7, <2>1
  <2>3. entries' = entries \cup {SentCopy(u, i) : i \in ids + 1 .. ids'}
    BY <1>7, <2>1
  <2> QED BY <1>6, <2>1, <2>2, <2>3 DEF k
<1> QED BY <1>1, <1>9, <1>10

LEMMA ReplaceCalls ==
    ASSUME DriveTypes, NEW u \in Uploader, Replace(u)
    PROVE  AfterReplace(u)
<1> USE DEF AfterReplace
<1> DEFINE new == Newest(call[u].found)
           old == call[u].found \ new
<1>1. \A f : call' = [call EXCEPT ![u].at = "note", ![u].found = f] => Now(u, "note", call[u].asks, f)
  BY CallFields
<1>2. call[u].asks = "nothing"
  BY DEF Replace, At
<1>3. Fails(u) => CallOver(u)
  BY CallFields
<1>4. \/ /\ Deleted(old) /\ cache' = Listing("current", CHOOSE e \in new : TRUE, old)
         /\ call' = [call EXCEPT ![u].at = "note", ![u].found = new]
      \/ (Deleted(old) \/ UNCHANGED entries) /\ Fails(u) /\ UNCHANGED cache
  BY DEF Replace
<1>5. owed' = owed \ {e.ver : e \in old}
  BY DEF Replace
<1> HIDE DEF new, old
<1>6. CASE /\ Deleted(old) /\ cache' = Listing("current", CHOOSE e \in new : TRUE, old)
           /\ call' = [call EXCEPT ![u].at = "note", ![u].found = new]
  <2>1. Now(u, "note", "nothing", new)
    BY <1>1, <1>2, <1>6
  <2> QED BY <1>5, <1>6, <2>1 DEF new, old
<1>7. CASE (Deleted(old) \/ UNCHANGED entries) /\ Fails(u) /\ UNCHANGED cache
  BY <1>3, <1>5, <1>7 DEF new, old
<1> QED BY <1>4, <1>6, <1>7

LEMMA FindCalls ==
    ASSUME DriveTypes, NEW u \in Uploader, FindCopy(u)
    PROVE  AfterFindCopy(u)
<1> USE DEF AfterFindCopy
<1> DEFINE there == Newest(Named(cache["current"].files, Stored(call[u].name)))
<1>1. \A f : call' = [call EXCEPT ![u].at = "target", ![u].found = f] => Now(u, "target", call[u].asks, f)
  BY CallFields
<1>2. call[u].asks = "nothing" /\ (Fails(u) => CallOver(u))
  BY CallFields DEF FindCopy, At
<1>3. Fails(u) \/ (there # {} /\ call' = [call EXCEPT ![u].at = "target", ![u].found = there])
  BY DEF FindCopy
<1> HIDE DEF there
<1>4. CallOver(u) \/ (there # {} /\ Now(u, "target", "nothing", there))
  BY <1>1, <1>2, <1>3
<1> QED BY <1>4 DEF there

LEMMA CarryCalls ==
    ASSUME DriveTypes, NEW u \in Uploader, Carry(u)
    PROVE  AfterCarry(u)
<1> USE DEF AfterCarry
<1> DEFINE e == TheOne(u)
           there == InTrash(e)
           Carried == entries' = (entries \ {e}) \cup {there}
           Forgot == acked' = [acked EXCEPT ![Stored(call[u].name)] = 0] /\ UNCHANGED owed
           Less == cache' = [cache EXCEPT !["current"].files = @ \ {e}]
<1>1. \A f : call' = [call EXCEPT ![u].at = "rename", ![u].found = f] => Now(u, "rename", call[u].asks, f)
  BY CallFields
<1>2. call[u].asks = "nothing" /\ (Fails(u) => CallOver(u))
  BY CallFields DEF Carry, At
<1>3. \/ Fails(u) /\ UNCHANGED <<entries, cache, ackVars>>
      \/ e \in entries /\ Carried /\ Less /\ call' = [call EXCEPT ![u].at = "rename", ![u].found = {there}] /\ Forgot
      \/ e \in entries /\ (Carried \/ UNCHANGED entries) /\ Fails(u) /\ UNCHANGED cache /\ Forgot
  BY DEF Carry, TheOne, InTrash
<1> HIDE DEF e, there, Carried, Forgot, Less
<1>4. CASE e \in entries /\ Carried /\ Less /\ call' = [call EXCEPT ![u].at = "rename", ![u].found = {there}] /\ Forgot
  <2>1. Now(u, "rename", "nothing", {there})
    BY <1>1, <1>2, <1>4
  <2> QED BY <1>4, <2>1 DEF e, there, Carried, Forgot, Less
<1>5. CASE e \in entries /\ (Carried \/ UNCHANGED entries) /\ Fails(u) /\ UNCHANGED cache /\ Forgot
  BY <1>2, <1>5 DEF e, there, Carried, Forgot
<1>6. CASE Fails(u) /\ UNCHANGED <<entries, cache, ackVars>>
  BY <1>2, <1>6
<1> QED BY <1>3, <1>4, <1>5, <1>6

LEMMA TrashNameCalls ==
    ASSUME DriveTypes, NEW u \in Uploader, GiveTrashName(u)
    PROVE  AfterGiveTrashName(u)
<1> USE DEF AfterGiveTrashName
<1> DEFINE e == TheOne(u)
           renamed == TrashNamed(u, e)
           Renamed == entries' = (entries \ {e}) \cup {renamed}
           Lists == cache' = Listing("trash", renamed, {})
<1>1. \A f : call' = [call EXCEPT ![u].at = "note", ![u].found = f] => Now(u, "note", call[u].asks, f)
  BY CallFields
<1>2. call[u].asks = "nothing" /\ (Fails(u) => CallOver(u))
  BY CallFields DEF GiveTrashName, At
<1>3. \/ Renamed /\ Lists /\ call' = [call EXCEPT ![u].at = "note", ![u].found = {renamed}]
      \/ (Renamed \/ UNCHANGED entries) /\ Fails(u) /\ UNCHANGED cache
  BY DEF GiveTrashName, TheOne, TrashNamed
<1> HIDE DEF e, renamed, Renamed, Lists
<1>4. CASE Renamed /\ Lists /\ call' = [call EXCEPT ![u].at = "note", ![u].found = {renamed}]
  <2>1. Now(u, "note", "nothing", {renamed})
    BY <1>1, <1>2, <1>4
  <2> QED BY <1>4, <2>1 DEF e, renamed, Renamed, Lists
<1>5. CASE (Renamed \/ UNCHANGED entries) /\ Fails(u) /\ UNCHANGED cache
  BY <1>2, <1>5 DEF e, renamed, Renamed
<1> QED BY <1>3, <1>4, <1>5

\* A step that fails, waits or notes.
LEMMA LastCalls ==
    ASSUME DriveTypes, NEW u \in Uploader
    PROVE  /\ SendRelists(u) => Now(u, "source", "nothing", call[u].found)
           /\ DeleteFolder(u) => Now(u, "wait", "nothing", call[u].found) \/ CallOver(u)
           /\ FolderGone(u) => CallOver(u)
           /\ FolderStays(u) => CallOver(u)
           /\ Note(u) => CallOver(u)
<1>1. SendRelists(u) => Now(u, "source", "nothing", call[u].found)
  <2> SUFFICES ASSUME SendRelists(u) PROVE Now(u, "source", "nothing", call[u].found)
    OBVIOUS
  <2> QED BY CallFields DEF SendRelists, At
<1>2. DeleteFolder(u) => Now(u, "wait", "nothing", call[u].found) \/ CallOver(u)
  <2> SUFFICES ASSUME DeleteFolder(u) PROVE Now(u, "wait", "nothing", call[u].found) \/ CallOver(u)
    OBVIOUS
  <2>1. call[u].asks = "nothing" /\ (To(u, "wait") \/ Fails(u))
    BY DEF DeleteFolder, At, Emptied
  <2> QED BY <2>1, CallFields
<1>3. (FolderGone(u) => CallOver(u)) /\ (FolderStays(u) => CallOver(u)) /\ (Note(u) => CallOver(u))
  BY CallFields DEF FolderGone, FolderStays, Emptied, Note
<1> QED BY <1>1, <1>2, <1>3

\* What a deletion that did not come to its end leaves.
LEMMA StayCalls ==
    ASSUME NEW u \in Uploader, FolderStays(u)
    PROVE  /\ call[u].at = "wait" /\ call[u].asks = "nothing" /\ dying' = {}
           /\ UNCHANGED <<folders, ids, saved, inflight, noteVars, session, acked, owed>>
           /\ \E f \in FirstFolder("trash"), gone \in SUBSET entries :
                /\ \A e \in gone : e.fid \in dying
                /\ entries' = entries \ gone /\ known' = [known EXCEPT !["trash"] = f.id]
                /\ cache' = [cache EXCEPT !["trash"] = [fid |-> f.id, files |-> In(f.id) \ gone]]
<1>1. PICK f \in FirstFolder("trash"), gone \in SUBSET {e \in entries : e.fid \in dying} :
         /\ entries' = entries \ gone /\ known' = [known EXCEPT !["trash"] = f.id]
         /\ cache' = [cache EXCEPT !["trash"] = [fid |-> f.id, files |-> In(f.id) \ gone]]
  BY DEF FolderStays
<1>2. gone \in SUBSET entries /\ \A e \in gone : e.fid \in dying
  OBVIOUS
<1>3. /\ call[u].at = "wait" /\ call[u].asks = "nothing" /\ dying' = {}
      /\ UNCHANGED <<folders, ids, saved, inflight, noteVars, session, acked, owed>>
  BY DEF FolderStays, At, ackVars
<1> QED BY <1>1, <1>2, <1>3

\* Where the first folder of a name is none, there is none.
LEMMA NoFirstNone ==
    ASSUME DriveTypes, NEW d \in Dir, FirstFolder(d) = {}
    PROVE  \A f \in folders : f.dir # d
<1> SUFFICES ASSUME NEW g \in folders, g.dir = d PROVE FALSE
  OBVIOUS
<1>0. ids \in Nat /\ folders \subseteq [id : 1..ids, dir : Dir]
  BY DEF DriveTypes
<1> DEFINE T == {ids - f.id : f \in {h \in folders : h.dir = d}}
<1>1. T \subseteq 0..ids /\ T # {}
  <2>1. \A f \in folders : ids - f.id \in 0..ids
    <3> TAKE f \in folders
    <3>1. f.id \in 1..ids
      BY <1>0
    <3> QED BY <1>0, <3>1
  <2> QED BY <2>1
<1> HIDE DEF T
<1>2. PICK x \in T : \A y \in T : y <= x
  BY <1>0, <1>1, HasGreatest
<1>3. PICK f \in folders : f.dir = d /\ x = ids - f.id
  BY <1>2 DEF T
<1>4. \A h \in folders : h.dir = d => f.id <= h.id
  <2> TAKE h \in folders
  <2> HAVE h.dir = d
  <2>1. ids - h.id <= ids - f.id
    BY <1>2, <1>3 DEF T
  <2>2. h.id \in 1..ids /\ f.id \in 1..ids
    BY <1>0
  <2> QED BY <1>0, <2>1, <2>2
<1> QED BY <1>3, <1>4 DEF FirstFolder

LEMMA BeginCalls ==
    ASSUME DriveTypes, NEW u \in Uploader, BeginCall(u)
    PROVE  /\ call[u] = NoCall
           /\ \E kind \in {"put", "move", "empty"}, n \in Leaf :
                /\ call'[u] = [kind |-> kind, name |-> n, at |-> "source", asks |-> "nothing", found |-> {}]
                /\ \A v \in Uploader : call[v] # NoCall => kind # "empty" /\ call[v].kind = kind /\ call[v].name # n
<1>1. PICK kind \in {"put", "move", "empty"}, n \in Leaf :
         /\ \A v \in Uploader : call[v] # NoCall => kind # "empty" /\ call[v].kind = kind /\ call[v].name # n
         /\ call' = [call EXCEPT ![u] = [NoCall EXCEPT !.kind = kind, !.name = n, !.at = "source"]]
  BY DEF BeginCall
<1>2. [NoCall EXCEPT !.kind = kind, !.name = n, !.at = "source"]
         = [kind |-> kind, name |-> n, at |-> "source", asks |-> "nothing", found |-> {}]
  <2>1. PICK m : NoCall = [kind |-> "none", name |-> m, at |-> "idle", asks |-> "nothing", found |-> {}]
    BY DEF NoCall
  <2>2. [NoCall EXCEPT !.kind = kind] = [kind |-> kind, name |-> m, at |-> "idle", asks |-> "nothing", found |-> {}]
    BY <2>1
  <2> DEFINE c == [NoCall EXCEPT !.kind = kind]
             d == [c EXCEPT !.name = n]
  <2>3. c = [kind |-> kind, name |-> m, at |-> "idle", asks |-> "nothing", found |-> {}]
    BY <2>2
  <2> HIDE DEF c
  <2>4. d = [kind |-> kind, name |-> n, at |-> "idle", asks |-> "nothing", found |-> {}]
    BY <2>3
  <2> HIDE DEF d
  <2>5. [d EXCEPT !.at = "source"] = [kind |-> kind, name |-> n, at |-> "source", asks |-> "nothing", found |-> {}]
    BY <2>4
  <2> QED BY <2>5 DEF c, d
<1>3. call'[u] = [kind |-> kind, name |-> n, at |-> "source", asks |-> "nothing", found |-> {}]
  BY <1>1, <1>2 DEF DriveTypes
<1>4. call[u] = NoCall
  BY DEF BeginCall
<1> QED BY <1>1, <1>3, <1>4

LEMMA CallsOf ==
    ASSUME DriveTypes, NEW u \in Uploader, WorkerOf(u)
    PROVE  call' = [v \in Uploader |-> call'[v]]
BY DEF DriveTypes, WorkerOf, BeginCall, Resolve, ListFolder, CreateFolder, Send, SendRelists, Replace, FindCopy, Carry,
       GiveTrashName, DeleteFolder, FolderGone, FolderStays, Note, To, Fails, Emptied

LEMMA TypedCall ==
    ASSUME DriveTypes, ids' \in Nat, ids <= ids', NEW u \in Uploader, WorkerOf(u),
           CallOver(u) \/ \E s \in CallSteps, a \in {"nothing", "listing", "folder"}, f \in SUBSET FileEntry(ids') : Now(u, s, a, f)
    PROVE  call' \in [Uploader -> DriveCall(ids')]
<1>1. call \in [Uploader -> DriveCall(ids)] /\ ids \in Nat
  BY DEF DriveTypes
<1>2. DriveCall(ids) \subseteq DriveCall(ids')
  BY <1>1, IdsGrow
<1>3. call'[u] \in DriveCall(ids')
  <2>1. CASE \E s \in CallSteps, a \in {"nothing", "listing", "folder"}, f \in SUBSET FileEntry(ids') : Now(u, s, a, f)
    BY <1>1, <2>1 DEF Now, DriveCall
  <2>2. CASE CallOver(u)
    BY <2>2, NoCallTyped DEF CallOver
  <2> QED BY <2>1, <2>2
<1>4. \A v \in Uploader : call'[v] \in DriveCall(ids')
  BY <1>1, <1>2, <1>3, WorkerAlone
<1> HIDE DEF WorkerOf
<1> QED BY <1>4, CallsOf

LEMMA GoesOnTyped == \A u \in Uploader : GoesOn(u) \in CallSteps
BY DEF GoesOn, CallSteps

\* The entry a call has found, or has just sent.
LEMMA TheFound ==
    ASSUME DriveTypes, AllFound, NEW u \in Uploader
    PROVE  /\ call[u].at \in {"target", "carry", "rename", "note"} =>
                 \E e \in FileEntry(ids) : call[u].found = {e} /\ e = TheOne(u)
           /\ call[u].at = "replace" =>
                 \E e \in entries : /\ Newest(call[u].found) = {e} /\ e = CHOOSE x \in Newest(call[u].found) : TRUE
                                    /\ e.fid = known["current"] /\ e \in call[u].found
                                    /\ \A x \in call[u].found : x.name = Stored(call[u].name).name /\ (x # e => x.id < e.id)
<1>1. FoundRight(u) /\ call[u].found \subseteq FileEntry(ids)
  BY DEF AllFound, DriveTypes, DriveCall
<1>2. ASSUME call[u].at \in {"target", "carry", "rename", "note"}
      PROVE  \E e \in FileEntry(ids) : call[u].found = {e} /\ e = TheOne(u)
  <2>1. \E e \in call[u].found : call[u].found = {e}
    BY <1>1, <1>2 DEF FoundRight, AtKey
  <2> QED BY <1>1, <2>1 DEF TheOne
<1>3. ASSUME call[u].at = "replace"
      PROVE  \E e \in entries : /\ Newest(call[u].found) = {e} /\ e = CHOOSE x \in Newest(call[u].found) : TRUE
                                /\ e.fid = known["current"] /\ e \in call[u].found
                                /\ \A x \in call[u].found : x.name = Stored(call[u].name).name /\ (x # e => x.id < e.id)
  <2>1. PICK e \in call[u].found : /\ e \in entries /\ e.fid = known["current"]
                                   /\ \A x \in call[u].found : x.name = Stored(call[u].name).name /\ (x # e => x.id < e.id)
    BY <1>1, <1>3 DEF FoundRight
  <2>2. \A x \in call[u].found : x.id \in Nat
    BY <1>1 DEF FileEntry
  <2>3. Newest(call[u].found) = {e}
    BY <2>1, <2>2 DEF Newest
  <2> QED BY <2>1, <2>3
<1> QED BY <1>2, <1>3

LEMMA ListingTyped ==
    ASSUME DriveTypes, NEW d \in Dir, NEW e \in FileEntry(ids), NEW gone
    PROVE  /\ Listing(d, e, gone) \in [Dir -> [fid : 0..ids, files : SUBSET FileEntry(ids)]]
           /\ \A c \in Dir : Listing(d, e, gone)[c].fid = cache[c].fid
           /\ \A c \in Dir : c # d => Listing(d, e, gone)[c] = cache[c]
           /\ cache[d].fid = 0 => Listing(d, e, gone) = cache
           /\ cache[d].fid # 0 => Listing(d, e, gone)[d].files = {f \in cache[d].files : f \notin gone /\ f.name # e.name} \cup {e}
<1>1. cache \in [Dir -> [fid : 0..ids, files : SUBSET FileEntry(ids)]]
  BY DEF DriveTypes
<1> QED BY <1>1 DEF Listing

\* What a worker's step may do to the drive, the tree and the calls.
LEMMA CallKeepsDriveTypes ==
    ASSUME DrimeCore, NEW u \in Uploader, WorkerOf(u)
    PROVE  DriveTypes'
<1>1. /\ DriveTypes /\ AllFound /\ ids \in Nat
      /\ cache \in [Dir -> [fid : 0..ids, files : SUBSET FileEntry(ids)]]
      /\ entries \subseteq FileEntry(ids) /\ folders \subseteq [id : 1..ids, dir : Dir]
      /\ known \in [Dir -> 0..ids] /\ inflight \subseteq Dir /\ dying \subseteq 1..ids /\ session \in BOOLEAN
  BY DEF DrimeCore, DriveTypes
<1>2. /\ call[u] \in DriveCall(ids) /\ GoesOn(u) \in CallSteps /\ Needs(u) \in Dir /\ {"current", "trash"} \subseteq Dir
      /\ {"source", "target", "look", "replace", "note", "rename", "wait"} \subseteq CallSteps
  BY <1>1, CallFields, GoesOnTyped DEF Needs, Dir, CallSteps
<1>3. call[u].at \in CallSteps /\ call[u].found \subseteq FileEntry(ids) /\ call[u].name \in Leaf
  BY <1>2 DEF DriveCall
<1>4. NotListed \in [fid : 0..ids, files : SUBSET FileEntry(ids)] /\ NotListed.fid = 0 /\ NotListed.files = {}
  BY <1>1 DEF NotListed
<1> USE DEF driveVars, treeVars
<1>5. CASE BeginCall(u)
  <2>1. call'[u] \in DriveCall(ids)
    <3>1. PICK kind \in {"put", "move", "empty"}, n \in Leaf :
             call'[u] = [kind |-> kind, name |-> n, at |-> "source", asks |-> "nothing", found |-> {}]
      BY <1>1, <1>5, BeginCalls
    <3> QED BY <1>2, <3>1 DEF DriveCall
  <2>2. \A v \in Uploader : call'[v] \in DriveCall(ids)
    BY <1>1, <2>1, WorkerAlone DEF DriveTypes
  <2>3. call' \in [Uploader -> DriveCall(ids)]
    BY <1>1, <2>2, CallsOf
  <2> QED BY <1>1, <1>5, <2>3 DEF BeginCall, DriveTypes
<1>6. CASE Resolve(u)
  <2>1. UNCHANGED <<ids, folders, entries, dying, known, cache, session>>
    BY <1>6 DEF Resolve
  <2>2. In(known[Needs(u)]) \subseteq FileEntry(ids)
    BY <1>1 DEF In
  <2>3. call' \in [Uploader -> DriveCall(ids)] /\ inflight' \subseteq Dir
    BY <1>1, <1>2, <1>3, <1>6, <2>1, <2>2, ResolveCalls, TypedCall DEF Mark
  <2> QED BY <1>1, <2>1, <2>3 DEF DriveTypes
<1>7. CASE ListFolder(u)
  <2>1. UNCHANGED <<ids, folders, entries, dying, known, session>> /\ inflight' \subseteq inflight
    BY <1>7 DEF ListFolder, Answered
  <2>2. call' \in [Uploader -> DriveCall(ids)]
    BY <1>1, <1>2, <1>7, <2>1, ListCalls, TypedCall
  <2>3. [fid |-> known[Needs(u)], files |-> call[u].found] \in [fid : 0..ids, files : SUBSET FileEntry(ids)]
    BY <1>1, <1>2, <1>3
  <2>4. cache' \in [Dir -> [fid : 0..ids, files : SUBSET FileEntry(ids)]]
    BY <1>1, <1>7, <2>3, ListCalls
  <2> QED BY <1>1, <2>1, <2>2, <2>4 DEF DriveTypes
<1>8. CASE CreateFolder(u)
  <2> AfterCreateFolder(u)
    BY <1>1, <1>8, CreateCalls
  <2> USE DEF AfterCreateFolder
  <2>1. UNCHANGED <<entries, dying, session>> /\ inflight' \subseteq inflight
    BY <1>8 DEF CreateFolder, Answered
  <2>2. ids' \in Nat /\ ids <= ids' /\ ids' \in 0..ids'
    BY <1>1, <1>8
  <2>3. call' \in [Uploader -> DriveCall(ids')]
    <3>1. call[u].found \subseteq FileEntry(ids')
      BY <1>1, <1>3, <2>2, IdsGrow
    <3> QED BY <1>1, <1>2, <1>8, <2>2, <3>1, TypedCall
  <2>4. [fid |-> ids', files |-> {}] \in [fid : 0..ids', files : SUBSET FileEntry(ids')]
    BY <2>2
  <2>5. /\ cache \in [Dir -> [fid : 0..ids', files : SUBSET FileEntry(ids')]] /\ known \in [Dir -> 0..ids']
        /\ entries \subseteq FileEntry(ids') /\ folders \subseteq [id : 1..ids', dir : Dir] /\ dying \subseteq 1..ids'
    BY <1>1, <2>2, IdsGrow
  <2>6. cache' \in [Dir -> [fid : 0..ids', files : SUBSET FileEntry(ids')]] /\ known' \in [Dir -> 0..ids']
    BY <1>1, <1>8, <2>2, <2>4, <2>5
  <2>7. folders' \subseteq [id : 1..ids', dir : Dir]
    <3>1. ids + 1 .. ids' \subseteq 1..ids'
      BY <1>1, <2>2
    <3> QED BY <1>1, <1>2, <1>8, <2>5, <3>1
  <2> QED BY <1>1, <2>1, <2>2, <2>3, <2>5, <2>6, <2>7 DEF DriveTypes
<1>9. CASE Send(u)
  <2> AfterSend(u)
    BY <1>1, <1>9, SendCalls
  <2> USE DEF AfterSend
  <2>1. UNCHANGED <<folders, dying, known, inflight, session>> /\ cache["current"].fid # 0
    BY <1>9 DEF Send
  <2>2. ids' \in Nat /\ ids <= ids'
    BY <1>1, <1>9
  <2>3. \A i \in ids + 1 .. ids' : SentCopy(u, i) \in FileEntry(ids')
    <3>1. cache["current"].fid \in 1..ids' /\ ids + 1 .. ids' \subseteq 1..ids' /\ (ids' # ids => ids + 1 \in 1..ids')
      BY <1>1, <1>2, <2>1, <2>2
    <3>2. Stored(call[u].name).name \in FileName
      BY <1>3, KeyNames
    <3> QED BY <1>1, <2>2, <3>1, <3>2 DEF FileEntry, SentCopy
  <2>4. /\ cache \in [Dir -> [fid : 0..ids', files : SUBSET FileEntry(ids')]] /\ known \in [Dir -> 0..ids']
        /\ entries \subseteq FileEntry(ids') /\ folders \subseteq [id : 1..ids', dir : Dir] /\ dying \subseteq 1..ids'
        /\ NotListed \in [fid : 0..ids', files : SUBSET FileEntry(ids')]
    BY <1>1, <1>4, <2>2, IdsGrow
  <2>5. entries' \subseteq FileEntry(ids')
    BY <1>1, <1>9, <2>3, <2>4
  <2>6. cache' \in [Dir -> [fid : 0..ids', files : SUBSET FileEntry(ids')]]
    BY <1>1, <1>9, <2>4
  <2>7. call' \in [Uploader -> DriveCall(ids')]
    <3>1. CASE CallOver(u)
      BY <1>1, <1>2, <2>2, <3>1, TypedCall
    <3>2. CASE ids' # ids /\ Now(u, "replace", "nothing", Named(cache["current"].files, Stored(call[u].name)) \cup {SentCopy(u, ids')})
      <4>1. ids' \in ids + 1 .. ids'
        BY <1>1, <2>2, <3>2
      <4>2. Named(cache["current"].files, Stored(call[u].name)) \subseteq FileEntry(ids')
        BY <1>2, <2>4 DEF Named
      <4>3. Named(cache["current"].files, Stored(call[u].name)) \cup {SentCopy(u, ids')} \in SUBSET FileEntry(ids')
        BY <2>3, <4>1, <4>2
      <4> QED BY <1>1, <1>2, <2>2, <3>2, <4>3, TypedCall
    <3> QED BY <1>1, <1>9, <3>1, <3>2
  <2> QED BY <1>1, <2>1, <2>2, <2>4, <2>5, <2>6, <2>7 DEF DriveTypes
<1>10. CASE SendRelists(u)
  <2>1. UNCHANGED <<ids, folders, entries, dying, known, cache, inflight, session>>
    BY <1>10 DEF SendRelists
  <2>2. call' \in [Uploader -> DriveCall(ids)]
    BY <1>1, <1>2, <1>3, <1>10, <2>1, LastCalls, TypedCall
  <2> QED BY <1>1, <2>1, <2>2 DEF DriveTypes
<1>11. CASE Replace(u)
  <2> AfterReplace(u)
    BY <1>1, <1>11, ReplaceCalls
  <2> USE DEF AfterReplace
  <2>1. UNCHANGED <<ids, folders, dying, known, inflight, session>> /\ call[u].at = "replace"
    BY <1>11 DEF Replace, At
  <2>2. PICK e \in entries : Newest(call[u].found) = {e} /\ e = CHOOSE x \in Newest(call[u].found) : TRUE
    BY <1>1, <2>1, TheFound
  <2>3. call' \in [Uploader -> DriveCall(ids)]
    <3>1. {e} \in SUBSET FileEntry(ids)
      BY <1>1
    <3> QED BY <1>1, <1>2, <1>11, <2>1, <2>2, <3>1, TypedCall
  <2>4. entries' \subseteq FileEntry(ids)
    BY <1>1, <1>11 DEF Deleted
  <2>5. cache' \in [Dir -> [fid : 0..ids, files : SUBSET FileEntry(ids)]]
    <3>1. Listing("current", e, call[u].found \ {e}) \in [Dir -> [fid : 0..ids, files : SUBSET FileEntry(ids)]]
      BY <1>1, <1>2, ListingTyped
    <3> QED BY <1>1, <1>11, <2>2, <3>1
  <2> QED BY <1>1, <2>1, <2>3, <2>4, <2>5 DEF DriveTypes
<1>12. CASE FindCopy(u)
  <2> AfterFindCopy(u)
    BY <1>1, <1>12, FindCalls
  <2> USE DEF AfterFindCopy
  <2>1. UNCHANGED <<ids, folders, entries, dying, known, cache, inflight, session>>
    BY <1>12 DEF FindCopy
  <2>2. Newest(Named(cache["current"].files, Stored(call[u].name))) \in SUBSET FileEntry(ids)
    BY <1>1, <1>2 DEF Newest, Named
  <2>3. call' \in [Uploader -> DriveCall(ids)]
    BY <1>1, <1>2, <1>3, <1>12, <2>1, <2>2, TypedCall
  <2> QED BY <1>1, <2>1, <2>3 DEF DriveTypes
<1>13. CASE Carry(u)
  <2> AfterCarry(u)
    BY <1>1, <1>13, CarryCalls
  <2> USE DEF AfterCarry
  <2>1. UNCHANGED <<ids, folders, dying, known, inflight, session>> /\ call[u].at = "carry"
    BY <1>13 DEF Carry, At
  <2>2. PICK e \in FileEntry(ids) : call[u].found = {e} /\ e = TheOne(u)
    BY <1>1, <2>1, TheFound
  <2>3. InTrash(e) \in FileEntry(ids)
    <3>1. cache["trash"].fid \in 1..ids
      BY <1>1, <1>2, <2>1 DEF DrimeCore, FoldersHeld
    <3> QED BY <3>1 DEF FileEntry, InTrash
  <2>4. call' \in [Uploader -> DriveCall(ids)] /\ entries' \subseteq FileEntry(ids)
    BY <1>1, <1>2, <1>13, <2>1, <2>2, <2>3, TypedCall
  <2>5. cache' \in [Dir -> [fid : 0..ids, files : SUBSET FileEntry(ids)]]
    <3>1. [cache EXCEPT !["current"].files = @ \ {e}] \in [Dir -> [fid : 0..ids, files : SUBSET FileEntry(ids)]]
      BY <1>1, <1>2
    <3> QED BY <1>1, <1>13, <2>2, <3>1
  <2> QED BY <1>1, <2>1, <2>4, <2>5 DEF DriveTypes
<1>14. CASE GiveTrashName(u)
  <2> AfterGiveTrashName(u)
    BY <1>1, <1>14, TrashNameCalls
  <2> USE DEF AfterGiveTrashName
  <2>1. UNCHANGED <<ids, folders, dying, known, inflight, session>> /\ call[u].at = "rename"
    BY <1>14 DEF GiveTrashName, At
  <2>2. PICK e \in FileEntry(ids) : call[u].found = {e} /\ e = TheOne(u)
    BY <1>1, <2>1, TheFound
  <2>3. TrashNamed(u, e) \in FileEntry(ids)
    BY <1>3, KeyNames DEF FileEntry, TrashNamed
  <2>4. call' \in [Uploader -> DriveCall(ids)] /\ entries' \subseteq FileEntry(ids)
    BY <1>1, <1>2, <1>14, <2>1, <2>2, <2>3, TypedCall
  <2>5. cache' \in [Dir -> [fid : 0..ids, files : SUBSET FileEntry(ids)]]
    <3>1. Listing("trash", TrashNamed(u, e), {}) \in [Dir -> [fid : 0..ids, files : SUBSET FileEntry(ids)]]
      BY <1>1, <1>2, <2>3, ListingTyped
    <3> QED BY <1>1, <1>14, <2>2, <3>1
  <2> QED BY <1>1, <2>1, <2>4, <2>5 DEF DriveTypes
<1>15. CASE DeleteFolder(u) \/ FolderGone(u)
  <2>1. UNCHANGED <<ids, inflight, session>> /\ folders' \subseteq folders /\ entries' \subseteq entries
    BY <1>15 DEF DeleteFolder, FolderGone, Vanishing
  <2>2. call' \in [Uploader -> DriveCall(ids)]
    BY <1>1, <1>2, <1>3, <1>15, <2>1, LastCalls, TypedCall
  <2>3. cache' \in [Dir -> [fid : 0..ids, files : SUBSET FileEntry(ids)]] /\ known' \in [Dir -> 0..ids]
    BY <1>1, <1>4, <1>15 DEF DeleteFolder, FolderGone, Emptied, TrashGone
  <2>4. dying' \subseteq 1..ids
    <3>1. CASE DeleteFolder(u)
      <4>1. known["trash"] \in 1..ids
        BY <1>1, <1>2, <3>1 DEF DeleteFolder, At, DrimeCore, FoldersHeld
      <4> QED BY <1>1, <3>1, <4>1 DEF DeleteFolder
    <3>2. CASE FolderGone(u)
      BY <1>1, <3>2 DEF FolderGone
    <3> QED BY <1>15, <3>1, <3>2
  <2> QED BY <1>1, <2>1, <2>2, <2>3, <2>4 DEF DriveTypes
<1>17. CASE FolderStays(u)
  <2>1. PICK f \in FirstFolder("trash"), gone \in SUBSET entries :
           /\ entries' = entries \ gone /\ known' = [known EXCEPT !["trash"] = f.id]
           /\ cache' = [cache EXCEPT !["trash"] = [fid |-> f.id, files |-> In(f.id) \ gone]]
    BY <1>17, StayCalls
  <2>2. UNCHANGED <<ids, folders, inflight, session>> /\ dying' = {}
    BY <1>17, StayCalls
  <2>3. f.id \in 1..ids
    BY <1>1 DEF FirstFolder
  <2>4. In(f.id) \ gone \subseteq FileEntry(ids) /\ entries' \subseteq FileEntry(ids)
    BY <1>1, <2>1 DEF In
  <2>5. [fid |-> f.id, files |-> In(f.id) \ gone] \in [fid : 0..ids, files : SUBSET FileEntry(ids)]
    BY <1>1, <2>3, <2>4
  <2>6. cache' \in [Dir -> [fid : 0..ids, files : SUBSET FileEntry(ids)]] /\ known' \in [Dir -> 0..ids]
    BY <1>1, <1>2, <2>1, <2>3, <2>5
  <2>7. call' \in [Uploader -> DriveCall(ids)]
    BY <1>1, <1>17, <2>2, LastCalls, TypedCall
  <2> QED BY <1>1, <2>2, <2>4, <2>6, <2>7 DEF DriveTypes
<1>16. CASE Note(u)
  <2>1. UNCHANGED <<ids, folders, entries, dying, known, cache, inflight, session>>
    BY <1>16 DEF Note
  <2>2. call' \in [Uploader -> DriveCall(ids)]
    BY <1>1, <1>2, <1>3, <1>16, <2>1, LastCalls, TypedCall
  <2> QED BY <1>1, <2>1, <2>2 DEF DriveTypes
<1> QED BY <1>5, <1>6, <1>7, <1>8, <1>9, <1>10, <1>11, <1>12, <1>13, <1>14, <1>15, <1>16, <1>17 DEF WorkerOf

Notes(n) == [on : BOOLEAN, snap : [FileKey -> 0..n], count : Nat, forget : BOOLEAN]
LEMMA TwoGiven ==
    ASSUME NEW S, NEW T, NEW f \in [S -> T], NEW a, NEW b, NEW v \in T, NEW w \in T
    PROVE  [f EXCEPT ![a] = v, ![b] = w] \in [S -> T]
OBVIOUS

LEMMA NotesLast ==
    ASSUME NoteTypes, ids \in Nat, ids' \in Nat, ids <= ids'
    PROVE  /\ saved \in [FileKey -> 0..ids'] /\ details \in [FileKey -> 0..ids'] /\ acked \in [FileKey -> 0..ids']
           /\ noted \in [FileKey -> 0..ids']
           /\ saving \in Notes(ids') /\ owed \subseteq 1..ids' /\ dirty \in Nat
<1>1. [FileKey -> 0..ids] \subseteq [FileKey -> 0..ids'] /\ 1..ids \subseteq 1..ids'
  BY IdsGrow
<1>2. saving \in Notes(ids')
  BY <1>1 DEF NoteTypes, Notes
<1> QED BY <1>1, <1>2 DEF NoteTypes

LEMMA CallKeepsNoteTypes ==
    ASSUME DrimeCore, NEW u \in Uploader, WorkerOf(u)
    PROVE  NoteTypes'
<1>1. /\ DriveTypes /\ AllFound /\ NoteTypes /\ ids \in Nat /\ entries \subseteq FileEntry(ids)
      /\ call[u] \in DriveCall(ids) /\ call[u].name \in Leaf
  BY CallFields DEF DrimeCore, DriveTypes, DriveCall
<1>2. ids' \in Nat /\ ids <= ids'
  <2>1. CASE CreateFolder(u)
    BY <1>1, <2>1, CreateCalls DEF AfterCreateFolder
  <2>2. CASE Send(u)
    <3> AfterSend(u)
      BY <1>1, <2>2, SendCalls
    <3> QED BY <1>1 DEF AfterSend
  <2>3. CASE ~CreateFolder(u) /\ ~Send(u)
    <3>1. UNCHANGED ids
      BY <2>3 DEF WorkerOf, BeginCall, Resolve, ListFolder, SendRelists, Replace, FindCopy, Carry,
                  GiveTrashName, DeleteFolder, FolderGone, FolderStays, Note, driveVars
    <3> QED BY <1>1, <3>1
  <2> QED BY <2>1, <2>2, <2>3
<1>3. /\ saved \in [FileKey -> 0..ids'] /\ details \in [FileKey -> 0..ids'] /\ acked \in [FileKey -> 0..ids']
      /\ noted \in [FileKey -> 0..ids']
      /\ saving \in Notes(ids') /\ owed \subseteq 1..ids' /\ dirty \in Nat /\ saving.count <= dirty /\ loaded \in BOOLEAN
      /\ 0 \in 0..ids' /\ 1..ids \subseteq 0..ids' /\ 1..ids \subseteq 1..ids'
  BY <1>1, <1>2, NotesLast DEF NoteTypes
<1> USE DEF noteVars, ackVars
<1>4. CASE \/ BeginCall(u) \/ Resolve(u) \/ ListFolder(u) \/ CreateFolder(u) \/ Send(u) \/ SendRelists(u)
           \/ GiveTrashName(u) \/ FolderStays(u)
  <2>1. UNCHANGED <<saved, details, acked, noted, saving, loaded, dirty, owed>>
    BY <1>4 DEF BeginCall, Resolve, ListFolder, CreateFolder, Send, SendRelists, GiveTrashName, FolderStays
  <2> QED BY <1>3, <2>1 DEF NoteTypes, Notes
<1>8. CASE FindCopy(u)
  <2>1. UNCHANGED <<saved, acked, noted, saving, dirty, owed>> /\ details' \in {details, saved} /\ loaded' \in {loaded, TRUE}
    BY <1>8 DEF FindCopy, NotesHeld
  <2> QED BY <1>3, <2>1 DEF NoteTypes, Notes
<1>5. CASE Replace(u) \/ Carry(u)
  <2>1. UNCHANGED <<saved, details, noted, saving, loaded, dirty>> /\ owed' \subseteq owed
        /\ (acked' = acked \/ acked' = [acked EXCEPT ![Stored(call[u].name)] = 0])
    BY <1>5 DEF Replace, Carry
  <2> QED BY <1>3, <2>1 DEF NoteTypes, Notes
<1>6. CASE DeleteFolder(u) \/ FolderGone(u)
  <2>1. UNCHANGED <<saved, saving, loaded>> /\ owed' \subseteq owed
        /\ (acked' = acked \/ acked' = [k \in FileKey |-> IF k.dir = "trash" THEN 0 ELSE acked[k]])
        /\ (details' = details \/ details' = [k \in FileKey |-> IF k.dir = "trash" /\ loaded THEN 0 ELSE details[k]])
        /\ (noted' = noted \/ noted' = [k \in FileKey |-> IF k.dir = "trash" THEN 0 ELSE noted[k]])
        /\ dirty' \in {dirty, dirty + 1}
    BY <1>6 DEF DeleteFolder, FolderGone, Emptied
  <2>2. acked' \in [FileKey -> 0..ids'] /\ details' \in [FileKey -> 0..ids'] /\ noted' \in [FileKey -> 0..ids']
    BY <1>3, <2>1
  <2>3. dirty' \in Nat /\ saving'.count <= dirty'
    BY <1>3, <2>1 DEF Notes
  <2> QED BY <1>3, <2>1, <2>2, <2>3 DEF NoteTypes, Notes
<1>7. CASE Note(u)
  <2>1. call[u].at = "note"
    BY <1>7 DEF Note, At
  <2>2. PICK e \in FileEntry(ids) : call[u].found = {e} /\ e = TheOne(u)
    BY <1>1, <2>1, TheFound
  <2>3. e.ver \in 0..ids' /\ e.ver \in 1..ids'
    BY <1>3 DEF FileEntry
  <2> DEFINE held == NotesHeld
             from == Stored(call[u].name)
             k == NoteKey(u)
             given == IF call[u].kind = "move" THEN held[from] ELSE e.ver
             kept == IF call[u].kind # "move" \/ noted[from] = e.ver THEN e.ver ELSE 0
  <2>4. \/ /\ details' = [held EXCEPT ![from] = 0, ![k] = given]
           /\ noted' = [noted EXCEPT ![from] = 0, ![k] = kept]
           /\ loaded' = TRUE /\ dirty' = dirty + 1
           /\ acked' = [acked EXCEPT ![k] = e.ver] /\ owed' = owed \cup {e.ver}
        \/ UNCHANGED <<details, loaded, dirty, noted, acked, owed>>
    BY <1>7, <2>2 DEF Note, TheOne, NoteKey
  <2>5. UNCHANGED <<saved, saving>>
    BY <1>7 DEF Note
  <2>6. held \in [FileKey -> 0..ids'] /\ from \in FileKey
    BY <1>1, <1>3, KeyNames DEF NotesHeld
  <2>9. given \in 0..ids' /\ kept \in 0..ids'
    BY <1>3, <2>3, <2>6
  <2> HIDE DEF held, k, from, given, kept
  <2>7. /\ details' \in [FileKey -> 0..ids'] /\ acked' \in [FileKey -> 0..ids'] /\ owed' \subseteq 1..ids'
        /\ noted' \in [FileKey -> 0..ids']
    <3>1. /\ details \in [FileKey -> 0..ids'] /\ acked \in [FileKey -> 0..ids']
          /\ noted \in [FileKey -> 0..ids'] /\ owed \subseteq 1..ids' /\ 0 \in 0..ids'
      BY <1>3
    <3>2. details' \in [FileKey -> 0..ids']
      <4>1. [held EXCEPT ![from] = 0, ![k] = given] \in [FileKey -> 0..ids']
        BY <3>1, <2>6, <2>9, TwoGiven
      <4> QED BY <4>1, <3>1, <2>4
    <3>3. acked' \in [FileKey -> 0..ids'] /\ owed' \subseteq 1..ids'
      BY <3>1, <2>3, <2>4
    <3>4. noted' \in [FileKey -> 0..ids']
      <4>1. [noted EXCEPT ![from] = 0, ![k] = kept] \in [FileKey -> 0..ids']
        BY <3>1, <2>9, TwoGiven
      <4> QED BY <4>1, <3>1, <2>4
    <3> QED BY <3>2, <3>3, <3>4
  <2>8. dirty' \in Nat /\ saving'.count <= dirty' /\ loaded' \in BOOLEAN
    <3>1. dirty' \in {dirty, dirty + 1} /\ loaded' \in BOOLEAN
      BY <1>3, <2>4
    <3>2. saving.count \in Nat /\ saving' = saving
      BY <1>3, <2>5 DEF Notes
    <3> QED BY <1>3, <3>1, <3>2
  <2> QED BY <1>3, <2>5, <2>7, <2>8 DEF NoteTypes, Notes
<1> QED BY <1>4, <1>5, <1>6, <1>7, <1>8 DEF WorkerOf

LEMMA OtherWrites ==
    ASSUME DriveTypes, NEW n \in Leaf, OtherRun(n)
    PROVE  \E e : \E f \in FirstFolder("current") :
             /\ e = [id |-> ids + 1, fid |-> f.id, name |-> Stored(n).name, ver |-> ids + 1]
             /\ entries' = (entries \ Named(In(f.id), Stored(n))) \cup {e}
             /\ ids' = ids + 1 /\ e \in FileEntry(ids')
             /\ saved' = [saved EXCEPT ![Stored(n)] = ids'] /\ acked' = [acked EXCEPT ![Stored(n)] = ids']
             /\ noted' = [noted EXCEPT ![Stored(n)] = ids']
             /\ owed' = (owed \ {x.ver : x \in entries \ entries'}) \cup {ids'}
             /\ ~session /\ UNCHANGED <<folders, dying, known, cache, inflight, call, details, loaded, dirty, saving, session>>
<1> DEFINE f == CHOOSE x \in FirstFolder("current") : TRUE
           e == [id |-> ids + 1, fid |-> f.id, name |-> Stored(n).name, ver |-> ids + 1]
<1>1. f \in FirstFolder("current") /\ f.id \in 1..ids /\ ids \in Nat
  <2>1. FirstFolder("current") # {}
    BY DEF OtherRun
  <2> QED BY <2>1 DEF FirstFolder, DriveTypes
<1>2. /\ entries' = (entries \ Named(In(f.id), Stored(n))) \cup {e}
      /\ ids' = ids + 1
      /\ saved' = [saved EXCEPT ![Stored(n)] = ids'] /\ acked' = [acked EXCEPT ![Stored(n)] = ids']
      /\ noted' = [noted EXCEPT ![Stored(n)] = ids']
      /\ owed' = (owed \ {x.ver : x \in entries \ entries'}) \cup {ids'}
      /\ ~session /\ UNCHANGED <<folders, dying, known, cache, inflight, call, details, loaded, dirty, saving, session>>
  BY DEF OtherRun, treeVars, noteVars
<1>3. e \in FileEntry(ids')
  <2>1. ids + 1 \in 1..ids' /\ f.id \in 1..ids'
    BY <1>1, <1>2
  <2> HIDE DEF f
  <2> QED BY <2>1, KeyNames DEF FileEntry
<1> HIDE DEF f, e
<1>4. e = [id |-> ids + 1, fid |-> f.id, name |-> Stored(n).name, ver |-> ids + 1]
  BY DEF e
<1> QED BY <1>1, <1>2, <1>3, <1>4

LEMMA OthersKeepTypes ==
    ASSUME DrimeCore, WorldOfDrime
    PROVE  DriveTypes' /\ NoteTypes'
<1>1. DriveTypes /\ NoteTypes /\ ids \in Nat
  BY DEF DrimeCore, DriveTypes
<1>2. CASE DriveDeletes
  <2>1. /\ UNCHANGED <<ids, saved, known, cache, inflight, call, details, loaded, dirty, noted, saving, session, acked, owed>>
        /\ folders' \subseteq folders /\ entries' \subseteq entries /\ dying' \subseteq dying
    BY <1>2 DEF DriveDeletes, Vanishing, treeVars, noteVars, ackVars
  <2> QED BY <1>1, <2>1 DEF DriveTypes, NoteTypes
<1>3. CASE SaveNotes
  <2>1. /\ UNCHANGED <<ids, folders, entries, dying, saved, known, cache, inflight, call, details, loaded, dirty, noted, session, acked, owed>>
        /\ \E forget \in {FALSE, NoneCalling} : saving' = [on |-> TRUE, snap |-> details, count |-> dirty, forget |-> forget]
    BY <1>3 DEF SaveNotes, driveVars, treeVars, ackVars
  <2>2. saving' \in [on : BOOLEAN, snap : [FileKey -> 0..ids], count : Nat, forget : BOOLEAN] /\ saving'.count = dirty
    <3>1. NoneCalling \in BOOLEAN
      BY DEF NoneCalling
    <3>2. details \in [FileKey -> 0..ids] /\ dirty \in Nat
      BY <1>1 DEF NoteTypes
    <3>3. PICK forget \in BOOLEAN : saving' = [on |-> TRUE, snap |-> details, count |-> dirty, forget |-> forget]
      BY <2>1, <3>1
    <3> QED BY <3>2, <3>3
  <2>3. saving'.count <= dirty'
    BY <1>1, <2>1, <2>2 DEF NoteTypes
  <2> QED BY <1>1, <2>1, <2>2, <2>3 DEF DriveTypes, NoteTypes
<1>4. CASE NotesSaved
  <2>1. /\ UNCHANGED <<ids, folders, entries, dying, known, cache, inflight, call, noted, acked, owed>>
        /\ saving' = NotSaving /\ saved' \in {saved, saving.snap} /\ dirty' \in {dirty, dirty - saving.count}
        /\ loaded' \in {loaded, FALSE} /\ details' \in {details, NoDetails} /\ session' \in {session, FALSE}
    BY <1>4 DEF NotesSaved, LeftDirty, driveVars, treeVars, ackVars
  <2>2. NoDetails \in [FileKey -> 0..ids]
    BY <1>1 DEF NoDetails
  <2>3. NotSaving \in [on : BOOLEAN, snap : [FileKey -> 0..ids], count : Nat, forget : BOOLEAN] /\ NotSaving.count = 0
    BY <2>2 DEF NotSaving
  <2>4. saving.snap \in [FileKey -> 0..ids] /\ dirty \in Nat /\ saving.count \in Nat /\ saving.count <= dirty
    BY <1>1 DEF NoteTypes
  <2>5. dirty' \in Nat /\ saving'.count <= dirty'
    BY <2>1, <2>3, <2>4
  <2>6. DriveTypes'
    BY <1>1, <2>1 DEF DriveTypes
  <2>7. saved' \in [FileKey -> 0..ids'] /\ details' \in [FileKey -> 0..ids'] /\ acked' \in [FileKey -> 0..ids']
        /\ noted' \in [FileKey -> 0..ids']
        /\ loaded' \in BOOLEAN /\ owed' \subseteq 1..ids'
    BY <1>1, <2>1, <2>2, <2>4 DEF NoteTypes
  <2> HIDE DEF NotSaving
  <2> QED BY <2>1, <2>3, <2>5, <2>6, <2>7 DEF NoteTypes
<1>5. CASE \E n \in Leaf : OtherRun(n)
  <2>1. PICK n \in Leaf : OtherRun(n)
    BY <1>5
  <2>2. PICK e : \E f \in FirstFolder("current") :
             /\ entries' = (entries \ Named(In(f.id), Stored(n))) \cup {e}
             /\ ids' = ids + 1 /\ e \in FileEntry(ids')
             /\ saved' = [saved EXCEPT ![Stored(n)] = ids'] /\ acked' = [acked EXCEPT ![Stored(n)] = ids']
             /\ noted' = [noted EXCEPT ![Stored(n)] = ids']
             /\ owed' = (owed \ {x.ver : x \in entries \ entries'}) \cup {ids'}
             /\ UNCHANGED <<folders, dying, known, cache, inflight, call, details, loaded, dirty, saving, session>>
    BY <1>1, <2>1, OtherWrites
  <2>3. ids' \in Nat /\ ids <= ids' /\ ids' \in 1..ids' /\ ids' \in 0..ids'
    BY <1>1, <2>2
  <2>4. /\ 1..ids \subseteq 1..ids' /\ FileEntry(ids) \subseteq FileEntry(ids') /\ DriveCall(ids) \subseteq DriveCall(ids')
        /\ [id : 1..ids, dir : Dir] \subseteq [id : 1..ids', dir : Dir] /\ [Dir -> 0..ids] \subseteq [Dir -> 0..ids']
        /\ [fid : 0..ids, files : SUBSET FileEntry(ids)] \subseteq [fid : 0..ids', files : SUBSET FileEntry(ids')]
    BY <1>1, <2>3, IdsGrow
  <2>5. DriveTypes'
    <3>1. entries' \subseteq FileEntry(ids')
      BY <1>1, <2>2, <2>4 DEF DriveTypes
    <3>2. UNCHANGED <<folders, dying, known, cache, inflight, call, session>>
      BY <2>2
    <3> QED BY <1>1, <2>3, <2>4, <3>1, <3>2 DEF DriveTypes
  <2>6. /\ saved \in [FileKey -> 0..ids'] /\ details \in [FileKey -> 0..ids'] /\ acked \in [FileKey -> 0..ids']
        /\ saving \in Notes(ids') /\ owed \subseteq 1..ids' /\ dirty \in Nat /\ noted \in [FileKey -> 0..ids']
    BY <1>1, <2>3, NotesLast
  <2>7. /\ saved' \in [FileKey -> 0..ids'] /\ acked' \in [FileKey -> 0..ids'] /\ owed' \subseteq 1..ids'
        /\ noted' \in [FileKey -> 0..ids']
    BY <2>2, <2>3, <2>6
  <2> QED BY <1>1, <2>2, <2>5, <2>6, <2>7 DEF NoteTypes, Notes
<1> QED BY <1>2, <1>3, <1>4, <1>5 DEF WorldOfDrime

(***************************************************************************)
(* Who is calling, and what they ask.                                      *)
(***************************************************************************)
\* Where a call stands once it goes on.
LEMMA GoesOnTo ==
    ASSUME DriveTypes, NEW u \in Uploader, CallShape(call[u]), call[u].at \in {"source", "target"}
    PROVE  /\ call[u].kind = "put" => GoesOn(u) = "send" /\ Needs(u) = "current"
           /\ call[u].kind = "empty" => GoesOn(u) = "delete" /\ Needs(u) = "trash"
           /\ call[u].kind = "move" /\ call[u].at = "source" => GoesOn(u) = "look" /\ Needs(u) = "current"
           /\ call[u].kind = "move" /\ call[u].at = "target" => GoesOn(u) = "carry" /\ Needs(u) = "trash"
           /\ Creates(u) => call[u].kind = "put" \/ call[u].at = "target"
           /\ Working(u) /\ call[u].kind \in {"put", "move", "empty"}
<1>1. call[u] # NoCall
  BY NoCallTyped DEF DriveTypes
<1>2. \/ call[u].kind = "put" /\ call[u].at = "source"
      \/ call[u].kind = "move" /\ call[u].at \in {"source", "target"}
      \/ call[u].kind = "empty" /\ call[u].at = "source"
  BY <1>1 DEF CallShape
<1>3. call[u].kind = "put" => GoesOn(u) = "send" /\ Needs(u) = "current"
  BY <1>2 DEF GoesOn, Needs
<1>4. call[u].kind = "empty" => GoesOn(u) = "delete" /\ Needs(u) = "trash"
  BY <1>2 DEF GoesOn, Needs
<1>5. call[u].kind = "move" /\ call[u].at = "source" => GoesOn(u) = "look" /\ Needs(u) = "current"
  BY <1>2 DEF GoesOn, Needs
<1>6. call[u].kind = "move" /\ call[u].at = "target" => GoesOn(u) = "carry" /\ Needs(u) = "trash"
  BY <1>2 DEF GoesOn, Needs
<1> QED BY <1>1, <1>2, <1>3, <1>4, <1>5, <1>6 DEF Creates, Working

\* Where a call stands keeps to its kind, and whoever is not calling has nothing asked.
Shaped(u) ==
    /\ CallShape(call'[u])
    /\ call'[u] = NoCall \/ (call[u] # NoCall /\ call'[u].kind = call[u].kind /\ call'[u].name = call[u].name)
LEMMA NowShaped ==
    ASSUME NEW u \in Uploader, NEW s, NEW a, NEW f, Now(u, s, a, f), call[u] # NoCall,
           \/ call[u].kind = "put" /\ s \in {"source", "send", "replace", "note"}
           \/ call[u].kind = "move" /\ s \in {"source", "look", "target", "carry", "rename", "note"}
           \/ call[u].kind = "empty" /\ s \in {"source", "delete", "wait"}
    PROVE  Shaped(u)
<1>1. call'[u].kind = call[u].kind /\ call'[u].name = call[u].name /\ call'[u].at = s
  BY DEF Now
<1> QED BY <1>1 DEF Shaped, CallShape

LEMMA CallKeepsShape ==
    ASSUME DrimeCore, NEW u \in Uploader, WorkerOf(u), ~BeginCall(u)
    PROVE  Shaped(u) /\ UNCHANGED session
<1>0. SUFFICES Shaped(u)
  BY DEF WorkerOf, Resolve, ListFolder, CreateFolder, Send, SendRelists, Replace, FindCopy, Carry, GiveTrashName, DeleteFolder,
         FolderGone, FolderStays, Note
<1>1. DriveTypes /\ AllFound /\ CallShape(call[u]) /\ call[u] \in DriveCall(ids)
  BY CallFields DEF DrimeCore, CallsOrdered
<1>2. call[u].at # "idle" => call[u] # NoCall
  BY NoCallTyped DEF DriveTypes
<1>4. CallOver(u) => Shaped(u)
  BY DEF CallOver, Shaped, CallShape
<1>5. CASE Resolve(u)
  <2>1. call[u].at \in {"source", "target"}
    BY <1>5 DEF Resolve
  <2>2. (\E f : Now(u, GoesOn(u), "nothing", f)) \/ (\E a, f : Now(u, call[u].at, a, f)) \/ CallOver(u)
    BY <1>1, <1>5, ResolveCalls
  <2>3. call[u] # NoCall /\ call[u].kind \in {"put", "move", "empty"} /\ (call[u].at = "target" => call[u].kind = "move")
    BY <1>1, <1>2, <2>1 DEF CallShape
  <2> QED BY <1>1, <1>4, <2>1, <2>2, <2>3, GoesOnTo, NowShaped
<1>6. CASE ListFolder(u) \/ CreateFolder(u)
  <2>1. call[u].at \in {"source", "target"}
    BY <1>6 DEF ListFolder, CreateFolder, DrimeCore, CallsOrdered, AsksOnce
  <2>2. (\E f : Now(u, GoesOn(u), "nothing", f)) \/ CallOver(u)
    BY <1>1, <1>6, ListCalls, CreateCalls DEF AfterCreateFolder
  <2>3. call[u] # NoCall /\ call[u].kind \in {"put", "move", "empty"}
    BY <1>1, <1>2, <2>1 DEF CallShape
  <2> QED BY <1>1, <1>4, <2>1, <2>2, <2>3, GoesOnTo, NowShaped
<1>7. CASE Send(u) \/ SendRelists(u)
  <2>1. call[u].at = "send"
    BY <1>7 DEF Send, SendRelists, At
  <2>2. (\E f : Now(u, "replace", "nothing", f) \/ Now(u, "source", "nothing", f)) \/ CallOver(u)
    BY <1>1, <1>7, SendCalls, LastCalls DEF AfterSend
  <2>3. call[u] # NoCall /\ call[u].kind = "put"
    BY <1>1, <1>2, <2>1 DEF CallShape
  <2> QED BY <1>4, <2>2, <2>3, NowShaped
<1>8. CASE Replace(u)
  <2>1. call[u].at = "replace" /\ ((\E f : Now(u, "note", "nothing", f)) \/ CallOver(u))
    BY <1>1, <1>8, ReplaceCalls DEF AfterReplace, Replace, At
  <2>2. call[u] # NoCall /\ call[u].kind = "put"
    BY <1>1, <1>2, <2>1 DEF CallShape
  <2> QED BY <1>4, <2>1, <2>2, NowShaped
<1>9. CASE FindCopy(u)
  <2>1. call[u].at = "look" /\ ((\E f : Now(u, "target", "nothing", f)) \/ CallOver(u))
    BY <1>1, <1>9, FindCalls DEF AfterFindCopy, FindCopy, At
  <2>2. call[u] # NoCall /\ call[u].kind = "move"
    BY <1>1, <1>2, <2>1 DEF CallShape
  <2> QED BY <1>4, <2>1, <2>2, NowShaped
<1>10. CASE Carry(u)
  <2>1. call[u].at = "carry" /\ ((\E f : Now(u, "rename", "nothing", f)) \/ CallOver(u))
    BY <1>1, <1>10, CarryCalls DEF AfterCarry, Carry, At
  <2>2. call[u] # NoCall /\ call[u].kind = "move"
    BY <1>1, <1>2, <2>1 DEF CallShape
  <2> QED BY <1>4, <2>1, <2>2, NowShaped
<1>11. CASE GiveTrashName(u)
  <2>1. call[u].at = "rename" /\ ((\E f : Now(u, "note", "nothing", f)) \/ CallOver(u))
    BY <1>1, <1>11, TrashNameCalls DEF AfterGiveTrashName, GiveTrashName, At
  <2>2. call[u] # NoCall /\ call[u].kind = "move"
    BY <1>1, <1>2, <2>1 DEF CallShape
  <2> QED BY <1>4, <2>1, <2>2, NowShaped
<1>12. CASE DeleteFolder(u)
  <2>1. call[u].at = "delete" /\ ((\E f : Now(u, "wait", "nothing", f)) \/ CallOver(u))
    BY <1>1, <1>12, LastCalls DEF DeleteFolder, At
  <2>2. call[u] # NoCall /\ call[u].kind = "empty"
    BY <1>1, <1>2, <2>1 DEF CallShape
  <2> QED BY <1>4, <2>1, <2>2, NowShaped
<1>13. CASE FolderGone(u) \/ FolderStays(u) \/ Note(u)
  BY <1>1, <1>4, <1>13, LastCalls
<1> QED BY <1>5, <1>6, <1>7, <1>8, <1>9, <1>10, <1>11, <1>12, <1>13 DEF WorkerOf

\* A step asks nothing, asks something, or has its answer.
AsksNothing(u) ==
    /\ call[u].asks = "nothing" /\ call'[u].asks = "nothing" /\ UNCHANGED inflight
    /\ UNCHANGED known \/ call[u].kind = "empty"
AsksIt(u) ==
    /\ call[u].asks = "nothing" /\ call[u].at \in {"source", "target"} /\ call[u] # NoCall
    /\ Mark(u) /\ UNCHANGED known
    /\ \/ Now(u, call[u].at, "folder", call[u].found) /\ known[Needs(u)] = 0
       \/ /\ Now(u, call[u].at, "listing", In(known[Needs(u)])) /\ known[Needs(u)] # 0
          /\ call[u].at = "source"
IsAnswered(u) ==
    /\ call[u].asks # "nothing" /\ call'[u].asks = "nothing" /\ inflight' = inflight \ {Needs(u)}
    /\ known' = known \/ (known' = [known EXCEPT ![Needs(u)] = ids'] /\ call[u].asks = "folder")
LEMMA NowAsks == \A u, s, f : Now(u, s, "nothing", f) \/ CallOver(u) => call'[u].asks = "nothing"
BY DEF Now, CallOver, NoCall

LEMMA AskKinds ==
    ASSUME DrimeCore, NEW u \in Uploader, WorkerOf(u)
    PROVE  AsksNothing(u) \/ AsksIt(u) \/ IsAnswered(u)
<1>1. DriveTypes /\ AllFound /\ CallShape(call[u]) /\ call[u] \in DriveCall(ids) /\ NoCall.asks = "nothing" /\ ids \in Nat
  BY CallFields, NoCallTyped DEF DrimeCore, CallsOrdered, DriveTypes
<1>2. call[u].at # "idle" => call[u] # NoCall
  BY NoCallTyped DEF DriveTypes
<1>3. CASE BeginCall(u)
  <2>1. PICK kind \in {"put", "move", "empty"}, n \in Leaf :
           call'[u] = [kind |-> kind, name |-> n, at |-> "source", asks |-> "nothing", found |-> {}]
    BY <1>1, <1>3, BeginCalls
  <2>2. call[u] = NoCall /\ UNCHANGED <<known, inflight>>
    BY <1>3 DEF BeginCall, treeVars
  <2>3. call'[u].asks = "nothing" /\ call[u].asks = "nothing"
    BY <1>1, <2>1, <2>2
  <2> QED BY <2>2, <2>3 DEF AsksNothing
<1>4. CASE Resolve(u)
  <2>1. call[u].at \in {"source", "target"} /\ call[u].asks = "nothing" /\ UNCHANGED known /\ call[u] # NoCall
    BY <1>2, <1>4 DEF Resolve
  <2>2. CASE Now(u, GoesOn(u), "nothing", call[u].found) /\ UNCHANGED inflight
    BY <2>1, <2>2 DEF AsksNothing, Now
  <2>3. CASE /\ cache[Needs(u)].fid = 0 /\ known[Needs(u)] # 0 /\ Mark(u)
             /\ Now(u, call[u].at, "listing", In(known[Needs(u)]))
    <3>1. call[u].at = "source"
      <4>1. call[u].at = "target" => Needs(u) = "trash"
        BY DEF Needs
      <4>2. known["trash"] # 0 => cache["trash"].fid # 0
        BY DEF DrimeCore, FoldersHeld
      <4> QED BY <2>1, <2>3, <4>1, <4>2
    <3> QED BY <2>1, <2>3, <3>1 DEF AsksIt
  <2>4. CASE known[Needs(u)] = 0 /\ Mark(u) /\ Now(u, call[u].at, "folder", call[u].found)
    BY <2>1, <2>4 DEF AsksIt
  <2>5. CASE CallOver(u) /\ UNCHANGED inflight
    BY <1>1, <2>1, <2>5 DEF AsksNothing, CallOver
  <2> QED BY <1>1, <1>4, <2>2, <2>3, <2>4, <2>5, ResolveCalls
<1>5. CASE ListFolder(u)
  <2>1. call[u].asks = "listing" /\ inflight' = inflight \ {Needs(u)} /\ UNCHANGED known
    BY <1>5 DEF ListFolder, Answered
  <2>2. call'[u].asks = "nothing"
    <3>1. Now(u, GoesOn(u), "nothing", {}) \/ CallOver(u)
      BY <1>1, <1>5, ListCalls
    <3> QED BY <1>1, <3>1, NowAsks
  <2> QED BY <2>1, <2>2 DEF IsAnswered
<1>6. CASE CreateFolder(u)
  <2>1. call[u].asks = "folder" /\ inflight' = inflight \ {Needs(u)} /\ AfterCreateFolder(u)
    BY <1>1, <1>6, CreateCalls DEF CreateFolder, Answered
  <2>2. call'[u].asks = "nothing"
    BY <1>1, <2>1 DEF AfterCreateFolder, Now, CallOver
  <2> QED BY <2>1, <2>2 DEF IsAnswered, AfterCreateFolder
<1>7. CASE Send(u) \/ SendRelists(u) \/ Replace(u) \/ FindCopy(u) \/ Carry(u) \/ GiveTrashName(u) \/ Note(u)
  <2>1. call[u].asks = "nothing" /\ UNCHANGED <<known, inflight>>
    BY <1>7 DEF Send, SendRelists, Replace, FindCopy, Carry, GiveTrashName, Note, At, treeVars
  <2>2. (\E s, f : Now(u, s, "nothing", f)) \/ CallOver(u)
    BY <1>1, <1>7, SendCalls, ReplaceCalls, FindCalls, CarryCalls, TrashNameCalls, LastCalls
       DEF AfterSend, AfterReplace, AfterFindCopy, AfterCarry, AfterGiveTrashName
  <2>3. call'[u].asks = "nothing"
    BY <1>1, <2>2, NowAsks
  <2> QED BY <2>1, <2>3 DEF AsksNothing
<1>8. CASE DeleteFolder(u) \/ FolderGone(u) \/ FolderStays(u)
  <2>1. call[u].asks = "nothing" /\ UNCHANGED inflight /\ call[u].at \in {"delete", "wait"}
    BY <1>8 DEF DeleteFolder, FolderGone, FolderStays, At
  <2>2. call[u].kind = "empty"
    BY <1>1, <1>2, <2>1 DEF CallShape
  <2>3. (\E s, f : Now(u, s, "nothing", f)) \/ CallOver(u)
    BY <1>1, <1>8, LastCalls
  <2>4. call'[u].asks = "nothing"
    BY <1>1, <2>3, NowAsks
  <2> QED BY <2>1, <2>2, <2>4 DEF AsksNothing
<1> QED BY <1>3, <1>4, <1>5, <1>6, <1>7, <1>8 DEF WorkerOf

LEMMA CallKeepsOrder ==
    ASSUME DrimeCore, NEW u \in Uploader, WorkerOf(u)
    PROVE  CallsOrdered'
<1>1. /\ DriveTypes /\ CallsOrdered /\ ids \in Nat /\ inflight \subseteq Dir /\ known \in [Dir -> 0..ids]
      /\ NoCall.asks = "nothing"
  BY NoCallTyped DEF DrimeCore, DriveTypes
<1>2. \A v \in Uploader : v # u => call'[v] = call[v] /\ Needs(v)' = Needs(v)
  <2> TAKE v \in Uploader
  <2>1. v # u => call'[v] = call[v]
    BY <1>1, WorkerAlone
  <2> QED BY <2>1 DEF Needs
<1>3. \A v \in Uploader : call[v].asks # "nothing" => call[v] # NoCall
  BY <1>1
<1>4. \A v \in Uploader : v # u /\ call'[u] # NoCall /\ call[v] # NoCall =>
         call'[u].kind = call[v].kind /\ call'[u].kind # "empty" /\ call'[u].name # call[v].name
  <2> TAKE v \in Uploader
  <2> HAVE v # u /\ call'[u] # NoCall /\ call[v] # NoCall
  <2>1. CASE BeginCall(u)
    <3>1. PICK kind \in {"put", "move", "empty"}, n \in Leaf :
             /\ call'[u] = [kind |-> kind, name |-> n, at |-> "source", asks |-> "nothing", found |-> {}]
             /\ \A w \in Uploader : call[w] # NoCall => kind # "empty" /\ call[w].kind = kind /\ call[w].name # n
      BY <1>1, <2>1, BeginCalls
    <3> QED BY <3>1
  <2>2. CASE ~BeginCall(u)
    <3>1. call[u] # NoCall /\ call'[u].kind = call[u].kind /\ call'[u].name = call[u].name
      BY <2>2, CallKeepsShape DEF Shaped
    <3> QED BY <1>1, <3>1 DEF CallsOrdered, Apart, Working
  <2> QED BY <2>1, <2>2
<1>5. CallShape(call'[u]) /\ (call'[u] # NoCall => session')
  <2>1. CASE BeginCall(u)
    <3>1. call'[u].kind \in {"put", "move", "empty"} /\ call'[u].at = "source"
      <4>1. PICK kind \in {"put", "move", "empty"}, n \in Leaf :
               call'[u] = [kind |-> kind, name |-> n, at |-> "source", asks |-> "nothing", found |-> {}]
        BY <1>1, <2>1, BeginCalls
      <4> QED BY <4>1
    <3>2. session'
      BY <2>1 DEF BeginCall
    <3> QED BY <3>1, <3>2 DEF CallShape
  <2>2. CASE ~BeginCall(u)
    <3>1. Shaped(u) /\ UNCHANGED session
      BY <2>2, CallKeepsShape
    <3> QED BY <1>1, <3>1 DEF Shaped, CallsOrdered, Working
  <2> QED BY <2>1, <2>2
<1>6. session => session'
  BY <1>1, CallKeepsShape DEF BeginCall
<1>7. \A v \in Uploader : v # u /\ call[u].kind = "empty" /\ call[u] # NoCall => call[v] = NoCall
  BY <1>1 DEF CallsOrdered, Apart, Working
<1>8. call[u].kind = "empty" => call[u] # NoCall
  BY DEF NoCall
<1>9. /\ \A v \in Uploader : v # u => AsksOnce(v)'
      /\ AsksOnce(u)'
      /\ \A v \in Uploader : v # u => ~(call'[u].asks # "nothing" /\ call[v].asks # "nothing" /\ Needs(u)' = Needs(v))
      /\ \A d \in inflight' : \E v \in Uploader : call'[v].asks # "nothing" /\ Needs(v)' = d
  <2>1. CASE AsksNothing(u)
    <3>1. \A v \in Uploader : v # u => AsksOnce(v)'
      BY <1>1, <1>2, <1>3, <1>7, <1>8, <2>1 DEF AsksNothing, AsksOnce, CallsOrdered
    <3>2. AsksOnce(u)'
      BY <2>1 DEF AsksNothing, AsksOnce
    <3>3. \A d \in inflight' : \E v \in Uploader : call'[v].asks # "nothing" /\ Needs(v)' = d
      BY <1>1, <1>2, <2>1 DEF AsksNothing, CallsOrdered
    <3> QED BY <2>1, <3>1, <3>2, <3>3 DEF AsksNothing
  <2>2. CASE AsksIt(u)
    <3>1. call'[u].asks # "nothing" /\ call'[u].at = call[u].at /\ Needs(u)' = Needs(u)
          /\ inflight' = inflight \cup {Needs(u)} /\ Needs(u) \notin inflight /\ UNCHANGED known
      BY <2>2 DEF AsksIt, Now, Mark, Needs
    <3>2. \A v \in Uploader : v # u => AsksOnce(v)'
      BY <1>1, <1>2, <3>1 DEF AsksOnce, CallsOrdered
    <3>3. AsksOnce(u)'
      <4>1. CASE Now(u, call[u].at, "folder", call[u].found) /\ known[Needs(u)] = 0
        BY <2>2, <3>1, <4>1 DEF AsksIt, Now, AsksOnce
      <4>2. CASE Now(u, call[u].at, "listing", In(known[Needs(u)])) /\ known[Needs(u)] # 0 /\ call[u].at = "source"
        <5>1. \A e \in call'[u].found : e.fid = known[Needs(u)]
          BY <4>2 DEF Now, In
        <5> QED BY <2>2, <3>1, <4>2, <5>1 DEF AsksIt, Now, AsksOnce
      <4> QED BY <2>2, <4>1, <4>2 DEF AsksIt
    <3>4. \A d \in inflight' : \E v \in Uploader : call'[v].asks # "nothing" /\ Needs(v)' = d
      <4> TAKE d \in inflight'
      <4>1. CASE d = Needs(u)
        BY <3>1, <4>1
      <4>2. CASE d \in inflight
        <5>1. PICK v \in Uploader : call[v].asks # "nothing" /\ Needs(v) = d
          BY <1>1, <4>2 DEF CallsOrdered
        <5> QED BY <1>2, <2>2, <5>1 DEF AsksIt
      <4> QED BY <3>1, <4>1, <4>2
    <3>5. \A v \in Uploader : call[v].asks # "nothing" => Needs(v) \in inflight
      BY <1>1 DEF CallsOrdered, AsksOnce
    <3> QED BY <3>1, <3>2, <3>3, <3>4, <3>5
  <2>3. CASE IsAnswered(u)
    <3>1. \A v \in Uploader : v # u /\ call[v].asks # "nothing" => Needs(v) # Needs(u) /\ Needs(v) \in inflight
      BY <1>1, <2>3 DEF IsAnswered, CallsOrdered, Apart, AsksOnce
    <3>2. \A v \in Uploader : v # u => AsksOnce(v)'
      <4> TAKE v \in Uploader
      <4> HAVE v # u
      <4>1. call[v].asks # "nothing" => Needs(v) \in inflight' /\ known'[Needs(v)] = known[Needs(v)]
        BY <1>1, <2>3, <3>1 DEF IsAnswered
      <4>2. AsksOnce(v) /\ call'[v] = call[v] /\ Needs(v)' = Needs(v)
        BY <1>1, <1>2 DEF CallsOrdered
      <4> QED BY <4>1, <4>2 DEF AsksOnce
    <3>3. AsksOnce(u)'
      BY <2>3 DEF IsAnswered, AsksOnce
    <3>4. \A d \in inflight' : \E v \in Uploader : call'[v].asks # "nothing" /\ Needs(v)' = d
      <4> TAKE d \in inflight'
      <4>1. PICK v \in Uploader : call[v].asks # "nothing" /\ Needs(v) = d
        BY <1>1, <2>3 DEF IsAnswered, CallsOrdered
      <4>2. v # u
        BY <2>3, <4>1 DEF IsAnswered
      <4> QED BY <1>2, <4>1, <4>2
    <3> QED BY <2>3, <3>2, <3>3, <3>4 DEF IsAnswered
  <2> QED BY <2>1, <2>2, <2>3, AskKinds
<1>10. \A v \in Uploader : CallShape(call'[v]) /\ AsksOnce(v)' /\ (call'[v] # NoCall => session')
  <2> TAKE v \in Uploader
  <2>1. CASE v = u
    BY <1>5, <1>9, <2>1
  <2>2. CASE v # u
    BY <1>1, <1>2, <1>6, <1>9, <2>2 DEF CallsOrdered, Working
  <2> QED BY <2>1, <2>2
<1>11. \A v, w \in Uploader : v # w => Apart(v, w)'
  <2> TAKE v, w \in Uploader
  <2> HAVE v # w
  <2>1. CASE v # u /\ w # u
    <3>1. Apart(v, w)
      BY <1>1 DEF CallsOrdered
    <3>2. call'[v] = call[v] /\ call'[w] = call[w] /\ Needs(v)' = Needs(v) /\ Needs(w)' = Needs(w)
      BY <1>2, <2>1
    <3> QED BY <3>1, <3>2 DEF Apart, Working
  <2>2. CASE v = u
    <3>1. call'[w] = call[w] /\ Needs(w)' = Needs(w)
      BY <1>2, <2>2
    <3>2. ~(call'[u].asks # "nothing" /\ call[w].asks # "nothing" /\ Needs(u)' = Needs(w))
      BY <1>9, <2>2
    <3>3. call'[u] # NoCall /\ call[w] # NoCall =>
             call'[u].kind = call[w].kind /\ call'[u].kind # "empty" /\ call'[u].name # call[w].name
      BY <1>4, <2>2
    <3> QED BY <2>2, <3>1, <3>2, <3>3 DEF Apart, Working
  <2>3. CASE w = u
    <3>1. call'[v] = call[v] /\ Needs(v)' = Needs(v)
      BY <1>2, <2>3
    <3>2. ~(call'[u].asks # "nothing" /\ call[v].asks # "nothing" /\ Needs(u)' = Needs(v))
      BY <1>9, <2>3
    <3>3. call'[u] # NoCall /\ call[v] # NoCall =>
             call'[u].kind = call[v].kind /\ call'[u].kind # "empty" /\ call'[u].name # call[v].name
      BY <1>4, <2>3
    <3> QED BY <2>3, <3>1, <3>2, <3>3 DEF Apart, Working
  <2> QED BY <2>1, <2>2, <2>3
<1>12. \A d \in inflight' : \E v \in Uploader : call'[v].asks # "nothing" /\ Needs(v)' = d
  BY <1>9
<1> QED BY <1>10, <1>11, <1>12 DEF CallsOrdered, Working

LEMMA OthersKeepOrder ==
    ASSUME DrimeCore, WorldOfDrime
    PROVE  CallsOrdered'
<1>1. UNCHANGED <<call, known, inflight>>
  BY DEF WorldOfDrime, DriveDeletes, SaveNotes, NotesSaved, OtherRun, treeVars
<1>2. \A u \in Uploader : Needs(u)' = Needs(u)
  BY <1>1 DEF Needs
<1>3. (\A u \in Uploader : ~Working(u)) \/ (session => session')
  BY DEF WorldOfDrime, DriveDeletes, SaveNotes, NotesSaved, OtherRun, NoneCalling, Working
<1>4. CallsOrdered
  BY DEF DrimeCore
<1>5. \A u \in Uploader : CallShape(call'[u]) /\ AsksOnce(u)' /\ (Working(u)' => session')
  BY <1>1, <1>2, <1>3, <1>4 DEF CallsOrdered, AsksOnce, Working
<1>6. \A u, v \in Uploader : u # v => Apart(u, v)'
  BY <1>1, <1>2, <1>4 DEF CallsOrdered, Apart, Working
<1>7. \A d \in inflight' : \E u \in Uploader : call'[u].asks # "nothing" /\ Needs(u)' = d
  BY <1>1, <1>2, <1>4 DEF CallsOrdered
<1> QED BY <1>5, <1>6, <1>7 DEF CallsOrdered

(***************************************************************************)
(* Folders.                                                                *)
(***************************************************************************)
\* Emptying the trash is done alone, and nothing is being deleted but then.
LEMMA EmptiesAlone ==
    ASSUME DrimeCore, NEW u \in Uploader
    PROVE  /\ call[u].at \in {"delete", "wait"} =>
                 /\ call[u] # NoCall /\ call[u].kind = "empty"
                 /\ \A v \in Uploader : v # u => call[v] = NoCall /\ call[v].at = "idle"
           /\ call[u] # NoCall /\ call[u].at # "wait" => dying = {} /\ \A v \in Uploader : call[v].at # "wait"
<1>1. CallsOrdered /\ FoldersHeld /\ NoCall.at = "idle"
  BY NoCallTyped DEF DrimeCore, DriveTypes
<1>2. ASSUME NEW w \in Uploader, call[w].at \in {"delete", "wait"}
      PROVE  /\ call[w] # NoCall /\ call[w].kind = "empty"
             /\ \A v \in Uploader : v # w => call[v] = NoCall /\ call[v].at = "idle"
  <2>1. call[w] # NoCall /\ CallShape(call[w])
    BY <1>1, <1>2 DEF CallsOrdered
  <2>2. call[w].kind = "empty"
    BY <1>2, <2>1 DEF CallShape
  <2> QED BY <1>1, <2>1, <2>2 DEF CallsOrdered, Apart, Working
<1>3. ASSUME call[u] # NoCall, call[u].at # "wait"
      PROVE  dying = {} /\ \A v \in Uploader : call[v].at # "wait"
  <2>1. \A v \in Uploader : call[v].at # "wait"
    BY <1>2, <1>3
  <2> QED BY <1>1, <2>1 DEF FoldersHeld
<1> QED BY <1>2, <1>3

LEMMA TrashApart ==
    ASSUME DrimeCore, known["trash"] # 0, FolderAt("trash") \in folders
    PROVE  known["current"] # known["trash"]
<1>1. FoldersHeld
  BY DEF DrimeCore
<1>2. ASSUME known["current"] = known["trash"] PROVE FALSE
  <2>1. FolderAt("current") \in folders /\ FolderAt("current").id = FolderAt("trash").id
    BY <1>1, <1>2 DEF FoldersHeld, FolderAt
  <2>2. FolderAt("current") = FolderAt("trash")
    BY <1>1, <2>1 DEF FoldersHeld
  <2> QED BY <2>2 DEF FolderAt
<1> QED BY <1>2

\* Where a step leaves the folders and their ids as they are.
FoldersStill == UNCHANGED <<folders, dying, known>>
LEMMA StillHeld ==
    ASSUME DrimeCore, NEW u \in Uploader, WorkerOf(u), FoldersStill,
           call[u].at # "wait", call'[u].at # "wait", call'[u].at \in {"carry", "delete"} => known["trash"] # 0,
           \A e \in entries' : \E f \in folders : f.id = e.fid,
           \A d \in Dir : cache'[d].fid \in {0, known[d]} /\ \A e \in cache'[d].files : e.fid = cache'[d].fid,
           known["trash"] # 0 => cache'["trash"].fid # 0
    PROVE  FoldersHeld'
<1>1. FoldersHeld /\ DriveTypes
  BY DEF DrimeCore
<1>2. \A v \in Uploader : /\ call'[v].at = "wait" <=> call[v].at = "wait"
                          /\ call'[v].at \in {"carry", "delete", "wait"} => known["trash"] # 0
  BY <1>1, WorkerAlone DEF FoldersHeld
<1>3. FolderAt("current")' = FolderAt("current") /\ FolderAt("trash")' = FolderAt("trash")
  BY DEF FoldersStill, FolderAt
<1> QED BY <1>1, <1>2, <1>3 DEF FoldersHeld, FoldersStill

LEMMA CallKeepsFolders ==
    ASSUME DrimeCore, NEW u \in Uploader, WorkerOf(u)
    PROVE  FoldersHeld'
<1>1. /\ DriveTypes /\ CallsOrdered /\ FoldersHeld /\ AllFound /\ ids \in Nat /\ known \in [Dir -> 0..ids]
      /\ cache \in [Dir -> [fid : 0..ids, files : SUBSET FileEntry(ids)]] /\ {"current", "trash"} \subseteq Dir
      /\ folders \subseteq [id : 1..ids, dir : Dir] /\ Needs(u) \in Dir
      /\ NoCall.at = "idle" /\ NotListed.fid = 0 /\ NotListed.files = {}
  BY NoCallTyped DEF DrimeCore, DriveTypes, Dir, NotListed, Needs
<1>2. \A e \in entries : \E f \in folders : f.id = e.fid
  BY <1>1 DEF FoldersHeld
<1>3. \A d \in Dir : cache[d].fid \in {0, known[d]} /\ \A e \in cache[d].files : e.fid = cache[d].fid
  BY <1>1 DEF FoldersHeld
<1>4. known["trash"] # 0 => cache["trash"].fid # 0
  BY <1>1 DEF FoldersHeld
<1>5. CallShape(call[u])
  BY <1>1 DEF CallsOrdered
<1> USE DEF driveVars, treeVars
<1>6. CASE BeginCall(u) \/ SendRelists(u) \/ FindCopy(u) \/ Note(u)
  <2>1. FoldersStill /\ UNCHANGED <<entries, cache>>
    BY <1>6 DEF BeginCall, SendRelists, FindCopy, Note, FoldersStill
  <2>2. call[u].at # "wait"
    BY <1>1, <1>6 DEF BeginCall, SendRelists, FindCopy, Note, At
  <2>3. call'[u].at \in {"source", "target", "idle"}
    <3>1. CASE BeginCall(u)
      <4>1. PICK kind \in {"put", "move", "empty"}, n \in Leaf :
               call'[u] = [kind |-> kind, name |-> n, at |-> "source", asks |-> "nothing", found |-> {}]
        BY <1>1, <3>1, BeginCalls
      <4> QED BY <4>1
    <3>2. CASE SendRelists(u) \/ FindCopy(u) \/ Note(u)
      <4>1. (\E f : Now(u, "source", "nothing", f) \/ Now(u, "target", "nothing", f)) \/ CallOver(u)
        BY <1>1, <3>2, LastCalls, FindCalls DEF AfterFindCopy
      <4>2. CASE CallOver(u)
        BY <1>1, <4>2 DEF CallOver
      <4>3. CASE \E f : Now(u, "source", "nothing", f) \/ Now(u, "target", "nothing", f)
        BY <4>3 DEF Now
      <4> QED BY <4>1, <4>2, <4>3
    <3> QED BY <1>6, <3>1, <3>2
  <2> QED BY <1>2, <1>3, <1>4, <2>1, <2>2, <2>3, StillHeld
<1>7. CASE Resolve(u)
  <2>1. FoldersStill /\ UNCHANGED <<entries, cache>> /\ call[u].at \in {"source", "target"}
    BY <1>7 DEF Resolve, FoldersStill
  <2>2. /\ call'[u].at # "wait"
        /\ call'[u].at \in {"carry", "delete"} => known["trash"] # 0
    <3>1. CASE cache[Needs(u)].fid # 0 /\ Now(u, GoesOn(u), "nothing", call[u].found)
      <4>1. known[Needs(u)] # 0
        BY <1>1, <1>3, <3>1
      <4>2. GoesOn(u) # "wait" /\ (GoesOn(u) \in {"carry", "delete"} => Needs(u) = "trash")
        BY <1>1, <1>5, <2>1, GoesOnTo
      <4> QED BY <3>1, <4>1, <4>2 DEF Now
    <3>2. CASE \E a, f : Now(u, call[u].at, a, f)
      BY <2>1, <3>2 DEF Now
    <3>3. CASE CallOver(u)
      BY <1>1, <3>3 DEF CallOver
    <3> QED BY <1>1, <1>7, <3>1, <3>2, <3>3, ResolveCalls
  <2> QED BY <1>2, <1>3, <1>4, <2>1, <2>2, StillHeld
<1>8. CASE ListFolder(u)
  <2>1. FoldersStill /\ UNCHANGED entries /\ call[u].asks = "listing"
    BY <1>8 DEF ListFolder, FoldersStill
  <2>2. call[u].at = "source" /\ known[Needs(u)] # 0 /\ \A e \in call[u].found : e.fid = known[Needs(u)]
    BY <1>1, <2>1 DEF CallsOrdered, AsksOnce
  <2>3. call'[u].at # "wait" /\ (call'[u].at \in {"carry", "delete"} => known["trash"] # 0)
    <3>1. GoesOn(u) # "wait" /\ (GoesOn(u) \in {"carry", "delete"} => Needs(u) = "trash")
      BY <1>1, <1>5, <2>2, GoesOnTo
    <3>2. Now(u, GoesOn(u), "nothing", {}) \/ CallOver(u)
      BY <1>1, <1>8, ListCalls
    <3> QED BY <1>1, <2>2, <3>1, <3>2 DEF Now, CallOver
  <2>4. cache' = cache \/ cache' = [cache EXCEPT ![Needs(u)] = [fid |-> known[Needs(u)], files |-> call[u].found]]
    BY <1>1, <1>8, ListCalls
  <2>5. \A d \in Dir : cache'[d].fid \in {0, known[d]} /\ \A e \in cache'[d].files : e.fid = cache'[d].fid
    BY <1>1, <1>3, <2>2, <2>4
  <2>6. known["trash"] # 0 => cache'["trash"].fid # 0
    BY <1>1, <1>4, <2>2, <2>4
  <2> QED BY <1>2, <2>1, <2>2, <2>3, <2>5, <2>6, StillHeld
<1>9. CASE CreateFolder(u)
  <2>1. AfterCreateFolder(u) /\ UNCHANGED <<entries, dying>> /\ call[u].asks = "folder"
    BY <1>1, <1>9, CreateCalls DEF CreateFolder
  <2>2. call[u].at \in {"source", "target"} /\ call[u] # NoCall /\ known[Needs(u)] = 0
    BY <1>1, <2>1 DEF CallsOrdered, AsksOnce
  <2>3. dying = {} /\ \A v \in Uploader : call[v].at # "wait"
    BY <2>2, EmptiesAlone
  <2>4. ids' \in Nat /\ ids <= ids'
    BY <1>1, <2>1 DEF AfterCreateFolder
  <2>5. \A f, g \in folders' : f.id = g.id => f = g
    <3>1. \A f \in folders : f.id <= ids
      BY <1>1
    <3>2. \A f \in folders' \ folders : f.id > ids /\ f.dir = Needs(u) /\ f = [id |-> f.id, dir |-> f.dir]
      BY <1>1, <2>1, <2>4 DEF AfterCreateFolder
    <3> QED BY <1>1, <3>1, <3>2 DEF FoldersHeld
  <2>6. folders \subseteq folders'
    BY <2>1 DEF AfterCreateFolder
  <2>7. CASE /\ ids' # ids /\ known' = [known EXCEPT ![Needs(u)] = ids']
             /\ cache' = [cache EXCEPT ![Needs(u)] = [fid |-> ids', files |-> {}]]
             /\ Now(u, GoesOn(u), "nothing", call[u].found)
    <3>1. [id |-> ids', dir |-> Needs(u)] \in folders'
      BY <1>1, <2>1, <2>4, <2>7 DEF AfterCreateFolder
    <3>2. known'[Needs(u)] = ids' /\ ids' # 0 /\ \A d \in Dir : d # Needs(u) => known'[d] = known[d]
      BY <1>1, <2>4, <2>7
    <3>3. \A d \in Dir : known'[d] # 0 /\ d = Needs(u) => FolderAt(d)' \in folders'
      BY <3>1, <3>2 DEF FolderAt
    <3>4. \A d \in Dir : known'[d] # 0 /\ d # Needs(u) => FolderAt(d)' \in folders'
      BY <1>1, <2>3, <2>6, <3>2 DEF FoldersHeld, FolderAt, Dir
    <3>5. \A d \in Dir : cache'[d].fid \in {0, known'[d]} /\ \A e \in cache'[d].files : e.fid = cache'[d].fid
      BY <1>1, <1>3, <2>7
    <3>6. known'["trash"] # 0 => cache'["trash"].fid # 0
      BY <1>1, <1>4, <2>7, <3>2
    <3>7. GoesOn(u) # "wait" /\ (GoesOn(u) \in {"carry", "delete"} => Needs(u) = "trash")
      BY <1>1, <1>5, <2>2, GoesOnTo
    <3>8. call'[u].at # "wait" /\ (call'[u].at \in {"carry", "delete"} => known'["trash"] # 0)
      BY <2>7, <3>2, <3>7 DEF Now
    <3>9. known["trash"] # 0 => known'["trash"] # 0
      BY <1>1, <3>2
    <3>10. \A v \in Uploader : call'[v].at # "wait" /\ (call'[v].at \in {"carry", "delete"} => known'["trash"] # 0)
      BY <1>1, <2>3, <3>8, <3>9, WorkerAlone DEF FoldersHeld
    <3> QED BY <1>1, <1>2, <2>1, <2>3, <2>5, <2>6, <3>3, <3>4, <3>5, <3>6, <3>10 DEF FoldersHeld
  <2>8. CASE CallOver(u) /\ UNCHANGED <<known, cache>>
    <3>1. \A d \in Dir : FolderAt(d)' = FolderAt(d)
      BY <2>8 DEF FolderAt
    <3>2. \A v \in Uploader : call'[v].at # "wait" /\ (call'[v].at \in {"carry", "delete"} => known["trash"] # 0)
      BY <1>1, <2>3, <2>8, WorkerAlone DEF FoldersHeld, CallOver
    <3> QED BY <1>1, <1>2, <2>1, <2>3, <2>5, <2>6, <2>8, <3>1, <3>2 DEF FoldersHeld
  <2> QED BY <2>1, <2>7, <2>8 DEF AfterCreateFolder
<1>10. CASE Send(u)
  <2>1. AfterSend(u) /\ FoldersStill /\ cache["current"].fid # 0 /\ call[u].at = "send"
    BY <1>1, <1>10, SendCalls DEF Send, FoldersStill, At
  <2>2. \E f \in folders : f.id = cache["current"].fid
    <3>1. FolderAt("current") \in folders /\ FolderAt("current").id = cache["current"].fid
      BY <1>1, <2>1 DEF FoldersHeld, FolderAt
    <3> QED BY <3>1
  <2>3. \A e \in entries' : \E f \in folders : f.id = e.fid
    BY <1>2, <2>1, <2>2 DEF AfterSend, SentCopy
  <2>4. call'[u].at \in {"replace", "idle"}
    BY <1>1, <2>1 DEF AfterSend, Now, CallOver
  <2>5. cache' = cache \/ cache' = [cache EXCEPT !["current"] = NotListed]
    BY <2>1 DEF AfterSend
  <2>6. \A d \in Dir : cache'[d].fid \in {0, known[d]} /\ \A e \in cache'[d].files : e.fid = cache'[d].fid
    BY <1>1, <1>3, <2>5
  <2>7. known["trash"] # 0 => cache'["trash"].fid # 0
    BY <1>1, <1>4, <2>5
  <2> QED BY <2>1, <2>3, <2>4, <2>6, <2>7, StillHeld
<1>11. CASE Replace(u)
  <2>1. AfterReplace(u) /\ FoldersStill /\ call[u].at = "replace"
    BY <1>1, <1>11, ReplaceCalls DEF Replace, FoldersStill, At
  <2>2. PICK e \in entries : Newest(call[u].found) = {e} /\ e = (CHOOSE x \in Newest(call[u].found) : TRUE) /\ e.fid = known["current"]
    BY <1>1, <2>1, TheFound
  <2>3. call'[u].at \in {"note", "idle"} /\ entries' \subseteq entries
    BY <1>1, <2>1 DEF AfterReplace, Now, CallOver, Deleted
  <2>4. cache' = cache \/ cache' = Listing("current", e, call[u].found \ {e})
    BY <2>1, <2>2 DEF AfterReplace
  <2>5. \A d \in Dir : cache'[d].fid \in {0, known[d]} /\ \A x \in cache'[d].files : x.fid = cache'[d].fid
    <3>1. e \in FileEntry(ids)
      BY <1>1, <2>2 DEF DriveTypes
    <3> QED BY <1>1, <1>3, <2>2, <2>4, <3>1, ListingTyped
  <2>6. known["trash"] # 0 => cache'["trash"].fid # 0
    <3>1. e \in FileEntry(ids)
      BY <1>1, <2>2 DEF DriveTypes
    <3> QED BY <1>1, <1>4, <2>4, <3>1, ListingTyped
  <2> QED BY <1>2, <2>1, <2>3, <2>5, <2>6, StillHeld
<1>12. CASE Carry(u)
  <2>1. AfterCarry(u) /\ FoldersStill /\ call[u].at = "carry" /\ call[u] # NoCall
    BY <1>1, <1>12, CarryCalls DEF Carry, FoldersStill, At
  <2>2. PICK e \in FileEntry(ids) : call[u].found = {e} /\ e = TheOne(u)
    BY <1>1, <2>1, TheFound
  <2>3. \E f \in folders : f.id = InTrash(e).fid
    <3>1. known["trash"] # 0 /\ FolderAt("trash") \in folders
      BY <1>1, <2>1, EmptiesAlone DEF FoldersHeld
    <3>2. InTrash(e).fid = FolderAt("trash").id
      BY <1>1, <1>3, <1>4, <3>1 DEF InTrash, FolderAt, FileEntry
    <3> QED BY <3>1, <3>2
  <2>4. \A x \in entries' : \E f \in folders : f.id = x.fid
    BY <1>2, <2>1, <2>2, <2>3 DEF AfterCarry
  <2>5. call'[u].at \in {"rename", "idle"}
    BY <1>1, <2>1 DEF AfterCarry, Now, CallOver
  <2>6. cache' = cache \/ cache' = [cache EXCEPT !["current"].files = @ \ {e}]
    BY <2>1, <2>2 DEF AfterCarry
  <2>7. \A d \in Dir : cache'[d].fid \in {0, known[d]} /\ \A x \in cache'[d].files : x.fid = cache'[d].fid
    BY <1>1, <1>3, <2>6
  <2>8. known["trash"] # 0 => cache'["trash"].fid # 0
    BY <1>1, <1>4, <2>6
  <2> QED BY <2>1, <2>4, <2>5, <2>7, <2>8, StillHeld
<1>13. CASE GiveTrashName(u)
  <2>1. AfterGiveTrashName(u) /\ FoldersStill /\ call[u].at = "rename"
    BY <1>1, <1>13, TrashNameCalls DEF GiveTrashName, FoldersStill, At
  <2>2. PICK e \in FileEntry(ids) : /\ call[u].found = {e} /\ e = TheOne(u) /\ e \in entries /\ e.fid = known["trash"]
    BY <1>1, <2>1, TheFound DEF AllFound, FoundRight, AtKey
  <2>3. TrashNamed(u, e).fid = e.fid /\ TrashNamed(u, e) \in FileEntry(ids)
    <3>1. call[u].name \in Leaf
      BY <1>1 DEF DriveTypes, DriveCall
    <3> QED BY <3>1, KeyNames DEF TrashNamed, FileEntry
  <2>4. \A x \in entries' : \E f \in folders : f.id = x.fid
    BY <1>2, <2>1, <2>2, <2>3 DEF AfterGiveTrashName
  <2>5. call'[u].at \in {"note", "idle"}
    BY <1>1, <2>1 DEF AfterGiveTrashName, Now, CallOver
  <2>6. cache' = cache \/ cache' = Listing("trash", TrashNamed(u, e), {})
    BY <2>1, <2>2 DEF AfterGiveTrashName
  <2>7. \A d \in Dir : cache'[d].fid \in {0, known[d]} /\ \A x \in cache'[d].files : x.fid = cache'[d].fid
    BY <1>1, <1>3, <2>2, <2>3, <2>6, ListingTyped
  <2>8. known["trash"] # 0 => cache'["trash"].fid # 0
    BY <1>1, <1>4, <2>3, <2>6, ListingTyped
  <2> QED BY <2>1, <2>4, <2>5, <2>7, <2>8, StillHeld
<1>14. CASE DeleteFolder(u)
  <2>1. /\ call[u].at = "delete" /\ call[u] # NoCall /\ \A v \in Uploader : v # u => call'[v] = NoCall
        /\ dying = {} /\ \A v \in Uploader : call[v].at # "wait"
    <3>1. call[u].at = "delete"
      BY <1>14 DEF DeleteFolder, At
    <3> QED BY <1>1, <3>1, EmptiesAlone, WorkerAlone
  <2>2. known["trash"] # 0 /\ FolderAt("trash") \in folders /\ known["current"] # known["trash"]
    BY <1>1, <2>1, TrashApart DEF FoldersHeld
  <2>3. CASE Vanishing(known["trash"]) /\ Emptied(u) /\ UNCHANGED dying
    <3>1. call'[u] = NoCall /\ \A v \in Uploader : call'[v].at = "idle"
      BY <1>1, <2>1, <2>3, CallFields DEF Emptied, CallOver
    <3>2. /\ cache' = [cache EXCEPT !["trash"] = NotListed] /\ known' = [known EXCEPT !["trash"] = 0]
          /\ folders' = {f \in folders : f.id # known["trash"]} /\ entries' = {e \in entries : e.fid # known["trash"]}
      BY <2>3 DEF Emptied, TrashGone, Vanishing
    <3>3. \A e \in entries' : \E f \in folders' : f.id = e.fid
      BY <1>2, <3>2
    <3>4. known'["current"] # 0 => FolderAt("current")' \in folders'
      <4>1. FolderAt("current")' = FolderAt("current") /\ known'["current"] = known["current"]
        BY <1>1, <3>2 DEF FolderAt
      <4> QED BY <1>1, <2>2, <3>2, <4>1 DEF FoldersHeld, FolderAt
    <3>5. \A d \in Dir : cache'[d].fid \in {0, known'[d]} /\ \A e \in cache'[d].files : e.fid = cache'[d].fid
      BY <1>1, <1>3, <3>2
    <3>6. known'["trash"] = 0 /\ \A f, g \in folders' : f.id = g.id => f = g
      BY <1>1, <3>2 DEF FoldersHeld
    <3> QED BY <2>1, <2>3, <3>1, <3>3, <3>4, <3>5, <3>6 DEF FoldersHeld
  <2>4. CASE /\ dying' = dying \cup {known["trash"]} /\ To(u, "wait")
             /\ UNCHANGED <<folders, entries, known, cache, noteVars>>
    <3>1. call'[u].at = "wait" /\ \A v \in Uploader : v # u => call'[v].at = "idle"
      <4>1. Now(u, "wait", call[u].asks, call[u].found)
        BY <1>1, <2>4, CallFields
      <4>2. call'[u].at = "wait"
        BY <4>1 DEF Now
      <4> QED BY <1>1, <2>1, <4>2
    <3>2. \A d \in Dir : FolderAt(d)' = FolderAt(d)
      BY <2>4 DEF FolderAt
    <3>3. dying' = {known["trash"]}
      BY <2>1, <2>4
    <3> QED BY <1>1, <2>2, <2>4, <3>1, <3>2, <3>3 DEF FoldersHeld
  <2> QED BY <1>14, <2>3, <2>4 DEF DeleteFolder
<1>15. CASE FolderGone(u)
  <2>1. call[u].at = "wait" /\ dying = {} /\ UNCHANGED <<folders, entries, dying>>
    <3>1. \A f \in folders : f.dir # "trash"
      BY <1>1, <1>15, NoFirstNone DEF FolderGone
    <3>2. dying = {}
      BY <1>1, <3>1 DEF FoldersHeld, FolderAt
    <3> QED BY <1>15, <3>2 DEF FolderGone, At
  <2>2. call'[u] = NoCall /\ \A v \in Uploader : call'[v].at = "idle"
    BY <1>1, <1>15, <2>1, EmptiesAlone, WorkerAlone, LastCalls DEF CallOver
  <2>3. cache' = [cache EXCEPT !["trash"] = NotListed] /\ known' = [known EXCEPT !["trash"] = 0]
    BY <1>15 DEF FolderGone, Emptied, TrashGone
  <2>4. \A d \in Dir : cache'[d].fid \in {0, known'[d]} /\ \A e \in cache'[d].files : e.fid = cache'[d].fid
    BY <1>1, <1>3, <2>3
  <2>5. known'["trash"] = 0 /\ known'["current"] = known["current"] /\ FolderAt("current")' = FolderAt("current")
    BY <1>1, <2>3 DEF FolderAt
  <2> QED BY <1>1, <1>2, <2>1, <2>2, <2>4, <2>5 DEF FoldersHeld
<1>16. CASE FolderStays(u)
  <2>1. PICK f \in FirstFolder("trash"), gone \in SUBSET entries :
           /\ entries' = entries \ gone /\ known' = [known EXCEPT !["trash"] = f.id]
           /\ cache' = [cache EXCEPT !["trash"] = [fid |-> f.id, files |-> In(f.id) \ gone]]
    BY <1>16, StayCalls
  <2>2. call[u].at = "wait" /\ UNCHANGED folders /\ dying' = {}
    BY <1>16, StayCalls
  <2>3. call'[u] = NoCall /\ \A v \in Uploader : call'[v].at = "idle"
    BY <1>1, <1>16, <2>2, EmptiesAlone, WorkerAlone, LastCalls DEF CallOver
  <2>4. f \in folders /\ f.dir = "trash" /\ f.id # 0 /\ f = [id |-> f.id, dir |-> "trash"]
    BY <1>1 DEF FirstFolder
  <2>5. /\ known'["trash"] = f.id /\ known'["current"] = known["current"] /\ FolderAt("current")' = FolderAt("current")
        /\ FolderAt("trash")' = f
    BY <1>1, <2>1, <2>4 DEF FolderAt
  <2>6. cache'["trash"].fid = f.id /\ cache'["trash"].files = In(f.id) \ gone /\ cache'["current"] = cache["current"]
    BY <1>1, <2>1
  <2>7. \A d \in Dir : cache'[d].fid \in {0, known'[d]} /\ \A e \in cache'[d].files : e.fid = cache'[d].fid
    BY <1>3, <2>5, <2>6 DEF In, Dir
  <2>8. \A e \in entries' : \E g \in folders' : g.id = e.fid
    BY <1>2, <2>1, <2>2
  <2> QED BY <1>1, <2>2, <2>3, <2>4, <2>5, <2>6, <2>7, <2>8 DEF FoldersHeld
<1> QED BY <1>6, <1>7, <1>8, <1>9, <1>10, <1>11, <1>12, <1>13, <1>14, <1>15, <1>16 DEF WorkerOf

LEMMA OthersKeepFolders ==
    ASSUME DrimeCore, WorldOfDrime
    PROVE  FoldersHeld'
<1>1. FoldersHeld /\ DriveTypes /\ UNCHANGED <<call, known, cache>>
  BY DEF DrimeCore, WorldOfDrime, DriveDeletes, SaveNotes, NotesSaved, OtherRun, treeVars
<1>2. \A d \in Dir : FolderAt(d)' = FolderAt(d)
  BY <1>1 DEF FolderAt
<1>3. CASE SaveNotes \/ NotesSaved
  <2>1. UNCHANGED <<folders, entries, dying>>
    BY <1>3 DEF SaveNotes, NotesSaved, driveVars
  <2> QED BY <1>1, <1>2, <2>1 DEF FoldersHeld, Dir
<1>4. CASE DriveDeletes
  <2>1. PICK i \in dying : Vanishing(i) /\ dying' = dying \ {i}
    BY <1>4 DEF DriveDeletes
  <2>2. i = known["trash"] /\ FolderAt("trash") \in folders /\ \E u \in Uploader : call[u].at = "wait"
    BY <1>1 DEF FoldersHeld
  <2>3. known["trash"] # 0 /\ known["current"] # known["trash"] /\ dying' = {}
    BY <1>1, <2>1, <2>2, TrashApart DEF FoldersHeld
  <2>4. \A e \in entries' : \E f \in folders' : f.id = e.fid
    BY <1>1, <2>1 DEF FoldersHeld, Vanishing
  <2>5. known["current"] # 0 => FolderAt("current") \in folders'
    BY <1>1, <2>1, <2>2, <2>3 DEF FoldersHeld, Vanishing, FolderAt
  <2>6. \A f \in folders' : f \in folders /\ f.id # known["trash"]
    BY <2>1, <2>2 DEF Vanishing
  <2> QED BY <1>1, <1>2, <2>2, <2>3, <2>4, <2>5, <2>6 DEF FoldersHeld, Dir
<1>5. CASE \E n \in Leaf : OtherRun(n)
  <2>1. PICK n \in Leaf : OtherRun(n)
    BY <1>5
  <2>2. PICK e : \E f \in FirstFolder("current") :
             /\ e.fid = f.id /\ entries' = (entries \ Named(In(f.id), Stored(n))) \cup {e}
             /\ UNCHANGED <<folders, dying>>
    <3>1. PICK e : \E f \in FirstFolder("current") :
             /\ e = [id |-> ids + 1, fid |-> f.id, name |-> Stored(n).name, ver |-> ids + 1]
             /\ entries' = (entries \ Named(In(f.id), Stored(n))) \cup {e}
             /\ UNCHANGED <<folders, dying>>
      BY <1>1, <2>1, OtherWrites
    <3>2. \E f \in FirstFolder("current") :
             /\ e.fid = f.id /\ entries' = (entries \ Named(In(f.id), Stored(n))) \cup {e}
             /\ UNCHANGED <<folders, dying>>
      BY <3>1
    <3> QED BY <3>2
  <2>3. \A x \in entries' : \E f \in folders' : f.id = x.fid
    BY <1>1, <2>2 DEF FoldersHeld, FirstFolder
  <2>4. UNCHANGED <<folders, dying>>
    BY <2>2
  <2> QED BY <1>1, <1>2, <2>3, <2>4 DEF FoldersHeld, Dir
<1> QED BY <1>3, <1>4, <1>5 DEF WorldOfDrime

(***************************************************************************)
(* What calls hold on to.                                                  *)
(***************************************************************************)
\* What another step leaves of the file a call is about, and of the folders.
LeftAlone(n)  == \A e \in entries : e.name \in {Stored(n).name, Trashed(n).name} => e \in entries'
KnownStay  == \A d \in Dir : known[d] # 0 => known'[d] = known[d]
LEMMA FoundLasts ==
    ASSUME DriveTypes, NEW v \in Uploader, FoundRight(v), call'[v] = call[v], LeftAlone(call[v].name), KnownStay
    PROVE  FoundRight(v)'
<1>1. /\ known \in [Dir -> 0..ids] /\ entries \subseteq FileEntry(ids) /\ call[v].name \in Leaf
      /\ {"current", "trash"} \subseteq Dir
  BY CallFields DEF DriveTypes, DriveCall, Dir
<1>2. \A e \in entries, d \in Dir : e.fid = known[d] => known'[d] = known[d]
  BY <1>1 DEF FileEntry, KnownStay
<1>3. /\ NoteKey(v)' = NoteKey(v) /\ NoteKey(v).dir \in Dir
      /\ NoteKey(v).name \in {Stored(call[v].name).name, Trashed(call[v].name).name}
  <2>1. NoteKey(v) \in {Stored(call[v].name), Trashed(call[v].name)}
    BY DEF NoteKey
  <2> QED BY <1>1, <2>1, KeyNames DEF NoteKey
<1>4. call'[v].at = "replace" =>
         \E e \in call'[v].found : /\ e \in entries' /\ e.fid = known'["current"]
                                   /\ \A x \in call'[v].found : x.name = Stored(call'[v].name).name /\ (x # e => x.id < e.id)
  <2> SUFFICES ASSUME call'[v].at = "replace"
               PROVE  \E e \in call'[v].found : /\ e \in entries' /\ e.fid = known'["current"]
                           /\ \A x \in call'[v].found : x.name = Stored(call'[v].name).name /\ (x # e => x.id < e.id)
    OBVIOUS
  <2>1. PICK e \in call[v].found : /\ e \in entries /\ e.fid = known["current"]
                                   /\ \A x \in call[v].found : x.name = Stored(call[v].name).name /\ (x # e => x.id < e.id)
    BY DEF FoundRight
  <2>2. e \in entries' /\ e.fid = known'["current"]
    BY <1>1, <1>2, <2>1 DEF LeftAlone
  <2> QED BY <2>1, <2>2
<1>5. call'[v].at = "rename" => \E e \in call'[v].found : AtKey(call[v].found, e, [dir |-> "trash", name |-> Stored(call[v].name).name])'
  <2> SUFFICES ASSUME call'[v].at = "rename"
               PROVE  \E e \in call'[v].found : AtKey(call[v].found, e, [dir |-> "trash", name |-> Stored(call[v].name).name])'
    OBVIOUS
  <2>1. PICK e \in call[v].found : AtKey(call[v].found, e, [dir |-> "trash", name |-> Stored(call[v].name).name])
    BY DEF FoundRight
  <2>2. e \in entries' /\ e.fid = known'["trash"]
    BY <1>1, <1>2, <2>1 DEF LeftAlone, AtKey
  <2> QED BY <2>1, <2>2 DEF AtKey
<1>6. call'[v].at = "note" => \E e \in call'[v].found : AtKey(call[v].found, e, NoteKey(v))'
  <2> SUFFICES ASSUME call'[v].at = "note"
               PROVE  \E e \in call'[v].found : AtKey(call[v].found, e, NoteKey(v))'
    OBVIOUS
  <2>1. PICK e \in call[v].found : AtKey(call[v].found, e, NoteKey(v))
    BY DEF FoundRight
  <2>2. e \in entries' /\ e.fid = known'[NoteKey(v).dir]
    BY <1>1, <1>2, <1>3, <2>1 DEF LeftAlone, AtKey
  <2>3. AtKey(call[v].found, e, NoteKey(v))'
    BY <1>3, <2>1, <2>2 DEF AtKey
  <2> QED BY <2>1, <2>3
<1>7. call'[v].at \in {"target", "carry"} => \E e \in call'[v].found : call'[v].found = {e} /\ e.name = Stored(call'[v].name).name
  BY DEF FoundRight
<1> QED BY <1>4, <1>5, <1>6, <1>7 DEF FoundRight

\* No step of a worker takes what another has in hand.
LEMMA CallSpares ==
    ASSUME DrimeCore, NEW u \in Uploader, WorkerOf(u), NEW v \in Uploader, v # u, call[v] # NoCall
    PROVE  LeftAlone(call[v].name) /\ KnownStay
<1>1. /\ DriveTypes /\ AllFound /\ CallsOrdered /\ NoCall.at = "idle" /\ call[u] \in DriveCall(ids)
      /\ known \in [Dir -> 0..ids] /\ call[v].name \in Leaf /\ call[u].name \in Leaf /\ Needs(u) \in Dir
  BY CallFields, NoCallTyped DEF DrimeCore, DriveTypes, DriveCall, Needs, Dir
<1>2. call[u].at \notin {"delete", "wait"}
  BY EmptiesAlone
<1>3. call[u] # NoCall => Stored(call[u].name).name \notin {Stored(call[v].name).name, Trashed(call[v].name).name}
  <2>1. call[u] # NoCall => call[u].name # call[v].name
    BY <1>1 DEF CallsOrdered, Apart, Working
  <2> QED BY <1>1, <2>1, KeyNames
<1>4. KnownStay
  <2>1. AsksNothing(u) \/ AsksIt(u) \/ IsAnswered(u)
    BY AskKinds
  <2>2. call[u].kind = "empty" => call[u] # NoCall
    BY DEF NoCall
  <2>3. call[u].kind # "empty"
    BY <1>1, <2>2 DEF CallsOrdered, Apart, Working
  <2>4. call[u].asks = "folder" => known[Needs(u)] = 0
    BY <1>1 DEF CallsOrdered, AsksOnce
  <2> QED BY <1>1, <2>1, <2>3, <2>4 DEF AsksNothing, AsksIt, IsAnswered, KnownStay
<1> USE DEF driveVars
<1>5. CASE Replace(u)
  <2>1. call[u].at = "replace" /\ AfterReplace(u)
    BY <1>1, <1>5, ReplaceCalls DEF Replace, At
  <2>2. \A x \in call[u].found : x.name = Stored(call[u].name).name
    BY <1>1, <2>1, TheFound
  <2>3. \A x \in entries : x \notin call[u].found => x \in entries'
    BY <2>1 DEF AfterReplace, Deleted
  <2>4. call[u] # NoCall
    BY <1>1, <2>1
  <2> QED BY <1>3, <1>4, <2>2, <2>3, <2>4 DEF LeftAlone
<1>6. CASE Carry(u) \/ GiveTrashName(u)
  <2>1. call[u].at \in {"carry", "rename"} /\ call[u] # NoCall
    BY <1>1, <1>6 DEF Carry, GiveTrashName, At
  <2>2. PICK e \in FileEntry(ids) : call[u].found = {e} /\ e = TheOne(u)
    BY <1>1, <2>1, TheFound
  <2>3. e.name = Stored(call[u].name).name
    BY <1>1, <2>1, <2>2 DEF AllFound, FoundRight, AtKey
  <2>4. \A x \in entries : x # e => x \in entries'
    BY <1>1, <1>6, <2>2, CarryCalls, TrashNameCalls DEF AfterCarry, AfterGiveTrashName
  <2> QED BY <1>3, <1>4, <2>1, <2>3, <2>4 DEF LeftAlone
<1>7. CASE Send(u)
  <2>1. entries \subseteq entries'
    BY <1>1, <1>7, SendCalls DEF AfterSend
  <2> QED BY <1>4, <2>1 DEF LeftAlone
<1>8. CASE ~Replace(u) /\ ~Carry(u) /\ ~GiveTrashName(u) /\ ~Send(u)
  <2>1. UNCHANGED entries
    BY <1>2, <1>8 DEF WorkerOf, BeginCall, Resolve, ListFolder, CreateFolder, SendRelists, FindCopy, DeleteFolder, FolderGone, FolderStays, Note, At
  <2> QED BY <1>4, <2>1 DEF LeftAlone
<1> QED BY <1>5, <1>6, <1>7, <1>8

\* Of the files listed at a name the newest is one.
LEMMA OneNewest ==
    ASSUME DrimeCore, NEW n \in Leaf, Newest(Named(cache["current"].files, Stored(n))) # {}
    PROVE  \E e \in FileEntry(ids) : /\ Newest(Named(cache["current"].files, Stored(n))) = {e}
                                     /\ e.name = Stored(n).name /\ e \in cache["current"].files
<1> DEFINE N == Named(cache["current"].files, Stored(n))
<1>1. PICK e \in Newest(N) : TRUE
  OBVIOUS
<1>2. "current" \in Dir /\ cache["current"].files \subseteq FileEntry(ids) /\ cache["current"].files \subseteq Seen
      /\ \A x \in cache["current"].files : x.fid = cache["current"].fid
  BY DEF Dir, DrimeCore, DriveTypes, Seen, FoldersHeld
<1>3. \A x \in Newest(N) : x \in cache["current"].files /\ x.name = Stored(n).name
                           /\ x.id <= e.id /\ e.id <= x.id
  BY <1>1 DEF Newest, Named
<1>4. \A x \in Newest(N) : x.id = e.id /\ x.ver = e.ver /\ x.fid = e.fid /\ x.name = e.name
  <2> TAKE x \in Newest(N)
  <2>1. x \in Seen /\ e \in Seen /\ x.id <= e.id /\ e.id <= x.id
    BY <1>1, <1>2, <1>3
  <2>2. x.ver <= e.ver /\ e.ver <= x.ver
    BY <2>1 DEF DrimeCore, IdsTell
  <2>3. x.id \in Nat /\ x.ver \in Nat /\ e.id \in Nat /\ e.ver \in Nat
    BY <1>1, <1>2, <1>3 DEF FileEntry
  <2>4. x.id = e.id /\ x.ver = e.ver
    BY <2>1, <2>2, <2>3
  <2>5. x.fid = e.fid /\ x.name = e.name
    BY <1>1, <1>2, <1>3
  <2> QED BY <2>4, <2>5
<1>5. \A x \in Newest(N) : x = e
  <2> TAKE x \in Newest(N)
  <2>1. x \in FileEntry(ids) /\ e \in FileEntry(ids)
    BY <1>1, <1>2, <1>3
  <2> QED BY <1>4, <2>1 DEF FileEntry
<1> HIDE DEF N
<1>6. Newest(N) = {e}
  BY <1>1, <1>5
<1> QED BY <1>1, <1>2, <1>3, <1>6 DEF N

LEMMA CallKeepsFound ==
    ASSUME DrimeCore, NEW u \in Uploader, WorkerOf(u)
    PROVE  AllFound'
<1>1. /\ DriveTypes /\ AllFound /\ CallsOrdered /\ NoCall.at = "idle" /\ call[u] \in DriveCall(ids) /\ ids \in Nat
      /\ known \in [Dir -> 0..ids] /\ call[u].name \in Leaf /\ {"current", "trash"} \subseteq Dir /\ CallShape(call[u])
      /\ cache \in [Dir -> [fid : 0..ids, files : SUBSET FileEntry(ids)]]
  BY CallFields, NoCallTyped DEF DrimeCore, DriveTypes, DriveCall, Dir, CallsOrdered
<1>2. \A d \in Dir : cache[d].fid \in {0, known[d]}
  BY DEF DrimeCore, FoldersHeld
<1>3. \A v \in Uploader : v # u => FoundRight(v)'
  <2> TAKE v \in Uploader
  <2> HAVE v # u
  <2>1. call'[v] = call[v] /\ FoundRight(v)
    BY <1>1, WorkerAlone DEF AllFound
  <2>2. CASE call[v] = NoCall
    BY <1>1, <2>1, <2>2 DEF FoundRight
  <2>3. CASE call[v] # NoCall
    BY <1>1, <2>1, <2>3, CallSpares, FoundLasts
  <2> QED BY <2>2, <2>3
<1>4. CallOver(u) => FoundRight(u)'
  BY <1>1 DEF CallOver, FoundRight
<1>5. \A s, a, f : Now(u, s, a, f) => call'[u].at = s /\ call'[u].name = call[u].name /\ call'[u].found = f /\ call'[u].kind = call[u].kind
  BY DEF Now
<1>6. ASSUME NEW s \in {"idle", "source", "send", "look", "delete", "wait"}, call'[u].at = s
      PROVE  FoundRight(u)'
  BY <1>6 DEF FoundRight
<1>7. ASSUME call[u].at \in {"target", "carry"}, NEW s \in {"target", "carry"}, NEW a, Now(u, s, a, call[u].found)
      PROVE  FoundRight(u)'
  <2>1. call'[u].at = s /\ call'[u].name = call[u].name /\ call'[u].found = call[u].found
    BY <1>5, <1>7
  <2>2. \E e \in call[u].found : call[u].found = {e} /\ e.name = Stored(call[u].name).name
    BY <1>1, <1>7 DEF AllFound, FoundRight
  <2> QED BY <2>1, <2>2 DEF FoundRight
<1>8. FoundRight(u)'
  <2>1. CASE BeginCall(u)
    <3>1. PICK kind \in {"put", "move", "empty"}, n \in Leaf :
             call'[u] = [kind |-> kind, name |-> n, at |-> "source", asks |-> "nothing", found |-> {}]
      BY <1>1, <2>1, BeginCalls
    <3> QED BY <1>6, <3>1
  <2>2. CASE Resolve(u) \/ CreateFolder(u)
    <3>1. call[u].at \in {"source", "target"}
      BY <1>1, <2>2 DEF Resolve, CreateFolder, CallsOrdered, AsksOnce
    <3>2. /\ call[u].at = "source" => GoesOn(u) \in {"send", "delete", "look"}
          /\ call[u].at = "target" => GoesOn(u) = "carry"
      <4>1. call[u].at = "target" => call[u].kind = "move"
        BY <1>1 DEF CallShape
      <4> QED BY <1>1, <3>1, <4>1, GoesOnTo
    <3>3. \/ \E a : Now(u, GoesOn(u), a, call[u].found) \/ Now(u, call[u].at, a, call[u].found)
          \/ \E a, f : Now(u, call[u].at, a, f) /\ call[u].at = "source"
          \/ CallOver(u)
      <4>1. CASE CreateFolder(u)
        BY <1>1, <4>1, CreateCalls DEF AfterCreateFolder
      <4>2. CASE Resolve(u)
        <5>1. /\ cache[Needs(u)].fid = 0 /\ known[Needs(u)] # 0 => call[u].at = "source"
          <6>1. known["trash"] # 0 => cache["trash"].fid # 0
            BY DEF DrimeCore, FoldersHeld
          <6> QED BY <3>1, <6>1 DEF Needs
        <5>2. \/ \E a : Now(u, GoesOn(u), a, call[u].found) \/ Now(u, call[u].at, a, call[u].found)
              \/ cache[Needs(u)].fid = 0 /\ known[Needs(u)] # 0 /\ \E a, f : Now(u, call[u].at, a, f)
              \/ CallOver(u)
          BY <1>1, <4>2, ResolveCalls
        <5> QED BY <5>1, <5>2
      <4> QED BY <2>2, <4>1, <4>2
    <3>4. CASE \E a, f : (Now(u, GoesOn(u), a, f) \/ Now(u, call[u].at, a, f)) /\ call[u].at = "source"
      BY <1>5, <1>6, <3>2, <3>4
    <3>5. CASE call[u].at = "target" /\ \E a : Now(u, GoesOn(u), a, call[u].found) \/ Now(u, call[u].at, a, call[u].found)
      BY <1>7, <3>2, <3>5
    <3> QED BY <1>4, <3>1, <3>3, <3>4, <3>5
  <2>3. CASE ListFolder(u)
    <3>1. call[u].at = "source"
      BY <1>1, <2>3 DEF ListFolder, CallsOrdered, AsksOnce
    <3>2. GoesOn(u) \in {"send", "delete", "look"}
      BY <1>1, <3>1, GoesOnTo
    <3>3. Now(u, GoesOn(u), "nothing", {}) \/ CallOver(u)
      BY <1>1, <2>3, ListCalls
    <3> QED BY <1>4, <1>5, <1>6, <3>2, <3>3
  <2>4. CASE Send(u)
    <3>1. AfterSend(u) /\ cache["current"].fid # 0
      BY <1>1, <2>4, SendCalls DEF Send
    <3>2. CASE ids' # ids /\ Now(u, "replace", "nothing", Named(cache["current"].files, Stored(call[u].name)) \cup {SentCopy(u, ids')})
      <4> DEFINE e == SentCopy(u, ids')
                 F == Named(cache["current"].files, Stored(call[u].name)) \cup {e}
      <4>1. ids' > ids /\ ids' \in Nat
        BY <1>1, <3>1, <3>2 DEF AfterSend
      <4>2. e \in entries' /\ e.fid = known["current"] /\ e.name = Stored(call[u].name).name /\ e.id = ids'
        BY <1>1, <1>2, <3>1, <4>1 DEF AfterSend, SentCopy
      <4>3. \A x \in F : x.name = Stored(call[u].name).name /\ (x # e => x.id < e.id)
        <5>1. \A x \in cache["current"].files : x.id \in 1..ids
          BY <1>1 DEF FileEntry
        <5> HIDE DEF e
        <5> QED BY <1>1, <4>1, <4>2, <5>1 DEF Named
      <4>4. UNCHANGED known
        BY <2>4 DEF Send
      <4>5. call'[u].at = "replace" /\ call'[u].name = call[u].name /\ call'[u].found = F
        BY <1>5, <3>2
      <4>6. e \in F
        OBVIOUS
      <4> HIDE DEF e, F
      <4> QED BY <4>2, <4>3, <4>4, <4>5, <4>6 DEF FoundRight
    <3> QED BY <1>4, <3>1, <3>2 DEF AfterSend
  <2>5. CASE SendRelists(u) \/ DeleteFolder(u) \/ FolderGone(u) \/ FolderStays(u) \/ Note(u)
    <3>1. (\E f : Now(u, "source", "nothing", f) \/ Now(u, "wait", "nothing", f)) \/ CallOver(u)
      BY <1>1, <2>5, LastCalls
    <3> QED BY <1>4, <1>5, <1>6, <3>1
  <2>6. CASE Replace(u)
    <3>1. AfterReplace(u) /\ call[u].at = "replace" /\ UNCHANGED known
      BY <1>1, <2>6, ReplaceCalls DEF Replace, At
    <3>2. PICK e \in entries : /\ Newest(call[u].found) = {e} /\ e.fid = known["current"] /\ e.name = Stored(call[u].name).name
      BY <1>1, <3>1, TheFound
    <3>3. CASE Now(u, "note", "nothing", {e}) /\ Deleted(call[u].found \ {e})
      <4>1. e \in entries'
        BY <3>2, <3>3 DEF Deleted
      <4>2. call[u].kind = "put"
        BY <1>1, <3>1 DEF CallShape
      <4>3. call'[u].at = "note" /\ call'[u].name = call[u].name /\ call'[u].found = {e} /\ call'[u].kind = "put"
        BY <1>5, <3>3, <4>2
      <4>4. NoteKey(u)' = Stored(call[u].name) /\ Stored(call[u].name).dir = "current"
        BY <1>1, <4>3, KeyNames DEF NoteKey
      <4>5. AtKey(call[u].found, e, NoteKey(u))'
        BY <3>1, <3>2, <4>1, <4>3, <4>4 DEF AtKey
      <4> QED BY <4>3, <4>5 DEF FoundRight
    <3> QED BY <1>4, <3>1, <3>2, <3>3 DEF AfterReplace
  <2>7. CASE FindCopy(u)
    <3>1. AfterFindCopy(u)
      BY <1>1, <2>7, FindCalls
    <3>2. CASE Newest(Named(cache["current"].files, Stored(call[u].name))) # {}
               /\ Now(u, "target", "nothing", Newest(Named(cache["current"].files, Stored(call[u].name))))
      <4>1. PICK e : Newest(Named(cache["current"].files, Stored(call[u].name))) = {e} /\ e.name = Stored(call[u].name).name
        BY <1>1, <3>2, OneNewest
      <4>2. call'[u].at = "target" /\ call'[u].name = call[u].name /\ call'[u].found = {e}
        BY <1>5, <3>2, <4>1
      <4> QED BY <4>1, <4>2 DEF FoundRight
    <3> QED BY <1>4, <3>1, <3>2 DEF AfterFindCopy
  <2>8. CASE Carry(u)
    <3>1. AfterCarry(u) /\ call[u].at = "carry" /\ UNCHANGED known
      BY <1>1, <2>8, CarryCalls DEF Carry, At
    <3>2. PICK e \in FileEntry(ids) : call[u].found = {e} /\ e = TheOne(u)
      BY <1>1, <3>1, TheFound
    <3>3. e.name = Stored(call[u].name).name
      BY <1>1, <3>1, <3>2 DEF AllFound, FoundRight
    <3>4. CASE entries' = (entries \ {e}) \cup {InTrash(e)} /\ Now(u, "rename", "nothing", {InTrash(e)})
      <4>0. PICK t : t = InTrash(e)
        OBVIOUS
      <4>1. t \in entries' /\ t.name = e.name /\ t.fid = cache["trash"].fid
        BY <3>4, <4>0 DEF InTrash, FileEntry
      <4>2. cache["trash"].fid = known["trash"]
        BY <1>1, <1>2, <3>1 DEF DrimeCore, FoldersHeld
      <4>3. call'[u].at = "rename" /\ call'[u].name = call[u].name /\ call'[u].found = {t}
        BY <1>5, <3>4, <4>0
      <4>4. AtKey(call[u].found, t, [dir |-> "trash", name |-> Stored(call[u].name).name])'
        BY <3>1, <3>3, <4>1, <4>2, <4>3 DEF AtKey
      <4> QED BY <4>3, <4>4 DEF FoundRight
    <3> QED BY <1>4, <3>1, <3>2, <3>4 DEF AfterCarry
  <2>9. CASE GiveTrashName(u)
    <3>1. AfterGiveTrashName(u) /\ call[u].at = "rename" /\ UNCHANGED known
      BY <1>1, <2>9, TrashNameCalls DEF GiveTrashName, At
    <3>2. PICK e \in FileEntry(ids) : call[u].found = {e} /\ e = TheOne(u)
      BY <1>1, <3>1, TheFound
    <3>3. e.fid = known["trash"]
      BY <1>1, <3>1, <3>2 DEF AllFound, FoundRight, AtKey
    <3>4. CASE entries' = (entries \ {e}) \cup {TrashNamed(u, e)} /\ Now(u, "note", "nothing", {TrashNamed(u, e)})
      <4>0. PICK t : t = TrashNamed(u, e)
        OBVIOUS
      <4>1. t \in entries' /\ t.name = Trashed(call[u].name).name /\ t.fid = e.fid
        BY <3>4, <4>0 DEF TrashNamed, FileEntry
      <4>2. call[u].kind = "move"
        BY <1>1, <3>1 DEF CallShape
      <4>3. call'[u].at = "note" /\ call'[u].name = call[u].name /\ call'[u].found = {t} /\ call'[u].kind = "move"
        BY <1>5, <3>4, <4>0, <4>2
      <4>4. NoteKey(u)' = Trashed(call[u].name) /\ Trashed(call[u].name).dir = "trash"
        BY <1>1, <4>3, KeyNames DEF NoteKey
      <4>5. AtKey(call[u].found, t, NoteKey(u))'
        BY <3>1, <3>3, <4>1, <4>3, <4>4 DEF AtKey
      <4> QED BY <4>3, <4>5 DEF FoundRight
    <3> QED BY <1>4, <3>1, <3>2, <3>4 DEF AfterGiveTrashName
  <2> QED BY <2>1, <2>2, <2>3, <2>4, <2>5, <2>6, <2>7, <2>8, <2>9 DEF WorkerOf
<1> QED BY <1>3, <1>8 DEF AllFound

LEMMA OthersKeepFound ==
    ASSUME DrimeCore, WorldOfDrime
    PROVE  AllFound'
<1>1. /\ DriveTypes /\ AllFound /\ CallsOrdered /\ FoldersHeld /\ NoCall.at = "idle" /\ UNCHANGED <<call, known>>
  BY NoCallTyped DEF DrimeCore, DriveTypes, WorldOfDrime, DriveDeletes, SaveNotes, NotesSaved, OtherRun, treeVars
<1> SUFFICES ASSUME NEW v \in Uploader PROVE FoundRight(v)'
  BY DEF AllFound
<1>2. CASE SaveNotes \/ NotesSaved
  <2>1. UNCHANGED entries
    BY <1>2 DEF SaveNotes, NotesSaved, driveVars
  <2> QED BY <1>1, <2>1, FoundLasts DEF AllFound, LeftAlone, KnownStay
<1>3. CASE DriveDeletes
  <2>1. dying # {}
    BY <1>3 DEF DriveDeletes
  <2>2. PICK u \in Uploader : call[u].at = "wait"
    BY <1>1, <2>1 DEF FoldersHeld
  <2>3. call[v].at \in {"wait", "idle"}
    BY <2>2, EmptiesAlone
  <2> QED BY <1>1, <2>3 DEF FoundRight
<1>4. CASE \E n \in Leaf : OtherRun(n)
  <2>1. call[v] = NoCall
    BY <1>1, <1>4 DEF OtherRun, CallsOrdered, Working
  <2> QED BY <1>1, <2>1 DEF FoundRight
<1> QED BY <1>2, <1>3, <1>4 DEF WorldOfDrime

LEMMA DrimeUnmoved ==
    ASSUME UNCHANGED drimeVars
    PROVE  /\ DrimeCore => DrimeCore'
           /\ NotesHold => NotesHold'
           /\ SoleFolders => SoleFolders'
           /\ AckedHeld => AckedHeld'
<1>1. /\ UNCHANGED <<folders, entries, dying, ids, saved, known, cache, inflight, call, details, loaded, dirty, saving>>
      /\ UNCHANGED <<noted, session, acked, owed>>
  BY DEF drimeVars, driveVars, treeVars, noteVars, ackVars
<1>2. DrimeCore => DrimeCore'
  <2>1. (DriveTypes => DriveTypes') /\ (NoteTypes => NoteTypes')
    BY <1>1 DEF DriveTypes, NoteTypes
  <2>2. CallsOrdered => CallsOrdered'
    BY <1>1 DEF CallsOrdered, CallShape, AsksOnce, Working, Apart, Needs
  <2>3. FoldersHeld => FoldersHeld'
    BY <1>1 DEF FoldersHeld, FolderAt
  <2>4. AllFound => AllFound'
    BY <1>1 DEF AllFound, FoundRight, AtKey, NoteKey
  <2>5. IdsTell => IdsTell'
    BY <1>1 DEF IdsTell, Seen
  <2> QED BY <2>1, <2>2, <2>3, <2>4, <2>5 DEF DrimeCore
<1>3. NotesHold => NotesHold'
  BY <1>1 DEF NotesHold, Agrees, Released
<1>4. SoleFolders => SoleFolders'
  BY <1>1 DEF SoleFolders
<1>5. AckedHeld => AckedHeld'
  BY <1>1 DEF AckedHeld, HeldAt
<1> QED BY <1>2, <1>3, <1>4, <1>5

(***************************************************************************)
(* Later entries hold later versions.                                      *)
(***************************************************************************)
SeenBefore(x) == \E y \in Seen : y.id = x.id /\ y.ver = x.ver
Fits(x) == SeenBefore(x) \/ (x.id \in Nat /\ x.id > ids /\ x.ver = ids + 1)
LEMMA SeenWhere ==
    /\ entries \subseteq Seen /\ (\A d \in Dir : cache[d].files \subseteq Seen) /\ (\A u \in Uploader : call[u].found \subseteq Seen)
    /\ \A x \in Seen : \/ x \in entries \/ (\E d \in Dir : x \in cache[d].files) \/ \E u \in Uploader : x \in call[u].found
<1>1. \A x : x \in Seen <=> \/ x \in entries
                            \/ x \in UNION {cache[d].files : d \in Dir} \/ x \in UNION {call[u].found : u \in Uploader}
  <2> DEFINE A == UNION {cache[d].files : d \in Dir}
             B == UNION {call[u].found : u \in Uploader}
  <2>1. Seen = entries \cup A \cup B
    BY DEF Seen
  <2> HIDE DEF A, B
  <2>2. \A x : x \in Seen <=> x \in entries \/ x \in A \/ x \in B
    BY <2>1
  <2> QED BY <2>2 DEF A, B
<1>2. \A x : x \in UNION {cache[d].files : d \in Dir} <=> \E d \in Dir : x \in cache[d].files
  OBVIOUS
<1>3. \A x : x \in UNION {call[u].found : u \in Uploader} <=> \E u \in Uploader : x \in call[u].found
  OBVIOUS
<1> QED BY <1>1, <1>2, <1>3

LEMMA SeenTyped ==
    ASSUME DriveTypes
    PROVE  /\ Seen \subseteq FileEntry(ids) /\ \A x \in Seen : SeenBefore(x) /\ Fits(x)
           /\ entries \subseteq Seen /\ (\A d \in Dir : cache[d].files \subseteq Seen) /\ (\A u \in Uploader : call[u].found \subseteq Seen)
<1>1. \A u \in Uploader : call[u].found \subseteq FileEntry(ids)
  BY DEF DriveTypes, DriveCall
<1>2. \A d \in Dir : cache[d].files \subseteq FileEntry(ids)
  BY DEF DriveTypes
<1>3. entries \subseteq FileEntry(ids)
  BY DEF DriveTypes
<1>4. Seen \subseteq FileEntry(ids)
  BY <1>1, <1>2, <1>3, SeenWhere
<1>5. \A x \in Seen : SeenBefore(x) /\ Fits(x)
  BY DEF SeenBefore, Fits
<1> QED BY <1>4, <1>5, SeenWhere

LEMMA FitsTell ==
    ASSUME DriveTypes, IdsTell,
           \A x \in entries' : Fits(x),
           \A d \in Dir : \A x \in cache'[d].files : Fits(x),
           \A v \in Uploader : \A x \in call'[v].found : Fits(x)
    PROVE  IdsTell'
<1>1. \A x \in Seen' : Fits(x)
  <2>1. \A x \in Seen' : \/ x \in entries' \/ (\E d \in Dir : x \in cache'[d].files) \/ \E u \in Uploader : x \in call'[u].found
    <3> DEFINE A == UNION {cache'[d].files : d \in Dir}
               B == UNION {call'[u].found : u \in Uploader}
    <3>1. Seen' = entries' \cup A \cup B
      BY DEF Seen
    <3>2. \A x : x \in A <=> \E d \in Dir : x \in cache'[d].files
      OBVIOUS
    <3>3. \A x : x \in B <=> \E u \in Uploader : x \in call'[u].found
      OBVIOUS
    <3> HIDE DEF A, B
    <3> QED BY <3>1, <3>2, <3>3
  <2> QED BY <2>1
<1>2. \A y \in Seen : y.id \in 1..ids /\ y.ver \in 1..ids
  BY SeenTyped DEF FileEntry
<1>3. ids \in Nat
  BY DEF DriveTypes
<1> SUFFICES ASSUME NEW x \in Seen', NEW y \in Seen', x.id <= y.id PROVE x.ver <= y.ver
  BY DEF IdsTell
<1>4. Fits(x) /\ Fits(y)
  BY <1>1
<1>5. CASE SeenBefore(x) /\ SeenBefore(y)
  BY <1>5 DEF SeenBefore, IdsTell
<1>6. CASE SeenBefore(x) /\ (y.id > ids /\ y.ver = ids + 1)
  BY <1>2, <1>3, <1>6 DEF SeenBefore
<1>7. CASE (x.id \in Nat /\ x.id > ids /\ x.ver = ids + 1) /\ SeenBefore(y)
  <2>1. PICK w \in Seen : w.id = y.id
    BY <1>7 DEF SeenBefore
  <2>2. w.id \in Nat /\ w.id <= ids /\ x.id <= w.id /\ x.id \in Nat /\ x.id > ids
    BY <1>2, <1>3, <1>7, <2>1
  <2>3. FALSE
    <3>1. ASSUME NEW a \in Nat, NEW b \in Nat, NEW n \in Nat, a <= n, b <= a, b > n PROVE FALSE
      BY <3>1
    <3> QED BY <1>3, <2>2, <3>1
  <2> QED BY <2>3
<1>8. CASE x.ver = ids + 1 /\ y.ver = ids + 1
  BY <1>3, <1>8
<1> QED BY <1>4, <1>5, <1>6, <1>7, <1>8 DEF Fits

LEMMA CallKeepsIds ==
    ASSUME DrimeCore, NEW u \in Uploader, WorkerOf(u)
    PROVE  IdsTell'
<1>1. /\ DriveTypes /\ AllFound /\ IdsTell /\ call[u] \in DriveCall(ids) /\ ids \in Nat /\ {"current", "trash"} \subseteq Dir
      /\ cache \in [Dir -> [fid : 0..ids, files : SUBSET FileEntry(ids)]]
      /\ NoCall.found = {} /\ NotListed.files = {} /\ Needs(u) \in Dir
  BY CallFields, NoCallTyped DEF DrimeCore, DriveTypes, Dir, NotListed, Needs
<1>2. /\ \A x \in entries : Fits(x)
      /\ \A d \in Dir : \A x \in cache[d].files : Fits(x)
      /\ \A v \in Uploader : \A x \in call[v].found : Fits(x)
  BY <1>1, SeenTyped
<1>3. \A v \in Uploader : v # u => \A x \in call'[v].found : Fits(x)
  BY <1>1, <1>2, WorkerAlone
<1>4. SUFFICES /\ \A x \in entries' : Fits(x)
               /\ \A d \in Dir : \A x \in cache'[d].files : Fits(x)
               /\ \A x \in call'[u].found : Fits(x)
  BY <1>1, <1>3, FitsTell
<1>5. /\ CallOver(u) => call'[u].found = {}
      /\ \A s, a, f : Now(u, s, a, f) => call'[u].found = f
  BY <1>1 DEF Now, CallOver
<1> USE DEF driveVars, treeVars
<1>6. CASE BeginCall(u)
  <2>1. PICK kind \in {"put", "move", "empty"}, n \in Leaf :
           call'[u] = [kind |-> kind, name |-> n, at |-> "source", asks |-> "nothing", found |-> {}]
    BY <1>1, <1>6, BeginCalls
  <2>2. call'[u].found = {}
    BY <2>1
  <2>3. UNCHANGED <<entries, cache>>
    BY <1>6 DEF BeginCall
  <2> QED BY <1>2, <2>2, <2>3
<1>7. CASE Resolve(u)
  <2>1. UNCHANGED <<entries, cache>>
    BY <1>7 DEF Resolve
  <2>2. \A x \in In(known[Needs(u)]) : Fits(x)
    BY <1>2 DEF In
  <2>3. \A x \in call'[u].found : Fits(x)
    BY <1>1, <1>2, <1>5, <1>7, <2>2, ResolveCalls
  <2> QED BY <1>2, <2>1, <2>3
<1>8. CASE ListFolder(u)
  <2>1. UNCHANGED entries
    BY <1>8 DEF ListFolder
  <2>2. \/ /\ cache' = [cache EXCEPT ![Needs(u)] = [fid |-> known[Needs(u)], files |-> call[u].found]]
           /\ Now(u, GoesOn(u), "nothing", {})
        \/ CallOver(u) /\ UNCHANGED cache
    BY <1>1, <1>8, ListCalls
  <2>3. \A d \in Dir : cache'[d].files \in {cache[d].files, call[u].found}
    BY <1>1, <2>2
  <2>4. call'[u].found = {}
    BY <1>5, <2>2
  <2> QED BY <1>2, <2>1, <2>3, <2>4
<1>9. CASE CreateFolder(u)
  <2>1. AfterCreateFolder(u) /\ UNCHANGED entries
    BY <1>1, <1>9, CreateCalls DEF CreateFolder
  <2>2. \A d \in Dir : cache'[d].files \in {cache[d].files, {}}
    BY <1>1, <2>1 DEF AfterCreateFolder
  <2>3. call'[u].found \in {call[u].found, {}}
    BY <1>5, <2>1 DEF AfterCreateFolder
  <2> QED BY <1>2, <2>1, <2>2, <2>3
<1>10. CASE Send(u)
  <2>1. AfterSend(u)
    BY <1>1, <1>10, SendCalls
  <2>2. \A i \in ids + 1 .. ids' : Fits(SentCopy(u, i))
    BY <1>1, <2>1 DEF AfterSend, Fits, SentCopy
  <2>3. \A x \in entries' : Fits(x)
    BY <1>2, <2>1, <2>2 DEF AfterSend
  <2>4. \A d \in Dir : cache'[d].files \in {cache[d].files, {}}
    BY <1>1, <2>1 DEF AfterSend
  <2>5. \A x \in call'[u].found : Fits(x)
    <3>1. CASE ids' # ids /\ Now(u, "replace", "nothing", Named(cache["current"].files, Stored(call[u].name)) \cup {SentCopy(u, ids')})
      <4>1. ids' \in ids + 1 .. ids'
        BY <1>1, <2>1, <3>1 DEF AfterSend
      <4>2. \A x \in Named(cache["current"].files, Stored(call[u].name)) : Fits(x)
        BY <1>1, <1>2 DEF Named
      <4> QED BY <1>5, <2>2, <3>1, <4>1, <4>2
    <3> QED BY <1>5, <2>1, <3>1 DEF AfterSend
  <2> QED BY <1>2, <2>3, <2>4, <2>5
<1>11. CASE SendRelists(u) \/ Note(u)
  <2>1. UNCHANGED <<entries, cache>>
    BY <1>11 DEF SendRelists, Note
  <2>2. call'[u].found \in {call[u].found, {}}
    BY <1>1, <1>5, <1>11, LastCalls
  <2> QED BY <1>2, <2>1, <2>2
<1>12. CASE Replace(u)
  <2>1. AfterReplace(u) /\ call[u].at = "replace"
    BY <1>1, <1>12, ReplaceCalls DEF Replace, At
  <2>2. PICK e \in entries : Newest(call[u].found) = {e} /\ e = (CHOOSE x \in Newest(call[u].found) : TRUE)
    BY <1>1, <2>1, TheFound
  <2>3. entries' \subseteq entries /\ Fits(e)
    BY <1>2, <2>1 DEF AfterReplace, Deleted
  <2>4. call'[u].found \in {{e}, {}}
    BY <1>5, <2>1, <2>2 DEF AfterReplace
  <2>5. cache' = cache \/ cache' = Listing("current", e, call[u].found \ {e})
    BY <2>1, <2>2 DEF AfterReplace
  <2>6. \A d \in Dir : \A x \in cache'[d].files : x \in cache[d].files \/ x = e
    <3>1. e \in FileEntry(ids)
      BY <1>1 DEF DriveTypes
    <3> QED BY <1>1, <2>5, <3>1, ListingTyped
  <2> QED BY <1>2, <2>3, <2>4, <2>6
<1>13. CASE FindCopy(u)
  <2>1. AfterFindCopy(u) /\ UNCHANGED <<entries, cache>>
    BY <1>1, <1>13, FindCalls DEF FindCopy
  <2>2. \A x \in Newest(Named(cache["current"].files, Stored(call[u].name))) : Fits(x)
    BY <1>1, <1>2 DEF Newest, Named
  <2>3. \A x \in call'[u].found : Fits(x)
    BY <1>5, <2>1, <2>2 DEF AfterFindCopy
  <2> QED BY <1>2, <2>1, <2>3
<1>14. CASE Carry(u)
  <2>1. AfterCarry(u) /\ call[u].at = "carry"
    BY <1>1, <1>14, CarryCalls DEF Carry, At
  <2>2. PICK e \in FileEntry(ids) : call[u].found = {e} /\ e = TheOne(u)
    BY <1>1, <2>1, TheFound
  <2>3. Fits(InTrash(e))
    <3>1. InTrash(e).id = e.id /\ InTrash(e).ver = e.ver /\ Fits(e)
      BY <1>2, <2>2 DEF InTrash, FileEntry
    <3> QED BY <3>1 DEF Fits, SeenBefore
  <2>4. \A x \in entries' : x \in entries \/ x = InTrash(e)
    BY <2>1, <2>2 DEF AfterCarry
  <2>5. call'[u].found \in {{InTrash(e)}, {}}
    BY <1>5, <2>1, <2>2 DEF AfterCarry
  <2>6. cache' = cache \/ cache' = [cache EXCEPT !["current"].files = @ \ {e}]
    BY <2>1, <2>2 DEF AfterCarry
  <2>7. \A d \in Dir : cache'[d].files \subseteq cache[d].files
    BY <1>1, <2>6
  <2> QED BY <1>2, <2>3, <2>4, <2>5, <2>7
<1>15. CASE GiveTrashName(u)
  <2>1. AfterGiveTrashName(u) /\ call[u].at = "rename"
    BY <1>1, <1>15, TrashNameCalls DEF GiveTrashName, At
  <2>2. PICK e \in FileEntry(ids) : call[u].found = {e} /\ e = TheOne(u)
    BY <1>1, <2>1, TheFound
  <2>3. Fits(TrashNamed(u, e)) /\ TrashNamed(u, e) \in FileEntry(ids)
    <3>1. TrashNamed(u, e).id = e.id /\ TrashNamed(u, e).ver = e.ver /\ Fits(e)
      BY <1>2, <2>2 DEF TrashNamed, FileEntry
    <3>2. call[u].name \in Leaf
      BY <1>1 DEF DriveCall
    <3> QED BY <3>1, <3>2, KeyNames DEF Fits, SeenBefore, TrashNamed, FileEntry
  <2>4. \A x \in entries' : x \in entries \/ x = TrashNamed(u, e)
    BY <2>1, <2>2 DEF AfterGiveTrashName
  <2>5. call'[u].found \in {{TrashNamed(u, e)}, {}}
    BY <1>5, <2>1, <2>2 DEF AfterGiveTrashName
  <2>6. cache' = cache \/ cache' = Listing("trash", TrashNamed(u, e), {})
    BY <2>1, <2>2 DEF AfterGiveTrashName
  <2>7. \A d \in Dir : \A x \in cache'[d].files : x \in cache[d].files \/ x = TrashNamed(u, e)
    BY <1>1, <2>3, <2>6, ListingTyped
  <2> QED BY <1>2, <2>3, <2>4, <2>5, <2>7
<1>16. CASE DeleteFolder(u) \/ FolderGone(u)
  <2>1. entries' \subseteq entries
    BY <1>16 DEF DeleteFolder, FolderGone, Vanishing
  <2>2. \A d \in Dir : cache'[d].files \in {cache[d].files, {}}
    BY <1>1, <1>16 DEF DeleteFolder, FolderGone, Emptied, TrashGone
  <2>3. call'[u].found \in {call[u].found, {}}
    BY <1>1, <1>5, <1>16, LastCalls
  <2> QED BY <1>2, <2>1, <2>2, <2>3
<1>17. CASE FolderStays(u)
  <2>1. PICK f \in FirstFolder("trash"), gone \in SUBSET entries :
           /\ entries' = entries \ gone
           /\ cache' = [cache EXCEPT !["trash"] = [fid |-> f.id, files |-> In(f.id) \ gone]]
    BY <1>17, StayCalls
  <2>2. \A d \in Dir : \A x \in cache'[d].files : x \in cache[d].files \/ x \in entries
    BY <1>1, <2>1 DEF In
  <2>3. call'[u].found = {}
    BY <1>1, <1>5, <1>17, LastCalls
  <2> QED BY <1>2, <2>1, <2>2, <2>3
<1> QED BY <1>6, <1>7, <1>8, <1>9, <1>10, <1>11, <1>12, <1>13, <1>14, <1>15, <1>16, <1>17 DEF WorkerOf

LEMMA OthersKeepIds ==
    ASSUME DrimeCore, WorldOfDrime
    PROVE  IdsTell'
<1>1. DriveTypes /\ IdsTell /\ ids \in Nat /\ UNCHANGED <<call, cache>>
  BY DEF DrimeCore, DriveTypes, WorldOfDrime, DriveDeletes, SaveNotes, NotesSaved, OtherRun, treeVars
<1>2. \A x \in entries' : Fits(x)
  <2>1. \A x \in entries : Fits(x)
    BY <1>1, SeenTyped
  <2>2. CASE DriveDeletes \/ SaveNotes \/ NotesSaved
    BY <2>1, <2>2 DEF DriveDeletes, SaveNotes, NotesSaved, Vanishing, driveVars
  <2>3. CASE \E n \in Leaf : OtherRun(n)
    <3>1. PICK n \in Leaf : OtherRun(n)
      BY <2>3
    <3>2. PICK e : e.id = ids + 1 /\ e.ver = ids + 1 /\ \A x \in entries' : x \in entries \/ x = e
      <4>1. PICK e : \E f \in FirstFolder("current") :
               /\ e = [id |-> ids + 1, fid |-> f.id, name |-> Stored(n).name, ver |-> ids + 1]
               /\ entries' = (entries \ Named(In(f.id), Stored(n))) \cup {e}
        BY <1>1, <3>1, OtherWrites
      <4>2. e.id = ids + 1 /\ e.ver = ids + 1 /\ \A x \in entries' : x \in entries \/ x = e
        BY <4>1
      <4> QED BY <4>2
    <3> QED BY <1>1, <2>1, <3>2 DEF Fits
  <2> QED BY <2>2, <2>3 DEF WorldOfDrime
<1> QED BY <1>1, <1>2, FitsTell, SeenTyped

\* Every step keeps DrimeCore.
LEMMA DrimeStays == DrimeCore /\ [DrimeNext]_drimeVars => DrimeCore'
<1> SUFFICES ASSUME DrimeCore, [DrimeNext]_drimeVars PROVE DrimeCore'
  OBVIOUS
<1>1. ASSUME NEW u \in Uploader, WorkerOf(u) PROVE DrimeCore'
  BY <1>1, CallKeepsDriveTypes, CallKeepsNoteTypes, CallKeepsOrder, CallKeepsFolders, CallKeepsFound, CallKeepsIds DEF DrimeCore
<1>2. ASSUME WorldOfDrime PROVE DrimeCore'
  BY <1>2, OthersKeepTypes, OthersKeepOrder, OthersKeepFolders, OthersKeepFound, OthersKeepIds DEF DrimeCore
<1>3. ASSUME UNCHANGED drimeVars PROVE DrimeCore'
  BY <1>3, DrimeUnmoved
<1> QED BY <1>1, <1>2, <1>3 DEF DrimeNext, WorldOfDrime

\* DrimeCore is an invariant.
LEMMA DrimeHolds == DrimeSpec => []DrimeCore
<1>1. DrimeInit => DrimeCore
  BY DrimeStarts
<1> QED BY <1>1, DrimeStays, PTL DEF DrimeSpec

\* Every variable of the store stays in its domain: a call is about files of a
\* folder, and a note about an entry that was made.
THEOREM DrimeKeepsTypes == DrimeSpec => []DrimeTypeOK
<1>1. DrimeCore => DrimeTypeOK
  <2> SUFFICES ASSUME DrimeCore PROVE DrimeTypeOK
    OBVIOUS
  <2>1. DriveTypes /\ NoteTypes /\ CallsOrdered /\ FoldersHeld
    BY DEF DrimeCore
  <2>2. \A f \in folders : f.id \in 1..ids /\ f.dir \in Dir
    BY <2>1 DEF DriveTypes
  <2>3. \A e \in entries : e.id \in 1..ids /\ e.ver \in 1..ids
    BY <2>1 DEF DriveTypes, FileEntry
  <2>4. \A e \in entries : \E f \in folders : f.id = e.fid
    BY <2>1 DEF FoldersHeld
  <2>5. \A d \in inflight : \E u \in Uploader : call[u].asks # "nothing" /\ Needs(u) = d
    BY <2>1 DEF CallsOrdered
  <2> QED BY <2>1, <2>2, <2>3, <2>4, <2>5 DEF DrimeTypeOK, DriveTypes, NoteTypes
<1> QED BY <1>1, DrimeHolds, PTL

(***************************************************************************)
(* The details of what is acknowledged.                                    *)
(***************************************************************************)
AckedFalls == \A k \in FileKey : acked'[k] \in {acked[k], 0}
NotesStill == UNCHANGED <<saved, details, loaded, dirty, saving, noted>>
LEMMA NotesStay ==
    ASSUME NotesHold, NotesStill, session => session', \A u \in Uploader : Released(u)'
    PROVE  NotesHold'
BY DEF NotesHold, NotesStill, Agrees

\* A worker that is not the one to step stays clear of what it moves and empties.
LEMMA StaysReleased ==
    ASSUME DriveTypes, NEW v \in Uploader, Released(v), call'[v] = call[v], AckedFalls
    PROVE  Released(v)'
<1>1. call[v].name \in Leaf
  BY CallFields DEF DriveCall
<1>2. acked[Stored(call[v].name)] = 0 => acked'[Stored(call[v].name)] = 0
  BY <1>1, KeyNames DEF AckedFalls
<1>3. \A n \in Leaf : acked[Trashed(n)] = 0 => acked'[Trashed(n)] = 0
  BY KeyNames DEF AckedFalls
<1> QED BY <1>2, <1>3 DEF Released

LEMMA CallKeepsNotes ==
    ASSUME DrimeCore, NotesHold, NEW u \in Uploader, WorkerOf(u)
    PROVE  NotesHold'
<1>1. /\ DriveTypes /\ NoteTypes /\ AllFound /\ CallsOrdered /\ NoCall.at = "idle" /\ call[u] \in DriveCall(ids) /\ ids \in Nat
      /\ call[u].name \in Leaf /\ CallShape(call[u]) /\ acked \in [FileKey -> 0..ids] /\ Released(u)
      /\ dirty \in Nat /\ saving.count \in Nat /\ saving.count <= dirty /\ saved \in [FileKey -> 0..ids] /\ details \in [FileKey -> 0..ids]
  BY CallFields, NoCallTyped DEF DrimeCore, DriveTypes, DriveCall, CallsOrdered, NoteTypes, NotesHold
<1>2. /\ Stored(call[u].name) \in FileKey /\ Trashed(call[u].name) \in FileKey
      /\ Stored(call[u].name).dir = "current" /\ Trashed(call[u].name).dir = "trash"
  BY <1>1, KeyNames
<1>3. session => session'
  BY CallKeepsShape DEF BeginCall
<1>4. \A v \in Uploader : v # u => call'[v] = call[v] /\ Released(v)
  BY <1>1, WorkerAlone DEF NotesHold
<1>5. AckedFalls => \A v \in Uploader : v # u => Released(v)'
  BY <1>1, <1>4, StaysReleased
<1>6. CallOver(u) => Released(u)'
  BY <1>1 DEF CallOver, Released
<1>7. \A s, a, f : Now(u, s, a, f) => call'[u].at = s /\ call'[u].name = call[u].name /\ call'[u].kind = call[u].kind
  BY DEF Now
<1>8. ASSUME NEW s \in {"idle", "source", "send", "look", "delete", "target", "carry", "replace"}, call'[u].at = s
      PROVE  Released(u)'
  BY <1>8 DEF Released
<1> USE DEF noteVars, ackVars
<1>9. CASE BeginCall(u) \/ Resolve(u) \/ ListFolder(u) \/ CreateFolder(u) \/ Send(u) \/ SendRelists(u)
  <2>1. NotesStill /\ UNCHANGED acked
    BY <1>9 DEF BeginCall, Resolve, ListFolder, CreateFolder, Send, SendRelists, NotesStill
  <2>2. Released(u)'
    <3>1. CASE BeginCall(u)
      <4>1. PICK kind \in {"put", "move", "empty"}, n \in Leaf :
               call'[u] = [kind |-> kind, name |-> n, at |-> "source", asks |-> "nothing", found |-> {}]
        BY <1>1, <3>1, BeginCalls
      <4> QED BY <1>8, <4>1
    <3>2. CASE Resolve(u) \/ ListFolder(u) \/ CreateFolder(u)
      <4>1. call[u].at \in {"source", "target"}
        BY <1>1, <3>2 DEF Resolve, ListFolder, CreateFolder, CallsOrdered, AsksOnce
      <4>2. GoesOn(u) \in {"send", "delete", "look", "carry"}
        BY <1>1, <4>1, GoesOnTo
      <4>3. (\E a, f : Now(u, GoesOn(u), a, f) \/ Now(u, call[u].at, a, f)) \/ CallOver(u)
        BY <1>1, <3>2, ResolveCalls, ListCalls, CreateCalls DEF AfterCreateFolder
      <4> QED BY <1>6, <1>7, <1>8, <4>1, <4>2, <4>3
    <3>3. CASE Send(u) \/ SendRelists(u)
      <4>1. (\E s \in {"replace", "source"} : \E a, f : Now(u, s, a, f)) \/ CallOver(u)
        <5>1. (\E f : Now(u, "replace", "nothing", f) \/ Now(u, "source", "nothing", f)) \/ CallOver(u)
          BY <1>1, <3>3, SendCalls, LastCalls DEF AfterSend
        <5> QED BY <5>1
      <4> QED BY <1>6, <1>7, <1>8, <4>1
    <3> QED BY <1>9, <3>1, <3>2, <3>3
  <2>3. AckedFalls
    BY <2>1 DEF AckedFalls
  <2> QED BY <1>3, <1>5, <2>1, <2>2, <2>3, NotesStay
<1>17. CASE FindCopy(u)
  <2>1. /\ UNCHANGED <<saved, dirty, saving, noted, session, acked>> /\ call[u].at = "look"
        /\ \/ details' = NotesHeld /\ loaded' = TRUE
           \/ UNCHANGED <<details, loaded>>
    BY <1>17 DEF FindCopy, At
  <2>2. session
    BY <1>1, <2>1 DEF CallsOrdered, Working
  <2>3. loaded' => Agrees(details)' /\ session'
    BY <2>1, <2>2 DEF NotesHold, NotesHeld, Agrees
  <2>4. (\E f : Now(u, "target", "nothing", f)) \/ CallOver(u)
    BY <1>1, <1>17, FindCalls DEF AfterFindCopy
  <2>5. Released(u)' /\ AckedFalls
    BY <1>6, <1>7, <1>8, <2>1, <2>4 DEF AckedFalls
  <2> QED BY <1>5, <2>1, <2>3, <2>5 DEF NotesHold, Agrees
<1>18. CASE FolderStays(u)
  <2>1. NotesStill /\ UNCHANGED acked /\ CallOver(u)
    BY <1>1, <1>18, StayCalls, LastCalls DEF NotesStill
  <2>2. AckedFalls
    BY <2>1 DEF AckedFalls
  <2> QED BY <1>3, <1>5, <1>6, <2>1, <2>2, NotesStay
<1>10. CASE Replace(u) \/ GiveTrashName(u)
  <2>1. NotesStill /\ UNCHANGED acked /\ call[u].at \in {"replace", "rename"}
    BY <1>10 DEF Replace, GiveTrashName, NotesStill, At
  <2>2. (\E f : Now(u, "note", "nothing", f)) \/ CallOver(u)
    BY <1>1, <1>10, ReplaceCalls, TrashNameCalls DEF AfterReplace, AfterGiveTrashName
  <2>3. call[u].at = "rename" \/ call[u].kind = "put"
    BY <1>1, <2>1 DEF CallShape
  <2>4. Released(u)'
    <3>1. CASE \E f : Now(u, "note", "nothing", f)
      <4>1. call'[u].at = "note" /\ call'[u].name = call[u].name /\ call'[u].kind = call[u].kind
        BY <1>7, <3>1
      <4> QED BY <1>1, <2>1, <2>3, <4>1 DEF Released
    <3> QED BY <1>6, <2>2, <3>1
  <2>5. AckedFalls
    BY <2>1 DEF AckedFalls
  <2> QED BY <1>3, <1>5, <2>1, <2>4, <2>5, NotesStay
<1>11. CASE Carry(u)
  <2>1. NotesStill /\ call[u].at = "carry" /\ AfterCarry(u)
    BY <1>1, <1>11, CarryCalls DEF Carry, NotesStill, At
  <2>2. acked' = acked \/ acked' = [acked EXCEPT ![Stored(call[u].name)] = 0]
    BY <2>1 DEF AfterCarry
  <2>3. AckedFalls
    BY <1>1, <2>2 DEF AckedFalls
  <2>4. Released(u)'
    <3>1. CASE acked' = [acked EXCEPT ![Stored(call[u].name)] = 0] /\ \E f : Now(u, "rename", "nothing", f)
      <4>1. call'[u].at = "rename" /\ call'[u].name = call[u].name
        BY <1>7, <3>1
      <4>2. acked'[Stored(call[u].name)] = 0
        BY <1>1, <1>2, <3>1
      <4> QED BY <4>1, <4>2 DEF Released
    <3> QED BY <1>6, <2>1, <3>1 DEF AfterCarry
  <2> QED BY <1>3, <1>5, <2>1, <2>3, <2>4, NotesStay
<1>12. CASE DeleteFolder(u) /\ Now(u, "wait", "nothing", call[u].found) /\ NotesStill
  <2>1. acked' = [k \in FileKey |-> IF k.dir = "trash" THEN 0 ELSE acked[k]]
    BY <1>12 DEF DeleteFolder
  <2>2. AckedFalls /\ \A n \in Leaf : acked'[Trashed(n)] = 0
    BY <2>1, KeyNames DEF AckedFalls
  <2>3. call'[u].at = "wait"
    BY <1>7, <1>12
  <2>4. Released(u)'
    BY <2>2, <2>3 DEF Released
  <2> QED BY <1>3, <1>5, <1>12, <2>2, <2>4, NotesStay
<1>13. CASE (DeleteFolder(u) \/ FolderGone(u)) /\ Emptied(u)
  <2>1. AckedFalls
    BY <1>13 DEF DeleteFolder, FolderGone, AckedFalls
  <2>2. /\ details' = [k \in FileKey |-> IF k.dir = "trash" /\ loaded THEN 0 ELSE details[k]]
        /\ dirty' = (IF details' = details THEN dirty ELSE dirty + 1)
        /\ noted' = [k \in FileKey |-> IF k.dir = "trash" THEN 0 ELSE noted[k]]
        /\ UNCHANGED <<saved, loaded, saving>> /\ CallOver(u)
    BY <1>1, <1>13, CallFields DEF DeleteFolder, FolderGone, Emptied
  <2>3. loaded => Agrees(details)'
    BY <2>2 DEF Agrees, NotesHold
  <2>4. dirty' = 0 => Agrees(saved)'
    <3>1. dirty' = 0 => dirty = 0
      BY <1>1, <2>2
    <3> QED BY <2>2, <3>1 DEF Agrees, NotesHold
  <2>5. ~loaded => dirty' = 0
    <3>1. ~loaded => details' = details
      BY <1>1, <2>2
    <3> QED BY <2>2, <3>1 DEF NotesHold
  <2>6. saving.on /\ saving.count > 0 /\ saving.count = dirty' => Agrees(saving.snap)'
    <3>1. saving.count = dirty' => saving.count = dirty
      BY <1>1, <2>2
    <3> QED BY <2>2, <3>1 DEF Agrees, NotesHold
  <2>8. \A v \in Uploader : Released(v)'
    BY <1>5, <1>6, <2>1, <2>2
  <2> QED BY <1>3, <2>2, <2>3, <2>4, <2>5, <2>6, <2>8 DEF NotesHold
<1>14. CASE Note(u)
  <2> DEFINE from == Stored(call[u].name)
  <2>1. call[u].at = "note" /\ CallOver(u) /\ UNCHANGED <<saved, saving, session>>
    BY <1>1, <1>14, LastCalls DEF Note, At
  <2>2. call[u] # NoCall /\ session /\ NoteKey(u) \in FileKey /\ from \in FileKey
    BY <1>1, <1>2, <2>1 DEF CallsOrdered, Working, NoteKey
  <2>3. CASE UNCHANGED <<details, loaded, dirty, noted, acked>>
    <3>1. NotesStill /\ AckedFalls
      BY <2>1, <2>3 DEF NotesStill, AckedFalls
    <3> QED BY <1>3, <1>5, <1>6, <2>1, <3>1, NotesStay
  <2> DEFINE NoteIs(i) ==
         /\ details' = [NotesHeld EXCEPT ![from] = 0, ![NoteKey(u)] = IF call[u].kind = "move" THEN NotesHeld[from] ELSE i]
         /\ noted' = [noted EXCEPT ![from] = 0, ![NoteKey(u)] = IF call[u].kind # "move" \/ noted[from] = i THEN i ELSE 0]
         /\ loaded' = TRUE /\ dirty' = dirty + 1 /\ acked' = [acked EXCEPT ![NoteKey(u)] = i]
  <2>4. CASE \E i \in 1..ids : NoteIs(i)
    <3>1. PICK i \in 1..ids : NoteIs(i)
      BY <2>4
    <3>2. Agrees(NotesHeld) /\ NotesHeld \in [FileKey -> 0..ids] /\ noted \in [FileKey -> 0..ids]
      BY <1>1 DEF NotesHold, NotesHeld, NoteTypes
    <3>3. NoteKey(u) # from => call[u].kind = "move"
      BY DEF NoteKey
    <3>7. call[u].kind = "move" => NoteKey(u) # from
      BY <1>2 DEF NoteKey
    <3>4. \A k \in FileKey : noted'[k] # 0 => details'[k] = noted'[k]
      <4> TAKE k \in FileKey
      <4> HAVE noted'[k] # 0
      <4>1. CASE k = NoteKey(u)
        <5>1. details'[k] = IF call[u].kind = "move" THEN NotesHeld[from] ELSE i
          BY <2>2, <3>1, <3>2, <4>1
        <5>2. noted'[k] = IF call[u].kind # "move" \/ noted[from] = i THEN i ELSE 0
          BY <2>2, <3>1, <3>2, <4>1
        <5> QED BY <2>2, <3>2, <5>1, <5>2 DEF Agrees
      <4>2. CASE k # NoteKey(u) /\ k = from
        BY <2>2, <3>1, <3>2, <4>2
      <4>3. CASE k # NoteKey(u) /\ k # from
        BY <2>2, <3>1, <3>2, <4>3 DEF Agrees
      <4> QED BY <4>1, <4>2, <4>3
    <3>8. Agrees(details)'
      BY <3>4 DEF Agrees
    <3>5. \A v \in Uploader : v # u => Released(v)'
      <4> TAKE v \in Uploader
      <4> HAVE v # u
      <4>1. CASE call[v] = NoCall
        BY <1>1, <1>4, <4>1 DEF Released
      <4>2. CASE call[v] # NoCall
        <5>1. call[v].name # call[u].name /\ call[v].at # "wait" /\ call[v].name \in Leaf
          BY <1>1, <2>1, <2>2, <4>2, EmptiesAlone, CallFields DEF CallsOrdered, Apart, Working, DriveCall
        <5>2. NoteKey(u) # Stored(call[v].name) /\ Stored(call[v].name) \in FileKey
          <6>1. NoteKey(u).name \in {Stored(call[u].name).name, Trashed(call[u].name).name}
            BY DEF NoteKey
          <6> QED BY <1>1, <5>1, <6>1, KeyNames
        <5>3. acked'[Stored(call[v].name)] = acked[Stored(call[v].name)]
          BY <1>1, <3>1, <5>2
        <5> QED BY <1>4, <5>1, <5>3 DEF Released
      <4> QED BY <4>1, <4>2
    <3>6. dirty' # 0 /\ saving.count # dirty'
      BY <1>1, <3>1
    <3> QED BY <1>6, <2>1, <2>2, <3>1, <3>5, <3>6, <3>8 DEF NotesHold
  <2>5. PICK e \in FileEntry(ids) : call[u].found = {e} /\ e = TheOne(u)
    BY <1>1, <2>1, TheFound
  <2>6. e.ver \in 1..ids
    BY <1>1 DEF FileEntry
  <2>7. NoteIs(e.ver) \/ UNCHANGED <<details, loaded, dirty, noted, acked>>
    BY <1>14, <2>5 DEF Note, TheOne, NoteKey
  <2> QED BY <2>3, <2>4, <2>6, <2>7
<1>15. ASSUME DeleteFolder(u) PROVE Emptied(u) \/ (Now(u, "wait", "nothing", call[u].found) /\ NotesStill)
  <2>1. CASE Emptied(u)
    BY <2>1
  <2>2. CASE To(u, "wait") /\ UNCHANGED noteVars
    <3>1. call[u].asks = "nothing"
      BY <1>15 DEF DeleteFolder, At
    <3>2. Now(u, "wait", "nothing", call[u].found)
      BY <1>1, <2>2, <3>1, CallFields
    <3>3. UNCHANGED saved
      BY <1>15 DEF DeleteFolder
    <3> QED BY <2>2, <3>2, <3>3 DEF NotesStill
  <2> QED BY <1>15, <2>1, <2>2 DEF DeleteFolder
<1>16. FolderGone(u) => Emptied(u)
  BY DEF FolderGone
<1> QED BY <1>9, <1>10, <1>11, <1>12, <1>13, <1>14, <1>15, <1>16, <1>17, <1>18 DEF WorkerOf

LEMMA OthersKeepNotes ==
    ASSUME DrimeCore, NotesHold, WorldOfDrime
    PROVE  NotesHold'
<1>1. /\ DriveTypes /\ NoteTypes /\ CallsOrdered /\ NoCall.at = "idle" /\ UNCHANGED call
      /\ dirty \in Nat /\ saving.count \in Nat /\ saving.count <= dirty
  BY NoCallTyped DEF DrimeCore, DriveTypes, NoteTypes, WorldOfDrime, DriveDeletes, SaveNotes, NotesSaved, OtherRun
<1> USE DEF noteVars, ackVars
<1>2. UNCHANGED acked => \A v \in Uploader : Released(v)'
  BY <1>1 DEF NotesHold, Released
<1>3. CASE DriveDeletes
  <2>1. NotesStill /\ UNCHANGED <<acked, session>>
    BY <1>3 DEF DriveDeletes, NotesStill
  <2> QED BY <1>2, <2>1, NotesStay
<1>4. CASE SaveNotes
  <2>1. UNCHANGED <<saved, details, loaded, dirty, noted, session, acked>>
    BY <1>4 DEF SaveNotes
  <2>2. saving'.snap = details /\ saving'.count = dirty
    BY <1>4 DEF SaveNotes
  <2>3. dirty > 0 => Agrees(details)
    BY <1>1 DEF NotesHold
  <2> QED BY <1>1, <1>2, <2>1, <2>2, <2>3 DEF NotesHold, Agrees
<1>5. CASE NotesSaved
  <2>1. UNCHANGED <<noted, acked>> /\ saving' = NotSaving /\ saving.on
    BY <1>5 DEF NotesSaved
  <2>2. /\ loaded' => loaded /\ UNCHANGED <<details, session>>
        /\ ~loaded' => ~loaded \/ dirty' = 0
    BY <1>5 DEF NotesSaved
  <2>3. CASE /\ saved' = (IF saving.count = 0 THEN saved ELSE saving.snap) /\ dirty' = dirty - saving.count
    <3>1. dirty' = 0 => dirty = saving.count
      BY <1>1, <2>3
    <3>2. dirty' = 0 => Agrees(saved')
      BY <1>1, <2>1, <2>3, <3>1 DEF NotesHold
    <3>3. dirty = 0 => dirty' = 0
      BY <1>1, <2>3
    <3>4. dirty' = 0 => Agrees(saved)'
      BY <2>1, <3>2 DEF Agrees
    <3> QED BY <1>2, <2>1, <2>2, <3>3, <3>4 DEF NotesHold, Agrees, NotSaving
  <2>4. CASE saving.count > 0 /\ UNCHANGED dirty
    <3>1. dirty # 0
      BY <1>1, <2>4
    <3> QED BY <1>2, <2>1, <2>2, <2>4, <3>1 DEF NotesHold, Agrees, NotSaving
  <2> QED BY <1>5, <2>3, <2>4 DEF NotesSaved, LeftDirty
<1>6. CASE \E n \in Leaf : OtherRun(n)
  <2>1. PICK n \in Leaf : OtherRun(n)
    BY <1>6
  <2>2. /\ saved' = [saved EXCEPT ![Stored(n)] = ids'] /\ acked' = [acked EXCEPT ![Stored(n)] = ids']
        /\ noted' = [noted EXCEPT ![Stored(n)] = ids']
        /\ ~session /\ UNCHANGED <<details, loaded, dirty, saving, session>>
    <3>1. PICK e : \E f \in FirstFolder("current") :
             /\ saved' = [saved EXCEPT ![Stored(n)] = ids'] /\ acked' = [acked EXCEPT ![Stored(n)] = ids']
        /\ noted' = [noted EXCEPT ![Stored(n)] = ids']
             /\ ~session /\ UNCHANGED <<details, loaded, dirty, saving, session>>
      BY <1>1, <2>1, OtherWrites
    <3> QED BY <3>1
  <2>3. ~loaded /\ dirty = 0 /\ saving.count = 0
    BY <1>1, <2>2 DEF NotesHold
  <2>4. Agrees(saved)'
    BY <1>1, <2>2, <2>3 DEF NotesHold, Agrees, NoteTypes
  <2>5. \A v \in Uploader : Released(v)'
    BY <1>1, <2>2 DEF Released, CallsOrdered, Working
  <2> QED BY <2>2, <2>3, <2>4, <2>5 DEF NotesHold
<1> QED BY <1>3, <1>4, <1>5, <1>6 DEF WorldOfDrime

\* While nothing is left to save, the manifest in the drive has the details each
\* key was promised, whichever saves failed or were overtaken: those of the
\* version whose Put last returned there, or of that version where a move took
\* it. A version whose Put did not return is promised none when it is moved.
THEOREM NotesAreSaved == DrimeSpec => []DetailsAreSaved
<1>1. DrimeInit => NotesHold
  BY DrimeStarts
<1>2. DrimeCore /\ NotesHold /\ [DrimeNext]_drimeVars => NotesHold'
  <2> SUFFICES ASSUME DrimeCore, NotesHold, [DrimeNext]_drimeVars PROVE NotesHold'
    OBVIOUS
  <2> QED BY CallKeepsNotes, OthersKeepNotes, DrimeUnmoved DEF DrimeNext, WorldOfDrime
<1>3. NotesHold => DetailsAreSaved
  BY DEF NotesHold, DetailsAreSaved, Agrees
<1> QED BY <1>1, <1>2, <1>3, DrimeHolds, PTL DEF DrimeSpec

(***************************************************************************)
(* What is acknowledged is there, while no folder is made unheard.         *)
(***************************************************************************)
LEMMA CallKeepsSole ==
    ASSUME DrimeCore, SoleFolders, ~LostFolders, NEW u \in Uploader, WorkerOf(u)
    PROVE  SoleFolders'
<1>1. /\ DriveTypes /\ FoldersHeld /\ CallsOrdered /\ ids \in Nat /\ folders \subseteq [id : 1..ids, dir : Dir]
      /\ known \in [Dir -> 0..ids] /\ Needs(u) \in Dir /\ {"current", "trash"} \subseteq Dir
  BY DEF DrimeCore, DriveTypes, Dir, Needs
<1> USE DEF driveVars, treeVars
<1>2. CASE CreateFolder(u)
  <2>1. AfterCreateFolder(u) /\ known[Needs(u)] = 0
    BY <1>1, <1>2, CreateCalls DEF CreateFolder, CallsOrdered, AsksOnce
  <2>2. \A f \in folders : f.dir # Needs(u)
    BY <1>1, <2>1 DEF SoleFolders
  <2>3. CASE ids' = ids + 1 /\ known' = [known EXCEPT ![Needs(u)] = ids']
    <3>1. folders' = folders \cup {[id |-> ids', dir |-> Needs(u)]}
      <4>1. ids + 1 .. ids' = {ids'}
        BY <1>1, <2>3
      <4> QED BY <2>1, <4>1 DEF AfterCreateFolder
    <3> QED BY <1>1, <2>2, <2>3, <3>1 DEF SoleFolders
  <2>4. CASE ids' = ids /\ UNCHANGED known
    <3>1. folders' = folders
      <4>1. ids + 1 .. ids' = {}
        BY <1>1, <2>4
      <4> QED BY <2>1, <4>1 DEF AfterCreateFolder
    <3> QED BY <2>4, <3>1 DEF SoleFolders
  <2> QED BY <2>1, <2>3, <2>4 DEF AfterCreateFolder
<1>3. CASE DeleteFolder(u)
  <2>1. \/ Vanishing(known["trash"]) /\ known' = [known EXCEPT !["trash"] = 0]
        \/ UNCHANGED <<folders, known>>
    BY <1>3 DEF DeleteFolder, Emptied, TrashGone
  <2> QED BY <1>1, <2>1 DEF Vanishing, SoleFolders
<1>4. CASE FolderGone(u)
  <2>1. known' = [known EXCEPT !["trash"] = 0] /\ UNCHANGED folders
    BY <1>4 DEF FolderGone, Emptied, TrashGone
  <2>2. \A f \in folders : f.id # known["trash"]
    BY <1>1, <1>4, NoFirstNone DEF FolderGone, At, FoldersHeld, FolderAt
  <2>3. \A f \in folders : f.dir # "trash"
    BY <2>2 DEF SoleFolders
  <2> QED BY <1>1, <2>1, <2>3 DEF SoleFolders
<1>6. CASE FolderStays(u)
  <2>1. PICK f \in FirstFolder("trash") : known' = [known EXCEPT !["trash"] = f.id]
    BY <1>6, StayCalls
  <2>2. f.id = known["trash"] /\ UNCHANGED folders
    BY <1>6, StayCalls DEF FirstFolder, SoleFolders
  <2> QED BY <1>1, <2>1, <2>2 DEF SoleFolders
<1>5. CASE ~CreateFolder(u) /\ ~DeleteFolder(u) /\ ~FolderGone(u) /\ ~FolderStays(u)
  <2>1. UNCHANGED <<folders, known>>
    BY <1>5 DEF WorkerOf, BeginCall, Resolve, ListFolder, Send, SendRelists, Replace, FindCopy, Carry, GiveTrashName, Note
  <2> QED BY <2>1 DEF SoleFolders
<1> QED BY <1>2, <1>3, <1>4, <1>5, <1>6

LEMMA OthersKeepSole ==
    ASSUME SoleFolders, WorldOfDrime
    PROVE  SoleFolders'
<1>1. UNCHANGED known /\ folders' \subseteq folders
  BY DEF WorldOfDrime, DriveDeletes, SaveNotes, NotesSaved, OtherRun, Vanishing, driveVars, treeVars
<1> QED BY <1>1 DEF SoleFolders

\* A step that takes no entry away and acknowledges nothing.
LEMMA AckedLast ==
    ASSUME DriveTypes, AckedHeld, KnownStay, AckedFalls, entries \subseteq entries', owed' \subseteq owed,
           UNCHANGED dying, entries' = entries \/ dying = {}
    PROVE  AckedHeld'
<1>1. known \in [Dir -> 0..ids] /\ entries \subseteq FileEntry(ids)
  BY DEF DriveTypes
<1>2. \A e \in entries, d \in Dir : e.fid = known[d] => known'[d] = known[d]
  BY <1>1 DEF FileEntry, KnownStay
<1>3. \A k \in FileKey : acked'[k] # 0 => HeldAt(k)'
  <2> TAKE k \in FileKey
  <2> HAVE acked'[k] # 0
  <2>1. acked'[k] = acked[k] /\ acked[k] # 0 /\ k.dir \in Dir
    BY KeyNames DEF AckedFalls
  <2>2. PICK e \in entries : e.fid = known[k.dir] /\ e.name = k.name /\ e.ver >= acked[k]
    BY <2>1 DEF AckedHeld, HeldAt
  <2>3. e \in entries' /\ e.fid = known'[k.dir]
    BY <1>2, <2>1, <2>2
  <2> QED BY <2>1, <2>2, <2>3 DEF HeldAt
<1>4. owed' \subseteq {e.ver : e \in entries'} /\ \A e \in entries' : e.fid \in dying' => e.ver \notin owed'
  BY DEF AckedHeld
<1> QED BY <1>3, <1>4 DEF AckedHeld

LEMMA CallKeepsAcked ==
    ASSUME DrimeCore, NotesHold, SoleFolders, AckedHeld, NEW u \in Uploader, WorkerOf(u)
    PROVE  AckedHeld'
<1>1. /\ DriveTypes /\ NoteTypes /\ AllFound /\ CallsOrdered /\ FoldersHeld /\ IdsTell /\ NoCall.at = "idle" /\ ids \in Nat
      /\ call[u] \in DriveCall(ids) /\ call[u].name \in Leaf /\ acked \in [FileKey -> 0..ids]
      /\ known \in [Dir -> 0..ids] /\ Needs(u) \in Dir /\ {"current", "trash"} \subseteq Dir /\ entries \subseteq FileEntry(ids)
  BY CallFields, NoCallTyped DEF DrimeCore, DriveTypes, DriveCall, NoteTypes, Dir, Needs
<1>2. /\ Stored(call[u].name) \in FileKey /\ Stored(call[u].name).dir = "current"
      /\ \A k \in FileKey : k.name = Stored(call[u].name).name => k = Stored(call[u].name)
  BY <1>1, KeyNames
<1>3. call[u] # NoCall /\ call[u].at # "wait" => dying = {}
  BY EmptiesAlone
<1>4. ASSUME call[u].at \in {"delete", "rename"}
      PROVE  known["trash"] # 0 => known["current"] # known["trash"] /\ \A e \in entries : e.fid = known["current"] => e.fid # known["trash"]
  <2>1. \A v \in Uploader : call[v].at # "wait"
    BY <1>1, <1>4, EmptiesAlone
  <2>2. known["trash"] # 0 => FolderAt("trash") \in folders
    BY <1>1, <2>1 DEF FoldersHeld
  <2> QED BY <2>2, TrashApart
<1> USE DEF driveVars, treeVars, ackVars
<1>5. CASE BeginCall(u) \/ Resolve(u) \/ ListFolder(u) \/ SendRelists(u) \/ FindCopy(u)
  <2>1. UNCHANGED <<entries, known, acked, owed, dying>>
    BY <1>5 DEF BeginCall, Resolve, ListFolder, SendRelists, FindCopy
  <2> QED BY <1>1, <2>1, AckedLast DEF KnownStay, AckedFalls
<1>6. CASE CreateFolder(u)
  <2>1. AfterCreateFolder(u) /\ known[Needs(u)] = 0 /\ UNCHANGED <<entries, acked, owed, dying>>
    BY <1>1, <1>6, CreateCalls DEF CreateFolder, CallsOrdered, AsksOnce
  <2>2. KnownStay
    BY <1>1, <2>1 DEF AfterCreateFolder, KnownStay
  <2> QED BY <1>1, <2>1, <2>2, AckedLast DEF AckedFalls
<1>7. CASE Send(u)
  <2>1. AfterSend(u) /\ UNCHANGED <<known, acked, owed, dying>> /\ call[u].at = "send"
    BY <1>1, <1>7, SendCalls DEF Send, At
  <2>2. entries \subseteq entries' /\ dying = {}
    BY <1>1, <1>3, <2>1 DEF AfterSend
  <2> QED BY <1>1, <2>1, <2>2, AckedLast DEF KnownStay, AckedFalls
<1>8. CASE Replace(u)
  <2>1. AfterReplace(u) /\ UNCHANGED <<known, acked, dying>> /\ call[u].at = "replace"
    BY <1>1, <1>8, ReplaceCalls DEF Replace, At
  <2>2. PICK e \in entries : /\ Newest(call[u].found) = {e} /\ e.fid = known["current"] /\ e \in call[u].found
                             /\ \A x \in call[u].found : x.name = Stored(call[u].name).name /\ (x # e => x.id < e.id)
    BY <1>1, <2>1, TheFound
  <2>3. /\ owed' = owed \ {x.ver : x \in call[u].found \ {e}} /\ entries' \subseteq entries /\ e \in entries'
        /\ \A x \in entries : x \notin call[u].found => x \in entries'
    BY <2>1, <2>2 DEF AfterReplace, Deleted
  <2>4. \A x \in call[u].found : x.ver <= e.ver
    <3>1. call[u].found \subseteq Seen /\ call[u].found \subseteq FileEntry(ids)
      BY <1>1, SeenTyped
    <3>2. \A x \in call[u].found : x.id <= e.id
      BY <2>2, <3>1 DEF FileEntry
    <3> QED BY <1>1, <2>2, <3>1, <3>2 DEF IdsTell
  <2>5. \A k \in FileKey : acked'[k] # 0 => HeldAt(k)'
    <3> TAKE k \in FileKey
    <3> HAVE acked'[k] # 0
    <3>1. PICK x \in entries : x.fid = known[k.dir] /\ x.name = k.name /\ x.ver >= acked[k]
      BY <2>1 DEF AckedHeld, HeldAt
    <3>2. CASE x \in entries'
      BY <2>1, <3>1, <3>2 DEF HeldAt
    <3>3. CASE x \notin entries'
      <4>1. x \in call[u].found /\ k = Stored(call[u].name) /\ x.ver <= e.ver
        BY <1>2, <2>2, <2>3, <2>4, <3>1, <3>3
      <4>2. e.ver >= acked[k]
        <5>1. x.ver \in Nat /\ e.ver \in Nat /\ acked[k] \in Nat
          BY <1>1 DEF FileEntry
        <5> QED BY <3>1, <4>1, <5>1
      <4>3. e.name = k.name /\ e.fid = known[k.dir]
        BY <1>2, <2>2, <4>1
      <4> QED BY <2>1, <2>3, <4>2, <4>3 DEF HeldAt
    <3> QED BY <3>2, <3>3
  <2>6. dying = {}
    BY <1>1, <1>3, <2>1
  <2>7. owed' \subseteq {x.ver : x \in entries'}
    <3> SUFFICES ASSUME NEW n \in owed' PROVE \E x \in entries' : x.ver = n
      OBVIOUS
    <3>1. PICK x \in entries : x.ver = n
      BY <2>3 DEF AckedHeld
    <3>2. x = e \/ x \notin call[u].found
      BY <2>3, <3>1
    <3> QED BY <2>3, <3>1, <3>2
  <2> QED BY <2>1, <2>5, <2>6, <2>7 DEF AckedHeld
<1>9. CASE Carry(u)
  <2>1. AfterCarry(u) /\ UNCHANGED <<known, dying>> /\ call[u].at = "carry"
    BY <1>1, <1>9, CarryCalls DEF Carry, At
  <2>2. PICK e \in FileEntry(ids) : call[u].found = {e} /\ e = TheOne(u)
    BY <1>1, <2>1, TheFound
  <2>3. e.name = Stored(call[u].name).name
    BY <1>1, <2>1, <2>2 DEF AllFound, FoundRight
  <2>4. dying = {} /\ UNCHANGED owed
    BY <1>1, <1>3, <2>1 DEF AfterCarry
  <2>5. acked' = acked \/ acked' = [acked EXCEPT ![Stored(call[u].name)] = 0]
    BY <2>1 DEF AfterCarry
  <2>6. CASE UNCHANGED entries
    BY <1>1, <2>1, <2>4, <2>5, <2>6, AckedLast DEF KnownStay, AckedFalls
  <2>7. CASE /\ entries' = (entries \ {e}) \cup {InTrash(e)} /\ acked' = [acked EXCEPT ![Stored(call[u].name)] = 0]
    <3>1. PICK t : t = InTrash(e)
      OBVIOUS
    <3>2. t.ver = e.ver /\ entries' = (entries \ {e}) \cup {t}
      BY <2>7, <3>1 DEF InTrash, FileEntry
    <3>3. \A k \in FileKey : acked'[k] # 0 => HeldAt(k)'
      <4> TAKE k \in FileKey
      <4> HAVE acked'[k] # 0
      <4>1. k # Stored(call[u].name) /\ acked'[k] = acked[k]
        BY <1>1, <1>2, <2>7
      <4>2. PICK x \in entries : x.fid = known[k.dir] /\ x.name = k.name /\ x.ver >= acked[k]
        BY <4>1 DEF AckedHeld, HeldAt
      <4>3. x \in entries'
        BY <1>2, <2>3, <3>2, <4>1, <4>2
      <4> QED BY <2>1, <4>1, <4>2, <4>3 DEF HeldAt
    <3>4. owed' \subseteq {x.ver : x \in entries'}
      BY <2>4, <3>2 DEF AckedHeld
    <3> QED BY <2>1, <2>4, <3>3, <3>4 DEF AckedHeld
  <2> QED BY <2>1, <2>2, <2>6, <2>7 DEF AfterCarry
<1>10. CASE GiveTrashName(u)
  <2>1. AfterGiveTrashName(u) /\ UNCHANGED <<known, dying, acked, owed>> /\ call[u].at = "rename"
    BY <1>1, <1>10, TrashNameCalls DEF GiveTrashName, At
  <2>2. PICK e \in FileEntry(ids) : call[u].found = {e} /\ e = TheOne(u)
    BY <1>1, <2>1, TheFound
  <2>3. e.name = Stored(call[u].name).name /\ e \in entries /\ e.fid = known["trash"]
    BY <1>1, <2>1, <2>2 DEF AllFound, FoundRight, AtKey
  <2>4. dying = {} /\ e.fid # known["current"]
    BY <1>1, <1>3, <1>4, <2>1, <2>3 DEF FileEntry
  <2>5. CASE UNCHANGED entries
    BY <1>1, <2>1, <2>5, AckedLast DEF KnownStay, AckedFalls
  <2>6. CASE entries' = (entries \ {e}) \cup {TrashNamed(u, e)}
    <3>1. PICK t : t = TrashNamed(u, e)
      OBVIOUS
    <3>2. t.ver = e.ver /\ entries' = (entries \ {e}) \cup {t}
      BY <2>6, <3>1 DEF TrashNamed, FileEntry
    <3>3. \A k \in FileKey : acked'[k] # 0 => HeldAt(k)'
      <4> TAKE k \in FileKey
      <4> HAVE acked'[k] # 0
      <4>1. PICK x \in entries : x.fid = known[k.dir] /\ x.name = k.name /\ x.ver >= acked[k]
        BY <2>1 DEF AckedHeld, HeldAt
      <4>2. x \in entries'
        BY <1>2, <2>3, <2>4, <3>2, <4>1
      <4> QED BY <2>1, <4>1, <4>2 DEF HeldAt
    <3>4. owed' \subseteq {x.ver : x \in entries'}
      BY <2>1, <3>2 DEF AckedHeld
    <3> QED BY <2>1, <2>4, <3>3, <3>4 DEF AckedHeld
  <2> QED BY <2>1, <2>2, <2>5, <2>6 DEF AfterGiveTrashName
<1>11. CASE DeleteFolder(u)
  <2>1. /\ call[u].at = "delete" /\ acked' = [k \in FileKey |-> IF k.dir = "trash" THEN 0 ELSE acked[k]]
        /\ owed' = owed \ {e.ver : e \in In(known["trash"])}
    BY <1>11 DEF DeleteFolder, At
  <2>2. dying = {} /\ known["trash"] # 0
    BY <1>1, <1>3, <2>1 DEF FoldersHeld
  <2>3. known["current"] # known["trash"]
    BY <1>4, <2>1, <2>2
  <2>4. \A e \in entries : e.fid = known["trash"] => e.ver \notin owed'
    BY <2>1 DEF In
  <2>5. CASE Vanishing(known["trash"]) /\ known' = [known EXCEPT !["trash"] = 0] /\ UNCHANGED dying
    <3>1. \A k \in FileKey : acked'[k] # 0 => HeldAt(k)'
      <4> TAKE k \in FileKey
      <4> HAVE acked'[k] # 0
      <4>1. k.dir = "current" /\ acked'[k] = acked[k]
        BY <2>1, KeyNames DEF Dir
      <4>2. PICK x \in entries : x.fid = known[k.dir] /\ x.name = k.name /\ x.ver >= acked[k]
        BY <4>1 DEF AckedHeld, HeldAt
      <4>3. x \in entries' /\ known'[k.dir] = known[k.dir]
        BY <1>1, <2>3, <2>5, <4>1, <4>2 DEF Vanishing
      <4> QED BY <4>1, <4>2, <4>3 DEF HeldAt
    <3>2. owed' \subseteq {x.ver : x \in entries'}
      <4> SUFFICES ASSUME NEW n \in owed' PROVE \E x \in entries' : x.ver = n
        OBVIOUS
      <4>1. PICK x \in entries : x.ver = n
        BY <2>1 DEF AckedHeld
      <4> QED BY <2>4, <2>5, <4>1 DEF Vanishing
    <3> QED BY <2>2, <2>5, <3>1, <3>2 DEF AckedHeld
  <2>6. CASE dying' = dying \cup {known["trash"]} /\ UNCHANGED <<entries, known>>
    <3>1. \A k \in FileKey : acked'[k] # 0 => HeldAt(k)'
      <4> TAKE k \in FileKey
      <4> HAVE acked'[k] # 0
      <4>1. acked'[k] = acked[k]
        BY <2>1
      <4>2. PICK x \in entries : x.fid = known[k.dir] /\ x.name = k.name /\ x.ver >= acked[k]
        BY <4>1 DEF AckedHeld, HeldAt
      <4> QED BY <2>6, <4>1, <4>2 DEF HeldAt
    <3>2. owed' \subseteq {x.ver : x \in entries'} /\ \A e \in entries' : e.fid \in dying' => e.ver \notin owed'
      BY <2>1, <2>2, <2>4, <2>6 DEF AckedHeld
    <3> QED BY <3>1, <3>2 DEF AckedHeld
  <2> QED BY <1>11, <2>5, <2>6 DEF DeleteFolder, Emptied, TrashGone
<1>12. CASE FolderGone(u)
  <2>1. /\ call[u].at = "wait" /\ dying = {} /\ UNCHANGED <<entries, dying, acked, owed>>
        /\ known' = [known EXCEPT !["trash"] = 0]
    <3>1. \A f \in folders : f.dir # "trash"
      BY <1>1, <1>12, NoFirstNone DEF FolderGone
    <3>2. dying = {}
      BY <1>1, <3>1 DEF FoldersHeld, FolderAt
    <3> QED BY <1>12, <3>2 DEF FolderGone, At, Emptied, TrashGone
  <2>2. \A e \in entries : e.fid # known["trash"]
    BY <1>1, <2>1 DEF FoldersHeld
  <2>3. \A k \in FileKey : acked'[k] # 0 => HeldAt(k)'
    <3> TAKE k \in FileKey
    <3> HAVE acked'[k] # 0
    <3>1. PICK x \in entries : x.fid = known[k.dir] /\ x.name = k.name /\ x.ver >= acked[k]
      BY <2>1 DEF AckedHeld, HeldAt
    <3>2. k.dir \in Dir /\ k.dir # "trash"
      BY <2>2, <3>1, KeyNames
    <3>3. known'[k.dir] = known[k.dir]
      BY <1>1, <2>1, <3>2
    <3> QED BY <2>1, <3>1, <3>3 DEF HeldAt
  <2> QED BY <2>1, <2>3 DEF AckedHeld
<1>13. CASE Note(u)
  <2>1. call[u].at = "note" /\ UNCHANGED <<entries, known, dying>>
    BY <1>13 DEF Note, At
  <2>2. PICK e \in FileEntry(ids) : call[u].found = {e} /\ e = TheOne(u)
    BY <1>1, <2>1, TheFound
  <2>3. e \in entries /\ e.fid = known[NoteKey(u).dir] /\ e.name = NoteKey(u).name
    BY <1>1, <2>1, <2>2 DEF AllFound, FoundRight, AtKey
  <2>4. dying = {} /\ e.ver \in Nat
    BY <1>1, <1>3, <2>1 DEF FileEntry
  <2>5. CASE UNCHANGED <<acked, owed>>
    BY <1>1, <2>1, <2>5, AckedLast DEF KnownStay, AckedFalls
  <2>6. CASE acked' = [acked EXCEPT ![NoteKey(u)] = e.ver] /\ owed' = owed \cup {e.ver}
    <3>1. \A k \in FileKey : acked'[k] # 0 => HeldAt(k)'
      <4> TAKE k \in FileKey
      <4> HAVE acked'[k] # 0
      <4>1. CASE k = NoteKey(u)
        <5>1. acked'[k] = e.ver /\ e.ver >= e.ver
          BY <1>1, <2>4, <2>6, <4>1
        <5> QED BY <2>1, <2>3, <4>1, <5>1 DEF HeldAt
      <4>2. CASE k # NoteKey(u)
        <5>1. acked'[k] = acked[k]
          BY <1>1, <2>6, <4>2
        <5> QED BY <2>1, <5>1 DEF AckedHeld, HeldAt
      <4> QED BY <4>1, <4>2
    <3>2. owed' \subseteq {x.ver : x \in entries'}
      BY <2>1, <2>3, <2>6 DEF AckedHeld
    <3> QED BY <2>1, <2>4, <3>1, <3>2 DEF AckedHeld
  <2>7. \/ acked' = [acked EXCEPT ![NoteKey(u)] = e.ver] /\ owed' = owed \cup {e.ver}
        \/ UNCHANGED <<acked, owed>>
    BY <1>13, <2>2 DEF Note, TheOne, NoteKey
  <2> QED BY <2>5, <2>6, <2>7
<1>14. CASE FolderStays(u)
  <2>1. PICK f \in FirstFolder("trash"), gone \in SUBSET entries :
           /\ \A e \in gone : e.fid \in dying
           /\ entries' = entries \ gone /\ known' = [known EXCEPT !["trash"] = f.id]
    BY <1>14, StayCalls
  <2>2. call[u].at = "wait" /\ dying' = {} /\ UNCHANGED <<acked, owed>>
    BY <1>14, StayCalls
  <2>3. f \in folders /\ f.dir = "trash" /\ f.id = known["trash"] /\ known' = known
    BY <1>1, <2>1 DEF FirstFolder, SoleFolders
  <2>4. \A n \in Leaf : acked[Trashed(n)] = 0
    BY <2>2 DEF NotesHold, Released
  <2>5. \A k \in FileKey : acked[k] # 0 => k.dir = "current"
    BY <2>4, KeyNames DEF FileKey
  <2>6. \A i \in dying : i = known["trash"]
    BY <1>1 DEF FoldersHeld
  <2>7. known["trash"] # 0 /\ FolderAt("trash") = f
    <3>1. f \in [id : 1..ids, dir : Dir]
      BY <1>1, <2>3 DEF DriveTypes
    <3> QED BY <1>1, <2>3, <3>1 DEF FolderAt
  <2>8. known["current"] # known["trash"]
    BY <2>3, <2>7, TrashApart
  <2>9. \A k \in FileKey : acked'[k] # 0 => HeldAt(k)'
    <3> TAKE k \in FileKey
    <3> HAVE acked'[k] # 0
    <3>1. acked[k] # 0 /\ k.dir = "current"
      BY <2>2, <2>5
    <3>2. PICK x \in entries : x.fid = known[k.dir] /\ x.name = k.name /\ x.ver >= acked[k]
      BY <3>1 DEF AckedHeld, HeldAt
    <3>3. x \in entries'
      BY <2>1, <2>6, <2>8, <3>1, <3>2
    <3> QED BY <2>2, <2>3, <3>2, <3>3 DEF HeldAt
  <2>10. owed' \subseteq {x.ver : x \in entries'}
    <3> SUFFICES ASSUME NEW n \in owed' PROVE \E x \in entries' : x.ver = n
      OBVIOUS
    <3>1. PICK x \in entries : x.ver = n
      BY <2>2 DEF AckedHeld
    <3>2. x \notin gone
      BY <2>1, <2>2, <3>1 DEF AckedHeld
    <3> QED BY <2>1, <3>1, <3>2
  <2> QED BY <2>2, <2>9, <2>10 DEF AckedHeld
<1> QED BY <1>5, <1>6, <1>7, <1>8, <1>9, <1>10, <1>11, <1>12, <1>13, <1>14 DEF WorkerOf

LEMMA OthersKeepAcked ==
    ASSUME DrimeCore, NotesHold, SoleFolders, AckedHeld, WorldOfDrime
    PROVE  AckedHeld'
<1>1. /\ DriveTypes /\ NoteTypes /\ CallsOrdered /\ FoldersHeld /\ NoCall.at = "idle" /\ UNCHANGED <<call, known>> /\ ids \in Nat
      /\ acked \in [FileKey -> 0..ids]
  BY NoCallTyped DEF DrimeCore, DriveTypes, NoteTypes, WorldOfDrime, DriveDeletes, SaveNotes, NotesSaved, OtherRun, treeVars
<1> USE DEF ackVars, driveVars
<1>2. CASE SaveNotes \/ NotesSaved
  <2>1. UNCHANGED <<entries, dying, acked, owed>>
    BY <1>2 DEF SaveNotes, NotesSaved
  <2> QED BY <1>1, <2>1, AckedLast DEF KnownStay, AckedFalls
<1>3. CASE DriveDeletes
  <2>1. PICK i \in dying : Vanishing(i) /\ dying' = dying \ {i} /\ UNCHANGED <<acked, owed>>
    BY <1>3 DEF DriveDeletes
  <2>2. i = known["trash"] /\ FolderAt("trash") \in folders /\ \E u \in Uploader : call[u].at = "wait"
    BY <1>1 DEF FoldersHeld
  <2>3. known["trash"] # 0
    BY <1>1, <2>2 DEF FoldersHeld
  <2>4. known["current"] # known["trash"]
    BY <2>2, <2>3, TrashApart
  <2>5. \A n \in Leaf : acked[Trashed(n)] = 0
    BY <2>2 DEF NotesHold, Released
  <2>6. \A k \in FileKey : acked'[k] # 0 => HeldAt(k)'
    <3> TAKE k \in FileKey
    <3> HAVE acked'[k] # 0
    <3>1. PICK x \in entries : x.fid = known[k.dir] /\ x.name = k.name /\ x.ver >= acked[k]
      BY <2>1 DEF AckedHeld, HeldAt
    <3>2. k.dir = "current"
      <4>1. \A n \in Leaf : k # Trashed(n)
        BY <2>1, <2>5
      <4> QED BY <4>1, KeyNames DEF FileKey
    <3>3. x \in entries'
      BY <2>1, <2>2, <2>4, <3>1, <3>2 DEF Vanishing
    <3> QED BY <1>1, <2>1, <3>1, <3>3 DEF HeldAt
  <2>7. owed' \subseteq {x.ver : x \in entries'}
    <3> SUFFICES ASSUME NEW n \in owed' PROVE \E x \in entries' : x.ver = n
      OBVIOUS
    <3>1. PICK x \in entries : x.ver = n
      BY <2>1 DEF AckedHeld
    <3>2. x.fid # i
      BY <2>1, <3>1 DEF AckedHeld
    <3> QED BY <2>1, <3>1, <3>2 DEF Vanishing
  <2>8. \A e \in entries' : e.fid \in dying' => e.ver \notin owed'
    BY <2>1 DEF AckedHeld, Vanishing
  <2> QED BY <2>6, <2>7, <2>8 DEF AckedHeld
<1>4. CASE \E n \in Leaf : OtherRun(n)
  <2>1. PICK n \in Leaf : OtherRun(n)
    BY <1>4
  <2>2. PICK e : \E f \in FirstFolder("current") :
             /\ e = [id |-> ids + 1, fid |-> f.id, name |-> Stored(n).name, ver |-> ids + 1]
             /\ entries' = (entries \ Named(In(f.id), Stored(n))) \cup {e}
             /\ ids' = ids + 1 /\ acked' = [acked EXCEPT ![Stored(n)] = ids']
             /\ owed' = (owed \ {x.ver : x \in entries \ entries'}) \cup {ids'}
             /\ ~session /\ UNCHANGED dying
    BY <1>1, <2>1, OtherWrites
  <2>3. PICK f \in FirstFolder("current") :
             /\ e = [id |-> ids + 1, fid |-> f.id, name |-> Stored(n).name, ver |-> ids + 1]
             /\ entries' = (entries \ Named(In(f.id), Stored(n))) \cup {e}
             /\ ids' = ids + 1 /\ acked' = [acked EXCEPT ![Stored(n)] = ids']
             /\ owed' = (owed \ {x.ver : x \in entries \ entries'}) \cup {ids'}
             /\ ~session /\ UNCHANGED dying
    BY <2>2
  <2>4. f.id = known["current"]
    BY DEF FirstFolder, SoleFolders
  <2>5. e \in entries' /\ e.ver = ids' /\ e.fid = known["current"] /\ e.name = Stored(n).name /\ ids' \in Nat
    BY <1>1, <2>3, <2>4
  <2>6. \A x \in entries : x.name # Stored(n).name => x \in entries'
    BY <2>3 DEF Named
  <2>7. dying = {}
    BY <1>1, <2>3 DEF FoldersHeld, CallsOrdered, Working
  <2>8. \A k \in FileKey : acked'[k] # 0 => HeldAt(k)'
    <3> TAKE k \in FileKey
    <3> HAVE acked'[k] # 0
    <3>1. CASE k = Stored(n)
      <4>1. acked'[k] = ids' /\ ids' >= ids' /\ k.dir = "current"
        BY <1>1, <2>3, <2>5, <3>1, KeyNames
      <4> QED BY <1>1, <2>5, <3>1, <4>1 DEF HeldAt
    <3>2. CASE k # Stored(n)
      <4>1. acked'[k] = acked[k] /\ k.name # Stored(n).name
        BY <1>1, <2>3, <3>2, KeyNames
      <4>2. PICK x \in entries : x.fid = known[k.dir] /\ x.name = k.name /\ x.ver >= acked[k]
        BY <4>1 DEF AckedHeld, HeldAt
      <4>3. x \in entries'
        BY <2>6, <4>1, <4>2
      <4> QED BY <1>1, <4>1, <4>2, <4>3 DEF HeldAt
    <3> QED BY <3>1, <3>2
  <2>9. owed' \subseteq {x.ver : x \in entries'}
    <3> SUFFICES ASSUME NEW m \in owed' PROVE \E x \in entries' : x.ver = m
      OBVIOUS
    <3>1. CASE m = ids'
      BY <2>5, <3>1
    <3>2. CASE m \in owed /\ \A x \in entries \ entries' : x.ver # m
      BY <3>2 DEF AckedHeld
    <3> QED BY <2>3, <3>1, <3>2
  <2> QED BY <2>3, <2>7, <2>8, <2>9 DEF AckedHeld
<1> QED BY <1>2, <1>3, <1>4 DEF WorldOfDrime

\* What is held at a key is what a process that looks afresh finds there, or older.
LEMMA HeldIsFound ==
    ASSUME DrimeCore, SoleFolders, NEW k \in FileKey, acked[k] # 0, HeldAt(k)
    PROVE  \E e \in Fresh(k) : e.ver >= acked[k]
<1>1. /\ DriveTypes /\ NoteTypes /\ FoldersHeld /\ IdsTell /\ ids \in Nat /\ entries \subseteq FileEntry(ids) /\ k.dir \in Dir
      /\ known \in [Dir -> 0..ids] /\ acked[k] \in Nat
  BY KeyNames DEF DrimeCore, DriveTypes, NoteTypes
<1>2. PICK x \in entries : x.fid = known[k.dir] /\ x.name = k.name /\ x.ver >= acked[k]
  BY DEF HeldAt
<1>3. PICK g \in folders : g.id = known[k.dir]
  BY <1>1, <1>2 DEF FoldersHeld
<1>4. known[k.dir] # 0
  BY <1>1, <1>2 DEF FileEntry
<1>5. FolderAt(k.dir) \in folders
  <2>1. CASE k.dir = "current"
    BY <1>1, <1>4, <2>1 DEF FoldersHeld
  <2>2. CASE k.dir = "trash"
    <3>1. FolderAt("trash") \in folders \/ \E u \in Uploader : call[u].at = "wait"
      BY <1>1, <1>4, <2>2 DEF FoldersHeld
    <3>2. CASE \E u \in Uploader : call[u].at = "wait"
      <4>1. dying # {}
        BY <1>1, <1>3, <2>2, <3>2 DEF FoldersHeld
      <4> QED BY <1>1, <2>2, <4>1 DEF FoldersHeld
    <3> QED BY <2>2, <3>1, <3>2
  <2> QED BY <1>1, <2>1, <2>2 DEF Dir
<1>6. FirstFolder(k.dir) = {FolderAt(k.dir)} /\ FolderAt(k.dir).id = known[k.dir]
  <2>1. FolderAt(k.dir).id = known[k.dir] /\ FolderAt(k.dir).dir = k.dir
    BY DEF FolderAt
  <2>2. \A f \in folders : f.dir = k.dir => f.id = known[k.dir]
    BY DEF SoleFolders
  <2>3. \A f \in folders : f.dir = k.dir => f = FolderAt(k.dir)
    BY <1>1, <1>5, <2>1, <2>2 DEF FoldersHeld
  <2>4. known[k.dir] <= known[k.dir]
    BY <1>1
  <2> QED BY <1>5, <2>1, <2>2, <2>3, <2>4 DEF FirstFolder
<1> DEFINE N == Named(In(known[k.dir]), k)
<1>7. Fresh(k) = Newest(N)
  <2>1. UNION {Named(In(f.id), k) : f \in {FolderAt(k.dir)}} = N
    BY <1>6
  <2> QED BY <1>6, <2>1 DEF Fresh
<1>8. x \in N /\ N \subseteq entries
  BY <1>2 DEF Named, In
<1>9. \A y \in N : y.id \in 1..ids /\ y.ver \in Nat /\ y \in Seen
  BY <1>1, <1>8, SeenTyped DEF FileEntry
<1> HIDE DEF N
<1>10. PICK m \in N : \A y \in N : y.id <= m.id
  <2> DEFINE T == {y.id : y \in N}
  <2>1. T \subseteq 0..ids /\ T # {}
    BY <1>1, <1>8, <1>9
  <2> HIDE DEF T
  <2>2. \E i \in T : \A j \in T : j <= i
    BY <1>1, <2>1, HasGreatest
  <2> QED BY <2>2 DEF T
<1>11. m \in Newest(N)
  BY <1>10 DEF Newest
<1>12. m.ver >= acked[k]
  <2>1. x.ver <= m.ver
    BY <1>1, <1>8, <1>9, <1>10 DEF IdsTell
  <2> QED BY <1>1, <1>2, <1>8, <1>9, <1>10, <2>1
<1> QED BY <1>7, <1>11, <1>12

\* All of it together.
DrimeAll == DrimeCore /\ NotesHold /\ (~LostFolders => SoleFolders /\ AckedHeld)
LEMMA AllHolds == DrimeSpec => []DrimeAll
<1>1. DrimeInit => DrimeAll
  BY DrimeStarts DEF DrimeAll
<1>2. DrimeAll /\ [DrimeNext]_drimeVars => DrimeAll'
  <2> SUFFICES ASSUME DrimeAll, [DrimeNext]_drimeVars PROVE DrimeAll'
    OBVIOUS
  <2>1. DrimeCore' /\ DrimeCore /\ NotesHold
    BY DrimeStays DEF DrimeAll
  <2>2. NotesHold'
    BY <2>1, CallKeepsNotes, OthersKeepNotes, DrimeUnmoved DEF DrimeNext, WorldOfDrime
  <2>3. ASSUME ~LostFolders PROVE SoleFolders' /\ AckedHeld'
    <3>1. SoleFolders /\ AckedHeld
      BY <2>3 DEF DrimeAll
    <3>2. SoleFolders'
      BY <2>1, <2>3, <3>1, CallKeepsSole, OthersKeepSole, DrimeUnmoved DEF DrimeNext, WorldOfDrime
    <3>3. AckedHeld'
      BY <2>1, <2>3, <3>1, CallKeepsAcked, OthersKeepAcked, DrimeUnmoved DEF DrimeNext, WorldOfDrime
    <3> QED BY <3>2, <3>3
  <2> QED BY <2>1, <2>2, <2>3 DEF DrimeAll
<1> QED BY <1>1, <1>2, PTL DEF DrimeSpec

\* Drime has one folder of each name, however many uploads ask for one at the
\* same time, unless an answer to its creation was lost.
THEOREM FoldersAreOne == DrimeSpec => []OneFolder
<1>1. DrimeAll => OneFolder
  <2> SUFFICES ASSUME DrimeAll, ~LostFolders, NEW f \in folders, NEW g \in folders, f.dir = g.dir PROVE f = g
    BY DEF OneFolder
  <2>1. FoldersHeld /\ SoleFolders
    BY DEF DrimeAll, DrimeCore
  <2> QED BY <2>1 DEF FoldersHeld, SoleFolders
<1> QED BY <1>1, AllHolds, PTL

\* When no answer to a creation is lost, a file whose upload was acknowledged is
\* found where the store looks for it, in that version or a later one.
THEOREM AckedIsFound == ~LostFolders => (DrimeSpec => []StoredIsFound)
<1> SUFFICES ASSUME ~LostFolders PROVE DrimeSpec => []StoredIsFound
  OBVIOUS
<1>1. DrimeAll => StoredIsFound
  <2> SUFFICES ASSUME DrimeAll PROVE StoredIsFound
    OBVIOUS
  <2>1. DrimeCore /\ SoleFolders /\ AckedHeld
    BY DEF DrimeAll
  <2> QED BY <2>1, HeldIsFound DEF StoredIsFound, AckedHeld
<1> QED BY <1>1, AllHolds, PTL
=============================================================================
