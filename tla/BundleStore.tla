---------------------------- MODULE BundleStore ----------------------------
(***************************************************************************)
(* internal/bundle: one backup behind one bundle.Store.  Small files are   *)
(* added to a pack that is being filled; a full pack is sent and its files *)
(* go on the index; the index is saved by Flush and Checkpoint.  Big files *)
(* are objects of their own, written before the index learns of them and   *)
(* outside the lock.  The process may stop at any step and another one     *)
(* opens the store then, with bundling on or off.                          *)
(*                                                                         *)
(* An entry is Direct, or a pack and what the file's span in it holds: the *)
(* offset and checksum of the code, which let a reader tell whether it got *)
(* the bytes it was promised.  Two spans of a pack with equal content are  *)
(* taken for one.                                                          *)
(*                                                                         *)
(* Mishaps names circumstances in which the code breaks its promise; with  *)
(* Mishaps = {} they do not arise.                                         *)
(*   "sweep"    the daily sweep comes in the flush that empties a pack     *)
(*   "outgrow"  a file goes from object to pack and back between two saves *)
(***************************************************************************)
EXTENDS Naturals, FiniteSets

CONSTANTS
    Key,        \* keys of the backup, those in its trash among them
    Content,    \* what a file can hold
    Blank,      \* those of no bytes
    None,       \* no object, no entry, no index
    Packing,    \* whether bundling is on: what a process may be started with
    Mishaps,    \* the circumstances above that may arise
    MaxPacks,   \* bound: packs ever sent
    MaxCalls,   \* bound: calls for a write, a copy, a move or a delete
    MaxFaults   \* bound: requests that fail and processes that are killed

ASSUME SwitchAssumption == Packing \subseteq BOOLEAN /\ Mishaps \subseteq {"sweep", "outgrow"}
ASSUME BlankAssumption == Blank \subseteq Content
ASSUME BoundAssumption == MaxPacks \in Nat \ {0} /\ {MaxCalls, MaxFaults} \subseteq Nat

VARIABLES
    object,    \* objects of their own in the base store
    pack,      \* packs in the base store: what their spans hold, {} for none
    old,       \* packs in the base store for orphanAge and longer
    saved,     \* .bundles/index.json.gz
    ids,       \* pack ids handed out
    mode,      \* space: not loaded, passthrough, with an index or, Options.Pack
               \* being set, with one that grows
    idx,       \* space.idx
    dirty,     \* space.dirty
    open,      \* space.open, the pack being filled
    stale,     \* space.staleDirect
    failed,    \* space.failed
    inflight,  \* calls between their base request and their index edit
    step,      \* how far a Flush or Checkpoint is, else what the last returned
    full,      \* it is a Flush
    owes,      \* flushSpace's failed
    dead,      \* flushIndex's dead
    now, may,  \* history: what each key may read as, and be in storage; see StoreContract
    calls, faults

baseVars  == <<object, pack, old, saved, ids>>
spaceVars == <<mode, idx, dirty, open, stale, failed>>
flushVars == <<step, full, owes, dead>>
vars == <<baseVars, spaceVars, inflight, flushVars, now, may, calls, faults>>

Value   == Content \cup {None}
Nothing == [k \in Key |-> None]
Direct  == <<0, None>>
PackId  == 1..MaxPacks
Entry   == {Direct} \cup (PackId \X Content)
Index   == [entry: [Key -> Entry \cup {None}], packs: SUBSET PackId, swept: BOOLEAN]
Spool   == [id: 0..MaxPacks, holds: SUBSET Content, files: [Key -> Value]]
Request == [op: {"put", "move", "moved", "copied", "delete"}, from: Key, value: Value]
NoIndex == [entry |-> Nothing, packs |-> {}, swept |-> FALSE]
NoSpool == [id |-> 0, holds |-> {}, files |-> Nothing]

\* None stands for the absence of each of these.
ASSUME NoneAssumption == None \notin Content /\ None \notin Entry /\ None \notin Index
                         /\ None \notin Request

(***************************************************************************)
(* Reading.                                                                *)
(***************************************************************************)
\* What entry e of k leads to: an object, a span of a pack, or nothing there.
Found(e, k) == IF e = Direct THEN object[k]
               ELSE IF e # None /\ e[2] \in pack[e[1]] THEN e[2] ELSE None

Indexed == mode \in {"indexed", "packing"}

\* lookup, then Get.  Without an index every object is its own.
Disk(k) == IF saved = None THEN object[k] ELSE Found(saved.entry[k], k)
View(k) == CASE mode = "unread"  -> Disk(k)
             [] mode = "through" -> object[k]
             [] Indexed          -> IF open.files[k] # None THEN open.files[k]
                                    ELSE Found(idx.entry[k], k)

\* The spans of pack p that the index points at, and liveBytes: those that weigh.
Live(p)  == {c \in Content : \E k \in Key : idx.entry[k] = <<p, c>>}
Bytes(p) == Live(p) \ Blank

Free   == step \in {"ok", "failed"}
\* No two calls are for one key: the engine has one job per key.
Busy(k) == \/ inflight[k] # None
           \/ \E d \in Key : inflight[d] # None /\ inflight[d].from = k

\* Slip: edits of the index are not counted as held back.
PendingButEdits == Indexed /\ (open.files # Nothing \/ stale # {} \/ failed)

\* Something a write has returned for is not on record.
Pending == /\ Indexed
           /\ open.files # Nothing \/ dirty \/ stale # {} \/ failed

Fault   == faults < MaxFaults /\ faults' = faults + 1
NoFault == UNCHANGED faults

(***************************************************************************)
(* Opening and loading.                                                    *)
(***************************************************************************)
Unloaded == /\ mode = "unread" /\ idx = NoIndex /\ dirty = FALSE /\ open = NoSpool
            /\ stale = {} /\ failed = FALSE

\* Backed up directly so far, or bundled: then pack 1 is from an earlier day.
Init ==
    /\ \E files \in [Key -> Value], packed \in SUBSET Key :
         /\ object = [k \in Key |-> IF k \in packed THEN None ELSE files[k]]
         /\ pack = [p \in PackId |-> IF p = 1 THEN {files[k] : k \in packed} ELSE {}]
         /\ None \notin pack[1]
         /\ saved = IF packed = {} THEN None
                    ELSE [NoIndex EXCEPT
                            !.packs = {1},
                            !.entry = [k \in Key |-> IF k \in packed THEN <<1, files[k]>>
                                                     ELSE IF files[k] # None THEN Direct
                                                     ELSE None]]
         /\ old = {p \in PackId : pack[p] # {}} /\ ids = Cardinality(old)
         /\ now = [k \in Key |-> {files[k]}] /\ may = now
    /\ Unloaded
    /\ inflight = Nothing
    /\ step = "ok" /\ full = FALSE /\ owes = FALSE /\ dead = {}
    /\ calls = 0 /\ faults = 0

\* load: the saved index or, when bundling starts here, one over the objects
\* that are there.
Load ==
    /\ mode = "unread"
    /\ \E packing \in Packing :
         /\ mode' = IF packing THEN "packing" ELSE IF saved # None THEN "indexed" ELSE "through"
         /\ dirty' = (packing /\ saved = None)
         /\ idx' = IF saved # None THEN saved
                   ELSE IF packing
                   THEN [NoIndex EXCEPT !.entry =
                           [k \in Key |-> IF object[k] # None THEN Direct ELSE None]]
                   ELSE NoIndex
    /\ UNCHANGED <<baseVars, open, stale, failed, inflight, flushVars, now, may, calls, faults>>

\* unload, with nothing waiting to be written.
Unload == mode' = "unread" /\ idx' = NoIndex

(***************************************************************************)
(* seal: pack o is sent and its files go on the index.                     *)
(***************************************************************************)
Upload(o) == pack' = [pack EXCEPT ![o.id] = o.holds] /\ UNCHANGED <<object, old, saved>>

SealSent(o) ==
    /\ Upload(o)
    /\ idx' = [idx EXCEPT !.packs = @ \cup {o.id},
                          !.entry = [k \in Key |-> IF o.files[k] # None
                                                   THEN <<o.id, o.files[k]>> ELSE @[k]]]
    /\ stale' = stale \cup {k \in Key : o.files[k] # None /\ idx.entry[k] = Direct}
    /\ open' = NoSpool /\ dirty' = TRUE
    /\ UNCHANGED <<mode, failed>>
    /\ NoFault

\* The pack could not be sent, or was and no answer came.
SealFails(o) ==
    /\ Fault
    /\ Upload(o) \/ UNCHANGED <<object, pack, old, saved>>
    /\ open' = NoSpool /\ failed' = TRUE
    /\ UNCHANGED <<mode, idx, dirty, stale>>

(***************************************************************************)
(* Calls.  Each asks its keys to become something.                         *)
(***************************************************************************)
Call(keys) == /\ calls < MaxCalls /\ calls' = calls + 1
              /\ mode # "unread"
              /\ \A k \in keys : ~Busy(k)

\* History.  A call asks each key of f to become f[k]: it may have taken effect,
\* it has, or it is found to have done so.
Ask(k, v)  == [x \in {k} |-> v]
Asked(f)   == may' = [k \in Key |-> IF k \in DOMAIN f THEN may[k] \cup {f[k]} ELSE may[k]]
Settled(f) == now' = [k \in Key |-> IF k \in DOMAIN f THEN {f[k]} ELSE now[k]]
Unsure(f)  == now' = [k \in Key |-> IF k \in DOMAIN f THEN now[k] \cup {f[k]} ELSE now[k]]
\* What pack o held may be lost.
Forfeit(o) == now' = [k \in Key |-> IF o.files[k] # None THEN may'[k] ELSE now[k]]

\* spool.add: the bytes go to the end of the pack, and k leads to them.
AddedTo(o, id, k, c) ==
    [id |-> id, holds |-> o.holds \cup {c}, files |-> [o.files EXCEPT ![k] = c]]

\* Put of a file small enough for the pack, which may thereby be full.
PutPacked(k, c) ==
    /\ mode = "packing" /\ Free
    /\ Call({k})
    /\ open.id = 0 => ids < MaxPacks
    /\ ids' = IF open.id = 0 THEN ids + 1 ELSE ids
    /\ LET filled == AddedTo(open, ids', k, c)
       IN  /\ Asked(Ask(k, c))
           /\ \/ /\ open' = filled /\ NoFault
                 /\ UNCHANGED <<object, pack, old, saved, mode, idx, dirty, stale, failed>>
                 /\ Settled(Ask(k, c))
              \/ SealSent(filled) /\ Settled(Ask(k, c))
              \/ SealFails(filled) /\ Forfeit(filled)
    /\ UNCHANGED <<inflight, flushVars>>

\* A call that writes to the base store first, outside the lock. Calls go on
\* during a Checkpoint; whoever calls Flush has none under way, and none is for
\* a key of another one. A content has no size: what is a file of its own at one
\* time may be packed at another.
Calling == Free \/ ~full
Begins(k, op, s, v) == inflight' = [inflight EXCEPT ![k] = [op |-> op, from |-> s, value |-> v]]
Ends(k) == inflight' = [inflight EXCEPT ![k] = None]
Grown(k) == k \in stale \/ (open.files[k] # None /\ idx.entry[k] = Direct)
            => "outgrow" \in Mishaps

\* The base request of Put for any other file.
PutDirect(k, c) ==
    /\ Calling /\ Grown(k)
    /\ Call({k})
    /\ Asked(Ask(k, c))
    /\ \/ /\ object' = [object EXCEPT ![k] = c] /\ NoFault
          /\ IF mode = "through" THEN UNCHANGED inflight /\ Settled(Ask(k, c))
             ELSE Begins(k, "put", k, c) /\ Unsure(Ask(k, c))
       \/ /\ object' \in {object, [object EXCEPT ![k] = c]} /\ Fault
          /\ UNCHANGED inflight /\ Unsure(Ask(k, c))
    /\ UNCHANGED <<pack, old, saved, ids, spaceVars, flushVars>>

\* Slip: the pack being filled still holds what was there before.
DroppedNot(k) == open

\* dropOpen
Dropped(k) == [open EXCEPT !.files[k] = None]

editRest == <<baseVars, mode, failed, flushVars, faults>>

\* Its index edit: remove, then set.
PutDirectEnds(k) ==
    /\ Free
    /\ inflight[k] # None /\ inflight[k].op = "put"
    /\ open' = Dropped(k)
    /\ idx' = [idx EXCEPT !.entry[k] = Direct]
    /\ dirty' = TRUE
    /\ Ends(k) /\ Settled(Ask(k, inflight[k].value))
    /\ UNCHANGED <<editRest, stale, may, calls>>

AskMove(s, d, v, move) ==
    [x \in IF move THEN {s, d} ELSE {d} |-> IF x = d THEN v ELSE None]

\* What s leads to, d leads to; a move leaves s with nothing.
Carried(f, s, d, move) == [k \in Key |-> CASE k = d          -> f[s]
                                           [] k = s /\ move  -> None
                                           [] OTHER          -> f[k]]

\* Copy or Move of a packed file: an edit of the pack being filled, or of the
\* index.
CopyPacked(s, d, move) ==
    /\ Indexed /\ Free /\ s # d
    /\ Call({s, d})
    /\ \/ /\ open.files[s] # None
          /\ open' = [open EXCEPT !.files = Carried(@, s, d, move)]
          /\ idx' = IF move THEN [idx EXCEPT !.entry[s] = None] ELSE idx
          /\ dirty' = (dirty \/ idx'.entry[s] # idx.entry[s])
          /\ UNCHANGED stale
       \/ /\ open.files[s] = None /\ idx.entry[s] \notin {None, Direct}
          /\ open' = Dropped(d)
          /\ idx' = [idx EXCEPT !.entry = Carried(@, s, d, move)]
          /\ stale' = IF idx.entry[d] = Direct THEN stale \cup {d} ELSE stale
          /\ dirty' = TRUE
    /\ Asked(AskMove(s, d, View(s), move)) /\ Settled(AskMove(s, d, View(s), move))
    /\ UNCHANGED <<editRest, inflight>>

\* Copy or Move of an object of its own: the base store copies it, ...
CopyObject(s, d, move) ==
    /\ Calling /\ Grown(d) /\ s # d
    /\ Call({s, d})
    /\ Indexed => open.files[s] = None /\ idx.entry[s] = Direct
    /\ object[s] # None
    /\ \/ /\ object' = [object EXCEPT ![d] = object[s]] /\ NoFault
          /\ Begins(d, IF move THEN "move" ELSE "copied", s, object[s])
       \/ /\ object' \in {object, [object EXCEPT ![d] = object[s]]} /\ Fault
          /\ UNCHANGED inflight
    /\ Asked(AskMove(s, d, object[s], move)) /\ Unsure(AskMove(s, d, object[s], move))
    /\ UNCHANGED <<pack, old, saved, ids, spaceVars, flushVars>>

\* ... for a Move deletes the source, ...
DeleteSource(d) ==
    /\ inflight[d] # None /\ inflight[d].op = "move"
    /\ LET without == [object EXCEPT ![inflight[d].from] = None] IN
       \/ /\ object' = without /\ NoFault
          /\ inflight' = [inflight EXCEPT ![d].op = "moved"]
       \/ object' \in {object, without} /\ Fault /\ Ends(d)
    /\ UNCHANGED <<pack, old, saved, ids, spaceVars, flushVars, now, may, calls>>

\* ... and the index follows.
CopyEnds(d) ==
    /\ Free
    /\ inflight[d] # None /\ inflight[d].op \in {"copied", "moved"}
    /\ IF mode = "through" THEN UNCHANGED <<open, idx, dirty>>
       ELSE /\ open' = Dropped(d) /\ dirty' = TRUE
            /\ idx' = [idx EXCEPT !.entry[d] = Direct,
                                  !.entry[inflight[d].from] =
                                     IF inflight[d].op = "moved" THEN None ELSE @]
    /\ Ends(d)
    /\ Settled(AskMove(inflight[d].from, d, inflight[d].value, inflight[d].op = "moved"))
    /\ UNCHANGED <<editRest, stale, may, calls>>

\* Delete: the index forgets k at once; an object of its own, or one the index
\* does not know, is then deleted from the base store.
Delete(k) ==
    /\ Free
    /\ Call({k})
    /\ IF mode = "through" THEN UNCHANGED <<open, idx, dirty>>
       ELSE /\ open' = Dropped(k)
            /\ idx' = [idx EXCEPT !.entry[k] = None]
            /\ dirty' = (dirty \/ idx.entry[k] # None)
    /\ Asked(Ask(k, None))
    /\ IF idx.entry[k] \in {None, Direct}
       THEN Begins(k, "delete", k, None) /\ Unsure(Ask(k, None))
       ELSE UNCHANGED inflight /\ Settled(Ask(k, None))
    /\ UNCHANGED <<editRest, stale>>

DeleteEnds(k) ==
    /\ inflight[k] # None /\ inflight[k].op = "delete"
    /\ LET without == [object EXCEPT ![k] = None] IN
       \/ object' = without /\ NoFault /\ Settled(Ask(k, None))
       \/ object' \in {object, without} /\ Fault /\ UNCHANGED now
    /\ Ends(k)
    /\ UNCHANGED <<pack, old, saved, ids, spaceVars, flushVars, may, calls>>

(***************************************************************************)
(* flushSpace and checkpointSpace, under the lock from beginning to end.   *)
(***************************************************************************)
\* The pack being filled is sent first. The checkpointer asks for a save only
\* when something is held back; whoever calls Flush has no calls under way.
FlushSeals(f) ==
    /\ Free /\ Indexed
    /\ IF f THEN inflight = Nothing ELSE Pending
    /\ full' = f
    /\ UNCHANGED <<ids, inflight, owes, dead, may, calls>>
    /\ \/ /\ open.files = Nothing /\ open' = NoSpool /\ step' = "sealed" /\ NoFault
          /\ UNCHANGED <<object, pack, old, saved, mode, idx, dirty, stale, failed, now>>
       \/ /\ open.files # Nothing /\ step' = "sealed"
          /\ SealSent(open) /\ UNCHANGED now
       \/ /\ open.files # Nothing /\ step' = "unsealed"
          /\ SealFails(open) /\ Forfeit(open)

\* Without an index there is nothing to flush.
FlushThrough ==
    /\ Free /\ mode = "through" /\ inflight = Nothing
    /\ Unload
    /\ UNCHANGED <<baseVars, dirty, open, stale, failed, inflight, flushVars,
                   now, may, calls, faults>>

\* Slip: what it owes is not forgotten when it has answered.
ReturnsOwing(ans) == step' = ans /\ UNCHANGED <<full, owes, dead>>

\* It returns: an error, or nil unless a pack was lost earlier.
Returns(ans) == step' = ans /\ owes' = FALSE /\ dead' = {} /\ UNCHANGED full

\* A Flush that cannot seal reports every loss there has been.
Unsealed ==
    /\ step = "unsealed"
    /\ failed' = IF full THEN FALSE ELSE failed
    /\ Returns("failed")
    /\ UNCHANGED <<baseVars, mode, idx, dirty, open, stale, inflight, now, may,
                   calls, faults>>

Clean == ~dirty /\ stale = {}

FlushAsks ==
    /\ step = "sealed" /\ full
    /\ failed' = FALSE
    /\ \/ ~Clean /\ owes' = failed /\ step' = "tidy" /\ UNCHANGED <<full, dead, mode, idx>>
       \/ Clean /\ failed /\ Returns("failed") /\ UNCHANGED <<mode, idx>>
       \/ Clean /\ ~failed /\ Returns("ok") /\ Unload
    /\ UNCHANGED <<baseVars, dirty, open, stale, inflight, now, may, calls, faults>>

CheckpointAsks ==
    /\ step = "sealed" /\ ~full
    /\ \/ failed /\ Returns("failed")
       \/ ~failed /\ Clean /\ Returns("ok")
       \/ ~failed /\ ~Clean /\ step' = "index" /\ UNCHANGED <<full, owes, dead>>
    /\ UNCHANGED <<baseVars, spaceVars, inflight, now, may, calls, faults>>

\* Packs with both live and dead spans; which of them are worth rewriting
\* depends on sizes.
Sparse == {p \in idx.packs : Bytes(p) # {} /\ Live(p) # pack[p]}

\* compact: the live spans of the victims go into a new pack.
Rewritten(victims, p) ==
    [idx EXCEPT !.packs = @ \cup {p},
                !.entry = [k \in Key |-> IF @[k] # None /\ @[k][1] \in victims
                                         THEN <<p, @[k][2]>> ELSE @[k]]]

Compact ==
    /\ step = "tidy"
    /\ UNCHANGED <<object, old, saved>>
    /\ \/ step' = "sweep" /\ UNCHANGED <<pack, ids, idx, dirty, full, owes, dead>> /\ NoFault
       \/ /\ ids < MaxPacks /\ ids' = ids + 1
          /\ \E victims \in SUBSET Sparse \ {{}} :
               LET spans == UNION {Live(p) : p \in victims} IN
               \/ /\ pack' = [pack EXCEPT ![ids'] = spans] /\ NoFault
                  /\ idx' = Rewritten(victims, ids') /\ dirty' = TRUE
                  /\ step' = "sweep" /\ UNCHANGED <<full, owes, dead>>
               \/ /\ pack' \in {pack, [pack EXCEPT ![ids'] = spans]} /\ Fault
                  /\ UNCHANGED <<idx, dirty>>
                  /\ Returns("failed")
    /\ UNCHANGED <<mode, open, stale, failed, inflight, now, may, calls>>

\* Slip: packs with anything dead in them.
EmptyOrSparse == {p \in idx.packs : Bytes(p) # pack[p]}

\* deadPacks, then the daily sweep for packs nothing points at.
Empty   == {p \in idx.packs : Bytes(p) = {}}
Orphans == {p \in old : pack[p] # {} /\ p \notin idx.packs \ Empty}
InUse   == IF saved = None THEN {} ELSE saved.packs
Due     == ~idx.swept /\ (Orphans \cap InUse # {} => "sweep" \in Mishaps)

Sweep ==
    /\ step = "sweep"
    /\ dead' = Empty
    /\ \/ /\ ~Due /\ NoFault /\ UNCHANGED pack
          /\ idx' = [idx EXCEPT !.packs = @ \ Empty]
       \/ /\ Due /\ NoFault
          /\ pack' = [p \in PackId |-> IF p \in Orphans THEN {} ELSE pack[p]]
          /\ idx' = [idx EXCEPT !.packs = @ \ Empty, !.swept = TRUE]
       \/ /\ Due /\ Fault
          /\ \E gone \in SUBSET Orphans :
               pack' = [p \in PackId |-> IF p \in gone THEN {} ELSE pack[p]]
          /\ idx' = [idx EXCEPT !.packs = @ \ Empty]
    /\ dirty' = (dirty \/ idx' # idx)
    /\ step' = "index"
    /\ UNCHANGED <<object, old, saved, ids, mode, open, stale, failed, inflight,
                   full, owes, now, may, calls>>

\* writeIndex.
WriteIndex ==
    /\ step = "index"
    /\ \/ /\ saved' = idx /\ dirty' = FALSE /\ NoFault
          /\ may' = now
          /\ step' = "drop" /\ UNCHANGED <<full, owes, dead>>
       \/ /\ saved' \in {saved, idx} /\ UNCHANGED <<dirty, may>> /\ Fault
          /\ Returns("failed")
    /\ UNCHANGED <<object, pack, old, ids, mode, idx, open, stale, failed,
                   inflight, now, calls>>

\* The packs and objects the index no longer needs are deleted.
Drop ==
    /\ step = "drop"
    /\ LET drops(packs, objects) ==
             /\ pack' = [p \in PackId |-> IF p \in packs THEN {} ELSE pack[p]]
             /\ object' = [k \in Key |-> IF k \in objects THEN None ELSE object[k]]
       IN  \/ /\ drops(dead, stale) /\ NoFault
              /\ Returns(IF owes THEN "failed" ELSE "ok")
              /\ IF full /\ ~owes THEN Unload ELSE UNCHANGED <<mode, idx>>
           \/ /\ \E packs \in SUBSET dead, objects \in SUBSET stale : drops(packs, objects)
              /\ Fault
              /\ Returns("failed") /\ UNCHANGED <<mode, idx>>
    /\ stale' = {}
    /\ UNCHANGED <<old, saved, ids, dirty, open, failed, inflight, now, may, calls>>

(***************************************************************************)
(* Processes and time.                                                     *)
(***************************************************************************)
Forgotten ==
    /\ mode' = "unread" /\ idx' = NoIndex /\ dirty' = FALSE /\ open' = NoSpool
    /\ stale' = {} /\ failed' = FALSE /\ inflight' = Nothing
    /\ step' = "ok" /\ full' = FALSE /\ owes' = FALSE /\ dead' = {}
    /\ now' = [k \in Key |-> {Disk(k)}] /\ may' = now'

\* The process is killed, or ends with something still held back. One that ends
\* after a Flush leaves the state that another one opens.
Stop == /\ Fault
        /\ Forgotten
        /\ UNCHANGED <<baseVars, calls>>

\* No process lives through it.
NextDay ==
    /\ mode = "unread"
    /\ old' = {p \in PackId : pack[p] # {}}
    /\ saved' = IF saved = None THEN None ELSE [saved EXCEPT !.swept = FALSE]
    /\ <<old, saved>>' # <<old, saved>>
    /\ UNCHANGED <<object, pack, ids, spaceVars, inflight, flushVars, now, may, calls, faults>>

Clients ==
    \/ \E k \in Key : \/ PutDirectEnds(k) \/ DeleteSource(k) \/ CopyEnds(k)
                      \/ Delete(k) \/ DeleteEnds(k)
                      \/ \E c \in Content : PutPacked(k, c) \/ PutDirect(k, c)
    \/ \E s, d \in Key, move \in BOOLEAN : CopyPacked(s, d, move) \/ CopyObject(s, d, move)

Flushing == \/ (\E f \in BOOLEAN : FlushSeals(f)) \/ FlushThrough \/ Unsealed \/ FlushAsks \/ CheckpointAsks
            \/ Compact \/ Sweep \/ WriteIndex \/ Drop

Next == \/ Load \/ Clients \/ Flushing
        \/ Stop \/ NextDay

Spec == Init /\ [][Next]_vars

(***************************************************************************)
(* Properties.                                                             *)
(***************************************************************************)
\* Every variable stays in its domain; a space that is not indexed holds
\* nothing, and only a flush that owes an answer has a step to go.
TypeOK ==
    /\ object \in [Key -> Value] /\ pack \in [PackId -> SUBSET Content]
    /\ old \subseteq PackId /\ saved \in Index \cup {None} /\ ids \in 0..MaxPacks
    /\ mode \in {"unread", "through", "indexed", "packing"}
    /\ idx \in Index /\ dirty \in BOOLEAN /\ open \in Spool
    /\ stale \subseteq Key /\ failed \in BOOLEAN
    /\ inflight \in [Key -> Request \cup {None}]
    /\ step \in {"ok", "failed", "sealed", "unsealed", "tidy", "sweep", "index", "drop"}
    /\ full \in BOOLEAN /\ owes \in BOOLEAN /\ dead \subseteq PackId
    /\ now \in [Key -> SUBSET Value] /\ may \in [Key -> SUBSET Value]
    /\ ~Indexed => idx = NoIndex /\ ~Pending
    /\ Free => ~owes /\ dead = {}
    /\ calls \in 0..MaxCalls /\ faults \in 0..MaxFaults

\* "A pack is only on the index once it has been uploaded" (bundle.go:35), and
\* it stays as long as "it no longer points at a pack" (bundle.go:1032) is not
\* true of the saved index: what the index in storage says is packed is there.
IndexedIsStored ==
    saved # None => \A k \in Key : LET e == saved.entry[k] IN
                      e \notin {None, Direct} => e[1] \in saved.packs /\ e[2] \in pack[e[1]]

\* The checkpointer notes files without a save when the store says that nothing
\* is held back (checkpoint.go:112): then storage has what the store answers.
NothingHeldBack == Free /\ ~Pending => \A k \in Key : Disk(k) = View(k)

\* The store keeps the promise of StoreContract through concurrent calls, lost
\* requests, lost packs, checkpoints, flushes, sweeps and restarts.
Contract == INSTANCE StoreContract WITH
    view   <- [k \in Key |-> View(k)],
    disk   <- [k \in Key |-> Disk(k)],
    lost   <- failed \/ owes,
    answer <- IF Free THEN step ELSE "none"

KeepsContract == Contract!Spec

\* A flush that fails costs nothing that was on record: "the index goes first"
\* (bundle.go:1032). Files no call has touched since the last save are in storage
\* as they were.
SavedIsSafe == Free => \A k \in Key, v \in Value : may[k] = {v} => Disk(k) = v
=============================================================================
