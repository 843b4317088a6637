---------------------------- MODULE Backup_proofs ----------------------------
(***************************************************************************)
(* Theorems about Backup, for every set of keys and versions and every     *)
(* bound: its type invariant; that a record is written only when the       *)
(* storage it stands for has been saved; that what was recorded can be got *)
(* back during the retention window, and some whole version of it later;   *)
(* that storage holds every file that looks like its record; and that a    *)
(* rename copies what it was matched by.                                   *)
(***************************************************************************)
EXTENDS Backup, TLAPS

(***************************************************************************)
(* What the store operators do to the store's variables.                   *)
(***************************************************************************)

\* No object anywhere, and the store with the open pack sealed, are stores.
LEMMA StoreValues ==
    ASSUME StoreOK
    PROVE  /\ Nothing \in Objects /\ Nothing \in Entries
           /\ Sealed \in Objects
           /\ \A k \in Key : Read(k) \in Content \cup {None}
BY DEF StoreOK, Nothing, Objects, Entries, Sealed, Read

\* Whatever a step makes the process read, the saved copy stays a store too.
LEMMA SetStoreTyped ==
    ASSUME StoreOK, NEW cur \in Objects, NEW pack \in Objects, packing \/ pack = Nothing,
           NEW bin \in SUBSET TrashEntry, SetStore(cur, pack, bin), failed' \in BOOLEAN
    PROVE  StoreOK'
BY DEF StoreOK, SetStore

\* A flush, however it ends.
LEMMA FlushTyped ==
    ASSUME StoreOK, FlushOk \/ FlushReports \/ FlushFails
    PROVE  StoreOK'
<1>1. CASE FlushOk
  BY <1>1, StoreValues DEF StoreOK, FlushOk, SaveAll
<1>2. CASE FlushReports
  BY <1>2, StoreValues DEF StoreOK, FlushReports, SaveAll
<1>3. CASE FlushFails
  BY <1>3, StoreValues, SetStoreTyped
  DEF StoreOK, FlushFails, SealFails, IndexFails
<1>. QED  BY <1>1, <1>2, <1>3

\* A key emptied, or filled, leaves a store.
LEMMA StorePutTyped ==
    ASSUME StoreOK, NEW k \in Key, NEW c \in Content \cup {None}, StorePut(k, c), failed' \in BOOLEAN
    PROVE  StoreOK'
<1>1. /\ [current EXCEPT ![k] = c] \in Objects
      /\ [spool EXCEPT ![k] = c] \in Objects
      /\ [Sealed EXCEPT ![k] = c] \in Objects
      /\ Nothing \in Objects
  BY StoreValues DEF StoreOK, Objects
<1>. QED  BY <1>1, SetStoreTyped DEF StoreOK, StorePut

LEMMA StoreDeleteTyped ==
    ASSUME StoreOK, NEW gone, StoreDelete(gone), failed' \in BOOLEAN
    PROVE  StoreOK'
<1>1. /\ [k \in Key |-> IF k \in gone THEN None ELSE current[k]] \in Objects
      /\ [k \in Key |-> IF k \in gone THEN None ELSE spool[k]] \in Objects
      /\ packing \/ [k \in Key |-> IF k \in gone THEN None ELSE spool[k]] = Nothing
  BY DEF StoreOK, Objects, Nothing
<1>. QED  BY <1>1, SetStoreTyped DEF StoreOK, StoreDelete

\* What a step leaves alone keeps its type.
LEMMA StoreUnmoved == ASSUME StoreOK, UNCHANGED storeVars PROVE StoreOK'
BY DEF StoreOK, storeVars

LEMMA RunUnmoved == ASSUME RunOK, UNCHANGED runVars PROVE RunOK'
BY DEF RunOK, IsMove, runVars, planVars, workVars, tickVars

(***************************************************************************)
(* The type invariant.                                                     *)
(***************************************************************************)

\* People, the clock and the machine.
LEMMA WorldTyped ==
    ASSUME TypeOK, People \/ Midnight \/ Crash \/ Exit
    PROVE  TypeOK'
<1>. USE StoreValues, StoreUnmoved, RunUnmoved DEF TypeOK, envVars
<1>1. ASSUME NEW k \in Key, Remove(k)  PROVE TypeOK'
  BY <1>1, BoundAssumption DEF Remove, Edit, Entries
<1>2. ASSUME NEW k \in Key, NEW v \in Version, Save(k, v)  PROVE TypeOK'
  BY <1>2, BoundAssumption DEF Save, Edit, Entries
<1>3. ASSUME NEW a \in Key, NEW b \in Key, Rename(a, b)  PROVE TypeOK'
  BY <1>3, BoundAssumption DEF Rename, Edit, Entries
<1>4. CASE Cancel
  <2>1. RunOK'  BY <1>4 DEF Cancel, RunOK, IsMove, planVars, workVars, tickVars
  <2>. QED  BY <1>4, <2>1, BoundAssumption DEF Cancel
<1>5. CASE Midnight
  <2>1. StoreOK' /\ RunOK'  BY <1>5 DEF Midnight
  <2>2. day' \in 0..MaxDays  BY <1>5, BoundAssumption DEF Midnight
  <2>. QED  BY <1>5, <2>1, <2>2 DEF Midnight
<1>6. CASE Crash
  <2>1. StoreOK'  BY <1>6 DEF Crash, Reopened, StoreOK
  <2>2. RunOK'  BY <1>6 DEF Crash, RunOver, RunOK, Nothing
  <2>. QED  BY <1>6, <2>1, <2>2, BoundAssumption DEF Crash
<1>7. CASE Exit
  <2>1. StoreOK'  BY <1>7 DEF Exit, Reopened, StoreOK
  <2>. QED  BY <1>7, <2>1 DEF Exit
<1>. QED  BY <1>1, <1>2, <1>3, <1>4, <1>5, <1>6, <1>7 DEF People

\* A fault stays within its bound.
LEMMA FaultTyped ==
    ASSUME faults \in 0..MaxFaults, Fault \/ NoFault \/ RequestFails
    PROVE  faults' \in 0..MaxFaults
BY BoundAssumption DEF Fault, NoFault, RequestFails

\* The start of a run: scan, plan and trash.
LEMMA BeginningTyped ==
    ASSUME TypeOK,
           \/ Start \/ ScanFails \/ Plan \/ TrashDone
           \/ \E k \in Key : Scan(k) \/ TrashMove(k) \/ TrashMoveFails(k)
    PROVE  TypeOK'
<1>. USE StoreValues, StoreUnmoved, RunUnmoved, FaultTyped DEF TypeOK, envVars
<1>1. CASE Start
  <2>1. StoreOK'  BY <1>1, FlushTyped DEF Start
  <2>2. RunOK'  BY <1>1 DEF Start, Goto, RunOK, IsMove, planVars, workVars, tickVars
  <2>. QED  BY <1>1, <2>1, <2>2 DEF Start
<1>2. ASSUME NEW k \in Key, Scan(k)  PROVE TypeOK'
  <2>1. RunOK'  BY <1>2 DEF Scan, Goto, RunOK, Entries, workVars, tickVars
  <2>. QED  BY <1>2, <2>1 DEF Scan
<1>3. CASE ScanFails
  <2>1. RunOK'  BY <1>3 DEF ScanFails, Goto, RunOK, IsMove, planVars, workVars, tickVars
  <2>. QED  BY <1>3, <2>1 DEF ScanFails
<1>4. CASE Plan
  <2>1. source' \in [Key -> Key \cup {None}]
    BY <1>4 DEF Plan
  <2>2. job' \in [Key -> {"none", "queued", "sending", "sent", "done", "failed"}]
    BY <1>4 DEF Plan
  <2>3. deletes' \subseteq Key  BY <1>4 DEF Plan, Vanished
  <2>4. /\ phase' \in {"tidy", "closing", "trash"}
        /\ todo' \subseteq Key
    BY <1>4 DEF Plan, Goto, Vanished, Changed
  <2>5. RunOK'  BY <1>4, <2>1, <2>2, <2>3, <2>4 DEF Plan, RunOK, IsMove, tickVars
  <2>. QED  BY <1>4, <2>5 DEF Plan, NoFault
<1>5. ASSUME NEW k \in Key, TrashMove(k)  PROVE TypeOK'
  <2>1. Empties(k) \in Objects /\ Drops(k) \in Objects /\ (packing \/ Drops(k) = Nothing)
    BY DEF Empties, Drops, StoreOK, Objects, Nothing
  <2>2. Binned(k) \subseteq TrashEntry
    BY <1>5 DEF TrashMove, Binned, StoreOK, TrashEntry
  <2>3. StoreOK'  BY <1>5, <2>1, <2>2, SetStoreTyped DEF TrashMove, StoreOK
  <2>4. RunOK'
    BY <1>5 DEF TrashMove, Goto, RunOK, planVars, workVars, tickVars
  <2>. QED  BY <1>5, <2>3, <2>4 DEF TrashMove, NoFault
<1>6. ASSUME NEW k \in Key, TrashMoveFails(k)  PROVE TypeOK'
  <2>1. Empties(k) \in Objects
    BY DEF Empties, StoreOK, Objects
  <2>2. Read(k) # None => Binned(k) \subseteq TrashEntry
    BY DEF Binned, StoreOK, TrashEntry
  <2>3. StoreOK'  BY <1>6, <2>1, <2>2, SetStoreTyped DEF TrashMoveFails, StoreOK
  <2>4. RunOK'
    BY <1>6 DEF TrashMoveFails, Goto, RunOK, planVars, workVars, tickVars
  <2>. QED  BY <1>6, <2>3, <2>4 DEF TrashMoveFails
<1>7. CASE TrashDone
  <2>1. RunOK'  BY <1>7 DEF TrashDone, Goto, RunOK, IsMove, planVars, workVars, tickVars
  <2>. QED  BY <1>7, <2>1 DEF TrashDone, NoFault
<1>. QED  BY <1>1, <1>2, <1>3, <1>4, <1>5, <1>6, <1>7

\* One file's upload or rename.
LEMMA TransferTyped ==
    ASSUME TypeOK, NEW k \in Key,
           Begin(k) \/ Land(k) \/ PutFails(k) \/ Check(k) \/ CheckGone(k)
           \/ TornDelete(k) \/ TornDeleteFails(k) \/ Move(k)
    PROVE  TypeOK'
<1>. USE StoreValues, StoreUnmoved, FaultTyped DEF TypeOK, envVars
<1>0. ASSUME NEW s \in {"queued", "sending", "sent", "done", "failed"}, JobTo(k, s),
             UNCHANGED transferRest,
             pre' \in Entries, landed' \in Entries, retried' \subseteq Key
      PROVE  RunOK'
  BY <1>0 DEF RunOK, IsMove, JobTo, transferRest, planVars
<1>1. CASE Begin(k)
  <2>1. RunOK'  BY <1>0, <1>1 DEF Begin, RunOK, Entries
  <2>. QED  BY <1>1, <2>1 DEF Begin
<1>2. CASE Land(k)
  <2>1. Sent(k) \subseteq Content \cup {None}
    BY DEF Sent, RunOK, Entries, Content
  <2>2. StoreOK'
    <3>1. PICK c \in Sent(k) : StorePut(k, c)  BY <1>2 DEF Land
    <3>. QED  BY <1>2, <2>1, <3>1, StorePutTyped DEF Land, StoreOK
  <2>3. RunOK'  BY <1>0, <1>2 DEF Land, RunOK
  <2>. QED  BY <1>2, <2>2, <2>3 DEF Land, NoFault
<1>3. CASE PutFails(k)
  <2>1. \A c \in Sent(k) : [current EXCEPT ![k] = c] \in Objects
    BY DEF Sent, RunOK, Entries, Content, StoreOK, Objects
  <2>2. StoreOK'  BY <1>3, <2>1, SetStoreTyped DEF PutFails, StoreOK
  <2>3. RunOK'  BY <1>0, <1>3 DEF PutFails, RunOK
  <2>. QED  BY <1>3, <2>2, <2>3 DEF PutFails
<1>4. CASE Check(k)
  <2>1. RunOK'  BY <1>0, <1>4 DEF Check, RunOK, Entries
  <2>. QED  BY <1>4, <2>1 DEF Check, NoFault
<1>5. CASE CheckGone(k)
  <2>1. RunOK'  BY <1>0, <1>5 DEF CheckGone, RunOK
  <2>. QED  BY <1>5, <2>1 DEF CheckGone
<1>6. CASE TornDelete(k)
  <2>1. StoreOK'  BY <1>6, StoreDeleteTyped DEF TornDelete, StoreOK
  <2>2. RunOK'  BY <1>0, <1>6 DEF TornDelete, RunOK
  <2>. QED  BY <1>6, <2>1, <2>2 DEF TornDelete, NoFault
<1>7. CASE TornDeleteFails(k)
  <2>1. RunOK'  BY <1>0, <1>7 DEF TornDeleteFails, RunOK
  <2>2. StoreOK'
    BY <1>7, StoreDeleteTyped, SetStoreTyped DEF TornDeleteFails, StoreOK
  <2>. QED  BY <1>7, <2>1, <2>2 DEF TornDeleteFails
<1>8. CASE Move(k)
  <2>. DEFINE from == source[k]
              copied == [current EXCEPT ![k] = Read(from)]
              whole  == [copied EXCEPT ![from] = None]
  <2>1. from \in Key  BY <1>8 DEF Move, IsMove, RunOK
  <2>2. copied \in Objects /\ whole \in Objects
    BY <2>1 DEF StoreOK, Objects
  <2>3. /\ [Drops(k) EXCEPT ![from] = None] \in Objects
        /\ packing \/ [Drops(k) EXCEPT ![from] = None] = Nothing
    BY DEF StoreOK, Objects, Drops, Nothing
  <2>4. \/ SetStore(current, spool, trash)
        \/ SetStore(copied, spool, trash)
        \/ SetStore(whole, spool, trash)
        \/ SetStore(whole, [Drops(k) EXCEPT ![from] = None], trash)
    BY <1>8 DEF Move
  <2>5. StoreOK'
    BY <1>8, <2>2, <2>3, <2>4, SetStoreTyped DEF Move, StoreOK
  <2>6. RunOK'  BY <1>0, <1>8 DEF Move, RunOK
  <2>7. faults' \in 0..MaxFaults  BY <1>8 DEF Move
  <2>. QED  BY <1>8, <2>5, <2>6, <2>7 DEF Move
<1>. QED  BY <1>1, <1>2, <1>3, <1>4, <1>5, <1>6, <1>7, <1>8

\* The end of the transfer, and the checkpointer beside it.
LEMMA CheckpointTyped ==
    ASSUME TypeOK, EndTransfer \/ DeleteMany \/ Checkpointer
    PROVE  TypeOK'
<1>. USE StoreValues, StoreUnmoved, FaultTyped DEF TypeOK, envVars
<1>1. CASE EndTransfer
  <2>1. RunOK'  BY <1>1 DEF EndTransfer, Goto, RunOK, IsMove, planVars, workVars, tickVars
  <2>. QED  BY <1>1, <2>1 DEF EndTransfer, NoFault
<1>2. CASE DeleteMany
  <2>1. StoreOK'  BY <1>2, StoreDeleteTyped DEF DeleteMany, StoreOK
  <2>2. RunOK'  BY <1>2 DEF DeleteMany, Goto, RunOK, IsMove, planVars, workVars, tickVars
  <2>. QED  BY <1>2, <2>1, <2>2 DEF DeleteMany
<1>3. CASE TickTake
  <2>1. RunOK'  BY <1>3 DEF TickTake, RunOK, IsMove, planVars, workVars
  <2>. QED  BY <1>3, <2>1 DEF TickTake, NoFault
<1>4. CASE TickAsk
  <2>1. \/ UNCHANGED storeVars
        \/ SaveAll /\ UNCHANGED failed
        \/ SetStore(Sealed, Nothing, trash) /\ UNCHANGED failed
        \/ SetStore(current, Nothing, trash) /\ failed' = TRUE
    BY <1>4 DEF TickAsk, IndexFails, SealFails
  <2>2. StoreOK'
    BY <2>1, SetStoreTyped DEF SaveAll, StoreOK
  <2>3. RunOK'  BY <1>4 DEF TickAsk, RunOK, IsMove, planVars, workVars
  <2>4. faults' \in 0..MaxFaults  BY <1>4 DEF TickAsk
  <2>. QED  BY <1>4, <2>2, <2>3, <2>4 DEF TickAsk
<1>5. CASE TickEnd
  <2>1. landed' \in Entries /\ index' \in Entries
    BY <1>5 DEF TickEnd, Requeued, Records, RunOK, Entries
  <2>2. RunOK'  BY <1>5, <2>1 DEF TickEnd, RunOK, IsMove, planVars, workVars
  <2>. QED  BY <1>5, <2>1, <2>2 DEF TickEnd
<1>. QED  BY <1>1, <1>2, <1>3, <1>4, <1>5 DEF Checkpointer

\* The end of a run: flush, record, tidy and close.
LEMMA EndingTyped ==
    ASSUME TypeOK,
           \/ Flush \/ Record \/ Forget \/ MovesDone \/ Salvage \/ Note \/ Prune \/ Close
           \/ \E k \in Key : RecordMove(k)
    PROVE  TypeOK'
<1>. USE StoreValues, StoreUnmoved, FlushTyped, FaultTyped DEF TypeOK, envVars
<1>0. ASSUME NEW p \in {"record", "forget", "moves", "tidy", "note", "closing"},
             NEW left \in SUBSET Key, Goto(p, left), UNCHANGED recordRest, StoreOK',
             index' \in Entries, Fault \/ NoFault \/ RequestFails,
             p = "moves" => \A k \in left : IsMove(k)
      PROVE  TypeOK'
  <2>1. RunOK'  BY <1>0 DEF Goto, RunOK, IsMove, recordRest, planVars, workVars, tickVars
  <2>. QED  BY <1>0, <2>1 DEF recordRest
<1>1. CASE Flush
  BY <1>0, <1>1 DEF Flush
<1>2. CASE Record
  <2>1. index' \in Entries  BY <1>2 DEF Record, Records, RunOK, Entries
  <2>. QED  BY <1>0, <1>2, <2>1 DEF Record
<1>3. CASE Forget
  <2>1. index' \in Entries  BY <1>3 DEF Forget, RunOK, Entries
  <2>2. Moved \subseteq Key /\ \A k \in Moved : IsMove(k)  BY DEF Moved
  <2>. QED  BY <1>0, <1>3, <2>1, <2>2 DEF Forget
<1>4. ASSUME NEW k \in Key, RecordMove(k)  PROVE TypeOK'
  <2>0. source[k] \in Key  BY <1>4 DEF RecordMove, RunOK, IsMove
  <2>1. index' \in Entries
    BY <1>4, <2>0 DEF RecordMove, RunOK, Entries
  <2>2. Goto("moves", todo \ {k}) \/ Goto("moves", todo) \/ Goto("closing", {})
    BY <1>4 DEF RecordMove, Goto
  <2>3. todo \subseteq Key /\ \A t \in todo : IsMove(t)
    BY <1>4 DEF RunOK, RecordMove
  <2>4. Fault \/ NoFault  BY <1>4 DEF RecordMove
  <2>. QED  BY <1>0, <1>4, <2>1, <2>2, <2>3, <2>4 DEF RecordMove
<1>5. CASE MovesDone
  BY <1>0, <1>5 DEF MovesDone, NoFault
<1>6. CASE Salvage
  BY <1>0, <1>6 DEF Salvage
<1>7. CASE Note
  <2>1. index' \in Entries  BY <1>7 DEF Note, Records, RunOK, Entries
  <2>. QED  BY <1>0, <1>7, <2>1 DEF Note
<1>8. CASE Prune
  <2>1. \E bin \in SUBSET TrashEntry : SetStore(current, spool, bin)
    BY <1>8 DEF Prune, Due, StoreOK
  <2>2. StoreOK'  BY <1>8, <2>1, SetStoreTyped DEF Prune, tidyRest, StoreOK
  <2>3. RunOK'  BY <1>8 DEF Prune, Goto, tidyRest, RunOK, IsMove, planVars, workVars, tickVars
  <2>4. claimed' \in BOOLEAN /\ faults' \in 0..MaxFaults  BY <1>8 DEF Prune, ClaimDailyPrune
  <2>. QED  BY <1>8, <2>2, <2>3, <2>4 DEF Prune, tidyRest
<1>9. CASE Close
  <2>1. RunOK'  BY <1>9 DEF Close, RunOver, RunOK, Nothing
  <2>. QED  BY <1>9, <2>1 DEF Close
<1>. QED  BY <1>1, <1>2, <1>3, <1>4, <1>5, <1>6, <1>7, <1>8, <1>9

\* The empty folder of an idle run is well typed.
LEMMA InitTyped == Init => TypeOK
<1>. SUFFICES ASSUME Init PROVE TypeOK
  OBVIOUS
<1>1. disk \in Entries /\ Entries \subseteq Objects
  BY DEF Init, Entries, Objects, Content
<1>2. Nothing \in Entries /\ Nothing \in Objects
  BY DEF Nothing, Entries, Objects
<1>3. StoreOK  BY <1>1, <1>2, SwitchAssumption DEF Init, StoreOK
<1>4. RunOK  BY <1>2 DEF Init, RunAtRest, RunOK, Nothing
<1>5. /\ edits \in 0..MaxEdits /\ faults \in 0..MaxFaults
      /\ stops \in 0..MaxStops /\ day \in 0..MaxDays
  BY BoundAssumption DEF Init
<1>6. index \in Entries /\ claimed \in BOOLEAN
  BY <1>1 DEF Init
<1>. QED  BY <1>1, <1>3, <1>4, <1>5, <1>6 DEF TypeOK

LEMMA NextTyped == TypeOK /\ [Next]_vars => TypeOK'
<1>. SUFFICES ASSUME TypeOK, [Next]_vars PROVE TypeOK'
  OBVIOUS
<1>1. CASE UNCHANGED vars
  <2>1. UNCHANGED <<storeVars, runVars, envVars, disk, index, claimed, faults>>
    BY <1>1 DEF vars
  <2>. QED  BY <2>1, StoreUnmoved, RunUnmoved DEF TypeOK, envVars
<1>2. CASE People \/ Midnight \/ Crash \/ Exit
  BY <1>2, WorldTyped
<1>3. CASE Checkpointer
  BY <1>3, CheckpointTyped
<1>4. CASE Engine
  BY <1>4, TransferTyped, CheckpointTyped DEF Engine
<1>5. CASE Run
  BY <1>4, <1>5, BeginningTyped, EndingTyped DEF Run
<1>. QED  BY <1>1, <1>2, <1>3, <1>5 DEF Next

\* Every variable of Backup stays in its domain, for any keys, versions and
\* bounds, whatever fails.
THEOREM TypeInvariant == Spec => []TypeOK
BY InitTyped, NextTyped, PTL DEF Spec

(***************************************************************************)
(* Records are written only for what storage holds.                        *)
(*                                                                         *)
(* A file that has landed is followed from its upload to its record: every *)
(* write to the store spares it, and it is safe from the moment the store  *)
(* has answered a checkpoint or a flush.                                   *)
(***************************************************************************)

\* The store still reads j as it did, or knows that it lost a pack, and what
\* was saved of j stays saved.
Spares(j) == /\ failed => failed'
             /\ failed' \/ Read(j)' = Read(j)
             /\ \A v \in Version : Safe(j, v) => Safe(j, v)'

\* Files that have landed and are not yet recorded.
Followed(j) == landed[j] # None \/ batch[j] # None

\* Writes that concern other keys, and packs that are lost on record.
LEMMA UnmovedSpares ==
    ASSUME UNCHANGED storeVars, NEW j \in Key
    PROVE  Spares(j)
BY DEF Spares, Read, Safe, storeVars

LEMMA PutSpares ==
    ASSUME StoreOK, NEW k \in Key, NEW c, StorePut(k, c), UNCHANGED failed,
           NEW j \in Key, j # k
    PROVE  Spares(j)
BY DEF Spares, Read, Safe, StorePut, SetStore, Sealed, Nothing, StoreOK, Objects

LEMMA DeleteSpares ==
    ASSUME StoreOK, NEW gone, StoreDelete(gone), UNCHANGED failed, NEW j \in Key, j \notin gone
    PROVE  Spares(j)
BY DEF Spares, Read, Safe, StoreDelete, SetStore, StoreOK, Objects

LEMMA SetStoreSpares ==
    ASSUME NEW cur, NEW pack, NEW bin, SetStore(cur, pack, bin), failed => failed',
           NEW j \in Key, cur[j] = current[j], pack[j] = spool[j] \/ (pack[j] = None /\ failed')
    PROVE  Spares(j)
BY DEF Spares, Read, Safe, SetStore

\* Files followed keep what is known of them when a step spares them and leaves
\* the lists alone.
LEMMA Carried ==
    ASSUME Accounted, Apart', Reported', Uploading', Ticking', UNCHANGED tickVars, TypeOK,
           \A j \in Key : Followed(j) => Spares(j),
           \A j \in Key : job'[j] = "sent" /\ disk'[j] = pre'[j]
               => \/ job[j] = "sent" /\ disk[j] = pre[j] /\ pre'[j] = pre[j] /\ Spares(j)
                  \/ failed' \/ Read(j)' = pre'[j],
           phase' \in {"transfer", "delete", "flush", "salvage"}
               => phase \in {"transfer", "delete", "flush", "salvage"} \/ landed = Nothing,
           phase' \in {"record", "note"} => phase \in {"record", "note"}
    PROVE  Accounted'
<1>1. \A j \in Key : landed[j] \in Version \cup {None} /\ batch[j] \in Version \cup {None}
  BY DEF TypeOK, RunOK, Entries
<1>2. Readable(landed) => Readable(landed)'
  BY DEF Readable, Spares, Followed, tickVars
<1>3. Readable(batch) => Readable(batch)'
  BY DEF Readable, Spares, Followed, tickVars
<1>4. (AllSafe(batch) => AllSafe(batch)') /\ (AllSafe(landed) => AllSafe(landed)')
  BY <1>1 DEF AllSafe, Spares, Followed, tickVars
<1>5. landed = Nothing => Readable(landed)'
  BY DEF Readable, tickVars, Nothing
<1>6. Whole'
  BY DEF Accounted, Whole, Spares
<1>. QED  BY <1>2, <1>3, <1>4, <1>5, <1>6 DEF Accounted, tickVars

\* A run that is over, or has not begun, follows nothing.
LEMMA RunOverAccounted ==
    ASSUME RunOver
    PROVE  Accounted'
BY NoneAssumption
DEF RunOver, Accounted, Apart, Reported, Uploading, Whole, InUpload, Ticking, Readable,
    AllSafe, IsMove, Nothing

\* People, the clock and the machine.
LEMMA WorldAccounted ==
    ASSUME TypeOK, Accounted, People \/ Midnight \/ Crash \/ Exit
    PROVE  Accounted'
<1>1. ASSUME UNCHANGED storeVars, UNCHANGED runVars \/ (Cancel /\ UNCHANGED disk),
             \A k \in Key : InUpload(k) => disk'[k] \in {disk[k], None} \/ disk'[k] # pre[k]
      PROVE  Accounted'
  <2>1. UNCHANGED <<phase, job, pre, source, deletes, landed, batch, tick>>
    BY <1>1 DEF Cancel, runVars, planVars, workVars, tickVars
  <2>2. Apart' /\ Reported' /\ Uploading' /\ Ticking'
    BY <2>1 DEF Accounted, Apart, Reported, Uploading, InUpload, Ticking, IsMove, Nothing
  <2>3. \A j \in Key : job'[j] = "sent" /\ disk'[j] = pre'[j] => disk[j] = pre[j]
    BY <1>1, <2>1 DEF Accounted, Uploading, InUpload
  <2>. QED  BY <1>1, <2>1, <2>2, <2>3, UnmovedSpares, Carried DEF tickVars
<1>2. CASE \E k \in Key : Remove(k) \/ \E v \in Version : Save(k, v)
  BY <1>1, <1>2 DEF Remove, Save, TypeOK, Entries
<1>3. CASE \E a, b \in Key : Rename(a, b)
  BY <1>1, <1>3 DEF Rename, TypeOK, Entries
<1>4. CASE Cancel
  BY <1>1, <1>4 DEF Cancel
<1>5. CASE Midnight
  BY <1>1, <1>5 DEF Midnight
<1>6. CASE Crash
  BY <1>6, RunOverAccounted DEF Crash
<1>7. CASE Exit
  <2>1. /\ landed = Nothing /\ batch = Nothing /\ \A j \in Key : job[j] # "sent"
        /\ UNCHANGED <<phase, job, pre, source, deletes, landed, batch, tick>>
    BY <1>7 DEF Exit, Accounted, Ticking, Uploading, InUpload, runVars, planVars, workVars,
                tickVars
  <2>2. Apart' /\ Reported' /\ Uploading' /\ Ticking'
    BY <2>1 DEF Accounted, Apart, Reported, Uploading, InUpload, Ticking, IsMove, Nothing
  <2>. QED  BY <2>1, <2>2, Carried DEF Nothing, Followed, tickVars
<1>. QED  BY <1>2, <1>3, <1>4, <1>5, <1>6, <1>7 DEF People

\* The start of a run: nothing has landed yet, and what the plan sends is
\* neither deleted nor moved away.
LEMMA BeginningAccounted ==
    ASSUME TypeOK, Accounted,
           \/ Start \/ ScanFails \/ Plan \/ TrashDone
           \/ \E k \in Key : Scan(k) \/ TrashMove(k) \/ TrashMoveFails(k)
    PROVE  Accounted'
<1>1. phase \in {"idle", "scan", "trash"} /\ landed = Nothing /\ batch = Nothing
      /\ tick = "idle" /\ UNCHANGED tickVars
  BY DEF Accounted, Ticking, Start, ScanFails, Plan, TrashDone, Scan, TrashMove, TrashMoveFails,
         tickVars
<1>2. phase' \in {"scan", "closing", "tidy", "trash", "transfer"}
  BY DEF Start, ScanFails, Plan, TrashDone, Scan, TrashMove, TrashMoveFails, Goto
<1>3. Reported' /\ Ticking'
  BY <1>1, <1>2 DEF Reported, Ticking, tickVars, Nothing
<1>5. \A j \in Key : job'[j] \notin {"sending", "sent"}
  BY <1>1 DEF Accounted, Uploading, InUpload, Start, ScanFails, Plan, TrashDone, Scan, TrashMove,
         TrashMoveFails, workVars
<1>4. Apart'
  <2>1. CASE Plan
    <3>1. \A k \in Key : job'[k] # "none" => seen[k] # None
      BY <2>1 DEF Plan, Candidate, Changed
    <3>2. \A k \in deletes' : seen[k] = None
      BY <2>1 DEF Plan, Vanished
    <3>3. \A k, t \in Key : source'[t] = k => seen[k] = None
      BY <2>1, NoneAssumption DEF Plan, Match, Vanished
    <3>. QED  BY <3>1, <3>2, <3>3 DEF Apart
  <2>2. CASE ~Plan
    BY <2>2 DEF Accounted, Apart, Start, ScanFails, TrashDone, Scan, TrashMove,
                TrashMoveFails, planVars, workVars
  <2>. QED  BY <2>1, <2>2
<1>6. Uploading' /\ \A j \in Key : job[j] # "sent"
  BY <1>1, <1>5 DEF Uploading, InUpload, Accounted
<1>. QED  BY <1>1, <1>2, <1>3, <1>4, <1>5, <1>6, Carried DEF Nothing, Followed

\* One file's upload or rename: the files that have landed are other ones.
LEMMA TransferAccounted ==
    ASSUME TypeOK, Accounted, NEW k \in Key,
           Begin(k) \/ Land(k) \/ PutFails(k) \/ Check(k) \/ CheckGone(k)
           \/ TornDelete(k) \/ TornDeleteFails(k) \/ Move(k)
    PROVE  Accounted'
<1>1. \A j \in Key : Followed(j) \/ job[j] = "sent"
                     => j \notin deletes /\ \A t \in Key : source[t] # j
  BY DEF Accounted, Apart, Reported, Followed
<1>2. phase = "transfer" /\ job[k] \in {"queued", "sending", "sent"}
  BY DEF Begin, Land, PutFails, Check, CheckGone, TornDelete, TornDeleteFails, Move, Working
<1>3. \A j \in Key : Followed(j) => j # k
  BY <1>2 DEF Accounted, Reported, Followed
<1>4. /\ UNCHANGED transferRest
      /\ \E s \in {"queued", "sending", "sent", "done", "failed"} :
             job' = [job EXCEPT ![k] = s]
      /\ \A j \in Key : j # k => pre'[j] = pre[j]
      /\ UNCHANGED disk
  BY DEF Begin, Land, PutFails, Check, CheckGone, TornDelete, TornDeleteFails, Move, JobTo,
         TypeOK, RunOK, Entries
<1>5. job \in [Key -> {"none", "queued", "sending", "sent", "done", "failed"}]
  BY DEF TypeOK, RunOK
<1>6. Apart'
  BY <1>2, <1>4, <1>5 DEF Accounted, Apart, transferRest, planVars
<1>7. ASSUME UNCHANGED landed,
             \A j \in Key : (Followed(j) \/ job[j] = "sent") /\ j # k => Spares(j),
             job'[k] \in {"sending", "sent"} => pre'[k] # None /\ ~IsMove(k),
             job'[k] = "sent" /\ disk[k] = pre'[k] => failed' \/ Read(k)' = pre'[k]
      PROVE  Accounted'
  <2>0. UNCHANGED tickVars  BY <1>4, <1>7 DEF transferRest, tickVars
  <2>1. Reported'
    BY <1>3, <1>4, <1>5, <1>7 DEF Accounted, Reported, Followed, IsMove, transferRest, planVars
  <2>2. Ticking'
    BY <1>4, <1>7 DEF Accounted, Ticking, transferRest
  <2>3. Uploading'
    BY <1>2, <1>4, <1>5, <1>7 DEF Accounted, Uploading, InUpload, IsMove, transferRest, planVars
  <2>4. \A j \in Key : job'[j] = "sent" /\ disk'[j] = pre'[j]
            => \/ job[j] = "sent" /\ disk[j] = pre[j] /\ pre'[j] = pre[j] /\ Spares(j)
               \/ failed' \/ Read(j)' = pre'[j]
    BY <1>4, <1>5, <1>7
  <2>5. phase' = phase  BY <1>4 DEF transferRest
  <2>. QED  BY <1>2, <1>3, <1>6, <1>7, <2>0, <2>1, <2>2, <2>3, <2>4, <2>5, Carried
<1>8. k \in DOMAIN job /\ job \in [Key -> {"none", "queued", "sending", "sent", "done", "failed"}]
      /\ pre \in Entries /\ landed \in Entries
  BY DEF TypeOK, RunOK
<1>9. CASE Begin(k) \/ CheckGone(k)
  <2>1. job'[k] \in {"sending", "failed"} /\ (job'[k] = "sending" => pre'[k] # None /\ ~IsMove(k))
    BY <1>8, <1>9 DEF Begin, CheckGone, JobTo, Entries
  <2>2. UNCHANGED <<storeVars, landed>>
    BY <1>9 DEF Begin, CheckGone
  <2>. QED  BY <1>7, <2>1, <2>2, UnmovedSpares
<1>10. CASE Land(k)
  <2>1. PICK c \in Sent(k) : StorePut(k, c)  BY <1>10 DEF Land
  <2>2. \A j \in Key : j # k => Spares(j)
    BY <1>10, <2>1, PutSpares DEF TypeOK, Land
  <2>3. job[k] = "sending" /\ job'[k] = "sent" /\ UNCHANGED <<pre, landed>>
    BY <1>8, <1>10 DEF Land, Working, JobTo
  <2>4. pre[k] # None /\ ~IsMove(k)
    BY <2>3 DEF Accounted, Uploading, InUpload
  <2>5. disk[k] = pre[k] => c = pre[k]  BY <2>1 DEF Sent
  <2>6. c # None  BY <2>4, NoneAssumption DEF Sent
  <2>7. Read(k)' = c
    <3>1. /\ [current EXCEPT ![k] = c][k] = c /\ [spool EXCEPT ![k] = c][k] = c
          /\ [Sealed EXCEPT ![k] = c][k] = c /\ Nothing[k] = None
      BY DEF TypeOK, StoreOK, Objects, Sealed, Nothing
    <3>2. spool'[k] = c \/ (current'[k] = c /\ spool'[k] = None)
      BY <2>1, <3>1 DEF StorePut, SetStore, TypeOK, StoreOK
    <3>. QED  BY <2>6, <3>2 DEF Read
  <2>. QED  BY <1>7, <2>2, <2>3, <2>4, <2>5, <2>7
<1>11. CASE PutFails(k)
  <2>1. job'[k] = "failed" /\ UNCHANGED landed
    BY <1>8, <1>11 DEF PutFails, JobTo
  <2>2. ASSUME NEW j \in Key, j # k  PROVE Spares(j)
    <3>1. CASE SetStore(current, spool, trash) /\ UNCHANGED failed
      BY <3>1, <2>2, SetStoreSpares
    <3>2. CASE UNCHANGED failed /\ \E c \in Sent(k) :
                   SetStore([current EXCEPT ![k] = c], spool, trash)
      <4>1. PICK c \in Sent(k) : SetStore([current EXCEPT ![k] = c], spool, trash)
        BY <3>2
      <4>2. [current EXCEPT ![k] = c][j] = current[j]
        BY <2>2 DEF TypeOK, StoreOK, Objects
      <4>. QED  BY <2>2, <3>2, <4>1, <4>2, SetStoreSpares
    <3>3. CASE SetStore(current, Nothing, trash) /\ failed' = TRUE
      BY <2>2, <3>3, SetStoreSpares DEF Nothing
    <3>. QED  BY <1>11, <3>1, <3>2, <3>3 DEF PutFails
  <2>. QED  BY <1>7, <2>1, <2>2
<1>12. CASE TornDelete(k) \/ TornDeleteFails(k)
  <2>1. StoreDelete({k}) \/ SetStore(current, spool, trash)
    BY <1>12 DEF TornDelete, TornDeleteFails
  <2>2. UNCHANGED <<failed, landed>>
    BY <1>12 DEF TornDelete, TornDeleteFails
  <2>3. \A j \in Key : j # k => Spares(j)
    BY <2>1, <2>2, DeleteSpares, SetStoreSpares DEF TypeOK
  <2>4. job'[k] \in {"failed", "queued"}
    BY <1>8, <1>12 DEF TornDelete, TornDeleteFails, JobTo
  <2>. QED  BY <1>7, <2>2, <2>3, <2>4
<1>13. CASE Move(k)
  <2>. DEFINE from == source[k]
              copied == [current EXCEPT ![k] = Read(from)]
              whole  == [copied EXCEPT ![from] = None]
  <2>1. \/ SetStore(current, spool, trash)
        \/ SetStore(copied, spool, trash)
        \/ SetStore(whole, spool, trash)
        \/ SetStore(whole, [Drops(k) EXCEPT ![from] = None], trash)
    BY <1>13 DEF Move
  <2>2. ASSUME NEW j \in Key, j # k, j # from
        PROVE  /\ copied[j] = current[j] /\ whole[j] = current[j]
               /\ [Drops(k) EXCEPT ![from] = None][j] = spool[j]
    BY <2>2 DEF TypeOK, StoreOK, Objects, Drops
  <2>3. UNCHANGED failed /\ UNCHANGED landed  BY <1>13 DEF Move
  <2>4. ASSUME NEW j \in Key, j # k, j # from  PROVE Spares(j)
    BY <2>1, <2>2, <2>3, <2>4, SetStoreSpares
  <2>5. job'[k] \in {"done", "failed"}
    BY <1>8, <1>13 DEF Move, JobTo
  <2>. QED  BY <1>1, <1>7, <2>3, <2>4, <2>5
<1>14. CASE Check(k)
  <2>1. /\ landed' = [landed EXCEPT ![k] = pre[k]] /\ job' = [job EXCEPT ![k] = "done"]
        /\ UNCHANGED <<storeVars, disk, pre, phase, source, deletes, batch, tick>>
        /\ job[k] = "sent" /\ disk[k] = pre[k]
    BY <1>14 DEF Check, Working, JobTo, transferRest, planVars
  <2>2. ~IsMove(k) /\ (failed \/ Read(k) = pre[k])
    BY <2>1 DEF Accounted, Uploading, InUpload, Whole
  <2>3. Reported'
    BY <1>8, <2>1, <2>2 DEF Accounted, Reported, IsMove
  <2>4. Uploading' /\ Whole' /\ Ticking'
    BY <1>2, <1>8, <2>1 DEF Accounted, Uploading, InUpload, Whole, Ticking, Read, IsMove, storeVars
  <2>5. Readable(landed)'
    BY <1>2, <1>8, <2>1, <2>2 DEF Accounted, Readable, Read, storeVars
  <2>6. /\ Readable(batch) => Readable(batch)'
        /\ AllSafe(batch) => AllSafe(batch)'
    BY <2>1 DEF Readable, AllSafe, Read, Safe, storeVars
  <2>. QED  BY <1>2, <1>6, <2>1, <2>3, <2>4, <2>5, <2>6 DEF Accounted
<1>. QED  BY <1>9, <1>10, <1>11, <1>12, <1>13, <1>14

\* The end of the transfer: deletes spare what was sent.
LEMMA EngineEndAccounted ==
    ASSUME TypeOK, Accounted, EndTransfer \/ DeleteMany
    PROVE  Accounted'
<1>1. /\ phase \in {"transfer", "delete"} /\ phase' \in {"salvage", "delete", "flush"}
      /\ UNCHANGED <<job, pre, disk, source, deletes, landed, batch, tick>>
      /\ \A j \in Key : ~InUpload(j)
  BY DEF EndTransfer, DeleteMany, Goto, Accounted, Uploading, InUpload, planVars, workVars,
         tickVars
<1>2. Apart' /\ Reported' /\ Uploading' /\ Ticking'
  BY <1>1 DEF Accounted, Apart, Reported, Uploading, InUpload, Ticking, IsMove
<1>3. ASSUME NEW j \in Key, Followed(j)  PROVE Spares(j)
  <2>1. j \notin Doomed
    BY <1>3 DEF Accounted, Apart, Reported, Followed, Doomed, Moved
  <2>2. CASE EndTransfer
    BY <2>2, UnmovedSpares DEF EndTransfer
  <2>3. CASE DeleteMany
    <3>1. PICK gone \in SUBSET Doomed : StoreDelete(gone)
      BY <2>3 DEF DeleteMany
    <3>. QED  BY <2>1, <2>3, <3>1, DeleteSpares DEF DeleteMany, TypeOK
  <2>. QED  BY <2>2, <2>3
<1>. QED  BY <1>1, <1>2, <1>3, Carried DEF InUpload, tickVars

\* What a flush or a checkpoint finds readable is safe when it succeeds.
LEMMA SavedIsSafe ==
    ASSUME NEW files, Readable(files), ~failed, SaveAll, StoreOK
    PROVE  \A j \in Key : files[j] # None => current'[j] = files[j] /\ savedCurrent'[j] = files[j]
                                            /\ spool'[j] = None
BY DEF Readable, SaveAll, Sealed, Nothing

\* A write that changes no key's content, but may lose a pack on record.
LEMMA SealSpares ==
    ASSUME StoreOK, \/ SetStore(Sealed, Nothing, trash) /\ UNCHANGED failed
                    \/ SetStore(current, Nothing, trash) /\ failed' = TRUE
                    \/ SaveAll /\ UNCHANGED failed
    PROVE  \A j \in Key : Spares(j)
<1>. SUFFICES ASSUME NEW j \in Key PROVE Spares(j)
  OBVIOUS
<1>1. Nothing[j] = None /\ Sealed[j] = Read(j)  BY DEF Nothing, Sealed
<1>2. CASE SetStore(Sealed, Nothing, trash) /\ UNCHANGED failed
  BY <1>1, <1>2 DEF Spares, SetStore, Read, Safe
<1>3. CASE SetStore(current, Nothing, trash) /\ failed' = TRUE
  BY <1>1, <1>3, SetStoreSpares
<1>4. CASE SaveAll /\ UNCHANGED failed
  BY <1>1, <1>4 DEF Spares, SaveAll, Read, Safe
<1>. QED  BY <1>2, <1>3, <1>4

\* The checkpointer.
LEMMA CheckpointerAccounted ==
    ASSUME TypeOK, Accounted, Checkpointer
    PROVE  Accounted'
<1>0. UNCHANGED <<phase, job, pre, disk, source, deletes>>
  BY DEF Checkpointer, TickTake, TickAsk, TickEnd, planVars, workVars
<1>1. Apart' /\ Uploading'
  BY <1>0 DEF Accounted, Apart, Uploading, InUpload, IsMove
<1>2. CASE TickTake
  <2>1. /\ phase \in {"transfer", "delete"} /\ tick' = "asking" /\ batch' = landed
        /\ landed' = Nothing /\ UNCHANGED storeVars
    BY <1>2 DEF TickTake
  <2>2. Reported' /\ Ticking'
    BY <1>0, <2>1 DEF Accounted, Reported, Ticking, IsMove, Nothing
  <2>3. Readable(batch)' /\ Readable(landed)' /\ Whole'
    BY <1>0, <2>1 DEF Accounted, Readable, Whole, Read, Nothing, storeVars
  <2>. QED  BY <1>0, <1>1, <2>1, <2>2, <2>3 DEF Accounted
<1>3. CASE TickAsk
  <2>1. /\ tick = "asking" /\ tick' \in {"safe", "unsafe"} /\ UNCHANGED <<landed, batch>>
        /\ phase \in {"transfer", "delete", "flush", "salvage"}
    BY <1>3 DEF TickAsk, Accounted, Ticking
  <2>2. Reported' /\ Ticking'
    BY <1>0, <2>1 DEF Accounted, Reported, Ticking, IsMove
  <2>3. \A j \in Key : Spares(j)
    BY <1>3, UnmovedSpares, SealSpares DEF TickAsk, IndexFails, SealFails, TypeOK
  <2>4. Readable(batch)' /\ Readable(landed)' /\ Whole'
    BY <1>0, <2>1, <2>3 DEF Accounted, Readable, Whole, Spares
  <2>5. ASSUME tick' = "safe"  PROVE AllSafe(batch)'
    <3>1. CASE ~Pending /\ UNCHANGED storeVars
      <4>1. Readable(batch)  BY <2>1 DEF Accounted
      <4>. QED  BY <2>1, <3>1, <4>1 DEF Pending, Readable, AllSafe, Safe, Read, Nothing, storeVars
    <3>2. CASE ~failed /\ SaveAll
      <4>1. Readable(batch)  BY <2>1 DEF Accounted
      <4>. QED  BY <2>1, <3>2, <4>1, SavedIsSafe DEF AllSafe, Safe, TypeOK
    <3>. QED  BY <1>3, <2>5, <3>1, <3>2 DEF TickAsk
  <2>. QED  BY <1>0, <1>1, <2>1, <2>2, <2>4, <2>5 DEF Accounted
<1>4. CASE TickEnd
  <2>1. /\ tick \in {"safe", "unsafe"} /\ tick' = "idle" /\ batch' = Nothing
        /\ UNCHANGED storeVars
        /\ phase \in {"transfer", "delete", "flush", "salvage"}
    BY <1>4 DEF TickEnd, Accounted, Ticking
  <2>2. \A j \in Key : landed'[j] # None => landed'[j] = landed[j] \/ landed'[j] = batch[j]
    BY <1>4 DEF TickEnd, Requeued
  <2>3. Reported' /\ Ticking'
    BY <1>0, <2>1, <2>2 DEF Accounted, Reported, Ticking, IsMove, Nothing
  <2>4. Readable(batch)
    BY <2>1 DEF Accounted, AllSafe, Readable, Safe, Read
  <2>5. Readable(landed)' /\ Whole'
    BY <1>0, <2>1, <2>2, <2>4 DEF Accounted, Readable, Whole, Read, storeVars
  <2>. QED  BY <1>0, <1>1, <2>1, <2>3, <2>5 DEF Accounted
<1>. QED  BY <1>2, <1>3, <1>4 DEF Checkpointer

\* The end of a run: what landed is safe when the records are written.
LEMMA EndingAccounted ==
    ASSUME TypeOK, Accounted,
           \/ Flush \/ Record \/ Forget \/ MovesDone \/ Salvage \/ Note \/ Prune \/ Close
           \/ \E k \in Key : RecordMove(k)
    PROVE  Accounted'
<1>1. CASE Close
  BY <1>1, RunOverAccounted DEF Close
<1>2. CASE ~Close
  <2>1. /\ UNCHANGED <<job, pre, source, deletes, disk, landed, batch, tick>>
        /\ phase \in {"flush", "record", "forget", "moves", "salvage", "note", "tidy"}
        /\ phase' \in {"record", "forget", "moves", "note", "tidy", "closing"}
    BY <1>2 DEF Flush, Record, Forget, MovesDone, Salvage, Note, Prune, RecordMove, Goto,
                recordRest, tidyRest, planVars, workVars, tickVars
  <2>2. tick = "idle" /\ batch = Nothing /\ \A j \in Key : ~InUpload(j)
    <3>1. phase \in {"flush", "salvage"} => Flush \/ Salvage
      BY <1>2 DEF Record, Forget, MovesDone, Note, Prune, RecordMove
    <3>2. tick = "idle"
      BY <2>1, <3>1 DEF Flush, Salvage, Accounted, Ticking
    <3>3. phase # "transfer"
      BY <2>1
    <3>. QED  BY <3>2, <3>3 DEF Accounted, Ticking, Uploading
  <2>3. Apart' /\ Reported' /\ Uploading' /\ Ticking' /\ Whole'
    BY <2>1, <2>2 DEF Accounted, Apart, Reported, Uploading, InUpload, Ticking, IsMove, Whole
  <2>4. ASSUME phase' \in {"record", "note"}  PROVE AllSafe(landed)'
    BY <1>2, <2>1, <2>4, SavedIsSafe
    DEF Flush, Salvage, Record, Forget, MovesDone, Note, Prune, RecordMove, Goto, FlushOk,
        Accounted, AllSafe, Safe, TypeOK
  <2>. QED  BY <2>1, <2>2, <2>3, <2>4 DEF Accounted
<1>. QED  BY <1>1, <1>2

\* Nothing is sent or listed at the start.
LEMMA InitAccounted == Init => Accounted
BY NoneAssumption
DEF Init, RunAtRest, Accounted, Apart, Reported, Uploading, Whole, InUpload, Ticking, Readable,
    AllSafe, IsMove, Nothing

LEMMA NextAccounted == TypeOK /\ Accounted /\ [Next]_vars => Accounted'
<1>. SUFFICES ASSUME TypeOK, Accounted, [Next]_vars PROVE Accounted'
  OBVIOUS
<1>1. CASE UNCHANGED vars
  <2>1. UNCHANGED <<storeVars, phase, job, pre, source, deletes, landed, batch, tick, disk>>
    BY <1>1 DEF vars, runVars, planVars, workVars, tickVars
  <2>2. Apart' /\ Reported' /\ Uploading' /\ Ticking'
    BY <2>1 DEF Accounted, Apart, Reported, Uploading, InUpload, Ticking, IsMove, Nothing
  <2>. QED  BY <2>1, <2>2, UnmovedSpares, Carried DEF tickVars
<1>2. CASE People \/ Midnight \/ Crash \/ Exit
  BY <1>2, WorldAccounted
<1>3. CASE Checkpointer
  BY <1>3, CheckpointerAccounted
<1>4. CASE Engine
  BY <1>4, TransferAccounted, EngineEndAccounted DEF Engine
<1>5. CASE Run
  BY <1>4, <1>5, BeginningAccounted, EndingAccounted DEF Run
<1>. QED  BY <1>1, <1>2, <1>3, <1>5 DEF Next

\* From an upload's second stat to its record, and through any number of
\* checkpoints, lost packs, renames and deletes of other files, the store
\* still reads what was sent or knows that it lost a pack; and what a
\* checkpoint or a flush has answered for is saved.
THEOREM AccountedInvariant == Spec => []Accounted
<1>1. TypeOK /\ Accounted /\ [Next]_vars => Accounted'
  BY NextAccounted
<1>. QED  BY <1>1, InitAccounted, TypeInvariant, PTL DEF Spec

\* The steps that write the index, and what they write.
LEMMA IndexWrites ==
    ASSUME TypeOK, [Next]_vars, NEW k \in Key, index'[k] \notin {None, index[k]}, ~IsMove(k)
    PROVE  \/ tick = "safe" /\ index'[k] = batch[k]
           \/ phase \in {"record", "note"} /\ index'[k] = landed[k]
<1>1. CASE TickEnd
  BY <1>1 DEF TickEnd, Records
<1>2. CASE Record \/ Note
  BY <1>2 DEF Record, Note, Records
<1>3. CASE Forget
  BY <1>3 DEF Forget
<1>4. ASSUME NEW to \in Key, RecordMove(to)  PROVE FALSE
  <2>1. IsMove(to) /\ k # to
    BY <1>4 DEF RecordMove, TypeOK, RunOK
  <2>2. index'[k] \in {None, index[k]}
    BY <1>4, <2>1 DEF RecordMove, TypeOK, Entries
  <2>. QED  BY <2>2
<1>5. ASSUME UNCHANGED index  PROVE FALSE
  BY <1>5
<1>6. \/ TickEnd \/ Record \/ Note \/ Forget \/ \E to \in Key : RecordMove(to)
      \/ UNCHANGED index
  <2>1. CASE UNCHANGED vars  BY <2>1 DEF vars
  <2>2. CASE People \/ Midnight \/ Crash \/ Exit
    BY <2>2 DEF People, Remove, Save, Rename, Cancel, Midnight, Crash, Exit
  <2>3. CASE Checkpointer
    BY <2>3 DEF Checkpointer, TickTake, TickAsk
  <2>4. CASE Engine
    BY <2>4 DEF Engine, Begin, Land, PutFails, Check, CheckGone, TornDelete, TornDeleteFails,
                Move, EndTransfer, DeleteMany
  <2>5. CASE Run
    BY <2>4, <2>5 DEF Run, Start, ScanFails, Plan, TrashDone, Scan, TrashMove, TrashMoveFails,
                      Flush, MovesDone, Salvage, Prune, Close, tidyRest
  <2>. QED  BY <2>1, <2>2, <2>3, <2>4, <2>5 DEF Next
<1>. QED  BY <1>1, <1>2, <1>3, <1>4, <1>5, <1>6

\* Whenever a version enters the record of a file the run uploads, storage has
\* it: "only what genuinely landed is recorded" (backup.go:316), for any number
\* of files, workers' interleavings, checkpoints, lost packs and crashes.
THEOREM RecordedAfterStored == Spec => NotedOnlyWhenStored
<1>1. ASSUME TypeOK, Accounted, [Next]_vars, NEW k \in Key,
             index'[k] \notin {None, index[k]}, ~IsMove(k)
      PROVE  savedCurrent[k] = index'[k]
  <2>1. CASE tick = "safe" /\ index'[k] = batch[k]
    BY <1>1, <2>1 DEF Accounted, AllSafe, Safe
  <2>2. CASE phase \in {"record", "note"} /\ index'[k] = landed[k]
    BY <1>1, <2>2 DEF Accounted, AllSafe, Safe
  <2>. QED  BY <1>1, <2>1, <2>2, IndexWrites
<1>2. TypeOK /\ Accounted /\ [Next]_vars
      => [\A k \in Key : index'[k] \notin {None, index[k]} /\ ~IsMove(k)
                         => savedCurrent[k] = index'[k]]_vars
  BY <1>1
<1>. QED  BY <1>2, TypeInvariant, AccountedInvariant, PTL DEF Spec, NotedOnlyWhenStored

(***************************************************************************)
(* What a record says was backed up can be got back.                       *)
(*                                                                         *)
(* A version is held when this process finds it, in current/ or in trash,  *)
(* and any other process does too.  Every step but the expiry of trash     *)
(* leaves what is held held, unless a worker writes a key whose version    *)
(* trash does not have.                                                    *)
(***************************************************************************)
InTrash(k, v)  == \E t \in trash : t[1] = k /\ t[2] = v
HeldHere(k, v) == (spool[k] = None /\ current[k] = v) \/ InTrash(k, v)
Held(k, v)     == HeldHere(k, v) /\ Kept(k, v)

\* k's object may be overwritten or deleted by this run.
AtRisk(k) == job[k] \in {"queued", "sending", "sent"} \/ k \in deletes

\* A write of other keys, or of one trash has.
LEMMA WriteHolds ==
    ASSUME NEW cur, NEW pack, NEW bin, SetStore(cur, pack, bin), trash \subseteq bin,
           NEW k \in Key, NEW v, Held(k, v),
           (cur[k] = current[k] /\ pack[k] \in {spool[k], None}) \/ InTrash(k, v)
    PROVE  Held(k, v)'
BY DEF Held, HeldHere, InTrash, Kept, SetStore

\* Trash only grows.
LEMMA TrashGrows ==
    ASSUME NEW k, NEW v, InTrash(k, v), trash \subseteq trash'
    PROVE  InTrash(k, v)'
BY DEF InTrash

LEMMA SealHolds ==
    ASSUME SaveAll \/ SetStore(Sealed, Nothing, trash) \/ SetStore(current, Nothing, trash),
           NEW k \in Key, NEW v, Held(k, v)
    PROVE  Held(k, v)'
<1>1. Nothing[k] = None /\ (spool[k] = None => Sealed[k] = current[k])
  BY DEF Nothing, Sealed, Read
<1>2. CASE SaveAll
  BY <1>1, <1>2 DEF Held, HeldHere, InTrash, Kept, SaveAll
<1>3. CASE SetStore(Sealed, Nothing, trash)
  BY <1>1, <1>3 DEF Held, HeldHere, InTrash, Kept, SetStore
<1>4. CASE SetStore(current, Nothing, trash)
  BY <1>1, <1>4, WriteHolds
<1>. QED  BY <1>2, <1>3, <1>4

\* A flush, however it ends, and the store left alone.
LEMMA FlushHolds ==
    ASSUME FlushOk \/ FlushReports \/ FlushFails \/ UNCHANGED storeVars,
           NEW k \in Key, NEW v, Held(k, v)
    PROVE  Held(k, v)'
<1>1. CASE FlushOk \/ FlushReports
  BY <1>1, SealHolds DEF FlushOk, FlushReports
<1>2. CASE FlushFails
  <2>1. \/ SetStore(Sealed, Nothing, trash)
        \/ SetStore(current, Nothing, trash)
        \/ SetStore(current, spool, trash)
    BY <1>2 DEF FlushFails, SealFails, IndexFails
  <2>. QED  BY <2>1, SealHolds, WriteHolds
<1>3. CASE UNCHANGED storeVars
  BY <1>3 DEF Held, HeldHere, InTrash, Kept, storeVars
<1>. QED  BY <1>1, <1>2, <1>3

LEMMA ReopenHolds ==
    ASSUME Reopened, NEW k \in Key, NEW v, Held(k, v)
    PROVE  Held(k, v)'
BY DEF Held, HeldHere, InTrash, Kept, Reopened, Nothing

\* A move to trash takes what is held of its key along, and leaves the others.
LEMMA TrashHolds ==
    ASSUME StoreOK, NEW j \in Key, TrashMove(j) \/ TrashMoveFails(j),
           NEW k \in Key, NEW v, Held(k, v)
    PROVE  /\ Held(k, v)'
           /\ InTrash(k, v) \/ (k = j /\ TrashMove(j)) => InTrash(k, v)'
<1>1. trash \subseteq Binned(j)
  BY DEF Binned
<1>2. ASSUME k = j, Read(j) # None
      PROVE  \E t \in Binned(j) : t[1] = k /\ t[2] = v
  <2>1. CASE InTrash(k, v)
    BY <1>1, <2>1 DEF InTrash
  <2>2. CASE current[k] = v /\ spool[k] = None
    <3>1. <<k, Read(j), day>> \in Binned(j) /\ Read(j) = v
      BY <1>2, <2>2 DEF Binned, Read
    <3>. QED  BY <3>1
  <2>. QED  BY <2>1, <2>2 DEF Held, HeldHere
<1>3. j # k => Empties(j)[k] = current[k] /\ Drops(j)[k] = spool[k]
  BY DEF Empties, Drops, StoreOK, Objects
<1>4. ASSUME NEW cur \in {current, Empties(j)}, NEW pack \in {spool, Drops(j)},
             SetStore(cur, pack, Binned(j)), Read(j) # None
      PROVE  Held(k, v)' /\ (InTrash(k, v) \/ k = j => InTrash(k, v)')
  <2>1. trash' = Binned(j)  BY <1>4 DEF SetStore
  <2>2. CASE k # j
    BY <1>1, <1>3, <1>4, <2>1, <2>2, WriteHolds, TrashGrows
  <2>3. CASE k = j
    <3>1. InTrash(k, v)'  BY <1>2, <1>4, <2>1, <2>3 DEF InTrash
    <3>2. Kept(k, v)'
      BY <1>4, <3>1 DEF Held, Kept, InTrash, SetStore
    <3>. QED  BY <3>1, <3>2 DEF Held, HeldHere
  <2>. QED  BY <2>2, <2>3
<1>5. CASE SetStore(current, spool, trash) /\ ~TrashMove(j)
  BY <1>5, WriteHolds, TrashGrows DEF SetStore
<1>6. CASE TrashMove(j)
  BY <1>4, <1>6 DEF TrashMove
<1>7. CASE TrashMoveFails(j) /\ ~TrashMove(j) /\ ~SetStore(current, spool, trash)
  BY <1>4, <1>7 DEF TrashMoveFails
<1>. QED  BY <1>4, <1>5, <1>6, <1>7

\* A worker's writes: its own key is one trash has, or one not on record.
LEMMA WorkerHolds ==
    ASSUME StoreOK, source = Nothing, NEW j \in Key,
           \/ Begin(j) \/ Land(j) \/ PutFails(j) \/ Check(j)
           \/ CheckGone(j) \/ TornDelete(j) \/ TornDeleteFails(j) \/ Move(j),
           NEW k \in Key, NEW v, Held(k, v), k # j \/ InTrash(k, v)
    PROVE  Held(k, v)' /\ trash \subseteq trash'
<1>1. CASE UNCHANGED storeVars
  <2>1. Held(k, v)'  BY <1>1, FlushHolds
  <2>2. trash' = trash  BY <1>1 DEF storeVars
  <2>. QED  BY <2>1, <2>2
<1>2. ASSUME NEW cur, NEW pack, SetStore(cur, pack, trash),
             k # j => cur[k] = current[k] /\ pack[k] \in {spool[k], None}
      PROVE  Held(k, v)' /\ trash \subseteq trash'
  <2>1. trash' = trash  BY <1>2 DEF SetStore
  <2>. QED  BY <1>2, <2>1, WriteHolds
<1>3. ASSUME NEW c, SetStore([current EXCEPT ![j] = c], spool, trash)
      PROVE  Held(k, v)' /\ trash \subseteq trash'
  <2>1. k # j => [current EXCEPT ![j] = c][k] = current[k]  BY DEF StoreOK, Objects
  <2>. QED  BY <1>2, <1>3, <2>1
<1>4. SetStore(current, Nothing, trash) => Held(k, v)' /\ trash \subseteq trash'
  BY <1>2 DEF Nothing
<1>5. SetStore(current, spool, trash) => Held(k, v)' /\ trash \subseteq trash'
  BY <1>2
<1>6. ASSUME StoreDelete({j})  PROVE Held(k, v)' /\ trash \subseteq trash'
  <2>. DEFINE cur  == [i \in Key |-> IF i \in {j} THEN None ELSE current[i]]
              pack == [i \in Key |-> IF i \in {j} THEN None ELSE spool[i]]
  <2>1. k # j => cur[k] = current[k] /\ pack[k] = spool[k]
    OBVIOUS
  <2>2. SetStore(cur, pack, trash)
    BY <1>6 DEF StoreDelete
  <2>. HIDE DEF cur, pack
  <2>. QED  BY <1>2, <2>1, <2>2
<1>7. CASE Land(j)
  <2>1. PICK c \in Sent(j) : StorePut(j, c)  BY <1>7 DEF Land
  <2>2. CASE SetStore(current, [spool EXCEPT ![j] = c], trash)
    <3>1. k # j => [spool EXCEPT ![j] = c][k] = spool[k]  BY DEF StoreOK, Objects
    <3>. QED  BY <1>2, <2>2, <3>1
  <2>3. CASE SetStore([Sealed EXCEPT ![j] = c], Nothing, trash)
    <3>1. k # j /\ spool[k] = None => [Sealed EXCEPT ![j] = c][k] = current[k] /\ Nothing[k] = None
      BY DEF Sealed, Nothing, Read
    <3>2. Held(k, v)'
      BY <2>3, <3>1, WriteHolds DEF Held, HeldHere
    <3>. QED  BY <2>3, <3>2 DEF SetStore
  <2>4. CASE SetStore([current EXCEPT ![j] = c], spool, trash)
    BY <1>3, <2>4
  <2>. QED  BY <2>1, <2>2, <2>3, <2>4 DEF StorePut
<1>8. CASE PutFails(j)
  BY <1>3, <1>4, <1>5, <1>8 DEF PutFails
<1>9. CASE TornDelete(j) \/ TornDeleteFails(j)
  BY <1>5, <1>6, <1>9 DEF TornDelete, TornDeleteFails
<1>10. ~Move(j)
  BY DEF Move, IsMove, Nothing
<1>. QED  BY <1>1, <1>7, <1>8, <1>9, <1>10 DEF Begin, Check, CheckGone

\* The deletes spare keys that are not at risk.
LEMMA DeletesHold ==
    ASSUME StoreOK, source = Nothing, DeleteMany,
           NEW k \in Key, NEW v, Held(k, v), k \notin deletes \/ InTrash(k, v)
    PROVE  Held(k, v)' /\ trash \subseteq trash'
<1>1. Doomed = deletes
  BY DEF Doomed, Moved, IsMove, Nothing
<1>2. PICK gone \in SUBSET deletes : StoreDelete(gone)
  BY <1>1 DEF DeleteMany
<1>. DEFINE cur  == [i \in Key |-> IF i \in gone THEN None ELSE current[i]]
            pack == [i \in Key |-> IF i \in gone THEN None ELSE spool[i]]
<1>3. k \notin gone => cur[k] = current[k] /\ pack[k] = spool[k]
  OBVIOUS
<1>4. SetStore(cur, pack, trash)
  BY <1>2 DEF StoreDelete
<1>. HIDE DEF cur, pack
<1>5. trash' = trash  BY <1>4 DEF SetStore
<1>. QED  BY <1>2, <1>3, <1>4, <1>5, WriteHolds

\* A checkpoint, however it ends.
LEMMA TickHolds ==
    ASSUME TickAsk, NEW k \in Key, NEW v, Held(k, v)
    PROVE  Held(k, v)' /\ trash \subseteq trash'
<1>1. \/ UNCHANGED storeVars
      \/ SaveAll
      \/ SetStore(Sealed, Nothing, trash)
      \/ SetStore(current, Nothing, trash)
  BY DEF TickAsk, IndexFails, SealFails
<1>2. trash' = trash
  BY <1>1 DEF SaveAll, SetStore, storeVars
<1>. QED  BY <1>1, <1>2, SealHolds, FlushHolds

LEMMA FlushKeepsTrash ==
    ASSUME FlushOk \/ FlushReports \/ FlushFails \/ UNCHANGED storeVars
    PROVE  trash' = trash
BY DEF FlushOk, FlushReports, FlushFails, SaveAll, SealFails, IndexFails, SetStore, storeVars

\* The steps that write to the store.
LEMMA StoreSteps ==
    ASSUME [Next]_vars
    PROVE  \/ UNCHANGED storeVars \/ Crash \/ Exit \/ Start \/ Flush \/ Salvage \/ Close \/ Prune
           \/ DeleteMany \/ TickAsk
           \/ \E j \in Key : \/ TrashMove(j) \/ TrashMoveFails(j)
                             \/ Begin(j) \/ Land(j) \/ PutFails(j) \/ Check(j)
                             \/ CheckGone(j) \/ TornDelete(j) \/ TornDeleteFails(j) \/ Move(j)
<1>1. CASE UNCHANGED vars
  BY <1>1 DEF vars
<1>2. CASE People \/ Midnight \/ Crash \/ Exit
  BY <1>2 DEF People, Remove, Save, Rename, Cancel, Midnight
<1>3. CASE Checkpointer
  BY <1>3 DEF Checkpointer, TickTake, TickEnd
<1>4. CASE Engine
  BY <1>4 DEF Engine, EndTransfer
<1>5. CASE Run
  BY <1>4, <1>5 DEF Run, ScanFails, Plan, TrashDone, Scan, RecordMove, Record, Forget,
     MovesDone, Note
<1>. QED  BY <1>1, <1>2, <1>3, <1>4, <1>5 DEF Next

\* Every step but the expiry of trash leaves held what is held, if trash has it
\* where its key is at risk.  Trash itself shrinks only when it expires and
\* when a process opens the store.
LEMMA StepHolds ==
    ASSUME TypeOK, source = Nothing, [Next]_vars, ~Prune,
           NEW k \in Key, NEW v, Held(k, v),
           phase \in {"transfer", "delete"} /\ AtRisk(k) => InTrash(k, v)
    PROVE  /\ Held(k, v)'
           /\ InTrash(k, v) /\ phase' # "idle" => InTrash(k, v)'
<1>. USE DEF TypeOK
<1>1. CASE UNCHANGED storeVars
  BY <1>1, FlushHolds, FlushKeepsTrash, TrashGrows
<1>2. CASE Crash \/ Exit
  <2>1. phase' = "idle"
    BY <1>2 DEF Crash, Exit, RunOver, runVars
  <2>. QED  BY <1>2, <2>1, ReopenHolds DEF Crash, Exit
<1>3. CASE Start \/ Flush \/ Salvage \/ Close
  <2>1. FlushOk \/ FlushReports \/ FlushFails \/ UNCHANGED storeVars
    BY <1>3 DEF Start, Flush, Salvage, Close
  <2>. QED  BY <2>1, FlushHolds, FlushKeepsTrash, TrashGrows
<1>4. ASSUME NEW j \in Key, TrashMove(j) \/ TrashMoveFails(j)
      PROVE  Held(k, v)' /\ (InTrash(k, v) => InTrash(k, v)')
  BY <1>4, TrashHolds
<1>5. ASSUME NEW j \in Key,
             \/ Begin(j) \/ Land(j) \/ PutFails(j) \/ Check(j)
             \/ CheckGone(j) \/ TornDelete(j) \/ TornDeleteFails(j) \/ Move(j)
      PROVE  Held(k, v)' /\ (InTrash(k, v) => InTrash(k, v)')
  <2>1. phase = "transfer" /\ job[j] \in {"queued", "sending", "sent"}
    BY <1>5 DEF Begin, Land, PutFails, Check, CheckGone, TornDelete, TornDeleteFails, Move,
                Working
  <2>2. k # j \/ InTrash(k, v)
    BY <2>1 DEF AtRisk
  <2>. QED  BY <1>5, <2>2, WorkerHolds, TrashGrows
<1>6. CASE DeleteMany
  <2>1. k \notin deletes \/ InTrash(k, v)
    BY <1>6 DEF DeleteMany, AtRisk
  <2>. QED  BY <1>6, <2>1, DeletesHold, TrashGrows
<1>7. CASE TickAsk
  BY <1>7, TickHolds, TrashGrows
<1>. QED  BY <1>1, <1>2, <1>3, <1>4, <1>5, <1>6, <1>7, StoreSteps

\* The expiry of trash leaves held what is not due, and what is in current/.
LEMMA PruneHolds ==
    ASSUME TypeOK, Prune, NEW k \in Key, NEW v, Held(k, v),
           \/ day <= RetentionDays
           \/ Safe(k, v)
           \/ <<k, v, day>> \in trash \cap savedTrash
    PROVE  Held(k, v)'
<1>1. PICK gone \in SUBSET Due : SetStore(current, spool, trash \ gone)
  <2>1. {} \in SUBSET Due /\ trash \ {} = trash /\ Due \in SUBSET Due
    OBVIOUS
  <2>. QED  BY <2>1 DEF Prune
<1>2. \A t \in Due : t[3] \in Nat /\ t[3] + RetentionDays < day
  BY DEF Due, TypeOK, StoreOK, TrashEntry
<1>3. day \in Nat /\ RetentionDays \in Nat
  BY BoundAssumption DEF TypeOK
<1>4. CASE day <= RetentionDays
  <2>1. Due = {}
    BY <1>2, <1>3, <1>4
  <2>. QED  BY <1>1, <2>1, WriteHolds
<1>5. CASE Safe(k, v)
  BY <1>1, <1>5 DEF Safe, Held, HeldHere, Kept, SetStore
<1>6. CASE <<k, v, day>> \in trash \cap savedTrash
  <2>1. <<k, v, day>> \notin gone
    BY <1>1, <1>2, <1>3
  <2>2. <<k, v, day>> \in trash' /\ <<k, v, day>> \in savedTrash'
    BY <1>1, <1>6, <2>1 DEF SetStore
  <2>. QED  BY <2>2 DEF Held, HeldHere, InTrash, Kept
<1>. QED  BY <1>4, <1>5, <1>6

(***************************************************************************)
(* Files that are neither renamed nor copied: a content belongs to one     *)
(* key, so the plan finds no renames, and what a run records of a file is  *)
(* what it read of it.                                                     *)
(***************************************************************************)
Contents(k) == {disk[k], index[k], pre[k]}
Own         == \A a, b \in Key : a # b => Contents(a) \cap Contents(b) \subseteq {None}
ScannedOwn  == /\ phase \notin {"scan", "closing"} => seen = Nothing
               /\ \A a, b \in Key : a # b => seen[a] = None \/ seen[a] # index[b]
AsRead      == \A k \in Key : {landed[k], batch[k]} \subseteq {None, pre[k]}
Distinct    == source = Nothing /\ Own /\ ScannedOwn /\ AsRead

\* Own holds as long as what a key has comes from that key.
LEMMA OwnShrinks ==
    ASSUME Own, \A k \in Key : Contents(k)' \subseteq Contents(k) \cup {None}
    PROVE  Own'
BY DEF Own

LEMMA DistinctUnmoved ==
    ASSUME Distinct, UNCHANGED <<disk, index, pre, source, seen, landed, batch>>,
           phase' \in {"scan", "closing"} \/ phase \notin {"scan", "closing"}
    PROVE  Distinct'
<1>1. Own'  BY DEF Distinct, Own, Contents
<1>2. ScannedOwn' /\ AsRead' /\ source' = Nothing'
  BY DEF Distinct, ScannedOwn, AsRead, Nothing
<1>. QED  BY <1>1, <1>2 DEF Distinct

LEMMA RunOverDistinct ==
    ASSUME Distinct, RunOver, UNCHANGED <<disk, index>>
    PROVE  Distinct'
<1>1. Own'
  BY OwnShrinks DEF Distinct, RunOver, Contents, Nothing
<1>. QED  BY <1>1 DEF Distinct, ScannedOwn, AsRead, RunOver, Nothing

\* A step that records what landed, or forgets, and touches nothing else.
LEMMA RecordsDistinct ==
    ASSUME Distinct, UNCHANGED <<disk, pre, source, seen>>,
           phase \notin {"scan", "closing"}, \A k \in Key : index'[k] \in {index[k], landed[k], batch[k], None},
           \A k \in Key : {landed'[k], batch'[k]} \subseteq {None, landed[k], batch[k]}
    PROVE  Distinct'
<1>1. Own'
  BY OwnShrinks DEF Distinct, AsRead, Contents
<1>2. ScannedOwn'
  BY DEF Distinct, ScannedOwn, Nothing
<1>3. AsRead'
  BY DEF Distinct, AsRead
<1>. QED  BY <1>1, <1>2, <1>3 DEF Distinct, Nothing

LEMMA NextDistinct ==
    ASSUME ~Renames, TypeOK, Accounted, Distinct, [Next]_vars
    PROVE  Distinct'
<1>. USE DEF Distinct
<1>1. ASSUME NEW k \in Key, Remove(k) \/ \E v \in Version : Save(k, v)  PROVE Distinct'
  <2>1. UNCHANGED <<index, pre, source, seen, landed, batch, phase>>
    BY <1>1 DEF Remove, Save, runVars, planVars, workVars, tickVars
  <2>2. \A a \in Key : a # k => disk'[a] = disk[a]
    BY <1>1 DEF Remove, Save, TypeOK, Entries
  <2>3. \A o \in Key : o # k => disk'[k] = None \/ disk'[k] \notin Contents(o)
    BY <1>1 DEF Remove, Save, TypeOK, Entries, Contents
  <2>4. Own'  BY <2>1, <2>2, <2>3 DEF Own, Contents
  <2>. QED  BY <2>1, <2>4 DEF ScannedOwn, AsRead, Nothing
<1>2. \A a, b \in Key : ~Rename(a, b)
  BY DEF Rename
<1>3. CASE Crash \/ Close
  BY <1>3, RunOverDistinct DEF Crash, Close
<1>4. ASSUME NEW k \in Key, Scan(k)  PROVE Distinct'
  <2>1. UNCHANGED <<disk, index, pre, source, landed, batch, phase>>
    BY <1>4 DEF Scan, Goto, workVars, tickVars
  <2>2. \A a \in Key : seen'[a] \in {seen[a], disk[a]}
    BY <1>4 DEF Scan, TypeOK, RunOK, Entries
  <2>3. phase = "scan"  BY <1>4 DEF Scan
  <2>4. ScannedOwn'
    BY <2>1, <2>2, <2>3 DEF ScannedOwn, Own, Contents
  <2>. QED  BY <2>1, <2>4 DEF Own, Contents, AsRead, Nothing
<1>5. CASE Plan
  <2>1. \A f, to \in Key : ~Match(f, to)
    BY NoneAssumption DEF Match, Vanished, Candidate, ScannedOwn
  <2>2. source' = Nothing /\ seen' = Nothing
    BY <1>5, <2>1 DEF Plan, Nothing
  <2>3. UNCHANGED <<disk, index, pre, landed, batch>>
    BY <1>5 DEF Plan, tickVars
  <2>. QED  BY <2>2, <2>3 DEF Own, Contents, ScannedOwn, AsRead, Nothing
<1>6. ASSUME NEW k \in Key, Begin(k)  PROVE Distinct'
  <2>1. UNCHANGED <<disk, index, source, seen, landed, batch, phase>>
    BY <1>6 DEF Begin, transferRest, planVars
  <2>2. job[k] = "queued" /\ \A a \in Key : pre'[a] = pre[a] \/ (a = k /\ pre'[a] = disk[a])
    BY <1>6 DEF Begin, Working, TypeOK, RunOK, Entries
  <2>3. \A a \in Key : Contents(a)' \subseteq Contents(a)
    BY <2>1, <2>2 DEF Contents
  <2>4. landed[k] = None /\ batch[k] = None
    BY <2>2 DEF Accounted, Reported
  <2>5. AsRead'  BY <2>1, <2>2, <2>4 DEF AsRead
  <2>. QED  BY <2>1, <2>3, <2>5, OwnShrinks DEF ScannedOwn, Nothing
<1>7. ASSUME NEW k \in Key, Check(k)  PROVE Distinct'
  <2>1. UNCHANGED <<disk, index, pre, source, seen, batch, phase>>
    BY <1>7 DEF Check, transferRest, planVars
  <2>2. \A a \in Key : landed'[a] \in {landed[a], pre[a]}
    BY <1>7 DEF Check, TypeOK, RunOK, Entries
  <2>3. Own' /\ ScannedOwn'  BY <2>1 DEF Own, Contents, ScannedOwn, Nothing
  <2>4. AsRead'  BY <2>1, <2>2 DEF AsRead
  <2>. QED  BY <2>1, <2>3, <2>4 DEF Nothing
<1>8. CASE TickTake
  <2>1. UNCHANGED <<disk, index, pre, source, seen>> /\ phase \notin {"scan", "closing"}
    BY <1>8 DEF TickTake, planVars, workVars
  <2>2. \A k \in Key : {landed'[k], batch'[k]} \subseteq {None, landed[k], batch[k]}
    BY <1>8 DEF TickTake, Nothing
  <2>. QED  BY <2>1, <2>2, RecordsDistinct
<1>9. CASE TickEnd
  <2>1. UNCHANGED <<disk, pre, source, seen>> /\ phase \notin {"scan", "closing"}
    BY <1>9 DEF TickEnd, planVars, workVars, Accounted, Ticking
  <2>2. \A k \in Key : {landed'[k], batch'[k]} \subseteq {None, landed[k], batch[k]}
    BY <1>9 DEF TickEnd, Requeued, Nothing
  <2>3. \A k \in Key : index'[k] \in {index[k], landed[k], batch[k], None}
    BY <1>9 DEF TickEnd, Records
  <2>. QED  BY <2>1, <2>2, <2>3, RecordsDistinct
<1>10. CASE Record \/ Note \/ Forget
  <2>1. UNCHANGED <<disk, pre, source, seen, landed, batch>> /\ phase \notin {"scan", "closing"}
    BY <1>10 DEF Record, Note, Forget, recordRest, planVars, workVars, tickVars
  <2>2. \A k \in Key : index'[k] \in {index[k], landed[k], batch[k], None}
    BY <1>10 DEF Record, Note, Forget, Records
  <2>. QED  BY <2>1, <2>2, RecordsDistinct
<1>11. \A k \in Key : ~Move(k) /\ ~RecordMove(k)
  BY DEF Move, RecordMove, IsMove, TypeOK, RunOK, Nothing
<1>12. ASSUME UNCHANGED <<disk, index, pre, source, seen, landed, batch>>,
              phase' \in {"scan", "closing"} \/ phase \notin {"scan", "closing"}
       PROVE  Distinct'
  BY <1>12, DistinctUnmoved
<1>13. ASSUME UNCHANGED <<disk, index, pre, source, seen, landed, batch, phase>>
       PROVE  Distinct'
  BY <1>12, <1>13
<1>14. CASE UNCHANGED vars \/ Cancel \/ Midnight \/ Exit \/ TickAsk
  BY <1>13, <1>14 DEF vars, Cancel, Midnight, Exit, TickAsk, runVars, planVars, workVars, tickVars
<1>15. CASE Start \/ ScanFails \/ TrashDone \/ Flush \/ MovesDone \/ Salvage \/ Prune
            \/ EndTransfer \/ DeleteMany
  BY <1>12, <1>15 DEF Start, ScanFails, TrashDone, Flush, MovesDone, Salvage, Prune, EndTransfer,
     DeleteMany, Goto, recordRest, tidyRest, planVars, workVars, tickVars
<1>16. ASSUME NEW k \in Key,
              \/ TrashMove(k) \/ TrashMoveFails(k) \/ Land(k) \/ PutFails(k) \/ CheckGone(k)
              \/ TornDelete(k) \/ TornDeleteFails(k)
       PROVE  Distinct'
  BY <1>12, <1>16 DEF TrashMove, TrashMoveFails, Land, PutFails, CheckGone, TornDelete,
     TornDeleteFails, Goto, Working, transferRest, planVars, workVars, tickVars
<1>. QED
  <2>. USE <1>1, <1>2, <1>3, <1>4, <1>5, <1>6, <1>7, <1>8, <1>9, <1>10, <1>11, <1>14, <1>15, <1>16
  <2>1. CASE People \/ Midnight \/ Crash \/ Exit \/ UNCHANGED vars
    BY <2>1 DEF People
  <2>2. CASE Checkpointer
    BY <2>2 DEF Checkpointer
  <2>3. CASE Engine
    BY <2>3 DEF Engine
  <2>4. CASE Run
    BY <2>3, <2>4 DEF Run
  <2>. QED  BY <2>1, <2>2, <2>3, <2>4 DEF Next

LEMMA InitDistinct == ~Renames /\ Init => Distinct
BY DEF Init, RunAtRest, Distinct, Own, Contents, ScannedOwn, AsRead, Nothing

(***************************************************************************)
(* From the plan until the run is over: what is at risk is in trash before *)
(* the first worker starts.                                                *)
(***************************************************************************)
Protected(k, v) ==
    /\ Held(k, v)
    /\ AtRisk(k) /\ phase = "trash" => k \in todo \/ err \/ InTrash(k, v)
    /\ AtRisk(k) /\ phase \in {"transfer", "delete"} => InTrash(k, v)

\* How the trash and transfer phases are entered and left.
LEMMA PhaseSteps ==
    ASSUME [Next]_vars
    PROVE  /\ phase' = "trash" => \/ Plan
                                  \/ \E j \in Key : TrashMove(j) \/ TrashMoveFails(j)
                                  \/ phase = "trash" /\ UNCHANGED <<todo, err>>
           /\ phase' \in {"transfer", "delete"} => phase \in {"transfer", "delete"} \/ TrashDone
<1>1. CASE People \/ Midnight \/ Crash \/ Exit \/ Checkpointer \/ UNCHANGED vars
  <2>1. CASE Crash
    BY <2>1 DEF Crash, RunOver
  <2>2. CASE ~Crash
    BY <1>1, <2>2 DEF People, Remove, Save, Rename, Cancel, Midnight, Exit, Checkpointer,
       TickTake, TickAsk, TickEnd, vars, runVars
  <2>. QED  BY <2>1, <2>2
<1>2. CASE Engine
  BY <1>2 DEF Engine, Begin, Land, PutFails, Check, CheckGone, TornDelete, TornDeleteFails, Move,
     Working, transferRest, EndTransfer, DeleteMany, Goto
<1>3. CASE Run /\ ~Engine
  <2>1. \A j \in Key : TrashMove(j) \/ TrashMoveFails(j) => phase' = "trash"
    BY DEF TrashMove, TrashMoveFails, Goto
  <2>. QED  BY <1>3, <2>1 DEF Run, Start, ScanFails, Scan, Plan, TrashDone, RecordMove, Flush,
       Record, Forget, MovesDone, Salvage, Note, Prune, Close, RunOver, Goto
<1>. QED  BY <1>1, <1>2, <1>3 DEF Next

\* Which steps touch the jobs or the deletes.
LEMMA WhoWorks ==
    ASSUME [Next]_vars
    PROVE  \/ UNCHANGED <<job, deletes>> \/ Crash \/ Close \/ Plan
           \/ \E j \in Key : \/ Begin(j) \/ Land(j) \/ PutFails(j) \/ Check(j)
                             \/ CheckGone(j) \/ TornDelete(j) \/ TornDeleteFails(j) \/ Move(j)
<1>1. CASE People \/ Midnight \/ Crash \/ Exit \/ Checkpointer \/ UNCHANGED vars
  BY <1>1 DEF People, Remove, Save, Rename, Cancel, Midnight, Exit, Checkpointer,
     TickTake, TickAsk, TickEnd, vars, runVars, planVars, workVars
<1>2. CASE Engine
  BY <1>2 DEF Engine, EndTransfer, DeleteMany, planVars, workVars
<1>3. CASE Run /\ ~Engine
  BY <1>3 DEF Run, Start, ScanFails, TrashDone, Scan, TrashMove, TrashMoveFails, RecordMove,
     Flush, Record, Forget, MovesDone, Salvage, Note, Prune, recordRest, tidyRest, planVars, workVars
<1>. QED  BY <1>1, <1>2, <1>3 DEF Next

\* Only the plan puts keys at risk.
LEMMA RiskSteps ==
    ASSUME TypeOK, [Next]_vars, ~Plan, NEW k \in Key, AtRisk(k)'
    PROVE  AtRisk(k)
<1>. USE DEF AtRisk
<1>1. CASE UNCHANGED <<job, deletes>>
  BY <1>1
<1>2. CASE Crash \/ Close
  BY <1>2 DEF Crash, Close, RunOver
<1>3. ASSUME NEW j \in Key,
             \/ Begin(j) \/ Land(j) \/ PutFails(j) \/ Check(j)
             \/ CheckGone(j) \/ TornDelete(j) \/ TornDeleteFails(j) \/ Move(j)
      PROVE  AtRisk(k)
  <2>1. job[j] \in {"queued", "sending", "sent"} /\ UNCHANGED deletes
    BY <1>3 DEF Begin, Land, PutFails, Check, CheckGone, TornDelete, TornDeleteFails, Move,
       Working, transferRest, planVars
  <2>3. k # j => job'[k] = job[k]
    BY <1>3 DEF Begin, Land, PutFails, Check, CheckGone, TornDelete, TornDeleteFails, Move,
       JobTo, TypeOK, RunOK
  <2>. QED  BY <2>1, <2>3
<1>. QED  BY <1>1, <1>2, <1>3, WhoWorks

\* The plan sends every recorded version it puts at risk to trash.
LEMMA PlanProtects ==
    ASSUME RetentionDays > 0, Plan, phase' = "trash", NEW k \in Key, index[k] # None, AtRisk(k)'
    PROVE  k \in todo'
<1>. DEFINE src == [i \in Key |-> IF \E f \in Key : Match(f, i)
                                  THEN CHOOSE f \in Key : Match(f, i) ELSE None]
            gone == {i \in Vanished : \A t \in Key : src[t] # i}
<1>1. deletes' = gone /\ (job'[k] # "none" => k \in Candidate \cup Changed)
  BY DEF Plan
<1>2. todo' = gone \cup Changed
  BY DEF Plan, Goto
<1>. HIDE DEF gone
<1>. QED  BY <1>1, <1>2 DEF AtRisk, Candidate

\* One step, for a key whose record it leaves alone.
LEMMA NextProtected ==
    ASSUME RetentionDays > 0, TypeOK, Distinct, [Next]_vars,
           NEW k \in Key, NEW v, Protected(k, v), index[k] # None,
           Prune => \/ day <= RetentionDays
                    \/ Safe(k, v)
                    \/ <<k, v, day>> \in trash \cap savedTrash
    PROVE  Protected(k, v)'
<1>1. source = Nothing  BY DEF Distinct
<1>2. Held(k, v)'
  <2>1. CASE Prune
    BY <2>1, PruneHolds DEF Protected
  <2>2. CASE ~Prune
    BY <1>1, <2>2, StepHolds DEF Protected
  <2>. QED  BY <2>1, <2>2
<1>3. ASSUME phase' # "idle", ~Prune, InTrash(k, v)  PROVE InTrash(k, v)'
  <2>1. phase \in {"transfer", "delete"} /\ AtRisk(k) => InTrash(k, v)
    BY <1>3
  <2>. QED  BY <1>1, <1>3, <2>1, StepHolds DEF Protected
<1>4. ~Prune \/ phase' = "closing"
  BY DEF Prune, Goto
<1>5. ASSUME AtRisk(k)', phase' = "trash"  PROVE (k \in todo \/ err \/ InTrash(k, v))'
  <2>1. CASE Plan
    BY <1>5, <2>1, PlanProtects
  <2>2. ASSUME NEW j \in Key, TrashMove(j) \/ TrashMoveFails(j), ~Plan
        PROVE  (k \in todo \/ err \/ InTrash(k, v))'
    <3>1. AtRisk(k) /\ phase = "trash"
      BY <1>5, <2>2, RiskSteps DEF TrashMove, TrashMoveFails
    <3>2. CASE k = j /\ TrashMove(j)
      BY <3>2, TrashHolds DEF TypeOK, Protected
    <3>3. CASE TrashMoveFails(j)
      BY <3>3 DEF TrashMoveFails
    <3>4. CASE k # j /\ TrashMove(j)
      BY <1>3, <1>4, <1>5, <3>1, <3>4 DEF Protected, TrashMove, Goto
    <3>. QED  BY <2>2, <3>2, <3>3, <3>4
  <2>3. CASE ~Plan /\ phase = "trash" /\ UNCHANGED <<todo, err>>
    BY <1>3, <1>4, <1>5, <2>3, RiskSteps DEF Protected
  <2>. QED  BY <1>5, <2>1, <2>2, <2>3, PhaseSteps
<1>6. ASSUME AtRisk(k)', phase' \in {"transfer", "delete"}  PROVE InTrash(k, v)'
  <2>1. ~Plan  BY <1>6 DEF Plan, Goto
  <2>2. AtRisk(k)  BY <1>6, <2>1, RiskSteps
  <2>3. InTrash(k, v)
    <3>1. CASE TrashDone
      BY <1>6, <2>2, <3>1 DEF Protected, TrashDone, Goto
    <3>2. CASE phase \in {"transfer", "delete"}
      BY <2>2, <3>2 DEF Protected
    <3>. QED  BY <1>6, <3>1, <3>2, PhaseSteps
  <2>. QED  BY <1>3, <1>4, <1>6, <2>3
<1>. QED  BY <1>2, <1>5, <1>6 DEF Protected

\* What is safe in storage and not at risk is protected.
LEMMA SafeProtected ==
    ASSUME NEW k \in Key, NEW v, Safe(k, v), ~AtRisk(k) \/ phase \notin {"trash", "transfer", "delete"}
    PROVE  Protected(k, v)
BY DEF Protected, Held, HeldHere, Kept, Safe

\* A version that enters the record is safe in storage, and not at risk.
LEMMA RecordProtected ==
    ASSUME TypeOK, Accounted, Distinct, [Next]_vars, NEW k \in Key, NEW v,
           v = index'[k], v \notin {None, index[k]}
    PROVE  Safe(k, v)' /\ Protected(k, v)' /\ ~AtRisk(k)' /\ v \in {landed[k], batch[k]}
<1>1. ~IsMove(k)  BY DEF Distinct, IsMove, Nothing
<1>2. \/ tick = "safe" /\ index'[k] = batch[k]
      \/ phase \in {"record", "note"} /\ index'[k] = landed[k]
  BY <1>1, IndexWrites
<1>3. Safe(k, v)
  BY <1>2 DEF Accounted, AllSafe
<1>4. TickEnd \/ Record \/ Note
  <2>1. ~UNCHANGED index
    OBVIOUS
  <2>2. CASE UNCHANGED vars \/ People \/ Midnight \/ Crash \/ Exit
    BY <2>1, <2>2 DEF vars, People, Remove, Save, Rename, Cancel, Midnight, Crash, Exit
  <2>3. CASE Checkpointer
    BY <2>1, <2>3 DEF Checkpointer, TickTake, TickAsk
  <2>4. CASE Engine
    BY <2>1, <2>4 DEF Engine, Begin, Land, PutFails, Check, CheckGone, TornDelete,
       TornDeleteFails, Move, EndTransfer, DeleteMany
  <2>5. ~Forget /\ \A j \in Key : ~RecordMove(j)
    BY DEF Forget, RecordMove, IsMove, TypeOK, RunOK, Distinct, Nothing
  <2>6. CASE Run
    BY <2>1, <2>4, <2>5, <2>6 DEF Run, Start, ScanFails, Plan, TrashDone, Scan, TrashMove,
       TrashMoveFails, Flush, MovesDone, Salvage, Prune, Close, tidyRest
  <2>. QED  BY <2>2, <2>3, <2>4, <2>6 DEF Next
<1>5. Safe(k, v)'
  BY <1>3, <1>4 DEF TickEnd, Record, Note, Safe, storeVars
<1>6. ~AtRisk(k)'
  <2>1. landed[k] # None \/ batch[k] # None
    BY <1>2
  <2>2. job[k] = "done" /\ k \notin deletes
    BY <2>1 DEF Accounted, Reported, Apart
  <2>. QED  BY <1>4, <2>2 DEF AtRisk, TickEnd, Record, Note, recordRest, planVars, workVars
<1>. QED  BY <1>2, <1>5, <1>6, SafeProtected DEF Protected, Held, HeldHere, Kept, Safe

\* Until the retention window has passed, every record is protected.
WindowInv == day <= RetentionDays => \A k \in Key : index[k] # None => Protected(k, index[k])

LEMMA InitWindow == Init => WindowInv
BY DEF Init, RunAtRest, WindowInv, Protected, Held, HeldHere, Kept, AtRisk, Nothing

\* Only midnight changes the day.
LEMMA DaySteps ==
    ASSUME [Next]_vars
    PROVE  UNCHANGED day \/ Midnight
<1>1. CASE People \/ Crash \/ Exit \/ Checkpointer \/ UNCHANGED vars
  BY <1>1 DEF People, Remove, Save, Rename, Cancel, Crash, Exit, Checkpointer, TickTake,
     TickAsk, TickEnd, vars, envVars
<1>2. CASE Engine
  BY <1>2 DEF Engine, Begin, Land, PutFails, Check, CheckGone, TornDelete, TornDeleteFails,
     Move, EndTransfer, DeleteMany, envVars
<1>3. CASE Run /\ ~Engine
  BY <1>3 DEF Run, Start, ScanFails, Plan, TrashDone, Scan, TrashMove, TrashMoveFails,
     RecordMove, Flush, Record, Forget, MovesDone, Salvage, Note, Prune, Close, recordRest,
     tidyRest, envVars
<1>. QED  BY <1>1, <1>2, <1>3 DEF Next

LEMMA NextWindow ==
    ASSUME RetentionDays > 0, TypeOK, Accounted, Distinct, WindowInv, [Next]_vars
    PROVE  WindowInv'
<1>0. day \in Nat /\ RetentionDays \in Nat
  BY BoundAssumption DEF TypeOK
<1>1. day' = day \/ day' = day + 1
  BY DaySteps DEF Midnight
<1>. SUFFICES ASSUME day' <= RetentionDays, NEW k \in Key, index'[k] # None
              PROVE  Protected(k, index[k])'
  BY DEF WindowInv
<1>2. day <= RetentionDays
  BY <1>0, <1>1
<1>3. ASSUME NEW w, w = index'[k]  PROVE Protected(k, w)'
  <2>1. CASE w = index[k]
    BY <1>2, <1>3, <2>1, NextProtected DEF WindowInv
  <2>2. CASE w # index[k]
    BY <1>3, <2>2, RecordProtected
  <2>. QED  BY <2>1, <2>2
<1>. QED  BY <1>3 DEF Protected, Held, HeldHere, InTrash, Kept, AtRisk

\* A file that was backed up can be got back as it was, by any process and at
\* any moment of the retention window: for any number of files and workers, on
\* a disk that changes during runs and cannot always be read, whatever fails,
\* crashes or is stopped.  Trash has to be on, and no file renamed.
THEOREM RecordsAreKept ==
    ASSUME ~Renames, RetentionDays > 0
    PROVE  Spec => []RecordedIsKept
<1>1. Init => Distinct /\ WindowInv
  BY InitDistinct, InitWindow
<1>2. TypeOK /\ Accounted /\ Distinct /\ WindowInv /\ [Next]_vars => Distinct' /\ WindowInv'
  BY NextDistinct, NextWindow
<1>3. WindowInv => RecordedIsKept
  BY DEF WindowInv, Protected, Held, RecordedIsKept
<1>. QED  BY <1>1, <1>2, <1>3, TypeInvariant, AccountedInvariant, PTL DEF Spec

(***************************************************************************)
(* A disk that is quiet during runs and can be read: what storage holds of *)
(* a file that is as recorded is never written.                            *)
(***************************************************************************)
Quiet == ~Renames /\ ~BusyDisk /\ ~Unreadable /\ ~Returns

AtRest   == /\ phase = "idle" => job = [k \in Key |-> "none"] /\ pre = Nothing /\ deletes = {}
            /\ \A k \in Key : pre[k] \in {None, disk[k]}
Scanned  == phase = "scan" => \A k \in Key \ todo : seen[k] = disk[k]
Outdated == \A k \in Key : AtRisk(k) \/ (phase = "trash" /\ k \in todo)
                             => disk[k] = None \/ disk[k] # index[k]
Stored   == \A k \in Key : disk[k] # None /\ disk[k] = index[k] => Safe(k, disk[k])
QuietInv == AtRest /\ Scanned /\ Outdated /\ Stored

LEMMA InitQuiet == Init => QuietInv
BY DEF Init, RunAtRest, QuietInv, AtRest, Scanned, Outdated, AtRisk, Stored, Safe, Nothing

\* The folder changes between runs only, and never to what is on record.
LEMMA QuietDisk ==
    ASSUME Quiet, TypeOK, [Next]_vars, NEW k \in Key
    PROVE  /\ disk'[k] # disk[k] => phase = "idle" /\ phase' = "idle" /\ UNCHANGED index
           /\ disk'[k] \in {disk[k], None} \/ disk'[k] # index[k]
<1>1. CASE UNCHANGED disk
  BY <1>1
<1>2. ASSUME NEW j \in Key, Remove(j) \/ \E v \in Version : Save(j, v)
      PROVE  /\ disk'[k] # disk[k] => phase = "idle" /\ phase' = "idle" /\ UNCHANGED index
             /\ disk'[k] \in {disk[k], None} \/ disk'[k] # index[k]
  <2>1. phase = "idle" /\ UNCHANGED <<phase, index>>
    BY <1>2 DEF Quiet, Remove, Save, Edit, runVars
  <2>2. disk'[k] \in {disk[k], None} \/ disk'[k] # index[k]
    BY <1>2 DEF Quiet, Remove, Save, TypeOK, Entries
  <2>. QED  BY <2>1, <2>2
<1>3. \A a, b \in Key : ~Rename(a, b)
  BY DEF Quiet, Rename
<1>4. UNCHANGED disk \/ \E j \in Key : Remove(j) \/ \E v \in Version : Save(j, v)
  <2>1. CASE People \/ Midnight \/ Crash \/ Exit \/ Checkpointer \/ UNCHANGED vars
    BY <1>3, <2>1 DEF People, Cancel, Midnight, Crash, Exit, Checkpointer, TickTake, TickAsk,
       TickEnd, vars
  <2>2. CASE Engine
    BY <2>2 DEF Engine, Begin, Land, PutFails, Check, CheckGone, TornDelete, TornDeleteFails,
       Move, EndTransfer, DeleteMany
  <2>3. CASE Run /\ ~Engine
    BY <2>3 DEF Run, Start, ScanFails, Plan, TrashDone, Scan, TrashMove, TrashMoveFails,
       RecordMove, Flush, Record, Forget, MovesDone, Salvage, Note, Prune, Close, recordRest,
       tidyRest
  <2>. QED  BY <2>1, <2>2, <2>3 DEF Next
<1>. QED  BY <1>1, <1>2, <1>4

\* Writes of other keys, flushes, and a process that opens the store.
LEMMA WriteSafe ==
    ASSUME NEW cur, NEW pack, NEW bin, SetStore(cur, pack, bin), NEW k \in Key, NEW v, Safe(k, v),
           cur[k] = current[k], pack[k] \in {spool[k], None}
    PROVE  Safe(k, v)'
BY DEF Safe, SetStore

LEMMA SealSafe ==
    ASSUME NEW k \in Key, NEW v, Safe(k, v),
           \/ SaveAll \/ SetStore(Sealed, Nothing, trash) \/ SetStore(current, Nothing, trash)
           \/ SetStore(current, spool, trash) \/ Reopened \/ UNCHANGED storeVars
    PROVE  Safe(k, v)'
BY DEF Safe, SaveAll, SetStore, Reopened, Sealed, Read, Nothing, storeVars

\* What is safe in storage stays safe, unless the run writes or moves its key.
LEMMA StepSafe ==
    ASSUME TypeOK, source = Nothing, [Next]_vars, NEW k \in Key, NEW v, Safe(k, v),
           ~(phase \in {"transfer", "delete"} /\ AtRisk(k)), ~(phase = "trash" /\ k \in todo)
    PROVE  Safe(k, v)'
<1>. USE DEF TypeOK
<1>1. CASE \/ UNCHANGED storeVars \/ Crash \/ Exit \/ Start \/ Flush \/ Salvage \/ Close \/ TickAsk
  BY <1>1, SealSafe DEF Crash, Exit, Start, Flush, Salvage, Close, TickAsk, FlushOk, FlushReports,
     FlushFails, SealFails, IndexFails
<1>2. ASSUME NEW j \in Key, TrashMove(j) \/ TrashMoveFails(j)  PROVE Safe(k, v)'
  <2>1. j # k
    BY <1>2 DEF TrashMove, TrashMoveFails
  <2>2. Empties(j)[k] = current[k] /\ Drops(j)[k] = spool[k]
    BY <2>1 DEF Empties, Drops, StoreOK, Objects
  <2>. QED  BY <1>2, <2>2, WriteSafe DEF TrashMove, TrashMoveFails
<1>3. ASSUME NEW j \in Key,
             \/ Begin(j) \/ Land(j) \/ PutFails(j) \/ Check(j)
             \/ CheckGone(j) \/ TornDelete(j) \/ TornDeleteFails(j) \/ Move(j)
      PROVE  Safe(k, v)'
  <2>1. j # k
    BY <1>3 DEF Begin, Land, PutFails, Check, CheckGone, TornDelete, TornDeleteFails, Move,
       Working, AtRisk
  <2>2. \A c : /\ [current EXCEPT ![j] = c][k] = current[k]
               /\ [spool EXCEPT ![j] = c][k] = spool[k]
               /\ [Sealed EXCEPT ![j] = c][k] = Sealed[k]
    BY <2>1 DEF StoreOK, Objects, Sealed
  <2>3. Nothing[k] = None /\ Sealed[k] = current[k]
    BY DEF Nothing, Sealed, Read, Safe
  <2>4. CASE Land(j)
    <3>1. PICK c \in Sent(j) : StorePut(j, c)  BY <2>4 DEF Land
    <3>2. \/ SetStore(current, [spool EXCEPT ![j] = c], trash)
          \/ SetStore([Sealed EXCEPT ![j] = c], Nothing, trash)
          \/ SetStore([current EXCEPT ![j] = c], spool, trash)
      BY <3>1 DEF StorePut
    <3>. QED  BY <2>2, <2>3, <3>2, WriteSafe
  <2>5. CASE PutFails(j)
    BY <2>2, <2>5, WriteSafe, SealSafe DEF PutFails
  <2>6. CASE TornDelete(j) \/ TornDeleteFails(j)
    <3>1. StoreDelete({j}) \/ SetStore(current, spool, trash)
      BY <2>6 DEF TornDelete, TornDeleteFails
    <3>2. /\ [i \in Key |-> IF i \in {j} THEN None ELSE current[i]][k] = current[k]
          /\ [i \in Key |-> IF i \in {j} THEN None ELSE spool[i]][k] = spool[k]
      BY <2>1
    <3>3. StoreDelete({j}) => Safe(k, v)'
      BY <3>2, WriteSafe DEF StoreDelete
    <3>. QED  BY <3>1, <3>3, SealSafe
  <2>7. ~Move(j)
    BY DEF Move, IsMove, Nothing
  <2>8. CASE UNCHANGED storeVars
    BY <2>8, SealSafe
  <2>. QED  BY <1>3, <2>4, <2>5, <2>6, <2>7, <2>8 DEF Begin, Check, CheckGone
<1>4. CASE DeleteMany
  <2>1. k \notin deletes
    BY <1>4 DEF DeleteMany, AtRisk
  <2>2. Doomed = deletes
    BY DEF Doomed, Moved, IsMove, Nothing
  <2>3. PICK gone \in SUBSET deletes : StoreDelete(gone)
    BY <1>4, <2>2 DEF DeleteMany
  <2>4. /\ [i \in Key |-> IF i \in gone THEN None ELSE current[i]][k] = current[k]
        /\ [i \in Key |-> IF i \in gone THEN None ELSE spool[i]][k] = spool[k]
    BY <2>1, <2>3
  <2>. QED  BY <2>3, <2>4, WriteSafe DEF StoreDelete
<1>5. CASE Prune
  BY <1>5, WriteSafe DEF Prune
<1>. QED  BY <1>1, <1>2, <1>3, <1>4, <1>5, StoreSteps

\* A run is over, or it goes on with the stats it has taken.
LEMMA RestSteps ==
    ASSUME TypeOK, [Next]_vars
    PROVE  /\ phase' = "idle" => RunOver \/ (phase = "idle" /\ UNCHANGED <<job, pre, deletes>>)
           /\ \A k \in Key : pre'[k] \in {None, pre[k], disk[k]}
           /\ phase' = "scan" => \/ Start /\ todo' = Key
                                 \/ \E k \in Key : Scan(k)
                                 \/ phase = "scan" /\ UNCHANGED <<todo, seen>>
           /\ phase' = "trash" => Plan \/ (phase = "trash" /\ todo' \subseteq todo)
<1>1. CASE Crash \/ Close
  BY <1>1 DEF Crash, Close, RunOver, Nothing
<1>2. CASE UNCHANGED runVars \/ Cancel \/ Checkpointer
  BY <1>2 DEF runVars, planVars, workVars, Cancel, Checkpointer, TickTake, TickAsk, TickEnd
<1>3. CASE Engine
  <2>1. CASE EndTransfer \/ DeleteMany
    BY <2>1 DEF EndTransfer, DeleteMany, Goto, workVars
  <2>2. ASSUME NEW k \in Key, Begin(k)
        PROVE  phase' = "transfer" /\ \A j \in Key : pre'[j] \in {pre[j], disk[j]}
    BY <2>2 DEF Begin, Working, transferRest, TypeOK, RunOK, Entries
  <2>3. ASSUME NEW k \in Key, \/ Land(k) \/ PutFails(k) \/ Check(k) \/ CheckGone(k)
                              \/ TornDelete(k) \/ TornDeleteFails(k) \/ Move(k)
        PROVE  phase' = "transfer" /\ UNCHANGED pre
    BY <2>3 DEF Land, PutFails, Check, CheckGone, TornDelete, TornDeleteFails, Move, Working,
       transferRest
  <2>. QED  BY <1>3, <2>1, <2>2, <2>3 DEF Engine
<1>4. CASE \/ Start \/ ScanFails \/ Plan \/ TrashDone
           \/ \E k \in Key : Scan(k) \/ TrashMove(k) \/ TrashMoveFails(k)
  <2>1. \A k \in Key : \/ TrashMove(k) \/ TrashMoveFails(k)
                          => phase = "trash" /\ phase' = "trash" /\ todo' = todo \ {k} /\ UNCHANGED pre
    BY DEF TrashMove, TrashMoveFails, Goto, workVars
  <2>2. \A k \in Key : Scan(k) => phase' = "scan" /\ UNCHANGED pre
    BY DEF Scan, Goto, workVars
  <2>3. CASE Start \/ ScanFails \/ Plan \/ TrashDone
    BY <2>3 DEF Start, ScanFails, Plan, TrashDone, Goto, workVars
  <2>. QED  BY <1>4, <2>1, <2>2, <2>3
<1>5. CASE Flush \/ Record \/ Forget \/ MovesDone \/ Salvage \/ Note \/ Prune \/ \E k \in Key : RecordMove(k)
  BY <1>5 DEF Flush, Record, Forget, MovesDone, Salvage, Note, Prune, RecordMove, Goto, recordRest,
     tidyRest, workVars
<1>6. \/ UNCHANGED runVars \/ Cancel \/ Checkpointer \/ Crash \/ Engine \/ Run
  BY DEF Next, vars, People, Remove, Save, Rename, Midnight, Exit
<1>. QED  BY <1>1, <1>2, <1>3, <1>4, <1>5, <1>6 DEF Run

LEMMA NextQuiet ==
    ASSUME Quiet, TypeOK, Accounted, Distinct, QuietInv, [Next]_vars
    PROVE  QuietInv'
<1>. USE DEF QuietInv
<1>1. source = Nothing  BY DEF Distinct
<1>2. AtRest'
  <2>1. ASSUME phase' = "idle"
        PROVE  job' = [k \in Key |-> "none"] /\ pre' = Nothing /\ deletes' = {}
    BY <2>1, RestSteps DEF RunOver, AtRest
  <2>2. ASSUME NEW k \in Key  PROVE pre'[k] \in {None, disk'[k]}
    <3>1. CASE disk'[k] = disk[k]
      BY <3>1, RestSteps DEF AtRest
    <3>2. CASE disk'[k] # disk[k]
      BY <2>1, <3>2, QuietDisk DEF Nothing
    <3>. QED  BY <3>1, <3>2
  <2>. QED  BY <2>1, <2>2 DEF AtRest
<1>3. Scanned'
  <2>. SUFFICES ASSUME phase' = "scan", NEW k \in Key \ todo'  PROVE seen'[k] = disk'[k]
    BY DEF Scanned
  <2>1. disk'[k] = disk[k]
    BY QuietDisk
  <2>2. ASSUME NEW j \in Key, Scan(j)  PROVE seen'[k] = disk[k]
    BY <2>2 DEF Quiet, Scan, Goto, Scanned, TypeOK, RunOK, Entries
  <2>. QED  BY <2>1, <2>2, RestSteps DEF Scanned
<1>4. Outdated'
  <2>. SUFFICES ASSUME NEW k \in Key, AtRisk(k)' \/ (phase' = "trash" /\ k \in todo'),
                       disk'[k] # None
                PROVE  disk'[k] # index'[k]
    BY DEF Outdated
  <2>1. phase' # "idle" /\ disk'[k] = disk[k]
    <3>1. phase' # "idle"
      BY <1>2 DEF AtRest, AtRisk
    <3>. QED  BY <3>1, QuietDisk
  <2>2. CASE Plan
    <3>1. \A i \in Key : seen[i] = disk[i]
      BY <2>2 DEF Plan, Scanned
    <3>2. UNCHANGED index  BY <2>2 DEF Plan
    <3>3. k \in Candidate \cup Changed \cup Vanished
      BY <2>2 DEF Plan, AtRisk, Goto
    <3>. QED  BY <2>1, <3>1, <3>2, <3>3 DEF Candidate, Changed, Vanished
  <2>3. CASE ~Plan
    <3>1. disk[k] # index[k]
      BY <2>1, <2>3, RiskSteps, RestSteps DEF Outdated
    <3>2. CASE index'[k] \in {index[k], None}
      BY <2>1, <3>1, <3>2
    <3>3. CASE index'[k] \notin {index[k], None}
      <4>1. ~AtRisk(k)' /\ index'[k] \in {landed[k], batch[k]}
        BY <3>3, RecordProtected
      <4>2. phase = "trash"
        BY <2>3, <4>1, RestSteps
      <4>3. landed[k] = None /\ batch[k] = None
        BY <4>2 DEF Accounted, Ticking, Nothing
      <4>. QED  BY <3>3, <4>1, <4>3
    <3>. QED  BY <3>2, <3>3
  <2>. QED  BY <2>2, <2>3
<1>5. Stored'
  <2>. SUFFICES ASSUME NEW k \in Key, NEW v, v = disk'[k], v # None, v = index'[k]
                PROVE  Safe(k, v)'
    BY DEF Stored, Safe
  <2>1. CASE index'[k] # index[k]
    BY <2>1, RecordProtected
  <2>2. CASE index'[k] = index[k]
    <3>1. disk[k] = v
      BY <2>2, QuietDisk
    <3>2. Safe(k, v)
      BY <2>2, <3>1 DEF Stored
    <3>3. ~AtRisk(k) /\ ~(phase = "trash" /\ k \in todo)
      BY <2>2, <3>1 DEF Outdated
    <3>. QED  BY <1>1, <3>2, <3>3, StepSafe
  <2>. QED  BY <2>1, <2>2
<1>. QED  BY <1>2, <1>3, <1>4, <1>5

\* A file that looks like its record is not sent again, and storage has it,
\* where any process reads it: whatever fails, crashes or is stopped, as long
\* as files can be read and hold still during a run.
THEOREM UnchangedStaysStored ==
    ASSUME Quiet
    PROVE  Spec => []UnchangedIsStored
<1>1. Init => Distinct /\ QuietInv
  BY InitDistinct, InitQuiet DEF Quiet
<1>2. TypeOK /\ Accounted /\ Distinct /\ QuietInv /\ [Next]_vars => Distinct' /\ QuietInv'
  BY NextDistinct, NextQuiet DEF Quiet
<1>3. QuietInv => UnchangedIsStored
  BY DEF QuietInv, Stored, Safe, UnchangedIsStored
<1>. QED  BY <1>1, <1>2, <1>3, TypeInvariant, AccountedInvariant, PTL DEF Spec

(***************************************************************************)
(* After the retention window: trash may have let the recorded version go, *)
(* but storage or trash still has a whole one.                             *)
(***************************************************************************)
\* Nothing in storage mixes two contents of a file.
WholeBin(bin) == \A t \in bin : t[2] \in Version
NoTorn == /\ current \in Entries /\ spool \in Entries /\ savedCurrent \in Entries
          /\ WholeBin(trash) /\ WholeBin(savedTrash)

LEMMA WriteWhole ==
    ASSUME NoTorn, NEW cur \in Entries, NEW pack \in Entries, NEW bin, WholeBin(bin),
           SetStore(cur, pack, bin)
    PROVE  NoTorn'
BY DEF NoTorn, WholeBin, SetStore

LEMMA FlushWhole ==
    ASSUME NoTorn,
           \/ SaveAll \/ SetStore(Sealed, Nothing, trash) \/ SetStore(current, Nothing, trash)
           \/ SetStore(current, spool, trash) \/ Reopened \/ UNCHANGED storeVars
    PROVE  NoTorn'
<1>1. Nothing \in Entries /\ Sealed \in Entries
  BY DEF NoTorn, Nothing, Sealed, Read, Entries
<1>2. CASE SaveAll \/ Reopened \/ UNCHANGED storeVars
  BY <1>1, <1>2 DEF NoTorn, WholeBin, SaveAll, Reopened, storeVars
<1>3. CASE \/ SetStore(Sealed, Nothing, trash) \/ SetStore(current, Nothing, trash)
           \/ SetStore(current, spool, trash)
  BY <1>1, <1>3, WriteWhole DEF NoTorn
<1>. QED  BY <1>2, <1>3

LEMMA NextWhole ==
    ASSUME TypeOK, Accounted, Distinct, AtRest, NoTorn, [Next]_vars
    PROVE  NoTorn'
<1>1. CASE \/ UNCHANGED storeVars \/ Crash \/ Exit \/ Start \/ Flush \/ Salvage \/ Close \/ TickAsk
  BY <1>1, FlushWhole DEF Crash, Exit, Start, Flush, Salvage, Close, TickAsk, FlushOk, FlushReports,
     FlushFails, SealFails, IndexFails
<1>2. \A k \in Key : Empties(k) \in Entries /\ Drops(k) \in Entries
  BY DEF Empties, Drops, NoTorn, Entries
<1>3. ASSUME NEW k \in Key, TrashMove(k) \/ TrashMoveFails(k)  PROVE NoTorn'
  <2>1. Read(k) # None => WholeBin(Binned(k))
    BY DEF Binned, Read, NoTorn, WholeBin, Entries
  <2>. QED  BY <1>2, <1>3, <2>1, WriteWhole, FlushWhole DEF TrashMove, TrashMoveFails, NoTorn
<1>4. ASSUME NEW gone, StoreDelete(gone)  PROVE NoTorn'
  <2>1. /\ [k \in Key |-> IF k \in gone THEN None ELSE current[k]] \in Entries
        /\ [k \in Key |-> IF k \in gone THEN None ELSE spool[k]] \in Entries
    BY DEF NoTorn, Entries
  <2>. QED  BY <1>4, <2>1, WriteWhole DEF StoreDelete, NoTorn
<1>5. ASSUME NEW k \in Key, Land(k) \/ PutFails(k)  PROVE NoTorn'
  <2>1. InUpload(k)
    BY <1>5 DEF Land, PutFails, Working, InUpload
  <2>2. Sent(k) = {pre[k]} /\ pre[k] \in Version
    BY <2>1 DEF Sent, Accounted, Uploading, AtRest, TypeOK, RunOK, Entries
  <2>3. /\ [current EXCEPT ![k] = pre[k]] \in Entries
        /\ [spool EXCEPT ![k] = pre[k]] \in Entries
        /\ [Sealed EXCEPT ![k] = pre[k]] \in Entries
        /\ Nothing \in Entries
    BY <2>2 DEF NoTorn, Nothing, Sealed, Read, Entries
  <2>. HIDE DEF NoTorn
  <2>4. CASE Land(k)
    <3>1. StorePut(k, pre[k])  BY <2>2, <2>4 DEF Land
    <3>. QED  BY <2>3, <3>1, WriteWhole DEF StorePut, NoTorn
  <2>5. CASE PutFails(k)
    BY <2>2, <2>3, <2>5, WriteWhole, FlushWhole DEF PutFails, NoTorn
  <2>. QED  BY <1>5, <2>4, <2>5
<1>6. ASSUME NEW k \in Key, TornDelete(k) \/ TornDeleteFails(k)  PROVE NoTorn'
  BY <1>4, <1>6, FlushWhole DEF TornDelete, TornDeleteFails
<1>7. CASE DeleteMany
  BY <1>4, <1>7 DEF DeleteMany
<1>8. CASE Prune
  <2>1. PICK gone : SetStore(current, spool, trash \ gone)
    <3>1. trash \ {} = trash
      OBVIOUS
    <3>. QED  BY <1>8, <3>1 DEF Prune
  <2>2. WholeBin(trash \ gone)
    BY DEF NoTorn, WholeBin
  <2>. QED  BY <2>1, <2>2, WriteWhole DEF NoTorn
<1>9. \A k \in Key : ~Move(k)
  BY DEF Move, IsMove, Distinct, Nothing
<1>10. \A k \in Key : Begin(k) \/ Check(k) \/ CheckGone(k) => UNCHANGED storeVars
  BY DEF Begin, Check, CheckGone
<1>. QED  BY <1>1, <1>3, <1>5, <1>6, <1>7, <1>8, <1>9, <1>10, StoreSteps

\* What is in the folder is not as recorded: today's trash has a version of it
\* from before the first worker starts until trash expires.
InTrashToday(k) == \E c \in Version : <<k, c, day>> \in trash
Outgoing   == {"transfer", "delete", "flush", "record", "forget", "moves", "tidy"}
ReplacedInTrash == \A k \in Key : index[k] \notin {None, disk[k]} =>
                /\ phase = "trash" => k \in todo \/ err \/ InTrashToday(k)
                /\ phase \in Outgoing => InTrashToday(k)
\* A run starts, and records, with trash saved.
TrashSaved == phase \in {"scan", "record", "forget", "moves", "tidy"} => savedTrash = trash
Recoverable == \A k \in Key : index[k] # None => \E v \in Version : Protected(k, v)
WholeInv == NoTorn /\ ReplacedInTrash /\ TrashSaved /\ Recoverable

LEMMA TrashSteps ==
    ASSUME [Next]_vars
    PROVE  trash \subseteq trash' \/ Prune \/ phase' = "idle"
<1>1. CASE Crash \/ Exit
  BY <1>1 DEF Crash, Exit, RunOver, runVars
<1>2. CASE Start \/ Flush \/ Salvage \/ Close \/ UNCHANGED storeVars
  <2>1. FlushOk \/ FlushReports \/ FlushFails \/ UNCHANGED storeVars
    BY <1>2 DEF Start, Flush, Salvage, Close
  <2>. QED  BY <2>1, FlushKeepsTrash
<1>3. CASE TickAsk
  BY <1>3 DEF TickAsk, SaveAll, IndexFails, SealFails, SetStore, storeVars
<1>4. CASE DeleteMany
  BY <1>4 DEF DeleteMany, StoreDelete, SetStore
<1>5. ASSUME NEW j \in Key, TrashMove(j) \/ TrashMoveFails(j)  PROVE trash \subseteq trash'
  <2>1. trash' \in {trash, Binned(j)}
    BY <1>5 DEF TrashMove, TrashMoveFails, SetStore
  <2>. QED  BY <2>1 DEF Binned
<1>6. ASSUME NEW j \in Key,
             \/ Begin(j) \/ Land(j) \/ PutFails(j) \/ Check(j)
             \/ CheckGone(j) \/ TornDelete(j) \/ TornDeleteFails(j) \/ Move(j)
      PROVE  trash' = trash
  BY <1>6 DEF Begin, Land, PutFails, Check, CheckGone, TornDelete, TornDeleteFails, Move,
     StorePut, StoreDelete, SetStore, storeVars
<1>. QED  BY <1>1, <1>2, <1>3, <1>4, <1>5, <1>6, StoreSteps

\* A run leaves its start, and reaches its records, with the store flushed.
LEMMA NextTrashSaved ==
    ASSUME Accounted, TrashSaved, [Next]_vars
    PROVE  TrashSaved'
<1>. DEFINE Quiescent == {"scan", "record", "forget", "moves", "tidy"}
<1>. SUFFICES ASSUME phase' \in Quiescent  PROVE savedTrash' = trash'
  BY DEF TrashSaved
<1>1. CASE UNCHANGED storeVars /\ phase \in Quiescent
  BY <1>1 DEF TrashSaved, storeVars
<1>2. CASE (Start \/ Flush) /\ FlushOk
  BY <1>2 DEF FlushOk, SaveAll
<1>3. \/ UNCHANGED storeVars /\ phase \in Quiescent
      \/ (Start \/ Flush) /\ FlushOk
  <2>1. CASE Crash
    BY <2>1 DEF Crash, RunOver
  <2>2. CASE People \/ Midnight \/ Exit \/ UNCHANGED vars
    BY <2>2 DEF People, Remove, Save, Rename, Cancel, Midnight, Exit, vars, runVars
  <2>3. CASE Checkpointer
    BY <2>3 DEF Accounted, Ticking, Checkpointer, TickTake, TickAsk, TickEnd
  <2>4. CASE Engine
    BY <2>4 DEF Engine, Begin, Land, PutFails, Check, CheckGone, TornDelete, TornDeleteFails,
       Move, Working, transferRest, EndTransfer, DeleteMany, Goto
  <2>5. ASSUME NEW k \in Key, TrashMove(k) \/ TrashMoveFails(k)  PROVE FALSE
    BY <2>5 DEF TrashMove, TrashMoveFails, Goto
  <2>6. ASSUME NEW k \in Key, Scan(k) \/ RecordMove(k)
        PROVE  UNCHANGED storeVars /\ phase \in Quiescent
    BY <2>6 DEF Scan, RecordMove
  <2>7. CASE \/ Start \/ ScanFails \/ Plan \/ TrashDone \/ Flush \/ Record \/ Forget \/ MovesDone
             \/ Salvage \/ Note \/ Prune \/ Close
    BY <2>7 DEF Start, ScanFails, Plan, TrashDone, Flush, Record, Forget, MovesDone, Salvage,
       Note, Prune, Close, RunOver, Goto
  <2>. QED  BY <2>1, <2>2, <2>3, <2>4, <2>5, <2>6, <2>7 DEF Next, Run
<1>. QED  BY <1>1, <1>2, <1>3

\* How the phases after the trash step are entered.
LEMMA OutgoingSteps ==
    ASSUME [Next]_vars, phase' \in Outgoing
    PROVE  phase \in Outgoing \/ TrashDone \/ (Plan /\ phase' = "tidy")
<1>. USE DEF Outgoing
<1>1. CASE Crash
  BY <1>1 DEF Crash, RunOver
<1>2. CASE People \/ Midnight \/ Exit \/ Checkpointer \/ UNCHANGED vars
  BY <1>2 DEF People, Remove, Save, Rename, Cancel, Midnight, Exit, vars, runVars, Checkpointer,
     TickTake, TickAsk, TickEnd
<1>3. CASE Engine
  BY <1>3 DEF Engine, Begin, Land, PutFails, Check, CheckGone, TornDelete, TornDeleteFails,
     Move, Working, EndTransfer, DeleteMany
<1>4. ASSUME NEW k \in Key, TrashMove(k) \/ TrashMoveFails(k) \/ Scan(k)  PROVE FALSE
  BY <1>4 DEF TrashMove, TrashMoveFails, Scan, Goto
<1>5. CASE \/ Start \/ ScanFails \/ Plan \/ TrashDone \/ Flush \/ Record \/ Forget \/ MovesDone
           \/ Salvage \/ Note \/ Prune \/ Close \/ \E k \in Key : RecordMove(k)
  BY <1>5 DEF Start, ScanFails, Plan, TrashDone, Flush, Record, Forget, MovesDone, Salvage,
     Note, Prune, Close, RecordMove, RunOver, Goto
<1>. QED  BY <1>1, <1>2, <1>3, <1>4, <1>5 DEF Next, Run

\* What differs from the folder is in today's trash once the trash step is over.
LEMMA NextReplaced ==
    ASSUME Quiet, RetentionDays > 0, TypeOK, Accounted, Distinct, QuietInv, NoTorn,
           ReplacedInTrash, [Next]_vars
    PROVE  ReplacedInTrash'
<1>. SUFFICES ASSUME NEW k \in Key, index'[k] \notin {None, disk'[k]},
                     phase' = "trash" \/ phase' \in Outgoing
              PROVE  /\ phase' = "trash" => (k \in todo \/ err \/ InTrashToday(k))'
                     /\ phase' \in Outgoing => InTrashToday(k)'
  BY DEF ReplacedInTrash
<1>1. phase' # "idle" /\ ~Midnight /\ ~Prune
  BY DEF Outgoing, Midnight, runVars, Prune, Goto
<1>2. disk'[k] = disk[k] /\ UNCHANGED day
  BY <1>1, QuietDisk, DaySteps
<1>3. index'[k] = index[k]
  <2>. SUFFICES ASSUME index'[k] # index[k]  PROVE FALSE
    OBVIOUS
  <2>1. index'[k] \in {landed[k], batch[k]}
    BY RecordProtected
  <2>. QED  BY <1>2, <2>1 DEF Distinct, AsRead, QuietInv, AtRest
<1>4. InTrashToday(k) => InTrashToday(k)'
  BY <1>1, <1>2, TrashSteps DEF InTrashToday
<1>5. CASE Plan
  <2>1. \A i \in Key : seen[i] = disk[i]
    BY <1>5 DEF Plan, QuietInv, Scanned
  <2>2. k \in Vanished \cup Changed
    BY <1>2, <1>3, <2>1 DEF Vanished, Changed
  <2>3. phase' = "trash" /\ (k \in Vanished => k \in deletes') /\ (k \in Changed => job'[k] = "queued")
    <3>1. \A f, t \in Key : ~Match(f, t)
      BY NoneAssumption DEF Match, Vanished, Candidate, Distinct, ScannedOwn
    <3>. QED  BY <1>5, <2>2, <3>1, NoneAssumption DEF Plan, Goto, Outgoing, Vanished, Changed
  <2>4. k \in todo'
    BY <1>3, <1>5, <2>2, <2>3, PlanProtects DEF AtRisk
  <2>. QED  BY <2>3, <2>4 DEF Outgoing
<1>6. ASSUME ~Plan, phase' = "trash"  PROVE (k \in todo \/ err \/ InTrashToday(k))'
  <2>1. ASSUME NEW j \in Key, TrashMove(j) \/ TrashMoveFails(j)
        PROVE  (k \in todo \/ err \/ InTrashToday(k))'
    <3>1. CASE k = j /\ TrashMove(j)
      <4>1. Read(k) \in Version
        BY <3>1 DEF TrashMove, Read, NoTorn, Entries
      <4>2. <<k, Read(k), day>> \in trash'
        BY <3>1 DEF TrashMove, SetStore, Binned
      <4>. QED  BY <1>2, <4>1, <4>2 DEF InTrashToday
    <3>2. CASE TrashMoveFails(j)
      BY <3>2 DEF TrashMoveFails
    <3>3. CASE k # j /\ TrashMove(j)
      BY <1>2, <1>3, <1>4, <3>3 DEF ReplacedInTrash, TrashMove, Goto
    <3>. QED  BY <2>1, <3>1, <3>2, <3>3
  <2>2. CASE phase = "trash" /\ UNCHANGED <<todo, err>>
    BY <1>2, <1>3, <1>4, <2>2 DEF ReplacedInTrash
  <2>. QED  BY <1>6, <2>1, <2>2, PhaseSteps
<1>7. ASSUME ~Plan, phase' \in Outgoing  PROVE InTrashToday(k)'
  <2>1. CASE TrashDone
    BY <1>2, <1>3, <1>4, <1>7, <2>1 DEF ReplacedInTrash, TrashDone, Goto, Outgoing
  <2>2. CASE phase \in Outgoing
    BY <1>2, <1>3, <1>4, <2>2 DEF ReplacedInTrash
  <2>. QED  BY <1>7, <2>1, <2>2, OutgoingSteps
<1>. QED  BY <1>5, <1>6, <1>7 DEF Outgoing

\* Every record is of a file of which a whole version is protected.
LEMMA NextRecoverable ==
    ASSUME Quiet, RetentionDays > 0, TypeOK, Accounted, Distinct, QuietInv, WholeInv, [Next]_vars
    PROVE  Recoverable'
<1>. SUFFICES ASSUME NEW k \in Key, index'[k] # None  PROVE \E v \in Version : Protected(k, v)'
  BY DEF Recoverable
<1>1. CASE index'[k] # index[k]
  <2>1. PICK w : w = index'[k]  OBVIOUS
  <2>2. Protected(k, w)' /\ w \in {landed[k], batch[k]}
    BY <1>1, <2>1, RecordProtected
  <2>3. w \in Version
    BY <2>1, <2>2 DEF TypeOK, RunOK, Entries
  <2>. QED  BY <2>2, <2>3
<1>2. CASE index'[k] = index[k] /\ ~Prune
  <2>1. PICK v \in Version : Protected(k, v)
    BY <1>2 DEF WholeInv, Recoverable
  <2>. QED  BY <1>2, <2>1, NextProtected
<1>3. CASE index'[k] = index[k] /\ Prune
  <2>1. phase = "tidy"  BY <1>3 DEF Prune
  <2>2. CASE disk[k] = index[k]
    <3>1. index[k] \in Version /\ Safe(k, index[k])
      BY <1>3, <2>2 DEF QuietInv, Stored, TypeOK, Entries
    <3>2. Protected(k, index[k])
      BY <2>1, <3>1, SafeProtected
    <3>3. PICK w : w = index[k]  OBVIOUS
    <3>. QED  BY <1>3, <3>1, <3>2, <3>3, NextProtected
  <2>3. CASE disk[k] # index[k]
    <3>1. InTrashToday(k)
      BY <1>3, <2>1, <2>3 DEF WholeInv, ReplacedInTrash, Outgoing
    <3>2. PICK v \in Version : <<k, v, day>> \in trash
      BY <3>1 DEF InTrashToday
    <3>3. <<k, v, day>> \in trash \cap savedTrash
      BY <2>1, <3>2 DEF WholeInv, TrashSaved
    <3>4. Protected(k, v)
      BY <2>1, <3>3 DEF Protected, Held, HeldHere, InTrash, Kept
    <3>. QED  BY <1>3, <3>3, <3>4, NextProtected
  <2>. QED  BY <2>2, <2>3
<1>. QED  BY <1>1, <1>2, <1>3

LEMMA InitWhole == Init => WholeInv
<1>. SUFFICES ASSUME Init  PROVE WholeInv
  OBVIOUS
<1>1. disk \in Entries /\ Nothing \in Entries
  BY DEF Init, Entries, Nothing
<1>2. NoTorn
  BY <1>1 DEF Init, NoTorn, WholeBin
<1>3. ReplacedInTrash /\ TrashSaved
  BY DEF Init, RunAtRest, ReplacedInTrash, TrashSaved, Outgoing
<1>4. Recoverable
  <2>1. \A k \in Key : index[k] # None => index[k] \in Version /\ Safe(k, index[k])
    BY <1>1 DEF Init, Safe, Nothing, Entries
  <2>2. \A k \in Key : ~AtRisk(k)
    BY DEF Init, RunAtRest, AtRisk
  <2>. QED  BY <2>1, <2>2, SafeProtected DEF Recoverable
<1>. QED  BY <1>2, <1>3, <1>4 DEF WholeInv

\* "Anything deleted or overwritten goes to trash first" (README.md:273), and
\* expiring trash never takes the only copy of a file that was backed up: some
\* whole version of it can be got back at any moment, on any day.
THEOREM NothingIsLost ==
    ASSUME Quiet, RetentionDays > 0
    PROVE  Spec => []NothingLost
<1>1. Init => Distinct /\ QuietInv /\ WholeInv
  BY InitDistinct, InitQuiet, InitWhole DEF Quiet
<1>2. TypeOK /\ Accounted /\ Distinct /\ QuietInv /\ WholeInv /\ [Next]_vars
      => Distinct' /\ QuietInv' /\ WholeInv'
  <2>1. ASSUME TypeOK, Accounted, Distinct, QuietInv, WholeInv, [Next]_vars
        PROVE  Distinct' /\ QuietInv' /\ WholeInv'
    <3>1. Distinct' /\ QuietInv'
      BY <2>1, NextDistinct, NextQuiet DEF Quiet
    <3>2. NoTorn' /\ TrashSaved' /\ ReplacedInTrash' /\ Recoverable'
      BY <2>1, NextWhole, NextTrashSaved, NextReplaced, NextRecoverable DEF WholeInv, QuietInv
    <3>. QED  BY <3>1, <3>2 DEF WholeInv
  <2>. QED  BY <2>1
<1>3. WholeInv => NothingLost
  BY DEF WholeInv, Recoverable, Protected, Held, NothingLost
<1>. QED  BY <1>1, <1>2, <1>3, TypeInvariant, AccountedInvariant, PTL DEF Spec

(***************************************************************************)
(* Runs that nothing disturbs, with renames: no fault, no stop, a disk     *)
(* that is still while a run is under way.  The invariant says of every    *)
(* file of a run (one left alone, one deleted, one renamed away, one sent, *)
(* one renamed to) what record and storage hold of it at each phase.       *)
(***************************************************************************)
Undisturbed == ~BusyDisk /\ MaxFaults = 0 /\ MaxStops = 0

Planned == {"trash", "transfer", "delete", "flush", "record", "forget", "moves"}
Ended   == {"delete", "flush", "record", "forget", "moves"}
Flushed == {"idle", "record", "forget", "moves", "tidy", "closing"}

IsSource(k) == \E t \in Key : source[t] = k
\* Nothing goes wrong, so a run neither stops nor salvages.
Sound == ~failed /\ ~cancelled /\ ~err /\ phase \notin {"salvage", "note"}
\* Before the plan and after the last record, storage and record agree, and
\* with the folder once the run is done.
Level == phase \in {"idle", "scan", "tidy", "closing"} => spool = Nothing /\ current = index /\ savedCurrent = index
LevelDisk == phase = "tidy" => index = disk
\* What was scanned is as it was, and so is what is sent or has landed.
Seen  == phase = "scan" => \A k \in Key \ todo : seen[k] = disk[k]
Jobs  == phase \in Planned =>
    /\ \A k \in Key : /\ job[k] # "failed" /\ (job[k] # "none" => disk[k] # None)
                      /\ landed[k] \in {None, disk[k]} /\ batch[k] \in {None, disk[k]}
                      /\ job[k] \in {"sending", "sent"} => pre[k] = disk[k]
    /\ phase = "trash" => \A k \in Key : job[k] \in {"none", "queued"}
    /\ phase \in Ended => \A k \in Key : job[k] \in {"none", "done"}
    /\ \A a, b \in Key : source[a] = source[b] => a = b \/ source[a] = None
\* A file the run leaves alone, one it deletes, one it sends, one it renames to.
Alone(k) == job[k] = "none" /\ k \notin deletes /\ ~IsSource(k) => index[k] = disk[k] /\ Read(k) = disk[k]
Going(k) == k \in deletes =>
    /\ disk[k] = None /\ ~IsSource(k)
    /\ phase \in {"flush", "record", "forget", "moves"} => Read(k) = None
    /\ phase = "moves" => index[k] = None
Sending(k) == job[k] # "none" /\ ~IsMove(k) =>
    /\ job[k] # "done" => index[k] # disk[k]
    /\ job[k] = "done" => disk[k] \in {landed[k], batch[k], index[k]}
    /\ job[k] \in {"sent", "done"} => Read(k) = disk[k]
    /\ phase \in {"forget", "moves"} => index[k] = disk[k]
Renamed(k) == IsMove(k) =>
    /\ disk[source[k]] = None /\ job[k] \in {"queued", "done"}
    /\ phase # "moves" \/ k \in todo => index[source[k]] = disk[k] /\ index[k] \in {None, disk[k]}
    /\ phase # "moves" => index[k] = None
    /\ phase = "moves" /\ k \notin todo => index[source[k]] = None /\ index[k] = disk[k]
    /\ job[k] = "queued" => Read(source[k]) = disk[k]
    /\ job[k] = "done" => Read(source[k]) = None /\ Read(k) = disk[k]
\* What is still to go to trash, and what a flush leaves.
Trashing == phase = "trash" => \A k \in todo : index[k] # None /\ Read(k) = index[k] /\ ~IsSource(k) /\ ~IsMove(k)
                                             /\ (k \in deletes \/ job[k] = "queued")
Flushes == /\ phase \in Flushed => spool = Nothing /\ current = savedCurrent
           /\ phase \in {"flush", "record", "forget", "moves"} /\ Doomed # {} => deleted
\* Storage has saved what looks like its record.
Backs == \A k \in Key : disk[k] # None /\ index[k] = disk[k] => savedCurrent[k] = disk[k]
UndisturbedInv ==
    /\ Sound /\ Level /\ LevelDisk /\ Seen /\ Jobs /\ Trashing /\ Flushes /\ Backs
    /\ phase \in Planned => \A k \in Key : Alone(k) /\ Going(k) /\ Sending(k) /\ Renamed(k)

LEMMA Calm ==
    ASSUME Undisturbed, TypeOK, Sound
    PROVE  ~Fault /\ ~RequestFails /\ ~FlushReports /\ stops = 0
BY BoundAssumption DEF Undisturbed, TypeOK, Sound, Fault, RequestFails, FlushReports

\* Before the plan and after it nothing is held back.
LEMMA AtLevel ==
    ASSUME Sound', phase' \in {"idle", "scan", "tidy", "closing"},
           spool' = Nothing, current' = index', savedCurrent' = index', LevelDisk', Seen'
    PROVE  UndisturbedInv'
BY DEF UndisturbedInv, Level, Jobs, Trashing, Flushes, Backs, Planned, Flushed

LEMMA InPlan ==
    ASSUME Sound', phase' \in Planned, Jobs', Trashing', Flushes', Backs',
           \A k \in Key : Alone(k)' /\ Going(k)' /\ Sending(k)' /\ Renamed(k)'
    PROVE  UndisturbedInv'
BY DEF UndisturbedInv, Level, LevelDisk, Seen, Planned

\* What a process reads of each file, and what storage has saved, after a call.
Saves(i) == savedCurrent'[i] \in {savedCurrent[i], Read(i)'}

LEMMA Sealing ==
    ASSUME StoreOK, SaveAll \/ SetStore(Sealed, Nothing, trash) \/ SetStore(current, spool, trash) \/ UNCHANGED storeVars
    PROVE  \A i \in Key : Read(i)' = Read(i) /\ Saves(i)
BY DEF SaveAll, SetStore, Sealed, Nothing, Read, Saves, storeVars, StoreOK

LEMMA Putting ==
    ASSUME StoreOK, NEW k \in Key, NEW c, c # None, StorePut(k, c)
    PROVE  \A i \in Key : Read(i)' = (IF i = k THEN c ELSE Read(i)) /\ Saves(i)
BY DEF StorePut, SetStore, Sealed, Nothing, Read, Saves, StoreOK, Objects

LEMMA Emptying ==
    ASSUME StoreOK, NEW gone \in SUBSET Key, NEW cur, NEW pack, NEW bin, SetStore(cur, pack, bin),
           \A i \in Key : /\ cur[i] = (IF i \in gone THEN None ELSE current[i])
                          /\ pack[i] = (IF i \in gone THEN None ELSE spool[i])
    PROVE  \A i \in Key : Read(i)' = (IF i \in gone THEN None ELSE Read(i)) /\ Saves(i)
BY DEF SetStore, Nothing, Read, Saves, StoreOK

LEMMA Binning ==
    ASSUME StoreOK, NEW k \in Key, SetStore(Empties(k), Drops(k), Binned(k))
    PROVE  \A i \in Key : Read(i)' = (IF i = k THEN None ELSE Read(i)) /\ Saves(i)
BY DEF SetStore, Empties, Drops, Nothing, Read, Saves, StoreOK, Objects

LEMMA Moving ==
    ASSUME StoreOK, NEW k \in Key, NEW from \in Key, from # k, Read(from) # None,
           SetStore([[current EXCEPT ![k] = Read(from)] EXCEPT ![from] = None],
                    [Drops(k) EXCEPT ![from] = None], trash)
    PROVE  \A i \in Key : Read(i)' = (IF i = k THEN Read(from) ELSE IF i = from THEN None ELSE Read(i)) /\ Saves(i)
BY DEF SetStore, Drops, Nothing, Read, Saves, StoreOK, Objects

LEMMA Matching ==
    ASSUME TypeOK, UndisturbedInv, phase \in Planned, NEW k \in Key, disk[k] # None, index[k] = disk[k]
    PROVE  Read(k) = disk[k]
<1>1. Alone(k) /\ Going(k) /\ Sending(k) /\ Renamed(k) /\ Jobs
  BY DEF UndisturbedInv
<1>2. ~IsSource(k)
  BY NoneAssumption DEF UndisturbedInv, Renamed, IsSource, IsMove
<1>. QED  BY <1>1, <1>2 DEF Alone, Going, Sending, Renamed, Jobs, TypeOK, RunOK, Ended

\* Between runs, at the start of one, and at its end.
LEMMA IdleUndisturbed ==
    ASSUME Undisturbed, TypeOK, UndisturbedInv,
           \/ \E k \in Key : Remove(k) \/ \E v \in Version : Save(k, v)
           \/ \E a, b \in Key : Rename(a, b)
           \/ Midnight \/ Exit
    PROVE  UndisturbedInv'
<1>1. phase = "idle" /\ phase' = "idle" /\ UNCHANGED <<index, cancelled, err>>
  BY DEF Undisturbed, Remove, Save, Rename, Edit, Midnight, Exit, runVars
<1>2. UNCHANGED storeVars \/ Reopened
  BY DEF Remove, Save, Rename, Midnight, Exit
<1>3. spool = Nothing /\ current = index /\ savedCurrent = index /\ Sound
  BY <1>1 DEF UndisturbedInv, Level
<1>4. spool' = Nothing /\ current' = index' /\ savedCurrent' = index' /\ Sound'
  BY <1>1, <1>2, <1>3 DEF storeVars, Reopened, Sound
<1>. QED  BY <1>1, <1>4, AtLevel DEF LevelDisk, Seen

LEMMA EndsUndisturbed ==
    ASSUME Undisturbed, TypeOK, UndisturbedInv,
           Start \/ Prune \/ Close \/ \E k \in Key : Scan(k)
    PROVE  UndisturbedInv'
<1>. USE DEF Goto
<1>1. Sound /\ phase \in {"idle", "scan", "tidy", "closing"}
  BY DEF UndisturbedInv, Start, Prune, Close, Scan
<1>2. spool = Nothing /\ current = index /\ savedCurrent = index
  BY <1>1 DEF UndisturbedInv, Level
<1>3. Sealed = current
  BY <1>2 DEF TypeOK, StoreOK, Objects, Sealed, Read, Nothing
<1>4. CASE Start
  <2>1. FlushOk /\ NoFault /\ phase' = "scan" /\ todo' = Key /\ UNCHANGED <<index, cancelled, err>>
    BY <1>1, <1>4, Calm DEF Start
  <2>. QED  BY <1>1, <1>2, <1>3, <2>1, AtLevel DEF FlushOk, SaveAll, Sound, Seen, LevelDisk
<1>5. ASSUME NEW k \in Key, Scan(k) PROVE UndisturbedInv'
  <2>1. /\ phase = "scan" /\ phase' = "scan" /\ todo' = todo \ {k} /\ seen' = [seen EXCEPT ![k] = disk[k]]
        /\ UNCHANGED <<disk, index, storeVars, cancelled, err>>
    BY <1>1, <1>5, Calm DEF Scan
  <2>2. Seen'
    BY <2>1 DEF UndisturbedInv, Seen, TypeOK, RunOK, Entries
  <2>. QED  BY <1>1, <1>2, <2>1, <2>2, AtLevel DEF Sound, LevelDisk, storeVars
<1>6. CASE Prune
  <2>1. /\ phase' = "closing" /\ UNCHANGED <<index, failed, cancelled, err>>
        /\ \E bin : SetStore(current, spool, bin)
    BY <1>1, <1>6, Calm DEF Prune, tidyRest
  <2>. QED  BY <1>1, <1>2, <2>1, AtLevel DEF SetStore, Sound, LevelDisk, Seen
<1>7. CASE Close
  <2>1. FlushOk /\ phase' = "idle" /\ cancelled' = FALSE /\ err' = FALSE /\ UNCHANGED index
    BY <1>1, <1>7, Calm DEF Close, RunOver
  <2>. QED  BY <1>1, <1>2, <1>3, <2>1, AtLevel DEF FlushOk, SaveAll, Sound, Seen, LevelDisk
<1>. QED  BY <1>4, <1>5, <1>6, <1>7

LEMMA PlanUndisturbed ==
    ASSUME Undisturbed, TypeOK, Accounted, UndisturbedInv, Plan
    PROVE  UndisturbedInv'
<1>. DEFINE src == [k \in Key |-> IF \E f \in Key : Match(f, k) THEN CHOOSE f \in Key : Match(f, k) ELSE None]
            gone == {k \in Vanished : \A t \in Key : src[t] # k}
            doomed == IF RetentionDays > 0 THEN gone \cup Changed ELSE {}
<1>1. phase = "scan" /\ \A k \in Key : seen[k] = disk[k]
  BY DEF Plan, UndisturbedInv, Seen
<1>2. spool = Nothing /\ current = index /\ savedCurrent = index /\ Sound
  BY <1>1 DEF UndisturbedInv, Level
<1>3. /\ source' = src /\ deletes' = gone /\ UNCHANGED <<disk, index, storeVars, landed, batch, cancelled, err, pre>>
      /\ job' = [k \in Key |-> IF k \in Candidate \cup Changed THEN "queued" ELSE "none"]
  BY DEF Plan, tickVars
<1>4. \/ Vanished \cup Candidate \cup Changed = {} /\ phase' = "tidy"
      \/ phase' = "trash" /\ todo' = doomed
  BY <1>2 DEF Plan, Goto, Sound
<1>5. landed = Nothing /\ batch = Nothing
  BY <1>1 DEF Accounted, Ticking
<1>6. CASE phase' = "tidy"
  <2>1. index = disk
    BY <1>1, <1>4, <1>6 DEF Vanished, Candidate, Changed, TypeOK, Entries
  <2>. QED  BY <1>2, <1>3, <1>6, <2>1, AtLevel DEF storeVars, Sound, LevelDisk, Seen
<1>7. CASE phase' = "trash"
  <2>1. \A t \in Key : src[t] # None => src[t] \in Key /\ Match(src[t], t)
    BY DEF src
  <2>2. \A k \in Key : Read(k) = index[k] /\ Read(k)' = index[k]
    BY <1>2, <1>3 DEF Read, Nothing, storeVars
  <2>3. \A t \in Key : t \in Candidate <=> index[t] = None /\ disk[t] # None
    BY <1>1 DEF Candidate
  <2>4. \A t \in Key : t \in Vanished <=> index[t] # None /\ disk[t] = None
    BY <1>1 DEF Vanished
  <2>5. \A t \in Key : t \in Changed <=> index[t] # None /\ disk[t] # None /\ disk[t] # index[t]
    BY <1>1 DEF Changed
  <2>6. \A t \in Key : src[t] # None => src[t] \in Key /\ src[t] \in Vanished /\ t \in Candidate /\ index[src[t]] = disk[t]
    BY <1>1, <2>1 DEF Match
  <2>7. \A a, b \in Key : src[a] = src[b] => a = b \/ src[a] = None
    BY <1>1, <2>1 DEF Match
  <2>. HIDE DEF src
  <2>8. doomed \subseteq gone \cup Changed /\ gone \subseteq Vanished
    OBVIOUS
  <2>9. \A k \in Key : IsSource(k)' <=> \E t \in Key : src[t] = k
    BY <1>3 DEF IsSource
  <2>10. \A k \in Key : IsMove(k)' <=> src[k] # None
    BY <1>3 DEF IsMove
  <2>11. \A k \in Key : job'[k] = (IF k \in Candidate \cup Changed THEN "queued" ELSE "none")
    BY <1>3
  <2>12. \A k \in Key : k \in gone <=> k \in Vanished /\ \A t \in Key : src[t] # k
    BY DEF Vanished
  <2>. HIDE DEF gone, doomed
  <2>13. Jobs'
    BY <1>3, <1>5, <1>7, <2>3, <2>5, <2>7, <2>11 DEF Jobs, Nothing, Ended
  <2>14. Trashing'
    <3>. SUFFICES ASSUME NEW k \in doomed
                  PROVE  index[k] # None /\ ~IsSource(k)' /\ ~IsMove(k)' /\ k \in Key /\ (k \in gone \/ job'[k] = "queued")
      BY <1>3, <1>4, <1>7, <2>2 DEF Trashing
    <3>1. CASE k \in Changed
      BY <2>3, <2>4, <2>5, <2>6, <2>9, <2>10, <2>11, <3>1, NoneAssumption DEF Changed
    <3>2. CASE k \in gone
      BY <2>3, <2>4, <2>6, <2>8, <2>9, <2>10, <2>12, <3>2 DEF Vanished
    <3>. QED  BY <2>8, <3>1, <3>2
  <2>15. Flushes' /\ Backs' /\ Sound'
    BY <1>2, <1>3, <1>7 DEF Flushes, Backs, Flushed, Sound, storeVars
  <2>16. ASSUME NEW k \in Key PROVE Alone(k)' /\ Going(k)' /\ Sending(k)' /\ Renamed(k)'
    <3>1. Alone(k)'
      BY <1>3, <2>2, <2>3, <2>4, <2>5, <2>9, <2>11, <2>12 DEF Alone, TypeOK, Entries
    <3>2. Going(k)'
      BY <1>3, <1>7, <2>4, <2>9, <2>12 DEF Going
    <3>3. Sending(k)'
      BY <1>3, <1>7, <2>3, <2>5, <2>11 DEF Sending
    <3>4. Renamed(k)'
      BY <1>3, <1>7, <2>2, <2>3, <2>4, <2>6, <2>10, <2>11 DEF Renamed
    <3>. QED  BY <3>1, <3>2, <3>3, <3>4
  <2>. QED  BY <1>7, <2>13, <2>14, <2>15, <2>16, InPlan DEF Planned
<1>. QED  BY <1>4, <1>6, <1>7

\* Calls keep what is saved of a file that is as recorded, if the calling step says so of what is read.
LEMMA StaysSaved ==
    ASSUME UndisturbedInv, UNCHANGED disk, \A i \in Key : Saves(i),
           \A i \in Key : disk[i] # None /\ index'[i] = disk[i] =>
               Read(i)' = disk[i] /\ (index[i] = disk[i] \/ savedCurrent'[i] = disk[i])
    PROVE  Backs'
BY DEF UndisturbedInv, Backs, Saves

LEMMA TrashUndisturbed ==
    ASSUME Undisturbed, TypeOK, Accounted, UndisturbedInv,
           TrashDone \/ \E k \in Key : TrashMove(k) \/ TrashMoveFails(k)
    PROVE  UndisturbedInv'
<1>. USE DEF Goto
<1>1. Sound /\ phase = "trash" /\ phase \in Planned
  BY DEF UndisturbedInv, TrashDone, TrashMove, TrashMoveFails, Planned
<1>2. Jobs /\ Trashing /\ Flushes /\ Backs /\ \A k \in Key : Alone(k) /\ Going(k) /\ Sending(k) /\ Renamed(k)
  BY <1>1 DEF UndisturbedInv
<1>3. CASE TrashDone
  <2>1. phase' = "transfer" /\ UNCHANGED <<disk, index, storeVars, planVars, workVars, tickVars, cancelled, err, todo>>
    BY <1>1, <1>3 DEF TrashDone, Sound
  <2>2. \A k \in Key : Read(k)' = Read(k) /\ IsSource(k)' = IsSource(k) /\ IsMove(k)' = IsMove(k)
    BY <2>1 DEF Read, IsSource, IsMove, storeVars, planVars
  <2>3. Sound' /\ Jobs' /\ Trashing' /\ Flushes' /\ Backs'
    BY <1>1, <1>2, <2>1 DEF Sound, Jobs, Trashing, Flushes, Flushed, Backs, Planned, Ended, storeVars, planVars, workVars, tickVars
  <2>4. ASSUME NEW k \in Key PROVE Alone(k)' /\ Going(k)' /\ Sending(k)' /\ Renamed(k)'
    <3>1. Alone(k) /\ Going(k) /\ Sending(k) /\ Renamed(k) /\ job'[k] = job[k]
      BY <1>2, <2>1 DEF workVars
    <3>2. IsMove(k) => source[k] \in Key
      BY DEF TypeOK, RunOK, IsMove
    <3>. QED  BY <1>1, <2>1, <2>2, <3>1, <3>2 DEF Alone, Going, Sending, Renamed, planVars, workVars, tickVars
  <2>. QED  BY <2>1, <2>3, <2>4, InPlan DEF Planned
<1>4. ASSUME NEW k \in Key, TrashMoveFails(k) PROVE FALSE
  <2>1. k \in todo /\ Read(k) = None
    BY <1>1, <1>4, Calm DEF TrashMoveFails
  <2>. QED  BY <1>1, <1>2, <2>1 DEF Trashing
<1>5. ASSUME NEW k \in Key, TrashMove(k) PROVE UndisturbedInv'
  <2>1. /\ k \in todo /\ phase' = "trash" /\ todo' = todo \ {k} /\ UNCHANGED <<disk, index, failed, planVars, workVars, tickVars, cancelled, err>>
    BY <1>5 DEF TrashMove
  <2>2. \A i \in Key : Read(i)' = (IF i = k THEN None ELSE Read(i)) /\ Saves(i)
    BY <1>5, Binning DEF TrashMove, TypeOK
  <2>3. index[k] # None /\ ~IsSource(k) /\ ~IsMove(k) /\ Read(k) = index[k]
    BY <1>1, <1>2, <2>1 DEF Trashing
  <2>4. \A i \in Key : (IsSource(i)' <=> IsSource(i)) /\ (IsMove(i)' <=> IsMove(i))
    BY <2>1 DEF IsSource, IsMove, planVars
  <2>5. k \in deletes \/ job[k] = "queued"
    BY <1>1, <1>2, <2>1 DEF Trashing
  <2>6. Sound' /\ Jobs' /\ Flushes'
    BY <1>1, <1>2, <2>1 DEF Sound, Jobs, Flushes, Flushed, Planned, Ended, planVars, workVars, tickVars
  <2>7. Trashing'
    BY <1>1, <1>2, <2>1, <2>2, <2>4 DEF Trashing, TypeOK, RunOK, planVars, workVars
  <2>8. index[k] # disk[k] \/ disk[k] = None
    BY <1>2, <2>3, <2>5 DEF Going, Sending
  <2>9. Backs'
    BY <1>1, <2>1, <2>2, <2>8, StaysSaved, Matching
  <2>10. ASSUME NEW i \in Key PROVE Alone(i)' /\ Going(i)' /\ Sending(i)' /\ Renamed(i)'
    <3>1. Alone(i) /\ Going(i) /\ Sending(i) /\ Renamed(i) /\ job'[i] = job[i] /\ job[i] \in {"none", "queued"}
      BY <1>1, <1>2, <2>1 DEF workVars, Jobs
    <3>2. IsMove(i) => source[i] \in Key /\ source[i] # k
      BY <2>3 DEF TypeOK, RunOK, IsMove, IsSource
    <3>3. Alone(i)' /\ Going(i)'
      BY <1>1, <2>1, <2>2, <2>4, <2>5, <3>1 DEF Alone, Going, planVars, workVars
    <3>4. Sending(i)'
      BY <1>1, <2>1, <2>2, <2>4, <3>1 DEF Sending, planVars, workVars, tickVars
    <3>5. Renamed(i)'
      BY <1>1, <2>1, <2>2, <2>4, <3>1, <3>2 DEF Renamed, planVars, workVars
    <3>. QED  BY <3>3, <3>4, <3>5
  <2>. QED  BY <2>1, <2>6, <2>7, <2>9, <2>10, InPlan DEF Planned
<1>. QED  BY <1>3, <1>4, <1>5

\* Workers.  Nothing makes one of them fail: the disk is still, and no request does.
LEMMA WorkersSucceed ==
    ASSUME Undisturbed, TypeOK, Accounted, UndisturbedInv, NEW k \in Key,
           \/ Begin(k) \/ Land(k) \/ PutFails(k) \/ Check(k) \/ CheckGone(k) \/ TornDelete(k)
           \/ TornDeleteFails(k) \/ Move(k)
    PROVE  /\ phase = "transfer" /\ phase' = "transfer"
           /\ UNCHANGED <<disk, index, failed, planVars, batch, cancelled, err, deleted>>
           /\ \/ /\ job[k] = "queued" /\ ~IsMove(k) /\ JobTo(k, "sending") /\ pre' = [pre EXCEPT ![k] = disk[k]]
                 /\ UNCHANGED <<storeVars, landed>>
              \/ job[k] = "sending" /\ ~IsMove(k) /\ JobTo(k, "sent") /\ StorePut(k, disk[k]) /\ UNCHANGED <<pre, landed>>
              \/ /\ job[k] = "sent" /\ ~IsMove(k) /\ JobTo(k, "done") /\ landed' = [landed EXCEPT ![k] = disk[k]]
                 /\ UNCHANGED <<storeVars, pre>>
              \/ /\ job[k] = "queued" /\ IsMove(k) /\ JobTo(k, "done") /\ Read(source[k]) # None
                 /\ SetStore([[current EXCEPT ![k] = Read(source[k])] EXCEPT ![source[k]] = None],
                             [Drops(k) EXCEPT ![source[k]] = None], trash)
                 /\ UNCHANGED <<pre, landed>>
<1>1. phase = "transfer" /\ phase' = "transfer" /\ UNCHANGED <<disk, index, planVars, batch, cancelled, err, deleted>>
  BY DEF Begin, Land, PutFails, Check, CheckGone, TornDelete, TornDeleteFails, Move, Working, transferRest
<1>2. Sound /\ Jobs /\ Renamed(k) /\ ~Fault /\ ~RequestFails
  <2>1. Sound /\ Jobs /\ Renamed(k)
    BY <1>1 DEF UndisturbedInv, Planned
  <2>. QED  BY <2>1, Calm
<1>3. job[k] \in {"sending", "sent"} => pre[k] = disk[k] /\ ~IsMove(k)
  BY <1>1, <1>2 DEF Jobs, Planned, Accounted, Uploading, InUpload
<1>4. job[k] # "none" => disk[k] # None
  BY <1>1, <1>2 DEF Jobs, Planned
<1>5. CASE Begin(k)
  <2>1. job[k] = "queued" /\ ~IsMove(k) /\ JobTo(k, "sending") /\ pre' = [pre EXCEPT ![k] = disk[k]] /\ UNCHANGED <<storeVars, landed>>
    BY <1>2, <1>4, <1>5 DEF Begin, Working
  <2>. QED  BY <1>1, <2>1 DEF storeVars
<1>6. CASE Land(k)
  <2>1. Sent(k) = {disk[k]} /\ job[k] = "sending"
    BY <1>3, <1>6 DEF Land, Working, Sent
  <2>2. JobTo(k, "sent") /\ StorePut(k, disk[k]) /\ UNCHANGED <<failed, pre, landed>>
    BY <1>6, <2>1 DEF Land
  <2>. QED  BY <1>1, <1>3, <2>1, <2>2
<1>7. CASE Check(k)
  <2>1. job[k] = "sent" /\ JobTo(k, "done") /\ landed' = [landed EXCEPT ![k] = disk[k]] /\ UNCHANGED <<storeVars, pre>>
    BY <1>3, <1>7 DEF Check, Working
  <2>. QED  BY <1>1, <1>3, <2>1 DEF storeVars
<1>8. CASE PutFails(k)
  BY <1>2, <1>3, <1>8 DEF PutFails, Working
<1>9. CASE CheckGone(k)
  BY <1>2, <1>4, <1>9 DEF CheckGone, Working
<1>10. CASE TornDelete(k) \/ TornDeleteFails(k)
  BY <1>3, <1>10 DEF TornDelete, TornDeleteFails, Working
<1>11. CASE Move(k)
  <2>1. job[k] = "queued" /\ IsMove(k) /\ UNCHANGED <<failed, pre, landed>>
    BY <1>11 DEF Move, Working
  <2>2. Read(source[k]) # None
    BY <1>2, <1>4, <2>1 DEF Renamed
  <2>3. /\ SetStore([[current EXCEPT ![k] = Read(source[k])] EXCEPT ![source[k]] = None],
                    [Drops(k) EXCEPT ![source[k]] = None], trash)
        /\ JobTo(k, "done")
    BY <1>2, <1>11, <2>2 DEF Move
  <2>. QED  BY <1>1, <2>1, <2>2, <2>3
<1>. QED  BY <1>5, <1>6, <1>7, <1>8, <1>9, <1>10, <1>11

LEMMA WorkUndisturbed ==
    ASSUME Undisturbed, TypeOK, Accounted, UndisturbedInv, NEW k \in Key,
           \/ Begin(k) \/ Land(k) \/ PutFails(k) \/ Check(k) \/ CheckGone(k) \/ TornDelete(k)
           \/ TornDeleteFails(k) \/ Move(k)
    PROVE  UndisturbedInv'
<1>1. phase = "transfer" /\ phase' = "transfer" /\ UNCHANGED <<disk, index, failed, planVars, batch, cancelled, err, deleted>>
  BY WorkersSucceed
<1>2. Sound /\ Jobs /\ \A i \in Key : Alone(i) /\ Going(i) /\ Sending(i) /\ Renamed(i)
  BY <1>1 DEF UndisturbedInv, Planned
<1>3. \A i \in Key : (IsSource(i)' <=> IsSource(i)) /\ (IsMove(i)' <=> IsMove(i))
  BY <1>1 DEF IsSource, IsMove, planVars
<1>4. Sound' /\ Trashing' /\ Flushes'
  BY <1>1, <1>2 DEF Sound, Trashing, Flushes, Flushed
<1>5. job[k] \in {"queued", "sending", "sent"} => k \notin deletes /\ ~IsSource(k) /\ disk[k] # None
  BY <1>1, <1>2 DEF Accounted, Apart, IsSource, Jobs, Planned
<1>6. job \in [Key -> {"none", "queued", "sending", "sent", "done", "failed"}] /\ pre \in Entries /\ landed \in Entries
  BY DEF TypeOK, RunOK
<1>7. ASSUME NEW s, JobTo(k, s), s \in {"sending", "sent", "done"}, job[k] \in {"queued", "sending", "sent"}, ~IsMove(k),
             pre' = [pre EXCEPT ![k] = disk[k]] \/ (UNCHANGED pre /\ pre[k] = disk[k]),
             \/ UNCHANGED landed /\ s # "done"
             \/ landed' = [landed EXCEPT ![k] = disk[k]],
             \A i \in Key : Saves(i) /\ (i # k => Read(i)' = Read(i)),
             s = "sending" \/ Read(k)' = disk[k]
      PROVE  UndisturbedInv'
  <2>1. job'[k] = s /\ \A i \in Key : i # k => job'[i] = job[i]
    BY <1>6, <1>7 DEF JobTo
  <2>2. \A i \in Key : pre'[i] = (IF i = k THEN disk[k] ELSE pre[i])
    BY <1>6, <1>7 DEF Entries
  <2>3. \A i \in Key : landed'[i] \in {landed[i], disk[i]} /\ (i # k => landed'[i] = landed[i]) /\ (i = k /\ s = "done" => landed'[i] = disk[i])
    BY <1>6, <1>7 DEF Entries
  <2>4. Jobs'
    BY <1>1, <1>2, <1>5, <1>7, <2>1, <2>2, <2>3 DEF Jobs, Ended, Planned, planVars
  <2>5. index[k] # disk[k]
    BY <1>2, <1>7 DEF Sending
  <2>6. Backs'
    BY <1>1, <1>7, <2>5, StaysSaved, Matching DEF Planned
  <2>7. ASSUME NEW i \in Key PROVE Alone(i)' /\ Going(i)' /\ Sending(i)' /\ Renamed(i)'
    <3>1. Alone(i) /\ Going(i) /\ Sending(i) /\ Renamed(i)
      BY <1>2
    <3>2. IsMove(i) => i # k /\ source[i] \in Key /\ source[i] # k
      BY <1>5, <1>7 DEF TypeOK, RunOK, IsMove, IsSource
    <3>3. Alone(i)' /\ Going(i)'
      BY <1>1, <1>3, <1>5, <1>7, <2>1, <3>1 DEF Alone, Going, planVars
    <3>4. Sending(i)'
      BY <1>1, <1>3, <1>7, <2>1, <2>3, <2>5, <3>1 DEF Sending, planVars
    <3>5. Renamed(i)'
      BY <1>1, <1>3, <1>7, <2>1, <3>1, <3>2 DEF Renamed, planVars
    <3>. QED  BY <3>3, <3>4, <3>5
  <2>. QED  BY <1>1, <1>4, <2>4, <2>6, <2>7, InPlan DEF Planned
<1>8. CASE job[k] = "queued" /\ ~IsMove(k) /\ JobTo(k, "sending") /\ pre' = [pre EXCEPT ![k] = disk[k]] /\ UNCHANGED <<storeVars, landed>>
  <2>1. \A i \in Key : Read(i)' = Read(i) /\ Saves(i)
    BY <1>8, Sealing DEF TypeOK
  <2>. QED  BY <1>7, <1>8, <2>1
<1>9. CASE job[k] = "sending" /\ ~IsMove(k) /\ JobTo(k, "sent") /\ StorePut(k, disk[k]) /\ UNCHANGED <<pre, landed>>
  <2>1. \A i \in Key : Read(i)' = (IF i = k THEN disk[k] ELSE Read(i)) /\ Saves(i)
    BY <1>5, <1>9, Putting DEF TypeOK
  <2>2. pre[k] = disk[k]
    BY <1>1, <1>2, <1>9 DEF Jobs, Planned
  <2>. QED  BY <1>7, <1>9, <2>1, <2>2
<1>10. CASE job[k] = "sent" /\ ~IsMove(k) /\ JobTo(k, "done") /\ landed' = [landed EXCEPT ![k] = disk[k]] /\ UNCHANGED <<storeVars, pre>>
  <2>1. \A i \in Key : Read(i)' = Read(i) /\ Saves(i)
    BY <1>10, Sealing DEF TypeOK
  <2>2. pre[k] = disk[k] /\ Read(k) = disk[k]
    BY <1>1, <1>2, <1>10 DEF Jobs, Planned, Sending
  <2>. QED  BY <1>7, <1>10, <2>1, <2>2
<1>11. CASE /\ job[k] = "queued" /\ IsMove(k) /\ JobTo(k, "done") /\ Read(source[k]) # None
            /\ SetStore([[current EXCEPT ![k] = Read(source[k])] EXCEPT ![source[k]] = None],
                        [Drops(k) EXCEPT ![source[k]] = None], trash)
            /\ UNCHANGED <<pre, landed>>
  <2>1. source[k] \in Key /\ source[k] # k /\ Read(source[k]) = disk[k] /\ disk[source[k]] = None
    BY <1>1, <1>2, <1>5, <1>11 DEF TypeOK, RunOK, IsMove, IsSource, Renamed
  <2>2. PICK s \in Key : s = source[k]
    BY <2>1
  <2>3. \A i \in Key : Read(i)' = (IF i = k THEN Read(s) ELSE IF i = s THEN None ELSE Read(i)) /\ Saves(i)
    BY <1>11, <2>1, <2>2, Moving DEF TypeOK
  <2>4. job'[k] = "done" /\ \A i \in Key : i # k => job'[i] = job[i]
    BY <1>6, <1>11 DEF JobTo
  <2>5. Jobs'
    BY <1>1, <1>2, <1>5, <1>11, <2>4 DEF Jobs, Ended, Planned, planVars
  <2>6. index[k] = None /\ disk[k] # None
    BY <1>1, <1>2, <1>5, <1>11 DEF Renamed
  <2>7. Backs'
    BY <1>1, <2>1, <2>2, <2>3, <2>6, StaysSaved, Matching DEF Planned
  <2>8. ASSUME NEW i \in Key PROVE Alone(i)' /\ Going(i)' /\ Sending(i)' /\ Renamed(i)'
    <3>1. Alone(i) /\ Going(i) /\ Sending(i) /\ Renamed(i)
      BY <1>2
    <3>2. IsMove(i) => source[i] \in Key /\ source[i] # k /\ (i # k => source[i] # s)
      BY <1>1, <1>2, <1>5, <1>11, <2>2, NoneAssumption DEF TypeOK, RunOK, IsMove, IsSource, Jobs, Planned
    <3>3. IsSource(s) /\ job[s] = "none"
      <4>1. IsSource(s)
        BY <2>2 DEF IsSource
      <4>. QED  BY <2>2, <4>1 DEF Accounted, Apart
    <3>4. Alone(i)' /\ Going(i)'
      BY <1>1, <1>3, <1>5, <1>11, <2>3, <2>4, <3>1, <3>3 DEF Alone, Going, planVars
    <3>5. Sending(i)'
      BY <1>1, <1>3, <1>11, <2>3, <2>4, <3>1, <3>3 DEF Sending, planVars
    <3>6. ASSUME i = k PROVE Renamed(i)'
      <4>1. source' = source /\ index' = index /\ disk' = disk
        BY <1>1, <1>11 DEF planVars
      <4>2. Read(k)' = disk[k] /\ Read(s)' = None /\ source[k] = s
        BY <2>1, <2>2, <2>3
      <4>3. (Read(source[k]))' = Read(s)'
        BY <4>1, <4>2 DEF Read
      <4>4. Renamed(k) /\ job'[k] = "done" /\ disk[s] = None /\ index[s] = disk[k]
        BY <1>1, <1>2, <1>11, <2>1, <2>2, <2>4 DEF Renamed
      <4>5. Renamed(k)'
        BY <1>1, <2>6, <4>1, <4>2, <4>3, <4>4 DEF Renamed
      <4>. QED  BY <3>6, <4>5 DEF Renamed, IsMove, Read
    <3>7. ASSUME i # k PROVE Renamed(i)'
      <4>1. IsMove(i) => i # s
        BY <3>1, <3>3 DEF Renamed
      <4>2. source' = source /\ index' = index /\ disk' = disk /\ job'[i] = job[i]
        BY <1>1, <2>4, <3>7 DEF planVars
      <4>3. CASE ~IsMove(i)
        BY <4>2, <4>3 DEF Renamed, IsMove
      <4>4. CASE IsMove(i)
        <5>1. PICK f \in Key : f = source[i] /\ f # k /\ f # s
          BY <3>2, <3>7, <4>4
        <5>2. (Read(source[i]))' = Read(f)' /\ Read(f)' = Read(f) /\ Read(i)' = Read(i)
          BY <2>3, <3>7, <4>1, <4>2, <4>4, <5>1 DEF Read
        <5>. QED  BY <1>1, <3>1, <4>2, <4>4, <5>1, <5>2 DEF Renamed
      <4>. QED  BY <4>3, <4>4
    <3>. QED  BY <3>4, <3>5, <3>6, <3>7
  <2>. QED  BY <1>1, <1>4, <2>5, <2>7, <2>8, InPlan DEF Planned
<1>. QED  BY <1>8, <1>9, <1>10, <1>11, WorkersSucceed

\* The engine is done, and deletes.
LEMMA DeletesUndisturbed ==
    ASSUME Undisturbed, TypeOK, Accounted, UndisturbedInv, EndTransfer \/ DeleteMany
    PROVE  UndisturbedInv'
<1>. USE DEF Goto
<1>1. phase \in {"transfer", "delete"} /\ phase \in Planned
  BY DEF EndTransfer, DeleteMany, Planned
<1>2. Sound /\ Jobs /\ Flushes /\ Backs /\ \A k \in Key : Alone(k) /\ Going(k) /\ Sending(k) /\ Renamed(k)
  BY <1>1 DEF UndisturbedInv
<1>3. \A k \in Key : job[k] # "none" => k \notin deletes /\ ~IsSource(k)
  BY DEF Accounted, Apart, IsSource
<1>4. deletes \subseteq Key /\ source \in [Key -> Key \cup {None}]
  BY DEF TypeOK, RunOK
<1>5. CASE EndTransfer
  <2>1. /\ phase' = (IF Doomed # {} THEN "delete" ELSE "flush")
        /\ UNCHANGED <<disk, index, storeVars, planVars, workVars, tickVars, deleted, cancelled, err>>
    BY <1>2, <1>5 DEF EndTransfer, Sound
  <2>2. \A k \in Key : job[k] \in {"none", "done"}
    BY <1>1, <1>2, <1>5 DEF EndTransfer, Sound, Jobs, TypeOK, RunOK
  <2>3. \A k \in Key : Read(k)' = Read(k) /\ IsSource(k)' = IsSource(k) /\ IsMove(k)' = IsMove(k)
    BY <2>1 DEF Read, IsSource, IsMove, storeVars, planVars
  <2>4. Sound' /\ Jobs' /\ Trashing' /\ Backs'
    BY <1>1, <1>2, <2>1, <2>2 DEF Sound, Jobs, Trashing, Backs, Planned, Ended, storeVars, planVars, workVars, tickVars
  <2>5. Doomed' = Doomed /\ Flushes'
    BY <1>2, <2>1 DEF Flushes, Flushed, Doomed, Moved, IsMove, planVars, workVars
  <2>6. ASSUME NEW k \in Key PROVE Alone(k)' /\ Going(k)' /\ Sending(k)' /\ Renamed(k)'
    <3>1. Alone(k) /\ Going(k) /\ Sending(k) /\ Renamed(k) /\ job'[k] = job[k] /\ job[k] \in {"none", "done"}
      BY <1>2, <2>1, <2>2 DEF workVars
    <3>2. IsMove(k) => source[k] \in Key
      BY <1>4 DEF IsMove
    <3>3. Alone(k)' /\ Sending(k)'
      BY <1>1, <2>1, <2>3, <3>1 DEF Alone, Sending, planVars, workVars, tickVars
    <3>4. Going(k)'
      BY <1>1, <2>1, <2>3, <3>1 DEF Going, Doomed, planVars
    <3>5. Renamed(k)'
      BY <1>1, <1>5, <2>1, <2>3, <3>1, <3>2 DEF Renamed, EndTransfer, planVars, workVars
    <3>. QED  BY <3>3, <3>4, <3>5
  <2>. QED  BY <2>1, <2>4, <2>5, <2>6, InPlan DEF Planned
<1>6. CASE DeleteMany
  <2>1. /\ phase = "delete" /\ phase' = "flush" /\ deleted' = TRUE /\ StoreDelete(Doomed)
        /\ UNCHANGED <<disk, index, failed, planVars, workVars, tickVars, cancelled, err>>
    BY <1>2, <1>6, Calm DEF DeleteMany, Sound
  <2>2. Doomed \subseteq Key
    BY <1>4 DEF Doomed, Moved, IsMove
  <2>3. \A i \in Key : Read(i)' = (IF i \in Doomed THEN None ELSE Read(i)) /\ Saves(i)
    <3>1. PICK gone \in SUBSET Key : gone = Doomed
      BY <2>2
    <3>. QED  BY <2>1, <3>1, Emptying DEF StoreDelete, TypeOK
  <2>4. \A i \in Key : i \in Doomed => disk[i] = None /\ (i \in deletes \/ IsSource(i))
    <3>1. ASSUME NEW t \in Moved PROVE disk[source[t]] = None /\ IsSource(source[t])
      BY <1>2, <3>1 DEF Moved, Renamed, IsSource
    <3>. QED  BY <1>2, <3>1 DEF Doomed, Going
  <2>5. \A k \in Key : IsSource(k)' = IsSource(k) /\ IsMove(k)' = IsMove(k)
    BY <2>1 DEF IsSource, IsMove, planVars
  <2>6. \A k \in Key : job[k] \in {"none", "done"}
    BY <1>2, <2>1 DEF Jobs, Planned, Ended
  <2>7. Sound' /\ Jobs' /\ Trashing' /\ Flushes'
    BY <1>1, <1>2, <2>1, <2>6 DEF Sound, Jobs, Trashing, Flushes, Flushed, Planned, Ended, planVars, workVars, tickVars
  <2>8. Backs'
    BY <1>1, <2>1, <2>3, <2>4, StaysSaved, Matching
  <2>9. ASSUME NEW k \in Key PROVE Alone(k)' /\ Going(k)' /\ Sending(k)' /\ Renamed(k)'
    <3>1. Alone(k) /\ Going(k) /\ Sending(k) /\ Renamed(k) /\ job'[k] = job[k] /\ job[k] \in {"none", "done"}
      BY <1>2, <2>1, <2>6 DEF workVars
    <3>2. job[k] # "none" => Read(k)' = Read(k)
      BY <1>3, <2>3, <2>4
    <3>3. Alone(k)' /\ Sending(k)'
      BY <2>1, <2>3, <2>4, <2>5, <3>1, <3>2 DEF Alone, Sending, planVars, tickVars
    <3>4. Going(k)'
      BY <2>1, <2>3, <2>5, <3>1 DEF Going, Doomed, planVars
    <3>5. CASE ~IsMove(k)
      BY <2>5, <3>3, <3>4, <3>5 DEF Renamed
    <3>6. CASE IsMove(k)
      <4>1. PICK f \in Key : f = source[k]
        BY <1>4, <3>6 DEF IsMove
      <4>2. (Read(source[k]))' = Read(f)' /\ job[k] = "done" /\ source' = source
        BY <2>1, <3>1, <3>6, <4>1 DEF Read, Renamed, planVars
      <4>3. Read(f)' = None
        BY <2>3, <3>6, <4>1, <4>2 DEF Doomed, Moved
      <4>4. Renamed(k)'
        BY <2>1, <3>1, <3>2, <3>6, <4>1, <4>2, <4>3 DEF Renamed
      <4>. QED  BY <3>3, <3>4, <4>4
    <3>. QED  BY <3>5, <3>6
  <2>. QED  BY <2>1, <2>7, <2>8, <2>9, InPlan DEF Planned
<1>. QED  BY <1>5, <1>6

\* The checkpointer.
LEMMA TicksUndisturbed ==
    ASSUME Undisturbed, TypeOK, Accounted, UndisturbedInv, TickTake \/ TickAsk \/ TickEnd
    PROVE  UndisturbedInv'
<1>1. /\ phase \in {"transfer", "delete", "flush"} /\ phase \in Planned
      /\ UNCHANGED <<disk, phase, todo, planVars, workVars, deleted, cancelled, err>>
  BY DEF TickTake, TickAsk, TickEnd, Accounted, Ticking, UndisturbedInv, Sound, Planned
<1>2. Sound /\ Jobs /\ Flushes /\ Backs /\ \A k \in Key : Alone(k) /\ Going(k) /\ Sending(k) /\ Renamed(k)
  BY <1>1 DEF UndisturbedInv
<1>3. ~Fault /\ ~RequestFails /\ ~failed
  BY <1>2, Calm DEF Sound
<1>4. \A k \in Key : (IsSource(k)' <=> IsSource(k)) /\ (IsMove(k)' <=> IsMove(k))
  BY <1>1 DEF IsSource, IsMove, planVars
<1>5. landed \in Entries /\ batch \in Entries /\ index \in Entries /\ source \in [Key -> Key \cup {None}]
  BY DEF TypeOK, RunOK
<1>6. /\ (UNCHANGED storeVars \/ SaveAll) /\ UNCHANGED failed
      /\ \/ UNCHANGED <<index, landed, batch>>
         \/ index' = index /\ batch = Nothing /\ batch' = landed /\ landed' = Nothing
         \/ Records(batch) /\ AllSafe(batch) /\ batch' = Nothing /\ landed' = landed /\ UNCHANGED storeVars
         \/ Requeued /\ batch' = Nothing /\ index' = index
  BY <1>3 DEF TickTake, TickAsk, TickEnd, Accounted, Ticking, storeVars
<1>7. \A i \in Key : Read(i)' = Read(i) /\ Saves(i)
  BY <1>6, Sealing DEF TypeOK
<1>8. \A k \in Key : landed[k] # None \/ batch[k] # None => job[k] = "done" /\ ~IsMove(k)
  BY DEF Accounted, Reported
<1>9. \A k \in Key : landed[k] \in {None, disk[k]} /\ batch[k] \in {None, disk[k]} /\ (job[k] # "none" => disk[k] # None)
  BY <1>1, <1>2 DEF Jobs
<1>10. \A k \in Key : /\ landed'[k] \in {None, landed[k], batch[k]} /\ batch'[k] \in {None, landed[k], batch[k]}
                      /\ index'[k] \in {index[k], batch[k]} /\ (index'[k] # index[k] => batch[k] # None /\ savedCurrent'[k] = batch[k])
                      /\ (job[k] = "done" /\ ~IsMove(k) => disk[k] \in {landed'[k], batch'[k], index'[k]})
  <2>. SUFFICES ASSUME NEW k \in Key
                PROVE  /\ landed'[k] \in {None, landed[k], batch[k]} /\ batch'[k] \in {None, landed[k], batch[k]}
                       /\ index'[k] \in {index[k], batch[k]} /\ (index'[k] # index[k] => batch[k] # None /\ savedCurrent'[k] = batch[k])
                       /\ (job[k] = "done" /\ ~IsMove(k) => disk[k] \in {landed'[k], batch'[k], index'[k]})
    OBVIOUS
  <2>1. /\ landed[k] \in {None, disk[k]} /\ batch[k] \in {None, disk[k]} /\ (job[k] # "none" => disk[k] # None)
        /\ (job[k] = "done" /\ ~IsMove(k) => disk[k] \in {landed[k], batch[k], index[k]})
    BY <1>2, <1>9 DEF Sending
  <2>. QED  BY <1>6, <2>1 DEF Records, AllSafe, Safe, Requeued, Nothing, storeVars
<1>11. Sound' /\ Jobs' /\ Trashing' /\ Flushes'
  BY <1>1, <1>2, <1>6, <1>9, <1>10 DEF Sound, Jobs, Trashing, Flushes, Flushed, Doomed, Moved, IsMove, planVars, workVars
<1>12. Backs'
  <2>. SUFFICES ASSUME NEW i \in Key, disk[i] # None, index'[i] = disk[i]
                PROVE  Read(i)' = disk[i] /\ (index[i] = disk[i] \/ savedCurrent'[i] = disk[i])
    BY <1>1, <1>7, StaysSaved
  <2>1. CASE index[i] = disk[i]
    BY <1>1, <1>7, <2>1, Matching
  <2>2. CASE index[i] # disk[i]
    <3>1. batch[i] # None /\ job[i] = "done" /\ ~IsMove(i) /\ batch[i] = disk[i] /\ savedCurrent'[i] = disk[i]
      BY <1>8, <1>9, <1>10, <2>2
    <3>. QED  BY <1>2, <1>7, <3>1 DEF Sending
  <2>. QED  BY <2>1, <2>2
<1>13. ASSUME NEW k \in Key PROVE Alone(k)' /\ Going(k)' /\ Sending(k)' /\ Renamed(k)'
  <2>1. Alone(k) /\ Going(k) /\ Sending(k) /\ Renamed(k) /\ job'[k] = job[k] /\ Read(k)' = Read(k)
    BY <1>1, <1>2, <1>7 DEF workVars
  <2>2. index'[k] # index[k] => job[k] = "done" /\ ~IsMove(k)
    BY <1>8, <1>10
  <2>3. Alone(k)' /\ Going(k)'
    BY <1>1, <1>4, <2>1, <2>2 DEF Alone, Going, Accounted, Apart, planVars
  <2>4. Sending(k)'
    BY <1>1, <1>4, <1>10, <2>1, <2>2 DEF Sending, planVars
  <2>5. CASE ~IsMove(k)
    BY <1>4, <2>3, <2>4, <2>5 DEF Renamed
  <2>6. CASE IsMove(k)
    <3>1. PICK f \in Key : f = source[k]
      BY <1>5, <2>6 DEF IsMove
    <3>2. source' = source /\ disk' = disk /\ phase' = phase /\ todo' = todo
      BY <1>1 DEF planVars
    <3>3. (Read(source[k]))' = Read(f)' /\ Read(f)' = Read(f)
      BY <1>7, <3>1, <3>2 DEF Read
    <3>4. index'[f] = index[f] /\ index'[k] = index[k]
      <4>1. job[f] = "none"
        BY <3>1 DEF Accounted, Apart
      <4>. QED  BY <1>8, <1>10, <2>2, <2>6, <4>1
    <3>5. Renamed(k)'
      BY <2>1, <2>6, <3>1, <3>2, <3>3, <3>4 DEF Renamed
    <3>. QED  BY <2>3, <2>4, <3>5
  <2>. QED  BY <2>5, <2>6
<1>. QED  BY <1>1, <1>11, <1>12, <1>13, InPlan

\* Flush and record: a step that keeps what is read, and moves on.
LEMMA RecordsUndisturbed ==
    ASSUME Undisturbed, TypeOK, Accounted, UndisturbedInv, Flush \/ Record \/ Forget
    PROVE  UndisturbedInv'
<1>. USE DEF Goto
<1>1. /\ phase \in {"flush", "record", "forget"} /\ phase \in Planned /\ phase \in Ended
      /\ UNCHANGED <<disk, planVars, workVars, tickVars, deleted, cancelled, err>>
  BY DEF Flush, Record, Forget, recordRest, Planned, Ended
<1>2. Sound /\ Jobs /\ Flushes /\ Backs /\ \A k \in Key : Alone(k) /\ Going(k) /\ Sending(k) /\ Renamed(k)
  BY <1>1 DEF UndisturbedInv
<1>3. ~Fault /\ ~RequestFails /\ ~failed
  BY <1>2, Calm DEF Sound
<1>4. batch = Nothing /\ (phase = "record" => AllSafe(landed))
  BY <1>1 DEF Flush, Record, Forget, Accounted, Ticking
<1>5. /\ landed \in Entries /\ index \in Entries /\ source \in [Key -> Key \cup {None}] /\ deletes \subseteq Key
      /\ job \in [Key -> {"none", "queued", "sending", "sent", "done", "failed"}]
  BY DEF TypeOK, RunOK
<1>6. \A k \in Key : /\ job[k] \in {"none", "done"} /\ (job[k] # "none" => disk[k] # None)
                     /\ landed[k] \in {None, disk[k]} /\ (landed[k] # None => job[k] = "done" /\ ~IsMove(k))
                     /\ (job[k] # "none" => k \notin deletes /\ ~IsSource(k))
  BY <1>1, <1>2 DEF Jobs, Accounted, Reported, Apart, IsSource
<1>7. \A k \in Key : (IsSource(k)' <=> IsSource(k)) /\ (IsMove(k)' <=> IsMove(k))
  BY <1>1 DEF IsSource, IsMove, planVars
<1>8. Jobs' /\ Trashing'
  BY <1>1, <1>2, <1>6 DEF Jobs, Trashing, Planned, Ended, Flush, Record, Forget, planVars, workVars, tickVars
<1>9. CASE Flush
  <2>1. FlushOk /\ phase' = "record" /\ index' = index
    BY <1>3, <1>9 DEF Flush, FlushReports
  <2>2. \A i \in Key : Read(i)' = Read(i) /\ Saves(i)
    BY <2>1, Sealing DEF FlushOk, TypeOK
  <2>3. Sound' /\ Flushes'
    BY <1>1, <1>2, <1>9, <2>1 DEF FlushOk, SaveAll, Sound, Flush, Flushes, Flushed, Doomed, Moved, IsMove, planVars, workVars
  <2>4. Backs'
    BY <1>1, <2>1, <2>2, StaysSaved, Matching
  <2>5. ASSUME NEW k \in Key PROVE Alone(k)' /\ Going(k)' /\ Sending(k)' /\ Renamed(k)'
    <3>1. /\ Alone(k) /\ Going(k) /\ Sending(k) /\ Renamed(k) /\ job'[k] = job[k] /\ Read(k)' = Read(k)
          /\ phase = "flush" /\ job[k] \in {"none", "done"}
      BY <1>1, <1>2, <1>6, <1>9, <2>2 DEF workVars, Flush
    <3>2. Alone(k)' /\ Going(k)' /\ Sending(k)'
      BY <1>1, <1>7, <2>1, <3>1 DEF Alone, Going, Sending, planVars, tickVars
    <3>3. CASE ~IsMove(k)
      BY <1>7, <3>2, <3>3 DEF Renamed
    <3>4. CASE IsMove(k)
      <4>1. PICK f \in Key : f = source[k]
        BY <1>5, <3>4 DEF IsMove
      <4>2. source' = source /\ disk' = disk
        BY <1>1 DEF planVars
      <4>3. (Read(source[k]))' = Read(f)' /\ Read(f)' = Read(f)
        BY <2>2, <4>1, <4>2 DEF Read
      <4>4. Renamed(k)'
        BY <2>1, <3>1, <3>4, <4>1, <4>2, <4>3 DEF Renamed
      <4>. QED  BY <3>2, <4>4
    <3>. QED  BY <3>3, <3>4
  <2>. QED  BY <1>8, <2>1, <2>3, <2>4, <2>5, InPlan DEF Planned
<1>10. ASSUME phase \in {"record", "forget"}, phase' \in {"forget", "moves"}, UNCHANGED <<storeVars, failed>>,
              phase' = "moves" => todo' = Moved /\ \A k \in Key : k \in deletes => index'[k] = None,
              phase' = "forget" => phase = "record" /\ Records(landed),
              phase' = "moves" => phase = "forget" /\ \A k \in Key \ deletes : index'[k] = index[k],
              \A k \in Key : index'[k] \in {index[k], landed[k], None},
              \A k \in Key : index'[k] # index[k] /\ index'[k] # None => savedCurrent[k] = index'[k]
       PROVE  UndisturbedInv'
  <2>1. \A i \in Key : Read(i)' = Read(i) /\ Saves(i)
    BY <1>10, Sealing DEF TypeOK
  <2>2. Sound' /\ Flushes'
    BY <1>1, <1>2, <1>10 DEF Sound, Flushes, Flushed, Doomed, Moved, IsMove, storeVars, planVars, workVars
  <2>3. Backs'
    BY <1>1, <1>2, <1>10 DEF Backs, storeVars
  <2>4. ASSUME NEW k \in Key PROVE Alone(k)' /\ Going(k)' /\ Sending(k)' /\ Renamed(k)'
    <3>1. /\ Alone(k) /\ Going(k) /\ Sending(k) /\ Renamed(k) /\ job'[k] = job[k] /\ Read(k)' = Read(k)
          /\ job[k] \in {"none", "done"} /\ (job[k] # "none" => disk[k] # None /\ k \notin deletes)
          /\ (job[k] = "none" => landed[k] = None) /\ landed[k] \in {None, disk[k]}
      BY <1>1, <1>2, <1>6, <2>1 DEF workVars
    <3>2. k \notin deletes => index'[k] = index[k] \/ (landed[k] # None /\ index'[k] = landed[k] /\ phase' = "forget")
      <4>1. CASE phase' = "forget"
        BY <1>10, <4>1 DEF Records
      <4>. QED  BY <1>10, <4>1
    <3>3. Alone(k)' /\ Going(k)'
      BY <1>1, <1>7, <1>10, <3>1, <3>2 DEF Alone, Going, planVars
    <3>4. Sending(k)'
      <4>. SUFFICES ASSUME job[k] = "done", ~IsMove(k)
                    PROVE  Sending(k)'
        BY <1>7, <3>1 DEF Sending
      <4>1. k \notin deletes /\ Read(k) = disk[k] /\ disk[k] \in {landed[k], batch[k], index[k]} /\ batch[k] = None
        BY <1>4, <3>1 DEF Sending, Nothing
      <4>2. index'[k] = disk[k]
        BY <1>10, <3>1, <3>2, <4>1 DEF Sending, Records
      <4>. QED  BY <1>1, <3>1, <4>1, <4>2 DEF Sending
    <3>5. CASE ~IsMove(k)
      BY <1>7, <3>3, <3>4, <3>5 DEF Renamed
    <3>6. CASE IsMove(k)
      <4>1. PICK f \in Key : f = source[k]
        BY <1>5, <3>6 DEF IsMove
      <4>2. source' = source /\ disk' = disk
        BY <1>1 DEF planVars
      <4>3. (Read(source[k]))' = Read(f)' /\ Read(f)' = Read(f)
        BY <2>1, <4>1, <4>2 DEF Read
      <4>4. f \notin deletes /\ landed[f] = None /\ index'[f] = index[f]
        <5>1. IsSource(f)
          BY <4>1 DEF IsSource
        <5>2. f \notin deletes /\ job[f] = "none" /\ landed[f] = None
          BY <1>2, <1>6, <5>1 DEF Going
        <5>. QED  BY <1>10, <5>2 DEF Records
      <4>5. index'[k] = index[k] /\ job[k] = "done"
        BY <1>6, <3>1, <3>2, <3>6 DEF Renamed
      <4>6. phase' = "moves" => k \in todo'
        BY <1>10, <3>6, <4>5 DEF Moved
      <4>7. Renamed(k)'
        BY <1>10, <3>1, <3>6, <4>1, <4>2, <4>3, <4>4, <4>5, <4>6 DEF Renamed
      <4>. QED  BY <3>3, <3>4, <4>7
    <3>. QED  BY <3>5, <3>6
  <2>. QED  BY <1>8, <1>10, <2>2, <2>3, <2>4, InPlan DEF Planned
<1>11. CASE Record
  <2>1. phase = "record" /\ phase' = "forget" /\ Records(landed) /\ UNCHANGED <<storeVars, failed>>
    BY <1>3, <1>11 DEF Record, storeVars
  <2>. QED  BY <1>4, <1>10, <2>1 DEF Records, AllSafe, Safe
<1>12. CASE Forget
  <2>1. /\ phase = "forget" /\ phase' = "moves" /\ todo' = Moved /\ UNCHANGED <<storeVars, failed>>
        /\ index' = [k \in Key |-> IF deleted /\ k \in deletes THEN None ELSE index[k]]
    BY <1>3, <1>12 DEF Forget, storeVars
  <2>2. \A k \in Key : k \in deletes => deleted
    BY <1>2, <2>1 DEF Flushes, Doomed
  <2>. QED  BY <1>10, <2>1, <2>2
<1>. QED  BY <1>9, <1>11, <1>12

\* The renames are recorded one by one.
LEMMA RenamesRecorded ==
    ASSUME Undisturbed, TypeOK, Accounted, UndisturbedInv, NEW k \in Key, RecordMove(k)
    PROVE  UndisturbedInv'
<1>. USE DEF Goto
<1>1. /\ phase = "moves" /\ phase' = "moves" /\ k \in todo /\ phase \in Planned /\ phase \in Ended
      /\ UNCHANGED <<disk, storeVars, planVars, workVars, tickVars, deleted, cancelled, err>>
      /\ \/ index[k] = None /\ index' = [index EXCEPT ![k] = index[source[k]]] /\ todo' = todo
         \/ index[k] # None /\ index' = [index EXCEPT ![source[k]] = None] /\ todo' = todo \ {k}
  <2>1. phase = "moves" /\ phase \in Planned
    BY DEF RecordMove, Planned
  <2>2. ~Fault
    BY <2>1, Calm DEF UndisturbedInv
  <2>. QED  BY <2>1, <2>2 DEF RecordMove, recordRest, Ended
<1>2. Sound /\ Jobs /\ Flushes /\ Backs /\ \A i \in Key : Alone(i) /\ Going(i) /\ Sending(i) /\ Renamed(i)
  BY <1>1 DEF UndisturbedInv
<1>3. /\ index \in Entries /\ source \in [Key -> Key \cup {None}] /\ IsMove(k)
      /\ current \in Objects
  BY <1>1 DEF TypeOK, RunOK, StoreOK
<1>4. \A i \in Key : job[i] # "none" => i \notin deletes /\ ~IsSource(i) /\ job[i] = "done" /\ disk[i] # None
  BY <1>1, <1>2 DEF Jobs, Accounted, Apart, IsSource
<1>5. PICK s \in Key : s = source[k]
  BY <1>3 DEF IsMove
<1>6. /\ job[k] = "done" /\ IsSource(s) /\ job[s] = "none" /\ s # k
      /\ index[s] = disk[k] /\ disk[k] # None /\ index[k] \in {None, disk[k]} /\ Read(k) = disk[k] /\ disk[s] = None
  <2>1. Renamed(k) /\ IsSource(s)
    BY <1>2, <1>5 DEF IsSource
  <2>. QED  BY <1>1, <1>3, <1>4, <1>5, <2>1 DEF Renamed
<1>7. \A i \in Key : /\ index'[i] = index[i] \/ (i = k /\ index'[k] = disk[k]) \/ (i = s /\ index'[s] = None)
                     /\ index[k] = None => index'[s] = index[s] /\ index'[k] = disk[k] /\ todo' = todo
                     /\ index[k] # None => index'[s] = None /\ index'[k] = disk[k] /\ todo' = todo \ {k}
  BY <1>1, <1>3, <1>5, <1>6 DEF Entries
<1>8. \A i \in Key : (IsSource(i)' <=> IsSource(i)) /\ (IsMove(i)' <=> IsMove(i)) /\ Read(i)' = Read(i)
  BY <1>1 DEF IsSource, IsMove, Read, planVars, storeVars
<1>9. Sound' /\ Jobs' /\ Trashing' /\ Flushes'
  BY <1>1, <1>2 DEF Sound, Jobs, Trashing, Flushes, Flushed, Doomed, Moved, IsMove, storeVars, planVars, workVars, tickVars
<1>10. Backs'
  <2>1. savedCurrent[k] = disk[k]
    BY <1>1, <1>2, <1>6 DEF Flushes, Flushed, Read, Nothing
  <2>. QED  BY <1>1, <1>2, <1>6, <1>7, <2>1 DEF Backs, storeVars
<1>11. ASSUME NEW i \in Key PROVE Alone(i)' /\ Going(i)' /\ Sending(i)' /\ Renamed(i)'
  <2>1. Alone(i) /\ Going(i) /\ Sending(i) /\ Renamed(i) /\ job'[i] = job[i] /\ Read(i)' = Read(i)
    BY <1>1, <1>2, <1>8 DEF workVars
  <2>2. Alone(i)' /\ Going(i)' /\ Sending(i)'
    BY <1>1, <1>3, <1>4, <1>6, <1>7, <1>8, <2>1 DEF Alone, Going, Sending, planVars, tickVars
  <2>3. CASE ~IsMove(i)
    BY <1>8, <2>2, <2>3 DEF Renamed
  <2>4. CASE IsMove(i)
    <3>1. PICK f \in Key : f = source[i]
      BY <1>3, <2>4 DEF IsMove
    <3>2. source' = source /\ disk' = disk
      BY <1>1 DEF planVars
    <3>3. (Read(source[i]))' = Read(f)' /\ Read(f)' = Read(f)
      BY <1>8, <3>1, <3>2 DEF Read
    <3>4. job[i] = "done" /\ IsSource(f) /\ f # k
      BY <1>4, <1>6, <2>1, <2>4, <3>1 DEF Renamed, IsSource
    <3>5. i # k => f # s /\ i # s
      BY <1>1, <1>2, <1>4, <1>5, <1>6, <2>4, <3>1, <3>4 DEF Jobs, IsMove
    <3>6. i # k => index'[i] = index[i] /\ index'[f] = index[f] /\ (i \in todo' <=> i \in todo)
      BY <1>7, <3>4, <3>5
    <3>7. Renamed(i)'
      <4>1. CASE i = k
        BY <1>1, <1>5, <1>6, <1>7, <2>1, <2>4, <3>1, <3>2, <3>3, <4>1 DEF Renamed
      <4>2. CASE i # k
        BY <1>1, <2>1, <2>4, <3>1, <3>2, <3>3, <3>6, <4>2 DEF Renamed
      <4>. QED  BY <4>1, <4>2
    <3>. QED  BY <2>2, <3>7
  <2>. QED  BY <2>3, <2>4
<1>. QED  BY <1>1, <1>9, <1>10, <1>11, InPlan

\* When they are, record and storage are as the folder is.
LEMMA MovesUndisturbed ==
    ASSUME Undisturbed, TypeOK, Accounted, UndisturbedInv, MovesDone
    PROVE  UndisturbedInv'
<1>1. /\ phase = "moves" /\ todo = {} /\ phase' = "tidy" /\ phase \in Planned /\ phase \in Ended
      /\ UNCHANGED <<disk, index, storeVars, cancelled, err>>
  BY DEF MovesDone, Goto, recordRest, Planned, Ended
<1>2. Sound /\ Jobs /\ Flushes /\ \A k \in Key : Alone(k) /\ Going(k) /\ Sending(k) /\ Renamed(k)
  BY <1>1 DEF UndisturbedInv
<1>3. disk \in Entries /\ index \in Entries /\ current \in Objects /\ savedCurrent \in Objects
  BY DEF TypeOK, StoreOK
<1>4. ASSUME NEW k \in Key PROVE index[k] = disk[k] /\ Read(k) = disk[k]
  <2>1. Alone(k) /\ Going(k) /\ Sending(k) /\ Renamed(k) /\ job[k] \in {"none", "done"}
    BY <1>1, <1>2 DEF Jobs
  <2>2. CASE IsSource(k)
    <3>1. PICK t \in Key : source[t] = k
      BY <2>2 DEF IsSource
    <3>2. Renamed(t) /\ IsMove(t) /\ job[t] \in {"none", "done"}
      BY <1>1, <1>2, <3>1, NoneAssumption DEF Jobs, IsMove
    <3>3. disk[k] = None /\ Read(k) = None /\ index[k] = None
      BY <1>1, <3>1, <3>2 DEF Renamed
    <3>. QED  BY <3>3
  <2>3. CASE k \in deletes
    BY <1>1, <2>1, <2>3 DEF Going
  <2>4. CASE IsMove(k)
    BY <1>1, <2>1, <2>4 DEF Renamed
  <2>5. CASE job[k] # "none" /\ ~IsMove(k)
    BY <1>1, <2>1, <2>5 DEF Sending
  <2>6. CASE job[k] = "none" /\ k \notin deletes /\ ~IsSource(k)
    BY <2>1, <2>6 DEF Alone
  <2>. QED  BY <2>2, <2>3, <2>4, <2>5, <2>6
<1>5. spool = Nothing /\ savedCurrent = current /\ index = disk
  BY <1>1, <1>2, <1>3, <1>4 DEF Flushes, Flushed, Entries
<1>6. current = index
  BY <1>3, <1>4, <1>5 DEF Objects, Entries, Read, Nothing
<1>. QED  BY <1>1, <1>2, <1>5, <1>6, AtLevel DEF Sound, LevelDisk, Seen, storeVars

LEMMA NextUndisturbed == ASSUME Undisturbed PROVE TypeOK /\ Accounted /\ UndisturbedInv /\ [Next]_vars => UndisturbedInv'
<1>. SUFFICES ASSUME TypeOK, Accounted, UndisturbedInv, [Next]_vars
              PROVE  UndisturbedInv'
  OBVIOUS
<1>1. Sound /\ ~Fault /\ ~RequestFails
  <2>1. Sound
    BY DEF UndisturbedInv
  <2>. QED  BY <2>1, Calm
<1>2. MaxStops = 0 /\ stops = 0
  BY <1>1, Calm DEF Undisturbed
<1>3. CASE UNCHANGED vars
  <2>1. UNCHANGED <<disk, index, storeVars, runVars>>
    BY <1>3 DEF vars
  <2>2. UNCHANGED <<packing, current, spool, trash, failed, savedCurrent, savedTrash, phase, todo, seen, source, deletes,
                    job, pre, retried, landed, batch, tick, deleted, cancelled, err, disk, index>>
    BY <2>1 DEF storeVars, runVars, planVars, workVars, tickVars
  <2>. QED  BY <2>2 DEF UndisturbedInv, Sound, Level, LevelDisk, Seen, Jobs, Trashing, Flushes, Backs, Alone, Going,
                        Sending, Renamed, IsSource, IsMove, Read, Doomed, Moved
<1>4. CASE People \/ Midnight \/ Crash \/ Exit
  BY <1>2, <1>4, IdleUndisturbed DEF People, Cancel, Crash
<1>5. CASE Checkpointer
  BY <1>5, TicksUndisturbed DEF Checkpointer
<1>6. CASE Engine
  BY <1>6, WorkUndisturbed, DeletesUndisturbed DEF Engine
<1>7. CASE Run
  <2>1. ~ScanFails /\ ~Salvage /\ ~Note
    BY <1>1 DEF ScanFails, Salvage, Note, Sound
  <2>. QED  BY <1>6, <1>7, <2>1, EndsUndisturbed, PlanUndisturbed, TrashUndisturbed, RecordsUndisturbed,
              RenamesRecorded, MovesUndisturbed DEF Run
<1>. QED  BY <1>3, <1>4, <1>5, <1>7 DEF Next

LEMMA InitUndisturbed == Init => UndisturbedInv
BY DEF Init, RunAtRest, Nothing, UndisturbedInv, Sound, Level, LevelDisk, Seen, Jobs, Trashing, Flushes, Backs,
       Planned, Flushed

\* A run nothing disturbs keeps storage, record and folder related as
\* UndisturbedInv says, renames included.
THEOREM UndisturbedInvariant == ASSUME Undisturbed PROVE Spec => []UndisturbedInv
<1>1. Init => UndisturbedInv
  BY InitUndisturbed
<1>2. TypeOK /\ Accounted /\ UndisturbedInv /\ [Next]_vars => UndisturbedInv'
  BY NextUndisturbed
<1>. QED  BY <1>1, <1>2, TypeInvariant, AccountedInvariant, PTL DEF Spec

\* When nothing disturbs a run, storage holds every file that looks like its
\* record, and a run that is over leaves record, storage and folder the same,
\* whatever was renamed (the deletes and the renames of plan.Build).
InStepAtEnd == phase = "tidy" => index = disk /\ savedCurrent = disk
THEOREM UndisturbedStaysStored == ASSUME Undisturbed PROVE Spec => [](UnchangedIsStored /\ InStepAtEnd)
<1>1. UndisturbedInv => UnchangedIsStored /\ InStepAtEnd
  BY DEF UndisturbedInv, Backs, Level, LevelDisk, UnchangedIsStored, InStepAtEnd
<1>. QED  BY <1>1, UndisturbedInvariant, PTL

\* Only the engine's rename ends a rename's job.
LEMMA MoveEnds ==
    ASSUME TypeOK, [Next]_vars, NEW k \in Key, IsMove(k), job[k] = "queued", job'[k] = "done"
    PROVE  Move(k)
<1>1. job \in [Key -> {"none", "queued", "sending", "sent", "done", "failed"}]
  BY DEF TypeOK, RunOK
<1>2. ~UNCHANGED job
  OBVIOUS
<1>3. ~RunOver /\ ~(job' = [i \in Key |-> IF i \in Candidate \cup Changed THEN "queued" ELSE "none"])
  BY DEF RunOver
<1>4. \/ Plan \/ Close \/ Crash
      \/ \E i \in Key : Begin(i) \/ Land(i) \/ PutFails(i) \/ Check(i) \/ CheckGone(i) \/ TornDelete(i)
                        \/ TornDeleteFails(i) \/ Move(i)
  BY <1>2, WhoWorks
<1>5. ~Plan /\ ~Close /\ ~Crash
  BY <1>3 DEF Plan, Close, Crash
<1>6. PICK i \in Key : Begin(i) \/ Land(i) \/ PutFails(i) \/ Check(i) \/ CheckGone(i) \/ TornDelete(i)
                       \/ TornDeleteFails(i) \/ Move(i)
  BY <1>4, <1>5
<1>7. \E s : JobTo(i, s)
  BY <1>6 DEF Begin, Land, PutFails, Check, CheckGone, TornDelete, TornDeleteFails, Move
<1>8. i = k
  BY <1>1, <1>2, <1>7 DEF JobTo
<1>9. CASE Move(k)
  BY <1>9
<1>10. CASE Begin(k)
  BY <1>10 DEF Begin
<1>11. CASE Land(k) \/ PutFails(k) \/ Check(k) \/ CheckGone(k) \/ TornDelete(k) \/ TornDeleteFails(k)
  BY <1>11 DEF Land, PutFails, Check, CheckGone, TornDelete, TornDeleteFails, Working
<1>. QED  BY <1>6, <1>8, <1>9, <1>10, <1>11

\* "Guessing wrong would copy the wrong bytes to the wrong key" (plan.go:271):
\* a rename that nothing disturbs copies what the record it was matched by says.
THEOREM RenamesCopyTheMatch == ASSUME Undisturbed PROVE Spec => RenameCopiesItsMatch
<1>1. TypeOK /\ Accounted /\ UndisturbedInv /\ [Next]_vars =>
        [\A k \in Key : IsMove(k) /\ job[k] = "queued" /\ job'[k] = "done" => current'[k] = index[source[k]]]_vars
  <2>. SUFFICES ASSUME TypeOK, Accounted, UndisturbedInv, [Next]_vars,
                       NEW k \in Key, IsMove(k), job[k] = "queued", job'[k] = "done"
                PROVE  current'[k] = index[source[k]]
    OBVIOUS
  <2>1. Move(k) /\ phase = "transfer" /\ phase \in Planned
    BY MoveEnds DEF Move, Working, Planned
  <2>2. ~Fault
    BY Calm DEF UndisturbedInv
  <2>3. Renamed(k)
    BY <2>1 DEF UndisturbedInv
  <2>4. Read(source[k]) = index[source[k]] /\ source[k] \in Key
    BY <2>1, <2>3 DEF Renamed, TypeOK, RunOK, IsMove
  <2>5. source[k] # k
    BY DEF Accounted, Apart
  <2>6. JobTo(k, "done")
    BY <2>1 DEF Move, Working, TypeOK, RunOK, JobTo
  <2>. DEFINE whole == [[current EXCEPT ![k] = Read(source[k])] EXCEPT ![source[k]] = None]
  <2>7. current' = whole
    BY <2>1, <2>2 DEF Move, JobTo, SetStore, TypeOK, RunOK
  <2>8. current \in Objects
    BY DEF TypeOK, StoreOK
  <2>. QED  BY <2>4, <2>5, <2>7, <2>8 DEF Objects
<1>. QED  BY <1>1, TypeInvariant, AccountedInvariant, UndisturbedInvariant, PTL DEF Spec, RenameCopiesItsMatch
=============================================================================
