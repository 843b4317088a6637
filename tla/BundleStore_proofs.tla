-------------------------- MODULE BundleStore_proofs --------------------------
(***************************************************************************)
(* Theorems about BundleStore, for every set of keys and contents and      *)
(* every bound: its type invariant; that storage has what the store        *)
(* answers when nothing is held back; and, without the mishaps and blank   *)
(* contents, that the index in storage never points at a pack that is not  *)
(* there and that the store implements StoreContract.                      *)
(***************************************************************************)
EXTENDS BundleStore, FiniteSetTheorems, TLAPS

(***************************************************************************)
(* Types.                                                                  *)
(***************************************************************************)
LEMMA BlankValues ==
    /\ Nothing \in [Key -> Value] /\ Nothing \in [Key -> Entry \cup {None}]
    /\ NoIndex \in Index /\ NoSpool \in Spool
BY BoundAssumption DEF Nothing, Value, NoIndex, Index, NoSpool, Spool, PackId

\* What a loaded index and a reader find.
LEMMA ReadTyped ==
    ASSUME TypeOK, NEW k \in Key
    PROVE  /\ \A e \in Entry \cup {None} : Found(e, k) \in Value
           /\ View(k) \in Value /\ Disk(k) \in Value
<1>1. \A e \in Entry \cup {None} : Found(e, k) \in Value
  BY DEF TypeOK, Found, Entry, Value
<1>2. saved # None => saved.entry[k] \in Entry \cup {None}
  BY DEF TypeOK, Index
<1>3. idx.entry[k] \in Entry \cup {None} /\ open.files[k] \in Value
  BY DEF TypeOK, Index, Spool
<1>4. Disk(k) \in Value
  BY <1>1, <1>2 DEF TypeOK, Disk
<1>5. View(k) \in Value
  BY <1>1, <1>3, <1>4 DEF TypeOK, View, Indexed
<1>. QED  BY <1>1, <1>4, <1>5

LEMMA FaultTyped ==
    ASSUME faults \in 0..MaxFaults, Fault \/ NoFault
    PROVE  faults' \in 0..MaxFaults
BY BoundAssumption DEF Fault, NoFault

\* The index after edits of some of its entries and packs.
LEMMA IndexTyped ==
    ASSUME NEW i \in Index, NEW f \in [Key -> Entry \cup {None}], NEW p \in SUBSET PackId,
           NEW s \in BOOLEAN
    PROVE  /\ [i EXCEPT !.packs = p, !.entry = f] \in Index
           /\ [i EXCEPT !.packs = p, !.swept = s] \in Index
           /\ [i EXCEPT !.entry = f] \in Index
           /\ [i EXCEPT !.packs = p] \in Index
BY DEF Index

\* The four parts TypeOK is proved in.
BaseOK  == /\ object \in [Key -> Value] /\ pack \in [PackId -> SUBSET Content]
           /\ old \subseteq PackId /\ saved \in Index \cup {None} /\ ids \in 0..MaxPacks
SpaceOK == /\ mode \in {"unread", "through", "indexed", "packing"}
           /\ idx \in Index /\ dirty \in BOOLEAN /\ open \in Spool
           /\ stale \subseteq Key /\ failed \in BOOLEAN
           /\ ~Indexed => idx = NoIndex
FlushOK == /\ step \in {"ok", "failed", "sealed", "unsealed", "tidy", "sweep", "index", "drop"}
           /\ full \in BOOLEAN /\ owes \in BOOLEAN /\ dead \subseteq PackId
           /\ Free => ~owes /\ dead = {}
CallOK  == /\ inflight \in [Key -> Request \cup {None}]
           /\ now \in [Key -> SUBSET Value] /\ may \in [Key -> SUBSET Value]
           /\ calls \in 0..MaxCalls /\ faults \in 0..MaxFaults

LEMMA TypeParts == /\ TypeOK <=> BaseOK /\ SpaceOK /\ FlushOK /\ CallOK
                   /\ TypeOK' <=> BaseOK' /\ SpaceOK' /\ FlushOK' /\ CallOK'
BY DEF TypeOK, BaseOK, SpaceOK, FlushOK, CallOK, Pending, Indexed

(***************************************************************************)
(* The type invariant, which needs to know where the lock is held.         *)
(***************************************************************************)
\* Where the lock is held: a step of a flush has an index and an empty spool,
\* a Flush has no calls beside it, and what it owes or will drop is settled.
Control ==
    /\ ~Free => Indexed /\ open = NoSpool /\ (full => inflight = Nothing)
    /\ ~Indexed => dirty = FALSE /\ open = NoSpool /\ stale = {} /\ failed = FALSE
    /\ mode = "unread" => inflight = Nothing
    /\ mode = "through" => saved = None
    /\ step \in {"sealed", "unsealed"} \/ ~full => ~owes
    /\ step \in {"tidy", "sweep"} => full
    /\ step \in {"tidy", "sweep", "index", "drop"} => ~failed
    /\ step \notin {"index", "drop"} => dead = {}
    /\ step = "drop" => saved = idx /\ ~dirty
    /\ Indexed /\ ~dirty => saved # None /\ saved.entry = idx.entry
    /\ mode = "through" => \A d \in Key : inflight[d] # None => inflight[d].op # "put"
    /\ open.id \in {0, ids} /\ (open.files # Nothing => open.id # 0)

LEMMA TypeUnmoved ==
    /\ BaseOK /\ UNCHANGED baseVars => BaseOK'
    /\ SpaceOK /\ UNCHANGED spaceVars => SpaceOK'
    /\ FlushOK /\ UNCHANGED flushVars => FlushOK'
    /\ CallOK /\ UNCHANGED <<inflight, now, may, calls, faults>> => CallOK'
BY DEF BaseOK, baseVars, SpaceOK, spaceVars, Indexed, FlushOK, flushVars, Free, CallOK

\* What a call asks for is a value for each of its keys.
LEMMA HistoryTyped ==
    ASSUME now \in [Key -> SUBSET Value], may \in [Key -> SUBSET Value], NEW f,
           \A k \in Key : k \in DOMAIN f => f[k] \in Value
    PROVE  /\ Asked(f) => may' \in [Key -> SUBSET Value]
           /\ Settled(f) => now' \in [Key -> SUBSET Value]
           /\ Unsure(f) => now' \in [Key -> SUBSET Value]
BY DEF Asked, Settled, Unsure

LEMMA AskTyped ==
    ASSUME CallOK, NEW k \in Key, NEW v \in Value
    PROVE  /\ Asked(Ask(k, v)) => may' \in [Key -> SUBSET Value]
           /\ Settled(Ask(k, v)) => now' \in [Key -> SUBSET Value]
           /\ Unsure(Ask(k, v)) => now' \in [Key -> SUBSET Value]
<1>1. \A x \in Key : x \in DOMAIN Ask(k, v) => Ask(k, v)[x] \in Value
  BY DEF Ask
<1>. QED  BY <1>1, HistoryTyped DEF CallOK

LEMMA AskMoveTyped ==
    ASSUME CallOK, NEW s \in Key, NEW d \in Key, NEW v \in Value, NEW move
    PROVE  /\ Asked(AskMove(s, d, v, move)) => may' \in [Key -> SUBSET Value]
           /\ Settled(AskMove(s, d, v, move)) => now' \in [Key -> SUBSET Value]
           /\ Unsure(AskMove(s, d, v, move)) => now' \in [Key -> SUBSET Value]
<1>1. \A x \in Key : x \in DOMAIN AskMove(s, d, v, move) => AskMove(s, d, v, move)[x] \in Value
  BY DEF AskMove, Value
<1>. QED  BY <1>1, HistoryTyped DEF CallOK

LEMMA CallTyped ==
    ASSUME calls \in 0..MaxCalls, NEW keys, Call(keys)
    PROVE  calls' \in 0..MaxCalls
BY BoundAssumption DEF Call

LEMMA BeginsTyped ==
    ASSUME inflight \in [Key -> Request \cup {None}], NEW k \in Key, NEW s \in Key, NEW v \in Value,
           NEW op \in {"put", "move", "moved", "copied", "delete"}
    PROVE  /\ Begins(k, op, s, v) => inflight' \in [Key -> Request \cup {None}]
           /\ Ends(k) => inflight' \in [Key -> Request \cup {None}]
BY DEF Begins, Ends, Request

\* A pack is sent, or lost.
LEMMA SealTyped ==
    ASSUME BaseOK, SpaceOK, NEW o \in Spool, o.id # 0, Indexed, SealSent(o) \/ SealFails(o),
           ids' \in 0..MaxPacks
    PROVE  BaseOK' /\ SpaceOK'
<1>1. o.id \in PackId /\ o.holds \in SUBSET Content /\ o.files \in [Key -> Value]
  BY DEF Spool, PackId
<1>2. [k \in Key |-> IF o.files[k] # None THEN <<o.id, o.files[k]>> ELSE idx.entry[k]]
         \in [Key -> Entry \cup {None}]
  BY <1>1 DEF SpaceOK, Index, Entry, Value
<1>3. idx.packs \cup {o.id} \in SUBSET PackId
  BY <1>1 DEF SpaceOK, Index
<1>4. CASE SealSent(o)
  <2>1. idx' \in Index  BY <1>2, <1>3, <1>4, IndexTyped DEF SealSent, SpaceOK
  <2>. QED  BY <1>1, <1>4, <2>1, BlankValues DEF SealSent, Upload, BaseOK, SpaceOK, Indexed
<1>5. CASE SealFails(o)
  BY <1>1, <1>5, BlankValues DEF SealFails, Upload, BaseOK, SpaceOK, Indexed
<1>. QED  BY <1>4, <1>5

LEMMA ForfeitTyped ==
    ASSUME CallOK, may' \in [Key -> SUBSET Value], NEW o, Forfeit(o)
    PROVE  now' \in [Key -> SUBSET Value]
BY DEF CallOK, Forfeit

\* The pack after a Put, and the three ways the Put can end.
Filled(k, c) == [id    |-> ids',
                 holds |-> open.holds \cup {c},
                 files |-> [open.files EXCEPT ![k] = c]]

LEMMA PutPackedCases ==
    ASSUME NEW k, NEW c, PutPacked(k, c)
    PROVE  /\ mode = "packing" /\ Free /\ Call({k})
           /\ open.id = 0 => ids < MaxPacks
           /\ ids' = IF open.id = 0 THEN ids + 1 ELSE ids
           /\ Asked(Ask(k, c))
           /\ UNCHANGED <<inflight, flushVars>>
           /\ \/ /\ open' = Filled(k, c) /\ NoFault
                 /\ UNCHANGED <<object, pack, old, saved, mode, idx, dirty, stale, failed>>
                 /\ Settled(Ask(k, c))
              \/ SealSent(Filled(k, c)) /\ Settled(Ask(k, c))
              \/ SealFails(Filled(k, c)) /\ Forfeit(Filled(k, c))
BY Zenon DEF PutPacked, AddedTo, Filled

LEMMA FilledTyped ==
    ASSUME TypeOK, Control, NEW k \in Key, NEW c \in Content, PutPacked(k, c)
    PROVE  ids' \in 0..MaxPacks /\ Filled(k, c) \in Spool /\ Filled(k, c).id # 0
<1>1. ids \in 0..MaxPacks /\ open \in Spool  BY DEF TypeOK
<1>a. ids' = IF open.id = 0 THEN ids + 1 ELSE ids
  BY PutPackedCases
<1>b. open.id = 0 => ids < MaxPacks
  BY PutPackedCases
<1>2. ids' \in 0..MaxPacks /\ ids' \in Nat
  BY <1>1, <1>a, <1>b, BoundAssumption
<1>3. ids' # 0
  BY <1>1, <1>a, <1>b DEF Control, Spool
<1>. QED  BY <1>1, <1>2, <1>3 DEF Filled, Spool, Value

LEMMA PutPackedTyped ==
    ASSUME TypeOK, Control, NEW k \in Key, NEW c \in Content, PutPacked(k, c)
    PROVE  TypeOK'
<1>. DEFINE filled == Filled(k, c)
<1>0. BaseOK /\ SpaceOK /\ FlushOK /\ CallOK  BY TypeParts
<1>1. calls' \in 0..MaxCalls /\ faults' \in 0..MaxFaults
  BY <1>0, PutPackedCases, CallTyped, FaultTyped DEF CallOK, SealSent, SealFails
<1>2. may' \in [Key -> SUBSET Value]
  BY <1>0, PutPackedCases, AskTyped DEF Value
<1>3. now' \in [Key -> SUBSET Value]
  BY <1>0, <1>2, PutPackedCases, AskTyped, ForfeitTyped DEF Value
<1>4. CallOK'
  BY <1>0, <1>1, <1>2, <1>3, PutPackedCases DEF CallOK
<1>5. FlushOK'
  BY <1>0, PutPackedCases, TypeUnmoved
<1>6. CASE SealSent(filled) \/ SealFails(filled)
  BY <1>0, <1>4, <1>5, <1>6, FilledTyped, PutPackedCases, SealTyped, TypeParts DEF Indexed
<1>7. CASE open' = filled /\ UNCHANGED <<object, pack, old, saved, mode, idx, dirty, stale, failed>>
  <2>1. BaseOK' /\ SpaceOK'
    BY <1>0, <1>7, FilledTyped DEF BaseOK, SpaceOK, Indexed
  <2>. QED  BY <1>4, <1>5, <2>1, TypeParts
<1>. QED  BY <1>6, <1>7, PutPackedCases

LEMMA PutDirectTyped ==
    ASSUME TypeOK, NEW k \in Key, NEW c \in Content, PutDirect(k, c)
    PROVE  TypeOK'
<1>0. BaseOK /\ SpaceOK /\ FlushOK /\ CallOK  BY TypeParts
<1>1. BaseOK'  BY <1>0 DEF PutDirect, BaseOK, Value
<1>2. calls' \in 0..MaxCalls /\ faults' \in 0..MaxFaults
  BY <1>0, CallTyped, FaultTyped DEF PutDirect, CallOK
<1>3. may' \in [Key -> SUBSET Value] /\ now' \in [Key -> SUBSET Value]
  BY <1>0, AskTyped DEF PutDirect, Value
<1>4. inflight' \in [Key -> Request \cup {None}]
  BY <1>0, BeginsTyped DEF PutDirect, CallOK, Value
<1>. QED  BY <1>0, <1>1, <1>2, <1>3, <1>4, TypeParts, TypeUnmoved DEF PutDirect, CallOK

LEMMA EditTyped ==
    ASSUME TypeOK, Control, NEW k \in Key,
           PutDirectEnds(k) \/ DeleteSource(k) \/ CopyEnds(k) \/ Delete(k) \/ DeleteEnds(k)
    PROVE  TypeOK'
<1>0. BaseOK /\ SpaceOK /\ FlushOK /\ CallOK  BY TypeParts
<1>1. /\ \A e \in Entry \cup {None} : [idx EXCEPT !.entry[k] = e] \in Index
      /\ \A e, x \in Entry \cup {None}, s \in Key :
            [idx EXCEPT !.entry[k] = e, !.entry[s] = x] \in Index
      /\ Dropped(k) \in Spool /\ Direct \in Entry
  BY <1>0 DEF SpaceOK, Index, Dropped, Spool, Value, Entry
<1>2. inflight[k] # None => /\ inflight[k] \in Request
                            /\ inflight[k].value \in Value /\ inflight[k].from \in Key
  BY <1>0 DEF CallOK, Request
<1>3. Ends(k) => inflight' \in [Key -> Request \cup {None}]
  BY <1>0, BeginsTyped DEF Value, CallOK
<1>4. CASE PutDirectEnds(k)
  <2>1. BaseOK' /\ FlushOK'
    BY <1>0, <1>4, TypeUnmoved DEF PutDirectEnds, editRest
  <2>2. Indexed  BY <1>0, <1>4 DEF Control, PutDirectEnds, SpaceOK, Indexed, Nothing
  <2>3. SpaceOK'  BY <1>0, <1>1, <1>4, <2>2 DEF PutDirectEnds, editRest, SpaceOK, Indexed
  <2>4. now' \in [Key -> SUBSET Value]
    BY <1>0, <1>2, <1>4, AskTyped DEF PutDirectEnds
  <2>5. CallOK'
    BY <1>0, <1>3, <1>4, <2>4 DEF PutDirectEnds, editRest, CallOK
  <2>. QED  BY <2>1, <2>3, <2>5, TypeParts
<1>5. CASE DeleteSource(k)
  <2>1. SpaceOK' /\ FlushOK'  BY <1>0, <1>5, TypeUnmoved DEF DeleteSource
  <2>2. BaseOK'  BY <1>0, <1>2, <1>5 DEF DeleteSource, BaseOK, Value
  <2>3. [inflight EXCEPT ![k].op = "moved"] \in [Key -> Request \cup {None}]
    BY <1>0, <1>2, <1>5 DEF DeleteSource, CallOK, Request
  <2>4. CallOK'
    BY <1>0, <1>3, <1>5, <2>3, FaultTyped DEF DeleteSource, CallOK
  <2>. QED  BY <2>1, <2>2, <2>4, TypeParts
<1>6. CASE CopyEnds(k)
  <2>1. BaseOK' /\ FlushOK'
    BY <1>0, <1>6, TypeUnmoved DEF CopyEnds, editRest
  <2>2. mode # "through" => Indexed
    BY <1>0, <1>6 DEF Control, CopyEnds, SpaceOK, Indexed, Nothing
  <2>3. idx.entry[inflight[k].from] \in Entry \cup {None}
    BY <1>0, <1>2, <1>6 DEF CopyEnds, SpaceOK, Index
  <2>4. SpaceOK'
    <3>1. CASE mode = "through"
      BY <1>0, <1>6, <3>1 DEF CopyEnds, editRest, SpaceOK, Indexed
    <3>2. CASE mode # "through"
      <4>1. idx' = [idx EXCEPT !.entry[k] = Direct, !.entry[inflight[k].from] =
                       IF inflight[k].op = "moved" THEN None ELSE @]
        BY <1>6, <3>2 DEF CopyEnds
      <4>2. idx' \in Index
        BY <1>0, <1>1, <1>2, <1>6, <4>1 DEF CopyEnds, SpaceOK, Index
      <4>. QED  BY <1>0, <1>1, <1>6, <2>2, <3>2, <4>2 DEF CopyEnds, editRest, SpaceOK, Indexed
    <3>. QED  BY <3>1, <3>2
  <2>5. now' \in [Key -> SUBSET Value]
    BY <1>0, <1>2, <1>6, AskMoveTyped DEF CopyEnds
  <2>6. CallOK'
    BY <1>0, <1>3, <1>6, <2>5 DEF CopyEnds, editRest, CallOK
  <2>. QED  BY <2>1, <2>4, <2>6, TypeParts
<1>7. CASE Delete(k)
  <2>1. BaseOK' /\ FlushOK'
    BY <1>0, <1>7, TypeUnmoved DEF Delete, editRest
  <2>2. SpaceOK'
    BY <1>0, <1>1, <1>7 DEF Delete, Call, editRest, SpaceOK, Indexed
  <2>3. calls' \in 0..MaxCalls  BY <1>0, <1>7, CallTyped DEF Delete, CallOK
  <2>4. /\ may' \in [Key -> SUBSET Value] /\ now' \in [Key -> SUBSET Value]
        /\ inflight' \in [Key -> Request \cup {None}]
    BY <1>0, <1>7, AskTyped, BeginsTyped DEF Delete, CallOK, Value
  <2>. QED  BY <1>0, <1>7, <2>1, <2>2, <2>3, <2>4, TypeParts DEF CallOK, Delete, editRest
<1>8. CASE DeleteEnds(k)
  <2>1. SpaceOK' /\ FlushOK'  BY <1>0, <1>8, TypeUnmoved DEF DeleteEnds
  <2>2. BaseOK'  BY <1>0, <1>8 DEF DeleteEnds, BaseOK, Value
  <2>3. now' \in [Key -> SUBSET Value]
    BY <1>0, <1>8, AskTyped DEF DeleteEnds, CallOK, Value
  <2>4. CallOK'
    BY <1>0, <1>3, <1>8, <2>3, FaultTyped DEF DeleteEnds, CallOK
  <2>. QED  BY <2>1, <2>2, <2>4, TypeParts
<1>. QED  BY <1>4, <1>5, <1>6, <1>7, <1>8

LEMMA CarriedTyped ==
    ASSUME NEW s \in Key, NEW d \in Key, NEW move
    PROVE  /\ \A f \in [Key -> Entry \cup {None}] : Carried(f, s, d, move) \in [Key -> Entry \cup {None}]
           /\ \A f \in [Key -> Value] : Carried(f, s, d, move) \in [Key -> Value]
BY DEF Carried, Value

LEMMA CopyPackedCases ==
    ASSUME NEW s, NEW d, NEW move, CopyPacked(s, d, move)
    PROVE  \/ /\ open.files[s] # None
              /\ open' = [open EXCEPT !.files = Carried(@, s, d, move)]
              /\ idx' = IF move THEN [idx EXCEPT !.entry[s] = None] ELSE idx
              /\ dirty' = (dirty \/ idx'.entry[s] # idx.entry[s])
              /\ UNCHANGED stale
           \/ /\ open.files[s] = None /\ idx.entry[s] \notin {None, Direct}
              /\ open' = Dropped(d)
              /\ idx' = [idx EXCEPT !.entry = Carried(@, s, d, move)]
              /\ stale' = IF idx.entry[d] = Direct THEN stale \cup {d} ELSE stale
              /\ dirty' = TRUE
BY Zenon DEF CopyPacked

LEMMA CopyTyped ==
    ASSUME TypeOK, Control, NEW s \in Key, NEW d \in Key, NEW move \in BOOLEAN,
           CopyPacked(s, d, move) \/ CopyObject(s, d, move)
    PROVE  TypeOK'
<1>0. BaseOK /\ SpaceOK /\ FlushOK /\ CallOK  BY TypeParts
<1>1. CASE CopyPacked(s, d, move)
  <2>1. BaseOK' /\ FlushOK'
    BY <1>0, <1>1, TypeUnmoved DEF CopyPacked, editRest
  <2>2. idx.entry \in [Key -> Entry \cup {None}] /\ open.files \in [Key -> Value]
    BY <1>0 DEF SpaceOK, Index, Spool
  <2>a. /\ Carried(idx.entry, s, d, move) \in [Key -> Entry \cup {None}]
        /\ Carried(open.files, s, d, move) \in [Key -> Value]
    BY <2>2, CarriedTyped
  <2>b. /\ [idx EXCEPT !.entry = Carried(@, s, d, move)] \in Index
        /\ [idx EXCEPT !.entry[s] = None] \in Index
    BY <1>0, <2>a DEF SpaceOK, Index
  <2>c. /\ [open EXCEPT !.files = Carried(@, s, d, move)] \in Spool
        /\ Dropped(d) \in Spool
    BY <1>0, <2>a DEF SpaceOK, Spool, Dropped, Value
  <2>3. idx' \in Index
    <3>1. idx \in Index  BY <1>0 DEF SpaceOK
    <3>2. (IF move THEN [idx EXCEPT !.entry[s] = None] ELSE idx) \in Index
      BY <2>b, <3>1
    <3>3. \/ idx' = IF move THEN [idx EXCEPT !.entry[s] = None] ELSE idx
          \/ idx' = [idx EXCEPT !.entry = Carried(@, s, d, move)]
      BY Zenon, <1>1, CopyPackedCases
    <3>. QED  BY Zenon, <2>b, <3>2, <3>3
  <2>4. open' \in Spool
    BY <1>1, <2>c, CopyPackedCases
  <2>5. SpaceOK'
    <3>1. /\ Indexed /\ mode' = mode /\ failed' = failed
      BY <1>1 DEF CopyPacked, editRest
    <3>2. stale' \in {stale, stale \cup {d}}
      BY Zenon, <1>1, CopyPackedCases
    <3>3. dirty' \in BOOLEAN
      <4>1. dirty' = (dirty \/ idx'.entry[s] # idx.entry[s]) \/ dirty' = TRUE
        BY Zenon, <1>1, CopyPackedCases
      <4>. QED  BY <1>0, <4>1 DEF SpaceOK
    <3>. QED  BY <1>0, <2>3, <2>4, <3>1, <3>2, <3>3 DEF SpaceOK, Indexed
  <2>6. may' \in [Key -> SUBSET Value] /\ now' \in [Key -> SUBSET Value]
    BY <1>0, <1>1, AskMoveTyped, ReadTyped DEF CopyPacked
  <2>. QED  BY <1>0, <1>1, <2>1, <2>5, <2>6, CallTyped, TypeParts DEF CopyPacked, editRest, CallOK
<1>2. CASE CopyObject(s, d, move)
  <2>1. SpaceOK' /\ FlushOK'  BY <1>0, <1>2, TypeUnmoved DEF CopyObject
  <2>2. object[s] \in Value  BY <1>0 DEF BaseOK
  <2>3. BaseOK'  BY <1>0, <1>2, <2>2 DEF CopyObject, BaseOK
  <2>4. may' \in [Key -> SUBSET Value] /\ now' \in [Key -> SUBSET Value]
    BY <1>0, <1>2, <2>2, AskMoveTyped DEF CopyObject
  <2>5. inflight' \in [Key -> Request \cup {None}]
    BY <1>0, <1>2, <2>2, BeginsTyped DEF CopyObject, CallOK
  <2>6. calls' \in 0..MaxCalls /\ faults' \in 0..MaxFaults
    BY <1>0, <1>2, CallTyped, FaultTyped DEF CopyObject, CallOK
  <2>. QED  BY <2>1, <2>3, <2>4, <2>5, <2>6, TypeParts DEF CallOK
<1>. QED  BY <1>1, <1>2

LEMMA FlushSealsTyped ==
    ASSUME TypeOK, Control, NEW f \in BOOLEAN, FlushSeals(f)
    PROVE  TypeOK'
<1>0. BaseOK /\ SpaceOK /\ FlushOK /\ CallOK  BY TypeParts
<1>1. FlushOK'
  BY <1>0 DEF FlushSeals, FlushOK, Free
<1>2. Indexed /\ ids' = ids /\ UNCHANGED <<inflight, may, calls>> /\ ids' \in 0..MaxPacks
  BY <1>0 DEF FlushSeals, BaseOK
<1>3. CASE /\ open.files = Nothing /\ open' = NoSpool /\ NoFault
           /\ UNCHANGED <<object, pack, old, saved, mode, idx, dirty, stale, failed, now>>
  <2>1. BaseOK' /\ SpaceOK'
    BY <1>0, <1>2, <1>3, BlankValues DEF BaseOK, SpaceOK, Indexed
  <2>. QED  BY <1>0, <1>1, <1>2, <1>3, <2>1, TypeParts, FaultTyped DEF CallOK
<1>4. CASE open.files # Nothing /\ (SealSent(open) \/ SealFails(open))
  <2>1. open \in Spool /\ open.id # 0  BY <1>0, <1>4 DEF SpaceOK, Control
  <2>2. BaseOK' /\ SpaceOK'  BY <1>0, <1>2, <1>4, <2>1, SealTyped
  <2>3. faults' \in 0..MaxFaults
    BY <1>0, <1>4, FaultTyped DEF SealSent, SealFails, CallOK
  <2>4. may' \in [Key -> SUBSET Value]  BY <1>0, <1>2 DEF CallOK
  <2>5. UNCHANGED now \/ Forfeit(open)
    BY DEF FlushSeals
  <2>6. now' \in [Key -> SUBSET Value]  BY <1>0, <2>4, <2>5, ForfeitTyped DEF CallOK
  <2>. QED  BY <1>0, <1>1, <1>2, <2>2, <2>3, <2>4, <2>6, TypeParts DEF CallOK
<1>. QED  BY <1>3, <1>4 DEF FlushSeals

LEMMA FlushStepTyped ==
    ASSUME TypeOK, Control,
           FlushThrough \/ Unsealed \/ FlushAsks \/ CheckpointAsks
    PROVE  TypeOK'
<1>0. BaseOK /\ SpaceOK /\ FlushOK /\ CallOK  BY TypeParts
<1>1. BaseOK'
  BY <1>0, TypeUnmoved DEF FlushThrough, Unsealed, FlushAsks, CheckpointAsks, baseVars
<1>2. CallOK'
  BY <1>0, TypeUnmoved DEF FlushThrough, Unsealed, FlushAsks, CheckpointAsks
<1>3. SpaceOK'
  BY <1>0, BlankValues
     DEF FlushThrough, Unsealed, FlushAsks, CheckpointAsks, SpaceOK, spaceVars, Unload, Indexed
<1>4. FlushOK'
  <2>1. CASE FlushThrough    BY <1>0, <2>1, TypeUnmoved DEF FlushThrough
  <2>2. CASE Unsealed        BY <1>0, <2>2 DEF Unsealed, FlushOK, Returns
  <2>3. CASE FlushAsks       BY <1>0, <2>3 DEF FlushAsks, FlushOK, Returns, SpaceOK, Free
  <2>4. CASE CheckpointAsks  BY <1>0, <2>4 DEF CheckpointAsks, FlushOK, Returns, Free
  <2>. QED  BY <2>1, <2>2, <2>3, <2>4
<1>. QED  BY <1>1, <1>2, <1>3, <1>4, TypeParts

\* The packs a flush writes, empties and drops.
LEMMA CompactCases ==
    ASSUME Compact
    PROVE  \/ /\ UNCHANGED <<pack, ids, idx, dirty>> /\ NoFault
              /\ step' = "sweep" /\ UNCHANGED <<full, owes, dead>>
           \/ /\ ids < MaxPacks /\ ids' = ids + 1
              /\ \E victims \in SUBSET Sparse \ {{}} :
                   \/ /\ pack' = [pack EXCEPT ![ids'] = UNION {Live(p) : p \in victims}]
                      /\ idx' = Rewritten(victims, ids') /\ dirty' = TRUE /\ NoFault
                      /\ step' = "sweep" /\ UNCHANGED <<full, owes, dead>>
                   \/ /\ pack' \in {pack, [pack EXCEPT ![ids'] = UNION {Live(p) : p \in victims}]}
                      /\ UNCHANGED <<idx, dirty>> /\ Fault /\ Returns("failed")
BY DEF Compact

LEMMA CompactTyped ==
    ASSUME TypeOK, Control, Compact
    PROVE  TypeOK'
<1>0. BaseOK /\ SpaceOK /\ FlushOK /\ CallOK  BY TypeParts
<1>1. CallOK'
  BY <1>0, FaultTyped DEF Compact, CallOK
<1>2. FlushOK'
  BY <1>0 DEF Compact, FlushOK, Free, Returns
<1>3. Indexed  BY <1>0 DEF Compact, Control, Free, Indexed
<1>4. CASE UNCHANGED <<pack, ids, idx, dirty>>
  BY <1>0, <1>1, <1>2, <1>4, TypeParts DEF Compact, BaseOK, SpaceOK, Indexed
<1>5. CASE ids < MaxPacks /\ ids' = ids + 1
  <2>1. ids' \in PackId /\ ids' \in 0..MaxPacks
    BY <1>0, <1>5, BoundAssumption DEF BaseOK, PackId
  <2>2. PICK victims \in SUBSET Sparse :
           \/ /\ pack' = [pack EXCEPT ![ids'] = UNION {Live(p) : p \in victims}]
              /\ idx' = Rewritten(victims, ids') /\ dirty' = TRUE
           \/ /\ pack' \in {pack, [pack EXCEPT ![ids'] = UNION {Live(p) : p \in victims}]}
              /\ UNCHANGED <<idx, dirty>>
    <3>1. ids' # ids  BY <1>0, <1>5 DEF BaseOK
    <3>. QED  BY Zenon, <3>1, CompactCases
  <2>3. UNION {Live(p) : p \in victims} \subseteq Content
    BY DEF Live
  <2>4. BaseOK'
    BY <1>0, <2>1, <2>2, <2>3 DEF Compact, BaseOK
  <2>5. [k \in Key |-> IF idx.entry[k] # None /\ idx.entry[k][1] \in victims
                       THEN <<ids', idx.entry[k][2]>> ELSE idx.entry[k]]
           \in [Key -> Entry \cup {None}]
    <3>1. victims \subseteq PackId  BY <1>0 DEF Sparse, SpaceOK, Index
    <3>2. \A e \in Entry : e[1] \in PackId => <<ids', e[2]>> \in Entry
      BY <2>1 DEF Entry, Direct, PackId
    <3>3. \A k \in Key : idx.entry[k] \in Entry \cup {None}
      BY <1>0 DEF SpaceOK, Index
    <3>. QED  BY <3>1, <3>2, <3>3
  <2>6. Rewritten(victims, ids') \in Index
    BY <1>0, <2>1, <2>5, IndexTyped DEF Rewritten, SpaceOK, Index
  <2>7. SpaceOK'
    BY <1>0, <1>3, <2>2, <2>6 DEF Compact, SpaceOK, Indexed
  <2>. QED  BY <1>1, <1>2, <2>4, <2>7, TypeParts
<1>. QED  BY <1>4, <1>5 DEF Compact

LEMMA SweepTyped ==
    ASSUME TypeOK, Control, Sweep
    PROVE  TypeOK'
<1>0. BaseOK /\ SpaceOK /\ FlushOK /\ CallOK  BY TypeParts
<1>1. CallOK'  BY <1>0, FaultTyped DEF Sweep, CallOK
<1>2. Empty \subseteq PackId  BY <1>0 DEF Empty, SpaceOK, Index
<1>3. FlushOK'
  BY <1>0, <1>2 DEF Sweep, FlushOK, Free
<1>4. Indexed  BY <1>0 DEF Sweep, Control, Free, Indexed
<1>5. BaseOK'
  <2>1. \A gone : [p \in PackId |-> IF p \in gone THEN {} ELSE pack[p]] \in [PackId -> SUBSET Content]
    BY <1>0 DEF BaseOK
  <2>2. pack' \in [PackId -> SUBSET Content]
    BY <1>0, <2>1 DEF Sweep, BaseOK
  <2>. QED  BY <1>0, <2>2 DEF Sweep, BaseOK
<1>6. idx.packs \ Empty \in SUBSET PackId  BY <1>0 DEF SpaceOK, Index
<1>7. /\ [idx EXCEPT !.packs = @ \ Empty] \in Index
      /\ [idx EXCEPT !.packs = @ \ Empty, !.swept = TRUE] \in Index
  BY <1>0, <1>6, IndexTyped DEF SpaceOK, Index
<1>8. idx' \in Index  BY <1>7 DEF Sweep
<1>9. SpaceOK'  BY <1>0, <1>4, <1>8 DEF Sweep, SpaceOK, Indexed
<1>. QED  BY <1>1, <1>3, <1>5, <1>9, TypeParts

LEMMA SaveTyped ==
    ASSUME TypeOK, Control, WriteIndex \/ Drop
    PROVE  TypeOK'
<1>0. BaseOK /\ SpaceOK /\ FlushOK /\ CallOK  BY TypeParts
<1>1. CASE WriteIndex
  <2>1. BaseOK'  BY <1>0, <1>1 DEF WriteIndex, BaseOK, SpaceOK
  <2>2. SpaceOK'  BY <1>0, <1>1 DEF WriteIndex, SpaceOK, Indexed
  <2>3. FlushOK'  BY <1>0, <1>1 DEF WriteIndex, FlushOK, Free, Returns
  <2>4. CallOK'   BY <1>0, <1>1, FaultTyped DEF WriteIndex, CallOK
  <2>. QED  BY <2>1, <2>2, <2>3, <2>4, TypeParts
<1>2. CASE Drop
  <2>1. BaseOK'
    <3>1. \A packs, objects :
             /\ [p \in PackId |-> IF p \in packs THEN {} ELSE pack[p]] \in [PackId -> SUBSET Content]
             /\ [k \in Key |-> IF k \in objects THEN None ELSE object[k]] \in [Key -> Value]
      BY <1>0 DEF BaseOK, Value
    <3>2. pack' \in [PackId -> SUBSET Content] /\ object' \in [Key -> Value]
      BY <1>2, <3>1 DEF Drop
    <3>. QED  BY <1>0, <1>2, <3>2 DEF Drop, BaseOK
  <2>2. SpaceOK'  BY <1>0, <1>2, BlankValues DEF Drop, SpaceOK, Indexed, Unload
  <2>3. FlushOK'  BY <1>0, <1>2 DEF Drop, FlushOK, Free, Returns
  <2>4. CallOK'   BY <1>0, <1>2, FaultTyped DEF Drop, CallOK
  <2>. QED  BY <2>1, <2>2, <2>3, <2>4, TypeParts
<1>. QED  BY <1>1, <1>2

LEMMA OtherTyped ==
    ASSUME TypeOK, Control, Load \/ Stop \/ NextDay
    PROVE  TypeOK'
<1>0. BaseOK /\ SpaceOK /\ FlushOK /\ CallOK  BY TypeParts
<1>1. CASE Load
  <2>1. BaseOK' /\ FlushOK' /\ CallOK'  BY <1>0, <1>1, TypeUnmoved DEF Load
  <2>2. [NoIndex EXCEPT !.entry = [k \in Key |-> IF object[k] # None THEN Direct ELSE None]] \in Index
    BY BlankValues, IndexTyped DEF Entry
  <2>3. idx' \in Index
    BY <1>0, <1>1, <2>2, BlankValues DEF Load, BaseOK
  <2>4. SpaceOK'
    BY <1>0, <1>1, <2>3, SwitchAssumption DEF Load, SpaceOK, Indexed
  <2>. QED  BY <2>1, <2>4, TypeParts
<1>2. CASE Stop
  <2>1. BaseOK'  BY <1>0, <1>2, TypeUnmoved DEF Stop
  <2>2. SpaceOK'  BY <1>2, BlankValues DEF Stop, Forgotten, SpaceOK, Indexed
  <2>3. FlushOK'  BY <1>2 DEF Stop, Forgotten, FlushOK
  <2>4. now' \in [Key -> SUBSET Value] /\ may' = now'
    BY <1>2, ReadTyped DEF Stop, Forgotten
  <2>5. CallOK'  BY <1>0, <1>2, <2>4, FaultTyped DEF Stop, Forgotten, CallOK, Nothing
  <2>. QED  BY <2>1, <2>2, <2>3, <2>5, TypeParts
<1>3. CASE NextDay
  <2>1. SpaceOK' /\ FlushOK' /\ CallOK'  BY <1>0, <1>3, TypeUnmoved DEF NextDay
  <2>2. saved # None => [saved EXCEPT !.swept = FALSE] \in Index
    BY <1>0 DEF BaseOK, Index
  <2>3. BaseOK'  BY <1>0, <1>3, <2>2 DEF NextDay, BaseOK
  <2>. QED  BY <2>1, <2>3, TypeParts
<1>. QED  BY <1>1, <1>2, <1>3

\* Calls: those that edit the index find the lock free.
LEMMA ControlOfCalls ==
    ASSUME TypeOK, Control, NEW k \in Key,
           PutDirectEnds(k) \/ DeleteSource(k) \/ CopyEnds(k) \/ Delete(k) \/ DeleteEnds(k)
           \/ \E c \in Content : PutDirect(k, c)
    PROVE  Control'
<1>0. BaseOK /\ SpaceOK /\ FlushOK /\ CallOK  BY TypeParts
<1>1. inflight[k] # None => inflight[k] \in Request
  BY <1>0 DEF CallOK
<1>2. CASE PutDirectEnds(k)
  <2>1. Free /\ Free' /\ UNCHANGED <<mode, saved, failed, flushVars, ids>> /\ dirty' /\ Indexed
    BY <1>0, <1>2 DEF PutDirectEnds, editRest, baseVars, flushVars, Free, Control, Indexed, Nothing, SpaceOK
  <2>2. open'.id = open.id /\ (open.files = Nothing => open'.files = Nothing)
    BY <1>0, <1>2 DEF PutDirectEnds, Dropped, SpaceOK, Spool, Nothing
  <2>. QED  BY <2>1, <2>2 DEF Control, Indexed, Free, flushVars
<1>3. CASE DeleteSource(k)
  <2>1. /\ UNCHANGED <<mode, saved, idx, dirty, open, stale, failed, flushVars, ids>>
        /\ inflight # Nothing /\ mode # "unread"
    BY <1>3 DEF DeleteSource, spaceVars, Nothing, Control
  <2>2. \A d \in Key : inflight'[d] # None => inflight'[d].op # "put"
                                             \/ (inflight'[d] = inflight[d])
    BY <1>0, <1>1, <1>3 DEF DeleteSource, CallOK, Request, Ends
  <2>3. full => Free  BY <2>1 DEF Control
  <2>. QED  BY <2>1, <2>2, <2>3 DEF Control, Indexed, Free, flushVars
<1>4. CASE CopyEnds(k)
  <2>1. Free /\ Free' /\ UNCHANGED <<mode, saved, failed, flushVars, ids>>
    BY <1>0, <1>4 DEF CopyEnds, editRest, baseVars, flushVars, Free
  <2>2. mode = "through" \/ (Indexed /\ dirty')
    <3>1. inflight # Nothing  BY <1>4 DEF CopyEnds, Nothing
    <3>2. mode = "through" \/ Indexed  BY <1>0, <3>1 DEF Control, Indexed, SpaceOK
    <3>3. mode # "through" => dirty'  BY <1>4 DEF CopyEnds
    <3>. QED  BY <3>2, <3>3
  <2>3. open'.id = open.id /\ (open.files = Nothing => open'.files = Nothing)
    BY <1>0, <1>4 DEF CopyEnds, Dropped, SpaceOK, Spool, Nothing
  <2>4. mode = "through" => UNCHANGED <<idx, dirty, open, stale>>
    BY <1>4 DEF CopyEnds
  <2>5. \A d \in Key : inflight'[d] # None => inflight'[d] = inflight[d]
    BY <1>0, <1>4 DEF CopyEnds, Ends, CallOK
  <2>6. inflight # Nothing BY <1>4 DEF CopyEnds, Nothing
  <2>. QED  BY <2>1, <2>2, <2>3, <2>4, <2>5, <2>6 DEF Control, Indexed, Free, flushVars
<1>5. CASE Delete(k)
  <2>1. Free /\ Free' /\ UNCHANGED <<mode, saved, failed, flushVars, ids, stale>> /\ mode # "unread"
    BY <1>0, <1>5 DEF Delete, Call, editRest, baseVars, flushVars, Free
  <2>2. mode = "through" \/ Indexed
    BY <1>0, <1>5, <2>1 DEF Control, Indexed, SpaceOK
  <2>3. open'.id = open.id /\ (open.files = Nothing => open'.files = Nothing)
    BY <1>0, <1>5 DEF Delete, Dropped, SpaceOK, Spool, Nothing
  <2>4. mode = "through" => UNCHANGED <<idx, dirty, open>>
    BY <1>5 DEF Delete
  <2>5. \A d \in Key : inflight'[d] # None => inflight'[d] = inflight[d] \/ inflight'[d].op = "delete"
    BY <1>0, <1>5 DEF Delete, Begins, CallOK
  <2>6. Indexed /\ ~dirty' => ~dirty /\ idx'.entry = idx.entry
    <3>1. idx.entry \in [Key -> Entry \cup {None}] /\ dirty \in BOOLEAN  BY <1>0 DEF SpaceOK, Index
    <3>2. idx.entry[k] = None => [idx.entry EXCEPT ![k] = None] = idx.entry  BY <3>1
    <3>3. Indexed => /\ idx' = [idx EXCEPT !.entry[k] = None]
                     /\ dirty' = (dirty \/ idx.entry[k] # None)
      BY <1>5 DEF Delete, Indexed
    <3>4. [idx EXCEPT !.entry[k] = None].entry = [idx.entry EXCEPT ![k] = None]
      BY <1>0 DEF SpaceOK, Index
    <3>. QED  BY <3>1, <3>2, <3>3, <3>4
  <2>. QED  BY <2>1, <2>2, <2>3, <2>4, <2>5, <2>6 DEF Control, Indexed, Free, flushVars
<1>6. CASE DeleteEnds(k)
  <2>1. /\ UNCHANGED <<mode, saved, idx, dirty, open, stale, failed, flushVars, ids>>
        /\ inflight # Nothing /\ mode # "unread"
    BY <1>6 DEF DeleteEnds, spaceVars, Nothing, Control
  <2>2. \A d \in Key : inflight'[d] # None => inflight'[d] = inflight[d]
    BY <1>0, <1>6 DEF DeleteEnds, CallOK, Ends
  <2>3. full => Free  BY <2>1 DEF Control
  <2>. QED  BY <2>1, <2>2, <2>3 DEF Control, Indexed, Free, flushVars
<1>7. CASE \E c \in Content : PutDirect(k, c)
  <2>1. /\ UNCHANGED <<mode, saved, idx, dirty, open, stale, failed, flushVars, ids>>
        /\ mode # "unread" /\ Calling
    BY <1>7 DEF PutDirect, Call, spaceVars
  <2>2. mode = "through" => UNCHANGED inflight
    BY <1>7 DEF PutDirect
  <2>. QED  BY <2>1, <2>2 DEF Control, Indexed, Free, flushVars, Calling
<1>. QED  BY <1>2, <1>3, <1>4, <1>5, <1>6, <1>7

LEMMA ControlOfPackedPuts ==
    ASSUME TypeOK, Control, NEW k \in Key, NEW c \in Content, PutPacked(k, c)
    PROVE  Control'
<1>0. BaseOK /\ SpaceOK /\ FlushOK /\ CallOK  BY TypeParts
<1>1. /\ mode = "packing" /\ Free /\ UNCHANGED <<inflight, flushVars>>
      /\ ids' = IF open.id = 0 THEN ids + 1 ELSE ids
  BY PutPackedCases
<1>2. Indexed /\ Free' /\ mode' = mode /\ UNCHANGED saved
  BY <1>1, PutPackedCases DEF Indexed, Free, flushVars, SealSent, SealFails, Upload
<1>3. open' = Filled(k, c) \/ open' = NoSpool
  BY PutPackedCases DEF SealSent, SealFails
<1>4. Filled(k, c).id \in {0, ids'} /\ Filled(k, c).id # 0
  BY <1>1, FilledTyped DEF Filled
<1>5. open'.id \in {0, ids'} /\ (open'.files # Nothing => open'.id # 0)
  BY <1>3, <1>4 DEF NoSpool
<1>6. dirty' \/ UNCHANGED <<idx, dirty>>
  BY PutPackedCases DEF SealSent, SealFails
<1>. QED  BY <1>1, <1>2, <1>5, <1>6 DEF Control, Indexed, Free, flushVars

LEMMA ControlOfCopies ==
    ASSUME TypeOK, Control, NEW s \in Key, NEW d \in Key, NEW move \in BOOLEAN,
           CopyPacked(s, d, move) \/ CopyObject(s, d, move)
    PROVE  Control'
<1>0. BaseOK /\ SpaceOK /\ FlushOK /\ CallOK  BY TypeParts
<1>1. CASE CopyPacked(s, d, move)
  <2>1. Free /\ Free' /\ Indexed /\ UNCHANGED <<mode, saved, failed, inflight, flushVars, ids>>
    BY <1>1 DEF CopyPacked, editRest, baseVars, flushVars, Free
  <2>2. open'.id = open.id /\ (open.files = Nothing => open'.files = Nothing)
    <3>1. [open EXCEPT !.files = Carried(@, s, d, move)].id = open.id
      BY <1>0 DEF SpaceOK, Spool, Carried
    <3>2. Dropped(d).id = open.id /\ (open.files = Nothing => Dropped(d).files = Nothing)
      BY <1>0 DEF SpaceOK, Spool, Dropped, Nothing
    <3>3. open.files[s] # None => open.files # Nothing  BY DEF Nothing
    <3>. QED  BY Zenon, <1>1, <3>1, <3>2, <3>3, CopyPackedCases
  <2>3. ~dirty' => ~dirty /\ idx'.entry = idx.entry
    <3>0. idx \in Index /\ dirty \in BOOLEAN  BY <1>0 DEF SpaceOK
    <3>1. idx.entry[s] = None => [idx EXCEPT !.entry[s] = None].entry = idx.entry
      BY <3>0 DEF Index
    <3>2. [idx EXCEPT !.entry[s] = None].entry[s] = None
      BY <3>0 DEF Index
    <3>3. \/ idx' = (IF move THEN [idx EXCEPT !.entry[s] = None] ELSE idx)
             /\ dirty' = (dirty \/ idx'.entry[s] # idx.entry[s])
          \/ dirty' = TRUE
      BY Zenon, <1>1, CopyPackedCases
    <3>. QED  BY <3>0, <3>1, <3>2, <3>3
  <2>. QED  BY <2>1, <2>2, <2>3 DEF Control, Indexed, Free, flushVars
<1>2. CASE CopyObject(s, d, move)
  <2>1. /\ UNCHANGED <<mode, saved, idx, dirty, open, stale, failed, flushVars, ids>>
        /\ mode # "unread" /\ Calling
    BY <1>2 DEF CopyObject, Call, spaceVars
  <2>2. \A e \in Key : inflight'[e] # None => inflight'[e] = inflight[e] \/ inflight'[e].op # "put"
    BY <1>0, <1>2 DEF CopyObject, Begins, CallOK
  <2>. QED  BY <2>1, <2>2 DEF Control, Indexed, Free, flushVars, Calling
<1>. QED  BY <1>1, <1>2

\* Flushing: from "sealed" on, with the lock held.
LEMMA SealControlled ==
    ASSUME TypeOK, Control, NEW o \in Spool, Indexed, SealSent(o) \/ SealFails(o)
    PROVE  /\ open' = NoSpool /\ mode' = mode /\ saved' = saved
           /\ dirty' \/ UNCHANGED <<idx, dirty>>
           /\ SealFails(o) => failed'
BY DEF SealSent, SealFails, Upload

LEMMA ControlOfFlushing ==
    ASSUME TypeOK, Control,
           \/ \E f \in BOOLEAN : FlushSeals(f)
           \/ FlushThrough \/ Unsealed \/ FlushAsks \/ CheckpointAsks
    PROVE  Control'
<1>0. BaseOK /\ SpaceOK /\ FlushOK /\ CallOK  BY TypeParts
<1>1. ASSUME NEW f \in BOOLEAN, FlushSeals(f) PROVE Control'
  <2>1. /\ Free /\ Indexed /\ full' = f /\ step' \in {"sealed", "unsealed"}
        /\ UNCHANGED <<ids, inflight, owes, dead>>
        /\ f => inflight = Nothing
    BY <1>1 DEF FlushSeals
  <2>2. \/ open' = NoSpool /\ UNCHANGED <<mode, saved, idx, dirty, stale, failed>>
        \/ SealSent(open) \/ SealFails(open)
    BY <1>1 DEF FlushSeals
  <2>3. open' = NoSpool /\ mode' = mode /\ saved' = saved /\ (dirty' \/ UNCHANGED <<idx, dirty>>)
    BY <1>0, <2>1, <2>2, SealControlled DEF SpaceOK
  <2>. QED  BY <1>0, <2>1, <2>3 DEF Control, Indexed, Free, NoSpool, FlushOK
<1>2. CASE FlushThrough
  BY <1>0, <1>2 DEF FlushThrough, Unload, Control, Indexed, Free, baseVars, flushVars, FlushOK
<1>3. CASE Unsealed
  BY <1>0, <1>3 DEF Unsealed, Returns, Control, Indexed, Free, baseVars, FlushOK
<1>4. CASE FlushAsks
  <2>1. /\ step = "sealed" /\ full /\ failed' = FALSE /\ ~Free
        /\ UNCHANGED <<baseVars, dirty, open, stale, inflight>>
    BY <1>4 DEF FlushAsks, Free
  <2>2. \/ /\ owes' = failed /\ step' = "tidy" /\ UNCHANGED <<full, dead, mode, idx>>
        \/ Returns("failed") /\ UNCHANGED <<mode, idx>>
        \/ Clean /\ Returns("ok") /\ Unload
    BY <1>4 DEF FlushAsks
  <2>3. dirty \in BOOLEAN  BY <1>0 DEF SpaceOK
  <2>. QED  BY <1>0, <2>1, <2>2, <2>3
            DEF Control, Indexed, Free, baseVars, Returns, Unload, Clean, FlushOK
<1>5. CASE CheckpointAsks
  <2>1. /\ step = "sealed" /\ ~full /\ ~Free
        /\ UNCHANGED <<baseVars, spaceVars, inflight>>
    BY <1>5 DEF CheckpointAsks, Free
  <2>2. \/ Returns("failed") \/ Returns("ok")
        \/ ~failed /\ step' = "index" /\ UNCHANGED <<full, owes, dead>>
    BY <1>5 DEF CheckpointAsks
  <2>. QED  BY <1>0, <2>1, <2>2 DEF Control, Indexed, Free, baseVars, spaceVars, Returns, FlushOK
<1>. QED  BY <1>1, <1>2, <1>3, <1>4, <1>5

LEMMA ControlOfSaving ==
    ASSUME TypeOK, Control, Compact \/ Sweep \/ WriteIndex \/ Drop
    PROVE  Control'
<1>0. BaseOK /\ SpaceOK /\ FlushOK /\ CallOK  BY TypeParts
<1>1. ~Free /\ Indexed /\ open = NoSpool /\ (full => inflight = Nothing)
  BY DEF Compact, Sweep, WriteIndex, Drop, Free, Control
<1>2. CASE Compact
  <2>1. /\ step = "tidy" /\ UNCHANGED <<saved, mode, open, stale, failed, inflight>>
    BY <1>2 DEF Compact
  <2>2. /\ dirty' \/ UNCHANGED <<idx, dirty>>
        /\ \/ step' = "sweep" /\ UNCHANGED <<full, owes, dead>>
           \/ Returns("failed")
    BY <1>2, CompactCases
  <2>3. open'.id = 0 /\ open'.files = Nothing
    BY <1>1, <2>1 DEF NoSpool
  <2>4. Indexed' /\ ~dirty' => saved' # None /\ saved'.entry = idx'.entry
    BY <1>1, <2>1, <2>2 DEF Control
  <2>5. CASE step' = "sweep" /\ UNCHANGED <<full, owes, dead>>
    BY <1>1, <2>1, <2>3, <2>4, <2>5 DEF Control, Indexed, Free
  <2>6. CASE Returns("failed")
    BY <1>1, <2>1, <2>3, <2>4, <2>6 DEF Control, Indexed, Free, Returns
  <2>. QED  BY <2>2, <2>5, <2>6
<1>3. CASE Sweep
  <2>1. /\ step = "sweep" /\ step' = "index"
        /\ UNCHANGED <<saved, ids, mode, open, stale, failed, inflight, full, owes>>
    BY <1>3 DEF Sweep
  <2>2. dirty' \/ UNCHANGED <<idx, dirty>>
    BY <1>0, <1>3 DEF Sweep, SpaceOK
  <2>. QED  BY <1>0, <1>1, <2>1, <2>2 DEF Control, Indexed, Free
<1>4. CASE WriteIndex
  <2>1. /\ step = "index"
        /\ UNCHANGED <<ids, mode, idx, open, stale, failed, inflight, full>>
    BY <1>4 DEF WriteIndex, Returns
  <2>2. \/ saved' = idx /\ dirty' = FALSE /\ step' = "drop" /\ UNCHANGED <<owes, dead>>
        \/ saved' \in {saved, idx} /\ dirty' = dirty /\ Returns("failed")
    BY <1>4 DEF WriteIndex
  <2>3. idx # None  BY <1>0, NoneAssumption DEF SpaceOK
  <2>. QED  BY <1>0, <1>1, <2>1, <2>2, <2>3 DEF Control, Indexed, Free, Returns
<1>5. CASE Drop
  <2>1. /\ step = "drop" /\ stale' = {}
        /\ UNCHANGED <<saved, ids, dirty, open, failed, inflight>>
    BY <1>5 DEF Drop
  <2>2. \/ /\ Returns(IF owes THEN "failed" ELSE "ok")
           /\ IF full /\ ~owes THEN Unload ELSE UNCHANGED <<mode, idx>>
        \/ Returns("failed") /\ UNCHANGED <<mode, idx>>
    BY <1>5 DEF Drop
  <2>. QED  BY <1>0, <1>1, <2>1, <2>2 DEF Control, Indexed, Free, Returns, Unload
<1>. QED  BY <1>2, <1>3, <1>4, <1>5

LEMMA ControlOfOthers ==
    ASSUME TypeOK, Control, Load \/ Stop \/ NextDay
    PROVE  Control'
<1>0. BaseOK /\ SpaceOK /\ FlushOK /\ CallOK  BY TypeParts
<1>1. CASE Load
  <2>1. saved # None => idx' = saved  BY <1>1 DEF Load
  <2>2. /\ mode = "unread" /\ UNCHANGED <<baseVars, open, stale, failed, inflight, flushVars>>
        /\ inflight = Nothing /\ dirty' \in BOOLEAN
        /\ \/ mode' = "packing" /\ (saved = None <=> dirty')
           \/ mode' = "indexed" /\ saved # None /\ ~dirty'
           \/ mode' = "through" /\ saved = None /\ ~dirty'
    BY <1>1, SwitchAssumption DEF Load, Control
  <2>3. Free /\ inflight' = Nothing  BY <2>2 DEF Control, Indexed
  <2>. QED  BY <1>0, <2>1, <2>2, <2>3 DEF Control, Indexed, Free, baseVars, flushVars, Nothing
<1>2. CASE Stop
  BY <1>0, <1>2 DEF Stop, Forgotten, Control, Indexed, Free, NoSpool, baseVars
<1>3. CASE NextDay
  <2>1. mode = "unread" /\ UNCHANGED <<ids, spaceVars, inflight, flushVars>>
    BY <1>3 DEF NextDay
  <2>. QED  BY <1>0, <2>1 DEF Control, Indexed, Free, spaceVars, flushVars
<1>. QED  BY <1>1, <1>2, <1>3

\* What the store starts with.
LEMMA InitPacked ==
    ASSUME Init
    PROVE  /\ old \in {{}, {1}} /\ ids = Cardinality(old) /\ ids \in {0, 1}
           /\ 1 \in PackId /\ \A p \in PackId : pack[p] # {} <=> p \in old
           /\ pack \in [PackId -> SUBSET Content]
<1>1. 1 \in PackId  BY BoundAssumption DEF PackId
<1>2. PICK files \in [Key -> Value], packed \in SUBSET Key :
         /\ pack = [p \in PackId |-> IF p = 1 THEN {files[k] : k \in packed} ELSE {}]
         /\ None \notin pack[1]
         /\ old = {p \in PackId : pack[p] # {}} /\ ids = Cardinality(old)
  BY DEF Init
<1>3. \A p \in PackId : p # 1 => pack[p] = {}  BY <1>2
<1>4. old \in {{}, {1}}  BY <1>1, <1>2, <1>3
<1>5. ids \in {0, 1}  BY <1>2, <1>4, FS_EmptySet, FS_Singleton
<1>6. pack[1] = {files[k] : k \in packed}  BY <1>1, <1>2
<1>7. {files[k] : k \in packed} \subseteq Content  BY <1>2, <1>6 DEF Value
<1>. QED  BY <1>1, <1>2, <1>4, <1>5, <1>7

LEMMA InitTyped == Init => TypeOK /\ Control
<1>. SUFFICES ASSUME Init PROVE TypeOK /\ Control  OBVIOUS
<1>1. PICK files \in [Key -> Value], packed \in SUBSET Key :
         /\ object = [k \in Key |-> IF k \in packed THEN None ELSE files[k]]
         /\ pack = [p \in PackId |-> IF p = 1 THEN {files[k] : k \in packed} ELSE {}]
         /\ None \notin pack[1]
         /\ saved = IF packed = {} THEN None
                    ELSE [NoIndex EXCEPT
                            !.packs = {1},
                            !.entry = [k \in Key |-> IF k \in packed THEN <<1, files[k]>>
                                                     ELSE IF files[k] # None THEN Direct
                                                     ELSE None]]
         /\ now = [k \in Key |-> {files[k]}] /\ may = now
  BY Zenon DEF Init
<1>2. /\ Unloaded /\ inflight = Nothing
      /\ step = "ok" /\ full = FALSE /\ owes = FALSE /\ dead = {}
      /\ calls = 0 /\ faults = 0
  BY DEF Init
<1>3. \A k \in packed : files[k] \in Content
  <2>1. 1 \in PackId  BY InitPacked
  <2>2. pack[1] = {files[k] : k \in packed}  BY <1>1, <2>1
  <2>. QED  BY <1>1, <2>2 DEF Value
<1>4. saved \in Index \cup {None}
  <2>1. [k \in Key |-> IF k \in packed THEN <<1, files[k]>> ELSE IF files[k] # None THEN Direct
                       ELSE None] \in [Key -> Entry \cup {None}]
    BY <1>3, InitPacked DEF Entry
  <2>2. {1} \in SUBSET PackId  BY InitPacked
  <2>. QED  BY <1>1, <2>1, <2>2, BlankValues, IndexTyped
<1>5. BaseOK
  <2>1. object \in [Key -> Value]  BY <1>1 DEF Value
  <2>2. ids \in 0..MaxPacks  BY InitPacked, BoundAssumption
  <2>. QED  BY <1>4, <2>1, <2>2, InitPacked DEF BaseOK
<1>6. SpaceOK  BY <1>2, BlankValues DEF Unloaded, SpaceOK, Indexed
<1>7. FlushOK  BY <1>2 DEF FlushOK
<1>8. CallOK
  <2>1. now \in [Key -> SUBSET Value] /\ may \in [Key -> SUBSET Value]  BY <1>1
  <2>. QED  BY <1>2, <2>1, BoundAssumption DEF CallOK, Nothing
<1>9. Control
  BY <1>2 DEF Unloaded, Control, Indexed, Free, NoSpool
<1>. QED  BY <1>5, <1>6, <1>7, <1>8, <1>9, TypeParts

LEMMA StepTyped == TypeOK /\ Control /\ [Next]_vars => TypeOK' /\ Control'
<1>. SUFFICES ASSUME TypeOK, Control, [Next]_vars PROVE TypeOK' /\ Control'  OBVIOUS
<1>1. CASE Load \/ Stop \/ NextDay
  BY <1>1, OtherTyped, ControlOfOthers
<1>2. ASSUME NEW k \in Key, PutDirectEnds(k) \/ DeleteSource(k) \/ CopyEnds(k)
                            \/ Delete(k) \/ DeleteEnds(k)
      PROVE  TypeOK' /\ Control'
  BY <1>2, EditTyped, ControlOfCalls
<1>3. ASSUME NEW k \in Key, NEW c \in Content, PutPacked(k, c)
      PROVE  TypeOK' /\ Control'
  BY <1>3, PutPackedTyped, ControlOfPackedPuts
<1>4. ASSUME NEW k \in Key, NEW c \in Content, PutDirect(k, c)
      PROVE  TypeOK' /\ Control'
  BY <1>4, PutDirectTyped, ControlOfCalls
<1>5. ASSUME NEW s \in Key, NEW d \in Key, NEW move \in BOOLEAN,
             CopyPacked(s, d, move) \/ CopyObject(s, d, move)
      PROVE  TypeOK' /\ Control'
  BY <1>5, CopyTyped, ControlOfCopies
<1>6. CASE \E f \in BOOLEAN : FlushSeals(f)
  BY <1>6, FlushSealsTyped, ControlOfFlushing
<1>7. CASE FlushThrough \/ Unsealed \/ FlushAsks \/ CheckpointAsks
  BY <1>7, FlushStepTyped, ControlOfFlushing
<1>8. CASE Compact \/ Sweep \/ WriteIndex \/ Drop
  BY <1>8, CompactTyped, SweepTyped, SaveTyped, ControlOfSaving
<1>9. CASE UNCHANGED vars
  <2>1. UNCHANGED <<baseVars, spaceVars, flushVars, inflight, now, may, calls, faults>>
    BY <1>9 DEF vars
  <2>2. TypeOK'  BY <2>1, TypeParts, TypeUnmoved
  <2>3. Control'
    BY <2>1 DEF Control, Indexed, Free, baseVars, spaceVars, flushVars
  <2>. QED  BY <2>2, <2>3
<1>. QED  BY <1>1, <1>2, <1>3, <1>4, <1>5, <1>6, <1>7, <1>8, <1>9 DEF Next, Clients, Flushing

\* Every variable of a store keeps to its domain, and where its lock is held is
\* as Control says, whatever is called, lost, killed and restarted.
THEOREM Typed == Spec => [](TypeOK /\ Control)
BY InitTyped, StepTyped, PTL DEF Spec

LEMMA ControlAnswers == TypeOK /\ Control => NothingHeldBack
<1>. SUFFICES ASSUME TypeOK, Control, ~Pending, NEW k \in Key
              PROVE  Disk(k) = View(k)
  BY DEF NothingHeldBack
<1>1. CASE mode = "unread"   BY <1>1 DEF View, Indexed
<1>2. CASE mode = "through"  BY <1>2 DEF Control, View, Disk, Indexed
<1>3. CASE Indexed
  <2>1. open.files = Nothing /\ ~dirty  BY <1>3 DEF Pending, TypeOK
  <2>2. saved # None /\ saved.entry = idx.entry  BY <1>3, <2>1 DEF Control
  <2>3. open.files[k] = None  BY <2>1 DEF Nothing
  <2>. QED  BY <1>3, <2>2, <2>3 DEF View, Disk, Indexed
<1>. QED  BY <1>1, <1>2, <1>3 DEF TypeOK, Indexed

\* Storage reads as the store does whenever nothing is held back and no flush is
\* under way: the checkpointer may then note files without a save. It holds
\* with the mishaps and with blank contents too.
THEOREM StorageIsCurrent == Spec => []NothingHeldBack
BY Typed, ControlAnswers, PTL

(***************************************************************************)
(* What is on an index has been uploaded and stays.                        *)
(***************************************************************************)
\* What index x says is packed is among the packs.
Stored(x, packs) == \A k \in Key : LET e == x.entry[k] IN
                       e \notin {None, Direct} => e[1] \in x.packs /\ e[2] \in packs[e[1]]

\* Pack ids are handed out once: the one being filled is on no index.
Packs ==
    /\ Stored(idx, pack) /\ idx.packs \subseteq 1..ids
    /\ saved # None => Stored(saved, pack) /\ saved.packs \subseteq 1..ids
    /\ open.id \notin idx.packs
    /\ saved # None => open.id \notin saved.packs
    /\ \A k \in Key : open.files[k] # None => open.files[k] \in open.holds
    /\ dead \cap idx.packs = {}

LEMMA StoredKept ==
    ASSUME NEW x \in Index, NEW q, NEW r, Stored(x, q), \A p \in x.packs : r[p] = q[p]
    PROVE  Stored(x, r)
BY DEF Stored

LEMMA StoredEdit ==
    ASSUME NEW x, NEW y, NEW q, Stored(x, q), x.packs \subseteq y.packs,
           \A k \in Key : y.entry[k] \in {None, Direct} \/ \E s \in Key : y.entry[k] = x.entry[s]
    PROVE  Stored(y, q)
BY DEF Stored

LEMMA BlankStored == \A q : Stored(NoIndex, q) /\ NoIndex.packs = {}
BY DEF Stored, NoIndex, Nothing

LEMMA Either == \A a, b, c, m : c = (IF m THEN a ELSE b) => c = a \/ c = b
OBVIOUS

\* An edit of the index and of the pack being filled moves what is there.
LEMMA PacksOfEdits ==
    ASSUME TypeOK, Control, Packs, TypeOK',
           UNCHANGED <<pack, saved, ids, dead>>,
           idx'.packs = idx.packs, open'.id = open.id, open'.holds = open.holds,
           \A k \in Key : idx'.entry[k] \in {None, Direct} \/ \E s \in Key : idx'.entry[k] = idx.entry[s],
           \A k \in Key : open'.files[k] = None \/ \E s \in Key : open'.files[k] = open.files[s]
    PROVE  Packs'
<1>1. Stored(idx', pack)  BY StoredEdit DEF Packs
<1>. QED  BY <1>1 DEF Packs

LEMMA DropsAreEdits ==
    ASSUME NEW k \in Key, open \in Spool
    PROVE  /\ Dropped(k).id = open.id /\ Dropped(k).holds = open.holds
           /\ \A x \in Key : Dropped(k).files[x] = None \/ Dropped(k).files[x] = open.files[x]
BY DEF Dropped, Spool

LEMMA EntryEdits ==
    ASSUME idx \in Index, NEW k \in Key, NEW s \in Key, NEW e \in {None, Direct}
    PROVE  /\ [idx EXCEPT !.entry[k] = e].packs = idx.packs
           /\ \A x \in Key : [idx EXCEPT !.entry[k] = e].entry[x] \in {None, Direct, idx.entry[x]}
           /\ [idx EXCEPT !.entry[k] = Direct, !.entry[s] = None].packs = idx.packs
           /\ \A x \in Key : [idx EXCEPT !.entry[k] = Direct, !.entry[s] = None].entry[x]
                               \in {None, Direct, idx.entry[x]}
           /\ [idx EXCEPT !.entry[k] = Direct, !.entry[s] = @].packs = idx.packs
           /\ \A x \in Key : [idx EXCEPT !.entry[k] = Direct, !.entry[s] = @].entry[x]
                               \in {None, Direct, idx.entry[x]}
BY DEF Index

LEMMA PacksOfCalls ==
    ASSUME TypeOK, Control, Packs, TypeOK',
           \/ \E k \in Key : PutDirectEnds(k) \/ DeleteSource(k) \/ CopyEnds(k) \/ Delete(k)
                             \/ DeleteEnds(k) \/ \E c \in Content : PutDirect(k, c)
           \/ \E s, d \in Key, move \in BOOLEAN : CopyPacked(s, d, move) \/ CopyObject(s, d, move)
    PROVE  Packs'
<1>0. open \in Spool /\ idx \in Index  BY DEF TypeOK
<1>1. CASE UNCHANGED <<pack, saved, ids, spaceVars, flushVars>>
  BY <1>1 DEF Packs, spaceVars, flushVars
<1>2. ASSUME NEW k \in Key, PutDirectEnds(k) PROVE Packs'
  <2>1. /\ UNCHANGED <<pack, saved, ids, dead>> /\ open' = Dropped(k)
        /\ idx' = [idx EXCEPT !.entry[k] = Direct]
    BY <1>2 DEF PutDirectEnds, editRest, baseVars, flushVars
  <2>2. /\ idx'.packs = idx.packs
        /\ \A x \in Key : idx'.entry[x] \in {None, Direct, idx.entry[x]}
    BY Zenon, <1>0, <2>1, EntryEdits
  <2>. QED  BY <1>0, <2>1, <2>2, DropsAreEdits, PacksOfEdits
<1>3. ASSUME NEW k \in Key, Delete(k), mode # "through" PROVE Packs'
  <2>1. /\ UNCHANGED <<pack, saved, ids, dead>> /\ open' = Dropped(k)
        /\ idx' = [idx EXCEPT !.entry[k] = None]
    BY <1>3 DEF Delete, editRest, baseVars, flushVars
  <2>2. /\ idx'.packs = idx.packs
        /\ \A x \in Key : idx'.entry[x] \in {None, Direct, idx.entry[x]}
    BY Zenon, <1>0, <2>1, EntryEdits
  <2>. QED  BY <1>0, <2>1, <2>2, DropsAreEdits, PacksOfEdits
<1>4. ASSUME NEW k \in Key, CopyEnds(k), mode # "through" PROVE Packs'
  <2>1. inflight[k].from \in Key
    BY <1>4 DEF CopyEnds, TypeOK, Request
  <2>2. /\ UNCHANGED <<pack, saved, ids, dead>> /\ open' = Dropped(k)
        /\ idx' = [idx EXCEPT !.entry[k] = Direct,
                              !.entry[inflight[k].from] =
                                 IF inflight[k].op = "moved" THEN None ELSE @]
    BY <1>4 DEF CopyEnds, editRest, baseVars, flushVars
  <2>3. \/ idx' = [idx EXCEPT !.entry[k] = Direct, !.entry[inflight[k].from] = None]
        \/ idx' = [idx EXCEPT !.entry[k] = Direct, !.entry[inflight[k].from] = @]
    BY <2>2
  <2>4. /\ idx'.packs = idx.packs
        /\ \A x \in Key : idx'.entry[x] \in {None, Direct, idx.entry[x]}
    <3>1. /\ [idx EXCEPT !.entry[k] = Direct, !.entry[inflight[k].from] = None].packs = idx.packs
          /\ \A x \in Key :
                [idx EXCEPT !.entry[k] = Direct, !.entry[inflight[k].from] = None].entry[x]
                   \in {None, Direct, idx.entry[x]}
      BY <1>0, <2>1, EntryEdits
    <3>2. /\ [idx EXCEPT !.entry[k] = Direct, !.entry[inflight[k].from] = @].packs = idx.packs
          /\ \A x \in Key :
                [idx EXCEPT !.entry[k] = Direct, !.entry[inflight[k].from] = @].entry[x]
                   \in {None, Direct, idx.entry[x]}
      BY <1>0, <2>1, EntryEdits
    <3>. QED  BY Zenon, <2>3, <3>1, <3>2
  <2>. QED  BY <1>0, <2>2, <2>4, DropsAreEdits, PacksOfEdits
<1>5. ASSUME NEW s \in Key, NEW d \in Key, NEW move \in BOOLEAN, CopyPacked(s, d, move)
      PROVE  Packs'
  <2>1. UNCHANGED <<pack, saved, ids, dead>>
    BY <1>5 DEF CopyPacked, editRest, baseVars, flushVars
  <2>2. \/ idx' = idx
        \/ idx' = [idx EXCEPT !.entry[s] = None]
        \/ idx' = [idx EXCEPT !.entry = Carried(@, s, d, move)]
    <3>1. \/ idx' = IF move THEN [idx EXCEPT !.entry[s] = None] ELSE idx
          \/ idx' = [idx EXCEPT !.entry = Carried(@, s, d, move)]
      BY Zenon, <1>5, CopyPackedCases
    <3>. QED  BY Zenon, <3>1, Either
  <2>3. open' = Dropped(d) \/ open' = [open EXCEPT !.files = Carried(@, s, d, move)]
    BY Zenon, <1>5, CopyPackedCases
  <2>4. /\ idx'.packs = idx.packs
        /\ \A x \in Key : idx'.entry[x] \in {None, Direct, idx.entry[s], idx.entry[x]}
    <3>1. /\ [idx EXCEPT !.entry[s] = None].packs = idx.packs
          /\ \A x \in Key : [idx EXCEPT !.entry[s] = None].entry[x]
                              \in {None, Direct, idx.entry[s], idx.entry[x]}
      BY <1>0 DEF Index
    <3>2. /\ [idx EXCEPT !.entry = Carried(@, s, d, move)].packs = idx.packs
          /\ \A x \in Key : [idx EXCEPT !.entry = Carried(@, s, d, move)].entry[x]
                              \in {None, Direct, idx.entry[s], idx.entry[x]}
      BY <1>0 DEF Index, Carried
    <3>3. \A x \in Key : idx.entry[x] \in {None, Direct, idx.entry[s], idx.entry[x]}
      OBVIOUS
    <3>. QED  BY Zenon, <2>2, <3>1, <3>2, <3>3
  <2>5. /\ open'.id = open.id /\ open'.holds = open.holds
        /\ \A x \in Key : open'.files[x] \in {None, open.files[s], open.files[x]}
    <3>1. /\ Dropped(d).id = open.id /\ Dropped(d).holds = open.holds
          /\ \A x \in Key : Dropped(d).files[x] \in {None, open.files[s], open.files[x]}
      BY <1>0 DEF Spool, Dropped
    <3>2. /\ [open EXCEPT !.files = Carried(@, s, d, move)].id = open.id
          /\ [open EXCEPT !.files = Carried(@, s, d, move)].holds = open.holds
          /\ \A x \in Key : [open EXCEPT !.files = Carried(@, s, d, move)].files[x]
                              \in {None, open.files[s], open.files[x]}
      BY <1>0 DEF Spool, Carried
    <3>. QED  BY Zenon, <2>3, <3>1, <3>2
  <2>. QED  BY <2>1, <2>4, <2>5, PacksOfEdits
<1>. QED  BY <1>1, <1>2, <1>3, <1>4, <1>5
          DEF DeleteSource, DeleteEnds, PutDirect, CopyObject, CopyEnds, Delete, editRest, baseVars,
              spaceVars, flushVars

\* A pack that is sent has an id no index knows.
LEMMA PacksOfSeal ==
    ASSUME TypeOK, Control, Packs, TypeOK', NEW o \in Spool, o.id # 0, SealSent(o) \/ SealFails(o),
           o.id \notin idx.packs, saved # None => o.id \notin saved.packs,
           \A k \in Key : o.files[k] # None => o.files[k] \in o.holds,
           o.id \in 1..ids', ids \in Nat, ids' \in Nat, ids <= ids', UNCHANGED dead,
           Free
    PROVE  Packs'
<1>1. o.id \in PackId /\ o.holds \subseteq Content  BY DEF Spool, PackId
<1>2. pack \in [PackId -> SUBSET Content] /\ idx \in Index /\ saved \in Index \cup {None}
  BY DEF TypeOK
<1>3. open' = NoSpool /\ saved' = saved /\ dead' = {}
  BY DEF SealSent, SealFails, Upload, TypeOK
<1>4. \A p \in PackId : p # o.id => pack'[p] = pack[p]
  BY <1>1, <1>2 DEF SealSent, SealFails, Upload
<1>5. /\ \A p \in idx.packs : pack'[p] = pack[p]
      /\ saved # None => \A p \in saved.packs : pack'[p] = pack[p]
  BY <1>2, <1>4 DEF Index
<1>6. Stored(idx, pack') /\ (saved # None => Stored(saved, pack'))
  BY <1>2, <1>5, StoredKept DEF Packs
<1>7. 0 \notin PackId  BY BoundAssumption DEF PackId
<1>8. \A x \in Index : 0 \notin x.packs  BY <1>7 DEF Index
<1>9. idx.packs \subseteq 1..ids' /\ (saved # None => saved.packs \subseteq 1..ids')
  BY DEF Packs
<1>10. CASE SealFails(o)
  <2>1. idx' = idx  BY <1>10 DEF SealFails
  <2>. QED  BY <1>2, <1>3, <1>6, <1>8, <1>9, <2>1 DEF Packs, NoSpool, Nothing
<1>11. CASE SealSent(o)
  <2>1. /\ idx'.packs = idx.packs \cup {o.id}
        /\ \A k \in Key : idx'.entry[k] = IF o.files[k] # None THEN <<o.id, o.files[k]>>
                                          ELSE idx.entry[k]
    BY <1>2, <1>11 DEF SealSent, Index
  <2>2. pack'[o.id] = o.holds  BY <1>1, <1>2, <1>11 DEF SealSent, Upload
  <2>3. Stored(idx', pack')
    <3>1. \A k \in Key : o.files[k] # None =>
             idx'.entry[k][1] \in idx'.packs /\ idx'.entry[k][2] \in pack'[idx'.entry[k][1]]
      <4>1. \A k \in Key : o.files[k] # None => idx'.entry[k] = <<o.id, o.files[k]>>
        BY <2>1
      <4>. QED  BY <2>1, <2>2, <4>1
    <3>2. \A k \in Key : o.files[k] = None => idx'.entry[k] = idx.entry[k]
      BY <2>1
    <3>. QED  BY <1>6, <2>1, <3>1, <3>2 DEF Stored
  <2>4. idx'.packs \subseteq 1..ids'  BY <1>9, <2>1
  <2>5. idx' \in Index  BY DEF TypeOK
  <2>. QED  BY <1>2, <1>3, <1>6, <1>8, <1>9, <2>3, <2>4, <2>5 DEF Packs, NoSpool, Nothing
<1>. QED  BY <1>10, <1>11

LEMMA PacksOfPackedPuts ==
    ASSUME TypeOK, Control, Packs, TypeOK', NEW k \in Key, NEW c \in Content, PutPacked(k, c)
    PROVE  Packs'
<1>. DEFINE filled == Filled(k, c)
<1>1. /\ Free /\ UNCHANGED flushVars
      /\ ids' = IF open.id = 0 THEN ids + 1 ELSE ids
      /\ open.id = 0 => ids < MaxPacks
  BY PutPackedCases
<1>2. ids \in 0..MaxPacks /\ open \in Spool /\ ids' \in 0..MaxPacks /\ saved \in Index \cup {None} BY DEF TypeOK
<1>3. ids \in Nat /\ ids' \in Nat /\ ids <= ids' /\ ids' \in 1..ids'
  <2>1. open.id # 0 => ids # 0  BY <1>2 DEF Control
  <2>. QED  BY <1>1, <1>2, <2>1, BoundAssumption
<1>4. filled \in Spool /\ filled.id = ids' /\ filled.id # 0
  BY FilledTyped DEF Filled
<1>5. /\ ids' \notin idx.packs
      /\ saved # None => ids' \notin saved.packs
  <2>1. CASE open.id = 0
    <3>1. ids' = ids + 1  BY <1>1, <2>1
    <3>2. ids' \notin 1..ids  BY <1>3, <3>1
    <3>. QED  BY <3>2 DEF Packs
  <2>2. CASE open.id # 0
    <3>1. ids' = open.id  BY <1>1, <2>2 DEF Control
    <3>. QED  BY <3>1 DEF Packs
  <2>. QED  BY <2>1, <2>2
<1>6. \A x \in Key : filled.files[x] # None => filled.files[x] \in filled.holds
  BY <1>2 DEF Filled, Packs, Spool
<1>7. CASE SealSent(filled) \/ SealFails(filled)
  <2>1. dead' = dead  BY <1>1 DEF flushVars
  <2>. QED  BY <1>1, <1>3, <1>4, <1>5, <1>6, <1>7, <2>1, PacksOfSeal
<1>8. CASE open' = filled /\ UNCHANGED <<object, pack, old, saved, mode, idx, dirty, stale, failed>>
  <2>1. Stored(idx', pack') /\ (saved' # None => Stored(saved', pack'))
    BY <1>8 DEF Packs
  <2>2. idx'.packs \subseteq 1..ids' /\ (saved' # None => saved'.packs \subseteq 1..ids')
    BY <1>3, <1>8 DEF Packs
  <2>. QED  BY <1>1, <1>4, <1>5, <1>6, <1>8, <2>1, <2>2 DEF Packs, flushVars
<1>. QED  BY <1>7, <1>8, PutPackedCases

LEMMA PacksOfFlushing ==
    ASSUME TypeOK, Control, Packs, TypeOK',
           \/ \E f \in BOOLEAN : FlushSeals(f)
           \/ FlushThrough \/ Unsealed \/ FlushAsks \/ CheckpointAsks
    PROVE  Packs'
<1>0. open \in Spool /\ idx \in Index /\ ids \in 0..MaxPacks /\ ids \in Nat /\ saved \in Index \cup {None}
  BY BoundAssumption DEF TypeOK
<1>a. \A x \in Index : 0 \notin x.packs
  BY BoundAssumption DEF Index, PackId
<1>1. ASSUME NEW f \in BOOLEAN, FlushSeals(f) PROVE Packs'
  <2>1. Free /\ UNCHANGED <<ids, dead>>  BY <1>1 DEF FlushSeals
  <2>2. CASE open' = NoSpool /\ UNCHANGED <<object, pack, old, saved, mode, idx, dirty, stale, failed>>
    <3>1. open'.id = 0 /\ \A k \in Key : open'.files[k] = None  BY <2>2 DEF NoSpool, Nothing
    <3>. QED  BY <1>0, <1>a, <2>1, <2>2, <3>1 DEF Packs
  <2>3. CASE open.files # Nothing /\ (SealSent(open) \/ SealFails(open))
    <3>1. open.id # 0 /\ open.id = ids  BY <2>3 DEF Control
    <3>2. open.id \in 1..ids'  BY <1>0, <2>1, <3>1
    <3>3. /\ open.id \notin idx.packs /\ (saved # None => open.id \notin saved.packs)
          /\ \A k \in Key : open.files[k] # None => open.files[k] \in open.holds
      BY DEF Packs
    <3>. QED  BY <1>0, <2>1, <2>3, <3>1, <3>2, <3>3, PacksOfSeal
  <2>. QED  BY <1>1, <2>2, <2>3 DEF FlushSeals
<1>2. CASE FlushThrough \/ Unsealed \/ FlushAsks \/ CheckpointAsks
  <2>1. UNCHANGED <<pack, saved, ids, open>> /\ dead' \in {dead, {}}
    BY <1>2 DEF FlushThrough, Unsealed, FlushAsks, CheckpointAsks, Returns, baseVars, spaceVars,
                flushVars
  <2>2. idx' = idx \/ idx' = NoIndex
    BY <1>2 DEF FlushThrough, Unsealed, FlushAsks, CheckpointAsks, Unload, baseVars, spaceVars
  <2>3. Stored(idx', pack) /\ idx'.packs \subseteq idx.packs
    BY <2>2, BlankStored DEF Packs
  <2>. QED  BY <2>1, <2>3 DEF Packs
<1>. QED  BY <1>1, <1>2

\* Rewriting packs, and dropping those without live files. With no blank
\* contents a pack that weighs nothing has no files.
LEMMA PacksOfTidying ==
    ASSUME Mishaps = {}, Blank = {}, TypeOK, Control, Packs, TypeOK', Compact \/ Sweep
    PROVE  Packs'
<1>0. /\ idx \in Index /\ idx.packs \subseteq PackId /\ pack \in [PackId -> SUBSET Content]
      /\ saved \in Index \cup {None} /\ (saved # None => saved.packs \subseteq PackId)
      /\ ids \in 0..MaxPacks /\ ids \in Nat
  BY BoundAssumption DEF TypeOK, Index
<1>1. ~Free /\ open = NoSpool /\ open' = NoSpool /\ UNCHANGED saved
  BY DEF Compact, Sweep, Free, Control
<1>2. open'.id \notin PackId /\ \A k \in Key : open'.files[k] = None
  BY <1>1, BoundAssumption DEF NoSpool, Nothing, PackId
<1>3. CASE Compact
  <2>1. dead = {} /\ dead' = {}  BY <1>3, CompactCases DEF Compact, Control, Returns
  <2>2. CASE UNCHANGED <<pack, ids, idx, dirty>>
    BY <1>0, <1>1, <1>2, <2>1, <2>2 DEF Packs
  <2>3. CASE /\ ids < MaxPacks /\ ids' = ids + 1
             /\ \E victims \in SUBSET Sparse \ {{}} :
                   \/ /\ pack' = [pack EXCEPT ![ids'] = UNION {Live(p) : p \in victims}]
                      /\ idx' = Rewritten(victims, ids') /\ dirty' = TRUE
                   \/ /\ pack' \in {pack, [pack EXCEPT ![ids'] = UNION {Live(p) : p \in victims}]}
                      /\ UNCHANGED <<idx, dirty>>
    <3>1. PICK victims \in SUBSET Sparse :
             \/ /\ pack' = [pack EXCEPT ![ids'] = UNION {Live(p) : p \in victims}]
                /\ idx' = Rewritten(victims, ids')
             \/ /\ pack' \in {pack, [pack EXCEPT ![ids'] = UNION {Live(p) : p \in victims}]}
                /\ idx' = idx
      BY <2>3
    <3>2. ids' \in PackId /\ ids' \notin 1..ids /\ 1..ids \subseteq 1..ids' /\ ids' \in 1..ids'
      BY <1>0, <2>3, BoundAssumption DEF PackId
    <3>3. \A p \in 1..ids : pack'[p] = pack[p]
      <4>1. \A p \in 1..ids : p \in PackId /\ p # ids'
        BY <1>0, <3>2, BoundAssumption DEF PackId
      <4>. QED  BY <1>0, <3>1, <4>1
    <3>4. Stored(idx, pack') /\ (saved # None => Stored(saved, pack'))
      BY <1>0, <3>3, StoredKept DEF Packs
    <3>5. idx.packs \subseteq 1..ids' /\ (saved # None => saved.packs \subseteq 1..ids')
      BY <3>2 DEF Packs
    <3>6. CASE idx' = idx
      BY <1>0, <1>1, <1>2, <2>1, <3>4, <3>5, <3>6 DEF Packs
    <3>7. CASE /\ pack' = [pack EXCEPT ![ids'] = UNION {Live(p) : p \in victims}]
               /\ idx' = Rewritten(victims, ids')
      <4>1. /\ idx'.packs = idx.packs \cup {ids'}
            /\ \A k \in Key : idx'.entry[k] = IF idx.entry[k] # None /\ idx.entry[k][1] \in victims
                                              THEN <<ids', idx.entry[k][2]>> ELSE idx.entry[k]
        BY <1>0, <3>7 DEF Rewritten, Index
      <4>2. pack'[ids'] = UNION {Live(p) : p \in victims}  BY <1>0, <3>2, <3>7
      <4>3. \A k \in Key : idx.entry[k] # None /\ idx.entry[k][1] \in victims
                => idx.entry[k] = <<idx.entry[k][1], idx.entry[k][2]>> /\ idx.entry[k][2] \in Content
        <5>1. \A p \in victims : p # 0  BY <1>0, BoundAssumption DEF Sparse, PackId
        <5>. QED  BY <1>0, <5>1 DEF Index, Entry, Direct
      <4>4. \A k \in Key : idx.entry[k] # None /\ idx.entry[k][1] \in victims
                => idx.entry[k][2] \in pack'[ids']
        BY <4>2, <4>3 DEF Live
      <4>5. Stored(idx', pack')
        <5>1. \A k \in Key : idx.entry[k] # None /\ idx.entry[k][1] \in victims =>
                 idx'.entry[k][1] \in idx'.packs /\ idx'.entry[k][2] \in pack'[idx'.entry[k][1]]
          <6>1. \A k \in Key : idx.entry[k] # None /\ idx.entry[k][1] \in victims =>
                   idx'.entry[k] = <<ids', idx.entry[k][2]>>
            BY <4>1
          <6>. QED  BY <4>1, <4>4, <6>1
        <5>2. \A k \in Key : ~(idx.entry[k] # None /\ idx.entry[k][1] \in victims)
                 => idx'.entry[k] = idx.entry[k]
          BY <4>1
        <5>. QED  BY <3>4, <4>1, <5>1, <5>2 DEF Stored
      <4>6. idx'.packs \subseteq 1..ids' /\ idx'.packs \subseteq PackId
        BY <1>0, <3>2, <3>5, <4>1
      <4>. QED  BY <1>0, <1>1, <1>2, <2>1, <3>4, <3>5, <4>5, <4>6 DEF Packs
    <3>. QED  BY <3>1, <3>6, <3>7
  <2>. QED  BY <1>3, <2>2, <2>3, CompactCases
<1>4. CASE Sweep
  <2>1. /\ dead' = Empty /\ ids' = ids
        /\ \/ Due /\ \E gone \in SUBSET Orphans :
                        pack' = [p \in PackId |-> IF p \in gone THEN {} ELSE pack[p]]
           \/ UNCHANGED pack
    BY <1>4 DEF Sweep
  <2>2. idx'.entry = idx.entry /\ idx'.packs = idx.packs \ Empty
    BY <1>0, <1>4 DEF Sweep, Index
  <2>3. \A p \in Empty, k \in Key, c \in Content : idx.entry[k] # <<p, c>>
    BY DEF Empty, Bytes, Live
  <2>4. Stored(idx', pack)
    <3>1. \A k \in Key : idx.entry[k] \notin {None, Direct}
             => idx.entry[k] = <<idx.entry[k][1], idx.entry[k][2]>> /\ idx.entry[k][2] \in Content
      BY <1>0 DEF Index, Entry
    <3>. QED  BY <2>2, <2>3, <3>1 DEF Packs, Stored
  <2>5. /\ \A p \in idx'.packs : pack'[p] = pack[p]
        /\ saved # None => \A p \in saved.packs : pack'[p] = pack[p]
    <3>1. CASE pack' = pack  BY <3>1
    <3>2. CASE Due /\ \E gone \in SUBSET Orphans :
                        pack' = [p \in PackId |-> IF p \in gone THEN {} ELSE pack[p]]
      <4>1. Orphans \cap InUse = {}  BY <3>2 DEF Due
      <4>2. saved # None => saved.packs \cap Orphans = {}  BY <4>1 DEF InUse
      <4>3. idx'.packs \cap Orphans = {}  BY <2>2 DEF Orphans
      <4>. QED  BY <1>0, <2>2, <3>2, <4>2, <4>3
    <3>. QED  BY <2>1, <3>1, <3>2
  <2>6. idx' \in Index  BY DEF TypeOK
  <2>7. Stored(idx', pack') /\ (saved # None => Stored(saved, pack'))
    BY <1>0, <2>4, <2>5, <2>6, StoredKept DEF Packs
  <2>. QED  BY <1>0, <1>1, <1>2, <2>1, <2>2, <2>7 DEF Packs
<1>. QED  BY <1>3, <1>4

LEMMA PacksOfSaving ==
    ASSUME TypeOK, Control, Packs, TypeOK', WriteIndex \/ Drop
    PROVE  Packs'
<1>0. /\ idx \in Index /\ idx.packs \subseteq PackId /\ pack \in [PackId -> SUBSET Content]
      /\ saved \in Index \cup {None}
  BY DEF TypeOK, Index
<1>1. ~Free /\ open = NoSpool /\ open.id \notin PackId
  <2>1. ~Free /\ open = NoSpool  BY DEF WriteIndex, Drop, Free, Control
  <2>. QED  BY <2>1, BoundAssumption DEF NoSpool, PackId
<1>2. CASE WriteIndex
  <2>1. UNCHANGED <<pack, ids, idx, open>> /\ saved' \in {saved, idx} /\ dead' \in {dead, {}}
    BY <1>2 DEF WriteIndex, Returns
  <2>. QED  BY <1>0, <1>1, <2>1 DEF Packs
<1>3. CASE Drop
  <2>1. saved = idx /\ UNCHANGED <<ids, saved, open>> /\ dead' = {}
    BY <1>3 DEF Drop, Returns, Control
  <2>2. idx' = idx \/ idx' = NoIndex  BY <1>3 DEF Drop, Unload
  <2>3. \E packs \in SUBSET dead : pack' = [p \in PackId |-> IF p \in packs THEN {} ELSE pack[p]]
    BY <1>3 DEF Drop
  <2>4. \A p \in idx.packs : pack'[p] = pack[p]
    BY <1>0, <2>3 DEF Packs
  <2>5. Stored(idx, pack')  BY <1>0, <2>4, StoredKept DEF Packs
  <2>6. Stored(idx', pack') /\ idx'.packs \subseteq idx.packs  BY <2>2, <2>5, BlankStored
  <2>. QED  BY <2>1, <2>5, <2>6 DEF Packs
<1>. QED  BY <1>2, <1>3

LEMMA PacksOfOpening ==
    ASSUME TypeOK, Control, Packs, TypeOK', Load \/ Stop \/ NextDay
    PROVE  Packs'
<1>0. /\ idx \in Index /\ saved \in Index \cup {None} /\ open \in Spool /\ \A x \in Index : 0 \notin x.packs
  BY BoundAssumption DEF TypeOK, Index, PackId
<1>1. CASE Load
  <2>1. UNCHANGED <<pack, saved, ids, open, dead>> /\ open = NoSpool
    BY <1>1 DEF Load, Control, baseVars, flushVars, Indexed
  <2>2. saved # None => idx' = saved  BY <1>1 DEF Load
  <2>3. saved = None => /\ idx'.packs = {}
                        /\ \A k \in Key : idx'.entry[k] \in {None, Direct}
    BY <1>1 DEF Load, NoIndex, Nothing
  <2>4. saved = None => Stored(idx', pack)  BY <2>3 DEF Stored
  <2>5. dead = {}
    <3>1. Free  BY <1>1 DEF Load, Control, Indexed
    <3>. QED  BY <3>1 DEF TypeOK
  <2>. QED  BY <1>0, <2>1, <2>2, <2>3, <2>4, <2>5 DEF Packs, NoSpool, Nothing
<1>2. CASE Stop
  <2>1. UNCHANGED <<pack, saved, ids>> /\ idx' = NoIndex /\ open' = NoSpool /\ dead' = {}
    BY <1>2 DEF Stop, Forgotten, baseVars
  <2>. QED  BY <1>0, <2>1, BlankStored DEF Packs, NoSpool, Nothing
<1>3. CASE NextDay
  <2>1. UNCHANGED <<pack, ids, idx, open, dead>> /\ open = NoSpool
    BY <1>3 DEF NextDay, Control, Indexed, spaceVars, flushVars
  <2>2. saved = None => saved' = None  BY <1>3 DEF NextDay
  <2>3. saved # None => saved'.entry = saved.entry /\ saved'.packs = saved.packs
    BY <1>0, <1>3 DEF NextDay, Index
  <2>4. saved # None => Stored(saved', pack)  BY <2>3 DEF Packs, Stored
  <2>. QED  BY <2>1, <2>2, <2>3, <2>4 DEF Packs
<1>. QED  BY <1>1, <1>2, <1>3

LEMMA InitStored == Init => Packs
<1>. SUFFICES ASSUME Init PROVE Packs  OBVIOUS
<1>1. PICK files \in [Key -> Value], packed \in SUBSET Key :
         /\ pack = [p \in PackId |-> IF p = 1 THEN {files[k] : k \in packed} ELSE {}]
         /\ None \notin pack[1]
         /\ old = {p \in PackId : pack[p] # {}} /\ ids = Cardinality(old)
         /\ saved = IF packed = {} THEN None
                    ELSE [NoIndex EXCEPT
                            !.packs = {1},
                            !.entry = [k \in Key |-> IF k \in packed THEN <<1, files[k]>>
                                                     ELSE IF files[k] # None THEN Direct
                                                     ELSE None]]
  BY Zenon DEF Init
<1>2. idx = NoIndex /\ open = NoSpool /\ dead = {}  BY DEF Init, Unloaded
<1>3. 1 \in PackId /\ pack[1] = {files[k] : k \in packed}  BY <1>1, InitPacked
<1>4. packed # {} => ids = 1
  <2>1. packed # {} => old = {1}  BY <1>3, InitPacked
  <2>. QED  BY <2>1, InitPacked, FS_Singleton
<1>5. saved # None => packed # {}  BY <1>1
<1>6. packed # {} => /\ saved.packs = {1}
                     /\ \A k \in Key : saved.entry[k] = IF k \in packed THEN <<1, files[k]>>
                                                        ELSE IF files[k] # None THEN Direct
                                                        ELSE None
  BY <1>1 DEF NoIndex
<1>7. packed # {} => Stored(saved, pack)
  <2>1. \A k \in packed : <<1, files[k]>>[1] = 1 /\ <<1, files[k]>>[2] = files[k]
    OBVIOUS
  <2>2. packed # {} => \A k \in Key : IF k \in packed THEN saved.entry[k] = <<1, files[k]>>
                                      ELSE saved.entry[k] \in {Direct, None}
    BY <1>6
  <2>. QED  BY <1>3, <1>6, <2>1, <2>2 DEF Stored
<1>8. packed # {} => saved.packs \subseteq 1..ids /\ 0 \notin saved.packs
  BY <1>4, <1>6
<1>. QED  BY <1>2, <1>5, <1>7, <1>8, BlankStored DEF Packs, NoSpool, NoIndex, Nothing

LEMMA StepStored ==
    ASSUME Mishaps = {}, Blank = {}
    PROVE  TypeOK /\ Control /\ Packs /\ TypeOK' /\ [Next]_vars => Packs'
<1>. SUFFICES ASSUME TypeOK, Control, Packs, TypeOK', [Next]_vars PROVE Packs'  OBVIOUS
<1>1. CASE UNCHANGED vars
  BY <1>1 DEF vars, Packs, baseVars, spaceVars, flushVars
<1>. QED  BY <1>1, PacksOfCalls, PacksOfPackedPuts, PacksOfFlushing, PacksOfTidying, PacksOfSaving,
             PacksOfOpening DEF Next, Clients, Flushing

LEMMA AlwaysStored ==
    ASSUME Mishaps = {}, Blank = {}
    PROVE  Spec => []Packs
<1>1. Init => Packs  BY InitStored
<1>2. TypeOK /\ Control /\ Packs /\ TypeOK' /\ [Next]_vars => Packs'  BY StepStored
<1>. QED  BY <1>1, <1>2, Typed, PTL DEF Spec

\* What the index in storage says is packed is there, after every call, flush,
\* sweep, loss and restart: provided the daily sweep does not come in the flush
\* that empties a pack and no file is empty, the two ways in which it fails.
THEOREM IndexPointsAtPacks ==
    ASSUME Mishaps = {}, Blank = {}
    PROVE  Spec => []IndexedIsStored
<1>1. Packs => IndexedIsStored  BY DEF Packs, Stored, IndexedIsStored
<1>. QED  BY <1>1, AlwaysStored, PTL

(***************************************************************************)
(* The store implements StoreContract.                                     *)
(***************************************************************************)
\* A call under way has done its base request, has its keys to itself, and
\* nothing has been promised that it may still break.
Awaited(d) ==
    LET r == inflight[d] IN
    /\ IF r.op \in {"put", "delete"} THEN r.from = d ELSE r.from # d
    /\ r.value \in now[d]
    /\ r.op \in {"move", "moved"} => None \in now[r.from]
    /\ r.op # "delete" => object[d] = r.value
    /\ r.op = "moved" => object[r.from] = None
    /\ r.op = "delete" => r.value = None
    /\ Indexed /\ r.op = "delete" => open.files[d] = None /\ idx.entry[d] = None
    /\ Indexed /\ r.op # "delete" =>
         d \notin stale /\ (open.files[d] = None \/ idx.entry[d] # Direct)
    /\ Indexed /\ r.op \notin {"put", "delete"} =>
         open.files[r.from] = None /\ idx.entry[r.from] = Direct

Apart(d, e) == inflight[d] # None /\ inflight[e] # None
                 => inflight[d].from # e /\ inflight[d].from # inflight[e].from

Underway ==
    /\ \A d \in Key : inflight[d] # None => Awaited(d)
    /\ \A d, e \in Key : d # e => Apart(d, e)
    /\ \A k \in stale : idx.entry[k] # Direct

\* What the store answers and what storage holds is what was asked for; under
\* the pack being filled lies something that was asked for too.
Under(k) == Found(idx.entry[k], k)
Heard(k) == /\ now[k] \subseteq may[k]
            /\ View(k) \in now[k] /\ Disk(k) \in may[k]
            /\ Indexed => Under(k) \in may[k]
History  == \A k \in Key : Heard(k)

Stands == TypeOK /\ Control /\ Packs /\ Underway /\ History

LEMMA ReadTypedNext ==
    ASSUME TypeOK', NEW k \in Key
    PROVE  View(k)' \in Value /\ Disk(k)' \in Value
<1>1. \A e \in Entry \cup {None} : (e = Direct => object'[k] \in Value) /\ None \in Value
                  /\ (e # Direct /\ e # None => e[2] \in Value)
  BY DEF TypeOK, Entry, Value
<1>2. saved' # None => saved'.entry[k] \in Entry \cup {None}
  BY DEF TypeOK, Index
<1>3. idx'.entry[k] \in Entry \cup {None} /\ open'.files[k] \in Value /\ object'[k] \in Value
  BY DEF TypeOK, Index, Spool
<1>4. Disk(k)' \in Value
  BY <1>1, <1>2, <1>3 DEF Disk, Found
<1>5. View(k)' \in Value
  BY <1>1, <1>3, <1>4 DEF TypeOK, View, Indexed, Found
<1>. QED  BY <1>4, <1>5

\* The steps of the contract that the actions of a store come down to.
ContractStep == [Contract!Next]_(Contract!vars)

LEMMA KeptNext ==
    ASSUME TypeOK', History'
    PROVE  Contract!Kept'
<1>1. \A k \in Key : View(k)' \in Value /\ Disk(k)' \in Value  BY ReadTypedNext
<1>. QED  BY <1>1 DEF Contract!Kept, Contract!Value, Value, History, Heard

LEMMA CallStep ==
    ASSUME TypeOK', History', \A k \in Key : may[k] \subseteq may'[k],
           UNCHANGED <<failed, owes, step>>
    PROVE  ContractStep
<1>1. Contract!Asks
  BY KeptNext DEF Contract!Asks, Contract!Value, Value, TypeOK, History, Heard
<1>2. Contract!Calls
  BY <1>1 DEF Contract!Calls, Free
<1>. QED  BY <1>2 DEF ContractStep, Contract!Next

LEMMA LoseStep ==
    ASSUME TypeOK', History', \A k \in Key : may[k] \subseteq may'[k],
           failed', step' = step \/ ~Free', \A k \in Key : Disk(k)' = Disk(k)
    PROVE  ContractStep
<1>1. Contract!Asks
  BY KeptNext DEF Contract!Asks, Contract!Value, Value, TypeOK, History, Heard
<1>2. Contract!Lose
  BY <1>1 DEF Contract!Lose, Free
<1>. QED  BY <1>2 DEF ContractStep, Contract!Next

\* With reads, history and what is lost as they are, it is what is answered that
\* tells the steps of a flush apart.
SameReads == \A k \in Key : View(k)' = View(k) /\ Disk(k)' = Disk(k)

LEMMA FlushStep ==
    ASSUME SameReads, UNCHANGED <<now, may>>
    PROVE  /\ UNCHANGED <<failed, owes, step>> => ContractStep
           /\ (failed \/ owes)' = (failed \/ owes) /\ ~Free' => ContractStep
           /\ TypeOK' /\ History' /\ ~Free /\ step' = "failed"
                /\ (failed \/ owes)' \in {(failed \/ owes), FALSE} => ContractStep
           /\ ~Free /\ step' = "ok" /\ ~failed /\ ~owes /\ ~failed' /\ ~owes'
                /\ (\A k \in Key : Disk(k) = View(k)) => ContractStep
<1>1. UNCHANGED <<failed, owes, step>> => ContractStep
  BY DEF SameReads, ContractStep, Contract!vars, Free
<1>2. (failed \/ owes)' = (failed \/ owes) /\ ~Free' => ContractStep
  BY DEF SameReads, ContractStep, Contract!Next, Contract!Begin
<1>3. TypeOK' /\ History' /\ ~Free /\ step' = "failed"
        /\ (failed \/ owes)' \in {(failed \/ owes), FALSE} => ContractStep
  BY KeptNext DEF SameReads, ContractStep, Contract!Next, Contract!Fail, Free
<1>4. ~Free /\ step' = "ok" /\ ~failed /\ ~owes /\ ~failed' /\ ~owes'
        /\ (\A k \in Key : Disk(k) = View(k)) => ContractStep
  BY DEF SameReads, ContractStep, Contract!Next, Contract!Succeed, Free
<1>. QED  BY <1>1, <1>2, <1>3, <1>4

\* A key reads as before when nothing it leads to has changed.
KeptPacks == /\ \A p \in idx.packs : pack'[p] = pack[p]
             /\ saved # None => \A p \in saved.packs : pack'[p] = pack[p]

LEMMA ReadsKept ==
    ASSUME Stands, KeptPacks, NEW k \in Key, object'[k] = object[k]
    PROVE  /\ saved' = saved => Disk(k)' = Disk(k)
           /\ idx'.entry[k] = idx.entry[k] => Under(k)' = Under(k)
           /\ saved' = saved /\ mode' = mode /\ open'.files[k] = open.files[k]
                /\ idx'.entry[k] = idx.entry[k] => View(k)' = View(k)
<1>1. saved # None /\ saved.entry[k] \notin {None, Direct}
        => pack'[saved.entry[k][1]] = pack[saved.entry[k][1]]
  BY DEF Stands, Packs, Stored, KeptPacks
<1>2. idx.entry[k] \notin {None, Direct} => pack'[idx.entry[k][1]] = pack[idx.entry[k][1]]
  BY DEF Stands, Packs, Stored, KeptPacks
<1>3. saved' = saved => Disk(k)' = Disk(k)
  BY <1>1 DEF Disk, Found
<1>4. idx'.entry[k] = idx.entry[k] => Under(k)' = Under(k)
  BY <1>2 DEF Under, Found
<1>5. saved' = saved /\ mode' = mode /\ open'.files[k] = open.files[k]
        /\ idx'.entry[k] = idx.entry[k] => View(k)' = View(k)
  BY <1>3, <1>4 DEF View, Under, Indexed
<1>. QED  BY <1>3, <1>4, <1>5

\* What an index and a pack being filled answer.
LEMMA IndexedReads ==
    ASSUME Stands, NEW k \in Key
    PROVE  /\ Indexed /\ open.files[k] # None => View(k) = open.files[k]
           /\ Indexed /\ open.files[k] = None => View(k) = Under(k)
           /\ idx.entry[k] = None => Under(k) = None
           /\ idx.entry[k] = Direct => Under(k) = object[k]
           /\ Indexed' /\ open'.files[k] # None => View(k)' = open'.files[k]
           /\ Indexed' /\ open'.files[k] = None => View(k)' = Under(k)'
           /\ idx'.entry[k] = None => Under(k)' = None
           /\ idx'.entry[k] = Direct => Under(k)' = object'[k]
           /\ mode = "through" => View(k) = object[k] /\ Disk(k) = object[k]
           /\ mode' = "through" /\ saved' = None => View(k)' = object'[k] /\ Disk(k)' = object'[k]
           /\ mode = "unread" => View(k) = Disk(k)
           /\ mode' = "unread" => View(k)' = Disk(k)'
<1>1. None # Direct
  <2>1. Direct \in Entry  BY DEF Entry
  <2>. QED  BY <2>1, NoneAssumption
<1>. QED  BY <1>1 DEF View, Under, Found, Indexed, Disk, Stands, Control

\* A call that is for other keys finds its own as it left them.
LEMMA AwaitedKept ==
    ASSUME Stands, TypeOK', NEW d \in Key, inflight[d] # None, inflight'[d] = inflight[d], mode' = mode,
           now[d] \subseteq now'[d], now[inflight[d].from] \subseteq now'[inflight[d].from],
           object'[d] = object[d], object'[inflight[d].from] = object[inflight[d].from],
           open'.files[d] \in {open.files[d], None},
           open'.files[inflight[d].from] = open.files[inflight[d].from],
           idx'.entry[d] = idx.entry[d],
           idx'.entry[inflight[d].from] = idx.entry[inflight[d].from],
           d \in stale' => d \in stale
    PROVE  Awaited(d)'
BY DEF Stands, Underway, Awaited, Indexed

\* What a call does to the history of its keys.
LEMMA AskEffect ==
    ASSUME NEW k \in Key, NEW v \in Value
    PROVE  /\ Asked(Ask(k, v)) => /\ may'[k] = may[k] \cup {v}
                                  /\ \A x \in Key \ {k} : may'[x] = may[x]
           /\ Settled(Ask(k, v)) => now'[k] = {v} /\ \A x \in Key \ {k} : now'[x] = now[x]
           /\ Unsure(Ask(k, v)) => /\ now'[k] = now[k] \cup {v}
                                   /\ \A x \in Key \ {k} : now'[x] = now[x]
BY DEF Asked, Settled, Unsure, Ask

LEMMA MoveEffect ==
    ASSUME NEW s \in Key, NEW d \in Key, s # d, NEW v \in Value, NEW move \in BOOLEAN
    PROVE  /\ Asked(AskMove(s, d, v, move))
                => /\ may'[d] = may[d] \cup {v}
                   /\ may'[s] = may[s] \cup (IF move THEN {None} ELSE {})
                   /\ \A x \in Key \ {s, d} : may'[x] = may[x]
           /\ Settled(AskMove(s, d, v, move))
                => /\ now'[d] = {v}
                   /\ now'[s] = IF move THEN {None} ELSE now[s]
                   /\ \A x \in Key \ {s, d} : now'[x] = now[x]
           /\ Unsure(AskMove(s, d, v, move))
                => /\ now'[d] = now[d] \cup {v}
                   /\ now'[s] = now[s] \cup (IF move THEN {None} ELSE {})
                   /\ \A x \in Key \ {s, d} : now'[x] = now[x]
BY DEF Asked, Settled, Unsure, AskMove

LEMMA UntouchedHeard ==
    ASSUME Stands, KeptPacks, NEW k \in Key, object'[k] = object[k], mode' = mode, saved' = saved,
           idx'.entry[k] = idx.entry[k], open'.files[k] = open.files[k],
           now'[k] = now[k], may'[k] = may[k]
    PROVE  Heard(k)' /\ Disk(k)' = Disk(k)
BY ReadsKept DEF Heard, Stands, History, Indexed

\* A call that is not busy with a key that others are.
LEMMA NotBusy ==
    ASSUME NEW k \in Key, ~Busy(k), NEW d \in Key, inflight[d] # None
    PROVE  d # k /\ inflight[d].from # k
BY DEF Busy

\* Calls under way besides the one for k that begins, goes on or ends.
LEMMA OthersUnderway ==
    ASSUME Stands, TypeOK', NEW k \in Key,
           \A d \in Key \ {k} : inflight'[d] = inflight[d] /\ (inflight[d] # None => Awaited(d)'),
           inflight'[k] # None => Awaited(k)',
           inflight'[k] # None => \A d \in Key \ {k} : inflight[d] # None =>
               /\ inflight[d].from \notin {k, inflight'[k].from} /\ inflight'[k].from # d,
           \A x \in stale' : idx'.entry[x] # Direct
    PROVE  Underway'
<1>1. \A d \in Key : inflight'[d] # None => Awaited(d)'  OBVIOUS
<1>2. \A d, e \in Key : d # e => Apart(d, e)'
  BY DEF Stands, Underway, Apart
<1>. QED  BY <1>1, <1>2 DEF Underway

\* A big file is written, and the index learns of it.
LEMMA PutDirectStep ==
    ASSUME Mishaps = {}, Stands, TypeOK', NEW k \in Key, NEW c \in Content, PutDirect(k, c)
    PROVE  Underway' /\ History' /\ ContractStep
<1>1. /\ ~Busy(k) /\ mode # "unread" /\ Grown(k)
      /\ UNCHANGED <<pack, saved, ids, mode, idx, dirty, open, stale, failed, step, full, owes, dead>>
      /\ Asked(Ask(k, c))
  BY DEF PutDirect, Call, spaceVars, flushVars
<1>2. object' = object \/ object' = [object EXCEPT ![k] = c]
  BY DEF PutDirect
<1>3. object \in [Key -> Value] /\ inflight \in [Key -> Request \cup {None}] /\ Control
  BY DEF Stands, TypeOK
<1>4. /\ \A x \in Key \ {k} : object'[x] = object[x]
      /\ object'[k] \in {object[k], c}
  BY <1>2, <1>3
<1>5. KeptPacks  BY <1>1 DEF KeptPacks
<1>6. \/ mode = "through" /\ object'[k] = c /\ UNCHANGED inflight /\ Settled(Ask(k, c))
      \/ mode # "through" /\ object'[k] = c /\ Begins(k, "put", k, c) /\ Unsure(Ask(k, c))
      \/ UNCHANGED inflight /\ Unsure(Ask(k, c))
  BY <1>3 DEF PutDirect
<1>a. Settled(Ask(k, c)) \/ Unsure(Ask(k, c))  BY <1>6
<1>b. c \in Value  BY DEF Value
<1>7. may'[k] = may[k] \cup {c} /\ \A x \in Key \ {k} : may'[x] = may[x]
  BY <1>1, <1>b, AskEffect
<1>8. \A x \in Key \ {k} : now'[x] = now[x]
  BY <1>a, <1>b, AskEffect
<1>9. \/ now'[k] = now[k] \cup {c}
      \/ now'[k] = {c} /\ mode = "through" /\ object'[k] = c
  BY <1>6, <1>b, AskEffect
<1>10. Heard(k)
  BY DEF Stands, History
<1>11. \A x \in Key \ {k} : Heard(x)'
  BY <1>1, <1>4, <1>5, <1>7, <1>8, UntouchedHeard
<1>12. Heard(k)'
  <2>1. Disk(k)' \in {Disk(k), c}
    BY <1>1, <1>4 DEF Disk, Found
  <2>2. Under(k)' \in {Under(k), c}
    BY <1>1, <1>4 DEF Under, Found
  <2>3. CASE mode = "through"
    <3>1. saved = None /\ saved' = None /\ mode' = "through"  BY <1>1, <1>3, <2>3 DEF Control
    <3>2. View(k)' = object'[k] /\ View(k) = object[k]  BY <2>3, <3>1, IndexedReads
    <3>. QED  BY <1>4, <1>7, <1>9, <1>10, <2>1, <2>3, <3>1, <3>2 DEF Heard, Indexed
  <2>4. CASE Indexed
    <3>1. View(k)' \in {View(k), c}  BY <1>1, <2>2, <2>4, IndexedReads DEF Indexed
    <3>. QED  BY <1>1, <1>7, <1>9, <1>10, <2>1, <2>2, <2>4, <3>1 DEF Heard, Indexed
  <2>. QED  BY <1>1, <2>3, <2>4 DEF Stands, TypeOK, Indexed
<1>13. History'  BY <1>11, <1>12 DEF History
<1>14. \A d \in Key : inflight[d] # None => d # k /\ inflight[d].from # k
  BY <1>1, NotBusy
<1>15. \A d \in Key : inflight[d] # None => inflight[d].from \in Key
  BY <1>3 DEF Request
<1>16. \A d \in Key \ {k} : inflight[d] # None /\ inflight'[d] = inflight[d] => Awaited(d)'
  BY <1>1, <1>4, <1>8, <1>14, <1>15, AwaitedKept
<1>17. \A x \in stale' : idx'.entry[x] # Direct
  BY <1>1 DEF Stands, Underway
<1>18. inflight[k] = None  BY <1>14
<1>19. CASE UNCHANGED inflight
  <2>1. Underway'
    BY <1>16, <1>17, <1>18, <1>19, OthersUnderway
  <2>. QED  BY <1>1, <1>7, <1>13, <2>1, CallStep
<1>20. CASE mode # "through" /\ object'[k] = c /\ Begins(k, "put", k, c) /\ now'[k] = now[k] \cup {c}
  <2>1. inflight'[k] = [op |-> "put", from |-> k, value |-> c] /\ inflight'[k] # None
    BY <1>3, <1>20, NoneAssumption DEF Begins, Request, Value
  <2>2. \A d \in Key \ {k} : inflight'[d] = inflight[d]
    BY <1>3, <1>20 DEF Begins
  <2>3. k \notin stale /\ (open.files[k] = None \/ idx.entry[k] # Direct)
    BY <1>1 DEF Grown
  <2>4. Awaited(k)'
    BY <1>1, <1>20, <2>1, <2>3 DEF Awaited, Indexed
  <2>5. Underway'
    BY <1>14, <1>16, <1>17, <2>1, <2>2, <2>4, OthersUnderway
  <2>. QED  BY <1>1, <1>7, <1>13, <2>5, CallStep
<1>. QED  BY <1>6, <1>b, <1>19, <1>20, AskEffect

LEMMA StandsTyped ==
    ASSUME Stands
    PROVE  /\ object \in [Key -> Value] /\ inflight \in [Key -> Request \cup {None}]
           /\ pack \in [PackId -> SUBSET Content]
           /\ idx \in Index /\ idx.entry \in [Key -> Entry \cup {None}]
           /\ open \in Spool /\ open.files \in [Key -> Value] /\ saved \in Index \cup {None}
           /\ now \in [Key -> SUBSET Value] /\ may \in [Key -> SUBSET Value]
           /\ mode \in {"unread", "through"} \/ Indexed
           /\ \A k \in Key : inflight[k] # None => /\ inflight[k].from \in Key
                                                   /\ inflight[k].value \in Value
                                                   /\ Awaited(k) /\ mode # "unread"
           /\ \A k \in Key : Heard(k)
<1>1. \A k \in Key : inflight[k] # None => inflight[k] \in Request
  BY DEF Stands, TypeOK
<1>2. \A k \in Key : inflight[k] # None => inflight[k].from \in Key /\ inflight[k].value \in Value
  BY <1>1 DEF Request
<1>3. \A k \in Key : inflight[k] # None => mode # "unread"
  BY DEF Stands, Control, Nothing
<1>. QED  BY <1>2, <1>3 DEF Stands, TypeOK, Index, Spool, Indexed, Underway, History

\* The edit of the index that ends the Put.
LEMMA PutDirectEndsStep ==
    ASSUME Stands, TypeOK', NEW k \in Key, PutDirectEnds(k)
    PROVE  Underway' /\ History' /\ ContractStep
<1>. DEFINE v == inflight[k].value
<1>0. inflight[k] # None /\ inflight[k].op = "put" /\ Free
  BY DEF PutDirectEnds
<1>1. UNCHANGED <<object, pack, saved, ids, mode, failed, step, owes, stale, may>>
  BY DEF PutDirectEnds, editRest, baseVars, flushVars
<1>2. Indexed
  BY <1>0, StandsTyped DEF Stands, Control
<1>3. /\ open'.files = [open.files EXCEPT ![k] = None]
      /\ idx'.packs = idx.packs /\ idx'.entry = [idx.entry EXCEPT ![k] = Direct]
  BY StandsTyped DEF PutDirectEnds, Dropped, Spool, Index
<1>4. v \in Value /\ Awaited(k) /\ Heard(k)  BY <1>0, StandsTyped
<1>5. now'[k] = {v} /\ \A x \in Key \ {k} : now'[x] = now[x]
  BY <1>4, AskEffect DEF PutDirectEnds
<1>6. KeptPacks  BY <1>1 DEF KeptPacks
<1>7. \A x \in Key \ {k} : /\ idx'.entry[x] = idx.entry[x] /\ open'.files[x] = open.files[x]
                           /\ object'[x] = object[x] /\ may'[x] = may[x]
  BY <1>1, <1>3, StandsTyped
<1>8. \A x \in Key \ {k} : Heard(x)'
  BY <1>1, <1>5, <1>6, <1>7, UntouchedHeard
<1>9. Heard(k)'
  <2>1. object'[k] = v /\ v \in now[k]  BY <1>0, <1>1, <1>4 DEF Awaited
  <2>2. idx'.entry[k] = Direct /\ open'.files[k] = None  BY <1>3, StandsTyped
  <2>3. View(k)' = v /\ Under(k)' = v
    BY <1>1, <1>2, <2>1, <2>2, IndexedReads DEF Indexed
  <2>4. Disk(k)' = Disk(k)
    BY <1>1 DEF Disk, Found
  <2>. QED  BY <1>1, <1>4, <1>5, <2>1, <2>3, <2>4 DEF Heard
<1>10. inflight'[k] = None /\ \A d \in Key \ {k} : inflight'[d] = inflight[d]
  BY StandsTyped DEF PutDirectEnds, Ends
<1>11. \A d \in Key \ {k} : inflight[d] # None => inflight[d].from # k
  BY <1>0 DEF Stands, Underway, Apart
<1>12. \A d \in Key \ {k} : inflight[d] # None => Awaited(d)'
  BY <1>1, <1>5, <1>7, <1>10, <1>11, AwaitedKept, StandsTyped
<1>13. \A x \in stale' : idx'.entry[x] # Direct
  <2>1. k \notin stale  BY <1>0, <1>2, <1>4 DEF Awaited
  <2>. QED  BY <1>1, <1>7, <2>1 DEF Stands, TypeOK, Underway
<1>14. Underway'  BY <1>10, <1>12, <1>13, OthersUnderway
<1>15. History'  BY <1>8, <1>9 DEF History
<1>. QED  BY <1>1, <1>14, <1>15, CallStep

\* A Move deletes the object it has copied.
LEMMA DeleteSourceStep ==
    ASSUME Stands, TypeOK', NEW k \in Key, DeleteSource(k)
    PROVE  Underway' /\ History' /\ ContractStep
<1>0. inflight[k] # None /\ inflight[k].op = "move"
  BY DEF DeleteSource
<1>1. UNCHANGED <<pack, saved, ids, mode, idx, open, stale, failed, step, owes, now, may>>
  BY DEF DeleteSource, spaceVars, flushVars
<1>s. PICK s \in Key : s = inflight[k].from
  BY <1>0, StandsTyped
<1>2. s = inflight[k].from /\ Awaited(k) /\ Heard(s) /\ mode # "unread" /\ inflight[k].value \in Value
  BY <1>0, <1>s, StandsTyped
<1>3. s # k /\ None \in now[s]  BY <1>0, <1>2 DEF Awaited
<1>4. /\ \A x \in Key \ {s} : object'[x] = object[x]
      /\ object'[s] \in {object[s], None}
  BY <1>s, StandsTyped DEF DeleteSource
<1>5. KeptPacks  BY <1>1 DEF KeptPacks
<1>6. \A x \in Key \ {s} : Heard(x)'
  BY <1>1, <1>4, <1>5, UntouchedHeard
<1>7. Heard(s)'
  <2>1. Disk(s)' \in {Disk(s), None}  BY <1>1, <1>4 DEF Disk, Found
  <2>2. Under(s)' \in {Under(s), None}  BY <1>1, <1>4 DEF Under, Found
  <2>3. View(s)' \in {View(s), None}
    BY <1>1, <1>2, <1>4, <2>2 DEF View, Under, Indexed, Stands, TypeOK
  <2>. QED  BY <1>1, <1>2, <1>3, <2>1, <2>2, <2>3 DEF Heard, Indexed
<1>8. History'  BY <1>6, <1>7 DEF History
<1>9. \A d \in Key \ {k} : inflight[d] # None =>
         d # s /\ inflight[d].from \notin {k, s}
  BY <1>0, <1>2 DEF Stands, Underway, Apart
<1>10. \A d \in Key \ {k} : inflight'[d] = inflight[d]
  BY StandsTyped DEF DeleteSource, Ends
<1>11. \A d \in Key \ {k} : inflight[d] # None => Awaited(d)'
  BY <1>1, <1>4, <1>9, <1>10, AwaitedKept, StandsTyped
<1>12. \A x \in stale' : idx'.entry[x] # Direct
  BY <1>1 DEF Stands, Underway
<1>13. \/ inflight'[k] = None
       \/ /\ object' = [object EXCEPT ![s] = None]
          /\ inflight'[k] = [inflight[k] EXCEPT !.op = "moved"]
  BY <1>2, StandsTyped DEF DeleteSource, Ends
<1>14. inflight'[k] # None => Awaited(k)' /\ inflight'[k].from = s
  <2>1. inflight[k] \in Request  BY <1>0, StandsTyped
  <2>2. ASSUME inflight'[k] # None
        PROVE  /\ inflight'[k].op = "moved" /\ inflight'[k].from = s
               /\ inflight'[k].value = inflight[k].value /\ object'[s] = None
    BY <1>2, <1>13, <2>1, <2>2, StandsTyped DEF Request
  <2>. QED  BY <1>0, <1>1, <1>2, <1>3, <1>4, <2>2 DEF Awaited, Indexed
<1>15. Underway'
  BY <1>2, <1>9, <1>10, <1>11, <1>12, <1>14, OthersUnderway DEF Stands, Underway
<1>. QED  BY <1>1, <1>8, <1>15, CallStep

\* The edit of the index that ends a Copy or a Move.
LEMMA CopyEndsStep ==
    ASSUME Stands, TypeOK', NEW k \in Key, CopyEnds(k)
    PROVE  Underway' /\ History' /\ ContractStep
<1>0. inflight[k] # None /\ inflight[k].op \in {"copied", "moved"} /\ Free
  BY DEF CopyEnds
<1>s. PICK s \in Key, v \in Value : s = inflight[k].from /\ v = inflight[k].value
  BY <1>0, StandsTyped
<1>m. PICK move \in BOOLEAN : move <=> inflight[k].op = "moved"
  OBVIOUS
<1>1. UNCHANGED <<object, pack, saved, ids, mode, failed, step, owes, stale, may>>
  BY DEF CopyEnds, editRest, baseVars, flushVars
<1>2. Awaited(k) /\ Heard(k) /\ Heard(s) /\ mode # "unread" /\ s # k
  BY <1>0, <1>s, StandsTyped DEF Awaited
<1>3. /\ v \in now[k] /\ object[k] = v
      /\ move => None \in now[s] /\ object[s] = None
      /\ Indexed => k \notin stale /\ open.files[s] = None /\ idx.entry[s] = Direct
  BY <1>0, <1>s, <1>m, <1>2 DEF Awaited
<1>4. mode # "through" =>
        /\ open'.files = [open.files EXCEPT ![k] = None]
        /\ idx'.packs = idx.packs
        /\ idx'.entry = [idx.entry EXCEPT ![k] = Direct, ![s] = IF move THEN None ELSE @]
  <2>1. mode # "through" =>
          /\ open' = Dropped(k)
          /\ idx' = [idx EXCEPT !.entry[k] = Direct,
                                !.entry[s] = IF inflight[k].op = "moved" THEN None ELSE @]
    BY <1>s DEF CopyEnds
  <2>. QED  BY <1>m, <2>1, StandsTyped DEF Dropped, Spool, Index
<1>5. mode = "through" => UNCHANGED <<open, idx>>
  BY DEF CopyEnds
<1>6. /\ now'[k] = {v} /\ now'[s] = (IF move THEN {None} ELSE now[s])
      /\ \A x \in Key \ {s, k} : now'[x] = now[x]
  <2>1. Settled(AskMove(s, k, v, move))
    <3>1. move = (inflight[k].op = "moved")  BY <1>m
    <3>. QED  BY <1>s, <3>1 DEF CopyEnds
  <2>. QED  BY <1>2, <2>1, MoveEffect
<1>7. KeptPacks  BY <1>1 DEF KeptPacks
<1>8. \A x \in Key \ {s, k} : /\ idx'.entry[x] = idx.entry[x] /\ open'.files[x] = open.files[x]
                              /\ object'[x] = object[x] /\ may'[x] = may[x]
  BY <1>1, <1>4, <1>5, StandsTyped
<1>9. \A x \in Key \ {s, k} : Heard(x)'
  BY <1>1, <1>6, <1>7, <1>8, UntouchedHeard
<1>10. \A x \in Key : Disk(x)' = Disk(x)
  BY <1>1 DEF Disk, Found
<1>11. Heard(k)' /\ Heard(s)'
  <2>1. CASE mode = "through"
    <3>1. saved' = None  BY <1>1, <2>1 DEF Stands, Control
    <3>2. View(k)' = v /\ View(s)' = object[s] /\ View(s) = object[s]
      BY <1>1, <1>3, <2>1, <3>1, IndexedReads
    <3>. QED  BY <1>1, <1>2, <1>3, <1>6, <1>10, <2>1, <3>2 DEF Heard, Indexed
  <2>2. CASE Indexed
    <3>0. mode # "through" /\ Indexed'  BY <1>1, <2>2 DEF Indexed
    <3>1. idx'.entry[k] = Direct /\ open'.files[k] = None /\ open'.files[s] = None
      BY <1>2, <1>3, <1>4, <2>2, <3>0, StandsTyped
    <3>2. idx'.entry[s] = IF move THEN None ELSE Direct
      BY <1>2, <1>3, <1>4, <2>2, <3>0, StandsTyped
    <3>3. View(k)' = v /\ Under(k)' = v
      BY <1>1, <1>3, <3>0, <3>1, IndexedReads
    <3>4. View(s)' = (IF move THEN None ELSE object[s]) /\ Under(s)' = View(s)'
      BY <1>1, <3>0, <3>1, <3>2, IndexedReads
    <3>5. View(s) = object[s]
      BY <1>3, <2>2, IndexedReads
    <3>. QED  BY <1>1, <1>2, <1>3, <1>6, <1>10, <3>3, <3>4, <3>5 DEF Heard
  <2>. QED  BY <1>2, <2>1, <2>2, StandsTyped
<1>12. History'  BY <1>9, <1>11 DEF History
<1>13. inflight'[k] = None /\ \A d \in Key \ {k} : inflight'[d] = inflight[d]
  BY StandsTyped DEF CopyEnds, Ends
<1>14. \A d \in Key \ {k} : inflight[d] # None => d # s /\ inflight[d].from \notin {k, s}
  BY <1>0, <1>s DEF Stands, Underway, Apart
<1>15. \A d \in Key \ {k} : inflight[d] # None => Awaited(d)'
  BY <1>1, <1>6, <1>8, <1>13, <1>14, AwaitedKept, StandsTyped
<1>16. \A x \in stale' : idx'.entry[x] # Direct
  <2>1. CASE mode = "through"  BY <1>1, <1>5, <2>1 DEF Stands, Underway
  <2>2. CASE Indexed
    <3>1. mode # "through"  BY <2>2 DEF Indexed
    <3>2. k \notin stale /\ s \notin stale  BY <1>3, <2>2 DEF Stands, Underway
    <3>. QED  BY <1>1, <1>8, <3>2 DEF Stands, TypeOK, Underway
  <2>. QED  BY <1>2, <2>1, <2>2, StandsTyped
<1>17. Underway'  BY <1>13, <1>15, <1>16, OthersUnderway
<1>. QED  BY <1>1, <1>12, <1>17, CallStep

LEMMA DeleteStep ==
    ASSUME Stands, TypeOK', NEW k \in Key, Delete(k)
    PROVE  Underway' /\ History' /\ ContractStep
<1>1. UNCHANGED <<object, pack, saved, ids, mode, failed, step, owes, stale>>
  BY DEF Delete, editRest, baseVars, flushVars
<1>2. ~Busy(k) /\ mode # "unread"  BY DEF Delete, Call
<1>3. /\ mode # "through" => /\ open'.files = [open.files EXCEPT ![k] = None]
                             /\ idx'.entry = [idx.entry EXCEPT ![k] = None]
      /\ mode = "through" => UNCHANGED <<open, idx>>
  <2>1. mode # "through" => open' = Dropped(k) /\ idx' = [idx EXCEPT !.entry[k] = None]
    BY DEF Delete
  <2>. QED  BY <2>1, StandsTyped DEF Delete, Dropped, Spool, Index
<1>v. None \in Value  BY DEF Value
<1>4. may'[k] = may[k] \cup {None} /\ \A x \in Key \ {k} : may'[x] = may[x]
  BY <1>v, AskEffect DEF Delete
<1>5. \/ Begins(k, "delete", k, None) /\ Unsure(Ask(k, None))
      \/ UNCHANGED inflight /\ Settled(Ask(k, None)) /\ idx.entry[k] \notin {None, Direct}
  BY DEF Delete
<1>a. /\ now'[k] \in {{None}, now[k] \cup {None}} /\ \A x \in Key \ {k} : now'[x] = now[x]
      /\ idx.entry[k] \in {None, Direct} => now'[k] = now[k] \cup {None}
  BY <1>v, <1>5, AskEffect
<1>7. KeptPacks  BY <1>1 DEF KeptPacks
<1>8. \A x \in Key \ {k} : /\ idx'.entry[x] = idx.entry[x] /\ open'.files[x] = open.files[x]
                           /\ object'[x] = object[x]
  BY <1>1, <1>3, StandsTyped
<1>9. \A x \in Key \ {k} : Heard(x)'
  BY <1>1, <1>4, <1>a, <1>7, <1>8, UntouchedHeard
<1>10. Heard(k)'
  <2>0. Heard(k)  BY StandsTyped
  <2>1. Disk(k)' = Disk(k)  BY <1>1 DEF Disk, Found
  <2>2. CASE mode = "through"
    <3>1. saved' = None /\ saved = None /\ idx.entry[k] = None
      BY <1>1, <2>2 DEF Stands, Control, TypeOK, Indexed, NoIndex, Nothing
    <3>2. View(k)' = View(k)  BY <1>1, <2>2, <3>1, IndexedReads
    <3>. QED  BY <1>1, <1>4, <1>a, <2>0, <2>1, <2>2, <3>1, <3>2 DEF Heard, Indexed
  <2>3. CASE Indexed
    <3>1. mode # "through" /\ Indexed'  BY <1>1, <2>3 DEF Indexed
    <3>2. open'.files[k] = None /\ idx'.entry[k] = None  BY <1>3, <3>1, StandsTyped
    <3>3. View(k)' = None /\ Under(k)' = None  BY <3>1, <3>2, IndexedReads
    <3>. QED  BY <1>4, <1>a, <2>0, <2>1, <3>3 DEF Heard
  <2>. QED  BY <1>2, <2>2, <2>3, StandsTyped
<1>11. History'  BY <1>9, <1>10 DEF History
<1>12. \A d \in Key : inflight[d] # None => d # k /\ inflight[d].from # k
  BY <1>2, NotBusy
<1>13. \A d \in Key \ {k} : inflight[d] # None /\ inflight'[d] = inflight[d] => Awaited(d)'
  BY <1>1, <1>8, <1>a, <1>12, AwaitedKept, StandsTyped
<1>14. \A x \in stale' : idx'.entry[x] # Direct
  <2>1. None # Direct
    <3>1. Direct \in Entry  BY DEF Entry
    <3>. QED  BY <3>1, NoneAssumption
  <2>2. idx'.entry[k] = None \/ idx'.entry[k] = idx.entry[k]
    BY <1>3, StandsTyped
  <2>. QED  BY <1>1, <1>8, <2>1, <2>2 DEF Stands, TypeOK, Underway
<1>15. \A d \in Key \ {k} : inflight'[d] = inflight[d]
  BY <1>5, StandsTyped DEF Begins
<1>16. inflight'[k] # None => Awaited(k)' /\ inflight'[k].from = k
  <2>1. CASE UNCHANGED inflight  BY <1>12, <2>1
  <2>2. CASE Begins(k, "delete", k, None)
    <3>1. inflight'[k] = [op |-> "delete", from |-> k, value |-> None]
      BY <2>2, StandsTyped DEF Begins
    <3>2. None \in now'[k]  BY <1>a
    <3>3. Indexed' => open'.files[k] = None /\ idx'.entry[k] = None
      BY <1>1, <1>3, StandsTyped DEF Indexed
    <3>. QED  BY <3>1, <3>2, <3>3 DEF Awaited
  <2>. QED  BY <1>5, <2>1, <2>2
<1>17. Underway'
  BY <1>12, <1>13, <1>14, <1>15, <1>16, OthersUnderway
<1>. QED  BY <1>1, <1>4, <1>11, <1>17, CallStep

LEMMA DeleteEndsStep ==
    ASSUME Stands, TypeOK', NEW k \in Key, DeleteEnds(k)
    PROVE  Underway' /\ History' /\ ContractStep
<1>0. inflight[k] # None /\ inflight[k].op = "delete"
  BY DEF DeleteEnds
<1>1. UNCHANGED <<pack, saved, ids, mode, idx, open, stale, failed, step, owes, may>>
  BY DEF DeleteEnds, spaceVars, flushVars
<1>2. Awaited(k) /\ Heard(k) /\ mode # "unread"  BY <1>0, StandsTyped
<1>3. /\ None \in now[k] /\ inflight[k].from = k
      /\ Indexed => open.files[k] = None /\ idx.entry[k] = None
  BY <1>0, <1>2 DEF Awaited
<1>4. /\ \A x \in Key \ {k} : object'[x] = object[x]
      /\ object'[k] \in {object[k], None}
  BY StandsTyped DEF DeleteEnds
<1>v. None \in Value  BY DEF Value
<1>5. /\ \A x \in Key \ {k} : now'[x] = now[x]
      /\ now'[k] = now[k] \/ (now'[k] = {None} /\ object'[k] = None)
  BY <1>v, AskEffect, StandsTyped DEF DeleteEnds
<1>6. KeptPacks  BY <1>1 DEF KeptPacks
<1>7. \A x \in Key \ {k} : Heard(x)'
  BY <1>1, <1>4, <1>5, <1>6, UntouchedHeard
<1>8. Heard(k)'
  <2>1. Disk(k)' \in {Disk(k), None}  BY <1>1, <1>4 DEF Disk, Found
  <2>2. CASE mode = "through"
    <3>1. saved = None /\ saved' = None  BY <1>1, <2>2 DEF Stands, Control
    <3>2. View(k)' = object'[k] /\ View(k) = object[k]  BY <1>1, <2>2, <3>1, IndexedReads
    <3>. QED  BY <1>1, <1>2, <1>3, <1>4, <1>5, <2>1, <2>2, <3>2 DEF Heard, Indexed
  <2>3. CASE Indexed
    <3>1. View(k)' = None /\ Under(k)' = None  BY <1>1, <1>3, <2>3, IndexedReads DEF Indexed
    <3>. QED  BY <1>1, <1>2, <1>3, <1>5, <2>1, <3>1 DEF Heard
  <2>. QED  BY <1>2, <2>2, <2>3, StandsTyped
<1>9. History'  BY <1>7, <1>8 DEF History
<1>10. inflight'[k] = None /\ \A d \in Key \ {k} : inflight'[d] = inflight[d]
  BY StandsTyped DEF DeleteEnds, Ends
<1>11. \A d \in Key \ {k} : inflight[d] # None => inflight[d].from # k
  BY <1>0 DEF Stands, Underway, Apart
<1>12. \A d \in Key \ {k} : inflight[d] # None => Awaited(d)'
  BY <1>1, <1>4, <1>5, <1>10, <1>11, AwaitedKept, StandsTyped
<1>13. \A x \in stale' : idx'.entry[x] # Direct
  BY <1>1 DEF Stands, Underway
<1>14. Underway'  BY <1>10, <1>12, <1>13, OthersUnderway
<1>. QED  BY <1>1, <1>9, <1>14, CallStep

LEMMA CopyObjectStep ==
    ASSUME Mishaps = {}, Stands, TypeOK', NEW s \in Key, NEW k \in Key, NEW move \in BOOLEAN,
           CopyObject(s, k, move)
    PROVE  Underway' /\ History' /\ ContractStep
<1>0. s # k /\ ~Busy(s) /\ ~Busy(k) /\ mode # "unread" /\ Grown(k) /\ object[s] # None
      /\ (Indexed => open.files[s] = None /\ idx.entry[s] = Direct)
  BY DEF CopyObject, Call
<1>1. UNCHANGED <<pack, saved, ids, mode, idx, open, stale, failed, step, owes>>
  BY DEF CopyObject, spaceVars, flushVars
<1>v. PICK v \in Value : v = object[s]  BY StandsTyped
<1>2. /\ \A x \in Key \ {k} : object'[x] = object[x]
      /\ object'[k] \in {object[k], v}
  BY <1>v, StandsTyped DEF CopyObject
<1>3. \/ /\ object'[k] = v
         /\ Begins(k, IF move THEN "move" ELSE "copied", s, v)
      \/ UNCHANGED inflight
  BY <1>v, StandsTyped DEF CopyObject
<1>4. /\ may'[k] = may[k] \cup {v} /\ may'[s] = may[s] \cup (IF move THEN {None} ELSE {})
      /\ \A x \in Key \ {s, k} : may'[x] = may[x]
      /\ now'[k] = now[k] \cup {v} /\ now'[s] = now[s] \cup (IF move THEN {None} ELSE {})
      /\ \A x \in Key \ {s, k} : now'[x] = now[x]
  BY <1>0, <1>v, MoveEffect DEF CopyObject
<1>5. KeptPacks  BY <1>1 DEF KeptPacks
<1>6. \A x \in Key \ {s, k} : Heard(x)'
  BY <1>1, <1>2, <1>4, <1>5, UntouchedHeard
<1>7. Heard(s)'
  <2>1. /\ Disk(s)' = Disk(s) /\ View(s)' = View(s) /\ Under(s)' = Under(s)
    BY <1>0, <1>1, <1>2, <1>5, ReadsKept
  <2>. QED  BY <1>1, <1>4, <2>1, StandsTyped DEF Heard, Indexed
<1>8. Heard(k)'
  <2>0. Heard(k)  BY StandsTyped
  <2>1. Disk(k)' \in {Disk(k), v}  BY <1>1, <1>2 DEF Disk, Found
  <2>2. Under(k)' \in {Under(k), v}  BY <1>1, <1>2 DEF Under, Found
  <2>3. View(k)' \in {View(k), v}
    BY <1>0, <1>1, <1>2, <2>2 DEF View, Under, Indexed, Stands, TypeOK
  <2>. QED  BY <1>1, <1>4, <2>0, <2>1, <2>2, <2>3 DEF Heard, Indexed
<1>9. History'  BY <1>6, <1>7, <1>8 DEF History
<1>10. \A d \in Key : inflight[d] # None => d \notin {s, k} /\ inflight[d].from \notin {s, k}
  BY <1>0, NotBusy
<1>11. \A d \in Key \ {k} : inflight[d] # None /\ inflight'[d] = inflight[d] => Awaited(d)'
  BY <1>1, <1>2, <1>4, <1>10, AwaitedKept, StandsTyped
<1>12. \A d \in Key \ {k} : inflight'[d] = inflight[d]
  BY <1>3, StandsTyped DEF Begins
<1>13. \A x \in stale' : idx'.entry[x] # Direct
  BY <1>1 DEF Stands, Underway
<1>14. inflight'[k] # None => Awaited(k)' /\ inflight'[k].from = s
  <2>1. CASE UNCHANGED inflight  BY <1>10, <2>1
  <2>2. CASE object'[k] = v /\ Begins(k, IF move THEN "move" ELSE "copied", s, v)
    <3>1. inflight'[k] = [op |-> IF move THEN "move" ELSE "copied", from |-> s, value |-> v]
      BY <2>2, StandsTyped DEF Begins
    <3>2. v \in now'[k] /\ (move => None \in now'[s])  BY <1>4
    <3>3. k \notin stale /\ (open.files[k] = None \/ idx.entry[k] # Direct)
      BY <1>0 DEF Grown
    <3>4. inflight'[k].op \in {"move", "copied"} /\ (inflight'[k].op = "move" => move)
          /\ inflight'[k].from = s /\ inflight'[k].value = v
      BY <3>1
    <3>. QED  BY <1>0, <1>1, <2>2, <3>2, <3>3, <3>4 DEF Awaited, Indexed
  <2>. QED  BY <1>3, <2>1, <2>2
<1>15. Underway'
  BY <1>10, <1>11, <1>12, <1>13, <1>14, OthersUnderway
<1>. QED  BY <1>1, <1>4, <1>9, <1>15, CallStep

\* A packed file is copied or moved: an edit.
LEMMA CopyPackedStep ==
    ASSUME Stands, TypeOK', NEW s \in Key, NEW k \in Key, NEW move \in BOOLEAN,
           CopyPacked(s, k, move)
    PROVE  Underway' /\ History' /\ ContractStep
<1>0. s # k /\ ~Busy(s) /\ ~Busy(k) /\ Indexed
  BY DEF CopyPacked, Call
<1>1. UNCHANGED <<object, pack, saved, ids, mode, failed, step, owes, inflight>>
  BY DEF CopyPacked, editRest, baseVars, flushVars
<1>v. PICK v \in Value : v = View(s)  BY ReadTyped DEF Stands
<1>2. /\ may'[k] = may[k] \cup {v} /\ may'[s] = may[s] \cup (IF move THEN {None} ELSE {})
      /\ \A x \in Key \ {s, k} : may'[x] = may[x]
      /\ now'[k] = {v} /\ now'[s] = (IF move THEN {None} ELSE now[s])
      /\ \A x \in Key \ {s, k} : now'[x] = now[x]
  BY <1>0, <1>v, MoveEffect DEF CopyPacked
<1>n. None # Direct
  <2>1. Direct \in Entry  BY DEF Entry
  <2>. QED  BY <2>1, NoneAssumption
<1>3. \/ /\ open.files[s] # None
         /\ \A x \in Key : open'.files[x] = Carried(open.files, s, k, move)[x]
         /\ \A x \in Key \ {s} : idx'.entry[x] = idx.entry[x]
         /\ idx'.entry[s] = IF move THEN None ELSE idx.entry[s]
         /\ stale' = stale
      \/ /\ open.files[s] = None /\ idx.entry[s] \notin {None, Direct}
         /\ \A x \in Key : open'.files[x] = IF x = k THEN None ELSE open.files[x]
         /\ \A x \in Key : idx'.entry[x] = Carried(idx.entry, s, k, move)[x]
         /\ stale' \subseteq stale \cup {k}
  <2>1. [open EXCEPT !.files = Carried(@, s, k, move)].files = Carried(open.files, s, k, move)
    BY StandsTyped DEF Spool
  <2>2. [idx EXCEPT !.entry = Carried(@, s, k, move)].entry = Carried(idx.entry, s, k, move)
    BY StandsTyped DEF Index
  <2>3. \A x \in Key : Dropped(k).files[x] = IF x = k THEN None ELSE open.files[x]
    BY StandsTyped DEF Dropped, Spool
  <2>4. /\ \A x \in Key \ {s} : [idx EXCEPT !.entry[s] = None].entry[x] = idx.entry[x]
        /\ [idx EXCEPT !.entry[s] = None].entry[s] = None
    BY StandsTyped DEF Index
  <2>5. CASE /\ open.files[s] # None
             /\ open' = [open EXCEPT !.files = Carried(@, s, k, move)]
             /\ idx' = IF move THEN [idx EXCEPT !.entry[s] = None] ELSE idx
             /\ UNCHANGED stale
    <3>1. open'.files = Carried(open.files, s, k, move)  BY Zenon, <2>1, <2>5
    <3>2. /\ \A x \in Key \ {s} : idx'.entry[x] = idx.entry[x]
          /\ idx'.entry[s] = IF move THEN None ELSE idx.entry[s]
      BY <2>4, <2>5
    <3>. QED  BY <2>5, <3>1, <3>2
  <2>6. CASE /\ open.files[s] = None /\ idx.entry[s] \notin {None, Direct}
             /\ open' = Dropped(k)
             /\ idx' = [idx EXCEPT !.entry = Carried(@, s, k, move)]
             /\ stale' = IF idx.entry[k] = Direct THEN stale \cup {k} ELSE stale
    <3>1. idx'.entry = Carried(idx.entry, s, k, move)  BY Zenon, <2>2, <2>6
    <3>2. stale' \subseteq stale \cup {k}  BY <2>6
    <3>. QED  BY <2>3, <2>6, <3>1, <3>2
  <2>. QED  BY Zenon, <2>5, <2>6, CopyPackedCases
<1>4. KeptPacks  BY <1>1 DEF KeptPacks
<1>5. \A x \in Key \ {s, k} : idx'.entry[x] = idx.entry[x] /\ open'.files[x] = open.files[x]
  BY <1>3 DEF Carried
<1>6. \A x \in Key \ {s, k} : Heard(x)'
  BY <1>1, <1>2, <1>4, <1>5, UntouchedHeard
<1>7. Heard(s) /\ Heard(k) /\ Disk(s)' = Disk(s) /\ Disk(k)' = Disk(k)
  BY <1>1, <1>4, ReadsKept, StandsTyped
<1>8. Indexed'  BY <1>0, <1>1 DEF Indexed
<1>9. Heard(s)' /\ Heard(k)' /\ \A x \in stale' : idx'.entry[x] # Direct
  <2>1. CASE /\ open.files[s] # None
             /\ \A x \in Key : open'.files[x] = Carried(open.files, s, k, move)[x]
             /\ \A x \in Key \ {s} : idx'.entry[x] = idx.entry[x]
             /\ idx'.entry[s] = IF move THEN None ELSE idx.entry[s]
             /\ stale' = stale
    <3>1. v = open.files[s]  BY <1>0, <1>v, <2>1, IndexedReads
    <3>2. /\ open'.files[k] = v /\ open'.files[s] = IF move THEN None ELSE open.files[s]
      BY <1>0, <2>1, <3>1 DEF Carried
    <3>3. View(k)' = v  BY <1>8, <2>1, <3>1, <3>2, IndexedReads
    <3>4. Under(k)' = Under(k)
      BY <1>0, <1>1, <1>4, <2>1, ReadsKept
    <3>5. move => View(s)' = None /\ Under(s)' = None
      BY <1>8, <2>1, <3>2, IndexedReads
    <3>6. ~move => View(s)' = View(s) /\ Under(s)' = Under(s)
      BY <1>1, <1>4, <2>1, <3>2, ReadsKept
    <3>7. Heard(k)'  BY <1>0, <1>2, <1>7, <3>3, <3>4 DEF Heard
    <3>8. Heard(s)'  BY <1>0, <1>2, <1>7, <3>5, <3>6 DEF Heard
    <3>9. \A x \in stale' : idx'.entry[x] # Direct
      BY <1>n, <2>1 DEF Stands, TypeOK, Underway
    <3>. QED  BY <3>7, <3>8, <3>9
  <2>2. CASE /\ open.files[s] = None /\ idx.entry[s] \notin {None, Direct}
             /\ \A x \in Key : open'.files[x] = IF x = k THEN None ELSE open.files[x]
             /\ \A x \in Key : idx'.entry[x] = Carried(idx.entry, s, k, move)[x]
             /\ stale' \subseteq stale \cup {k}
    <3>1. v = Under(s)  BY <1>0, <1>v, <2>2, IndexedReads
    <3>2. /\ open'.files[k] = None /\ open'.files[s] = None
          /\ idx'.entry[k] = idx.entry[s]
          /\ idx'.entry[s] = IF move THEN None ELSE idx.entry[s]
      BY <1>0, <2>2 DEF Carried
    <3>3. Under(k)' = v
      BY <1>1, <2>2, <3>1, <3>2 DEF Under, Found
    <3>4. View(k)' = v  BY <1>8, <3>2, <3>3, IndexedReads
    <3>5. move => View(s)' = None /\ Under(s)' = None
      BY <1>8, <3>2, IndexedReads
    <3>6. ~move => View(s)' = View(s) /\ Under(s)' = Under(s)
      BY <1>1, <1>4, <2>2, <3>2, ReadsKept
    <3>7. Heard(k)'  BY <1>0, <1>2, <1>7, <3>3, <3>4 DEF Heard
    <3>8. Heard(s)'  BY <1>0, <1>2, <1>7, <3>5, <3>6 DEF Heard
    <3>9. \A x \in stale' : idx'.entry[x] # Direct
      BY <1>n, <1>5, <2>2, <3>2 DEF Stands, TypeOK, Underway
    <3>. QED  BY <3>7, <3>8, <3>9
  <2>. QED  BY <1>3, <2>1, <2>2
<1>10. History'  BY <1>6, <1>9 DEF History
<1>11. \A d \in Key : inflight[d] # None => d \notin {s, k} /\ inflight[d].from \notin {s, k}
  BY <1>0, NotBusy
<1>12. \A d \in Key : inflight[d] # None => Awaited(d)'
  <2>. SUFFICES ASSUME NEW d \in Key, inflight[d] # None PROVE Awaited(d)'  OBVIOUS
  <2>1. d \in stale' => d \in stale  BY <1>3, <1>11
  <2>. QED  BY <1>1, <1>2, <1>5, <1>11, <2>1, AwaitedKept, StandsTyped
<1>13. Underway'
  BY <1>1, <1>9, <1>12 DEF Stands, Underway, Apart
<1>14. \A x \in Key : may[x] \subseteq may'[x]  BY <1>2
<1>. QED  BY <1>1, <1>10, <1>13, <1>14, CallStep

\* A pack that is sent, or lost: what reads as what then.
Sealable(o) == /\ o \in Spool /\ o.id # 0 /\ o.id \notin idx.packs
               /\ saved # None => o.id \notin saved.packs
               /\ \A k \in Key : o.files[k] # None => o.files[k] \in o.holds

LEMMA SealReads ==
    ASSUME Stands, TypeOK', Indexed, NEW o, Sealable(o), SealSent(o) \/ SealFails(o)
    PROVE  /\ UNCHANGED <<object, saved, mode>> /\ open' = NoSpool /\ Indexed' /\ KeptPacks
           /\ \A x \in Key : View(x)' = Under(x)' /\ Disk(x)' = Disk(x)
           /\ SealFails(o) => /\ \A x \in Key : Under(x)' = Under(x)
                              /\ UNCHANGED <<idx, stale>> /\ failed'
           /\ SealSent(o) =>
                /\ failed' = failed
                /\ stale' = stale \cup {x \in Key : o.files[x] # None /\ idx.entry[x] = Direct}
                /\ \A x \in Key : o.files[x] # None => /\ Under(x)' = o.files[x]
                                                       /\ idx'.entry[x] # Direct
                /\ \A x \in Key : o.files[x] = None => /\ Under(x)' = Under(x)
                                                       /\ idx'.entry[x] = idx.entry[x]
<1>1. UNCHANGED <<object, saved, mode>> /\ open' = NoSpool
  BY DEF SealSent, SealFails, Upload
<1>2. Indexed'  BY <1>1 DEF Indexed
<1>3. o.id \in PackId /\ o \in Spool  BY DEF Sealable, Spool, PackId
<1>4. \A p \in PackId : p # o.id => pack'[p] = pack[p]
  BY <1>3, StandsTyped DEF SealSent, SealFails, Upload
<1>5. KeptPacks
  BY <1>4, StandsTyped DEF KeptPacks, Sealable, Index
<1>6. \A x \in Key : View(x)' = Under(x)'
  BY <1>1, <1>2, IndexedReads DEF NoSpool, Nothing
<1>7. \A x \in Key : Disk(x)' = Disk(x)
  BY <1>1, <1>5, ReadsKept
<1>8. SealFails(o) => /\ \A x \in Key : Under(x)' = Under(x)
                      /\ UNCHANGED <<idx, stale>> /\ failed'
  BY <1>1, <1>5, ReadsKept DEF SealFails
<1>9. ASSUME SealSent(o)
      PROVE  /\ \A x \in Key : o.files[x] # None => /\ Under(x)' = o.files[x]
                                                    /\ idx'.entry[x] # Direct
             /\ \A x \in Key : o.files[x] = None => /\ Under(x)' = Under(x)
                                                    /\ idx'.entry[x] = idx.entry[x]
  <2>1. \A x \in Key : idx'.entry[x] = IF o.files[x] # None THEN <<o.id, o.files[x]>>
                                       ELSE idx.entry[x]
    BY <1>9, StandsTyped DEF SealSent, Index
  <2>2. pack'[o.id] = o.holds  BY <1>3, <1>9, StandsTyped DEF SealSent, Upload
  <2>3. \A x \in Key : o.files[x] # None =>
           idx'.entry[x] = <<o.id, o.files[x]>> /\ o.files[x] \in Content
    BY <1>3, <2>1 DEF Spool, Value
  <2>4. \A x \in Key : o.files[x] # None => <<o.id, o.files[x]>> \notin {None, Direct}
    <3>1. \A x \in Key : o.files[x] # None => <<o.id, o.files[x]>> \in Entry
      BY <1>3, <2>3 DEF Entry
    <3>2. o.id # 0  BY DEF Sealable
    <3>3. \A x \in Key : <<o.id, o.files[x]>> # Direct  BY <3>2 DEF Direct
    <3>. QED  BY <3>1, <3>3, NoneAssumption
  <2>5. \A x \in Key : o.files[x] # None => Under(x)' = o.files[x]
    <3>1. \A x \in Key : o.files[x] # None =>
             /\ idx'.entry[x] \notin {None, Direct}
             /\ idx'.entry[x][2] = o.files[x] /\ idx'.entry[x][1] = o.id
      BY <2>3, <2>4
    <3>2. \A x \in Key : o.files[x] # None => o.files[x] \in pack'[o.id]
      BY <2>2 DEF Sealable
    <3>. QED  BY <3>1, <3>2 DEF Under, Found
  <2>6. \A x \in Key : o.files[x] = None => idx'.entry[x] = idx.entry[x]  BY <2>1
  <2>7. \A x \in Key : o.files[x] = None => Under(x)' = Under(x)
    BY <1>1, <1>5, <2>6, ReadsKept
  <2>. QED  BY <2>3, <2>4, <2>5, <2>6, <2>7
<1>. QED  BY <1>1, <1>2, <1>5, <1>6, <1>7, <1>8, <1>9 DEF SealSent

LEMMA SealUnderway ==
    ASSUME Stands, TypeOK', Indexed, NEW o, Sealable(o), SealSent(o) \/ SealFails(o), UNCHANGED inflight,
           \A d \in Key : inflight[d] # None =>
              /\ o.files[d] = open.files[d] /\ now[d] \subseteq now'[d]
              /\ o.files[inflight[d].from] = open.files[inflight[d].from]
              /\ now[inflight[d].from] \subseteq now'[inflight[d].from]
    PROVE  Underway'
<1>0. /\ UNCHANGED <<object, saved, mode>> /\ open' = NoSpool /\ Indexed'
      /\ \A x \in Key : open'.files[x] = None
  BY SealReads DEF NoSpool, Nothing
<1>1. CASE SealFails(o)
  <2>1. UNCHANGED <<idx, stale>>  BY <1>1, SealReads
  <2>2. \A d \in Key : inflight[d] # None => Awaited(d)'
    <3>. SUFFICES ASSUME NEW d \in Key, inflight[d] # None PROVE Awaited(d)'  OBVIOUS
    <3>1. inflight[d].from \in Key /\ Awaited(d)  BY StandsTyped
    <3>. QED  BY <1>0, <2>1, <3>1 DEF Awaited
  <2>. QED  BY <2>1, <2>2 DEF Stands, TypeOK, Underway, Apart
<1>2. CASE SealSent(o)
  <2>1. /\ stale' = stale \cup {x \in Key : o.files[x] # None /\ idx.entry[x] = Direct}
        /\ \A x \in Key : o.files[x] # None => idx'.entry[x] # Direct
        /\ \A x \in Key : o.files[x] = None => idx'.entry[x] = idx.entry[x]
    BY <1>2, SealReads
  <2>2. \A d \in Key : inflight[d] # None => Awaited(d)'
    <3>. SUFFICES ASSUME NEW d \in Key, inflight[d] # None PROVE Awaited(d)'  OBVIOUS
    <3>1. inflight[d].from \in Key /\ Awaited(d)  BY StandsTyped
    <3>. QED  BY <1>0, <2>1, <3>1 DEF Awaited
  <2>3. \A x \in stale' : idx'.entry[x] # Direct
    BY <2>1 DEF Stands, TypeOK, Underway
  <2>. QED  BY <2>2, <2>3 DEF Stands, Underway, Apart
<1>. QED  BY <1>1, <1>2

\* A small file joins the pack being filled.
LEMMA PutPackedStep ==
    ASSUME Stands, TypeOK', NEW k \in Key, NEW c \in Content, PutPacked(k, c)
    PROVE  Underway' /\ History' /\ ContractStep
<1>. DEFINE filled == Filled(k, c)
<1>0. Indexed /\ ~Busy(k) /\ UNCHANGED <<inflight, step, owes>> /\ Asked(Ask(k, c)) /\ c \in Value
  BY PutPackedCases DEF Indexed, Call, flushVars, Value
<1>1. may'[k] = may[k] \cup {c} /\ \A x \in Key \ {k} : may'[x] = may[x]
  BY <1>0, AskEffect
<1>2. \A x \in Key : may[x] \subseteq may'[x]  BY <1>1
<1>3. /\ filled.files[k] = c /\ \A x \in Key \ {k} : filled.files[x] = open.files[x]
      /\ c # None /\ filled.id = ids'
  BY StandsTyped, NoneAssumption DEF Filled
<1>4. Settled(Ask(k, c)) => now'[k] = {c} /\ \A x \in Key \ {k} : now'[x] = now[x]
  BY <1>0, AskEffect
<1>5. \A d \in Key : inflight[d] # None => d # k /\ inflight[d].from # k
  BY <1>0, NotBusy
<1>6. CASE /\ open' = filled
           /\ UNCHANGED <<object, pack, old, saved, mode, idx, dirty, stale, failed>>
           /\ Settled(Ask(k, c))
  <2>1. KeptPacks /\ Indexed'  BY <1>0, <1>6 DEF KeptPacks, Indexed
  <2>2. \A x \in Key \ {k} : Heard(x)'
    BY <1>1, <1>3, <1>4, <1>6, <2>1, UntouchedHeard
  <2>3. View(k)' = c  BY <1>3, <1>6, <2>1, IndexedReads
  <2>4. Disk(k)' = Disk(k) /\ Under(k)' = Under(k)  BY <1>6, <2>1, ReadsKept
  <2>5. Heard(k)'
    BY <1>0, <1>1, <1>4, <1>6, <2>3, <2>4, StandsTyped DEF Heard
  <2>6. History'  BY <2>2, <2>5 DEF History
  <2>7. \A d \in Key : inflight[d] # None => Awaited(d)'
    BY <1>0, <1>3, <1>4, <1>5, <1>6, AwaitedKept, StandsTyped
  <2>8. Underway'  BY <1>0, <1>6, <2>7 DEF Stands, Underway, Apart
  <2>. QED  BY <1>0, <1>2, <1>6, <2>6, <2>8, CallStep
<1>7. CASE SealSent(filled) \/ SealFails(filled)
  <2>1. Sealable(filled)
    <3>1. filled \in Spool /\ filled.id # 0  BY FilledTyped DEF Stands
    <3>2. /\ ids' \notin idx.packs /\ (saved # None => ids' \notin saved.packs)
      <4>1. ids \in Nat /\ ids' = IF open.id = 0 THEN ids + 1 ELSE ids
        <5>1. ids \in Nat  BY BoundAssumption DEF Stands, TypeOK
        <5>. QED  BY <5>1, PutPackedCases
      <4>2. CASE open.id = 0
        <5>1. ids' \notin 1..ids  BY <4>1, <4>2
        <5>. QED  BY <5>1 DEF Stands, Packs
      <4>3. CASE open.id # 0
        <5>1. ids' = open.id  BY <4>1, <4>3 DEF Stands, Control
        <5>. QED  BY <5>1 DEF Stands, Packs
      <4>. QED  BY <4>2, <4>3
    <3>3. \A x \in Key : filled.files[x] # None => filled.files[x] \in filled.holds
      <4>1. filled.holds = open.holds \cup {c}  BY DEF Filled
      <4>. QED  BY <1>3, <4>1 DEF Stands, Packs
    <3>. QED  BY <1>3, <3>1, <3>2, <3>3 DEF Sealable
  <2>2. CASE SealSent(filled) /\ Settled(Ask(k, c))
    <3>1. /\ failed' = failed /\ Indexed'
          /\ \A x \in Key : View(x)' = Under(x)' /\ Disk(x)' = Disk(x)
          /\ \A x \in Key : filled.files[x] # None => Under(x)' = filled.files[x]
          /\ \A x \in Key : filled.files[x] = None => Under(x)' = Under(x)
      BY <1>0, <2>1, <2>2, SealReads
    <3>2. \A x \in Key \ {k} : View(x)' = View(x)
      BY <1>0, <1>3, <3>1, IndexedReads
    <3>3. View(k)' = c  BY <1>3, <3>1
    <3>4. \A x \in Key : Heard(x)'
      BY <1>1, <1>4, <2>2, <3>1, <3>2, <3>3, StandsTyped DEF Heard
    <3>5. Underway'
      BY <1>0, <1>3, <1>4, <1>5, <2>1, <2>2, SealUnderway, StandsTyped
    <3>6. History'  BY <3>4 DEF History
    <3>. QED  BY <1>0, <1>2, <3>1, <3>5, <3>6, CallStep
  <2>3. CASE SealFails(filled) /\ Forfeit(filled)
    <3>1. /\ failed' /\ Indexed'
          /\ \A x \in Key : View(x)' = Under(x) /\ Under(x)' = Under(x) /\ Disk(x)' = Disk(x)
      BY <1>0, <2>1, <2>3, SealReads
    <3>2. \A x \in Key : now'[x] = IF filled.files[x] # None THEN may'[x] ELSE now[x]
      BY <2>3 DEF Forfeit
    <3>3. \A x \in Key : filled.files[x] = None => View(x)' = View(x)
      BY <1>0, <1>3, <3>1, IndexedReads
    <3>4. \A x \in Key : Heard(x) /\ Under(x) \in may[x]
      BY <1>0, StandsTyped DEF Heard
    <3>5. \A x \in Key : Heard(x)'
      BY <1>2, <3>1, <3>2, <3>3, <3>4 DEF Heard
    <3>6. \A x \in Key : now[x] \subseteq now'[x]
      BY <1>2, <3>2, <3>4 DEF Heard
    <3>7. Underway'
      BY <1>0, <1>3, <1>5, <2>1, <2>3, <3>6, SealUnderway, StandsTyped
    <3>8. History'  BY <3>5 DEF History
    <3>. QED  BY <1>0, <1>2, <3>1, <3>7, <3>8, LoseStep
  <2>. QED  BY <1>6, <1>7, <2>2, <2>3, PutPackedCases
<1>. QED  BY <1>6, <1>7, PutPackedCases

(***************************************************************************)
(* Flushes keep what is asked for and under way.                           *)
(***************************************************************************)
\* With the same reads and history, all is as it was heard to be.
LEMMA SameHeard ==
    ASSUME Stands, SameReads, UNCHANGED <<now, may>>, \A k \in Key : Indexed' => Under(k)' \in may[k]
    PROVE  History'
BY StandsTyped DEF SameReads, History, Heard

LEMMA SameUnderway ==
    ASSUME Stands, TypeOK', UNCHANGED <<now, inflight, mode>>, stale' \subseteq stale,
           \A k \in Key : idx.entry[k] \in {None, Direct} \/ idx'.entry[k] \in {None, Direct}
                            => idx'.entry[k] = idx.entry[k],
           \A k \in Key : open'.files[k] = open.files[k],
           \A k \in Key : object'[k] = object[k] \/ (k \in stale /\ object'[k] = None /\ Indexed)
    PROVE  Underway'
<1>1. \A x \in stale' : idx'.entry[x] # Direct  BY DEF Stands, TypeOK, Underway
<1>2. \A d \in Key : inflight[d] # None => Awaited(d)'
  <2>. SUFFICES ASSUME NEW d \in Key, inflight[d] # None PROVE Awaited(d)'  OBVIOUS
  <2>1. inflight[d].from \in Key /\ Awaited(d)  BY StandsTyped
  <2>2. Indexed' <=> Indexed  BY DEF Indexed
  <2>. QED  BY <2>1, <2>2 DEF Awaited
<1>. QED  BY <1>1, <1>2 DEF Stands, Underway, Apart

LEMMA FlushSealsStep ==
    ASSUME Stands, TypeOK', NEW f \in BOOLEAN, FlushSeals(f)
    PROVE  Underway' /\ History' /\ ContractStep
<1>0. Indexed /\ Free /\ UNCHANGED <<inflight, owes, may>> /\ step' \in {"sealed", "unsealed"} /\ ~Free'
  BY DEF FlushSeals, Free
<1>1. CASE /\ open.files = Nothing /\ open' = NoSpool
           /\ UNCHANGED <<object, pack, old, saved, mode, idx, dirty, stale, failed, now>>
  <2>1. open'.files = open.files /\ KeptPacks /\ Indexed'
    BY <1>0, <1>1 DEF NoSpool, KeptPacks, Indexed
  <2>2. SameReads /\ \A k \in Key : Under(k)' = Under(k)
    BY <1>1, <2>1, ReadsKept DEF SameReads
  <2>3. History'
    BY <1>0, <1>1, <2>2, SameHeard, StandsTyped DEF Heard
  <2>4. Underway'  BY <1>0, <1>1, <2>1, SameUnderway
  <2>. QED  BY <1>0, <1>1, <2>2, <2>3, <2>4, FlushStep
<1>2. CASE open.files # Nothing /\ (SealSent(open) \/ SealFails(open))
  <2>0. Sealable(open)
    BY <1>2, StandsTyped DEF Stands, Control, Packs, Sealable
  <2>1. CASE SealSent(open) /\ UNCHANGED now
    <3>1. /\ failed' = failed /\ Indexed'
          /\ \A x \in Key : View(x)' = Under(x)' /\ Disk(x)' = Disk(x)
          /\ \A x \in Key : open.files[x] # None => Under(x)' = open.files[x]
          /\ \A x \in Key : open.files[x] = None => Under(x)' = Under(x)
      BY <1>0, <2>0, <2>1, SealReads
    <3>2. \A x \in Key : View(x)' = View(x)
      BY <1>0, <3>1, IndexedReads
    <3>3. SameReads  BY <3>1, <3>2 DEF SameReads
    <3>4. History'
      BY <1>0, <2>1, <3>1, <3>2, <3>3, SameHeard, StandsTyped DEF Heard
    <3>5. Underway'
      BY <1>0, <2>0, <2>1, SealUnderway
    <3>. QED  BY <1>0, <2>1, <3>1, <3>3, <3>4, <3>5, FlushStep
  <2>2. CASE SealFails(open) /\ Forfeit(open)
    <3>1. /\ failed' /\ Indexed'
          /\ \A x \in Key : View(x)' = Under(x) /\ Under(x)' = Under(x) /\ Disk(x)' = Disk(x)
      BY <1>0, <2>0, <2>2, SealReads
    <3>2. \A x \in Key : now'[x] = IF open.files[x] # None THEN may[x] ELSE now[x]
      BY <1>0, <2>2 DEF Forfeit
    <3>3. \A x \in Key : open.files[x] = None => View(x)' = View(x)
      BY <1>0, <3>1, IndexedReads
    <3>4. \A x \in Key : Heard(x) /\ Under(x) \in may[x]
      BY <1>0, StandsTyped DEF Heard
    <3>5. \A x \in Key : Heard(x)'
      BY <1>0, <3>1, <3>2, <3>3, <3>4 DEF Heard
    <3>6. \A x \in Key : now[x] \subseteq now'[x]
      BY <3>2, <3>4 DEF Heard
    <3>7. Underway'
      BY <1>0, <2>0, <2>2, <3>6, SealUnderway, StandsTyped
    <3>8. History'  BY <3>5 DEF History
    <3>. QED  BY <1>0, <3>1, <3>7, <3>8, LoseStep
  <2>. QED  BY <1>1, <1>2, <2>1, <2>2 DEF FlushSeals
<1>. QED  BY <1>1, <1>2 DEF FlushSeals

LEMMA IdleUnderway ==
    ASSUME inflight' = Nothing, stale' = {}
    PROVE  Underway'
BY DEF Underway, Apart, Nothing

\* Unloading a store whose index is saved.
LEMMA UnloadReads ==
    ASSUME Stands, UNCHANGED <<object, pack, saved>>, mode' = "unread",
           Indexed => saved # None /\ saved.entry = idx.entry /\ open = NoSpool
    PROVE  SameReads
<1>1. \A k \in Key : Disk(k)' = Disk(k)  BY DEF Disk, Found
<1>2. \A k \in Key : View(k) = Disk(k)
  <2>1. CASE Indexed
    BY <2>1 DEF View, Disk, NoSpool, Nothing, Indexed
  <2>. QED  BY <2>1, IndexedReads, StandsTyped
<1>. QED  BY <1>1, <1>2, IndexedReads DEF SameReads

LEMMA FlushesStep ==
    ASSUME Stands, TypeOK', FlushThrough \/ Unsealed \/ FlushAsks \/ CheckpointAsks
    PROVE  Underway' /\ History' /\ ContractStep
<1>0. failed \in BOOLEAN /\ owes \in BOOLEAN /\ dirty \in BOOLEAN /\ full \in BOOLEAN
  BY DEF Stands, TypeOK
<1>1. UNCHANGED <<object, pack, saved, open, stale, inflight, now, may>>
  BY DEF FlushThrough, Unsealed, FlushAsks, CheckpointAsks, baseVars, spaceVars
<1>2. KeptPacks  BY <1>1 DEF KeptPacks
<1>3. CASE FlushThrough
  <2>1. /\ mode = "through" /\ inflight = Nothing /\ mode' = "unread"
        /\ UNCHANGED <<failed, owes, step>>
    BY <1>3 DEF FlushThrough, Unload, flushVars
  <2>2. SameReads  BY <1>1, <2>1, UnloadReads DEF Indexed
  <2>3. History'  BY <1>1, <2>1, <2>2, SameHeard DEF Indexed
  <2>4. Underway'
    BY <1>1, <2>1, IdleUnderway DEF Stands, Control, Indexed
  <2>. QED  BY <1>1, <2>1, <2>2, <2>3, <2>4, FlushStep
<1>4. ASSUME UNCHANGED <<mode, idx>>
      PROVE  Underway' /\ History' /\ SameReads
  <2>1. SameReads /\ \A k \in Key : Under(k)' = Under(k)
    BY <1>1, <1>2, <1>4, ReadsKept DEF SameReads
  <2>2. Indexed' <=> Indexed  BY <1>4 DEF Indexed
  <2>3. History'  BY <1>1, <2>1, <2>2, SameHeard, StandsTyped DEF Heard
  <2>. QED  BY <1>1, <1>4, <2>1, <2>3, SameUnderway
<1>5. CASE Unsealed
  <2>1. /\ UNCHANGED <<mode, idx>> /\ step = "unsealed" /\ step' = "failed" /\ owes' = FALSE
        /\ failed' = IF full THEN FALSE ELSE failed
    BY <1>5 DEF Unsealed, Returns
  <2>2. ~full => ~owes  BY DEF Stands, Control
  <2>3. (failed \/ owes)' \in {(failed \/ owes), FALSE}  BY <1>0, <2>1, <2>2
  <2>. QED  BY <1>1, <1>4, <2>1, <2>3, FlushStep DEF Free
<1>6. CASE FlushAsks
  <2>0. /\ step = "sealed" /\ full /\ failed' = FALSE /\ ~owes /\ inflight = Nothing /\ ~Free
        /\ open = NoSpool
    BY <1>6 DEF FlushAsks, Stands, Control, Free
  <2>1. CASE owes' = failed /\ step' = "tidy" /\ UNCHANGED <<mode, idx>>
    <3>1. (failed \/ owes)' = (failed \/ owes) /\ ~Free'  BY <1>0, <2>0, <2>1 DEF Free
    <3>. QED  BY <1>1, <1>4, <2>1, <3>1, FlushStep
  <2>2. CASE Returns("failed") /\ UNCHANGED <<mode, idx>>
    <3>1. step' = "failed" /\ (failed \/ owes)' = FALSE  BY <2>0, <2>2 DEF Returns
    <3>. QED  BY <1>1, <1>4, <2>0, <2>2, <3>1, FlushStep
  <2>3. CASE Clean /\ ~failed /\ Returns("ok") /\ Unload
    <3>1. step' = "ok" /\ ~owes' /\ ~failed /\ mode' = "unread" /\ ~dirty /\ stale' = {}
      BY <1>1, <2>3 DEF Returns, Unload, Clean
    <3>2. Indexed => saved # None /\ saved.entry = idx.entry  BY <3>1 DEF Stands, Control
    <3>3. SameReads  BY <1>1, <2>0, <3>1, <3>2, UnloadReads
    <3>4. History'  BY <1>1, <3>1, <3>3, SameHeard DEF Indexed
    <3>5. Underway'  BY <1>1, <2>0, <3>1, IdleUnderway
    <3>6. \A k \in Key : Disk(k) = View(k)
      <4>1. \A k \in Key : Disk(k)' = View(k)'  BY <3>1, IndexedReads
      <4>. QED  BY <3>3, <4>1 DEF SameReads
    <3>. QED  BY <1>1, <2>0, <3>1, <3>3, <3>4, <3>5, <3>6, FlushStep
  <2>. QED  BY <1>6, <2>1, <2>2, <2>3 DEF FlushAsks
<1>7. CASE CheckpointAsks
  <2>0. /\ step = "sealed" /\ ~full /\ ~owes /\ ~Free /\ open = NoSpool /\ Indexed
        /\ UNCHANGED <<mode, idx, dirty, failed>>
    BY <1>7 DEF CheckpointAsks, Stands, Control, Free, spaceVars
  <2>1. CASE Returns("failed")
    <3>1. step' = "failed" /\ (failed \/ owes)' = (failed \/ owes)
      BY <1>0, <2>0, <2>1 DEF Returns
    <3>. QED  BY <1>1, <1>4, <2>0, <3>1, FlushStep
  <2>2. CASE ~failed /\ Clean /\ Returns("ok")
    <3>1. step' = "ok" /\ ~owes' /\ ~failed /\ ~failed' /\ ~dirty  BY <2>0, <2>2 DEF Returns, Clean
    <3>2. saved # None /\ saved.entry = idx.entry  BY <2>0, <3>1 DEF Stands, Control
    <3>3. \A k \in Key : Disk(k) = View(k)
      BY <2>0, <3>2 DEF View, Disk, NoSpool, Nothing, Indexed
    <3>. QED  BY <1>1, <1>4, <2>0, <3>1, <3>3, FlushStep
  <2>3. CASE step' = "index" /\ UNCHANGED <<full, owes, dead>>
    <3>1. (failed \/ owes)' = (failed \/ owes) /\ ~Free'  BY <2>0, <2>3 DEF Free
    <3>. QED  BY <1>1, <1>4, <2>0, <3>1, FlushStep
  <2>. QED  BY <1>7, <2>1, <2>2, <2>3 DEF CheckpointAsks
<1>. QED  BY <1>3, <1>5, <1>6, <1>7

\* Packs are rewritten and dropped without a file reading otherwise: each keeps
\* its content, wherever it is.
Moved(k) == \/ idx'.entry[k] = idx.entry[k]
            \/ /\ idx.entry[k] \notin {None, Direct} /\ idx'.entry[k] \notin {None, Direct}
               /\ idx'.entry[k][2] = idx.entry[k][2]

LEMMA TidyReads ==
    ASSUME Stands, Packs', UNCHANGED <<saved, mode, open>>, \A k \in Key : Moved(k),
           \A k \in Key : \/ object'[k] = object[k]
                          \/ idx.entry[k] # Direct /\ saved # None /\ saved.entry[k] # Direct
    PROVE  SameReads /\ \A k \in Key : Under(k)' = Under(k)
<1>1. \A k \in Key : idx.entry[k] \notin {None, Direct} =>
         Under(k) = idx.entry[k][2]
  BY DEF Stands, Packs, Stored, Under, Found
<1>2. \A k \in Key : idx'.entry[k] \notin {None, Direct} => Under(k)' = idx'.entry[k][2]
  BY DEF Packs, Stored, Under, Found
<1>3. \A k \in Key : idx'.entry[k] = idx.entry[k] /\ idx.entry[k] \in {None, Direct}
                       => Under(k)' = Under(k)
  BY DEF Under, Found
<1>4. \A k \in Key : Under(k)' = Under(k)
  BY <1>1, <1>2, <1>3 DEF Moved
<1>5. \A k \in Key : Disk(k)' = Disk(k)
  <2>. SUFFICES ASSUME NEW k \in Key PROVE Disk(k)' = Disk(k)  OBVIOUS
  <2>1. CASE saved = None  BY <2>1 DEF Disk
  <2>2. CASE saved # None /\ saved.entry[k] \in {None, Direct}
    BY <2>2 DEF Disk, Found
  <2>3. CASE saved # None /\ saved.entry[k] \notin {None, Direct}
    <3>1. Disk(k) = saved.entry[k][2]
      BY <2>3 DEF Stands, Packs, Stored, Disk, Found
    <3>2. Disk(k)' = saved'.entry[k][2]
      BY <2>3 DEF Packs, Stored, Disk, Found
    <3>. QED  BY <3>1, <3>2
  <2>. QED  BY <2>1, <2>2, <2>3
<1>6. \A k \in Key : View(k)' = View(k)
  <2>. SUFFICES ASSUME NEW k \in Key PROVE View(k)' = View(k)  OBVIOUS
  <2>1. CASE Indexed
    <3>1. Indexed' /\ open'.files[k] = open.files[k]  BY <2>1 DEF Indexed
    <3>. QED  BY <1>4, <2>1, <3>1, IndexedReads
  <2>2. CASE mode = "unread"
    BY <1>5, <2>2, IndexedReads
  <2>3. CASE mode = "through"
    <3>1. saved = None  BY <2>3 DEF Stands, Control
    <3>. QED  BY <2>3, <3>1, IndexedReads
  <2>. QED  BY <2>1, <2>2, <2>3, StandsTyped
<1>. QED  BY <1>4, <1>5, <1>6 DEF SameReads

LEMMA TidyStep ==
    ASSUME Stands, TypeOK', Packs', Compact \/ Sweep
    PROVE  Underway' /\ History' /\ ContractStep
<1>0. /\ UNCHANGED <<object, saved, mode, open, stale, failed, inflight, now, may>>
      /\ ~Free /\ ~failed /\ Indexed
  BY DEF Compact, Sweep, Free, Stands, Control
<1>n. None # Direct /\ \A p \in PackId, c \in Content : <<p, c>> \notin {None, Direct}
  <2>1. Direct \in Entry /\ \A p \in PackId, c \in Content : <<p, c>> \in Entry  BY DEF Entry
  <2>2. \A p \in PackId, c \in Content : <<p, c>> # Direct
    BY BoundAssumption DEF PackId, Direct
  <2>. QED  BY <2>1, <2>2, NoneAssumption
<1>1. \A k \in Key : Moved(k)
  <2>1. CASE idx' = idx  BY <2>1 DEF Moved
  <2>2. CASE Sweep
    <3>1. idx'.entry = idx.entry  BY <2>2, StandsTyped DEF Sweep, Index
    <3>. QED  BY <3>1 DEF Moved
  <2>3. ASSUME Compact, NEW victims \in SUBSET Sparse, idx' = Rewritten(victims, ids'), ids' = ids + 1,
               ids < MaxPacks
        PROVE  \A k \in Key : Moved(k)
    <3>1. ids' \in PackId
      BY <2>3, BoundAssumption DEF Stands, TypeOK, PackId
    <3>2. \A k \in Key : idx'.entry[k] = IF idx.entry[k] # None /\ idx.entry[k][1] \in victims
                                         THEN <<ids', idx.entry[k][2]>> ELSE idx.entry[k]
      BY <2>3, StandsTyped DEF Rewritten, Index
    <3>3. victims \subseteq PackId  BY StandsTyped DEF Sparse, Index
    <3>4. \A k \in Key : idx.entry[k] # None /\ idx.entry[k][1] \in victims =>
             idx.entry[k] # Direct /\ idx.entry[k][2] \in Content
      <4>1. 0 \notin PackId  BY BoundAssumption DEF PackId
      <4>2. Direct[1] = 0  BY DEF Direct
      <4>. QED  BY <3>3, <4>1, <4>2, StandsTyped DEF Entry
    <3>5. \A k \in Key : idx.entry[k] # None /\ idx.entry[k][1] \in victims =>
             idx'.entry[k] = <<ids', idx.entry[k][2]>>
      BY <3>2
    <3>6. \A k \in Key : idx.entry[k] # None /\ idx.entry[k][1] \in victims =>
             idx'.entry[k] \notin {None, Direct} /\ idx'.entry[k][2] = idx.entry[k][2]
      <4>. SUFFICES ASSUME NEW k \in Key, idx.entry[k] # None, idx.entry[k][1] \in victims
                    PROVE  idx'.entry[k] \notin {None, Direct} /\ idx'.entry[k][2] = idx.entry[k][2]
        OBVIOUS
      <4>1. PICK c \in Content : c = idx.entry[k][2]  BY <3>4
      <4>2. PICK p \in PackId : p = ids'  BY <3>1
      <4>3. idx'.entry[k] = <<p, c>>  BY <3>5, <4>1, <4>2
      <4>4. <<p, c>>[2] = c  OBVIOUS
      <4>. QED  BY Zenon, <1>n, <4>1, <4>3, <4>4
    <3>7. \A k \in Key : ~(idx.entry[k] # None /\ idx.entry[k][1] \in victims) =>
             idx'.entry[k] = idx.entry[k]
      BY <3>2
    <3>. QED  BY <3>4, <3>6, <3>7 DEF Moved
  <2>4. Compact => \/ idx' = idx
                   \/ /\ ids' = ids + 1 /\ ids < MaxPacks
                      /\ \E victims \in SUBSET Sparse : idx' = Rewritten(victims, ids')
    BY CompactCases
  <2>. QED  BY <2>1, <2>2, <2>3, <2>4
<1>2. SameReads /\ \A k \in Key : Under(k)' = Under(k)
  BY <1>0, <1>1, TidyReads
<1>3. History'
  BY <1>0, <1>2, SameHeard, StandsTyped DEF Heard
<1>4. Underway'
  <2>1. \A k \in Key : idx.entry[k] \in {None, Direct} \/ idx'.entry[k] \in {None, Direct}
                         => idx'.entry[k] = idx.entry[k]
    BY <1>1 DEF Moved
  <2>. QED  BY <1>0, <2>1, SameUnderway
<1>5. \/ step' \in {"sweep", "index"} /\ UNCHANGED owes
      \/ step' = "failed" /\ owes' = FALSE
  <2>1. Compact => \/ step' = "sweep" /\ UNCHANGED owes
                   \/ Returns("failed")
    BY CompactCases
  <2>. QED  BY <2>1 DEF Sweep, Returns
<1>6. CASE step' \in {"sweep", "index"} /\ UNCHANGED owes
  <2>1. (failed \/ owes)' = (failed \/ owes) /\ ~Free'  BY <1>0, <1>6 DEF Free
  <2>. QED  BY <1>0, <1>2, <1>3, <1>4, <2>1, FlushStep
<1>7. CASE step' = "failed" /\ owes' = FALSE
  <2>1. (failed \/ owes)' = FALSE  BY <1>0, <1>7
  <2>. QED  BY <1>0, <1>2, <1>3, <1>4, <1>7, <2>1, FlushStep
<1>. QED  BY <1>5, <1>6, <1>7

\* The index is saved, all of it or nothing.
LEMMA WriteIndexStep ==
    ASSUME Stands, TypeOK', Packs', WriteIndex
    PROVE  Underway' /\ History' /\ ContractStep
<1>0. /\ UNCHANGED <<object, pack, mode, idx, open, stale, failed, inflight, now>>
      /\ ~Free /\ ~failed /\ Indexed /\ open = NoSpool
  BY DEF WriteIndex, Free, Stands, Control
<1>1. Indexed' /\ \A k \in Key : open.files[k] = None
  BY <1>0 DEF Indexed, NoSpool, Nothing
<1>2. \A k \in Key : View(k) = Under(k) /\ View(k)' = Under(k)
  BY <1>0, <1>1 DEF View, Under, Indexed, Found
<1>3. saved' = idx => \A k \in Key : Disk(k)' = View(k)
  <2>1. idx # None  BY StandsTyped, NoneAssumption
  <2>. QED  BY <1>0, <1>2, <2>1 DEF Disk, Under, Found
<1>4. saved' = saved => \A k \in Key : Disk(k)' = Disk(k)
  BY <1>0 DEF Disk, Found
<1>5. Underway'
  BY <1>0, SameUnderway
<1>6. \A k \in Key : Heard(k) /\ Under(k)' = Under(k)
  BY <1>0, StandsTyped DEF Under, Found
<1>7. CASE saved' = idx /\ may' = now /\ step' = "drop" /\ UNCHANGED owes
  <2>1. History'
    BY <1>0, <1>2, <1>3, <1>6, <1>7 DEF History, Heard
  <2>2. Contract!Save
    BY <1>0, <1>2, <1>3, <1>7 DEF Contract!Save, Free
  <2>. QED  BY <1>5, <2>1, <2>2 DEF ContractStep, Contract!Next
<1>8. CASE saved' \in {saved, idx} /\ UNCHANGED may /\ Returns("failed")
  <2>1. History'
    BY <1>0, <1>1, <1>2, <1>3, <1>4, <1>6, <1>8 DEF History, Heard
  <2>2. Contract!Fail
    <3>1. step' = "failed" /\ (failed' \/ owes') = FALSE  BY <1>0, <1>8 DEF Returns
    <3>2. [k \in Key |-> Disk(k)'] \in {[k \in Key |-> Disk(k)], [k \in Key |-> View(k)]}
      BY <1>3, <1>4, <1>8
    <3>3. \A k \in Key : View(k)' = View(k)  BY <1>2
    <3>. QED  BY <1>0, <1>8, <2>1, <3>1, <3>2, <3>3, KeptNext DEF Contract!Fail, Free
  <2>. QED  BY <1>5, <2>1, <2>2 DEF ContractStep, Contract!Next
<1>. QED  BY <1>7, <1>8 DEF WriteIndex

\* What the saved index no longer needs is dropped.
LEMMA DropStep ==
    ASSUME Stands, TypeOK', Packs', Drop
    PROVE  Underway' /\ History' /\ ContractStep
<1>0. /\ UNCHANGED <<saved, open, failed, inflight, now, may>> /\ stale' = {} /\ step = "drop"
      /\ ~Free /\ ~failed /\ Indexed /\ open = NoSpool /\ saved = idx /\ saved # None
      /\ (full => inflight = Nothing) /\ full \in BOOLEAN /\ owes \in BOOLEAN
  BY StandsTyped, NoneAssumption DEF Drop, Free, Stands, Control, TypeOK
<1>1. \A k \in Key : object'[k] = object[k] \/ (k \in stale /\ object'[k] = None)
  BY StandsTyped DEF Drop
<1>2. \A k \in stale : idx.entry[k] # Direct  BY DEF Stands, Underway
<1>3. \A k \in Key : object'[k] = object[k] \/ (idx.entry[k] # Direct /\ saved.entry[k] # Direct)
  BY <1>0, <1>1, <1>2
<1>4. \A k \in Key : Disk(k) = View(k)
  BY <1>0 DEF View, Disk, NoSpool, Nothing, Indexed
<1>5. \A k \in Key : Disk(k)' = Disk(k)
  <2>1. \A k \in Key : saved.entry[k] \notin {None, Direct} =>
           Disk(k) = saved.entry[k][2] /\ Disk(k)' = saved.entry[k][2]
    BY <1>0 DEF Stands, Packs, Stored, Disk, Found
  <2>2. \A k \in Key : saved.entry[k] \in {None, Direct} => Disk(k)' = Disk(k)
    BY <1>0, <1>3 DEF Disk, Found
  <2>. QED  BY <2>1, <2>2
<1>6. CASE /\ UNCHANGED <<mode, idx>> /\ step' \in {"ok", "failed"} /\ owes' = FALSE
           /\ step' = "ok" => ~owes
  <2>1. SameReads /\ \A k \in Key : Under(k)' = Under(k)
    <3>1. \A k \in Key : Moved(k)  BY <1>6 DEF Moved
    <3>. QED  BY <1>0, <1>3, <1>6, <3>1, TidyReads
  <2>2. History'
    BY <1>0, <2>1, SameHeard, StandsTyped DEF Heard
  <2>3. Underway'
    BY <1>0, <1>1, <1>6, SameUnderway
  <2>4. CASE step' = "failed"
    <3>1. (failed \/ owes)' = FALSE  BY <1>0, <1>6
    <3>. QED  BY <1>0, <2>1, <2>2, <2>3, <2>4, <3>1, FlushStep
  <2>5. CASE step' = "ok"
    BY <1>0, <1>4, <1>6, <2>1, <2>2, <2>3, <2>5, FlushStep
  <2>. QED  BY <1>6, <2>4, <2>5
<1>7. CASE Unload /\ Returns("ok") /\ full /\ ~owes
  <2>1. mode' = "unread" /\ step' = "ok" /\ owes' = FALSE  BY <1>7 DEF Unload, Returns
  <2>2. SameReads  BY <1>4, <1>5, <2>1, IndexedReads DEF SameReads
  <2>3. History'  BY <1>0, <2>1, <2>2, SameHeard DEF Indexed
  <2>4. Underway'  BY <1>0, <1>7, IdleUnderway
  <2>. QED  BY <1>0, <1>4, <1>7, <2>1, <2>2, <2>3, <2>4, FlushStep
<1>8. \/ /\ Returns(IF owes THEN "failed" ELSE "ok")
         /\ IF full /\ ~owes THEN Unload ELSE UNCHANGED <<mode, idx>>
      \/ Returns("failed") /\ UNCHANGED <<mode, idx>>
  BY DEF Drop
<1>. QED  BY <1>0, <1>6, <1>7, <1>8 DEF Returns

\* Opening: a process reads what is in storage.
LEMMA OpeningStep ==
    ASSUME Stands, TypeOK', Load \/ NextDay
    PROVE  Underway' /\ History' /\ ContractStep
<1>0. /\ mode = "unread" /\ UNCHANGED <<object, pack, open, stale, failed, inflight, step, owes, now, may>>
      /\ inflight = Nothing /\ stale = {} /\ open = NoSpool
  BY DEF Load, NextDay, baseVars, spaceVars, flushVars, Stands, Control, Indexed
<1>n. None # Direct
  <2>1. Direct \in Entry  BY DEF Entry
  <2>. QED  BY <2>1, NoneAssumption
<1>1. \A k \in Key : View(k) = Disk(k) /\ Heard(k) /\ open'.files[k] = None
  BY <1>0, IndexedReads, StandsTyped DEF NoSpool, Nothing
<1>2. Underway'  BY <1>0, IdleUnderway
<1>3. CASE NextDay
  <2>1. mode' = "unread" /\ (saved = None => saved' = None)
        /\ (saved # None => saved' # None /\ saved'.entry = saved.entry)
    <3>1. saved # None => [saved EXCEPT !.swept = FALSE] \in Index  BY StandsTyped DEF Index
    <3>2. saved # None => [saved EXCEPT !.swept = FALSE].entry = saved.entry
      BY StandsTyped DEF Index
    <3>3. saved # None => saved' = [saved EXCEPT !.swept = FALSE]  BY <1>3 DEF NextDay
    <3>4. (saved = None => saved' = None) /\ mode' = mode  BY <1>3 DEF NextDay, spaceVars
    <3>5. None \notin Index  BY NoneAssumption
    <3>. QED  BY Zenon, <1>0, <3>1, <3>2, <3>3, <3>4, <3>5
  <2>2. \A k \in Key : Disk(k)' = Disk(k)
    BY <1>0, <2>1 DEF Disk, Found
  <2>3. SameReads  BY <1>1, <2>1, <2>2, IndexedReads DEF SameReads
  <2>4. History'  BY <1>0, <2>1, <2>3, SameHeard DEF Indexed
  <2>. QED  BY <1>0, <1>2, <2>3, <2>4, FlushStep
<1>4. CASE Load
  <2>1. \A k \in Key : Disk(k)' = Disk(k)
    BY <1>0, <1>4 DEF Load, Disk, Found, baseVars
  <2>2. mode' # "unread" /\ (mode' = "through" => saved = None /\ saved' = None)
    BY <1>4, SwitchAssumption DEF Load, baseVars
  <2>3. mode' # "through" => Indexed' /\ \A k \in Key : Under(k)' = Disk(k)
    <3>1. CASE saved # None
      <4>1. idx' = saved  BY <1>4, <3>1 DEF Load
      <4>. QED  BY <1>0, <1>4, <2>2, <3>1, <4>1
                DEF Under, Found, Disk, Stands, TypeOK, Indexed
    <3>2. CASE saved = None /\ mode' # "through"
      <4>1. \A k \in Key : idx'.entry[k] = IF object[k] # None THEN Direct ELSE None
        BY <1>4, <3>2 DEF Load, NoIndex
      <4>2. \A k \in Key : Under(k)' = object[k]
        BY <1>0, <1>n, <4>1 DEF Under, Found
      <4>. QED  BY <2>2, <3>2, <4>2 DEF Disk, Indexed, TypeOK
    <3>. QED  BY <3>1, <3>2
  <2>4. \A k \in Key : View(k)' = View(k)
    <3>1. CASE mode' = "through"
      <4>1. \A k \in Key : View(k)' = object[k] /\ Disk(k) = object[k]
        BY <1>0, <2>2, <3>1, IndexedReads DEF Disk
      <4>. QED  BY <1>1, <4>1
    <3>2. CASE mode' # "through"
      BY <1>1, <2>3, <3>2, IndexedReads
    <3>. QED  BY <3>1, <3>2
  <2>5. SameReads  BY <2>1, <2>4 DEF SameReads
  <2>6. History'
    <3>1. \A k \in Key : Indexed' => Under(k)' \in may[k]
      BY <1>1, <2>3 DEF Indexed, Heard
    <3>. QED  BY <1>0, <2>5, <3>1, SameHeard
  <2>. QED  BY <1>0, <1>2, <2>5, <2>6, FlushStep
<1>. QED  BY <1>3, <1>4

LEMMA StopStep ==
    ASSUME Stands, TypeOK', Stop
    PROVE  Underway' /\ History' /\ ContractStep
<1>0. /\ UNCHANGED <<object, pack, saved>> /\ mode' = "unread" /\ inflight' = Nothing /\ stale' = {}
      /\ failed' = FALSE /\ owes' = FALSE /\ step' = "ok"
      /\ now' = [k \in Key |-> {Disk(k)}] /\ may' = now'
  BY DEF Stop, Forgotten, baseVars
<1>1. \A k \in Key : Disk(k)' = Disk(k) /\ View(k)' = Disk(k)
  BY <1>0, IndexedReads DEF Disk, Found
<1>2. History'
  BY <1>0, <1>1 DEF History, Heard, Indexed
<1>3. Contract!Restart
  BY <1>0, <1>1 DEF Contract!Restart, Contract!Only, Free
<1>. QED  BY <1>0, <1>2, <1>3, IdleUnderway DEF ContractStep, Contract!Next

\* A store is opened over what an earlier process left: nothing is under way, and
\* every key reads as storage has it.
LEMMA InitStands == Init => Stands /\ Contract!Init
<1>. SUFFICES ASSUME Init PROVE Stands /\ Contract!Init  OBVIOUS
<1>t. TypeOK /\ Control /\ Packs  BY InitTyped, InitStored
<1>1. PICK files \in [Key -> Value], packed \in SUBSET Key :
         /\ object = [k \in Key |-> IF k \in packed THEN None ELSE files[k]]
         /\ pack = [p \in PackId |-> IF p = 1 THEN {files[k] : k \in packed} ELSE {}]
         /\ None \notin pack[1]
         /\ saved = IF packed = {} THEN None
                    ELSE [NoIndex EXCEPT
                            !.packs = {1},
                            !.entry = [k \in Key |-> IF k \in packed THEN <<1, files[k]>>
                                                     ELSE IF files[k] # None THEN Direct
                                                     ELSE None]]
         /\ now = [k \in Key |-> {files[k]}] /\ may = now
  BY Zenon DEF Init
<1>2. /\ mode = "unread" /\ stale = {} /\ failed = FALSE /\ inflight = Nothing
      /\ step = "ok" /\ owes = FALSE
  BY DEF Init, Unloaded
<1>3. \A k \in Key : Disk(k) = files[k]
  <2>. SUFFICES ASSUME NEW k \in Key PROVE Disk(k) = files[k]  OBVIOUS
  <2>1. CASE packed = {}
    <3>1. saved = None /\ object[k] = files[k]  BY <1>1, <2>1
    <3>. QED  BY <3>1 DEF Disk
  <2>2. CASE packed # {}
    <3>1. saved # None
      <4>1. \A j \in packed : files[j] \in Content
        <5>1. 1 \in PackId  BY InitPacked
        <5>2. pack[1] = {files[j] : j \in packed}  BY <1>1, <5>1
        <5>. QED  BY <1>1, <5>2 DEF Value
      <4>2. [j \in Key |-> IF j \in packed THEN <<1, files[j]>> ELSE IF files[j] # None THEN Direct
                           ELSE None] \in [Key -> Entry \cup {None}]
        BY <4>1, InitPacked DEF Entry
      <4>3. {1} \in SUBSET PackId  BY InitPacked
      <4>4. saved \in Index  BY <1>1, <2>2, <4>2, <4>3, BlankValues, IndexTyped
      <4>. QED  BY <4>4, NoneAssumption
    <3>2. saved.entry[k] = IF k \in packed THEN <<1, files[k]>>
                           ELSE IF files[k] # None THEN Direct ELSE None
      BY <1>1, <2>2 DEF NoIndex
    <3>3. 1 \in PackId /\ pack[1] = {files[j] : j \in packed}  BY <1>1, InitPacked
    <3>4. CASE k \in packed
      <4>1. saved.entry[k] = <<1, files[k]>> /\ files[k] \in pack[1]  BY <3>2, <3>3, <3>4
      <4>2. files[k] \in Content /\ <<1, files[k]>>[1] = 1 /\ <<1, files[k]>>[2] = files[k]
        BY <1>1, <4>1 DEF Value
      <4>3. <<1, files[k]>> # Direct  BY DEF Direct
      <4>4. <<1, files[k]>> # None  BY <3>3, <4>2, NoneAssumption DEF Entry
      <4>. QED  BY <3>1, <4>1, <4>2, <4>3, <4>4 DEF Disk, Found
    <3>5. CASE k \notin packed
      <4>1. object[k] = files[k]  BY <1>1, <3>5
      <4>2. Direct # None  BY NoneAssumption DEF Entry
      <4>3. saved.entry[k] = None => files[k] = None  BY <3>2, <3>5, <4>2
      <4>4. saved.entry[k] \in {None, Direct}  BY <3>2, <3>5
      <4>. QED  BY <3>1, <4>1, <4>2, <4>3, <4>4 DEF Disk, Found
    <3>. QED  BY <3>4, <3>5
  <2>. QED  BY <2>1, <2>2
<1>4. \A k \in Key : View(k) = files[k]  BY <1>2, <1>3 DEF View, Indexed
<1>5. Underway  BY <1>2 DEF Underway, Apart, Nothing
<1>6. History  BY <1>1, <1>2, <1>3, <1>4 DEF History, Heard, Indexed
<1>7. Contract!Init
  <2>1. [k \in Key |-> View(k)] = files /\ [k \in Key |-> Disk(k)] = files
    BY <1>3, <1>4
  <2>2. Contract!Kept
    BY <1>1, <2>1 DEF Contract!Kept, Contract!Value, Value
  <2>. QED  BY <1>1, <1>2, <2>1, <2>2 DEF Contract!Init, Contract!Only, Free
<1>. QED  BY <1>t, <1>5, <1>6, <1>7 DEF Stands

LEMMA StepStands ==
    ASSUME Mishaps = {}, Blank = {}
    PROVE  Stands /\ [Next]_vars => Stands' /\ ContractStep
<1>. SUFFICES ASSUME Stands, [Next]_vars PROVE Stands' /\ ContractStep  OBVIOUS
<1>1. TypeOK' /\ Control'  BY StepTyped DEF Stands
<1>2. Packs'  BY <1>1, StepStored DEF Stands
<1>3. Underway' /\ History' /\ ContractStep
  <2>1. CASE UNCHANGED vars
    <3>1. UNCHANGED <<object, pack, saved, mode, idx, open, stale, failed, inflight, step,
                      owes, now, may>>
      BY <2>1 DEF vars, baseVars, spaceVars, flushVars
    <3>2. SameReads /\ \A k \in Key : Under(k)' = Under(k)
      BY <3>1 DEF SameReads, View, Disk, Under, Found, Indexed
    <3>3. Underway'
      <4>1. stale' \subseteq stale /\ \A k \in Key : open'.files[k] = open.files[k]
        BY <3>1
      <4>2. \A k \in Key : idx'.entry[k] = idx.entry[k] /\ object'[k] = object[k]  BY <3>1
      <4>. QED  BY <1>1, <3>1, <4>1, <4>2, SameUnderway
    <3>4. History'
      BY <3>1, <3>2 DEF SameReads, Stands, History, Heard, Indexed
    <3>. QED  BY <1>1, <3>1, <3>3, <3>4, CallStep
  <2>2. CASE Load \/ NextDay \/ Stop
    BY <1>1, <2>2, OpeningStep, StopStep
  <2>3. CASE Flushing
    <3>1. ASSUME NEW f \in BOOLEAN, FlushSeals(f) PROVE Underway' /\ History' /\ ContractStep
      BY <1>1, <3>1, FlushSealsStep
    <3>. QED  BY <1>1, <1>2, <2>3, <3>1, FlushesStep, TidyStep, WriteIndexStep, DropStep
              DEF Flushing
  <2>4. CASE Clients
    <3>1. ASSUME NEW k \in Key, \/ PutDirectEnds(k) \/ DeleteSource(k) \/ CopyEnds(k)
                                \/ Delete(k) \/ DeleteEnds(k)
          PROVE  Underway' /\ History' /\ ContractStep
      BY <1>1, <3>1, PutDirectEndsStep, DeleteSourceStep, CopyEndsStep, DeleteStep, DeleteEndsStep
    <3>2. ASSUME NEW k \in Key, NEW c \in Content, PutPacked(k, c) \/ PutDirect(k, c)
          PROVE  Underway' /\ History' /\ ContractStep
      BY <1>1, <3>2, PutPackedStep, PutDirectStep
    <3>3. ASSUME NEW s \in Key, NEW d \in Key, NEW move \in BOOLEAN,
                 CopyPacked(s, d, move) \/ CopyObject(s, d, move)
          PROVE  Underway' /\ History' /\ ContractStep
      BY <1>1, <3>3, CopyPackedStep, CopyObjectStep
    <3>. QED  BY <2>4, <3>1, <3>2, <3>3 DEF Clients
  <2>. QED  BY <2>1, <2>2, <2>3, <2>4 DEF Next
<1>. QED  BY <1>1, <1>2, <1>3 DEF Stands

\* Through concurrent calls, lost requests, lost packs, checkpoints, flushes,
\* sweeps and restarts, the bundle store does what StoreContract promises: every
\* step it takes is one of the contract's, or none.
THEOREM StoreKeepsContract ==
    ASSUME Mishaps = {}, Blank = {}
    PROVE  Spec => KeepsContract
<1>1. Init => Stands /\ Contract!Init  BY InitStands
<1>2. Stands /\ [Next]_vars => Stands' /\ ContractStep  BY StepStands
<1>. QED  BY <1>1, <1>2, PTL DEF Spec, KeepsContract, Contract!Spec, ContractStep

\* Whatever fails, what is in storage is what was there at the last save or what
\* a call since then asked for.
THEOREM OnRecordStays ==
    ASSUME Mishaps = {}, Blank = {}
    PROVE  Spec => []SavedIsSafe
<1>1. Init => Stands  BY InitStands
<1>2. Stands /\ [Next]_vars => Stands'  BY StepStands
<1>3. Stands => SavedIsSafe
  BY DEF Stands, History, Heard, SavedIsSafe
<1>. QED  BY <1>1, <1>2, <1>3, PTL DEF Spec

=============================================================================
