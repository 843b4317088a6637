--------------------------- MODULE StoreContract ---------------------------
(***************************************************************************)
(* What internal/bundle promises the code above it: "Nothing written since *)
(* the last Flush is on record until it returns" (bundle.go:882), and once *)
(* it has returned without an error all of it is.  In between each key is  *)
(* in storage as it was at the last save or as some call made since asked  *)
(* for.  A write that is lost after its call returned is reported by the   *)
(* next flush (bundle.go:246).                                             *)
(***************************************************************************)
CONSTANTS
    Key,       \* keys of one backup
    Content,   \* what a file can hold
    None       \* no file

VARIABLES
    view,      \* what the store answers for each key
    disk,      \* what a store opened now, by another process, would answer
    now,       \* per key, what it may answer: what the last call that returned
               \* made of it, and what calls that have not or that failed may
    may,       \* per key, what may be in storage: what was there at the last
               \* save, and what calls since then asked for
    lost,      \* something asked for is lost and no flush has said so
    answer     \* of the last Flush or Checkpoint: "ok" or "failed", "none" meanwhile

vars == <<view, disk, now, may, lost, answer>>

Value == Content \cup {None}
Only(files) == [k \in Key |-> {files[k]}]

\* The promise itself.
Kept == /\ view \in [Key -> Value] /\ disk \in [Key -> Value]
        /\ \A k \in Key : view[k] \in now[k] /\ disk[k] \in may[k]

Init == /\ Kept
        /\ disk = view /\ now = Only(view) /\ may = Only(view)
        /\ lost = FALSE /\ answer = "ok"

\* Calls begin, take effect and return.
Asks == /\ now' \in [Key -> SUBSET Value] /\ may' \in [Key -> SUBSET Value]
        /\ \A k \in Key : may[k] \subseteq may'[k] /\ now'[k] \subseteq may'[k] \cup now[k]
        /\ Kept'

Calls == Asks /\ UNCHANGED <<lost, answer>>

\* Some of what they asked for is lost. A flush may be what finds out.
Lose == /\ Asks
        /\ lost' = TRUE /\ answer' \in {answer, "none"}
        /\ UNCHANGED disk

Begin == answer' = "none" /\ UNCHANGED <<view, disk, now, may, lost>>

\* All keys are saved at once.
Save == disk' = view /\ may' = now /\ UNCHANGED <<view, now, lost, answer>>

Succeed == /\ answer = "none" /\ answer' = "ok"
           /\ ~lost /\ disk = view
           /\ UNCHANGED <<view, disk, now, may, lost>>

Fail == /\ answer = "none" /\ answer' = "failed"
        /\ disk' \in {disk, view} /\ Kept' /\ lost' \in {lost, FALSE}
        /\ UNCHANGED <<view, now, may>>

Restart == /\ view' = disk /\ now' = Only(disk) /\ may' = Only(disk)
           /\ lost' = FALSE /\ answer' = "ok"
           /\ UNCHANGED disk

Next == Calls \/ Lose \/ Begin \/ Save \/ Succeed \/ Fail \/ Restart

Spec == Init /\ [][Next]_vars
=============================================================================
