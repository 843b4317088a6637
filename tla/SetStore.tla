------------------------------ MODULE SetStore ------------------------------
(***************************************************************************)
(* The folders of one computer: sets.json, the index's records of each,    *)
(* and what storage keeps below each one's prefix.  Programs (the panel,   *)
(* commands, scheduled runs) each read the list once and write it whole;   *)
(* the index has a lock of its own, and storage has none.                  *)
(*                                                                         *)
(* A prefix is machines/<machine>/<name at creation>, and so is a name     *)
(* here.  `Slack' says which liberties a behaviour takes: a folder named   *)
(* as another one's prefix spells ("reuse"), a list saved, or a folder of  *)
(* it backed up, after another program changed it ("stale"), a rename cut  *)
(* short ("cut"), a rename of records that no run has tied to the storage  *)
(* in use, or onto a name tied to another one, and a switch before a run   *)
(* has tied the records, or a run begun before it ("unsettled"), and a     *)
(* folder never backed up given the name of another that was ("taken").    *)
(***************************************************************************)
EXTENDS Naturals, FiniteSets

CONSTANTS Title,  \* names of folders
          Longer, \* names that begin with the others
          Item,   \* files of a folder
          Store, NoStore, \* storages, and none recorded
          Program, Panel, Nobody, \* the panel is one of the programs
          Slack,
          MaxChanges, MaxDeaths \* bounds for TLC

ASSUME SetStoreAssumption ==
    /\ Longer \subseteq Title /\ NoStore \notin Store
    /\ Panel \in Program /\ Nobody \notin Program
    /\ Slack \subseteq {"reuse", "stale", "cut", "unsettled", "taken"}

Folder == [name : Title, prefix : Title, parked : BOOLEAN]
Idle   == [op |-> "none"]

VARIABLES
    list, mem,     \* sets.json, and the list each program has read
    task,          \* what each program is doing
    records, made, \* the index: files recorded, and the place of each name
    idx,           \* the program that has the index
    stored, here,  \* files in each storage by prefix, and the storage in use
    away,          \* prefixes of folders that have been moved on disk
    gone,          \* history: files a removal has deleted, of folders still there
    changes, deaths

setVars == <<list, mem, task, records, made, idx, stored, here, away, gone, changes, deaths>>

SetsInit ==
    /\ list = {} /\ mem = [p \in Program |-> {}] /\ task = [p \in Program |-> Idle]
    /\ records = [n \in Title |-> {}] /\ made = [n \in Title |-> NoStore] /\ idx = Nobody
    /\ stored = [s \in Store |-> [n \in Title |-> {}]] /\ here \in Store
    /\ away = {} /\ gone = [s \in Store |-> [n \in Title |-> {}]] /\ changes = 0 /\ deaths = 0

Names(sets) == {s.name : s \in sets}
Running(q)  == task[q].op \in {"run", "sent", "missing"}
Purging(q)  == task[q].op \in {"remove", "purged"} /\ task[q].purge
\* refuseWhileRunning and busyReason: a live progress file.
Refused == \E q \in Program : Running(q)
\* openApp, and the Reload the panel begins every call with.
Opens(p, t) ==
    /\ task[p] = Idle
    /\ mem' = [mem EXCEPT ![p] = list] /\ task' = [task EXCEPT ![p] = t]
Change == changes < MaxChanges /\ changes' = changes + 1
\* save: the list in memory, changed, over whatever the file holds.
Saves(p, sets) ==
    /\ "stale" \in Slack \/ mem[p] = list
    /\ list' = sets /\ mem' = [mem EXCEPT ![p] = sets]
Does(p, t) == task' = [task EXCEPT ![p] = t]
Backs(todo, at) == IF todo = {} THEN Idle ELSE [op |-> "backup", todo |-> todo, at |-> at]

-----------------------------------------------------------------------------
(* Adding a folder, moving one on disk, relinking it, and other storage.   *)

AddFolder(p, n) ==
    /\ n \notin Names(list) /\ Change
    /\ "reuse" \in Slack \/ \A s \in list : s.prefix # n
    /\ Opens(p, [op |-> "add", on |-> [name |-> n, prefix |-> n, parked |-> FALSE], at |-> here])
    /\ UNCHANGED <<list, records, made, idx, stored, here, away, gone, deaths>>
\* Store.Add, after the scan and the picker; then the first backup.
Added(p) ==
    /\ task[p].op = "add" /\ task[p].on.name \notin Names(mem[p])
    /\ Saves(p, mem[p] \cup {task[p].on}) /\ Does(p, Backs({task[p].on}, task[p].at))
    /\ UNCHANGED <<records, made, idx, stored, here, away, gone, changes, deaths>>
FolderMoves(n) ==
    /\ n \notin away /\ Change /\ away' = away \cup {n}
    /\ UNCHANGED <<list, mem, task, records, made, idx, stored, here, gone, deaths>>
Relinked(sets, n) ==
    {IF s.name = n THEN [s EXCEPT !.parked = FALSE] ELSE s : s \in sets}
\* The panel and the command read the list, and write it at once.
Relink(p, s) ==
    /\ task[p] = Idle /\ s \in list /\ s.prefix \in away
    /\ list' = Relinked(list, s.name) /\ mem' = [mem EXCEPT ![p] = list']
    /\ away' = away \ {s.prefix}
    /\ UNCHANGED <<task, records, made, idx, stored, here, gone, changes, deaths>>
\* Records with no place are taken to be about the storage of the next run.
Settled(n) == "unsettled" \in Slack \/ records[n] = {} \/ made[n] = here
\* What a run there makes of them, and what they are under another name.
SettledFor(n, at) == "unsettled" \in Slack \/ records[n] = {} \/ made[n] # NoStore \/ at = here
SettledAs(n, to)  == "unsettled" \in Slack \/ records[n] = {} \/ made[to] \in {NoStore, here}
SwitchStore(s) ==
    /\ s # here /\ Change /\ \A n \in Title : Settled(n) \/ made[n] # NoStore
    /\ here' = s
    /\ UNCHANGED <<list, mem, task, records, made, idx, stored, away, gone, deaths>>

-----------------------------------------------------------------------------
(* Backing up: one folder after another, of the list as it was read.       *)

BacksUp(p) ==
    /\ list # {} /\ Change /\ Opens(p, Backs(list, here))
    /\ UNCHANGED <<list, records, made, idx, stored, here, away, gone, deaths>>
\* Slip: the records of another storage are kept as they are.
TrueOfTrusting(s, at) == records[s.name]
\* forgetMissing: of records made for other storage, those it holds too.
TrueOf(s, at) ==
    IF made[s.name] \in {NoStore, at} THEN records[s.name]
    ELSE records[s.name] \cap stored[at][s.prefix]
TakesIndex(p, s) ==
    /\ task[p].op = "backup" /\ s \in task[p].todo /\ idx = Nobody
    /\ "stale" \in Slack \/ \E t \in list : t.name = s.name /\ t.prefix = s.prefix
    /\ SettledFor(s.name, task[p].at)
    /\ idx' = p
    /\ records' = [records EXCEPT ![s.name] = TrueOf(s, task[p].at)]
    /\ made' = [made EXCEPT ![s.name] = task[p].at]
    /\ Does(p, [op |-> IF s.prefix \in away THEN "missing" ELSE "run", on |-> s,
                todo |-> task[p].todo \ {s}, at |-> task[p].at])
    /\ UNCHANGED <<list, mem, stored, here, away, gone, changes, deaths>>
\* Five seconds without the lock: this folder is not backed up.
NoIndexFor(p, s) ==
    /\ task[p].op = "backup" /\ s \in task[p].todo /\ idx # Nobody
    /\ Does(p, Backs(task[p].todo \ {s}, task[p].at))
    /\ UNCHANGED <<list, mem, records, made, idx, stored, here, away, gone, changes, deaths>>
Sends(p, f) ==
    /\ task[p].op = "run" /\ f \notin records[task[p].on.name]
    /\ stored' = [stored EXCEPT ![task[p].at][task[p].on.prefix] = @ \cup {f}]
    /\ Does(p, [op |-> "sent", on |-> task[p].on, todo |-> task[p].todo, at |-> task[p].at, file |-> f])
    /\ UNCHANGED <<list, mem, records, made, idx, here, away, gone, changes, deaths>>
Notes(p) ==
    /\ task[p].op = "sent"
    /\ records' = [records EXCEPT ![task[p].on.name] = @ \cup {task[p].file}]
    /\ Does(p, [op |-> "run", on |-> task[p].on, todo |-> task[p].todo, at |-> task[p].at])
    /\ UNCHANGED <<list, mem, made, idx, stored, here, away, gone, changes, deaths>>
\* Over, whether every file was sent or not.
EndsRun(p) ==
    /\ task[p].op = "run"
    /\ idx' = Nobody /\ Does(p, Backs(task[p].todo, task[p].at))
    /\ UNCHANGED <<list, mem, records, made, stored, here, away, gone, changes, deaths>>
\* ErrRootMissing with nobody there: the folder is parked.
Parks(p) ==
    /\ task[p].op = "missing" /\ idx' = Nobody
    /\ Saves(p, {IF s.name = task[p].on.name THEN [s EXCEPT !.parked = TRUE] ELSE s : s \in mem[p]})
    /\ Does(p, Backs(task[p].todo, task[p].at))
    /\ UNCHANGED <<records, made, stored, here, away, gone, changes, deaths>>
\* offerRelink: with somebody there, the folder is found and backed up.
SaysWhere(p) ==
    /\ task[p].op = "missing" /\ idx' = Nobody
    /\ task[p].on.name \in Names(mem[p]) /\ Saves(p, Relinked(mem[p], task[p].on.name))
    /\ away' = away \ {task[p].on.prefix}
    /\ Does(p, Backs(task[p].todo \cup {[task[p].on EXCEPT !.parked = FALSE]}, task[p].at))
    /\ UNCHANGED <<records, made, stored, here, gone, changes, deaths>>

-----------------------------------------------------------------------------
(* Renaming: the index first, and back again when the list refuses.        *)

Renames(p, s, to) ==
    /\ s \in list /\ to # s.name /\ ~Refused /\ Change
    /\ Opens(p, [op |-> "rename", from |-> s.name, to |-> to])
    /\ UNCHANGED <<list, records, made, idx, stored, here, away, gone, deaths>>
\* RenameSet: the records of one name are those of the other.
Moved(from, to) == [records EXCEPT ![to] = records[from], ![from] = {}]
MovesRecords(p) ==
    /\ task[p].op = "rename" /\ idx = Nobody
    /\ Settled(task[p].from) /\ SettledAs(task[p].from, task[p].to)
    /\ "taken" \in Slack \/ records[task[p].from] # {} \/ task[p].to \notin Names(mem[p])
    /\ LET t == task[p] IN
       \/ /\ records[t.from] = {}
          /\ Does(p, [t EXCEPT !.op = "renamed"]) /\ idx' = p /\ UNCHANGED records
       \/ /\ records[t.from] # {} /\ records[t.to] = {} /\ records' = Moved(t.from, t.to)
          /\ Does(p, [t EXCEPT !.op = "renamed"]) /\ idx' = p
       \/ /\ records[t.from] # {} /\ records[t.to] # {}
          /\ Does(p, Idle) /\ UNCHANGED <<records, idx>>
    /\ UNCHANGED <<list, mem, made, stored, here, away, gone, changes, deaths>>
NameTaken(p) == task[p].to \in Names(mem[p])
TakesName(p) ==
    /\ task[p].op = "renamed" /\ ~NameTaken(p)
    /\ Saves(p, {IF s.name = task[p].from THEN [s EXCEPT !.name = task[p].to] ELSE s : s \in mem[p]})
    /\ idx' = Nobody /\ Does(p, Idle)
    /\ UNCHANGED <<records, made, stored, here, away, gone, changes, deaths>>
PutBack(p) ==
    IF records[task[p].to] # {} /\ records[task[p].from] = {}
    THEN Moved(task[p].to, task[p].from) ELSE records
NameRefused(p) ==
    /\ task[p].op = "renamed" /\ NameTaken(p)
    /\ records' = PutBack(p) /\ idx' = Nobody /\ Does(p, Idle)
    /\ UNCHANGED <<list, mem, made, stored, here, away, gone, changes, deaths>>

-----------------------------------------------------------------------------
(* Removing a folder, with its backup or without, and deleting the backup  *)
(* of no folder.                                                           *)

\* Slip: a prefix takes whatever begins with it.
BareScope(n) == {n} \cup Longer
\* KeyScope ends in a slash: no other prefix begins with it.
KeyScope(n) == {n}
\* DeletePrefix, which leaves some of the files when it fails.
Deleted(at, n, left) ==
    [stored EXCEPT ![at] = [m \in Title |-> IF m \in KeyScope(n) THEN @[m] \cap left ELSE @[m]]]
Removes(p, s, purge) ==
    /\ s \in list /\ ~Refused /\ Change
    /\ Opens(p, [op |-> "remove", on |-> s, purge |-> purge, at |-> here])
    /\ UNCHANGED <<list, records, made, idx, stored, here, away, gone, deaths>>
Deletes(p, left) ==
    /\ task[p].op = "remove" /\ task[p].purge
    /\ stored' = Deleted(task[p].at, task[p].on.prefix, left)
    /\ gone' = [gone EXCEPT ![task[p].at][task[p].on.prefix] = @ \cup (stored[task[p].at][task[p].on.prefix] \ left)]
    /\ UNCHANGED <<list, mem, records, made, idx, here, away, changes, deaths>>
Purges(p) == Deletes(p, {}) /\ Does(p, [task[p] EXCEPT !.op = "purged"])
\* It failed, or was interrupted: the folder and its records stay.
PurgeFails(p) == (\E left \in SUBSET Item : Deletes(p, left)) /\ Does(p, Idle)
DropSet(n) == [records EXCEPT ![n] = {}]
DropsNow(p) == task[p].op = "purged" \/ (task[p].op = "remove" /\ ~task[p].purge)
DropsRecords(p) ==
    /\ DropsNow(p)
    /\ idx = Nobody /\ idx' = p /\ records' = DropSet(task[p].on.name)
    /\ Does(p, [op |-> "forget", on |-> task[p].on])
    /\ UNCHANGED <<list, mem, made, stored, here, away, gone, changes, deaths>>
\* Five seconds without the lock: the folder stays, whatever was deleted.
NotRemoved(p) ==
    /\ (DropsNow(p) \/ task[p].op = "rename") /\ idx # Nobody
    /\ Does(p, Idle)
    /\ UNCHANGED <<list, mem, records, made, idx, stored, here, away, gone, changes, deaths>>
Forgets(p) ==
    /\ task[p].op = "forget"
    /\ Saves(p, {s \in mem[p] : s.name # task[p].on.name})
    /\ idx' = Nobody /\ Does(p, Idle)
    /\ gone' = [at \in Store |-> [n \in Title |-> IF \E s \in list' : s.prefix = n THEN gone[at][n] ELSE {}]]
    /\ UNCHANGED <<records, made, stored, here, away, changes, deaths>>
\* deleteStoredBackup, of a prefix that is no folder's: by the list the panel
\* has, which it reads again every time it draws itself.
DeletesStored(n) ==
    /\ task[Panel] = Idle /\ ~Refused /\ Change /\ stored[here][n] # {}
    /\ "stale" \in Slack \/ mem[Panel] = list
    /\ \A s \in mem[Panel] : s.prefix # n
    /\ \E left \in SUBSET Item : stored' = Deleted(here, n, left)
    /\ UNCHANGED <<list, mem, task, records, made, idx, here, away, gone, deaths>>
Draws ==
    /\ task[Panel] = Idle /\ mem[Panel] # list
    /\ mem' = [mem EXCEPT ![Panel] = list]
    /\ UNCHANGED <<list, task, records, made, idx, stored, here, away, gone, changes, deaths>>

\* A program is ended.  The lock of the index goes with it.
IsKilled(p) ==
    /\ deaths < MaxDeaths /\ deaths' = deaths + 1 /\ task[p] # Idle
    /\ "cut" \in Slack \/ task[p].op # "renamed"
    /\ Does(p, Idle) /\ idx' = IF idx = p THEN Nobody ELSE idx
    /\ UNCHANGED <<list, mem, records, made, stored, here, away, gone, changes>>

SetsNext ==
    \/ \E p \in Program :
       \/ Added(p) \/ BacksUp(p) \/ Notes(p) \/ EndsRun(p) \/ Parks(p) \/ SaysWhere(p)
       \/ MovesRecords(p) \/ TakesName(p) \/ NameRefused(p)
       \/ Purges(p) \/ PurgeFails(p) \/ DropsRecords(p) \/ NotRemoved(p) \/ Forgets(p) \/ IsKilled(p)
       \/ \E n \in Title : AddFolder(p, n)
       \/ \E f \in Item : Sends(p, f)
       \/ \E s \in Folder : TakesIndex(p, s) \/ NoIndexFor(p, s) \/ Relink(p, s)
       \/ \E s \in Folder, to \in Title : Renames(p, s, to)
       \/ \E s \in Folder, purge \in BOOLEAN : Removes(p, s, purge)
    \/ Draws
    \/ \E n \in Title : DeletesStored(n) \/ FolderMoves(n)
    \/ \E s \in Store : SwitchStore(s)
SetsSpec == SetsInit /\ [][SetsNext]_setVars
-----------------------------------------------------------------------------
(* What holds.                                                             *)

TaskType(t) ==
    \/ t = Idle
    \/ t.op = "add" /\ t.on \in Folder /\ t.at \in Store
    \/ t.op = "backup" /\ t.todo \subseteq Folder /\ t.todo # {} /\ t.at \in Store
    \/ /\ t.op \in {"run", "missing", "sent"} /\ t.on \in Folder
       /\ t.todo \subseteq Folder /\ t.at \in Store /\ t.op = "sent" => t.file \in Item
    \/ t.op \in {"rename", "renamed"} /\ t.from \in Title /\ t.to \in Title
    \/ t.op \in {"remove", "purged"} /\ t.on \in Folder /\ t.purge \in BOOLEAN /\ t.at \in Store
    \/ t.op = "forget" /\ t.on \in Folder
\* Every variable has its type, and a list has a name once.
SetsTypeOK ==
    /\ \A sets \in {list} \cup {mem[p] : p \in Program} :
        sets \subseteq Folder /\ \A s, t \in sets : s.name = t.name => s = t
    /\ \A p \in Program : TaskType(task[p])
    /\ records \in [Title -> SUBSET Item] /\ made \in [Title -> Store \cup {NoStore}]
    /\ idx \in Program \cup {Nobody} /\ here \in Store
    /\ stored \in [Store -> [Title -> SUBSET Item]] /\ away \subseteq Title
    /\ gone \in [Store -> [Title -> SUBSET Item]]

\* A record of a folder says its file is in the storage the records are
\* about, below the folder's own prefix: the plan sends no file that has one.
\* Whenever a run can look it is so, whatever programs back up, rename, switch,
\* remove and are killed at once within Slack, but for the files a removal has
\* deleted of a folder that no removal has forgotten yet: one that fails or is
\* interrupted there leaves records of them.
RecordsHold ==
    (idx = Nobody \/ Running(idx)) =>
        \A s \in list :
            LET at == IF made[s.name] = NoStore THEN here ELSE made[s.name]
            IN records[s.name] \subseteq stored[at][s.prefix] \cup gone[at][s.prefix]
\* What storage keeps of a folder is deleted only to remove that folder.
PurgeSparesOthers ==
    [][\A s \in list, at \in Store :
        ~(stored[at][s.prefix] \subseteq stored'[at][s.prefix]) =>
            \E p \in Program : Purging(p) /\ task[p].on.prefix = s.prefix]_setVars
=============================================================================
