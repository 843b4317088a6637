-------------------------------- MODULE Runs --------------------------------
(***************************************************************************)
(* Backups of one computer: the process the panel starts, and one of the   *)
(* scheduler or a terminal.  They share no memory.  What they share is     *)
(* the index's lock and four files: the progress of the run, its pause     *)
(* marker, the marker of a stop by hand, and the history.                  *)
(*                                                                         *)
(* A process is named by its pid, and backs up its folders one by one.     *)
(* Times are compared, never kept: whether the progress file is young,     *)
(* whether the stop was marked after its last time stamp, and whether a    *)
(* pause was asked for after its process began.                            *)
(***************************************************************************)
EXTENDS Naturals, FiniteSets, Sequences

CONSTANTS Child, Other,  \* the process of the panel, and the other one
          NoPid,
          Folders,       \* how many folders one process backs up
          PidReused,     \* after a restart another program may have a run's pid
          MaxHistory,    \* how many finished runs the history keeps
          MaxStarts, MaxCuts, MaxWishes \* bounds for TLC

Proc == {Child, Other}
ASSUME RunsAssumption == NoPid \notin Proc /\ Folders \in Nat \ {0} /\ MaxHistory \in Nat \ {0}
NoLive == [pid |-> NoPid, young |-> FALSE]
NoPause == [pid |-> NoPid, fresh |-> FALSE]

VARIABLES
    rpc, left,        \* each process: what it is at, and folders still to back up
    lock,             \* who holds the index
    live, handMarked, \* progress.json; the stop marker is no older than its time stamp
    stamped,          \* each process's time stamp not yet written: "none", "new", "before the mark"
    pausefile, held,  \* the pause marker, and the runs that obey one
    pauser,           \* the pid a pause is about to be written for
    history, reading, \* history.json, newest first, and what a Record has read of it
    stopping, carry,  \* the panel has killed its run and not yet marked the stop; where its carryOn is
    registered,       \* automatic backups are on
    inUse,            \* pids of dead runs that another program has now
    lastEnd, found, asked, finished, \* history of the behaviour: see the properties
    starts, cuts, wishes

pidVars  == <<rpc, left, lock>>
liveVars  == <<live, handMarked, stamped>>
holdVars  == <<pausefile, held, pauser, asked>>
listVars  == <<history, reading, finished>>
panelVars == <<stopping, carry, registered, found>>
runBounds == <<starts, cuts, wishes>>
runVars   == <<pidVars, liveVars, holdVars, listVars, panelVars, inUse, lastEnd, runBounds>>

RunsInit ==
    /\ rpc = [p \in Proc |-> "off"] /\ left = [p \in Proc |-> 0] /\ lock = NoPid
    /\ live = NoLive /\ handMarked = FALSE /\ stamped = [p \in Proc |-> "none"]
    /\ pausefile = NoPause /\ held = {} /\ pauser = NoPid /\ asked = {}
    /\ history = <<>> /\ reading = [p \in Proc |-> <<>>] /\ finished = <<>>
    /\ stopping = FALSE /\ carry = "off" /\ registered \in BOOLEAN /\ found = "none"
    /\ inUse = {} /\ lastEnd = "none" /\ starts = 0 /\ cuts = 0 /\ wishes = 0

Alive(pid) == pid # NoPid /\ (rpc[pid] # "off" \/ pid \in inUse)
\* Live.Stale and ReadInterrupted. An old file is one nothing has touched for
\* the two minutes of abandonedAfter.
LiveNow     == live.pid # NoPid /\ live.young /\ Alive(live.pid)
\* Slip: only an old file is of a run that was cut off.
InterruptedLater == live.pid # NoPid /\ ~live.young
Interrupted == live.pid # NoPid /\ ~(live.young /\ Alive(live.pid))

-----------------------------------------------------------------------------
(* runOne, and dashboard.Backup.                                           *)

Begins(p) ==
    /\ rpc[p] = "off" /\ starts < MaxStarts /\ starts' = starts + 1
    /\ rpc' = [rpc EXCEPT ![p] = "index"] /\ left' = [left EXCEPT ![p] = Folders]
    /\ pausefile' = [pausefile EXCEPT !.fresh = @ /\ pausefile.pid # p]
    /\ asked' = asked \ {p} /\ inUse' = inUse \ {p}
\* The schedule, sign-in when it is on, or someone at a terminal.
OtherStarts ==
    /\ Begins(Other)
    /\ UNCHANGED <<lock, liveVars, held, pauser, listVars, panelVars, lastEnd, cuts, wishes>>
\* BackUp, while the panel has no child; a stop under way holds what start needs.
BackUp ==
    /\ ~stopping /\ Begins(Child)
    /\ UNCHANGED <<lock, liveVars, held, pauser, listVars, panelVars, lastEnd, cuts, wishes>>
GetsIndex(p) ==
    /\ rpc[p] = "index" /\ lock = NoPid /\ lock' = p
    /\ rpc' = [rpc EXCEPT ![p] = "watch"] /\ lastEnd' = "running"
    /\ UNCHANGED <<left, liveVars, holdVars, listVars, panelVars, inUse, runBounds>>
\* ErrLocked after five seconds: nothing is recorded, and no file is touched.
NoIndex(p) ==
    /\ rpc[p] = "index" /\ lock # NoPid
    /\ rpc' = [rpc EXCEPT ![p] = "off"]
    /\ UNCHANGED <<left, lock, liveVars, holdVars, listVars, panelVars, inUse, lastEnd, runBounds>>

\* For, asked by the process it is about.
For(p) == pausefile.pid = p /\ pausefile.fresh
\* watchPause clears a marker of anyone else.
Watches(p) ==
    /\ rpc[p] = "watch" /\ rpc' = [rpc EXCEPT ![p] = "run"]
    /\ pausefile' = IF For(p) THEN pausefile ELSE NoPause
    /\ held' = IF For(p) THEN held \cup {p} ELSE held
    /\ UNCHANGED <<left, lock, liveVars, pauser, asked, listVars, panelVars, inUse, lastEnd, runBounds>>
PollsPause(p) ==
    /\ rpc[p] = "run" /\ For(p) # (p \in held)
    /\ held' = IF For(p) THEN held \cup {p} ELSE held \ {p}
    /\ UNCHANGED <<pidVars, liveVars, pausefile, pauser, asked, listVars, panelVars, inUse, lastEnd, runBounds>>
\* WriteLive: the time stamp, and then the rename.
Stamps(p) ==
    /\ rpc[p] = "run" /\ stamped[p] = "none"
    /\ ~(live = [pid |-> p, young |-> TRUE] /\ ~handMarked)
    /\ stamped' = [stamped EXCEPT ![p] = "new"]
    /\ UNCHANGED <<pidVars, live, handMarked, holdVars, listVars, panelVars, inUse, lastEnd, runBounds>>
\* Slip: a file's age is the time it was renamed.
WritesLate(p) ==
    /\ stamped[p] # "none"
    /\ live' = [pid |-> p, young |-> TRUE] /\ handMarked' = FALSE
    /\ stamped' = [stamped EXCEPT ![p] = "none"]
    /\ UNCHANGED <<pidVars, holdVars, listVars, panelVars, inUse, lastEnd, runBounds>>
\* A killed process's rename may have been on its way to the disk.
Writes(p) ==
    /\ stamped[p] # "none"
    /\ live' = [pid |-> p, young |-> TRUE] /\ handMarked' = (stamped[p] = "before the mark")
    /\ stamped' = [stamped EXCEPT ![p] = "none"]
    /\ UNCHANGED <<pidVars, holdVars, listVars, panelVars, inUse, lastEnd, runBounds>>

\* The run returns, and Record reads the list; a run that is held does not.
Returns(p) ==
    /\ rpc[p] = "run" /\ stamped[p] = "none" /\ p \notin held
    /\ reading' = [reading EXCEPT ![p] = history]
    /\ rpc' = [rpc EXCEPT ![p] = "record"]
    /\ UNCHANGED <<left, lock, liveVars, holdVars, history, finished, panelVars, inUse, lastEnd, runBounds>>
ThisRun(p) == <<p, starts, left[p]>>
\* What Record writes: this run before those it read, and the oldest over MaxHistory cut.
Newest(run, runs) ==
    [i \in 1..(IF Len(runs) < MaxHistory THEN Len(runs) + 1 ELSE MaxHistory) |->
        IF i = 1 THEN run ELSE runs[i - 1]]
\* Reading or writing the list may fail, and nothing is said of it.
Records(p) ==
    /\ rpc[p] = "record"
    /\ \/ history' = Newest(ThisRun(p), reading[p]) /\ finished' = <<ThisRun(p)>> \o finished
       \/ UNCHANGED <<history, finished>>
    /\ reading' = [reading EXCEPT ![p] = <<>>]
    /\ rpc' = [rpc EXCEPT ![p] = "clear"]
    /\ UNCHANGED <<left, lock, liveVars, holdVars, panelVars, inUse, lastEnd, runBounds>>
\* The deferred calls: ClearLive, the pause marker, and the index last.
Clears(p) ==
    /\ rpc[p] = "clear"
    /\ live' = NoLive /\ pausefile' = NoPause /\ held' = held \ {p} /\ lock' = NoPid
    /\ left' = [left EXCEPT ![p] = @ - 1]
    /\ rpc' = [rpc EXCEPT ![p] = IF left[p] > 1 THEN "index" ELSE "off"]
    /\ lastEnd' = "done"
    /\ UNCHANGED <<handMarked, stamped, pauser, asked, listVars, panelVars, inUse, runBounds>>

-----------------------------------------------------------------------------
(* The person, the panel and the computer.                                 *)

Wish == wishes < MaxWishes /\ wishes' = wishes + 1 /\ UNCHANGED <<starts, cuts>>
\* What dies with a process: everything but the files.
Dies(ps) ==
    /\ rpc' = [p \in Proc |-> IF p \in ps THEN "off" ELSE rpc[p]]
    /\ lock' = IF lock \in ps THEN NoPid ELSE lock
    /\ held' = held \ ps /\ reading' = [p \in Proc |-> IF p \in ps THEN <<>> ELSE reading[p]]
    /\ UNCHANGED <<left, history, finished>>
\* markStoppedByHand.
Mark ==
    /\ handMarked' = TRUE
    /\ stamped' = [p \in Proc |-> IF stamped[p] = "none" THEN "none" ELSE "before the mark"]
\* stop: the child is killed first, and the stop is marked after. What ends
\* the panel between the two leaves the stop unmarked.
Stop ==
    /\ ~stopping /\ rpc[Child] # "off" /\ Wish
    /\ Dies({Child}) /\ stopping' = TRUE
    /\ lastEnd' = IF lock = Child THEN "killed" ELSE lastEnd
    /\ UNCHANGED <<liveVars, pausefile, pauser, asked, carry, registered, found, inUse>>
\* The mark may not be written: its errors are dropped.
MarksStop ==
    /\ stopping /\ stopping' = FALSE
    /\ \/ Mark /\ lastEnd' = IF lastEnd = "killed" THEN "stopped" ELSE lastEnd
       \/ UNCHANGED <<handMarked, stamped, lastEnd>>
    /\ UNCHANGED <<pidVars, live, holdVars, listVars, carry, registered, found, inUse, runBounds>>
\* setRunPaused: it reads which run is live, and writes a marker for its pid.
AsksPause ==
    /\ LiveNow /\ pauser = NoPid /\ Wish
    /\ pauser' = live.pid /\ asked' = asked \cup {live.pid}
    /\ UNCHANGED <<pidVars, liveVars, pausefile, held, listVars, panelVars, inUse, lastEnd>>
\* A process begun since has another pid.
SetsPause ==
    /\ pauser # NoPid /\ pausefile' = [pid |-> pauser, fresh |-> pauser \in asked] /\ pauser' = NoPid
    /\ UNCHANGED <<pidVars, liveVars, held, asked, listVars, panelVars, inUse, lastEnd, runBounds>>
Resumes ==
    /\ LiveNow /\ pausefile # NoPause /\ pausefile' = NoPause
    /\ UNCHANGED <<pidVars, liveVars, held, pauser, asked, listVars, panelVars, inUse, lastEnd, runBounds>>
ClearsActivity ==
    /\ history # <<>> /\ Wish /\ history' = <<>> /\ finished' = <<>>
    /\ UNCHANGED <<pidVars, liveVars, holdVars, reading, panelVars, inUse, lastEnd>>
Schedules ==
    /\ Wish /\ registered' = ~registered
    /\ UNCHANGED <<pidVars, liveVars, holdVars, listVars, stopping, carry, found, inUse, lastEnd>>
\* Two minutes go by without a write: the computer slept, or the run is dead.
Ages ==
    /\ live.young /\ live' = [live EXCEPT !.young = FALSE]
    /\ \A p \in Proc : stamped[p] = "none"
    /\ UNCHANGED <<pidVars, handMarked, stamped, holdVars, listVars, panelVars, inUse, lastEnd, runBounds>>
\* The computer is restarted, and the panel with it, at signing in.
Restarts ==
    /\ cuts < MaxCuts /\ cuts' = cuts + 1 /\ UNCHANGED <<starts, wishes>>
    /\ Dies(Proc) /\ stamped' = [p \in Proc |-> "none"] /\ pauser' = NoPid
    /\ lastEnd' = IF lock # NoPid THEN "cut" ELSE lastEnd
    /\ inUse' \in IF PidReused THEN SUBSET Proc ELSE {{}}
    /\ stopping' = FALSE /\ carry' = "start"
    /\ UNCHANGED <<live, handMarked, pausefile, asked, registered, found>>

-----------------------------------------------------------------------------
(* carryOn.                                                                *)

StoppedByHand == handMarked
\* shouldCarryOn up to its look at the index. Busy waits for a stop under way,
\* after the files are looked at, and may still find the child it ended.
MayCarryOn == Interrupted /\ ~StoppedByHand /\ rpc[Child] = "off" /\ ~registered
LooksFirst ==
    /\ carry = "start"
    /\ \/ carry' = IF MayCarryOn /\ lock = NoPid THEN "wait" ELSE "off"
       \/ stopping /\ carry' = "off"
    /\ UNCHANGED <<pidVars, liveVars, holdVars, listVars, stopping, registered, found, inUse, lastEnd, runBounds>>
\* A minute later: the files, and then the index, which is waited for.
LooksAgain ==
    /\ carry = "wait"
    /\ \/ MayCarryOn /\ carry' = "index" /\ found' = lastEnd
       \/ (~MayCarryOn \/ stopping) /\ carry' = "off" /\ UNCHANGED found
    /\ UNCHANGED <<pidVars, liveVars, holdVars, listVars, stopping, registered, inUse, lastEnd, runBounds>>
CarriesOn ==
    /\ ~stopping /\ carry = "index" /\ carry' = "off"
    /\ IF lock = NoPid /\ rpc[Child] = "off"
       THEN Begins(Child)
       ELSE UNCHANGED <<rpc, left, pausefile, asked, inUse, starts>>
    /\ UNCHANGED <<lock, liveVars, held, pauser, listVars, stopping, registered, found, lastEnd, cuts, wishes>>

RunOf(p) ==
    \/ GetsIndex(p) \/ NoIndex(p) \/ Watches(p) \/ PollsPause(p) \/ Stamps(p) \/ Writes(p)
    \/ Returns(p) \/ Records(p) \/ Clears(p)
Carrying == LooksFirst \/ LooksAgain \/ CarriesOn
RunsNext ==
    \/ \E p \in Proc : RunOf(p)
    \/ OtherStarts \/ BackUp \/ Stop \/ MarksStop \/ AsksPause \/ SetsPause \/ Resumes \/ ClearsActivity \/ Schedules
    \/ Ages \/ Restarts \/ Carrying
\* A run goes on by itself, and so does the panel; nobody has to do anything.
RunsFairness == (\A p \in Proc : WF_runVars(RunOf(p))) /\ WF_runVars(Carrying)
RunsSpec == RunsInit /\ [][RunsNext]_runVars /\ RunsFairness

-----------------------------------------------------------------------------
(* Properties.                                                             *)

RunsTypeOK ==
    /\ rpc \in [Proc -> {"off", "index", "watch", "run", "record", "clear"}]
    /\ left \in [Proc -> 0..Folders] /\ lock \in Proc \cup {NoPid} /\ live.pid \in Proc \cup {NoPid}
    /\ \A p \in Proc : rpc[p] \in {"watch", "run", "record", "clear"} <=> lock = p
    /\ held \subseteq Proc /\ carry \in {"off", "start", "wait", "index"}
    /\ lastEnd \in {"none", "running", "done", "cut", "killed", "stopped"}
    /\ stopping \in BOOLEAN /\ Len(history) <= MaxHistory

\* What the panel sets out to carry on is never a backup whose stop is marked,
\* whatever was restarted since and whatever write of it was on its way. A stop
\* cut off before its mark, or whose mark is not written, ends as "killed": that
\* backup is carried on.
StopIsKept == carry = "index" => found # "stopped"

\* tray_resume.go: nor is it started "when the person stopped that backup
\* themselves". The index is waited for between the look and the start.
StopIsFinal == [][carry = "index" /\ carry' = "off" /\ starts' > starts => lastEnd # "stopped"]_runVars

\* A run is held only by a pause asked of its own process: one left by a crash
\* or a restart holds nothing, also when its pid comes back.
PauseIsAsked == held \subseteq asked

\* Of the runs recorded since the list was cleared the newest MaxHistory are the
\* first of the list, in their order. A run whose Record failed is in neither.
RunsAreRecorded ==
    \A k \in 1..MaxHistory : k <= Len(finished) => k <= Len(history) /\ history[k] = finished[k]

\* A backup cut off by a restart goes on by itself, unless automatic backups
\* are on, someone stopped it, or something else had its turn.
CutRunsCarryOn ==
    (carry = "start" /\ lastEnd = "cut" /\ live.pid # NoPid /\ ~handMarked)
        ~> (lastEnd # "cut" \/ registered \/ handMarked \/ starts = MaxStarts \/ rpc[Child] # "off")
=============================================================================
