------------------------------ MODULE Schedule ------------------------------
(***************************************************************************)
(* Backups that run by themselves: the one entry r2backup keeps with the   *)
(* operating system's scheduler, and the commands, the panel's switch and  *)
(* the offers that make, repair and remove it.                             *)
(*                                                                         *)
(* A wish is what a person asks for: <<"every", minutes>>, <<"daily",      *)
(* minute of the day>> or Off.  An entry is known by the name of its data  *)
(* directory.  systemd and launchd start what they have in memory, and     *)
(* read their files again when the person signs in; cron and Task          *)
(* Scheduler act on what they were given.                                  *)
(***************************************************************************)
EXTENDS Integers, FiniteSets

CONSTANTS
    Name, Plain,          \* the data directories' names; the default one's is inside every other
    Place,                \* where the program's file may be
    Interval, Moment,     \* the minutes between runs and times of day people pick
    Off,
    Switches,             \* whether systemd comes and goes between sessions
    Aside,                \* whether the terminal changes a schedule the panel has just read
    MaxAsked, MaxSlipped, MaxMoved \* bounds for TLC

ASSUME ScheduleAssumption ==
    /\ Interval \subseteq Nat \ {0} /\ Moment \subseteq 0..1439 /\ Plain \in Name
    /\ Switches \in BOOLEAN /\ Aside \in BOOLEAN
    /\ {MaxAsked, MaxSlipped, MaxMoved} \subseteq Nat
\* Off is none of what is written down.
ASSUME OffAssumption ==
    /\ Off \notin Nat \cup (Nat \X Nat) \cup (Nat \X {"h", "min"}) \cup ({"every", "daily"} \X Nat)
    /\ Off \notin [wish : {"every", "daily"} \X Nat, aim : Place]
    /\ Off \notin [repeat : (Nat \X Nat) \cup {Off}, start : Nat \X Nat, aim : Place,
                   logon : {"S4U", "InteractiveToken"}]

VARIABLES
    os, manager,   \* the system, and the person's systemd: "none", "silent" (installed only) or "up"
    reg,           \* of each name: unit files or plist, what is held in memory, and the task;
                   \* history: what is held is what a failed request did not stop
    crontab,       \* our lines in it
    exe,          \* where the program is now
    seen,          \* the panel's cached status
    asked, told,   \* history: the wish in force, and whether the last command said it was met
    uses, slips, moves

regVars == <<reg, crontab>>
schedVars == <<os, manager, regVars, exe, seen, asked, told, uses, slips, moves>>

DefaultIntervalMinutes == 30
Wish == {<<"every", n>> : n \in Interval} \cup {<<"daily", t>> : t \in Moment}
\* ValidateIntervalMinutes, and the hours and minutes of ParseDailyAt.
Allowed(w) == w[1] = "every" => w[2] >= 5 /\ w[2] <= 24 * 60

SchedInit ==
    /\ os \in {"linux", "darwin", "windows"}
    /\ manager \in (IF os = "linux" THEN {"none", "silent", "up"} ELSE {"none"})
    /\ reg = [n \in Name |-> [file |-> Off, aim |-> Off, enabled |-> FALSE, held |-> Off, task |-> Off,
                               unstopped |-> FALSE]]
    /\ crontab = {} /\ exe \in Place /\ seen = [n \in Name |-> {}]
    /\ asked = [n \in Name |-> Off] /\ told = [n \in Name |-> TRUE]
    /\ uses = 0 /\ slips = 0 /\ moves = 0

(***************************************************************************)
(* How each scheduler writes a wish down, and what is read back.           *)
(***************************************************************************)
\* OnUnitActiveSec of a timer, in the largest unit that is exact.
Span(n) == IF n % 60 = 0 THEN <<n \div 60, "h">> ELSE <<n, "min">>
SpanMinutes(s) == IF s[2] = "h" THEN 60 * s[1] ELSE s[1]
\* StartInterval of a plist, in seconds.
StartInterval(n) == 60 * n
StartMinutes(s) == s \div 60
\* PT1H30M, and 21:30: hours and minutes.
Hm(n) == <<n \div 60, n % 60>>
Minutes(hm) == 60 * hm[1] + hm[2]

\* A task: its trigger repeats within a day that starts at midnight, or only starts it.
Task(w, place, logon) ==
    [repeat |-> IF w[1] = "every" THEN Hm(w[2]) ELSE Off,
     start |-> IF w[1] = "daily" THEN Hm(w[2]) ELSE Hm(0),
     aim |-> place, logon |-> logon]
TaskWish(t) == IF t.repeat = Off THEN <<"daily", Minutes(t.start)>> ELSE <<"every", Minutes(t.repeat)>>
\* What a unit file or a plist says.
FileWish(f) == <<"every", IF os = "darwin" THEN StartMinutes(f) ELSE SpanMinutes(f)>>

\* The lines of a crontab whose times, together, are every n minutes; none when
\* cron cannot say it.
CronLines(n) ==
    IF n <= 60 /\ 60 % n = 0 THEN {[minutes |-> {m \in 0..59 : m % n = 0}, hours |-> 0..23]}
    ELSE IF n % 60 = 0 /\ 24 % (n \div 60) = 0
    THEN {[minutes |-> {0}, hours |-> {h \in 0..23 : h % (n \div 60) = 0}]}
    ELSE IF (24 * 60) % n = 0
    THEN LET times == {t \in 0..1439 : t % n = 0} IN
         {[minutes |-> {m}, hours |-> {h \in 0..23 : 60 * h + m \in times}] : m \in {t % 60 : t \in times}}
    ELSE {}

\* Slip: a line of ours is found by the whole of it, its times included.
MarkedExactly(n) == {l \in crontab : l.name = n /\ l.minutes = {0}}
\* The lines that hold the marker of name n: the text of Plain's is in every other's.
Marked(n) == {l \in crontab : l.name = n \/ n = Plain}

\* Status: Off, or the wish; <<"every", 0>> when it cannot be told.
CurrentTask(n) == IF reg[n].task = Off THEN Off ELSE TaskWish(reg[n].task)
CurrentAgent(n) == IF reg[n].file = Off THEN Off ELSE FileWish(reg[n].file)
CurrentEntry(n) ==
    IF reg[n].file # Off THEN FileWish(reg[n].file)
    ELSE IF Marked(n) # {} THEN <<"every", 0>> ELSE Off
Current(n) ==
    CASE os = "windows" -> CurrentTask(n)
      [] os = "darwin" -> CurrentAgent(n)
      [] OTHER -> CurrentEntry(n)
\* What may be answered: a task whose XML cannot be had, or read, does not tell.
Answers(n) == {Current(n)} \cup (IF os = "windows" /\ reg[n].task # Off THEN {<<"every", 0>>} ELSE {})

(***************************************************************************)
(* Install and Remove: what each may leave, whether it says it worked, and *)
(* how many commands or writes failed on the way.                          *)
(***************************************************************************)
Left(r, c, ok, failed) == [reg |-> r, crontab |-> c, ok |-> ok, failed |-> failed]

InstallSystemd(n, w) ==
    LET r == reg[n]
        service == [r EXCEPT !.aim = exe]
        written == [service EXCEPT !.file = Span(w[2])]
        on == [written EXCEPT !.enabled = TRUE]
    IN {Left(r, crontab, FALSE, 1), Left(service, crontab, FALSE, 1),
        Left(written, crontab, FALSE, IF manager = "up" THEN 1 ELSE 0)} \cup
       (IF manager = "up"
        THEN {Left(on, crontab, FALSE, 1), Left([on EXCEPT !.held = Off], crontab, FALSE, 1),
              Left([on EXCEPT !.held = on.file], crontab, TRUE, 0)}
        ELSE {})

CronEntries(n, m) ==
    {[name |-> n, aim |-> exe, minutes |-> l.minutes, hours |-> l.hours] : l \in CronLines(m)}
InstallCron(n, w) ==
    LET lines == CronEntries(n, w[2]) IN
    {Left(reg[n], crontab, FALSE, IF lines = {} THEN 0 ELSE 1)} \cup
    (IF lines = {} THEN {} ELSE {Left(reg[n], (crontab \ Marked(n)) \cup lines, TRUE, 0)})

\* S4U first, then the logon that needs no right; Windows may refuse the first.
InstallTask(n, w) ==
    {Left(reg[n], crontab, FALSE, 1)} \cup
    {Left([reg[n] EXCEPT !.task = Task(w, exe, logon)], crontab, TRUE, 0) : logon \in {"S4U", "InteractiveToken"}}

InstallAgent(n, w) ==
    LET written == [reg[n] EXCEPT !.file = StartInterval(w[2]), !.aim = exe] IN
    {Left(reg[n], crontab, FALSE, 1), Left(written, crontab, FALSE, 1), Left([written EXCEPT !.held = Off], crontab, FALSE, 1),
     Left([written EXCEPT !.held = written.file], crontab, TRUE, 0)}

Install(n, w) ==
    CASE os = "windows" -> InstallTask(n, w)
      [] os # "windows" /\ w[1] = "daily" -> {Left(reg[n], crontab, FALSE, 0)}
      [] os = "darwin" /\ w[1] = "every" -> InstallAgent(n, w)
      [] OTHER -> IF manager # "none" THEN InstallSystemd(n, w) ELSE InstallCron(n, w)

\* Slip: the timer is disabled, and not stopped.
StoppedLater(r) == [r EXCEPT !.enabled = FALSE]
\* disable --now, or bootout and unload.
Stopped(r) == [r EXCEPT !.held = Off, !.enabled = FALSE]
\* They may fail, and that is not looked at; what is held then runs on.
Unstopped(r) == [r EXCEPT !.unstopped = (r.held # Off)]
\* The files go next, of r, after so many failures.
FilesGo(r, failed) ==
    {Left(r, crontab, FALSE, failed + 1), Left([r EXCEPT !.file = Off, !.aim = Off], crontab, TRUE, failed)}
\* The timer's file goes before the service's.
UnitsGo(r, failed) == FilesGo(r, failed) \cup {Left([r EXCEPT !.file = Off], crontab, FALSE, failed + 1)}
\* A timer that could not be stopped may have been disabled.
RemoveSystemd(n) ==
    LET unstopped == Unstopped(reg[n])
    IN IF reg[n].file = Off THEN {Left(reg[n], crontab, TRUE, 0)}
       ELSE UnitsGo(Stopped(reg[n]), 0) \cup UnitsGo(unstopped, 1) \cup
            UnitsGo([unstopped EXCEPT !.enabled = FALSE], 1)
RemoveCron(n, left) ==
    {Left(left.reg, crontab \ Marked(n), TRUE, left.failed), Left(left.reg, crontab, FALSE, left.failed + 1)}
RemoveAgent(n) ==
    IF reg[n].file = Off THEN {Left(reg[n], crontab, TRUE, 0)}
    ELSE FilesGo(Stopped(reg[n]), 0) \cup FilesGo(Unstopped(reg[n]), 1)

RemoveTask(n) == {Left(reg[n], crontab, FALSE, 1), Left([reg[n] EXCEPT !.task = Off], crontab, TRUE, 0)}

Remove(n) ==
    CASE os = "windows" -> RemoveTask(n)
      [] os = "darwin" -> RemoveAgent(n)
      [] OTHER -> UNION {IF left.ok THEN RemoveCron(n, left) ELSE {left} : left \in RemoveSystemd(n)}

(***************************************************************************)
(* The commands, the panel and the offers.                                 *)
(***************************************************************************)
\* One of these outcomes; w is what the person now expects.
Becomes(n, outcomes, w) ==
    /\ uses < MaxAsked /\ uses' = uses + 1
    /\ \E left \in outcomes :
          /\ slips + left.failed <= MaxSlipped /\ slips' = slips + left.failed
          /\ reg' = [reg EXCEPT ![n] = left.reg] /\ crontab' = left.crontab
          /\ told' = [told EXCEPT ![n] = left.ok]
          /\ asked' = [asked EXCEPT ![n] = IF w = Off THEN Off ELSE [wish |-> w, aim |-> exe]]
    /\ UNCHANGED <<os, manager, exe, moves>>

\* Nothing is kept of the panel's look at it by the time the terminal is used.
InTerminal(n) == (Aside \/ seen[n] = {}) /\ UNCHANGED seen
\* The panel forgets what it knew of the schedule once its own change has worked.
InPanel(n) == seen' = [seen EXCEPT ![n] = IF told'[n] THEN {} ELSE seen[n]]

\* schedule every and schedule daily, and the panel's Schedule and ScheduleDaily.
Registers(n, w) == Allowed(w) /\ Becomes(n, Install(n, w), w) /\ InTerminal(n)
PanelRegisters(n, w) == Allowed(w) /\ Becomes(n, Install(n, w), w) /\ InPanel(n)
\* schedule off and schedule --remove, and the panel's switch.
Unregisters(n) == Becomes(n, Remove(n), Off) /\ InTerminal(n)
PanelUnregisters(n) == Becomes(n, Remove(n), Off) /\ InPanel(n)

\* repairMinutes.
Repaired(st) == IF st[1] = "every" /\ st[2] < 1 THEN <<"every", DefaultIntervalMinutes>> ELSE st
\* What a repair should leave: the schedule in force, unless the scheduler cannot say it
\* or the last command failed.
Expected(n, st) ==
    IF ~told[n] \/ (st[1] = "every" /\ st[2] < 1) THEN Repaired(st)
    ELSE IF asked[n] = Off THEN Off ELSE asked[n].wish
\* schedule --repair, which reads the scheduler.
Repairs(n) ==
    /\ \E st \in Answers(n) \ {Off} : Becomes(n, Install(n, Repaired(st)), Expected(n, st))
    /\ InTerminal(n)
\* RepairSchedule, which may answer from the panel's cache.
PanelStatus(n) == IF seen[n] = {} THEN Answers(n) ELSE seen[n]
PanelRepairs(n) ==
    /\ \E st \in PanelStatus(n) \ {Off} : Becomes(n, Install(n, Repaired(st)), Expected(n, st))
    /\ InPanel(n)

\* add offers a schedule when there is none, and the first keys a computer is given set one.
Default == <<"every", DefaultIntervalMinutes>>
Offers(n) == Current(n) = Off /\ Becomes(n, Install(n, Default), Default) /\ InTerminal(n)
FirstRun(n) ==
    /\ Current(n) = Off /\ uses = 0
    /\ Becomes(n, Install(n, Default), Default) /\ UNCHANGED seen

\* Load, on the panel's tick.
Looks(n) ==
    /\ seen[n] = {} /\ \E st \in Answers(n) : seen' = [seen EXCEPT ![n] = {st}]
    /\ UNCHANGED <<os, manager, regVars, exe, asked, told, uses, slips, moves>>
\* scheduleCacheTTL has passed.
LookIsOld(n) ==
    /\ seen[n] # {} /\ seen' = [seen EXCEPT ![n] = {}]
    /\ UNCHANGED <<os, manager, regVars, exe, asked, told, uses, slips, moves>>

(***************************************************************************)
(* The system.                                                             *)
(***************************************************************************)
\* A new session: systemd and launchd read the files there are.
Held(r) ==
    IF os = "darwin" \/ (os = "linux" /\ manager' = "up" /\ r.enabled) THEN r.file ELSE Off
SignsIn ==
    /\ manager' \in (IF Switches /\ os = "linux" THEN {"none", "silent", "up"} ELSE {manager})
    /\ reg' = [n \in Name |-> [reg[n] EXCEPT !.held = Held(reg[n]), !.unstopped = FALSE]]
    /\ UNCHANGED <<os, crontab, exe, seen, asked, told, uses, slips, moves>>
\* The program's file is moved, and entries aim at where it was.
ProgramMoves ==
    /\ moves < MaxMoved /\ moves' = moves + 1
    /\ exe' \in Place \ {exe}
    /\ UNCHANGED <<os, manager, regVars, seen, asked, told, uses, slips>>

SchedNext ==
    \/ \E n \in Name :
          \/ \E w \in Wish : Registers(n, w) \/ PanelRegisters(n, w)
          \/ Unregisters(n) \/ PanelUnregisters(n) \/ Repairs(n) \/ PanelRepairs(n)
          \/ Offers(n) \/ FirstRun(n)
          \/ Looks(n) \/ LookIsOld(n)
    \/ SignsIn \/ ProgramMoves
SchedSpec == SchedInit /\ [][SchedNext]_schedVars

(***************************************************************************)
(* Properties.                                                             *)
(***************************************************************************)
\* Lines that fire exactly every n minutes from midnight, once at each time.
Day == 0..1439
Fires(lines, t) == {l \in lines : t % 60 \in l.minutes /\ t \div 60 \in l.hours}
EveryMinutes(lines, n) == \A t \in Day : Cardinality(Fires(lines, t)) = (IF t % n = 0 THEN 1 ELSE 0)
\* Of these shapes; and nothing is in memory without its file on disk, but what a
\* failed request left there until the person signs in again.
SchedTypeOK ==
    /\ os \in {"linux", "darwin", "windows"} /\ manager \in {"none", "silent", "up"}
    /\ \A n \in Name :
          /\ reg[n].held # Off => reg[n].file # Off \/ reg[n].unstopped
          /\ reg[n].aim \in Place \cup {Off} /\ reg[n].enabled \in BOOLEAN
    /\ \A l \in crontab : l.name \in Name /\ l.minutes \subseteq 0..59 /\ l.hours \subseteq 0..23
    /\ exe \in Place /\ told \in [Name -> BOOLEAN]
    /\ uses \in 0..MaxAsked /\ slips \in 0..MaxSlipped /\ moves \in 0..MaxMoved

\* Once a command about the schedule says it worked, exactly one thing on this computer
\* starts the program, where it is now and as often as asked, and nothing does after
\* "off"; a repair keeps the schedule in force and starts none.  It stays so in later
\* sessions, and whatever failed half way before.  A timer or an agent that could not
\* be stopped, which "off" does not look at, runs on until the person signs in again.
RunsAsTold ==
    \A n \in Name : told[n] =>
       LET r == reg[n]
           lines == {l \in crontab : l.name = n}
           entries == (IF r.held = Off THEN {} ELSE {[wish |-> FileWish(r.held), aim |-> r.aim]}) \cup
                      (IF r.task = Off THEN {} ELSE {[wish |-> TaskWish(r.task), aim |-> r.task.aim]})
       IN IF asked[n] = Off THEN lines = {} /\ r.task = Off /\ (r.held = Off \/ r.unstopped)
          ELSE \/ lines = {} /\ entries = {asked[n]}
               \/ /\ entries = {} /\ asked[n].wish[1] = "every" /\ EveryMinutes(lines, asked[n].wish[2])
                  /\ \A l \in lines : l.aim = asked[n].aim
=============================================================================
