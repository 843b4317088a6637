------------------------------ MODULE Workers ------------------------------
(***************************************************************************)
(* The upload phase of one run: the pool of engine.execute, the adjustable *)
(* limiter its workers contend for with the governor that resizes it, the  *)
(* network gate of netwait with its prober, and the pause a person asks    *)
(* for through a marker file.  Each worker takes a job, waits out a pause, *)
(* then an outage, then a full limiter, sends, and holds for the network   *)
(* if that is what failed.                                                 *)
(*                                                                         *)
(* Channels are modelled by what waiting on them means: `back' and `given' *)
(* hold the outages whose channel of that name is closed, and a worker     *)
(* parked in the limiter is woken by whatever closes its cond.  Time is    *)
(* counted in looks of the prober.                                         *)
(***************************************************************************)
EXTENDS Naturals, FiniteSets

CONSTANTS Worker,        \* goroutines of the pool
          Job,           \* uploads and renames of the plan
          NoJob,
          MinWorkers, MaxWorkers, StartWorkers, \* the limiter's bounds and its first limit
          MaxNetRetries, \* sends of one file again after losing the network
          Patience,      \* looks of the prober before the run stops waiting
          MaxDowns,      \* times the network goes, for TLC
          MaxPauses      \* pauses a person asks for, for TLC

ASSUME PoolAssumption == IsFiniteSet(Worker) /\ NoJob \notin Job
                         /\ {MinWorkers, MaxWorkers, StartWorkers} \subseteq Nat

VARIABLES queue,     \* jobs nobody has taken
          at,        \* where each worker stands
          work,      \* its job
          tries,     \* sends of that job that lost the network
          resumeAt,  \* where a wait for the network goes on: "slot" or "pause"
          seen,      \* the outage whose channels it waits on
          reported,  \* what execute was told of each job
          cancelled, \* the run's context has ended
          limit, active,          \* limiter
          first, throttled,       \* governor: no baseline yet; a 429 or 503 this window
          up, downs,              \* the network, and how often it went
          offline, gaveUp, probing, waited, outage, back, given, stopped, \* Gate
          marker, paused, pauses  \* the pause file, what the Watcher last read

poolVars  == <<queue, at, work, tries, resumeAt, seen, reported>>
limVars   == <<limit, active>>
govVars   == <<first, throttled>>
gateVars  == <<offline, gaveUp, probing, waited, outage, back, given, stopped>>
netVars   == <<up, downs>>
pauseVars == <<marker, paused, pauses>>
workerVars == <<poolVars, limVars, govVars, gateVars, netVars, pauseVars, cancelled>>

Stages    == {"idle", "pause", "gate", "waiting", "slot", "parked", "send", "trip", "done"}
Outcomes  == {"none", "stored", "failed", "no network"}

PoolInit ==
    /\ queue = Job
    /\ at = [w \in Worker |-> "idle"]
    /\ work = [w \in Worker |-> NoJob]
    /\ tries = [w \in Worker |-> 0]
    /\ resumeAt = [w \in Worker |-> "slot"]
    /\ seen = [w \in Worker |-> 0]
    /\ reported = [j \in Job |-> "none"]
    /\ cancelled = FALSE
    /\ limit = StartWorkers /\ active = 0
    /\ first = TRUE /\ throttled = FALSE
    /\ up = TRUE /\ downs = 0
    /\ offline = FALSE /\ gaveUp = FALSE /\ probing = FALSE /\ waited = 0
    /\ outage = 0 /\ back = {0} /\ given = {} /\ stopped = FALSE
    /\ marker = FALSE /\ paused = FALSE /\ pauses = 0

AllDone == \A w \in Worker : at[w] = "done"
Sending == {w \in Worker : at[w] = "send"}

-----------------------------------------------------------------------------
(* The worker's own moves.                                                 *)

Stand(w, s) == at' = [at EXCEPT ![w] = s]

\* The job leaves the worker's hands with an outcome, or with none.
Report(w, out) ==
    /\ reported' = [reported EXCEPT ![work[w]] = out]
    /\ work' = [work EXCEPT ![w] = NoJob]
    /\ tries' = [tries EXCEPT ![w] = 0]
Leave(w) == Report(w, reported[work[w]]) /\ Stand(w, "idle")

\* Slip: the limiter changes and nobody is told.
WakeNobody(f) == f
\* Close of the limiter's cond: every parked worker tries again.
Wake(f) == [w \in Worker |-> IF f[w] = "parked" THEN "slot" ELSE f[w]]

Take(w) ==
    /\ at[w] = "idle"
    /\ IF queue = {}
         THEN Stand(w, "done") /\ UNCHANGED <<queue, work>>
         ELSE \E j \in queue :
                /\ queue' = queue \ {j}
                /\ work' = [work EXCEPT ![w] = j]
                /\ Stand(w, "pause")
    /\ UNCHANGED <<tries, resumeAt, seen, reported, limVars, govVars, gateVars, netVars, pauseVars, cancelled>>

\* pause.Wait of run.
PastPause(w) ==
    /\ at[w] = "pause"
    /\ \/ cancelled /\ Leave(w)
       \/ /\ ~cancelled /\ ~paused
          /\ Stand(w, "gate")
          /\ UNCHANGED <<work, tries, reported>>
    /\ UNCHANGED <<queue, resumeAt, seen, limVars, govVars, gateVars, netVars, pauseVars, cancelled>>

\* Wait ended with nil: on to the limiter, or round again after a Hold.
Onward(w) ==
    /\ Stand(w, resumeAt[w])
    /\ tries' = IF resumeAt[w] = "pause" THEN [tries EXCEPT ![w] = @ + 1] ELSE tries
    /\ resumeAt' = [resumeAt EXCEPT ![w] = "slot"]
    /\ UNCHANGED <<work, reported>>
\* Slip: a job whose network never came is dropped unreported.
GiveUpSilently(w) ==
    /\ Stand(w, "idle")
    /\ Report(w, reported[work[w]])
    /\ resumeAt' = [resumeAt EXCEPT ![w] = "slot"]
\* Wait ended with ErrNoNetwork or with the run.
GiveUp(w) ==
    /\ Stand(w, "idle")
    /\ Report(w, IF cancelled THEN reported[work[w]] ELSE "no network")
    /\ resumeAt' = [resumeAt EXCEPT ![w] = "slot"]

\* The locked half of Gate.Wait, and what it decides without waiting.
GateLook(w) ==
    /\ at[w] = "gate"
    /\ \/ cancelled /\ GiveUp(w) /\ UNCHANGED seen
       \/ ~cancelled /\ ~offline /\ Onward(w) /\ UNCHANGED seen
       \/ ~cancelled /\ offline /\ gaveUp /\ GiveUp(w) /\ UNCHANGED seen
       \/ /\ ~cancelled /\ offline /\ ~gaveUp
          /\ Stand(w, "waiting")
          /\ seen' = [seen EXCEPT ![w] = outage]
          /\ UNCHANGED <<work, tries, reported, resumeAt>>
    /\ UNCHANGED <<queue, limVars, govVars, gateVars, netVars, pauseVars, cancelled>>

\* The select of Gate.Wait; a worker told of a later outage is not held by it.
GateWake(w) ==
    /\ at[w] = "waiting"
    /\ \/ seen[w] \in back /\ ~cancelled /\ Onward(w)
       \/ /\ ~cancelled /\ (seen[w] \in given \/ stopped)
          /\ IF offline THEN GiveUp(w) ELSE Onward(w)
       \/ cancelled /\ GiveUp(w)
    /\ seen' = [seen EXCEPT ![w] = 0]
    /\ UNCHANGED <<queue, limVars, govVars, gateVars, netVars, pauseVars, cancelled>>

Acquire(w) ==
    /\ at[w] = "slot"
    /\ \/ cancelled /\ Leave(w) /\ UNCHANGED active
       \/ /\ ~cancelled /\ active < limit
          /\ active' = active + 1 /\ Stand(w, "send")
          /\ UNCHANGED <<work, tries, reported>>
       \/ /\ ~cancelled /\ active >= limit
          /\ Stand(w, "parked")
          /\ UNCHANGED <<active, work, tries, reported>>
    /\ UNCHANGED <<queue, resumeAt, seen, limit, govVars, gateVars, netVars, pauseVars, cancelled>>

\* ctx.Done wakes a worker parked in acquire.
Unpark(w) ==
    /\ at[w] = "parked" /\ cancelled
    /\ Leave(w)
    /\ UNCHANGED <<queue, resumeAt, seen, limVars, govVars, gateVars, netVars, pauseVars, cancelled>>

\* The request has ended and the slot is free again.  A network error can come
\* with the network up: one connection's bad luck.
Sent(w, how) ==
    /\ at[w] = "send"
    /\ active' = active - 1
    /\ throttled' = (throttled \/ how = "throttled")
    /\ LET last == tries[w] >= MaxNetRetries
           held == how = "net" /\ ~last /\ ~cancelled
           left == how # "ok" /\ ~last /\ cancelled
       IN \/ held /\ at' = [Wake(at) EXCEPT ![w] = "trip"] /\ UNCHANGED <<work, tries, reported>>
          \/ /\ ~held
             /\ at' = [Wake(at) EXCEPT ![w] = "idle"]
             /\ Report(w, IF how = "ok" THEN "stored" ELSE IF left THEN "none" ELSE "failed")
    /\ UNCHANGED <<queue, resumeAt, seen, limit, first, gateVars, netVars, pauseVars, cancelled>>

Finish(w) == \/ up /\ Sent(w, "ok")
             \/ Sent(w, "net")
             \/ up /\ Sent(w, "throttled")
             \/ Sent(w, "other")

\* Hold: close the gate if nobody has, start a prober if none runs, and wait.
Trip(w) ==
    /\ at[w] = "trip"
    /\ Stand(w, "gate")
    /\ resumeAt' = [resumeAt EXCEPT ![w] = "pause"]
    /\ IF stopped \/ offline
         THEN UNCHANGED gateVars
         ELSE /\ offline' = TRUE /\ gaveUp' = FALSE
              /\ outage' = outage + 1
              /\ probing' = TRUE
              /\ UNCHANGED <<waited, back, given, stopped>>
    /\ UNCHANGED <<queue, work, tries, seen, reported, limVars, govVars, netVars, pauseVars, cancelled>>
-----------------------------------------------------------------------------
(* The prober, the governor, the pause watcher, and the world.             *)

\* One look of watch that reaches the storage.
FoundNetwork ==
    /\ probing /\ ~stopped /\ up
    /\ offline' = FALSE /\ gaveUp' = FALSE /\ probing' = FALSE
    /\ waited' = 0
    /\ back' = back \cup {outage}
    /\ UNCHANGED <<outage, given, stopped, poolVars, limVars, govVars, netVars, pauseVars, cancelled>>

\* Slip: the prober keeps looking and nobody is told it is hopeless.
MissedForever ==
    /\ probing /\ ~stopped /\ ~up
    /\ waited < Patience
    /\ waited' = waited + 1
    /\ UNCHANGED <<gaveUp, given, offline, probing, outage, back, stopped, poolVars, limVars, govVars, netVars, pauseVars, cancelled>>
\* One that does not; past its patience the run stops waiting, the prober does not.
MissedNetwork ==
    /\ probing /\ ~stopped /\ ~up
    /\ waited < Patience
    /\ waited' = waited + 1
    /\ IF waited' >= Patience /\ ~gaveUp
         THEN gaveUp' = TRUE /\ given' = given \cup {outage}
         ELSE UNCHANGED <<gaveUp, given>>
    /\ UNCHANGED <<offline, probing, outage, back, stopped, poolVars, limVars, govVars, netVars, pauseVars, cancelled>>

\* Gate.Close once the run is over, and the prober's end.
CloseGate ==
    /\ AllDone /\ ~stopped
    /\ stopped' = TRUE
    /\ UNCHANGED <<offline, gaveUp, probing, waited, outage, back, given, poolVars, limVars, govVars, netVars, pauseVars, cancelled>>
FinishProbing ==
    /\ stopped /\ probing
    /\ probing' = FALSE
    /\ UNCHANGED <<offline, gaveUp, waited, outage, back, given, stopped, poolVars, limVars, govVars, netVars, pauseVars, cancelled>>

\* adjustLimit: halve when throttled, grow by a quarter while bytes still climb.
Least(a, b) == IF a < b THEN a ELSE b
Most(a, b)  == IF a > b THEN a ELSE b
adjustLimit(current, climbed) ==
    IF throttled THEN Most(current \div 2, MinWorkers)
    ELSE IF ~first /\ climbed THEN Least(current + Most(current \div 4, 1), MaxWorkers)
    ELSE current

\* One tick of the governor; it is stopped when the pool has drained.
Govern ==
    /\ ~AllDone /\ ~cancelled
    /\ \E climbed \in BOOLEAN : limit' = Most(MinWorkers, Least(MaxWorkers, adjustLimit(limit, climbed)))
    /\ at' = Wake(at)
    /\ first' = FALSE /\ throttled' = FALSE
    /\ UNCHANGED <<queue, work, tries, resumeAt, seen, reported, active, gateVars, netVars, pauseVars, cancelled>>

\* pause.Set and pause.Clear from another process, and the Watcher's poll.
AskPause ==
    /\ ~marker /\ pauses < MaxPauses
    /\ marker' = TRUE /\ pauses' = pauses + 1
    /\ UNCHANGED <<paused, poolVars, limVars, govVars, gateVars, netVars, cancelled>>
AskResume ==
    /\ marker
    /\ marker' = FALSE
    /\ UNCHANGED <<paused, pauses, poolVars, limVars, govVars, gateVars, netVars, cancelled>>
Poll ==
    /\ paused # marker
    /\ paused' = marker
    /\ UNCHANGED <<marker, pauses, poolVars, limVars, govVars, gateVars, netVars, cancelled>>

NetworkGoes ==
    /\ up /\ downs < MaxDowns
    /\ up' = FALSE /\ downs' = downs + 1
    /\ UNCHANGED <<poolVars, limVars, govVars, gateVars, pauseVars, cancelled>>
NetworkComes ==
    /\ ~up /\ up' = TRUE
    /\ UNCHANGED <<downs, poolVars, limVars, govVars, gateVars, pauseVars, cancelled>>
Cancel ==
    /\ ~cancelled /\ ~AllDone
    /\ cancelled' = TRUE
    /\ UNCHANGED <<poolVars, limVars, govVars, gateVars, netVars, pauseVars>>

Over == AllDone /\ stopped /\ ~probing /\ UNCHANGED workerVars

Move(w) == \/ Take(w) \/ PastPause(w) \/ GateLook(w) \/ GateWake(w) \/ Acquire(w)
           \/ Unpark(w) \/ Finish(w) \/ Trip(w)
Look == FoundNetwork \/ MissedNetwork \/ FinishProbing

PoolNext == \/ \E w \in Worker : Move(w)
            \/ Look \/ CloseGate \/ Govern
            \/ AskPause \/ AskResume \/ Poll
            \/ NetworkGoes \/ NetworkComes \/ Cancel
            \/ Over
PoolSpec == PoolInit /\ [][PoolNext]_workerVars
\* A goroutine that can go on does; the prober and the watcher tick.  Nothing
\* is owed by the network, by a person or by the governor.
Tick == Look \/ Poll
FairPoolSpec == PoolSpec /\ (\A w \in Worker : WF_workerVars(Move(w))) /\ WF_workerVars(Tick)

-----------------------------------------------------------------------------
(* Properties.                                                             *)

PoolTypeOK ==
    /\ queue \subseteq Job
    /\ at \in [Worker -> Stages]
    /\ work \in [Worker -> Job \cup {NoJob}]
    /\ tries \in [Worker -> Nat]
    /\ resumeAt \in [Worker -> {"slot", "pause"}]
    /\ seen \in [Worker -> Nat]
    /\ reported \in [Job -> Outcomes]
    /\ limit \in Nat /\ active \in Nat
    /\ waited \in Nat /\ outage \in Nat
    /\ back \subseteq Nat /\ given \subseteq Nat
    /\ downs \in Nat /\ pauses \in Nat
    /\ {cancelled, first, throttled, up, offline, gaveUp, probing, stopped, marker, paused} \subseteq BOOLEAN

\* Unless the run is cancelled no job is lost and none is done twice: each is
\* queued, in one worker's hands, or reported, whatever was retried.
JobsAccounted ==
    \A j \in Job :
        LET hands == {w \in Worker : work[w] = j}
        IN /\ Cardinality(hands) <= 1
           /\ j \in queue => hands = {} /\ reported[j] = "none"
           /\ hands # {} => reported[j] = "none"
           /\ j \notin queue /\ hands = {} /\ reported[j] = "none" => cancelled

\* Nobody sleeps past the event it waits for: a worker is parked in the limiter
\* only while it is full, and waits for the network only while the gate is
\* closed on that outage with a prober looking, or its channel is closed.
NoLostWakeup ==
    \A w \in Worker :
        /\ at[w] = "parked" => active >= limit
        /\ at[w] = "waiting" =>
              seen[w] \in back \cup given \/ (offline /\ seen[w] = outage /\ probing)

\* The upload phase ends, whatever the network does, unless it is left paused:
\* no worker waits for ever on the gate, the limiter or another worker.
RunEnds == <>AllDone \/ <>[]paused

\* A pause has taken hold once no file is on the wire (runstate.Live.InFlight):
\* until it is lifted nothing starts.
PauseTakesHold == [][paused /\ paused' /\ Sending = {} => Sending' = {}]_workerVars
=============================================================================
