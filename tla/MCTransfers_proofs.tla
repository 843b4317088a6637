------------------------- MODULE MCTransfers_proofs -------------------------
(***************************************************************************)
(* The pool and the runs, and then the pool, the upload and the runs side  *)
(* by side, as TLC explores them: each follows its own specification       *)
(* whatever the others do, so what is proved of each holds of the three    *)
(* together.                                                               *)
(***************************************************************************)
EXTENDS MCTransfers, Multipart_proofs, FiniteSetTheorems

(***************************************************************************)
(* What holds of the upload phase for any number of workers, jobs, slots   *)
(* and retries, however often the network goes and whoever pauses.         *)
(***************************************************************************)
\* A worker between two jobs holds none, two workers never hold the same one,
\* and a job is reported once it has left the queue and every hand, unless the
\* run was cancelled.
Hands ==
    /\ \A w \in Worker : work[w] = NoJob <=> at[w] \in {"idle", "done"}
    /\ \A v, w \in Worker : work[v] = work[w] /\ work[v] # NoJob => v = w
    /\ \A w \in Worker : work[w] # NoJob => work[w] \notin queue /\ reported[work[w]] = "none"
    /\ \A j \in queue : reported[j] = "none"
    /\ \A j \in Job : j \notin queue /\ reported[j] = "none" /\ (\A w \in Worker : work[w] # j)
                        => cancelled

\* The limiter counts the files on the wire, and nobody waits for a free slot.
Slots == /\ active = Cardinality(Sending)
         /\ \A w \in Worker : at[w] = "parked" => active >= limit

\* The gate is closed while a prober looks, and shut down when nobody is left.
Gates == /\ stopped => AllDone
         /\ offline /\ ~stopped => probing
         /\ \A w \in Worker : at[w] = "waiting" =>
              seen[w] \in back \cup given \/ (offline /\ seen[w] = outage /\ probing)

LEMMA SendersCounted ==
    ASSUME PoolTypeOK
    PROVE  /\ IsFiniteSet(Sending) /\ Cardinality(Sending) \in Nat
           /\ \A w \in Worker \ Sending : Cardinality(Sending \cup {w}) = Cardinality(Sending) + 1
           /\ \A w \in Sending : /\ Cardinality(Sending \ {w}) = Cardinality(Sending) - 1
                                 /\ Cardinality(Sending) # 0
<1>1. IsFiniteSet(Sending)
  BY PoolAssumption, FS_Subset DEF Sending
<1>2. Cardinality(Sending) \in Nat  BY <1>1, FS_CardinalityType
<1>3. \A w \in Worker \ Sending : Cardinality(Sending \cup {w}) = Cardinality(Sending) + 1
  BY <1>1, FS_AddElement
<1>4. \A w \in Sending : /\ Cardinality(Sending \ {w}) = Cardinality(Sending) - 1
                         /\ Cardinality(Sending) # 0
  BY <1>1, FS_RemoveElement, FS_EmptySet
<1>. QED  BY <1>1, <1>2, <1>3, <1>4

LEMMA WakeTyped ==
    ASSUME NEW f \in [Worker -> Stages]
    PROVE  /\ Wake(f) \in [Worker -> Stages]
           /\ \A w \in Worker : Wake(f)[w] = IF f[w] = "parked" THEN "slot" ELSE f[w]
BY DEF Wake, Stages

LEMMA MostTyped ==
    ASSUME NEW a \in Nat, NEW b \in Nat
    PROVE  Most(a, b) \in Nat /\ Least(a, b) \in Nat
BY DEF Most, Least

(***************************************************************************)
(* Type correctness, in three parts.                                       *)
(***************************************************************************)
WorkOK == /\ queue \subseteq Job
          /\ at \in [Worker -> Stages] /\ work \in [Worker -> Job \cup {NoJob}]
          /\ tries \in [Worker -> Nat] /\ resumeAt \in [Worker -> {"slot", "pause"}]
          /\ seen \in [Worker -> Nat] /\ reported \in [Job -> Outcomes]
CountOK == /\ limit \in Nat /\ active \in Nat /\ waited \in Nat /\ outage \in Nat
           /\ back \subseteq Nat /\ given \subseteq Nat /\ downs \in Nat /\ pauses \in Nat
FlagsOK == {cancelled, first, throttled, up, offline, gaveUp, probing, stopped, marker, paused}
             \subseteq BOOLEAN

LEMMA PoolTypeParts == PoolTypeOK <=> WorkOK /\ CountOK /\ FlagsOK
BY DEF PoolTypeOK, WorkOK, CountOK, FlagsOK
LEMMA PoolTypePartsNext == PoolTypeOK' <=> WorkOK' /\ CountOK' /\ FlagsOK'
BY PoolTypeParts, Zenon DEF PoolTypeOK, WorkOK, CountOK, FlagsOK

LEMMA WorkTyped ==
    ASSUME PoolTypeOK, Hands, [PoolNext]_workerVars
    PROVE  WorkOK'
<1>. USE DEF WorkOK, poolVars
<1>0. WorkOK /\ outage \in Nat  BY PoolTypeParts DEF CountOK
<1>w. \A w \in Worker : at[w] \notin {"idle", "done"} =>
         work[w] \in Job /\ reported[work[w]] \in Outcomes
  BY <1>0 DEF Hands
<1>o. {"stored", "failed", "none", "no network"} \subseteq Outcomes /\ 0 \in Nat
  BY DEF Outcomes
<1>1. ASSUME NEW w \in Worker, Take(w) PROVE WorkOK'
  BY <1>0, <1>1 DEF Take, Stand, Stages
<1>2. ASSUME NEW w \in Worker, PastPause(w) \/ Unpark(w) PROVE WorkOK'
  BY <1>0, <1>w, <1>2 DEF PastPause, Unpark, Leave, Report, Stand, Stages
<1>3. ASSUME NEW w \in Worker, work[w] \in Job, WorkOK, GiveUp(w)
      PROVE  /\ at' \in [Worker -> Stages] /\ work' \in [Worker -> Job \cup {NoJob}]
             /\ reported' \in [Job -> Outcomes] /\ tries' \in [Worker -> Nat]
             /\ resumeAt' \in [Worker -> {"slot", "pause"}]
  <2>1. (IF cancelled THEN reported[work[w]] ELSE "no network") \in Outcomes
    BY <1>3, <1>o
  <2>. QED  BY <1>3, <1>o, <2>1 DEF GiveUp, Report, Stand, Stages
<1>4. ASSUME NEW w \in Worker, Onward(w)
      PROVE  /\ at' \in [Worker -> Stages] /\ work' \in [Worker -> Job \cup {NoJob}]
             /\ reported' \in [Job -> Outcomes] /\ tries' \in [Worker -> Nat]
             /\ resumeAt' \in [Worker -> {"slot", "pause"}]
  BY <1>0, <1>4 DEF Onward, Stand, Stages
<1>5. ASSUME NEW w \in Worker, GateLook(w) PROVE WorkOK'
  <2>1. seen' \in [Worker -> Nat] /\ queue' = queue  BY <1>0, <1>5 DEF GateLook
  <2>2. work[w] \in Job  BY <1>5, <1>w DEF GateLook
  <2>3. CASE GiveUp(w)  BY <1>0, <1>3, <2>1, <2>2, <2>3
  <2>4. CASE Onward(w)  BY <1>0, <1>4, <2>1, <2>4
  <2>5. CASE Stand(w, "waiting") /\ UNCHANGED <<work, tries, reported, resumeAt>>
    BY <1>0, <2>1, <2>5 DEF Stand, Stages
  <2>. QED  BY <1>5, <2>3, <2>4, <2>5 DEF GateLook
<1>6. ASSUME NEW w \in Worker, GateWake(w) PROVE WorkOK'
  <2>1. seen' \in [Worker -> Nat] /\ queue' = queue  BY <1>0, <1>6 DEF GateWake
  <2>2. work[w] \in Job  BY <1>6, <1>w DEF GateWake
  <2>3. CASE GiveUp(w)  BY <1>0, <1>3, <2>1, <2>2, <2>3
  <2>4. CASE Onward(w)  BY <1>0, <1>4, <2>1, <2>4
  <2>. QED  BY <1>6, <2>3, <2>4 DEF GateWake
<1>7. ASSUME NEW w \in Worker, Acquire(w) PROVE WorkOK'
  BY <1>0, <1>w, <1>7 DEF Acquire, Leave, Report, Stand, Stages
<1>8. ASSUME NEW w \in Worker, NEW how \in {"ok", "net", "throttled", "other"}, Sent(w, how)
      PROVE  WorkOK'
  <2>1. /\ queue' = queue /\ resumeAt' = resumeAt /\ seen' = seen
        /\ at' = [Wake(at) EXCEPT ![w] = "trip"] \/ at' = [Wake(at) EXCEPT ![w] = "idle"]
    BY <1>8 DEF Sent
  <2>2. at' \in [Worker -> Stages]
    BY <1>0, <2>1, WakeTyped DEF Stages
  <2>3. \/ UNCHANGED <<work, tries, reported>>
        \/ \E out \in Outcomes : Report(w, out)
    BY <1>8, <1>o DEF Sent
  <2>4. /\ work' \in [Worker -> Job \cup {NoJob}] /\ reported' \in [Job -> Outcomes]
        /\ tries' \in [Worker -> Nat]
    BY <1>0, <2>3 DEF Report
  <2>. QED  BY <1>0, <2>1, <2>2, <2>4
<1>9. ASSUME NEW w \in Worker, Trip(w) PROVE WorkOK'
  BY <1>0, <1>9 DEF Trip, Stand, Stages
<1>10. CASE Govern
  BY <1>0, <1>10, WakeTyped DEF Govern
<1>11. CASE UNCHANGED poolVars  BY <1>0, <1>11
<1>. QED  BY <1>1, <1>2, <1>5, <1>6, <1>7, <1>8, <1>9, <1>10, <1>11
          DEF PoolNext, Move, Look, Finish, FoundNetwork, MissedNetwork, CloseGate, FinishProbing,
              AskPause, AskResume, Poll, NetworkGoes, NetworkComes, Cancel, Over, workerVars

LEMMA CountsTyped ==
    ASSUME PoolTypeOK, Slots, [PoolNext]_workerVars
    PROVE  CountOK'
<1>. USE DEF CountOK, limVars, gateVars, netVars, pauseVars
<1>0. CountOK /\ at \in [Worker -> Stages]  BY PoolTypeParts DEF WorkOK
<1>1. ASSUME NEW w \in Worker, Take(w) \/ PastPause(w) \/ Unpark(w) \/ GateLook(w) \/ GateWake(w)
      PROVE  CountOK'
  BY <1>0, <1>1 DEF Take, PastPause, Unpark, GateLook, GateWake
<1>2. ASSUME NEW w \in Worker, Acquire(w) \/ Trip(w) PROVE CountOK'
  <2>1. UNCHANGED <<limit, waited, back, given, downs, pauses>>  BY <1>2 DEF Acquire, Trip
  <2>2. active' \in {active, active + 1} /\ outage' \in {outage, outage + 1}
    BY <1>2 DEF Acquire, Trip
  <2>. QED  BY <1>0, <2>1, <2>2
<1>3. ASSUME NEW w \in Worker, NEW how, Sent(w, how) PROVE CountOK'
  <2>1. w \in Sending /\ active' = active - 1  BY <1>3 DEF Sent, Sending
  <2>2. active \in Nat /\ active # 0  BY <2>1, SendersCounted, <1>0 DEF Slots
  <2>. QED  BY <1>0, <1>3, <2>2 DEF Sent
<1>4. CASE FoundNetwork \/ MissedNetwork \/ CloseGate \/ FinishProbing
  <2>1. UNCHANGED <<limit, active, downs, pauses, outage>>
    BY <1>4 DEF FoundNetwork, MissedNetwork, CloseGate, FinishProbing
  <2>2. waited' \in {waited, waited + 1, 0}
    BY <1>4 DEF FoundNetwork, MissedNetwork, CloseGate, FinishProbing
  <2>3. back' \in {back, back \cup {outage}} /\ given' \in {given, given \cup {outage}}
    BY <1>4 DEF FoundNetwork, MissedNetwork, CloseGate, FinishProbing
  <2>. QED  BY <1>0, <2>1, <2>2, <2>3
<1>5. CASE Govern
  <2>1. \A climbed \in BOOLEAN : adjustLimit(limit, climbed) \in Nat
    <3>1. limit \div 2 \in Nat /\ limit \div 4 \in Nat /\ 1 \in Nat /\ MinWorkers \in Nat
      BY <1>0, PoolAssumption
    <3>2. Most(limit \div 2, MinWorkers) \in Nat /\ Most(limit \div 4, 1) \in Nat
      BY <3>1, MostTyped
    <3>3. limit + Most(limit \div 4, 1) \in Nat  BY <1>0, <3>2
    <3>. QED  BY <1>0, <3>2, <3>3, MostTyped, PoolAssumption DEF adjustLimit
  <2>2. limit' \in Nat
    BY <1>5, <2>1, MostTyped, PoolAssumption DEF Govern
  <2>3. UNCHANGED <<active, waited, outage, back, given, downs, pauses>>  BY <1>5 DEF Govern
  <2>. QED  BY <1>0, <2>2, <2>3
<1>6. CASE AskPause \/ AskResume \/ Poll \/ NetworkGoes \/ NetworkComes \/ Cancel
  <2>1. UNCHANGED <<limit, active, waited, outage, back, given>>
    BY <1>6 DEF AskPause, AskResume, Poll, NetworkGoes, NetworkComes, Cancel
  <2>2. downs' \in {downs, downs + 1} /\ pauses' \in {pauses, pauses + 1}
    BY <1>6 DEF AskPause, AskResume, Poll, NetworkGoes, NetworkComes, Cancel
  <2>. QED  BY <1>0, <2>1, <2>2
<1>7. CASE UNCHANGED workerVars \/ Over  BY <1>0, <1>7 DEF Over, workerVars
<1>. QED  BY <1>1, <1>2, <1>3, <1>4, <1>5, <1>6, <1>7 DEF PoolNext, Move, Look, Finish

LEMMA FlagsTyped ==
    ASSUME PoolTypeOK, [PoolNext]_workerVars
    PROVE  FlagsOK'
<1>0. FlagsOK  BY PoolTypeParts
<1>1. UNCHANGED marker \/ marker' \in {TRUE, FALSE}
  BY DEF PoolNext, Move, Look, Finish, Take, PastPause, GateLook, GateWake, Acquire, Unpark, Sent,
         Trip, FoundNetwork, MissedNetwork, CloseGate, FinishProbing, Govern, AskPause, AskResume,
         Poll, NetworkGoes, NetworkComes, Cancel, Over, workerVars, pauseVars
<1>2. UNCHANGED paused \/ paused' = marker
  BY DEF PoolNext, Move, Look, Finish, Take, PastPause, GateLook, GateWake, Acquire, Unpark, Sent,
         Trip, FoundNetwork, MissedNetwork, CloseGate, FinishProbing, Govern, AskPause, AskResume,
         Poll, NetworkGoes, NetworkComes, Cancel, Over, workerVars, pauseVars
<1>3. /\ UNCHANGED up \/ up' \in {TRUE, FALSE}
      /\ UNCHANGED cancelled \/ cancelled' \in {TRUE, FALSE}
  BY DEF PoolNext, Move, Look, Finish, Take, PastPause, GateLook, GateWake, Acquire, Unpark, Sent,
         Trip, FoundNetwork, MissedNetwork, CloseGate, FinishProbing, Govern, AskPause, AskResume,
         Poll, NetworkGoes, NetworkComes, Cancel, Over, workerVars, netVars
<1>4. /\ UNCHANGED first \/ first' \in {TRUE, FALSE}
      /\ UNCHANGED throttled \/ throttled' \in BOOLEAN
  BY DEF PoolNext, Move, Look, Finish, Take, PastPause, GateLook, GateWake, Acquire, Unpark, Sent,
         Trip, FoundNetwork, MissedNetwork, CloseGate, FinishProbing, Govern, AskPause, AskResume,
         Poll, NetworkGoes, NetworkComes, Cancel, Over, workerVars, govVars
<1>5. /\ UNCHANGED offline \/ offline' \in {TRUE, FALSE}
      /\ UNCHANGED gaveUp \/ gaveUp' \in {TRUE, FALSE}
      /\ UNCHANGED probing \/ probing' \in {TRUE, FALSE}
      /\ UNCHANGED stopped \/ stopped' \in {TRUE, FALSE}
  BY DEF PoolNext, Move, Look, Finish, Take, PastPause, GateLook, GateWake, Acquire, Unpark, Sent,
         Trip, FoundNetwork, MissedNetwork, CloseGate, FinishProbing, Govern, AskPause, AskResume,
         Poll, NetworkGoes, NetworkComes, Cancel, Over, workerVars, gateVars
<1>. QED  BY <1>0, <1>1, <1>2, <1>3, <1>4, <1>5, Zenon DEF FlagsOK

LEMMA PoolTyped ==
    ASSUME PoolTypeOK, Hands, Slots, [PoolNext]_workerVars
    PROVE  PoolTypeOK'
BY WorkTyped, CountsTyped, FlagsTyped, PoolTypePartsNext

(***************************************************************************)
(* The limiter.                                                            *)
(***************************************************************************)
LEMMA SlotsKept ==
    ASSUME PoolTypeOK, Slots, [PoolNext]_workerVars
    PROVE  Slots'
<1>. USE DEF limVars
<1>0. at \in [Worker -> Stages] /\ limit \in Nat /\ active \in Nat /\ active = Cardinality(Sending)
  BY DEF PoolTypeOK, Slots
<1>s. Sending' = {w \in Worker : at'[w] = "send"}  BY DEF Sending
<1>1. ASSUME NEW w \in Worker, UNCHANGED limVars, at[w] # "send",
             NEW s \in {"idle", "done", "pause", "gate", "waiting", "slot", "trip"}, Stand(w, s)
      PROVE  Slots'
  <2>1. Sending' = Sending  BY <1>0, <1>s, <1>1 DEF Sending, Stand
  <2>2. \A v \in Worker : at'[v] = "parked" => at[v] = "parked"  BY <1>0, <1>1 DEF Stand
  <2>. QED  BY <1>1, <2>1, <2>2 DEF Slots
<1>2. ASSUME NEW w \in Worker, Take(w) \/ PastPause(w) \/ GateLook(w) \/ GateWake(w) \/ Unpark(w)
                               \/ Trip(w)
      PROVE  Slots'
  <2>1. UNCHANGED limVars /\ at[w] # "send"
    BY <1>2 DEF Take, PastPause, GateLook, GateWake, Unpark, Trip
  <2>2. \E s \in {"idle", "done", "pause", "gate", "waiting", "slot", "trip"} : Stand(w, s)
    BY <1>2 DEF PoolTypeOK, Take, PastPause, GateLook, GateWake, Unpark, Trip, Leave, GiveUp, Onward
  <2>. QED  BY <1>1, <2>1, <2>2
<1>3. ASSUME NEW w \in Worker, Acquire(w) PROVE Slots'
  <2>1. CASE cancelled /\ Leave(w) /\ UNCHANGED active
    BY <1>1, <1>3, <2>1 DEF Acquire, Leave
  <2>2. CASE active < limit /\ active' = active + 1 /\ Stand(w, "send")
    <3>1. Sending' = Sending \cup {w} /\ w \notin Sending
      BY <1>0, <1>3, <1>s, <2>2 DEF Sending, Stand, Acquire
    <3>2. \A v \in Worker : at'[v] # "parked"
      BY <1>0, <2>2 DEF Stand, Slots
    <3>. QED  BY <1>0, <2>2, <3>1, <3>2, SendersCounted DEF Slots
  <2>3. CASE active >= limit /\ Stand(w, "parked") /\ UNCHANGED active
    <3>1. Sending' = Sending  BY <1>0, <1>3, <1>s, <2>3 DEF Sending, Stand, Acquire
    <3>. QED  BY <1>3, <2>3, <3>1 DEF Slots, Acquire
  <2>. QED  BY <1>3, <2>1, <2>2, <2>3 DEF Acquire
<1>4. ASSUME NEW w \in Worker, NEW how, Sent(w, how) PROVE Slots'
  <2>1. /\ w \in Sending /\ active' = active - 1
        /\ at' = [Wake(at) EXCEPT ![w] = "trip"] \/ at' = [Wake(at) EXCEPT ![w] = "idle"]
    BY <1>4 DEF Sent, Sending
  <2>2. /\ at'[w] \in {"trip", "idle"}
        /\ \A v \in Worker \ {w} : at'[v] = IF at[v] = "parked" THEN "slot" ELSE at[v]
    BY <1>0, <2>1, WakeTyped
  <2>3. Sending' = Sending \ {w}  BY <1>s, <2>2 DEF Sending
  <2>4. \A v \in Worker : at'[v] # "parked"  BY <2>2
  <2>. QED  BY <1>0, <2>1, <2>3, <2>4, SendersCounted DEF Slots
<1>5. CASE Govern
  <2>1. \A v \in Worker : at'[v] = IF at[v] = "parked" THEN "slot" ELSE at[v]
    BY <1>0, <1>5, WakeTyped DEF Govern
  <2>2. Sending' = Sending /\ \A v \in Worker : at'[v] # "parked"  BY <1>s, <2>1 DEF Sending
  <2>. QED  BY <1>5, <2>2 DEF Govern, Slots
<1>6. CASE UNCHANGED <<at, limit, active>>  BY <1>6, <1>s DEF Slots, Sending
<1>. QED  BY <1>2, <1>3, <1>4, <1>5, <1>6
          DEF PoolNext, Move, Look, Finish, FoundNetwork, MissedNetwork, CloseGate, FinishProbing,
              AskPause, AskResume, Poll, NetworkGoes, NetworkComes, Cancel, Over, workerVars, poolVars

(***************************************************************************)
(* The gate.                                                               *)
(***************************************************************************)
LEMMA GatesKept ==
    ASSUME PoolTypeOK, Gates, [PoolNext]_workerVars
    PROVE  Gates'
<1>. USE DEF gateVars
<1>0. at \in [Worker -> Stages] /\ seen \in [Worker -> Nat]  BY DEF PoolTypeOK
<1>1. AllDone => \A w \in Worker : ~Move(w)
  BY DEF AllDone, Move, Take, PastPause, GateLook, GateWake, Acquire, Unpark, Finish, Sent, Trip
<1>2. ASSUME NEW w \in Worker, UNCHANGED <<offline, probing, outage, back, given, stopped>>,
             UNCHANGED seen \/ \E n \in Nat : seen' = [seen EXCEPT ![w] = n],
             \A v \in Worker \ {w} : at'[v] = "waiting" => at[v] = "waiting",
             at'[w] = "waiting" =>
               (at[w] = "waiting" /\ seen' = seen) \/ (offline /\ seen'[w] = outage /\ ~stopped),
             ~AllDone
      PROVE  Gates'
  <2>1. ~stopped /\ ~stopped'  BY <1>2 DEF Gates
  <2>2. \A v \in Worker \ {w} : seen'[v] = seen[v]  BY <1>0, <1>2
  <2>3. at'[w] = "waiting" => seen'[w] \in back \cup given \/ (offline /\ seen'[w] = outage /\ probing)
    BY <1>2, <2>1 DEF Gates
  <2>. QED  BY <1>2, <2>1, <2>2, <2>3 DEF Gates
<1>3. ASSUME NEW w \in Worker, Take(w) \/ PastPause(w) \/ Acquire(w) \/ Unpark(w)
      PROVE  Gates'
  <2>1. \A v \in Worker : at'[v] = "waiting" => at[v] = "waiting"
    BY <1>0, <1>3 DEF Take, PastPause, Acquire, Unpark, Leave, Stand
  <2>2. UNCHANGED <<gateVars, seen>>
    BY <1>3 DEF Take, PastPause, Acquire, Unpark
  <2>. QED  BY <1>1, <1>2, <1>3, <2>1, <2>2 DEF Move
<1>4. ASSUME NEW w \in Worker, GateLook(w) PROVE Gates'
  <2>1. CASE ~offline \/ gaveUp \/ cancelled
    <3>1. seen' = seen /\ (GiveUp(w) \/ Onward(w)) /\ UNCHANGED gateVars
      BY <1>4, <2>1 DEF GateLook
    <3>2. \A v \in Worker : at'[v] = "waiting" => at[v] = "waiting"
      BY <1>0, <3>1 DEF GiveUp, Onward, Stand, PoolTypeOK
    <3>. QED  BY <1>1, <1>2, <1>4, <3>1, <3>2 DEF Move
  <2>2. CASE offline /\ ~gaveUp /\ ~cancelled
    <3>1. Stand(w, "waiting") /\ seen' = [seen EXCEPT ![w] = outage] /\ UNCHANGED gateVars
      BY <1>4, <2>2 DEF GateLook
    <3>2. ~AllDone /\ ~stopped /\ outage \in Nat  BY <1>1, <1>4 DEF Move, Gates, PoolTypeOK
    <3>3. at'[w] = "waiting" /\ seen'[w] = outage
          /\ \A v \in Worker \ {w} : at'[v] = at[v]
      BY <1>0, <3>1 DEF Stand
    <3>. QED  BY <1>2, <2>2, <3>1, <3>2, <3>3
  <2>. QED  BY <2>1, <2>2
<1>5. ASSUME NEW w \in Worker, GateWake(w) PROVE Gates'
  <2>1. seen' = [seen EXCEPT ![w] = 0] /\ (GiveUp(w) \/ Onward(w)) /\ UNCHANGED gateVars
    BY <1>5 DEF GateWake
  <2>2. at'[w] # "waiting" /\ \A v \in Worker \ {w} : at'[v] = at[v]
    BY <1>0, <2>1 DEF GiveUp, Onward, Stand, PoolTypeOK
  <2>. QED  BY <1>1, <1>2, <1>5, <2>1, <2>2 DEF Move
<1>6. ASSUME NEW w \in Worker, NEW how, Sent(w, how) PROVE Gates'
  <2>1. /\ UNCHANGED <<gateVars, seen>> /\ at[w] = "send"
        /\ at' = [Wake(at) EXCEPT ![w] = "trip"] \/ at' = [Wake(at) EXCEPT ![w] = "idle"]
    BY <1>6 DEF Sent
  <2>2. \A v \in Worker : at'[v] = "waiting" => at[v] = "waiting"
    BY <1>0, <2>1, WakeTyped
  <2>3. ~AllDone  BY <2>1 DEF AllDone
  <2>. QED  BY <1>2, <2>1, <2>2, <2>3
<1>7. ASSUME NEW w \in Worker, Trip(w) PROVE Gates'
  <2>1. ~AllDone /\ ~stopped  BY <1>1, <1>7 DEF Move, Gates
  <2>2. seen' = seen /\ \A v \in Worker : at'[v] = "waiting" => at[v] = "waiting"
    BY <1>0, <1>7 DEF Trip, Stand
  <2>3. CASE offline
    <3>1. UNCHANGED gateVars  BY <1>7, <2>3 DEF Trip
    <3>. QED  BY <1>2, <2>1, <2>2, <3>1
  <2>4. CASE ~offline
    <3>1. offline' /\ probing' /\ UNCHANGED <<back, given, stopped>>
      BY <1>7, <2>1, <2>4 DEF Trip
    <3>2. \A v \in Worker : at[v] = "waiting" => seen[v] \in back \cup given
      BY <2>4 DEF Gates
    <3>. QED  BY <2>1, <2>2, <3>1, <3>2 DEF Gates
  <2>. QED  BY <2>3, <2>4
<1>8. CASE FoundNetwork
  <2>1. /\ ~offline' /\ back' = back \cup {outage} /\ UNCHANGED <<given, stopped, at, seen>>
    BY <1>8 DEF FoundNetwork, poolVars
  <2>. QED  BY <2>1 DEF Gates, AllDone
<1>9. CASE MissedNetwork
  <2>1. /\ UNCHANGED <<offline, probing, outage, back, stopped, at, seen>> /\ given \subseteq given'
    BY <1>9 DEF MissedNetwork, poolVars
  <2>. QED  BY <2>1 DEF Gates, AllDone
<1>10. CASE CloseGate \/ FinishProbing
  <2>1. AllDone /\ stopped' /\ UNCHANGED <<offline, at, seen, outage, back, given>>
    BY <1>10 DEF CloseGate, FinishProbing, poolVars, Gates
  <2>. QED  BY <2>1 DEF Gates, AllDone
<1>11. CASE Govern
  <2>1. UNCHANGED <<gateVars, seen>> /\ ~AllDone  BY <1>11 DEF Govern
  <2>2. \A v \in Worker : at'[v] = "waiting" => at[v] = "waiting"
    BY <1>0, <1>11, WakeTyped DEF Govern
  <2>. QED  BY <2>1, <2>2 DEF Gates
<1>12. CASE UNCHANGED <<gateVars, at, seen>>  BY <1>12 DEF Gates, AllDone
<1>. QED  BY <1>3, <1>4, <1>5, <1>6, <1>7, <1>8, <1>9, <1>10, <1>11, <1>12
          DEF PoolNext, Move, Look, Finish, AskPause, AskResume, Poll, NetworkGoes, NetworkComes,
              Cancel, Over, workerVars, poolVars

(***************************************************************************)
(* The jobs.                                                               *)
(***************************************************************************)
LEMMA HandsKept ==
    ASSUME PoolTypeOK, Hands, [PoolNext]_workerVars
    PROVE  Hands'
<1>0. WorkOK  BY PoolTypeParts
<1>n. NoJob \notin Job  BY PoolAssumption
\* A worker lets go of its job with an outcome, or with none once cancelled.
<1>1. ASSUME NEW w \in Worker, at[w] \notin {"idle", "done"}, at'[w] = "idle",
             \A v \in Worker \ {w} : at'[v] \in {"idle", "done"} <=> at[v] \in {"idle", "done"},
             NEW out, Report(w, out), out # "none" \/ cancelled, UNCHANGED <<queue, cancelled>>
      PROVE  Hands'
  <2>1. work[w] \in Job  BY <1>0, <1>1 DEF WorkOK, Hands
  <2>2. work'[w] = NoJob /\ \A v \in Worker \ {w} : work'[v] = work[v]
    BY <1>0, <1>1 DEF WorkOK, Report
  <2>3. reported'[work[w]] = out /\ \A j \in Job \ {work[w]} : reported'[j] = reported[j]
    BY <1>0, <1>1, <2>1 DEF WorkOK, Report
  <2>4. \A v \in Worker \ {w} : work[v] # work[w]
    BY <1>n, <2>1 DEF Hands
  <2>5. work[w] \notin queue /\ queue \subseteq Job  BY <1>0, <1>n, <2>1 DEF Hands, WorkOK
  <2>6. \A v \in Worker \ {w} : work'[v] # NoJob => work'[v] \in Job /\ work'[v] # work[w]
    BY <1>0, <2>2, <2>4 DEF WorkOK
  <2>7. \A v \in Worker : work'[v] = NoJob <=> at'[v] \in {"idle", "done"}
    BY <1>1, <2>2 DEF Hands
  <2>8. \A u, v \in Worker : work'[u] = work'[v] /\ work'[u] # NoJob => u = v
    BY <2>2 DEF Hands
  <2>9. \A v \in Worker : work'[v] # NoJob => work'[v] \notin queue' /\ reported'[work'[v]] = "none"
    BY <1>1, <2>2, <2>3, <2>6 DEF Hands
  <2>10. \A j \in queue' : reported'[j] = "none"
    BY <1>1, <2>3, <2>5 DEF Hands
  <2>11. \A j \in Job : j \notin queue' /\ reported'[j] = "none" /\ (\A v \in Worker : work'[v] # j)
                          => cancelled'
    <3>. SUFFICES ASSUME NEW j \in Job, j \notin queue', reported'[j] = "none",
                         \A v \in Worker : work'[v] # j
                  PROVE  cancelled'
      OBVIOUS
    <3>1. CASE j = work[w]  BY <1>1, <2>3, <3>1
    <3>2. CASE j # work[w]
      <4>1. \A v \in Worker : work[v] # j  BY <2>2, <3>2
      <4>. QED  BY <1>1, <2>3, <3>2, <4>1 DEF Hands
    <3>. QED  BY <3>1, <3>2
  <2>. QED  BY <2>7, <2>8, <2>9, <2>10, <2>11 DEF Hands
\* It keeps what it has.
<1>2. ASSUME UNCHANGED <<queue, work, reported>>, cancelled => cancelled',
             \A v \in Worker : at'[v] \in {"idle", "done"} <=> at[v] \in {"idle", "done"}
      PROVE  Hands'
  BY <1>2 DEF Hands
<1>3. ASSUME NEW w \in Worker, Take(w) PROVE Hands'
  <2>1. CASE queue = {}
    <3>1. UNCHANGED <<queue, work, reported, cancelled>>
          /\ \A v \in Worker : at'[v] \in {"idle", "done"} <=> at[v] \in {"idle", "done"}
      BY <1>0, <1>3, <2>1 DEF Take, Stand, WorkOK
    <3>. QED  BY <1>2, <3>1
  <2>2. CASE queue # {}
    <3>1. PICK j \in queue : queue' = queue \ {j} /\ work' = [work EXCEPT ![w] = j]
                             /\ Stand(w, "pause") /\ UNCHANGED <<reported, cancelled>>
      BY <1>3, <2>2 DEF Take
    <3>2. work'[w] = j /\ \A v \in Worker \ {w} : work'[v] = work[v]  BY <1>0, <3>1 DEF WorkOK
    <3>3. at[w] = "idle" /\ at'[w] = "pause" /\ \A v \in Worker \ {w} : at'[v] = at[v]
      BY <1>0, <1>3, <3>1 DEF WorkOK, Stand, Take
    <3>4. j \in Job /\ j # NoJob /\ \A v \in Worker : work[v] # j
      BY <1>0, <1>n DEF WorkOK, Hands
    <3>5. \A v \in Worker : work'[v] = NoJob <=> at'[v] \in {"idle", "done"}
      BY <3>2, <3>3, <3>4 DEF Hands
    <3>6. \A u, v \in Worker : work'[u] = work'[v] /\ work'[u] # NoJob => u = v
      BY <3>2, <3>4 DEF Hands
    <3>7. \A v \in Worker : work'[v] # NoJob => work'[v] \notin queue' /\ reported'[work'[v]] = "none"
      BY <3>1, <3>2 DEF Hands
    <3>8. \A i \in queue' : reported'[i] = "none"  BY <3>1 DEF Hands
    <3>9. \A i \in Job : i \notin queue' /\ reported'[i] = "none" /\ (\A v \in Worker : work'[v] # i)
                           => cancelled'
      <4>. SUFFICES ASSUME NEW i \in Job, i \notin queue', reported'[i] = "none",
                           \A v \in Worker : work'[v] # i
                    PROVE  cancelled
        BY <3>1
      <4>1. i # j /\ i \notin queue  BY <3>1, <3>2
      <4>2. work[w] = NoJob  BY <3>3 DEF Hands
      <4>3. \A v \in Worker : work[v] # i  BY <1>n, <3>2, <4>2
      <4>. QED  BY <3>1, <4>1, <4>3 DEF Hands
    <3>. QED  BY <3>5, <3>6, <3>7, <3>8, <3>9 DEF Hands
  <2>. QED  BY <2>1, <2>2
<1>4. ASSUME NEW w \in Worker, at[w] \notin {"idle", "done"}, cancelled, Leave(w),
             UNCHANGED <<queue, cancelled>>
      PROVE  Hands'
  <2>1. at'[w] = "idle" /\ \A v \in Worker \ {w} : at'[v] = at[v]
    BY <1>0, <1>4 DEF Leave, Stand, WorkOK
  <2>. QED  BY <1>1, <1>4, <2>1 DEF Leave
<1>5. ASSUME NEW w \in Worker, at[w] \notin {"idle", "done"}, GiveUp(w), UNCHANGED <<queue, cancelled>>
      PROVE  Hands'
  <2>1. at'[w] = "idle" /\ \A v \in Worker \ {w} : at'[v] = at[v]
    BY <1>0, <1>5 DEF GiveUp, Stand, WorkOK
  <2>2. CASE cancelled
    <3>1. Report(w, reported[work[w]])  BY <1>5, <2>2 DEF GiveUp
    <3>. QED  BY <1>1, <1>5, <2>1, <2>2, <3>1
  <2>3. CASE ~cancelled
    <3>1. Report(w, "no network")  BY <1>5, <2>3 DEF GiveUp
    <3>. QED  BY <1>1, <1>5, <2>1, <3>1
  <2>. QED  BY <2>2, <2>3
<1>6. ASSUME NEW w \in Worker, at[w] \notin {"idle", "done"},
             NEW s \in {"pause", "gate", "waiting", "slot", "parked", "send", "trip"}, Stand(w, s),
             UNCHANGED <<queue, work, reported, cancelled>>
      PROVE  Hands'
  <2>1. \A v \in Worker : at'[v] \in {"idle", "done"} <=> at[v] \in {"idle", "done"}
    BY <1>0, <1>6 DEF Stand, WorkOK
  <2>. QED  BY <1>2, <1>6, <2>1
<1>7. ASSUME NEW w \in Worker, at[w] \notin {"idle", "done"}, Onward(w), UNCHANGED <<queue, cancelled>>
      PROVE  Hands'
  <2>1. resumeAt[w] \in {"pause", "slot"}  BY <1>0 DEF WorkOK
  <2>. QED  BY <1>6, <1>7, <2>1 DEF Onward
<1>8. ASSUME NEW w \in Worker, PastPause(w) \/ Unpark(w) \/ Acquire(w) PROVE Hands'
  BY <1>4, <1>6, <1>8 DEF PastPause, Unpark, Acquire
<1>9. ASSUME NEW w \in Worker, GateLook(w) PROVE Hands'
  BY <1>5, <1>6, <1>7, <1>9 DEF GateLook
<1>10. ASSUME NEW w \in Worker, GateWake(w) PROVE Hands'
  BY <1>5, <1>7, <1>10 DEF GateWake
<1>11. ASSUME NEW w \in Worker, NEW how \in {"ok", "net", "throttled", "other"}, Sent(w, how)
       PROVE  Hands'
  <2>1. /\ UNCHANGED <<queue, cancelled>> /\ at[w] = "send"
        /\ \/ at' = [Wake(at) EXCEPT ![w] = "trip"] /\ UNCHANGED <<work, reported>>
           \/ /\ at' = [Wake(at) EXCEPT ![w] = "idle"]
              /\ \E out \in {"stored", "failed", "none"} :
                   Report(w, out) /\ (out = "none" => cancelled)
    BY <1>11 DEF Sent
  <2>2. \A v \in Worker \ {w} : at'[v] \in {"idle", "done"} <=> at[v] \in {"idle", "done"}
    BY <1>0, <2>1, WakeTyped DEF WorkOK
  <2>3. CASE at' = [Wake(at) EXCEPT ![w] = "trip"] /\ UNCHANGED <<work, reported>>
    <3>1. at'[w] = "trip"  BY <1>0, <2>3, WakeTyped DEF WorkOK
    <3>. QED  BY <1>2, <2>1, <2>2, <2>3, <3>1
  <2>4. CASE /\ at' = [Wake(at) EXCEPT ![w] = "idle"]
             /\ \E out \in {"stored", "failed", "none"} : Report(w, out) /\ (out = "none" => cancelled)
    <3>1. at'[w] = "idle"  BY <1>0, <2>4, WakeTyped DEF WorkOK
    <3>. QED  BY <1>1, <2>1, <2>2, <2>4, <3>1
  <2>. QED  BY <2>1, <2>3, <2>4
<1>12. ASSUME NEW w \in Worker, Trip(w) PROVE Hands'
  BY <1>6, <1>12 DEF Trip
<1>13. CASE Govern
  <2>1. \A v \in Worker : at'[v] \in {"idle", "done"} <=> at[v] \in {"idle", "done"}
    BY <1>0, <1>13, WakeTyped DEF WorkOK, Govern
  <2>. QED  BY <1>2, <1>13, <2>1 DEF Govern
<1>14. CASE UNCHANGED poolVars /\ (cancelled => cancelled')
  BY <1>2, <1>14 DEF poolVars
<1>. QED  BY <1>3, <1>8, <1>9, <1>10, <1>11, <1>12, <1>13, <1>14
          DEF PoolNext, Move, Look, Finish, FoundNetwork, MissedNetwork, CloseGate, FinishProbing,
              AskPause, AskResume, Poll, NetworkGoes, NetworkComes, Cancel, Over, workerVars

(***************************************************************************)
(* The theorems.                                                           *)
(***************************************************************************)
PoolInv == PoolTypeOK /\ Hands /\ Slots /\ Gates

LEMMA PoolStarts == PoolInit => PoolInv
<1>. SUFFICES ASSUME PoolInit PROVE PoolInv  OBVIOUS
<1>1. WorkOK /\ CountOK
  BY PoolAssumption DEF PoolInit, WorkOK, CountOK, Stages, Outcomes
<1>2. FlagsOK  BY Zenon DEF PoolInit, FlagsOK
<1>3. Hands  BY PoolAssumption DEF PoolInit, Hands
<1>4. Slots
  <2>1. Sending = {}  BY DEF PoolInit, Sending
  <2>. QED  BY <2>1, FS_EmptySet DEF PoolInit, Slots
<1>5. Gates  BY DEF PoolInit, Gates
<1>. QED  BY <1>1, <1>2, <1>3, <1>4, <1>5, PoolTypeParts DEF PoolInv

LEMMA PoolGoesOn == PoolInv /\ [PoolNext]_workerVars => PoolInv'
BY PoolTyped, HandsKept, SlotsKept, GatesKept DEF PoolInv

\* Every variable of the pool, the limiter, the gate and the pause stays in its
\* domain: active, which release decrements unchecked, never falls below zero.
THEOREM PoolKeepsTypes == PoolSpec => []PoolTypeOK
<1>1. PoolInv => PoolTypeOK  BY DEF PoolInv
<1>. QED  BY <1>1, PoolStarts, PoolGoesOn, PTL DEF PoolSpec

\* No job is lost and none is done twice.
THEOREM EveryJobAccounted == PoolSpec => []JobsAccounted
<1>1. PoolInv => JobsAccounted
  <2>. SUFFICES ASSUME PoolInv, NEW j \in Job
                PROVE  LET hands == {w \in Worker : work[w] = j}
                       IN /\ Cardinality(hands) <= 1
                          /\ j \in queue => hands = {} /\ reported[j] = "none"
                          /\ hands # {} => reported[j] = "none"
                          /\ j \notin queue /\ hands = {} /\ reported[j] = "none" => cancelled
    BY DEF JobsAccounted
  <2>. DEFINE hands == {w \in Worker : work[w] = j}
  <2>0. j # NoJob  BY PoolAssumption
  <2>1. Cardinality(hands) <= 1
    <3>1. CASE hands = {}  BY <3>1, FS_EmptySet
    <3>2. CASE hands # {}
      <4>1. PICK w \in Worker : w \in hands  BY <3>2
      <4>2. hands = {w}  BY <2>0, <4>1 DEF PoolInv, Hands
      <4>. QED  BY <4>2, FS_Singleton
    <3>. QED  BY <3>1, <3>2
  <2>. QED  BY <2>0, <2>1 DEF PoolInv, Hands
<1>. QED  BY <1>1, PoolStarts, PoolGoesOn, PTL DEF PoolSpec

\* Nobody sleeps past the event it waits for.
THEOREM WakeupsArrive == PoolSpec => []NoLostWakeup
<1>1. PoolInv => NoLostWakeup  BY DEF PoolInv, Slots, Gates, NoLostWakeup
<1>. QED  BY <1>1, PoolStarts, PoolGoesOn, PTL DEF PoolSpec

(***************************************************************************)
(* What holds of the backups of one computer for any number of folders, of *)
(* runs, of restarts and of wishes of the person, and whether or not a     *)
(* restart gives the pid of a run to another program.                      *)
(***************************************************************************)
RunStages == {"off", "index", "watch", "run", "record", "clear"}
Inside    == {"watch", "run", "record", "clear"}
Stamp     == {"none", "new", "before the mark"}

\* RunsTypeOK, and the domains it leaves out.
PidsOK ==
    /\ rpc \in [Proc -> RunStages] /\ left \in [Proc -> 0..Folders] /\ lock \in Proc \cup {NoPid}
    /\ \A p \in Proc : rpc[p] # "off" => left[p] # 0
Marker(m) == DOMAIN m = {"pid", "fresh"} /\ m.pid \in Proc \cup {NoPid}
FilesOK ==
    /\ live \in [pid: Proc \cup {NoPid}, young: BOOLEAN] /\ stamped \in [Proc -> Stamp]
    /\ Marker(pausefile) /\ pauser \in Proc \cup {NoPid}
    /\ DOMAIN reading = Proc /\ held \subseteq Proc
    /\ carry \in {"off", "start", "wait", "index"}
    /\ lastEnd \in {"none", "running", "done", "cut", "killed", "stopped"} /\ stopping \in BOOLEAN

\* One process at a time is past the index.
Exclusive == \A p \in Proc : rpc[p] \in Inside <=> lock = p

\* A fresh pause marker is one asked of its process, and only a run that is
\* under way is held.
Paused ==
    /\ \A p \in Proc : pausefile.pid = p /\ pausefile.fresh => p \in asked
    /\ \A p \in held : rpc[p] = "run" /\ p \in asked

\* The list begins with the newest of the runs recorded, and whoever is about
\* to write it has read as much.
Run == Proc \X Nat \X (0..Folders)
Leads(list, runs) ==
    \A k \in 1..MaxHistory : k <= Len(runs) => k <= Len(list) /\ list[k] = runs[k]
Recorded ==
    /\ starts \in Nat /\ history \in Seq(Run) /\ finished \in Seq(Run)
    /\ reading \in [Proc -> Seq(Run)] /\ Len(history) <= MaxHistory
    /\ Leads(history, finished)
    /\ \A p \in Proc : rpc[p] = "record" => Leads(reading[p], finished)

\* A stop that is marked keeps its mark, whatever write is on its way, until
\* the next run has the index; before the mark nobody has it either.
Stopped ==
    /\ lastEnd \in {"killed", "stopped"} => lock = NoPid
    /\ lastEnd = "stopped" => handMarked = TRUE /\ \A p \in Proc : stamped[p] # "new"
    /\ carry = "index" => found # "stopped"

RunsInv == PidsOK /\ FilesOK /\ Exclusive /\ Paused /\ Recorded /\ Stopped

LEMMA RunsBegin == RunsInit => RunsInv
<1>. SUFFICES ASSUME RunsInit PROVE RunsInv  OBVIOUS
<1>1. PidsOK /\ Exclusive /\ Paused /\ Stopped
  BY RunsAssumption DEF RunsInit, PidsOK, Exclusive, Paused, Stopped, RunStages, Inside, NoPause, Proc
<1>3. FilesOK
  BY DEF RunsInit, FilesOK, Stamp, Marker, NoLive, NoPause
<1>2. Recorded
  <2>1. <<>> \in Seq(Run) /\ Len(<<>>) = 0 /\ Leads(<<>>, <<>>)  BY DEF Leads
  <2>. QED  BY <2>1, RunsAssumption DEF RunsInit, Recorded
<1>. QED  BY <1>1, <1>2, <1>3 DEF RunsInv

(***************************************************************************)
(* Types, and the index.                                                   *)
(***************************************************************************)
LEMMA PidsKept ==
    ASSUME PidsOK, Exclusive, [RunsNext]_runVars
    PROVE  PidsOK' /\ Exclusive'
<1>. USE DEF PidsOK, Exclusive, RunStages, Inside, pidVars
<1>n. NoPid \notin Proc /\ Folders \in Nat \ {0} /\ Child \in Proc /\ Other \in Proc
  BY RunsAssumption DEF Proc
<1>1. ASSUME NEW p \in Proc, Begins(p), lock' = lock PROVE PidsOK' /\ Exclusive'
  BY <1>n, <1>1 DEF Begins
<1>2. ASSUME NEW p \in Proc, RunOf(p) PROVE PidsOK' /\ Exclusive'
  <2>1. CASE GetsIndex(p)  BY <1>n, <2>1 DEF GetsIndex
  <2>2. CASE NoIndex(p)  BY <1>n, <2>2 DEF NoIndex
  <2>3. CASE Watches(p)  BY <1>n, <2>3 DEF Watches
  <2>4. CASE Returns(p)  BY <1>n, <2>4 DEF Returns
  <2>5. CASE Records(p)  BY <1>n, <2>5 DEF Records
  <2>6. CASE Clears(p)
    <3>1. left[p] \in 1..Folders  BY <1>n, <2>6 DEF Clears
    <3>. QED  BY <1>n, <2>6, <3>1 DEF Clears
  <2>7. CASE UNCHANGED pidVars  BY <2>7
  <2>. QED  BY <1>2, <2>1, <2>2, <2>3, <2>4, <2>5, <2>6, <2>7 DEF RunOf, PollsPause, Stamps, Writes
<1>3. ASSUME NEW ps \in SUBSET Proc, Dies(ps) PROVE PidsOK' /\ Exclusive'
  BY <1>n, <1>3 DEF Dies
<1>4. CASE CarriesOn
  BY <1>n, <1>1, <1>4 DEF CarriesOn
<1>5. CASE UNCHANGED pidVars  BY <1>5
<1>. QED  BY <1>n, <1>1, <1>2, <1>3, <1>4, <1>5 DEF RunsNext, OtherStarts, BackUp, Stop, MarksStop, AsksPause, SetsPause,
  Resumes, ClearsActivity, Schedules, Ages, Restarts, Carrying, LooksFirst, LooksAgain, runVars

LEMMA FilesKept ==
    ASSUME PidsOK, FilesOK, [RunsNext]_runVars
    PROVE  FilesOK'
<1>. USE DEF FilesOK, Marker, Stamp, liveVars, holdVars, listVars, panelVars
<1>n. Child \in Proc /\ Other \in Proc  BY DEF Proc
<1>m. /\ \A q \in Proc, b \in BOOLEAN : [pid |-> q, young |-> b] \in [pid: Proc \cup {NoPid}, young: BOOLEAN]
      /\ NoLive \in [pid: Proc \cup {NoPid}, young: BOOLEAN]
  BY Zenon DEF NoLive
<1>1. live' \in [pid: Proc \cup {NoPid}, young: BOOLEAN]
  <2>1. ASSUME NEW p \in Proc, Writes(p) \/ Clears(p)
        PROVE  live' \in [pid: Proc \cup {NoPid}, young: BOOLEAN]
    <3>1. live' = [pid |-> p, young |-> TRUE] \/ live' = NoLive  BY <2>1 DEF Writes, Clears
    <3>. QED  BY <1>m, <3>1
  <2>2. CASE Ages  BY <2>2 DEF Ages
  <2>. QED  BY <2>1, <2>2 DEF RunsNext, RunOf, GetsIndex, NoIndex, Watches, PollsPause, Stamps, Returns,
    Records, OtherStarts, BackUp, Stop, MarksStop, Mark, AsksPause, SetsPause, Resumes, ClearsActivity, Schedules,
    Restarts, Carrying, LooksFirst, LooksAgain, CarriesOn, runVars
<1>2. stamped' \in [Proc -> Stamp]
  BY DEF RunsNext, RunOf, GetsIndex, NoIndex, Watches, PollsPause, Stamps, Writes, Returns, Clears,
    Records, OtherStarts, BackUp, Stop, MarksStop, Mark, AsksPause, SetsPause, Resumes, ClearsActivity, Schedules,
    Ages, Restarts, Carrying, LooksFirst, LooksAgain, CarriesOn, runVars
<1>3. DOMAIN reading' = Proc /\ held' \subseteq Proc
  BY <1>n DEF RunsNext, RunOf, GetsIndex, NoIndex, Watches, PollsPause, Stamps, Writes, Returns, Clears,
    Records, OtherStarts, BackUp, Stop, MarksStop, Mark, Dies, AsksPause, SetsPause, Resumes, ClearsActivity, Schedules,
    Ages, Restarts, Carrying, LooksFirst, LooksAgain, CarriesOn, runVars
<1>4. carry' \in {"off", "start", "wait", "index"}
  BY DEF RunsNext, RunOf, GetsIndex, NoIndex, Watches, PollsPause, Stamps, Writes, Returns, Clears,
    Records, OtherStarts, BackUp, Stop, MarksStop, AsksPause, SetsPause, Resumes, ClearsActivity, Schedules,
    Ages, Restarts, Carrying, LooksFirst, LooksAgain, CarriesOn, runVars
<1>5. lastEnd' \in {"none", "running", "done", "cut", "killed", "stopped"} /\ stopping' \in BOOLEAN
  <2>1. \/ lastEnd' = lastEnd \/ lastEnd' \in {"running", "done", "cut", "killed", "stopped"}
    BY Zenon DEF RunsNext, RunOf, GetsIndex, NoIndex, Watches, PollsPause, Stamps, Writes, Returns, Clears,
      Records, OtherStarts, BackUp, Stop, MarksStop, AsksPause, SetsPause, Resumes, ClearsActivity, Schedules,
      Ages, Restarts, Carrying, LooksFirst, LooksAgain, CarriesOn, runVars
  <2>2. stopping' \in {stopping, TRUE, FALSE}
    BY Zenon DEF RunsNext, RunOf, GetsIndex, NoIndex, Watches, PollsPause, Stamps, Writes, Returns, Clears,
      Records, OtherStarts, BackUp, Stop, MarksStop, AsksPause, SetsPause, Resumes, ClearsActivity, Schedules,
      Ages, Restarts, Carrying, LooksFirst, LooksAgain, CarriesOn, runVars
  <2>. QED  BY <2>1, <2>2
<1>6. Marker(pausefile')
  <2>1. ASSUME NEW p \in Proc, Begins(p)
        PROVE  Marker(pausefile')
    BY <2>1 DEF Begins
  <2>2. CASE SetsPause
    <3>1. pausefile' = [pid |-> pauser, fresh |-> pauser \in asked]  BY <2>2 DEF SetsPause
    <3>. QED  BY <3>1
  <2>3. CASE pausefile' \in {pausefile, NoPause}
    <3>1. Marker(pausefile) /\ Marker(NoPause)  BY DEF NoPause
    <3>. QED  BY Zenon, <2>3, <3>1
  <2>4. \/ OtherStarts \/ BackUp \/ CarriesOn \/ SetsPause \/ pausefile' \in {pausefile, NoPause}
    BY DEF RunsNext, RunOf, GetsIndex, NoIndex, Watches, PollsPause, Stamps, Writes, Returns, Clears,
      Records, Stop, MarksStop, AsksPause, Resumes, ClearsActivity, Schedules,
      Ages, Restarts, Carrying, LooksFirst, LooksAgain, runVars
  <2>. QED  BY <1>n, <2>1, <2>2, <2>3, <2>4 DEF OtherStarts, BackUp, CarriesOn
<1>7. pauser' \in Proc \cup {NoPid}
  BY DEF RunsNext, RunOf, GetsIndex, NoIndex, Watches, PollsPause, Stamps, Writes, Returns, Clears,
    Records, OtherStarts, BackUp, Stop, MarksStop, AsksPause, SetsPause, Resumes, ClearsActivity, Schedules,
    Ages, Restarts, Carrying, LooksFirst, LooksAgain, CarriesOn, runVars
<1>. QED  BY <1>1, <1>2, <1>3, <1>4, <1>5, <1>6, <1>7

(***************************************************************************)
(* Pauses.                                                                 *)
(***************************************************************************)
LEMMA PausedKept ==
    ASSUME PidsOK, FilesOK, Paused, [RunsNext]_runVars
    PROVE  Paused'
<1>. USE DEF holdVars, pidVars
<1>n. NoPid \notin Proc /\ Child \in Proc /\ Other \in Proc  BY RunsAssumption DEF Proc
<1>1. ASSUME NEW q \in Proc, Begins(q), held' = held PROVE Paused'
  <2>1. q \notin held  BY <1>1 DEF Begins, Paused
  <2>2. /\ rpc' = [rpc EXCEPT ![q] = "index"] /\ asked' = asked \ {q}
        /\ pausefile' = [pausefile EXCEPT !.fresh = @ /\ pausefile.pid # q]
    BY <1>1 DEF Begins
  <2>3. \A p \in held : rpc'[p] = "run" /\ p \in asked'
    BY <2>1, <2>2 DEF Paused, PidsOK, FilesOK
  <2>4. ASSUME NEW p \in Proc, pausefile'.pid = p, pausefile'.fresh PROVE p \in asked'
    <3>1. pausefile.pid = p /\ pausefile.fresh /\ p # q
      BY <2>2, <2>4 DEF FilesOK, Marker
    <3>. QED  BY <2>2, <3>1 DEF Paused
  <2>. QED  BY <1>1, <2>3, <2>4 DEF Paused
<1>2. ASSUME NEW q \in Proc, RunOf(q) PROVE Paused'
  <2>1. CASE /\ UNCHANGED <<pausefile, held, asked>>
             /\ \A p \in held : rpc'[p] = rpc[p]
    BY <2>1 DEF Paused
  <2>2. CASE GetsIndex(q) \/ NoIndex(q)
    BY <2>1, <2>2 DEF GetsIndex, NoIndex, PidsOK, FilesOK, Paused
  <2>3. CASE Watches(q)
    <3>1. rpc' = [rpc EXCEPT ![q] = "run"] /\ asked' = asked  BY <2>3 DEF Watches
    <3>2. pausefile' \in {pausefile, NoPause}  BY <2>3 DEF Watches
    <3>3. held' = held \/ (held' = held \cup {q} /\ q \in asked)  BY <2>3 DEF Watches, For, Paused
    <3>4. \A p \in held' : rpc'[p] = "run" /\ p \in asked'  BY <3>1, <3>3 DEF Paused, PidsOK, FilesOK
    <3>. QED  BY <3>1, <3>2, <3>4 DEF Paused, NoPause
  <2>4. CASE PollsPause(q)
    <3>1. /\ UNCHANGED <<rpc, asked, pausefile>> /\ rpc[q] = "run"
          /\ held' \in {held \cup {q}, held \ {q}} /\ (held' = held \ {q} \/ For(q))
      BY <2>4 DEF PollsPause
    <3>2. held' = held \ {q} \/ (held' = held \cup {q} /\ q \in asked)
      BY <3>1 DEF For, Paused
    <3>. QED  BY <3>1, <3>2 DEF Paused
  <2>5. CASE Stamps(q) \/ Writes(q)
    BY <2>1, <2>5 DEF Stamps, Writes
  <2>6. CASE Returns(q) \/ Records(q)
    BY <2>1, <2>6 DEF Returns, Records, PidsOK, FilesOK, Paused
  <2>7. CASE Clears(q)
    <3>1. /\ pausefile' = NoPause /\ held' = held \ {q} /\ asked' = asked
          /\ \A p \in Proc \ {q} : rpc'[p] = rpc[p]
      BY <2>7 DEF Clears, PidsOK
    <3>. QED  BY <1>n, <3>1 DEF Paused, NoPause, FilesOK
  <2>. QED  BY <1>2, <2>2, <2>3, <2>4, <2>5, <2>6, <2>7 DEF RunOf
<1>3. ASSUME NEW ps \in SUBSET Proc, Dies(ps), UNCHANGED <<pausefile, asked>> PROVE Paused'
  BY <1>3 DEF Dies, Paused, FilesOK
<1>4. CASE AsksPause
  BY <1>4 DEF AsksPause, Paused
<1>5. CASE SetsPause
  <2>1. UNCHANGED <<rpc, held, asked>> /\ pausefile' = [pid |-> pauser, fresh |-> pauser \in asked]
    BY <1>5 DEF SetsPause
  <2>. QED  BY <2>1 DEF Paused
<1>6. CASE Resumes
  BY <1>6 DEF Resumes, Paused, NoPause
<1>7. CASE CarriesOn
  <2>1. CASE UNCHANGED <<rpc, pausefile, asked, held>>  BY <2>1 DEF Paused
  <2>. QED  BY <1>n, <1>1, <1>7, <2>1 DEF CarriesOn
<1>8. CASE UNCHANGED <<rpc, pausefile, asked, held>>  BY <1>8 DEF Paused
<1>. QED  BY <1>n, <1>1, <1>2, <1>3, <1>4, <1>5, <1>6, <1>7, <1>8
  DEF RunsNext, OtherStarts, BackUp, Stop, MarksStop, ClearsActivity, Schedules, Ages, Restarts, Carrying,
      LooksFirst, LooksAgain, runVars

(***************************************************************************)
(* The history.                                                            *)
(***************************************************************************)
\* A run put before a list that begins with the newest runs.
LEMMA NewestLeads ==
    ASSUME NEW run \in Run, NEW list \in Seq(Run), NEW runs \in Seq(Run), Leads(list, runs)
    PROVE  /\ Newest(run, list) \in Seq(Run) /\ Len(Newest(run, list)) <= MaxHistory
           /\ <<run>> \o runs \in Seq(Run) /\ Leads(Newest(run, list), <<run>> \o runs)
<1>. DEFINE n == IF Len(list) < MaxHistory THEN Len(list) + 1 ELSE MaxHistory
            new == Newest(run, list)
            all == <<run>> \o runs
<1>1. n \in Nat /\ n <= MaxHistory /\ n <= Len(list) + 1 /\ n >= 1  BY RunsAssumption
<1>2. new = [i \in 1..n |-> IF i = 1 THEN run ELSE list[i - 1]]  BY DEF Newest
<1>. HIDE DEF new, n
<1>3. \A i \in 1..n : new[i] \in Run
  BY <1>1, <1>2
<1>4. new \in Seq(Run) /\ Len(new) = n
  <2>1. new \in [1..n -> Run]  BY <1>2, <1>3
  <2>. QED  BY <1>1, <2>1
<1>5. all \in Seq(Run) /\ Len(all) = Len(runs) + 1  OBVIOUS
<1>6. all[1] = run /\ \A k \in 2..Len(all) : all[k] = runs[k - 1]  BY <1>5
<1>7. ASSUME NEW k \in 1..MaxHistory, k <= Len(all)
      PROVE  k <= n /\ new[k] = all[k]
  <2>0. MaxHistory \in Nat \ {0}  BY RunsAssumption
  <2>1. CASE k = 1  BY <1>1, <1>2, <1>6, <2>1
  <2>2. CASE k # 1
    <3>1. k - 1 \in 1..MaxHistory /\ k - 1 <= Len(runs)  BY <1>5, <1>7, <2>0, <2>2
    <3>2. k - 1 <= Len(list) /\ list[k - 1] = runs[k - 1]  BY <3>1 DEF Leads
    <3>3. k <= n  BY <2>0, <3>1, <3>2 DEF n
    <3>4. new[k] = list[k - 1]  BY <1>2, <2>2, <3>1, <3>3, <1>1
    <3>5. all[k] = runs[k - 1]  BY <1>5, <1>6, <1>7, <2>2
    <3>. QED  BY <3>2, <3>3, <3>4, <3>5
  <2>. QED  BY <2>1, <2>2
<1>. QED  BY <1>1, <1>4, <1>5, <1>7 DEF Leads, new

LEMMA RecordedKept ==
    ASSUME PidsOK, FilesOK, Exclusive, Recorded, [RunsNext]_runVars
    PROVE  Recorded'
<1>. USE DEF listVars, pidVars
<1>n. NoPid \notin Proc /\ Child \in Proc /\ Other \in Proc  BY RunsAssumption DEF Proc
<1>s. starts' \in Nat
  <2>1. starts \in Nat  BY DEF Recorded
  <2>2. starts' = starts \/ starts' = starts + 1
    BY DEF RunsNext, RunOf, GetsIndex, NoIndex, Watches, PollsPause, Stamps, Writes, Returns, Clears,
       Records, OtherStarts, BackUp, Begins, Stop, MarksStop, AsksPause, SetsPause, Resumes, ClearsActivity,
       Schedules, Ages, Restarts, Carrying, LooksFirst, LooksAgain, CarriesOn, Wish, runVars, runBounds
  <2>. QED  BY <2>1, <2>2
<1>e. <<>> \in Seq(Run) /\ Len(<<>>) = 0 /\ \A list : Leads(list, <<>>)  BY DEF Leads
\* Nothing of the list changes, and nobody begins to write it.
<1>1. CASE /\ UNCHANGED listVars /\ \A p \in Proc : rpc'[p] = "record" => rpc[p] = "record"
  BY <1>1, <1>s DEF Recorded, Leads
<1>2. ASSUME NEW q \in Proc, RunOf(q) PROVE Recorded'
  <2>1. CASE GetsIndex(q) \/ NoIndex(q) \/ Watches(q) \/ PollsPause(q) \/ Stamps(q) \/ Writes(q) \/ Clears(q)
    BY <1>1, <2>1 DEF GetsIndex, NoIndex, Watches, PollsPause, Stamps, Writes, Clears, PidsOK, RunStages
  <2>2. CASE Returns(q)
    <3>1. /\ UNCHANGED <<history, finished>> /\ reading' = [reading EXCEPT ![q] = history]
          /\ \A p \in Proc \ {q} : rpc'[p] = rpc[p]
      BY <2>2 DEF Returns, PidsOK
    <3>2. reading' \in [Proc -> Seq(Run)] /\ reading'[q] = history
          /\ \A p \in Proc \ {q} : reading'[p] = reading[p]
      BY <3>1 DEF Recorded
    <3>. QED  BY <1>s, <3>1, <3>2 DEF Recorded, Leads
  <2>3. CASE Records(q)
    <3>1. /\ \/ history' = Newest(ThisRun(q), reading[q]) /\ finished' = <<ThisRun(q)>> \o finished
             \/ UNCHANGED <<history, finished>>
          /\ reading' = [reading EXCEPT ![q] = <<>>]
          /\ rpc[q] = "record" /\ rpc' = [rpc EXCEPT ![q] = "clear"]
      BY <2>3 DEF Records
    <3>2. ThisRun(q) \in Run /\ reading[q] \in Seq(Run) /\ finished \in Seq(Run) /\ Leads(reading[q], finished)
      BY <3>1 DEF Recorded, ThisRun, Run, PidsOK
    <3>3. \A p \in Proc : rpc'[p] # "record"
      BY <3>1 DEF Exclusive, Inside, PidsOK
    <3>4. reading' \in [Proc -> Seq(Run)]  BY <1>e, <3>1 DEF Recorded
    <3>5. /\ history' \in Seq(Run) /\ finished' \in Seq(Run) /\ Len(history') <= MaxHistory
          /\ Leads(history', finished')
      <4>1. CASE UNCHANGED <<history, finished>>  BY <4>1 DEF Recorded
      <4>2. CASE history' = Newest(ThisRun(q), reading[q]) /\ finished' = <<ThisRun(q)>> \o finished
        <5>1. /\ Newest(ThisRun(q), reading[q]) \in Seq(Run) /\ Len(Newest(ThisRun(q), reading[q])) <= MaxHistory
              /\ <<ThisRun(q)>> \o finished \in Seq(Run)
              /\ Leads(Newest(ThisRun(q), reading[q]), <<ThisRun(q)>> \o finished)
          BY <3>2, NewestLeads
        <5>. QED  BY Zenon, <4>2, <5>1
      <4>. QED  BY <3>1, <4>1, <4>2
    <3>. QED  BY <1>s, <3>3, <3>4, <3>5 DEF Recorded, Leads
  <2>. QED  BY <1>2, <2>1, <2>2, <2>3 DEF RunOf
<1>3. ASSUME NEW ps \in SUBSET Proc, Dies(ps) PROVE Recorded'
  <2>1. /\ UNCHANGED <<history, finished>>
        /\ reading' = [p \in Proc |-> IF p \in ps THEN <<>> ELSE reading[p]]
        /\ rpc' = [p \in Proc |-> IF p \in ps THEN "off" ELSE rpc[p]]
    BY <1>3 DEF Dies
  <2>2. reading' \in [Proc -> Seq(Run)]  BY <1>e, <2>1 DEF Recorded
  <2>3. \A p \in Proc : rpc'[p] = "record" => rpc[p] = "record" /\ reading'[p] = reading[p]
    BY <2>1
  <2>. QED  BY <1>s, <2>1, <2>2, <2>3 DEF Recorded, Leads
<1>4. CASE ClearsActivity
  <2>1. history' = <<>> /\ finished' = <<>> /\ reading' = reading  BY <1>4 DEF ClearsActivity
  <2>2. \A list : Leads(list, finished')  BY <1>e, <2>1
  <2>3. Len(history') <= MaxHistory  BY <1>e, <2>1, RunsAssumption
  <2>. QED  BY <1>e, <1>s, <2>1, <2>2, <2>3 DEF Recorded, Leads
<1>5. ASSUME NEW q \in Proc, Begins(q), UNCHANGED listVars PROVE Recorded'
  BY <1>1, <1>5 DEF Begins, PidsOK
<1>6. CASE CarriesOn
  BY <1>1, <1>n, <1>5, <1>6 DEF CarriesOn
<1>7. CASE UNCHANGED listVars /\ UNCHANGED rpc  BY <1>1, <1>7
<1>. QED  BY <1>n, <1>2, <1>3, <1>4, <1>5, <1>6, <1>7
  DEF RunsNext, OtherStarts, BackUp, Stop, MarksStop, AsksPause, SetsPause, Resumes, Schedules, Ages, Restarts,
      Carrying, LooksFirst, LooksAgain, runVars

(***************************************************************************)
(* Stops by hand.                                                          *)
(***************************************************************************)
LEMMA StoppedKept ==
    ASSUME PidsOK, FilesOK, Exclusive, Stopped, [RunsNext]_runVars
    PROVE  Stopped'
<1>. USE DEF liveVars, pidVars, panelVars
<1>n. NoPid \notin Proc /\ Child \in Proc /\ Other \in Proc  BY RunsAssumption DEF Proc
<1>1. /\ lastEnd' \in {"killed", "stopped"} => lock' = NoPid
      /\ lastEnd' = "stopped" => handMarked' = TRUE /\ \A p \in Proc : stamped'[p] # "new"
  <2>1. CASE UNCHANGED <<lastEnd, lock, handMarked, stamped>>
    BY <2>1 DEF Stopped
  <2>2. CASE Stop
    <3>1. UNCHANGED <<handMarked, stamped>> /\ (lock = Child \/ lock = NoPid => lock' = NoPid)
      BY <2>2 DEF Stop, Dies
    <3>. QED  BY <2>2, <3>1 DEF Stop, Stopped
  <2>3. CASE MarksStop
    <3>1. CASE Mark /\ lastEnd' = IF lastEnd = "killed" THEN "stopped" ELSE lastEnd
      BY <2>3, <3>1 DEF MarksStop, Mark, Stopped
    <3>. QED  BY <2>1, <2>3, <3>1 DEF MarksStop
  <2>4. CASE Restarts
    BY <2>4 DEF Restarts, Dies, Stopped
  <2>5. ASSUME NEW q \in Proc, RunOf(q), lastEnd' \in {"killed", "stopped"}
        PROVE  lock' = NoPid
               /\ (lastEnd' = "stopped" => handMarked' = TRUE /\ \A p \in Proc : stamped'[p] # "new")
    <3>1. ~(GetsIndex(q) \/ Clears(q))  BY <2>5 DEF GetsIndex, Clears
    <3>2. UNCHANGED <<lock, lastEnd>>
      BY <2>5, <3>1 DEF RunOf, NoIndex, Watches, PollsPause, Stamps, Writes, Returns, Records
    <3>3. lock = NoPid /\ (lastEnd = "stopped" => handMarked = TRUE /\ \A p \in Proc : stamped[p] # "new")
      BY <2>5, <3>2 DEF Stopped
    <3>4. ~Stamps(q)  BY <1>n, <3>3 DEF Stamps, Exclusive, Inside
    <3>5. CASE Writes(q)
      <4>1. lastEnd = "stopped" => stamped[q] = "before the mark"
        BY <3>3, <3>5 DEF Writes, FilesOK, Stamp
      <4>. QED  BY <3>2, <3>3, <3>5, <4>1 DEF Writes, FilesOK
    <3>6. CASE UNCHANGED <<handMarked, stamped>>  BY <3>2, <3>3, <3>6
    <3>. QED  BY <2>5, <3>1, <3>4, <3>5, <3>6
              DEF RunOf, NoIndex, Watches, PollsPause, Returns, Records
  <2>6. \/ Stop \/ MarksStop \/ Restarts \/ (\E q \in Proc : RunOf(q))
        \/ UNCHANGED <<lastEnd, lock, handMarked, stamped>>
    BY DEF RunsNext, OtherStarts, BackUp, AsksPause, SetsPause, Resumes, ClearsActivity, Schedules,
       Ages, Carrying, LooksFirst, LooksAgain, CarriesOn, runVars
  <2>. QED  BY <2>1, <2>2, <2>3, <2>4, <2>5, <2>6
<1>2. carry' = "index" => found' # "stopped"
  <2>1. CASE LooksAgain
    BY <2>1 DEF LooksAgain, MayCarryOn, StoppedByHand, Stopped
  <2>2. \/ LooksAgain \/ UNCHANGED <<carry, found>> \/ carry' # "index"
    BY DEF RunsNext, RunOf, GetsIndex, NoIndex, Watches, PollsPause, Stamps, Writes, Returns, Clears,
       Records, OtherStarts, BackUp, Stop, MarksStop, AsksPause, SetsPause, Resumes, ClearsActivity, Schedules,
       Ages, Restarts, Carrying, LooksFirst, CarriesOn, runVars
  <2>. QED  BY <2>1, <2>2 DEF Stopped
<1>. QED  BY <1>1, <1>2 DEF Stopped

LEMMA RunsHold == RunsInit /\ [][RunsNext]_runVars => []RunsInv
<1>1. RunsInv /\ [RunsNext]_runVars => RunsInv'
  BY PidsKept, FilesKept, PausedKept, RecordedKept, StoppedKept DEF RunsInv
<1>. QED  BY <1>1, RunsBegin, PTL

LEMMA RunsInvSays ==
    RunsInv => RunsTypeOK /\ StopIsKept /\ PauseIsAsked /\ RunsAreRecorded
<1>. SUFFICES ASSUME RunsInv PROVE RunsTypeOK /\ StopIsKept /\ PauseIsAsked /\ RunsAreRecorded
  OBVIOUS
<1>. USE DEF RunsInv
<1>1. RunsTypeOK  BY DEF PidsOK, FilesOK, Exclusive, Recorded, RunStages, Inside, RunsTypeOK
<1>2. StopIsKept  BY DEF Stopped, StopIsKept
<1>3. PauseIsAsked  BY DEF Paused, PauseIsAsked
<1>4. RunsAreRecorded  BY DEF Recorded, Leads, RunsAreRecorded
<1>. QED  BY <1>1, <1>2, <1>3, <1>4

\* Types, and one process at a time past the index: it is what the shared files
\* of a run rest on.
THEOREM RunsKeepTypes == RunsSpec => []RunsTypeOK
BY RunsInvSays, RunsHold, PTL DEF RunsSpec

\* The panel never sets out to carry on a backup whose stop is marked, whichever
\* restarts and late writes came between. A stop is marked after the kill: of one
\* cut off between the two this says nothing.
THEOREM StopStays == RunsSpec => []StopIsKept
BY RunsInvSays, RunsHold, PTL DEF RunsSpec

\* A run is held only by a pause asked of its own process.
THEOREM PausesAreAsked == RunsSpec => []PauseIsAsked
BY RunsInvSays, RunsHold, PTL DEF RunsSpec

\* The newest MaxHistory of the runs recorded since the list was cleared are the
\* first of the list, in order: no two processes rewrite it at once.
THEOREM FinishedIsRecorded == RunsSpec => []RunsAreRecorded
BY RunsInvSays, RunsHold, PTL DEF RunsSpec

(***************************************************************************)
(* The three together.                                                     *)
(***************************************************************************)
LEMMA OneActs ==
    /\ InWorkers => UNCHANGED upVars /\ UNCHANGED runVars
    /\ InMultipart => UNCHANGED workerVars /\ UNCHANGED runVars
    /\ InRuns => UNCHANGED workerVars /\ UNCHANGED upVars
BY DEF InWorkers, InMultipart, InRuns, Only

LEMMA EachByItself ==
    [Next]_partVars => [PoolNext]_workerVars /\ [UploadNext]_upVars /\ [RunsNext]_runVars
<1>. SUFFICES ASSUME [Next]_partVars
              PROVE  [PoolNext]_workerVars /\ [UploadNext]_upVars /\ [RunsNext]_runVars
  OBVIOUS
<1>1. [PoolNext]_workerVars
  BY Zenon, OneActs DEF Next, PoolNext, Move, Look, partVars
<1>2. [UploadNext]_upVars
  BY Zenon, OneActs DEF Next, UploadNext, UploadGoesOn, partVars
<1>3. [RunsNext]_runVars
  BY Zenon, OneActs DEF Next, RunsNext, RunOf, Carrying, partVars
<1>. QED  BY <1>1, <1>2, <1>3

LEMMA EachSpec == Spec => PoolSpec /\ UploadSpec /\ RunsInit /\ [][RunsNext]_runVars
BY EachByItself, PTL DEF Spec, Init, PoolSpec, UploadSpec

\* What is kept in two places agrees, in the pool, in the upload and in the
\* runs, for any numbers of workers, jobs, parts and folders.
THEOREM TransfersConsistent == Spec => []Consistent
<1>1. PoolSpec => [](PoolTypeOK /\ JobsAccounted)
  BY PoolKeepsTypes, EveryJobAccounted, PTL
<1>2. UploadSpec => [](UploadTypeOK /\ NothingSentTwice)
  BY UploadKeepsTypes, SentOnce, PTL
<1>3. RunsInv => RunsTypeOK /\ PauseIsAsked /\ RunsAreRecorded
  BY RunsInvSays
<1>4. /\ PoolTypeOK /\ JobsAccounted
      /\ UploadTypeOK /\ NothingSentTwice
      /\ RunsTypeOK /\ PauseIsAsked /\ RunsAreRecorded
      => Consistent
  BY DEF Consistent
<1>. QED  BY <1>1, <1>2, <1>3, <1>4, EachSpec, RunsHold, PTL
=============================================================================
