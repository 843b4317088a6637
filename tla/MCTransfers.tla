----------------------------- MODULE MCTransfers ----------------------------
(***************************************************************************)
(* Small instances for TLC of the components that must get somewhere: the  *)
(* worker pool, one large upload, and runs carried on after a restart.     *)
(* They share no state with one another: a behaviour is of one of them,    *)
(* chosen by `part', and the others stay as they begin.                    *)
(***************************************************************************)
EXTENDS Workers, Multipart, Runs

CONSTANT Parts \* the components explored
VARIABLE part

partVars == <<part, workerVars, upVars, runVars>>
\* Only the component q acts, and the others keep all they have.
Only(q) ==
    /\ part = q /\ UNCHANGED part
    /\ q # "workers" => UNCHANGED workerVars
    /\ q # "multipart" => UNCHANGED upVars
    /\ q # "runs" => UNCHANGED runVars
InWorkers == Only("workers")
InMultipart == Only("multipart")
InRuns == Only("runs")

Init ==
    /\ part \in Parts
    /\ PoolInit /\ UploadInit /\ RunsInit
    /\ part # "runs" => ~registered
\* Each action is a disjunct of its own, so that TLC counts every one.
Next ==
    \/ \E w \in Worker : (InWorkers /\ Take(w)) \/ (InWorkers /\ PastPause(w))
                         \/ (InWorkers /\ GateLook(w)) \/ (InWorkers /\ GateWake(w))
                         \/ (InWorkers /\ Acquire(w)) \/ (InWorkers /\ Unpark(w))
                         \/ (InWorkers /\ Finish(w)) \/ (InWorkers /\ Trip(w))
    \/ (InWorkers /\ FoundNetwork) \/ (InWorkers /\ MissedNetwork)
       \/ (InWorkers /\ FinishProbing) \/ (InWorkers /\ CloseGate) \/ (InWorkers /\ Govern)
       \/ (InWorkers /\ AskPause) \/ (InWorkers /\ AskResume) \/ (InWorkers /\ Poll)
       \/ (InWorkers /\ NetworkGoes) \/ (InWorkers /\ NetworkComes)
       \/ (InWorkers /\ Cancel) \/ (InWorkers /\ Over)
    \/ (InMultipart /\ Start) \/ (InMultipart /\ NothingToResume)
       \/ (InMultipart /\ Resume) \/ (InMultipart /\ NoSuchUpload)
       \/ (InMultipart /\ CannotList) \/ (InMultipart /\ AbandonOld)
       \/ (InMultipart /\ ForgetOld) \/ (InMultipart /\ SweepStale)
       \/ (InMultipart /\ ForgetStale) \/ (InMultipart /\ createMultipart)
       \/ (InMultipart /\ saveNew) \/ (InMultipart /\ Deal) \/ (InMultipart /\ SavePart)
       \/ (InMultipart /\ Drained) \/ (InMultipart /\ completeMultipart)
       \/ (InMultipart /\ forgetResume) \/ (InMultipart /\ PostStat)
       \/ (InMultipart /\ Edit) \/ (InMultipart /\ Crash) \/ (InMultipart /\ ServerForgets)
       \/ (InMultipart /\ NextDay) \/ (InMultipart /\ Rest)
    \/ \E p \in Part : (InMultipart /\ Accepted(p)) \/ (InMultipart /\ Refused(p))
    \/ \E p \in Proc : (InRuns /\ GetsIndex(p)) \/ (InRuns /\ NoIndex(p))
                       \/ (InRuns /\ Watches(p)) \/ (InRuns /\ PollsPause(p))
                       \/ (InRuns /\ Stamps(p)) \/ (InRuns /\ Writes(p))
                       \/ (InRuns /\ Returns(p)) \/ (InRuns /\ Records(p))
                       \/ (InRuns /\ Clears(p))
    \/ (InRuns /\ OtherStarts) \/ (InRuns /\ BackUp) \/ (InRuns /\ Stop)
       \/ (InRuns /\ MarksStop) \/ (InRuns /\ AsksPause) \/ (InRuns /\ SetsPause) \/ (InRuns /\ Resumes)
       \/ (InRuns /\ ClearsActivity) \/ (InRuns /\ Schedules) \/ (InRuns /\ Ages)
       \/ (InRuns /\ Restarts) \/ (InRuns /\ LooksFirst) \/ (InRuns /\ LooksAgain)
       \/ (InRuns /\ CarriesOn)
Spec == Init /\ [][Next]_partVars

\* The fairness of each component's own specification, in its own behaviours.
FairSpec ==
    /\ Spec
    /\ \A w \in Worker : WF_workerVars(InWorkers /\ Move(w))
    /\ WF_workerVars(InWorkers /\ Tick)
    /\ WF_upVars(InMultipart /\ UploadGoesOn)
    /\ \A p \in Proc : WF_runVars(InRuns /\ RunOf(p))
    /\ WF_runVars(InRuns /\ Carrying)

\* Every variable of every component has its type, and what a component keeps in
\* two places agrees.
Consistent == PoolTypeOK /\ JobsAccounted /\ UploadTypeOK /\
    NothingSentTwice /\ RunsTypeOK /\ PauseIsAsked /\ RunsAreRecorded
\* Workers.RunEnds, of the behaviours of the worker pool.
PoolEnds == part = "workers" => RunEnds
\* Multipart.Arrives, of the behaviours of an upload.
UploadArrives == part = "multipart" => Arrives
\* Runs.CutRunsCarryOn, of the behaviours of the runs.
RunsCarryOn == part = "runs" => CutRunsCarryOn
=============================================================================
