----------------------------- MODULE Multipart -----------------------------
(***************************************************************************)
(* One large file sent in parts by remote.Client.putResumable, the note of *)
(* the unfinished upload that the index keeps, and the server's side of    *)
(* it.  The file may be saved again while it is read, requests may be lost *)
(* before or after they took effect, the server may drop an upload, and    *)
(* the process may die at any point and start over.                        *)
(***************************************************************************)
EXTENDS Naturals, FiniteSets, Sequences

CONSTANTS NumParts,     \* parts the file is cut into
          Concurrency,  \* uploadConcurrency
          ResumeMaxAge, \* days an unfinished upload is kept
          Short,        \* a part the server kept cut off
          MaxEdits, MaxFaults, MaxCrashes, MaxDays  \* bounds for TLC

ASSUME UploadAssumption == {NumParts, MaxEdits} \subseteq Nat /\ Short \notin Nat

Part    == 1..NumParts
Nothing == 0     \* no version; versions of the file are 1, 2, ...

VARIABLES
    file,     \* the version on disk
    object,   \* what the key holds: a version for each part, or <<>>
    uploads,  \* the server's uploads in the order they were started
    note,     \* the index's PendingUpload, id 0 for none
    recorded, \* the version the engine reported as uploaded
    pc, want, cur,      \* putResumable: step, version at its first stat, upload id
    have, todo, flight, \* its parts: held by the server, to send, on the wire
    saves, halted,      \* snapshots onPart has still to write; a part has failed
    strays,   \* history: uploads whose start or end a failure hid from the index
    today, edits, faults, crashes

procVars == <<pc, want, cur, have, todo, flight, saves, halted>>
sideVars == <<file, edits, today, crashes>>
bothVars == <<strays, sideVars>>
upVars   == <<file, object, uploads, note, recorded, procVars, strays, today, edits, faults, crashes>>

NoNote == [id |-> 0, ver |-> Nothing, parts |-> {}, begun |-> 0]
Empty  == [p \in Part |-> Nothing]
Lives(id) == uploads[id].open
Whole(id) == {p \in Part : uploads[id].parts[p] \notin {Nothing, Short}}

UploadInit ==
    /\ file = 1 /\ object = <<>> /\ uploads = <<>> /\ note = NoNote /\ recorded = Nothing
    /\ pc = "idle" /\ want = Nothing /\ cur = 0
    /\ have = {} /\ todo = {} /\ flight = Empty /\ saves = {} /\ halted = FALSE
    /\ strays = {} /\ today = 0 /\ edits = 0 /\ faults = 0 /\ crashes = 0

Then(s) == pc' = s
\* Put has returned an error, or the process is gone: its locals with it.
Return  == /\ pc' = "idle" /\ want' = Nothing /\ cur' = 0
           /\ have' = {} /\ todo' = {} /\ flight' = Empty /\ saves' = {} /\ halted' = FALSE
Fault   == faults < MaxFaults /\ faults' = faults + 1

\* The server lets go of an upload and its parts.
Drop(id) == [uploads EXCEPT ![id] = [open |-> FALSE, parts |-> Empty]]

\* The engine stats the file and hands it over.
Start ==
    /\ pc = "idle" /\ recorded # file
    /\ want' = file
    /\ Then("find")
    /\ UNCHANGED <<object, uploads, note, recorded, cur, have, todo, flight, saves, halted, faults, bothVars>>

\* Slip: an upload is continued whatever version it was started for.
UselessByAge == today - note.begun > ResumeMaxAge
\* findResumable: the note describes other bytes, or is too old to continue.
Useless == note.ver # want \/ today - note.begun > ResumeMaxAge
\* Slip: a part the server kept cut off counts as sent.
adoptableShort(id) == {p \in Part : uploads[id].parts[p] # Nothing}
adoptable(id) == Whole(id)

NothingToResume ==
    /\ pc = "find" /\ note.id = 0
    /\ Then("create")
    /\ UNCHANGED <<object, uploads, note, recorded, want, cur, have, todo, flight, saves, halted, faults, bothVars>>
Resume ==
    /\ pc = "find" /\ note.id # 0 /\ ~Useless /\ Lives(note.id)
    /\ cur' = note.id
    /\ have' = adoptable(note.id) /\ todo' = Part \ have'
    /\ Then("send")
    /\ UNCHANGED <<object, uploads, note, recorded, want, flight, saves, halted, faults, bothVars>>
NoSuchUpload ==
    /\ pc = "find" /\ note.id # 0 /\ ~Useless /\ ~Lives(note.id)
    /\ note' = NoNote
    /\ Then("create")
    /\ UNCHANGED <<object, uploads, recorded, want, cur, have, todo, flight, saves, halted, faults, bothVars>>
CannotList ==
    /\ pc = "find" /\ note.id # 0 /\ ~Useless
    /\ Fault
    /\ strays' = strays \cup {note.id}
    /\ Then("create")
    /\ UNCHANGED <<object, uploads, note, recorded, want, cur, have, todo, flight, saves, halted, sideVars>>

\* Slip: the note goes and the upload stays.
AbortLocally(from, to) ==
    /\ pc = from /\ note.id # 0
    /\ Then(to)
    /\ UNCHANGED <<object, uploads, note, recorded, want, cur, have, todo, flight, saves, halted, faults, bothVars>>
\* abandon: an abort whose failure is swallowed, then the note is dropped.
Abort(from, to) ==
    /\ pc = from /\ note.id # 0
    /\ \/ uploads' = Drop(note.id) /\ UNCHANGED <<faults, strays>>
       \/ Fault /\ strays' = strays \cup {note.id} /\ UNCHANGED uploads
    /\ Then(to)
    /\ UNCHANGED <<object, note, recorded, want, cur, have, todo, flight, saves, halted, sideVars>>
ForgetAborted(from, to) ==
    /\ pc = from
    /\ note' = NoNote
    /\ Then(to)
    /\ UNCHANGED <<object, uploads, recorded, want, cur, have, todo, flight, saves, halted, faults, bothVars>>

AbandonOld   == Useless /\ Abort("find", "forgetOld")
ForgetOld    == ForgetAborted("forgetOld", "create")
\* AbandonStaleUploads at the end of a run.
SweepStale   == today - note.begun > ResumeMaxAge /\ Abort("idle", "forgetSwept")
ForgetStale  == ForgetAborted("forgetSwept", "idle")

createMultipart ==
    /\ pc = "create"
    /\ \/ /\ uploads' = Append(uploads, [open |-> TRUE, parts |-> Empty])
          /\ cur' = Len(uploads')
          /\ Then("save")
          /\ UNCHANGED <<want, have, todo, flight, saves, halted, strays, faults>>
       \/ /\ Fault /\ Return
          /\ uploads' \in {uploads, Append(uploads, [open |-> TRUE, parts |-> Empty])}
          /\ strays' = strays \cup (DOMAIN uploads' \ DOMAIN uploads)
    /\ UNCHANGED <<object, note, recorded, sideVars>>

saveNew ==
    /\ pc = "save"
    /\ \/ /\ note' = [id |-> cur, ver |-> want, parts |-> {}, begun |-> today]
          /\ todo' = Part
          /\ Then("send")
          /\ UNCHANGED <<want, cur, have, flight, saves, halted, strays, faults>>
       \/ Fault /\ Return /\ strays' = strays \cup {cur} /\ UNCHANGED note
    /\ UNCHANGED <<object, uploads, recorded, sideVars>>

\* Parts are handed out in order, to a free sender, until one fails.
OnWire == {p \in Part : flight[p] # Nothing}
Deal ==
    /\ pc = "send" /\ ~halted
    /\ todo # {} /\ Cardinality(OnWire) < Concurrency
    /\ LET p == CHOOSE q \in todo : \A r \in todo : q <= r
       IN /\ todo' = todo \ {p}
          /\ flight' = [flight EXCEPT ![p] = file]
    /\ UNCHANGED <<object, uploads, note, recorded, pc, want, cur, have, saves, halted, faults, bothVars>>

\* The locked half of onPart; its snapshot is written after the unlock.
Accepted(p) ==
    /\ pc = "send" /\ flight[p] # Nothing
    /\ uploads[cur].open
    /\ uploads' = [uploads EXCEPT ![cur].parts[p] = flight[p]]
    /\ flight' = [flight EXCEPT ![p] = Nothing]
    /\ have' = have \cup {p}
    /\ saves' = saves \cup {have'}
    /\ UNCHANGED <<object, note, recorded, pc, want, cur, todo, halted, faults, bothVars>>
\* A part that fails: not sent, sent with its answer lost, or kept cut off; or
\* the server has no such upload any more.
Refused(p) ==
    /\ pc = "send" /\ flight[p] # Nothing
    /\ \/ ~uploads[cur].open /\ UNCHANGED <<uploads, faults>>
       \/ /\ uploads[cur].open /\ Fault
          /\ \E kept \in {uploads[cur].parts[p], flight[p], Short} :
                uploads' = [uploads EXCEPT ![cur].parts[p] = kept]
    /\ flight' = [flight EXCEPT ![p] = Nothing]
    /\ halted' = TRUE
    /\ UNCHANGED <<object, note, recorded, pc, want, cur, have, todo, saves, bothVars>>
SavePart ==
    /\ pc = "send"
    /\ \E s \in saves :
         /\ note' = [id |-> cur, ver |-> want, parts |-> s, begun |-> note.begun]
         /\ saves' = saves \ {s}
    /\ UNCHANGED <<object, uploads, recorded, pc, want, cur, have, todo, flight, halted, faults, bothVars>>

\* wg.Wait: every sender is back.
Drained ==
    /\ pc = "send" /\ OnWire = {} /\ saves = {} /\ (todo = {} \/ halted)
    /\ IF halted THEN Return
       ELSE Then("complete") /\ UNCHANGED <<want, cur, have, todo, flight, saves, halted>>
    /\ UNCHANGED <<object, uploads, note, recorded, faults, bothVars>>

\* The server completes an upload it has open and whose parts are all whole.
completeMultipart ==
    /\ pc = "complete"
    /\ LET done == /\ Lives(cur) /\ Whole(cur) = Part
                   /\ object' = uploads[cur].parts
                   /\ uploads' = Drop(cur)
           same == UNCHANGED <<object, uploads>>
       IN \/ done /\ Then("forget") /\ UNCHANGED <<want, cur, have, todo, flight, saves, halted, faults>>
          \/ ~(Lives(cur) /\ Whole(cur) = Part) /\ same /\ Return /\ UNCHANGED faults
          \/ Fault /\ Return /\ (done \/ same)
    /\ UNCHANGED <<note, recorded, bothVars>>

forgetResume ==
    /\ pc = "forget"
    /\ note' = NoNote
    /\ Then("post")
    /\ UNCHANGED <<object, uploads, recorded, want, cur, have, todo, flight, saves, halted, faults, bothVars>>

\* The engine's second stat: reported, or deleted and sent again.
PostStat ==
    /\ pc = "post"
    /\ \/ file = want /\ recorded' = want /\ UNCHANGED <<object, faults>>
       \/ file # want /\ object' = <<>> /\ UNCHANGED <<recorded, faults>>
       \/ file # want /\ Fault /\ UNCHANGED <<object, recorded>>
    /\ Return
    /\ UNCHANGED <<uploads, note, bothVars>>
-----------------------------------------------------------------------------
(* The world.                                                              *)

Edit ==
    /\ edits < MaxEdits
    /\ file' = file + 1 /\ edits' = edits + 1
    /\ UNCHANGED <<object, uploads, note, recorded, procVars, strays, today, faults, crashes>>
Crash ==
    /\ pc # "idle" /\ crashes < MaxCrashes
    /\ crashes' = crashes + 1
    /\ \E got \in SUBSET OnWire :
         uploads' = IF got = {} \/ ~uploads[cur].open THEN uploads
                    ELSE [uploads EXCEPT ![cur].parts = [p \in Part |-> IF p \in got THEN flight[p] ELSE @[p]]]
    /\ strays' = IF pc = "save" THEN strays \cup {cur} ELSE strays
    /\ Return
    /\ UNCHANGED <<object, note, recorded, file, edits, today, faults>>
ServerForgets ==
    /\ Fault
    /\ \E id \in DOMAIN uploads : Lives(id) /\ uploads' = Drop(id)
    /\ UNCHANGED <<object, note, recorded, procVars, bothVars>>
NextDay ==
    /\ today < MaxDays
    /\ today' = today + 1
    /\ UNCHANGED <<object, uploads, note, recorded, procVars, strays, file, edits, faults, crashes>>

Rest == pc = "idle" /\ recorded = file /\ UNCHANGED upVars

UploadGoesOn == \/ Start \/ NothingToResume \/ Resume \/ NoSuchUpload \/ CannotList
                \/ AbandonOld \/ ForgetOld \/ SweepStale \/ ForgetStale
                \/ createMultipart \/ saveNew
                \/ Deal \/ SavePart \/ Drained
                \/ (\E p \in Part : Accepted(p) \/ Refused(p))
                \/ completeMultipart \/ forgetResume \/ PostStat
UploadNext == UploadGoesOn \/ Edit \/ Crash \/ ServerForgets \/ NextDay \/ Rest
UploadSpec == UploadInit /\ [][UploadNext]_upVars
\* A backup that fails is run again, and a run goes on until it ends.
FairUploadSpec == UploadSpec /\ WF_upVars(UploadGoesOn)

-----------------------------------------------------------------------------
(* Properties.                                                             *)

FileVersions == 1..(MaxEdits + 1)
UploadTypeOK ==
    /\ file \in FileVersions /\ recorded \in FileVersions \cup {Nothing} /\ want \in FileVersions \cup {Nothing}
    /\ object = <<>> \/ object \in [Part -> FileVersions]
    /\ \A id \in DOMAIN uploads :
         uploads[id].open \in BOOLEAN /\ uploads[id].parts \in [Part -> FileVersions \cup {Nothing, Short}]
    /\ note.id \in 0..Len(uploads) /\ cur \in 0..Len(uploads) /\ note.parts \subseteq Part
    /\ have \subseteq Part /\ todo \subseteq Part /\ flight \in [Part -> FileVersions \cup {Nothing}]
    /\ saves \subseteq SUBSET Part /\ halted \in BOOLEAN

\* What is reported as uploaded is one version of the file from its first part
\* to its last, however many attempts, saves and restarts it took.
RecordedIsWhole ==
    pc = "idle" /\ recorded = file => object = [p \in Part |-> recorded]

\* Resuming never sends again a part the server holds whole: the server is
\* asked, because the notes written outside the lock may be behind.
NothingSentTwice == pc = "send" => OnWire \cap Whole(cur) = {}

\* In the end the key holds the file as it is, from its first part to its last:
\* no leftover of an unfinished upload keeps later runs from finishing it.
Arrives == <>[](object = [p \in Part |-> file])

\* An upload the server keeps open is one the index knows of, so that the next
\* run or the weekly sweep will find it, or the one in hand; unless the request
\* that started or ended it failed, or the process ended between that request
\* and the note.
OpenIsNoted ==
    \A id \in DOMAIN uploads : Lives(id) => id \in {note.id, cur} \cup strays
=============================================================================
