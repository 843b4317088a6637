-------------------------- MODULE Multipart_proofs --------------------------
(***************************************************************************)
(* What holds of a large upload in any number of parts, however often the  *)
(* file is saved again, requests fail, the server drops an upload and the  *)
(* process dies.                                                           *)
(***************************************************************************)
EXTENDS Multipart, FiniteSetTheorems, SequenceTheorems, WellFoundedInduction, TLAPS

Held   == FileVersions \cup {Nothing, Short}
Upload == [open: BOOLEAN, parts: [Part -> Held]]
Note   == [id: Nat, ver: FileVersions \cup {Nothing}, parts: SUBSET Part, begun: Nat]
UploadStages == {"idle", "find", "create", "save", "send", "complete", "forget", "post",
           "forgetOld", "forgetSwept"}

\* UploadTypeOK, and the domains it leaves out.
ServerOK == /\ uploads \in Seq(Upload)
            /\ note \in Note /\ note.id \in 0..Len(uploads) /\ cur \in 0..Len(uploads)
            /\ object = <<>> \/ object \in [Part -> FileVersions]
FileOK   == /\ edits \in 0..MaxEdits /\ file = edits + 1
            /\ today \in Nat
            /\ recorded \in 0..file /\ want \in 0..file
LocalOK  == /\ pc \in UploadStages /\ halted \in BOOLEAN
            /\ have \subseteq Part /\ todo \subseteq Part /\ saves \subseteq SUBSET Part
            /\ flight \in [Part -> FileVersions \cup {Nothing}]

\* How far the process is, and what it holds then.
Steps ==
    /\ pc \in {"send", "complete", "forget"} => cur # 0 /\ note.id = cur /\ note.ver = want
    /\ pc = "save" => cur # 0 /\ note.id # cur /\ uploads[cur].parts = Empty
    /\ pc = "post" => cur # 0
    /\ pc \in {"idle", "find", "create", "forgetOld", "forgetSwept"} => cur = 0
    /\ pc # "send" => flight = Empty
    /\ pc \in {"forgetOld", "forgetSwept"} => note.id # 0

\* A part of the noted upload, and one on the wire, was read no earlier than the
\* version the upload is for.
Fresh ==
    /\ note.id # 0 => \A p \in Part : uploads[note.id].parts[p] \in {Nothing, Short} \cup (note.ver..file)
    /\ pc = "send" => \A p \in Part : flight[p] # Nothing => flight[p] \in want..file
    /\ pc \in {"forget", "post"} => object \in [Part -> want..file]

\* What is still to send, or on its way, is no part the server holds whole.
Unsent ==
    pc = "send" => \A p \in Part : /\ p \in todo => flight[p] = Nothing /\ p \notin Whole(cur)
                                   /\ flight[p] # Nothing => p \notin Whole(cur)

\* Once the file as it is has been reported, no run touches it.
Reported == recorded = file => pc \in {"idle", "forgetSwept"} /\ object = [p \in Part |-> recorded]

\* An upload the server has open is noted, in hand, or went astray; one whose
\* note goes is no more, or went astray.
OpenUploads == {id \in DOMAIN uploads : Lives(id)}
Known ==
    /\ OpenUploads \subseteq {note.id, cur} \cup strays
    /\ pc \in {"create", "save", "forgetOld", "forgetSwept"} => note.id \notin OpenUploads \ strays
    /\ pc \in {"forget", "post"} => cur \notin OpenUploads

Local == ServerOK /\ FileOK /\ LocalOK

LEMMA Versions ==
    ASSUME FileOK
    PROVE  /\ file \in FileVersions /\ file \in Nat /\ Short \notin FileVersions \cup {Nothing}
           /\ 0..file \subseteq FileVersions \cup {Nothing}
           /\ Nothing \in Held /\ FileVersions \subseteq Nat /\ FileVersions \subseteq Held
           /\ Nothing \notin FileVersions
BY UploadAssumption DEF FileOK, FileVersions, Nothing, Held

LEMMA FileCounted ==
    ASSUME FileOK
    PROVE  file \in Nat /\ want \in Nat /\ want <= file /\ recorded \in Nat /\ recorded <= file
<1>1. MaxEdits \in Nat  BY UploadAssumption
<1>2. edits \in Nat  BY <1>1 DEF FileOK
<1>3. file \in Nat  BY <1>2 DEF FileOK
<1>. QED  BY <1>3 DEF FileOK

LEMMA FileCountedNext ==
    ASSUME FileOK'
    PROVE  file' \in Nat /\ want' \in Nat /\ want' <= file' /\ recorded' \in Nat /\ recorded' <= file'
<1>1. MaxEdits \in Nat  BY UploadAssumption
<1>2. edits' \in Nat  BY <1>1 DEF FileOK
<1>3. file' = edits' + 1  BY Zenon DEF FileOK
<1>4. file' \in Nat
  <2>1. \A e \in Nat : e + 1 \in Nat  OBVIOUS
  <2>2. edits' + 1 \in Nat  BY Zenon, <1>2, <2>1
  <2>. QED  BY Zenon, <1>3, <2>2
<1>5. recorded' \in 0..file' /\ want' \in 0..file'  BY Zenon DEF FileOK
<1>. QED  BY <1>4, <1>5

LEMMA LeastOf ==
    ASSUME NEW parts \in SUBSET Nat, parts # {}
    PROVE  \E q \in parts : \A r \in parts : q <= r
<1>1. PICK q \in parts : \A r \in parts : <<r, q>> \notin OpToRel(<, Nat)
  BY WFMin, NatLessThanWellFounded, Zenon
<1>2. \A r \in parts : ~(r < q)  BY <1>1 DEF OpToRel
<1>. QED  BY <1>2

LEMMA EmptyTyped ==
    /\ Empty \in [Part -> FileVersions \cup {Nothing}] /\ Empty \in [Part -> Held]
    /\ \A p \in Part : Empty[p] = Nothing
    /\ [open |-> TRUE, parts |-> Empty] \in Upload
    /\ NoNote \in Note /\ NoNote.id = 0
BY DEF Empty, Held, Upload, NoNote, Note, Nothing

LEMMA DropTyped ==
    ASSUME uploads \in Seq(Upload), NEW id \in 1..Len(uploads)
    PROVE  /\ Drop(id) \in Seq(Upload) /\ Len(Drop(id)) = Len(uploads)
           /\ ~Drop(id)[id].open /\ Drop(id)[id].parts = Empty
           /\ \A i \in 1..Len(uploads) : i # id => Drop(id)[i] = uploads[i]
<1>1. [open |-> FALSE, parts |-> Empty] \in Upload  BY EmptyTyped DEF Upload
<1>. QED  BY <1>1 DEF Drop

LEMMA AppendTyped ==
    ASSUME uploads \in Seq(Upload), NEW u \in Upload
    PROVE  /\ Append(uploads, u) \in Seq(Upload) /\ Len(Append(uploads, u)) = Len(uploads) + 1
           /\ Append(uploads, u)[Len(uploads) + 1] = u
           /\ \A i \in 1..Len(uploads) : Append(uploads, u)[i] = uploads[i]
           /\ DOMAIN Append(uploads, u) = 1..(Len(uploads) + 1) /\ DOMAIN uploads = 1..Len(uploads)
OBVIOUS

WithPart(id, p, v) == [uploads EXCEPT ![id].parts[p] = v]
LEMMA PartTyped ==
    ASSUME uploads \in Seq(Upload), NEW id \in 1..Len(uploads), NEW p \in Part, NEW v \in Held
    PROVE  /\ WithPart(id, p, v) \in Seq(Upload) /\ Len(WithPart(id, p, v)) = Len(uploads)
           /\ WithPart(id, p, v)[id].open = uploads[id].open
           /\ WithPart(id, p, v)[id].parts = [uploads[id].parts EXCEPT ![p] = v]
           /\ \A i \in 1..Len(uploads) : i # id => WithPart(id, p, v)[i] = uploads[i]
<1>. DEFINE parts == [uploads[id].parts EXCEPT ![p] = v]
<1>1. uploads[id] \in Upload  OBVIOUS
<1>2. parts \in [Part -> Held]  BY <1>1 DEF Upload
<1>3. [uploads[id] EXCEPT !.parts = parts] \in Upload
      /\ [uploads[id] EXCEPT !.parts = parts].open = uploads[id].open
      /\ [uploads[id] EXCEPT !.parts = parts].parts = parts
  BY <1>1, <1>2 DEF Upload
<1>4. WithPart(id, p, v) = [uploads EXCEPT ![id] = [uploads[id] EXCEPT !.parts = parts]]
  BY DEF WithPart
<1>. HIDE DEF parts
<1>5. LET u == [uploads EXCEPT ![id] = [uploads[id] EXCEPT !.parts = parts]] IN
      /\ u \in Seq(Upload) /\ Len(u) = Len(uploads)
      /\ u[id] = [uploads[id] EXCEPT !.parts = parts]
      /\ \A i \in 1..Len(uploads) : i # id => u[i] = uploads[i]
  BY <1>3
<1>. QED  BY Zenon, <1>3, <1>4, <1>5 DEF parts

LEMMA ReturnTyped ==
    ASSUME Return, FileOK
    PROVE  LocalOK' /\ cur' = 0 /\ want' = 0 /\ flight' = Empty
BY EmptyTyped DEF Return, LocalOK, UploadStages, Nothing, Empty, FileVersions

(***************************************************************************)
(* Type correctness.                                                       *)
(***************************************************************************)
LEMMA FilesTyped ==
    ASSUME Local, [UploadNext]_upVars
    PROVE  FileOK'
<1>. USE DEF FileOK, bothVars, sideVars, procVars
<1>0. FileOK  BY DEF Local
<1>1. CASE Start \/ Edit \/ NextDay
  BY <1>0, <1>1, UploadAssumption DEF Start, Edit, NextDay
<1>2. CASE Return /\ UNCHANGED <<edits, file, today, recorded>>
  BY <1>0, <1>2 DEF Return, Nothing
<1>3. CASE PostStat
  BY <1>0, <1>3 DEF PostStat, Return, Nothing
<1>4. CASE UNCHANGED <<edits, file, today, recorded, want>>  BY <1>0, <1>4
<1>5. UploadGoesOn => \/ Start \/ PostStat
                      \/ Return /\ UNCHANGED <<edits, file, today, recorded>>
                      \/ UNCHANGED <<edits, file, today, recorded, want>>
  BY DEF UploadGoesOn, NothingToResume, Resume, NoSuchUpload, CannotList, AbandonOld, ForgetOld,
         SweepStale, ForgetStale, Abort, ForgetAborted, createMultipart, saveNew, Deal, SavePart, Drained,
         Accepted, Refused, completeMultipart, forgetResume
<1>. QED  BY <1>1, <1>2, <1>3, <1>4, <1>5 DEF UploadNext, Crash, ServerForgets, Rest, upVars

LEMMA LocalsTyped ==
    ASSUME Local, [UploadNext]_upVars
    PROVE  LocalOK'
<1>. USE DEF LocalOK, bothVars, sideVars, procVars, Then
<1>0. FileOK /\ LocalOK  BY DEF Local
<1>v. file \in FileVersions \cup {Nothing} /\ Nothing \in FileVersions \cup {Nothing}
  BY <1>0, Versions
<1>1. CASE Return  BY <1>0, <1>1, ReturnTyped
<1>2. CASE Start \/ NothingToResume \/ NoSuchUpload \/ CannotList \/ forgetResume
  BY <1>0, <1>2 DEF Start, NothingToResume, NoSuchUpload, CannotList, forgetResume, UploadStages
<1>3. CASE AbandonOld \/ ForgetOld \/ SweepStale \/ ForgetStale
  BY <1>0, <1>3 DEF AbandonOld, ForgetOld, SweepStale, ForgetStale, Abort, ForgetAborted, UploadStages
<1>4. CASE Resume
  <2>1. have' \subseteq Part /\ todo' \subseteq Part  BY Zenon, <1>4 DEF Resume, adoptable, Whole
  <2>. QED  BY <1>0, <1>4, <2>1 DEF Resume, UploadStages
<1>5. CASE createMultipart
  BY <1>0, <1>1, <1>5 DEF createMultipart, UploadStages
<1>6. CASE saveNew
  BY <1>0, <1>1, <1>6 DEF saveNew, UploadStages
<1>7. CASE Deal
  <2>1. PICK p : todo' = todo \ {p} /\ flight' = [flight EXCEPT ![p] = file]  BY <1>7 DEF Deal
  <2>2. UNCHANGED <<pc, halted, have, saves>>  BY <1>7 DEF Deal
  <2>. QED  BY <1>0, <1>v, <2>1, <2>2
<1>8. ASSUME NEW p \in Part, Accepted(p) PROVE LocalOK'
  BY <1>0, <1>v, <1>8 DEF Accepted
<1>9. ASSUME NEW p \in Part, Refused(p) PROVE LocalOK'
  BY <1>0, <1>v, <1>9 DEF Refused
<1>10. CASE SavePart  BY <1>0, <1>10 DEF SavePart
<1>11. CASE Drained  BY <1>0, <1>1, <1>11 DEF Drained, UploadStages
<1>12. CASE completeMultipart  BY <1>0, <1>1, <1>12 DEF completeMultipart, UploadStages
<1>13. CASE PostStat \/ Crash  BY <1>1, <1>13 DEF PostStat, Crash
<1>14. CASE UNCHANGED procVars  BY <1>0, <1>14
<1>. QED  BY <1>2, <1>3, <1>4, <1>5, <1>6, <1>7, <1>8, <1>9, <1>10, <1>11, <1>12, <1>13, <1>14
          DEF UploadNext, UploadGoesOn, Edit, ServerForgets, NextDay, Rest, upVars

\* What becomes of the uploads the server has: nothing, another one, one is
\* dropped, or a part of the one in hand is there.
NewUpload == [open |-> TRUE, parts |-> Empty]
Received(got) == [uploads EXCEPT ![cur].parts = [p \in Part |-> IF p \in got THEN flight[p] ELSE @[p]]]

LEMMA Served ==
    ASSUME Local, Steps, [UploadNext]_upVars
    PROVE  \/ UNCHANGED uploads
           \/ createMultipart /\ uploads' = Append(uploads, NewUpload)
           \/ /\ AbandonOld \/ SweepStale \/ ServerForgets \/ completeMultipart
              /\ \E id \in 1..Len(uploads) : uploads' = Drop(id)
           \/ \E p \in Part, v \in Held : /\ uploads' = WithPart(cur, p, v)
                                          /\ Accepted(p) \/ Refused(p)
           \/ Crash /\ pc = "send" /\ \E got \in SUBSET OnWire : uploads' = Received(got)
<1>. USE DEF bothVars, sideVars, procVars
<1>0. /\ uploads \in Seq(Upload) /\ note.id \in 0..Len(uploads) /\ cur \in 0..Len(uploads)
      /\ flight \in [Part -> FileVersions \cup {Nothing}] /\ DOMAIN uploads = 1..Len(uploads)
      /\ FileOK
  BY DEF Local, ServerOK, LocalOK
<1>1. CASE createMultipart
  BY <1>1 DEF createMultipart, NewUpload
<1>2. CASE AbandonOld \/ SweepStale
  BY <1>0, <1>2 DEF AbandonOld, SweepStale, Abort
<1>3. CASE ServerForgets  BY <1>0, <1>3 DEF ServerForgets
<1>4. CASE completeMultipart
  <2>1. cur \in 1..Len(uploads)  BY <1>0, <1>4 DEF completeMultipart, Steps
  <2>. QED  BY <1>4, <2>1 DEF completeMultipart
<1>5. ASSUME NEW p \in Part, Accepted(p) \/ Refused(p)
      PROVE  \/ UNCHANGED uploads
             \/ \E v \in Held : uploads' = WithPart(cur, p, v)
  <2>1. cur \in 1..Len(uploads)  BY <1>0, <1>5 DEF Accepted, Refused, Steps
  <2>2. uploads[cur] \in Upload  BY <1>0, <2>1
  <2>3. {uploads[cur].parts[p], flight[p], Short} \subseteq Held
    BY <1>0, <2>2 DEF Upload, Held
  <2>. QED  BY <1>5, <2>3 DEF Accepted, Refused, WithPart
<1>6. CASE Crash
  <2>1. PICK got \in SUBSET OnWire :
          uploads' = IF got = {} \/ ~uploads[cur].open THEN uploads ELSE Received(got)
    BY <1>6 DEF Crash, Received
  <2>2. got # {} => pc = "send"
    BY EmptyTyped DEF Steps, OnWire
  <2>. QED  BY <1>6, <2>1, <2>2
<1>7. \/ UNCHANGED uploads \/ createMultipart \/ AbandonOld \/ SweepStale \/ ServerForgets
      \/ completeMultipart \/ Crash \/ \E p \in Part : Accepted(p) \/ Refused(p)
  BY DEF UploadNext, UploadGoesOn, Start, NothingToResume, Resume, NoSuchUpload, CannotList,
         ForgetOld, ForgetStale, ForgetAborted, saveNew, Deal, SavePart, Drained, forgetResume,
         PostStat, Edit, NextDay, Rest, upVars
<1>. QED  BY <1>1, <1>2, <1>3, <1>4, <1>5, <1>6, <1>7

LEMMA ReceivedTyped ==
    ASSUME Local, cur # 0, NEW got \in SUBSET OnWire
    PROVE  /\ Received(got) \in Seq(Upload) /\ Len(Received(got)) = Len(uploads)
           /\ Received(got)[cur].open = uploads[cur].open
           /\ \A p \in Part : Received(got)[cur].parts[p] = IF p \in got THEN flight[p]
                                                            ELSE uploads[cur].parts[p]
           /\ \A i \in 1..Len(uploads) : i # cur => Received(got)[i] = uploads[i]
<1>. DEFINE parts == [p \in Part |-> IF p \in got THEN flight[p] ELSE uploads[cur].parts[p]]
<1>0. /\ uploads \in Seq(Upload) /\ cur \in 1..Len(uploads)
      /\ flight \in [Part -> FileVersions \cup {Nothing}]
  BY DEF Local, ServerOK, LocalOK
<1>1. uploads[cur] \in Upload  BY <1>0
<1>2. parts \in [Part -> Held]  BY <1>0, <1>1 DEF Upload, Held
<1>3. [uploads[cur] EXCEPT !.parts = parts] \in Upload
      /\ [uploads[cur] EXCEPT !.parts = parts].open = uploads[cur].open
      /\ [uploads[cur] EXCEPT !.parts = parts].parts = parts
  BY <1>1, <1>2 DEF Upload
<1>4. Received(got) = [uploads EXCEPT ![cur] = [uploads[cur] EXCEPT !.parts = parts]]
  BY DEF Received
<1>5. \A p \in Part : parts[p] = IF p \in got THEN flight[p] ELSE uploads[cur].parts[p]
  OBVIOUS
<1>. HIDE DEF parts
<1>6. LET u == [uploads EXCEPT ![cur] = [uploads[cur] EXCEPT !.parts = parts]] IN
      /\ u \in Seq(Upload) /\ Len(u) = Len(uploads)
      /\ u[cur] = [uploads[cur] EXCEPT !.parts = parts]
      /\ \A i \in 1..Len(uploads) : i # cur => u[i] = uploads[i]
  BY <1>0, <1>3
<1>. QED  BY Zenon, <1>3, <1>4, <1>5, <1>6

\* Uploads keep their place, and there are never fewer.
LEMMA ServerTyped ==
    ASSUME Local, Steps, [UploadNext]_upVars
    PROVE  uploads' \in Seq(Upload) /\ Len(uploads) \in Nat /\ Len(uploads') \in Nat
           /\ Len(uploads') >= Len(uploads)
<1>0. uploads \in Seq(Upload) /\ cur \in 0..Len(uploads)  BY DEF Local, ServerOK
<1>1. CASE UNCHANGED uploads  BY <1>0, <1>1
<1>2. CASE uploads' = Append(uploads, NewUpload)
  BY <1>0, <1>2, EmptyTyped, AppendTyped DEF NewUpload
<1>3. ASSUME NEW id \in 1..Len(uploads), uploads' = Drop(id)
      PROVE  uploads' \in Seq(Upload) /\ Len(uploads') = Len(uploads)
  BY <1>0, <1>3, DropTyped
<1>4. ASSUME NEW p \in Part, NEW v \in Held, uploads' = WithPart(cur, p, v),
             Accepted(p) \/ Refused(p)
      PROVE  uploads' \in Seq(Upload) /\ Len(uploads') = Len(uploads)
  <2>1. cur \in 1..Len(uploads)  BY <1>0, <1>4 DEF Steps, Accepted, Refused
  <2>. QED  BY <1>0, <1>4, <2>1, PartTyped
<1>5. ASSUME NEW got \in SUBSET OnWire, uploads' = Received(got), pc = "send"
      PROVE  uploads' \in Seq(Upload) /\ Len(uploads') = Len(uploads)
  BY <1>5, ReceivedTyped DEF Steps
<1>6. Len(uploads) \in Nat  BY <1>0
<1>. QED  BY <1>1, <1>2, <1>3, <1>4, <1>5, <1>6, Served

LEMMA ServerKept ==
    ASSUME Local, Steps, [UploadNext]_upVars
    PROVE  ServerOK'
<1>. USE DEF bothVars, sideVars, procVars
<1>0. ServerOK /\ FileOK  BY DEF Local
<1>s. uploads' \in Seq(Upload) /\ Len(uploads) \in Nat /\ Len(uploads') \in Nat
      /\ Len(uploads') >= Len(uploads)
  BY ServerTyped
<1>1. object' = <<>> \/ object' \in [Part -> FileVersions]
  <2>1. CASE completeMultipart
    <3>1. CASE object' = object  BY <1>0, <3>1 DEF ServerOK
    <3>2. CASE Whole(cur) = Part /\ object' = uploads[cur].parts
      <4>1. cur \in 1..Len(uploads)  BY <1>0, <2>1 DEF completeMultipart, Steps, ServerOK
      <4>2. uploads[cur] \in Upload  BY <1>0, <4>1 DEF ServerOK
      <4>3. uploads[cur].parts \in [Part -> Held]  BY <4>2 DEF Upload
      <4>. QED  BY <3>2, <4>3 DEF Whole, Held
    <3>. QED  BY <2>1, <3>1, <3>2 DEF completeMultipart
  <2>2. object' = object \/ object' = <<>> \/ completeMultipart
    BY DEF UploadNext, UploadGoesOn, Start, NothingToResume, Resume, NoSuchUpload, CannotList,
         AbandonOld, SweepStale, Abort, ForgetOld, ForgetStale, ForgetAborted, createMultipart, saveNew,
         Deal, Accepted, Refused, SavePart, Drained, forgetResume,
         PostStat, Edit, Crash, ServerForgets, NextDay, Rest, upVars
  <2>. QED  BY <1>0, <2>1, <2>2 DEF ServerOK
<1>2. cur' \in 0..Len(uploads')
  <2>1. \/ cur' \in {cur, 0, note.id}
        \/ cur' = Len(uploads')
    BY DEF UploadNext, UploadGoesOn, Start, NothingToResume, Resume, NoSuchUpload, CannotList,
         AbandonOld, SweepStale, Abort, ForgetOld, ForgetStale, ForgetAborted, createMultipart, saveNew,
         Deal, Accepted, Refused, SavePart, Drained, completeMultipart, forgetResume, Return,
         PostStat, Edit, Crash, ServerForgets, NextDay, Rest, upVars
  <2>. QED  BY <1>0, <1>s, <2>1 DEF ServerOK
<1>3. note' \in Note /\ note'.id \in 0..Len(uploads')
  <2>1. CASE note' = note  BY <1>0, <1>s, <2>1 DEF ServerOK
  <2>2. CASE note' = NoNote  BY <1>s, <2>2, EmptyTyped
  <2>3. CASE saveNew \/ SavePart
    <3>1. PICK s \in SUBSET Part, b \in Nat : \/ note' = [id |-> cur, ver |-> want, parts |-> s, begun |-> b]
                                              \/ note' = note
      <4>1. note.begun \in Nat /\ today \in Nat  BY <1>0 DEF ServerOK, FileOK, Note
      <4>2. saves \subseteq SUBSET Part /\ {} \in SUBSET Part  BY DEF Local, LocalOK
      <4>. QED  BY <2>3, <4>1, <4>2 DEF saveNew, SavePart
    <3>2. want \in FileVersions \cup {Nothing} /\ cur \in Nat /\ cur \in 0..Len(uploads)
      BY <1>0, Versions DEF FileOK, ServerOK
    <3>. QED  BY <1>0, <1>s, <3>1, <3>2 DEF Note, ServerOK
  <2>4. \/ note' \in {note, NoNote} \/ saveNew \/ SavePart
    BY DEF UploadNext, UploadGoesOn, Start, NothingToResume, Resume, NoSuchUpload, CannotList,
         AbandonOld, SweepStale, Abort, ForgetOld, ForgetStale, ForgetAborted, createMultipart,
         Deal, Accepted, Refused, Drained, completeMultipart, forgetResume,
         PostStat, Edit, Crash, ServerForgets, NextDay, Rest, upVars
  <2>. QED  BY <2>1, <2>2, <2>3, <2>4
<1>. QED  BY <1>s, <1>1, <1>2, <1>3 DEF ServerOK

LEMMA StepsKept ==
    ASSUME Local, Steps, [UploadNext]_upVars
    PROVE  Steps'
<1>. USE DEF bothVars, sideVars, procVars, Then
<1>0. ServerOK /\ FileOK /\ LocalOK /\ Len(uploads) \in Nat  BY DEF Local, ServerOK
<1>1. CASE Return
  BY <1>1 DEF Return, Steps
<1>2. CASE Start \/ NothingToResume \/ NoSuchUpload \/ CannotList \/ AbandonOld \/ SweepStale
           \/ ForgetOld \/ ForgetStale
  BY <1>2 DEF Steps, Start, NothingToResume, NoSuchUpload, CannotList, AbandonOld, SweepStale,
         ForgetOld, ForgetStale, Abort, ForgetAborted
<1>3. CASE Resume  BY <1>3 DEF Steps, Resume, Useless
<1>4. CASE createMultipart
  <2>1. CASE pc' = "save" /\ uploads' = Append(uploads, NewUpload) /\ cur' = Len(uploads')
    <3>1. uploads'[Len(uploads) + 1] = NewUpload /\ Len(uploads') = Len(uploads) + 1
      BY <1>0, <2>1, EmptyTyped, AppendTyped DEF ServerOK, NewUpload
    <3>2. note' = note /\ flight' = flight /\ note.id \in 0..Len(uploads)
      BY <1>0, <1>4, <2>1 DEF createMultipart, Return, ServerOK
    <3>. QED  BY <1>0, <1>4, <2>1, <3>1, <3>2 DEF Steps, NewUpload, createMultipart
  <2>. QED  BY <1>1, <1>4, <2>1 DEF createMultipart, NewUpload
<1>5. CASE saveNew
  <2>1. CASE Return  BY <1>1, <2>1
  <2>2. CASE note' = [id |-> cur, ver |-> want, parts |-> {}, begun |-> today] /\ pc' = "send"
             /\ UNCHANGED <<want, cur>>
    BY <1>5, <2>2 DEF Steps, saveNew
  <2>. QED  BY <1>5, <2>1, <2>2 DEF saveNew
<1>6. CASE Deal \/ \E p \in Part : Accepted(p) \/ Refused(p)
  BY <1>6 DEF Steps, Deal, Accepted, Refused
<1>7. CASE SavePart
  <2>1. note'.id = cur /\ note'.ver = want  BY <1>7 DEF SavePart
  <2>. QED  BY <1>7, <2>1 DEF Steps, SavePart
<1>8. CASE Drained
  <2>1. CASE Return  BY <1>1, <2>1
  <2>2. CASE pc' = "complete" /\ UNCHANGED <<want, cur, flight>>
    <3>1. flight = Empty
      BY <1>0, <1>8, EmptyTyped DEF Drained, OnWire, LocalOK, Empty
    <3>. QED  BY <1>8, <2>2, <3>1 DEF Steps, Drained
  <2>. QED  BY <1>8, <2>1, <2>2 DEF Drained
<1>9. CASE completeMultipart
  BY <1>1, <1>9 DEF Steps, completeMultipart
<1>10. CASE forgetResume  BY <1>10 DEF Steps, forgetResume
<1>11. CASE PostStat \/ Crash  BY <1>1, <1>11 DEF PostStat, Crash
<1>12. CASE ServerForgets
  <2>1. PICK id \in 1..Len(uploads) : uploads' = Drop(id)
    BY <1>0, <1>12 DEF ServerForgets, ServerOK
  <2>2. uploads[cur].parts = Empty /\ cur # 0 => uploads'[cur].parts = Empty
    BY <1>0, <2>1, DropTyped DEF ServerOK
  <2>. QED  BY <1>12, <2>2 DEF Steps, ServerForgets
<1>13. CASE UNCHANGED <<procVars, note, uploads>>  BY <1>13 DEF Steps
<1>. QED  BY <1>2, <1>3, <1>4, <1>5, <1>6, <1>7, <1>8, <1>9, <1>10, <1>11, <1>12, <1>13
          DEF UploadNext, UploadGoesOn, Edit, NextDay, Rest, upVars

(***************************************************************************)
(* What a part may hold.                                                   *)
(***************************************************************************)
Old(id, ver, seen) == \A p \in Part : seen[id].parts[p] \in {Nothing, Short} \cup (ver..file)

LEMMA OldParts ==
    ASSUME Local, NEW id \in 1..Len(uploads), NEW ver \in Nat, Old(id, ver, uploads), file' \in Nat,
           file' >= file,
           \/ uploads' = uploads
           \/ uploads' = Append(uploads, NewUpload)
           \/ \E i \in 1..Len(uploads) : uploads' = Drop(i)
    PROVE  Old(id, ver, uploads)'
<1>0. uploads \in Seq(Upload) /\ file \in Nat  BY DEF Local, ServerOK, FileOK
<1>1. uploads'[id] = uploads[id] \/ uploads'[id].parts = Empty
  BY <1>0, EmptyTyped, AppendTyped, DropTyped DEF NewUpload
<1>2. uploads'[id].parts = uploads[id].parts \/ uploads'[id].parts = Empty  BY <1>1
<1>3. \A v \in ver..file : v \in ver..file'  BY <1>0
<1>. QED  BY <1>2, <1>3, EmptyTyped DEF Old

LEMMA FreshNote ==
    ASSUME Local, Steps, Fresh, FileOK', [UploadNext]_upVars
    PROVE  note'.id # 0 => Old(note.id, note.ver, uploads)'
<1>. USE DEF bothVars, sideVars, procVars
<1>0. /\ uploads \in Seq(Upload) /\ note \in Note /\ note.id \in 0..Len(uploads)
      /\ note.ver \in Nat /\ file \in Nat /\ file' \in Nat /\ want \in Nat
      /\ cur \in 0..Len(uploads) /\ Len(uploads) \in Nat
  <2>1. uploads \in Seq(Upload) /\ note \in Note /\ note.id \in 0..Len(uploads)
        /\ cur \in 0..Len(uploads) /\ Len(uploads) \in Nat
    BY DEF Local, ServerOK
  <2>2. file \in Nat /\ file' \in Nat /\ want \in Nat  BY FileCounted, FileCountedNext DEF Local
  <2>3. FileVersions \cup {Nothing} \subseteq Nat  BY DEF FileVersions, Nothing
  <2>4. note.ver \in FileVersions \cup {Nothing}  BY <2>1 DEF Note
  <2>. QED  BY <2>1, <2>2, <2>3, <2>4
<1>1. note.id # 0 => note.id \in 1..Len(uploads) /\ Old(note.id, note.ver, uploads)
  BY <1>0 DEF Fresh, Old
<1>2. file' = file \/ file' = file + 1
  BY DEF UploadNext, UploadGoesOn, Start, NothingToResume, Resume, NoSuchUpload, CannotList,
         AbandonOld, SweepStale, Abort, ForgetOld, ForgetStale, ForgetAborted, createMultipart, saveNew,
         Deal, Accepted, Refused, SavePart, Drained, completeMultipart, forgetResume, Return,
         PostStat, Edit, Crash, ServerForgets, NextDay, Rest, upVars
<1>3. CASE note' = note /\ (\/ uploads' = uploads
                            \/ uploads' = Append(uploads, NewUpload)
                            \/ \E i \in 1..Len(uploads) : uploads' = Drop(i))
  <2>1. file' >= file  BY <1>0, <1>2
  <2>2. note.id # 0 => Old(note.id, note.ver, uploads)'
    <3>. SUFFICES ASSUME note.id # 0 PROVE Old(note.id, note.ver, uploads)'  OBVIOUS
    <3>1. PICK id \in 1..Len(uploads), ver \in Nat : id = note.id /\ ver = note.ver  BY <1>0, <1>1
    <3>2. Old(id, ver, uploads)  BY <1>1, <3>1
    <3>3. Old(id, ver, uploads)'  BY <1>0, <1>3, <2>1, <3>2, OldParts
    <3>. QED  BY <1>3, <3>1, <3>3 DEF Old
  <2>. QED  BY <1>3, <2>2
<1>4. CASE saveNew
  <2>1. CASE note' = note
    <3>1. uploads' = uploads  BY <1>4 DEF saveNew
    <3>. QED  BY <1>3, <2>1, <3>1
  <2>2. CASE note' = [id |-> cur, ver |-> want, parts |-> {}, begun |-> today]
    <3>1. note'.id = cur /\ uploads' = uploads /\ uploads[cur].parts = Empty
      BY <1>4, <2>2 DEF saveNew, Steps
    <3>2. \A p \in Part : uploads'[note'.id].parts[p] = Nothing  BY <3>1, EmptyTyped
    <3>. QED  BY <3>2 DEF Old
  <2>. QED  BY <1>4, <2>1, <2>2 DEF saveNew
<1>5. CASE SavePart
  <2>1. note'.id = note.id /\ note'.ver = note.ver /\ uploads' = uploads /\ file' = file
    BY <1>5 DEF SavePart, Steps
  <2>. QED  BY <1>1, <2>1 DEF Old
<1>6. ASSUME pc = "send", note' = note, file' = file, uploads'[cur].parts \in [Part -> Held],
             \A p \in Part : uploads'[cur].parts[p] \in {uploads[cur].parts[p], flight[p], Short}
      PROVE  note'.id # 0 => Old(note.id, note.ver, uploads)'
  <2>1. note.id = cur /\ note.ver = want /\ note.id # 0  BY <1>6 DEF Steps
  <2>2. \A p \in Part : flight[p] \in {Nothing} \cup (want..file)  BY <1>6 DEF Fresh
  <2>3. \A p \in Part : uploads[cur].parts[p] \in {Nothing, Short} \cup (want..file)
    BY <1>1, <2>1 DEF Old
  <2>4. \A p \in Part : uploads'[cur].parts[p] \in {Nothing, Short} \cup (want..file)
    BY <1>6, <2>2, <2>3
  <2>. QED  BY <1>6, <2>1, <2>4 DEF Old
<1>7. ASSUME NEW p \in Part, NEW v \in {uploads[cur].parts[p], flight[p], Short}, pc = "send",
             note' = note, file' = file, uploads' = WithPart(cur, p, v)
      PROVE  note'.id # 0 => Old(note.id, note.ver, uploads)'
  <2>1. cur \in 1..Len(uploads)  BY <1>0, <1>7 DEF Steps
  <2>2. uploads[cur] \in Upload  BY <1>0, <2>1
  <2>3. v \in Held /\ uploads[cur].parts \in [Part -> Held]
    BY <1>7, <2>2 DEF Upload, Local, LocalOK, Held
  <2>4. uploads'[cur].parts = [uploads[cur].parts EXCEPT ![p] = v]
    BY <1>0, <1>7, <2>1, <2>3, PartTyped
  <2>. QED  BY <1>6, <1>7, <2>3, <2>4
<1>8. ASSUME NEW p \in Part, Accepted(p) \/ Refused(p)
      PROVE  note'.id # 0 => Old(note.id, note.ver, uploads)'
  <2>1. pc = "send" /\ note' = note /\ file' = file  BY <1>8 DEF Accepted, Refused
  <2>2. uploads' = uploads \/ \E v \in {uploads[cur].parts[p], flight[p], Short} :
                                uploads' = WithPart(cur, p, v)
    BY <1>8 DEF Accepted, Refused, WithPart
  <2>. QED  BY <1>3, <1>7, <2>1, <2>2
<1>9. CASE Crash
  <2>1. note' = note /\ file' = file  BY <1>9 DEF Crash
  <2>2. CASE uploads' = uploads  BY <1>3, <2>1, <2>2
  <2>3. ASSUME NEW got \in SUBSET OnWire, uploads' = Received(got), pc = "send"
        PROVE  note'.id # 0 => Old(note.id, note.ver, uploads)'
    <3>1. cur \in 1..Len(uploads) /\ cur # 0  BY <1>0, <2>3 DEF Steps
    <3>2. uploads' \in Seq(Upload) /\ Len(uploads') = Len(uploads)  BY <2>3, <3>1, ReceivedTyped
    <3>3. uploads'[cur] \in Upload  BY <3>1, <3>2
    <3>4. uploads'[cur].parts \in [Part -> Held]  BY <3>3 DEF Upload
    <3>5. \A p \in Part : uploads'[cur].parts[p] \in {uploads[cur].parts[p], flight[p], Short}
      BY <2>3, <3>1, ReceivedTyped
    <3>. QED  BY <1>6, <2>1, <2>3, <3>4, <3>5
  <2>4. uploads' = uploads \/ (pc = "send" /\ \E got \in SUBSET OnWire : uploads' = Received(got))
    <3>1. PICK got \in SUBSET OnWire :
            uploads' = IF got = {} \/ ~uploads[cur].open THEN uploads ELSE Received(got)
      BY <1>9 DEF Crash, Received
    <3>2. got # {} => pc = "send"  BY EmptyTyped DEF Steps, OnWire
    <3>. QED  BY <3>1, <3>2
  <2>. QED  BY <2>2, <2>3, <2>4
<1>10. \/ note' = NoNote
       \/ saveNew \/ SavePart \/ Crash \/ \E p \in Part : Accepted(p) \/ Refused(p)
       \/ note' = note
  BY DEF UploadNext, UploadGoesOn, Start, NothingToResume, Resume, NoSuchUpload, CannotList,
         AbandonOld, SweepStale, Abort, ForgetOld, ForgetStale, ForgetAborted, createMultipart,
         Deal, Drained, completeMultipart, forgetResume,
         PostStat, Edit, ServerForgets, NextDay, Rest, upVars
<1>. QED  BY <1>3, <1>4, <1>5, <1>8, <1>9, <1>10, Served, EmptyTyped

LEMMA FreshKept ==
    ASSUME Local, Steps, Fresh, Local', [UploadNext]_upVars
    PROVE  Fresh'
<1>. USE DEF bothVars, sideVars, procVars, Then
<1>0. /\ file \in Nat /\ file' \in Nat /\ want \in 0..file /\ want \in Nat
      /\ flight \in [Part -> FileVersions \cup {Nothing}] /\ todo \subseteq Part
      /\ object = <<>> \/ object \in [Part -> FileVersions]
  <2>1. FileOK /\ FileOK'  BY DEF Local
  <2>2. file \in Nat /\ file' \in Nat /\ want \in 0..file /\ want \in Nat  BY <2>1, FileCounted, FileCountedNext
  <2>. QED  BY <2>2 DEF Local, ServerOK, LocalOK
<1>1. note'.id # 0 => Old(note.id, note.ver, uploads)'  BY FreshNote DEF Local
<1>2. pc' = "send" => \A p \in Part : flight'[p] # Nothing => flight'[p] \in want'..file'
  <2>1. CASE pc # "send"
    <3>1. pc' = "send" => flight' = flight
      BY <2>1 DEF UploadNext, UploadGoesOn, Start, NothingToResume, Resume, NoSuchUpload, CannotList,
         AbandonOld, SweepStale, Abort, ForgetOld, ForgetStale, ForgetAborted, createMultipart, saveNew,
         Deal, Accepted, Refused, SavePart, Drained, completeMultipart, forgetResume, Return,
         PostStat, Edit, Crash, ServerForgets, NextDay, Rest, upVars
    <3>. QED  BY <2>1, <3>1, EmptyTyped DEF Steps
  <2>2. CASE pc = "send" /\ pc' = "send"
    <3>1. want' = want /\ file' \in {file, file + 1}
      BY <2>2 DEF UploadNext, UploadGoesOn, Start, NothingToResume, Resume, NoSuchUpload, CannotList,
         AbandonOld, SweepStale, Abort, ForgetOld, ForgetStale, ForgetAborted, createMultipart, saveNew,
         Deal, Accepted, Refused, SavePart, Drained, completeMultipart, forgetResume, Return,
         PostStat, Edit, Crash, ServerForgets, NextDay, Rest, upVars
    <3>2. \A p \in Part : flight'[p] \in {flight[p], file, Nothing}
      <4>1. CASE Deal
        <5>1. PICK q : flight' = [flight EXCEPT ![q] = file]  BY <4>1 DEF Deal
        <5>. QED  BY <1>0, <5>1
      <4>2. ASSUME NEW q \in Part, Accepted(q) \/ Refused(q) PROVE flight' = [flight EXCEPT ![q] = Nothing]
        BY <4>2 DEF Accepted, Refused
      <4>3. flight' = flight \/ Deal \/ \E q \in Part : Accepted(q) \/ Refused(q)
        BY <2>2 DEF UploadNext, UploadGoesOn, Start, NothingToResume, Resume, NoSuchUpload,
         CannotList, AbandonOld, SweepStale, Abort, ForgetOld, ForgetStale, ForgetAborted,
         createMultipart, saveNew, SavePart, Drained, completeMultipart, forgetResume, Return,
         PostStat, Edit, Crash, ServerForgets, NextDay, Rest, upVars
      <4>. QED  BY <1>0, <4>1, <4>2, <4>3
    <3>3. \A v \in want..file : v \in want'..file'  BY <1>0, <3>1
    <3>. QED  BY <1>0, <2>2, <3>1, <3>2, <3>3 DEF Fresh
  <2>. QED  BY <2>1, <2>2
<1>3. pc' \in {"forget", "post"} => object' \in [Part -> want'..file']
  <2>1. CASE completeMultipart /\ pc' = "forget"
    <3>1. want' = want /\ file' = file /\ object' = uploads[cur].parts /\ Whole(cur) = Part
          /\ note.id = cur /\ note.ver = want /\ note.id # 0
      BY <2>1 DEF completeMultipart, Return, Steps
    <3>2. uploads[cur] \in Upload  BY <3>1 DEF Local, ServerOK
    <3>3. object' \in [Part -> Held]  BY <3>1, <3>2 DEF Upload
    <3>4. \A p \in Part : object'[p] \in want..file  BY <3>1 DEF Fresh, Whole
    <3>. QED  BY <3>1, <3>3, <3>4
  <2>2. CASE pc \in {"forget", "post"} /\ object' = object /\ want' = want /\ file' \in {file, file + 1}
    <3>1. \A v \in want..file : v \in want'..file'  BY <1>0, <2>2
    <3>2. object \in [Part -> want..file]  BY <2>2 DEF Fresh
    <3>. QED  BY <2>2, <3>1, <3>2
  <2>3. pc' \in {"forget", "post"} => \/ completeMultipart /\ pc' = "forget"
                                      \/ /\ pc \in {"forget", "post"} /\ object' = object /\ want' = want
                                         /\ file' \in {file, file + 1}
    BY DEF UploadNext, UploadGoesOn, Start, NothingToResume, Resume, NoSuchUpload,
         CannotList, AbandonOld, SweepStale, Abort, ForgetOld, ForgetStale, ForgetAborted,
         createMultipart, saveNew, Deal, Accepted, Refused, SavePart, Drained, completeMultipart,
         forgetResume, Return, PostStat, Edit, Crash, ServerForgets, NextDay, Rest, upVars
  <2>. QED  BY <2>1, <2>2, <2>3
<1>. QED  BY <1>1, <1>2, <1>3 DEF Fresh, Old

(***************************************************************************)
(* What is still to send.                                                  *)
(***************************************************************************)
LEMMA UnsentKept ==
    ASSUME Local, Steps, Unsent, [UploadNext]_upVars
    PROVE  Unsent'
<1>. USE DEF bothVars, sideVars, procVars, Then
<1>0. /\ uploads \in Seq(Upload) /\ cur \in 0..Len(uploads) /\ Len(uploads) \in Nat
      /\ flight \in [Part -> FileVersions \cup {Nothing}] /\ todo \subseteq Part
      /\ file # Nothing
  <2>1. file # Nothing  BY Versions DEF Local
  <2>. QED  BY <2>1 DEF Local, ServerOK, LocalOK
<1>n. \A u \in Upload : u.parts = Empty => \A p \in Part : u.parts[p] = Nothing
  BY EmptyTyped
\* Fewer parts are whole, and nothing is handed out.
<1>1. ASSUME pc = "send", UNCHANGED <<cur, flight, todo>>,
             \A p \in Part : p \in Whole(cur)' => p \in Whole(cur)
      PROVE  Unsent'
  BY <1>1 DEF Unsent
<1>2. CASE Resume
  <2>1. /\ pc # "send" /\ todo' = Part \ adoptable(note.id) /\ cur' = note.id /\ uploads' = uploads
        /\ flight' = flight
    BY <1>2 DEF Resume
  <2>2. \A p \in Part : p \in todo' => p \notin Whole(cur)'
    BY <2>1 DEF adoptable, Whole
  <2>3. \A p \in Part : flight'[p] = Nothing  BY <2>1, EmptyTyped DEF Steps
  <2>. QED  BY <2>2, <2>3 DEF Unsent
<1>3. CASE saveNew /\ pc' = "send"
  <2>1. /\ cur' = cur /\ uploads' = uploads /\ uploads[cur].parts = Empty /\ flight' = Empty
    BY <1>3 DEF saveNew, Steps, Return
  <2>2. \A p \in Part : p \notin Whole(cur)' /\ flight'[p] = Nothing
    BY <2>1, EmptyTyped DEF Whole
  <2>. QED  BY <2>2 DEF Unsent
<1>4. CASE Deal
  <2>1. PICK p \in todo : todo' = todo \ {p} /\ flight' = [flight EXCEPT ![p] = file]
    <3>1. (CHOOSE q \in todo : \A r \in todo : q <= r) \in todo
      <4>1. todo # {} /\ todo \subseteq Nat  BY <1>0, <1>4 DEF Deal, Part
      <4>2. \E q \in todo : \A r \in todo : q <= r
        BY <4>1, LeastOf
      <4>. QED  BY <4>2
    <3>. QED  BY <1>4, <3>1 DEF Deal
  <2>2. pc = "send" /\ UNCHANGED <<cur, uploads, pc>>  BY <1>4 DEF Deal
  <2>3. \A q \in Part : q \in Whole(cur)' <=> q \in Whole(cur)  BY <2>2 DEF Whole
  <2>4. \A q \in Part : flight'[q] = IF q = p THEN file ELSE flight[q]  BY <1>0, <2>1
  <2>. QED  BY <1>0, <2>1, <2>2, <2>3, <2>4 DEF Unsent
<1>5. ASSUME NEW p \in Part, Accepted(p) \/ Refused(p) PROVE Unsent'
  <2>1. /\ pc = "send" /\ flight[p] # Nothing /\ flight' = [flight EXCEPT ![p] = Nothing]
        /\ UNCHANGED <<cur, todo>>
    BY <1>5 DEF Accepted, Refused
  <2>2. cur \in 1..Len(uploads) /\ uploads[cur] \in Upload  BY <1>0, <2>1 DEF Steps
  <2>3. uploads' = uploads \/ \E v \in Held : uploads' = WithPart(cur, p, v)
    <3>1. {uploads[cur].parts[p], flight[p], Short} \subseteq Held
      BY <1>0, <2>2 DEF Upload, Held
    <3>. QED  BY <1>5, <3>1 DEF Accepted, Refused, WithPart
  <2>4. \A q \in Part \ {p} : uploads'[cur].parts[q] = uploads[cur].parts[q]
    <3>1. ASSUME NEW v \in Held, uploads' = WithPart(cur, p, v)
          PROVE  uploads'[cur].parts = [uploads[cur].parts EXCEPT ![p] = v]
      BY <1>0, <2>2, <3>1, PartTyped
    <3>2. uploads[cur].parts \in [Part -> Held]  BY <2>2 DEF Upload
    <3>. QED  BY <2>3, <3>1, <3>2
  <2>5. p \notin todo /\ \A q \in Part : q \in todo => flight[q] = Nothing /\ q \notin Whole(cur)
    BY <2>1 DEF Unsent
  <2>6. \A q \in Part \ {p} : q \in Whole(cur)' <=> q \in Whole(cur)
    BY <2>1, <2>4 DEF Whole
  <2>7. flight'[p] = Nothing /\ \A q \in Part \ {p} : flight'[q] = flight[q]  BY <1>0, <2>1
  <2>. QED  BY <2>1, <2>5, <2>6, <2>7 DEF Unsent
<1>6. CASE ServerForgets /\ pc = "send"
  <2>1. PICK id \in 1..Len(uploads) : uploads' = Drop(id)
    BY <1>0, <1>6 DEF ServerForgets
  <2>2. UNCHANGED <<cur, flight, todo>> /\ cur \in 1..Len(uploads)
    BY <1>0, <1>6 DEF ServerForgets, Steps
  <2>3. uploads'[cur] = uploads[cur] \/ uploads'[cur].parts = Empty
    BY <1>0, <2>1, <2>2, DropTyped
  <2>4. \A p \in Part : p \in Whole(cur)' => p \in Whole(cur)
    BY <2>2, <2>3, EmptyTyped DEF Whole
  <2>. QED  BY <1>1, <1>6, <2>2, <2>4
<1>7. CASE pc = "send" /\ UNCHANGED <<cur, flight, todo, uploads>>
  <2>1. \A p \in Part : p \in Whole(cur)' <=> p \in Whole(cur)  BY <1>7 DEF Whole
  <2>. QED  BY <1>1, <1>7, <2>1
<1>8. pc' = "send" => \/ Resume \/ (saveNew /\ pc' = "send") \/ Deal
                      \/ \E p \in Part : Accepted(p) \/ Refused(p)
                      \/ ServerForgets /\ pc = "send"
                      \/ pc = "send" /\ UNCHANGED <<cur, flight, todo, uploads>>
  BY DEF UploadNext, UploadGoesOn, Start, NothingToResume, NoSuchUpload,
         CannotList, AbandonOld, SweepStale, Abort, ForgetOld, ForgetStale, ForgetAborted,
         createMultipart, saveNew, SavePart, Drained, completeMultipart,
         forgetResume, Return, PostStat, Edit, Crash, ServerForgets, NextDay, Rest, upVars
<1>9. CASE pc' # "send"  BY <1>9 DEF Unsent
<1>. QED  BY <1>2, <1>3, <1>4, <1>5, <1>6, <1>7, <1>8, <1>9

LEMMA ReportedKept ==
    ASSUME Local, Steps, Fresh, Reported, FileOK', [UploadNext]_upVars
    PROVE  Reported'
<1>. USE DEF bothVars, sideVars, procVars, Then
<1>0. /\ file \in Nat /\ recorded \in Nat /\ recorded <= file /\ want \in Nat /\ file' \in Nat
  BY FileCounted, FileCountedNext DEF Local
<1>1. CASE PostStat
  <2>1. CASE file = want /\ recorded' = want /\ UNCHANGED object
    <3>1. object \in [Part -> want..file]  BY <1>1 DEF PostStat, Fresh
    <3>2. \A p \in Part : object[p] = want  BY <1>0, <2>1, <3>1
    <3>3. object = [p \in Part |-> want]  BY <3>1, <3>2
    <3>. QED  BY <1>1, <2>1, <3>3 DEF Reported, PostStat, Return
  <2>2. CASE UNCHANGED recorded
    <3>1. recorded # file  BY <1>1 DEF PostStat, Reported
    <3>. QED  BY <1>1, <2>2, <3>1 DEF Reported, PostStat
  <2>. QED  BY <1>1, <2>1, <2>2 DEF PostStat
<1>2. CASE Edit
  <2>1. recorded' = recorded /\ file' = file + 1  BY <1>2 DEF Edit
  <2>2. recorded' # file'  BY <1>0, <2>1
  <2>. QED  BY <2>2 DEF Reported
<1>3. CASE Start
  <2>1. recorded' # file'  BY <1>3 DEF Start
  <2>. QED  BY <2>1 DEF Reported
<1>4. CASE pc \notin {"idle", "forgetSwept"} /\ UNCHANGED <<recorded, file>>
  BY <1>4 DEF Reported
<1>5. CASE pc' \in {"idle", "forgetSwept"} /\ UNCHANGED <<recorded, file, object>>
  BY <1>5 DEF Reported
<1>. QED  BY <1>1, <1>2, <1>3, <1>4, <1>5
  DEF UploadNext, UploadGoesOn, NothingToResume, Resume, NoSuchUpload,
      CannotList, AbandonOld, SweepStale, Abort, ForgetOld, ForgetStale, ForgetAborted, createMultipart,
      saveNew, Deal, Accepted, Refused, SavePart, Drained, completeMultipart,
      forgetResume, Return, Crash, ServerForgets, NextDay, Rest, upVars, Reported

(***************************************************************************)
(* What the index knows of.                                                *)
(***************************************************************************)
LEMMA NoneRevived ==
    ASSUME Local, Steps, [UploadNext]_upVars
    PROVE  \A id \in OpenUploads' : id \in OpenUploads \/ (createMultipart /\ id = Len(uploads) + 1)
<1>0. uploads \in Seq(Upload) /\ DOMAIN uploads = 1..Len(uploads) /\ cur \in 0..Len(uploads)
      /\ Len(uploads) \in Nat
  BY DEF Local, ServerOK
<1>d. DOMAIN uploads' = 1..Len(uploads')  BY ServerTyped
<1>a. OpenUploads = {i \in 1..Len(uploads) : uploads[i].open}
      /\ OpenUploads' = {i \in 1..Len(uploads') : uploads'[i].open}
  BY <1>0, <1>d DEF OpenUploads, Lives
<1>1. CASE uploads' = uploads  BY <1>1, <1>a
<1>2. CASE createMultipart /\ uploads' = Append(uploads, NewUpload)
  <2>1. Len(uploads') = Len(uploads) + 1 /\ \A i \in 1..Len(uploads) : uploads'[i] = uploads[i]
    BY <1>0, <1>2, EmptyTyped, AppendTyped DEF NewUpload
  <2>. QED  BY <1>0, <1>a, <1>2, <2>1
<1>3. ASSUME Len(uploads') = Len(uploads),
             \A i \in 1..Len(uploads) : uploads'[i].open => uploads[i].open
      PROVE  \A id \in OpenUploads' : id \in OpenUploads
  BY <1>a, <1>3
<1>4. ASSUME NEW id \in 1..Len(uploads), uploads' = Drop(id)
      PROVE  Len(uploads') = Len(uploads) /\ \A i \in 1..Len(uploads) : uploads'[i].open => uploads[i].open
  BY <1>0, <1>4, DropTyped
<1>5. ASSUME NEW p \in Part, NEW v \in Held, uploads' = WithPart(cur, p, v),
             Accepted(p) \/ Refused(p)
      PROVE  Len(uploads') = Len(uploads) /\ \A i \in 1..Len(uploads) : uploads'[i].open => uploads[i].open
  <2>1. cur \in 1..Len(uploads)  BY <1>0, <1>5 DEF Steps, Accepted, Refused
  <2>2. /\ Len(WithPart(cur, p, v)) = Len(uploads)
        /\ WithPart(cur, p, v)[cur].open = uploads[cur].open
        /\ \A i \in 1..Len(uploads) : i # cur => WithPart(cur, p, v)[i] = uploads[i]
    BY Zenon, <1>0, <2>1, PartTyped
  <2>. QED  BY Zenon, <1>5, <2>2
<1>6. ASSUME NEW got \in SUBSET OnWire, uploads' = Received(got), pc = "send"
      PROVE  Len(uploads') = Len(uploads) /\ \A i \in 1..Len(uploads) : uploads'[i].open => uploads[i].open
  BY <1>6, ReceivedTyped DEF Steps
<1>. QED  BY <1>1, <1>2, <1>3, <1>4, <1>5, <1>6, Served

LEMMA DropEnds ==
    ASSUME Local, NEW id \in 1..Len(uploads), uploads' = Drop(id)
    PROVE  id \notin OpenUploads'
<1>1. ~uploads'[id].open  BY DropTyped DEF Local, ServerOK
<1>. QED  BY <1>1 DEF OpenUploads, Lives

LEMMA KnownKept ==
    ASSUME Local, Steps, Known, [UploadNext]_upVars
    PROVE  Known'
<1>. USE DEF bothVars, sideVars, procVars, Then
<1>0. /\ uploads \in Seq(Upload) /\ DOMAIN uploads = 1..Len(uploads) /\ cur \in 0..Len(uploads)
      /\ note.id \in 0..Len(uploads) /\ Len(uploads) \in Nat
  BY DEF Local, ServerOK
<1>1. 0 \notin OpenUploads /\ \A id \in OpenUploads' : id \in OpenUploads \/ (createMultipart /\ id = Len(uploads) + 1)
  BY <1>0, NoneRevived DEF OpenUploads
<1>2. strays \subseteq strays'
  BY DEF UploadNext, UploadGoesOn, Start, NothingToResume, Resume, NoSuchUpload,
         CannotList, AbandonOld, SweepStale, Abort, ForgetOld, ForgetStale, ForgetAborted,
         createMultipart, saveNew, Deal, Accepted, Refused, SavePart, Drained, completeMultipart,
         forgetResume, PostStat, Edit, Crash, ServerForgets, NextDay, Rest, upVars
<1>3. ~createMultipart => OpenUploads' \subseteq OpenUploads  BY <1>1
\* Note and upload in hand stay.
<1>4. CASE UNCHANGED <<note, cur>> /\ ~createMultipart /\ pc' \in {pc, "find", "send", "complete"}
  BY <1>2, <1>3, <1>4 DEF Known
<1>5. CASE /\ UNCHANGED <<note, cur>> /\ ~createMultipart
           /\ pc' \notin {"forget", "post"} /\ note.id \notin OpenUploads' \ strays'
  BY <1>2, <1>3, <1>5 DEF Known
\* The note goes.
<1>6. CASE /\ note' = NoNote /\ cur' = cur /\ ~createMultipart /\ note.id \notin OpenUploads \ strays
           /\ pc' = "post" => cur \notin OpenUploads
           /\ pc' # "forget"
  BY <1>1, <1>2, <1>3, <1>6, EmptyTyped DEF Known
\* The upload in hand is let go.
<1>7. CASE /\ UNCHANGED note /\ cur' = 0 /\ pc' = "idle" /\ ~createMultipart
           /\ cur \in {0, note.id} \cup strays' \/ cur \notin OpenUploads
  BY <1>1, <1>2, <1>3, <1>7 DEF Known
<1>8. CASE NothingToResume \/ NoSuchUpload \/ CannotList
  <2>1. CASE NothingToResume  BY <1>1, <1>5, <2>1 DEF NothingToResume, createMultipart
  <2>2. CASE NoSuchUpload  BY <1>6, <2>2 DEF NoSuchUpload, createMultipart, OpenUploads
  <2>3. CASE CannotList  BY <1>5, <2>3 DEF CannotList, createMultipart
  <2>. QED  BY <1>8, <2>1, <2>2, <2>3
<1>9. CASE AbandonOld \/ SweepStale
  <2>1. /\ note.id # 0 /\ UNCHANGED <<note, cur>> /\ ~createMultipart
        /\ pc' \in {"forgetOld", "forgetSwept"}
        /\ uploads' = Drop(note.id) \/ note.id \in strays'
    BY <1>9 DEF AbandonOld, SweepStale, Abort, createMultipart
  <2>2. note.id \notin OpenUploads' \ strays'
    BY <1>0, <2>1, DropEnds
  <2>. QED  BY <1>5, <2>1, <2>2
<1>10. CASE ForgetOld \/ ForgetStale
  BY <1>6, <1>10 DEF ForgetOld, ForgetStale, ForgetAborted, Known, createMultipart
<1>11. CASE createMultipart
  <2>1. /\ pc = "create" /\ note' = note /\ cur = 0 /\ note.id \notin OpenUploads \ strays
    BY <1>11 DEF createMultipart, Steps, Known
  <2>2. CASE uploads' = Append(uploads, NewUpload)
    <3>1. Len(uploads') = Len(uploads) + 1 /\ DOMAIN uploads' = 1..(Len(uploads) + 1)
      BY <1>0, <2>2, EmptyTyped, AppendTyped DEF NewUpload
    <3>2. \/ cur' = Len(uploads) + 1 /\ pc' = "save"
          \/ cur' = 0 /\ pc' = "idle" /\ Len(uploads) + 1 \in strays'
      BY <1>0, <1>11, <3>1 DEF createMultipart, Return
    <3>3. note.id # Len(uploads) + 1  BY <1>0
    <3>. QED  BY <1>1, <1>2, <2>1, <3>2, <3>3 DEF Known
  <2>3. CASE uploads' = uploads /\ cur' = 0 /\ pc' = "idle"
    <3>1. OpenUploads' = OpenUploads  BY <2>3 DEF OpenUploads, Lives
    <3>. QED  BY <1>2, <2>1, <2>3, <3>1 DEF Known
  <2>. QED  BY <1>11, <2>2, <2>3 DEF createMultipart, NewUpload, Return
<1>12. CASE saveNew
  <2>1. pc = "save" /\ note.id \notin OpenUploads \ strays /\ uploads' = uploads /\ ~createMultipart
    BY <1>12 DEF saveNew, Known, createMultipart
  <2>2. \/ note'.id = cur /\ cur' = cur /\ pc' = "send"
        \/ note' = note /\ cur' = 0 /\ pc' = "idle" /\ cur \in strays'
    BY <1>12 DEF saveNew, Return
  <2>. QED  BY <1>2, <1>3, <2>1, <2>2 DEF Known
<1>13. CASE Resume
  <2>1. cur = 0 /\ cur' = note.id /\ note' = note /\ pc' = "send" /\ ~createMultipart
    BY <1>13 DEF Resume, Steps, createMultipart
  <2>. QED  BY <1>1, <1>2, <1>3, <2>1 DEF Known
<1>14. CASE SavePart
  <2>1. note'.id = cur /\ note.id = cur /\ cur' = cur /\ pc' = pc /\ pc = "send" /\ ~createMultipart
    BY <1>14 DEF SavePart, Steps, createMultipart
  <2>. QED  BY <1>2, <1>3, <2>1 DEF Known
<1>15. CASE Drained
  BY <1>4, <1>7, <1>15 DEF Drained, Return, Steps, createMultipart
<1>16. CASE completeMultipart
  <2>1. /\ UNCHANGED note /\ cur = note.id /\ cur \in 1..Len(uploads) /\ ~createMultipart
        /\ (cur' = 0 /\ pc' = "idle") \/ (cur' = cur /\ pc' = "forget" /\ uploads' = Drop(cur))
    BY <1>0, <1>16 DEF completeMultipart, Return, Steps, createMultipart
  <2>2. CASE cur' = cur /\ pc' = "forget" /\ uploads' = Drop(cur)
    <3>1. cur \notin OpenUploads'  BY <2>1, <2>2, DropEnds
    <3>. QED  BY <1>2, <1>3, <2>1, <2>2, <3>1 DEF Known
  <2>. QED  BY <1>7, <2>1, <2>2
<1>17. CASE forgetResume
  BY <1>6, <1>17 DEF forgetResume, Known, Steps, createMultipart
<1>18. CASE PostStat
  BY <1>7, <1>18 DEF PostStat, Return, Known, createMultipart
<1>19. CASE Crash
  <2>1. UNCHANGED note /\ cur' = 0 /\ pc' = "idle" /\ strays' = IF pc = "save" THEN strays \cup {cur} ELSE strays
    BY <1>19 DEF Crash, Return
  <2>2. \/ pc \in {"send", "complete", "forget"} /\ cur = note.id
        \/ pc = "save" \/ (pc = "post" /\ cur \notin OpenUploads) \/ cur = 0
    BY DEF Local, LocalOK, UploadStages, Steps, Known
  <2>3. CASE ~createMultipart  BY <1>7, <2>1, <2>2, <2>3
  <2>. QED  BY <1>11, <2>3
<1>20. CASE \/ Start \/ Deal \/ (\E p \in Part : Accepted(p) \/ Refused(p))
            \/ Edit \/ ServerForgets \/ NextDay \/ Rest \/ UNCHANGED upVars
  <2>1. UNCHANGED <<note, cur>> /\ pc' \in {pc, "find"}
    BY <1>20 DEF Start, Deal, Accepted, Refused, Edit, ServerForgets, NextDay, Rest, upVars
  <2>. QED  BY <1>4, <1>11, <2>1
<1>. QED  BY <1>8, <1>9, <1>10, <1>11, <1>12, <1>13, <1>14, <1>15, <1>16, <1>17, <1>18, <1>19, <1>20
          DEF UploadNext, UploadGoesOn

(***************************************************************************)
(* Together.                                                               *)
(***************************************************************************)
UploadInv == Local /\ Steps /\ Fresh /\ Unsent /\ Reported /\ Known

LEMMA UploadStarts == UploadInit => UploadInv
<1>. SUFFICES ASSUME UploadInit PROVE UploadInv
  OBVIOUS
<1>. USE DEF UploadInit, Nothing
<1>1. ServerOK  BY EmptyTyped DEF ServerOK
<1>2. FileOK  BY UploadAssumption DEF FileOK
<1>3. LocalOK  BY EmptyTyped DEF LocalOK, UploadStages
<1>4. Steps /\ Unsent /\ Reported  BY DEF Steps, Unsent, Reported
<1>5. Fresh  BY EmptyTyped DEF Fresh
<1>6. Known  BY DEF Known, OpenUploads
<1>. QED  BY <1>1, <1>2, <1>3, <1>4, <1>5, <1>6 DEF UploadInv, Local

LEMMA UploadSteps == UploadInv /\ [UploadNext]_upVars => UploadInv'
<1>. SUFFICES ASSUME UploadInv, [UploadNext]_upVars PROVE UploadInv'
  OBVIOUS
<1>. USE DEF UploadInv
<1>1. FileOK' /\ LocalOK'  BY FilesTyped, LocalsTyped
<1>2. ServerOK'  BY ServerKept
<1>3. Local'  BY <1>1, <1>2 DEF Local
<1>4. Steps'  BY StepsKept
<1>5. Fresh'  BY <1>3, FreshKept
<1>6. Unsent'  BY UnsentKept
<1>7. Reported'  BY <1>1, ReportedKept
<1>8. Known'  BY KnownKept
<1>. QED  BY <1>3, <1>4, <1>5, <1>6, <1>7, <1>8

LEMMA UploadHolds == UploadSpec => []UploadInv
BY UploadStarts, UploadSteps, PTL DEF UploadSpec

\* Every variable of a large upload keeps to its type: the note and the upload
\* in hand are uploads the server was asked for, and its parts are parts.
THEOREM UploadKeepsTypes == UploadSpec => []UploadTypeOK
<1>1. UploadInv => UploadTypeOK
  <2>. SUFFICES ASSUME UploadInv PROVE UploadTypeOK
    OBVIOUS
  <2>. USE DEF UploadInv, Local
  <2>1. file \in FileVersions /\ 0..file \subseteq FileVersions \cup {Nothing}  BY Versions
  <2>2. recorded \in 0..file /\ want \in 0..file  BY DEF FileOK
  <2>3. \A id \in DOMAIN uploads :
          uploads[id].open \in BOOLEAN /\ uploads[id].parts \in [Part -> FileVersions \cup {Nothing, Short}]
    <3>. SUFFICES ASSUME NEW id \in DOMAIN uploads PROVE uploads[id] \in Upload
      BY DEF Upload, Held
    <3>. QED  BY DEF ServerOK
  <2>4. note.id \in 0..Len(uploads) /\ cur \in 0..Len(uploads) /\ note.parts \subseteq Part
        /\ (object = <<>> \/ object \in [Part -> FileVersions])
    BY DEF ServerOK, Note
  <2>. QED  BY <2>1, <2>2, <2>3, <2>4 DEF UploadTypeOK, LocalOK
<1>. QED  BY <1>1, UploadHolds, PTL

\* The key holds one version of the file from its first part to its last when
\* that version is reported, in however many attempts its parts were sent.
THEOREM ReportedIsWhole == UploadSpec => []RecordedIsWhole
<1>1. UploadInv => RecordedIsWhole  BY DEF UploadInv, Reported, RecordedIsWhole
<1>. QED  BY <1>1, UploadHolds, PTL

\* A part the server holds whole is not sent again by the run that resumes.
THEOREM SentOnce == UploadSpec => []NothingSentTwice
<1>1. UploadInv => NothingSentTwice  BY DEF UploadInv, Unsent, NothingSentTwice, OnWire
<1>. QED  BY <1>1, UploadHolds, PTL

\* An upload the server keeps open is in the index, in hand, or went astray in a
\* request that failed or a process that died: nothing else leaks one.
THEOREM OpenUploadsNoted == UploadSpec => []OpenIsNoted
<1>1. UploadInv => OpenIsNoted  BY DEF UploadInv, Known, OpenUploads, OpenIsNoted
<1>. QED  BY <1>1, UploadHolds, PTL

=============================================================================
