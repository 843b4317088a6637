---------------------------- MODULE MCDesk_proofs ----------------------------
(***************************************************************************)
(* Theorems about what several programs or computers keep between them,    *)
(* for any number of programs, computers, folders and names.               *)
(***************************************************************************)
EXTENDS MCDesk, TLAPS, FiniteSetTheorems

(***************************************************************************)
(* The program's own file.                                                 *)
(*                                                                         *)
(* What a program runs from is the version it says it is, wherever the     *)
(* file has been renamed to; and on Windows a file that is run from stays. *)
(* So a program moves the binary aside only when no one has replaced it    *)
(* since that program began, and the file it moved is there for the        *)
(* put-back until its update is over.                                      *)
(***************************************************************************)
Updating == {"nudged", "offered", "fetching", "staged", "cleared", "aside", "failed"}

PathsHold ==
    /\ self = Damaged \/ torn # {} => unverified
    /\ old # Damaged
    /\ ~windows => self # NoFile /\ ~stranded
ImagesTrue ==
    \A c \in Copy :
        /\ image[c] = "none" <=> doing[c] = "off"
        /\ image[c] # "none" => version[c] > 0
        /\ windows => image[c] # "unlinked"
        /\ windows /\ image[c] = "self" => version[c] = self
        /\ windows /\ image[c] = "old" => version[c] = old
OffersNewer == \A c \in Copy : doing[c] \in Updating => version[c] < rel[c] /\ rel[c] <= latest
OneSwap ==
    \A c \in Copy :
        /\ ~windows => doing[c] \notin {"cleared", "aside", "failed"}
        /\ doing[c] \in Swapping => self = NoFile /\ image[c] = "old" /\ old >= installed
        /\ \A d \in Copy : doing[c] \in Swapping /\ doing[d] \in Swapping => c = d
NotLost == self = NoFile => stranded \/ \E c \in Copy : doing[c] \in Swapping
NoneOlder == windows => self \in {NoFile, Damaged} \/ self >= installed
UpdateInv == UpdateTypeOK /\ PathsHold /\ ImagesTrue /\ OffersNewer /\ OneSwap /\ NotLost /\ NoneOlder

LEMMA UpdateStarts == UpdateInit => UpdateInv
<1>. SUFFICES ASSUME UpdateInit  PROVE UpdateInv
  OBVIOUS
<1>1. UpdateTypeOK
  <2>1. {windows, stranded, unverified} \subseteq BOOLEAN /\ torn \subseteq Copy /\ doomed \in BOOLEAN
    BY DEF UpdateInit
  <2>2. /\ self \in File /\ old \in File
        /\ image \in [Copy -> {"none", "self", "old", "unlinked"}]
        /\ version \in [Copy -> 0 .. MaxReleases] /\ rel \in [Copy -> File]
        /\ latest \in 1 .. MaxReleases /\ installed \in 1 .. MaxReleases
        /\ stumbles \in 0 .. MaxFaults /\ launches \in 0 .. MaxLaunches /\ boots \in 0 .. MaxBoots
    BY SelfUpdateAssumption DEF UpdateInit, File, NoFile
  <2>. QED  BY <2>1, <2>2 DEF UpdateInit, UpdateTypeOK
<1>2. PathsHold /\ ImagesTrue /\ OffersNewer /\ OneSwap /\ NotLost /\ NoneOlder
  BY DEF UpdateInit, PathsHold, ImagesTrue, OffersNewer, OneSwap, NotLost, NoneOlder, NoFile, Damaged,
         Updating, Swapping
<1>. QED  BY <1>1, <1>2 DEF UpdateInv

\* A step of one program that touches no file, and changes neither what it runs
\* from nor its version, keeps the invariant when it keeps that program's part.
LEMMA OwnStep ==
    ASSUME UpdateInv, NEW c \in Copy, NEW s \in {"idle", "backup", "nudged", "offered", "fetching",
                                                 "staged", "cleared"},
           Steps(c, s), doing[c] \notin Swapping \cup {"off"},
           UNCHANGED <<self, image, version, windows, stranded, doomed, latest, installed, launches, boots>>,
           torn' \subseteq Copy, unverified' \in BOOLEAN, unverified => unverified',
           torn' # {} => unverified', stumbles' \in 0 .. MaxFaults,
           old' \in {old, NoFile}, old' # old => ~InUse("old"),
           NEW r \in File, rel' = [rel EXCEPT ![c] = r],
           s \in Updating => version[c] < r /\ r <= latest,
           s = "cleared" => windows
    PROVE  UpdateInv'
<1>. USE DEF UpdateInv, Steps, buildVars
<1>1. doing \in [Copy -> {"off", "idle", "backup", "nudged", "offered", "fetching", "staged", "cleared"}
                            \cup Swapping]
      /\ rel \in [Copy -> File] /\ image \in [Copy -> {"none", "self", "old", "unlinked"}]
  BY DEF UpdateTypeOK
<1>2. UpdateTypeOK'
  BY <1>1 DEF UpdateTypeOK, File, NoFile
<1>3. PathsHold' /\ NoneOlder'
  BY DEF PathsHold, NoneOlder, NoFile, Damaged
<1>4. ImagesTrue'
  BY <1>1 DEF ImagesTrue, InUse
<1>5. OffersNewer'
  BY <1>1 DEF OffersNewer
<1>6. \A d \in Copy : (doing[d] \in Swapping <=> doing'[d] \in Swapping)
  BY <1>1 DEF Swapping
<1>7. OneSwap'
  BY <1>1, <1>6 DEF OneSwap, InUse, Swapping
<1>8. NotLost'
  BY <1>6 DEF NotLost
<1>. QED  BY <1>2, <1>3, <1>4, <1>5, <1>7, <1>8

\* The same of a step that stages nothing.
LEMMA OwnQuietStep ==
    ASSUME UpdateInv, NEW c \in Copy, NEW s \in {"idle", "backup", "nudged", "offered", "fetching",
                                                 "staged", "cleared"},
           Steps(c, s), doing[c] \notin Swapping \cup {"off"},
           UNCHANGED <<self, image, version, buildVars, torn, doomed, latest, installed, launches, boots>>,
           stumbles' \in 0 .. MaxFaults,
           old' \in {old, NoFile}, old' # old => ~InUse("old"),
           NEW r \in File, rel' = [rel EXCEPT ![c] = r],
           s \in Updating => version[c] < r /\ r <= latest,
           s = "cleared" => windows
    PROVE  UpdateInv'
<1>1. /\ torn' \subseteq Copy /\ unverified' \in BOOLEAN /\ (unverified => unverified')
      /\ (torn' # {} => unverified')
  BY DEF UpdateInv, UpdateTypeOK, PathsHold, buildVars
<1>2. UNCHANGED <<self, image, version, windows, stranded, doomed, latest, installed, launches, boots>>
  BY DEF buildVars
<1>. QED  BY <1>1, <1>2, OwnStep

\* Programs that begin and end, and the machine.
LEMMA ProgramsKeep ==
    ASSUME ~MidSwapCuts, UpdateInv,
           \/ \E c \in Copy : Launches(c) \/ Quits(c)
           \/ Boots \/ Publishes \/ TrayRestarts
    PROVE  UpdateInv'
<1>. USE SelfUpdateAssumption DEF UpdateInv, Steps, At, buildVars, NoFile
<1>1. /\ doing \in [Copy -> {"off", "idle", "backup", "nudged", "offered", "fetching", "staged",
                             "cleared"} \cup Swapping]
      /\ image \in [Copy -> {"none", "self", "old", "unlinked"}]
      /\ version \in [Copy -> 0 .. MaxReleases] /\ rel \in [Copy -> File]
      /\ self \in File /\ old \in 0 .. MaxReleases
  BY DEF UpdateTypeOK, PathsHold, File, Damaged
<1>2. ASSUME NEW c \in Copy, Launches(c)  PROVE UpdateInv'
  <2>1. self > 0 /\ old' \in {old, NoFile} /\ (old' # old => ~InUse("old"))
    BY <1>2 DEF Launches, Runs, Cleanup
  <2>2. UpdateTypeOK'
    BY <1>1, <1>2, <2>1 DEF Launches, UpdateTypeOK, File, Damaged
  <2>3. PathsHold' /\ NoneOlder' /\ NotLost'
    BY <1>2, <2>1 DEF Launches, PathsHold, NoneOlder, NotLost, Damaged
  <2>4. ImagesTrue'
    BY <1>1, <1>2, <2>1 DEF Launches, ImagesTrue, InUse
  <2>5. OffersNewer'
    BY <1>1, <1>2 DEF Launches, OffersNewer, Updating
  <2>6. OneSwap'
    BY <1>1, <1>2, <2>1 DEF Launches, OneSwap, Swapping
  <2>. QED  BY <2>2, <2>3, <2>4, <2>5, <2>6
<1>3. ASSUME NEW c \in Copy, Quits(c)  PROVE UpdateInv'
  <2>1. doing[c] \notin Swapping /\ UNCHANGED worldVars
    BY <1>3 DEF Quits
  <2>2. UpdateTypeOK'
    BY <1>1, <1>3, <2>1 DEF Quits, UpdateTypeOK, worldVars
  <2>3. \A d \in Copy : (doing[d] \in Swapping <=> doing'[d] \in Swapping)
    BY <1>1, <1>3, <2>1 DEF Quits, Swapping
  <2>4. PathsHold' /\ NoneOlder' /\ NotLost'
    BY <1>3, <2>1, <2>3 DEF Quits, PathsHold, NoneOlder, NotLost, worldVars
  <2>5. ImagesTrue'
    BY <1>1, <1>3, <2>1 DEF Quits, ImagesTrue, worldVars
  <2>6. OffersNewer'
    BY <1>1, <1>3, <2>1 DEF Quits, OffersNewer, Updating, worldVars
  <2>7. OneSwap'
    BY <1>1, <1>3, <2>1, <2>3 DEF Quits, OneSwap, worldVars, Swapping
  <2>. QED  BY <2>2, <2>4, <2>5, <2>6, <2>7
<1>4. CASE Boots
  <2>1. UpdateTypeOK'
    <3>1. {windows, stranded, unverified}' \subseteq BOOLEAN /\ torn' \subseteq Copy /\ doomed' \in BOOLEAN
      BY <1>4 DEF Boots, UpdateTypeOK
    <3>2. boots' \in 0 .. MaxBoots /\ old' \in File
      BY <1>4 DEF Boots, UpdateTypeOK, File
    <3>3. /\ image' \in [Copy -> {"none", "self", "old", "unlinked"}]
          /\ doing' \in [Copy -> {"off", "idle", "backup", "nudged", "offered", "fetching", "staged",
                                  "cleared"} \cup Swapping]
      BY <1>4 DEF Boots
    <3>. QED  BY <1>4, <3>1, <3>2, <3>3 DEF Boots, UpdateTypeOK
  <2>2. \A d \in Copy : doing[d] \notin Swapping /\ doing'[d] = "off"
    BY <1>4 DEF Boots
  <2>3. PathsHold' /\ NoneOlder' /\ NotLost'
    BY <1>4, <2>2 DEF Boots, PathsHold, NoneOlder, NotLost, Damaged
  <2>4. ImagesTrue' /\ OffersNewer' /\ OneSwap'
    BY <1>4, <2>2 DEF Boots, ImagesTrue, OffersNewer, OneSwap, Updating, Swapping
  <2>. QED  BY <2>1, <2>3, <2>4
<1>5. CASE Publishes
  <2>1. UpdateTypeOK'
    BY <1>5 DEF Publishes, UpdateTypeOK, swapVars, copyVars
  <2>2. PathsHold' /\ NoneOlder' /\ NotLost' /\ ImagesTrue' /\ OneSwap'
    BY <1>5 DEF Publishes, PathsHold, NoneOlder, NotLost, ImagesTrue, OneSwap, swapVars, copyVars
  <2>3. OffersNewer'
    BY <1>1, <1>5 DEF Publishes, OffersNewer, swapVars, copyVars, UpdateTypeOK, File, Damaged
  <2>. QED  BY <2>1, <2>2, <2>3
<1>6. CASE TrayRestarts
  <2>1. /\ self # NoFile /\ windows /\ UNCHANGED <<self, rel, torn, worldVars>>
        /\ Runs(self) <=> self > 0
    BY <1>1, <1>6 DEF TrayRestarts, Runs
  <2>2. /\ \/ /\ self > 0 /\ version' = [version EXCEPT ![Tray] = self]
              /\ doing' = [doing EXCEPT ![Tray] = "idle"] /\ image' = [image EXCEPT ![Tray] = "self"]
           \/ /\ ~(self > 0) /\ version' = version
              /\ doing' = [doing EXCEPT ![Tray] = "off"] /\ image' = [image EXCEPT ![Tray] = "none"]
        /\ old' \in {old, NoFile} /\ (old' # old => \A c \in Copy \ {Tray} : image[c] # "old")
    <3>1. version[Tray] = version[Tray] /\ version = [version EXCEPT ![Tray] = version[Tray]]
      BY <1>1
    <3>. QED  BY <1>6, <2>1, <3>1 DEF TrayRestarts
  <2>3. UpdateTypeOK'
    BY <1>1, <2>1, <2>2 DEF UpdateTypeOK, worldVars, File, Damaged
  <2>4. PathsHold' /\ NoneOlder' /\ NotLost'
    <3>1. \A c \in Copy : doing[c] \notin Swapping
      BY <2>1 DEF OneSwap
    <3>. QED  BY <2>1, <2>2, <3>1 DEF PathsHold, NoneOlder, NotLost, worldVars, Damaged
  <2>5. ImagesTrue'
    BY <1>1, <2>1, <2>2 DEF ImagesTrue, worldVars
  <2>6. OffersNewer'
    BY <1>1, <2>1, <2>2 DEF OffersNewer, worldVars, Updating
  <2>7. OneSwap'
    BY <1>1, <2>1, <2>2 DEF OneSwap, worldVars, Swapping
  <2>. QED  BY <2>3, <2>4, <2>5, <2>6, <2>7
<1>. QED  BY <1>2, <1>3, <1>4, <1>5, <1>6
\* Finding a newer release, and all that comes before the swap.
LEMMA OwnStepsKeep ==
    ASSUME UpdateInv, NEW c \in Copy,
           \/ WorksOn(c) \/ WorkDone(c) \/ LooksUp(c) \/ Takes(c) \/ Declines(c)
           \/ Fetches(c) \/ FetchFails(c) \/ ClearsOld(c) \/ MoveAsideFails(c)
    PROVE  UpdateInv'
<1>. USE SelfUpdateAssumption
     DEF At, NoFile, Damaged, Newer, Swapping, worldVars, swapVars, buildVars
<1>1. /\ doing \in [Copy -> {"off", "idle", "backup", "nudged", "offered", "fetching", "staged",
                             "cleared"} \cup Swapping]
      /\ rel \in [Copy -> File] /\ version \in [Copy -> 0 .. MaxReleases]
      /\ latest \in 1 .. MaxReleases /\ stumbles \in 0 .. MaxFaults
  BY DEF UpdateInv, UpdateTypeOK
<1>2. rel[c] \in File /\ version[c] \in 0 .. MaxReleases /\ latest \in File
      /\ rel = [rel EXCEPT ![c] = rel[c]]
  BY <1>1 DEF File
<1>3. doing[c] \in Updating => version[c] < rel[c] /\ rel[c] <= latest
  BY DEF UpdateInv, OffersNewer
<1>4. CASE WorksOn(c)
  BY <1>1, <1>2, <1>4, OwnQuietStep DEF WorksOn, Updating
<1>5. CASE WorkDone(c)
  <2>1. CASE Steps(c, "idle") /\ UNCHANGED rel
    BY <1>1, <1>2, <1>5, <2>1, OwnQuietStep DEF WorkDone, Updating
  <2>2. CASE Newer(version[c], latest) /\ Steps(c, "nudged") /\ rel' = [rel EXCEPT ![c] = latest]
    <3>1. version[c] < latest /\ latest <= latest
      BY <1>1, <1>2, <2>2
    <3>2. /\ doing[c] \notin Swapping \cup {"off"}
          /\ UNCHANGED <<self, image, version, buildVars, torn, doomed, latest, installed, launches, boots>>
          /\ stumbles' \in 0 .. MaxFaults /\ old' = old
      BY <1>1, <1>5 DEF WorkDone
    <3>. QED  BY <1>2, <2>2, <3>1, <3>2, OwnQuietStep
  <2>. QED  BY <1>5, <2>1, <2>2 DEF WorkDone
<1>6. CASE LooksUp(c)
  <2>1. /\ version[c] < latest /\ latest <= latest
        /\ rel' = [rel EXCEPT ![c] = latest] /\ Steps(c, "offered")
    BY <1>1, <1>2, <1>6 DEF LooksUp
  <2>2. /\ doing[c] \notin Swapping \cup {"off"}
        /\ UNCHANGED <<self, image, version, buildVars, torn, doomed, latest, installed, launches, boots>>
        /\ stumbles' \in 0 .. MaxFaults /\ old' = old
    BY <1>1, <1>6 DEF LooksUp
  <2>. QED  BY <1>2, <2>1, <2>2, OwnQuietStep
<1>7. CASE Takes(c)
  <2>. DEFINE r == IF c = Tray THEN latest ELSE rel[c]
  <2>1. r \in File /\ version[c] < r /\ r <= latest
    <3>1. version[c] < rel[c] /\ rel[c] <= latest
      BY <1>3, <1>7 DEF Takes, Updating
    <3>2. \A q \in {latest, rel[c]} : q \in File /\ version[c] < q /\ q <= latest
      BY <1>1, <1>2, <3>1 DEF File
    <3>. QED  BY <3>2
  <2>2. rel' = [rel EXCEPT ![c] = r] /\ Steps(c, "fetching") /\ doing[c] \notin Swapping \cup {"off"}
    BY <1>7 DEF Takes
  <2>. HIDE DEF r
  <2>. QED  BY <1>1, <1>7, <2>1, <2>2, OwnQuietStep DEF Takes
<1>8. CASE Declines(c)
  BY <1>1, <1>2, <1>8, OwnQuietStep DEF Declines, Updating
<1>9. CASE Fetches(c)
  <2>a. PICK archive \in {rel[c], Damaged} : \E f \in Unpacked(rel[c], archive) :
            /\ \/ archive # Damaged /\ UNCHANGED <<stumbles, unverified>>
               \/ archive = Damaged /\ Stumbles /\ unverified' = (unverified \/ rel[c] \in Bare)
            /\ Steps(c, IF f = NoFile THEN "idle" ELSE "staged")
            /\ torn' = IF f = Damaged THEN torn \cup {c} ELSE torn \ {c}
    BY <1>9 DEF Fetches
  <2>1. PICK f \in Unpacked(rel[c], archive) :
            /\ \/ archive # Damaged /\ UNCHANGED <<stumbles, unverified>>
               \/ archive = Damaged /\ Stumbles /\ unverified' = (unverified \/ rel[c] \in Bare)
            /\ Steps(c, IF f = NoFile THEN "idle" ELSE "staged")
            /\ torn' = IF f = Damaged THEN torn \cup {c} ELSE torn \ {c}
    BY <2>a
  <2>2. /\ stumbles' \in 0 .. MaxFaults /\ unverified' \in BOOLEAN /\ (unverified => unverified')
        /\ torn' \subseteq Copy
    <3>1. stumbles' \in 0 .. MaxFaults
      BY <1>1, <2>1 DEF Stumbles
    <3>2. unverified \in BOOLEAN /\ torn \subseteq Copy
      BY DEF UpdateInv, UpdateTypeOK
    <3>3. unverified' \in BOOLEAN /\ (unverified => unverified')
      BY <2>1, <3>2
    <3>4. torn' \subseteq Copy
      BY <2>1, <3>2
    <3>. QED  BY <3>1, <3>3, <3>4
  <2>3. torn' # {} => unverified'
    <3>1. archive # Damaged => f # Damaged
      BY <2>1 DEF Unpacked
    <3>2. f = Damaged => archive = Damaged /\ rel[c] \in Bare
      BY <3>1 DEF Unpacked
    <3>3. torn # {} => unverified
      BY DEF UpdateInv, PathsHold
    <3>4. CASE f = Damaged
      BY <2>1, <3>2, <3>4
    <3>5. CASE f # Damaged
      BY <2>1, <2>2, <3>3, <3>5
    <3>. QED  BY <3>4, <3>5
  <2>4. PICK s \in {"idle", "staged"} : Steps(c, s)
    BY <2>1
  <2>5. s \in Updating => version[c] < rel[c] /\ rel[c] <= latest
    BY <1>3, <1>9 DEF Fetches, Updating
  <2>6. /\ doing[c] \notin Swapping \cup {"off"} /\ (s = "cleared" => windows)
        /\ UNCHANGED <<self, image, version, windows, stranded, doomed, latest, installed, launches, boots>>
        /\ old' = old /\ rel' = [rel EXCEPT ![c] = rel[c]]
    BY <1>2, <1>9, <2>4 DEF Fetches
  <2>. QED  BY <1>2, <2>2, <2>3, <2>4, <2>5, <2>6, OwnStep
<1>10. CASE FetchFails(c)
  <2>1. stumbles' \in 0 .. MaxFaults
    BY <1>1, <1>10 DEF FetchFails, Stumbles
  <2>. QED  BY <1>1, <1>2, <1>10, <2>1, OwnQuietStep DEF FetchFails, Updating
<1>11. CASE ClearsOld(c)
  <2>1. old' \in {old, NoFile} /\ (old' # old => ~InUse("old"))
    BY <1>11 DEF ClearsOld, Cleanup
  <2>. QED  BY <1>1, <1>2, <1>3, <1>11, <2>1, OwnQuietStep DEF ClearsOld, Updating
<1>12. CASE MoveAsideFails(c)
  <2>1. stumbles' \in 0 .. MaxFaults
    BY <1>1, <1>12 DEF MoveAsideFails, Stumbles
  <2>. QED  BY <1>1, <1>2, <1>12, <2>1, OwnQuietStep DEF MoveAsideFails, Updating
<1>. QED  BY <1>4, <1>5, <1>6, <1>7, <1>8, <1>9, <1>10, <1>11, <1>12
\* What no swap touches.
SwapTypes ==
    /\ doing \in [Copy -> {"off", "idle", "backup", "nudged", "offered", "fetching", "staged",
                           "cleared"} \cup Swapping]
    /\ image \in [Copy -> {"none", "self", "old", "unlinked"}]
    /\ version \in [Copy -> 0 .. MaxReleases] /\ rel \in [Copy -> File]
    /\ self \in File /\ old \in 0 .. MaxReleases
    /\ latest \in 1 .. MaxReleases /\ installed \in 1 .. MaxReleases

LEMMA SwapTyped == UpdateInv => SwapTypes
<1>. SUFFICES ASSUME UpdateInv  PROVE SwapTypes
  OBVIOUS
<1>1. self \in File /\ old \in 0 .. MaxReleases
  BY SelfUpdateAssumption DEF UpdateInv, UpdateTypeOK, PathsHold, File, Damaged, NoFile
<1>. QED  BY <1>1 DEF UpdateInv, UpdateTypeOK, SwapTypes

\* One rename over the binary: what runs from it goes on without a name.
LEMMA ReplaceKeeps ==
    ASSUME UpdateInv, NEW c \in Copy, Replaces(c)
    PROVE  UpdateInv'
<1>. USE SelfUpdateAssumption DEF At, NoFile, Damaged, buildVars, Steps
<1>1. SwapTypes /\ UpdateInv
  BY SwapTyped
<1>2. /\ rel[c] > version[c] /\ rel[c] <= latest /\ rel[c] \in 1 .. MaxReleases
      /\ ~windows /\ ~stranded
  BY <1>1 DEF Replaces, UpdateInv, OffersNewer, Updating, SwapTypes, File, PathsHold
<1>3. /\ installed' \in 1 .. MaxReleases /\ self' \in File \ {NoFile}
      /\ (self' = Damaged => unverified)
  BY <1>1, <1>2 DEF Replaces, Says, Staged, SwapTypes, File, UpdateInv, PathsHold
<1>4. /\ image' \in [Copy -> {"none", "self", "old", "unlinked"}]
      /\ \A d \in Copy : image'[d] = "none" <=> image[d] = "none"
  BY <1>1 DEF Replaces, ImagesMoved, SwapTypes
<1>5. \A d \in Copy : /\ doing'[d] = IF d = c THEN "idle" ELSE doing[d]
                      /\ doing[c] = "staged" /\ doing[d] \notin Swapping
  BY <1>1, <1>2 DEF Replaces, SwapTypes, UpdateInv, OneSwap, Swapping
<1>6. UpdateTypeOK'
  <2>1. doing' \in [Copy -> {"off", "idle", "backup", "nudged", "offered", "fetching", "staged",
                             "cleared"} \cup Swapping]
    BY <1>1 DEF Replaces, SwapTypes
  <2>. QED  BY <1>1, <1>3, <1>4, <2>1 DEF Replaces, UpdateInv, UpdateTypeOK, File
<1>7. PathsHold' /\ NoneOlder' /\ NotLost'
  BY <1>1, <1>2, <1>3 DEF Replaces, PathsHold, NoneOlder, NotLost, UpdateInv
<1>8. ImagesTrue'
  BY <1>1, <1>2, <1>4, <1>5 DEF Replaces, ImagesTrue, UpdateInv
<1>9. OffersNewer'
  BY <1>1, <1>5 DEF Replaces, OffersNewer, UpdateInv, Updating
<1>10. OneSwap'
  BY <1>1, <1>2, <1>5 DEF Replaces, OneSwap, UpdateInv, Swapping
<1>. QED  BY <1>6, <1>7, <1>8, <1>9, <1>10 DEF UpdateInv

\* A program that moves the binary aside runs from it: no one has replaced it
\* since, for a file that a program runs from cannot be replaced on Windows.
LEMMA MoveAsideKeeps ==
    ASSUME UpdateInv, NEW c \in Copy, MovesAside(c)
    PROVE  UpdateInv'
<1>. USE SelfUpdateAssumption DEF At, NoFile, Damaged, buildVars, worldVars, Steps
<1>1. SwapTypes /\ UpdateInv
  BY SwapTyped
<1>2. /\ windows /\ self # NoFile /\ self \in File
      /\ \A d \in Copy : doing[d] \notin Swapping
  BY <1>1 DEF MovesAside, MayMoveAside, UpdateInv, OneSwap, SwapTypes
<1>3. \A d \in Copy : image[d] # "old" /\ image[d] # "unlinked"
  BY <1>1, <1>2 DEF MovesAside, MayMoveAside, MayReplace, InUse, UpdateInv, ImagesTrue
<1>4. image[c] = "self"
  BY <1>1, <1>3 DEF MovesAside, UpdateInv, ImagesTrue, SwapTypes
<1>a. self > 0 /\ self >= installed
  BY <1>1, <1>2, <1>4 DEF UpdateInv, ImagesTrue, NoneOlder, SwapTypes
<1>5. \A d \in Copy : image'[d] = IF image[d] = "self" THEN "old" ELSE image[d]
  BY DEF MovesAside, ImagesMoved
<1>6. /\ image' \in [Copy -> {"none", "self", "old", "unlinked"}]
      /\ doing' \in [Copy -> {"off", "idle", "backup", "nudged", "offered", "fetching", "staged",
                              "cleared"} \cup Swapping]
  BY <1>1 DEF MovesAside, ImagesMoved, SwapTypes, Swapping
<1>7. \A d \in Copy : doing'[d] = IF d = c THEN "aside" ELSE doing[d]
  BY <1>1 DEF MovesAside, SwapTypes
<1>8. UpdateTypeOK'
  BY <1>1, <1>6 DEF MovesAside, UpdateInv, UpdateTypeOK, File
<1>9. PathsHold' /\ NoneOlder'
  BY <1>1, <1>2, <1>a DEF MovesAside, PathsHold, NoneOlder, UpdateInv
<1>10. NotLost'
  BY <1>7 DEF NotLost, Swapping
<1>11. ImagesTrue'
  BY <1>1, <1>3, <1>5, <1>7, <1>a DEF MovesAside, ImagesTrue, UpdateInv
<1>12. OffersNewer'
  BY <1>1, <1>7 DEF MovesAside, OffersNewer, UpdateInv, Updating
<1>13. OneSwap'
  BY <1>2, <1>4, <1>5, <1>7, <1>a DEF MovesAside, OneSwap, Swapping
<1>. QED  BY <1>8, <1>9, <1>10, <1>11, <1>12, <1>13 DEF UpdateInv

\* While a binary is aside no program runs from its path: the new one, newer than
\* what any update has installed, goes in, or the old one goes back, or neither.
LEMMA SwapEnds ==
    ASSUME UpdateInv, NEW c \in Copy,
           Installs(c) \/ InstallFails(c) \/ PutsBack(c) \/ PutBackFails(c)
    PROVE  UpdateInv'
<1>. USE SelfUpdateAssumption DEF At, NoFile, Damaged, buildVars, worldVars, swapVars, Steps
<1>1. SwapTypes /\ UpdateInv
  BY SwapTyped
<1>2. doing[c] \in Swapping
  BY DEF Installs, InstallFails, PutsBack, PutBackFails, Swapping
<1>3. /\ windows /\ self = NoFile /\ image[c] = "old" /\ old >= installed /\ old = version[c]
      /\ old > 0
      /\ \A d \in Copy : doing[d] \in Swapping => d = c
      /\ rel[c] > version[c] /\ rel[c] <= latest /\ rel[c] \in 1 .. MaxReleases
  <2>1. /\ windows /\ self = NoFile /\ image[c] = "old" /\ old >= installed
        /\ \A d \in Copy : doing[d] \in Swapping => d = c
    BY <1>1, <1>2 DEF UpdateInv, OneSwap, Swapping
  <2>2. version[c] > 0 /\ old = version[c]
    BY <1>1, <2>1 DEF UpdateInv, ImagesTrue
  <2>3. rel[c] > version[c] /\ rel[c] <= latest
    BY <1>1, <1>2 DEF UpdateInv, OffersNewer, Updating, Swapping
  <2>4. /\ rel[c] \in File /\ version[c] \in 0 .. MaxReleases /\ latest \in 1 .. MaxReleases
        /\ old \in 0 .. MaxReleases
    BY <1>1 DEF SwapTypes
  <2>5. rel[c] \in 1 .. MaxReleases
    BY <2>2, <2>3, <2>4 DEF File
  <2>. QED  BY <2>1, <2>2, <2>3, <2>5
<1>4. \A d \in Copy : image[d] # "self" /\ image[d] # "unlinked"
  BY <1>1, <1>3 DEF UpdateInv, ImagesTrue
<1>5. CASE Installs(c)
  <2>1. \A d \in Copy : doing'[d] = IF d = c THEN "idle" ELSE doing[d]
    BY <1>1, <1>5 DEF Installs, SwapTypes
  <2>2. /\ self' \in {rel[c], Damaged} /\ installed' = rel[c]
        /\ (self' = Damaged => unverified)
    <3>1. installed \in 1 .. MaxReleases /\ old \in 0 .. MaxReleases /\ version[c] \in 0 .. MaxReleases
      BY <1>1 DEF SwapTypes
    <3>2. rel[c] > installed
      BY <1>3, <3>1
    <3>3. self' \in {rel[c], Damaged} /\ (self' = Damaged => c \in torn)
      BY <1>3, <1>5 DEF Installs, Staged
    <3>. QED  BY <1>1, <1>5, <3>1, <3>2, <3>3 DEF Installs, Says, UpdateInv, PathsHold
  <2>3. UpdateTypeOK'
    <3>1. doing' \in [Copy -> {"off", "idle", "backup", "nudged", "offered", "fetching", "staged",
                               "cleared"} \cup Swapping]
      BY <1>1, <1>5 DEF Installs, SwapTypes
    <3>2. {windows, stranded, unverified}' \subseteq BOOLEAN /\ torn' \subseteq Copy /\ doomed' \in BOOLEAN
      BY <1>1, <1>5 DEF Installs, UpdateInv, UpdateTypeOK
    <3>. QED  BY <1>1, <1>3, <1>5, <2>2, <3>1, <3>2 DEF Installs, UpdateInv, UpdateTypeOK, File
  <2>4. PathsHold' /\ NoneOlder' /\ NotLost'
    BY <1>1, <1>3, <1>5, <2>2 DEF Installs, PathsHold, NoneOlder, NotLost, UpdateInv
  <2>5. ImagesTrue'
    BY <1>1, <1>2, <1>4, <1>5, <2>1 DEF Installs, ImagesTrue, UpdateInv, Swapping
  <2>6. OffersNewer'
    BY <1>1, <1>5, <2>1 DEF Installs, OffersNewer, UpdateInv, Updating
  <2>7. OneSwap'
    BY <1>3, <1>5, <2>1 DEF Installs, OneSwap, Swapping
  <2>. QED  BY <2>3, <2>4, <2>5, <2>6, <2>7 DEF UpdateInv
<1>6. CASE InstallFails(c)
  <2>1. \A d \in Copy : doing'[d] = IF d = c THEN "failed" ELSE doing[d]
    BY <1>1, <1>6 DEF InstallFails, SwapTypes
  <2>2. UpdateTypeOK'
    <3>1. doing' \in [Copy -> {"off", "idle", "backup", "nudged", "offered", "fetching", "staged",
                               "cleared"} \cup Swapping]
      BY <1>1, <1>6 DEF InstallFails, SwapTypes, Swapping
    <3>2. stumbles' \in 0 .. MaxFaults
      BY <1>1, <1>6 DEF InstallFails, Stumbles, UpdateInv, UpdateTypeOK
    <3>. QED  BY <1>1, <1>6, <3>1, <3>2 DEF InstallFails, UpdateInv, UpdateTypeOK
  <2>3. PathsHold' /\ NoneOlder' /\ ImagesTrue'
    BY <1>1, <1>2, <1>6, <2>1 DEF InstallFails, PathsHold, NoneOlder, ImagesTrue, UpdateInv, Swapping
  <2>4. NotLost'
    BY <2>1 DEF NotLost, Swapping
  <2>5. OffersNewer'
    BY <1>1, <1>2, <1>6, <2>1 DEF InstallFails, OffersNewer, UpdateInv, Updating, Swapping
  <2>6. OneSwap'
    BY <1>1, <1>3, <1>6, <2>1 DEF InstallFails, OneSwap, Swapping
  <2>. QED  BY <2>2, <2>3, <2>4, <2>5, <2>6 DEF UpdateInv
<1>7. CASE PutsBack(c)
  <2>1. /\ \A d \in Copy : doing'[d] = IF d = c THEN "idle" ELSE doing[d]
        /\ \A d \in Copy : image'[d] = IF image[d] = "old" THEN "self" ELSE image[d]
    BY <1>1, <1>7 DEF PutsBack, ImagesMoved, SwapTypes
  <2>2. UpdateTypeOK'
    <3>1. /\ doing' \in [Copy -> {"off", "idle", "backup", "nudged", "offered", "fetching", "staged",
                                  "cleared"} \cup Swapping]
          /\ image' \in [Copy -> {"none", "self", "old", "unlinked"}]
      BY <1>1, <1>7 DEF PutsBack, ImagesMoved, SwapTypes
    <3>. QED  BY <1>1, <1>7, <3>1 DEF PutsBack, UpdateInv, UpdateTypeOK, File
  <2>3. PathsHold' /\ NoneOlder' /\ NotLost'
    BY <1>1, <1>3, <1>7 DEF PutsBack, PathsHold, NoneOlder, NotLost, UpdateInv
  <2>4. ImagesTrue'
    BY <1>1, <1>2, <1>4, <1>7, <2>1 DEF PutsBack, ImagesTrue, UpdateInv, Swapping
  <2>5. OffersNewer'
    BY <1>1, <1>7, <2>1 DEF PutsBack, OffersNewer, UpdateInv, Updating
  <2>6. OneSwap'
    BY <1>3, <1>7, <2>1 DEF PutsBack, OneSwap, Swapping
  <2>. QED  BY <2>2, <2>3, <2>4, <2>5, <2>6 DEF UpdateInv
<1>8. CASE PutBackFails(c)
  <2>1. \A d \in Copy : doing'[d] = IF d = c THEN "idle" ELSE doing[d]
    BY <1>1, <1>8 DEF PutBackFails, SwapTypes
  <2>2. UpdateTypeOK'
    <3>1. doing' \in [Copy -> {"off", "idle", "backup", "nudged", "offered", "fetching", "staged",
                               "cleared"} \cup Swapping]
      BY <1>1, <1>8 DEF PutBackFails, SwapTypes
    <3>2. {windows, stranded, unverified}' \subseteq BOOLEAN /\ torn' \subseteq Copy
      BY <1>1, <1>8 DEF PutBackFails, UpdateInv, UpdateTypeOK
    <3>. QED  BY <1>1, <1>8, <3>1, <3>2 DEF PutBackFails, UpdateInv, UpdateTypeOK
  <2>3. PathsHold' /\ NoneOlder' /\ NotLost' /\ ImagesTrue'
    BY <1>1, <1>2, <1>3, <1>8, <2>1
       DEF PutBackFails, PathsHold, NoneOlder, NotLost, ImagesTrue, UpdateInv, Swapping
  <2>4. OffersNewer'
    BY <1>1, <1>8, <2>1 DEF PutBackFails, OffersNewer, UpdateInv, Updating
  <2>5. OneSwap'
    BY <1>3, <1>8, <2>1 DEF PutBackFails, OneSwap, Swapping
  <2>. QED  BY <2>2, <2>3, <2>4, <2>5 DEF UpdateInv
<1>. QED  BY <1>5, <1>6, <1>7, <1>8

LEMMA UpdateHolds ==
    ASSUME ~MidSwapCuts
    PROVE  UpdateInv /\ [UpdateNext]_updateVars => UpdateInv'
<1>. SUFFICES ASSUME UpdateInv, [UpdateNext]_updateVars  PROVE UpdateInv'
  OBVIOUS
<1>1. ASSUME NEW c \in Copy, Launches(c) \/ Quits(c)  PROVE UpdateInv'
  BY <1>1, ProgramsKeep
<1>2. CASE TrayRestarts \/ Boots \/ Publishes
  BY <1>2, ProgramsKeep
<1>3. ASSUME NEW c \in Copy,
             \/ WorksOn(c) \/ WorkDone(c) \/ LooksUp(c) \/ Takes(c) \/ Declines(c)
             \/ Fetches(c) \/ FetchFails(c) \/ ClearsOld(c) \/ MoveAsideFails(c)
      PROVE  UpdateInv'
  BY <1>3, OwnStepsKeep
<1>4. ASSUME NEW c \in Copy, Replaces(c)  PROVE UpdateInv'
  BY <1>4, ReplaceKeeps
<1>5. ASSUME NEW c \in Copy, MovesAside(c)  PROVE UpdateInv'
  BY <1>5, MoveAsideKeeps
<1>6. ASSUME NEW c \in Copy, Installs(c) \/ InstallFails(c) \/ PutsBack(c) \/ PutBackFails(c)
      PROVE  UpdateInv'
  BY <1>6, SwapEnds
<1>7. CASE UNCHANGED updateVars
  BY <1>7 DEF updateVars, swapVars, copyVars, worldVars, buildVars, UpdateInv, UpdateTypeOK, PathsHold,
              ImagesTrue, OffersNewer, OneSwap, NotLost, NoneOlder
<1>. QED  BY <1>1, <1>2, <1>3, <1>4, <1>5, <1>6, <1>7 DEF UpdateNext
\* Every variable of an update has its type.
THEOREM UpdateKeepsTypes ==
    ASSUME ~MidSwapCuts
    PROVE  UpdateSpec => []UpdateTypeOK
<1>1. UpdateInv => UpdateTypeOK
  BY DEF UpdateInv
<1>. QED  BY <1>1, UpdateStarts, UpdateHolds, PTL DEF UpdateSpec

\* However many programs update at one time, whatever is refused or fails, and
\* wherever programs end but between the two renames of Windows, there is a binary
\* that runs at the program's path (applyTo, swap), unless a put-back failed, or a
\* damaged download of a release without checksums was put there (Fetch).
THEOREM BinaryWorks ==
    ASSUME ~MidSwapCuts
    PROVE  UpdateSpec => []WorkingBinary
<1>1. UpdateInv => WorkingBinary
  <2>. SUFFICES ASSUME UpdateInv, ~stranded, ~Runs(self), ~(unverified /\ self = Damaged)
                PROVE  \E c \in Copy : doing[c] \in Swapping /\ Runs(old)
    BY DEF WorkingBinary
  <2>1. self = NoFile
    BY SwapTyped DEF SwapTypes, Runs, NoFile, File, Damaged, UpdateInv, PathsHold
  <2>2. PICK c \in Copy : doing[c] \in Swapping
    BY <2>1 DEF UpdateInv, NotLost
  <2>3. old >= installed /\ old \in Int /\ installed >= 1 /\ installed \in Int
    BY <2>2, SwapTyped DEF UpdateInv, OneSwap, SwapTypes
  <2>. QED  BY <2>2, <2>3 DEF Runs
<1>. QED  BY <1>1, UpdateStarts, UpdateHolds, PTL DEF UpdateSpec

\* On Windows the binary at the program's path is never older than what one of
\* any number of updates said it had installed.
THEOREM VersionsNeverFall ==
    ASSUME ~MidSwapCuts
    PROVE  UpdateSpec => []NeverOlder
<1>1. UpdateInv => NeverOlder
  BY DEF UpdateInv, NoneOlder, NeverOlder, Runs, NoFile, Damaged
<1>. QED  BY <1>1, UpdateStarts, UpdateHolds, PTL DEF UpdateSpec

(***************************************************************************)
(* The account.                                                            *)
(*                                                                         *)
(* One setting of the PIN is one version of it as long as no two computers *)
(* set it at one time.  A session waiting to be saved is then of a version *)
(* no older than the one its computer has and no newer than the account's; *)
(* and who was let in with nothing to move had nothing to move, up to a    *)
(* wipe.                                                                   *)
(***************************************************************************)
SomeKeys == {NoKeys, OldKeys} \cup Computer
Signing  == {"finish", "move", "save", "token"}
Stages   == Signing \cup {"idle", "setup", "reset", "wipe", "sync", "adopt", "synced", "push", "put"}

ServiceTypes ==
    /\ codes \in Nat /\ otp \in 0..codes /\ attempts \in 0..MaxAttempts
    /\ pin \in [ver : 0..MaxPins, seal : 0..MaxPins, failures : Nat, locked : BOOLEAN]
    /\ stored_keys \in {NoKeys, OldKeys} /\ sealed_keys \in [keys : SomeKeys, seal : Nat]
    /\ pending \in [Computer -> 0..MaxPins + 1]
ComputerTypes ==
    /\ step \in [Computer -> Stages]
    /\ fresh \in [Computer -> [ver : Int, seal : Nat, legacy : BOOLEAN]]
    /\ got \in [Computer -> SomeKeys] /\ keys \in [Computer -> SomeKeys]
    /\ token \in [Computer -> Int] /\ sealKey \in [Computer -> Nat]
    /\ checking \in [Computer -> Int] /\ signed \in [Computer -> Int]
    /\ quiet \in [Computer -> BOOLEAN] /\ missed \subseteq Computer /\ clearing \subseteq Computer
AccountTypes == ServiceTypes /\ ComputerTypes

OneVersion ==
    /\ pin.ver = pin.seal
    /\ \A c \in Computer : step[c] = "setup" => pin.ver = 0
    /\ \A c \in Computer : step[c] = "reset" => fresh[c].ver = pin.ver + 1 /\ pin.seal < MaxPins
    /\ \A c, d \in Computer : step[c] \in {"setup", "reset"} /\ step[d] \in {"setup", "reset"} => c = d
CodesCount == otp # 0 => attempts < MaxAttempts
SealedWith == sealed_keys.keys = NoKeys <=> sealed_keys.seal = 0
FilesOf(c) == token[c] <= pin.ver /\ sealKey[c] <= pin.seal
SessionOf(c) ==
    /\ step[c] \in Signing \cup {"wipe"} =>
          /\ 0 < fresh[c].ver /\ fresh[c].ver = fresh[c].seal
          /\ fresh[c].ver <= pin.ver /\ token[c] <= fresh[c].ver
    /\ step[c] = "wipe" => ~fresh[c].legacy
    /\ step[c] \in {"adopt", "push", "put"} => fresh[c].seal > 0
    /\ step[c] \in {"push", "put"} => keys[c] # NoKeys
NothingLeft(c) == stored_keys = NoKeys \/ sealed_keys.keys # NoKeys \/ c \in missed
MovedFor(c) ==
    /\ LetIn(c) /\ step[c] # "sync" /\ TokenAccepted(fresh[c].ver) => NothingLeft(c)
    /\ step[c] = "sync" /\ TokenAccepted(token[c]) => NothingLeft(c)
SessionsHold == \A c \in Computer : FilesOf(c) /\ SessionOf(c) /\ MovedFor(c)
AccountInv == AccountTypes /\ OneVersion /\ CodesCount /\ SealedWith /\ SessionsHold

LEMMA AccountStarts == AccountInit => AccountInv
<1>. SUFFICES ASSUME AccountInit  PROVE AccountInv
  OBVIOUS
<1>0. NoKeys # OldKeys /\ MaxPins \in Nat \ {0} /\ MaxAttempts \in Nat \ {0}
  BY AccountAssumption
<1>1. ServiceTypes
  BY <1>0 DEF AccountInit, ServiceTypes, NoPin, NoSealed, SomeKeys
<1>2. ComputerTypes
  <2>1. \A c \in Computer : c \in SomeKeys /\ NoKeys \in SomeKeys
    BY DEF SomeKeys
  <2>2. keys \in [Computer -> SomeKeys] /\ got \in [Computer -> SomeKeys]
    BY <2>1 DEF AccountInit
  <2>3. token \in [Computer -> Int] /\ sealKey \in [Computer -> Nat]
        /\ checking \in [Computer -> Int] /\ signed \in [Computer -> Int]
    BY DEF AccountInit, BeforePins
  <2>4. step \in [Computer -> Stages]
    BY DEF AccountInit, Stages
  <2>5. quiet \in [Computer -> BOOLEAN] /\ missed \subseteq Computer /\ clearing \subseteq Computer
    BY DEF AccountInit
  <2>6. NoSession \in [ver : Int, seal : Nat, legacy : BOOLEAN]
    BY DEF NoSession
  <2>7. fresh \in [Computer -> [ver : Int, seal : Nat, legacy : BOOLEAN]]
    BY <2>6 DEF AccountInit
  <2>. QED  BY <2>2, <2>3, <2>4, <2>5, <2>7 DEF ComputerTypes
<1>3. OneVersion /\ CodesCount /\ SealedWith
  BY <1>0 DEF AccountInit, OneVersion, CodesCount, SealedWith, NoPin, NoSealed
<1>4. ASSUME NEW c \in Computer  PROVE FilesOf(c) /\ SessionOf(c) /\ MovedFor(c)
  BY DEF AccountInit, FilesOf, SessionOf, MovedFor, Signing, NoPin, BeforePins, LetIn, TokenAccepted
<1>. QED  BY <1>1, <1>2, <1>3, <1>4 DEF AccountInv, AccountTypes, SessionsHold

\* What the invariant says of the PIN, the keys kept and the sessions is said of
\* these variables only.
LEMMA SessionsApart ==
    ASSUME AccountInv, UNCHANGED <<pin, stored_keys, sealed_keys, step, fresh, token, sealKey, keys, missed>>
    PROVE  OneVersion' /\ SealedWith' /\ SessionsHold'
BY DEF AccountInv, OneVersion, SealedWith, SessionsHold, FilesOf, SessionOf, MovedFor, LetIn, NothingLeft,
       TokenAccepted

LEMMA CodesKeep ==
    ASSUME AccountInv, NEW c \in Computer,
           AskCode(c) \/ (\E n \in 1..MaxCodes : EnterCode(c, n)) \/ ChallengeEnds(c) \/ CheckSession(c)
    PROVE  AccountInv'
<1>0. MaxPins \in Nat \ {0} /\ MaxAttempts \in Nat \ {0}
  BY AccountAssumption
<1>1. UNCHANGED <<pin, stored_keys, sealed_keys, step, fresh, got, token, sealKey, keys, clearing, signed, quiet, missed>>
  BY DEF AskCode, EnterCode, ChallengeEnds, CheckSession, tableVars, stepVars, fileVars, seenVars
<1>2. OneVersion' /\ SealedWith' /\ SessionsHold'
  BY <1>1, SessionsApart
<1>3. CodesCount' /\ codes' \in Nat /\ otp' \in 0..codes' /\ attempts' \in 0..MaxAttempts
  <2>. codes \in Nat /\ otp \in 0..codes /\ attempts \in 0..MaxAttempts /\ CodesCount
    BY DEF AccountInv, AccountTypes, ServiceTypes
  <2>1. CASE AskCode(c)
    BY <1>0, <2>1 DEF AskCode, CodesCount
  <2>2. ASSUME NEW n \in 1..MaxCodes, EnterCode(c, n)
        PROVE  CodesCount' /\ codes' \in Nat /\ otp' \in 0..codes' /\ attempts' \in 0..MaxAttempts
    BY <1>0, <2>2 DEF EnterCode, CodesCount
  <2>3. CASE ChallengeEnds(c) \/ CheckSession(c)
    BY <2>3 DEF ChallengeEnds, CheckSession, otpVars, CodesCount
  <2>. QED  BY <2>1, <2>2, <2>3
<1>4. pending' \in [Computer -> 0..MaxPins + 1]
  <2>. pending \in [Computer -> 0..MaxPins + 1] /\ pin.seal \in 0..MaxPins
    BY DEF AccountInv, AccountTypes, ServiceTypes
  <2>1. pin.seal + 1 \in 0..MaxPins + 1 /\ 0 \in 0..MaxPins + 1
    BY <1>0
  <2>. QED  BY <2>1 DEF AskCode, EnterCode, ChallengeEnds, CheckSession, stepVars
<1>5. checking' \in [Computer -> Int]
  <2>. checking \in [Computer -> Int] /\ token \in [Computer -> Int]
    BY DEF AccountInv, AccountTypes, ComputerTypes
  <2>. QED  BY DEF AskCode, EnterCode, ChallengeEnds, CheckSession, seenVars
<1>. QED  BY <1>1, <1>2, <1>3, <1>4, <1>5 DEF AccountInv, AccountTypes, ServiceTypes, ComputerTypes

\* What a step of one computer leaves of another.
OthersSame(c) ==
    \A d \in Computer \ {c} :
        /\ step'[d] = step[d] /\ fresh'[d] = fresh[d] /\ keys'[d] = keys[d]
        /\ token'[d] = token[d] /\ sealKey'[d] = sealKey[d]

\* A PIN set anew makes no session good; and as long as none is set, those let in
\* before stay as they were when nothing comes back that was moved.
LEMMA OthersKeep ==
    ASSUME AccountInv, NEW c \in Computer, OthersSame(c), ServiceTypes',
           pin.ver <= pin'.ver, pin.seal <= pin'.seal,
           pin.ver = pin'.ver => \A d \in Computer \ {c} : LetIn(d) /\ NothingLeft(d) => NothingLeft(d)',
           NEW d \in Computer \ {c}
    PROVE  FilesOf(d)' /\ SessionOf(d)' /\ MovedFor(d)'
<1>1. /\ step'[d] = step[d] /\ fresh'[d] = fresh[d] /\ keys'[d] = keys[d]
      /\ token'[d] = token[d] /\ sealKey'[d] = sealKey[d]
  BY DEF OthersSame
<1>2. /\ pin.ver \in Int /\ pin.seal \in Int /\ pin'.ver \in Int /\ pin'.seal \in Int
      /\ token[d] \in Int /\ sealKey[d] \in Int /\ fresh[d].ver \in Int /\ fresh[d].seal \in Int
  BY AccountAssumption DEF AccountInv, AccountTypes, ServiceTypes, ComputerTypes
<1>3. FilesOf(d) /\ SessionOf(d) /\ MovedFor(d)
  BY DEF AccountInv, SessionsHold
<1>4. FilesOf(d)' /\ SessionOf(d)'
  BY <1>1, <1>2, <1>3 DEF FilesOf, SessionOf
<1>5. MovedFor(d)'
  <2>1. CASE pin.ver = pin'.ver
    <3>1. LetIn(d) /\ NothingLeft(d) => NothingLeft(d)'
      BY <2>1
    <3>2. LetIn(d) <=> LetIn(d)'
      BY <1>1 DEF LetIn
    <3>3. step[d] = "sync" => LetIn(d)
      BY DEF LetIn
    <3>. QED  BY <1>1, <1>3, <2>1, <3>1, <3>2, <3>3 DEF MovedFor, TokenAccepted
  <2>2. CASE pin.ver < pin'.ver
    <3>1. LetIn(d)' /\ step'[d] # "sync" => step[d] \in Signing
      BY <1>1 DEF LetIn, Signing
    <3>2. ~TokenAccepted(token[d])'
      BY <1>1, <1>2, <1>3, <2>2 DEF TokenAccepted, FilesOf
    <3>3. step[d] \in Signing => ~TokenAccepted(fresh[d].ver)'
      BY <1>1, <1>2, <1>3, <2>2 DEF TokenAccepted, SessionOf
    <3>. QED  BY <1>1, <3>1, <3>2, <3>3 DEF MovedFor, TokenAccepted
  <2>. QED  BY <1>2, <2>1, <2>2
<1>. QED  BY <1>4, <1>5

\* A step of one computer that sets no PIN and does not begin to keeps the
\* invariant when it keeps what the invariant says of that computer.
LEMMA OneComputer ==
    ASSUME AccountInv, NEW c \in Computer, OthersSame(c), ServiceTypes',
           pin'.ver = pin.ver, pin'.seal = pin.seal,
           \A d \in Computer \ {c} : LetIn(d) /\ NothingLeft(d) => NothingLeft(d)',
           step'[c] \in {"setup", "reset"} => step'[c] = step[c] /\ fresh'[c] = fresh[c],
           FilesOf(c)' /\ SessionOf(c)' /\ MovedFor(c)'
    PROVE  OneVersion' /\ SessionsHold'
<1>1. pin.ver \in Int /\ pin.seal \in Int
  BY AccountAssumption DEF AccountInv, AccountTypes, ServiceTypes
<1>2. SessionsHold'
  BY <1>1, OthersKeep DEF SessionsHold
<1>3. OneVersion'
  BY DEF OneVersion, AccountInv, OthersSame
<1>. QED  BY <1>2, <1>3

LEMMA SessionTyped ==
    ASSUME NEW v \in Int, NEW s \in Nat, NEW l \in BOOLEAN
    PROVE  [ver |-> v, seal |-> s, legacy |-> l] \in [ver : Int, seal : Nat, legacy : BOOLEAN]
OBVIOUS

LEMMA FinishKeeps ==
    ASSUME AccountInv, NEW c \in Computer, LetInToMove(c) \/ SaveSealKey(c) \/ SaveToken(c)
    PROVE  AccountInv'
<1>0. /\ pin \in [ver : 0..MaxPins, seal : 0..MaxPins, failures : Nat, locked : BOOLEAN]
      /\ step \in [Computer -> Stages] /\ fresh \in [Computer -> [ver : Int, seal : Nat, legacy : BOOLEAN]]
      /\ token \in [Computer -> Int] /\ sealKey \in [Computer -> Nat] /\ signed \in [Computer -> Int]
      /\ pending \in [Computer -> 0..MaxPins + 1] /\ FilesOf(c) /\ SessionOf(c) /\ MovedFor(c)
      /\ MaxPins \in Nat \ {0} /\ NoSession \in [ver : Int, seal : Nat, legacy : BOOLEAN]
  BY AccountAssumption DEF AccountInv, AccountTypes, ServiceTypes, ComputerTypes, SessionsHold, NoSession
<1>1. /\ UNCHANGED <<codes, otp, attempts, pin, stored_keys, sealed_keys, got, keys, checking, clearing, quiet, missed>>
      /\ OthersSame(c)
  BY <1>0 DEF LetInToMove, SaveSealKey, SaveToken, FirstFile, Goes, GoesOnTo, Ends, OthersSame,
              tableVars, otpVars, fileVars, seenVars
<1>2. step' \in [Computer -> Stages]
  BY <1>0 DEF LetInToMove, SaveSealKey, SaveToken, Goes, GoesOnTo, Ends, Stages, Signing
<1>3. fresh' \in [Computer -> [ver : Int, seal : Nat, legacy : BOOLEAN]]
  BY <1>0 DEF LetInToMove, SaveSealKey, SaveToken, GoesOnTo, Ends
<1>4. pending' \in [Computer -> 0..MaxPins + 1]
  BY <1>0 DEF LetInToMove, SaveSealKey, SaveToken
<1>5. token' \in [Computer -> Int] /\ sealKey' \in [Computer -> Nat] /\ signed' \in [Computer -> Int]
  BY <1>0 DEF LetInToMove, SaveSealKey, SaveToken, FirstFile, fileVars, seenVars
<1>6. AccountTypes'
  BY <1>1, <1>2, <1>3, <1>4, <1>5 DEF AccountInv, AccountTypes, ServiceTypes, ComputerTypes
<1>7. step'[c] \notin {"setup", "reset"} /\ FilesOf(c)' /\ SessionOf(c)' /\ MovedFor(c)'
  <2>. USE DEF FilesOf, SessionOf, MovedFor, LetIn, NothingLeft, TokenAccepted, Signing
  <2>1. CASE LetInToMove(c)
    BY <1>0, <1>1, <2>1 DEF LetInToMove, ToMove, IsAt, Goes, GoesOnTo, Ends, NoSession, fileVars
  <2>2. CASE SaveSealKey(c)
    <3>1. /\ step[c] = "save" \/ (step[c] = "finish" /\ ~fresh[c].legacy)
          /\ sealKey'[c] = fresh[c].seal /\ token'[c] = token[c]
          /\ (step'[c] = "token" /\ fresh'[c] = fresh[c]) \/ step'[c] = "idle"
      BY <1>0, <2>2 DEF SaveSealKey, ToMove, FirstFile, IsAt, Goes, GoesOnTo, Ends
    <3>2. {pin.ver, pin.seal, token[c], fresh[c].ver, fresh[c].seal} \subseteq Int /\ pin.ver = pin.seal
      BY <1>0 DEF AccountInv, OneVersion
    <3>. QED  BY <1>0, <1>1, <3>1, <3>2
  <2>3. CASE SaveToken(c)
    <3>1. /\ step[c] = "token" /\ step'[c] = "sync"
          /\ token'[c] = fresh[c].ver /\ sealKey'[c] = sealKey[c]
      BY <1>0, <2>3 DEF SaveToken, IsAt, Goes
    <3>2. {pin.ver, pin.seal, token[c], fresh[c].ver, fresh[c].seal} \subseteq Int /\ pin.ver = pin.seal
      BY <1>0 DEF AccountInv, OneVersion
    <3>. QED  BY <1>0, <1>1, <3>1, <3>2
  <2>. QED  BY <2>1, <2>2, <2>3
<1>8. OneVersion' /\ SessionsHold'
  BY <1>1, <1>6, <1>7, OneComputer DEF AccountTypes, NothingLeft
<1>. QED  BY <1>1, <1>6, <1>8 DEF AccountInv, CodesCount, SealedWith

LEMMA SyncKeeps ==
    ASSUME AccountInv, NEW c \in Computer,
           \/ GetKeys(c) \/ Adopt(c) \/ PushKeys(c) \/ Synced(c) \/ Connect(c)
           \/ SessionChecked(c) \/ SignOut(c) \/ ClearsKey(c) \/ SessionExpires(c)
    PROVE  AccountInv'
<1>0. /\ pin \in [ver : 0..MaxPins, seal : 0..MaxPins, failures : Nat, locked : BOOLEAN]
      /\ step \in [Computer -> Stages] /\ fresh \in [Computer -> [ver : Int, seal : Nat, legacy : BOOLEAN]]
      /\ token \in [Computer -> Int] /\ sealKey \in [Computer -> Nat] /\ signed \in [Computer -> Int]
      /\ checking \in [Computer -> Int] /\ got \in [Computer -> SomeKeys] /\ keys \in [Computer -> SomeKeys]
      /\ quiet \in [Computer -> BOOLEAN] /\ pending \in [Computer -> 0..MaxPins + 1]
      /\ sealed_keys \in [keys : SomeKeys, seal : Nat]
      /\ MaxPins \in Nat \ {0} /\ NoSession \in [ver : Int, seal : Nat, legacy : BOOLEAN]
  BY AccountAssumption DEF AccountInv, AccountTypes, ServiceTypes, ComputerTypes, NoSession
<1>a. FilesOf(c) /\ SessionOf(c) /\ MovedFor(c)
  BY DEF AccountInv, SessionsHold
<1>b. c \in SomeKeys /\ NoKeys \in SomeKeys /\ c # NoKeys
  BY AccountAssumption DEF SomeKeys
<1>1. UNCHANGED <<codes, otp, attempts, pin, stored_keys, sealed_keys, missed>>
  BY DEF GetKeys, Adopt, PushKeys, Synced, Connect, SessionChecked, SignOut, ClearsKey, SessionExpires, tableVars, otpVars, seenVars
<1>2. OthersSame(c)
  BY <1>0 DEF GetKeys, Adopt, PushKeys, Synced, Connect, SessionChecked, SignOut, ClearsKey, SessionExpires, ClearToken, InHand,
              Goes, GoesOnTo, Ends, OthersSame, fileVars, stepVars
<1>3. step' \in [Computer -> Stages]
  BY <1>0 DEF GetKeys, Adopt, PushKeys, Synced, Connect, SessionChecked, SignOut, ClearsKey, SessionExpires, stepVars,
              Goes, GoesOnTo, Ends, Stages, Signing
<1>4. fresh' \in [Computer -> [ver : Int, seal : Nat, legacy : BOOLEAN]]
  <2>1. [ver |-> token[c], seal |-> sealKey[c], legacy |-> FALSE] \in [ver : Int, seal : Nat, legacy : BOOLEAN]
    BY <1>0, SessionTyped
  <2>. QED  BY <1>0, <2>1 DEF GetKeys, Adopt, PushKeys, Synced, Connect, SessionChecked, SignOut, ClearsKey, SessionExpires, stepVars,
                 GoesOnTo, Ends, InHand
<1>5. got' \in [Computer -> SomeKeys]
  BY <1>0, <1>b DEF GetKeys, Adopt, PushKeys, Synced, Connect, SessionChecked, SignOut, ClearsKey, SessionExpires, stepVars
<1>6. keys' \in [Computer -> SomeKeys]
  <2>1. CASE Adopt(c)
    BY <1>0, <2>1 DEF Adopt
  <2>2. CASE ~Adopt(c)
    BY <1>0, <1>b, <2>2 DEF GetKeys, PushKeys, Synced, Connect, SessionChecked, SignOut, ClearsKey, SessionExpires, fileVars
  <2>. QED  BY <2>1, <2>2
<1>7. token' \in [Computer -> Int] /\ sealKey' \in [Computer -> Nat] /\ signed' \in [Computer -> Int]
      /\ checking' \in [Computer -> Int]
  BY <1>0 DEF GetKeys, Adopt, PushKeys, Synced, Connect, SessionChecked, SignOut, ClearsKey, SessionExpires, ClearToken, Expired, fileVars, seenVars
<1>8. quiet' \in [Computer -> BOOLEAN]
  BY <1>0 DEF GetKeys, Adopt, PushKeys, Synced, Connect, SessionChecked, SignOut, ClearsKey, SessionExpires, seenVars
<1>9. pending' \in [Computer -> 0..MaxPins + 1]
  BY <1>0 DEF GetKeys, Adopt, PushKeys, Synced, Connect, SessionChecked, SignOut, ClearsKey, SessionExpires, stepVars
<1>10. AccountTypes'
  <2>. AccountTypes
    BY DEF AccountInv
  <2>1. clearing' \subseteq Computer
    <3>1. clearing' \in {clearing, clearing \cup {c}, clearing \ {c}}
      BY DEF GetKeys, Adopt, PushKeys, Synced, Connect, SessionChecked, SignOut, ClearsKey, SessionExpires, ClearToken, seenVars
    <3>. QED  BY <3>1 DEF AccountTypes, ComputerTypes
  <2>. QED  BY <2>1, <1>1, <1>3, <1>4, <1>5, <1>6, <1>7, <1>8, <1>9 DEF AccountTypes, ServiceTypes, ComputerTypes
<1>11. /\ step'[c] \in {"setup", "reset"} => step'[c] = step[c] /\ fresh'[c] = fresh[c]
       /\ FilesOf(c)' /\ SessionOf(c)' /\ MovedFor(c)'
  <2>. USE DEF FilesOf, SessionOf, MovedFor, LetIn, NothingLeft, TokenAccepted, Signing
  <2>1. CASE GetKeys(c)
    BY <1>0, <1>a, <1>1, <2>1 DEF GetKeys, InHand, IsAt, Goes, Ends, fileVars
  <2>2. CASE Adopt(c)
    BY <1>0, <1>a, <1>1, <2>2 DEF Adopt, IsAt, Goes
  <2>3. CASE PushKeys(c) \/ Synced(c)
    BY <1>0, <1>a, <1>1, <2>3 DEF PushKeys, Synced, IsAt, Goes, GoesOnTo, Ends, fileVars
  <2>4. CASE Connect(c)
    BY <1>0, <1>a, <1>b, <1>1, <2>4 DEF Connect, InHand, IsAt, Goes, Ends
  <2>5. CASE SessionChecked(c) \/ SignOut(c)
    BY <1>0, <1>a, <1>1, <2>5 DEF SessionChecked, SignOut, ClearToken, IsAt, stepVars
  <2>6. CASE ClearsKey(c) \/ SessionExpires(c)
    BY <1>0, <1>a, <1>1, <2>6 DEF ClearsKey, SessionExpires, Expired, IsAt, stepVars
  <2>. QED  BY <2>1, <2>2, <2>3, <2>4, <2>5, <2>6
<1>12. OneVersion' /\ SessionsHold'
  BY <1>1, <1>2, <1>10, <1>11, OneComputer DEF AccountTypes, NothingLeft
<1>. QED  BY <1>1, <1>10, <1>12 DEF AccountInv, CodesCount, SealedWith

\* What an action's proof needs of the types, of the computer c.
LEMMA AccountTyped ==
    ASSUME AccountInv, NEW c \in Computer
    PROVE  /\ pin \in [ver : 0..MaxPins, seal : 0..MaxPins, failures : Nat, locked : BOOLEAN]
           /\ pin.ver = pin.seal /\ pin.seal \in Nat
           /\ step \in [Computer -> Stages] /\ fresh \in [Computer -> [ver : Int, seal : Nat, legacy : BOOLEAN]]
           /\ token \in [Computer -> Int] /\ sealKey \in [Computer -> Nat] /\ keys \in [Computer -> SomeKeys]
           /\ pending \in [Computer -> 0..MaxPins + 1] /\ quiet \in [Computer -> BOOLEAN]
           /\ FilesOf(c) /\ SessionOf(c) /\ MovedFor(c)
           /\ MaxPins \in Nat \ {0} /\ NoSession \in [ver : Int, seal : Nat, legacy : BOOLEAN]
           /\ c \in SomeKeys /\ {NoKeys, OldKeys} \subseteq SomeKeys /\ NoKeys \notin {c, OldKeys}
BY AccountAssumption DEF AccountInv, AccountTypes, ServiceTypes, ComputerTypes, SessionsHold, NoSession,
                         OneVersion, SomeKeys

LEMMA SignInKeeps ==
    ASSUME AccountInv, NEW c \in Computer, NEW typed \in BOOLEAN, SignInPin(c, typed)
    PROVE  AccountInv'
<1>0. /\ pin \in [ver : 0..MaxPins, seal : 0..MaxPins, failures : Nat, locked : BOOLEAN]
      /\ step \in [Computer -> Stages] /\ fresh \in [Computer -> [ver : Int, seal : Nat, legacy : BOOLEAN]]
      /\ pending \in [Computer -> 0..MaxPins + 1]
      /\ pin.ver = pin.seal /\ pin.seal \in Nat /\ FilesOf(c) /\ SessionOf(c) /\ MovedFor(c)
      /\ MaxPins \in Nat \ {0} /\ 0 < pin.ver /\ step[c] = "idle"
  BY AccountTyped DEF SignInPin, IsAt
<1>1. /\ UNCHANGED <<codes, otp, attempts, stored_keys, sealed_keys, got, keys, token, sealKey, checking, clearing, signed, quiet>>
      /\ OthersSame(c) /\ pin'.ver = pin.ver /\ pin'.seal = pin.seal
  BY <1>0 DEF SignInPin, Session, Goes, OthersSame, otpVars, tableVars, fileVars
<1>2. pin' \in [ver : 0..MaxPins, seal : 0..MaxPins, failures : Nat, locked : BOOLEAN]
  <2>1. ((pin.failures + 1) % PinTries = 0) \in BOOLEAN
    OBVIOUS
  <2>2. \/ pin' = [pin EXCEPT !.failures = 0, !.locked = FALSE]
        \/ pin' = [pin EXCEPT !.failures = pin.failures + 1, !.locked = ((pin.failures + 1) % PinTries = 0)]
    BY DEF SignInPin
  <2>3. pin.failures + 1 \in Nat
    BY <1>0
  <2>4. \E b \in BOOLEAN, n \in Nat : pin' = [pin EXCEPT !.failures = n, !.locked = b]
    <3>1. CASE pin' = [pin EXCEPT !.failures = 0, !.locked = FALSE]
      BY <3>1
    <3>2. CASE pin' = [pin EXCEPT !.failures = pin.failures + 1, !.locked = ((pin.failures + 1) % PinTries = 0)]
      BY Zenon, <2>1, <2>3, <3>2
    <3>. QED  BY <2>2, <3>1, <3>2
  <2>. QED  BY <1>0, <2>4
<1>3. \/ /\ step'[c] = "finish" /\ missed' = missed \ {c} /\ step' = [step EXCEPT ![c] = "finish"]
         /\ pending' = [pending EXCEPT ![c] = 0]
         /\ fresh' = [fresh EXCEPT ![c] = [ver |-> pin.ver, seal |-> pin.seal, legacy |-> Legacy]]
      \/ UNCHANGED <<step, pending, fresh, missed>>
  BY <1>0 DEF SignInPin, Session, Goes
<1>4. fresh' \in [Computer -> [ver : Int, seal : Nat, legacy : BOOLEAN]]
  <2>1. [ver |-> pin.ver, seal |-> pin.seal, legacy |-> Legacy] \in [ver : Int, seal : Nat, legacy : BOOLEAN]
    BY <1>0, SessionTyped DEF Legacy
  <2>. QED  BY <1>0, <1>3, <2>1
<1>5. AccountTypes'
  <2>. AccountTypes
    BY DEF AccountInv
  <2>1. step' \in [Computer -> Stages]
    BY <1>0, <1>3 DEF Stages, Signing
  <2>2. pending' \in [Computer -> 0..MaxPins + 1]
    BY <1>0, <1>3
  <2>3. missed' \subseteq Computer
    BY <1>3 DEF AccountTypes, ComputerTypes
  <2>. QED  BY <1>1, <1>2, <1>4, <2>1, <2>2, <2>3 DEF AccountTypes, ServiceTypes, ComputerTypes
<1>6. /\ step'[c] \in {"setup", "reset"} => step'[c] = step[c] /\ fresh'[c] = fresh[c]
      /\ FilesOf(c)' /\ SessionOf(c)' /\ MovedFor(c)'
  <2>1. CASE UNCHANGED <<step, pending, fresh, missed>>
    BY <1>0, <1>1, <2>1 DEF FilesOf, SessionOf, MovedFor, LetIn, Signing
  <2>2. CASE step'[c] = "finish" /\ fresh' = [fresh EXCEPT ![c] = [ver |-> pin.ver, seal |-> pin.seal, legacy |-> Legacy]]
    <3>1. fresh'[c].ver = pin.ver /\ fresh'[c].seal = pin.seal /\ (fresh'[c].legacy <=> Legacy)
      BY <1>0, <2>2 DEF Legacy
    <3>2. token[c] \in Int /\ sealKey[c] \in Int
      BY AccountTyped
    <3>. QED  BY <1>0, <1>1, <2>2, <3>1, <3>2 DEF FilesOf, SessionOf, MovedFor, LetIn, NothingLeft, Signing, Legacy
  <2>. QED  BY <1>3, <2>1, <2>2
<1>7. \A d \in Computer \ {c} : LetIn(d) /\ NothingLeft(d) => NothingLeft(d)'
  BY <1>1, <1>3 DEF NothingLeft
<1>8. OneVersion' /\ SessionsHold'
  BY <1>1, <1>5, <1>6, <1>7, OneComputer DEF AccountTypes
<1>. QED  BY <1>1, <1>5, <1>8 DEF AccountInv, CodesCount, SealedWith

LEMMA UnlockKeeps ==
    ASSUME AccountInv, Unlock
    PROVE  AccountInv'
<1>1. /\ UNCHANGED <<codes, otp, attempts, stored_keys, sealed_keys, got, keys, token, sealKey, checking, signed, quiet,
                     step, fresh, pending, clearing, missed>>
      /\ pin' = [pin EXCEPT !.locked = FALSE]
  BY DEF Unlock, otpVars, tableVars, stepVars, fileVars, seenVars
<1>2. pin \in [ver : 0..MaxPins, seal : 0..MaxPins, failures : Nat, locked : BOOLEAN]
  BY DEF AccountInv, AccountTypes, ServiceTypes
<1>3. /\ pin' \in [ver : 0..MaxPins, seal : 0..MaxPins, failures : Nat, locked : BOOLEAN]
      /\ pin'.ver = pin.ver /\ pin'.seal = pin.seal
  BY <1>1, <1>2
<1>. QED  BY <1>1, <1>3 DEF AccountInv, AccountTypes, ServiceTypes, ComputerTypes, OneVersion, CodesCount, SealedWith,
               SessionsHold, FilesOf, SessionOf, MovedFor, LetIn, NothingLeft, TokenAccepted

LEMMA LooksKeep ==
    ASSUME ~Overlap, AccountInv, NEW c \in Computer, SetupLook(c) \/ ResetLook(c)
    PROVE  AccountInv'
<1>0. /\ pin \in [ver : 0..MaxPins, seal : 0..MaxPins, failures : Nat, locked : BOOLEAN]
      /\ step \in [Computer -> Stages] /\ fresh \in [Computer -> [ver : Int, seal : Nat, legacy : BOOLEAN]]
      /\ pin.ver = pin.seal /\ pin.seal \in Nat /\ FilesOf(c) /\ SessionOf(c) /\ MovedFor(c)
      /\ MaxPins \in Nat \ {0} /\ step[c] = "idle"
      /\ \A d \in Computer : step[d] \notin {"setup", "reset"}
  BY AccountTyped DEF SetupLook, ResetLook, ForgotPin, IsAt, Choosing
<1>1. /\ UNCHANGED <<codes, otp, attempts, pin, stored_keys, sealed_keys, got, keys, token, sealKey, checking, signed,
                     quiet, pending, clearing, missed>>
      /\ OthersSame(c)
  BY <1>0 DEF SetupLook, ResetLook, Goes, OthersSame, otpVars, tableVars, fileVars, seenVars
<1>2. step' \in [Computer -> Stages]
  BY <1>0 DEF SetupLook, ResetLook, Goes, Stages
<1>3. fresh' \in [Computer -> [ver : Int, seal : Nat, legacy : BOOLEAN]]
  <2>1. pin.ver + 1 \in Int
    BY <1>0
  <2>. QED  BY <1>0, <2>1 DEF SetupLook, ResetLook
<1>4. AccountTypes'
  BY <1>1, <1>2, <1>3 DEF AccountInv, AccountTypes, ServiceTypes, ComputerTypes
<1>5. \/ step'[c] = "setup" /\ pin.ver = 0
      \/ step'[c] = "reset" /\ fresh'[c].ver = pin.ver + 1 /\ pin.seal < MaxPins
  BY <1>0 DEF SetupLook, ResetLook, Goes
<1>6. FilesOf(c)' /\ SessionOf(c)' /\ MovedFor(c)'
  BY <1>0, <1>1, <1>5 DEF FilesOf, SessionOf, MovedFor, LetIn, Signing
<1>7. SessionsHold'
  <2>1. \A d \in Computer \ {c} : FilesOf(d)' /\ SessionOf(d)' /\ MovedFor(d)'
    <3>1. pin.ver <= pin'.ver /\ pin.seal <= pin'.seal
      BY <1>0, <1>1
    <3>2. \A d \in Computer \ {c} : LetIn(d) /\ NothingLeft(d) => NothingLeft(d)'
      BY <1>1 DEF NothingLeft
    <3>. QED  BY <1>1, <1>4, <3>1, <3>2, OthersKeep DEF AccountTypes
  <2>. QED  BY <1>6, <2>1 DEF SessionsHold
<1>8. OneVersion'
  BY <1>0, <1>1, <1>5 DEF OneVersion, OthersSame
<1>. QED  BY <1>1, <1>4, <1>7, <1>8 DEF AccountInv, CodesCount, SealedWith

LEMMA PutsKeep ==
    ASSUME AccountInv, NEW c \in Computer, SetupPut(c) \/ ResetPut(c)
    PROVE  AccountInv'
<1>0. /\ pin \in [ver : 0..MaxPins, seal : 0..MaxPins, failures : Nat, locked : BOOLEAN]
      /\ step \in [Computer -> Stages] /\ fresh \in [Computer -> [ver : Int, seal : Nat, legacy : BOOLEAN]]
      /\ pending \in [Computer -> 0..MaxPins + 1] /\ quiet \in [Computer -> BOOLEAN]
      /\ pin.ver = pin.seal /\ pin.seal \in Nat /\ FilesOf(c) /\ SessionOf(c) /\ MovedFor(c)
      /\ MaxPins \in Nat \ {0} /\ NoSession \in [ver : Int, seal : Nat, legacy : BOOLEAN]
      /\ token[c] \in Int /\ sealKey[c] \in Int
  BY AccountTyped
<1>1. step[c] \in {"setup", "reset"} /\ \A d \in Computer \ {c} : step[d] \notin {"setup", "reset"}
  BY DEF AccountInv, OneVersion, SetupPut, ResetPut, IsAt
<1>2. pin' = [NoPin EXCEPT !.ver = pin.ver + 1, !.seal = pin.seal + 1] /\ pin.seal < MaxPins
  <2>1. CASE SetupPut(c)
    <3>1. pin.ver = 0
      BY <2>1 DEF SetupPut, IsAt, AccountInv, OneVersion
    <3>2. pin' = [NoPin EXCEPT !.ver = 1, !.seal = pin.seal + 1]
      BY <2>1 DEF SetupPut
    <3>3. pin.ver + 1 = 1 /\ pin.seal < MaxPins
      BY <1>0, <3>1
    <3>. QED  BY <3>2, <3>3
  <2>2. CASE ResetPut(c)
    BY <1>0, <2>2 DEF ResetPut, NewVersion, IsAt, AccountInv, OneVersion
  <2>. QED  BY <2>1, <2>2
<1>3. /\ pin'.ver = pin.ver + 1 /\ pin'.seal = pin.seal + 1
      /\ pin' \in [ver : 0..MaxPins, seal : 0..MaxPins, failures : Nat, locked : BOOLEAN]
  <2>1. pin.ver + 1 \in 0..MaxPins /\ pin.seal + 1 \in 0..MaxPins
    BY <1>0, <1>2
  <2>2. pin' = [ver |-> pin.ver + 1, seal |-> pin.seal + 1, failures |-> 0, locked |-> FALSE]
    BY <1>2 DEF NoPin
  <2>. QED  BY <2>1, <2>2
<1>4. /\ UNCHANGED <<codes, otp, attempts, stored_keys, sealed_keys, got, keys, token, sealKey, checking, clearing, signed>>
      /\ OthersSame(c) /\ missed' \in {missed, missed \ {c}}
  BY <1>0 DEF SetupPut, ResetPut, Session, Goes, Ends, OthersSame, otpVars, tableVars, fileVars
<1>5. \/ step' = [step EXCEPT ![c] = "idle"] /\ fresh' \in {fresh, [fresh EXCEPT ![c] = NoSession]}
      \/ /\ \/ step' = [step EXCEPT ![c] = "finish"]
               /\ fresh' = [fresh EXCEPT ![c] = [ver |-> pin'.ver, seal |-> pin'.seal, legacy |-> Legacy]]
            \/ step' = [step EXCEPT ![c] = "wipe"]
               /\ fresh' = [fresh EXCEPT ![c] = [ver |-> pin'.ver, seal |-> pin'.seal, legacy |-> FALSE]]
  <2>1. CASE SetupPut(c)
    <3>1. pin.ver = 0
      BY <2>1 DEF SetupPut, IsAt, AccountInv, OneVersion
    <3>2. pin'.ver = 1
      BY <1>3, <3>1
    <3>. QED  BY <2>1, <3>2 DEF SetupPut, Session, Goes
  <2>2. CASE ResetPut(c)
    <3>1. NewVersion(c) = pin'.ver
      BY <1>3, <2>2 DEF ResetPut, NewVersion, IsAt, AccountInv, OneVersion
    <3>. QED  BY <2>2, <3>1 DEF ResetPut, Goes, Ends
  <2>. QED  BY <2>1, <2>2
<1>6. pin'.ver \in Int /\ pin'.seal \in Nat /\ Legacy \in BOOLEAN
  BY <1>0, <1>3 DEF Legacy
<1>7. fresh' \in [Computer -> [ver : Int, seal : Nat, legacy : BOOLEAN]]
  <2>1. [ver |-> pin'.ver, seal |-> pin'.seal, legacy |-> Legacy] \in [ver : Int, seal : Nat, legacy : BOOLEAN]
    BY <1>6, SessionTyped
  <2>2. [ver |-> pin'.ver, seal |-> pin'.seal, legacy |-> FALSE] \in [ver : Int, seal : Nat, legacy : BOOLEAN]
    BY <1>6, SessionTyped
  <2>. QED  BY <1>0, <1>5, <2>1, <2>2
<1>8. AccountTypes'
  <2>. AccountTypes
    BY DEF AccountInv
  <2>1. step' \in [Computer -> Stages]
    BY <1>0, <1>5 DEF Stages, Signing
  <2>2. pending' \in [Computer -> 0..MaxPins + 1]
    BY <1>0 DEF SetupPut, ResetPut, Session
  <2>3. missed' \subseteq Computer
    BY <1>4 DEF AccountTypes, ComputerTypes
  <2>4. quiet' \in [Computer -> BOOLEAN]
    BY <1>0 DEF SetupPut, ResetPut, Disturbs
  <2>. QED  BY <1>3, <1>4, <1>7, <2>1, <2>2, <2>3, <2>4 DEF AccountTypes, ServiceTypes, ComputerTypes
<1>9. step'[c] \notin {"setup", "reset"} /\ FilesOf(c)' /\ SessionOf(c)' /\ MovedFor(c)'
  <2>1. \/ step'[c] = "idle"
        \/ /\ fresh'[c].ver = pin'.ver /\ fresh'[c].seal = pin'.seal
           /\ \/ step'[c] = "finish" /\ (fresh'[c].legacy <=> Legacy)
              \/ step'[c] = "wipe" /\ ~fresh'[c].legacy
    BY <1>0, <1>5, <1>6
  <2>2. FilesOf(c)'
    BY <1>0, <1>3, <1>4 DEF FilesOf
  <2>3. SessionOf(c)'
    BY <1>0, <1>3, <1>4, <2>1 DEF SessionOf, FilesOf, Signing
  <2>4. MovedFor(c)'
    BY <1>4, <2>1 DEF MovedFor, LetIn, NothingLeft, Legacy
  <2>. QED  BY <2>1, <2>2, <2>3, <2>4
<1>10. SessionsHold'
  <2>1. \A d \in Computer \ {c} : FilesOf(d)' /\ SessionOf(d)' /\ MovedFor(d)'
    <3>1. pin.ver <= pin'.ver /\ pin.seal <= pin'.seal /\ pin.ver # pin'.ver
      BY <1>0, <1>3
    <3>. QED  BY <1>4, <1>8, <3>1, OthersKeep DEF AccountTypes
  <2>. QED  BY <1>9, <2>1 DEF SessionsHold
<1>11. OneVersion'
  BY <1>0, <1>1, <1>3, <1>4, <1>9 DEF OneVersion, OthersSame
<1>. QED  BY <1>4, <1>8, <1>10, <1>11 DEF AccountInv, CodesCount, SealedWith

LEMMA TablesKeep ==
    ASSUME AccountInv, NEW c \in Computer, ResetWipe(c) \/ MovePut(c) \/ PutKeys(c)
    PROVE  AccountInv'
<1>0. /\ pin \in [ver : 0..MaxPins, seal : 0..MaxPins, failures : Nat, locked : BOOLEAN]
      /\ step \in [Computer -> Stages] /\ fresh \in [Computer -> [ver : Int, seal : Nat, legacy : BOOLEAN]]
      /\ keys \in [Computer -> SomeKeys] /\ quiet \in [Computer -> BOOLEAN]
      /\ FilesOf(c) /\ SessionOf(c) /\ MovedFor(c)
      /\ NoSession \in [ver : Int, seal : Nat, legacy : BOOLEAN]
      /\ {NoKeys, OldKeys} \subseteq SomeKeys /\ NoKeys # OldKeys
  BY AccountTyped
<1>1. /\ UNCHANGED <<codes, otp, attempts, pin, pending, got, keys, token, sealKey, checking, clearing, signed>>
      /\ OthersSame(c)
  BY <1>0 DEF ResetWipe, MovePut, PutKeys, Sealing, Goes, GoesOnTo, Ends, OthersSame, otpVars, fileVars
<1>2. step' \in [Computer -> Stages] /\ step'[c] \notin {"setup", "reset"}
  BY <1>0 DEF ResetWipe, MovePut, PutKeys, Sealing, Goes, GoesOnTo, Ends, Stages, Signing
<1>3. fresh' \in [Computer -> [ver : Int, seal : Nat, legacy : BOOLEAN]]
  BY <1>0 DEF ResetWipe, MovePut, PutKeys, Sealing, GoesOnTo, Ends
<1>4. quiet' \in [Computer -> BOOLEAN]
  BY <1>0 DEF ResetWipe, MovePut, PutKeys, Sealing, Disturbs
<1>5. CASE ResetWipe(c)
  <2>1. sealed_keys' = NoSealed /\ stored_keys' \in {stored_keys, NoKeys}
        /\ missed' \in {missed, missed \cup {d \in Computer : LetIn(d)}}
    BY <1>5 DEF ResetWipe
  <2>2. AccountTypes'
    <3>. AccountTypes
      BY DEF AccountInv
    <3>1. NoSealed \in [keys : SomeKeys, seal : Nat]
      BY <1>0 DEF NoSealed
    <3>2. missed' \subseteq Computer
      BY <2>1 DEF AccountTypes, ComputerTypes
    <3>. QED  BY <1>1, <1>2, <1>3, <1>4, <2>1, <3>1, <3>2 DEF AccountTypes, ServiceTypes, ComputerTypes
  <2>3. FilesOf(c)' /\ SessionOf(c)' /\ MovedFor(c)'
    <3>1. /\ step[c] = "wipe"
          /\ \/ step'[c] = "finish" /\ fresh'[c] = fresh[c] /\ stored_keys' = NoKeys
             \/ step'[c] = "idle"
      BY <1>0, <1>5 DEF ResetWipe, IsAt, Goes, GoesOnTo, Ends
    <3>. QED  BY <1>0, <1>1, <3>1 DEF FilesOf, SessionOf, MovedFor, LetIn, NothingLeft, Signing
  <2>4. \A d \in Computer \ {c} : LetIn(d) /\ NothingLeft(d) => NothingLeft(d)'
    BY <1>5 DEF ResetWipe, NothingLeft
  <2>5. OneVersion' /\ SessionsHold'
    BY <1>1, <1>2, <2>2, <2>3, <2>4, OneComputer DEF AccountTypes
  <2>6. SealedWith'
    BY <2>1 DEF SealedWith, NoSealed
  <2>. QED  BY <1>1, <2>2, <2>5, <2>6 DEF AccountInv, CodesCount
<1>6. CASE MovePut(c) \/ PutKeys(c)
  <2>1. PICK k \in SomeKeys : sealed_keys' = [keys |-> k, seal |-> fresh[c].seal] /\ k # NoKeys
    <3>1. CASE MovePut(c)
      BY <1>0, <3>1 DEF MovePut, Sealing
    <3>2. CASE PutKeys(c)
      <4>1. keys[c] \in SomeKeys /\ keys[c] # NoKeys
        BY <1>0, <3>2 DEF PutKeys, IsAt, SessionOf
      <4>. QED  BY <3>2, <4>1 DEF PutKeys, Sealing
    <3>. QED  BY <1>6, <3>1, <3>2
  <2>2. fresh[c].seal \in Nat /\ fresh[c].seal > 0
    BY <1>0, <1>6 DEF MovePut, PutKeys, IsAt, SessionOf, Signing
  <2>3. sealed_keys'.keys # NoKeys /\ sealed_keys'.seal > 0 /\ sealed_keys' \in [keys : SomeKeys, seal : Nat]
    BY <2>1, <2>2
  <2>4. stored_keys' \in {stored_keys, NoKeys} /\ missed' = missed
    BY <1>6 DEF MovePut, PutKeys, Sealing
  <2>5. AccountTypes'
    BY <1>1, <1>2, <1>3, <1>4, <2>3, <2>4 DEF AccountInv, AccountTypes, ServiceTypes, ComputerTypes
  <2>6. FilesOf(c)' /\ SessionOf(c)' /\ MovedFor(c)'
    <3>1. (step[c] = "move" /\ step'[c] = "save" /\ fresh'[c] = fresh[c]) \/ step'[c] \in {"synced", "idle"}
      BY <1>0, <1>6 DEF MovePut, PutKeys, Sealing, IsAt, Goes, GoesOnTo, Ends
    <3>. QED  BY <1>0, <1>1, <2>3, <3>1 DEF FilesOf, SessionOf, MovedFor, LetIn, NothingLeft, Signing
  <2>7. OneVersion' /\ SessionsHold'
    BY <1>1, <1>2, <2>3, <2>5, <2>6, OneComputer DEF AccountTypes, NothingLeft
  <2>8. SealedWith'
    BY <2>3 DEF SealedWith
  <2>. QED  BY <1>1, <2>5, <2>7, <2>8 DEF AccountInv, CodesCount
<1>. QED  BY <1>5, <1>6

LEMMA AccountHolds ==
    ASSUME ~Overlap
    PROVE  AccountInv /\ [AccountNext]_accountVars => AccountInv'
<1>. SUFFICES ASSUME AccountInv, [AccountNext]_accountVars  PROVE AccountInv'
  OBVIOUS
<1>1. ASSUME NEW c \in Computer, AccountOf(c)  PROVE AccountInv'
  <2>1. CASE AskCode(c) \/ (\E n \in 1..MaxCodes : EnterCode(c, n)) \/ ChallengeEnds(c) \/ CheckSession(c)
    BY <2>1, CodesKeep
  <2>2. ASSUME NEW typed \in BOOLEAN, SignInPin(c, typed)  PROVE AccountInv'
    BY <2>2, SignInKeeps
  <2>3. CASE SetupLook(c) \/ ResetLook(c)
    BY <2>3, LooksKeep
  <2>4. CASE SetupPut(c) \/ ResetPut(c)
    BY <2>4, PutsKeep
  <2>5. CASE ResetWipe(c) \/ MovePut(c) \/ PutKeys(c)
    BY <2>5, TablesKeep
  <2>6. CASE LetInToMove(c) \/ SaveSealKey(c) \/ SaveToken(c)
    BY <2>6, FinishKeeps
  <2>7. CASE \/ GetKeys(c) \/ Adopt(c) \/ PushKeys(c) \/ Synced(c) \/ Connect(c)
             \/ SessionChecked(c) \/ SignOut(c) \/ ClearsKey(c) \/ SessionExpires(c)
    BY <2>7, SyncKeeps
  <2>. QED  BY <1>1, <2>1, <2>2, <2>3, <2>4, <2>5, <2>6, <2>7 DEF AccountOf
<1>2. CASE Unlock
  BY <1>2, UnlockKeeps
<1>3. CASE UNCHANGED accountVars
  <2>1. UNCHANGED <<codes, otp, attempts, pin, stored_keys, sealed_keys, pending, step, fresh, got, keys, token,
                    sealKey, checking, clearing, signed, quiet, missed>>
    BY <1>3 DEF accountVars, otpVars, tableVars, stepVars, fileVars, seenVars
  <2>2. OneVersion' /\ SealedWith' /\ SessionsHold'
    BY <2>1, SessionsApart
  <2>. QED  BY <2>1, <2>2 DEF AccountInv, AccountTypes, ServiceTypes, ComputerTypes, CodesCount
<1>. QED  BY <1>1, <1>2, <1>3 DEF AccountNext

\* Every variable of the account has its type, and as long as no two computers
\* set the PIN at one time its version is the number of times it was set.
THEOREM AccountKeepsTypes ==
    ASSUME ~Overlap
    PROVE  AccountSpec => []AccountTypeOK
<1>1. AccountInv => AccountTypeOK
  <2>. SUFFICES ASSUME AccountInv  PROVE AccountTypeOK
    OBVIOUS
  <2>1. ServiceTypes /\ OneVersion /\ SealedWith /\ clearing \subseteq Computer
    BY DEF AccountInv, AccountTypes, ComputerTypes
  <2>2. sealed_keys.keys \in {NoKeys, OldKeys} \cup Computer
    BY <2>1 DEF ServiceTypes, SomeKeys
  <2>3. pin.seal \in 0..MaxPins /\ pin.ver <= pin.seal
    BY <2>1, AccountAssumption DEF ServiceTypes, OneVersion
  <2>4. (sealed_keys.keys = NoKeys) = (sealed_keys.seal = 0)
    BY <2>1 DEF SealedWith
  <2>. QED  BY <2>1, <2>2, <2>3, <2>4 DEF AccountTypeOK, ServiceTypes
<1>. QED  BY <1>1, AccountStarts, AccountHolds, PTL DEF AccountSpec

\* Nobody is signed in while the service can read the account's only copy of its
\* keys, but who was let in just before a reset was cut off in its wipe
\* (addLegacyKeys, finishSignIn, handlePutKeys, handlePinReset).
THEOREM OldKeysMoveFirst ==
    ASSUME ~Overlap
    PROVE  AccountSpec => []OldKeysMoved
<1>1. AccountInv => OldKeysMoved
  BY DEF AccountInv, SessionsHold, MovedFor, NothingLeft, OldKeysMoved
<1>. QED  BY <1>1, AccountStarts, AccountHolds, PTL DEF AccountSpec

(***************************************************************************)
(* When no sign-in ends while a session is being checked, what a check was *)
(* begun with is what the computer still has when it is answered, and what *)
(* a sync has in hand is what its files say; and the seal key saved before *)
(* the token is still there when the token is, of the same version.  A     *)
(* sync no other request came into has then found, or put, keys the PIN    *)
(* opens.                                                                  *)
(***************************************************************************)
OpenKept == sealed_keys.keys # NoKeys /\ sealed_keys.seal = pin.seal
SyncOf(c) ==
    /\ token[c] > 0 => token[c] <= sealKey[c]
    /\ step[c] = "token" => fresh[c].seal <= sealKey[c]
    /\ c \in clearing => token[c] = 0 /\ checking[c] = 0 /\ step[c] = "idle"
    /\ checking[c] # 0 => checking[c] = token[c] /\ step[c] = "idle"
    /\ step[c] \in {"adopt", "push", "put", "synced"} => fresh[c].ver = token[c] /\ fresh[c].seal = sealKey[c]
    /\ step[c] = "adopt" /\ quiet[c] /\ TokenAccepted(token[c]) /\ got[c] # NoKeys => OpenKept
    /\ step[c] = "synced" /\ quiet[c] /\ TokenAccepted(token[c]) /\ keys[c] # NoKeys => OpenKept
SignedOf(c) ==
    /\ signed[c] <= pin.ver
    /\ signed[c] # 0 /\ signed[c] = pin.ver => token[c] = signed[c]
SyncsHold == \A c \in Computer : SyncOf(c) /\ SignedOf(c)

LEMMA SyncsStart == AccountInit => SyncsHold
BY DEF AccountInit, SyncsHold, SyncOf, SignedOf, NoPin, BeforePins

\* A step of one computer leaves another's sync as it is, or disturbs it.
Undisturbing(c) ==
    \A d \in Computer \ {c} :
        /\ checking'[d] = checking[d] /\ got'[d] = got[d] /\ signed'[d] = signed[d]
        /\ d \in clearing' <=> d \in clearing
        /\ quiet'[d] => quiet[d] /\ sealed_keys' = sealed_keys /\ pin'.seal = pin.seal /\ pin'.ver = pin.ver

LEMMA OthersSync ==
    ASSUME AccountInv, AccountInv', SyncsHold, NEW c \in Computer, OthersSame(c), Undisturbing(c),
           pin.ver <= pin'.ver, NEW d \in Computer \ {c}
    PROVE  SyncOf(d)' /\ SignedOf(d)'
<1>1. /\ step'[d] = step[d] /\ fresh'[d] = fresh[d] /\ keys'[d] = keys[d]
      /\ token'[d] = token[d] /\ sealKey'[d] = sealKey[d]
      /\ checking'[d] = checking[d] /\ got'[d] = got[d] /\ signed'[d] = signed[d]
      /\ d \in clearing' <=> d \in clearing
      /\ quiet'[d] => quiet[d] /\ sealed_keys' = sealed_keys /\ pin'.seal = pin.seal /\ pin'.ver = pin.ver
  BY DEF OthersSame, Undisturbing
<1>2. pin.ver \in Int /\ pin'.ver \in Int /\ signed[d] \in Int
  BY AccountAssumption DEF AccountInv, AccountTypes, ServiceTypes, ComputerTypes
<1>3. SyncOf(d) /\ SignedOf(d)
  BY DEF SyncsHold
<1>4. SyncOf(d)'
  BY <1>1, <1>3 DEF SyncOf, OpenKept, TokenAccepted
<1>5. SignedOf(d)'
  BY <1>1, <1>2, <1>3 DEF SignedOf
<1>. QED  BY <1>4, <1>5

LEMMA OwnSync ==
    ASSUME ~StaleCheck, AccountInv, AccountInv', SyncsHold, NEW c \in Computer, AccountOf(c)
    PROVE  SyncOf(c)' /\ SignedOf(c)'
<1>0. /\ step \in [Computer -> Stages] /\ fresh \in [Computer -> [ver : Int, seal : Nat, legacy : BOOLEAN]]
      /\ token \in [Computer -> Int] /\ sealKey \in [Computer -> Nat] /\ keys \in [Computer -> SomeKeys]
      /\ got \in [Computer -> SomeKeys] /\ checking \in [Computer -> Int] /\ signed \in [Computer -> Int]
      /\ quiet \in [Computer -> BOOLEAN] /\ pin.ver = pin.seal /\ pin.seal \in Nat
      /\ FilesOf(c) /\ SessionOf(c) /\ SyncOf(c) /\ SignedOf(c)
  BY AccountTyped DEF SyncsHold, AccountInv, AccountTypes, ComputerTypes
<1>. USE DEF SyncOf, SignedOf, OpenKept, TokenAccepted
<1>1. CASE AskCode(c) \/ (\E n \in 1..MaxCodes : EnterCode(c, n)) \/ ChallengeEnds(c)
  BY <1>0, <1>1 DEF AskCode, EnterCode, ChallengeEnds, stepVars, tableVars, fileVars, seenVars
<1>2. CASE CheckSession(c)
  BY <1>0, <1>2 DEF CheckSession, stepVars, tableVars, fileVars
<1>3. ASSUME NEW typed \in BOOLEAN, SignInPin(c, typed)  PROVE SyncOf(c)' /\ SignedOf(c)'
  <2>1. step[c] = "idle" /\ step'[c] \in {"idle", "finish"} /\ checking[c] = 0 /\ c \notin clearing
        /\ pin'.ver = pin.ver /\ UNCHANGED <<token, sealKey, signed, checking, clearing>>
    BY <1>0, <1>3 DEF SignInPin, Session, Goes, IsAt, fileVars, AccountInv, AccountTypes, ServiceTypes
  <2>. QED  BY <1>0, <2>1
<1>4. CASE SetupLook(c) \/ ResetLook(c)
  <2>1. checking[c] = 0 /\ c \notin clearing /\ step'[c] \in {"setup", "reset"}
        /\ UNCHANGED <<pin, token, sealKey, signed, checking, clearing>>
    BY <1>0, <1>4 DEF SetupLook, ResetLook, ForgotPin, Goes, IsAt, fileVars, seenVars
  <2>. QED  BY <1>0, <2>1
<1>5. CASE SetupPut(c) \/ ResetPut(c)
  <2>1. checking[c] = 0 /\ c \notin clearing /\ step'[c] \in {"idle", "finish", "wipe"}
        /\ UNCHANGED <<token, sealKey, signed, checking, clearing>>
    BY <1>0, <1>5 DEF SetupPut, ResetPut, Session, Goes, Ends, IsAt, fileVars
  <2>2. pin'.ver = pin.ver + 1
    <3>1. CASE SetupPut(c)
      <4>1. pin.ver = 0
        BY <3>1 DEF SetupPut, IsAt, AccountInv, OneVersion
      <4>. QED  BY <3>1, <4>1 DEF SetupPut, NoPin
    <3>2. CASE ResetPut(c)
      <4>1. NewVersion(c) = pin.ver + 1
        BY <3>2 DEF ResetPut, NewVersion, IsAt, AccountInv, OneVersion
      <4>. QED  BY <3>2, <4>1 DEF ResetPut, NoPin
    <3>. QED  BY <1>5, <3>1, <3>2
  <2>3. signed[c] < pin'.ver
    BY <1>0, <2>2
  <2>. QED  BY <1>0, <2>1, <2>2, <2>3
<1>6. CASE ResetWipe(c) \/ MovePut(c)
  <2>1. checking[c] = 0 /\ c \notin clearing /\ step'[c] \in {"idle", "finish", "save"}
        /\ UNCHANGED <<pin, token, sealKey, signed, checking, clearing>>
    BY <1>0, <1>6 DEF ResetWipe, MovePut, Sealing, Goes, GoesOnTo, Ends, IsAt, fileVars
  <2>. QED  BY <1>0, <2>1
<1>7. CASE LetInToMove(c)
  <2>1. checking[c] = 0 /\ c \notin clearing /\ step'[c] \in {"idle", "move"}
        /\ UNCHANGED <<pin, token, sealKey, signed, checking, clearing>>
    BY <1>0, <1>7 DEF LetInToMove, Goes, GoesOnTo, Ends, IsAt, fileVars, seenVars
  <2>. QED  BY <1>0, <2>1
<1>17. CASE SaveSealKey(c)
  <2>1. /\ checking[c] = 0 /\ c \notin clearing /\ step[c] \in {"save", "finish"}
        /\ UNCHANGED <<pin, token, signed, checking, clearing>>
        /\ step'[c] = "idle" \/ (step'[c] = "token" /\ fresh' = fresh)
        /\ sealKey'[c] = fresh[c].seal
    BY <1>0, <1>17 DEF SaveSealKey, FirstFile, Goes, GoesOnTo, Ends, IsAt, seenVars
  <2>2. fresh[c].ver = fresh[c].seal /\ token[c] <= fresh[c].ver /\ fresh[c].seal \in Int
    BY <1>0, <2>1 DEF SessionOf, Signing
  <2>. QED  BY <1>0, <2>1, <2>2
<1>8. CASE SaveToken(c)
  <2>1. /\ checking[c] = 0 /\ step'[c] = "sync" /\ UNCHANGED <<pin, checking>>
        /\ token'[c] = fresh[c].ver /\ signed'[c] = fresh[c].ver /\ fresh[c].ver <= pin.ver
        /\ UNCHANGED <<sealKey, clearing>> /\ c \notin clearing
        /\ fresh[c].ver = fresh[c].seal /\ fresh[c].seal <= sealKey[c]
    BY <1>0, <1>8 DEF SaveToken, Goes, IsAt, SessionOf, Signing
  <2>. QED  BY <1>0, <2>1
<1>9. CASE GetKeys(c)
  <2>1. /\ checking[c] = 0 /\ UNCHANGED <<pin, sealed_keys, token, sealKey, signed, checking, clearing>>
        /\ \/ step'[c] = "idle"
           \/ /\ TokenAccepted(token[c]) /\ step'[c] = "adopt"
              /\ fresh'[c].ver = token[c] /\ fresh'[c].seal = sealKey[c]
              /\ got'[c] = IF sealed_keys.seal = sealKey[c] THEN sealed_keys.keys ELSE NoKeys
    BY <1>0, <1>9 DEF GetKeys, Unreadable, InHand, Goes, Ends, IsAt, fileVars, tableVars
  <2>. QED  BY <1>0, <2>1 DEF FilesOf
<1>10. CASE Adopt(c)
  <2>1. /\ step[c] = "adopt" /\ checking[c] = 0
        /\ UNCHANGED <<pin, sealed_keys, token, sealKey, fresh, signed, checking, clearing, quiet>>
        /\ \/ step'[c] = "synced" /\ got[c] # NoKeys
           \/ step'[c] = "synced" /\ keys'[c] = NoKeys
           \/ step'[c] = "push"
    BY <1>0, <1>10 DEF Adopt, Goes, IsAt, tableVars, seenVars
  <2>. QED  BY <1>0, <2>1
<1>11. CASE PushKeys(c)
  <2>1. /\ step[c] = "push" /\ checking[c] = 0 /\ UNCHANGED <<pin, token, sealKey, signed, checking, clearing>>
        /\ step'[c] = "idle" \/ (step'[c] = "put" /\ fresh' = fresh)
    BY <1>0, <1>11 DEF PushKeys, Goes, GoesOnTo, Ends, IsAt, fileVars
  <2>. QED  BY <1>0, <2>1
<1>12. CASE PutKeys(c)
  <2>1. /\ step[c] = "put" /\ checking[c] = 0 /\ UNCHANGED <<pin, token, sealKey, keys, signed, checking, clearing>>
        /\ sealed_keys' = [keys |-> keys[c], seal |-> fresh[c].seal]
        /\ step'[c] = "idle" \/ (step'[c] = "synced" /\ fresh' = fresh)
    BY <1>0, <1>12 DEF PutKeys, Sealing, Goes, GoesOnTo, Ends, IsAt, fileVars
  <2>2. fresh[c].seal = sealKey[c]
    BY <1>0, <2>1
  <2>3. TokenAccepted(token[c]) => sealKey[c] = pin.seal
    <3>1. sealKey[c] \in Int /\ token[c] \in Int /\ pin.ver \in Int /\ pin.ver = pin.seal
      BY <1>0
    <3>2. token[c] > 0 => token[c] <= sealKey[c]
      BY <1>0
    <3>3. sealKey[c] <= pin.seal
      BY <1>0 DEF FilesOf
    <3>. QED  BY <3>1, <3>2, <3>3
  <2>4. step'[c] = "synced" => keys'[c] # NoKeys
    BY <1>0, <2>1 DEF SessionOf
  <2>. QED  BY <1>0, <2>1, <2>2, <2>3, <2>4
<1>13. CASE Synced(c)
  <2>1. checking[c] = 0 /\ step'[c] = "idle" /\ UNCHANGED <<pin, token, sealKey, signed, checking, clearing>>
    BY <1>0, <1>13 DEF Synced, Goes, Ends, IsAt, fileVars
  <2>. QED  BY <1>0, <2>1
<1>14. CASE Connect(c)
  <2>1. /\ checking[c] = 0 /\ c \notin clearing /\ UNCHANGED <<pin, token, sealKey, signed, checking, clearing>>
        /\ \/ step'[c] = "idle"
           \/ step'[c] = "push" /\ fresh'[c].ver = token[c] /\ fresh'[c].seal = sealKey[c]
    BY <1>0, <1>14 DEF Connect, InHand, Goes, Ends, IsAt, seenVars
  <2>. QED  BY <1>0, <2>1
<1>15. CASE SessionChecked(c)
  <2>1. /\ checking[c] = token[c] /\ step[c] = "idle" /\ checking'[c] = 0
        /\ UNCHANGED <<pin, step, sealKey, fresh, signed>>
    BY <1>0, <1>15 DEF SessionChecked, stepVars
  <2>2. CASE SignsOut(Verdict(c))
    <3>1. ~TokenAccepted(token[c])
      BY <2>1, <2>2 DEF SignsOut, Verdict
    <3>2. signed[c] # pin.ver \/ signed[c] = 0
      BY <1>0, <3>1
    <3>3. c \notin clearing' \/ (token'[c] = 0 /\ checking'[c] = 0 /\ step'[c] = "idle")
      BY <1>0, <1>15, <2>1 DEF SessionChecked, ClearToken
    <3>4. token'[c] \in {0, token[c]}
      BY <1>0, <1>15 DEF SessionChecked, ClearToken
    <3>. QED  BY <1>0, <2>1, <3>2, <3>3, <3>4
  <2>3. CASE ~SignsOut(Verdict(c))
    <3>1. UNCHANGED <<token, clearing>>
      BY <1>15, <2>3 DEF SessionChecked, SignsOut
    <3>. QED  BY <1>0, <2>1, <3>1
  <2>. QED  BY <2>2, <2>3
<1>16. CASE SignOut(c)
  <2>1. checking[c] = 0 /\ step'[c] = "idle" /\ signed'[c] = 0 /\ token'[c] = 0 /\ UNCHANGED <<pin, checking>>
    BY <1>0, <1>16 DEF SignOut, ClearToken, IsAt
  <2>. QED  BY <1>0, <2>1
<1>18. CASE ClearsKey(c)
  <2>1. /\ token[c] = 0 /\ checking[c] = 0 /\ step[c] = "idle" /\ c \notin clearing'
        /\ UNCHANGED <<pin, step, token, checking, signed>>
    BY <1>0, <1>18 DEF ClearsKey, stepVars
  <2>. QED  BY <1>0, <2>1
<1>19. CASE SessionExpires(c)
  <2>1. /\ checking[c] = 0 /\ step[c] = "idle" /\ c \notin clearing /\ signed'[c] = 0 /\ token'[c] = Expired
        /\ UNCHANGED <<pin, step, sealKey, checking, clearing>>
    BY <1>0, <1>19 DEF SessionExpires, IsAt, stepVars
  <2>. QED  BY <1>0, <2>1 DEF Expired
<1>. QED  BY <1>1, <1>2, <1>3, <1>4, <1>5, <1>6, <1>7, <1>8, <1>9, <1>10, <1>11, <1>12, <1>13, <1>14,
             <1>15, <1>16, <1>17, <1>18, <1>19 DEF AccountOf

\* Every request that changes the account's PIN or sealed keys disturbs the syncs
\* of the other computers.
LEMMA StepsDisturb ==
    ASSUME AccountInv, NEW c \in Computer, AccountOf(c)
    PROVE  OthersSame(c) /\ Undisturbing(c) /\ pin.ver <= pin'.ver
<1>0. /\ step \in [Computer -> Stages] /\ fresh \in [Computer -> [ver : Int, seal : Nat, legacy : BOOLEAN]]
      /\ token \in [Computer -> Int] /\ sealKey \in [Computer -> Nat] /\ keys \in [Computer -> SomeKeys]
      /\ got \in [Computer -> SomeKeys] /\ checking \in [Computer -> Int] /\ signed \in [Computer -> Int]
      /\ quiet \in [Computer -> BOOLEAN] /\ pin.ver \in Int
      /\ pin \in [ver : 0..MaxPins, seal : 0..MaxPins, failures : Nat, locked : BOOLEAN]
  BY AccountTyped DEF AccountInv, AccountTypes, ServiceTypes, ComputerTypes
<1>. USE <1>0 DEF OthersSame, Undisturbing
<1>1. CASE \/ AskCode(c) \/ (\E n \in 1..MaxCodes : EnterCode(c, n)) \/ ChallengeEnds(c) \/ CheckSession(c)
           \/ SetupLook(c) \/ ResetLook(c)
  BY <1>1 DEF AskCode, EnterCode, ChallengeEnds, CheckSession, SetupLook, ResetLook, Goes,
              stepVars, tableVars, fileVars, seenVars
<1>2. ASSUME NEW typed \in BOOLEAN, SignInPin(c, typed)
      PROVE  OthersSame(c) /\ Undisturbing(c) /\ pin.ver <= pin'.ver
  <2>1. UNCHANGED <<sealed_keys, keys, token, sealKey, got, checking, clearing, signed, quiet>>
    BY <1>2 DEF SignInPin, tableVars, fileVars
  <2>2. pin'.ver = pin.ver /\ pin'.seal = pin.seal
    BY <1>2 DEF SignInPin
  <2>3. \A d \in Computer \ {c} : step'[d] = step[d] /\ fresh'[d] = fresh[d]
    BY <1>2 DEF SignInPin, Session, Goes
  <2>. QED  BY <2>1, <2>2, <2>3
<1>3. CASE SetupPut(c) \/ ResetPut(c)
  <2>1. pin.ver <= pin'.ver
    <3>1. CASE SetupPut(c)
      <4>1. pin.ver = 0
        BY <3>1 DEF SetupPut, IsAt, AccountInv, OneVersion
      <4>. QED  BY <3>1, <4>1 DEF SetupPut, NoPin
    <3>2. CASE ResetPut(c)
      <4>1. NewVersion(c) = pin.ver + 1
        BY <3>2 DEF ResetPut, NewVersion, IsAt, AccountInv, OneVersion
      <4>. QED  BY <3>2, <4>1 DEF ResetPut, NoPin
    <3>. QED  BY <1>3, <3>1, <3>2
  <2>. QED  BY <1>3, <2>1 DEF SetupPut, ResetPut, Session, Goes, Ends, Disturbs, tableVars, fileVars
<1>4. CASE ResetWipe(c) \/ MovePut(c) \/ PutKeys(c)
  <2>1. UNCHANGED <<pin, keys, token, sealKey, got, checking, clearing, signed>>
    BY <1>4 DEF ResetWipe, MovePut, PutKeys, fileVars
  <2>2. \A d \in Computer \ {c} : ~quiet'[d]
    BY <1>4 DEF ResetWipe, MovePut, PutKeys, Sealing, Disturbs
  <2>3. \A d \in Computer \ {c} : step'[d] = step[d] /\ fresh'[d] = fresh[d]
    BY <1>4 DEF ResetWipe, MovePut, PutKeys, Sealing, Goes, GoesOnTo, Ends
  <2>. QED  BY <2>1, <2>2, <2>3
<1>5. CASE LetInToMove(c) \/ SaveSealKey(c) \/ SaveToken(c)
  <2>1. CASE LetInToMove(c)
    BY <2>1 DEF LetInToMove, Goes, GoesOnTo, Ends, tableVars, fileVars, seenVars
  <2>2. CASE SaveSealKey(c)
    BY <2>2 DEF SaveSealKey, FirstFile, Goes, GoesOnTo, Ends, tableVars, seenVars
  <2>3. CASE SaveToken(c)
    BY <2>3 DEF SaveToken, Goes, tableVars
  <2>. QED  BY <1>5, <2>1, <2>2, <2>3
<1>6. CASE GetKeys(c) \/ Adopt(c) \/ PushKeys(c) \/ Synced(c)
  BY <1>6 DEF GetKeys, Adopt, PushKeys, Synced, InHand, Goes, GoesOnTo, Ends, tableVars, fileVars, seenVars
<1>7. CASE Connect(c)
  BY <1>7 DEF Connect, InHand, Goes, Ends, tableVars, seenVars
<1>8. CASE SessionChecked(c)
  <2>1. /\ UNCHANGED <<pin, sealed_keys, step, fresh, got, sealKey, keys, signed, quiet>>
        /\ \A d \in Computer \ {c} : checking'[d] = checking[d]
    BY <1>8 DEF SessionChecked, stepVars, tableVars
  <2>2. ClearToken(c) \/ UNCHANGED <<token, clearing>>
    BY <1>8 DEF SessionChecked
  <2>3. \A d \in Computer \ {c} : token'[d] = token[d] /\ (d \in clearing' <=> d \in clearing)
    BY <2>2 DEF ClearToken
  <2>. QED  BY <2>1, <2>3
<1>9. CASE SignOut(c)
  BY <1>9 DEF SignOut, ClearToken, tableVars
<1>10. CASE ClearsKey(c) \/ SessionExpires(c)
  BY <1>10 DEF ClearsKey, SessionExpires, tableVars, stepVars
<1>. QED  BY <1>10, <1>1, <1>2, <1>3, <1>4, <1>5, <1>6, <1>7, <1>8, <1>9 DEF AccountOf

LEMMA SyncsStay ==
    ASSUME ~StaleCheck
    PROVE  AccountInv /\ AccountInv' /\ SyncsHold /\ [AccountNext]_accountVars => SyncsHold'
<1>. SUFFICES ASSUME AccountInv, AccountInv', SyncsHold, [AccountNext]_accountVars  PROVE SyncsHold'
  OBVIOUS
<1>1. ASSUME NEW c \in Computer, AccountOf(c)  PROVE SyncsHold'
  <2>1. OthersSame(c) /\ Undisturbing(c) /\ pin.ver <= pin'.ver
    BY <1>1, StepsDisturb
  <2>2. SyncOf(c)' /\ SignedOf(c)'
    BY <1>1, OwnSync
  <2>3. \A d \in Computer \ {c} : SyncOf(d)' /\ SignedOf(d)'
    BY <2>1, OthersSync
  <2>. QED  BY <2>2, <2>3 DEF SyncsHold
<1>2. CASE Unlock
  <2>1. pin'.ver = pin.ver /\ pin'.seal = pin.seal
    BY <1>2 DEF Unlock, AccountInv, AccountTypes, ServiceTypes
  <2>. QED  BY <1>2, <2>1 DEF Unlock, SyncsHold, SyncOf, SignedOf, OpenKept, TokenAccepted,
                 stepVars, tableVars, fileVars, seenVars
<1>3. CASE UNCHANGED accountVars
  BY <1>3 DEF accountVars, SyncsHold, SyncOf, SignedOf, OpenKept, TokenAccepted,
              stepVars, tableVars, fileVars, seenVars
<1>. QED  BY <1>1, <1>2, <1>3 DEF AccountNext

\* However sign-ins, resets and syncs of any number of computers interleave, and
\* whatever is lost or cut off on the way, a computer whose session the service
\* takes holds the key the present PIN makes, as long as no sign-in ends while the
\* saved session is being checked or forgotten (SaveSession, ClearToken, newPin).
THEOREM SessionsOpenKeys ==
    ASSUME ~Overlap, ~StaleCheck
    PROVE  AccountSpec => []SessionsOpen
<1>1. AccountInv /\ SyncsHold => SessionsOpen
  <2>. SUFFICES ASSUME AccountInv, SyncsHold, NEW c \in Computer, TokenAccepted(token[c])
                PROVE  sealKey[c] = pin.seal
    BY DEF SessionsOpen
  <2>1. /\ pin.ver = pin.seal /\ FilesOf(c) /\ SyncOf(c)
        /\ pin.seal \in Nat /\ token[c] \in Int /\ sealKey[c] \in Nat
    BY AccountTyped DEF SyncsHold
  <2>. QED  BY <2>1 DEF FilesOf, SyncOf, TokenAccepted
<1>. QED  BY <1>1, AccountStarts, AccountHolds, SyncsStart, SyncsStay, PTL DEF AccountSpec

\* When a sync ends that no request of another computer came into, the account
\* keeps keys its PIN opens, whatever an earlier reset left in it (syncKeys).
THEOREM SyncsSave ==
    ASSUME ~Overlap, ~StaleCheck
    PROVE  AccountSpec => []SyncSaves
<1>1. SyncsHold => SyncSaves
  BY DEF SyncsHold, SyncOf, SyncSaves, OpenKept
<1>. QED  BY <1>1, AccountStarts, AccountHolds, SyncsStart, SyncsStay, PTL DEF AccountSpec

\* As long as none ends while the saved session is being checked, a sign-in lasts
\* until its computer signs out, its 30 days are over or the PIN is set anew: a
\* service that is down signs nobody out (dashboard.Account, SESSION_TTL).
THEOREM SignInsStay ==
    ASSUME ~Overlap, ~StaleCheck
    PROVE  AccountSpec => []SignInStays
<1>1. SyncsHold => SignInStays
  BY DEF SyncsHold, SignedOf, SignInStays
<1>. QED  BY <1>1, AccountStarts, AccountHolds, SyncsStart, SyncsStay, PTL DEF AccountSpec

(***************************************************************************)
(* The folders of one computer.                                            *)
(*                                                                         *)
(* Between any two steps the index is right: what it records of a folder   *)
(* is in the storage the records are about, or was deleted there by a      *)
(* removal that has not forgotten the folder, and it records nothing of a  *)
(* name no folder has.  A rename breaks that between its halves, in one of *)
(* two ways, and puts it back.                                             *)
(***************************************************************************)
Tasks ==
    {Idle} \cup [op : {"add"}, on : Folder, at : Store]
    \cup [op : {"backup"}, todo : (SUBSET Folder) \ {{}}, at : Store]
    \cup [op : {"run", "missing"}, on : Folder, todo : SUBSET Folder, at : Store]
    \cup [op : {"sent"}, on : Folder, todo : SUBSET Folder, at : Store, file : Item]
    \cup [op : {"rename", "renamed"}, from : Title, to : Title]
    \cup [op : {"remove"}, on : Folder, purge : BOOLEAN, at : Store]
    \cup [op : {"purged"}, on : Folder, purge : {TRUE}, at : Store]
    \cup [op : {"forget"}, on : Folder]
OneOfAName(sets) == \A s, t \in sets : s.name = t.name => s = t
SetsTypes ==
    /\ list \in SUBSET Folder /\ OneOfAName(list)
    /\ mem \in [Program -> SUBSET Folder] /\ \A p \in Program : OneOfAName(mem[p])
    /\ task \in [Program -> Tasks]
    /\ records \in [Title -> SUBSET Item] /\ made \in [Title -> Store \cup {NoStore}]
    /\ idx \in Program \cup {Nobody} /\ here \in Store
    /\ stored \in [Store -> [Title -> SUBSET Item]] /\ away \in SUBSET Title
    /\ gone \in [Store -> [Title -> SUBSET Item]]

\* The lock of the index is its holder's, at these steps.
IndexHeld == \A p \in Program : idx = p <=> task[p].op \in {"run", "missing", "sent", "renamed", "forget"}
\* No two folders of the list share a prefix, and one about to be added has a new one.
PrefixesApart ==
    /\ \A s, t \in list : s.prefix = t.prefix => s = t
    /\ \A p \in Program : task[p].op = "add" =>
          task[p].on.prefix = task[p].on.name /\ \A s \in mem[p] : s.prefix # task[p].on.prefix
\* What storage has had of a folder: it keeps it, or a removal deleted it.
Known(at, x) == stored[at][x] \cup gone[at][x]
Alikes(s, t) == s.name = t.name /\ s.prefix = t.prefix
InList(sets, s) == \E t \in sets : Alikes(s, t)
RunsKnow ==
    \A p \in Program : task[p].op \in {"run", "sent"} =>
        /\ InList(list, task[p].on) /\ made[task[p].on.name] = task[p].at
        /\ task[p].op = "sent" => task[p].file \in Known(task[p].at, task[p].on.prefix)
Forgotten == \A p \in Program : task[p].op = "forget" => records[task[p].on.name] = {}

About(n) == IF made[n] = NoStore THEN here ELSE made[n]
TrueRecords(s) == records[s.name] \subseteq Known(About(s.name), s.prefix)
\* But for the folder of this name, the index is right, and has no record of no folder.
RightBut(n) ==
    /\ \A s \in list : s.name # n => TrueRecords(s)
    /\ \A m \in Title \ Names(list) : m # n => records[m] = {}
Right ==
    /\ \A s \in list : TrueRecords(s)
    /\ \A m \in Title \ Names(list) : records[m] = {}
\* Between the two halves of a rename either no record was moved, or the records of
\* one name are those of the folder that still has the other.
NoneMoved(p) == records[task[p].from] = {} /\ task[p].to \notin Names(mem[p]) /\ Right
AllMoved(from, to) ==
    /\ records[from] = {} /\ records[to] # {}
    /\ made[from] # NoStore /\ About(to) = made[from]
    /\ \E s \in list : s.name = from /\ records[to] \subseteq Known(made[from], s.prefix)
    /\ RightBut(to)
IndexRight ==
    /\ \A p \in Program : task[p].op = "renamed" => NoneMoved(p) \/ AllMoved(task[p].from, task[p].to)
    /\ (\A p \in Program : task[p].op # "renamed") => Right
SetsInv == SetsTypes /\ IndexHeld /\ PrefixesApart /\ RunsKnow /\ Forgotten /\ IndexRight

LEMMA TaskParts ==
    ASSUME NEW t \in Tasks
    PROVE  /\ t.op \in {"none", "add", "backup", "run", "missing", "sent", "rename", "renamed", "remove", "purged", "forget"}
           /\ t.op = "none" => t = Idle
           /\ t.op = "add" => t.on \in Folder /\ t.at \in Store
           /\ t.op = "backup" => t.todo \in SUBSET Folder /\ t.todo # {} /\ t.at \in Store
           /\ t.op \in {"run", "missing", "sent"} => t.on \in Folder /\ t.todo \in SUBSET Folder /\ t.at \in Store
           /\ t.op = "sent" => t.file \in Item
           /\ t.op \in {"rename", "renamed"} => t.from \in Title /\ t.to \in Title
           /\ t.op \in {"remove", "purged"} => t.on \in Folder /\ t.purge \in BOOLEAN /\ t.at \in Store
           /\ t.op = "purged" => t.purge = TRUE
           /\ t.op = "forget" => t.on \in Folder
<1>1. CASE t = Idle
  BY <1>1 DEF Idle
<1>2. CASE t \in [op : {"add"}, on : Folder, at : Store] \cup [op : {"backup"}, todo : (SUBSET Folder) \ {{}}, at : Store]
  BY <1>2
<1>3. CASE t \in [op : {"run", "missing"}, on : Folder, todo : SUBSET Folder, at : Store]
              \cup [op : {"sent"}, on : Folder, todo : SUBSET Folder, at : Store, file : Item]
  BY <1>3
<1>4. CASE t \in [op : {"rename", "renamed"}, from : Title, to : Title] \cup [op : {"forget"}, on : Folder]
  BY <1>4
<1>5. CASE t \in [op : {"remove"}, on : Folder, purge : BOOLEAN, at : Store]
  BY <1>5
<1>6. CASE t \in [op : {"purged"}, on : Folder, purge : {TRUE}, at : Store]
  BY <1>6
<1>. QED  BY <1>1, <1>2, <1>3, <1>4, <1>5, <1>6 DEF Tasks

\* The two halves of a rename, and of a removal, are about the same.
LEMMA SecondHalf ==
    ASSUME NEW t \in Tasks
    PROVE  /\ t.op = "rename" =>
                LET u == [t EXCEPT !.op = "renamed"]
                IN u \in Tasks /\ u.op = "renamed" /\ u.from = t.from /\ u.to = t.to
           /\ t.op = "remove" /\ t.purge =>
                LET u == [t EXCEPT !.op = "purged"]
                IN u \in Tasks /\ u.op = "purged" /\ u.on = t.on /\ u.purge = t.purge /\ u.at = t.at
<1>1. ASSUME t.op = "rename"
      PROVE  LET u == [t EXCEPT !.op = "renamed"]
             IN u \in Tasks /\ u.op = "renamed" /\ u.from = t.from /\ u.to = t.to
  <2>1. t \in [op : {"rename", "renamed"}, from : Title, to : Title]
    BY <1>1, TaskParts DEF Tasks, Idle
  <2>. QED  BY <2>1 DEF Tasks
<1>2. ASSUME t.op = "remove", t.purge
      PROVE  LET u == [t EXCEPT !.op = "purged"]
             IN u \in Tasks /\ u.op = "purged" /\ u.on = t.on /\ u.purge = t.purge /\ u.at = t.at
  <2>1. t \in [op : {"remove"}, on : Folder, purge : BOOLEAN, at : Store]
    BY <1>2, TaskParts DEF Tasks, Idle
  <2>. QED  BY <1>2, <2>1 DEF Tasks
<1>. QED  BY <1>1, <1>2

\* A list with a folder parked, or no more so, has the folders it had.
Parking(sets, n, b) == {IF s.name = n THEN [s EXCEPT !.parked = b] ELSE s : s \in sets}
SameFolders(was, is) ==
    /\ \A s \in is : \E t \in was : Alikes(s, t)
    /\ \A t \in was : \E s \in is : Alikes(s, t)

LEMMA ParkingSame ==
    ASSUME NEW sets \in SUBSET Folder, NEW n, NEW b \in BOOLEAN, OneOfAName(sets)
    PROVE  /\ Parking(sets, n, b) \in SUBSET Folder /\ OneOfAName(Parking(sets, n, b))
           /\ SameFolders(sets, Parking(sets, n, b))
<1>. DEFINE G(s) == IF s.name = n THEN [s EXCEPT !.parked = b] ELSE s
<1>1. \A s \in sets : G(s) \in Folder /\ Alikes(G(s), s)
  BY DEF Folder, Alikes
<1>2. Parking(sets, n, b) = {G(s) : s \in sets}
  BY DEF Parking
<1>. HIDE DEF G
<1>3. OneOfAName(Parking(sets, n, b))
  BY <1>1, <1>2 DEF OneOfAName, Alikes
<1>4. SameFolders(sets, Parking(sets, n, b))
  BY <1>1, <1>2 DEF SameFolders
<1>. QED  BY <1>1, <1>2, <1>3, <1>4

Free == UNCHANGED <<records, made, idx, stored, here, away, gone>>
LEMMA OpensTyped ==
    ASSUME SetsTypes, NEW p \in Program, NEW t \in Tasks, Opens(p, t), list' = list, Free
    PROVE  SetsTypes'
BY DEF SetsTypes, Opens, Free, OneOfAName

LEMMA DoesTyped ==
    ASSUME SetsTypes, NEW p \in Program, NEW t \in Tasks, Does(p, t), UNCHANGED <<list, mem, here, away>>,
           records' \in [Title -> SUBSET Item], made' \in [Title -> Store \cup {NoStore}],
           idx' \in Program \cup {Nobody}, stored' \in [Store -> [Title -> SUBSET Item]],
           gone' \in [Store -> [Title -> SUBSET Item]]
    PROVE  SetsTypes'
BY DEF SetsTypes, Does, OneOfAName

LEMMA SavesTyped ==
    ASSUME SetsTypes, NEW p \in Program, NEW t \in Tasks, Does(p, t),
           NEW sets \in SUBSET Folder, OneOfAName(sets), Saves(p, sets),
           UNCHANGED <<records, made, stored, here>>, idx' \in Program \cup {Nobody}, away' \in SUBSET Title,
           gone' \in [Store -> [Title -> SUBSET Item]]
    PROVE  SetsTypes'
BY DEF SetsTypes, Does, Saves, OneOfAName

LEMMA RecordsTyped ==
    ASSUME SetsTypes, NEW n \in Title
    PROVE  /\ \A r \in SUBSET Item : [records EXCEPT ![n] = r] \in [Title -> SUBSET Item]
           /\ \A m \in Title : Moved(n, m) \in [Title -> SUBSET Item]
           /\ \A at \in Store : [made EXCEPT ![n] = at] \in [Title -> Store \cup {NoStore}]
           /\ \A at \in Store : \A left : Deleted(at, n, left) \in [Store -> [Title -> SUBSET Item]]
           /\ \A at \in Store, more \in SUBSET Item :
                 [gone EXCEPT ![at][n] = @ \cup more] \in [Store -> [Title -> SUBSET Item]]
           /\ \A at \in Store, f \in Item : [stored EXCEPT ![at][n] = @ \cup {f}] \in [Store -> [Title -> SUBSET Item]]
<1>1. \A at \in Store : \A left : Deleted(at, n, left) \in [Store -> [Title -> SUBSET Item]]
  <2> SUFFICES ASSUME NEW at \in Store, NEW left PROVE Deleted(at, n, left) \in [Store -> [Title -> SUBSET Item]]
    OBVIOUS
  <2>1. [m \in Title |-> IF m \in KeyScope(n) THEN stored[at][m] \cap left ELSE stored[at][m]] \in [Title -> SUBSET Item]
    BY DEF SetsTypes
  <2>. QED  BY <2>1 DEF Deleted, SetsTypes
<1>. QED  BY <1>1 DEF SetsTypes, Moved

\* One program's step leaves types as they are.
LEMMA ProgramTyped ==
    ASSUME SetsTypes, NEW p \in Program,
           \/ Added(p) \/ BacksUp(p) \/ Notes(p) \/ EndsRun(p) \/ Parks(p) \/ SaysWhere(p)
           \/ MovesRecords(p) \/ TakesName(p) \/ NameRefused(p)
           \/ Purges(p) \/ PurgeFails(p) \/ DropsRecords(p) \/ NotRemoved(p) \/ Forgets(p) \/ IsKilled(p)
    PROVE  SetsTypes'
<1>. DEFINE t == task[p]
<1>0. t \in Tasks /\ mem[p] \in SUBSET Folder /\ OneOfAName(mem[p]) /\ records \in [Title -> SUBSET Item]
      /\ made \in [Title -> Store \cup {NoStore}] /\ stored \in [Store -> [Title -> SUBSET Item]]
      /\ idx \in Program \cup {Nobody} /\ list \in SUBSET Folder /\ here \in Store /\ away \in SUBSET Title
      /\ gone \in [Store -> [Title -> SUBSET Item]]
  BY DEF SetsTypes
<1>1. CASE Added(p)
  <2>1. t.op = "add" /\ t.on \in Folder /\ t.at \in Store /\ t.on.name \notin Names(mem[p])
    BY <1>0, <1>1, TaskParts DEF Added
  <2>2. OneOfAName(mem[p] \cup {t.on})
    BY <1>0, <2>1 DEF OneOfAName, Names
  <2>3. Backs({t.on}, t.at) \in Tasks
    BY <2>1 DEF Backs, Tasks
  <2>. QED  BY <1>0, <1>1, <2>1, <2>2, <2>3, SavesTyped DEF Added
<1>2. CASE BacksUp(p)
  <2>1. Backs(list, here) \in Tasks
    BY <1>0, <1>2 DEF Backs, Tasks
  <2>. QED  BY <1>2, <2>1, OpensTyped DEF BacksUp, Free
<1>3. CASE Notes(p)
  <2>1. t.op = "sent" /\ t.on \in Folder /\ t.todo \in SUBSET Folder /\ t.at \in Store /\ t.file \in Item /\ t.on.name \in Title
    BY <1>0, <1>3, TaskParts DEF Notes, Folder
  <2>2. [op |-> "run", on |-> t.on, todo |-> t.todo, at |-> t.at] \in Tasks
    BY <2>1 DEF Tasks
  <2>3. records' \in [Title -> SUBSET Item]
    BY <1>0, <1>3, <2>1 DEF Notes
  <2>. QED  BY <1>0, <1>3, <2>2, <2>3, DoesTyped DEF Notes
<1>4. CASE EndsRun(p)
  <2>1. t.op = "run" /\ t.todo \in SUBSET Folder /\ t.at \in Store
    BY <1>0, <1>4, TaskParts DEF EndsRun
  <2>2. Backs(t.todo, t.at) \in Tasks
    BY <2>1 DEF Backs, Tasks
  <2>. QED  BY <1>0, <1>4, <2>2, DoesTyped DEF EndsRun
<1>5. CASE Parks(p)
  <2>1. t.op = "missing" /\ t.todo \in SUBSET Folder /\ t.at \in Store
    BY <1>0, <1>5, TaskParts DEF Parks
  <2>2. Backs(t.todo, t.at) \in Tasks
    BY <2>1 DEF Backs, Tasks
  <2>3. Saves(p, Parking(mem[p], t.on.name, TRUE))
    BY <1>5 DEF Parks, Parking
  <2>. QED  BY <1>0, <1>5, <2>2, <2>3, ParkingSame, SavesTyped DEF Parks
<1>6. CASE SaysWhere(p)
  <2>1. t.op = "missing" /\ t.todo \in SUBSET Folder /\ t.at \in Store /\ t.on \in Folder
    BY <1>0, <1>6, TaskParts DEF SaysWhere
  <2>2. Backs(t.todo \cup {[t.on EXCEPT !.parked = FALSE]}, t.at) \in Tasks
    <3>1. [t.on EXCEPT !.parked = FALSE] \in Folder
      BY <2>1 DEF Folder
    <3>. QED  BY <2>1, <3>1 DEF Backs, Tasks
  <2>3. Saves(p, Parking(mem[p], t.on.name, FALSE))
    BY <1>6 DEF SaysWhere, Parking, Relinked
  <2>4. away' \in SUBSET Title
    BY <1>0, <1>6 DEF SaysWhere
  <2>. QED  BY <1>0, <1>6, <2>2, <2>3, <2>4, ParkingSame, SavesTyped DEF SaysWhere
<1>7. CASE MovesRecords(p)
  <2>1. t.op = "rename" /\ t.from \in Title /\ t.to \in Title
    BY <1>0, <1>7, TaskParts DEF MovesRecords
  <2>2. records' \in [Title -> SUBSET Item] /\ idx' \in Program \cup {Nobody}
    BY <1>0, <1>7, <2>1, RecordsTyped DEF MovesRecords
  <2>3. [t EXCEPT !.op = "renamed"] \in Tasks /\ Idle \in Tasks
    BY <1>0, <2>1, SecondHalf DEF Tasks
  <2>4. Does(p, [t EXCEPT !.op = "renamed"]) \/ Does(p, Idle)
    BY <1>7 DEF MovesRecords
  <2>. QED  BY <1>0, <1>7, <2>2, <2>3, <2>4, DoesTyped DEF MovesRecords
<1>8. CASE TakesName(p)
  <2>. DEFINE G(s) == IF s.name = t.from THEN [s EXCEPT !.name = t.to] ELSE s
  <2>1. t.op = "renamed" /\ t.from \in Title /\ t.to \in Title /\ t.to \notin Names(mem[p])
    BY <1>0, <1>8, TaskParts DEF TakesName, NameTaken
  <2>2. \A s \in mem[p] : G(s) \in Folder /\ G(s).name = (IF s.name = t.from THEN t.to ELSE s.name)
                          /\ G(s).prefix = s.prefix /\ s.name # t.to
    BY <1>0, <2>1 DEF Folder, Names
  <2>3. Saves(p, {G(s) : s \in mem[p]})
    BY <1>8 DEF TakesName
  <2>. HIDE DEF G
  <2>4. OneOfAName({G(s) : s \in mem[p]})
    BY <1>0, <2>2 DEF OneOfAName
  <2>5. {G(s) : s \in mem[p]} \in SUBSET Folder /\ Idle \in Tasks
    BY <2>2 DEF Tasks
  <2>. QED  BY <1>0, <1>8, <2>3, <2>4, <2>5, SavesTyped DEF TakesName
<1>9. CASE NameRefused(p)
  <2>1. t.op = "renamed" /\ t.from \in Title /\ t.to \in Title
    BY <1>0, <1>9, TaskParts DEF NameRefused
  <2>2. records' \in [Title -> SUBSET Item]
    BY <1>0, <1>9, <2>1, RecordsTyped DEF NameRefused, PutBack
  <2>3. Idle \in Tasks
    BY DEF Tasks
  <2>. QED  BY <1>0, <1>9, <2>2, <2>3, DoesTyped DEF NameRefused
<1>10. CASE Purges(p) \/ PurgeFails(p)
  <2>1. PICK left \in SUBSET Item : Deletes(p, left)
    BY <1>10 DEF Purges, PurgeFails
  <2>2. t.op = "remove" /\ t.purge /\ t.on \in Folder /\ t.at \in Store /\ t.on.prefix \in Title
    BY <1>0, <2>1, TaskParts DEF Deletes, Folder
  <2>3. stored' \in [Store -> [Title -> SUBSET Item]]
    BY <2>1, <2>2, RecordsTyped DEF Deletes
  <2>4. gone' \in [Store -> [Title -> SUBSET Item]]
    <3>1. stored[t.at][t.on.prefix] \ left \in SUBSET Item
      BY <1>0, <2>2
    <3>. QED  BY <2>1, <2>2, <3>1, RecordsTyped DEF Deletes
  <2>5. [t EXCEPT !.op = "purged"] \in Tasks /\ Idle \in Tasks
    BY <1>0, <2>2, SecondHalf DEF Tasks
  <2>6. Does(p, [t EXCEPT !.op = "purged"]) \/ Does(p, Idle)
    BY <1>10 DEF Purges, PurgeFails
  <2>. QED  BY <1>0, <2>1, <2>3, <2>4, <2>5, <2>6, DoesTyped DEF Deletes
<1>11. CASE DropsRecords(p)
  <2>1. t.op \in {"remove", "purged"} /\ t.on \in Folder /\ t.on.name \in Title
    BY <1>0, <1>11, TaskParts DEF DropsRecords, DropsNow, Folder
  <2>2. records' \in [Title -> SUBSET Item] /\ [op |-> "forget", on |-> t.on] \in Tasks
    BY <1>0, <1>11, <2>1, RecordsTyped DEF DropsRecords, DropSet, Tasks
  <2>. QED  BY <1>0, <1>11, <2>2, DoesTyped DEF DropsRecords
<1>12. CASE NotRemoved(p)
  <2>1. Idle \in Tasks
    BY DEF Tasks
  <2>. QED  BY <1>0, <1>12, <2>1, DoesTyped DEF NotRemoved
<1>13. CASE Forgets(p)
  <2>. DEFINE sets == {s \in mem[p] : s.name # t.on.name}
  <2>1. Idle \in Tasks /\ sets \in SUBSET Folder /\ OneOfAName(sets)
    BY <1>0 DEF Tasks, OneOfAName
  <2>2. gone' \in [Store -> [Title -> SUBSET Item]]
    BY <1>0, <1>13 DEF Forgets
  <2>. QED  BY <1>0, <1>13, <2>1, <2>2, SavesTyped DEF Forgets
<1>14. CASE IsKilled(p)
  <2>1. Idle \in Tasks
    BY DEF Tasks
  <2>. QED  BY <1>0, <1>14, <2>1, DoesTyped DEF IsKilled
<1>. QED  BY <1>1, <1>2, <1>3, <1>4, <1>5, <1>6, <1>7, <1>8, <1>9, <1>10, <1>11, <1>12, <1>13, <1>14

\* And so does one with a folder or a file in hand.
LEMMA ChosenTyped ==
    ASSUME SetsTypes, NEW p \in Program,
           \/ \E n \in Title : AddFolder(p, n)
           \/ \E f \in Item : Sends(p, f)
           \/ \E s \in Folder : TakesIndex(p, s) \/ NoIndexFor(p, s) \/ Relink(p, s)
           \/ \E s \in Folder, to \in Title : Renames(p, s, to)
           \/ \E s \in Folder, purge \in BOOLEAN : Removes(p, s, purge)
    PROVE  SetsTypes'
<1>. DEFINE t == task[p]
<1>0. t \in Tasks /\ mem[p] \in SUBSET Folder /\ records \in [Title -> SUBSET Item]
      /\ made \in [Title -> Store \cup {NoStore}] /\ stored \in [Store -> [Title -> SUBSET Item]]
      /\ idx \in Program \cup {Nobody} /\ list \in SUBSET Folder /\ here \in Store /\ away \in SUBSET Title
      /\ OneOfAName(list) /\ gone \in [Store -> [Title -> SUBSET Item]]
  BY DEF SetsTypes
<1>1. ASSUME NEW n \in Title, AddFolder(p, n) PROVE SetsTypes'
  <2>1. [name |-> n, prefix |-> n, parked |-> FALSE] \in Folder
    BY DEF Folder
  <2>2. [op |-> "add", on |-> [name |-> n, prefix |-> n, parked |-> FALSE], at |-> here] \in Tasks
    BY <1>0, <2>1 DEF Tasks
  <2>. QED  BY <1>1, <2>2, OpensTyped DEF AddFolder, Free
<1>2. ASSUME NEW f \in Item, Sends(p, f) PROVE SetsTypes'
  <2>1. t.op = "run" /\ t.on \in Folder /\ t.todo \in SUBSET Folder /\ t.at \in Store /\ t.on.prefix \in Title
    BY <1>0, <1>2, TaskParts DEF Sends, Folder
  <2>2. [op |-> "sent", on |-> t.on, todo |-> t.todo, at |-> t.at, file |-> f] \in Tasks
    BY <2>1 DEF Tasks
  <2>3. stored' \in [Store -> [Title -> SUBSET Item]]
    BY <1>2, <2>1, RecordsTyped DEF Sends
  <2>. QED  BY <1>0, <1>2, <2>2, <2>3, DoesTyped DEF Sends
<1>3. ASSUME NEW s \in Folder, TakesIndex(p, s) PROVE SetsTypes'
  <2>1. t.op = "backup" /\ t.todo \in SUBSET Folder /\ t.at \in Store /\ s.name \in Title /\ s.prefix \in Title
    BY <1>0, <1>3, TaskParts DEF TakesIndex, Folder
  <2>2. TrueOf(s, t.at) \in SUBSET Item
    BY <1>0, <2>1 DEF TrueOf
  <2>3. records' \in [Title -> SUBSET Item] /\ made' \in [Title -> Store \cup {NoStore}]
    BY <1>3, <2>1, <2>2, RecordsTyped DEF TakesIndex
  <2>. DEFINE o == IF s.prefix \in away THEN "missing" ELSE "run"
  <2>4. [op |-> o, on |-> s, todo |-> t.todo \ {s}, at |-> t.at] \in Tasks
    BY <2>1 DEF Tasks
  <2>. QED  BY <1>0, <1>3, <2>3, <2>4, DoesTyped DEF TakesIndex
<1>4. ASSUME NEW s \in Folder, NoIndexFor(p, s) PROVE SetsTypes'
  <2>1. t.op = "backup" /\ t.todo \in SUBSET Folder /\ t.at \in Store
    BY <1>0, <1>4, TaskParts DEF NoIndexFor
  <2>2. Backs(t.todo \ {s}, t.at) \in Tasks
    BY <2>1 DEF Backs, Tasks
  <2>. QED  BY <1>0, <1>4, <2>2, DoesTyped DEF NoIndexFor
<1>5. ASSUME NEW s \in Folder, Relink(p, s) PROVE SetsTypes'
  <2>1. list' = Parking(list, s.name, FALSE)
    BY <1>5 DEF Relink, Relinked, Parking
  <2>2. list' \in SUBSET Folder /\ OneOfAName(list')
    BY <1>0, <2>1, ParkingSame
  <2>. QED  BY <1>5, <2>2 DEF Relink, SetsTypes, OneOfAName
<1>6. ASSUME NEW s \in Folder, NEW to \in Title, Renames(p, s, to) PROVE SetsTypes'
  <2>1. [op |-> "rename", from |-> s.name, to |-> to] \in Tasks
    BY DEF Tasks, Folder
  <2>. QED  BY <1>6, <2>1, OpensTyped DEF Renames, Free
<1>7. ASSUME NEW s \in Folder, NEW purge \in BOOLEAN, Removes(p, s, purge) PROVE SetsTypes'
  <2>1. [op |-> "remove", on |-> s, purge |-> purge, at |-> here] \in Tasks
    BY <1>0 DEF Tasks
  <2>. QED  BY <1>7, <2>1, OpensTyped DEF Removes, Free
<1>. QED  BY <1>1, <1>2, <1>3, <1>4, <1>5, <1>6, <1>7

LEMMA SetsTyped == SetsTypes /\ [SetsNext]_setVars => SetsTypes'
<1>. SUFFICES ASSUME SetsTypes, [SetsNext]_setVars PROVE SetsTypes'
  OBVIOUS
<1>1. CASE Draws
  BY <1>1, SetStoreAssumption DEF Draws, SetsTypes, OneOfAName
<1>2. ASSUME NEW n \in Title, DeletesStored(n) PROVE SetsTypes'
  <2>1. here \in Store
    BY DEF SetsTypes
  <2>2. stored' \in [Store -> [Title -> SUBSET Item]]
    BY <1>2, <2>1, RecordsTyped DEF DeletesStored
  <2>. QED  BY <1>2, <2>2 DEF DeletesStored, SetsTypes, OneOfAName
<1>3. ASSUME NEW n \in Title, FolderMoves(n) PROVE SetsTypes'
  BY <1>3 DEF FolderMoves, SetsTypes, OneOfAName
<1>4. ASSUME NEW s \in Store, SwitchStore(s) PROVE SetsTypes'
  BY <1>4 DEF SwitchStore, SetsTypes, OneOfAName
<1>5. CASE UNCHANGED setVars
  BY <1>5 DEF setVars, SetsTypes, OneOfAName
<1>. QED  BY <1>1, <1>2, <1>3, <1>4, <1>5, ProgramTyped, ChosenTyped DEF SetsNext

LEMMA SetsStartTyped == SetsInit => SetsTypes
BY DEF SetsInit, SetsTypes, Tasks, OneOfAName

Acts(p) ==
    \/ Added(p) \/ BacksUp(p) \/ Notes(p) \/ EndsRun(p) \/ Parks(p) \/ SaysWhere(p)
    \/ MovesRecords(p) \/ TakesName(p) \/ NameRefused(p)
    \/ Purges(p) \/ PurgeFails(p) \/ DropsRecords(p) \/ NotRemoved(p) \/ Forgets(p) \/ IsKilled(p)
    \/ \E n \in Title : AddFolder(p, n)
    \/ \E f \in Item : Sends(p, f)
    \/ \E s \in Folder : TakesIndex(p, s) \/ NoIndexFor(p, s) \/ Relink(p, s)
    \/ \E s \in Folder, to \in Title : Renames(p, s, to)
    \/ \E s \in Folder, purge \in BOOLEAN : Removes(p, s, purge)
Elsewhere ==
    \/ Draws \/ UNCHANGED setVars
    \/ \E n \in Title : DeletesStored(n) \/ FolderMoves(n)
    \/ \E s \in Store : SwitchStore(s)
LEMMA WhoActs == [SetsNext]_setVars <=> (\E p \in Program : Acts(p)) \/ Elsewhere
BY DEF SetsNext, Acts, Elsewhere

\* A program's step is at its own task and its own copy of the list.
LEMMA OthersWait ==
    ASSUME SetsTypes, NEW p \in Program, Acts(p), NEW q \in Program \ {p}
    PROVE  task'[q] = task[q] /\ mem'[q] = mem[q]
<1>1. DOMAIN task = Program /\ DOMAIN mem = Program
  BY DEF SetsTypes
<1>2. ASSUME NEW n \in Title, AddFolder(p, n) PROVE task'[q] = task[q] /\ mem'[q] = mem[q]
  BY <1>1, <1>2 DEF AddFolder, Opens
<1>3. ASSUME NEW f \in Item, Sends(p, f) PROVE task'[q] = task[q] /\ mem'[q] = mem[q]
  BY <1>1, <1>3 DEF Sends, Does
<1>4. ASSUME NEW s \in Folder, TakesIndex(p, s) \/ NoIndexFor(p, s) \/ Relink(p, s)
      PROVE task'[q] = task[q] /\ mem'[q] = mem[q]
  BY <1>1, <1>4 DEF TakesIndex, NoIndexFor, Relink, Does
<1>5. ASSUME NEW s \in Folder, NEW to \in Title, Renames(p, s, to) PROVE task'[q] = task[q] /\ mem'[q] = mem[q]
  BY <1>1, <1>5 DEF Renames, Opens
<1>6. ASSUME NEW s \in Folder, NEW purge \in BOOLEAN, Removes(p, s, purge) PROVE task'[q] = task[q] /\ mem'[q] = mem[q]
  BY <1>1, <1>6 DEF Removes, Opens
<1>7. CASE Added(p) \/ BacksUp(p) \/ Parks(p) \/ SaysWhere(p) \/ TakesName(p) \/ Forgets(p)
  BY <1>1, <1>7 DEF Added, BacksUp, Parks, SaysWhere, TakesName, Forgets, Opens, Saves, Does
<1>8. CASE \/ Notes(p) \/ EndsRun(p) \/ MovesRecords(p) \/ NameRefused(p)
           \/ Purges(p) \/ PurgeFails(p) \/ DropsRecords(p) \/ NotRemoved(p) \/ IsKilled(p)
  BY <1>1, <1>8 DEF Notes, EndsRun, MovesRecords, NameRefused, Purges, PurgeFails, Deletes, DropsRecords, NotRemoved,
                    IsKilled, Does
<1>. QED  BY <1>2, <1>3, <1>4, <1>5, <1>6, <1>7, <1>8 DEF Acts

\* What a program's step makes of its task, by the task it had.
Locking == {"run", "missing", "sent", "renamed", "forget"}
LEMMA TaskGoes ==
    ASSUME SetsTypes, IndexHeld, NEW p \in Program, Acts(p)
    PROVE  /\ idx' = p <=> task'[p].op \in Locking
           /\ idx' # p => idx' = idx \/ (idx = p /\ idx' = Nobody)
           /\ idx' = p => idx \in {p, Nobody}
<1>. DEFINE t == task[p]
            P == /\ idx' = p <=> task'[p].op \in Locking
                 /\ idx' # p => idx' = idx \/ (idx = p /\ idx' = Nobody)
                 /\ idx' = p => idx \in {p, Nobody}
<1>0. /\ DOMAIN task = Program /\ t \in Tasks /\ p # Nobody /\ Idle.op = "none"
      /\ idx = p <=> t.op \in Locking
      /\ \A u : Does(p, u) \/ Opens(p, u) => task'[p] = u
      /\ \A todo, at : Backs(todo, at).op \in {"none", "backup"}
  BY SetStoreAssumption DEF SetsTypes, IndexHeld, Does, Opens, Idle, Backs, Locking
<1>1. ASSUME NEW n \in Title, AddFolder(p, n) PROVE P
  BY <1>0, <1>1 DEF AddFolder, Opens, Locking
<1>2. ASSUME NEW f \in Item, Sends(p, f) PROVE P
  BY <1>0, <1>2 DEF Sends, Locking
<1>3. ASSUME NEW s \in Folder, TakesIndex(p, s) PROVE P
  BY <1>0, <1>3 DEF TakesIndex, Locking
<1>4. ASSUME NEW s \in Folder, NoIndexFor(p, s) PROVE P
  BY <1>0, <1>4 DEF NoIndexFor, Locking
<1>5. ASSUME NEW s \in Folder, Relink(p, s) PROVE P
  BY <1>0, <1>5 DEF Relink, Locking
<1>6. ASSUME NEW s \in Folder, NEW to \in Title, Renames(p, s, to) PROVE P
  BY <1>0, <1>6 DEF Renames, Opens, Locking
<1>7. ASSUME NEW s \in Folder, NEW purge \in BOOLEAN, Removes(p, s, purge) PROVE P
  BY <1>0, <1>7 DEF Removes, Opens, Locking
<1>8. CASE Added(p)
  BY <1>0, <1>8 DEF Added, Locking
<1>9. CASE BacksUp(p)
  BY <1>0, <1>9 DEF BacksUp, Opens, Locking
<1>10. CASE EndsRun(p) \/ Parks(p) \/ SaysWhere(p)
  BY <1>0, <1>10 DEF EndsRun, Parks, SaysWhere, Locking
<1>11. CASE Notes(p)
  BY <1>0, <1>11 DEF Notes, Locking
<1>12. CASE MovesRecords(p)
  <2>1. [t EXCEPT !.op = "renamed"].op = "renamed" /\ t.op = "rename" /\ idx = Nobody
    BY <1>0, <1>12, SecondHalf DEF MovesRecords
  <2>. QED  BY <1>0, <1>12, <2>1 DEF MovesRecords, Locking
<1>13. CASE TakesName(p) \/ NameRefused(p) \/ Forgets(p)
  BY <1>0, <1>13 DEF TakesName, NameRefused, Forgets, Locking
<1>14. CASE Purges(p) \/ PurgeFails(p)
  <2>1. t.op = "remove" /\ t.purge /\ idx' = idx
    BY <1>14 DEF Purges, PurgeFails, Deletes
  <2>2. [t EXCEPT !.op = "purged"].op = "purged"
    BY <1>0, <2>1, SecondHalf
  <2>. QED  BY <1>0, <1>14, <2>1, <2>2 DEF Purges, PurgeFails, Locking
<1>15. CASE DropsRecords(p) \/ NotRemoved(p)
  BY <1>0, <1>15 DEF DropsRecords, NotRemoved, DropsNow, Locking
<1>16. CASE IsKilled(p)
  BY <1>0, <1>16 DEF IsKilled, Locking
<1>. QED  BY <1>1, <1>2, <1>3, <1>4, <1>5, <1>6, <1>7, <1>8, <1>9, <1>10, <1>11, <1>12, <1>13, <1>14, <1>15, <1>16 DEF Acts

LEMMA ElsewhereIdles ==
    ASSUME SetsTypes, Elsewhere
    PROVE  /\ task' = task /\ idx' = idx /\ list' = list /\ records' = records /\ made' = made
           /\ \A q \in Program : task[q].op # "none" => mem'[q] = mem[q]
<1>1. DOMAIN mem = Program /\ Idle.op = "none"
  BY DEF SetsTypes, Idle
<1>. QED  BY <1>1 DEF Elsewhere, Draws, setVars, DeletesStored, FolderMoves, SwitchStore

LEMMA IndexStaysHeld == SetsTypes /\ IndexHeld /\ [SetsNext]_setVars => IndexHeld'
<1>. SUFFICES ASSUME SetsTypes, IndexHeld, [SetsNext]_setVars PROVE IndexHeld'
  OBVIOUS
<1>1. ASSUME NEW p \in Program, Acts(p), NEW q \in Program
      PROVE  idx' = q <=> task'[q].op \in Locking
  <2>1. CASE q = p
    BY <1>1, <2>1, TaskGoes
  <2>2. CASE q # p
    <3>1. idx' = q <=> idx = q
      BY <1>1, <2>2, TaskGoes, SetStoreAssumption
    <3>. QED  BY <1>1, <2>2, <3>1, OthersWait DEF IndexHeld, Locking
  <2>. QED  BY <2>1, <2>2
<1>2. CASE Elsewhere
  BY <1>2, ElsewhereIdles DEF IndexHeld
<1>. QED  BY <1>1, <1>2, WhoActs DEF IndexHeld, Locking

\* Which steps lead to which task.
LEMMA TaskFrom ==
    ASSUME SetsTypes, NEW p \in Program, Acts(p)
    PROVE  /\ task'[p].op = "add" => \E n \in Title : AddFolder(p, n)
           /\ task'[p].op = "run" => Notes(p) \/ \E s \in Folder : TakesIndex(p, s)
           /\ task'[p].op = "sent" => \E f \in Item : Sends(p, f)
           /\ task'[p].op = "renamed" => MovesRecords(p)
           /\ task'[p].op = "forget" => DropsRecords(p)
           /\ task'[p].op \in {"remove", "purged"} =>
                 Purges(p) \/ \E s \in Folder, purge \in BOOLEAN : Removes(p, s, purge)
<1>. DEFINE t == task[p]
            P == /\ task'[p].op = "add" => \E n \in Title : AddFolder(p, n)
                 /\ task'[p].op = "run" => Notes(p) \/ \E s \in Folder : TakesIndex(p, s)
                 /\ task'[p].op = "sent" => \E f \in Item : Sends(p, f)
                 /\ task'[p].op = "renamed" => MovesRecords(p)
                 /\ task'[p].op = "forget" => DropsRecords(p)
                 /\ task'[p].op \in {"remove", "purged"} =>
                       Purges(p) \/ \E s \in Folder, purge \in BOOLEAN : Removes(p, s, purge)
<1>0. /\ DOMAIN task = Program /\ t \in Tasks /\ Idle.op = "none"
      /\ \A u : Does(p, u) \/ Opens(p, u) => task'[p] = u
      /\ \A todo, at : Backs(todo, at).op \in {"none", "backup"}
  BY DEF SetsTypes, Does, Opens, Idle, Backs
<1>1. ASSUME NEW n \in Title, AddFolder(p, n) PROVE P
  <2>1. task'[p].op = "add"
    BY <1>0, <1>1 DEF AddFolder
  <2>. QED  BY <1>1, <2>1
<1>2. ASSUME NEW f \in Item, Sends(p, f) PROVE P
  <2>1. task'[p].op = "sent"
    BY <1>0, <1>2 DEF Sends
  <2>. QED  BY <1>2, <2>1
<1>3. ASSUME NEW s \in Folder, TakesIndex(p, s) PROVE P
  <2>1. task'[p].op \in {"run", "missing"}
    BY <1>0, <1>3 DEF TakesIndex
  <2>. QED  BY <1>3, <2>1
<1>4. ASSUME NEW s \in Folder, NoIndexFor(p, s) PROVE P
  BY <1>0, <1>4 DEF NoIndexFor
<1>5. ASSUME NEW s \in Folder, Relink(p, s) PROVE P
  BY <1>0, <1>5 DEF Relink
<1>6. ASSUME NEW s \in Folder, NEW to \in Title, Renames(p, s, to) PROVE P
  BY <1>0, <1>6 DEF Renames
<1>7. ASSUME NEW s \in Folder, NEW purge \in BOOLEAN, Removes(p, s, purge) PROVE P
  <2>1. task'[p].op = "remove"
    BY <1>0, <1>7 DEF Removes
  <2>. QED  BY <1>7, <2>1
<1>8. CASE Added(p)
  BY <1>0, <1>8 DEF Added
<1>9. CASE BacksUp(p)
  BY <1>0, <1>9 DEF BacksUp
<1>10. CASE EndsRun(p) \/ Parks(p) \/ SaysWhere(p)
  BY <1>0, <1>10 DEF EndsRun, Parks, SaysWhere
<1>11. CASE Notes(p)
  BY <1>0, <1>11 DEF Notes
<1>12. CASE MovesRecords(p)
  <2>1. [t EXCEPT !.op = "renamed"].op = "renamed"
    BY <1>0, <1>12, SecondHalf DEF MovesRecords
  <2>2. task'[p].op \in {"renamed", "none"}
    BY <1>0, <1>12, <2>1 DEF MovesRecords
  <2>. QED  BY <1>12, <2>2
<1>13. CASE TakesName(p) \/ NameRefused(p) \/ Forgets(p)
  BY <1>0, <1>13 DEF TakesName, NameRefused, Forgets
<1>14. CASE Purges(p)
  <2>1. task'[p].op = "purged"
    BY <1>0, <1>14, SecondHalf DEF Purges, Deletes
  <2>. QED  BY <1>14, <2>1
<1>15. CASE DropsRecords(p)
  <2>1. task'[p].op = "forget"
    BY <1>0, <1>15 DEF DropsRecords
  <2>. QED  BY <1>15, <2>1
<1>16. CASE IsKilled(p) \/ NotRemoved(p) \/ PurgeFails(p)
  BY <1>0, <1>16 DEF IsKilled, NotRemoved, PurgeFails
<1>. QED  BY <1>1, <1>2, <1>3, <1>4, <1>5, <1>6, <1>7, <1>8, <1>9, <1>10, <1>11, <1>12, <1>13, <1>14, <1>15, <1>16 DEF Acts

\* What a step makes of the list.
LEMMA ListGoes ==
    ASSUME Slack = {}, SetsTypes, [SetsNext]_setVars
    PROVE  \/ SameFolders(list, list')
           \/ \E p \in Program : Added(p) \/ TakesName(p) \/ Forgets(p)
<1>0. list \in SUBSET Folder /\ OneOfAName(list) /\ SameFolders(list, list)
  BY DEF SetsTypes, SameFolders, Alikes
<1>1. ASSUME NEW p \in Program, NEW s \in Folder, Relink(p, s) PROVE SameFolders(list, list')
  <2>1. list' = Parking(list, s.name, FALSE)
    BY <1>1 DEF Relink, Relinked, Parking
  <2>. QED  BY <1>0, <2>1, ParkingSame
<1>2. ASSUME NEW p \in Program, Parks(p) PROVE SameFolders(list, list')
  <2>1. list' = Parking(list, task[p].on.name, TRUE)
    BY <1>2 DEF Parks, Saves, Parking
  <2>. QED  BY <1>0, <2>1, ParkingSame
<1>3. ASSUME NEW p \in Program, SaysWhere(p) PROVE SameFolders(list, list')
  <2>1. list' = Parking(list, task[p].on.name, FALSE)
    BY <1>3 DEF SaysWhere, Saves, Relinked, Parking
  <2>. QED  BY <1>0, <2>1, ParkingSame
<1>4. ASSUME NEW p \in Program, Acts(p), ~Added(p), ~TakesName(p), ~Forgets(p), ~Parks(p), ~SaysWhere(p),
             \A s \in Folder : ~Relink(p, s)
      PROVE  list' = list
  BY <1>4 DEF Acts, BacksUp, Notes, EndsRun, MovesRecords, NameRefused, Purges, PurgeFails, Deletes, DropsRecords,
              NotRemoved, IsKilled, AddFolder, Sends, TakesIndex, NoIndexFor, Renames, Removes
<1>. QED  BY <1>0, <1>1, <1>2, <1>3, <1>4, WhoActs, ElsewhereIdles

LEMMA AddedNew ==
    ASSUME Slack = {}, PrefixesApart, NEW p \in Program, Added(p)
    PROVE  /\ list' = list \cup {task[p].on} /\ task[p].on.name \notin Names(list)
           /\ \A s \in list : s.prefix # task[p].on.prefix
           /\ task[p].op = "add"
BY DEF Added, Saves, PrefixesApart

LEMMA PrefixesStayApart ==
    ASSUME Slack = {}, SetsTypes, SetsTypes', PrefixesApart, [SetsNext]_setVars
    PROVE  PrefixesApart'
<1>1. \A s, t \in list' : s.prefix = t.prefix => s = t
  <2>1. CASE SameFolders(list, list')
    <3> SUFFICES ASSUME NEW s \in list', NEW t \in list', s.prefix = t.prefix PROVE s = t
      OBVIOUS
    <3>1. PICK u \in list : Alikes(s, u)
      BY <2>1 DEF SameFolders
    <3>2. PICK v \in list : Alikes(t, v)
      BY <2>1 DEF SameFolders
    <3>3. s.name = t.name
      BY <3>1, <3>2 DEF Alikes, PrefixesApart
    <3>. QED  BY <3>3 DEF SetsTypes, OneOfAName
  <2>2. ASSUME NEW p \in Program, Added(p) PROVE \A s, t \in list' : s.prefix = t.prefix => s = t
    BY <2>2, AddedNew DEF PrefixesApart
  <2>3. ASSUME NEW p \in Program, TakesName(p) PROVE \A s, t \in list' : s.prefix = t.prefix => s = t
    <3>. DEFINE G(s) == IF s.name = task[p].from THEN [s EXCEPT !.name = task[p].to] ELSE s
    <3>1. list' = {G(s) : s \in list}
      BY <2>3 DEF TakesName, Saves
    <3>2. \A s \in list : G(s).prefix = s.prefix
      BY DEF SetsTypes, Folder
    <3>. HIDE DEF G
    <3>. QED  BY <3>1, <3>2 DEF PrefixesApart
  <2>4. ASSUME NEW p \in Program, Forgets(p) PROVE \A s, t \in list' : s.prefix = t.prefix => s = t
    BY <2>4 DEF Forgets, Saves, PrefixesApart
  <2>. QED  BY <2>1, <2>2, <2>3, <2>4, ListGoes
<1>2. ASSUME NEW q \in Program, task'[q].op = "add"
      PROVE  task'[q].on.prefix = task'[q].on.name /\ \A s \in mem'[q] : s.prefix # task'[q].on.prefix
  <2>1. CASE task'[q] = task[q] /\ mem'[q] = mem[q]
    BY <1>2, <2>1 DEF PrefixesApart
  <2>2. ASSUME NEW n \in Title, AddFolder(q, n)
        PROVE  task'[q].on.prefix = task'[q].on.name /\ \A s \in mem'[q] : s.prefix # task'[q].on.prefix
    <3>1. /\ task'[q] = [op |-> "add", on |-> [name |-> n, prefix |-> n, parked |-> FALSE], at |-> here]
          /\ mem'[q] = list
      BY <2>2 DEF AddFolder, Opens, SetsTypes
    <3>. QED  BY <2>2, <3>1 DEF AddFolder
  <2>3. ASSUME NEW p \in Program, Acts(p)
        PROVE  (task'[q] = task[q] /\ mem'[q] = mem[q]) \/ \E n \in Title : AddFolder(q, n)
    BY <1>2, <2>3, OthersWait, TaskFrom
  <2>4. CASE Elsewhere
    <3>1. task'[q] = task[q] /\ task[q].op # "none"
      BY <1>2, <2>4, ElsewhereIdles
    <3>2. mem'[q] = mem[q]
      BY <2>4, <3>1, ElsewhereIdles
    <3>. QED  BY <3>1, <3>2, <2>1
  <2>. QED  BY <2>1, <2>2, <2>3, <2>4, WhoActs
<1>. QED  BY <1>1, <1>2 DEF PrefixesApart

\* Who has the index meets no other change of the records, nor of its folder.
LEMMA IndexIsMine ==
    ASSUME SetsTypes, IndexHeld, NEW q \in Program, idx = q, NEW p \in Program \ {q}, Acts(p)
    PROVE  UNCHANGED <<records, made>> /\ ~TakesName(p) /\ ~Forgets(p)
<1>1. task[p].op \notin Locking /\ q # Nobody
  BY SetStoreAssumption DEF IndexHeld, Locking
<1>2. CASE Added(p) \/ BacksUp(p) \/ Notes(p) \/ EndsRun(p) \/ Parks(p) \/ SaysWhere(p)
  BY <1>1, <1>2 DEF Locking, Added, BacksUp, Notes, EndsRun, Parks, SaysWhere, TakesName, Forgets
<1>3. CASE MovesRecords(p) \/ TakesName(p) \/ NameRefused(p) \/ Purges(p) \/ PurgeFails(p) \/ DropsRecords(p) \/ NotRemoved(p)
           \/ Forgets(p) \/ IsKilled(p)
  BY <1>1, <1>3 DEF Locking, MovesRecords, TakesName, NameRefused, Purges, PurgeFails, Deletes, DropsRecords,
                    NotRemoved, Forgets, IsKilled
<1>4. CASE ~(Added(p) \/ BacksUp(p) \/ Notes(p) \/ EndsRun(p) \/ Parks(p) \/ SaysWhere(p)
             \/ MovesRecords(p) \/ TakesName(p) \/ NameRefused(p) \/ Purges(p) \/ PurgeFails(p) \/ DropsRecords(p) \/ NotRemoved(p)
             \/ Forgets(p) \/ IsKilled(p))
  BY <1>1, <1>4 DEF Acts, AddFolder, Sends, TakesIndex, NoIndexFor, Relink, Renames, Removes
<1>. QED  BY <1>2, <1>3, <1>4

LEMMA KeptStays ==
    ASSUME Slack = {}, SetsTypes, IndexHeld, [SetsNext]_setVars, NEW q \in Program, idx = q, NEW s, InList(list, s),
           ~TakesName(q), ~Forgets(q)
    PROVE  InList(list', s)
<1>1. CASE SameFolders(list, list')
  BY <1>1 DEF InList, SameFolders, Alikes
<1>2. ASSUME NEW p \in Program, Added(p) PROVE InList(list', s)
  BY <1>2 DEF Added, Saves, InList, Alikes
<1>3. ASSUME NEW p \in Program, TakesName(p) \/ Forgets(p) PROVE FALSE
  BY <1>3, IndexIsMine DEF Acts
<1>. QED  BY <1>1, <1>2, <1>3, ListGoes

\* What is below the prefix of a folder of the list goes only with that folder.
LEMMA StoredGrows ==
    ASSUME "stale" \notin Slack, SetsTypes, [SetsNext]_setVars
    PROVE  \A s \in list, at \in Store :
              \/ stored[at][s.prefix] \subseteq stored'[at][s.prefix]
              \/ \E p \in Program : (Purges(p) \/ PurgeFails(p)) /\ task[p].on.prefix = s.prefix
<1>. SUFFICES ASSUME NEW s \in list, NEW at \in Store,
                     ~(stored[at][s.prefix] \subseteq stored'[at][s.prefix])
              PROVE  \E p \in Program : (Purges(p) \/ PurgeFails(p)) /\ task[p].on.prefix = s.prefix
  OBVIOUS
<1>0. stored \in [Store -> [Title -> SUBSET Item]] /\ s.prefix \in Title
  BY DEF SetsTypes, Folder
<1>1. ASSUME NEW n \in Title, DeletesStored(n) PROVE FALSE
  <2>1. n # s.prefix
    BY <1>1 DEF DeletesStored
  <2>. QED  BY <1>0, <1>1, <2>1 DEF DeletesStored, Deleted, KeyScope
<1>2. ASSUME NEW p \in Program, Purges(p) \/ PurgeFails(p) PROVE task[p].on.prefix = s.prefix
  <2>1. PICK left \in SUBSET Item : stored' = Deleted(task[p].at, task[p].on.prefix, left)
    BY <1>2 DEF Purges, PurgeFails, Deletes
  <2>. QED  BY <1>0, <2>1 DEF Deleted, KeyScope
<1>3. ASSUME NEW p \in Program, NEW f \in Item, Sends(p, f) PROVE FALSE
  BY <1>0, <1>3 DEF Sends
<1>4. ASSUME NEW p \in Program, Acts(p), ~Purges(p), ~PurgeFails(p), \A f \in Item : ~Sends(p, f) PROVE stored' = stored
  BY <1>4 DEF Acts, Added, BacksUp, Notes, EndsRun, Parks, SaysWhere, MovesRecords, TakesName,
              NameRefused, DropsRecords, NotRemoved, Forgets, IsKilled, AddFolder, TakesIndex,
              NoIndexFor, Relink, Renames, Removes
<1>5. CASE Elsewhere
  BY <1>1, <1>5 DEF Elsewhere, Draws, setVars, FolderMoves, SwitchStore
<1>. QED  BY <1>2, <1>3, <1>4, <1>5, WhoActs

\* And what storage has had of it is known while a folder has the prefix.
LEMMA KnownGrows ==
    ASSUME Slack = {}, SetsTypes, [SetsNext]_setVars, NEW s \in list, NEW u \in list', u.prefix = s.prefix,
           NEW at \in Store
    PROVE  Known(at, s.prefix) \subseteq Known(at, s.prefix)'
<1>. DEFINE x == s.prefix
<1>0. stored \in [Store -> [Title -> SUBSET Item]] /\ gone \in [Store -> [Title -> SUBSET Item]] /\ x \in Title
  BY DEF SetsTypes, Folder
<1>1. ASSUME NEW p \in Program, Purges(p) \/ PurgeFails(p) PROVE Known(at, x) \subseteq Known(at, x)'
  <2>1. PICK left \in SUBSET Item : Deletes(p, left)
    BY <1>1 DEF Purges, PurgeFails
  <2>2. PICK a \in Store, n \in Title : a = task[p].at /\ n = task[p].on.prefix
    BY <2>1, TaskParts DEF Deletes, SetsTypes, Folder
  <2>3. stored' = Deleted(a, n, left) /\ gone' = [gone EXCEPT ![a][n] = @ \cup (stored[a][n] \ left)]
    BY <2>1, <2>2 DEF Deletes
  <2>4. CASE a = at /\ n = x
    <3>1. stored'[at][x] = stored[at][x] \cap left /\ gone'[at][x] = gone[at][x] \cup (stored[at][x] \ left)
      BY <1>0, <2>3, <2>4 DEF Deleted, KeyScope
    <3>. QED  BY <3>1 DEF Known
  <2>5. CASE ~(a = at /\ n = x)
    <3>1. stored'[at][x] = stored[at][x] /\ gone'[at][x] = gone[at][x]
      BY <1>0, <2>3, <2>5 DEF Deleted, KeyScope
    <3>. QED  BY <3>1 DEF Known
  <2>. QED  BY <2>4, <2>5
<1>2. ASSUME \A p \in Program : ~Purges(p) /\ ~PurgeFails(p) PROVE stored[at][x] \subseteq stored'[at][x]
  BY <1>2, StoredGrows
<1>3. ASSUME NEW p \in Program, Forgets(p) PROVE gone'[at][x] = gone[at][x]
  BY <1>0, <1>3 DEF Forgets
<1>4. ASSUME NEW p \in Program, Acts(p), ~Purges(p), ~PurgeFails(p), ~Forgets(p) PROVE gone' = gone
  BY <1>4 DEF Acts, Added, BacksUp, Notes, EndsRun, Parks, SaysWhere, MovesRecords, TakesName,
              NameRefused, DropsRecords, NotRemoved, IsKilled, AddFolder, Sends, TakesIndex,
              NoIndexFor, Relink, Renames, Removes
<1>5. ASSUME Elsewhere PROVE gone' = gone
  BY <1>5 DEF Elsewhere, Draws, setVars, DeletesStored, FolderMoves, SwitchStore
<1>6. ASSUME \A p \in Program : ~Purges(p) /\ ~PurgeFails(p) PROVE gone'[at][x] = gone[at][x]
  BY <1>3, <1>4, <1>5, <1>6, WhoActs
<1>7. ASSUME \A p \in Program : ~Purges(p) /\ ~PurgeFails(p) PROVE Known(at, x) \subseteq Known(at, x)'
  BY <1>2, <1>6, <1>7 DEF Known
<1>. QED  BY <1>1, <1>7

LEMMA RunsStillKnow ==
    ASSUME Slack = {}, SetsTypes, SetsTypes', IndexHeld, RunsKnow, [SetsNext]_setVars
    PROVE  RunsKnow'
<1>. SUFFICES ASSUME NEW q \in Program, task'[q].op \in {"run", "sent"}
              PROVE  /\ InList(list', task'[q].on) /\ made'[task'[q].on.name] = task'[q].at
                     /\ task'[q].op = "sent" => task'[q].file \in Known(task[q].at, task[q].on.prefix)'
  BY DEF RunsKnow
<1>0. /\ DOMAIN task = Program /\ task[q] \in Tasks /\ made \in [Title -> Store \cup {NoStore}]
      /\ stored \in [Store -> [Title -> SUBSET Item]]
  BY DEF SetsTypes
<1>1. CASE Notes(q)
  <2>1. task[q].op = "sent" /\ task'[q] = [op |-> "run", on |-> task[q].on, todo |-> task[q].todo, at |-> task[q].at]
        /\ list' = list /\ made' = made
    BY <1>0, <1>1 DEF Notes, Does
  <2>. QED  BY <2>1 DEF RunsKnow, InList, Alikes
<1>2. ASSUME NEW s \in Folder, TakesIndex(q, s)
      PROVE  /\ InList(list', task'[q].on) /\ made'[task'[q].on.name] = task'[q].at
             /\ task'[q].op # "sent"
  <2>1. task'[q].on = s /\ task'[q].at = task[q].at /\ task'[q].op # "sent"
    BY <1>0, <1>2 DEF TakesIndex, Does
  <2>2. s.name \in Title
    BY DEF Folder
  <2>3. InList(list', s)
    BY <1>2 DEF TakesIndex, InList, Alikes
  <2>. QED  BY <1>0, <1>2, <2>1, <2>2, <2>3 DEF TakesIndex
<1>3. ASSUME NEW f \in Item, Sends(q, f)
      PROVE  /\ InList(list', task'[q].on) /\ made'[task'[q].on.name] = task'[q].at
             /\ task'[q].file \in Known(task[q].at, task[q].on.prefix)'
  <2>1. /\ task[q].op = "run" /\ list' = list /\ made' = made
        /\ task'[q] = [op |-> "sent", on |-> task[q].on, todo |-> task[q].todo, at |-> task[q].at, file |-> f]
        /\ stored' = [stored EXCEPT ![task[q].at][task[q].on.prefix] = @ \cup {f}]
    BY <1>0, <1>3 DEF Sends, Does
  <2>2. task[q].at \in Store /\ task[q].on.prefix \in Title
    BY <1>0, <2>1, TaskParts DEF Folder
  <2>3. f \in Known(task[q].at, task[q].on.prefix)'
    BY <1>0, <2>1, <2>2 DEF Known
  <2>. QED  BY <2>1, <2>3 DEF RunsKnow, InList, Alikes
<1>4. ASSUME task'[q] = task[q], made' = made, ~TakesName(q), ~Forgets(q)
      PROVE  /\ InList(list', task'[q].on) /\ made'[task'[q].on.name] = task'[q].at
             /\ task'[q].op = "sent" => task'[q].file \in Known(task[q].at, task[q].on.prefix)'
  <2>1. idx = q /\ InList(list, task[q].on) /\ made[task[q].on.name] = task[q].at
    BY <1>4 DEF IndexHeld, RunsKnow
  <2>2. InList(list', task[q].on)
    BY <1>4, <2>1, KeptStays
  <2>3. ASSUME task[q].op = "sent" PROVE task[q].file \in Known(task[q].at, task[q].on.prefix)'
    <3>1. task[q].file \in Known(task[q].at, task[q].on.prefix)
      BY <2>3 DEF RunsKnow
    <3>2. PICK at \in Store : at = task[q].at
      BY <1>0, <2>3, TaskParts
    <3>3. PICK s \in list : s.prefix = task[q].on.prefix
      BY <2>1 DEF InList, Alikes
    <3>4. PICK u \in list' : u.prefix = s.prefix
      BY <2>2, <3>3 DEF InList, Alikes
    <3>5. Known(at, s.prefix) \subseteq Known(at, s.prefix)'
      BY <3>4, KnownGrows
    <3>. QED  BY <1>4, <3>1, <3>2, <3>3, <3>5 DEF Known
  <2>. QED  BY <1>4, <2>1, <2>2, <2>3
<1>5. ASSUME NEW p \in Program \ {q}, Acts(p)
      PROVE  task'[q] = task[q] /\ made' = made /\ ~TakesName(q) /\ ~Forgets(q)
  <2>1. task'[q] = task[q] /\ idx = q
    BY <1>5, OthersWait DEF IndexHeld
  <2>. QED  BY <1>5, <2>1, IndexIsMine DEF TakesName, Forgets
<1>6. CASE Elsewhere
  BY <1>4, <1>6, ElsewhereIdles DEF TakesName, Forgets
<1>7. CASE Acts(q)
  BY <1>1, <1>2, <1>3, <1>7, TaskFrom
<1>. QED  BY <1>4, <1>5, <1>6, <1>7, WhoActs

LEMMA StaysForgotten ==
    ASSUME Slack = {}, SetsTypes, IndexHeld, Forgotten, [SetsNext]_setVars
    PROVE  Forgotten'
<1>. SUFFICES ASSUME NEW q \in Program, task'[q].op = "forget" PROVE records'[task'[q].on.name] = {}
  BY DEF Forgotten
<1>1. CASE DropsRecords(q)
  <2>1. task[q].on.name \in Title /\ records \in [Title -> SUBSET Item] /\ DOMAIN task = Program
    <3>1. task[q] \in Tasks /\ task[q].op \in {"remove", "purged"}
      BY <1>1 DEF DropsRecords, DropsNow, SetsTypes
    <3>. QED  BY <3>1, TaskParts DEF Folder, SetsTypes
  <2>. QED  BY <1>1, <2>1 DEF DropsRecords, DropSet, Does
<1>2. ASSUME NEW p \in Program \ {q}, Acts(p) PROVE records'[task'[q].on.name] = {}
  <2>1. task'[q] = task[q]
    BY <1>2, OthersWait
  <2>2. idx = q
    BY <2>1 DEF IndexHeld
  <2>. QED  BY <1>2, <2>1, <2>2, IndexIsMine DEF Forgotten
<1>3. CASE Elsewhere
  BY <1>3, ElsewhereIdles DEF Forgotten
<1>. QED  BY <1>1, <1>2, <1>3, WhoActs, TaskFrom

\* What a folder's records say stays true while they and what they are about stay.
LEMMA StillTrue ==
    ASSUME Slack = {}, SetsTypes, [SetsNext]_setVars, NEW s \in list, TrueRecords(s), NEW u \in list', Alikes(u, s),
           records'[s.name] = records[s.name], records[s.name] # {} => About(s.name)' = About(s.name)
    PROVE  TrueRecords(u)'
<1>1. s.name \in Title
  BY DEF SetsTypes, Folder
<1>2. CASE records[s.name] = {}
  BY <1>2 DEF TrueRecords, Alikes
<1>3. CASE records[s.name] # {}
  <2>1. PICK at \in Store : at = About(s.name)
    <3>1. About(s.name)' = About(s.name)
      BY <1>3
    <3>. QED  BY <1>1 DEF SetsTypes, About
  <2>2. records[s.name] \subseteq Known(at, s.prefix)
    BY <2>1 DEF TrueRecords
  <2>3. About(s.name)' = at
    BY <1>3, <2>1
  <2>4. u.name = s.name /\ u.prefix = s.prefix
    BY DEF Alikes
  <2>5. records'[u.name] \subseteq Known(at, s.prefix)'
    <3>1. Known(at, s.prefix) \subseteq Known(at, s.prefix)'
      BY <2>4, KnownGrows
    <3>. QED  BY <2>2, <2>4, <3>1
  <2>. QED  BY <2>3, <2>4, <2>5 DEF TrueRecords
<1>. QED  BY <1>2, <1>3

LEMMA SameNamesToo ==
    ASSUME NEW was, NEW is, SameFolders(was, is)
    PROVE  Names(is) = Names(was)
BY DEF SameFolders, Alikes, Names

\* A step that leaves the index as it is leaves it right.
LEMMA QuietStep ==
    ASSUME Slack = {}, SetsTypes, IndexRight, [SetsNext]_setVars, SameFolders(list, list'), UNCHANGED <<records, made>>,
           \A n \in Title : records[n] # {} => About(n)' = About(n),
           \A p \in Program : task[p].op = "renamed" => task'[p] = task[p] /\ mem'[p] = mem[p],
           \A p \in Program : task'[p].op = "renamed" => task[p].op = "renamed"
    PROVE  IndexRight'
<1>0. SetsTypes /\ list \in SUBSET Folder /\ stored \in [Store -> [Title -> SUBSET Item]]
  BY DEF SetsTypes
<1>1. ASSUME NEW u \in list', NEW s \in list, Alikes(u, s), TrueRecords(s) PROVE TrueRecords(u)'
  <2>1. s.name \in Title
    BY <1>0 DEF Folder
  <2>. QED  BY <1>1, <2>1, StillTrue
<1>2. ASSUME Right PROVE Right'
  <2>1. \A u \in list' : TrueRecords(u)'
    BY <1>1, <1>2 DEF Right, SameFolders
  <2>2. \A m \in Title \ Names(list') : records'[m] = {}
    BY <1>2, SameNamesToo DEF Right
  <2>. QED  BY <2>1, <2>2 DEF Right
<1>3. ASSUME NEW n, RightBut(n) PROVE RightBut(n)'
  <2>1. \A u \in list' : u.name # n => TrueRecords(u)'
    BY <1>1, <1>3 DEF RightBut, SameFolders, Alikes
  <2>2. \A m \in Title \ Names(list') : m # n => records'[m] = {}
    BY <1>3, SameNamesToo DEF RightBut
  <2>. QED  BY <2>1, <2>2 DEF RightBut
<1>4. ASSUME NEW from \in Title, NEW to \in Title, AllMoved(from, to) PROVE AllMoved(from, to)'
  <2>1. PICK s \in list : s.name = from /\ records[to] \subseteq Known(made[from], s.prefix)
    BY <1>4 DEF AllMoved
  <2>2. PICK u \in list' : Alikes(u, s)
    BY DEF SameFolders
  <2>3. made[from] \in Store /\ About(to)' = About(to)
    BY <1>4 DEF AllMoved, SetsTypes
  <2>4. u.name = from /\ records'[to] \subseteq Known(made[from], u.prefix)'
    <3>1. PICK at \in Store : at = made[from]
      BY <2>3
    <3>2. Known(at, s.prefix) \subseteq Known(at, s.prefix)' /\ made'[from] = at
      <4>1. u.prefix = s.prefix
        BY <2>2 DEF Alikes
      <4>. QED  BY <3>1, <4>1, KnownGrows
    <3>3. u.name = from /\ u.prefix = s.prefix
      BY <2>1, <2>2 DEF Alikes
    <3>4. records'[to] \subseteq Known(at, u.prefix)'
      BY <2>1, <3>1, <3>2, <3>3
    <3>. QED  BY <3>2, <3>3, <3>4
  <2>5. RightBut(to)'
    BY <1>3, <1>4 DEF AllMoved
  <2>. QED  BY <1>4, <2>3, <2>4, <2>5 DEF AllMoved
<1>5. ASSUME NEW p \in Program, task'[p].op = "renamed"
      PROVE  NoneMoved(p)' \/ AllMoved(task[p].from, task[p].to)'
  <2>1. task[p].op = "renamed" /\ task'[p] = task[p] /\ mem'[p] = mem[p]
    BY <1>5
  <2>2. CASE NoneMoved(p)
    BY <1>2, <2>1, <2>2 DEF NoneMoved
  <2>3. ASSUME AllMoved(task[p].from, task[p].to) PROVE AllMoved(task[p].from, task[p].to)'
    <3>1. PICK from \in Title, to \in Title : from = task[p].from /\ to = task[p].to
      BY <2>1, TaskParts DEF SetsTypes
    <3>2. AllMoved(from, to)'
      BY <1>4, <2>3, <3>1
    <3>. QED  BY <2>1, <3>1, <3>2 DEF AllMoved, RightBut
  <2>. QED  BY <2>1, <2>2, <2>3 DEF IndexRight
<1>6. (\A p \in Program : task'[p].op # "renamed") => Right'
  <2>1. SUFFICES ASSUME \A p \in Program : task'[p].op # "renamed" PROVE Right'
    OBVIOUS
  <2>2. \A p \in Program : task[p].op # "renamed"
    BY <2>1
  <2>. QED  BY <1>2, <2>2 DEF IndexRight
<1>. QED  BY <1>5, <1>6 DEF IndexRight

\* While no rename is under way the index is right.
LEMMA RightBetween ==
    ASSUME SetsTypes, IndexHeld, IndexRight, \A p \in Program : idx = p => task[p].op # "renamed"
    PROVE  Right
<1>1. \A p \in Program : task[p].op # "renamed"
  BY DEF IndexHeld
<1>. QED  BY <1>1 DEF IndexRight

\* A rename goes on to its second half.
LEMMA HalfWay ==
    ASSUME Slack = {}, SetsTypes, IndexHeld, NEW p \in Program, Acts(p), task[p].op = "renamed"
    PROVE  TakesName(p) \/ NameRefused(p)
<1>1. CASE Added(p) \/ BacksUp(p) \/ Notes(p) \/ EndsRun(p) \/ Parks(p) \/ SaysWhere(p)
  BY <1>1 DEF Added, BacksUp, Notes, EndsRun, Parks, SaysWhere, Opens, Idle
<1>2. CASE MovesRecords(p) \/ TakesName(p) \/ NameRefused(p) \/ Purges(p) \/ PurgeFails(p) \/ DropsRecords(p)
           \/ NotRemoved(p) \/ Forgets(p) \/ IsKilled(p)
  BY <1>2 DEF MovesRecords, TakesName, NameRefused, Purges, PurgeFails, Deletes, DropsRecords, DropsNow, NotRemoved,
              Forgets, IsKilled
<1>3. ASSUME NEW s \in Folder, TakesIndex(p, s) \/ NoIndexFor(p, s) \/ Relink(p, s)
      PROVE  task[p].op # "renamed"
  BY <1>3 DEF TakesIndex, NoIndexFor, Relink, Idle
<1>4. ASSUME NEW f \in Item, Sends(p, f) PROVE task[p].op = "run"
  BY <1>4 DEF Sends
<1>5. ASSUME NEW u, Opens(p, u) PROVE task[p].op = "none"
  BY <1>5 DEF Opens, Idle
<1>. QED  BY <1>1, <1>2, <1>3, <1>4, <1>5 DEF Acts, AddFolder, Renames, Removes

Writes(p) ==
    \/ Added(p) \/ Notes(p) \/ MovesRecords(p) \/ TakesName(p) \/ NameRefused(p)
    \/ DropsRecords(p) \/ Forgets(p) \/ \E s \in Folder : TakesIndex(p, s)
LEMMA OthersAreQuiet ==
    ASSUME Slack = {}, SetsTypes, IndexHeld, IndexRight, [SetsNext]_setVars,
           \A p \in Program : ~Writes(p)
    PROVE  IndexRight'
<1>1. UNCHANGED <<records, made>>
  <2>1. ASSUME NEW p \in Program, Acts(p) PROVE UNCHANGED <<records, made>>
    BY <2>1 DEF Writes, Acts, BacksUp, EndsRun, Parks, SaysWhere, NotRemoved, IsKilled, AddFolder, Sends,
                NoIndexFor, Relink, Renames, Removes, Purges, PurgeFails, Deletes
  <2>. QED  BY <2>1, WhoActs, ElsewhereIdles
<1>2. ASSUME NEW n \in Title, records[n] # {} PROVE About(n)' = About(n)
  <2>1. ASSUME NEW p \in Program, Acts(p) PROVE here' = here
    BY <2>1 DEF Writes, Acts, BacksUp, EndsRun, Parks, SaysWhere, NotRemoved, IsKilled, AddFolder, Sends,
                NoIndexFor, Relink, Renames, Removes, Purges, PurgeFails, Deletes
  <2>2. ASSUME NEW s \in Store, SwitchStore(s) PROVE here' = here \/ made[n] # NoStore
    <3>1. made[n] = here \/ made[n] # NoStore
      BY <1>2, <2>2 DEF SwitchStore, Settled
    <3>2. here # NoStore
      BY SetStoreAssumption DEF SetsTypes
    <3>. QED  BY <3>1, <3>2
  <2>3. here' = here \/ made[n] # NoStore
    BY <2>1, <2>2, WhoActs DEF Elsewhere, Draws, setVars, DeletesStored, FolderMoves
  <2>. QED  BY <1>1, <2>3 DEF About
<1>3. SameFolders(list, list')
  BY ListGoes DEF Writes
<1>6. ASSUME NEW q \in Program, task[q].op = "renamed" PROVE task'[q] = task[q] /\ mem'[q] = mem[q]
  <2>1. ~Acts(q)
    BY <1>6, HalfWay DEF Writes
  <2>. QED  BY <1>6, <2>1, OthersWait, ElsewhereIdles, WhoActs
<1>7. ASSUME NEW q \in Program, task'[q].op = "renamed" PROVE task[q].op = "renamed"
  <2>1. ~Acts(q)
    BY <1>7, TaskFrom DEF Writes
  <2>. QED  BY <1>7, <2>1, OthersWait, ElsewhereIdles, WhoActs
<1>. QED  BY <1>1, <1>2, <1>3, <1>6, <1>7, QuietStep

LEMMA AddedRight ==
    ASSUME Slack = {}, SetsInv, [SetsNext]_setVars, SetsTypes', NEW p \in Program, Added(p)
    PROVE  IndexRight'
<1>. USE DEF SetsInv
<1>01. PICK on \in Folder : on = task[p].on
  BY TaskParts DEF Added, SetsTypes
<1>0. /\ list' = list \cup {on} /\ on.name \notin Names(list) /\ UNCHANGED <<records, made, here, stored, gone>>
      /\ Acts(p) /\ task[p].op = "add" /\ task'[p].op \in {"none", "backup"}
  BY <1>01, AddedNew, TaskParts DEF Added, SetsTypes, Acts, Does, Backs, Idle
<1>1. \A q \in Program \ {p} : task'[q] = task[q] /\ mem'[q] = mem[q]
  BY <1>0, OthersWait
<1>2. ASSUME NEW s \in list, TrueRecords(s) PROVE TrueRecords(s)'
  <2>1. Alikes(s, s) /\ About(s.name)' = About(s.name)
    BY <1>0 DEF Alikes, About
  <2>. QED  BY <1>0, <1>2, <2>1, StillTrue
<1>3. ASSUME records[on.name] = {} PROVE TrueRecords(on)'
  BY <1>0, <1>3 DEF TrueRecords
<1>4. Names(list') = Names(list) \cup {on.name} /\ on.name \in Title
  BY <1>0 DEF Names, Folder
<1>5. ASSUME Right PROVE Right'
  BY <1>0, <1>2, <1>3, <1>4, <1>5 DEF Right
<1>6. ASSUME NEW to \in Title, RightBut(to) PROVE RightBut(to)'
  BY <1>0, <1>2, <1>3, <1>4, <1>6 DEF RightBut
<1>7. ASSUME NEW from \in Title, NEW to \in Title, AllMoved(from, to) PROVE AllMoved(from, to)'
  <2>1. About(to)' = About(to) /\ \A at, x : Known(at, x)' = Known(at, x)
    BY <1>0 DEF About, Known
  <2>. QED  BY <1>0, <1>6, <1>7, <2>1 DEF AllMoved
<1>8. ASSUME NEW q \in Program, task'[q].op = "renamed"
      PROVE  NoneMoved(q)' \/ AllMoved(task[q].from, task[q].to)'
  <2>1. task[q].op = "renamed" /\ task'[q] = task[q] /\ mem'[q] = mem[q]
    BY <1>0, <1>1, <1>8
  <2>2. CASE NoneMoved(q)
    BY <1>0, <1>5, <2>1, <2>2 DEF NoneMoved
  <2>3. ASSUME AllMoved(task[q].from, task[q].to) PROVE AllMoved(task[q].from, task[q].to)'
    <3>1. PICK from \in Title, to \in Title : from = task[q].from /\ to = task[q].to
      BY <2>1, TaskParts DEF SetsTypes
    <3>2. AllMoved(from, to)'
      BY <1>7, <2>3, <3>1
    <3>. QED  BY <2>1, <3>1, <3>2 DEF AllMoved, RightBut
  <2>. QED  BY <2>1, <2>2, <2>3 DEF IndexRight
<1>9. ASSUME \A q \in Program : task'[q].op # "renamed" PROVE Right'
  <2>1. \A q \in Program : task[q].op # "renamed"
    BY <1>0, <1>1, <1>9
  <2>. QED  BY <1>5, <2>1 DEF IndexRight
<1>. QED  BY <1>8, <1>9 DEF IndexRight

\* And the other way round.
LEMMA RightAfter ==
    ASSUME IndexHeld', \A p \in Program : idx' = p => task'[p].op # "renamed", Right'
    PROVE  IndexRight'
<1>1. \A p \in Program : task'[p].op # "renamed"
  BY DEF IndexHeld
<1>. QED  BY <1>1 DEF IndexRight

LEMMA RightHalfWay ==
    ASSUME IndexHeld', NEW p \in Program, idx' = p, task'[p].op = "renamed",
           NoneMoved(p)' \/ AllMoved(task[p].from, task[p].to)'
    PROVE  IndexRight'
<1>1. \A q \in Program : task'[q].op = "renamed" => q = p
  BY DEF IndexHeld
<1>. QED  BY <1>1 DEF IndexRight

\* A step that changes one folder's records at most leaves what the others say as it was.
LEMMA OthersTrue ==
    ASSUME Slack = {}, SetsTypes, [SetsNext]_setVars, NEW n,
           \A m \in Title : m # n => records'[m] = records[m] /\ made'[m] = made[m],
           here' = here, NEW s \in list, s.name # n, TrueRecords(s), s \in list'
    PROVE  TrueRecords(s)'
<1>1. s.name \in Title
  BY DEF SetsTypes, Folder
<1>2. About(s.name)' = About(s.name)
  BY <1>1 DEF About
<1>. QED  BY <1>1, <1>2, StillTrue DEF Alikes

LEMMA NotedRight ==
    ASSUME Slack = {}, SetsInv, [SetsNext]_setVars, SetsTypes', IndexHeld', NEW p \in Program, Notes(p)
    PROVE  IndexRight'
<1>. USE DEF SetsInv
<1>0. PICK n \in Title, at \in Store, f \in Item, x \in Title :
        n = task[p].on.name /\ at = task[p].at /\ f = task[p].file /\ x = task[p].on.prefix
  BY TaskParts DEF Notes, SetsTypes, Folder
<1>1. /\ task[p].op = "sent" /\ idx = p /\ idx' = p /\ Acts(p) /\ task'[p].op = "run"
      /\ records' = [records EXCEPT ![n] = @ \cup {f}] /\ UNCHANGED <<list, made, stored, here, gone>>
      /\ records \in [Title -> SUBSET Item]
  BY <1>0 DEF Notes, IndexHeld, Acts, Does, SetsTypes
<1>2. made[n] = at /\ f \in Known(at, x) /\ InList(list, task[p].on) /\ at # NoStore
  BY <1>0, <1>1, SetStoreAssumption DEF RunsKnow
<1>3. Right
  BY <1>1, RightBetween
<1>4. ASSUME NEW s \in list, s.name = n PROVE TrueRecords(s)'
  <2>1. s.prefix = x
    BY <1>0, <1>2, <1>4 DEF InList, Alikes, SetsTypes, OneOfAName
  <2>2. About(n) = at /\ About(n)' = at
    BY <1>1, <1>2 DEF About
  <2>3. records[n] \subseteq Known(at, x)
    BY <1>3, <1>4, <2>1, <2>2 DEF Right, TrueRecords
  <2>4. Known(at, x)' = Known(at, x)
    BY <1>1 DEF Known
  <2>5. records'[n] \subseteq Known(at, x)'
    BY <1>1, <1>2, <2>3, <2>4
  <2>. QED  BY <1>4, <2>1, <2>2, <2>5 DEF TrueRecords
<1>5. ASSUME NEW s \in list, s.name # n PROVE TrueRecords(s)'
  <2>1. TrueRecords(s)
    BY <1>3 DEF Right
  <2>. QED  BY <1>1, <1>5, <2>1, OthersTrue
<1>6. n \in Names(list)
  BY <1>0, <1>2 DEF InList, Alikes, Names
<1>7. Right'
  BY <1>1, <1>3, <1>4, <1>5, <1>6 DEF Right, Names
<1>. QED  BY <1>1, <1>7, RightAfter DEF IndexHeld

LEMMA TakenRight ==
    ASSUME Slack = {}, SetsInv, [SetsNext]_setVars, SetsTypes', IndexHeld', NEW p \in Program,
           NEW u \in Folder, TakesIndex(p, u)
    PROVE  IndexRight'
<1>. USE DEF SetsInv
<1>0. PICK at \in Store : at = task[p].at
  BY TaskParts DEF TakesIndex, SetsTypes
<1>1. /\ task[p].op = "backup" /\ idx = Nobody /\ idx' = p /\ Acts(p) /\ task'[p].op \in {"run", "missing"}
      /\ records' = [records EXCEPT ![u.name] = TrueOf(u, at)]
      /\ made' = [made EXCEPT ![u.name] = at] /\ UNCHANGED <<list, stored, here, gone>>
      /\ records \in [Title -> SUBSET Item] /\ made \in [Title -> Store \cup {NoStore}]
      /\ u.name \in Title /\ p # Nobody /\ at # NoStore
  BY <1>0, SetStoreAssumption DEF TakesIndex, Acts, Does, SetsTypes, Folder
<1>2. Right
  BY <1>1, RightBetween, SetStoreAssumption
<1>3. ASSUME NEW s \in list, s.name = u.name PROVE TrueRecords(s)'
  <2>1. s.prefix = u.prefix
    BY <1>3 DEF TakesIndex, SetsTypes, OneOfAName
  <2>2. About(u.name)' = at
    BY <1>1 DEF About
  <2>3. TrueOf(u, at) \subseteq Known(at, u.prefix)
    <3>1. CASE made[u.name] \notin {NoStore, at}
      BY <3>1 DEF TrueOf, Known
    <3>2. CASE made[u.name] \in {NoStore, at} /\ records[u.name] = {}
      BY <3>2 DEF TrueOf
    <3>3. CASE made[u.name] \in {NoStore, at} /\ records[u.name] # {}
      <4>1. About(u.name) = at
        BY <1>0, <1>1, <3>3 DEF TakesIndex, SettledFor, About
      <4>2. TrueOf(u, at) = records[u.name]
        BY <3>3 DEF TrueOf
      <4>. QED  BY <1>2, <1>3, <2>1, <4>1, <4>2 DEF Right, TrueRecords
    <3>. QED  BY <3>1, <3>2, <3>3
  <2>4. Known(at, u.prefix)' = Known(at, u.prefix)
    BY <1>1 DEF Known
  <2>5. records'[u.name] \subseteq Known(at, u.prefix)'
    BY <1>1, <2>3, <2>4
  <2>. QED  BY <1>3, <2>1, <2>2, <2>5 DEF TrueRecords
<1>4. ASSUME NEW s \in list, s.name # u.name PROVE TrueRecords(s)'
  <2>1. TrueRecords(s)
    BY <1>2 DEF Right
  <2>. QED  BY <1>1, <1>4, <2>1, OthersTrue
<1>5. u.name \in Names(list)
  BY <1>1 DEF TakesIndex, Names
<1>6. Right'
  BY <1>1, <1>2, <1>3, <1>4, <1>5 DEF Right, Names
<1>. QED  BY <1>1, <1>6, RightAfter DEF IndexHeld

LEMMA MovedRight ==
    ASSUME Slack = {}, SetsInv, [SetsNext]_setVars, SetsTypes', IndexHeld', NEW p \in Program, MovesRecords(p)
    PROVE  IndexRight'
<1>. USE DEF SetsInv
<1>0. PICK from \in Title, to \in Title : from = task[p].from /\ to = task[p].to
  BY TaskParts DEF MovesRecords, SetsTypes
<1>1. /\ task[p].op = "rename" /\ idx = Nobody /\ Acts(p) /\ UNCHANGED <<list, mem, made, stored, here, gone>>
      /\ records \in [Title -> SUBSET Item] /\ made \in [Title -> Store \cup {NoStore}]
      /\ here # NoStore
  BY SetStoreAssumption DEF MovesRecords, Acts, SetsTypes
<1>2. Right
  BY <1>1, RightBetween, SetStoreAssumption
<1>3. ASSUME records' = records, NEW s \in list PROVE TrueRecords(s)'
  <2>1. TrueRecords(s)
    BY <1>2 DEF Right
  <2>2. s.name \in Title /\ About(s.name)' = About(s.name)
    BY <1>1 DEF SetsTypes, Folder, About
  <2>. QED  BY <1>1, <1>3, <2>1, <2>2, StillTrue DEF Alikes
<1>4. records' = records => Right'
  BY <1>1, <1>2, <1>3 DEF Right, Names
<1>5. CASE records[from] = {}
  <2>1. records' = records /\ task'[p] = [task[p] EXCEPT !.op = "renamed"] /\ idx' = p
    BY <1>0, <1>5 DEF MovesRecords, Does, SetsTypes
  <2>2. task'[p].op = "renamed" /\ task'[p].from = from /\ task'[p].to = to
    BY <1>0, <1>1, <2>1, SecondHalf DEF SetsTypes
  <2>3. to \notin Names(mem[p])
    BY <1>0, <1>5 DEF MovesRecords
  <2>4. NoneMoved(p)'
    BY <1>1, <1>4, <1>5, <2>1, <2>2, <2>3 DEF NoneMoved, Names
  <2>. QED  BY <2>1, <2>2, <2>4, RightHalfWay
<1>6. CASE records[from] # {} /\ records[to] = {}
  <2>1. records' = Moved(from, to) /\ task'[p] = [task[p] EXCEPT !.op = "renamed"] /\ idx' = p
    BY <1>0, <1>6 DEF MovesRecords, Does, SetsTypes
  <2>2. task'[p].op = "renamed" /\ task'[p].from = from /\ task'[p].to = to
    BY <1>0, <1>1, <2>1, SecondHalf DEF SetsTypes
  <2>3. /\ records'[from] = {} /\ records'[to] = records[from]
        /\ \A m \in Title : m # from /\ m # to => records'[m] = records[m]
    BY <1>1, <1>6, <2>1 DEF Moved
  <2>4. made[from] = here /\ About(to) = here /\ About(to)' = here
    BY <1>0, <1>1, <1>6 DEF MovesRecords, Settled, SettledAs, About
  <2>5. PICK s \in list : s.name = from
    BY <1>2, <1>6 DEF Right, Names
  <2>7. records[from] \subseteq Known(here, s.prefix)
    BY <1>1, <1>2, <2>4, <2>5 DEF Right, TrueRecords, About
  <2>8. ASSUME NEW u \in list, u.name # to PROVE TrueRecords(u)'
    <3>1. CASE u.name = from
      BY <2>3, <3>1 DEF TrueRecords
    <3>2. CASE u.name # from
      <4>1. TrueRecords(u) /\ u.name \in Title
        BY <1>2 DEF Right, SetsTypes, Folder
      <4>2. About(u.name)' = About(u.name) /\ records'[u.name] = records[u.name]
        BY <1>1, <2>3, <2>8, <3>2, <4>1 DEF About
      <4>. QED  BY <1>1, <4>1, <4>2, StillTrue DEF Alikes
    <3>. QED  BY <3>1, <3>2
  <2>9. RightBut(to)'
    BY <1>1, <1>2, <2>3, <2>8 DEF RightBut, Right, Names
  <2>10. AllMoved(from, to)'
    <3>1. Known(here, s.prefix)' = Known(here, s.prefix) /\ here' = here /\ made'[from] = here
      BY <1>1, <2>4 DEF Known
    <3>2. records'[to] \subseteq Known(here, s.prefix)'
      BY <1>1, <2>3, <2>7, <3>1 DEF Known
    <3>3. s \in list' /\ records'[to] \subseteq Known(made[from], s.prefix)'
      BY <1>1, <2>4, <3>1, <3>2 DEF Known
    <3>. QED  BY <1>1, <1>6, <2>3, <2>4, <2>5, <2>9, <3>3 DEF AllMoved
  <2>11. AllMoved(task[p].from, task[p].to)'
    BY <2>2, <2>10 DEF AllMoved, RightBut
  <2>. QED  BY <2>1, <2>2, <2>11, RightHalfWay
<1>7. CASE records[from] # {} /\ records[to] # {}
  <2>1. records' = records /\ idx' = Nobody
    BY <1>0, <1>1, <1>7 DEF MovesRecords
  <2>. QED  BY <1>4, <2>1, RightAfter, SetStoreAssumption
<1>. QED  BY <1>5, <1>6, <1>7

LEMMA RenamedRight ==
    ASSUME Slack = {}, SetsInv, [SetsNext]_setVars, SetsTypes', IndexHeld', NEW p \in Program, TakesName(p)
    PROVE  IndexRight'
<1>. USE DEF SetsInv
<1>0. PICK from \in Title, to \in Title : from = task[p].from /\ to = task[p].to
  BY TaskParts DEF TakesName, SetsTypes
<1>. DEFINE G(s) == IF s.name = from THEN [s EXCEPT !.name = to] ELSE s
<1>1. /\ task[p].op = "renamed" /\ idx = p /\ idx' = Nobody /\ Acts(p) /\ to \notin Names(list)
      /\ UNCHANGED <<records, made, stored, here, gone>>
      /\ list' = {G(s) : s \in list} /\ mem[p] = list
  BY <1>0 DEF TakesName, NameTaken, Saves, Acts, IndexHeld
<1>2. \A s \in list : G(s).prefix = s.prefix /\ G(s).name = (IF s.name = from THEN to ELSE s.name)
                      /\ (s.name # from => G(s) = s)
  BY DEF SetsTypes, Folder
<1>. HIDE DEF G
<1>3. ASSUME NEW s \in list, s.name # from, TrueRecords(s) PROVE TrueRecords(G(s))'
  <2>1. s.name \in Title /\ About(s.name)' = About(s.name) /\ G(s) = s /\ s \in list'
    BY <1>1, <1>2, <1>3 DEF SetsTypes, Folder, About
  <2>. QED  BY <1>1, <1>3, <2>1, StillTrue DEF Alikes
<1>4. ASSUME NoneMoved(p) PROVE Right'
  <2>1. Right /\ records[from] = {} /\ records[to] = {}
    BY <1>0, <1>1, <1>4 DEF NoneMoved, Right
  <2>2. ASSUME NEW s \in list PROVE TrueRecords(G(s))'
    <3>1. CASE s.name = from
      <4>1. records'[G(s).name] = {}
        BY <1>1, <1>2, <2>1, <3>1
      <4>. QED  BY <4>1 DEF TrueRecords
    <3>2. CASE s.name # from
      BY <1>3, <2>1, <3>2 DEF Right
    <3>. QED  BY <3>1, <3>2
  <2>3. ASSUME NEW m \in Title \ Names(list') PROVE records'[m] = {}
    <3>1. m = from \/ m \notin Names(list)
      BY <1>1, <1>2 DEF Names
    <3>. QED  BY <1>1, <2>1, <3>1 DEF Right
  <2>. QED  BY <1>1, <2>2, <2>3 DEF Right
<1>5. ASSUME AllMoved(task[p].from, task[p].to) PROVE Right'
  <2>0. AllMoved(from, to)
    BY <1>0, <1>5
  <2>1. PICK u \in list : u.name = from /\ records[to] \subseteq Known(made[from], u.prefix)
    BY <2>0 DEF AllMoved
  <2>2. ASSUME NEW s \in list PROVE TrueRecords(G(s))'
    <3>1. CASE s.name = from
      <4>1. s = u /\ G(s).name = to /\ G(s).prefix = u.prefix
        BY <1>2, <2>1, <3>1 DEF SetsTypes, OneOfAName
      <4>2. About(to)' = made[from]
        BY <1>1, <2>0 DEF AllMoved, About
      <4>. QED  BY <1>1, <2>1, <4>1, <4>2 DEF TrueRecords, Known
    <3>2. CASE s.name # from
      <4>1. s.name # to
        BY <1>1 DEF Names
      <4>. QED  BY <1>3, <2>0, <3>2, <4>1 DEF AllMoved, RightBut
    <3>. QED  BY <3>1, <3>2
  <2>3. ASSUME NEW m \in Title \ Names(list') PROVE records'[m] = {}
    <3>1. m = from \/ m \notin Names(list)
      BY <1>1, <1>2 DEF Names
    <3>2. m # to
      <4>1. G(u) \in list' /\ G(u).name = to
        BY <1>1, <1>2, <2>1
      <4>. QED  BY <4>1 DEF Names
    <3>. QED  BY <1>1, <2>0, <3>1, <3>2 DEF AllMoved, RightBut
  <2>. QED  BY <1>1, <2>2, <2>3 DEF Right
<1>6. Right'
  BY <1>1, <1>4, <1>5 DEF IndexRight
<1>. QED  BY <1>1, <1>6, RightAfter, SetStoreAssumption

LEMMA RefusedRight ==
    ASSUME Slack = {}, SetsInv, [SetsNext]_setVars, SetsTypes', IndexHeld', NEW p \in Program, NameRefused(p)
    PROVE  IndexRight'
<1>. USE DEF SetsInv
<1>0. PICK from \in Title, to \in Title : from = task[p].from /\ to = task[p].to
  BY TaskParts DEF NameRefused, SetsTypes
<1>1. /\ task[p].op = "renamed" /\ idx = p /\ idx' = Nobody /\ Acts(p) /\ to \in Names(mem[p])
      /\ UNCHANGED <<list, made, stored, here, gone>> /\ records \in [Title -> SUBSET Item]
  BY <1>0 DEF NameRefused, NameTaken, Acts, IndexHeld, SetsTypes
<1>2. AllMoved(from, to)
  BY <1>0, <1>1 DEF IndexRight, NoneMoved
<1>3. records' = Moved(to, from)
  BY <1>0, <1>2 DEF NameRefused, PutBack, AllMoved
<1>4. /\ records'[to] = {} /\ records'[from] = records[to]
      /\ \A m \in Title : m # from /\ m # to => records'[m] = records[m]
  BY <1>1, <1>2, <1>3 DEF Moved, AllMoved
<1>5. PICK u \in list : u.name = from /\ records[to] \subseteq Known(made[from], u.prefix)
  BY <1>2 DEF AllMoved
<1>6. ASSUME NEW s \in list PROVE TrueRecords(s)'
  <2>1. CASE s.name = to
    BY <1>4, <2>1 DEF TrueRecords
  <2>2. CASE s.name = from
    <3>1. s = u /\ About(from)' = made[from]
      BY <1>1, <1>2, <1>5, <2>2 DEF SetsTypes, OneOfAName, AllMoved, About
    <3>. QED  BY <1>1, <1>4, <1>5, <2>2, <3>1 DEF TrueRecords, Known
  <2>3. CASE s.name # to /\ s.name # from
    <3>1. TrueRecords(s) /\ s.name \in Title
      BY <1>2, <2>3 DEF AllMoved, RightBut, SetsTypes, Folder
    <3>2. About(s.name)' = About(s.name) /\ records'[s.name] = records[s.name]
      BY <1>1, <1>4, <2>3, <3>1 DEF About
    <3>. QED  BY <1>1, <3>1, <3>2, StillTrue DEF Alikes
  <2>. QED  BY <2>1, <2>2, <2>3
<1>7. ASSUME NEW m \in Title \ Names(list) PROVE records'[m] = {}
  <2>1. m # from
    BY <1>5 DEF Names
  <2>. QED  BY <1>2, <1>4, <2>1 DEF AllMoved, RightBut
<1>8. Right'
  BY <1>1, <1>6, <1>7 DEF Right, Names
<1>. QED  BY <1>1, <1>8, RightAfter, SetStoreAssumption

LEMMA DroppedRight ==
    ASSUME Slack = {}, SetsInv, [SetsNext]_setVars, SetsTypes', IndexHeld', NEW p \in Program, DropsRecords(p)
    PROVE  IndexRight'
<1>. USE DEF SetsInv
<1>0. PICK n \in Title : n = task[p].on.name
  BY TaskParts DEF DropsRecords, DropsNow, SetsTypes, Folder
<1>1. /\ idx = Nobody /\ idx' = p /\ Acts(p) /\ task'[p].op = "forget" /\ UNCHANGED <<list, made, stored, here>>
      /\ records' = [records EXCEPT ![n] = {}] /\ records \in [Title -> SUBSET Item]
  BY <1>0 DEF DropsRecords, Acts, Does, DropSet, SetsTypes
<1>2. Right
  BY <1>1, RightBetween, SetStoreAssumption
<1>3. ASSUME NEW s \in list PROVE TrueRecords(s)'
  <2>1. CASE s.name = n
    BY <1>1, <2>1 DEF TrueRecords
  <2>2. CASE s.name # n
    <3>1. TrueRecords(s)
      BY <1>2 DEF Right
    <3>. QED  BY <1>0, <1>1, <2>2, <3>1, OthersTrue
  <2>. QED  BY <2>1, <2>2
<1>4. Right'
  BY <1>1, <1>2, <1>3 DEF Right, Names
<1>. QED  BY <1>1, <1>4, RightAfter

LEMMA ForgottenRight ==
    ASSUME Slack = {}, SetsInv, [SetsNext]_setVars, SetsTypes', IndexHeld', NEW p \in Program, Forgets(p)
    PROVE  IndexRight'
<1>. USE DEF SetsInv
<1>0. PICK n \in Title : n = task[p].on.name
  BY TaskParts DEF Forgets, SetsTypes, Folder
<1>1. /\ task[p].op = "forget" /\ idx = p /\ idx' = Nobody /\ Acts(p) /\ UNCHANGED <<records, made, stored, here>>
      /\ list' = {s \in list : s.name # n} /\ records[n] = {}
  BY <1>0 DEF Forgets, Acts, Saves, IndexHeld, Forgotten
<1>2. Right
  BY <1>1, RightBetween
<1>3. ASSUME NEW s \in list' PROVE TrueRecords(s)'
  <2>1. s \in list /\ s.name # n /\ TrueRecords(s)
    BY <1>1, <1>2 DEF Right
  <2>. QED  BY <1>1, <2>1, OthersTrue
<1>4. \A m \in Title \ Names(list') : records'[m] = {}
  BY <1>1, <1>2 DEF Right, Names
<1>5. Right'
  BY <1>3, <1>4 DEF Right
<1>. QED  BY <1>1, <1>5, RightAfter, SetStoreAssumption

LEMMA IndexStaysRight ==
    ASSUME Slack = {}, SetsInv, [SetsNext]_setVars, SetsTypes', IndexHeld'
    PROVE  IndexRight'
<1>1. CASE \A p \in Program : ~Writes(p)
  BY <1>1, OthersAreQuiet DEF SetsInv
<1>. QED  BY <1>1, AddedRight, NotedRight, TakenRight, MovedRight, RenamedRight, RefusedRight,
             DroppedRight, ForgottenRight DEF Writes

LEMMA SetsStart == SetsInit => SetsInv
BY SetsStartTyped, SetStoreAssumption
   DEF SetsInit, SetsInv, IndexHeld, PrefixesApart, RunsKnow, Forgotten, IndexRight,
       Right, TrueRecords, Idle, SetsTypes

LEMMA SetsStay == Slack = {} /\ SetsInv /\ [SetsNext]_setVars => SetsInv'
<1>. SUFFICES ASSUME Slack = {}, SetsInv, [SetsNext]_setVars PROVE SetsInv'
  OBVIOUS
<1>1. SetsTypes' /\ IndexHeld'
  BY SetsTyped, IndexStaysHeld DEF SetsInv
<1>2. PrefixesApart' /\ RunsKnow' /\ Forgotten'
  BY <1>1, PrefixesStayApart, RunsStillKnow, StaysForgotten DEF SetsInv
<1>3. IndexRight'
  BY <1>1, IndexStaysRight
<1>. QED  BY <1>1, <1>2, <1>3 DEF SetsInv

\* The list, the copies of it, the index and storage hold what they may, and
\* every program is at a step there is, whatever is allowed to go wrong.
THEOREM SetsKeepTypes == SetsSpec => []SetsTypeOK
<1>1. SetsTypes => SetsTypeOK
  <2>1. ASSUME NEW t \in Tasks PROVE TaskType(t)
    BY TaskParts DEF TaskType
  <2>. QED  BY <2>1 DEF SetsTypes, SetsTypeOK, OneOfAName
<1>. QED  BY <1>1, SetsStartTyped, SetsTyped, PTL DEF SetsSpec

\* What the index has of a folder is in storage whenever a run can look, or was
\* deleted by a removal of that folder that failed, was interrupted or is not over.
\* So it stays through runs, additions, renames in both their steps, removals with
\* and without the backup, failing and killed ones, switches of storage whose records
\* a run has tied to one, and kills, of any number of programs at once.  Slack = {}
\* leaves out: a name used again for a prefix in use, a run or a save over a list
\* that another program changed meanwhile, a kill between the halves of a rename,
\* switches of storage and renames before a run has tied the records, and the name
\* of a backed-up folder taken by one never backed up.
THEOREM RecordsAreTrue ==
    ASSUME Slack = {}
    PROVE  SetsSpec => []RecordsHold
<1>1. SetsInv => RecordsHold
  <2>. SUFFICES ASSUME SetsInv, idx = Nobody \/ Running(idx)
                PROVE  Right
    BY DEF Right, TrueRecords, Known, About, RecordsHold
  <2>1. \A p \in Program : idx = p => task[p].op # "renamed"
    BY SetStoreAssumption DEF Running
  <2>. QED  BY <2>1, RightBetween DEF SetsInv
<1>2. SetsInv /\ [SetsNext]_setVars => SetsInv'
  BY SetsStay
<1>. QED  BY <1>1, <1>2, SetsStart, PTL DEF SetsSpec

\* Only the removal of a folder takes anything from what storage keeps of it.
THEOREM PurgesSpareOthers ==
    ASSUME "stale" \notin Slack
    PROVE  SetsSpec => PurgeSparesOthers
<1>. DEFINE Spares == \A s \in list, at \in Store :
                        ~(stored[at][s.prefix] \subseteq stored'[at][s.prefix]) =>
                            \E p \in Program : Purging(p) /\ task[p].on.prefix = s.prefix
<1>1. SetsTypes /\ [SetsNext]_setVars => Spares
  BY StoredGrows DEF Purges, PurgeFails, Deletes, Purging
<1>2. SetsTypes /\ [SetsNext]_setVars => [Spares]_setVars
  BY <1>1
<1>. HIDE DEF Spares
<1>3. SetsSpec => [][Spares]_setVars
  BY <1>2, SetsStartTyped, SetsTyped, PTL DEF SetsSpec
<1>. QED  BY <1>3 DEF Spares, PurgeSparesOthers

(***************************************************************************)
(* The schedule.                                                           *)
(*                                                                         *)
(* A wish is written down as hours and minutes, seconds or lines of a      *)
(* crontab, and each of these says again what was asked: that is           *)
(* arithmetic, done first.  What Install and Remove leave when they say    *)
(* they worked is one of four things (Gone, InFile, InTask, InCron), and   *)
(* each stays what it is through a new session.  A repair installs what it *)
(* reads, so the panel may hold no other status than what is there: what   *)
(* it looked at is dropped by its own changes, and before the first of     *)
(* them there was nothing to see.                                          *)
(***************************************************************************)
Mins     == 5..1440
Asks     == ({"every"} \X Mins) \cup ({"daily"} \X (0..1439))
Logon    == {"S4U", "InteractiveToken"}
\* What a plist or a unit file says for so many minutes.
FileOf(m) == IF os = "darwin" THEN StartInterval(m) ELSE Span(m)
Files    == {FileOf(m) : m \in Mins}
TaskOf   == {Task(w, place, logon) : w \in Asks, place \in Place, logon \in Logon}
Entry    == [file : Files \cup {Off}, aim : Place \cup {Off}, enabled : BOOLEAN, held : Files \cup {Off},
             task : TaskOf \cup {Off}, unstopped : BOOLEAN]
Line     == [name : Name, aim : Place, minutes : SUBSET (0..59), hours : SUBSET (0..23)]
Status   == Asks \cup {Off, <<"every", 0>>}
\* What is held in memory is on disk, unless a request that failed left it there.
HeldOnDisk(r) == r.held # Off => r.file # Off \/ r.unstopped
SchedTypes ==
    /\ os \in {"linux", "darwin", "windows"} /\ manager \in {"none", "silent", "up"}
    /\ reg \in [Name -> Entry] /\ \A n \in Name : HeldOnDisk(reg[n])
    /\ crontab \in SUBSET Line /\ exe \in Place
    /\ seen \in [Name -> SUBSET Status] /\ told \in [Name -> BOOLEAN]
    /\ asked \in [Name -> [wish : Asks, aim : Place] \cup {Off}]
    /\ uses \in 0..MaxAsked /\ slips \in 0..MaxSlipped /\ moves \in 0..MaxMoved

\* Whole hours and what is left over make a number of minutes again.
LEMMA HoursAndMinutes ==
    ASSUME NEW n \in Nat
    PROVE  /\ Minutes(Hm(n)) = n /\ SpanMinutes(Span(n)) = n /\ StartMinutes(StartInterval(n)) = n
           /\ Hm(n) \in Nat \X Nat /\ Span(n) \in Nat \X {"h", "min"} /\ StartInterval(n) \in Nat
<1>1. 60 * (n \div 60) + (n % 60) = n /\ n \div 60 \in Nat /\ n % 60 \in Nat
  OBVIOUS
<1>2. Minutes(Hm(n)) = n /\ Hm(n) \in Nat \X Nat
  BY <1>1 DEF Minutes, Hm
<1>3. SpanMinutes(Span(n)) = n /\ Span(n) \in Nat \X {"h", "min"}
  BY <1>1 DEF SpanMinutes, Span
<1>4. StartMinutes(StartInterval(n)) = n /\ StartInterval(n) \in Nat
  BY DEF StartMinutes, StartInterval
<1>. QED  BY <1>2, <1>3, <1>4

LEMMA AskParts ==
    ASSUME NEW w \in Asks
    PROVE  /\ w[1] \in {"every", "daily"} /\ w[2] \in Nat /\ w = <<w[1], w[2]>> /\ w # Off
           /\ w[1] = "every" => w[2] \in Mins
           /\ w[1] = "daily" => w[2] \in 0..1439
           /\ Repaired(w) = w
<1>1. w[1] \in {"every", "daily"} /\ w[2] \in Nat /\ w = <<w[1], w[2]>>
      /\ (w[1] = "every" => w[2] \in Mins) /\ (w[1] = "daily" => w[2] \in 0..1439)
  BY DEF Asks, Mins
<1>2. w \in {"every", "daily"} \X Nat
  BY <1>1
<1>3. w # Off
  BY <1>2, OffAssumption
<1>4. Repaired(w) = w
  BY <1>1 DEF Repaired, Mins
<1>. QED  BY <1>1, <1>3, <1>4

\* A wish is read back from a task as it was written.
LEMMA TaskReads ==
    ASSUME NEW w \in Asks, NEW place \in Place, NEW logon \in Logon
    PROVE  /\ TaskWish(Task(w, place, logon)) = w /\ Task(w, place, logon).aim = place
           /\ Task(w, place, logon) # Off
<1>1. w[1] \in {"every", "daily"} /\ w[2] \in Nat /\ w = <<w[1], w[2]>>
  BY AskParts
<1>2. Hm(w[2]) \in Nat \X Nat /\ Minutes(Hm(w[2])) = w[2] /\ Hm(0) \in Nat \X Nat
  BY <1>1, HoursAndMinutes
<1>3. Hm(w[2]) # Off
  BY <1>2, OffAssumption
<1>4. CASE w[1] = "every"
  <2>1. Task(w, place, logon) = [repeat |-> Hm(w[2]), start |-> Hm(0), aim |-> place, logon |-> logon]
    BY <1>4 DEF Task
  <2>2. TaskWish(Task(w, place, logon)) = <<"every", Minutes(Hm(w[2]))>>
    BY <1>3, <2>1 DEF TaskWish
  <2>3. Task(w, place, logon) \in [repeat : (Nat \X Nat) \cup {Off}, start : Nat \X Nat, aim : Place, logon : Logon]
    BY <1>2, <2>1
  <2>. QED  BY <1>1, <1>2, <1>4, <2>1, <2>2, <2>3, OffAssumption DEF Logon
<1>5. CASE w[1] = "daily"
  <2>1. Task(w, place, logon) = [repeat |-> Off, start |-> Hm(w[2]), aim |-> place, logon |-> logon]
    BY <1>5 DEF Task
  <2>2. TaskWish(Task(w, place, logon)) = <<"daily", Minutes(Hm(w[2]))>>
    BY <2>1 DEF TaskWish
  <2>3. Task(w, place, logon) \in [repeat : (Nat \X Nat) \cup {Off}, start : Nat \X Nat, aim : Place, logon : Logon]
    BY <1>2, <2>1
  <2>. QED  BY <1>1, <1>2, <1>5, <2>1, <2>2, <2>3, OffAssumption DEF Logon
<1>. QED  BY <1>1, <1>4, <1>5

\* So it is from a unit file or a plist.
LEMMA FileReads ==
    ASSUME NEW m \in Mins
    PROVE  FileOf(m) \in Files /\ FileOf(m) # Off /\ FileWish(FileOf(m)) = <<"every", m>>
<1>1. m \in Nat
  BY DEF Mins
<1>2. FileWish(FileOf(m)) = <<"every", m>> /\ FileOf(m) \in Nat \cup (Nat \X {"h", "min"})
  BY <1>1, HoursAndMinutes DEF FileWish, FileOf
<1>3. FileOf(m) # Off
  BY <1>2, OffAssumption
<1>. QED  BY <1>2, <1>3 DEF Files
LEMMA FilesRead ==
    ASSUME NEW f \in Files
    PROVE  f # Off /\ FileWish(f) \in Asks
<1>1. PICK m \in Mins : f = FileOf(m)
  BY DEF Files
<1>2. <<"every", m>> \in Asks
  BY DEF Asks
<1>3. FileOf(m) # Off /\ FileWish(FileOf(m)) = <<"every", m>>
  BY FileReads, Zenon
<1>4. f # Off
  BY <1>1, <1>3, Zenon
<1>5. FileWish(f) \in Asks
  BY <1>1, <1>2, <1>3, Zenon
<1>. QED  BY <1>4, <1>5

LEMMA CurrentTyped ==
    ASSUME SchedTypes, NEW n \in Name
    PROVE  Current(n) \in Status /\ Answers(n) \subseteq Status
<1>1. /\ reg[n].file \in Files \cup {Off} /\ reg[n].task \in TaskOf \cup {Off}
      /\ os \in {"linux", "darwin", "windows"}
  BY DEF SchedTypes, Entry
<1>2. CurrentTask(n) \in Status
  <2>1. CASE reg[n].task = Off
    BY <2>1 DEF CurrentTask, Status
  <2>2. CASE reg[n].task # Off
    <3>1. PICK w \in Asks, place \in Place, logon \in Logon : reg[n].task = Task(w, place, logon)
      BY <1>1, <2>2 DEF TaskOf
    <3>. QED  BY <2>2, <3>1, TaskReads DEF CurrentTask, Status
  <2>. QED  BY <2>1, <2>2
<1>3. CurrentAgent(n) \in Status /\ CurrentEntry(n) \in Status
  BY <1>1, FilesRead DEF CurrentAgent, CurrentEntry, Status
<1>4. Current(n) \in Status
  BY <1>1, <1>2, <1>3 DEF Current
<1>. QED  BY <1>4 DEF Answers, Status

\* The outcomes of a command, told apart.
OutcomeOK(l) ==
    /\ l.reg \in Entry /\ HeldOnDisk(l.reg) /\ l.crontab \in SUBSET Line
    /\ l.ok \in BOOLEAN /\ l.failed \in Nat

LEMMA LeftOK ==
    ASSUME NEW r \in Entry, HeldOnDisk(r), NEW c \in SUBSET Line
    PROVE  \A ok \in BOOLEAN, failed \in Nat : OutcomeOK(Left(r, c, ok, failed))
BY DEF Left, OutcomeOK

LEMMA CronTyped ==
    ASSUME NEW m \in Mins, NEW n \in Name, exe \in Place
    PROVE  CronEntries(n, m) \in SUBSET Line
<1>1. \A l \in CronLines(m) : l.minutes \in SUBSET (0..59) /\ l.hours \in SUBSET (0..23)
  <2>. DEFINE times == {t \in 0..1439 : t % m = 0}
          hours(k) == {h \in 0..23 : 60 * h + k \in times}
  <2>1. \A t \in times : {t % 60} \in SUBSET (0..59)
    OBVIOUS
  <2>2. \A k : hours(k) \in SUBSET (0..23)
    OBVIOUS
  <2>3. CronLines(m) = 
          IF m <= 60 /\ 60 % m = 0 THEN {[minutes |-> {k \in 0..59 : k % m = 0}, hours |-> 0..23]}
          ELSE IF m % 60 = 0 /\ 24 % (m \div 60) = 0
          THEN {[minutes |-> {0}, hours |-> {h \in 0..23 : h % (m \div 60) = 0}]}
          ELSE IF (24 * 60) % m = 0
          THEN {[minutes |-> {k}, hours |-> hours(k)] : k \in {t % 60 : t \in times}}
          ELSE {}
    BY DEF CronLines
  <2>. HIDE DEF times, hours
  <2>. QED  BY <2>1, <2>2, <2>3
<1>. QED  BY <1>1 DEF CronEntries, Line

LEMMA InstallTyped ==
    ASSUME SchedTypes, NEW n \in Name, NEW w \in Asks, NEW left \in Install(n, w)
    PROVE  OutcomeOK(left)
<1>. DEFINE r == reg[n]
<1>0. /\ r \in Entry /\ HeldOnDisk(r) /\ crontab \in SUBSET Line /\ exe \in Place
      /\ w[1] \in {"every", "daily"} /\ (w[1] = "every" => w[2] \in Mins)
      /\ os \in {"linux", "darwin", "windows"}
  BY AskParts DEF SchedTypes
<1>1. CASE left \in InstallSystemd(n, w) /\ w[1] = "every" /\ os # "darwin"
  <2>1. Span(w[2]) \in Files /\ Span(w[2]) # Off
    <3>1. FileOf(w[2]) \in Files /\ FileOf(w[2]) # Off
      BY <1>0, <1>1, FileReads, Zenon
    <3>. QED  BY <1>1, <3>1 DEF FileOf
  <2>. DEFINE service == [r EXCEPT !.aim = exe]
              written == [service EXCEPT !.file = Span(w[2])]
              on      == [written EXCEPT !.enabled = TRUE]
  <2>2. service \in Entry /\ HeldOnDisk(service)
    BY <1>0 DEF Entry, HeldOnDisk
  <2>. HIDE DEF service
  <2>3. written \in Entry /\ HeldOnDisk(written) /\ written.file = Span(w[2])
    BY <2>1, <2>2 DEF Entry, HeldOnDisk
  <2>. HIDE DEF written
  <2>4. on \in Entry /\ HeldOnDisk(on) /\ on.file = Span(w[2])
    BY <2>1, <2>3 DEF Entry, HeldOnDisk
  <2>. HIDE DEF on
  <2>5. [on EXCEPT !.held = Off] \in Entry /\ HeldOnDisk([on EXCEPT !.held = Off])
    BY <2>4 DEF Entry, HeldOnDisk
  <2>6. [on EXCEPT !.held = on.file] \in Entry /\ HeldOnDisk([on EXCEPT !.held = on.file])
    BY <2>1, <2>4 DEF Entry, HeldOnDisk
  <2>7. \/ left = Left(r, crontab, FALSE, 1) \/ left = Left(service, crontab, FALSE, 1)
        \/ left = Left(written, crontab, FALSE, 1) \/ left = Left(written, crontab, FALSE, 0)
        \/ left = Left(on, crontab, FALSE, 1) \/ left = Left([on EXCEPT !.held = Off], crontab, FALSE, 1)
        \/ left = Left([on EXCEPT !.held = on.file], crontab, TRUE, 0)
    BY <1>1 DEF InstallSystemd, on, written, service
  <2>. QED  BY <1>0, <2>2, <2>3, <2>4, <2>5, <2>6, <2>7, LeftOK
<1>2. CASE left \in InstallCron(n, w) /\ w[1] = "every"
  <2>1. CronEntries(n, w[2]) \in SUBSET Line
    BY <1>0, <1>2, CronTyped
  <2>. DEFINE lines == CronEntries(n, w[2])
  <2>2. (crontab \ Marked(n)) \cup lines \in SUBSET Line
    BY <1>0, <2>1
  <2>3. \/ left = Left(r, crontab, FALSE, 0) \/ left = Left(r, crontab, FALSE, 1)
        \/ left = Left(r, (crontab \ Marked(n)) \cup lines, TRUE, 0)
    BY <1>2 DEF InstallCron
  <2>. HIDE DEF lines
  <2>. QED  BY <1>0, <2>2, <2>3, LeftOK
<1>3. CASE left \in InstallTask(n, w)
  <2>1. ASSUME NEW logon \in Logon
        PROVE  [r EXCEPT !.task = Task(w, exe, logon)] \in Entry /\ HeldOnDisk([r EXCEPT !.task = Task(w, exe, logon)])
    <3>1. Task(w, exe, logon) \in TaskOf
      BY <1>0 DEF TaskOf
    <3>. QED  BY <1>0, <3>1 DEF Entry, HeldOnDisk
  <2>2. \/ left = Left(r, crontab, FALSE, 1)
        \/ \E logon \in Logon : left = Left([r EXCEPT !.task = Task(w, exe, logon)], crontab, TRUE, 0)
    BY <1>3 DEF InstallTask, Logon
  <2>. QED  BY <1>0, <2>1, <2>2, LeftOK
<1>4. CASE left \in InstallAgent(n, w) /\ w[1] = "every" /\ os = "darwin"
  <2>1. StartInterval(w[2]) \in Files /\ StartInterval(w[2]) # Off
    <3>1. FileOf(w[2]) \in Files /\ FileOf(w[2]) # Off
      BY <1>0, <1>4, FileReads, Zenon
    <3>. QED  BY <1>4, <3>1 DEF FileOf
  <2>. DEFINE written == [r EXCEPT !.file = StartInterval(w[2]), !.aim = exe]
  <2>2. written \in Entry /\ HeldOnDisk(written) /\ written.file = StartInterval(w[2])
    <3>1. r \in Entry /\ exe \in Place
      BY <1>0
    <3>. QED  BY <2>1, <3>1 DEF Entry, HeldOnDisk
  <2>. HIDE DEF written
  <2>3. [written EXCEPT !.held = Off] \in Entry /\ HeldOnDisk([written EXCEPT !.held = Off])
    BY <2>2 DEF Entry, HeldOnDisk
  <2>4. [written EXCEPT !.held = written.file] \in Entry /\ HeldOnDisk([written EXCEPT !.held = written.file])
    BY <2>1, <2>2 DEF Entry, HeldOnDisk
  <2>5. \/ left = Left(r, crontab, FALSE, 1) \/ left = Left([written EXCEPT !.held = Off], crontab, FALSE, 1)
        \/ left = Left(written, crontab, FALSE, 1)
        \/ left = Left([written EXCEPT !.held = written.file], crontab, TRUE, 0)
    BY <1>4 DEF InstallAgent, written
  <2>. QED  BY <1>0, <2>2, <2>3, <2>4, <2>5, LeftOK
<1>5. CASE left = Left(r, crontab, FALSE, 0)
  BY <1>0, <1>5, LeftOK
<1>6. \/ left \in InstallTask(n, w) \/ left = Left(r, crontab, FALSE, 0)
      \/ (left \in InstallAgent(n, w) /\ w[1] = "every" /\ os = "darwin")
      \/ (left \in InstallSystemd(n, w) /\ w[1] = "every" /\ os # "darwin")
      \/ (left \in InstallCron(n, w) /\ w[1] = "every")
  BY <1>0 DEF Install
<1>. QED  BY <1>1, <1>2, <1>3, <1>4, <1>5, <1>6

LEMMA RemoveTyped ==
    ASSUME SchedTypes, NEW n \in Name, NEW left \in Remove(n)
    PROVE  OutcomeOK(left)
<1>. DEFINE r == reg[n]
<1>0. r \in Entry /\ HeldOnDisk(r) /\ crontab \in SUBSET Line /\ os \in {"linux", "darwin", "windows"}
  BY DEF SchedTypes
<1>a. ASSUME NEW x \in Entry, x.held = Off \/ x.unstopped, NEW failed \in Nat, NEW l \in UnitsGo(x, failed)
      PROVE  OutcomeOK(l)
  <2>1. /\ [x EXCEPT !.file = Off] \in Entry /\ HeldOnDisk([x EXCEPT !.file = Off])
        /\ [x EXCEPT !.file = Off, !.aim = Off] \in Entry /\ HeldOnDisk([x EXCEPT !.file = Off, !.aim = Off])
        /\ HeldOnDisk(x) /\ failed + 1 \in Nat
    <3>. DEFINE y == [x EXCEPT !.file = Off]
                z == [x EXCEPT !.file = Off, !.aim = Off]
    <3>1. y \in Entry /\ y.held = x.held /\ y.unstopped = x.unstopped
      BY <1>a DEF Entry
    <3>2. z \in Entry /\ z.held = x.held /\ z.unstopped = x.unstopped
      BY <1>a DEF Entry
    <3>3. failed + 1 \in Nat
      BY <1>a
    <3>. HIDE DEF y, z
    <3>4. HeldOnDisk(x) /\ HeldOnDisk(y) /\ HeldOnDisk(z)
      BY <1>a, <3>1, <3>2, Zenon DEF HeldOnDisk
    <3>. QED  BY <3>1, <3>2, <3>3, <3>4 DEF y, z
  <2>2. \/ l = Left(x, crontab, FALSE, failed + 1) \/ l = Left([x EXCEPT !.file = Off], crontab, FALSE, failed + 1)
        \/ l = Left([x EXCEPT !.file = Off, !.aim = Off], crontab, TRUE, failed)
    BY <1>a DEF UnitsGo, FilesGo
  <2>. QED  BY <1>0, <1>a, <2>1, <2>2, LeftOK
<1>b. /\ Stopped(r) \in Entry /\ Stopped(r).held = Off
      /\ Unstopped(r) \in Entry /\ (Unstopped(r).held = Off \/ Unstopped(r).unstopped)
      /\ [Unstopped(r) EXCEPT !.enabled = FALSE] \in Entry
      /\ [Unstopped(r) EXCEPT !.enabled = FALSE].held = Off \/ [Unstopped(r) EXCEPT !.enabled = FALSE].unstopped
  BY <1>0 DEF Stopped, Unstopped, Entry
<1>1. ASSUME NEW l \in RemoveSystemd(n) PROVE OutcomeOK(l)
  <2>1. CASE l = Left(r, crontab, TRUE, 0)
    BY <1>0, <2>1, LeftOK
  <2>2. CASE l \in UnitsGo(Stopped(r), 0)
    BY <1>a, <1>b, <2>2
  <2>3. CASE l \in UnitsGo(Unstopped(r), 1)
    BY <1>a, <1>b, <2>3
  <2>4. CASE l \in UnitsGo([Unstopped(r) EXCEPT !.enabled = FALSE], 1)
    BY <1>a, <1>b, <2>4
  <2>. QED  BY <1>1, <2>1, <2>2, <2>3, <2>4 DEF RemoveSystemd
<1>2. CASE os = "linux"
  <2>1. PICK l \in RemoveSystemd(n) : left \in (IF l.ok THEN RemoveCron(n, l) ELSE {l})
    BY <1>2 DEF Remove
  <2>2. CASE left = l
    BY <1>1, <2>2
  <2>3. CASE left \in RemoveCron(n, l)
    <3>1. l.reg \in Entry /\ HeldOnDisk(l.reg) /\ l.failed \in Nat /\ l.failed + 1 \in Nat
      BY <1>1 DEF OutcomeOK
    <3>2. crontab \ Marked(n) \in SUBSET Line
      BY <1>0
    <3>. QED  BY <1>0, <2>3, <3>1, <3>2, LeftOK DEF RemoveCron
  <2>. QED  BY <2>1, <2>2, <2>3
<1>3. CASE os = "darwin"
  <2>1. left \in RemoveAgent(n)
    BY <1>3 DEF Remove
  <2>2. \A x, failed : FilesGo(x, failed) \subseteq UnitsGo(x, failed)
    BY DEF UnitsGo
  <2>3. left = Left(r, crontab, TRUE, 0) \/ left \in UnitsGo(Stopped(r), 0) \/ left \in UnitsGo(Unstopped(r), 1)
    BY <2>1, <2>2 DEF RemoveAgent
  <2>4. CASE left = Left(r, crontab, TRUE, 0)
    BY <1>0, <2>4, LeftOK
  <2>5. CASE left \in UnitsGo(Stopped(r), 0)
    BY <1>a, <1>b, <2>5
  <2>6. CASE left \in UnitsGo(Unstopped(r), 1)
    BY <1>a, <1>b, <2>6
  <2>. QED  BY <2>3, <2>4, <2>5, <2>6
<1>4. CASE os = "windows"
  <2>1. left \in RemoveTask(n)
    BY <1>4 DEF Remove
  <2>2. [r EXCEPT !.task = Off] \in Entry /\ HeldOnDisk([r EXCEPT !.task = Off])
    BY <1>0 DEF Entry, HeldOnDisk
  <2>. QED  BY <1>0, <2>1, <2>2, LeftOK DEF RemoveTask
<1>. QED  BY <1>0, <1>2, <1>3, <1>4

LEMMA BecomesTyped ==
    ASSUME SchedTypes, NEW n \in Name, NEW outcomes, \A left \in outcomes : OutcomeOK(left),
           NEW w \in Asks \cup {Off}, Becomes(n, outcomes, w), seen' \in [Name -> SUBSET Status]
    PROVE  SchedTypes'
<1>1. PICK left \in outcomes :
        /\ slips + left.failed <= MaxSlipped /\ slips' = slips + left.failed
        /\ reg' = [reg EXCEPT ![n] = left.reg] /\ crontab' = left.crontab
        /\ told' = [told EXCEPT ![n] = left.ok]
        /\ asked' = [asked EXCEPT ![n] = IF w = Off THEN Off ELSE [wish |-> w, aim |-> exe]]
  BY DEF Becomes
<1>2. os' = os /\ manager' = manager /\ exe' = exe /\ moves' = moves /\ Status' = Status /\ Asks' = Asks
  BY DEF Becomes, Status, Asks, Mins
<1>3. Entry' = Entry /\ Line' = Line
  BY <1>2 DEF Entry, Files, FileOf, TaskOf, Line, Task, Logon, Span, StartInterval, Asks, Mins
<1>4. OutcomeOK(left)
  OBVIOUS
<1>5. reg' \in [Name -> Entry] /\ \A m \in Name : HeldOnDisk(reg'[m])
  BY <1>1, <1>4 DEF OutcomeOK, SchedTypes
<1>6. crontab' \in SUBSET Line /\ told' \in [Name -> BOOLEAN]
  BY <1>1, <1>4 DEF OutcomeOK, SchedTypes
<1>7. asked' \in [Name -> [wish : Asks, aim : Place] \cup {Off}]
  BY <1>1 DEF SchedTypes
<1>8. uses' \in 0..MaxAsked
  BY ScheduleAssumption DEF Becomes, SchedTypes
<1>9. slips' \in 0..MaxSlipped
  BY <1>1, <1>4, ScheduleAssumption DEF OutcomeOK, SchedTypes
<1>. QED  BY <1>2, <1>3, <1>5, <1>6, <1>7, <1>8, <1>9 DEF SchedTypes, HeldOnDisk

LEMMA RepairTyped ==
    ASSUME SchedTypes, NEW n \in Name, NEW st \in Status, st # Off
    PROVE  Repaired(st) \in Asks /\ Expected(n, st) \in Asks \cup {Off}
<1>1. <<"every", DefaultIntervalMinutes>> \in Asks
  BY DEF Asks, Mins, DefaultIntervalMinutes
<1>2. Repaired(st) \in Asks
  <2>1. CASE st \in Asks
    BY <2>1, AskParts
  <2>2. CASE st = <<"every", 0>>
    BY <1>1, <2>2 DEF Repaired
  <2>. QED  BY <2>1, <2>2 DEF Status
<1>3. asked[n] # Off => asked[n].wish \in Asks
  BY DEF SchedTypes
<1>. QED  BY <1>2, <1>3 DEF Expected

LEMMA StatusSeen ==
    ASSUME SchedTypes, NEW n \in Name
    PROVE  PanelStatus(n) \subseteq Status
BY CurrentTyped DEF PanelStatus, SchedTypes

LEMMA WishTyped ==
    ASSUME NEW w \in Wish, Allowed(w)
    PROVE  w \in Asks
<1>1. CASE w \in {<<"every", n>> : n \in Interval}
  <2>1. PICK n \in Interval : w = <<"every", n>>
    BY <1>1
  <2>2. n \in Nat /\ n >= 5 /\ n <= 1440
    BY <2>1, ScheduleAssumption DEF Allowed
  <2>. QED  BY <2>1, <2>2 DEF Asks, Mins
<1>2. CASE w \in {<<"daily", t>> : t \in Moment}
  <2>1. PICK t \in Moment : w = <<"daily", t>>
    BY <1>2
  <2>2. t \in 0..1439
    BY ScheduleAssumption
  <2>. QED  BY <2>1, <2>2 DEF Asks
<1>. QED  BY <1>1, <1>2 DEF Wish

LEMMA SchedTyped == SchedTypes /\ [SchedNext]_schedVars => SchedTypes'
<1>. SUFFICES ASSUME SchedTypes, [SchedNext]_schedVars PROVE SchedTypes'
  OBVIOUS
<1>0. seen \in [Name -> SUBSET Status] /\ Default \in Asks
  BY DEF SchedTypes, Default, Asks, Mins, DefaultIntervalMinutes
<1>1. ASSUME NEW n \in Name, NEW w \in Asks, NEW e \in Asks \cup {Off}, Becomes(n, Install(n, w), e),
             UNCHANGED seen \/ InPanel(n)
      PROVE  SchedTypes'
  <2>1. \A left \in Install(n, w) : OutcomeOK(left)
    BY InstallTyped
  <2>2. seen' \in [Name -> SUBSET Status]
    BY <1>0, <1>1 DEF InPanel
  <2>. QED  BY <1>1, <2>1, <2>2, BecomesTyped
<1>2. ASSUME NEW n \in Name, Becomes(n, Remove(n), Off), UNCHANGED seen \/ InPanel(n)
      PROVE  SchedTypes'
  <2>1. \A left \in Remove(n) : OutcomeOK(left)
    BY RemoveTyped
  <2>2. seen' \in [Name -> SUBSET Status]
    BY <1>0, <1>2 DEF InPanel
  <2>. QED  BY <1>2, <2>1, <2>2, BecomesTyped
<1>3. ASSUME NEW n \in Name, NEW w \in Wish, Registers(n, w) \/ PanelRegisters(n, w) PROVE SchedTypes'
  <2>1. w \in Asks
    BY <1>3, WishTyped DEF Registers, PanelRegisters
  <2>. QED  BY <1>1, <1>3, <2>1 DEF Registers, PanelRegisters, InTerminal
<1>4. ASSUME NEW n \in Name, Unregisters(n) \/ PanelUnregisters(n) PROVE SchedTypes'
  BY <1>2, <1>4 DEF Unregisters, PanelUnregisters, InTerminal
<1>5. ASSUME NEW n \in Name, Repairs(n) PROVE SchedTypes'
  <2>1. PICK st \in Answers(n) \ {Off} : Becomes(n, Install(n, Repaired(st)), Expected(n, st))
    BY <1>5 DEF Repairs
  <2>2. Repaired(st) \in Asks /\ Expected(n, st) \in Asks \cup {Off}
    BY CurrentTyped, RepairTyped
  <2>. QED  BY <1>1, <1>5, <2>1, <2>2 DEF Repairs, InTerminal
<1>6. ASSUME NEW n \in Name, PanelRepairs(n) PROVE SchedTypes'
  <2>1. PICK st \in PanelStatus(n) \ {Off} : Becomes(n, Install(n, Repaired(st)), Expected(n, st))
    BY <1>6 DEF PanelRepairs
  <2>2. Repaired(st) \in Asks /\ Expected(n, st) \in Asks \cup {Off}
    BY StatusSeen, RepairTyped
  <2>. QED  BY <1>1, <1>6, <2>1, <2>2 DEF PanelRepairs
<1>7. ASSUME NEW n \in Name, Offers(n) \/ FirstRun(n) PROVE SchedTypes'
  BY <1>0, <1>1, <1>7 DEF Offers, FirstRun, InTerminal
<1>8. ASSUME NEW n \in Name, Looks(n) \/ LookIsOld(n) PROVE SchedTypes'
  <2>1. seen' \in [Name -> SUBSET Status]
    BY <1>0, <1>8, CurrentTyped DEF Looks, LookIsOld
  <2>2. UNCHANGED <<os, manager, regVars, exe, asked, told, uses, slips, moves>>
    BY <1>8 DEF Looks, LookIsOld
  <2>. QED  BY <2>1, <2>2 DEF SchedTypes, HeldOnDisk, regVars, Entry, Files, FileOf, Line, Status, TaskOf
<1>9. CASE SignsIn
  <2>1. manager' \in {"none", "silent", "up"} /\ UNCHANGED <<os, crontab, exe, seen, asked, told, uses, slips, moves>>
    BY <1>9 DEF SignsIn, SchedTypes
  <2>2. \A r \in Entry : Held(r) \in Files \cup {Off} /\ (Held(r) # Off => r.file # Off)
    BY DEF Held, Entry
  <2>3. reg' = [n \in Name |-> [reg[n] EXCEPT !.held = Held(reg[n]), !.unstopped = FALSE]] /\ reg \in [Name -> Entry]
    BY <1>9 DEF SignsIn, SchedTypes
  <2>. HIDE DEF Held
  <2>4. \A r \in Entry : /\ [r EXCEPT !.held = Held(r), !.unstopped = FALSE] \in Entry
                         /\ [r EXCEPT !.held = Held(r), !.unstopped = FALSE].held = Held(r)
                         /\ [r EXCEPT !.held = Held(r), !.unstopped = FALSE].file = r.file
    BY <2>2 DEF Entry
  <2>5. reg' \in [Name -> Entry] /\ \A n \in Name : HeldOnDisk(reg'[n])
    <3>1. reg' \in [Name -> Entry]
      BY <2>3, <2>4
    <3>2. ASSUME NEW n \in Name PROVE HeldOnDisk(reg'[n])
      <4>1. reg'[n].held = Held(reg[n]) /\ reg'[n].file = reg[n].file /\ reg[n] \in Entry
        BY <2>3, <2>4
      <4>. QED  BY <2>2, <4>1 DEF HeldOnDisk
    <3>. QED  BY <3>1, <3>2
  <2>. QED  BY <2>1, <2>5 DEF SchedTypes, HeldOnDisk, Entry, Files, FileOf, Line, Status, TaskOf
<1>10. CASE ProgramMoves
  BY <1>10, ScheduleAssumption DEF ProgramMoves, regVars, SchedTypes, HeldOnDisk, Entry, Files, FileOf, Line, Status, TaskOf
<1>11. CASE UNCHANGED schedVars
  BY <1>11 DEF schedVars, regVars, SchedTypes, HeldOnDisk, Entry, Files, FileOf, Line, Status, TaskOf
<1>. QED  BY <1>3, <1>4, <1>5, <1>6, <1>7, <1>8, <1>9, <1>10, <1>11 DEF SchedNext

LEMMA SchedStartTyped == SchedInit => SchedTypes
BY ScheduleAssumption DEF SchedInit, SchedTypes, HeldOnDisk, Entry

\* The schedulers hold entries of these shapes, and nothing in memory that is
\* not on disk, whatever failed half way, but a timer or an agent that a failed
\* request to stop it left there, until the person signs in again (removeSystemd,
\* the ignored errors of systemctl and launchctl).
THEOREM ScheduleKeepsTypes == SchedSpec => []SchedTypeOK
<1>1. SchedTypes => SchedTypeOK
  BY DEF SchedTypes, HeldOnDisk, SchedTypeOK, Entry, Line
<1>. QED  BY <1>1, SchedStartTyped, SchedTyped, PTL DEF SchedSpec

\* What leaves nothing over is a multiple.
LEMMA Multiples ==
    ASSUME NEW a \in Nat, NEW b \in Nat \ {0}
    PROVE  a % b = 0 <=> \E q \in Nat : a = b * q
<1>1. a = b * (a \div b) + (a % b) /\ a \div b \in Nat /\ a % b \in 0 .. (b - 1)
  OBVIOUS
<1>2. ASSUME NEW q \in Nat, a = b * q PROVE a % b = 0
  <2>. DEFINE d == a \div b
  <2>1. b * q = b * d + (a % b) /\ d \in Nat /\ a % b < b /\ a % b >= 0 /\ a % b \in Int
    BY <1>1, <1>2
  <2>. HIDE DEF d
  <2>2. CASE q <= d
    <3>1. b * q <= b * d
      BY <2>1, <2>2
    <3>. QED  BY <2>1, <3>1
  <2>3. CASE q >= d + 1
    <3>1. b * q >= b * d + b
      BY <2>1, <2>3
    <3>. QED  BY <2>1, <3>1
  <2>. QED  BY <2>1, <2>2, <2>3
<1>3. ASSUME a % b = 0 PROVE \E q \in Nat : a = b * q
  <2>1. a = b * (a \div b)
    BY <1>1, <1>3
  <2>. QED  BY <1>1, <2>1
<1>. QED  BY <1>2, <1>3

\* Minutes that divide an hour, and hours, fall where they should.
LEMMA PartsOfAnHour ==
    ASSUME NEW n \in Nat \ {0}, 60 % n = 0, NEW t \in Nat
    PROVE  (t % 60) % n = 0 <=> t % n = 0
<1>. DEFINE h == t \div 60
            m == t % 60
<1>1. t = 60 * h + m /\ h \in Nat /\ m \in Nat
  OBVIOUS
<1>2. PICK k \in Nat : 60 = n * k
  BY Multiples
<1>. HIDE DEF h, m
<1>3. ASSUME m % n = 0 PROVE t % n = 0
  <2>1. PICK q \in Nat : m = n * q
    BY <1>1, <1>3, Multiples
  <2>2. t = n * (k * h + q) /\ k * h + q \in Nat
    BY <1>1, <1>2, <2>1
  <2>. QED  BY <2>2, Multiples
<1>4. ASSUME t % n = 0 PROVE m % n = 0
  <2>1. PICK q \in Nat : t = n * q
    BY <1>4, Multiples
  <2>2. m = n * (q - k * h) /\ k * h \in Nat
    BY <1>1, <1>2, <2>1
  <2>3. q - k * h \in Nat
    <3>1. CASE q < k * h
      <4>1. n * (q - k * h) < 0
        BY <2>2, <3>1
      <4>. QED  BY <1>1, <2>2, <4>1
    <3>. QED  BY <2>2, <3>1
  <2>. QED  BY <1>1, <2>2, <2>3, Multiples
<1>. QED  BY <1>3, <1>4 DEF m

LEMMA WholeHours ==
    ASSUME NEW n \in Nat \ {0}, n % 60 = 0, NEW t \in Nat
    PROVE  t % 60 = 0 /\ (t \div 60) % (n \div 60) = 0 <=> t % n = 0
<1>. DEFINE h == t \div 60
            k == n \div 60
<1>1. t = 60 * h + (t % 60) /\ h \in Nat /\ t % 60 \in 0..59
  OBVIOUS
<1>2. n = 60 * k /\ k \in Nat \ {0}
  OBVIOUS
<1>. HIDE DEF h, k
<1>3. ASSUME t % 60 = 0, h % k = 0 PROVE t % n = 0
  <2>1. PICK q \in Nat : h = k * q
    BY <1>1, <1>2, <1>3, Multiples
  <2>2. t = n * q
    BY <1>1, <1>2, <1>3, <2>1
  <2>. QED  BY <2>2, Multiples
<1>4. ASSUME t % n = 0 PROVE t % 60 = 0 /\ h % k = 0
  <2>1. PICK q \in Nat : t = n * q
    BY <1>4, Multiples
  <2>2. PICK x \in Nat : x = k * q /\ t = 60 * x
    BY <1>2, <2>1
  <2>3. t % 60 = 0
    BY <2>2
  <2>4. t = 60 * x
    BY <2>2
  <2>5. h = x
    BY <1>1, <2>3, <2>4
  <2>. QED  BY <1>1, <1>2, <2>1, <2>2, <2>3, <2>5, Multiples
<1>. QED  BY <1>3, <1>4 DEF h, k

\* The lines cron is given start the program at each multiple of the minutes
\* asked for, once.
OnTime(lines, t, n) == IF t % n = 0 THEN \E l : Fires(lines, t) = {l} ELSE Fires(lines, t) = {}
LEMMA FiresOnce ==
    ASSUME NEW lines, NEW n \in Nat, NEW t \in Nat, OnTime(lines, t, n)
    PROVE  Cardinality(Fires(lines, t)) = (IF t % n = 0 THEN 1 ELSE 0)
<1>1. CASE t % n = 0
  <2>1. PICK l : Fires(lines, t) = {l}
    BY <1>1 DEF OnTime
  <2>2. Cardinality({l}) = 1
    BY FS_Singleton
  <2>. QED  BY <1>1, <2>1, <2>2
<1>2. CASE t % n # 0
  <2>1. Fires(lines, t) = {}
    BY <1>2 DEF OnTime
  <2>2. Cardinality({}) = 0
    BY FS_EmptySet
  <2>. QED  BY <1>2, <2>1, <2>2
<1>. QED  BY <1>1, <1>2

LEMMA DayTimes ==
    ASSUME NEW t \in Day
    PROVE  /\ t \in Nat /\ t % 60 \in 0..59 /\ t \div 60 \in 0..23
           /\ 60 * (t \div 60) + (t % 60) = t
BY DEF Day

LEMMA EachOnTime ==
    ASSUME NEW lines, NEW n \in Nat, \A t \in Day : OnTime(lines, t, n)
    PROVE  EveryMinutes(lines, n)
<1>. DEFINE Counted(t) == Cardinality(Fires(lines, t)) = (IF t % n = 0 THEN 1 ELSE 0)
<1>1. ASSUME NEW t \in Day PROVE Counted(t)
  <2>1. t \in Nat
    BY DayTimes, Zenon
  <2>2. OnTime(lines, t, n)
    BY Zenon
  <2>. QED  BY <2>1, <2>2, FiresOnce
<1>2. \A t \in Day : Counted(t)
  BY <1>1, Zenon
<1>. QED  BY <1>2, Zenon DEF EveryMinutes

LEMMA OneFires ==
    ASSUME NEW lines, NEW t, NEW n, t % n = 0, NEW l \in lines,
           \A k \in lines : t % 60 \in k.minutes /\ t \div 60 \in k.hours <=> k = l
    PROVE  OnTime(lines, t, n)
<1>1. \A k : k \in Fires(lines, t) <=> k = l
  BY DEF Fires
<1>2. Fires(lines, t) = {l}
  BY <1>1, Zenon
<1>. QED  BY <1>2, Zenon DEF OnTime
LEMMA NoneFires ==
    ASSUME NEW lines, NEW t, NEW n, t % n # 0,
           \A k \in lines : ~(t % 60 \in k.minutes /\ t \div 60 \in k.hours)
    PROVE  OnTime(lines, t, n)
<1>1. Fires(lines, t) = {}
  BY DEF Fires
<1>. QED  BY <1>1, Zenon DEF OnTime

LEMMA CronExact ==
    ASSUME NEW n \in Name, NEW m \in Mins, CronEntries(n, m) # {}
    PROVE  EveryMinutes(CronEntries(n, m), m)
<1>. DEFINE lines == CronEntries(n, m)
            Stamped(k) == [name |-> n, aim |-> exe, minutes |-> k.minutes, hours |-> k.hours]
<1>0. m \in Nat \ {0}
  BY DEF Mins
<1>1. lines = {Stamped(k) : k \in CronLines(m)}
  BY Zenon DEF CronEntries
<1>2. \A k : Stamped(k).minutes = k.minutes /\ Stamped(k).hours = k.hours
  OBVIOUS
<1>. HIDE DEF Stamped, lines
<1>3. ASSUME NEW minutes, NEW hours, CronLines(m) = {[minutes |-> minutes, hours |-> hours]},
             \A t \in Day : t % 60 \in minutes /\ t \div 60 \in hours <=> t % m = 0
      PROVE  EveryMinutes(lines, m)
  <2>. DEFINE k == [minutes |-> minutes, hours |-> hours]
  <2>1. k.minutes = minutes /\ k.hours = hours
    OBVIOUS
  <2>. HIDE DEF k
  <2>2. lines = {Stamped(k)}
    BY <1>1, <1>3, Zenon DEF k
  <2>3. Stamped(k).minutes = minutes /\ Stamped(k).hours = hours
    BY <1>2, <2>1, Zenon
  <2>4. ASSUME NEW t \in Day PROVE OnTime(lines, t, m)
    <3>1. t % 60 \in Stamped(k).minutes /\ t \div 60 \in Stamped(k).hours <=> t % m = 0
      BY <1>3, <2>3, Zenon
    <3>2. CASE t % m = 0
      <4>1. \A j \in lines : t % 60 \in j.minutes /\ t \div 60 \in j.hours <=> j = Stamped(k)
        BY <2>2, <3>1, <3>2, Zenon
      <4>2. Stamped(k) \in lines
        BY <2>2, Zenon
      <4>. QED  BY <3>2, <4>1, <4>2, OneFires, Zenon
    <3>3. CASE t % m # 0
      <4>1. \A j \in lines : ~(t % 60 \in j.minutes /\ t \div 60 \in j.hours)
        BY <2>2, <3>1, <3>3, Zenon
      <4>. QED  BY <3>3, <4>1, NoneFires, Zenon
    <3>. QED  BY <3>2, <3>3, Zenon
  <2>. QED  BY <1>0, <2>4, EachOnTime
<1>4. CASE m <= 60 /\ 60 % m = 0
  <2>1. CronLines(m) = {[minutes |-> {k \in 0..59 : k % m = 0}, hours |-> 0..23]}
    BY <1>4 DEF CronLines
  <2>2. ASSUME NEW t \in Day PROVE t % 60 \in {k \in 0..59 : k % m = 0} /\ t \div 60 \in 0..23 <=> t % m = 0
    <3>1. t % 60 \in 0..59 /\ t \div 60 \in 0..23 /\ t \in Nat
      BY DayTimes, Zenon
    <3>2. (t % 60) % m = 0 <=> t % m = 0
      BY <1>0, <1>4, <3>1, PartsOfAnHour
    <3>. QED  BY <3>1, <3>2
  <2>3. \A t \in Day : t % 60 \in {k \in 0..59 : k % m = 0} /\ t \div 60 \in 0..23 <=> t % m = 0
    BY <2>2, Zenon
  <2>. QED  BY <1>3, <2>1, <2>3, Zenon DEF lines
<1>5. CASE ~(m <= 60 /\ 60 % m = 0) /\ m % 60 = 0 /\ 24 % (m \div 60) = 0
  <2>1. CronLines(m) = {[minutes |-> {0}, hours |-> {h \in 0..23 : h % (m \div 60) = 0}]}
    BY <1>5 DEF CronLines
  <2>2. ASSUME NEW t \in Day PROVE t % 60 \in {0} /\ t \div 60 \in {h \in 0..23 : h % (m \div 60) = 0} <=> t % m = 0
    <3>1. t % 60 \in 0..59 /\ t \div 60 \in 0..23 /\ t \in Nat
      BY DayTimes, Zenon
    <3>2. t % 60 = 0 /\ (t \div 60) % (m \div 60) = 0 <=> t % m = 0
      BY <1>0, <1>5, <3>1, WholeHours
    <3>. QED  BY <3>1, <3>2
  <2>3. \A t \in Day : t % 60 \in {0} /\ t \div 60 \in {h \in 0..23 : h % (m \div 60) = 0} <=> t % m = 0
    BY <2>2, Zenon
  <2>. QED  BY <1>3, <2>1, <2>3, Zenon DEF lines
<1>6. CASE ~(m <= 60 /\ 60 % m = 0) /\ ~(m % 60 = 0 /\ 24 % (m \div 60) = 0) /\ (24 * 60) % m = 0
  <2>. DEFINE times == {t \in 0..1439 : t % m = 0}
              hours(k) == {h \in 0..23 : 60 * h + k \in times}
              L(k) == [minutes |-> {k}, hours |-> hours(k)]
              M == {t % 60 : t \in times}
  <2>1. CronLines(m) = {L(k) : k \in M}
    <3>1. CronLines(m) = 
            IF m <= 60 /\ 60 % m = 0 THEN {[minutes |-> {k \in 0..59 : k % m = 0}, hours |-> 0..23]}
            ELSE IF m % 60 = 0 /\ 24 % (m \div 60) = 0
            THEN {[minutes |-> {0}, hours |-> {h \in 0..23 : h % (m \div 60) = 0}]}
            ELSE IF (24 * 60) % m = 0
            THEN {[minutes |-> {k}, hours |-> hours(k)] : k \in {t % 60 : t \in times}}
            ELSE {}
      BY DEF CronLines
    <3>2. CronLines(m) = {[minutes |-> {k}, hours |-> hours(k)] : k \in {t % 60 : t \in times}}
      <4>. HIDE DEF hours, times, M, L
      <4>. QED  BY <1>6, <3>1
    <3>. QED  BY <3>2
  <2>2. \A t \in Day : t \in times <=> t % m = 0
    BY DEF Day
  <2>. HIDE DEF times
  <2>3. \A t \in times : t % 60 \in M
    BY Zenon
  <2>4. \A k : L(k).minutes = {k} /\ L(k).hours = hours(k)
    OBVIOUS
  <2>. HIDE DEF L, M
  <2>5. ASSUME NEW t \in Day PROVE t \div 60 \in hours(t % 60) <=> t \in times
    <3>1. t \div 60 \in 0..23 /\ 60 * (t \div 60) + (t % 60) = t
      BY DayTimes, Zenon
    <3>. QED  BY <3>1, Zenon
  <2>. HIDE DEF hours
  <2>6. lines = {Stamped(L(k)) : k \in M}
    BY <1>1, <2>1, Zenon
  <2>7. \A k : Stamped(L(k)).minutes = {k} /\ Stamped(L(k)).hours = hours(k)
    BY <1>2, <2>4, Zenon
  <2>8. ASSUME NEW t \in Day PROVE OnTime(lines, t, m)
    <3>1. ASSUME NEW k PROVE t % 60 \in Stamped(L(k)).minutes <=> k = t % 60
      <4>1. Stamped(L(k)).minutes = {k}
        BY <2>7, Zenon
      <4>2. t % 60 \in {k} <=> k = t % 60
        OBVIOUS
      <4>. QED  BY <4>1, <4>2, Zenon
    <3>2. t \div 60 \in Stamped(L(t % 60)).hours <=> t \in times
      BY <2>5, <2>7, Zenon
    <3>3. CASE t % m = 0
      <4>1. t \in times /\ t % 60 \in M
        BY <2>2, <2>3, <3>3, Zenon
      <4>2. Stamped(L(t % 60)) \in lines
        BY <2>6, <4>1, Zenon
      <4>3. \A j \in lines : t % 60 \in j.minutes /\ t \div 60 \in j.hours <=> j = Stamped(L(t % 60))
        BY <2>6, <3>1, <3>2, <4>1, Zenon
      <4>. QED  BY <3>3, <4>2, <4>3, OneFires, Zenon
    <3>4. CASE t % m # 0
      <4>1. t \notin times
        BY <2>2, <3>4, Zenon
      <4>2. \A j \in lines : ~(t % 60 \in j.minutes /\ t \div 60 \in j.hours)
        BY <2>6, <3>1, <3>2, <4>1, Zenon
      <4>. QED  BY <3>4, <4>2, NoneFires, Zenon
    <3>. QED  BY <3>3, <3>4, Zenon
  <2>. QED  BY <1>0, <2>8, EachOnTime DEF lines
<1>7. CASE ~(m <= 60 /\ 60 % m = 0) /\ ~(m % 60 = 0 /\ 24 % (m \div 60) = 0) /\ (24 * 60) % m # 0
  <2>1. CronLines(m) = {}
    BY <1>7 DEF CronLines
  <2>. QED  BY <2>1 DEF CronEntries
<1>. QED  BY <1>4, <1>5, <1>6, <1>7

\* What Install and Remove leave when they say they worked; r is what is held of
\* a name and c the crontab.
Gone(r, c) == r.file = Off /\ (r.held = Off \/ r.unstopped) /\ r.task = Off /\ c = {}
InFile(r, c, w, place) ==
    /\ os = "darwin" \/ (os = "linux" /\ manager = "up" /\ r.enabled)
    /\ w[1] = "every" /\ r.file = FileOf(w[2]) /\ r.held = r.file /\ r.aim = place
    /\ r.task = Off /\ c = {}
InTask(r, c, w, place) ==
    /\ os = "windows" /\ r.file = Off /\ r.held = Off /\ c = {}
    /\ r.task # Off /\ TaskWish(r.task) = w /\ r.task.aim = place
InCron(r, c, w, place) ==
    /\ os = "linux" /\ manager = "none" /\ w[1] = "every"
    /\ r.file = Off /\ r.held = Off /\ r.task = Off
    /\ c # {} /\ EveryMinutes(c, w[2]) /\ \A l \in c : l.aim = place
Met(r, c, w, place) == InFile(r, c, w, place) \/ InTask(r, c, w, place) \/ InCron(r, c, w, place)
\* Each system has a scheduler of its own.
Native(r, c) ==
    /\ os # "windows" => r.task = Off
    /\ os = "windows" \/ (os = "linux" /\ manager = "none") => r.file = Off /\ r.held = Off
    /\ ~(os = "linux" /\ manager = "none") => c = {}
\* The wish in force is met, and the panel remembers no other.
Kept(n) ==
    /\ Native(reg[n], crontab)
    /\ told[n] => IF asked[n] = Off THEN Gone(reg[n], crontab)
                  ELSE Met(reg[n], crontab, asked[n].wish, asked[n].aim)
    /\ \A st \in seen[n] : st = Off \/ ~told[n] \/ st \in Answers(n)
    /\ uses = 0 => told[n]
SchedInv == SchedTypes /\ \A n \in Name : Kept(n)

LEMMA OnlyOurs ==
    ASSUME SchedTypes, Name = {Plain}, NEW n \in Name
    PROVE  Marked(n) = crontab
BY DEF Marked

\* What an outcome may be, when the wish is w.
Meets(left, w) ==
    /\ Native(left.reg, left.crontab)
    /\ left.ok => IF w = Off THEN Gone(left.reg, left.crontab) ELSE Met(left.reg, left.crontab, w, exe)

LEMMA NotDone ==
    ASSUME NEW r, NEW c, Native(r, c), NEW w, NEW failed
    PROVE  Meets(Left(r, c, FALSE, failed), w)
BY DEF Meets, Left
LEMMA Done ==
    ASSUME NEW r, NEW c, Native(r, c), NEW w, IF w = Off THEN Gone(r, c) ELSE Met(r, c, w, exe), NEW failed
    PROVE  Meets(Left(r, c, TRUE, failed), w)
<1>. DEFINE left == Left(r, c, TRUE, failed)
<1>1. left.reg = r /\ left.crontab = c
  BY DEF Left
<1>. HIDE DEF left
<1>. QED  BY <1>1 DEF Meets, left

LEMMA InstallMeets ==
    ASSUME SchedTypes, Name = {Plain}, NEW n \in Name, Native(reg[n], crontab), NEW w \in Asks,
           NEW left \in Install(n, w)
    PROVE  Meets(left, w)
<1>. DEFINE r == reg[n]
<1>0. /\ r \in Entry /\ w[1] \in {"every", "daily"} /\ (w[1] = "every" => w[2] \in Mins) /\ w # Off
      /\ os \in {"linux", "darwin", "windows"} /\ manager \in {"none", "silent", "up"}
  BY AskParts DEF SchedTypes
<1>1. CASE left \in InstallSystemd(n, w) /\ w[1] = "every" /\ os = "linux" /\ manager # "none"
  <2>1. Span(w[2]) = FileOf(w[2])
    BY <1>1 DEF FileOf
  <2>. DEFINE service == [r EXCEPT !.aim = exe]
              written == [service EXCEPT !.file = Span(w[2])]
              on      == [written EXCEPT !.enabled = TRUE]
              off     == [on EXCEPT !.held = Off]
              full    == [on EXCEPT !.held = on.file]
  <2>0. r.task = Off /\ crontab = {}
    BY <1>1 DEF Native
  <2>2. service.task = Off /\ service.aim = exe /\ service \in Entry
    BY <1>0, <2>0 DEF Entry, SchedTypes
  <2>7. \/ left = Left(r, crontab, FALSE, 1) \/ left = Left(service, crontab, FALSE, 1)
        \/ left = Left(written, crontab, FALSE, 1) \/ left = Left(written, crontab, FALSE, 0)
        \/ left = Left(on, crontab, FALSE, 1) \/ left = Left(off, crontab, FALSE, 1)
        \/ manager = "up" /\ left = Left(full, crontab, TRUE, 0)
    BY <1>1 DEF InstallSystemd
  <2>8. FileOf(w[2]) \in Files
    BY <1>0, <1>1, FileReads, Zenon
  <2>. HIDE DEF service
  <2>3. written.task = Off /\ written.aim = exe /\ written.file = FileOf(w[2]) /\ written \in Entry
    BY <2>1, <2>2, <2>8 DEF Entry
  <2>. HIDE DEF written
  <2>4. on.task = Off /\ on.aim = exe /\ on.file = FileOf(w[2]) /\ on.enabled /\ on \in Entry
    BY <2>3 DEF Entry
  <2>. HIDE DEF on
  <2>5. off.task = Off
    BY <2>4 DEF Entry
  <2>6. full.task = Off /\ full.aim = exe /\ full.file = FileOf(w[2]) /\ full.enabled /\ full.held = full.file
    BY <2>4 DEF Entry
  <2>. HIDE DEF off, full
  <2>9. \A x : x.task = Off => Native(x, crontab)
    BY <1>1, <2>0 DEF Native
  <2>10. CASE manager = "up" /\ left = Left(full, crontab, TRUE, 0)
    <3>1. Native(full, crontab)
      BY <2>6, <2>9
    <3>2. Met(full, crontab, w, exe)
      BY <1>1, <2>0, <2>6, <2>10 DEF Met, InFile
    <3>. QED  BY <1>0, <2>10, <3>1, <3>2, Done
  <2>. QED  BY <2>0, <2>2, <2>3, <2>4, <2>5, <2>7, <2>9, <2>10, NotDone
<1>2. CASE left \in InstallCron(n, w) /\ w[1] = "every" /\ os = "linux" /\ manager = "none"
  <2>. DEFINE lines == CronEntries(n, w[2])
  <2>1. lines # {} => EveryMinutes(lines, w[2])
    BY <1>0, <1>2, CronExact
  <2>2. \A l \in lines : l.aim = exe
    BY DEF CronEntries
  <2>3. (crontab \ Marked(n)) \cup lines = lines
    BY OnlyOurs
  <2>4. \/ left = Left(r, crontab, FALSE, 0) \/ left = Left(r, crontab, FALSE, 1)
        \/ lines # {} /\ left = Left(r, lines, TRUE, 0)
    BY <1>2, <2>3 DEF InstallCron
  <2>. HIDE DEF lines
  <2>5. r.file = Off /\ r.held = Off /\ r.task = Off
    BY <1>2 DEF Native
  <2>6. CASE lines # {} /\ left = Left(r, lines, TRUE, 0)
    <3>1. Native(r, lines)
      BY <1>2, <2>5 DEF Native
    <3>2. Met(r, lines, w, exe)
      BY <1>2, <2>1, <2>2, <2>5, <2>6 DEF Met, InCron
    <3>. QED  BY <1>0, <2>6, <3>1, <3>2, Done
  <2>. QED  BY <2>4, <2>6, NotDone
<1>3. CASE left \in InstallTask(n, w) /\ os = "windows"
  <2>0. r.file = Off /\ r.held = Off /\ crontab = {}
    BY <1>3 DEF Native
  <2>1. ASSUME NEW logon \in Logon, left = Left([r EXCEPT !.task = Task(w, exe, logon)], crontab, TRUE, 0)
        PROVE  Meets(left, w)
    <3>1. TaskWish(Task(w, exe, logon)) = w /\ Task(w, exe, logon).aim = exe /\ Task(w, exe, logon) # Off
      BY TaskReads DEF SchedTypes
    <3>. DEFINE x == [r EXCEPT !.task = Task(w, exe, logon)]
    <3>2. x.task = Task(w, exe, logon) /\ x.file = Off /\ x.held = Off
      BY <1>0, <2>0 DEF Entry
    <3>. HIDE DEF x
    <3>3. Native(x, crontab)
      BY <1>3, <2>0, <3>2 DEF Native
    <3>4. Met(x, crontab, w, exe)
      BY <1>3, <2>0, <3>1, <3>2 DEF Met, InTask
    <3>. QED  BY <1>0, <2>1, <3>3, <3>4, Done DEF x
  <2>2. \/ left = Left(r, crontab, FALSE, 1)
        \/ \E logon \in Logon : left = Left([r EXCEPT !.task = Task(w, exe, logon)], crontab, TRUE, 0)
    BY <1>3 DEF InstallTask, Logon
  <2>. QED  BY <2>1, <2>2, NotDone
<1>4. CASE left \in InstallAgent(n, w) /\ w[1] = "every" /\ os = "darwin"
  <2>0. r.task = Off /\ crontab = {}
    BY <1>4 DEF Native
  <2>1. StartInterval(w[2]) = FileOf(w[2])
    BY <1>4 DEF FileOf
  <2>. DEFINE written == [r EXCEPT !.file = StartInterval(w[2]), !.aim = exe]
              off     == [written EXCEPT !.held = Off]
              full    == [written EXCEPT !.held = written.file]
  <2>2. \/ left = Left(r, crontab, FALSE, 1) \/ left = Left(off, crontab, FALSE, 1)
        \/ left = Left(written, crontab, FALSE, 1) \/ left = Left(full, crontab, TRUE, 0)
    BY <1>4 DEF InstallAgent
  <2>8. FileOf(w[2]) \in Files /\ exe \in Place
    <3>1. FileOf(w[2]) \in Files
      BY <1>0, <1>4, FileReads, Zenon
    <3>. QED  BY <3>1 DEF SchedTypes
  <2>3. written.task = Off /\ written.file = FileOf(w[2]) /\ written.aim = exe /\ written \in Entry
    <3>1. r \in Entry
      BY <1>0
    <3>. QED  BY <2>0, <2>1, <2>8, <3>1 DEF Entry
  <2>. HIDE DEF written
  <2>4. off.task = Off
    BY <2>3 DEF Entry
  <2>5. full.task = Off /\ full.file = FileOf(w[2]) /\ full.aim = exe /\ full.held = full.file
    BY <2>3 DEF Entry
  <2>. HIDE DEF off, full
  <2>6. \A x : x.task = Off => Native(x, crontab)
    BY <1>4, <2>0 DEF Native
  <2>7. CASE left = Left(full, crontab, TRUE, 0)
    <3>1. Native(full, crontab)
      BY <2>5, <2>6
    <3>2. Met(full, crontab, w, exe)
      BY <1>4, <2>0, <2>5 DEF Met, InFile
    <3>. QED  BY <1>0, <2>7, <3>1, <3>2, Done
  <2>. QED  BY <2>0, <2>2, <2>3, <2>4, <2>6, <2>7, NotDone
<1>5. CASE left = Left(r, crontab, FALSE, 0)
  BY <1>5, NotDone
<1>6. \/ (left \in InstallTask(n, w) /\ os = "windows") \/ left = Left(r, crontab, FALSE, 0)
      \/ (left \in InstallAgent(n, w) /\ w[1] = "every" /\ os = "darwin")
      \/ (left \in InstallSystemd(n, w) /\ w[1] = "every" /\ os = "linux" /\ manager # "none")
      \/ (left \in InstallCron(n, w) /\ w[1] = "every" /\ os = "linux" /\ manager = "none")
  BY <1>0 DEF Install
<1>. QED  BY <1>1, <1>2, <1>3, <1>4, <1>5, <1>6

LEMMA RemoveClears ==
    ASSUME SchedTypes, Name = {Plain}, NEW n \in Name, Native(reg[n], crontab), NEW left \in Remove(n)
    PROVE  Meets(left, Off)
<1>. DEFINE r == reg[n]
<1>0. r \in Entry /\ HeldOnDisk(r) /\ os \in {"linux", "darwin", "windows"}
  BY DEF SchedTypes
<1>a. /\ Stopped(r) \in Entry /\ Stopped(r).held = Off /\ Stopped(r).task = r.task
      /\ Unstopped(r) \in Entry /\ (Unstopped(r).held = Off \/ Unstopped(r).unstopped) /\ Unstopped(r).task = r.task
      /\ [Unstopped(r) EXCEPT !.enabled = FALSE] \in Entry
      /\ [Unstopped(r) EXCEPT !.enabled = FALSE].held = Off \/ [Unstopped(r) EXCEPT !.enabled = FALSE].unstopped
      /\ [Unstopped(r) EXCEPT !.enabled = FALSE].task = r.task
  BY <1>0 DEF Stopped, Unstopped, Entry
\* An outcome is of what was there, unless it says it worked; then it is fileless.
<1>. DEFINE Clears(l) ==
         /\ l.reg.task = Off
         /\ l.ok => l.reg.file = Off /\ (l.reg.held = Off \/ l.reg.unstopped)
<1>b. ASSUME r.task = Off, NEW x \in Entry, x.held = Off \/ x.unstopped, x.task = r.task, NEW failed,
             NEW l \in UnitsGo(x, failed)
      PROVE  Clears(l) /\ l.crontab = crontab
  <2>. DEFINE fileless == [x EXCEPT !.file = Off]
              cleared == [x EXCEPT !.file = Off, !.aim = Off]
  <2>1. /\ fileless.task = Off
        /\ cleared.task = Off /\ cleared.file = Off /\ (cleared.held = Off \/ cleared.unstopped)
    BY <1>b DEF Entry
  <2>2. \/ l = Left(x, crontab, FALSE, failed + 1) \/ l = Left(fileless, crontab, FALSE, failed + 1)
        \/ l = Left(cleared, crontab, TRUE, failed)
    BY <1>b DEF UnitsGo, FilesGo
  <2>. HIDE DEF fileless, cleared
  <2>. QED  BY <1>b, <2>1, <2>2 DEF Left
<1>c. ASSUME r.task = Off, r.file = Off PROVE Clears(Left(r, crontab, TRUE, 0)) /\ Left(r, crontab, TRUE, 0).crontab = crontab
  BY <1>0, <1>c DEF Left, HeldOnDisk
<1>1. CASE os = "linux"
  <2>0. r.task = Off
    BY <1>1 DEF Native
  <2>1. PICK l \in RemoveSystemd(n) : left \in (IF l.ok THEN RemoveCron(n, l) ELSE {l})
    BY <1>1 DEF Remove
  <2>2. \/ r.file = Off /\ l = Left(r, crontab, TRUE, 0)
        \/ /\ r.file # Off
           /\ \/ l \in UnitsGo(Stopped(r), 0) \/ l \in UnitsGo(Unstopped(r), 1)
              \/ l \in UnitsGo([Unstopped(r) EXCEPT !.enabled = FALSE], 1)
    BY <2>1 DEF RemoveSystemd
  <2>3. Clears(l) /\ l.crontab = crontab
    BY <1>a, <1>b, <1>c, <2>0, <2>2
  <2>4. r.file # Off => manager # "none" /\ crontab = {}
    BY <1>1 DEF Native
  <2>5. r.file = Off => l = Left(r, crontab, TRUE, 0)
    BY <2>2
  <2>6. r.file = Off /\ manager = "none" => l.reg.held = Off
    BY <1>1, <2>5 DEF Native, Left
  <2>7. l.ok => Native(l.reg, crontab) /\ Native(l.reg, {}) /\ Gone(l.reg, {})
    BY <1>1, <2>3, <2>4, <2>6 DEF Native, Gone
  <2>8. ~l.ok => Native(l.reg, crontab)
    <3>1. ~l.ok => r.file # Off
      BY <2>5 DEF Left
    <3>. QED  BY <1>1, <2>3, <2>4, <3>1 DEF Native
  <2>9. CASE l.ok
    <3>1. crontab \ Marked(n) = {}
      BY OnlyOurs
    <3>2. left = Left(l.reg, {}, TRUE, l.failed) \/ left = Left(l.reg, crontab, FALSE, l.failed + 1)
      BY <2>1, <2>9, <3>1 DEF RemoveCron
    <3>3. Meets(Left(l.reg, {}, TRUE, l.failed), Off)
      BY <2>7, <2>9, Done
    <3>4. Meets(Left(l.reg, crontab, FALSE, l.failed + 1), Off)
      BY <2>7, <2>9, NotDone
    <3>. QED  BY <3>2, <3>3, <3>4
  <2>10. CASE ~l.ok
    <3>1. left = l
      BY <2>1, <2>10
    <3>. QED  BY <2>3, <2>8, <2>10, <3>1 DEF Meets
  <2>. QED  BY <2>9, <2>10
<1>2. CASE os = "darwin"
  <2>0. r.task = Off /\ crontab = {}
    BY <1>2 DEF Native
  <2>1. \A x, failed : FilesGo(x, failed) \subseteq UnitsGo(x, failed)
    BY DEF UnitsGo
  <2>2. \/ r.file = Off /\ left = Left(r, crontab, TRUE, 0)
        \/ left \in UnitsGo(Stopped(r), 0) \/ left \in UnitsGo(Unstopped(r), 1)
    BY <1>2, <2>1 DEF Remove, RemoveAgent
  <2>3. Clears(left) /\ left.crontab = crontab
    BY <1>a, <1>b, <1>c, <2>0, <2>2
  <2>4. Native(left.reg, crontab)
    BY <1>2, <2>0, <2>3 DEF Native
  <2>. QED  BY <2>0, <2>3, <2>4 DEF Meets, Gone
<1>3. CASE os = "windows"
  <2>. DEFINE x == [r EXCEPT !.task = Off]
  <2>0. r.file = Off /\ r.held = Off /\ crontab = {}
    BY <1>3 DEF Native
  <2>1. left = Left(r, crontab, FALSE, 1) \/ left = Left(x, crontab, TRUE, 0)
    BY <1>3 DEF Remove, RemoveTask
  <2>2. x.task = Off /\ x.file = Off /\ x.held = Off
    BY <1>0, <2>0 DEF Entry
  <2>. HIDE DEF x
  <2>3. Native(x, crontab) /\ Gone(x, crontab)
    BY <1>3, <2>0, <2>2 DEF Native, Gone
  <2>4. Meets(Left(x, crontab, TRUE, 0), Off)
    BY <2>3, Done
  <2>. QED  BY <2>1, <2>4, NotDone
<1>. QED  BY <1>0, <1>1, <1>2, <1>3

\* What the schedulers say of a wish that is met.
LEMMA MetReads ==
    ASSUME SchedTypes, Name = {Plain}, NEW n \in Name, NEW w \in Asks, NEW place,
           Met(reg[n], crontab, w, place)
    PROVE  Answers(n) \subseteq {w, <<"every", 0>>}
<1>0. w = <<w[1], w[2]>> /\ (w[1] = "every" => w[2] \in Mins)
  BY AskParts
<1>1. ASSUME InFile(reg[n], crontab, w, place) PROVE Current(n) = w
  <2>1. FileOf(w[2]) # Off /\ FileWish(FileOf(w[2])) = <<"every", w[2]>>
    BY <1>0, <1>1, FileReads, Zenon DEF InFile
  <2>. QED  BY <1>0, <1>1, <2>1 DEF InFile, Current, CurrentAgent, CurrentEntry
<1>2. ASSUME InTask(reg[n], crontab, w, place) PROVE Current(n) = w
  BY <1>2 DEF InTask, Current, CurrentTask
<1>3. ASSUME InCron(reg[n], crontab, w, place) PROVE Current(n) = <<"every", 0>>
  <2>1. Marked(n) # {}
    BY <1>3, OnlyOurs DEF InCron
  <2>. QED  BY <1>3, <2>1 DEF InCron, Current, CurrentEntry
<1>4. Current(n) = w \/ Current(n) = <<"every", 0>>
  BY <1>1, <1>2, <1>3 DEF Met
<1>. QED  BY <1>4 DEF Answers
LEMMA GoneReads ==
    ASSUME SchedTypes, Name = {Plain}, NEW n \in Name, Gone(reg[n], crontab)
    PROVE  Current(n) = Off /\ Answers(n) = {Off}
<1>1. Marked(n) = {}
  BY OnlyOurs DEF Gone
<1>. QED  BY <1>1 DEF Gone, Answers, Current, CurrentTask, CurrentAgent, CurrentEntry, SchedTypes

\* And when there is none, that is the one answer.
LEMMA NoneReads ==
    ASSUME SchedTypes, NEW n \in Name, Current(n) = Off
    PROVE  Answers(n) = {Off}
<1>1. CASE os = "windows" /\ reg[n].task # Off
  <2>1. PICK w \in Asks, place \in Place, logon \in Logon : reg[n].task = Task(w, place, logon)
    BY <1>1 DEF SchedTypes, Entry, TaskOf
  <2>2. Current(n) = w
    BY <1>1, <2>1, TaskReads DEF Current, CurrentTask
  <2>. QED  BY <2>2, AskParts
<1>2. CASE ~(os = "windows" /\ reg[n].task # Off)
  BY <1>2 DEF Answers
<1>. QED  BY <1>1, <1>2

\* So a repair keeps the schedule in force.
LEMMA KeepsAsked ==
    ASSUME SchedTypes, Name = {Plain}, NEW n \in Name, Kept(n), NEW st \in Status, st # Off,
           ~told[n] \/ st \in Answers(n)
    PROVE  Expected(n, st) = Repaired(st)
<1>1. CASE ~told[n]
  BY <1>1 DEF Expected
<1>2. CASE told[n] /\ asked[n] = Off
  BY <1>2, GoneReads DEF Kept
<1>3. CASE told[n] /\ asked[n] # Off
  <2>1. asked[n].wish \in Asks /\ Met(reg[n], crontab, asked[n].wish, asked[n].aim)
    BY <1>3 DEF Kept, SchedTypes
  <2>2. st = asked[n].wish \/ st = <<"every", 0>>
    BY <1>3, <2>1, MetReads
  <2>3. CASE st = asked[n].wish
    <3>1. Repaired(st) = st
      BY <2>1, <2>3, AskParts
    <3>. QED  BY <1>3, <2>3, <3>1 DEF Expected
  <2>4. CASE st = <<"every", 0>>
    BY <2>4 DEF Expected
  <2>. QED  BY <2>2, <2>3, <2>4
<1>. QED  BY <1>1, <1>2, <1>3

LEMMA BecomesKept ==
    ASSUME SchedTypes, Name = {Plain}, NEW n \in Name, Kept(n), NEW outcomes, NEW w \in Asks \cup {Off},
           \A left \in outcomes : OutcomeOK(left) /\ Meets(left, w), Becomes(n, outcomes, w),
           \A st \in seen'[n] : st = Off \/ ~told'[n]
    PROVE  Kept(n)'
<1>1. PICK left \in outcomes :
        /\ reg' = [reg EXCEPT ![n] = left.reg] /\ crontab' = left.crontab
        /\ told' = [told EXCEPT ![n] = left.ok]
        /\ asked' = [asked EXCEPT ![n] = IF w = Off THEN Off ELSE [wish |-> w, aim |-> exe]]
  BY DEF Becomes
<1>2. os' = os /\ manager' = manager /\ uses' = uses + 1 /\ uses \in Nat
  BY DEF Becomes, SchedTypes
<1>3. reg'[n] = left.reg /\ crontab' = left.crontab /\ told'[n] = left.ok
      /\ asked'[n] = IF w = Off THEN Off ELSE [wish |-> w, aim |-> exe]
  BY <1>1 DEF SchedTypes
<1>4. Meets(left, w)
  OBVIOUS
<1>5. Native(reg[n], crontab)'
  BY <1>2, <1>3, <1>4 DEF Meets, Native
<1>6. CASE w = Off
  <2>1. asked'[n] = Off /\ (told'[n] => Gone(reg[n], crontab)')
    BY <1>3, <1>4, <1>6 DEF Meets, Gone
  <2>. QED  BY <1>2, <1>5, <2>1 DEF Kept
<1>7. CASE w # Off
  <2>1. [wish |-> w, aim |-> exe] # Off
    <3>1. w \in {"every", "daily"} \X Nat /\ exe \in Place
      BY <1>7, AskParts DEF SchedTypes
    <3>. QED  BY <3>1, OffAssumption
  <2>2. asked'[n] # Off /\ asked'[n].wish = w /\ asked'[n].aim = exe
    BY <1>3, <1>7, <2>1
  <2>3. told'[n] => Met(left.reg, left.crontab, w, exe)
    BY <1>3, <1>4, <1>7 DEF Meets
  <2>. QED  BY <1>2, <1>3, <1>5, <2>2, <2>3 DEF Kept, Met, InFile, InTask, InCron, FileOf
<1>. QED  BY <1>6, <1>7

LEMMA SchedStartKept == SchedInit => SchedInv
BY SchedStartTyped DEF SchedInit, SchedInv, Kept, Native, Gone

LEMMA SchedKept ==
    ASSUME Name = {Plain}, ~Switches, ~Aside, SchedInv, [SchedNext]_schedVars
    PROVE  SchedInv'
<1>0. SchedTypes /\ SchedTypes' /\ \A n \in Name : Kept(n)
  BY SchedTyped DEF SchedInv
<1>1. Default \in Asks
  BY DEF Default, Asks, Mins, DefaultIntervalMinutes
<1>2. ASSUME NEW n \in Name, Kept(n)' PROVE SchedInv'
  BY <1>0, <1>2 DEF SchedInv
<1>3. ASSUME NEW n \in Name, NEW w \in Asks, Becomes(n, Install(n, w), w),
             \A st \in seen'[n] : st = Off \/ ~told'[n]
      PROVE  SchedInv'
  <2>1. \A left \in Install(n, w) : OutcomeOK(left) /\ Meets(left, w)
    BY <1>0, InstallTyped, InstallMeets DEF Kept
  <2>. QED  BY <1>0, <1>2, <1>3, <2>1, BecomesKept
<1>4. ASSUME NEW n \in Name, Becomes(n, Remove(n), Off), \A st \in seen'[n] : st = Off \/ ~told'[n]
      PROVE  SchedInv'
  <2>1. \A left \in Remove(n) : OutcomeOK(left) /\ Meets(left, Off)
    BY <1>0, RemoveTyped, RemoveClears DEF Kept
  <2>. QED  BY <1>0, <1>2, <1>4, <2>1, BecomesKept
<1>5. ASSUME NEW n \in Name, InTerminal(n) \/ InPanel(n) PROVE \A st \in seen'[n] : st = Off \/ ~told'[n]
  BY <1>0, <1>5 DEF InTerminal, InPanel, SchedTypes
<1>6. ASSUME NEW n \in Name, NEW w \in Wish, Registers(n, w) \/ PanelRegisters(n, w) PROVE SchedInv'
  <2>1. w \in Asks
    BY <1>6, WishTyped DEF Registers, PanelRegisters
  <2>. QED  BY <1>3, <1>5, <1>6, <2>1 DEF Registers, PanelRegisters
<1>7. ASSUME NEW n \in Name, Unregisters(n) \/ PanelUnregisters(n) PROVE SchedInv'
  BY <1>4, <1>5, <1>7 DEF Unregisters, PanelUnregisters
<1>8. ASSUME NEW n \in Name, Repairs(n) PROVE SchedInv'
  <2>1. PICK st \in Answers(n) \ {Off} : Becomes(n, Install(n, Repaired(st)), Expected(n, st))
    BY <1>8 DEF Repairs
  <2>2. Repaired(st) \in Asks /\ Expected(n, st) = Repaired(st)
    BY <1>0, CurrentTyped, RepairTyped, KeepsAsked
  <2>. QED  BY <1>3, <1>5, <1>8, <2>1, <2>2 DEF Repairs
<1>9. ASSUME NEW n \in Name, PanelRepairs(n) PROVE SchedInv'
  <2>1. PICK st \in PanelStatus(n) \ {Off} : Becomes(n, Install(n, Repaired(st)), Expected(n, st))
    BY <1>9 DEF PanelRepairs
  <2>2. st \in Status /\ (~told[n] \/ st \in Answers(n))
    BY <1>0, StatusSeen DEF PanelStatus, Kept
  <2>3. Repaired(st) \in Asks /\ Expected(n, st) = Repaired(st)
    BY <1>0, <2>2, RepairTyped, KeepsAsked
  <2>. QED  BY <1>3, <1>5, <1>9, <2>1, <2>3 DEF PanelRepairs
<1>10. ASSUME NEW n \in Name, Offers(n) PROVE SchedInv'
  BY <1>1, <1>3, <1>5, <1>10 DEF Offers
<1>11. ASSUME NEW n \in Name, FirstRun(n) PROVE SchedInv'
  <2>1. \A st \in seen[n] : st = Off
    BY <1>0, <1>11, NoneReads DEF FirstRun, Kept
  <2>. QED  BY <1>1, <1>3, <1>11, <2>1 DEF FirstRun
<1>12. ASSUME NEW n \in Name, Looks(n) \/ LookIsOld(n) PROVE SchedInv'
  <2>1. UNCHANGED <<os, manager, regVars, exe, asked, told, uses, slips, moves>>
    BY <1>12 DEF Looks, LookIsOld
  <2>2. Current(n)' = Current(n) /\ Answers(n)' = Answers(n)
    BY <2>1 DEF regVars, Answers, Current, CurrentTask, CurrentAgent, CurrentEntry, Marked, FileWish
  <2>3. \A st \in seen'[n] : st \in Answers(n)
    BY <1>0, <1>12 DEF Looks, LookIsOld, SchedTypes
  <2>4. Kept(n)'
    BY <1>0, <2>1, <2>2, <2>3 DEF regVars, Kept, Native, Gone, Met, InFile, InTask, InCron, FileOf
  <2>. QED  BY <1>2, <2>4
<1>13. CASE SignsIn
  <2>1. PICK n \in Name : n = Plain
    BY ScheduleAssumption
  <2>2. UNCHANGED <<os, manager, crontab, exe, seen, asked, told, uses, slips, moves>>
    BY <1>13 DEF SignsIn
  <2>. DEFINE r == reg[n]
  <2>3. r \in Entry /\ HeldOnDisk(r)
    BY <1>0 DEF SchedTypes
  <2>4. reg'[n] = [r EXCEPT !.held = Held(r), !.unstopped = FALSE]
    BY <1>13 DEF SignsIn
  <2>5. Held(r) = IF os = "darwin" \/ (os = "linux" /\ manager = "up" /\ r.enabled) THEN r.file ELSE Off
    BY <2>2 DEF Held
  <2>. HIDE DEF Held
  <2>6. reg'[n].held = Held(r) /\ reg'[n].file = r.file /\ reg'[n].task = r.task /\ reg'[n].aim = r.aim
        /\ reg'[n].enabled = r.enabled
    BY <2>3, <2>4 DEF Entry
  <2>7. Answers(n)' = Answers(n)
    BY <2>2, <2>6 DEF Answers, Current, CurrentTask, CurrentAgent, CurrentEntry, Marked, FileWish
  <2>8. Native(r, crontab) => Native(reg'[n], crontab)
    BY <2>5, <2>6 DEF Native
  <2>9. Gone(r, crontab) => Gone(reg'[n], crontab)
    BY <2>5, <2>6 DEF Gone
  <2>10. \A w, place : Met(r, crontab, w, place) => Met(reg'[n], crontab, w, place)
    BY <2>5, <2>6 DEF Met, InFile, InTask, InCron
  <2>11. Kept(n)'
    BY <1>0, <2>2, <2>7, <2>8, <2>9, <2>10 DEF Kept, Native, Gone, Met, InFile, InTask, InCron, FileOf
  <2>. QED  BY <1>2, <2>11
<1>14. CASE ProgramMoves \/ UNCHANGED schedVars
  <2>1. PICK n \in Name : n = Plain
    BY ScheduleAssumption
  <2>2. UNCHANGED <<os, manager, reg, crontab, seen, asked, told, uses>>
    BY <1>14 DEF ProgramMoves, schedVars, regVars
  <2>3. Answers(n)' = Answers(n)
    BY <2>2 DEF Answers, Current, CurrentTask, CurrentAgent, CurrentEntry, Marked, FileWish
  <2>4. Kept(n)'
    BY <1>0, <2>2, <2>3 DEF Kept, Native, Gone, Met, InFile, InTask, InCron, FileOf
  <2>. QED  BY <1>2, <2>4
<1>. QED  BY <1>6, <1>7, <1>8, <1>9, <1>10, <1>11, <1>12, <1>13, <1>14 DEF SchedNext

\* Each way a wish is met starts one thing, as often as asked and where the
\* program was when it was asked.
LEMMA KeptAsTold ==
    ASSUME Name = {Plain}, SchedInv
    PROVE  RunsAsTold
<1>. SUFFICES ASSUME NEW n \in Name, told[n]
     PROVE  LET r == reg[n]
                lines == {l \in crontab : l.name = n}
                entries == (IF r.held = Off THEN {} ELSE {[wish |-> FileWish(r.held), aim |-> r.aim]}) \cup
                           (IF r.task = Off THEN {} ELSE {[wish |-> TaskWish(r.task), aim |-> r.task.aim]})
            IN IF asked[n] = Off THEN lines = {} /\ r.task = Off /\ (r.held = Off \/ r.unstopped)
               ELSE \/ lines = {} /\ entries = {asked[n]}
                    \/ /\ entries = {} /\ asked[n].wish[1] = "every" /\ EveryMinutes(lines, asked[n].wish[2])
                       /\ \A l \in lines : l.aim = asked[n].aim
  BY DEF RunsAsTold
<1>. DEFINE r == reg[n]
            lines == {l \in crontab : l.name = n}
            byFile == IF r.held = Off THEN {} ELSE {[wish |-> FileWish(r.held), aim |-> r.aim]}
            byTask == IF r.task = Off THEN {} ELSE {[wish |-> TaskWish(r.task), aim |-> r.task.aim]}
<1>0. SchedTypes /\ Kept(n)
  BY DEF SchedInv
<1>1. lines = crontab
  BY <1>0 DEF SchedTypes, Line
<1>2. CASE asked[n] = Off
  BY <1>0, <1>2 DEF Kept, Gone
<1>3. CASE asked[n] # Off
  <2>. DEFINE w == asked[n].wish
              place == asked[n].aim
  <2>1. w \in Asks /\ asked[n] = [wish |-> w, aim |-> place] /\ Met(r, crontab, w, place)
    BY <1>0, <1>3 DEF SchedTypes, Kept
  <2>2. w = <<w[1], w[2]>> /\ (w[1] = "every" => w[2] \in Mins)
    BY <2>1, AskParts
  <2>. HIDE DEF w, place
  <2>3. CASE InFile(r, crontab, w, place)
    <3>1. FileOf(w[2]) # Off /\ FileWish(FileOf(w[2])) = <<"every", w[2]>>
      BY <2>2, <2>3, FileReads, Zenon DEF InFile
    <3>2. byFile = {asked[n]} /\ byTask = {} /\ lines = {}
      BY <1>1, <2>1, <2>2, <2>3, <3>1 DEF InFile
    <3>. QED  BY <1>3, <3>2
  <2>4. CASE InTask(r, crontab, w, place)
    <3>1. byFile = {} /\ byTask = {asked[n]} /\ lines = {}
      BY <1>1, <2>1, <2>4 DEF InTask
    <3>. QED  BY <1>3, <3>1
  <2>5. CASE InCron(r, crontab, w, place)
    <3>1. byFile = {} /\ byTask = {} /\ lines = crontab
      BY <1>1, <2>5 DEF InCron
    <3>. QED  BY <1>3, <2>5, <3>1 DEF InCron, w, place
  <2>. QED  BY <2>1, <2>3, <2>4, <2>5 DEF Met
<1>. QED  BY <1>2, <1>3

\* With one data directory, a command about the schedule that says it worked is
\* kept: one thing starts the program, as often as asked, or nothing after "off",
\* in this session and the next ones, but a timer or an agent that could not be
\* stopped until the person signs in again.  systemd must not come and go between
\* sessions, nor the terminal change what the panel has just read (Install, Remove).
THEOREM SchedulesRunAsTold ==
    ASSUME Name = {Plain}, ~Switches, ~Aside
    PROVE  SchedSpec => []RunsAsTold
<1>. QED  BY SchedStartKept, SchedKept, KeptAsTold, PTL DEF SchedSpec

(***************************************************************************)
(* All of them together.                                                   *)
(***************************************************************************)
LEMMA OneActs ==
    /\ InSetstore => UNCHANGED <<accountVars, updateVars, schedVars>>
    /\ InAccount => UNCHANGED <<setVars, updateVars, schedVars>>
    /\ InUpdate => UNCHANGED <<setVars, accountVars, schedVars>>
    /\ InSchedule => UNCHANGED <<setVars, accountVars, updateVars>>
BY DEF InSetstore, InAccount, InUpdate, InSchedule, Only

LEMMA EachByItself ==
    [Next]_partVars =>
        /\ [SetsNext]_setVars /\ [AccountNext]_accountVars /\ [UpdateNext]_updateVars /\ [SchedNext]_schedVars
<1>. SUFFICES ASSUME [Next]_partVars
              PROVE  /\ [SetsNext]_setVars /\ [AccountNext]_accountVars
                     /\ [UpdateNext]_updateVars /\ [SchedNext]_schedVars
  OBVIOUS
<1>1. [SetsNext]_setVars
  BY Zenon, OneActs DEF Next, SetsNext, partVars
<1>2. [AccountNext]_accountVars
  BY Zenon, OneActs DEF Next, AccountNext, AccountOf, partVars
<1>3. [UpdateNext]_updateVars
  BY Zenon, OneActs DEF Next, UpdateNext, partVars
<1>4. [SchedNext]_schedVars
  BY Zenon, OneActs DEF Next, SchedNext, partVars
<1>. QED  BY <1>1, <1>2, <1>3, <1>4

LEMMA EachSpec ==
    Spec => SetsSpec /\ AccountSpec /\ UpdateSpec /\ SchedSpec
BY EachByItself, PTL DEF Spec, Init, SetsSpec, AccountSpec, UpdateSpec, SchedSpec

\* Every variable of the folders, the account, the program's file and its schedule has
\* its type, what a sync kept and a sign-in saved agree, a sign-in lasts its 30 days but
\* for a sign-out or a new PIN, and nothing is in a scheduler's memory without its file
\* but what could not be stopped, for any numbers of programs and computers, when no two
\* of them set the PIN at one time, no sign-in ends during a check of the session, and no
\* program ends between the two renames of Windows.
THEOREM DeskConsistent ==
    ASSUME ~Overlap, ~StaleCheck, ~MidSwapCuts
    PROVE  Spec => []Consistent
<1>1. /\ SetsTypeOK /\ AccountTypeOK /\ SyncSaves /\ SignInStays /\ UpdateTypeOK /\ SchedTypeOK
      => Consistent
  BY DEF Consistent
<1>. QED  BY <1>1, EachSpec, SetsKeepTypes, AccountKeepsTypes, SyncsSave, SignInsStay, UpdateKeepsTypes,
            ScheduleKeepsTypes, PTL
=============================================================================
