----------------------------- MODULE SelfUpdate -----------------------------
(***************************************************************************)
(* Replacing the r2b binary in place, as several running r2b programs may  *)
(* try at one time: the check for a newer release, the download and its    *)
(* checksum, the swap of Unix and of Windows, the removal of what Windows  *)
(* leaves behind, and the panel restarting itself from the new file.       *)
(*                                                                         *)
(* A binary is its version; NoFile and Damaged are the other things a path *)
(* may hold.  Windows renames a file that a program runs from and neither  *)
(* removes nor replaces it, which image keeps.  A release published without *)
(* a checksums.txt is unpacked as it comes.                                *)
(***************************************************************************)
EXTENDS Integers

CONSTANTS Copy, Tray, \* the r2b programs, and the one that is the panel
          Bare, \* releases that were published without a checksums.txt
          MidSwapCuts, \* a program may be killed between the two renames
          MaxReleases, MaxFaults, MaxLaunches, MaxBoots \* bounds for TLC

ASSUME SelfUpdateAssumption ==
    /\ Tray \in Copy /\ Bare \subseteq 1 .. MaxReleases /\ MidSwapCuts \in BOOLEAN
    /\ MaxReleases \in Nat \ {0} /\ MaxFaults \in Nat /\ MaxLaunches \in Nat /\ MaxBoots \in Nat

VARIABLES
    windows,         \* which swap this build has
    self, old,       \* the file at the program's path, and at its path with ".old"
    doomed,          \* Windows will remove ".old" at the next boot
    image,           \* where the file each program runs from is by now
    version,         \* cli.Version of each program
    doing,           \* how far each is with its own update
    rel, torn,       \* the release in hand, and who has staged a damaged file of one
    latest,          \* GitHub's newest release
    installed,       \* history: the newest version an update said it installed
    stranded,        \* history: a binary moved aside could not be put back
    unverified,      \* history: a download without checksums was damaged
    stumbles, launches, boots

swapVars   == <<self, old, image>>
copyVars   == <<version, doing, rel, torn>>
buildVars  == <<windows, stranded, unverified>>
worldVars  == <<buildVars, doomed, latest, installed, stumbles, launches, boots>>
updateVars == <<swapVars, copyVars, worldVars>>

NoFile  == 0
Damaged == -1
File    == {Damaged, NoFile} \cup 1 .. MaxReleases
Runs(f) == f > 0
Swapping == {"aside", "failed"}

UpdateTypeOK ==
    /\ {windows, stranded, unverified} \subseteq BOOLEAN /\ torn \subseteq Copy /\ self \in File /\ old \in File /\ doomed \in BOOLEAN
    /\ image \in [Copy -> {"none", "self", "old", "unlinked"}]
    /\ version \in [Copy -> 0 .. MaxReleases] /\ rel \in [Copy -> File]
    /\ doing \in [Copy -> {"off", "idle", "backup", "nudged", "offered", "fetching", "staged", "cleared"}
                            \cup Swapping]
    /\ latest \in 1 .. MaxReleases /\ installed \in 1 .. MaxReleases
    /\ stumbles \in 0 .. MaxFaults /\ launches \in 0 .. MaxLaunches /\ boots \in 0 .. MaxBoots

UpdateInit ==
    /\ windows \in BOOLEAN /\ stranded = FALSE /\ unverified = FALSE /\ torn = {}
    /\ self = 1 /\ old = NoFile /\ doomed = FALSE
    /\ image = [c \in Copy |-> "none"] /\ version = [c \in Copy |-> 0]
    /\ doing = [c \in Copy |-> "off"] /\ rel = [c \in Copy |-> NoFile]
    /\ latest = 1 /\ installed = 1 /\ stumbles = 0 /\ launches = 0 /\ boots = 0

\* A rename or a write that the system refuses.
Stumbles == stumbles < MaxFaults /\ stumbles' = stumbles + 1
Steps(c, s) == doing' = [doing EXCEPT ![c] = s]
At(c, s) == doing[c] = s
InUse(place) == windows /\ \E c \in Copy : image[c] = place
\* Programs follow the file they run from when it is renamed.
ImagesMoved(from, to) == [c \in Copy |-> IF image[c] = from THEN to ELSE image[c]]
\* os.Rename cannot put a file where one is that a program runs from.
MayReplace(place, file) == file = NoFile \/ ~InUse(place)

\* A build is newer when its number is: Newer compares whole numbers.
Newer(current, other) == other > current

(***************************************************************************)
(* Programs come and go.  Every one of them begins with Cleanup.           *)
(***************************************************************************)
\* Cleanup's os.Remove, which fails while a program runs from the file.
Cleanup == IF InUse("old") THEN old ELSE NoFile

Launches(c) ==
    /\ At(c, "off") /\ Runs(self)
    /\ launches < MaxLaunches /\ launches' = launches + 1
    /\ image' = [image EXCEPT ![c] = "self"] /\ version' = [version EXCEPT ![c] = self]
    /\ old' = Cleanup /\ Steps(c, "idle")
    /\ UNCHANGED <<buildVars, self, doomed, rel, torn, latest, installed, stumbles, boots>>

\* It ends, or is killed, which leaves the staged file beside the binary.
Quits(c) ==
    /\ ~At(c, "off") /\ (MidSwapCuts \/ doing[c] \notin Swapping)
    /\ image' = [image EXCEPT ![c] = "none"] /\ Steps(c, "off")
    /\ UNCHANGED <<self, old, version, rel, torn, worldVars>>

\* Every program dies, and Windows removes what it was asked to.
Boots ==
    /\ boots < MaxBoots /\ boots' = boots + 1
    /\ MidSwapCuts \/ \A c \in Copy : doing[c] \notin Swapping
    /\ old' = IF doomed THEN NoFile ELSE old
    /\ doomed' = FALSE
    /\ image' = [c \in Copy |-> "none"] /\ doing' = [c \in Copy |-> "off"]
    /\ UNCHANGED <<buildVars, self, version, rel, torn, latest, installed, stumbles, launches>>

\* A program other than the panel backs up a folder.
WorksOn(c) ==
    /\ c # Tray /\ At(c, "idle") /\ Steps(c, "backup")
    /\ UNCHANGED <<swapVars, version, rel, torn, worldVars>>
\* The work is done, and it may say that there is a newer release.
WorkDone(c) ==
    /\ At(c, "backup")
    /\ \/ Steps(c, "idle") /\ UNCHANGED rel
       \/ Newer(version[c], latest) /\ Steps(c, "nudged") /\ rel' = [rel EXCEPT ![c] = latest]
    /\ UNCHANGED <<swapVars, version, torn, worldVars>>

Publishes ==
    /\ latest < MaxReleases /\ latest' = latest + 1
    /\ UNCHANGED <<swapVars, copyVars, buildVars, doomed, installed, stumbles, launches, boots>>

(***************************************************************************)
(* An update: find it, take it, download it, swap it in.                   *)
(***************************************************************************)
\* `r2b update' and the panel's check.
LooksUp(c) ==
    /\ At(c, "idle") /\ Newer(version[c], latest)
    /\ rel' = [rel EXCEPT ![c] = latest] /\ Steps(c, "offered")
    /\ UNCHANGED <<swapVars, version, torn, worldVars>>

\* refuseWhileRunning and busyReason. Only what was asked for in the panel
\* looks the newest release up once more, and what a command offers after
\* its work does not look for a running backup.
Busy == \E c \in Copy : At(c, "backup")
Takes(c) ==
    /\ \/ At(c, "nudged")
       \/ At(c, "offered") /\ ~Busy
    /\ rel' = [rel EXCEPT ![c] = IF c = Tray THEN latest ELSE rel[c]]
    /\ Steps(c, "fetching")
    /\ UNCHANGED <<swapVars, version, torn, worldVars>>
Declines(c) ==
    /\ doing[c] \in {"nudged", "offered"} /\ Steps(c, "idle")
    /\ UNCHANGED <<swapVars, version, rel, torn, worldVars>>

\* Fetch: what an archive of release v may hold when it is unpacked, NoFile when it
\* is refused: only the checksums tell that it is damaged, or its own format does.
\* Slip: the checksum is left to the archive's own format.
UnpackedUnchecked(v, archive) == {archive, NoFile}
Unpacked(v, archive) ==
    IF archive # Damaged THEN {archive} ELSE IF v \in Bare THEN {Damaged, NoFile} ELSE {NoFile}

\* Fetch, and applyTo as far as the staged file, which no one else knows.
Fetches(c) ==
    /\ At(c, "fetching")
    /\ \E archive \in {rel[c], Damaged} :
         /\ \/ archive # Damaged /\ UNCHANGED <<stumbles, unverified>>
            \/ archive = Damaged /\ Stumbles /\ unverified' = (unverified \/ rel[c] \in Bare)
         /\ \E f \in Unpacked(rel[c], archive) :
               /\ Steps(c, IF f = NoFile THEN "idle" ELSE "staged")
               /\ torn' = IF f = Damaged THEN torn \cup {c} ELSE torn \ {c}
    /\ UNCHANGED <<swapVars, version, rel, windows, stranded, doomed, latest, installed, launches, boots>>
\* The download, or the write of the staged file, fails.
FetchFails(c) ==
    /\ At(c, "fetching") /\ Stumbles /\ Steps(c, "idle")
    /\ UNCHANGED <<swapVars, version, rel, torn, buildVars, doomed, latest, installed, launches, boots>>

Staged(c) == IF c \in torn THEN Damaged ELSE rel[c]
Says(v) == installed' = IF v > installed THEN v ELSE installed

\* swap on Unix: one rename over the binary.
Replaces(c) ==
    /\ ~windows /\ At(c, "staged") /\ self # NoFile
    /\ self' = Staged(c) /\ image' = ImagesMoved("self", "unlinked") /\ Says(rel[c]) /\ Steps(c, "idle")
    /\ UNCHANGED <<old, version, rel, torn, buildVars, doomed, latest, stumbles, launches, boots>>

\* swap on Windows: make room for the running binary.
ClearsOld(c) ==
    /\ windows /\ At(c, "staged")
    /\ old' = Cleanup /\ Steps(c, "cleared")
    /\ UNCHANGED <<self, image, version, rel, torn, worldVars>>

\* Slip: each update moves the binary aside under a name of its own.
MayMoveAsideAnywhere == self # NoFile
MayMoveAside == self # NoFile /\ MayReplace("old", old)
MovesAside(c) ==
    /\ At(c, "cleared") /\ MayMoveAside
    /\ old' = self /\ self' = NoFile /\ image' = ImagesMoved("self", "old") /\ Steps(c, "aside")
    /\ UNCHANGED <<version, rel, torn, worldVars>>
MoveAsideFails(c) ==
    /\ At(c, "cleared")
    /\ (~MayMoveAside /\ UNCHANGED stumbles) \/ Stumbles
    /\ Steps(c, "idle")
    /\ UNCHANGED <<swapVars, version, rel, torn, buildVars, doomed, latest, installed, launches, boots>>

\* The new binary is in place; asking for the old one's removal may fail.
Installs(c) ==
    /\ At(c, "aside") /\ MayReplace("self", self)
    /\ self' = Staged(c) /\ Says(rel[c]) /\ doomed' \in {doomed, TRUE} /\ Steps(c, "idle")
    /\ UNCHANGED <<old, image, version, rel, torn, buildVars, latest, stumbles, launches, boots>>
InstallFails(c) ==
    /\ At(c, "aside") /\ (Stumbles \/ (~MayReplace("self", self) /\ UNCHANGED stumbles))
    /\ Steps(c, "failed")
    /\ UNCHANGED <<swapVars, version, rel, torn, buildVars, doomed, latest, installed, launches, boots>>
\* Better to still be running the old version than to have no binary at all.
PutsBack(c) ==
    /\ At(c, "failed") /\ old # NoFile /\ MayReplace("self", self)
    /\ self' = old /\ old' = NoFile /\ image' = ImagesMoved("old", "self") /\ Steps(c, "idle")
    /\ UNCHANGED <<version, rel, torn, worldVars>>
\* What kept the new file out keeps the old one out too.
PutBackFails(c) ==
    /\ At(c, "failed") /\ Steps(c, "idle") /\ stranded' = TRUE
    /\ UNCHANGED <<swapVars, version, rel, torn, windows, unverified, doomed, latest, installed, stumbles, launches, boots>>

\* watchForUpdate has seen another file at the panel's path, twice: the panel
\* ends whatever else it is at, and starts again from that file.
TrayRestarts ==
    /\ windows /\ image[Tray] = "old" /\ self # NoFile /\ ~At(Tray, "off")
    /\ LET up == Runs(self)
       IN /\ image' = [image EXCEPT ![Tray] = IF up THEN "self" ELSE "none"]
          /\ version' = [version EXCEPT ![Tray] = IF up THEN self ELSE @]
          /\ Steps(Tray, IF up THEN "idle" ELSE "off")
          /\ old' = IF up /\ \A c \in Copy \ {Tray} : image[c] # "old" THEN NoFile ELSE old
    /\ UNCHANGED <<self, rel, torn, worldVars>>

UpdateNext ==
    \/ \E c \in Copy :
         \/ Launches(c) \/ Quits(c) \/ WorksOn(c) \/ WorkDone(c)
         \/ LooksUp(c) \/ Takes(c) \/ Declines(c) \/ Fetches(c) \/ FetchFails(c)
         \/ Replaces(c) \/ ClearsOld(c) \/ MovesAside(c) \/ MoveAsideFails(c)
         \/ Installs(c) \/ InstallFails(c) \/ PutsBack(c) \/ PutBackFails(c)
    \/ TrayRestarts \/ Boots \/ Publishes
UpdateSpec == UpdateInit /\ [][UpdateNext]_updateVars

(***************************************************************************)
(* What holds.                                                             *)
(***************************************************************************)
\* Whatever fails but a put-back, and however many programs update at one time,
\* there is a binary that runs at the program's own path, except between the two
\* renames of one update, when the one it replaces is beside it for the put-back;
\* and except that of a release without checksums a damaged download may be there.
WorkingBinary ==
    \/ stranded \/ Runs(self) \/ (unverified /\ self = Damaged)
    \/ \E c \in Copy : doing[c] \in Swapping /\ Runs(old)

\* Two programs that update at one time, with releases they looked up at
\* different times, never leave an older version than one of them said it had
\* installed. On Windows the fixed ".old" name sees to it: a program can move
\* the binary aside only while it runs from that very file.
NeverOlder == windows /\ Runs(self) => self >= installed
=============================================================================
