----------------------------- MODULE UltraFast ------------------------------
(***************************************************************************)
(* Ultra fast mode: setting up a Worker in the user's Cloudflare account,  *)
(* taking it away, putting a newer one up at the beginning of a copy, and  *)
(* copying files from Drime to S3 storage through it, some in parts, with  *)
(* this computer as the way round when the Worker does not do it.          *)
(*                                                                         *)
(* A Worker is a record of where it is, the password bound to it, its      *)
(* version and whether its address answers.  A file is copied whole or in  *)
(* parts; what is kept of it is which of its versions each part came from. *)
(***************************************************************************)
EXTENDS Integers, FiniteSets, FiniteSetsExt

CONSTANTS CfAccount, Nothing, \* Cloudflare accounts; nothing there
          File, Big,         \* what a copy copies, and those sent in two parts
          RelayGiveUp,       \* relayGiveUp
          Meanwhile,         \* settings may change between a copy's beginning and its use of them
          MaxCommands, MaxBinaries, MaxTroubles, MaxReplaced, MaxNetRetries, MaxStale \* bounds for TLC

\* The State a setup leaves: the account, the Worker's name, the password bound
\* to it and its version.
State == [acct : CfAccount, name : 1..MaxCommands, secret : 1..MaxCommands, ver : Nat]

ASSUME UltraFastAssumption ==
    /\ Big \subseteq File /\ RelayGiveUp \in Nat \ {0} /\ Meanwhile \in BOOLEAN
    /\ {MaxCommands, MaxBinaries} \subseteq Nat
    /\ Nothing \notin State

VARIABLES
    relays,    \* the Workers there are
    kept,      \* the State on this computer, or Nothing
    cmd,       \* the command under way: its step, and the State it makes
    commands, lost, off, \* how many; names it was said may be left; turned off and not on again
    binary,    \* relay.Version of the program in use
    run, st, ready,     \* the copy: "off" or "on"; the State it loaded; Copier.once
    halted, inARow,       \* relayState
    at, sent, out, again, err, tries, \* each file: where it stands, parts that went, are on their way, are tried again
    entry, listed,      \* Drime's version of each file, and the one this copy lists
    upload, dst,        \* the parts an open upload holds, and the object
    direct, bytesDone,  \* what a copy through this computer counted, and the sum shown
    troubles

setupVars == <<relays, kept, cmd, commands, lost, off>>
onceVars  == <<run, st, ready>>
stopVars  == <<halted, inARow>>
fileVars  == <<at, sent, out, again, err, tries>>
cloudVars == <<entry, listed, upload, dst>>
tallyVars == <<direct, bytesDone>>
ultraVars == <<setupVars, binary, onceVars, stopVars, fileVars, cloudVars, tallyVars, troubles>>

PartsOf(f)  == IF f \in Big THEN {1, 2} ELSE {1}
Whole(f, v) == [p \in PartsOf(f) |-> v]
NoCmd     == [step |-> "none", new |-> Nothing, old |-> Nothing]


UltraInit ==
    /\ relays = {} /\ kept = Nothing /\ cmd = NoCmd /\ commands = 0 /\ lost = {} /\ off = FALSE
    /\ binary = 1 /\ run = "off" /\ st = Nothing /\ ready = "ask"
    /\ halted = FALSE /\ inARow = 0
    /\ at = [f \in File |-> "off"] /\ sent = [f \in File |-> {}] /\ out = [f \in File |-> {}]
    /\ again = [f \in File |-> {}] /\ err = [f \in File |-> "none"] /\ tries = [f \in File |-> 0]
    /\ entry = [f \in File |-> 1] /\ listed = [f \in File |-> 1]
    /\ upload = [f \in File |-> Nothing] /\ dst = [f \in File |-> Nothing]
    /\ direct = [f \in File |-> 0] /\ bytesDone = 0
    /\ troubles = 0

Trouble == troubles < MaxTroubles /\ troubles' = troubles + 1
Fine    == UNCHANGED troubles

-----------------------------------------------------------------------------
(* Cloudflare: uploadScript, enableWorkersDev and deleteScript.            *)

Same(r, s) == s # Nothing /\ r.acct = s.acct /\ r.name = s.name
Without(s) == {r \in relays : ~Same(r, s)}
\* A script uploaded again keeps its address on.
Uploaded(s) ==
    Without(s) \cup
    {[acct |-> s.acct, name |-> s.name, secret |-> s.secret, ver |-> binary,
      open |-> \E r \in relays : Same(r, s) /\ r.open]}
Opened(s) == {IF Same(r, s) THEN [r EXCEPT !.open = TRUE] ELSE r : r \in relays}
NameLost(s)  == IF s = Nothing THEN {} ELSE {[acct |-> s.acct, name |-> s.name]}
\* A delete nobody waits for.
TakesAway(s) ==
    \/ Fine /\ relays' = Without(s) /\ UNCHANGED lost
    \/ Trouble /\ lost' = lost \cup NameLost(s) /\ UNCHANGED relays

-----------------------------------------------------------------------------
(* Enable and Disable, one call to Cloudflare or one write of the settings *)
(* at a time.                                                              *)

\* What a copy that has begun goes by is not changed under it.
Settled == Meanwhile \/ run = "off" \/ ready \in {"yes", "no"}
StepTo(c) == cmd' = IF c = "none" THEN NoCmd ELSE [cmd EXCEPT !.step = c]
\* Slip: every setup makes a Worker of its own.
NameOfNew(acct) == commands + 1
NameOf(acct) ==
    IF kept # Nothing /\ kept.acct = acct THEN kept.name ELSE commands + 1
TurnOn(acct) ==
    /\ cmd = NoCmd /\ commands < MaxCommands /\ commands' = commands + 1 /\ Settled
    /\ cmd' = [step |-> "upload", old |-> kept,
               new |-> [acct |-> acct, name |-> NameOf(acct), secret |-> commands + 1, ver |-> binary]]
    /\ off' = FALSE
    /\ UNCHANGED <<relays, kept, lost, binary, onceVars, stopVars, fileVars, cloudVars, tallyVars, troubles>>
Uploads ==
    /\ cmd.step = "upload"
    /\ \/ Fine /\ relays' = Uploaded(cmd.new) /\ StepTo("open") /\ UNCHANGED lost
       \/ Trouble /\ relays' \in {relays, Uploaded(cmd.new)} /\ lost' = lost \cup NameLost(cmd.new) /\ StepTo("none")
    /\ UNCHANGED <<kept, commands, off, binary, onceVars, stopVars, fileVars, cloudVars, tallyVars>>
OpensAddress ==
    /\ cmd.step = "open"
    /\ \/ Fine /\ relays' = Opened(cmd.new) /\ StepTo("old")
       \/ Trouble /\ StepTo("undo") /\ UNCHANGED relays
    /\ UNCHANGED <<kept, commands, lost, off, binary, onceVars, stopVars, fileVars, cloudVars, tallyVars>>
Undoes ==
    /\ cmd.step = "undo" /\ TakesAway(cmd.new) /\ StepTo("none")
    /\ UNCHANGED <<kept, commands, off, binary, onceVars, stopVars, fileVars, cloudVars, tallyVars>>
DropsOld ==
    /\ cmd.step = "old" /\ StepTo("save")
    /\ IF cmd.old # Nothing /\ cmd.old.acct # cmd.new.acct
       THEN TakesAway(cmd.old)
       ELSE UNCHANGED <<relays, lost, troubles>>
    /\ UNCHANGED <<kept, commands, off, binary, onceVars, stopVars, fileVars, cloudVars, tallyVars>>
Saves ==
    /\ cmd.step = "save"
    /\ \/ Fine /\ kept' = cmd.new /\ StepTo("none")
       \/ Trouble /\ StepTo("undo") /\ UNCHANGED kept
    /\ UNCHANGED <<relays, commands, lost, off, binary, onceVars, stopVars, fileVars, cloudVars, tallyVars>>

TurnOff ==
    /\ cmd = NoCmd /\ kept # Nothing /\ commands < MaxCommands /\ commands' = commands + 1 /\ Settled
    /\ cmd' = [step |-> "delete", new |-> Nothing, old |-> kept]
    /\ UNCHANGED <<relays, kept, lost, off, binary, onceVars, stopVars, fileVars, cloudVars, tallyVars, troubles>>
Deletes ==
    /\ cmd.step = "delete" /\ TakesAway(cmd.old) /\ StepTo("forget")
    /\ UNCHANGED <<kept, commands, off, binary, onceVars, stopVars, fileVars, cloudVars, tallyVars>>
Forgotten ==
    /\ cmd.step = "forget" /\ StepTo("none")
    /\ \/ Fine /\ kept' = Nothing /\ off' = TRUE
       \/ Trouble /\ UNCHANGED <<kept, off>>
    /\ UNCHANGED <<relays, commands, lost, binary, onceVars, stopVars, fileVars, cloudVars, tallyVars>>
\* The program is killed between two of these.
CutShort ==
    /\ cmd.step \notin {"none", "upload"} /\ Trouble /\ StepTo("none")
    /\ lost' = lost \cup NameLost(cmd.new) \cup NameLost(cmd.old)
    /\ UNCHANGED <<relays, kept, commands, off, binary, onceVars, stopVars, fileVars, cloudVars, tallyVars>>
\* r2backup is updated, and carries a newer relay.
NewBinary ==
    /\ binary < MaxBinaries /\ binary' = binary + 1 /\ cmd = NoCmd /\ run = "off"
    /\ UNCHANGED <<setupVars, onceVars, stopVars, fileVars, cloudVars, tallyVars, troubles>>

-----------------------------------------------------------------------------
(* A copy begins, and readies the Worker once.                             *)

SizeOf(f) == Cardinality(PartsOf(f))
StartCopy ==
    /\ run = "off" /\ (Meanwhile \/ cmd = NoCmd) /\ run' = "on" /\ st' = kept /\ ready' = "ask"
    /\ listed' = entry
    /\ \E fs \in SUBSET File :
        /\ Cardinality(fs) \in 1..MaxStale
        /\ at' = [f \in File |-> IF f \in fs THEN "todo" ELSE "off"]
    /\ UNCHANGED <<setupVars, binary, stopVars, sent, out, again, err, tries, entry, upload, dst, tallyVars, troubles>>
\* relayState.try: the relay is asked unless there is none, or it stopped.
Offer(f) ==
    /\ at[f] = "todo"
    /\ at' = [at EXCEPT ![f] = IF st = Nothing \/ halted THEN "direct" ELSE "ready"]
    /\ UNCHANGED <<setupVars, binary, onceVars, stopVars, sent, out, again, err, tries, cloudVars, tallyVars, troubles>>

\* What answers at the address the copy has, with the password it has.
Answering(v) == \E r \in relays : Same(r, st) /\ r.open /\ r.secret = st.secret /\ r.ver \in v
AnyVersion   == 1..MaxBinaries
Asked        == \E f \in File : at[f] = "ready"
Health ==
    /\ ready = "ask" /\ Asked
    /\ \/ /\ Fine
          /\ ready' = CASE Answering({binary}) -> "yes"
                       [] ~Answering({binary}) /\ Answering(AnyVersion \ {binary}) -> "upload"
                       [] OTHER -> "no"
       \/ Trouble /\ ready' = "no"
    /\ UNCHANGED <<setupVars, binary, run, st, stopVars, fileVars, cloudVars, tallyVars>>
\* upgrade.
PutsUp ==
    /\ ready = "upload"
    /\ \/ Fine /\ relays' = Uploaded(st) /\ ready' = "save"
       \/ Trouble /\ relays' \in {relays, Uploaded(st)} /\ ready' = "no"
    /\ UNCHANGED <<kept, cmd, commands, lost, off, binary, run, st, stopVars, fileVars, cloudVars, tallyVars>>
SavesVersion ==
    /\ ready = "save"
    /\ \/ Fine /\ kept' = [st EXCEPT !.ver = binary] /\ ready' = "answer"
       \/ Trouble /\ ready' = "no" /\ UNCHANGED kept
    /\ UNCHANGED <<relays, cmd, commands, lost, off, binary, run, st, stopVars, fileVars, cloudVars, tallyVars>>
\* Until switchOverWait the old script may answer.
SwitchesOver ==
    /\ ready = "answer" /\ ready' \in {"no"} \cup (IF Answering({binary}) THEN {"yes"} ELSE {})
    /\ UNCHANGED <<setupVars, binary, run, st, stopVars, fileVars, cloudVars, tallyVars, troubles>>

\* Slip: what went before the relay failed stays counted.
UncountedNot(f) == 0
\* What try does with an error of Copy.
Uncounted(f) == Cardinality(sent[f])
GivesBack(f, why) ==
    /\ bytesDone' = bytesDone - Uncounted(f) /\ UNCHANGED direct
    /\ inARow' = IF why = "fail" THEN inARow + 1 ELSE inARow
    /\ halted' = (halted \/ why = "stop" \/ inARow' >= RelayGiveUp)
    /\ at' = [at EXCEPT ![f] = "direct"]
    /\ sent' = [sent EXCEPT ![f] = {}] /\ again' = [again EXCEPT ![f] = {}]
    /\ err' = [err EXCEPT ![f] = "none"]
    /\ UNCHANGED <<out, tries>>
ReadyFails(f) ==
    /\ at[f] = "ready" /\ ready = "no" /\ GivesBack(f, "stop")
    /\ UNCHANGED <<setupVars, binary, onceVars, cloudVars, troubles>>

-----------------------------------------------------------------------------
(* Copier.Copy: links, the parts, and the end of the upload.               *)

\* DownloadLink goes by the entry this copy has listed, which Drime has no
\* more once the file was replaced.
GetLinks(f) ==
    /\ at[f] = "ready" /\ ready = "yes"
    /\ \/ /\ entry[f] = listed[f] /\ Fine
          /\ at' = [at EXCEPT ![f] = "parts"]
          /\ upload' = [upload EXCEPT ![f] = IF f \in Big THEN <<>> ELSE Nothing]
          /\ UNCHANGED <<stopVars, sent, out, again, err, tries, tallyVars>>
       \/ /\ (Trouble \/ (entry[f] # listed[f] /\ Fine))
          /\ \E why \in {"fail", "net"} : GivesBack(f, why)
          /\ UNCHANGED upload
    /\ UNCHANGED <<setupVars, binary, onceVars, entry, listed, dst>>

StartPart(f, p) ==
    /\ at[f] = "parts" /\ err[f] = "none" /\ p \in PartsOf(f) \ (sent[f] \cup out[f])
    /\ out' = [out EXCEPT ![f] = @ \cup {p}]
    /\ UNCHANGED <<setupVars, binary, onceVars, stopVars, at, sent, again, err, tries, cloudVars, tallyVars, troubles>>
\* Slip: a link asked for again is of whatever has that name now.
ServesNow(f) == entry[f]
\* A part's bytes reach S3. A link names one entry, asked again or not.
Serves(f) == listed[f]
Lands(f, p) ==
    IF f \in Big
    THEN /\ upload' = [upload EXCEPT ![f] = [q \in DOMAIN @ \cup {p} |-> IF q = p THEN Serves(f) ELSE @[q]]]
         /\ UNCHANGED dst
    ELSE dst' = [dst EXCEPT ![f] = [q \in {p} |-> Serves(f)]] /\ UNCHANGED upload
PartSent(f, p) ==
    /\ p \in out[f] /\ Answering(AnyVersion) /\ Lands(f, p)
    /\ out' = [out EXCEPT ![f] = @ \ {p}] /\ sent' = [sent EXCEPT ![f] = @ \cup {p}]
    /\ bytesDone' = bytesDone + 1
    /\ UNCHANGED <<setupVars, binary, onceVars, stopVars, at, again, err, tries, entry, listed, direct, troubles>>
\* It fails, or its answer is lost: once more, then for good. The first error
\* of a file ends its other parts.
PartFails(f, p) ==
    /\ p \in out[f]
    /\ (Trouble \/ (Fine /\ (entry[f] # listed[f] \/ err[f] # "none")))
    /\ (Lands(f, p) \/ UNCHANGED <<upload, dst>>)
    /\ IF p \notin again[f] /\ err[f] = "none"
       THEN again' = [again EXCEPT ![f] = @ \cup {p}] /\ UNCHANGED <<out, err>>
       ELSE /\ out' = [out EXCEPT ![f] = @ \ {p}] /\ UNCHANGED again
            /\ \E why \in {"fail", "net"} : err' = [err EXCEPT ![f] = IF @ = "none" THEN why ELSE @]
    /\ UNCHANGED <<setupVars, binary, onceVars, stopVars, at, sent, tries, entry, listed, tallyVars>>
\* The Worker is gone, has another password, or has no allowance left today.
PartStops(f, p) ==
    /\ p \in out[f] /\ (Trouble \/ (Fine /\ ~Answering(AnyVersion)))
    /\ out' = [out EXCEPT ![f] = @ \ {p}]
    /\ err' = [err EXCEPT ![f] = IF @ = "none" THEN "stop" ELSE @]
    /\ UNCHANGED <<setupVars, binary, onceVars, stopVars, at, sent, again, tries, cloudVars, tallyVars>>

\* Every part was waited for. A single PUT needs no finishing.
Joined(f) == out[f] = {} /\ (err[f] # "none" \/ sent[f] = PartsOf(f))
Arrives(f) ==
    /\ at' = [at EXCEPT ![f] = "done"] /\ inARow' = 0 /\ UNCHANGED <<halted, sent, out, again, err, tries, tallyVars>>
FinishUpload(f) ==
    /\ at[f] = "parts" /\ Joined(f) /\ err[f] = "none"
    /\ \/ /\ Fine /\ Arrives(f)
          /\ dst' = [dst EXCEPT ![f] = IF f \in Big THEN upload[f] ELSE @]
          /\ upload' = [upload EXCEPT ![f] = Nothing]
       \/ /\ f \in Big /\ Trouble
          /\ err' = [err EXCEPT ![f] = "fail"]
          /\ dst' \in {dst, [dst EXCEPT ![f] = upload[f]]}
          /\ UNCHANGED <<upload, stopVars, at, sent, out, again, tries, tallyVars>>
    /\ UNCHANGED <<setupVars, binary, onceVars, entry, listed>>
AbandonUpload(f) ==
    /\ at[f] = "parts" /\ Joined(f) /\ err[f] # "none" /\ GivesBack(f, err[f])
    /\ upload' = [upload EXCEPT ![f] = Nothing]
    /\ UNCHANGED <<setupVars, binary, onceVars, entry, listed, dst, troubles>>

-----------------------------------------------------------------------------
(* copyOne, and the loop around both.                                      *)

CopyHere(f) ==
    /\ at[f] = "direct" /\ entry[f] = listed[f]
    /\ dst' = [dst EXCEPT ![f] = Whole(f, listed[f])] /\ at' = [at EXCEPT ![f] = "done"]
    /\ direct' = [direct EXCEPT ![f] = SizeOf(f)] /\ bytesDone' = bytesDone + SizeOf(f)
    /\ UNCHANGED <<setupVars, binary, onceVars, stopVars, sent, out, again, err, tries, entry, listed, upload, troubles>>
\* Some of it was counted when it broke, on the network or otherwise.
CopyBreaks(f) ==
    /\ at[f] = "direct" /\ (Trouble \/ (Fine /\ entry[f] # listed[f]))
    /\ \E k \in 0..SizeOf(f) : direct' = [direct EXCEPT ![f] = k] /\ bytesDone' = bytesDone + k
    /\ \E next \in {"hold", "failed"} : at' = [at EXCEPT ![f] = next]
    /\ UNCHANGED <<setupVars, binary, onceVars, stopVars, sent, out, again, err, tries, cloudVars>>
\* Hold: the network is back, and the file is copied again, relay first.
NetworkBack(f) ==
    /\ at[f] = "hold" /\ tries[f] < MaxNetRetries
    /\ tries' = [tries EXCEPT ![f] = @ + 1] /\ at' = [at EXCEPT ![f] = "todo"]
    /\ bytesDone' = bytesDone - direct[f] /\ direct' = [direct EXCEPT ![f] = 0]
    /\ UNCHANGED <<setupVars, binary, onceVars, stopVars, sent, out, again, err, cloudVars, troubles>>
NetworkStaysAway(f) ==
    /\ at[f] = "hold" /\ at' = [at EXCEPT ![f] = "failed"]
    /\ UNCHANGED <<setupVars, binary, onceVars, stopVars, sent, out, again, err, tries, cloudVars, tallyVars, troubles>>
EndCopy ==
    /\ run = "on" /\ (\A f \in File : at[f] \in {"off", "done", "failed"}) /\ run' = "over"
    /\ UNCHANGED <<setupVars, binary, st, ready, stopVars, fileVars, cloudVars, tallyVars, troubles>>
\* Another program's run puts a new version on Drime.
Replaced(f) ==
    /\ at[f] \notin {"off", "done", "failed"} /\ entry[f] <= MaxReplaced /\ entry' = [entry EXCEPT ![f] = @ + 1]
    /\ UNCHANGED <<setupVars, binary, onceVars, stopVars, fileVars, listed, upload, dst, tallyVars, troubles>>

UltraNext ==
    \/ \E a \in CfAccount : TurnOn(a)
    \/ Uploads \/ OpensAddress \/ Undoes \/ DropsOld \/ Saves \/ TurnOff \/ Deletes \/ Forgotten \/ CutShort
    \/ NewBinary \/ StartCopy \/ Health \/ PutsUp \/ SavesVersion \/ SwitchesOver \/ EndCopy
    \/ \E f \in File :
       \/ Offer(f) \/ ReadyFails(f) \/ GetLinks(f) \/ FinishUpload(f) \/ AbandonUpload(f)
       \/ CopyHere(f) \/ CopyBreaks(f) \/ NetworkBack(f) \/ NetworkStaysAway(f) \/ Replaced(f)
       \/ \E p \in PartsOf(f) : StartPart(f, p) \/ PartSent(f, p) \/ PartFails(f, p) \/ PartStops(f, p)
UltraSpec == UltraInit /\ [][UltraNext]_ultraVars

-----------------------------------------------------------------------------
(* What holds.                                                             *)

UltraTypeOK ==
    /\ {kept, st, cmd.new, cmd.old} \subseteq State \cup {Nothing}
    /\ \A r \in relays : r.acct \in CfAccount /\ r.ver \in 1..binary
    /\ run \in {"off", "on", "over"} /\ ready \in {"ask", "upload", "save", "answer", "yes", "no"}
    /\ \A f \in File :
        /\ at[f] \in {"off", "todo", "ready", "parts", "direct", "hold", "done", "failed"}
        /\ sent[f] \cup out[f] \cup again[f] \subseteq PartsOf(f) /\ sent[f] \cap out[f] = {}
        /\ upload[f] # Nothing => at[f] = "parts" /\ DOMAIN upload[f] \subseteq PartsOf(f)

\* A file said to be copied is whole at the destination and of one version,
\* however many of its parts were sent twice, by whom and with which links.
LandsWhole == \A f \in File : at[f] = "done" => dst[f] = Whole(f, listed[f])
\* A copy that ends well has counted every byte of it once, whatever went
\* twice because the Worker or the network failed halfway.
BytesAddUp ==
    (\A f \in File : at[f] \in {"off", "done"}) =>
        bytesDone = MapThenSumSet(SizeOf, {f \in File : at[f] = "done"})
\* Turned off, it stays off; and but for a Worker that could not be deleted,
\* the only one there is is the one this computer uses.
OneRelay ==
    /\ off => kept = Nothing
    /\ cmd = NoCmd => \A r \in relays : Same(r, kept) \/ [acct |-> r.acct, name |-> r.name] \in lost
=============================================================================
