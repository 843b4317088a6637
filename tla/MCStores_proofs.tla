--------------------------- MODULE MCStores_proofs ---------------------------
(***************************************************************************)
(* Theorems about what lies beside a backup's way to storage: Ultra fast   *)
(* mode, the second copy, restoring, what a backup leaves out; and of      *)
(* these and Drime side by side, as TLC explores them.                     *)
(***************************************************************************)
EXTENDS MCStores, Drime_proofs, FiniteSetTheorems, WellFoundedInduction, TLAPS

(***************************************************************************)
(* Ultra fast mode: types.                                                 *)
(***************************************************************************)
Steps == {"none", "upload", "open", "undo", "old", "save", "delete", "forget"}
Enabling == {"upload", "open", "undo", "old", "save"}
Relay == [acct : CfAccount, name : 1..MaxCommands, secret : 1..MaxCommands, ver : Nat, open : BOOLEAN]
SetupTypes ==
    /\ kept \in State \cup {Nothing} /\ st \in State \cup {Nothing}
    /\ cmd \in [step : Steps, new : State \cup {Nothing}, old : State \cup {Nothing}]
    /\ cmd.step = "none" => cmd = NoCmd
    /\ cmd.step \in Enabling => cmd.new # Nothing
    /\ commands \in 0..MaxCommands /\ off \in BOOLEAN
    /\ binary \in Nat \ {0}
    /\ relays \subseteq Relay /\ \A r \in relays : r.ver \in 1..binary
CopyTypes ==
    /\ run \in {"off", "on", "over"} /\ ready \in {"ask", "upload", "save", "answer", "yes", "no"}
    /\ at \in [File -> {"off", "todo", "ready", "parts", "direct", "hold", "done", "failed"}]
    /\ sent \in [File -> SUBSET {1, 2}] /\ out \in [File -> SUBSET {1, 2}] /\ again \in [File -> SUBSET {1, 2}]
    /\ err \in [File -> {"none", "fail", "net", "stop"}]
    /\ ready \in {"upload", "save", "answer"} => st # Nothing
    /\ DOMAIN upload = File /\ DOMAIN dst = File /\ DOMAIN listed = File /\ DOMAIN entry = File

(***************************************************************************)
(* What is sent of a file.  Its parts are on their way only while it is    *)
(* copied in parts, and each that went is kept where the file's parts are, *)
(* of the version listed: in the open upload, or for a small file in the   *)
(* object itself.                                                          *)
(***************************************************************************)
KeptOf(f) ==
    /\ sent[f] \cup out[f] \cup again[f] \subseteq PartsOf(f) /\ sent[f] \cap out[f] = {}
    /\ at[f] # "parts" => out[f] = {} /\ upload[f] = Nothing
    /\ at[f] \notin {"parts", "done"} => sent[f] = {}
    /\ at[f] = "parts" /\ f \in Big =>
          /\ upload[f] = [p \in DOMAIN upload[f] |-> listed[f]]
          /\ sent[f] \subseteq DOMAIN upload[f] /\ DOMAIN upload[f] \subseteq PartsOf(f)
    /\ f \notin Big => upload[f] = Nothing
    /\ at[f] = "parts" /\ f \notin Big /\ sent[f] # {} => dst[f] = Whole(f, listed[f])
PartsKept == \A f \in File : KeptOf(f)
BeginsOnce == run = "off" => \A f \in File : at[f] = "off"

(***************************************************************************)
(* Who has a Worker.  Settings are not changed while a copy that has begun *)
(* readies its own; and each Worker is the one kept, or the one a setup is *)
(* making, or may have been left behind.                                   *)
(***************************************************************************)
Readying ==
    /\ cmd # NoCmd => run = "off" \/ ready \in {"yes", "no"}
    /\ run = "over" => \A f \in File : at[f] \in {"off", "done", "failed"}
    /\ run = "off" => ready = "ask"
    /\ ready \in {"upload", "save", "answer"} => \E f \in File : at[f] = "ready"
    /\ run # "off" /\ ready \in {"ask", "upload", "save"} => st = kept
Making ==
    /\ cmd.step \in Enabling =>
          /\ cmd.old = kept
          /\ kept # Nothing /\ kept.acct = cmd.new.acct => kept.name = cmd.new.name
    /\ cmd.step \in {"delete", "forget"} => cmd.new = Nothing /\ cmd.old = kept /\ kept # Nothing
Known(r, s) == Same(r, s) \/ [acct |-> r.acct, name |-> r.name] \in lost
Accounted ==
    \A r \in relays :
        /\ cmd.step \in {"none", "upload", "delete"} => Known(r, kept)
        /\ cmd.step \in {"open", "undo", "old"} => Known(r, kept) \/ Known(r, cmd.new)
        /\ cmd.step = "save" => Known(r, cmd.new)
        /\ cmd.step = "forget" => Known(r, Nothing)
StaysOff ==
    /\ off => kept = Nothing
    /\ cmd.step \in Enabling => ~off
RelayInv == SetupTypes /\ CopyTypes /\ PartsKept /\ BeginsOnce
Owned == Readying /\ Making /\ Accounted /\ StaysOff

LEMMA UltraStarts == UltraInit => RelayInv /\ Owned
<1>. SUFFICES ASSUME UltraInit  PROVE RelayInv /\ Owned
  OBVIOUS
<1>. USE UltraFastAssumption DEF UltraInit, NoCmd
<1>1. SetupTypes
  <2>1. cmd \in [step : Steps, new : State \cup {Nothing}, old : State \cup {Nothing}]
    BY DEF Steps
  <2>2. relays \subseteq Relay /\ (\A r \in relays : r.ver \in 1..binary)
    OBVIOUS
  <2>3. off \in BOOLEAN
    OBVIOUS
  <2>. QED  BY <2>1, <2>2, <2>3 DEF SetupTypes, Enabling
<1>2. CopyTypes
  <2>1. sent \in [File -> SUBSET {1, 2}] /\ out \in [File -> SUBSET {1, 2}]
        /\ again \in [File -> SUBSET {1, 2}]
    OBVIOUS
  <2>2. at \in [File -> {"off"}] /\ err \in [File -> {"none"}]
    OBVIOUS
  <2>. QED  BY <2>1, <2>2 DEF CopyTypes
<1>3. PartsKept /\ BeginsOnce
  BY DEF PartsKept, KeptOf, BeginsOnce, PartsOf
<1>4. Owned
  BY DEF Owned, Readying, Making, Accounted, StaysOff, Enabling
<1>. QED  BY <1>1, <1>2, <1>3, <1>4 DEF RelayInv

(***************************************************************************)
(* Cloudflare's answers.                                                   *)
(***************************************************************************)
LEMMA UploadedRelays ==
    ASSUME SetupTypes, NEW s \in State
    PROVE  /\ Uploaded(s) \subseteq Relay
           /\ \A r \in Uploaded(s) : r.ver \in 1..binary /\ (Same(r, s) \/ r \in relays)
<1>1. PICK b \in BOOLEAN : b <=> \E r \in relays : Same(r, s) /\ r.open
  OBVIOUS
<1>2. Uploaded(s) = Without(s) \cup
          {[acct |-> s.acct, name |-> s.name, secret |-> s.secret, ver |-> binary, open |-> b]}
  <2>1. (\E r \in relays : Same(r, s) /\ r.open) = b
    BY <1>1, Zenon
  <2>. QED  BY <2>1 DEF Uploaded
<1>3. s # Nothing
  BY UltraFastAssumption
<1>. QED  BY <1>2, <1>3 DEF SetupTypes, State, Relay, Without, Same

LEMMA OpenedRelays ==
    ASSUME SetupTypes, NEW s \in State
    PROVE  /\ Opened(s) \subseteq Relay
           /\ \A r \in Opened(s) : /\ r.ver \in 1..binary
                                   /\ \E q \in relays : r.acct = q.acct /\ r.name = q.name
BY DEF SetupTypes, Opened, Relay

\* Of a Worker that is taken away no more is there than may have been left behind.
LEMMA TakenAway ==
    ASSUME NEW s \in State, TakesAway(s)
    PROVE  /\ relays' \subseteq relays /\ lost \subseteq lost'
           /\ \A r \in relays' : Same(r, s) => [acct |-> r.acct, name |-> r.name] \in lost'
BY DEF TakesAway, Without, NameLost, Same

(***************************************************************************)
(* Setting up and taking away.                                             *)
(***************************************************************************)
SettingUp ==
    \/ \E a \in CfAccount : TurnOn(a)
    \/ Uploads \/ OpensAddress \/ Undoes \/ DropsOld \/ Saves \/ TurnOff
    \/ Deletes \/ Forgotten \/ CutShort

LEMMA SetupApart == SettingUp => UNCHANGED <<binary, onceVars, fileVars, cloudVars>>
BY DEF SettingUp, TurnOn, Uploads, OpensAddress, Undoes, DropsOld, Saves, TurnOff,
       Deletes, Forgotten, CutShort

LEMMA SetupKeepsTypes ==
    ASSUME RelayInv, SettingUp
    PROVE  RelayInv'
<1>. USE UltraFastAssumption DEF RelayInv
<1>1. UNCHANGED <<binary, onceVars, fileVars, cloudVars>>
  BY SetupApart
<1>2. CopyTypes' /\ PartsKept' /\ BeginsOnce'
  BY <1>1 DEF CopyTypes, PartsKept, KeptOf, BeginsOnce, onceVars, fileVars, cloudVars
<1>. DEFINE Cmds == [step : Steps, new : State \cup {Nothing}, old : State \cup {Nothing}]
<1>3. /\ kept \in State \cup {Nothing} /\ st' = st /\ st \in State \cup {Nothing} /\ binary' = binary
      /\ cmd \in Cmds /\ commands \in 0..MaxCommands /\ binary \in Nat \ {0}
      /\ relays \subseteq Relay /\ \A r \in relays : r.ver \in 1..binary
  BY <1>1 DEF SetupTypes, onceVars
<1>4. \A s \in Steps : [cmd EXCEPT !.step = s] \in Cmds
  BY <1>3
<1>5. \A s \in Steps \ {"none"} : StepTo(s) => cmd' \in Cmds /\ cmd'.step = s
  BY <1>3, <1>4 DEF StepTo
<1>6. StepTo("none") => cmd' \in Cmds /\ cmd' = NoCmd
  BY DEF StepTo, NoCmd, Steps
<1>7. /\ cmd' \in Cmds /\ (cmd'.step = "none" => cmd' = NoCmd)
      /\ cmd'.step \in Enabling => cmd'.new # Nothing
  <2>1. ASSUME NEW a \in CfAccount, TurnOn(a)  PROVE cmd' \in Cmds /\ cmd'.step = "upload" /\ cmd'.new # Nothing
    <3>1. NameOf(a) \in 1..MaxCommands /\ commands + 1 \in 1..MaxCommands
      BY <1>3, <2>1 DEF TurnOn, NameOf, State
    <3>2. [acct |-> a, name |-> NameOf(a), secret |-> commands + 1, ver |-> binary] \in State
      BY <1>3, <3>1 DEF State
    <3>. QED  BY <1>3, <2>1, <3>2 DEF TurnOn, Steps
  <2>2. CASE TurnOff
    BY <1>3, <2>2 DEF TurnOff, Steps, Enabling
  <2>3. CASE Uploads \/ OpensAddress \/ Undoes \/ DropsOld \/ Saves \/ Deletes \/ Forgotten \/ CutShort
    <3>1. \E s \in Steps : StepTo(s)
      BY <2>3 DEF Steps, Uploads, OpensAddress, Undoes, DropsOld, Saves, Deletes, Forgotten, CutShort
    <3>2. cmd'.step \in Enabling => cmd.step \in Enabling /\ cmd'.new = cmd.new
      BY <1>3, <2>3 DEF Enabling, StepTo, NoCmd, Uploads, OpensAddress, Undoes, DropsOld, Saves, Deletes,
                        Forgotten, CutShort
    <3>. QED  BY <1>5, <1>6, <3>1, <3>2 DEF NoCmd, SetupTypes, Enabling
  <2>. QED  BY <2>1, <2>2, <2>3 DEF SettingUp
<1>8. kept' \in State \cup {Nothing}
  BY <1>3 DEF SettingUp, TurnOn, Uploads, OpensAddress, Undoes, DropsOld, Saves, TurnOff,
              Deletes, Forgotten, CutShort
<1>9. off' \in BOOLEAN
  <2>1. off' = off \/ off' = TRUE \/ off' = FALSE
    BY DEF SettingUp, TurnOn, Uploads, OpensAddress, Undoes, DropsOld, Saves, TurnOff,
           Deletes, Forgotten, CutShort
  <2>. QED  BY <2>1 DEF SetupTypes
<1>10. commands' \in 0..MaxCommands
  BY <1>3 DEF SettingUp, TurnOn, Uploads, OpensAddress, Undoes, DropsOld, Saves, TurnOff,
              Deletes, Forgotten, CutShort
<1>11. relays' \subseteq Relay /\ \A r \in relays' : r.ver \in 1..binary
  <2>1. cmd.step \in Enabling => cmd.new \in State
    BY <1>3 DEF SetupTypes
  <2>2. CASE Uploads
    <3>1. relays' = relays \/ relays' = Uploaded(cmd.new)
      BY <2>2 DEF Uploads
    <3>2. cmd.new \in State
      BY <2>1, <2>2 DEF Uploads, Enabling
    <3>. QED  BY <1>3, <3>1, <3>2, UploadedRelays
  <2>3. CASE OpensAddress
    <3>1. relays' = relays \/ relays' = Opened(cmd.new)
      BY <2>3 DEF OpensAddress
    <3>2. cmd.new \in State
      BY <2>1, <2>3 DEF OpensAddress, Enabling
    <3>. QED  BY <1>3, <3>1, <3>2, OpenedRelays
  <2>4. CASE Undoes \/ DropsOld \/ Deletes
    BY <1>3, <2>4 DEF Undoes, DropsOld, Deletes, TakesAway, Without
  <2>5. CASE Saves \/ TurnOff \/ Forgotten \/ CutShort \/ \E a \in CfAccount : TurnOn(a)
    BY <1>3, <2>5 DEF Saves, TurnOff, Forgotten, CutShort, TurnOn
  <2>. QED  BY <2>2, <2>3, <2>4, <2>5 DEF SettingUp
<1>. QED  BY <1>2, <1>3, <1>7, <1>8, <1>9, <1>10, <1>11 DEF SetupTypes

(***************************************************************************)
(* A copy begins and readies the Worker.                                   *)
(***************************************************************************)
Beginning == StartCopy \/ Health \/ PutsUp \/ SavesVersion \/ SwitchesOver \/ EndCopy \/ NewBinary

LEMMA BeginningKeepsTypes ==
    ASSUME RelayInv, Beginning
    PROVE  RelayInv'
<1>. USE UltraFastAssumption DEF RelayInv
<1>1. /\ kept \in State \cup {Nothing} /\ st \in State \cup {Nothing} /\ binary \in Nat \ {0}
      /\ relays \subseteq Relay /\ \A r \in relays : r.ver \in 1..binary
  BY DEF SetupTypes
<1>2. CASE StartCopy
  <2>1. SetupTypes'
    BY <1>1, <1>2 DEF StartCopy, SetupTypes, setupVars
  <2>2. CopyTypes' /\ BeginsOnce'
    <3>1. PICK fs \in SUBSET File : at' = [f \in File |-> IF f \in fs THEN "todo" ELSE "off"]
      BY <1>2 DEF StartCopy
    <3>2. at' \in [File -> {"off", "todo"}]
      BY <3>1
    <3>3. listed' = entry /\ DOMAIN entry = File
      BY <1>2 DEF StartCopy, CopyTypes
    <3>. QED  BY <1>2, <3>2, <3>3 DEF StartCopy, CopyTypes, BeginsOnce
  <2>3. PartsKept'
    BY <1>2 DEF StartCopy, PartsKept, KeptOf, BeginsOnce
  <2>. QED  BY <2>1, <2>2, <2>3
<1>3. CASE ~StartCopy
  <2>1. UNCHANGED <<fileVars, cloudVars, cmd, commands, off, st>>
    BY <1>3 DEF Beginning, Health, PutsUp, SavesVersion, SwitchesOver, EndCopy, NewBinary, setupVars, onceVars
  <2>2. CopyTypes'
    <3>1. run' \in {"off", "on", "over"} /\ ready' \in {"ask", "upload", "save", "answer", "yes", "no"}
      BY <1>3 DEF CopyTypes, Beginning, Health, PutsUp, SavesVersion, SwitchesOver, EndCopy, NewBinary, onceVars
    <3>2. ready' \in {"upload", "save", "answer"} => st # Nothing
      <4>1. \A v : Answering(v) => st # Nothing
        BY DEF Answering, Same
      <4>2. Health => (ready' \in {"upload", "save", "answer"} => st # Nothing)
        BY <4>1 DEF Health
      <4>. QED  BY <1>3, <4>2 DEF CopyTypes, Beginning, PutsUp, SavesVersion, SwitchesOver, EndCopy, NewBinary, onceVars
    <3>. QED  BY <2>1, <3>1, <3>2 DEF CopyTypes, fileVars, cloudVars
  <2>3. PartsKept'
    BY <2>1 DEF PartsKept, KeptOf, fileVars, cloudVars
  <2>4. BeginsOnce'
    <3>1. run' = "off" => run = "off"
      BY <1>3 DEF Beginning, Health, PutsUp, SavesVersion, SwitchesOver, EndCopy, NewBinary, onceVars
    <3>. QED  BY <2>1, <3>1 DEF BeginsOnce, fileVars
  <2>5. kept' \in State \cup {Nothing} /\ binary' \in Nat \ {0} /\ binary <= binary'
    <3>1. SavesVersion => [st EXCEPT !.ver = binary] \in State
      BY <1>1 DEF SavesVersion, State, CopyTypes
    <3>. QED  BY <1>1, <1>3, <3>1 DEF Beginning, Health, PutsUp, SavesVersion, SwitchesOver, EndCopy, NewBinary, setupVars
  <2>6. relays' \subseteq Relay /\ \A r \in relays' : r.ver \in 1..binary'
    <3>1. relays' = relays \/ (PutsUp /\ relays' = Uploaded(st))
      BY <1>3 DEF Beginning, Health, PutsUp, SavesVersion, SwitchesOver, EndCopy, NewBinary, setupVars
    <3>2. CASE relays' = relays
      BY <1>1, <2>5, <3>2
    <3>3. CASE PutsUp /\ relays' = Uploaded(st)
      <4>1. st \in State /\ binary' = binary
        BY <1>1, <3>3 DEF PutsUp, CopyTypes
      <4>. QED  BY <3>3, <4>1, UploadedRelays
    <3>. QED  BY <3>1, <3>2, <3>3
  <2>. QED  BY <1>1, <2>1, <2>2, <2>3, <2>4, <2>5, <2>6 DEF SetupTypes
<1>. QED  BY <1>2, <1>3

(***************************************************************************)
(* One file of the copy.                                                   *)
(***************************************************************************)
FileActs(f) ==
    \/ Offer(f) \/ ReadyFails(f) \/ GetLinks(f) \/ FinishUpload(f) \/ AbandonUpload(f)
    \/ CopyHere(f) \/ CopyBreaks(f) \/ NetworkBack(f) \/ NetworkStaysAway(f) \/ Replaced(f)
    \/ \E p \in PartsOf(f) : StartPart(f, p) \/ PartSent(f, p) \/ PartFails(f, p) \/ PartStops(f, p)

LEMMA OneFile ==
    ASSUME RelayInv, NEW f \in File, FileActs(f)
    PROVE  /\ UNCHANGED <<setupVars, binary, onceVars, listed>>
           /\ at[f] \notin {"off", "done", "failed"}
           /\ at[f] = "ready" => at'[f] = "ready" \/ ready \in {"yes", "no"}
           /\ CopyTypes'
           /\ \A g \in File \ {f} : /\ at'[g] = at[g] /\ sent'[g] = sent[g] /\ out'[g] = out[g]
                                    /\ again'[g] = again[g] /\ err'[g] = err[g]
                                    /\ upload'[g] = upload[g] /\ dst'[g] = dst[g]
<1>. USE DEF RelayInv, CopyTypes, setupVars, onceVars, stopVars, fileVars, cloudVars, tallyVars
<1>. DEFINE Same7 == \A g \in File \ {f} : /\ at'[g] = at[g] /\ sent'[g] = sent[g] /\ out'[g] = out[g]
                                    /\ again'[g] = again[g] /\ err'[g] = err[g]
                                    /\ upload'[g] = upload[g] /\ dst'[g] = dst[g]
<1>. DEFINE Facts == /\ UNCHANGED <<setupVars, binary, onceVars, listed>>
                     /\ at[f] \notin {"off", "done", "failed"}
                     /\ at[f] = "ready" => at'[f] = "ready" \/ ready \in {"yes", "no"}
                     /\ CopyTypes' /\ Same7
<1>1. PartsOf(f) \subseteq {1, 2}
  BY DEF PartsOf
<1>2. at[f] # "parts" => out[f] = {}
  BY DEF PartsKept, KeptOf
<1>3. CASE Offer(f)
  BY <1>3 DEF Offer
<1>4. CASE ReadyFails(f)
  BY <1>4 DEF ReadyFails, GivesBack
<1>5. CASE GetLinks(f)
  BY <1>5 DEF GetLinks, GivesBack
<1>6. CASE FinishUpload(f)
  BY <1>6 DEF FinishUpload, Arrives
<1>7. CASE AbandonUpload(f)
  BY <1>7 DEF AbandonUpload, GivesBack
<1>8. CASE CopyHere(f) \/ CopyBreaks(f)
  BY <1>8 DEF CopyHere, CopyBreaks
<1>9. CASE NetworkBack(f) \/ NetworkStaysAway(f) \/ Replaced(f)
  BY <1>9 DEF NetworkBack, NetworkStaysAway, Replaced
<1>10. ASSUME NEW p \in PartsOf(f), StartPart(f, p) \/ PartStops(f, p)  PROVE Facts
  BY <1>1, <1>2, <1>10 DEF StartPart, PartStops
<1>11. ASSUME NEW p \in PartsOf(f), PartSent(f, p)  PROVE Facts
  BY <1>1, <1>2, <1>11 DEF PartSent, Lands
<1>12. ASSUME NEW p \in PartsOf(f), PartFails(f, p)  PROVE Facts
  BY <1>1, <1>2, <1>12 DEF PartFails, Lands
<1>. QED  BY <1>3, <1>4, <1>5, <1>6, <1>7, <1>8, <1>9, <1>10, <1>11, <1>12 DEF FileActs

LEMMA FilesKeepParts ==
    ASSUME RelayInv, NEW f \in File, FileActs(f)
    PROVE  RelayInv'
<1>. USE DEF RelayInv
<1>1. /\ UNCHANGED <<setupVars, binary, onceVars, listed>> /\ CopyTypes'
      /\ at[f] \notin {"off", "done", "failed"}
      /\ \A g \in File \ {f} : /\ at'[g] = at[g] /\ sent'[g] = sent[g] /\ out'[g] = out[g]
                               /\ again'[g] = again[g] /\ upload'[g] = upload[g] /\ dst'[g] = dst[g]
  BY OneFile
<1>2. SetupTypes' /\ BeginsOnce'
  BY <1>1 DEF SetupTypes, BeginsOnce, setupVars, onceVars
<1>3. \A g \in File \ {f} : KeptOf(g)'
  BY <1>1 DEF PartsKept, KeptOf
<1>4. KeptOf(f)'
  <2>. USE DEF CopyTypes, setupVars, onceVars, stopVars, fileVars, cloudVars, tallyVars
  <2>1. KeptOf(f)
    BY DEF PartsKept
  <2>2. PartsOf(f) \subseteq {1, 2} /\ (f \notin Big => PartsOf(f) = {1}) /\ Whole(f, listed[f]) = [p \in PartsOf(f) |-> listed[f]]
    BY DEF PartsOf, Whole
  <2>3. CASE Offer(f)
    BY <2>1, <2>3 DEF Offer, KeptOf
  <2>4. CASE ReadyFails(f)
    BY <2>1, <2>4 DEF ReadyFails, GivesBack, KeptOf
  <2>5. CASE GetLinks(f)
    <3>1. CASE at'[f] = "direct"
      BY <2>1, <2>5, <3>1 DEF GetLinks, GivesBack, KeptOf
    <3>2. CASE at'[f] = "parts"
      <4>1. /\ upload'[f] = IF f \in Big THEN <<>> ELSE Nothing
            /\ sent'[f] = {} /\ out'[f] = {} /\ again'[f] = again[f]
        BY <2>1, <2>5, <3>2 DEF GetLinks, GivesBack, KeptOf
      <4>2. DOMAIN <<>> = {} /\ <<>> = [q \in {} |-> listed[f]]
        OBVIOUS
      <4>. QED  BY <1>1, <2>1, <3>2, <4>1, <4>2 DEF KeptOf
    <3>. QED  BY <2>5, <3>1, <3>2 DEF GetLinks, GivesBack
  <2>6. CASE FinishUpload(f)
    BY <2>1, <2>6 DEF FinishUpload, Joined, Arrives, KeptOf
  <2>7. CASE AbandonUpload(f)
    BY <2>1, <2>7 DEF AbandonUpload, GivesBack, Joined, KeptOf
  <2>8. CASE CopyHere(f) \/ CopyBreaks(f)
    BY <2>1, <2>8 DEF CopyHere, CopyBreaks, KeptOf
  <2>9. CASE NetworkBack(f) \/ NetworkStaysAway(f) \/ Replaced(f)
    BY <2>1, <2>9 DEF NetworkBack, NetworkStaysAway, Replaced, KeptOf
  <2>10. ASSUME NEW p \in PartsOf(f), StartPart(f, p) \/ PartStops(f, p)  PROVE KeptOf(f)'
    BY <2>1, <2>10 DEF StartPart, PartStops, KeptOf
  <2>11. ASSUME NEW p \in PartsOf(f), p \in out[f], Lands(f, p)
         PROVE  /\ f \in Big => /\ upload'[f] = [q \in DOMAIN upload'[f] |-> listed[f]]
                                /\ DOMAIN upload'[f] = DOMAIN upload[f] \cup {p}
                /\ f \notin Big => dst'[f] = Whole(f, listed[f]) /\ upload' = upload
    <3>1. at[f] = "parts"
      BY <2>1, <2>11 DEF KeptOf
    <3>2. CASE f \in Big
      <4>1. upload'[f] = [q \in DOMAIN upload[f] \cup {p} |-> IF q = p THEN listed[f] ELSE upload[f][q]]
        BY <2>11, <3>2 DEF Lands, Serves
      <4>2. upload[f] = [q \in DOMAIN upload[f] |-> listed[f]]
        BY <2>1, <3>1, <3>2 DEF KeptOf
      <4>3. \A q \in DOMAIN upload[f] : upload[f][q] = listed[f]
        BY <4>2
      <4>. QED  BY <3>2, <4>1, <4>3
    <3>3. CASE f \notin Big
      <4>1. dst'[f] = [q \in {p} |-> listed[f]] /\ upload' = upload
        BY <2>11, <3>3 DEF Lands, Serves
      <4>. QED  BY <2>2, <3>3, <4>1
    <3>. QED  BY <3>2, <3>3
  <2>12. ASSUME NEW p \in PartsOf(f), PartSent(f, p)  PROVE KeptOf(f)'
    <3>1. p \in out[f] /\ at[f] = "parts" /\ at' = at /\ Lands(f, p)
      BY <2>1, <2>12 DEF PartSent, KeptOf
    <3>. QED  BY <2>1, <2>11, <2>12, <3>1 DEF PartSent, KeptOf
  <2>13. ASSUME NEW p \in PartsOf(f), PartFails(f, p)  PROVE KeptOf(f)'
    <3>1. p \in out[f] /\ at[f] = "parts" /\ at' = at
      BY <2>1, <2>13 DEF PartFails, KeptOf
    <3>2. sent' = sent /\ out'[f] \subseteq out[f] /\ again'[f] \subseteq again[f] \cup {p}
      <4>1. \/ again' = [again EXCEPT ![f] = @ \cup {p}] /\ out' = out
            \/ out' = [out EXCEPT ![f] = @ \ {p}] /\ again' = again
        BY <2>13, Zenon DEF PartFails
      <4>. QED  BY <2>13, <4>1 DEF PartFails
    <3>3. /\ sent'[f] = sent[f] /\ out'[f] \subseteq out[f] /\ again'[f] \subseteq again[f] \cup {p}
          /\ at'[f] = "parts" /\ listed' = listed
      BY <1>1, <3>1, <3>2
    <3>4. CASE UNCHANGED <<upload, dst>> \/ Lands(f, p)
      <4>1. \/ upload'[f] = upload[f] /\ dst'[f] = dst[f]
            \/ /\ f \in Big => /\ upload'[f] = [q \in DOMAIN upload'[f] |-> listed[f]]
                              /\ DOMAIN upload'[f] = DOMAIN upload[f] \cup {p}
               /\ f \notin Big => dst'[f] = Whole(f, listed[f]) /\ upload' = upload
        BY <2>11, <3>1, <3>4
      <4>. QED  BY <2>1, <3>1, <3>3, <4>1 DEF KeptOf
    <3>5. Lands(f, p) \/ UNCHANGED <<upload, dst>>
      BY <2>13 DEF PartFails
    <3>. QED  BY <3>4, <3>5
  <2>. QED  BY <2>3, <2>4, <2>5, <2>6, <2>7, <2>8, <2>9, <2>10, <2>12, <2>13 DEF FileActs
<1>. QED  BY <1>1, <1>2, <1>3, <1>4 DEF PartsKept

LEMMA UltraKinds == UltraNext => SettingUp \/ Beginning \/ \E f \in File : FileActs(f)
BY Zenon DEF UltraNext, SettingUp, Beginning, FileActs

LEMMA RelaysHold == RelayInv /\ [UltraNext]_ultraVars => RelayInv'
<1>. SUFFICES ASSUME RelayInv, [UltraNext]_ultraVars  PROVE RelayInv'
  OBVIOUS
<1>1. CASE UNCHANGED ultraVars
  BY <1>1 DEF ultraVars, setupVars, onceVars, stopVars, fileVars, cloudVars, tallyVars, RelayInv, SetupTypes,
              CopyTypes, PartsKept, KeptOf, BeginsOnce
<1>2. CASE UltraNext
  BY <1>2, UltraKinds, SetupKeepsTypes, BeginningKeepsTypes, FilesKeepParts
<1>. QED  BY <1>1, <1>2

\* What is kept on this computer, a command and a copy have their types, and the
\* parts of a file that went are apart from those on their way (Enable, Copier).
THEOREM UltraKeepsTypes == UltraSpec => []UltraTypeOK
<1>1. RelayInv => UltraTypeOK
  <2>. SUFFICES ASSUME RelayInv  PROVE UltraTypeOK
    OBVIOUS
  <2>1. \A f \in File : /\ sent[f] \cup out[f] \cup again[f] \subseteq PartsOf(f) /\ sent[f] \cap out[f] = {}
                        /\ upload[f] # Nothing => at[f] = "parts" /\ DOMAIN upload[f] \subseteq PartsOf(f)
    BY DEF RelayInv, PartsKept, KeptOf
  <2>. QED  BY <2>1 DEF RelayInv, SetupTypes, CopyTypes, UltraTypeOK, Relay
<1>. QED  BY <1>1, UltraStarts, RelaysHold, PTL DEF UltraSpec

\* A file said to be copied through the Worker or here is whole at the
\* destination and of the one version listed, for any number of files, of
\* troubles and of versions put up meanwhile (Copier.Copy, copyOne).
THEOREM CopiesLandWhole == UltraSpec => []LandsWhole
<1>1. UltraInit => LandsWhole
  BY DEF UltraInit, LandsWhole
<1>2. RelayInv /\ LandsWhole /\ [UltraNext]_ultraVars => LandsWhole'
  <2>. SUFFICES ASSUME RelayInv, LandsWhole, [UltraNext]_ultraVars  PROVE LandsWhole'
    OBVIOUS
  <2>. USE DEF Whole, LandsWhole
  <2>1. CASE SettingUp \/ UNCHANGED ultraVars
    <3>1. UNCHANGED <<at, dst, listed>>
      BY <2>1, SetupApart DEF ultraVars, fileVars, cloudVars
    <3>. QED  BY <3>1 DEF PartsOf
  <2>2. CASE Beginning
    <3>1. StartCopy => \A f \in File : at'[f] # "done"
      BY DEF StartCopy
    <3>2. ~StartCopy => UNCHANGED <<at, dst, listed>>
      BY <2>2 DEF Beginning, Health, PutsUp, SavesVersion, SwitchesOver, EndCopy, NewBinary, fileVars, cloudVars
    <3>. QED  BY <3>1, <3>2 DEF PartsOf
  <2>3. ASSUME NEW f \in File, FileActs(f)  PROVE LandsWhole'
    <3>1. /\ listed' = listed /\ at[f] \notin {"off", "done", "failed"}
          /\ \A g \in File \ {f} : at'[g] = at[g] /\ dst'[g] = dst[g]
      BY <2>3, OneFile
    <3>2. ASSUME at'[f] = "done"  PROVE dst'[f] = Whole(f, listed[f])
      <4>1. FinishUpload(f) \/ CopyHere(f)
        <5>1. \/ FinishUpload(f) \/ CopyHere(f) \/ at' = at
              \/ \E s \in {"todo", "ready", "parts", "direct", "hold", "failed"} : at' = [at EXCEPT ![f] = s]
          BY <2>3, <3>1 DEF FileActs, Offer, ReadyFails, GetLinks, AbandonUpload, CopyBreaks, NetworkBack, NetworkStaysAway,
               Replaced, StartPart, PartSent, PartFails, PartStops, GivesBack, fileVars, RelayInv, CopyTypes
        <5>. QED  BY <3>1, <3>2, <5>1 DEF RelayInv, CopyTypes
      <4>2. CASE CopyHere(f)
        BY <4>2 DEF CopyHere, RelayInv, CopyTypes
      <4>3. CASE FinishUpload(f)
        <5>1. KeptOf(f) /\ at[f] = "parts" /\ sent[f] = PartsOf(f) /\ PartsOf(f) # {}
          BY <3>2, <4>3 DEF FinishUpload, Joined, Arrives, RelayInv, PartsKept, PartsOf, CopyTypes, fileVars
        <5>2. dst' = [dst EXCEPT ![f] = IF f \in Big THEN upload[f] ELSE @]
          BY <3>2, <4>3, <5>1 DEF FinishUpload
        <5>. QED  BY <5>1, <5>2 DEF KeptOf, RelayInv, CopyTypes
      <4>. QED  BY <4>1, <4>2, <4>3
    <3>. QED  BY <3>1, <3>2 DEF PartsOf
  <2>. QED  BY <2>1, <2>2, <2>3, UltraKinds
<1>. QED  BY <1>1, <1>2, UltraStarts, RelaysHold, PTL DEF UltraSpec

(***************************************************************************)
(* The bytes a copy counts.  The sum shown is the number of pairs of a     *)
(* file and a part of it that is counted, by the Worker or here, and never *)
(* by both: what the Worker sent is given back before a file is copied     *)
(* here.  A sum over files is the number of such pairs too.                *)
(***************************************************************************)
PartsIn(S) == {b \in S \X {1, 2} : b[2] \in PartsOf(b[1])}

LEMMA TwoParts ==
    /\ IsFiniteSet({1, 2}) /\ Cardinality({1, 2}) = 2
    /\ Cardinality({1}) = 1
<1>1. IsFiniteSet({1}) /\ Cardinality({1}) = 1
  BY FS_Singleton
<1>2. {1, 2} = {1} \cup {2} /\ 2 \notin {1}
  OBVIOUS
<1>3. IsFiniteSet({1} \cup {2}) /\ Cardinality({1} \cup {2}) = 1 + 1
  <2>1. Cardinality({1} \cup {2}) = Cardinality({1}) + 1 /\ IsFiniteSet({1} \cup {2})
    BY <1>1, <1>2, FS_AddElement, Zenon
  <2>. QED  BY <1>1, <2>1
<1>. QED  BY <1>1, <1>2, <1>3

LEMMA Beside ==
    ASSUME NEW R, IsFiniteSet(R), NEW f, \A b \in R : b[1] # f, NEW X \in SUBSET {1, 2}
    PROVE  /\ IsFiniteSet(R \cup ({f} \X X)) /\ Cardinality(X) \in Nat /\ Cardinality(R) \in Nat
           /\ Cardinality(R \cup ({f} \X X)) = Cardinality(R) + Cardinality(X)
<1>1. IsFiniteSet({1, 2}) /\ IsFiniteSet({f}) /\ Cardinality({f}) = 1
  BY TwoParts, FS_Singleton
<1>2. IsFiniteSet(X)
  BY <1>1, FS_Subset
<1>3. Cardinality(X) \in Nat /\ Cardinality(R) \in Nat
  BY <1>2, FS_CardinalityType
<1>. DEFINE Y == {f} \X X
<1>4. IsFiniteSet(Y) /\ Cardinality(Y) = 1 * Cardinality(X)
  BY <1>1, <1>2, FS_Product
<1>5. R \cap Y = {}
  OBVIOUS
<1>. HIDE DEF Y
<1>6. Cardinality(R \cap Y) = 0
  BY <1>5, FS_EmptySet
<1>7. IsFiniteSet(R \cup Y) /\ Cardinality(R \cup Y) = Cardinality(R) + Cardinality(Y) - Cardinality(R \cap Y)
  BY <1>4, FS_Union
<1>. QED  BY <1>3, <1>4, <1>6, <1>7 DEF Y

\* The parts X of f beside the pairs R of other files.
Joins(R, f, X) == IsFiniteSet(R) /\ (\A b \in R : b[1] # f) /\ X \in SUBSET {1, 2}
Adds(R, f, X)  ==
    /\ Cardinality(X) \in Nat /\ Cardinality(R) \in Nat
    /\ Cardinality(R \cup ({f} \X X)) = Cardinality(R) + Cardinality(X)

LEMMA EachBeside == \A R, f, X : Joins(R, f, X) => Adds(R, f, X)
BY Beside DEF Joins, Adds

LEMMA SizesAre == \A f : PartsOf(f) \in SUBSET {1, 2} /\ SizeOf(f) = Cardinality(PartsOf(f)) /\ SizeOf(f) \in 1..2
                         /\ PartsOf(f) = 1..SizeOf(f)
<1>. SUFFICES ASSUME NEW f
              PROVE  PartsOf(f) \in SUBSET {1, 2} /\ SizeOf(f) = Cardinality(PartsOf(f)) /\ SizeOf(f) \in 1..2
                     /\ PartsOf(f) = 1..SizeOf(f)
  OBVIOUS
<1>1. CASE f \in Big
  <2>1. PartsOf(f) = {1, 2}
    BY <1>1 DEF PartsOf
  <2>2. SizeOf(f) = 2
    BY <2>1, TwoParts, Zenon DEF SizeOf
  <2>. QED  BY <2>1, <2>2, TwoParts
<1>2. CASE f \notin Big
  <2>1. PartsOf(f) = {1}
    BY <1>2 DEF PartsOf
  <2>2. SizeOf(f) = 1
    BY <2>1, TwoParts, Zenon DEF SizeOf
  <2>. QED  BY <2>1, <2>2, TwoParts
<1>. QED  BY <1>1, <1>2

LEMMA PartsFinite ==
    ASSUME NEW S, IsFiniteSet(S)
    PROVE  IsFiniteSet(PartsIn(S))
<1>1. IsFiniteSet(S \X {1, 2})
  BY TwoParts, FS_Product
<1>. QED  BY <1>1, FS_Subset DEF PartsIn

\* MapThenSumSet takes one file after another off a set; so does the number of
\* their parts.
Taken(it, s) == IF s = {} THEN 0 ELSE SizeOf(CHOOSE x \in s : TRUE) + it[s \ {CHOOSE x \in s : TRUE}]
Sizes(S)     == CHOOSE it : it = [s \in SUBSET S |-> Taken(it, s)]

LEMMA SumIsFold ==
    ASSUME NEW S
    PROVE  MapThenSumSet(SizeOf, S) = Sizes(S)[S]
BY DEF MapThenSumSet, MapThenFoldSet, Sizes, Taken

LEMMA SumOfSizes ==
    ASSUME NEW S, IsFiniteSet(S)
    PROVE  MapThenSumSet(SizeOf, S) = Cardinality(PartsIn(S))
<1>. DEFINE W == [s \in SUBSET S |-> Cardinality(PartsIn(s))]
            G == Sizes(S)
<1>1. ASSUME NEW s \in SUBSET S PROVE W[s] = Taken(W, s)
  <2>1. CASE s = {}
    <3>1. PartsIn(s) = {}
      BY <2>1 DEF PartsIn
    <3>. QED  BY <2>1, <3>1, FS_EmptySet DEF Taken
  <2>2. CASE s # {}
    <3>. DEFINE x == CHOOSE y \in s : TRUE
                R == PartsIn(s \ {x})
    <3>1. x \in s
      BY <2>2
    <3>. HIDE DEF x
    <3>2. PartsIn(s) = R \cup ({x} \X PartsOf(x)) /\ \A b \in R : b[1] # x
      BY <3>1, SizesAre DEF PartsIn
    <3>3. IsFiniteSet(R)
      BY FS_Subset, PartsFinite
    <3>4. Cardinality(PartsIn(s)) = Cardinality(R) + SizeOf(x) /\ Cardinality(R) \in Nat /\ SizeOf(x) \in Nat
      <4>. HIDE DEF R
      <4>1. PartsOf(x) \in SUBSET {1, 2} /\ SizeOf(x) = Cardinality(PartsOf(x))
        BY SizesAre
      <4>2. \A b \in R : b[1] # x
        BY <3>2
      <4>3. /\ Cardinality(PartsOf(x)) \in Nat /\ Cardinality(R) \in Nat
            /\ Cardinality(R \cup ({x} \X PartsOf(x))) = Cardinality(R) + Cardinality(PartsOf(x))
        BY <3>3, <4>1, <4>2, Beside, Zenon
      <4>. QED  BY <3>2, <4>1, <4>3
    <3>5. W[s] = Cardinality(PartsIn(s)) /\ W[s \ {x}] = Cardinality(R)
      OBVIOUS
    <3>. HIDE DEF W, R
    <3>6. W[s] = SizeOf(x) + W[s \ {x}]
      BY <3>4, <3>5
    <3>. QED  BY <2>2, <3>6 DEF Taken, x
  <2>. QED  BY <2>1, <2>2
<1>2. W = [s \in SUBSET S |-> Taken(W, s)]
  BY <1>1
<1>3. G = [s \in SUBSET S |-> Taken(G, s)]
  <2>. HIDE DEF W
  <2>. QED  BY <1>2, Zenon DEF Sizes
<1>. HIDE DEF W, G
<1>. DEFINE Differ == {s \in SUBSET S : G[s] # W[s]}
<1>4. ASSUME Differ # {} PROVE FALSE
  <2>1. Differ \subseteq FiniteSubsetsOf(S)
    BY FS_FiniteSubsetsOfFinite
  <2>2. PICK s \in Differ : \A y \in Differ : ~(<<y, s>> \in StrictSubsetOrdering(S))
    <3>. HIDE DEF Differ
    <3>. QED  BY <1>4, <2>1, WFMin, FS_StrictSubsetOrderingWellFounded, Zenon
  <2>3. G[s] = Taken(G, s) /\ W[s] = Taken(W, s)
    BY <1>1, <1>3
  <2>4. CASE s = {}
    BY <2>3, <2>4 DEF Taken
  <2>5. CASE s # {}
    <3>. DEFINE x == CHOOSE y \in s : TRUE
    <3>1. x \in s
      BY <2>5
    <3>2. Taken(G, s) = SizeOf(x) + G[s \ {x}] /\ Taken(W, s) = SizeOf(x) + W[s \ {x}]
      BY <2>5 DEF Taken
    <3>. HIDE DEF x
    <3>3. <<s \ {x}, s>> \in StrictSubsetOrdering(S)
      BY <3>1 DEF StrictSubsetOrdering
    <3>4. s \ {x} \notin Differ
      BY <2>2, <3>3
    <3>5. G[s \ {x}] = W[s \ {x}]
      BY <3>4
    <3>. QED  BY <2>3, <3>2, <3>5
  <2>. QED  BY <2>4, <2>5
<1>5. G[S] = W[S]
  BY <1>4
<1>6. W[S] = Cardinality(PartsIn(S))
  BY DEF W
<1>. QED  BY <1>5, <1>6, SumIsFold DEF G

Here(f)    == IF direct[f] = 0 THEN {} ELSE IF direct[f] = 1 THEN {1} ELSE {1, 2}
Counted(f) == sent[f] \cup Here(f)
Bytes      == {b \in File \X {1, 2} : b[2] \in Counted(b[1])}
TallyOf(f) ==
    /\ direct[f] # 0 => sent[f] = {} /\ at[f] \in {"hold", "failed", "done"}
    /\ at[f] = "done" => Counted(f) = PartsOf(f)
TallyInv ==
    /\ direct \in [File -> {0, 1, 2}] /\ \A f \in File : TallyOf(f)
    /\ bytesDone = Cardinality(Bytes)

LEMMA HereCounts ==
    ASSUME NEW f \in File, direct \in [File -> {0, 1, 2}]
    PROVE  Here(f) \in SUBSET {1, 2} /\ Cardinality(Here(f)) = direct[f]
<1>1. CASE direct[f] = 0
  <2>1. Here(f) = {}
    BY <1>1 DEF Here
  <2>. QED  BY <1>1, <2>1, FS_EmptySet
<1>2. CASE direct[f] = 1
  <2>1. Here(f) = {1}
    BY <1>2 DEF Here
  <2>. QED  BY <1>2, <2>1, TwoParts
<1>3. CASE direct[f] = 2
  <2>1. Here(f) = {1, 2}
    BY <1>3 DEF Here
  <2>. QED  BY <1>3, <2>1, TwoParts
<1>. QED  BY <1>1, <1>2, <1>3

\* A step changes what is counted of one file, and the sum as much.
LEMMA CountMoves ==
    ASSUME IsFiniteSet(File), CopyTypes, CopyTypes', TallyInv, NEW f \in File, direct' \in [File -> {0, 1, 2}],
           \A g \in File \ {f} : sent'[g] = sent[g] /\ direct'[g] = direct[g] /\ at'[g] = at[g],
           TallyOf(f)', bytesDone' = bytesDone - Cardinality(Counted(f)) + Cardinality(Counted(f)')
    PROVE  TallyInv'
<1>. DEFINE R == {b \in Bytes : b[1] # f}
            X == Counted(f)
            Y == Counted(f)'
<1>1. X \in SUBSET {1, 2} /\ Y \in SUBSET {1, 2}
  BY DEF Counted, Here, CopyTypes, TallyInv
<1>2. Bytes = R \cup ({f} \X X) /\ \A b \in R : b[1] # f
  BY <1>1 DEF Bytes
<1>3. \A g \in File \ {f} : Counted(g)' = Counted(g) /\ (TallyOf(g) => TallyOf(g)')
  BY DEF Counted, Here, TallyOf, PartsOf
<1>4. Bytes' = {b \in File \X {1, 2} : b[2] \in Counted(b[1])'}
  BY DEF Bytes
<1>5. Bytes' = R \cup ({f} \X Y)
  BY <1>1, <1>3, <1>4 DEF Bytes
<1>6. IsFiniteSet(R)
  <2>1. IsFiniteSet(File \X {1, 2})
    BY TwoParts, FS_Product
  <2>. QED  BY <2>1, FS_Subset DEF Bytes
<1>. HIDE DEF R, X, Y
<1>7. Cardinality(Bytes') = Cardinality(Bytes) - Cardinality(X) + Cardinality(Y)
  <2>1. PICK B, C, x, y, r : B = Bytes /\ C = Bytes' /\ x = X /\ y = Y /\ r = R
    OBVIOUS
  <2>2. Joins(r, f, x) /\ Joins(r, f, y)
    <3>1. IsFiniteSet(r) /\ (\A b \in r : b[1] # f) /\ x \in SUBSET {1, 2} /\ y \in SUBSET {1, 2}
      BY <1>1, <1>2, <1>6, <2>1, Zenon
    <3>. QED  BY <3>1 DEF Joins
  <2>3. B = r \cup ({f} \X x)
    BY <1>2, <2>1, Zenon
  <2>4. C = r \cup ({f} \X y)
    BY <1>5, <2>1, Zenon
  <2>5. Cardinality(C) = Cardinality(B) - Cardinality(x) + Cardinality(y)
    <3>1. Adds(r, f, x) /\ Adds(r, f, y)
      BY <2>2, EachBeside, Zenon
    <3>2. /\ Cardinality(x) \in Nat /\ Cardinality(y) \in Nat /\ Cardinality(r) \in Nat
          /\ Cardinality(r \cup ({f} \X x)) = Cardinality(r) + Cardinality(x)
          /\ Cardinality(r \cup ({f} \X y)) = Cardinality(r) + Cardinality(y)
      BY <3>1, Zenon DEF Adds
    <3>3. Cardinality(B) = Cardinality(r) + Cardinality(x) /\ Cardinality(C) = Cardinality(r) + Cardinality(y)
      BY <2>3, <2>4, <3>2, Zenon
    <3>. QED  BY <3>2, <3>3
  <2>. QED  BY <2>1, <2>5, Zenon
<1>9. bytesDone' = Cardinality(Bytes)'
  <2>1. bytesDone = Cardinality(Bytes) /\ bytesDone' = bytesDone - Cardinality(X) + Cardinality(Y)
    BY DEF TallyInv, X, Y
  <2>. QED  BY <1>7, <2>1
<1>. QED  BY <1>3, <1>9 DEF TallyInv

LEMMA CountStays ==
    ASSUME CopyTypes, TallyInv, UNCHANGED <<sent, direct, bytesDone>>,
           \A f \in File : TallyOf(f)'
    PROVE  TallyInv'
<1>1. \A f \in File : Counted(f)' = Counted(f)
  BY DEF Counted, Here
<1>2. Bytes' = Bytes
  BY <1>1 DEF Bytes
<1>. QED  BY <1>2 DEF TallyInv

\* What goes another way is given back first.
LEMMA GivenBack ==
    ASSUME IsFiniteSet(File), RelayInv, RelayInv', TallyInv, NEW f \in File, NEW why,
           GivesBack(f, why), at[f] \in {"ready", "parts"}
    PROVE  TallyInv'
<1>1. direct' = direct /\ sent' = [sent EXCEPT ![f] = {}] /\ at' = [at EXCEPT ![f] = "direct"]
      /\ bytesDone' = bytesDone - Cardinality(sent[f])
  BY DEF GivesBack, Uncounted
<1>2. direct[f] = 0 /\ sent'[f] = {} /\ direct'[f] = 0 /\ at'[f] = "direct"
      /\ \A g \in File \ {f} : sent'[g] = sent[g] /\ direct'[g] = direct[g] /\ at'[g] = at[g]
  BY <1>1 DEF TallyInv, TallyOf, RelayInv, CopyTypes
<1>3. Counted(f) = sent[f] /\ Counted(f)' = {} /\ TallyOf(f)'
  BY <1>2 DEF Counted, Here, TallyOf
<1>4. Cardinality(sent[f]) \in Nat /\ bytesDone \in Nat
  <2>1. IsFiniteSet(sent[f])
    BY TwoParts, FS_Subset DEF RelayInv, CopyTypes
  <2>2. IsFiniteSet(File \X {1, 2})
    BY TwoParts, FS_Product
  <2>3. IsFiniteSet(Bytes)
    BY <2>2, FS_Subset DEF Bytes
  <2>. QED  BY <2>1, <2>3, FS_CardinalityType DEF TallyInv
<1>5. bytesDone' = bytesDone - Cardinality(Counted(f)) + Cardinality(Counted(f)')
  BY <1>1, <1>3, <1>4, FS_EmptySet
<1>. QED  BY <1>1, <1>2, <1>3, <1>5, CountMoves DEF TallyInv, RelayInv

\* What was counted of a copy here replaces what was not.
LEMMA CountedHere ==
    ASSUME IsFiniteSet(File), RelayInv, RelayInv', TallyInv, NEW f \in File, NEW k \in {0, 1, 2},
           NEW s \in {"todo", "hold", "failed", "done"},
           sent[f] = {}, sent' = sent, direct' = [direct EXCEPT ![f] = k], at' = [at EXCEPT ![f] = s],
           bytesDone' = bytesDone - direct[f] + k, s = "todo" => k = 0, s = "done" => k = SizeOf(f)
    PROVE  TallyInv'
<1>1. /\ direct' \in [File -> {0, 1, 2}] /\ direct'[f] = k /\ sent'[f] = {} /\ at'[f] = s
      /\ \A g \in File \ {f} : sent'[g] = sent[g] /\ direct'[g] = direct[g] /\ at'[g] = at[g]
  BY DEF TallyInv, RelayInv, CopyTypes
<1>2. Counted(f) = Here(f) /\ Counted(f)' = Here(f)'
  BY <1>1 DEF Counted
<1>3. Cardinality(Counted(f)) = direct[f]
  BY <1>2, HereCounts DEF TallyInv
<1>4. Here(f)' = IF k = 0 THEN {} ELSE IF k = 1 THEN {1} ELSE {1, 2}
  BY <1>1 DEF Here
<1>5. Cardinality(Counted(f)') = k
  <2>1. CASE k = 0
    BY <1>2, <1>4, <2>1, FS_EmptySet
  <2>2. CASE k = 1
    <3>1. Counted(f)' = {1}
      BY <1>2, <1>4, <2>2
    <3>. QED  BY <2>2, <3>1, TwoParts
  <2>3. CASE k = 2
    <3>1. Counted(f)' = {1, 2}
      BY <1>2, <1>4, <2>3
    <3>. QED  BY <2>3, <3>1, TwoParts
  <2>. QED  BY <2>1, <2>2, <2>3
<1>6. s = "done" => Counted(f)' = PartsOf(f)
  <2>1. (k = 1 => Here(f)' = {1}) /\ (k = 2 => Here(f)' = {1, 2})
    BY <1>4
  <2>2. (SizeOf(f) = 1 => PartsOf(f) = {1}) /\ (SizeOf(f) = 2 => PartsOf(f) = {1, 2}) /\ SizeOf(f) \in {1, 2}
    <3>1. PartsOf(f) = {1} \/ PartsOf(f) = {1, 2}
      BY DEF PartsOf
    <3>. QED  BY <3>1, TwoParts DEF SizeOf
  <2>. QED  BY <1>2, <2>1, <2>2
<1>7. TallyOf(f)'
  BY <1>1, <1>6 DEF TallyOf, PartsOf
<1>8. bytesDone' = bytesDone - Cardinality(Counted(f)) + Cardinality(Counted(f)')
  BY <1>3, <1>5
<1>. QED  BY <1>1, <1>7, <1>8, CountMoves DEF RelayInv

LEMMA TallyStarts == UltraInit => TallyInv
<1>. SUFFICES ASSUME UltraInit PROVE TallyInv
  OBVIOUS
<1>1. Bytes = {}
  BY DEF UltraInit, Bytes, Counted, Here
<1>. QED  BY <1>1, FS_EmptySet DEF UltraInit, TallyInv, TallyOf

LEMMA FileTallied ==
    ASSUME IsFiniteSet(File), RelayInv, RelayInv', TallyInv, NEW f \in File, FileActs(f)
    PROVE  TallyInv'
<1>0. /\ CopyTypes /\ CopyTypes' /\ KeptOf(f) /\ KeptOf(f)' /\ TallyOf(f) /\ \A g \in File : TallyOf(g)
      /\ direct \in [File -> {0, 1, 2}] /\ at[f] \notin {"off", "done", "failed"}
      /\ \A g \in File \ {f} : at'[g] = at[g] /\ sent'[g] = sent[g]
  BY OneFile DEF RelayInv, PartsKept, TallyInv
<1>1. ASSUME UNCHANGED <<sent, direct, bytesDone>>, at'[f] \notin {"done"}, direct[f] = 0 \/ at'[f] \in {"hold", "failed"}
      PROVE  TallyInv'
  <2>1. \A g \in File : TallyOf(g)'
    BY <1>0, <1>1 DEF TallyOf, Counted, Here, PartsOf
  <2>. QED  BY <1>0, <1>1, <2>1, CountStays
<1>2. at[f] # "hold" => direct[f] = 0
  BY <1>0 DEF TallyOf
<1>3. CASE Offer(f)
  BY <1>0, <1>1, <1>2, <1>3 DEF Offer, tallyVars, CopyTypes
<1>4. CASE ReadyFails(f)
  BY <1>4, GivenBack DEF ReadyFails
<1>5. CASE GetLinks(f)
  <2>1. CASE \E why \in {"fail", "net"} : GivesBack(f, why)
    BY <1>5, <2>1, GivenBack DEF GetLinks
  <2>2. CASE at' = [at EXCEPT ![f] = "parts"] /\ UNCHANGED <<sent, tallyVars>>
    BY <1>0, <1>1, <1>2, <1>5, <2>2 DEF GetLinks, tallyVars, CopyTypes
  <2>. QED  BY <1>5, <2>1, <2>2 DEF GetLinks
<1>6. CASE FinishUpload(f)
  <2>1. CASE at' = at
    BY <1>0, <1>1, <1>2, <1>6, <2>1 DEF FinishUpload, Arrives, tallyVars
  <2>2. CASE at' = [at EXCEPT ![f] = "done"]
    <3>1. sent[f] = PartsOf(f) /\ UNCHANGED <<sent, direct, bytesDone>> /\ direct[f] = 0
      BY <1>0, <1>2, <1>6, <2>2 DEF FinishUpload, Joined, Arrives, tallyVars, CopyTypes
    <3>2. \A g \in File : TallyOf(g)'
      BY <1>0, <2>2, <3>1 DEF TallyOf, Counted, Here, PartsOf, CopyTypes
    <3>. QED  BY <1>0, <3>1, <3>2, CountStays
  <2>. QED  BY <1>6, <2>1, <2>2 DEF FinishUpload, Arrives
<1>7. CASE AbandonUpload(f)
  BY <1>7, GivenBack DEF AbandonUpload
<1>8. CASE CopyHere(f)
  <2>1. sent[f] = {} /\ direct[f] = 0 /\ SizeOf(f) \in {1, 2}
    <3>1. SizeOf(f) \in {1, 2}
      <4>1. PartsOf(f) = {1} \/ PartsOf(f) = {1, 2}
        BY DEF PartsOf
      <4>. QED  BY <4>1, TwoParts DEF SizeOf
    <3>. QED  BY <1>0, <1>2, <1>8, <3>1 DEF CopyHere, KeptOf
  <2>2. bytesDone \in Nat
    <3>1. IsFiniteSet(File \X {1, 2})
      BY TwoParts, FS_Product
    <3>2. IsFiniteSet(Bytes)
      BY <3>1, FS_Subset DEF Bytes
    <3>. QED  BY <3>2, FS_CardinalityType DEF TallyInv
  <2>3. bytesDone' = bytesDone - direct[f] + SizeOf(f) /\ sent' = sent
        /\ direct' = [direct EXCEPT ![f] = SizeOf(f)] /\ at' = [at EXCEPT ![f] = "done"]
    BY <1>8, <2>1, <2>2 DEF CopyHere
  <2>. QED  BY <2>1, <2>3, CountedHere
<1>9. CASE CopyBreaks(f)
  <2>1. PICK k \in 0..SizeOf(f) : direct' = [direct EXCEPT ![f] = k] /\ bytesDone' = bytesDone + k
    BY <1>9 DEF CopyBreaks
  <2>2. PICK s \in {"hold", "failed"} : at' = [at EXCEPT ![f] = s]
    BY <1>9 DEF CopyBreaks
  <2>3. k \in {0, 1, 2}
    <3>1. PartsOf(f) = {1} \/ PartsOf(f) = {1, 2}
      BY DEF PartsOf
    <3>2. SizeOf(f) \in {1, 2}
      BY <3>1, TwoParts DEF SizeOf
    <3>. QED  BY <2>1, <3>2
  <2>4. bytesDone \in Nat
    <3>1. IsFiniteSet(File \X {1, 2})
      BY TwoParts, FS_Product
    <3>2. IsFiniteSet(Bytes)
      BY <3>1, FS_Subset DEF Bytes
    <3>. QED  BY <3>2, FS_CardinalityType DEF TallyInv
  <2>5. sent[f] = {} /\ direct[f] = 0 /\ sent' = sent
    BY <1>0, <1>2, <1>9 DEF CopyBreaks, KeptOf
  <2>6. bytesDone' = bytesDone - direct[f] + k
    BY <2>1, <2>3, <2>4, <2>5
  <2>. QED  BY <2>1, <2>2, <2>3, <2>5, <2>6, CountedHere
<1>10. CASE NetworkBack(f)
  <2>1. sent[f] = {} /\ sent' = sent /\ direct' = [direct EXCEPT ![f] = 0] /\ at' = [at EXCEPT ![f] = "todo"]
        /\ bytesDone' = bytesDone - direct[f]
    BY <1>0, <1>10 DEF NetworkBack, KeptOf
  <2>2. bytesDone - direct[f] \in Int
    <3>1. IsFiniteSet(File \X {1, 2})
      BY TwoParts, FS_Product
    <3>2. IsFiniteSet(Bytes)
      BY <3>1, FS_Subset DEF Bytes
    <3>3. bytesDone \in Nat
      BY <3>2, FS_CardinalityType DEF TallyInv
    <3>. QED  BY <1>0, <3>3
  <2>3. bytesDone' = bytesDone - direct[f] + 0
    BY <2>1, <2>2
  <2>. QED  BY <2>1, <2>3, CountedHere
<1>11. CASE NetworkStaysAway(f)
  BY <1>0, <1>1, <1>11 DEF NetworkStaysAway, tallyVars, CopyTypes
<1>12. CASE Replaced(f)
  BY <1>0, <1>1, <1>2, <1>12 DEF Replaced, fileVars, tallyVars
<1>13. ASSUME NEW p \in PartsOf(f), StartPart(f, p) \/ PartFails(f, p) \/ PartStops(f, p)
       PROVE  TallyInv'
  <2>1. UNCHANGED <<at, sent, direct, bytesDone>>
    BY <1>13 DEF StartPart, PartFails, PartStops, tallyVars
  <2>2. at[f] # "hold"
    BY <1>0, <1>13 DEF KeptOf, StartPart, PartFails, PartStops
  <2>. QED  BY <1>0, <1>1, <1>2, <2>1, <2>2
<1>14. ASSUME NEW p \in PartsOf(f), PartSent(f, p)
       PROVE  TallyInv'
  <2>1. p \in out[f] /\ sent' = [sent EXCEPT ![f] = @ \cup {p}] /\ bytesDone' = bytesDone + 1
        /\ UNCHANGED <<at, direct>>
    BY <1>14 DEF PartSent
  <2>2. p \notin sent[f] /\ at[f] = "parts" /\ direct[f] = 0 /\ IsFiniteSet(sent[f])
    <3>1. p \notin sent[f] /\ at[f] = "parts"
      BY <1>0, <2>1 DEF KeptOf
    <3>2. IsFiniteSet(sent[f])
      BY <1>0, TwoParts, FS_Subset DEF CopyTypes
    <3>. QED  BY <1>2, <3>1, <3>2
  <2>3. Counted(f) = sent[f] /\ Counted(f)' = sent[f] \cup {p}
    BY <1>0, <2>1, <2>2 DEF Counted, Here, CopyTypes
  <2>4. Cardinality(sent[f] \cup {p}) = Cardinality(sent[f]) + 1 /\ Cardinality(sent[f]) \in Nat
    BY <2>2, FS_AddElement, FS_CardinalityType
  <2>5. bytesDone \in Nat
    <3>1. IsFiniteSet(File \X {1, 2})
      BY TwoParts, FS_Product
    <3>2. IsFiniteSet(Bytes)
      BY <3>1, FS_Subset DEF Bytes
    <3>. QED  BY <3>2, FS_CardinalityType DEF TallyInv
  <2>6. bytesDone' = bytesDone - Cardinality(Counted(f)) + Cardinality(Counted(f)')
    BY <2>1, <2>3, <2>4, <2>5
  <2>7. TallyOf(f)'
    BY <2>1, <2>2 DEF TallyOf
  <2>. QED  BY <1>0, <2>1, <2>6, <2>7, CountMoves
<1>. QED  BY <1>3, <1>4, <1>5, <1>6, <1>7, <1>8, <1>9, <1>10, <1>11, <1>12, <1>13, <1>14 DEF FileActs

\* A copy that ends well has counted every byte of it once, whatever went
\* twice because the Worker or the network failed halfway (relayState.try,
\* copyOne), for any finite number of files.
THEOREM TallyAddsUp ==
    ASSUME IsFiniteSet(File)
    PROVE  UltraSpec => []BytesAddUp
<1>1. RelayInv /\ RelayInv' /\ TallyInv /\ [UltraNext]_ultraVars => TallyInv'
  <2>. SUFFICES ASSUME RelayInv, RelayInv', TallyInv, [UltraNext]_ultraVars  PROVE TallyInv'
    OBVIOUS
  <2>1. ASSUME UNCHANGED <<at, sent, direct, bytesDone>> PROVE TallyInv'
    <3>1. \A f \in File : TallyOf(f)'
      BY <2>1 DEF TallyInv, TallyOf, Counted, Here, PartsOf
    <3>. QED  BY <2>1, <3>1, CountStays DEF RelayInv
  <2>2. CASE SettingUp
    <3>1. UNCHANGED tallyVars
      BY <2>2 DEF SettingUp, TurnOn, Uploads, OpensAddress, Undoes, DropsOld, Saves, TurnOff, Deletes, Forgotten, CutShort
    <3>. QED  BY <2>1, <2>2, <3>1, SetupApart DEF fileVars, tallyVars
  <2>3. CASE StartCopy
    <3>1. UNCHANGED <<sent, direct, bytesDone>> /\ (\A f \in File : at'[f] \in {"off", "todo"}) /\ \A f \in File : at[f] = "off"
      BY <2>3 DEF StartCopy, tallyVars, RelayInv, BeginsOnce
    <3>2. \A f \in File : TallyOf(f)'
      BY <3>1 DEF TallyInv, TallyOf, Counted, Here, PartsOf
    <3>. QED  BY <3>1, <3>2, CountStays DEF RelayInv
  <2>4. CASE Beginning /\ ~StartCopy
    BY <2>1, <2>4 DEF Beginning, Health, PutsUp, SavesVersion, SwitchesOver, EndCopy, NewBinary, fileVars, tallyVars
  <2>5. CASE UNCHANGED ultraVars
    BY <2>1, <2>5 DEF ultraVars, fileVars, tallyVars
  <2>. QED  BY <2>2, <2>3, <2>4, <2>5, UltraKinds, FileTallied
<1>2. RelayInv /\ TallyInv => BytesAddUp
  <2>. SUFFICES ASSUME RelayInv, TallyInv, \A f \in File : at[f] \in {"off", "done"}
                PROVE  bytesDone = MapThenSumSet(SizeOf, {f \in File : at[f] = "done"})
    BY DEF BytesAddUp
  <2>. DEFINE done == {f \in File : at[f] = "done"}
  <2>1. \A f \in File : Counted(f) = IF f \in done THEN PartsOf(f) ELSE {}
    BY DEF TallyInv, TallyOf, Counted, Here, RelayInv, PartsKept, KeptOf
  <2>2. Bytes = PartsIn(done)
    BY <2>1 DEF Bytes, PartsIn
  <2>3. IsFiniteSet(done)
    BY FS_Subset
  <2>. HIDE DEF done
  <2>4. MapThenSumSet(SizeOf, done) = Cardinality(PartsIn(done))
    BY <2>3, SumOfSizes
  <2>5. bytesDone = MapThenSumSet(SizeOf, done)
    BY <2>2, <2>4 DEF TallyInv
  <2>. QED  BY <2>5 DEF done
<1>. QED  BY <1>1, <1>2, UltraStarts, RelaysHold, TallyStarts, PTL DEF UltraSpec

(***************************************************************************)
(* Each Worker is accounted for.                                           *)
(***************************************************************************)
LEMMA SettingUpOwns ==
    ASSUME RelayInv, ~Meanwhile, Owned, SettingUp
    PROVE  Owned'
<1>. USE DEF Owned, RelayInv
<1>1. /\ UNCHANGED <<binary, run, st, ready, at>>
      /\ cmd \in [step : Steps, new : State \cup {Nothing}, old : State \cup {Nothing}]
      /\ cmd.step = "none" => cmd = NoCmd
      /\ cmd.step \in Enabling => cmd.new \in State
      /\ kept \in State \cup {Nothing} /\ \A s \in State : s # Nothing
  BY SetupApart, UltraFastAssumption DEF onceVars, fileVars, SetupTypes
<1>2. ASSUME NEW a \in CfAccount, TurnOn(a)  PROVE Owned'
  <2>1. /\ cmd' = [step |-> "upload", old |-> kept,
                   new |-> [acct |-> a, name |-> NameOf(a), secret |-> commands + 1, ver |-> binary]]
        /\ cmd.step = "none" /\ off' = FALSE /\ UNCHANGED <<relays, kept, lost>>
        /\ run = "off" \/ ready \in {"yes", "no"}
    BY <1>2 DEF TurnOn, NoCmd, Settled
  <2>2. Readying'
    BY <1>1, <2>1 DEF Readying
  <2>3. Making'
    BY <1>1, <2>1 DEF Making, Enabling, NameOf
  <2>4. Accounted'
    BY <1>1, <2>1 DEF Accounted, Known, Same
  <2>5. StaysOff'
    BY <2>1 DEF StaysOff
  <2>. QED  BY <2>2, <2>3, <2>4, <2>5
<1>3. CASE TurnOff
  <2>1. /\ cmd' = [step |-> "delete", new |-> Nothing, old |-> kept] /\ cmd.step = "none" /\ kept # Nothing
        /\ UNCHANGED <<relays, kept, lost, off>>
        /\ run = "off" \/ ready \in {"yes", "no"}
    BY <1>3 DEF TurnOff, NoCmd, Settled
  <2>2. Readying' /\ Making' /\ StaysOff'
    BY <1>1, <2>1 DEF Readying, Making, StaysOff, Enabling
  <2>3. Accounted'
    BY <1>1, <2>1 DEF Accounted, Known, Same
  <2>. QED  BY <2>2, <2>3
\* The other steps go on with a command.
<1>. DEFINE Goes == /\ cmd.step # "none" /\ (run = "off" \/ ready \in {"yes", "no"})
                    /\ \E s \in Steps : StepTo(s)
<1>4. Uploads \/ OpensAddress \/ Undoes \/ DropsOld \/ Saves \/ Deletes \/ Forgotten \/ CutShort => Goes
  <2>1. Uploads \/ OpensAddress \/ Undoes \/ DropsOld \/ Saves \/ Deletes \/ Forgotten \/ CutShort
          => cmd.step # "none" /\ \E s \in Steps : StepTo(s)
    BY DEF Uploads, OpensAddress, Undoes, DropsOld, Saves, Deletes, Forgotten, CutShort, Steps
  <2>. QED  BY <2>1 DEF Readying, NoCmd
<1>5. Goes => /\ (cmd' = NoCmd /\ cmd'.step = "none") \/ (cmd'.new = cmd.new /\ cmd'.old = cmd.old)
              /\ (run' = "off" \/ ready' \in {"yes", "no"})
  BY <1>1 DEF StepTo, NoCmd
<1>6. Goes => Readying'
  <2>1. Goes => (run' # "off" /\ ready' \in {"ask", "upload", "save"} => FALSE)
    BY <1>1
  <2>. QED  BY <1>1, <1>5, <2>1 DEF Readying
<1>7. ASSUME Goes, kept' = kept, off' = off,
             cmd'.step \in Enabling => cmd.step \in Enabling,
             cmd'.step \in {"delete", "forget"} => cmd.step \in {"delete", "forget"}
      PROVE  Making' /\ StaysOff'
  BY <1>1, <1>5, <1>7 DEF Making, StaysOff, Enabling, NoCmd
<1>8. CASE Uploads
  <2>1. kept' = kept /\ off' = off /\ cmd.step = "upload" /\ cmd'.step \in {"open", "none"} /\ cmd.new \in State
    BY <1>1, <1>8 DEF Uploads, StepTo, NoCmd, Enabling
  <2>2. Readying' /\ Making' /\ StaysOff'
    BY <1>4, <1>6, <1>7, <1>8, <2>1 DEF Enabling
  <2>3. Accounted'
    <3>1. \A r \in Uploaded(cmd.new) : Same(r, cmd.new) \/ r \in relays
      BY <2>1, UploadedRelays
    <3>2. CASE cmd'.step = "open"
      <4>1. lost' = lost /\ relays' = Uploaded(cmd.new) /\ cmd'.new = cmd.new
        BY <1>1, <1>8, <3>2 DEF Uploads, StepTo, NoCmd
      <4>. QED  BY <2>1, <3>1, <3>2, <4>1 DEF Accounted, Known, Same
    <3>3. CASE cmd'.step = "none"
      <4>1. lost' = lost \cup NameLost(cmd.new) /\ relays' \in {relays, Uploaded(cmd.new)}
        BY <1>1, <1>8, <3>3 DEF Uploads, StepTo
      <4>. QED  BY <1>1, <2>1, <3>1, <3>3, <4>1 DEF Accounted, Known, Same, NameLost
    <3>. QED  BY <2>1, <3>2, <3>3
  <2>. QED  BY <2>2, <2>3
<1>9. CASE OpensAddress
  <2>1. /\ kept' = kept /\ off' = off /\ lost' = lost /\ cmd.step = "open" /\ cmd'.step \in {"old", "undo"}
        /\ cmd.new \in State /\ cmd'.new = cmd.new /\ (relays' = relays \/ relays' = Opened(cmd.new))
    BY <1>1, <1>9 DEF OpensAddress, StepTo, Enabling
  <2>2. Readying' /\ Making' /\ StaysOff'
    BY <1>4, <1>6, <1>7, <1>9, <2>1 DEF Enabling
  <2>3. \A r \in relays' : \E q \in relays : r.acct = q.acct /\ r.name = q.name
    BY <2>1, OpenedRelays
  <2>4. Accounted'
    BY <2>1, <2>3 DEF Accounted, Known, Same
  <2>. QED  BY <2>2, <2>4
<1>10. CASE Undoes
  <2>1. /\ kept' = kept /\ off' = off /\ cmd.step = "undo" /\ cmd'.step = "none" /\ cmd.new \in State
        /\ TakesAway(cmd.new)
    BY <1>1, <1>10 DEF Undoes, StepTo, NoCmd, Enabling
  <2>2. Readying' /\ Making' /\ StaysOff'
    BY <1>4, <1>6, <1>7, <1>10, <2>1 DEF Enabling
  <2>3. Accounted'
    BY <2>1, TakenAway DEF Accounted, Known
  <2>. QED  BY <2>2, <2>3
<1>11. CASE DropsOld
  <2>1. /\ kept' = kept /\ off' = off /\ cmd.step = "old" /\ cmd'.step = "save" /\ cmd.new \in State
        /\ cmd'.new = cmd.new /\ cmd.old = kept
    BY <1>1, <1>11 DEF DropsOld, StepTo, Enabling, Making
  <2>2. Readying' /\ Making' /\ StaysOff'
    BY <1>4, <1>6, <1>7, <1>11, <2>1 DEF Enabling
  <2>3. Accounted'
    <3>1. CASE kept # Nothing /\ kept.acct # cmd.new.acct
      <4>1. TakesAway(kept) /\ kept \in State
        BY <1>1, <1>11, <2>1, <3>1 DEF DropsOld
      <4>. QED  BY <2>1, <4>1, TakenAway DEF Accounted, Known
    <3>2. CASE ~(kept # Nothing /\ kept.acct # cmd.new.acct)
      <4>1. UNCHANGED <<relays, lost>>
        BY <1>11, <2>1, <3>2 DEF DropsOld
      <4>2. kept # Nothing => kept.acct = cmd.new.acct /\ kept.name = cmd.new.name
        BY <2>1, <3>2 DEF Making, Enabling
      <4>. QED  BY <1>1, <2>1, <4>1, <4>2 DEF Accounted, Known, Same
    <3>. QED  BY <3>1, <3>2
  <2>. QED  BY <2>2, <2>3
<1>12. CASE Saves
  <2>1. /\ off' = off /\ relays' = relays /\ lost' = lost /\ cmd.step = "save" /\ cmd.new \in State
        /\ \/ cmd'.step = "none" /\ kept' = cmd.new
           \/ cmd'.step = "undo" /\ kept' = kept /\ cmd'.new = cmd.new
    BY <1>1, <1>12 DEF Saves, StepTo, NoCmd, Enabling
  <2>2. Readying'
    BY <1>4, <1>6, <1>12
  <2>3. Making' /\ StaysOff'
    <3>1. ~off
      BY <2>1 DEF StaysOff, Enabling
    <3>2. CASE cmd'.step = "none"
      BY <2>1, <3>1, <3>2 DEF Making, StaysOff, Enabling
    <3>3. CASE cmd'.step = "undo"
      BY <1>4, <1>7, <1>12, <2>1, <3>3 DEF Enabling
    <3>. QED  BY <2>1, <3>2, <3>3
  <2>4. Accounted'
    BY <2>1 DEF Accounted, Known
  <2>. QED  BY <2>2, <2>3, <2>4
<1>13. CASE Deletes
  <2>1. /\ kept' = kept /\ off' = off /\ cmd.step = "delete" /\ cmd'.step = "forget" /\ cmd.old = kept
        /\ kept \in State /\ TakesAway(kept)
    BY <1>1, <1>13 DEF Deletes, StepTo, Making
  <2>2. Readying' /\ Making' /\ StaysOff'
    BY <1>4, <1>6, <1>7, <1>13, <2>1 DEF Enabling
  <2>3. Accounted'
    BY <2>1, TakenAway DEF Accounted, Known, Same
  <2>. QED  BY <2>2, <2>3
<1>14. CASE Forgotten
  <2>1. /\ relays' = relays /\ lost' = lost /\ cmd.step = "forget" /\ cmd'.step = "none"
        /\ (kept' = Nothing /\ off' = TRUE) \/ UNCHANGED <<kept, off>>
    BY <1>1, <1>14 DEF Forgotten, StepTo, NoCmd
  <2>2. Readying'
    BY <1>4, <1>6, <1>14
  <2>3. Making' /\ StaysOff'
    BY <2>1 DEF Making, StaysOff, Enabling
  <2>4. Accounted'
    BY <2>1 DEF Accounted, Known, Same
  <2>. QED  BY <2>2, <2>3, <2>4
<1>15. CASE CutShort
  <2>1. /\ UNCHANGED <<relays, kept, off>> /\ cmd'.step = "none" /\ cmd.step # "none" /\ cmd.step \in Steps
        /\ lost' = lost \cup NameLost(cmd.new) \cup NameLost(cmd.old)
    BY <1>1, <1>15 DEF CutShort, StepTo, NoCmd
  <2>2. Readying' /\ Making' /\ StaysOff'
    BY <1>4, <1>6, <1>7, <1>15, <2>1 DEF Enabling
  <2>3. Accounted'
    BY <1>1, <2>1 DEF Accounted, Known, Same, NameLost, Steps
  <2>. QED  BY <2>2, <2>3
<1>. QED  BY <1>2, <1>3, <1>8, <1>9, <1>10, <1>11, <1>12, <1>13, <1>14, <1>15 DEF SettingUp

LEMMA BeginningOwns ==
    ASSUME RelayInv, ~Meanwhile, Owned, Beginning
    PROVE  Owned'
<1>. USE UltraFastAssumption DEF Owned, RelayInv
<1>1. /\ UNCHANGED <<cmd, lost, off>>
      /\ cmd.step = "none" => cmd = NoCmd
      /\ kept \in State \cup {Nothing} /\ st \in State \cup {Nothing}
  BY DEF SetupTypes, Beginning, StartCopy, Health, PutsUp, SavesVersion, SwitchesOver, EndCopy, NewBinary, setupVars
<1>2. CASE StartCopy
  <2>1. /\ cmd = NoCmd /\ run' = "on" /\ st' = kept /\ ready' = "ask"
        /\ UNCHANGED <<relays, kept>>
    BY <1>2 DEF StartCopy, setupVars
  <2>2. Readying'
    BY <1>1, <2>1 DEF Readying
  <2>. QED  BY <1>1, <2>1, <2>2 DEF Making, Accounted, Known, Same, StaysOff
<1>3. CASE NewBinary \/ SwitchesOver
  <2>1. UNCHANGED <<run, st, at, relays, kept>>
        /\ (ready' = ready \/ (ready = "answer" /\ ready' \in {"yes", "no"}))
    BY <1>3 DEF NewBinary, SwitchesOver, setupVars, onceVars, fileVars
  <2>2. Readying'
    BY <1>1, <2>1 DEF Readying
  <2>. QED  BY <1>1, <2>1, <2>2 DEF Making, Accounted, Known, Same, StaysOff
<1>4. CASE EndCopy
  <2>1. UNCHANGED <<st, ready, at, relays, kept>> /\ run = "on" /\ run' = "over"
        /\ (\A f \in File : at[f] \in {"off", "done", "failed"})
    BY <1>4 DEF EndCopy, setupVars, fileVars
  <2>2. Readying'
    BY <1>1, <2>1 DEF Readying
  <2>. QED  BY <1>1, <2>1, <2>2 DEF Making, Accounted, Known, Same, StaysOff
\* What readies the Worker does so while a file waits for it, and no command runs.
<1>5. CASE Health
  <2>1. UNCHANGED <<run, st, at, relays, kept>> /\ ready = "ask" /\ ready' \in {"yes", "upload", "no"}
        /\ \E f \in File : at[f] = "ready"
    BY <1>5 DEF Health, Asked, setupVars, fileVars
  <2>2. run # "off"
    BY <2>1 DEF BeginsOnce
  <2>3. Readying'
    BY <1>1, <2>1, <2>2 DEF Readying
  <2>. QED  BY <1>1, <2>1, <2>3 DEF Making, Accounted, Known, Same, StaysOff
<1>6. CASE PutsUp \/ SavesVersion
  <2>1. /\ UNCHANGED <<run, st, at>> /\ ready \in {"upload", "save"} /\ ready' \in {"save", "answer", "no"}
        /\ st # Nothing /\ run # "off" /\ st = kept /\ st \in State /\ cmd = NoCmd /\ cmd.step = "none"
    BY <1>1, <1>6 DEF PutsUp, SavesVersion, fileVars, CopyTypes, Readying, NoCmd
  <2>2. PutsUp => kept' = kept /\ (relays' = relays \/ relays' = Uploaded(st))
    BY DEF PutsUp
  <2>3. SavesVersion => /\ relays' = relays /\ (ready' = "save" => FALSE)
                        /\ \/ kept' = kept
                           \/ kept' \in State /\ kept'.acct = kept.acct /\ kept'.name = kept.name
    <3>1. binary \in Nat
      BY DEF SetupTypes
    <3>2. [st EXCEPT !.ver = binary] \in State /\ [st EXCEPT !.ver = binary].acct = st.acct
          /\ [st EXCEPT !.ver = binary].name = st.name
      BY <2>1, <3>1 DEF State
    <3>. QED  BY <2>1, <3>2 DEF SavesVersion
  <2>4. kept # Nothing /\ kept' # Nothing /\ kept'.acct = kept.acct /\ kept'.name = kept.name
    <3>1. CASE kept' = kept
      BY <2>1, <3>1
    <3>2. CASE SavesVersion /\ kept' \in State
      BY <2>1, <2>3, <3>2
    <3>. QED  BY <1>6, <2>2, <2>3, <3>1, <3>2
  <2>5. Readying'
    BY <1>1, <1>6, <2>1, <2>2, <2>3 DEF Readying
  <2>6. Accounted'
    <3>1. \A r \in relays' : r \in relays \/ Same(r, kept)
      BY <1>6, <2>1, <2>2, <2>3, UploadedRelays
    <3>2. \A r \in relays' : Known(r, kept)'
      BY <1>1, <2>1, <2>4, <3>1 DEF Accounted, Known, Same
    <3>. QED  BY <1>1, <2>1, <3>2 DEF Accounted
  <2>7. Making' /\ StaysOff'
    BY <1>1, <2>1 DEF Making, StaysOff, Enabling
  <2>. QED  BY <2>5, <2>6, <2>7
<1>. QED  BY <1>2, <1>3, <1>4, <1>5, <1>6 DEF Beginning

LEMMA FilesOwn ==
    ASSUME RelayInv, Owned, NEW f \in File, FileActs(f)
    PROVE  Owned'
<1>1. /\ UNCHANGED <<relays, kept, cmd, lost, off, run, st, ready>>
      /\ at[f] \notin {"off", "done", "failed"}
      /\ at[f] = "ready" => at'[f] = "ready" \/ ready \in {"yes", "no"}
      /\ \A g \in File \ {f} : at'[g] = at[g]
  BY OneFile DEF setupVars, onceVars
<1>2. Readying'
  BY <1>1 DEF Owned, Readying
<1>. QED  BY <1>1, <1>2 DEF Owned, Making, Accounted, Known, Same, StaysOff

\* Turned off, Ultra fast mode stays off, and no Worker is forgotten but one it was
\* said may be left: when settings are not changed while a copy that has begun
\* still readies its Worker (Enable, Disable and upgrade).
THEOREM NoRelayForgotten ==
    ASSUME ~Meanwhile
    PROVE  UltraSpec => []OneRelay
<1>1. RelayInv /\ Owned /\ [UltraNext]_ultraVars => Owned'
  <2>. SUFFICES ASSUME RelayInv, Owned, [UltraNext]_ultraVars  PROVE Owned'
    OBVIOUS
  <2>1. CASE UNCHANGED ultraVars
    BY <2>1 DEF ultraVars, setupVars, onceVars, fileVars, Owned, Readying, Making, Accounted, Known, Same, StaysOff
  <2>2. CASE UltraNext
    BY <2>2, UltraKinds, SettingUpOwns, BeginningOwns, FilesOwn
  <2>. QED  BY <2>1, <2>2
<1>2. RelayInv /\ Owned => OneRelay
  BY DEF Owned, Accounted, Known, StaysOff, OneRelay, NoCmd
<1>. QED  BY <1>1, <1>2, UltraStarts, RelaysHold, PTL DEF UltraSpec

(***************************************************************************)
(* The second copy: types.                                                 *)
(***************************************************************************)
Phases == {"idle", "asked", "source", "destination", "copy", "end"}
Stepping == {"source", "destination", "copy", "end"}
MirrorTypes ==
    /\ main \in [Keys -> Object] /\ second \in [Keys -> Object] /\ time \in Nat
    /\ keptOut \subseteq Scope /\ panelJob \in Copier \cup {Nobody}
    /\ phase \in [Copier -> Phases] /\ reverse \in [Copier -> BOOLEAN] /\ range \in [Copier -> SUBSET Scope]
    /\ srcList \in [Copier -> [Keys -> Object]]
    /\ copies \in [Copier -> SUBSET Keys] /\ deletes \in [Copier -> SUBSET Keys]
    /\ moving \in [Copier -> [key : Keys, ver : Nat] \cup {Still}]
    /\ broken \in [Copier -> BOOLEAN] /\ ended \in [Copier -> BOOLEAN]
    /\ changed \in [Copier -> SUBSET Keys] /\ alone \in [Copier -> BOOLEAN] /\ DOMAIN wiped = Scope
    /\ writes \in Nat
    /\ \A r \in Copier : phase[r] # "copy" => moving[r] = Still

(***************************************************************************)
(* Deleted backups.  From where backups go such a backup is gone, and no   *)
(* copy that had begun since knows of it: what it listed, plans to write,  *)
(* plans to delete and has on its way are of other backups.                *)
(***************************************************************************)
Spared(k) == wiped[k[1]] = {}
NoBackCopies == \A r \in Copier : ~reverse[r]
OthersOnly ==
    /\ \A k \in Keys : main[k].ver # 0 => Spared(k)
    /\ \A r \in Copier :
        /\ phase[r] \in {"destination", "copy"} => \A k \in Keys : srcList[r][k].ver # 0 => Spared(k)
        /\ phase[r] = "copy" => \A k \in copies[r] \cup deletes[r] : Spared(k)
        /\ moving[r] # Still => Spared(moving[r].key)
DeletedInv == NoBackCopies /\ OthersOnly /\ DeletedBackupStays

(***************************************************************************)
(* An exact copy.  A file that a store shows as written later than the     *)
(* source's is the source's version: a copy writes what the source has at  *)
(* that moment.  And a copy that was alone knows, of each file nobody has  *)
(* written since, that it still is as listed, and that it is copied, due   *)
(* to be copied or deleted, or on its way.                                 *)
(***************************************************************************)
TimesTell ==
    /\ \A k \in Keys : main[k].at <= time /\ second[k].at <= time
    /\ \A k \in Keys : main[k].ver # 0 /\ second[k].ver # 0 /\ main[k].at <= second[k].at
          => main[k].ver = second[k].ver
    /\ \A r \in Copier : moving[r] # Still => moving[r].ver = main[moving[r].key].ver /\ moving[r].ver # 0
AloneIsAlone ==
    \A r, q \in Copier : alone[r] /\ phase[r] \in Stepping /\ phase[q] \in Stepping => q = r
Sound(r) == alone[r] /\ ~broken[r] /\ ~ended[r]
Exact(r) ==
    /\ phase[r] \in {"destination", "copy", "end"} /\ Sound(r) =>
          \A k \in Keys \ changed[r] : main[k] = srcList[r][k]
    /\ phase[r] = "copy" /\ Sound(r) =>
          /\ \A k \in deletes[r] : srcList[r][k].ver = 0
          /\ \A k \in InRange(r) \ changed[r] :
                \/ k \in copies[r] \/ (moving[r] # Still /\ moving[r].key = k)
                \/ second[k].ver = srcList[r][k].ver
                \/ k \in deletes[r] \/ k[1] \notin Alive(r)
    /\ phase[r] = "end" /\ Sound(r) =>
          \A k \in InRange(r) \ changed[r] : k[1] \in Alive(r) => second[k].ver = main[k].ver
ExactInv == TimesTell /\ AloneIsAlone /\ \A r \in Copier : Exact(r)
MirrorInv == MirrorTypes /\ DeletedInv /\ ExactInv

LEMMA KeyScope == \A k \in Keys : k[1] \in Scope
BY MirrorAssumption DEF Keys

LEMMA MirrorStarts == MirrorInit => MirrorInv
<1>. SUFFICES ASSUME MirrorInit  PROVE MirrorInv
  OBVIOUS
<1>. USE MirrorAssumption DEF MirrorInit
<1>1. MirrorTypes
  <2>1. main \in [Keys -> Object] /\ second \in [Keys -> Object] /\ srcList \in [Copier -> [Keys -> Object]]
    BY DEF Object
  <2>2. /\ reverse \in [Copier -> BOOLEAN] /\ broken \in [Copier -> BOOLEAN] /\ ended \in [Copier -> BOOLEAN]
        /\ alone \in [Copier -> BOOLEAN]
    OBVIOUS
  <2>3. /\ copies \in [Copier -> SUBSET Keys] /\ deletes \in [Copier -> SUBSET Keys]
        /\ changed \in [Copier -> SUBSET Keys] /\ range \in [Copier -> SUBSET Scope]
    OBVIOUS
  <2>4. phase \in [Copier -> Phases] /\ moving \in [Copier -> [key : Keys, ver : Nat] \cup {Still}]
    BY DEF Phases
  <2>. QED  BY <2>1, <2>2, <2>3, <2>4 DEF MirrorTypes
<1>2. DeletedInv
  BY KeyScope DEF DeletedInv, NoBackCopies, OthersOnly, DeletedBackupStays, Spared
<1>3. ExactInv
  BY DEF ExactInv, TimesTell, AloneIsAlone, Exact, Stepping
<1>. QED  BY <1>1, <1>2, <1>3 DEF MirrorInv

\* What a copy does, and what a person and a backup do.
CopierActs(r) == RunOf(r) \/ AskMirror(r) \/ AutoMirror(r) \/ Killed(r) \/ CancelMirror(r)
WorldActs ==
    \/ \E k \in Keys : StoreMain(k)
    \/ \E s \in Scope : FolderOn(s) \/ \E b \in BOOLEAN : FolderOff(s, b) \/ DropBackup(s, b)

LEMMA CopierKeepsTypes ==
    ASSUME MirrorTypes, NEW r \in Copier, CopierActs(r)
    PROVE  MirrorTypes'
<1>. USE MirrorAssumption DEF MirrorTypes, storesVars, pastVars, boundVars, Phases, Goto
<1>1. CASE AskMirror(r)
  BY <1>1 DEF AskMirror
<1>2. ASSUME NEW back \in BOOLEAN, Begin(r, back), panelJob' \in {r, panelJob}, moving[r] = Still
      PROVE  MirrorTypes'
  <2>1. alone' \in [Copier -> BOOLEAN]
    <3>1. \A q \in Copier : (IF q = r THEN Busy = {} ELSE alone[q] /\ q \notin Busy) \in BOOLEAN
      OBVIOUS
    <3>. QED  BY <1>2, <3>1 DEF Begin
  <2>2. range' \in [Copier -> SUBSET Scope] /\ reverse' \in [Copier -> BOOLEAN]
    BY <1>2 DEF Begin
  <2>. QED  BY <1>2, <2>1, <2>2 DEF Begin
<1>3. CASE StartMirror(r)
  BY <1>2, <1>3 DEF StartMirror
<1>4. CASE AutoMirror(r)
  BY <1>2, <1>4 DEF AutoMirror
<1>5. CASE ListSource(r)
  BY <1>5 DEF ListSource, Src
<1>6. CASE PlanCopy(r)
  <2>1. /\ {k \in Listed(r, srcList[r]) : Stale(srcList[r][k], Dst(r)[k])} \subseteq Keys
        /\ {k \in Listed(r, Dst(r)) : srcList[r][k].ver = 0 /\ k[1] \in Alive(r)} \subseteq Keys
    BY DEF Listed, InRange
  <2>2. copies' \in [Copier -> SUBSET Keys] /\ deletes' \in [Copier -> SUBSET Keys]
    BY <1>6, <2>1 DEF PlanCopy
  <2>. QED  BY <1>6, <2>2 DEF PlanCopy
<1>7. CASE ListFails(r)
  BY <1>7 DEF ListFails
<1>8. ASSUME NEW k \in Keys, GetObject(r, k)  PROVE MirrorTypes'
  <2>1. Src(r)[k].ver \in Nat
    BY DEF Src, Object
  <2>2. [key |-> k, ver |-> Src(r)[k].ver] \in [key : Keys, ver : Nat]
    BY <2>1
  <2>3. moving' \in [Copier -> [key : Keys, ver : Nat] \cup {Still}] /\ phase[r] = "copy"
        /\ \A q \in Copier \ {r} : moving'[q] = moving[q]
    BY <1>8, <2>2 DEF GetObject
  <2>4. copies' \in [Copier -> SUBSET Keys] /\ broken' \in [Copier -> BOOLEAN]
    BY <1>8 DEF GetObject
  <2>. QED  BY <1>8, <2>3, <2>4 DEF GetObject, copyRest
<1>9. CASE PutObject(r)
  <2>1. moving[r].key \in Keys /\ moving[r].ver \in Nat
    BY <1>9 DEF PutObject
  <2>2. [ver |-> moving[r].ver, at |-> time + 1] \in Object
    BY <2>1 DEF Object
  <2>3. Dst(r) \in [Keys -> Object]
    BY DEF Dst
  <2>4. main' \in [Keys -> Object] /\ second' \in [Keys -> Object] /\ time' \in Nat
    <3>1. [Dst(r) EXCEPT ![moving[r].key] = [ver |-> moving[r].ver, at |-> time + 1]] \in [Keys -> Object]
      BY <2>2, <2>3
    <3>2. \/ UNCHANGED <<main, second, time>>
          \/ (\E f \in [Keys -> Object] : SetDst(r, f)) /\ time' = time + 1
      BY <1>9, <3>1 DEF PutObject
    <3>. QED  BY <3>2 DEF SetDst
  <2>5. /\ moving' = [moving EXCEPT ![r] = Still] /\ broken' \in [Copier -> BOOLEAN]
        /\ UNCHANGED <<keptOut, panelJob, phase, reverse, range, srcList, copies, deletes, ended, changed, alone, wiped, writes>>
    BY <1>9 DEF PutObject, copyRest
  <2>. QED  BY <2>4, <2>5
<1>10. CASE DeleteBatch(r)
  <2>1. Gone \in Object
    BY DEF Gone, Object
  <2>2. \A ks \in SUBSET Keys : [k \in Keys |-> IF k \in ks THEN Gone ELSE Dst(r)[k]] \in [Keys -> Object]
    BY <2>1 DEF Dst
  <2>3. deletes[r] \in SUBSET Keys
    OBVIOUS
  <2>4. main' \in [Keys -> Object] /\ second' \in [Keys -> Object]
    <3>1. UNCHANGED <<main, second>> \/ \E ks \in SUBSET Keys : SetDst(r, [k \in Keys |-> IF k \in ks THEN Gone ELSE Dst(r)[k]])
      BY <1>10, <2>3 DEF DeleteBatch
    <3>. QED  BY <2>2, <3>1 DEF SetDst
  <2>5. /\ phase' = [phase EXCEPT ![r] = "end"] /\ broken' \in [Copier -> BOOLEAN] /\ moving[r] = Still
        /\ UNCHANGED <<time, keptOut, panelJob, reverse, range, srcList, copies, deletes, moving, ended, changed, alone, wiped, writes>>
    BY <1>10 DEF DeleteBatch, DeletesDue
  <2>. QED  BY <2>4, <2>5
<1>11. CASE FinishMirror(r) \/ Killed(r)
  <2>1. Reset(r)
    BY <1>11 DEF FinishMirror, Killed
  <2>. QED  BY <2>1 DEF Reset
<1>12. CASE CancelMirror(r)
  BY <1>12 DEF CancelMirror
<1>. QED  BY <1>1, <1>3, <1>4, <1>5, <1>6, <1>7, <1>8, <1>9, <1>10, <1>11, <1>12 DEF CopierActs, RunOf

LEMMA WorldKeepsTypes ==
    ASSUME MirrorTypes, WorldActs
    PROVE  MirrorTypes'
<1>. USE DEF MirrorTypes, storesVars, copierVars, pastVars, boundVars
<1>1. Gone \in Object
  BY DEF Gone, Object
<1>2. \A ks \in SUBSET Keys : Touch(ks) => changed' \in [Copier -> SUBSET Keys]
  BY DEF Touch
<1>3. ASSUME NEW k \in Keys, StoreMain(k)  PROVE MirrorTypes'
  <2>1. [ver |-> writes + 2, at |-> time + 1] \in Object
    BY DEF Object
  <2>2. changed' \in [Copier -> SUBSET Keys]
    BY <1>2, <1>3 DEF StoreMain
  <2>3. main' \in [Keys -> Object]
    BY <1>1, <1>3, <2>1 DEF StoreMain
  <2>. QED  BY <1>3, <2>2, <2>3 DEF StoreMain
<1>4. ASSUME NEW s \in Scope, NEW b \in BOOLEAN, FolderOff(s, b)  PROVE MirrorTypes'
  <2>1. second' \in [Keys -> Object]
    BY <1>1, <1>4 DEF FolderOff
  <2>2. changed' \in [Copier -> SUBSET Keys]
    BY <1>2, <1>4 DEF FolderOff, KeysOf
  <2>3. keptOut' \subseteq Scope /\ DOMAIN wiped' = Scope
    BY <1>4 DEF FolderOff
  <2>. QED  BY <1>4, <2>1, <2>2, <2>3 DEF FolderOff
<1>5. ASSUME NEW s \in Scope, NEW b \in BOOLEAN, DropBackup(s, b)  PROVE MirrorTypes'
  <2>1. main' \in [Keys -> Object] /\ second' \in [Keys -> Object]
    BY <1>1, <1>5 DEF DropBackup
  <2>2. changed' \in [Copier -> SUBSET Keys]
    BY <1>2, <1>5 DEF DropBackup, KeysOf
  <2>. QED  BY <1>5, <2>1, <2>2 DEF DropBackup
<1>6. ASSUME NEW s \in Scope, FolderOn(s)  PROVE MirrorTypes'
  BY <1>6 DEF FolderOn
<1>. QED  BY <1>3, <1>4, <1>5, <1>6 DEF WorldActs

(***************************************************************************)
(* What a copy to the second store writes, and what it leaves alone.       *)
(***************************************************************************)
LEMMA PutWrites ==
    ASSUME MirrorTypes, NEW r \in Copier, ~reverse[r], PutObject(r)
    PROVE  /\ main' = main /\ phase[r] = "copy" /\ moving[r] # Still
           /\ moving[r].key \in Keys /\ moving[r].ver \in Nat
           /\ moving' = [moving EXCEPT ![r] = Still]
           /\ \/ second' = second /\ time' = time /\ broken'[r]
              \/ /\ second' = [second EXCEPT ![moving[r].key] = [ver |-> moving[r].ver, at |-> time + 1]]
                 /\ time' = time + 1 /\ broken' = broken
<1>1. phase[r] = "copy" /\ moving[r] # Still /\ moving' = [moving EXCEPT ![r] = Still]
  BY DEF PutObject
<1>2. moving[r].key \in Keys /\ moving[r].ver \in Nat
  BY <1>1 DEF MirrorTypes
<1>3. /\ main' = main
      /\ \/ second' = second /\ time' = time /\ broken'[r]
         \/ /\ second' = [second EXCEPT ![moving[r].key] = [ver |-> moving[r].ver, at |-> time + 1]]
            /\ time' = time + 1 /\ broken' = broken
  BY DEF PutObject, SetDst, Dst, storesVars, MirrorTypes
<1>. QED  BY <1>1, <1>2, <1>3

LEMMA BatchWrites ==
    ASSUME MirrorTypes, NEW r \in Copier, ~reverse[r], DeleteBatch(r)
    PROVE  /\ main' = main /\ phase[r] = "copy" /\ moving[r] = Still
           /\ ended[r] \/ copies[r] = {}
           /\ \A k \in Keys : second'[k] = second[k] \/ (k \in deletes[r] /\ second'[k] = Gone)
           /\ \/ ended[r] \/ broken'[r]
              \/ broken' = broken /\ \A k \in deletes[r] : second'[k] = Gone
<1>1. phase[r] = "copy" /\ moving[r] = Still /\ (ended[r] \/ copies[r] = {})
  BY DEF DeleteBatch, DeletesDue
<1>2. CASE ended[r]
  BY <1>1, <1>2 DEF DeleteBatch
<1>3. CASE ~ended[r]
  <2>1. \/ SetDst(r, [k \in Keys |-> IF k \in deletes[r] THEN Gone ELSE Dst(r)[k]]) /\ broken' = broken
        \/ /\ broken'[r]
           /\ \E some \in SUBSET deletes[r] : SetDst(r, [k \in Keys |-> IF k \in some THEN Gone ELSE Dst(r)[k]])
    BY <1>3 DEF DeleteBatch, MirrorTypes
  <2>2. deletes[r] \subseteq Keys
    BY DEF MirrorTypes
  <2>. QED  BY <1>1, <2>1, <2>2 DEF SetDst, Dst
<1>. QED  BY <1>2, <1>3

\* The variables of the other copies stay; no copy changes what a person decides
\* or the history, and one that copies nothing back leaves the first store.
LEMMA CopierAlone ==
    ASSUME MirrorTypes, NEW r \in Copier, CopierActs(r), ~reverse[r]
    PROVE  /\ UNCHANGED <<main, wiped, keptOut>>
           /\ \A q \in Copier \ {r} :
                 /\ phase'[q] = phase[q] /\ reverse'[q] = reverse[q] /\ range'[q] = range[q]
                 /\ srcList'[q] = srcList[q] /\ copies'[q] = copies[q] /\ deletes'[q] = deletes[q]
                 /\ moving'[q] = moving[q] /\ broken'[q] = broken[q] /\ ended'[q] = ended[q]
                 /\ changed'[q] = changed[q]
           /\ ~PutObject(r) /\ ~DeleteBatch(r) => UNCHANGED <<second, time>>
<1>. USE DEF storesVars, pastVars, Goto
<1>. DEFINE Rest == \A q \in Copier \ {r} :
                 /\ phase'[q] = phase[q] /\ reverse'[q] = reverse[q] /\ range'[q] = range[q]
                 /\ srcList'[q] = srcList[q] /\ copies'[q] = copies[q] /\ deletes'[q] = deletes[q]
                 /\ moving'[q] = moving[q] /\ broken'[q] = broken[q] /\ ended'[q] = ended[q]
                 /\ changed'[q] = changed[q]
<1>1. CASE AskMirror(r) \/ StartMirror(r) \/ AutoMirror(r)
  BY <1>1 DEF AskMirror, StartMirror, AutoMirror, Begin, MirrorTypes
<1>2. CASE ListSource(r) \/ PlanCopy(r) \/ ListFails(r) \/ CancelMirror(r)
  BY <1>2 DEF ListSource, PlanCopy, ListFails, CancelMirror, MirrorTypes
<1>3. CASE FinishMirror(r) \/ Killed(r)
  BY <1>3 DEF FinishMirror, Killed, Reset, MirrorTypes
<1>4. ASSUME NEW k \in Keys, GetObject(r, k)  PROVE UNCHANGED <<main, second, time, wiped, keptOut>> /\ Rest
  BY <1>4 DEF GetObject, copyRest, MirrorTypes
<1>5. CASE PutObject(r)
  BY <1>5, PutWrites DEF PutObject, copyRest, MirrorTypes
<1>6. CASE DeleteBatch(r)
  BY <1>6, BatchWrites DEF DeleteBatch, MirrorTypes
<1>. QED  BY <1>1, <1>2, <1>3, <1>4, <1>5, <1>6 DEF CopierActs, RunOf

LEMMA HeldSame ==
    ASSUME NEW s \in Scope, \A k \in Keys : k[1] = s => second'[k] = second[k]
    PROVE  HeldOf(second, s)' = HeldOf(second, s)
BY DEF HeldOf, KeysOf

LEMMA CopierSpares ==
    ASSUME ~CopyBack, MirrorTypes, DeletedInv, NEW r \in Copier, CopierActs(r)
    PROVE  DeletedInv'
<1>. USE DEF DeletedInv
<1>1. ~reverse[r] /\ main' = main /\ wiped' = wiped
  BY CopierAlone DEF NoBackCopies
<1>2. NoBackCopies'
  <2>1. CASE StartMirror(r) \/ AutoMirror(r)
    BY <2>1, MirrorAssumption DEF StartMirror, AutoMirror, Begin, NoBackCopies, MirrorTypes
  <2>2. CASE ~StartMirror(r) /\ ~AutoMirror(r)
    BY <2>2 DEF CopierActs, RunOf, AskMirror, ListSource, PlanCopy, ListFails, PutObject, GetObject, copyRest, DeleteBatch,
                FinishMirror, Killed, Reset, CancelMirror, NoBackCopies
  <2>. QED  BY <2>1, <2>2
<1>3. DeletedBackupStays'
  <2>1. \A k \in Keys : ~Spared(k) => second'[k] = second[k]
    <3>1. CASE PutObject(r)
      <4>1. moving[r] # Still /\ (second' = second \/ \E o : second' = [second EXCEPT ![moving[r].key] = o])
        BY <1>1, <3>1, PutWrites
      <4>2. Spared(moving[r].key) /\ DOMAIN second = Keys
        BY <4>1 DEF OthersOnly, MirrorTypes
      <4>. QED  BY <4>1, <4>2
    <3>2. CASE DeleteBatch(r)
      BY <1>1, <3>2, BatchWrites DEF OthersOnly
    <3>. QED  BY <1>1, <3>1, <3>2, CopierAlone
  <2>2. \A s \in Scope : wiped[s] # {} => HeldOf(second, s)' = HeldOf(second, s)
    BY <2>1, HeldSame DEF Spared
  <2>. QED  BY <1>1, <2>2 DEF DeletedBackupStays
<1>4. OthersOnly'
  <2>. DEFINE Of(q) ==
        /\ phase[q] \in {"destination", "copy"} => \A k \in Keys : srcList[q][k].ver # 0 => Spared(k)
        /\ phase[q] = "copy" => \A k \in copies[q] \cup deletes[q] : Spared(k)
        /\ moving[q] # Still => Spared(moving[q].key)
  <2>1. \A q \in Copier \ {r} : Of(q)'
    <3>. SUFFICES ASSUME NEW q \in Copier \ {r}  PROVE Of(q)'
      OBVIOUS
    <3>1. /\ phase'[q] = phase[q] /\ srcList'[q] = srcList[q] /\ copies'[q] = copies[q]
          /\ deletes'[q] = deletes[q] /\ moving'[q] = moving[q]
      BY <1>1, CopierAlone
    <3>2. Of(q)
      BY DEF OthersOnly
    <3>. QED  BY <1>1, <3>1, <3>2 DEF Spared
  <2>2. Of(r) /\ (phase[r] # "copy" => moving[r] = Still)
    BY DEF OthersOnly, MirrorTypes
  <2>3. Of(r)'
    <3>. USE DEF MirrorTypes, Goto, Spared, pastVars
    <3>1. CASE AskMirror(r) \/ StartMirror(r) \/ AutoMirror(r)
      BY <1>1, <2>2, <3>1 DEF AskMirror, StartMirror, AutoMirror, Begin
    <3>2. CASE ListSource(r)
      BY <1>1, <2>2, <3>2 DEF ListSource, Src, OthersOnly
    <3>3. CASE PlanCopy(r)
      <4>1. /\ \A k \in copies'[r] : k \in Keys /\ srcList[r][k].ver # 0
            /\ \A k \in deletes'[r] : k \in Keys /\ \E j \in Keys : j[1] = k[1] /\ srcList[r][j].ver # 0
        BY <3>3 DEF PlanCopy, Listed, InRange, Alive
      <4>2. phase[r] = "destination" /\ UNCHANGED <<srcList, moving>>
        BY <3>3 DEF PlanCopy
      <4>. QED  BY <1>1, <2>2, <4>1, <4>2
    <3>4. CASE ListFails(r) \/ CancelMirror(r)
      BY <1>1, <2>2, <3>4 DEF ListFails, CancelMirror
    <3>5. ASSUME NEW k \in Keys, GetObject(r, k)  PROVE Of(r)'
      <4>1. /\ phase[r] = "copy" /\ k \in copies[r] /\ copies'[r] \subseteq copies[r]
            /\ UNCHANGED <<phase, deletes, srcList>>
            /\ moving'[r] = Still \/ moving'[r].key = k
        BY <3>5 DEF GetObject, copyRest
      <4>. QED  BY <1>1, <2>2, <4>1
    <3>6. CASE PutObject(r)
      BY <1>1, <2>2, <3>6 DEF PutObject, copyRest
    <3>7. CASE DeleteBatch(r)
      BY <1>1, <2>2, <3>7 DEF DeleteBatch, DeletesDue
    <3>8. CASE FinishMirror(r) \/ Killed(r)
      BY <1>1, <2>2, <3>8 DEF FinishMirror, Killed, Reset
    <3>. QED  BY <3>1, <3>2, <3>3, <3>4, <3>5, <3>6, <3>7, <3>8 DEF CopierActs, RunOf
  <2>. QED  BY <1>1, <2>1, <2>3 DEF OthersOnly, Spared
<1>. QED  BY <1>2, <1>3, <1>4

\* What was wiped stays as it was, or is dropped from the history: of one backup.
LEMMA WorldSpares ==
    ASSUME MirrorTypes, DeletedInv, WorldActs
    PROVE  DeletedInv'
<1>. USE DEF DeletedInv
<1>1. UNCHANGED copierVars
  BY DEF WorldActs, StoreMain, FolderOn, FolderOff, DropBackup
<1>2. NoBackCopies'
  BY <1>1 DEF NoBackCopies, copierVars
<1>3. ASSUME NEW s \in Scope,
             \A t \in Scope \ {s} : wiped'[t] = wiped[t],
             wiped'[s] = {} \/ (wiped'[s] = wiped[s] /\ \A k \in KeysOf(s) : second'[k] = second[k]),
             \A k \in Keys : k[1] # s => second'[k] = second[k],
             \A k \in Keys : k[1] # s \/ wiped'[s] # {} => main'[k] = main[k]
      PROVE  DeletedInv'
  <2>1. \A k \in Keys : Spared(k) => Spared(k)'
    BY <1>3, KeyScope DEF Spared
  <2>2. OthersOnly'
    <3>1. \A k \in Keys : main'[k].ver # 0 => Spared(k)'
      <4>. SUFFICES ASSUME NEW k \in Keys, main'[k].ver # 0  PROVE Spared(k)'
        OBVIOUS
      <4>1. CASE k[1] # s \/ wiped'[s] # {}
        BY <1>3, <2>1, <4>1 DEF OthersOnly
      <4>2. CASE k[1] = s /\ wiped'[s] = {}
        BY <4>2 DEF Spared
      <4>. QED  BY <4>1, <4>2
    <3>2. ASSUME NEW q \in Copier
          PROVE  /\ phase'[q] \in {"destination", "copy"} => \A k \in Keys : srcList'[q][k].ver # 0 => Spared(k)'
                 /\ phase'[q] = "copy" => \A k \in copies'[q] \cup deletes'[q] : Spared(k)'
                 /\ moving'[q] # Still => Spared(moving[q].key)'
      <4>1. copies[q] \cup deletes[q] \subseteq Keys /\ (moving[q] # Still => moving[q].key \in Keys)
        BY DEF MirrorTypes
      <4>2. /\ phase'[q] = phase[q] /\ srcList'[q] = srcList[q] /\ copies'[q] = copies[q]
            /\ deletes'[q] = deletes[q] /\ moving'[q] = moving[q]
        BY <1>1 DEF copierVars
      <4>3. moving[q] # Still => Spared(moving[q].key)'
        BY <2>1, <4>1, <4>2 DEF OthersOnly, Spared
      <4>. QED  BY <2>1, <4>1, <4>2, <4>3 DEF OthersOnly
    <3>. QED  BY <3>1, <3>2 DEF OthersOnly
  <2>3. DeletedBackupStays'
    <3>1. \A t \in Scope : t # s \/ wiped'[t] # {} => wiped'[t] = wiped[t] /\ HeldOf(second, t)' = HeldOf(second, t)
      <4>. SUFFICES ASSUME NEW t \in Scope, t # s \/ wiped'[t] # {}
                    PROVE  wiped'[t] = wiped[t] /\ HeldOf(second, t)' = HeldOf(second, t)
        OBVIOUS
      <4>1. wiped'[t] = wiped[t] /\ \A k \in Keys : k[1] = t => second'[k] = second[k]
        BY <1>3 DEF KeysOf
      <4>. QED  BY <4>1, HeldSame
    <3>. QED  BY <3>1 DEF DeletedBackupStays
  <2>. QED  BY <1>2, <2>2, <2>3
<1>4. ASSUME NEW k \in Keys, StoreMain(k)  PROVE DeletedInv'
  <2>1. k[1] \in Scope /\ second' = second /\ wiped' = [wiped EXCEPT ![k[1]] = {}]
        /\ \E o : main' = [main EXCEPT ![k] = o]
    BY <1>4, KeyScope DEF StoreMain
  <2>. QED  BY <1>3, <2>1 DEF MirrorTypes
<1>5. ASSUME NEW s \in Scope, NEW b \in BOOLEAN, FolderOff(s, b)  PROVE DeletedInv'
  <2>1. main' = main
        /\ \/ UNCHANGED <<second, wiped>>
           \/ second' = [k \in Keys |-> IF k[1] = s THEN Gone ELSE second[k]] /\ wiped' = [wiped EXCEPT ![s] = {}]
    BY <1>5 DEF FolderOff
  <2>. QED  BY <1>3, <2>1 DEF MirrorTypes
<1>6. ASSUME NEW s \in Scope, FolderOn(s)  PROVE DeletedInv'
  BY <1>3, <1>6 DEF FolderOn, storesVars, pastVars
<1>7. ASSUME NEW s \in Scope, NEW b \in BOOLEAN, DropBackup(s, b)  PROVE DeletedInv'
  <2>1. main' = [k \in Keys |-> IF k[1] = s THEN Gone ELSE main[k]]
    BY <1>7 DEF DropBackup
  <2>2. CASE b \/ Busy # {}
    <3>1. wiped' = [wiped EXCEPT ![s] = {}]
      BY <1>7, <2>2 DEF DropBackup
    <3>2. \A k \in Keys : k[1] # s => second'[k] = second[k]
      BY <1>7 DEF DropBackup
    <3>. QED  BY <1>3, <2>1, <3>1, <3>2 DEF MirrorTypes
  <2>3. CASE ~b /\ Busy = {}
    <3>1. wiped' = [wiped EXCEPT ![s] = HeldOf(second, s)] /\ second' = second
      BY <1>7, <2>3 DEF DropBackup
    <3>2. \A q \in Copier : phase[q] \in {"idle", "asked"} /\ moving[q] = Still
      BY <2>3 DEF Busy, MirrorTypes
    <3>3. \A k \in Keys : main'[k].ver # 0 => Spared(k)'
      BY <2>1, <3>1 DEF OthersOnly, Spared, MirrorTypes, Gone
    <3>4. OthersOnly'
      BY <1>1, <3>2, <3>3 DEF OthersOnly, copierVars
    <3>5. DeletedBackupStays'
      BY <3>1 DEF DeletedBackupStays, MirrorTypes
    <3>. QED  BY <1>2, <3>4, <3>5
  <2>. QED  BY <2>2, <2>3
<1>. QED  BY <1>4, <1>5, <1>6, <1>7 DEF WorldActs

LEMMA MirrorKinds == MirrorNext => (\E r \in Copier : CopierActs(r)) \/ WorldActs
BY Zenon DEF MirrorNext, CopierActs, WorldActs

LEMMA MirrorTypesHold == MirrorTypes /\ [MirrorNext]_mirrorVars => MirrorTypes'
<1>. SUFFICES ASSUME MirrorTypes, [MirrorNext]_mirrorVars  PROVE MirrorTypes'
  OBVIOUS
<1>1. CASE UNCHANGED mirrorVars
  BY <1>1 DEF mirrorVars, storesVars, copierVars, pastVars, boundVars, MirrorTypes
<1>2. CASE MirrorNext
  BY <1>2, MirrorKinds, CopierKeepsTypes, WorldKeepsTypes
<1>. QED  BY <1>1, <1>2

\* Stores, listings, plans and what is on its way are objects and keys of backups,
\* for any backups and copies (mirror.Run, startMirror).
THEOREM MirrorKeepsTypes == MirrorSpec => []MirrorTypeOK
<1>1. MirrorTypes => MirrorTypeOK
  BY DEF MirrorTypes, MirrorTypeOK, Phases
<1>. QED  BY <1>1, MirrorStarts, MirrorTypesHold, PTL DEF MirrorSpec, MirrorInv

\* Of a backup deleted from where backups go, the second copy keeps all it had,
\* however many copies run after that, and with whatever else is stored and
\* dropped: as long as none copies back (plan of mirror.Run).
THEOREM DeletedIsKept ==
    ASSUME ~CopyBack
    PROVE  MirrorSpec => []DeletedBackupStays
<1>1. MirrorTypes /\ DeletedInv /\ [MirrorNext]_mirrorVars => DeletedInv'
  <2>. SUFFICES ASSUME MirrorTypes, DeletedInv, [MirrorNext]_mirrorVars  PROVE DeletedInv'
    OBVIOUS
  <2>1. CASE UNCHANGED mirrorVars
    BY <2>1 DEF mirrorVars, storesVars, copierVars, pastVars, DeletedInv, NoBackCopies, OthersOnly, Spared,
                DeletedBackupStays, HeldOf
  <2>2. CASE MirrorNext
    BY <2>2, MirrorKinds, CopierSpares, WorldSpares
  <2>. QED  BY <2>1, <2>2
<1>2. DeletedInv => DeletedBackupStays
  BY DEF DeletedInv
<1>. QED  BY <1>1, <1>2, MirrorStarts, MirrorTypesHold, PTL DEF MirrorSpec, MirrorInv

(***************************************************************************)
(* The times a listing shows tell versions apart.                          *)
(***************************************************************************)
LEMMA CopierTells ==
    ASSUME MirrorTypes, DeletedInv, TimesTell, NEW r \in Copier, CopierActs(r)
    PROVE  TimesTell'
<1>1. ~reverse[r] /\ main' = main /\ \A q \in Copier \ {r} : moving'[q] = moving[q]
  BY CopierAlone DEF DeletedInv, NoBackCopies
<1>2. \A k \in Keys : main[k].at \in Nat /\ second[k].at \in Nat /\ time \in Nat
  BY DEF MirrorTypes, Object
<1>3. moving'[r] # Still => moving'[r].ver = main[moving'[r].key].ver /\ moving'[r].ver # 0
  <2>1. ASSUME NEW k \in Keys, GetObject(r, k)
        PROVE  moving'[r] # Still => moving'[r].ver = main[moving'[r].key].ver /\ moving'[r].ver # 0
    <3>1. moving'[r] = moving[r] \/ (moving'[r] = [key |-> k, ver |-> main[k].ver] /\ main[k].ver # 0)
      BY <1>1, <2>1 DEF GetObject, Src, MirrorTypes
    <3>2. moving[r] = Still
      BY <2>1 DEF GetObject
    <3>. QED  BY <3>1, <3>2
  <2>2. CASE FinishMirror(r) \/ Killed(r) \/ PutObject(r)
    BY <2>2 DEF FinishMirror, Killed, Reset, PutObject, MirrorTypes
  <2>3. (~\E k \in Keys : GetObject(r, k)) /\ ~FinishMirror(r) /\ ~Killed(r) /\ ~PutObject(r) => moving' = moving
    BY DEF CopierActs, RunOf, AskMirror, StartMirror, AutoMirror, Begin, ListSource, PlanCopy, ListFails, DeleteBatch, CancelMirror
  <2>. QED  BY <2>1, <2>2, <2>3 DEF TimesTell
<1>4. \A q \in Copier : moving'[q] # Still => moving'[q].ver = main'[moving'[q].key].ver /\ moving'[q].ver # 0
  BY <1>1, <1>3 DEF TimesTell
<1>5. /\ \A k \in Keys : main'[k].at <= time' /\ second'[k].at <= time'
      /\ \A k \in Keys : main'[k].ver # 0 /\ second'[k].ver # 0 /\ main'[k].at <= second'[k].at
            => main'[k].ver = second'[k].ver
  <2>1. CASE PutObject(r)
    <3>1. moving[r].key \in Keys /\ moving[r].ver = main[moving[r].key].ver
      BY <1>1, <2>1, PutWrites DEF TimesTell
    <3>2. CASE second' = second /\ time' = time
      BY <1>1, <3>2 DEF TimesTell
    <3>3. CASE second' = [second EXCEPT ![moving[r].key] = [ver |-> moving[r].ver, at |-> time + 1]] /\ time' = time + 1
      <4>. DEFINE k0 == moving[r].key
      <4>1. second'[k0].ver = main[k0].ver /\ second'[k0].at = time + 1 /\ \A k \in Keys \ {k0} : second'[k] = second[k]
        BY <3>1, <3>3 DEF MirrorTypes
      <4>2. \A k \in Keys : main'[k].at <= time' /\ second'[k].at <= time'
        BY <1>1, <1>2, <3>3, <4>1 DEF TimesTell
      <4>. QED  BY <1>1, <4>1, <4>2 DEF TimesTell
    <3>. QED  BY <1>1, <2>1, <3>2, <3>3, PutWrites
  <2>2. CASE DeleteBatch(r)
    <3>1. time' = time /\ \A k \in Keys : second'[k] = second[k] \/ second'[k] = Gone
      BY <1>1, <2>2, BatchWrites DEF DeleteBatch
    <3>. QED  BY <1>1, <1>2, <3>1 DEF TimesTell, Gone
  <2>3. CASE ~PutObject(r) /\ ~DeleteBatch(r)
    BY <1>1, <2>3, CopierAlone DEF TimesTell
  <2>. QED  BY <2>1, <2>2, <2>3
<1>. QED  BY <1>4, <1>5 DEF TimesTell

LEMMA WorldTells ==
    ASSUME ~BusyCopies, MirrorTypes, TimesTell, WorldActs
    PROVE  TimesTell'
<1>1. UNCHANGED copierVars
  BY DEF WorldActs, StoreMain, FolderOn, FolderOff, DropBackup
<1>2. \A k \in Keys : main[k].at \in Nat /\ second[k].at \in Nat /\ time \in Nat
  BY DEF MirrorTypes, Object
\* Of each file, either store has what it had, or nothing, or the first has
\* something new that is on its way to nowhere.
<1>. DEFINE New(k) == main'[k].at = time + 1 /\ time' = time + 1 /\ second' = second
            Still2(k) == main'[k] = main[k] /\ (second'[k] = second[k] \/ second'[k] = Gone)
<1>3. /\ time' \in {time, time + 1}
      /\ \A k \in Keys : \/ Still2(k)
                         \/ Quiet(k) /\ (New(k) \/ (main'[k] = Gone /\ (second'[k] = second[k] \/ second'[k] = Gone)))
  <2>1. ASSUME NEW k \in Keys, StoreMain(k)  PROVE <1>3!:
    BY <2>1 DEF StoreMain, MirrorTypes
  <2>2. ASSUME NEW s \in Scope, NEW b \in BOOLEAN, FolderOff(s, b)  PROVE <1>3!:
    BY <2>2 DEF FolderOff, MirrorTypes
  <2>3. ASSUME NEW s \in Scope, NEW b \in BOOLEAN, DropBackup(s, b)  PROVE <1>3!:
    BY <2>3 DEF DropBackup, MirrorTypes, KeysOf
  <2>4. ASSUME NEW s \in Scope, FolderOn(s)  PROVE <1>3!:
    BY <2>4 DEF FolderOn, storesVars
  <2>. QED  BY <2>1, <2>2, <2>3, <2>4 DEF WorldActs
<1>4. \A q \in Copier : moving[q] # Still => main'[moving[q].key] = main[moving[q].key]
  BY <1>3 DEF Quiet, MirrorTypes
<1>5. \A k \in Keys : /\ main'[k].at <= time' /\ second'[k].at <= time'
                      /\ main'[k].ver # 0 /\ second'[k].ver # 0 /\ main'[k].at <= second'[k].at
                            => main'[k].ver = second'[k].ver
  BY <1>2, <1>3 DEF TimesTell, Gone
<1>. QED  BY <1>1, <1>4, <1>5 DEF TimesTell, copierVars

(***************************************************************************)
(* A copy that was alone.                                                  *)
(***************************************************************************)
Begins(r) == StartMirror(r) \/ AutoMirror(r)

LEMMA BeginsFresh ==
    ASSUME MirrorTypes, NEW r \in Copier, Begins(r)
    PROVE  /\ phase[r] \notin Stepping /\ phase' = [phase EXCEPT ![r] = "source"]
           /\ alone'[r] => \A q \in Copier : phase[q] \notin Stepping
           /\ \A q \in Copier \ {r} : alone'[q] => alone[q] /\ phase[q] \notin Stepping
<1>1. phase[r] \in {"asked", "idle"} /\ \E back \in {FALSE, CopyBack} : Begin(r, back)
  BY DEF Begins, StartMirror, AutoMirror
<1>2. /\ phase' = [phase EXCEPT ![r] = "source"]
      /\ alone' = [q \in Copier |-> IF q = r THEN Busy = {} ELSE alone[q] /\ q \notin Busy]
  BY <1>1 DEF Begin, Goto
<1>3. alone'[r] = (Busy = {}) /\ \A q \in Copier \ {r} : alone'[q] = (alone[q] /\ q \notin Busy)
  BY <1>2
<1>4. \A q \in Copier : q \in Busy <=> phase[q] \in Stepping
  BY DEF Busy, Stepping, MirrorTypes, Phases
<1>5. alone'[r] => \A q \in Copier : phase[q] \notin Stepping
  BY <1>3, <1>4
<1>6. \A q \in Copier \ {r} : alone'[q] => alone[q] /\ phase[q] \notin Stepping
  BY <1>3, <1>4
<1>. QED  BY <1>1, <1>2, <1>5, <1>6 DEF Stepping

LEMMA OthersRun ==
    ASSUME MirrorTypes, NEW r \in Copier, CopierActs(r), ~Begins(r)
    PROVE  /\ alone' = alone
           /\ phase'[r] \in Stepping => phase[r] \in Stepping
           /\ UNCHANGED <<reverse, range>>
<1>. USE DEF pastVars, Goto, Stepping, MirrorTypes, Phases
<1>1. CASE AskMirror(r)
  BY <1>1 DEF AskMirror
<1>2. CASE ListSource(r) \/ PlanCopy(r) \/ ListFails(r) \/ CancelMirror(r)
  BY <1>2 DEF ListSource, PlanCopy, ListFails, CancelMirror
<1>3. ASSUME NEW k \in Keys, GetObject(r, k)
      PROVE  alone' = alone /\ phase' = phase /\ phase[r] \in Stepping /\ UNCHANGED <<reverse, range>>
  BY <1>3 DEF GetObject, copyRest
<1>4. CASE PutObject(r)
  BY <1>4 DEF PutObject, copyRest
<1>5. CASE DeleteBatch(r)
  BY <1>5 DEF DeleteBatch, DeletesDue
<1>6. CASE FinishMirror(r) \/ Killed(r)
  <2>1. Reset(r)
    BY <1>6 DEF FinishMirror, Killed
  <2>2. phase'[r] = "idle" /\ alone' = alone /\ UNCHANGED <<reverse, range>>
    BY <2>1 DEF Reset
  <2>. QED  BY <2>2
<1>. QED  BY <1>1, <1>2, <1>3, <1>4, <1>5, <1>6 DEF CopierActs, RunOf, Begins

LEMMA AloneKept ==
    ASSUME MirrorTypes, DeletedInv, AloneIsAlone, NEW r \in Copier, CopierActs(r)
    PROVE  AloneIsAlone'
<1>1. \A q \in Copier \ {r} : phase'[q] = phase[q]
  BY CopierAlone DEF DeletedInv, NoBackCopies
<1>2. CASE Begins(r)
  BY <1>1, <1>2, BeginsFresh DEF AloneIsAlone
<1>3. CASE ~Begins(r)
  BY <1>1, <1>3, OthersRun DEF AloneIsAlone
<1>. QED  BY <1>2, <1>3

\* What a copy knows lasts while nothing it has not been told of changes.
LEMMA ExactLasts ==
    ASSUME MirrorTypes, NEW q \in Copier, Exact(q),
           /\ phase'[q] = phase[q] /\ range'[q] = range[q] /\ srcList'[q] = srcList[q]
           /\ copies'[q] = copies[q] /\ deletes'[q] = deletes[q] /\ moving'[q] = moving[q]
           /\ broken'[q] = broken[q] /\ ended'[q] = ended[q] /\ changed[q] \subseteq changed'[q]
           /\ alone'[q] => alone[q],
           \/ phase[q] \notin Stepping \/ ~alone'[q]
           \/ \A k \in Keys \ changed'[q] : main'[k] = main[k] /\ second'[k] = second[k]
    PROVE  Exact(q)'
<1>1. CASE phase[q] \notin Stepping \/ ~alone'[q]
  BY <1>1 DEF Exact, Sound, Stepping
<1>2. CASE \A k \in Keys \ changed'[q] : main'[k] = main[k] /\ second'[k] = second[k]
  <2>1. InRange(q)' = InRange(q) /\ Alive(q)' = Alive(q) /\ (Sound(q)' => Sound(q)) /\ InRange(q) \subseteq Keys
    BY DEF InRange, Alive, Listed, Sound
  <2>. QED  BY <1>2, <2>1 DEF Exact
<1>. QED  BY <1>1, <1>2

LEMMA OthersExact ==
    ASSUME MirrorTypes, DeletedInv, AloneIsAlone, NEW r \in Copier, CopierActs(r),
           NEW q \in Copier \ {r}, Exact(q)
    PROVE  Exact(q)'
<1>1. ~reverse[r]
  BY DEF DeletedInv, NoBackCopies
<1>2. /\ phase'[q] = phase[q] /\ range'[q] = range[q] /\ srcList'[q] = srcList[q]
      /\ copies'[q] = copies[q] /\ deletes'[q] = deletes[q] /\ moving'[q] = moving[q]
      /\ broken'[q] = broken[q] /\ ended'[q] = ended[q] /\ changed'[q] = changed[q]
      /\ main' = main /\ (~PutObject(r) /\ ~DeleteBatch(r) => second' = second)
  BY <1>1, CopierAlone
<1>3. alone'[q] => alone[q]
  BY BeginsFresh, OthersRun
<1>4. PutObject(r) \/ DeleteBatch(r) => phase[r] = "copy"
  BY <1>1, PutWrites, BatchWrites
<1>5. PutObject(r) \/ DeleteBatch(r) => phase[q] \notin Stepping \/ ~alone'[q]
  BY <1>3, <1>4 DEF AloneIsAlone, Stepping
<1>. QED  BY <1>2, <1>3, <1>5, ExactLasts

LEMMA OwnExact ==
    ASSUME MirrorTypes, DeletedInv, TimesTell, NEW r \in Copier, CopierActs(r), Exact(r)
    PROVE  Exact(r)'
<1>. USE DEF MirrorTypes, Goto, pastVars
<1>1. ~reverse[r] /\ main' = main
  BY CopierAlone DEF DeletedInv, NoBackCopies
<1>2. CASE AskMirror(r) \/ StartMirror(r) \/ AutoMirror(r)
  <2>1. phase'[r] \in {"asked", "source"}
    BY <1>2 DEF AskMirror, StartMirror, AutoMirror, Begin
  <2>. QED  BY <2>1 DEF Exact
<1>3. CASE FinishMirror(r) \/ Killed(r)
  <2>1. phase'[r] = "idle"
    BY <1>3 DEF FinishMirror, Killed, Reset
  <2>. QED  BY <2>1 DEF Exact
<1>4. CASE ListFails(r) \/ CancelMirror(r)
  <2>1. broken'[r] \/ ended'[r]
    BY <1>4 DEF ListFails, CancelMirror
  <2>. QED  BY <2>1 DEF Exact, Sound
<1>5. CASE ListSource(r)
  <2>1. phase'[r] = "destination" /\ srcList'[r] = main
    BY <1>1, <1>5 DEF ListSource, Src
  <2>. QED  BY <1>1, <2>1 DEF Exact
<1>6. CASE PlanCopy(r)
  <2>1. /\ phase[r] = "destination" /\ phase'[r] = "copy" /\ UNCHANGED <<second, srcList, broken, ended, alone, changed, moving>>
        /\ copies'[r] = {k \in Listed(r, srcList[r]) : Stale(srcList[r][k], second[k])}
        /\ deletes'[r] = {k \in Listed(r, second) : srcList[r][k].ver = 0 /\ k[1] \in Alive(r)}
        /\ range' = range
    BY <1>1, <1>6 DEF PlanCopy, Dst, storesVars
  <2>2. InRange(r)' = InRange(r) /\ Alive(r)' = Alive(r) /\ (Sound(r)' <=> Sound(r)) /\ InRange(r) \subseteq Keys
    BY <2>1 DEF InRange, Alive, Listed, Sound
  <2>3. ASSUME Sound(r), NEW k \in InRange(r) \ changed[r]
        PROVE  k \in copies'[r] \/ second[k].ver = srcList[r][k].ver \/ k \in deletes'[r] \/ k[1] \notin Alive(r)
    <3>1. k \in Keys /\ main[k] = srcList[r][k]
      BY <2>1, <2>2, <2>3 DEF Exact
    <3>2. CASE srcList[r][k].ver = 0
      BY <2>1, <3>2 DEF Listed
    <3>3. CASE srcList[r][k].ver # 0 /\ Stale(srcList[r][k], second[k])
      BY <2>1, <3>3 DEF Listed
    <3>4. CASE srcList[r][k].ver # 0 /\ ~Stale(srcList[r][k], second[k])
      <4>1. second[k].ver # 0 /\ ~(main[k].at > second[k].at) /\ main[k].at \in Nat /\ second[k].at \in Nat
        BY <3>1, <3>4 DEF Stale, Object
      <4>2. main[k].ver # 0 /\ main[k].at <= second[k].at
        BY <3>1, <3>4, <4>1
      <4>3. main[k].ver = second[k].ver
        BY <3>1, <4>1, <4>2 DEF TimesTell
      <4>. QED  BY <3>1, <4>3
    <3>. QED  BY <3>2, <3>3, <3>4
  <2>4. \A k \in deletes'[r] : srcList[r][k].ver = 0
    BY <2>1
  <2>. QED  BY <1>1, <2>1, <2>2, <2>3, <2>4 DEF Exact
<1>7. ASSUME NEW k \in Keys, GetObject(r, k)  PROVE Exact(r)'
  <2>1. /\ phase[r] = "copy" /\ moving[r] = Still /\ copies'[r] = copies[r] \ {k}
        /\ UNCHANGED <<second, phase, range, srcList, deletes, ended, changed, alone>>
        /\ broken'[r] \/ (broken' = broken /\ moving'[r] = [key |-> k, ver |-> Src(r)[k].ver] /\ Src(r)[k].ver # 0)
    BY <1>7 DEF GetObject, copyRest, storesVars
  <2>2. InRange(r)' = InRange(r) /\ Alive(r)' = Alive(r) /\ InRange(r) \subseteq Keys
    BY <2>1 DEF InRange, Alive, Listed
  <2>3. CASE broken'[r]
    BY <2>3 DEF Exact, Sound
  <2>4. CASE broken' = broken /\ moving'[r] = [key |-> k, ver |-> Src(r)[k].ver] /\ Src(r)[k].ver # 0
    <3>1. moving'[r] # Still /\ moving'[r].key = k
      BY <1>1, <2>4 DEF Still
    <3>. QED  BY <1>1, <2>1, <2>2, <2>4, <3>1 DEF Exact, Sound
  <2>. QED  BY <2>1, <2>3, <2>4
<1>8. CASE PutObject(r)
  <2>1. /\ phase[r] = "copy" /\ moving'[r] = Still /\ moving[r] # Still /\ moving[r].key \in Keys
        /\ UNCHANGED <<phase, range, srcList, copies, deletes, ended, changed, alone>>
    BY <1>1, <1>8, PutWrites DEF PutObject, copyRest
  <2>2. InRange(r)' = InRange(r) /\ Alive(r)' = Alive(r) /\ InRange(r) \subseteq Keys
    BY <2>1 DEF InRange, Alive, Listed
  <2>3. CASE broken'[r]
    BY <2>3 DEF Exact, Sound
  <2>4. CASE second' = [second EXCEPT ![moving[r].key] = [ver |-> moving[r].ver, at |-> time + 1]] /\ broken' = broken
    <3>1. second'[moving[r].key].ver = main[moving[r].key].ver /\ \A k \in Keys \ {moving[r].key} : second'[k] = second[k]
      BY <2>1, <2>4 DEF TimesTell
    <3>. QED  BY <1>1, <2>1, <2>2, <2>4, <3>1 DEF Exact, Sound
  <2>. QED  BY <1>1, <1>8, <2>3, <2>4, PutWrites
<1>9. CASE DeleteBatch(r)
  <2>1. /\ phase[r] = "copy" /\ phase'[r] = "end" /\ moving[r] = Still
        /\ UNCHANGED <<range, srcList, copies, deletes, moving, ended, changed, alone>>
    BY <1>9 DEF DeleteBatch, DeletesDue
  <2>2. InRange(r)' = InRange(r) /\ Alive(r)' = Alive(r) /\ InRange(r) \subseteq Keys
    BY <2>1 DEF InRange, Alive, Listed
  <2>3. CASE ended[r] \/ broken'[r]
    BY <2>1, <2>3 DEF Exact, Sound
  <2>4. CASE ~ended[r] /\ broken' = broken /\ \A k \in deletes[r] : second'[k] = Gone
    <3>1. copies[r] = {} /\ \A k \in Keys : second'[k] = second[k] \/ k \in deletes[r]
      BY <1>1, <1>9, <2>4, BatchWrites
    <3>2. Sound(r)' <=> Sound(r)
      BY <2>1, <2>4 DEF Sound
    <3>3. ASSUME Sound(r), NEW k \in InRange(r) \ changed[r], k[1] \in Alive(r)  PROVE second'[k].ver = main[k].ver
      <4>1. k \in Keys /\ main[k] = srcList[r][k]
        BY <2>1, <2>2, <3>3 DEF Exact
      <4>2. CASE k \in deletes[r]
        BY <2>1, <2>4, <3>3, <4>1, <4>2 DEF Exact, Gone
      <4>3. CASE k \notin deletes[r]
        BY <2>1, <3>1, <3>3, <4>1, <4>3 DEF Exact
      <4>. QED  BY <4>2, <4>3
    <3>4. Sound(r) => \A k \in Keys \ changed[r] : main[k] = srcList[r][k]
      BY <2>1 DEF Exact
    <3>. QED  BY <1>1, <2>1, <2>2, <3>2, <3>3, <3>4 DEF Exact
  <2>. QED  BY <1>1, <1>9, <2>3, <2>4, BatchWrites
<1>. QED  BY <1>2, <1>3, <1>4, <1>5, <1>6, <1>7, <1>8, <1>9 DEF CopierActs, RunOf

LEMMA WorldExact ==
    ASSUME MirrorTypes, WorldActs, NEW q \in Copier, Exact(q)
    PROVE  Exact(q)'
<1>1. UNCHANGED <<copierVars, alone>>
  BY DEF WorldActs, StoreMain, FolderOn, FolderOff, DropBackup, pastVars
<1>. DEFINE Told == /\ changed[q] \subseteq changed'[q]
                    /\ \A k \in Keys \ changed'[q] : main'[k] = main[k] /\ second'[k] = second[k]
<1>2. Told
  <2>0. \A ks : Touch(ks) => changed'[q] = changed[q] \cup ks
    BY DEF Touch
  <2>1. ASSUME NEW k \in Keys, StoreMain(k)  PROVE Told
    BY <2>0, <2>1 DEF StoreMain, MirrorTypes
  <2>2. ASSUME NEW s \in Scope, NEW b \in BOOLEAN, FolderOff(s, b)  PROVE Told
    BY <2>0, <2>2 DEF FolderOff, MirrorTypes, KeysOf
  <2>3. ASSUME NEW s \in Scope, NEW b \in BOOLEAN, DropBackup(s, b)  PROVE Told
    BY <2>0, <2>3 DEF DropBackup, MirrorTypes, KeysOf
  <2>4. ASSUME NEW s \in Scope, FolderOn(s)  PROVE Told
    BY <2>4 DEF FolderOn, storesVars, pastVars
  <2>. QED  BY <2>1, <2>2, <2>3, <2>4 DEF WorldActs
<1>. QED  BY <1>1, <1>2, ExactLasts DEF copierVars

\* A copy that met no failure, no stop and no other copy ends with the second
\* store as the first, in every file not written meanwhile of every backup there
\* is: when no source object changes while its bytes are on their way, and none
\* are copied back (mirror.Run).
THEOREM CopiesAreExact ==
    ASSUME ~CopyBack, ~BusyCopies
    PROVE  MirrorSpec => []CopyIsExact
<1>1. MirrorInv /\ [MirrorNext]_mirrorVars => MirrorInv'
  <2>. SUFFICES ASSUME MirrorInv, [MirrorNext]_mirrorVars  PROVE MirrorInv'
    OBVIOUS
  <2>. USE DEF MirrorInv, ExactInv
  <2>1. CASE UNCHANGED mirrorVars
    <3>. USE <2>1 DEF mirrorVars, storesVars, copierVars, pastVars
    <3>1. MirrorTypes'
      BY MirrorTypesHold
    <3>2. DeletedInv'
      BY DEF DeletedInv, NoBackCopies, OthersOnly, Spared, DeletedBackupStays, HeldOf
    <3>3. TimesTell' /\ AloneIsAlone'
      BY DEF TimesTell, AloneIsAlone
    <3>4. ASSUME NEW r \in Copier  PROVE Exact(r)'
      <4>1. InRange(r)' = InRange(r) /\ Alive(r)' = Alive(r) /\ (Sound(r)' <=> Sound(r))
        BY DEF InRange, Alive, Listed, Sound
      <4>2. Exact(r)
        OBVIOUS
      <4>. QED  BY <4>1, <4>2 DEF Exact
    <3>. QED  BY <3>1, <3>2, <3>3, <3>4
  <2>2. ASSUME NEW r \in Copier, CopierActs(r)  PROVE MirrorInv'
    BY <2>2, CopierKeepsTypes, CopierSpares, CopierTells, AloneKept, OthersExact, OwnExact
  <2>3. CASE WorldActs
    <3>1. AloneIsAlone'
      BY <2>3 DEF AloneIsAlone, WorldActs, StoreMain, FolderOn, FolderOff, DropBackup, copierVars, pastVars
    <3>. QED  BY <2>3, <3>1, WorldKeepsTypes, WorldSpares, WorldTells, WorldExact
  <2>. QED  BY <2>1, <2>2, <2>3, MirrorKinds
<1>2. MirrorInv => CopyIsExact
  BY DEF MirrorInv, ExactInv, Exact, Sound, CopyIsExact
<1>. QED  BY <1>1, <1>2, MirrorStarts, PTL DEF MirrorSpec

(***************************************************************************)
(* Restoring: types.  A version in the trash is at its own second of its   *)
(* own day.                                                                *)
(***************************************************************************)
Entry == [kind : {"none", "file", "link"}, ver : Nat, whole : BOOLEAN]
FetchSteps == {"get", "copy", "place", "verify", "unlink", "link"}
StampOf(p, v) == Stamp(p, IF v = 1 THEN 1 ELSE 0, v)
StorageTypes ==
    /\ stored \in [Path -> Nat] /\ stores \in Nat
    /\ \A p \in Path : stored[p] = 0 \/ stored[p] \in 3..(stores + 3)
    /\ \A b \in binned : \E p \in Path, v \in 1..(stores + 3) : b = StampOf(p, v)
JobTypes ==
    /\ job \in [phase : {"none", "list", "fetch", "ok", "error", "stopped"}, over : BOOLEAN, deleted : BOOLEAN]
    /\ listing \subseteq Path /\ picked \subseteq Path /\ wanted \subseteq Path
    /\ job.phase = "list" /\ job.deleted => \E p \in Path : picked = {p}
    /\ stop \in BOOLEAN /\ newest \in Nat /\ slips \in Nat /\ kills \in Nat
    /\ results \in [skipped : SUBSET Path, restored : SUBSET Path, failed : SUBSET Path, mismatched : SUBSET Path]
FetchTypes ==
    /\ disk \in [Path -> Entry] /\ before \in [Path -> Entry]
    /\ temps \subseteq [owner : Fetcher \cup {Absent}, path : Path, whole : BOOLEAN]
    /\ jobs \subseteq [p : Path, ver : Nat]
    /\ fetching \in [Fetcher -> [p : Path, step : FetchSteps] \cup {Idle}]
    /\ got \in [Fetcher -> Nat]
RestoreTypes == StorageTypes /\ JobTypes /\ FetchTypes

(***************************************************************************)
(* One at a path.  Each path of a restore waits, is at one worker or is    *)
(* reported, once; and a temporary file is its worker's, or was left by a  *)
(* process that died.                                                      *)
(***************************************************************************)
BusyAt(w) == fetching[w].step # "idle"
Reported == results.skipped \cup results.restored \cup results.failed \cup results.mismatched
OneAtPath ==
    /\ \A i, j \in jobs : i.p = j.p => i = j
    /\ \A w, x \in Fetcher : BusyAt(w) /\ BusyAt(x) /\ fetching[w].p = fetching[x].p => w = x
    /\ \A j \in jobs, w \in Fetcher : BusyAt(w) => j.p # fetching[w].p
    /\ \A j \in jobs : j.p \notin Reported
    /\ \A w \in Fetcher : BusyAt(w) => fetching[w].p \notin Reported
    /\ job.phase # "fetch" => jobs = {} /\ \A w \in Fetcher : ~BusyAt(w)
    /\ job.phase = "list" => Reported = {}
TempsOwned ==
    /\ \A t, u \in temps : t.owner = u.owner /\ t.owner # Absent => t = u
    /\ \A t \in temps : t.owner = Absent => kills # 0
    /\ \A t \in temps : t.owner # Absent => fetching[t.owner].step \in {"copy", "place"}
    /\ \A w \in Fetcher : fetching[w].step = "place" => \E t \in temps : t.owner = w /\ t.whole

(***************************************************************************)
(* What lies there.  Until its worker puts a path in place it is as the    *)
(* plan met it, and then it is what the worker brought, but for what       *)
(* others do meanwhile.                                                    *)
(***************************************************************************)
AsMet(p) == p \in touched \/ disk[p] = before[p]
WorkerKeeps(w) ==
    LET p == fetching[w].p
        s == fetching[w].step
    IN /\ s \in {"get", "copy", "place", "unlink"} => AsMet(p)
       /\ s = "verify" => p \in touched \/ disk[p] = Put(p, got[w])
       /\ s \in {"unlink", "link"} => p \in Links
       /\ s = "link" => p \in touched \/ disk[p].whole
       /\ s \notin {"idle", "get"} => got[w] # 0
       /\ s # "idle" /\ job.deleted => got[w] = newest
JobKeeps(j) == AsMet(j.p) /\ (job.deleted => j.ver = newest)
RestoredHere(p) == p \in touched \/ (disk[p].ver # 0 /\ (job.deleted => disk[p].ver = newest))
Underway == Reported \cup {j.p : j \in jobs} \cup {fetching[w].p : w \in {x \in Fetcher : BusyAt(x)}}
RestoreInv ==
    /\ RestoreTypes /\ OneAtPath /\ TempsOwned /\ OwnFilesKept /\ SuccessIsComplete
    /\ \A w \in Fetcher : WorkerKeeps(w)
    /\ \A j \in jobs : JobKeeps(j)
    /\ \A p \in results.restored : RestoredHere(p)
    /\ job.phase = "fetch" /\ ~stop => wanted \subseteq Underway
    /\ job.phase = "fetch" /\ job.deleted => picked = wanted

\* Of the versions in the trash of a path one is the latest, by its day and its
\* second as by the order they were stored in: the one findInTrash finds.
LEMMA LatestTrashed ==
    ASSUME StorageTypes, NEW p \in Path, Versions(p) # {}
    PROVE  \E b \in Versions(p) :
              /\ findInTrash(p) = b /\ b.ver \in Nat \ {0}
              /\ (CHOOSE x \in Versions(p) : \A c \in Versions(p) : c.ver <= x.ver) = b
<1>1. \A c \in Versions(p) : c.ver \in 1..(stores + 3) /\ c = StampOf(p, c.ver) /\ c.day = c.ver
  BY DEF StorageTypes, Versions, StampOf, Stamp
<1>. DEFINE T == {c.ver : c \in Versions(p)}
<1>2. T # {} /\ T \subseteq 0..(stores + 3) /\ stores + 3 \in Nat
  BY <1>1 DEF StorageTypes
<1>. HIDE DEF T
<1>3. PICK n \in T : \A m \in T : m <= n
  BY <1>2, HasGreatest
<1>4. PICK b \in Versions(p) : b.ver = n
  BY <1>3 DEF T
<1>5. \A c \in Versions(p) : c.ver <= b.ver
  BY <1>3, <1>4 DEF T
<1>6. \A c, d \in Versions(p) : (c.ver = d.ver => c = d) /\ (Later(c, d) <=> c.ver > d.ver)
  <2>1. ASSUME NEW c \in Versions(p), NEW d \in Versions(p), c.ver = d.ver  PROVE c = d
    BY <1>1, <2>1
  <2>2. ASSUME NEW c \in Versions(p), NEW d \in Versions(p)  PROVE Later(c, d) <=> c.ver > d.ver
    <3>1. c.ver = d.ver => c.sec = d.sec /\ c.sec \in {0, 1}
      <4>1. c.sec \in {0, 1}
        BY <1>1 DEF StampOf, Stamp
      <4>. QED  BY <2>1, <4>1
    <3>2. c.day = c.ver /\ d.day = d.ver /\ c.ver \in Nat /\ d.ver \in Nat
      BY <1>1
    <3>. QED  BY <3>1, <3>2 DEF Later
  <2>. QED  BY <2>1, <2>2
<1>. DEFINE Last(x) == \A c \in Versions(p) : c = x \/ Later(x, c)
            Top(x) == \A c \in Versions(p) : c.ver <= x.ver
<1>7. Last(b) /\ Top(b)
  <2>1. ASSUME NEW c \in Versions(p)  PROVE c = b \/ Later(b, c)
    <3>1. c.ver \in Nat /\ b.ver \in Nat /\ c.ver <= b.ver
      BY <1>1, <1>5
    <3>2. c.ver = b.ver \/ b.ver > c.ver
      BY <3>1
    <3>. QED  BY <1>6, <3>2
  <2>. QED  BY <1>5, <2>1
<1>8. \A x \in Versions(p) : Last(x) \/ Top(x) => x = b
  <2>1. ASSUME NEW x \in Versions(p), Last(x) \/ Top(x)  PROVE x = b
    <3>1. x.ver \in Nat /\ b.ver \in Nat /\ x.ver <= b.ver
      BY <1>1, <1>5
    <3>2. b = x \/ x.ver > b.ver \/ b.ver <= x.ver
      BY <1>6, <2>1
    <3>3. b = x \/ b.ver = x.ver
      BY <3>1, <3>2
    <3>. QED  BY <1>6, <3>3
  <2>. QED  BY <2>1
<1>. HIDE DEF Last, Top
<1>9. (CHOOSE x \in Versions(p) : Last(x)) = b /\ (CHOOSE x \in Versions(p) : Top(x)) = b
  BY <1>7, <1>8, Zenon
<1>10. findInTrash(p) = b
  BY <1>9 DEF findInTrash, Last
<1>11. (CHOOSE x \in Versions(p) : \A c \in Versions(p) : c.ver <= x.ver) = b
  BY <1>9 DEF Top
<1>. QED  BY <1>1, <1>10, <1>11

LEMMA RestoreStarts == RestoreInit => RestoreInv
<1>. SUFFICES ASSUME RestoreInit  PROVE RestoreInv
  OBVIOUS
<1>. USE DEF RestoreInit
<1>1. StorageTypes
  <2>1. ASSUME NEW p \in Path, NEW v \in 1..2  PROVE Stamp(p, 2 - v, v) = StampOf(p, v) /\ v \in 1..(stores + 3)
    BY DEF StampOf, Stamp
  <2>. QED  BY <2>1 DEF StorageTypes
<1>2. JobTypes
  BY DEF JobTypes, NoRestore, NoResults
<1>3. FetchTypes
  <2>1. Nil \in Entry
    BY DEF Entry, Nil
  <2>. QED  BY <2>1 DEF FetchTypes
<1>4. OneAtPath /\ TempsOwned /\ OwnFilesKept /\ SuccessIsComplete
  BY DEF OneAtPath, TempsOwned, OwnFilesKept, SuccessIsComplete, BusyAt, Idle, NoRestore, NoResults
<1>5. \A w \in Fetcher : WorkerKeeps(w)
  BY DEF WorkerKeeps, Idle
<1>. QED  BY <1>1, <1>2, <1>3, <1>4, <1>5 DEF RestoreInv, RestoreTypes, NoResults, NoRestore

\* A worker knows its own temporary file, and what it puts in place is whole.
LEMMA MineIsMine ==
    ASSUME FetchTypes, TempsOwned, Absent \notin Fetcher, NEW w \in Fetcher,
           (\E t \in temps : t.owner = w) \/ fetching[w].step = "place"
    PROVE  /\ Mine(w) \in temps /\ Mine(w).owner = w /\ \A t \in temps : t.owner = w => t = Mine(w)
           /\ fetching[w].step = "place" => Mine(w).whole
<1>1. \E t \in temps : t.owner = w
  BY DEF TempsOwned
<1>2. Mine(w) \in temps /\ Mine(w).owner = w
  BY <1>1, Zenon DEF Mine
<1>3. \A t \in temps : t.owner = w => t = Mine(w)
  BY <1>2 DEF TempsOwned
<1>. QED  BY <1>2, <1>3 DEF TempsOwned

LEMMA PutIsEntry == \A p, v : v \in Nat => Put(p, v) \in Entry
BY DEF Put, Entry

LEMMA PlacesWhole ==
    ASSUME FetchTypes, TempsOwned, NEW w \in Fetcher, Place(w)
    PROVE  \/ /\ disk' = [disk EXCEPT ![fetching[w].p] = Put(fetching[w].p, got[w])]
              /\ Step(w, "verify") /\ got' = got /\ results' = results
           \/ disk' = disk /\ Done(w, "failed")
<1>1. Mine(w).whole = TRUE
  <2>1. Mine(w).whole /\ Mine(w) \in temps
    BY MineIsMine, RestoreAssumption DEF Place
  <2>. QED  BY <2>1 DEF FetchTypes
<1>2. [Put(fetching[w].p, got[w]) EXCEPT !.whole = TRUE] = Put(fetching[w].p, got[w])
  <2>1. \A e \in Entry : e.whole = TRUE => [e EXCEPT !.whole = TRUE] = e
    BY DEF Entry
  <2>2. Put(fetching[w].p, got[w]) \in Entry
    BY PutIsEntry DEF FetchTypes
  <2>. QED  BY <2>1, <2>2 DEF Put
<1>. QED  BY <1>1, <1>2 DEF Place

\* What a worker's step leaves as it is, whatever the others are at.
Elsewhere(w) ==
    /\ UNCHANGED <<storageVars, listing, job, picked, stop, before, touched, wanted, newest, kills, stores>>
    /\ \A x \in Fetcher \ {w} : fetching'[x] = fetching[x] /\ got'[x] = got[x]
    /\ \A p \in Path : ~BusyAt(w) \/ fetching[w].p # p => disk'[p] = disk[p]
    /\ \A t : t.owner # w => (t \in temps' <=> t \in temps)

LEMMA FetcherAlone ==
    ASSUME RestoreTypes, TempsOwned, NEW w \in Fetcher, Fetch(w)
    PROVE  Elsewhere(w)
<1>. USE DEF RestoreTypes, FetchTypes, storageRest, Elsewhere, BusyAt
<1>1. CASE Dispatch(w)
  BY <1>1 DEF Dispatch, countVars
<1>2. CASE Get(w)
  BY <1>2 DEF Get, Step, Done
<1>3. CASE OpenTemp(w)
  BY <1>3 DEF OpenTemp
<1>4. CASE Copied(w)
  <2>1. Mine(w).owner = w /\ Mine(w) \in temps
    BY <1>4, MineIsMine, RestoreAssumption DEF Copied
  <2>2. [Mine(w) EXCEPT !.whole = TRUE].owner = w
    BY <2>1
  <2>3. PICK m : m.owner = w /\ m = [Mine(w) EXCEPT !.whole = TRUE]
    BY <2>2
  <2>4. temps' = (temps \ {Mine(w)}) \cup {m} \/ temps' = temps \ {Mine(w)}
    BY <1>4, <2>3 DEF Copied
  <2>5. \A t : t.owner # w => (t \in temps' <=> t \in temps)
    BY <2>1, <2>3, <2>4
  <2>. QED  BY <1>4, <2>5 DEF Copied, Step, Done
<1>5. CASE Place(w)
  <2>1. Mine(w).owner = w
    BY <1>5, MineIsMine, RestoreAssumption DEF Place
  <2>2. \A t : t.owner # w => (t \in temps' <=> t \in temps)
    BY <1>5, <2>1 DEF Place
  <2>. QED  BY <1>5, <2>2, PlacesWhole DEF Place, Step, Done
<1>6. CASE Verify(w)
  BY <1>6 DEF Verify, Done
<1>7. CASE Unlink(w)
  BY <1>7 DEF Unlink, Step
<1>8. CASE Symlink(w)
  BY <1>8 DEF Symlink, Done
<1>. QED  BY <1>1, <1>2, <1>3, <1>4, <1>5, <1>6, <1>7, <1>8 DEF Fetch

LEMMA FetchKeepsTypes ==
    ASSUME RestoreTypes, TempsOwned, NEW w \in Fetcher, Fetch(w)
    PROVE  RestoreTypes'
<1>. USE DEF RestoreTypes, FetchTypes, JobTypes, storageRest, FetchSteps
<1>1. StorageTypes'
  BY FetcherAlone DEF Elsewhere, StorageTypes, storageVars, Versions
<1>2. CASE Dispatch(w)
  BY <1>1, <1>2 DEF Dispatch, countVars
<1>3. fetching[w].step # "idle" => fetching[w] \in [p : Path, step : FetchSteps]
  BY DEF Idle
<1>4. \A l : Done(w, l) /\ l \in {"restored", "failed", "mismatched"} /\ fetching[w].step # "idle" =>
          /\ fetching' \in [Fetcher -> [p : Path, step : FetchSteps] \cup {Idle}] /\ got' \in [Fetcher -> Nat]
          /\ results' \in [skipped : SUBSET Path, restored : SUBSET Path, failed : SUBSET Path, mismatched : SUBSET Path]
  BY <1>3 DEF Done
<1>5. \A s \in FetchSteps : Step(w, s) /\ fetching[w].step # "idle" =>
          fetching' \in [Fetcher -> [p : Path, step : FetchSteps] \cup {Idle}]
  <2>1. ASSUME NEW s \in FetchSteps, fetching[w].step # "idle"
        PROVE  [fetching[w] EXCEPT !.step = s] \in [p : Path, step : FetchSteps]
    BY <1>3, <2>1
  <2>. QED  BY <2>1 DEF Step
<1>6. CASE Get(w)
  <2>1. Held(w) \in Nat
    <3>1. fetching[w].p \in Path
      BY <1>3, <1>6 DEF Get
    <3>. QED  BY <3>1 DEF Held, StorageTypes
  <2>. QED  BY <1>1, <1>4, <1>5, <1>6, <2>1 DEF Get, Slip
<1>7. CASE OpenTemp(w)
  <2>1. [owner |-> w, path |-> fetching[w].p, whole |-> FALSE] \in [owner : Fetcher \cup {Absent}, path : Path, whole : BOOLEAN]
    BY <1>3, <1>7 DEF OpenTemp
  <2>2. temps' \subseteq [owner : Fetcher \cup {Absent}, path : Path, whole : BOOLEAN]
    BY <1>7, <2>1 DEF OpenTemp
  <2>. QED  BY <1>1, <1>7, <2>2 DEF OpenTemp
<1>8. CASE Copied(w)
  <2>0. PICK m \in temps : m = Mine(w)
    BY <1>8, MineIsMine, RestoreAssumption DEF Copied
  <2>1. [Mine(w) EXCEPT !.whole = TRUE] \in [owner : Fetcher \cup {Absent}, path : Path, whole : BOOLEAN]
    <3>1. \A t \in [owner : Fetcher \cup {Absent}, path : Path, whole : BOOLEAN] :
             [t EXCEPT !.whole = TRUE] \in [owner : Fetcher \cup {Absent}, path : Path, whole : BOOLEAN]
      OBVIOUS
    <3>. QED  BY <2>0, <3>1
  <2>2. temps' \subseteq [owner : Fetcher \cup {Absent}, path : Path, whole : BOOLEAN]
    BY <1>8, <2>1 DEF Copied
  <2>. QED  BY <1>1, <1>4, <1>5, <1>8, <2>2 DEF Copied, Slip
<1>9. CASE Place(w)
  <2>1. disk' \in [Path -> Entry]
    BY <1>9, PlacesWhole, PutIsEntry
  <2>. QED  BY <1>1, <1>4, <1>5, <1>9, <2>1 DEF Place, Slip
<1>10. CASE Verify(w)
  BY <1>1, <1>4, <1>10 DEF Verify
<1>11. CASE Unlink(w)
  <2>1. Nil \in Entry
    BY DEF Nil, Entry
  <2>. QED  BY <1>1, <1>5, <1>11, <2>1 DEF Unlink
<1>12. CASE Symlink(w)
  BY <1>1, <1>4, <1>12, PutIsEntry DEF Symlink, Slip
<1>. QED  BY <1>2, <1>6, <1>7, <1>8, <1>9, <1>10, <1>11, <1>12 DEF Fetch

\* What a worker's step does with the path in its hands: it takes one up, goes on
\* with it, or is done with it and reports it.
Takes(w) ==
    /\ ~BusyAt(w) /\ job.phase = "fetch" /\ results' = results
    /\ \E j \in jobs :
         /\ jobs' = jobs \ {j}
         /\ \/ stop /\ fetching'[w] = fetching[w]
            \/ fetching'[w] = [p |-> j.p, step |-> "get"] /\ got'[w] = j.ver
Moves(w) == BusyAt(w) /\ BusyAt(w)' /\ fetching'[w].p = fetching[w].p /\ jobs' = jobs /\ results' = results
Ends(w) ==
    /\ BusyAt(w) /\ fetching'[w] = Idle /\ jobs' = jobs
    /\ Reported' = Reported \cup {fetching[w].p} /\ results'.skipped = results.skipped
    /\ results'.failed \subseteq results.failed \cup {fetching[w].p}
    /\ results'.restored \subseteq results.restored \cup {fetching[w].p}

LEMMA FetchKinds ==
    ASSUME RestoreTypes, NEW w \in Fetcher, Fetch(w)
    PROVE  Takes(w) \/ Moves(w) \/ Ends(w)
<1>. USE DEF RestoreTypes, FetchTypes, storageRest
<1>1. CASE Dispatch(w)
  BY <1>1 DEF Dispatch, Takes, BusyAt, Idle
<1>2. fetching[w].step # "idle" => fetching[w] \in [p : Path, step : FetchSteps]
  BY DEF Idle
<1>3. ASSUME NEW s \in FetchSteps, Step(w, s), fetching[w].step # "idle", jobs' = jobs, results' = results  PROVE Moves(w)
  <2>1. [fetching[w] EXCEPT !.step = s].p = fetching[w].p /\ [fetching[w] EXCEPT !.step = s].step = s
    BY <1>2, <1>3
  <2>2. fetching'[w] = [fetching[w] EXCEPT !.step = s] /\ s # "idle"
    BY <1>3 DEF Step, FetchSteps
  <2>. QED  BY <1>3, <2>1, <2>2 DEF Moves, BusyAt
<1>4. ASSUME NEW l \in {"restored", "failed", "mismatched"}, Done(w, l), fetching[w].step # "idle", jobs' = jobs
      PROVE  Ends(w)
  <2>1. fetching'[w] = Idle /\ results' = [results EXCEPT ![l] = @ \cup {fetching[w].p}]
    BY <1>4 DEF Done
  <2>. QED  BY <1>4, <2>1 DEF Ends, Reported, BusyAt, JobTypes
<1>5. CASE Get(w)
  BY <1>3, <1>4, <1>5 DEF Get, FetchSteps
<1>6. CASE OpenTemp(w)
  BY <1>6 DEF OpenTemp, Moves, BusyAt
<1>7. CASE Copied(w)
  BY <1>3, <1>4, <1>7 DEF Copied, FetchSteps
<1>8. CASE Place(w)
  BY <1>3, <1>4, <1>8 DEF Place, FetchSteps
<1>9. CASE Verify(w)
  BY <1>4, <1>9 DEF Verify
<1>10. CASE Unlink(w)
  BY <1>3, <1>10 DEF Unlink, FetchSteps
<1>11. CASE Symlink(w)
  BY <1>4, <1>11 DEF Symlink
<1>. QED  BY <1>1, <1>5, <1>6, <1>7, <1>8, <1>9, <1>10, <1>11 DEF Fetch

LEMMA FetchOneAtPath ==
    ASSUME RestoreTypes, OneAtPath, TempsOwned, NEW w \in Fetcher, Fetch(w)
    PROVE  OneAtPath'
<1>1. /\ job' = job /\ \A x \in Fetcher \ {w} : fetching'[x] = fetching[x]
  BY FetcherAlone DEF Elsewhere
<1>2. CASE Takes(w)
  <2>1. PICK j \in jobs : /\ jobs' = jobs \ {j} /\ results' = results /\ ~BusyAt(w) /\ job.phase = "fetch"
                          /\ fetching'[w] = fetching[w] \/ fetching'[w] = [p |-> j.p, step |-> "get"]
    BY <1>2 DEF Takes
  <2>2. BusyAt(w)' => fetching'[w].p = j.p
    BY <2>1 DEF BusyAt
  <2>. QED  BY <1>1, <2>1, <2>2 DEF OneAtPath, BusyAt, Reported
<1>3. CASE Moves(w)
  <2>1. job.phase = "fetch"
    BY <1>3 DEF Moves, OneAtPath
  <2>. QED  BY <1>1, <1>3, <2>1 DEF OneAtPath, BusyAt, Reported, Moves
<1>4. CASE Ends(w)
  <2>1. job.phase = "fetch"
    BY <1>4 DEF Ends, OneAtPath
  <2>2. ~BusyAt(w)'
    BY <1>4 DEF Ends, BusyAt, Idle
  <2>3. jobs' = jobs /\ Reported' = Reported \cup {fetching[w].p} /\ BusyAt(w)
    BY <1>4 DEF Ends
  <2>. HIDE DEF Reported
  <2>. QED  BY <1>1, <2>1, <2>2, <2>3 DEF OneAtPath, BusyAt
<1>. QED  BY <1>2, <1>3, <1>4, FetchKinds

LEMMA FetchTempsOwned ==
    ASSUME RestoreTypes, OneAtPath, TempsOwned, NEW w \in Fetcher, Fetch(w)
    PROVE  TempsOwned'
<1>1. kills' = kills /\ (\A x \in Fetcher \ {w} : fetching'[x] = fetching[x]) /\ \A t : t.owner # w => (t \in temps' <=> t \in temps)
  BY FetcherAlone DEF Elsewhere
<1>2. \A t \in temps \cup temps' : t.owner \in Fetcher \cup {Absent}
  BY FetchKeepsTypes DEF RestoreTypes, FetchTypes
<1>3. w # Absent
  BY RestoreAssumption
<1>. DEFINE MyTemps == {t \in temps : t.owner = w}
<1>4. SUFFICES /\ \A t, u \in temps' : t.owner = w /\ u.owner = w => t = u
               /\ (\E t \in temps' : t.owner = w) => fetching'[w].step \in {"copy", "place"}
               /\ fetching'[w].step = "place" => \E t \in temps' : t.owner = w /\ t.whole
  <2>1. ASSUME NEW x \in Fetcher \ {w}, fetching'[x].step = "place"  PROVE \E t \in temps' : t.owner = x /\ t.whole
    BY <1>1, <2>1 DEF TempsOwned
  <2>2. \A t \in temps' : t.owner = Absent => kills' # 0
    BY <1>1, <1>3 DEF TempsOwned
  <2>3. \A t, u \in temps' : t.owner = u.owner /\ t.owner # Absent => t = u
    BY <1>1, <1>4 DEF TempsOwned
  <2>4. \A t \in temps' : t.owner # Absent => fetching'[t.owner].step \in {"copy", "place"}
    BY <1>1, <1>2, <1>4 DEF TempsOwned
  <2>. QED  BY <1>4, <2>1, <2>2, <2>3, <2>4 DEF TempsOwned
<1>5. fetching[w].step \notin {"copy", "place"} => \A t \in temps : t.owner # w
  BY <1>3 DEF TempsOwned
<1>. USE DEF RestoreTypes, FetchTypes, storageRest
<1>6. CASE Dispatch(w)
  BY <1>5, <1>6 DEF Dispatch, Idle
<1>7. CASE Get(w) \/ Verify(w) \/ Unlink(w) \/ Symlink(w)
  <2>1. temps' = temps /\ fetching[w].step \notin {"copy", "place"}
    BY <1>7 DEF Get, Verify, Unlink, Symlink
  <2>2. fetching'[w].step # "place"
    <3>1. fetching[w].step # "idle" => fetching[w] \in [p : Path, step : FetchSteps]
      BY DEF Idle
    <3>2. \A s \in FetchSteps \ {"place"} : Step(w, s) /\ fetching[w].step # "idle" => fetching'[w].step # "place"
      BY <3>1 DEF Step
    <3>. QED  BY <1>7, <3>2 DEF Get, Verify, Unlink, Symlink, Done, Idle, FetchSteps
  <2>. QED  BY <1>5, <2>1, <2>2
<1>8. CASE OpenTemp(w)
  BY <1>8 DEF OpenTemp
<1>9. CASE Copied(w)
  <2>1. Mine(w) \in temps /\ Mine(w).owner = w /\ \A t \in temps : t.owner = w => t = Mine(w)
    BY <1>9, MineIsMine, RestoreAssumption DEF Copied
  <2>2. [Mine(w) EXCEPT !.whole = TRUE].owner = w /\ [Mine(w) EXCEPT !.whole = TRUE].whole
    BY <2>1
  <2>3. PICK m : m.owner = w /\ m.whole /\ m = [Mine(w) EXCEPT !.whole = TRUE]
    BY <2>2
  <2>4. \/ temps' = (temps \ {Mine(w)}) \cup {m} /\ Step(w, "place")
        \/ temps' = temps \ {Mine(w)} /\ Done(w, "failed")
    BY <1>9, <2>3 DEF Copied
  <2>5. fetching[w] \in [p : Path, step : FetchSteps]
    BY <1>9 DEF Copied, Idle
  <2>6. Step(w, "place") => fetching'[w].step = "place"
    BY <2>5 DEF Step
  <2>7. Done(w, "failed") => fetching'[w].step = "idle"
    BY DEF Done, Idle
  <2>. QED  BY <2>1, <2>3, <2>4, <2>6, <2>7
<1>10. CASE Place(w)
  <2>1. \A t \in temps' : t.owner # w
    BY <1>10, MineIsMine, RestoreAssumption DEF Place
  <2>2. fetching'[w].step # "place"
    <3>1. fetching[w] \in [p : Path, step : FetchSteps]
      BY <1>10 DEF Place, Idle
    <3>2. Step(w, "verify") => fetching'[w].step = "verify"
      BY <3>1 DEF Step
    <3>3. Done(w, "failed") => fetching'[w].step = "idle"
      BY DEF Done, Idle
    <3>. QED  BY <1>10, <3>2, <3>3 DEF Place
  <2>. QED  BY <2>1, <2>2
<1>. QED  BY <1>6, <1>7, <1>8, <1>9, <1>10 DEF Fetch

\* What a worker in the middle of a path does next, and what it leaves there.
LEMMA FetchKeepsOwn ==
    ASSUME RestoreTypes, OneAtPath, TempsOwned, NEW w \in Fetcher, Fetch(w), BusyAt(w), WorkerKeeps(w),
           NEW p \in Path, p = fetching[w].p
    PROVE  /\ WorkerKeeps(w)'
           /\ p \in results'.restored => RestoredHere(p)'
           /\ \/ p \in touched \/ disk'[p] = before[p]
              \/ /\ p \notin results'.skipped \cup (results'.failed \ Links)
                 /\ disk'[p].whole /\ (disk'[p].ver # 0 \/ p \in Links)
<1>. DEFINE Placed == disk'[p] = Put(p, got[w])
            Stands == \/ p \in touched \/ disk'[p] = before[p]
                    \/ /\ p \notin results'.skipped \cup (results'.failed \ Links)
                       /\ disk'[p].whole /\ (disk'[p].ver # 0 \/ p \in Links)
<1>1. /\ UNCHANGED <<job, before, touched, newest>> /\ p \in Path /\ p \notin Reported
      /\ fetching[w] \in [p : Path, step : FetchSteps] /\ disk[p] \in Entry
  BY FetcherAlone DEF Elsewhere, RestoreTypes, FetchTypes, BusyAt, Idle, OneAtPath
<1>2. \A v : v # 0 => Put(p, v).whole /\ Put(p, v).ver = v
  BY DEF Put
<1>3. \A s \in FetchSteps : Step(w, s) => fetching'[w].step = s /\ fetching'[w].p = p
  BY <1>1 DEF Step, RestoreTypes, FetchTypes
<1>4. \A l \in {"restored", "failed", "mismatched"} : Done(w, l) =>
          /\ fetching'[w].step = "idle" /\ p \notin results'.skipped
          /\ l # "restored" => p \notin results'.restored
          /\ l # "failed" => p \notin results'.failed
  BY <1>1 DEF Done, Idle, RestoreTypes, FetchTypes, JobTypes, Reported
<1>5. p \notin results.restored /\ p \notin results.skipped /\ p \notin results.failed
  BY <1>1 DEF Reported
<1>. USE DEF WorkerKeeps, storageRest
<1>6. CASE Dispatch(w)
  BY <1>6 DEF Dispatch, BusyAt, Idle
<1>7. CASE Get(w)
  <2>0. fetching[w].step = "get" /\ disk' = disk /\ AsMet(p)
    BY <1>7 DEF Get
  <2>1. CASE Held(w) # 0 /\ got' = [got EXCEPT ![w] = Held(w)] /\ results' = results
             /\ Step(w, IF p \in Links THEN "unlink" ELSE "copy")
    <3>1. got'[w] # 0 /\ (job.deleted => got'[w] = got[w])
      BY <2>1 DEF RestoreTypes, FetchTypes, Held
    <3>2. PICK s \in {"unlink", "copy"} : Step(w, s) /\ (s = "unlink" => p \in Links)
      BY <2>1
    <3>. QED  BY <1>1, <1>3, <1>5, <2>0, <2>1, <3>1, <3>2 DEF AsMet, FetchSteps
  <2>2. CASE Done(w, "failed")
    BY <1>1, <1>4, <2>0, <2>2 DEF AsMet
  <2>. QED  BY <1>7, <2>1, <2>2 DEF Get
<1>8. CASE OpenTemp(w)
  BY <1>1, <1>5, <1>8 DEF OpenTemp, AsMet
<1>9. CASE Copied(w)
  <2>0. fetching[w].step = "copy" /\ disk' = disk /\ AsMet(p)
    BY <1>9 DEF Copied
  <2>1. CASE Step(w, "place") /\ got' = got /\ results' = results
    BY <1>1, <1>3, <1>5, <2>0, <2>1 DEF AsMet, FetchSteps
  <2>2. CASE Done(w, "failed")
    BY <1>1, <1>4, <2>0, <2>2 DEF AsMet
  <2>. QED  BY <1>9, <2>1, <2>2 DEF Copied
<1>10. CASE Place(w)
  <2>0. fetching[w].step = "place" /\ AsMet(p) /\ got[w] # 0
    BY <1>10 DEF Place
  <2>1. CASE Step(w, "verify") /\ got' = got /\ results' = results /\ Placed
    BY <1>1, <1>2, <1>3, <1>5, <2>0, <2>1 DEF FetchSteps
  <2>2. CASE Done(w, "failed") /\ disk' = disk
    BY <1>1, <1>4, <2>0, <2>2 DEF AsMet
  <2>3. disk' = [disk EXCEPT ![p] = Put(p, got[w])] => Placed
    BY <1>1 DEF RestoreTypes, FetchTypes
  <2>. QED  BY <1>10, <2>1, <2>2, <2>3, PlacesWhole DEF RestoreTypes
<1>11. CASE Verify(w)
  <2>0. disk' = disk /\ got[w] # 0 /\ (p \in touched \/ disk[p] = Put(p, got[w])) /\ (job.deleted => got[w] = newest)
    BY <1>11 DEF Verify
  <2>1. \E l \in {"restored", "mismatched"} : Done(w, l)
    BY <1>11 DEF Verify
  <2>2. p \in touched \/ (disk'[p].whole /\ disk'[p].ver = got[w])
    BY <1>2, <2>0
  <2>3. RestoredHere(p)'
    BY <1>1, <2>0, <2>2 DEF RestoredHere
  <2>4. fetching'[w].step = "idle" /\ p \notin results'.skipped /\ p \notin results'.failed
    BY <1>4, <2>1
  <2>. QED  BY <2>0, <2>2, <2>3, <2>4
<1>12. CASE Unlink(w)
  <2>1. fetching[w].step = "unlink" /\ p \in Links /\ disk'[p] = Nil /\ Step(w, "link") /\ got' = got /\ results' = results
    BY <1>1, <1>12 DEF Unlink, RestoreTypes, FetchTypes
  <2>. QED  BY <1>1, <1>3, <1>5, <2>1 DEF Nil, FetchSteps
<1>13. CASE Symlink(w)
  <2>0. fetching[w].step = "link" /\ p \in Links /\ got[w] # 0 /\ (p \in touched \/ disk[p].whole) /\ (job.deleted => got[w] = newest)
    BY <1>13 DEF Symlink
  <2>1. CASE Placed /\ Done(w, "restored")
    <3>1. disk'[p].whole /\ disk'[p].ver = got[w]
      BY <1>2, <2>0, <2>1
    <3>2. RestoredHere(p)'
      BY <1>1, <2>0, <3>1 DEF RestoredHere
    <3>3. fetching'[w].step = "idle" /\ p \notin results'.skipped /\ p \notin results'.failed
      BY <1>4, <2>1
    <3>. QED  BY <2>0, <3>1, <3>2, <3>3
  <2>2. CASE disk' = disk /\ Done(w, "failed")
    BY <1>1, <1>4, <2>0, <2>2
  <2>. QED  BY <1>1, <1>13, <2>1, <2>2 DEF Symlink, RestoreTypes, FetchTypes
<1>. QED  BY <1>6, <1>7, <1>8, <1>9, <1>10, <1>11, <1>12, <1>13 DEF Fetch

LEMMA FetchKeepsAll ==
    ASSUME RestoreInv, NEW w \in Fetcher, Fetch(w)
    PROVE  RestoreInv'
<1>. USE DEF RestoreInv
<1>1. RestoreTypes' /\ OneAtPath' /\ TempsOwned'
  BY FetchKeepsTypes, FetchOneAtPath, FetchTempsOwned
<1>2. /\ UNCHANGED <<job, picked, stop, before, touched, wanted, newest, kills>>
      /\ \A x \in Fetcher \ {w} : fetching'[x] = fetching[x] /\ got'[x] = got[x]
      /\ \A p \in Path : ~BusyAt(w) \/ fetching[w].p # p => disk'[p] = disk[p]
  BY FetcherAlone DEF Elsewhere
<1>3. Takes(w) \/ Moves(w) \/ Ends(w)
  BY FetchKinds
<1>4. job.phase = "fetch"
  BY <1>3 DEF Takes, Moves, Ends, OneAtPath
<1>5. /\ results'.skipped = results.skipped /\ jobs' \subseteq jobs /\ (BusyAt(w) => jobs' = jobs)
      /\ \A p : ~BusyAt(w) \/ fetching[w].p # p =>
            (p \in results'.failed => p \in results.failed) /\ (p \in results'.restored => p \in results.restored)
  BY <1>3 DEF Takes, Moves, Ends
<1>6. BusyAt(w) => fetching[w].p \in Path
  BY DEF RestoreTypes, FetchTypes, BusyAt, Idle
<1>7. SuccessIsComplete'
  BY <1>2, <1>4 DEF SuccessIsComplete
<1>8. OwnFilesKept'
  <2>1. ASSUME NEW p \in Path \ touched, ~BusyAt(w) \/ fetching[w].p # p
        PROVE  \/ disk'[p] = before'[p]
               \/ /\ p \notin results'.skipped \cup (results'.failed \ Links)
                  /\ disk'[p].whole /\ (disk'[p].ver # 0 \/ p \in Links)
    BY <1>2, <1>5, <2>1 DEF OwnFilesKept
  <2>2. ASSUME NEW p \in Path \ touched, BusyAt(w), fetching[w].p = p
        PROVE  \/ disk'[p] = before'[p]
               \/ /\ p \notin results'.skipped \cup (results'.failed \ Links)
                  /\ disk'[p].whole /\ (disk'[p].ver # 0 \/ p \in Links)
    BY <1>2, <2>2, FetchKeepsOwn
  <2>. QED  BY <1>2, <2>1, <2>2 DEF OwnFilesKept
<1>9. ASSUME NEW x \in Fetcher  PROVE WorkerKeeps(x)'
  <2>1. CASE x # w
    <3>1. CASE BusyAt(x)
      <4>1. fetching[x].p \in Path /\ (~BusyAt(w) \/ fetching[w].p # fetching[x].p)
        BY <2>1, <3>1 DEF RestoreTypes, FetchTypes, BusyAt, Idle, OneAtPath
      <4>2. disk'[fetching[x].p] = disk[fetching[x].p]
        BY <1>2, <4>1
      <4>3. WorkerKeeps(x)
        OBVIOUS
      <4>. QED  BY <1>2, <2>1, <4>2, <4>3 DEF WorkerKeeps, AsMet
    <3>2. CASE ~BusyAt(x)
      BY <1>2, <2>1, <3>2 DEF WorkerKeeps, BusyAt
    <3>. QED  BY <3>1, <3>2
  <2>2. CASE x = w /\ BusyAt(w)
    BY <1>6, <2>2, FetchKeepsOwn
  <2>3. CASE x = w /\ ~BusyAt(w)
    <3>1. PICK j \in jobs : fetching'[w] = fetching[w] \/ (fetching'[w] = [p |-> j.p, step |-> "get"] /\ got'[w] = j.ver)
      BY <1>3, <2>3 DEF Takes, Moves, Ends
    <3>2. j.p \in Path /\ JobKeeps(j)
      BY DEF RestoreTypes, FetchTypes
    <3>3. disk'[j.p] = disk[j.p]
      BY <1>2, <2>3, <3>2
    <3>4. CASE fetching'[w] = fetching[w]
      BY <2>3, <3>4 DEF WorkerKeeps, BusyAt
    <3>5. CASE fetching'[w] = [p |-> j.p, step |-> "get"] /\ got'[w] = j.ver
      <4>1. fetching'[w].p = j.p /\ fetching'[w].step = "get"
        BY <3>5
      <4>. QED  BY <1>2, <2>3, <3>2, <3>3, <3>5, <4>1 DEF WorkerKeeps, JobKeeps, AsMet
    <3>. QED  BY <3>1, <3>4, <3>5
  <2>. QED  BY <2>1, <2>2, <2>3
<1>10. ASSUME NEW j \in jobs'  PROVE JobKeeps(j)'
  <2>1. j \in jobs /\ j.p \in Path /\ JobKeeps(j) /\ (BusyAt(w) => fetching[w].p # j.p)
    BY <1>5 DEF RestoreTypes, FetchTypes, OneAtPath
  <2>. QED  BY <1>2, <2>1 DEF JobKeeps, AsMet
<1>11. ASSUME NEW p \in results'.restored  PROVE RestoredHere(p)'
  <2>0. p \in Path
    BY <1>1 DEF RestoreTypes, JobTypes
  <2>1. CASE BusyAt(w) /\ fetching[w].p = p
    BY <2>0, <2>1, FetchKeepsOwn
  <2>2. CASE ~BusyAt(w) \/ fetching[w].p # p
    BY <1>2, <1>5, <2>0, <2>2 DEF RestoredHere
  <2>. QED  BY <2>1, <2>2
<1>12. ~stop => wanted \subseteq Underway'
  <2>. SUFFICES ASSUME ~stop, NEW q \in Underway  PROVE q \in Underway'
    BY <1>4
  <2>1. (\E j \in jobs' : j.p = q) \/ (\E x \in Fetcher : BusyAt(x)' /\ fetching'[x].p = q) \/ q \in Reported' => q \in Underway'
    BY DEF Underway
  <2>2. (\E j \in jobs : j.p = q) \/ (\E x \in Fetcher : BusyAt(x) /\ fetching[x].p = q) \/ q \in Reported
    BY DEF Underway
  <2>3. CASE \E x \in Fetcher \ {w} : BusyAt(x) /\ fetching[x].p = q
    BY <1>2, <2>1, <2>3 DEF BusyAt
  <2>4. CASE BusyAt(w) /\ fetching[w].p = q
    BY <1>3, <2>1, <2>4 DEF Moves, Ends, Takes
  <2>5. CASE q \in Reported
    <3>1. q \in Reported'
      BY <1>3, <2>5 DEF Moves, Ends, Takes, Reported
    <3>. QED  BY <2>1, <3>1
  <2>6. CASE \E j \in jobs : j.p = q
    <3>1. CASE BusyAt(w)
      BY <1>5, <2>1, <2>6, <3>1
    <3>2. CASE ~BusyAt(w)
      <4>1. PICK j \in jobs : jobs' = jobs \ {j} /\ fetching'[w] = [p |-> j.p, step |-> "get"]
        BY <1>3, <3>2 DEF Moves, Ends, Takes
      <4>2. BusyAt(w)' /\ fetching'[w].p = j.p
        BY <4>1 DEF BusyAt
      <4>. QED  BY <2>1, <2>6, <4>1, <4>2
    <3>. QED  BY <3>1, <3>2
  <2>. QED  BY <2>2, <2>3, <2>4, <2>5, <2>6
<1>. QED  BY <1>1, <1>2, <1>7, <1>8, <1>9, <1>10, <1>11, <1>12

LEMMA WorldStores ==
    ASSUME StorageTypes, NEW p \in Path, Store(p) \/ TrashDelete(p)
    PROVE  StorageTypes'
<1>1. CASE Store(p)
  <2>1. PICK v \in {0, stores + 4} : stored' = [stored EXCEPT ![p] = v]
    BY <1>1 DEF Store
  <2>2. stores' = stores + 1 /\ stores \in Nat
    BY <1>1 DEF Store, StorageTypes
  <2>3. stored' \in [Path -> Nat] /\ \A q \in Path : stored'[q] = 0 \/ stored'[q] \in 3..(stores' + 3)
    BY <2>1, <2>2 DEF StorageTypes
  <2>4. ASSUME NEW b \in binned  PROVE \E q \in Path, n \in 1..(stores' + 3) : b = StampOf(q, n)
    <3>1. PICK q \in Path, n \in 1..(stores + 3) : b = StampOf(q, n)
      BY DEF StorageTypes
    <3>2. n \in 1..(stores' + 3)
      BY <2>2
    <3>. QED  BY <3>1, <3>2
  <2>5. stored[p] # 0 => Stamp(p, 0, stored[p]) = StampOf(p, stored[p]) /\ stored[p] \in 1..(stores' + 3)
    <3>1. stored[p] # 0 => stored[p] \in 3..(stores + 3)
      BY DEF StorageTypes
    <3>. QED  BY <2>2, <3>1 DEF StampOf
  <2>6. \A b \in binned' : b \in binned \/ (stored[p] # 0 /\ b = Stamp(p, 0, stored[p]))
    BY <1>1 DEF Store
  <2>. QED  BY <2>2, <2>3, <2>4, <2>5, <2>6 DEF StorageTypes
<1>2. CASE TrashDelete(p)
  <2>1. stores' = stores + 1 /\ stores \in Nat /\ stored' = stored /\ binned' \subseteq binned
    BY <1>2 DEF TrashDelete, StorageTypes
  <2>3. \A q \in Path : stored'[q] = 0 \/ stored'[q] \in 3..(stores' + 3)
    BY <2>1 DEF StorageTypes
  <2>4. ASSUME NEW b \in binned'  PROVE \E q \in Path, n \in 1..(stores' + 3) : b = StampOf(q, n)
    <3>1. PICK q \in Path, n \in 1..(stores + 3) : b = StampOf(q, n)
      BY <2>1 DEF StorageTypes
    <3>2. n \in 1..(stores' + 3)
      BY <2>1
    <3>. QED  BY <3>1, <3>2
  <2>. QED  BY <2>1, <2>3, <2>4 DEF StorageTypes
<1>. QED  BY <1>1, <1>2

\* The panel asks, answers and gives up; storage and the person go on.
LEMMA EndsAJob ==
    ASSUME JobTypes, NEW bad \in BOOLEAN, EndWith(bad)
    PROVE  /\ job' \in [phase : {"ok", "error", "stopped"}, over : BOOLEAN, deleted : BOOLEAN]
           /\ job'.deleted = job.deleted /\ (job'.phase = "ok" <=> ~bad)
<1>1. PICK s \in {"ok", "error", "stopped"} : job' = [job EXCEPT !.phase = s] /\ (s = "ok" <=> ~bad)
  BY DEF EndWith
<1>. QED  BY <1>1 DEF JobTypes

LEMMA AsksKeepAll ==
    ASSUME RestoreInv, Browse \/ StartRestore \/ CancelRestore \/ DismissRestore \/ PlanFails
    PROVE  RestoreInv'
<1>. USE DEF RestoreInv, RestoreTypes, storageVars
<1>1. CASE Browse \/ CancelRestore
  <2>1. /\ UNCHANGED <<disk, temps, job, picked, jobs, fetching, got, results, before, touched, wanted, newest, slips, kills>>
        /\ UNCHANGED <<stored, binned, stores>> /\ listing' \subseteq Path /\ stop' \in BOOLEAN /\ (~stop' => ~stop)
    BY <1>1 DEF Browse, CancelRestore, jobVars, countVars, Live, JobTypes
  <2>2. StorageTypes' /\ JobTypes' /\ FetchTypes'
    BY <2>1 DEF StorageTypes, JobTypes, FetchTypes
  <2>3. OneAtPath' /\ TempsOwned' /\ OwnFilesKept'
    BY <2>1 DEF OneAtPath, BusyAt, Reported, TempsOwned, OwnFilesKept
  <2>4. SuccessIsComplete'
    BY <2>1 DEF SuccessIsComplete
  <2>5. \A w \in Fetcher : WorkerKeeps(w)'
    BY <2>1 DEF WorkerKeeps, AsMet
  <2>6. (\A j \in jobs : JobKeeps(j)') /\ (\A p \in results.restored : RestoredHere(p)') /\ Underway' = Underway
    BY <2>1 DEF JobKeeps, AsMet, RestoredHere, Underway, BusyAt, Reported
  <2>. QED  BY <2>1, <2>2, <2>3, <2>4, <2>5, <2>6
<1>2. CASE StartRestore \/ PlanFails \/ DismissRestore
  <2>0. ASSUME StartRestore
        PROVE  /\ job' \in [phase : {"list"}, over : BOOLEAN, deleted : BOOLEAN] /\ picked' \subseteq Path
               /\ job'.deleted => \E p \in Path : picked' = {p}
    <3>1. PICK over \in BOOLEAN :
             \/ picked' \in SUBSET listing /\ job' = [phase |-> "list", over |-> over, deleted |-> FALSE]
             \/ \E p \in Path : picked' = {p} /\ job' = [phase |-> "list", over |-> over, deleted |-> TRUE]
      BY <2>0 DEF StartRestore
    <3>2. CASE picked' \in SUBSET listing /\ job' = [phase |-> "list", over |-> over, deleted |-> FALSE]
      BY <3>2 DEF JobTypes
    <3>3. ASSUME NEW p \in Path, picked' = {p}, job' = [phase |-> "list", over |-> over, deleted |-> TRUE]
          PROVE  job' \in [phase : {"list"}, over : BOOLEAN, deleted : BOOLEAN] /\ picked' \subseteq Path
      BY <3>3
    <3>. QED  BY <3>1, <3>2, <3>3
  <2>1. /\ job.phase # "fetch" /\ jobs' = {} /\ jobs = {} /\ UNCHANGED <<stored, binned, stores, disk, temps, listing, fetching, got, kills>>
        /\ job' \in [phase : {"none", "list", "ok", "error", "stopped"}, over : BOOLEAN, deleted : BOOLEAN]
        /\ \A w \in Fetcher : ~BusyAt(w)
    <3>1. CASE StartRestore
      BY <2>0, <3>1 DEF StartRestore, OneAtPath, storageVars
    <3>2. CASE PlanFails
      <4>1. EndWith(TRUE)
        BY <3>2 DEF PlanFails
      <4>2. job' \in [phase : {"ok", "error", "stopped"}, over : BOOLEAN, deleted : BOOLEAN]
        BY <4>1, EndsAJob
      <4>3. job' \in [phase : {"none", "list", "ok", "error", "stopped"}, over : BOOLEAN, deleted : BOOLEAN]
        BY <4>2
      <4>4. job.phase # "fetch" /\ jobs = {} /\ \A w \in Fetcher : ~BusyAt(w)
        BY <3>2 DEF PlanFails, OneAtPath
      <4>. QED  BY <3>2, <4>3, <4>4 DEF PlanFails, storageVars
    <3>3. CASE DismissRestore
      BY <3>3 DEF DismissRestore, OneAtPath, countVars, NoRestore
    <3>. QED  BY <1>2, <3>1, <3>2, <3>3
  <2>2. /\ stop' \in BOOLEAN /\ picked' \subseteq Path /\ wanted' \subseteq Path /\ newest' \in Nat /\ slips' \in Nat
        /\ job'.phase = "list" /\ job'.deleted => \E p \in Path : picked' = {p}
        /\ results' = NoResults \/ results' = results
    <3>1. CASE StartRestore
      BY <2>0, <3>1 DEF StartRestore, JobTypes
    <3>2. CASE PlanFails
      <4>1. EndWith(TRUE)
        BY <3>2 DEF PlanFails
      <4>2. job'.phase # "list"
        BY <4>1, EndsAJob
      <4>. QED  BY <3>2, <4>2 DEF PlanFails, JobTypes, Slip
    <3>3. CASE DismissRestore
      BY <3>3 DEF DismissRestore, JobTypes, countVars, NoRestore
    <3>. QED  BY <1>2, <3>1, <3>2, <3>3
  <2>3. StorageTypes' /\ JobTypes'
    BY <2>1, <2>2 DEF StorageTypes, JobTypes, NoResults
  <2>4. (before' = before /\ touched' = touched /\ results' \in {NoResults, results}) \/ before' = disk
    BY <1>2 DEF StartRestore, PlanFails, DismissRestore
  <2>5. FetchTypes'
    BY <2>1, <2>4 DEF FetchTypes
  <2>6. OneAtPath' /\ TempsOwned'
    <3>1. job'.phase = "list" => Reported' = {}
      <4>1. CASE StartRestore \/ DismissRestore
        BY <4>1 DEF StartRestore, DismissRestore, NoResults, Reported
      <4>2. CASE PlanFails
        BY <4>2, EndsAJob DEF PlanFails
      <4>. QED  BY <1>2, <4>1, <4>2
    <3>. QED  BY <2>1, <3>1 DEF OneAtPath, BusyAt, TempsOwned
  <2>7. OwnFilesKept'
    BY <2>1, <2>4 DEF OwnFilesKept, NoResults
  <2>8. job'.phase # "ok"
    BY <1>2 DEF StartRestore, PlanFails, DismissRestore, EndWith, JobTypes, NoRestore
  <2>9. \A w \in Fetcher : WorkerKeeps(w)'
    BY <2>1 DEF WorkerKeeps, BusyAt
  <2>10. \A p \in results'.restored : RestoredHere(p)'
    <3>1. CASE StartRestore \/ DismissRestore
      BY <3>1 DEF StartRestore, DismissRestore, NoResults
    <3>2. CASE PlanFails
      BY <3>2 DEF PlanFails, EndWith, RestoredHere, JobTypes
    <3>. QED  BY <1>2, <3>1, <3>2
  <2>. QED  BY <2>1, <2>3, <2>5, <2>6, <2>7, <2>8, <2>9, <2>10 DEF SuccessIsComplete
<1>. QED  BY <1>1, <1>2

\* A restore that ends well has all it was asked for in place.
LEMMA FinishKeepsAll ==
    ASSUME RestoreInv, FinishRestore
    PROVE  RestoreInv'
<1>. USE DEF RestoreInv, RestoreTypes
<1>. DEFINE bad == \/ results.failed \cup results.mismatched # {}
                   \/ picked # {} /\ ~job.deleted /\ results.restored \cup results.skipped = {}
<1>1. /\ job.phase = "fetch" /\ jobs = {} /\ \A w \in Fetcher : fetching[w] = Idle
      /\ UNCHANGED <<disk, temps, listing, picked, jobs, fetching, got, results, stop, before, touched, wanted, newest, slips, kills>>
      /\ UNCHANGED <<stored, binned, stores>> /\ EndWith(bad)
  BY DEF FinishRestore, storageVars, countVars
<1>. HIDE DEF bad
<1>2. bad \in BOOLEAN
  BY DEF bad
<1>3. /\ job' \in [phase : {"ok", "error", "stopped"}, over : BOOLEAN, deleted : BOOLEAN]
      /\ job'.deleted = job.deleted /\ (job'.phase = "ok" <=> ~bad)
  BY <1>1, <1>2, EndsAJob
<1>4. StorageTypes' /\ JobTypes' /\ FetchTypes'
  BY <1>1, <1>3 DEF StorageTypes, JobTypes, FetchTypes
<1>5. \A w \in Fetcher : ~BusyAt(w) /\ fetching[w].step \notin {"copy", "place"}
  BY <1>1 DEF BusyAt, Idle
<1>6. OneAtPath' /\ TempsOwned' /\ OwnFilesKept'
  BY <1>1, <1>3, <1>5 DEF OneAtPath, TempsOwned, OwnFilesKept, BusyAt
<1>7. ASSUME ~bad, ~stop  PROVE SuccessIsComplete'
  <2>1. wanted \subseteq results.skipped \cup results.restored
    BY <1>1, <1>5, <1>7 DEF Underway, Reported, bad
  <2>2. \A p \in wanted : p \in touched \cup results.skipped \/ (disk[p].ver # 0 /\ (job.deleted => disk[p].ver = newest))
    BY <2>1 DEF RestoredHere
  <2>3. kills = 0 => temps = {}
    <3>1. \A t \in temps : t.owner \in Fetcher \cup {Absent}
      BY DEF FetchTypes
    <3>. QED  BY <1>5, <3>1 DEF TempsOwned
  <2>4. job.deleted => picked = wanted
    BY <1>1
  <2>. QED  BY <1>1, <1>3, <2>2, <2>3, <2>4 DEF SuccessIsComplete
<1>8. SuccessIsComplete'
  BY <1>1, <1>3, <1>7 DEF SuccessIsComplete
<1>9. \A w \in Fetcher : WorkerKeeps(w)'
  BY <1>1, <1>5 DEF WorkerKeeps, BusyAt
<1>10. \A p \in results.restored : RestoredHere(p)'
  BY <1>1, <1>3 DEF RestoredHere
<1>. QED  BY <1>1, <1>3, <1>4, <1>6, <1>8, <1>9, <1>10

\* A plan leaves alone what is there, unless it may overwrite, and takes of a
\* deleted file the version trashed last.
LEMMA PlanKeepsAll ==
    ASSUME RestoreInv, PlanSet \/ PlanDeleted
    PROVE  RestoreInv'
<1>. USE DEF RestoreInv, RestoreTypes
<1>1. /\ job.phase = "list" /\ ~stop /\ jobs = {} /\ before' = disk /\ touched' = {}
      /\ UNCHANGED <<stored, binned, stores, disk, temps, listing, picked, fetching, got, stop, slips, kills>>
      /\ \A w \in Fetcher : ~BusyAt(w)
  BY DEF PlanSet, PlanDeleted, OneAtPath, storageVars, countVars
<1>2. /\ StorageTypes' /\ TempsOwned' /\ disk' \in [Path -> Entry] /\ before' \in [Path -> Entry]
      /\ OwnFilesKept'
  BY <1>1 DEF StorageTypes, FetchTypes, TempsOwned, OwnFilesKept
<1>3. \A w \in Fetcher : WorkerKeeps(w)' /\ ~BusyAt(w)'
  BY <1>1 DEF WorkerKeeps, BusyAt
<1>4. kills = 0 => temps = {}
  <2>1. \A t \in temps : t.owner \in Fetcher \cup {Absent}
    BY DEF FetchTypes
  <2>. QED  BY <1>1, <2>1 DEF TempsOwned, BusyAt
<1>5. \A p \in Path : AsMet(p)'
  BY <1>1 DEF AsMet
\* How a plan ends, and what is left to show of each of its ends.
<1>. DEFINE Planned ==
         /\ JobTypes' /\ jobs' \subseteq [p : Path, ver : Nat]
         /\ \A i, j \in jobs' : i.p = j.p => i = j
         /\ \A j \in jobs' : j.p \notin Reported' /\ (job'.deleted => j.ver = newest')
         /\ job'.phase # "list" /\ (job'.phase # "fetch" => jobs' = {})
         /\ results'.restored = {} /\ SuccessIsComplete'
         /\ job'.phase = "fetch" => wanted' \subseteq Underway' /\ (job'.deleted => picked' = wanted')
<1>6. Planned => RestoreInv'
  <2>. SUFFICES ASSUME Planned  PROVE RestoreInv'
    OBVIOUS
  <2>1. FetchTypes'
    BY <1>1, <1>2 DEF FetchTypes
  <2>2. OneAtPath'
    BY <1>3 DEF OneAtPath
  <2>3. \A j \in jobs' : JobKeeps(j)'
    BY <1>5 DEF JobKeeps
  <2>. QED  BY <1>2, <1>3, <2>1, <2>2, <2>3
<1>. HIDE DEF Planned
<1>7. results.restored = {} /\ results.failed = {} /\ results.mismatched = {} /\ results.skipped = {}
  BY <1>1 DEF OneAtPath, Reported
<1>8. \A ps \in SUBSET Path : results' = [results EXCEPT !.skipped = ps] =>
         /\ results' \in [skipped : SUBSET Path, restored : SUBSET Path, failed : SUBSET Path, mismatched : SUBSET Path]
         /\ results'.skipped = ps /\ results'.restored = {} /\ Reported' = ps
  BY <1>7 DEF Reported, JobTypes
<1>9. CASE PlanSet
  <2>. DEFINE chosen == IF picked = {} THEN Live ELSE Live \cap picked
              skip   == {q \in chosen : ~job.over /\ Exists(q)}
  <2>1. chosen \subseteq Path /\ skip \subseteq chosen
    BY DEF Live
  <2>. HIDE DEF chosen, skip
  <2>2. /\ ~job.deleted /\ results' = [results EXCEPT !.skipped = skip] /\ wanted' = chosen /\ newest' = 0
        /\ \/ chosen \subseteq skip /\ EndWith(chosen = {}) /\ jobs' = jobs
           \/ /\ job' = [job EXCEPT !.phase = "fetch"]
              /\ jobs' = {[p |-> q, ver |-> 0] : q \in chosen \ skip}
    BY <1>9 DEF PlanSet, chosen, skip
  <2>3. results'.skipped = skip /\ results'.restored = {} /\ Reported' = skip
    BY <1>8, <2>1, <2>2
  <2>4. CASE chosen \subseteq skip /\ EndWith(chosen = {}) /\ jobs' = jobs
    <3>1. /\ job' \in [phase : {"ok", "error", "stopped"}, over : BOOLEAN, deleted : BOOLEAN]
          /\ job'.deleted = job.deleted
      <4>1. (chosen = {}) \in BOOLEAN
        OBVIOUS
      <4>. QED  BY <2>4, <4>1, EndsAJob
    <3>2. JobTypes'
      BY <1>1, <1>8, <2>1, <2>2, <3>1 DEF JobTypes
    <3>3. SuccessIsComplete'
      BY <1>1, <1>4, <2>2, <2>3, <2>4, <3>1 DEF SuccessIsComplete
    <3>4. jobs' = {} /\ job'.phase \notin {"fetch", "list"}
      BY <1>1, <2>4, <3>1
    <3>. QED  BY <1>6, <2>3, <3>2, <3>3, <3>4 DEF Planned
  <2>5. CASE job' = [job EXCEPT !.phase = "fetch"] /\ jobs' = {[p |-> q, ver |-> 0] : q \in chosen \ skip}
    <3>1. /\ job' \in [phase : {"fetch"}, over : BOOLEAN, deleted : BOOLEAN] /\ job'.deleted = job.deleted
      BY <2>5 DEF JobTypes
    <3>2. JobTypes'
      BY <1>1, <1>8, <2>1, <2>2, <3>1 DEF JobTypes
    <3>3. jobs' \subseteq [p : Path, ver : Nat] /\ \A j \in jobs' : j.p \in chosen \ skip /\ j = [p |-> j.p, ver |-> 0]
      BY <2>1, <2>5
    <3>4. ASSUME NEW q \in chosen \ skip  PROVE \E j \in jobs' : j.p = q
      <4>1. [p |-> q, ver |-> 0] \in jobs' /\ [p |-> q, ver |-> 0].p = q
        BY <2>5
      <4>. QED  BY <4>1
    <3>5. chosen \subseteq Underway'
      <4>1. \A q : (\E j \in jobs' : j.p = q) \/ q \in Reported' => q \in Underway'
        BY DEF Underway
      <4>. QED  BY <2>3, <3>4, <4>1
    <3>6. SuccessIsComplete'
      BY <3>1 DEF SuccessIsComplete
    <3>7. /\ \A i, j \in jobs' : i.p = j.p => i = j
          /\ \A j \in jobs' : j.p \notin Reported'
      BY <2>3, <3>3
    <3>8. job'.phase = "fetch" /\ ~job'.deleted
      BY <2>2, <3>1
    <3>. QED  BY <1>6, <2>2, <2>3, <3>2, <3>3, <3>5, <3>6, <3>7, <3>8 DEF Planned
  <2>. QED  BY <1>6, <2>2, <2>4, <2>5
<1>10. CASE PlanDeleted
  <2>1. PICK p \in Path : picked = {p}
    BY <1>1, <1>10 DEF JobTypes, PlanDeleted
  <2>2. (CHOOSE q \in picked : TRUE) = p
    BY <2>1
  <2>3. /\ job.deleted /\ wanted' = {p}
        /\ \/ Versions(p) = {} /\ EndWith(TRUE) /\ UNCHANGED <<jobs, results, newest>>
           \/ /\ Versions(p) # {}
              /\ newest' = (CHOOSE b \in Versions(p) : \A c \in Versions(p) : c.ver <= b.ver).ver
              /\ \/ EndWith(FALSE) /\ results' = [results EXCEPT !.skipped = {p}] /\ jobs' = jobs
                 \/ /\ jobs' = {[p |-> p, ver |-> findInTrash(p).ver]}
                    /\ job' = [job EXCEPT !.phase = "fetch"] /\ results' = results
    BY <1>10, <2>1, <2>2 DEF PlanDeleted
  <2>4. CASE Versions(p) = {} /\ EndWith(TRUE) /\ UNCHANGED <<jobs, results, newest>>
    <3>1. job' \in [phase : {"error", "stopped"}, over : BOOLEAN, deleted : BOOLEAN]
      <4>1. /\ job' \in [phase : {"ok", "error", "stopped"}, over : BOOLEAN, deleted : BOOLEAN]
            /\ job'.phase # "ok"
        BY <2>4, EndsAJob
      <4>. QED  BY <4>1
    <3>2. JobTypes'
      BY <1>1, <2>3, <2>4, <3>1 DEF JobTypes
    <3>. QED  BY <1>1, <1>6, <1>7, <2>4, <3>1, <3>2 DEF Planned, SuccessIsComplete
  <2>5. ASSUME Versions(p) # {}, newest' = (CHOOSE b \in Versions(p) : \A c \in Versions(p) : c.ver <= b.ver).ver
        PROVE  newest' \in Nat /\ findInTrash(p).ver = newest'
    BY <2>5, LatestTrashed
  <2>6. CASE newest' \in Nat /\ EndWith(FALSE) /\ results' = [results EXCEPT !.skipped = {p}] /\ jobs' = jobs
    <3>1. job' \in [phase : {"ok", "error", "stopped"}, over : BOOLEAN, deleted : BOOLEAN]
      BY <2>6, EndsAJob
    <3>2. results'.skipped = {p} /\ results'.restored = {}
      BY <1>8, <2>6
    <3>3. JobTypes'
      BY <1>1, <1>8, <2>3, <2>6, <3>1 DEF JobTypes
    <3>4. SuccessIsComplete'
      BY <1>1, <1>4, <2>1, <2>3, <3>2 DEF SuccessIsComplete
    <3>. QED  BY <1>1, <1>6, <2>6, <3>1, <3>2, <3>3, <3>4 DEF Planned
  <2>7. CASE /\ newest' \in Nat /\ findInTrash(p).ver = newest' /\ results' = results
             /\ jobs' = {[p |-> p, ver |-> findInTrash(p).ver]} /\ job' = [job EXCEPT !.phase = "fetch"]
    <3>1. job' \in [phase : {"fetch"}, over : BOOLEAN, deleted : BOOLEAN]
      BY <2>7 DEF JobTypes
    <3>2. JobTypes'
      BY <1>1, <2>3, <2>7, <3>1 DEF JobTypes
    <3>3. Reported' = {}
      BY <1>7, <2>7 DEF Reported
    <3>4. jobs' \subseteq [p : Path, ver : Nat] /\ \A j \in jobs' : j.p = p /\ j.ver = newest'
      BY <2>7
    <3>5. wanted' \subseteq Underway'
      BY <2>3, <2>7 DEF Underway
    <3>6. SuccessIsComplete'
      BY <3>1 DEF SuccessIsComplete
    <3>. QED  BY <1>1, <1>6, <1>7, <2>1, <2>3, <2>7, <3>1, <3>2, <3>3, <3>4, <3>5, <3>6 DEF Planned
  <2>. QED  BY <2>3, <2>4, <2>5, <2>6, <2>7
<1>. QED  BY <1>9, <1>10

LEMMA KillKeepsAll ==
    ASSUME RestoreInv, Kill
    PROVE  RestoreInv'
<1>. USE DEF RestoreInv, RestoreTypes
<1>1. /\ job' = NoRestore /\ jobs' = {} /\ results' = NoResults /\ before' = disk /\ kills' = kills + 1 /\ kills \in Nat
      /\ fetching' = [w \in Fetcher |-> Idle] /\ got' = [w \in Fetcher |-> 0]
      /\ temps' = {[t EXCEPT !.owner = Absent] : t \in temps}
      /\ picked' = {} /\ listing' = {} /\ stop' = FALSE /\ wanted' = {} /\ newest' = 0
      /\ UNCHANGED <<stored, binned, stores, disk, slips>>
  BY DEF Kill, storageVars, JobTypes
<1>2. StorageTypes' /\ JobTypes'
  <2>1. StorageTypes'
    BY <1>1 DEF StorageTypes
  <2>2. /\ NoRestore \in [phase : {"none"}, over : BOOLEAN, deleted : BOOLEAN]
        /\ NoResults \in [skipped : SUBSET Path, restored : SUBSET Path, failed : SUBSET Path, mismatched : SUBSET Path]
    BY DEF NoRestore, NoResults
  <2>3. /\ job' \in [phase : {"none", "list", "fetch", "ok", "error", "stopped"}, over : BOOLEAN, deleted : BOOLEAN]
        /\ job'.phase # "list"
    BY <1>1, <2>2
  <2>4. results' \in [skipped : SUBSET Path, restored : SUBSET Path, failed : SUBSET Path, mismatched : SUBSET Path]
    BY <1>1, <2>2
  <2>5. picked' \subseteq Path /\ listing' \subseteq Path /\ wanted' \subseteq Path /\ stop' \in BOOLEAN
    BY <1>1
  <2>6. newest' \in Nat /\ slips' \in Nat /\ kills' \in Nat
    BY <1>1 DEF JobTypes
  <2>7. JobTypes'
    BY <2>3, <2>4, <2>5, <2>6 DEF JobTypes
  <2>. QED  BY <2>1, <2>7
<1>3. \A t \in temps' : t \in [owner : {Absent}, path : Path, whole : BOOLEAN]
  <2>1. \A t \in [owner : Fetcher \cup {Absent}, path : Path, whole : BOOLEAN] :
            [t EXCEPT !.owner = Absent] \in [owner : {Absent}, path : Path, whole : BOOLEAN]
    OBVIOUS
  <2>. QED  BY <1>1, <2>1 DEF FetchTypes
<1>4. FetchTypes'
  <2>1. temps' \subseteq [owner : Fetcher \cup {Absent}, path : Path, whole : BOOLEAN]
    BY <1>3
  <2>. QED  BY <1>1, <2>1 DEF FetchTypes
<1>5. \A w \in Fetcher : fetching'[w].step = "idle"
  BY <1>1 DEF Idle
<1>6. OneAtPath' /\ OwnFilesKept' /\ SuccessIsComplete'
  BY <1>1, <1>5 DEF OneAtPath, OwnFilesKept, SuccessIsComplete, BusyAt, NoRestore
<1>7. TempsOwned'
  <2>1. \A t \in temps' : t.owner = Absent
    BY <1>3
  <2>2. kills' # 0
    BY <1>1
  <2>. QED  BY <1>5, <2>1, <2>2 DEF TempsOwned
<1>8. \A w \in Fetcher : WorkerKeeps(w)'
  BY <1>5 DEF WorkerKeeps
<1>. QED  BY <1>1, <1>2, <1>4, <1>6, <1>7, <1>8 DEF NoRestore, NoResults

LEMMA WorldKeepsAll ==
    ASSUME RestoreInv, NEW p \in Path, Store(p) \/ TrashDelete(p) \/ Save(p)
    PROVE  RestoreInv'
<1>. USE DEF RestoreInv, RestoreTypes
<1>1. /\ UNCHANGED <<temps, listing, job, picked, jobs, fetching, got, results, stop, before, wanted, newest, slips, kills>>
      /\ StorageTypes'
  <2>1. CASE Save(p)
    BY <2>1 DEF Save, storageVars, jobVars, StorageTypes
  <2>2. CASE Store(p) \/ TrashDelete(p)
    BY <2>2, WorldStores DEF Store, TrashDelete, jobVars
  <2>. QED  BY <2>1, <2>2
<1>2. /\ disk' \in [Path -> Entry] /\ touched \subseteq touched'
      /\ \A q \in Path \ touched' : disk'[q] = disk[q]
  <2>1. CASE Save(p)
    <3>1. Own \in Entry /\ Nil \in Entry
      BY DEF Own, Nil, Entry
    <3>. QED  BY <2>1, <3>1 DEF Save, FetchTypes
  <2>2. CASE Store(p) \/ TrashDelete(p)
    BY <2>2 DEF Store, TrashDelete, FetchTypes
  <2>. QED  BY <2>1, <2>2
<1>3. JobTypes' /\ FetchTypes'
  BY <1>1, <1>2 DEF JobTypes, FetchTypes
<1>4. OneAtPath' /\ TempsOwned' /\ Underway' = Underway
  BY <1>1 DEF OneAtPath, TempsOwned, BusyAt, Reported, Underway
<1>5. OwnFilesKept'
  BY <1>1, <1>2 DEF OwnFilesKept
<1>6. SuccessIsComplete'
  <2>1. picked \subseteq Path /\ wanted \subseteq Path
    BY DEF JobTypes
  <2>. QED  BY <1>1, <1>2, <2>1 DEF SuccessIsComplete
<1>7. ASSUME NEW w \in Fetcher  PROVE WorkerKeeps(w)'
  <2>1. CASE BusyAt(w)
    <3>1. fetching[w].p \in Path
      BY <2>1 DEF FetchTypes, BusyAt, Idle
    <3>2. fetching[w].p \in touched' \/ (disk'[fetching[w].p] = disk[fetching[w].p] /\ fetching[w].p \notin touched)
      BY <1>2, <3>1
    <3>3. WorkerKeeps(w)
      OBVIOUS
    <3>. QED  BY <1>1, <3>2, <3>3 DEF WorkerKeeps, AsMet
  <2>2. CASE ~BusyAt(w)
    BY <1>1, <2>2 DEF WorkerKeeps, BusyAt
  <2>. QED  BY <2>1, <2>2
<1>8. ASSUME NEW j \in jobs  PROVE JobKeeps(j)'
  <2>1. j.p \in Path /\ JobKeeps(j)
    BY DEF FetchTypes
  <2>. QED  BY <1>1, <1>2, <2>1 DEF JobKeeps, AsMet
<1>9. ASSUME NEW q \in results.restored  PROVE RestoredHere(q)'
  <2>1. q \in Path /\ RestoredHere(q)
    BY DEF JobTypes
  <2>. QED  BY <1>1, <1>2, <2>1 DEF RestoredHere
<1>. QED  BY <1>1, <1>3, <1>4, <1>5, <1>6, <1>7, <1>8, <1>9

LEMMA RestoreKeepsAll == RestoreInv /\ [RestoreNext]_restoreVars => RestoreInv'
<1>. SUFFICES ASSUME RestoreInv, [RestoreNext]_restoreVars  PROVE RestoreInv'
  OBVIOUS
<1>1. CASE UNCHANGED restoreVars
  <2>. USE <1>1 DEF restoreVars, storageVars, jobVars, countVars, RestoreInv
  <2>1. StorageTypes' /\ JobTypes' /\ FetchTypes' /\ OneAtPath' /\ TempsOwned' /\ Underway' = Underway
    BY DEF RestoreTypes, StorageTypes, JobTypes, FetchTypes, OneAtPath, TempsOwned, BusyAt, Reported, Underway
  <2>2. OwnFilesKept' /\ SuccessIsComplete'
    BY DEF OwnFilesKept, SuccessIsComplete
  <2>3. \A w \in Fetcher : WorkerKeeps(w)'
    BY DEF WorkerKeeps, AsMet
  <2>4. (\A j \in jobs : JobKeeps(j)') /\ (\A p \in results.restored : RestoredHere(p)')
    BY DEF JobKeeps, AsMet, RestoredHere
  <2>. QED  BY <2>1, <2>2, <2>3, <2>4 DEF RestoreTypes
<1>2. CASE RestoreNext
  BY <1>2, FetchKeepsAll, AsksKeepAll, PlanKeepsAll, FinishKeepsAll, KillKeepsAll, WorldKeepsAll DEF RestoreNext, RestoreGoesOn
<1>. QED  BY <1>1, <1>2

\* Every variable of a restore keeps its type: a path, a version, a step.
THEOREM RestoreKeepsTypes == RestoreSpec => []RestoreTypeOK
<1>1. RestoreInv => RestoreTypeOK
  <2>. SUFFICES ASSUME RestoreInv  PROVE RestoreTypeOK
    OBVIOUS
  <2>. USE DEF RestoreInv, RestoreTypes
  <2>1. stored \in [Path -> Nat] /\ got \in [Fetcher -> Nat]
    BY DEF StorageTypes, FetchTypes
  <2>2. disk \in [Path -> [kind : {"none", "file", "link"}, ver : Nat, whole : BOOLEAN]]
    BY DEF FetchTypes, Entry
  <2>3. listing \subseteq Path /\ picked \subseteq Path /\ job.phase \in {"none", "list", "fetch", "ok", "error", "stopped"}
    BY DEF JobTypes
  <2>4. \A w \in Fetcher : fetching[w].step \in {"idle", "get", "copy", "place", "verify", "unlink", "link"}
    BY DEF FetchTypes, FetchSteps, Idle
  <2>. QED  BY <2>1, <2>2, <2>3, <2>4 DEF RestoreTypeOK
<1>. QED  BY <1>1, RestoreStarts, RestoreKeepsAll, PTL DEF RestoreSpec

\* A restore leaves what is on the disk as it was or puts a whole object there,
\* with any number of workers, stops, failures, kills and changes by the owner of
\* the disk: a file not to be overwritten stays, and one reported failed does
\* (restoreFile's temporary file and rename).
THEOREM RestoresKeepOwn == RestoreSpec => []OwnFilesKept
<1>1. RestoreInv => OwnFilesKept
  BY DEF RestoreInv
<1>. QED  BY <1>1, RestoreStarts, RestoreKeepsAll, PTL DEF RestoreSpec

\* A restore that says it went well brought back all it was asked for, and of a
\* deleted file the version trashed last (runWorkers, findInTrash).
THEOREM SuccessIsWhole == RestoreSpec => []SuccessIsComplete
<1>1. RestoreInv => SuccessIsComplete
  BY DEF RestoreInv
<1>. QED  BY <1>1, RestoreStarts, RestoreKeepsAll, PTL DEF RestoreSpec

(***************************************************************************)
(* What a backup leaves out: paths.                                        *)
(***************************************************************************)
Node == KeyPath \cup {<< >>}

LEMMA PathShape ==
    \A p \in Node : /\ Len(p) \in 0..Depth /\ p \in [1..Len(p) -> 1..Width] /\ p \in Seq(Nat)
                    /\ (p = << >> <=> Len(p) = 0) /\ (p # << >> <=> p \in KeyPath)
                    /\ DOMAIN p = 1..Len(p)
<1>1. ASSUME NEW p \in KeyPath
      PROVE  /\ Len(p) \in 1..Depth /\ p \in [1..Len(p) -> 1..Width] /\ p \in Seq(Nat)
             /\ DOMAIN p = 1..Len(p) /\ p # << >>
  <2>1. PICK n \in 1..Depth : p \in [1..n -> 1..Width]
    BY DEF KeyPath
  <2>2. n \in Nat /\ p \in Seq(Nat) /\ Len(p) = n /\ DOMAIN p = 1..n
    BY <2>1, PickerAssumption
  <2>. QED  BY <2>1, <2>2
<1>2. /\ Len(<< >>) \in 0..Depth /\ << >> \in [1..0 -> 1..Width] /\ << >> \in Seq(Nat) /\ Len(<< >>) = 0
      /\ DOMAIN << >> = 1..0
  BY PickerAssumption
<1>3. << >> \notin KeyPath
  BY <1>1
<1>4. ASSUME NEW p \in Node
      PROVE  /\ Len(p) \in 0..Depth /\ p \in [1..Len(p) -> 1..Width] /\ p \in Seq(Nat)
             /\ (p = << >> <=> Len(p) = 0) /\ (p # << >> <=> p \in KeyPath) /\ DOMAIN p = 1..Len(p)
  <2>1. CASE p \in KeyPath
    BY <1>1, <1>3, <2>1, PickerAssumption
  <2>2. CASE p = << >>
    BY <1>2, <1>3, <2>2
  <2>. QED  BY <2>1, <2>2 DEF Node
<1>. QED  BY <1>4

\* Paths with the same names are the same.
LEMMA SamePath ==
    ASSUME NEW p \in Node, NEW q \in Node, Len(p) = Len(q), \A i \in 1..Len(p) : p[i] = q[i]
    PROVE  p = q
<1>1. /\ p \in [1..Len(p) -> 1..Width] /\ q \in [1..Len(q) -> 1..Width]
  BY PathShape
<1>2. p = [i \in 1..Len(p) |-> p[i]] /\ q = [i \in 1..Len(p) |-> q[i]]
  BY <1>1
<1>. QED  BY <1>2

LEMMA PrefixOf ==
    ASSUME NEW p \in Node, NEW k \in 0..Len(p)
    PROVE  /\ SubSeq(p, 1, k) \in Node /\ Len(SubSeq(p, 1, k)) = k /\ Under(p, SubSeq(p, 1, k))
           /\ \A i \in 1..k : SubSeq(p, 1, k)[i] = p[i]
<1>. DEFINE q == SubSeq(p, 1, k)
<1>1. /\ Len(p) \in Nat /\ Len(p) <= Depth /\ Depth \in Nat /\ p \in [1..Len(p) -> 1..Width] /\ p \in Seq(Nat)
      /\ k \in Nat /\ k <= Len(p)
  BY PathShape, PickerAssumption
<1>2. Len(q) = k /\ DOMAIN q = 1..k /\ q \in Seq(Nat) /\ \A i \in 1..k : q[i] = p[i]
  BY <1>1
<1>3. q \in [1..k -> 1..Width]
  <2>1. q = [i \in 1..k |-> q[i]]
    BY <1>2
  <2>2. \A i \in 1..k : q[i] \in 1..Width
    BY <1>1, <1>2
  <2>. HIDE DEF q
  <2>. QED  BY <2>1, <2>2
<1>4. q \in Node
  <2>1. CASE k = 0
    BY <1>2, <2>1 DEF Node
  <2>2. CASE k # 0
    <3>1. k \in 1..Depth
      BY <1>1, <2>2
    <3>. HIDE DEF q
    <3>. QED  BY <1>3, <3>1 DEF Node, KeyPath
  <2>. QED  BY <2>1, <2>2
<1>. QED  BY <1>1, <1>2, <1>4 DEF Under

LEMMA UnderOrder ==
    /\ \A p \in Node : Under(p, p) /\ Under(p, << >>)
    /\ \A p, q \in Node : Under(p, q) => Len(q) <= Len(p) /\ q = SubSeq(p, 1, Len(q))
    /\ \A p, q \in Node : Under(p, q) /\ Len(p) <= Len(q) => p = q
    /\ \A p, q, r \in Node : Under(p, q) /\ Under(q, r) => Under(p, r)
    /\ \A p, q, r \in Node : Under(p, q) /\ Under(p, r) /\ Len(r) <= Len(q) => Under(q, r)
<1>1. \A p \in Node : Under(p, p) /\ Under(p, << >>)
  BY PathShape DEF Under
<1>2. \A p, q \in Node : Under(p, q) => Len(q) <= Len(p) /\ \A i \in 1..Len(q) : p[i] = q[i]
  BY PathShape DEF Under
<1>3. ASSUME NEW p \in Node, NEW q \in Node, Under(p, q)
      PROVE  Len(q) <= Len(p) /\ q = SubSeq(p, 1, Len(q)) /\ (Len(p) <= Len(q) => p = q)
  <2>1. Len(q) \in 0..Len(p)
    BY <1>2, <1>3, PathShape
  <2>2. q = SubSeq(p, 1, Len(q))
    <3>. DEFINE r == SubSeq(p, 1, Len(q))
    <3>1. r \in Node /\ Len(r) = Len(q) /\ \A i \in 1..Len(q) : r[i] = p[i]
      BY <2>1, PrefixOf
    <3>2. \A i \in 1..Len(q) : r[i] = q[i]
      BY <1>2, <1>3, <3>1
    <3>. HIDE DEF r
    <3>3. r = q
      BY <3>1, <3>2, SamePath
    <3>. QED  BY <3>3 DEF r
  <2>3. Len(p) <= Len(q) => p = q
    BY <1>2, <1>3, SamePath, PathShape
  <2>. QED  BY <2>1, <2>2, <2>3, PathShape
<1>4. ASSUME NEW p \in Node, NEW q \in Node, NEW r \in Node, Under(p, q), Under(q, r)
      PROVE  Under(p, r)
  BY <1>4, PathShape DEF Under
<1>5. ASSUME NEW p \in Node, NEW q \in Node, NEW r \in Node, Under(p, q), Under(p, r), Len(r) <= Len(q)
      PROVE  Under(q, r)
  <2>1. \A i \in 1..Len(r) : i \in 1..Len(q)
    BY <1>5, PathShape
  <2>2. \A i \in 1..Len(r) : q[i] = r[i]
    BY <1>2, <1>5, <2>1
  <2>. QED  BY <1>5, <2>2, PathShape DEF Under
<1>. QED  BY <1>1, <1>3, <1>4, <1>5

\* What is above a path is on one line.
LEMMA Ancestors ==
    ASSUME NEW p \in Node, NEW k \in 0..Len(p), NEW j \in 0..k
    PROVE  SubSeq(SubSeq(p, 1, k), 1, j) = SubSeq(p, 1, j)
<1>. DEFINE q == SubSeq(p, 1, k)
            a == SubSeq(q, 1, j)
            b == SubSeq(p, 1, j)
<1>1. q \in Node /\ Len(q) = k /\ \A i \in 1..k : q[i] = p[i]
  BY PrefixOf
<1>2. j \in 0..Len(p) /\ j \in 0..Len(q) /\ \A i \in 1..j : i \in 1..k
  BY <1>1, PathShape
<1>3. b \in Node /\ Len(b) = j /\ \A i \in 1..j : b[i] = p[i]
  BY <1>2, PrefixOf
<1>. HIDE DEF q
<1>4. a \in Node /\ Len(a) = j /\ \A i \in 1..j : a[i] = q[i]
  BY <1>1, <1>2, PrefixOf
<1>5. \A i \in 1..j : a[i] = b[i]
  BY <1>1, <1>2, <1>3, <1>4
<1>. HIDE DEF a, b
<1>6. a = b
  BY <1>3, <1>4, <1>5, SamePath
<1>. QED  BY <1>6 DEF a, b, q
LEMMA OnOneLine ==
    ASSUME NEW p \in Node, NEW q \in Node, NEW r \in Node, Under(p, q), Under(p, r), Len(r) <= Len(q)
    PROVE  Under(q, r)
BY UnderOrder

(***************************************************************************)
(* The tree.                                                               *)
(***************************************************************************)
Tree(d) == d \subseteq KeyPath /\ Short(d)
Said(d, w, n) ==
    IF Leaves(d, n) \cap w = Leaves(d, n) THEN "on" ELSE IF Leaves(d, n) \cap w = {} THEN "off" ELSE "partial"
AllSaid(d, w) == [n \in Nodes(d) |-> Said(d, w, n)]
AllTotals(d, w) == [n \in Nodes(d) |-> Leaves(d, n) \cap w]

LEMMA TreeNodes ==
    ASSUME NEW d, Tree(d)
    PROVE  /\ Nodes(d) \subseteq Node /\ << >> \in Nodes(d) /\ d \subseteq Nodes(d) /\ d \subseteq Node
           /\ \A n \in Nodes(d), k \in Nat : k <= Len(n) => SubSeq(n, 1, k) \in Nodes(d)
           /\ \A n \in Nodes(d) : n # << >> => \E p \in d : Under(p, n)
           /\ Leaves(d, << >>) = d
           /\ d # {} => \A n \in Nodes(d) : Leaves(d, n) # {}
           /\ d = {} => Nodes(d) = {<< >>}
<1>1. Nodes(d) \subseteq Node /\ << >> \in Nodes(d) /\ d \subseteq Node /\ (d = {} => Nodes(d) = {<< >>})
  BY DEF Nodes, Node, Tree
<1>2. d \subseteq Nodes(d) /\ Leaves(d, << >>) = d
  BY <1>1, UnderOrder DEF Nodes, Leaves, Tree
<1>3. \A n \in Nodes(d) : n # << >> => \E p \in d : Under(p, n)
  BY DEF Nodes
<1>4. ASSUME NEW n \in Nodes(d), NEW k \in Nat, k <= Len(n) PROVE SubSeq(n, 1, k) \in Nodes(d)
  <2>1. k \in 0..Len(n) /\ n \in Node
    BY <1>1, <1>4, PathShape
  <2>2. SubSeq(n, 1, k) \in Node /\ Under(n, SubSeq(n, 1, k)) /\ Len(SubSeq(n, 1, k)) = k
    BY <2>1, PrefixOf
  <2>3. CASE k = 0
    BY <1>1, <2>2, <2>3, PathShape
  <2>4. CASE k # 0
    <3>1. n # << >>
      BY <2>1, <2>4, PathShape
    <3>2. PICK p \in d : Under(p, n)
      BY <1>3, <3>1
    <3>3. Under(p, SubSeq(n, 1, k))
      BY <1>1, <2>1, <2>2, <3>2, UnderOrder
    <3>4. SubSeq(n, 1, k) \in KeyPath
      BY <2>2, <2>4, PathShape
    <3>. QED  BY <3>3, <3>4 DEF Nodes
  <2>. QED  BY <2>3, <2>4
<1>5. d # {} => \A n \in Nodes(d) : Leaves(d, n) # {}
  BY <1>2, <1>3 DEF Leaves
<1>. QED  BY <1>1, <1>2, <1>3, <1>4, <1>5

\* What is in a directory is in what it holds, and what holds nothing is a leaf.
LEMMA TreeKids ==
    ASSUME NEW d, Tree(d), NEW n \in Nodes(d), NEW kids, kids = Kids(Nodes(d), n)
    PROVE  /\ \A k \in kids : k \in Nodes(d) /\ Len(k) = Len(n) + 1 /\ Leaves(d, k) \subseteq Leaves(d, n)
           /\ kids = {} /\ d # {} => n \in d /\ Leaves(d, n) = {n}
           /\ kids # {} => d # {} /\ Leaves(d, n) = UNION {Leaves(d, k) : k \in kids}
<1>1. \A k \in kids : k \in Nodes(d) /\ Len(k) = Len(n) + 1 /\ Under(k, n)
  BY DEF Kids
<1>2. n \in Node /\ Nodes(d) \subseteq Node /\ d \subseteq Nodes(d)
  BY TreeNodes
<1>3. \A k \in kids : Leaves(d, k) \subseteq Leaves(d, n)
  BY <1>1, <1>2, UnderOrder DEF Leaves
\* A leaf below n is n, or below one of what n holds.
<1>4. ASSUME NEW p \in d, Under(p, n), p # n PROVE \E k \in kids : Under(p, k)
  <2>1. Len(p) \in Nat /\ Len(n) \in Nat /\ Len(n) < Len(p)
    BY <1>2, <1>4, UnderOrder, PathShape
  <2>. DEFINE k == SubSeq(p, 1, Len(n) + 1)
  <2>2. Len(n) + 1 \in 0..Len(p) /\ p \in Node
    BY <1>2, <2>1
  <2>3. k \in Node /\ Len(k) = Len(n) + 1 /\ Under(p, k)
    BY <2>2, PrefixOf
  <2>4. k \in Nodes(d)
    BY <1>2, <2>1, TreeNodes
  <2>5. Under(k, n)
    <3>1. Len(n) <= Len(k) /\ n \in Node /\ k \in Node /\ p \in Node
      BY <1>2, <2>1, <2>2, <2>3
    <3>. HIDE DEF k
    <3>. QED  BY <1>4, <2>3, <3>1, UnderOrder
  <2>. HIDE DEF k
  <2>. QED  BY <2>3, <2>4, <2>5 DEF Kids
<1>5. ASSUME kids = {}, d # {} PROVE n \in d /\ Leaves(d, n) = {n}
  <2>1. Leaves(d, n) # {}
    BY <1>5, TreeNodes
  <2>. QED  BY <1>4, <1>5, <2>1 DEF Leaves
<1>6. ASSUME kids # {} PROVE d # {} /\ n \notin d
  <2>1. PICK k \in kids : k \in Nodes(d) /\ Len(k) = Len(n) + 1 /\ Under(k, n)
    BY <1>1, <1>6
  <2>2. k # << >>
    BY <1>2, <2>1, PathShape
  <2>3. PICK p \in d : Under(p, k)
    BY <2>1, <2>2, TreeNodes
  <2>4. Under(p, n) /\ Len(k) <= Len(p)
    BY <1>2, <2>1, <2>3, UnderOrder
  <2>5. p # n
    BY <1>2, <2>1, <2>4, PathShape
  <2>. QED  BY <2>4, <2>5 DEF Tree, Short
<1>7. ASSUME kids # {} PROVE Leaves(d, n) = UNION {Leaves(d, k) : k \in kids}
  <2>1. \A p \in Leaves(d, n) : \E k \in kids : p \in Leaves(d, k)
    BY <1>4, <1>6, <1>7 DEF Leaves
  <2>. QED  BY <1>3, <2>1
<1>. QED  BY <1>1, <1>3, <1>5, <1>6, <1>7

\* A directory says what its children say, and counts what they count.
LEMMA SaysAsKids ==
    ASSUME NEW d, Tree(d), NEW w, NEW n \in Nodes(d), Kids(Nodes(d), n) # {}, NEW c,
           \A k \in Kids(Nodes(d), n) : c[k] = Said(d, w, k)
    PROVE  Derived(c, Kids(Nodes(d), n)) = Said(d, w, n)
<1>. DEFINE kids == Kids(Nodes(d), n)
<1>1. /\ Leaves(d, n) = UNION {Leaves(d, k) : k \in kids}
      /\ \A k \in kids : k \in Nodes(d) /\ Leaves(d, k) # {}
  BY TreeKids, TreeNodes
<1>2. \A p : p \in Leaves(d, n) <=> \E k \in kids : p \in Leaves(d, k)
  BY <1>1
<1>3. \A k \in kids : /\ c[k] = "on" <=> \A p \in Leaves(d, k) : p \in w
                      /\ c[k] = "off" <=> \A p \in Leaves(d, k) : p \notin w
  BY <1>1 DEF Said
<1>4. (\A k \in kids : c[k] = "on") <=> Leaves(d, n) \cap w = Leaves(d, n)
  BY <1>2, <1>3
<1>5. (\A k \in kids : c[k] = "off") <=> Leaves(d, n) \cap w = {}
  BY <1>2, <1>3
<1>. QED  BY <1>4, <1>5 DEF Derived, Said

LEMMA CountsAsKids ==
    ASSUME NEW d, Tree(d), NEW w, NEW n \in Nodes(d), Kids(Nodes(d), n) # {}, NEW s,
           \A k \in Kids(Nodes(d), n) : s[k] = Leaves(d, k) \cap w
    PROVE  Sum(s, Kids(Nodes(d), n)) = Leaves(d, n) \cap w
<1>1. Leaves(d, n) = UNION {Leaves(d, k) : k \in Kids(Nodes(d), n)}
  BY TreeKids
<1>. QED  BY <1>1 DEF Sum

\* What holds of a directory when it does of all it holds, holds of all.
LEMMA ByHeight ==
    ASSUME NEW d, Tree(d), NEW S, \A n \in Nodes(d) : Kids(Nodes(d), n) \subseteq S => n \in S
    PROVE  Nodes(d) \subseteq S
<1>. DEFINE T == {Len(n) : n \in Nodes(d) \ S}
<1>1. SUFFICES ASSUME T # {} PROVE FALSE
  OBVIOUS
<1>2. T \subseteq 0..Depth /\ Depth \in Nat
  BY TreeNodes, PathShape, PickerAssumption
<1>. HIDE DEF T
<1>3. PICK m \in T : \A k \in T : k <= m
  BY <1>1, <1>2, HasGreatest
<1>4. PICK n \in Nodes(d) \ S : Len(n) = m
  BY DEF T
<1>5. PICK k \in Kids(Nodes(d), n) : k \notin S
  BY <1>4
<1>6. k \in Nodes(d) /\ Len(k) = m + 1
  BY <1>4, <1>5, TreeKids
<1>7. m + 1 \in T
  BY <1>5, <1>6 DEF T
<1>. QED  BY <1>2, <1>3, <1>7

\* A tree opened on some rules says of every box and total what the leaves they spare say.
LEMMA OpensSaid ==
    ASSUME NEW d, Tree(d), NEW rules, rules \subseteq KeyPath, NEW w, w = {p \in d : ~Covered(rules, p)}
    PROVE  OpenedWith(d, rules) = AllSaid(d, w)
<1>. DEFINE nodes == Nodes(d)
            F(g) == [n \in nodes |-> IF Kids(nodes, n) = {} THEN IF Covered(rules, n) THEN "off" ELSE "on"
                                     ELSE Derived(g, Kids(nodes, n))]
            c == CHOOSE g : g = F(g)
<1>1. \A n \in nodes : Kids(nodes, n) = {} => Said(d, w, n) = IF Covered(rules, n) THEN "off" ELSE "on"
  <2> SUFFICES ASSUME NEW n \in nodes, Kids(nodes, n) = {}
               PROVE  Said(d, w, n) = IF Covered(rules, n) THEN "off" ELSE "on"
    OBVIOUS
  <2>1. CASE d = {}
    <3>1. n = << >> /\ Leaves(d, n) = {}
      BY <2>1, TreeNodes DEF Leaves
    <3>2. ~Covered(rules, << >>)
      <4>1. SUFFICES ASSUME NEW r \in rules, Under(<< >>, r) PROVE FALSE
        BY DEF Covered
      <4>2. r \in Node /\ r # << >> /\ << >> \in Node
        BY PathShape DEF Node
      <4>. QED  BY <4>1, <4>2, PathShape, UnderOrder
    <3>. QED  BY <3>1, <3>2 DEF Said
  <2>2. CASE d # {}
    <3>1. n \in d /\ Leaves(d, n) = {n}
      BY <2>2, TreeKids
    <3>. QED  BY <3>1 DEF Said
  <2>. QED  BY <2>1, <2>2
<1>2. \A n \in nodes : \A g : Kids(nodes, n) # {} /\ (\A k \in Kids(nodes, n) : g[k] = Said(d, w, k))
                          => Derived(g, Kids(nodes, n)) = Said(d, w, n)
  BY SaysAsKids
<1>3. \A n \in nodes : Kids(nodes, n) \subseteq nodes
  BY DEF Kids
<1>4. AllSaid(d, w) = F(AllSaid(d, w))
  <2>1. \A n \in nodes : AllSaid(d, w)[n] = F(AllSaid(d, w))[n]
    BY <1>1, <1>2, <1>3 DEF AllSaid
  <2>. QED  BY <2>1 DEF AllSaid
<1>5. c = F(c)
  BY <1>4
<1>6. \A n \in nodes : c[n] = IF Kids(nodes, n) = {} THEN IF Covered(rules, n) THEN "off" ELSE "on"
                              ELSE Derived(c, Kids(nodes, n))
  <2>. HIDE DEF c
  <2>1. \A n \in nodes : c[n] = F(c)[n]
    BY <1>5
  <2>. QED  BY <2>1
<1>7. DOMAIN c = nodes /\ c = [n \in nodes |-> c[n]]
  <2>. HIDE DEF c
  <2>. QED  BY <1>5
<1>8. OpenedWith(d, rules) = c
  BY DEF OpenedWith
<1>. HIDE DEF c
<1>. DEFINE S == {n \in nodes : c[n] = Said(d, w, n)}
<1>9. nodes \subseteq S
  <2>1. \A n \in nodes : Kids(nodes, n) \subseteq S => n \in S
    BY <1>1, <1>2, <1>6
  <2>. HIDE DEF S
  <2>. QED  BY <2>1, ByHeight
<1>. QED  BY <1>7, <1>8, <1>9 DEF AllSaid

LEMMA OpensTotals ==
    ASSUME NEW d, Tree(d), NEW w \in SUBSET d
    PROVE  SelectedOf(d, AllSaid(d, w)) = AllTotals(d, w)
<1>. DEFINE nodes == Nodes(d)
            F(g) == [n \in nodes |-> IF Kids(nodes, n) = {} THEN {p \in d : p = n /\ AllSaid(d, w)[n] = "on"}
                                     ELSE Sum(g, Kids(nodes, n))]
            s == CHOOSE g : g = F(g)
<1>1. \A n \in nodes : Kids(nodes, n) = {} => Leaves(d, n) \cap w = {p \in d : p = n /\ AllSaid(d, w)[n] = "on"}
  <2> SUFFICES ASSUME NEW n \in nodes, Kids(nodes, n) = {}
               PROVE  Leaves(d, n) \cap w = {p \in d : p = n /\ AllSaid(d, w)[n] = "on"}
    OBVIOUS
  <2>1. CASE d = {}
    BY <2>1 DEF Leaves
  <2>2. CASE d # {}
    <3>1. n \in d /\ Leaves(d, n) = {n}
      BY <2>2, TreeKids
    <3>. QED  BY <3>1 DEF Said, AllSaid
  <2>. QED  BY <2>1, <2>2
<1>2. \A n \in nodes : \A g : Kids(nodes, n) # {} /\ (\A k \in Kids(nodes, n) : g[k] = Leaves(d, k) \cap w)
                          => Sum(g, Kids(nodes, n)) = Leaves(d, n) \cap w
  BY CountsAsKids
<1>3. \A n \in nodes : Kids(nodes, n) \subseteq nodes
  BY DEF Kids
<1>4. AllTotals(d, w) = F(AllTotals(d, w))
  <2>1. \A n \in nodes : AllTotals(d, w)[n] = F(AllTotals(d, w))[n]
    BY <1>1, <1>2, <1>3 DEF AllTotals
  <2>. QED  BY <2>1 DEF AllTotals
<1>5. s = F(s)
  BY <1>4
<1>6. \A n \in nodes : s[n] = IF Kids(nodes, n) = {} THEN {p \in d : p = n /\ AllSaid(d, w)[n] = "on"}
                              ELSE Sum(s, Kids(nodes, n))
  <2>. HIDE DEF s
  <2>1. \A n \in nodes : s[n] = F(s)[n]
    BY <1>5
  <2>. QED  BY <2>1
<1>7. s = [n \in nodes |-> s[n]]
  <2>. HIDE DEF s
  <2>. QED  BY <1>5
<1>8. SelectedOf(d, AllSaid(d, w)) = s
  BY DEF SelectedOf
<1>. HIDE DEF s
<1>. DEFINE S == {n \in nodes : s[n] = Leaves(d, n) \cap w}
<1>9. nodes \subseteq S
  <2>1. \A n \in nodes : Kids(nodes, n) \subseteq S => n \in S
    BY <1>1, <1>2, <1>6
  <2>. HIDE DEF S
  <2>. QED  BY <2>1, ByHeight
<1>. QED  BY <1>7, <1>8, <1>9 DEF AllTotals

(***************************************************************************)
(* A box is checked or unchecked.                                          *)
(***************************************************************************)
Boxes == picking /\ Tree(leaves) /\ want \subseteq leaves
         /\ (leaves # {} => check = AllSaid(leaves, want) /\ selected = AllTotals(leaves, want))

\* What is on the way to n, from depth k on, is as it was.
OnTheWay(n, k, m) == Under(n, m) /\ Len(m) < k
WayUp(n, w, k) ==
    [check    |-> [m \in Nodes(leaves) |-> IF OnTheWay(n, k, m) THEN check[m] ELSE Said(leaves, w, m)],
     selected |-> [m \in Nodes(leaves) |-> IF OnTheWay(n, k, m) THEN selected[m] ELSE Leaves(leaves, m) \cap w]]

\* Beside n, and below it, all is said once its boxes are.
LEMMA FillSays ==
    ASSUME Boxes, leaves # {}, NEW n \in Nodes(leaves), NEW on \in BOOLEAN, NEW w,
           w = IF on THEN want \cup Leaves(leaves, n) ELSE want \ Leaves(leaves, n)
    PROVE  Filled(n, IF on THEN "on" ELSE "off") = WayUp(n, w, Len(n))
<1>. DEFINE state == IF on THEN "on" ELSE "off"
            nodes == Nodes(leaves)
<1>1. /\ Tree(leaves) /\ DOMAIN check = nodes /\ nodes \subseteq Node /\ leaves \subseteq Node /\ n \in Node
      /\ \A m \in nodes : check[m] = Said(leaves, want, m) /\ selected[m] = Leaves(leaves, m) \cap want
      /\ \A m \in nodes : Leaves(leaves, m) # {}
  BY TreeNodes DEF Boxes, AllSaid, AllTotals
<1>2. ASSUME NEW m \in nodes, Under(m, n)
      PROVE  /\ state = Said(leaves, w, m) /\ ~OnTheWay(n, Len(n), m)
             /\ (IF state = "on" THEN Leaves(leaves, m) ELSE {}) = Leaves(leaves, m) \cap w
  <2>1. Leaves(leaves, m) \subseteq Leaves(leaves, n)
    BY <1>1, <1>2, UnderOrder DEF Leaves
  <2>2. ~OnTheWay(n, Len(n), m)
    BY <1>1, <1>2, UnderOrder, PathShape DEF OnTheWay
  <2>3. Leaves(leaves, m) \cap w = IF on THEN Leaves(leaves, m) ELSE {}
    BY <2>1
  <2>. QED  BY <1>1, <2>2, <2>3 DEF Said
<1>3. ASSUME NEW m \in nodes, ~Under(m, n), ~OnTheWay(n, Len(n), m)
      PROVE  Said(leaves, want, m) = Said(leaves, w, m) /\ Leaves(leaves, m) \cap want = Leaves(leaves, m) \cap w
  <2>1. ~Under(n, m)
    <3>1. SUFFICES ASSUME Under(n, m) PROVE FALSE
      OBVIOUS
    <3>2. Len(n) <= Len(m)
      BY <1>1, <1>3, <3>1, PathShape DEF OnTheWay
    <3>. QED  BY <1>1, <1>3, <3>1, <3>2, UnderOrder
  <2>2. Leaves(leaves, m) \cap Leaves(leaves, n) = {}
    <3>1. SUFFICES ASSUME NEW p \in leaves, Under(p, m), Under(p, n) PROVE FALSE
      BY DEF Leaves
    <3>2. Len(m) <= Len(n) \/ Len(n) <= Len(m)
      BY <1>1, PathShape
    <3>. QED  BY <1>1, <1>3, <2>1, <3>1, <3>2, UnderOrder
  <2>3. Leaves(leaves, m) \cap want = Leaves(leaves, m) \cap w
    BY <2>2
  <2>. QED  BY <2>3 DEF Said
<1>4. ASSUME NEW m \in nodes, OnTheWay(n, Len(n), m) PROVE ~Under(m, n)
  BY <1>1, <1>4, UnderOrder, PathShape DEF OnTheWay
<1>5. \A m \in nodes : Filled(n, state).check[m] = WayUp(n, w, Len(n)).check[m]
  BY <1>1, <1>2, <1>3, <1>4 DEF Filled, WayUp
<1>6. \A m \in nodes : Filled(n, state).selected[m] = WayUp(n, w, Len(n)).selected[m]
  BY <1>1, <1>2, <1>3, <1>4 DEF Filled, WayUp
<1>. QED  BY <1>1, <1>5, <1>6 DEF Filled, WayUp

\* The last directory but k - 1 looked at again.
OneUp(u, n, k) ==
    LET a == SubSeq(n, 1, k)
    IN [check |-> [u.check EXCEPT ![a] = Derived(u.check, Kids(DOMAIN check, a))],
        selected |-> [u.selected EXCEPT ![a] = Sum(u.selected, Kids(DOMAIN check, a))]]
\* One directory further up.
LEMMA UpOne ==
    ASSUME Boxes, leaves # {}, NEW n \in Nodes(leaves), NEW w, NEW k \in 0..Len(n) - 1
    PROVE  WayUp(n, w, k) = OneUp(WayUp(n, w, k + 1), n, k)
<1>0. PICK a : a = SubSeq(n, 1, k)
  OBVIOUS
<1>. DEFINE nodes == Nodes(leaves)
            kids == Kids(nodes, a)
            c == WayUp(n, w, k + 1).check
            s == WayUp(n, w, k + 1).selected
<1>1. /\ Tree(leaves) /\ DOMAIN check = nodes /\ nodes \subseteq Node /\ n \in Node
      /\ Len(n) \in Nat /\ k \in Nat /\ k + 1 <= Len(n) /\ k <= Len(n)
  <2>1. Tree(leaves) /\ DOMAIN check = nodes /\ nodes \subseteq Node
    BY TreeNodes DEF Boxes, AllSaid
  <2>2. Len(n) \in Nat
    BY <2>1, PathShape
  <2>. QED  BY <2>1, <2>2
<1>2. a \in nodes /\ a \in Node /\ Len(a) = k /\ Under(n, a)
  BY <1>0, <1>1, TreeNodes, PrefixOf
<1>3. kids # {}
  <2>. DEFINE b == SubSeq(n, 1, k + 1)
  <2>1. k + 1 \in 0..Len(n)
    BY <1>1
  <2>2. b \in nodes /\ b \in Node /\ Len(b) = k + 1 /\ Under(n, b)
    BY <1>1, <2>1, TreeNodes, PrefixOf
  <2>. HIDE DEF b
  <2>3. Under(b, a)
    <3>1. Len(a) <= Len(b)
      BY <1>1, <1>2, <2>2
    <3>. QED  BY <1>1, <1>2, <2>2, <3>1, OnOneLine
  <2>. QED  BY <1>2, <2>2, <2>3 DEF Kids
<1>4. \A m \in kids : m \in nodes /\ Len(m) = k + 1
  BY <1>2 DEF Kids
<1>5. \A m \in nodes : /\ c[m] = IF OnTheWay(n, k + 1, m) THEN check[m] ELSE Said(leaves, w, m)
                       /\ s[m] = IF OnTheWay(n, k + 1, m) THEN selected[m] ELSE Leaves(leaves, m) \cap w
  BY DEF WayUp
<1>6. \A m \in kids : c[m] = Said(leaves, w, m) /\ s[m] = Leaves(leaves, m) \cap w
  <2> SUFFICES ASSUME NEW m \in kids PROVE c[m] = Said(leaves, w, m) /\ s[m] = Leaves(leaves, m) \cap w
    OBVIOUS
  <2>1. m \in nodes /\ ~(Len(m) < k + 1)
    BY <1>1, <1>4
  <2>2. ~OnTheWay(n, k + 1, m)
    BY <2>1 DEF OnTheWay
  <2>. HIDE DEF c, s
  <2>. QED  BY <1>5, <2>1, <2>2
<1>7. DOMAIN c = nodes /\ DOMAIN s = nodes
  BY DEF WayUp
<1>. HIDE DEF c, s
<1>8. Derived(c, kids) = Said(leaves, w, a) /\ Sum(s, kids) = Leaves(leaves, a) \cap w
  <2>1. Derived(c, kids) = Said(leaves, w, a)
    BY <1>1, <1>2, <1>3, <1>6, SaysAsKids
  <2>2. Sum(s, kids) = Leaves(leaves, a) \cap w
    BY <1>1, <1>2, <1>3, <1>6, CountsAsKids
  <2>. QED  BY <2>1, <2>2
<1>9. \A m \in nodes \ {a} : OnTheWay(n, k, m) <=> OnTheWay(n, k + 1, m)
  <2>1. SUFFICES ASSUME NEW m \in nodes \ {a}, Under(n, m), Len(m) = k PROVE FALSE
    BY <1>1, PathShape DEF OnTheWay
  <2>. QED  BY <1>1, <1>2, <2>1, UnderOrder
<1>10. ~OnTheWay(n, k, a)
  BY <1>1, <1>2 DEF OnTheWay
<1>11. WayUp(n, w, k).check = [c EXCEPT ![a] = Derived(c, kids)]
  <2>1. \A m \in nodes : WayUp(n, w, k).check[m] = [c EXCEPT ![a] = Derived(c, kids)][m]
    BY <1>2, <1>5, <1>7, <1>8, <1>9, <1>10 DEF WayUp
  <2>2. DOMAIN WayUp(n, w, k).check = nodes
    BY DEF WayUp
  <2>3. WayUp(n, w, k).check = [m \in nodes |-> WayUp(n, w, k).check[m]]
    BY DEF WayUp
  <2>. QED  BY <1>7, <2>1, <2>3
<1>12. WayUp(n, w, k).selected = [s EXCEPT ![a] = Sum(s, kids)]
  <2>1. \A m \in nodes : WayUp(n, w, k).selected[m] = [s EXCEPT ![a] = Sum(s, kids)][m]
    BY <1>2, <1>5, <1>7, <1>8, <1>9, <1>10 DEF WayUp
  <2>3. WayUp(n, w, k).selected = [m \in nodes |-> WayUp(n, w, k).selected[m]]
    BY DEF WayUp
  <2>. QED  BY <1>7, <2>1, <2>3
<1>13. WayUp(n, w, k) = [check |-> WayUp(n, w, k).check, selected |-> WayUp(n, w, k).selected]
  BY DEF WayUp
<1>. QED  BY <1>0, <1>1, <1>11, <1>12, <1>13 DEF c, s, OneUp

\* recalcAncestors, after setSubtree, leaves every box and total said.
LEMMA RecalculatedSays ==
    ASSUME Boxes, leaves # {}, NEW n \in Nodes(leaves), NEW w
    PROVE  LET t == Recalculated(n, WayUp(n, w, Len(n)))
           IN t.check = AllSaid(leaves, w) /\ t.selected = AllTotals(leaves, w)
<1>. DEFINE l == Len(n)
            t == WayUp(n, w, l)
            Up(u, k) == OneUp(u, n, k)
            F(g) == [k \in 0..l |-> IF k = l THEN t ELSE Up(g[k + 1], k)]
            up == CHOOSE g : g = F(g)
            w0 == [k \in 0..l |-> WayUp(n, w, k)]
<1>1. l \in Nat
  BY TreeNodes, PathShape DEF Boxes
<1>2. \A k \in 0..l : k # l => WayUp(n, w, k) = Up(WayUp(n, w, k + 1), k)
  <2>1. \A k \in 0..l : k # l => k \in 0..Len(n) - 1
    BY <1>1
  <2>. QED  BY <2>1, UpOne
<1>. HIDE DEF Up
<1>3. w0 = F(w0)
  <2>1. \A k \in 0..l : w0[k] = F(w0)[k]
    <3> SUFFICES ASSUME NEW k \in 0..l PROVE w0[k] = F(w0)[k]
      OBVIOUS
    <3>1. CASE k = l
      BY <3>1
    <3>2. CASE k # l
      <4>1. k + 1 \in 0..l
        BY <1>1, <3>2
      <4>. QED  BY <1>2, <3>2, <4>1
    <3>. QED  BY <3>1, <3>2
  <2>. QED  BY <2>1
<1>4. up = F(up)
  <2>. HIDE DEF w0
  <2>. QED  BY <1>3
<1>5. Recalculated(n, t) = up[0]
  BY DEF Recalculated, Up, OneUp
<1>. HIDE DEF up
<1>6. \A k \in 0..l : up[k] = IF k = l THEN t ELSE Up(up[k + 1], k)
  <2>1. \A k \in 0..l : up[k] = F(up)[k]
    BY <1>4
  <2>. QED  BY <2>1
<1>7. \A k \in 0..l : up[k] = WayUp(n, w, k)
  <2>. DEFINE T == {k \in 0..l : up[k] # WayUp(n, w, k)}
  <2>1. SUFFICES ASSUME T # {} PROVE FALSE
    OBVIOUS
  <2>2. PICK m \in T : \A k \in T : k <= m
    <3>1. T \subseteq 0..l
      OBVIOUS
    <3>. HIDE DEF T
    <3>. QED  BY <1>1, <2>1, <3>1, HasGreatest
  <2>3. m # l
    BY <1>6
  <2>4. m + 1 \in 0..l /\ m + 1 \notin T
    BY <1>1, <2>2, <2>3
  <2>5. up[m + 1] = WayUp(n, w, m + 1)
    BY <2>4
  <2>. QED  BY <1>2, <1>6, <2>3, <2>5
<1>8. \A m \in Nodes(leaves) : ~OnTheWay(n, 0, m)
  BY TreeNodes, PathShape DEF OnTheWay, Boxes
<1>9. up[0] = WayUp(n, w, 0)
  BY <1>1, <1>7
<1>10. up[0].check = AllSaid(leaves, w) /\ up[0].selected = AllTotals(leaves, w)
  BY <1>8, <1>9 DEF WayUp, AllSaid, AllTotals
<1>. QED  BY <1>5, <1>10

(***************************************************************************)
(* The rules the boxes say.                                                *)
(***************************************************************************)
LEMMA HasLeast ==
    ASSUME NEW n \in Nat, NEW T, T \subseteq 0..n, T # {}
    PROVE  \E x \in T : \A y \in T : x <= y
<1>. DEFINE D == {n - y : y \in T}
<1>0. \A y \in T : y \in 0..n
  OBVIOUS
<1>1. D \subseteq 0..n /\ D # {}
  <2>1. ASSUME NEW y \in T  PROVE n - y \in 0..n
    <3>1. y \in 0..n
      BY <1>0
    <3>. QED  BY <3>1
  <2>. QED  BY <2>1
<1>. HIDE DEF D
<1>2. PICK m \in D : \A d \in D : d <= m
  BY <1>1, HasGreatest
<1>3. PICK x \in T : m = n - x
  BY DEF D
<1>4. \A y \in T : n - y \in D
  BY DEF D
<1>5. \A y \in T : x <= y
  <2> SUFFICES ASSUME NEW y \in T PROVE x <= y
    OBVIOUS
  <2>1. n - y <= n - x /\ x \in 0..n /\ y \in 0..n
    BY <1>2, <1>3, <1>4
  <2>. QED  BY <2>1
<1>. QED  BY <1>5

\* Above what is unchecked whole, all is partly checked.
LEMMA RulesAreShort ==
    ASSUME Tree(leaves), DOMAIN check = Nodes(leaves)
    PROVE  ComputeExcludes \subseteq KeyPath /\ Short(ComputeExcludes)
<1>1. ComputeExcludes \subseteq KeyPath /\ ComputeExcludes \subseteq Node
  BY TreeNodes, PathShape DEF ComputeExcludes
<1>2. ASSUME NEW p \in ComputeExcludes, NEW q \in ComputeExcludes, Under(p, q) PROVE p = q
  <2>1. SUFFICES ASSUME p # q PROVE FALSE
    OBVIOUS
  <2>2. Len(q) \in 1..Len(p) - 1 /\ q = SubSeq(p, 1, Len(q))
    <3>1. q = SubSeq(p, 1, Len(q)) /\ ~(Len(p) <= Len(q)) /\ q # << >>
      BY <1>1, <1>2, <2>1, UnderOrder, PathShape
    <3>2. Len(q) \in Nat /\ Len(p) \in Nat /\ Len(q) # 0
      BY <1>1, <3>1, PathShape
    <3>. QED  BY <3>1, <3>2
  <2>3. check[q] = "partial"
    BY <2>2, Zenon DEF ComputeExcludes
  <2>. QED  BY <2>3 DEF ComputeExcludes
<1>. QED  BY <1>1, <1>2 DEF Short

\* The list that would be saved leaves out what is unchecked, and no more.
LEMMA RulesSay ==
    ASSUME Boxes, leaves # {}, NEW p \in leaves
    PROVE  Covered(ComputeExcludes, p) <=> p \notin want
<1>. DEFINE nodes == Nodes(leaves)
<1>1. /\ Tree(leaves) /\ DOMAIN check = nodes /\ p \in nodes /\ nodes \subseteq Node /\ p \in Node
      /\ \A n \in nodes : check[n] = Said(leaves, want, n)
  BY TreeNodes DEF Boxes, AllSaid
<1>2. ASSUME NEW n \in nodes, Under(p, n)
      PROVE  /\ check[n] = "off" => p \notin want
             /\ p \notin want => check[n] # "on" /\ (check[n] = "off" \/ check[n] = "partial")
  BY <1>1, <1>2 DEF Said, Leaves
<1>3. ASSUME Covered(ComputeExcludes, p) PROVE p \notin want
  <2>1. PICK r \in ComputeExcludes : Under(p, r)
    BY <1>3 DEF Covered
  <2>2. r \in nodes /\ check[r] = "off"
    BY <1>1 DEF ComputeExcludes
  <2>. QED  BY <1>2, <2>1, <2>2
<1>4. ASSUME p \notin want PROVE Covered(ComputeExcludes, p)
  <2>. DEFINE Upto(k) == SubSeq(p, 1, k)
              T == {k \in 1..Len(p) : check[Upto(k)] = "off"}
  <2>1. Len(p) \in Nat /\ Len(p) # 0
    BY <1>1, PathShape DEF Tree
  <2>2. \A k \in 1..Len(p) : /\ Upto(k) \in nodes /\ Under(p, Upto(k)) /\ Len(Upto(k)) = k /\ Upto(k) # << >>
                             /\ check[Upto(k)] = "off" \/ check[Upto(k)] = "partial"
    <3> SUFFICES ASSUME NEW k \in 1..Len(p)
                 PROVE  /\ Upto(k) \in nodes /\ Under(p, Upto(k)) /\ Len(Upto(k)) = k /\ Upto(k) # << >>
                        /\ check[Upto(k)] = "off" \/ check[Upto(k)] = "partial"
      OBVIOUS
    <3>1. k \in 0..Len(p) /\ k \in Nat /\ k <= Len(p) /\ k # 0
      BY <2>1
    <3>2. Upto(k) \in nodes /\ Under(p, Upto(k)) /\ Len(Upto(k)) = k
      BY <1>1, <3>1, TreeNodes, PrefixOf
    <3>. HIDE DEF Upto
    <3>3. Upto(k) # << >>
      BY <1>1, <3>1, <3>2, PathShape
    <3>. QED  BY <1>2, <1>4, <3>2, <3>3
  <2>3. Upto(Len(p)) = p
    BY <1>1, UnderOrder
  <2>4. Len(p) \in T
    <3>1. Leaves(leaves, p) = {p}
      <4>1. \A q \in leaves : Under(q, p) => q = p
        BY <1>1 DEF Tree, Short
      <4>. QED  BY <1>1, <4>1, UnderOrder DEF Leaves
    <3>2. check[p] = "off"
      BY <1>1, <1>4, <3>1 DEF Said
    <3>3. Len(p) \in 1..Len(p) /\ check[Upto(Len(p))] = "off"
      <4>. HIDE DEF Upto
      <4>. QED  BY <2>1, <2>3, <3>2
    <3>. QED  BY <3>3
  <2>5. PICK k \in T : \A j \in T : k <= j
    <3>1. T \subseteq 0..Len(p) /\ T # {}
      BY <2>1, <2>4
    <3>. HIDE DEF T
    <3>. QED  BY <2>1, <3>1, HasLeast
  <2>6. k \in 1..Len(p) /\ check[Upto(k)] = "off"
    OBVIOUS
  <2>7. \A j \in 1..k - 1 : check[SubSeq(Upto(k), 1, j)] = "partial"
    <3> SUFFICES ASSUME NEW j \in 1..k - 1 PROVE check[SubSeq(Upto(k), 1, j)] = "partial"
      OBVIOUS
    <3>1. j \in 1..Len(p) /\ j \in 0..k /\ ~(k <= j) /\ k \in 0..Len(p) /\ j \in 0..Len(p)
      BY <2>1, <2>6
    <3>2. SubSeq(Upto(k), 1, j) = Upto(j)
      BY <1>1, <3>1, Ancestors
    <3>3. j \notin T
      BY <2>5, <3>1
    <3>. QED  BY <2>2, <3>1, <3>2, <3>3
  <2>8. Upto(k) \in ComputeExcludes
    <3>1. Upto(k) \in nodes \ {<< >>} /\ Len(Upto(k)) = k
      BY <2>2, <2>6
    <3>. HIDE DEF Upto, T
    <3>. QED  BY <1>1, <2>6, <2>7, <3>1 DEF ComputeExcludes
  <2>. QED  BY <2>2, <2>6, <2>8 DEF Covered
<1>. QED  BY <1>3, <1>4

(***************************************************************************)
(* The order of the rows.                                                  *)
(***************************************************************************)
LEMMA KeyPathFinite == IsFiniteSet(KeyPath)
<1>. DEFINE R == (1..Depth) \X (1..Width)
            G(p) == {<<i, p[i]>> : i \in DOMAIN p}
            g == [p \in KeyPath |-> G(p)]
<1>1. IsFiniteSet(SUBSET R)
  <2>1. IsFiniteSet(1..Depth) /\ IsFiniteSet(1..Width)
    BY PickerAssumption, FS_Interval
  <2>2. IsFiniteSet(R)
    BY <2>1, FS_Product
  <2>. HIDE DEF R
  <2>. QED  BY <2>2, FS_SUBSET
<1>2. \A p \in KeyPath : p \in Node /\ p \in [1..Len(p) -> 1..Width] /\ DOMAIN p = 1..Len(p) /\ Len(p) \in 0..Depth
  BY PathShape DEF Node
<1>3. \A p \in KeyPath : G(p) \in SUBSET R
  BY <1>2, PickerAssumption
<1>4. ASSUME NEW p \in KeyPath, NEW q \in KeyPath, G(p) = G(q) PROVE p = q
  <2>1. \A i \in DOMAIN p : i \in DOMAIN q /\ p[i] = q[i]
    <3> SUFFICES ASSUME NEW i \in DOMAIN p PROVE i \in DOMAIN q /\ p[i] = q[i]
      OBVIOUS
    <3>1. <<i, p[i]>> \in G(q)
      BY <1>4
    <3>. QED  BY <3>1
  <2>2. \A i \in DOMAIN q : i \in DOMAIN p
    <3> SUFFICES ASSUME NEW i \in DOMAIN q PROVE i \in DOMAIN p
      OBVIOUS
    <3>1. <<i, q[i]>> \in G(p)
      BY <1>4
    <3>. QED  BY <3>1
  <2>3. DOMAIN p = DOMAIN q
    BY <2>1, <2>2
  <2>4. p = [i \in DOMAIN p |-> p[i]] /\ q = [i \in DOMAIN p |-> q[i]]
    BY <1>2, <2>3
  <2>. QED  BY <2>1, <2>4
<1>5. g \in Injection(KeyPath, SUBSET R)
  <2>1. g \in [KeyPath -> SUBSET R]
    BY <1>3
  <2>2. \A p, q \in KeyPath : g[p] = g[q] => p = q
    BY <1>4
  <2>. HIDE DEF g
  <2>. QED  BY <2>1, <2>2 DEF Injection, IsInjective
<1>. QED  BY <1>1, <1>5, FS_Injection

LEMMA BeforeOrder ==
    /\ \A m, n \in Node : ~(Before(m, n) /\ Before(n, m)) /\ ~Before(m, m)
    /\ \A m, n \in Node : m = n \/ Before(m, n) \/ Before(n, m)
    /\ \A m, n, o \in Node : Before(m, n) /\ Before(n, o) => Before(m, o)
<1>. DEFINE Differ(m, n, i) == i \in DOMAIN m /\ i \in DOMAIN n /\ m[i] < n[i] /\ \A j \in 1..i - 1 : m[j] = n[j]
            Above(m, n) == m # n /\ Under(n, m)
<1>0. \A m, n : Before(m, n) <=> Above(m, n) \/ \E i : Differ(m, n, i)
  BY DEF Before
<1>1. \A m \in Node : /\ DOMAIN m = 1..Len(m) /\ Len(m) \in Nat
                      /\ \A i \in DOMAIN m : m[i] \in Nat /\ i \in Nat /\ i >= 1
  <2> SUFFICES ASSUME NEW m \in Node
               PROVE  /\ DOMAIN m = 1..Len(m) /\ Len(m) \in Nat
                      /\ \A i \in DOMAIN m : m[i] \in Nat /\ i \in Nat /\ i >= 1
    OBVIOUS
  <2>1. DOMAIN m = 1..Len(m) /\ Len(m) \in Nat /\ m \in [1..Len(m) -> 1..Width] /\ Width \in Nat
    BY PathShape, PickerAssumption
  <2>. QED  BY <2>1
<1>2. \A m, n \in Node : Above(m, n) => Len(m) < Len(n) /\ \A j \in 1..Len(m) : m[j] = n[j]
  BY <1>1, SamePath DEF Under
<1>. HIDE DEF Above, Differ
<1>3. ASSUME NEW m \in Node, NEW n \in Node, NEW o \in Node, Above(m, n), Above(n, o) PROVE Above(m, o)
  BY <1>2, <1>3, UnderOrder DEF Above
<1>4. ASSUME NEW m \in Node, NEW n \in Node, NEW o \in Node, Above(m, n), NEW i, Differ(n, o, i)
      PROVE  Above(m, o) \/ Differ(m, o, i)
  <2>1. /\ i \in DOMAIN n /\ i \in DOMAIN o /\ n[i] < o[i] /\ \A j \in 1..i - 1 : n[j] = o[j]
        /\ Len(m) \in Nat /\ i \in 1..Len(o) /\ i \in Nat /\ DOMAIN m = 1..Len(m)
        /\ \A j \in 1..Len(m) : m[j] = n[j]
    BY <1>1, <1>2, <1>4 DEF Differ
  <2>2. CASE i <= Len(m)
    <3>1. \A j \in 1..i - 1 : m[j] = n[j] /\ n[j] = o[j]
      BY <2>1, <2>2
    <3>2. i \in DOMAIN m /\ m[i] = n[i]
      BY <1>1, <2>1, <2>2
    <3>. QED  BY <2>1, <3>1, <3>2 DEF Differ
  <2>3. CASE i > Len(m)
    <3>1. \A j \in 1..Len(m) : m[j] = o[j]
      BY <2>1, <2>3
    <3>2. Len(m) < Len(o) /\ Len(o) \in Nat /\ m # o
      BY <1>1, <2>1, <2>3
    <3>3. Under(o, m)
      BY <2>1, <3>1, <3>2 DEF Under
    <3>. QED  BY <3>2, <3>3 DEF Above
  <2>. QED  BY <2>1, <2>2, <2>3
<1>5. ASSUME NEW m \in Node, NEW n \in Node, NEW o \in Node, NEW i, Differ(m, n, i), Above(n, o)
      PROVE  Differ(m, o, i)
  <2>1. /\ i \in DOMAIN m /\ i \in 1..Len(n) /\ m[i] < n[i] /\ \A j \in 1..i - 1 : m[j] = n[j]
        /\ Len(n) < Len(o) /\ \A j \in 1..Len(n) : n[j] = o[j]
    BY <1>1, <1>2, <1>5 DEF Differ
  <2>2. Len(n) \in Nat /\ Len(o) \in Nat /\ DOMAIN o = 1..Len(o)
    BY <1>1
  <2>3. i \in DOMAIN o /\ n[i] = o[i] /\ \A j \in 1..i - 1 : n[j] = o[j]
    BY <2>1, <2>2
  <2>. QED  BY <2>1, <2>3 DEF Differ
<1>6. ASSUME NEW m \in Node, NEW n \in Node, NEW o \in Node, NEW i, NEW k, Differ(m, n, i), Differ(n, o, k)
      PROVE  Differ(m, o, i) \/ Differ(m, o, k)
  <2>1. /\ i \in DOMAIN m /\ i \in DOMAIN n /\ m[i] < n[i] /\ \A j \in 1..i - 1 : m[j] = n[j]
        /\ k \in DOMAIN n /\ k \in DOMAIN o /\ n[k] < o[k] /\ \A j \in 1..k - 1 : n[j] = o[j]
    BY <1>6 DEF Differ
  <2>2. /\ i \in Nat /\ k \in Nat /\ i >= 1 /\ k >= 1
        /\ DOMAIN m = 1..Len(m) /\ DOMAIN n = 1..Len(n) /\ DOMAIN o = 1..Len(o)
        /\ Len(m) \in Nat /\ Len(n) \in Nat /\ Len(o) \in Nat
        /\ m[i] \in Nat /\ n[i] \in Nat /\ n[k] \in Nat /\ o[k] \in Nat
    BY <1>1, <2>1
  <2>3. CASE i < k
    <3>1. n[i] = o[i] /\ i \in DOMAIN o /\ \A j \in 1..i - 1 : n[j] = o[j]
      BY <2>1, <2>2, <2>3
    <3>. QED  BY <2>1, <3>1 DEF Differ
  <2>4. CASE i = k
    <3>1. m[i] < o[i]
      BY <2>1, <2>2, <2>4
    <3>. QED  BY <2>1, <2>4, <3>1 DEF Differ
  <2>5. CASE i > k
    <3>1. m[k] = n[k] /\ k \in DOMAIN m /\ \A j \in 1..k - 1 : m[j] = n[j]
      BY <2>1, <2>2, <2>5
    <3>. QED  BY <2>1, <3>1 DEF Differ
  <2>. QED  BY <2>2, <2>3, <2>4, <2>5
<1>7. ASSUME NEW m \in Node, NEW n \in Node, NEW o \in Node, Before(m, n), Before(n, o) PROVE Before(m, o)
  BY <1>0, <1>3, <1>4, <1>5, <1>6, <1>7
<1>8. ASSUME NEW m \in Node PROVE ~Before(m, m)
  <2>1. ~Above(m, m)
    BY DEF Above
  <2>2. ASSUME NEW i, Differ(m, m, i) PROVE FALSE
    BY <1>1, <2>2 DEF Differ
  <2>. QED  BY <1>0, <2>1, <2>2
<1>9. ASSUME NEW m \in Node, NEW n \in Node, m # n PROVE Before(m, n) \/ Before(n, m)
  <2>. DEFINE T == {i \in 1..Len(m) : i <= Len(n) /\ m[i] # n[i]}
  <2>1. CASE T = {}
    <3>1. Len(m) <= Len(n) \/ Len(n) <= Len(m)
      BY <1>1
    <3>2. CASE Len(m) <= Len(n)
      <4>1. Under(n, m)
        BY <1>1, <2>1, <3>2 DEF Under
      <4>. QED  BY <1>0, <1>9, <4>1 DEF Above
    <3>3. CASE Len(n) <= Len(m)
      <4>1. Under(m, n)
        BY <1>1, <2>1, <3>3 DEF Under
      <4>. QED  BY <1>0, <1>9, <4>1 DEF Above
    <3>. QED  BY <3>1, <3>2, <3>3
  <2>2. CASE T # {}
    <3>1. PICK i \in T : \A j \in T : i <= j
      <4>1. T \subseteq 0..Len(m) /\ Len(m) \in Nat
        BY <1>1
      <4>. HIDE DEF T
      <4>. QED  BY <2>2, <4>1, HasLeast
    <3>2. \A j \in 1..i - 1 : m[j] = n[j]
      <4> SUFFICES ASSUME NEW j \in 1..i - 1, m[j] # n[j] PROVE FALSE
        OBVIOUS
      <4>1. j \in T
        BY <1>1
      <4>. QED  BY <1>1, <3>1, <4>1
    <3>3. i \in DOMAIN m /\ i \in DOMAIN n /\ m[i] \in Nat /\ n[i] \in Nat /\ m[i] # n[i]
      BY <1>1
    <3>4. Differ(m, n, i) \/ Differ(n, m, i)
      BY <3>2, <3>3 DEF Differ
    <3>. QED  BY <1>0, <3>4
  <2>. QED  BY <2>1, <2>2
<1>. QED  BY <1>7, <1>8, <1>9

\* Counted from the first, each row of a finite list has a place of its own, and
\* each place a row.
LEMMA RowsInOrder ==
    ASSUME NEW rows \in SUBSET KeyPath
    PROVE  /\ IsFiniteSet(rows) /\ Cardinality(rows) \in Nat /\ (rows # {} => Cardinality(rows) # 0)
           /\ \A n \in rows : RowOf(n, rows) \in 0..Cardinality(rows) - 1
           /\ \A i \in 0..Cardinality(rows) - 1 : \E n \in rows : RowOf(n, rows) = i
<1>. DEFINE N == Cardinality(rows)
            Ahead(n) == {m \in rows : Before(m, n)}
            g == [n \in rows |-> RowOf(n, rows)]
<1>1. IsFiniteSet(rows) /\ N \in Nat /\ (rows # {} => N # 0) /\ rows \subseteq Node
  BY KeyPathFinite, FS_Subset, FS_CardinalityType, FS_EmptySet DEF Node
<1>2. \A n \in rows : RowOf(n, rows) = Cardinality(Ahead(n))
  BY DEF RowOf
<1>3. \A n \in rows : Cardinality(Ahead(n)) \in Nat /\ Cardinality(Ahead(n)) < N
  <2> SUFFICES ASSUME NEW n \in rows PROVE Cardinality(Ahead(n)) \in Nat /\ Cardinality(Ahead(n)) < N
    OBVIOUS
  <2>1. Ahead(n) \in SUBSET rows /\ n \notin Ahead(n)
    BY <1>1, BeforeOrder
  <2>2. Ahead(n) # rows
    BY <2>1
  <2>. HIDE DEF Ahead
  <2>3. IsFiniteSet(Ahead(n)) /\ Cardinality(Ahead(n)) <= N /\ Cardinality(Ahead(n)) # N
    BY <1>1, <2>1, <2>2, FS_Subset
  <2>4. Cardinality(Ahead(n)) \in Nat
    BY <2>3, FS_CardinalityType
  <2>. QED  BY <1>1, <2>3, <2>4
<1>4. ASSUME NEW m \in rows, NEW n \in rows, Before(m, n)
      PROVE  Cardinality(Ahead(m)) # Cardinality(Ahead(n))
  <2>1. Ahead(m) \in SUBSET Ahead(n) /\ m \in Ahead(n) /\ m \notin Ahead(m) /\ Ahead(n) \in SUBSET rows
    BY <1>1, <1>4, BeforeOrder
  <2>2. Ahead(m) # Ahead(n)
    BY <2>1
  <2>. HIDE DEF Ahead
  <2>3. IsFiniteSet(Ahead(n))
    BY <1>1, <2>1, FS_Subset
  <2>. QED  BY <2>1, <2>2, <2>3, FS_Subset
<1>5. \A n \in rows : RowOf(n, rows) \in 0..N - 1
  <2> SUFFICES ASSUME NEW n \in rows PROVE RowOf(n, rows) \in 0..N - 1
    OBVIOUS
  <2>. DEFINE c == Cardinality(Ahead(n))
  <2>1. RowOf(n, rows) = c /\ c \in Nat /\ c < N /\ N \in Nat
    BY <1>1, <1>2, <1>3
  <2>. HIDE DEF c, N
  <2>. QED  BY <2>1
<1>6. g \in Injection(rows, 0..N - 1)
  <2>1. g \in [rows -> 0..N - 1]
    BY <1>5
  <2>2. \A m, n \in rows : g[m] = g[n] => m = n
    BY <1>1, <1>2, <1>4, BeforeOrder
  <2>. HIDE DEF g
  <2>. QED  BY <2>1, <2>2 DEF Injection, IsInjective
<1>7. IsFiniteSet(0..N - 1) /\ Cardinality(0..N - 1) = N
  BY <1>1, FS_Interval
<1>8. g \in Surjection(rows, 0..N - 1)
  <2>. HIDE DEF g, N
  <2>1. Cardinality(rows) = Cardinality(0..N - 1)
    BY <1>7 DEF N
  <2>. QED  BY <1>6, <1>7, <2>1, FS_Injection
<1>9. \A i \in 0..N - 1 : \E n \in rows : g[n] = i
  <2>. HIDE DEF g
  <2>. QED  BY <1>8 DEF Surjection
<1>. QED  BY <1>1, <1>5, <1>9

(***************************************************************************)
(* The picker from key to key.                                             *)
(***************************************************************************)
ViewOK ==
    /\ cursor \in Nat /\ offset \in Nat /\ height \in 1..MaxHeight
    /\ picking /\ Rows # {} => cursor < Cardinality(Rows) /\ offset <= cursor /\ cursor < offset + height
TreeOK ==
    /\ leaves \in Folders /\ expanded \subseteq Nodes(leaves) /\ want \subseteq leaves
    /\ picking => /\ check \in [Nodes(leaves) -> {"on", "off", "partial"}]
                  /\ selected \in [Nodes(leaves) -> SUBSET leaves]
                  /\ Boxes
RulesOK == excludes \subseteq KeyPath /\ Short(excludes) /\ picking \in BOOLEAN /\ edits \in 0..MaxEdits
PickInv == RulesOK /\ TreeOK /\ ViewOK

LEMMA PickInvSays == PickInv => PickTypeOK
BY DEF PickInv, RulesOK, TreeOK, ViewOK, PickTypeOK

LEMMA FoldersAreTrees == \A d \in Folders : Tree(d)
BY DEF Folders, Tree

\* The empty folder is one.
LEMMA NoFolder == {} \in Folders
<1>1. Short({}) /\ Cardinality({}) = 0 /\ 0 <= MaxLeaves
  BY FS_EmptySet, PickerAssumption DEF Short
<1>. QED  BY <1>1 DEF Folders

LEMMA SaidTyped ==
    ASSUME NEW d, NEW w
    PROVE  /\ AllSaid(d, w) \in [Nodes(d) -> {"on", "off", "partial"}]
           /\ AllTotals(d, w) \in [Nodes(d) -> SUBSET d]
BY DEF AllSaid, AllTotals, Said, Leaves

LEMMA RowsThere ==
    ASSUME PickInv, picking
    PROVE  /\ DOMAIN check = Nodes(leaves) /\ Tree(leaves) /\ Rows = Shown(expanded)
           /\ \A open : Shown(open) \subseteq KeyPath /\ Shown(open) \subseteq Nodes(leaves)
           /\ Rows # {} => leaves # {} /\ Current \in Rows /\ RowOf(Current, Rows) = cursor
<1>1. DOMAIN check = Nodes(leaves) /\ Tree(leaves) /\ Rows = Shown(expanded)
  BY FoldersAreTrees DEF PickInv, TreeOK, Rows
<1>2. \A open : Shown(open) \subseteq KeyPath /\ Shown(open) \subseteq Nodes(leaves) /\ << >> \notin Shown(open)
  BY <1>1, TreeNodes, PathShape DEF Shown
<1>3. ASSUME Rows # {} PROVE leaves # {} /\ Current \in Rows /\ RowOf(Current, Rows) = cursor
  <2>1. leaves # {}
    BY <1>1, <1>2, <1>3, TreeNodes
  <2>2. PICK rows : rows = Rows
    OBVIOUS
  <2>3. rows \in SUBSET KeyPath
    BY <1>1, <1>2, <2>2
  <2>4. Cardinality(rows) \in Nat /\ \A i \in 0..Cardinality(rows) - 1 : \E n \in rows : RowOf(n, rows) = i
    BY <2>3, RowsInOrder
  <2>5. cursor \in 0..Cardinality(rows) - 1
    BY <1>3, <2>2, <2>4 DEF PickInv, ViewOK
  <2>6. \E n \in rows : RowOf(n, rows) = cursor
    BY <2>4, <2>5
  <2>7. Current = CHOOSE n \in rows : RowOf(n, rows) = cursor
    BY <2>2 DEF Current
  <2>. QED  BY <2>1, <2>2, <2>6, <2>7
<1>. QED  BY <1>1, <1>2, <1>3

LEMMA RowOnScreen ==
    ASSUME NEW cur \in Nat, NEW top \in Nat, NEW h \in Nat \ {0}, NEW rows \in Nat, cur < rows
    PROVE  LET o == EnsureVisible(cur, top, h, rows) IN o \in Nat /\ o <= cur /\ cur < o + h
<1>. DEFINE near == IF cur < top THEN cur ELSE IF cur >= top + h THEN cur - h + 1 ELSE top
            last == IF rows > h THEN rows - h ELSE 0
<1>1. near \in Nat /\ near <= cur /\ cur < near + h
  OBVIOUS
<1>2. last \in Nat /\ cur < last + h
  OBVIOUS
<1>3. EnsureVisible(cur, top, h, rows) = IF near > last THEN last ELSE near
  BY DEF EnsureVisible
<1>. HIDE DEF near, last
<1>. QED  BY <1>1, <1>2, <1>3

\* The rows are looked at again from a cursor that is on one.
LEMMA LooksRight ==
    ASSUME PickInv, picking, StaysPicking, NEW cur \in Nat, NEW h \in 1..MaxHeight, NEW rows, rows = Shown(expanded'),
           LooksAt(cur, h, Cardinality(rows)), rows # {} => cur < Cardinality(rows)
    PROVE  ViewOK'
<1>1. Rows' = rows
  BY DEF StaysPicking, Rows, Shown
<1>2. IsFiniteSet(rows) /\ Cardinality(rows) \in Nat /\ (rows # {} => Cardinality(rows) # 0)
  <2>1. rows \in SUBSET KeyPath
    BY RowsThere
  <2>. QED  BY <2>1, RowsInOrder
<1>3. cursor' = cur /\ height' = h /\ h \in Nat \ {0} /\ offset \in Nat
  BY PickerAssumption DEF LooksAt, PickInv, ViewOK
<1>4. CASE rows = {}
  <2>1. offset' = 0
    BY <1>4, FS_EmptySet DEF LooksAt
  <2>. QED  BY <1>1, <1>3, <1>4, <2>1 DEF ViewOK
<1>5. CASE rows # {}
  <2>1. offset' = EnsureVisible(cur, offset, h, Cardinality(rows))
    BY <1>2, <1>5 DEF LooksAt
  <2>2. offset' \in Nat /\ offset' <= cur /\ cur < offset' + h
    BY <1>2, <1>3, <1>5, <2>1, RowOnScreen
  <2>. QED  BY <1>1, <1>3, <1>5, <2>2 DEF ViewOK
<1>. QED  BY <1>4, <1>5

LEMMA OpenRows ==
    ASSUME PickInv, picking, NEW open, Shown(expanded) \subseteq Shown(open)
    PROVE  Rows # {} => cursor < Cardinality(Shown(open))
<1>1. Shown(open) \in SUBSET KeyPath /\ Rows = Shown(expanded)
  BY RowsThere
<1>2. IsFiniteSet(Shown(open)) /\ Cardinality(Shown(open)) \in Nat
  BY <1>1, RowsInOrder
<1>3. Cardinality(Rows) <= Cardinality(Shown(open)) /\ Cardinality(Rows) \in Nat
  BY <1>1, <1>2, FS_Subset, FS_CardinalityType
<1>. QED  BY <1>2, <1>3 DEF PickInv, ViewOK

\* Closing a directory takes no row before its own.
LEMMA CloseRows ==
    ASSUME PickInv, picking, Rows # {}, Current \in expanded
    PROVE  cursor < Cardinality(Shown(expanded \ {Current})) /\ Shown(expanded \ {Current}) # {}
<1>1. PICK n, rows, less : n = Current /\ rows = Rows /\ less = Shown(expanded \ {n})
  OBVIOUS
<1>2. n \in rows /\ RowOf(n, rows) = cursor /\ rows \in SUBSET KeyPath /\ less \in SUBSET KeyPath
  BY <1>1, RowsThere
<1>3. rows \subseteq Node /\ rows = Shown(expanded)
  BY <1>1, <1>2, RowsThere DEF Node
<1>4. ASSUME NEW m \in rows, ~(Under(m, n) /\ m # n) PROVE m \in less
  <2>1. ASSUME NEW k \in 1..Len(m) - 1 PROVE SubSeq(m, 1, k) \in expanded /\ SubSeq(m, 1, k) # n
    <3>1. k \in 0..Len(m) /\ k < Len(m)
      BY <1>3, PathShape
    <3>2. Under(m, SubSeq(m, 1, k)) /\ Len(SubSeq(m, 1, k)) = k
      BY <1>3, <3>1, PrefixOf
    <3>3. SubSeq(m, 1, k) # m
      BY <3>1, <3>2
    <3>. QED  BY <1>3, <1>4, <3>2, <3>3 DEF Shown
  <2>. QED  BY <1>1, <1>3, <2>1 DEF Shown
<1>. DEFINE Ahead == {m \in rows : Before(m, n)}
<1>5. Ahead \subseteq less /\ n \in less /\ n \notin Ahead
  <2>1. \A m \in Ahead : ~(Under(m, n) /\ m # n)
    <3> SUFFICES ASSUME NEW m \in Ahead, Under(m, n), m # n PROVE FALSE
      OBVIOUS
    <3>1. Before(n, m) /\ Before(m, n)
      BY DEF Before
    <3>. QED  BY <1>2, <1>3, <3>1, BeforeOrder
  <2>2. n \notin Ahead
    BY <1>2, <1>3, BeforeOrder
  <2>. QED  BY <1>2, <1>4, <2>1, <2>2
<1>6. cursor = Cardinality(Ahead)
  BY <1>2 DEF RowOf
<1>7. IsFiniteSet(less) /\ Cardinality(less) \in Nat
  BY <1>2, RowsInOrder
<1>. HIDE DEF Ahead
<1>8. IsFiniteSet(Ahead) /\ Cardinality(Ahead) <= Cardinality(less) /\ Cardinality(Ahead) # Cardinality(less)
  BY <1>5, <1>7, FS_Subset
<1>9. Cardinality(Ahead) \in Nat
  BY <1>8, FS_CardinalityType
<1>. QED  BY <1>1, <1>5, <1>6, <1>7, <1>8, <1>9

LEMMA PickStarts == PickInit => PickInv
<1> SUFFICES ASSUME PickInit PROVE PickInv
  OBVIOUS
<1>1. RulesOK
  <2>1. excludes \subseteq KeyPath /\ Short(excludes) /\ picking = FALSE /\ edits = 0
    BY DEF PickInit
  <2>2. edits \in 0..MaxEdits
    BY <2>1, PickerAssumption
  <2>3. picking \in BOOLEAN
    BY <2>1
  <2>. QED  BY <2>1, <2>2, <2>3 DEF RulesOK
<1>2. TreeOK
  BY NoFolder DEF PickInit, TreeOK
<1>3. ViewOK
  BY DEF PickInit, ViewOK
<1>. QED  BY <1>1, <1>2, <1>3 DEF PickInv

LEMMA OpensRight ==
    ASSUME PickInv, NEW d \in Folders, OpensPicker(d)
    PROVE  PickInv'
<1>1. Tree(d) /\ excludes \subseteq KeyPath
  BY FoldersAreTrees DEF PickInv, RulesOK
<1>2. PICK w : w = {p \in d : ~Covered(excludes, p)}
  OBVIOUS
<1>3. check' = AllSaid(d, w) /\ selected' = AllTotals(d, w) /\ leaves' = d /\ want' = w /\ w \in SUBSET d
  BY <1>1, <1>2, OpensSaid, OpensTotals DEF OpensPicker
<1>4. RulesOK'
  BY PickerAssumption DEF OpensPicker, PickInv, RulesOK
<1>5. TreeOK'
  <2>1. Boxes'
    BY <1>1, <1>3 DEF OpensPicker, Boxes
  <2>2. expanded' = Nodes(d) \ d
    BY DEF OpensPicker
  <2>3. /\ AllSaid(d, w) \in [Nodes(d) -> {"on", "off", "partial"}]
        /\ AllTotals(d, w) \in [Nodes(d) -> SUBSET d]
    BY SaidTyped
  <2>. QED  BY <1>3, <2>1, <2>2, <2>3 DEF TreeOK
<1>6. ViewOK'
  <2>1. PICK rows : rows = Rows'
    OBVIOUS
  <2>2. rows \in SUBSET KeyPath
    <3>1. DOMAIN check' = Nodes(d)
      BY <1>3 DEF AllSaid
    <3>. QED  BY <1>1, <2>1, <3>1, TreeNodes, PathShape DEF Rows, Shown
  <2>3. Cardinality(rows) \in Nat /\ (rows # {} => Cardinality(rows) # 0)
    BY <2>2, RowsInOrder
  <2>4. cursor' = 0 /\ offset' = 0 /\ height' = height /\ height \in 1..MaxHeight
    BY DEF OpensPicker, PickInv, ViewOK
  <2>5. rows # {} => 0 < Cardinality(rows)
    BY <2>3
  <2>. QED  BY <2>1, <2>4, <2>5, PickerAssumption DEF ViewOK
<1>. QED  BY <1>4, <1>5, <1>6 DEF PickInv

LEMMA TogglesRight ==
    ASSUME PickInv, Toggle
    PROVE  PickInv'
<1>1. PICK n : n = Current
  OBVIOUS
<1>. DEFINE target == IF check[n] = "on" THEN "off" ELSE "on"
            on == check[n] # "on"
            w == IF Leaves(leaves, n) \subseteq want THEN want \ Leaves(leaves, n) ELSE want \cup Leaves(leaves, n)
            t == Recalculated(n, Filled(n, target))
<1>2. /\ picking /\ Rows # {} /\ check' = t.check /\ selected' = t.selected /\ want' = w
      /\ UNCHANGED <<excludes, picking, leaves, expanded, viewVars, edits>>
  BY <1>1 DEF Toggle
<1>3. n \in Nodes(leaves) /\ leaves # {} /\ Boxes /\ Tree(leaves)
  <2>1. n \in Rows /\ Rows \subseteq Nodes(leaves) /\ leaves # {}
    BY <1>1, <1>2, RowsThere
  <2>. QED  BY <1>2, <2>1 DEF PickInv, TreeOK, Boxes
<1>4. w = IF on THEN want \cup Leaves(leaves, n) ELSE want \ Leaves(leaves, n)
  <2>1. check[n] = Said(leaves, want, n)
    BY <1>3 DEF Boxes, AllSaid
  <2>2. check[n] = "on" <=> Leaves(leaves, n) \subseteq want
    BY <2>1 DEF Said
  <2>. QED  BY <2>2
<1>5. on \in BOOLEAN /\ target = IF on THEN "on" ELSE "off"
  OBVIOUS
<1>6. w \subseteq leaves
  BY <1>3 DEF Boxes, Leaves
<1>7. PICK w1, on1 : w1 = w /\ on1 = on
  OBVIOUS
<1>8. Filled(n, target) = WayUp(n, w1, Len(n))
  <2>. HIDE DEF w, on, target
  <2>1. target = IF on1 THEN "on" ELSE "off"
    BY <1>5, <1>7
  <2>2. on1 \in BOOLEAN /\ w1 = IF on1 THEN want \cup Leaves(leaves, n) ELSE want \ Leaves(leaves, n)
    BY <1>4, <1>5, <1>7
  <2>. QED  BY <1>3, <2>1, <2>2, FillSays
<1>9. t.check = AllSaid(leaves, w1) /\ t.selected = AllTotals(leaves, w1)
  <2>. HIDE DEF w, on, target
  <2>. QED  BY <1>3, <1>8, RecalculatedSays
<1>. HIDE DEF w, on, target, t
<1>10. check' = AllSaid(leaves, w1) /\ selected' = AllTotals(leaves, w1) /\ want' = w1 /\ leaves' = leaves
  BY <1>2, <1>7, <1>9
<1>11. TreeOK'
  BY <1>2, <1>3, <1>6, <1>7, <1>10, SaidTyped DEF PickInv, TreeOK, Boxes
<1>12. RulesOK'
  BY <1>2 DEF PickInv, RulesOK
<1>13. ViewOK'
  <2>1. Rows' = Rows
    <3>1. DOMAIN check' = DOMAIN check
      BY <1>2, <1>10, RowsThere DEF AllSaid
    <3>. QED  BY <1>2, <3>1 DEF Rows, Shown
  <2>. QED  BY <1>2, <2>1 DEF PickInv, ViewOK, viewVars
<1>. QED  BY <1>11, <1>12, <1>13 DEF PickInv

LEMMA SetsAllRight ==
    ASSUME PickInv, NEW state \in {"on", "off"}, SetAll(state)
    PROVE  PickInv'
<1>1. PICK w, on : /\ w = (IF state = "on" THEN leaves ELSE {}) /\ on \in BOOLEAN
                   /\ state = IF on THEN "on" ELSE "off"
  OBVIOUS
<1>2. /\ picking /\ check' = Filled(<< >>, state).check /\ selected' = Filled(<< >>, state).selected /\ want' = w
      /\ UNCHANGED <<excludes, picking, leaves, expanded, viewVars, edits>>
  BY <1>1 DEF SetAll
<1>3. /\ Boxes /\ Tree(leaves) /\ << >> \in Nodes(leaves) /\ Leaves(leaves, << >>) = leaves /\ want \subseteq leaves
      /\ DOMAIN check = Nodes(leaves) /\ Nodes(leaves) \subseteq Node
      /\ check \in [Nodes(leaves) -> {"on", "off", "partial"}] /\ selected \in [Nodes(leaves) -> SUBSET leaves]
  BY <1>2, TreeNodes DEF PickInv, TreeOK, Boxes
<1>4. ASSUME leaves # {} PROVE check' = AllSaid(leaves, w) /\ selected' = AllTotals(leaves, w)
  <2>1. w = IF on THEN want \cup Leaves(leaves, << >>) ELSE want \ Leaves(leaves, << >>)
    BY <1>1, <1>3
  <2>2. Filled(<< >>, state) = WayUp(<< >>, w, Len(<< >>))
    BY <1>1, <1>3, <1>4, <2>1, FillSays
  <2>3. \A m \in Nodes(leaves) : ~OnTheWay(<< >>, Len(<< >>), m)
    BY <1>3, PathShape DEF OnTheWay
  <2>4. WayUp(<< >>, w, Len(<< >>)).check = AllSaid(leaves, w)
    BY <2>3 DEF WayUp, AllSaid
  <2>5. WayUp(<< >>, w, Len(<< >>)).selected = AllTotals(leaves, w)
    BY <2>3 DEF WayUp, AllTotals
  <2>. QED  BY <1>2, <2>2, <2>4, <2>5
<1>5. check' \in [Nodes(leaves) -> {"on", "off", "partial"}] /\ selected' \in [Nodes(leaves) -> SUBSET leaves]
  BY <1>2, <1>3 DEF Filled, Leaves
<1>6. TreeOK'
  <2>1. Boxes'
    BY <1>1, <1>2, <1>3, <1>4 DEF Boxes
  <2>. QED  BY <1>1, <1>2, <1>5, <2>1 DEF PickInv, TreeOK
<1>7. RulesOK'
  BY <1>2 DEF PickInv, RulesOK
<1>8. ViewOK'
  <2>1. Rows' = Rows
    <3>1. DOMAIN check' = DOMAIN check
      BY <1>3, <1>5
    <3>. QED  BY <1>2, <3>1 DEF Rows, Shown
  <2>. QED  BY <1>2, <2>1 DEF PickInv, ViewOK, viewVars
<1>. QED  BY <1>6, <1>7, <1>8 DEF PickInv

\* Moving and folding up leave the tree and its boxes.
LEMMA KeysKeepTree ==
    ASSUME PickInv, picking, StaysPicking, expanded' \subseteq Nodes(leaves), ViewOK'
    PROVE  PickInv'
<1>1. RulesOK'
  BY DEF StaysPicking, PickInv, RulesOK
<1>2. TreeOK'
  BY DEF StaysPicking, PickInv, TreeOK, Boxes
<1>. QED  BY <1>1, <1>2 DEF PickInv

LEMMA MovesRight ==
    ASSUME PickInv, MovesCursor \/ Collapses \/ Expands \/ Resized
    PROVE  PickInv'
<1>0. picking /\ StaysPicking /\ expanded \subseteq Nodes(leaves) /\ cursor \in Nat /\ height \in 1..MaxHeight
  BY DEF MovesCursor, Collapses, Expands, Resized, PickInv, TreeOK, ViewOK
<1>1. /\ Rows \in SUBSET KeyPath /\ Rows = Shown(expanded) /\ Cardinality(Rows) \in Nat
      /\ Rows # {} => cursor < Cardinality(Rows)
  <2>1. Rows \in SUBSET KeyPath /\ Rows = Shown(expanded)
    BY <1>0, RowsThere
  <2>2. PICK rows : rows = Rows
    OBVIOUS
  <2>3. Cardinality(rows) \in Nat
    BY <2>1, <2>2, RowsInOrder
  <2>. QED  BY <2>1, <2>2, <2>3, <1>0 DEF PickInv, ViewOK
<1>2. ASSUME MovesCursor PROVE PickInv'
  <2>1. PICK rows, i : /\ rows = Rows /\ i \in {Clamped(cursor + d, Cardinality(rows)) :
                                                  d \in {-1, 1, -height, height, -Cardinality(rows), Cardinality(rows)}}
                       /\ Cardinality(rows) > 0 /\ LooksAt(i, height, Cardinality(rows))
    BY <1>2 DEF MovesCursor
  <2>2. expanded' = expanded /\ rows = Shown(expanded')
    BY <1>1, <1>2, <2>1 DEF MovesCursor
  <2>3. i \in Nat /\ i < Cardinality(rows)
    <3>1. PICK d \in {-1, 1, -height, height, -Cardinality(rows), Cardinality(rows)} :
             i = Clamped(cursor + d, Cardinality(rows))
      BY <2>1
    <3>2. cursor + d \in Int /\ Cardinality(rows) \in Nat
      BY <1>0, <1>1, <2>1, PickerAssumption
    <3>. QED  BY <2>1, <3>1, <3>2 DEF Clamped
  <2>4. ViewOK'
    BY <1>0, <2>1, <2>2, <2>3, LooksRight
  <2>. QED  BY <1>0, <2>2, <2>4, KeysKeepTree
<1>3. ASSUME Resized PROVE PickInv'
  <2>1. PICK h \in 1..MaxHeight : LooksAt(cursor, h, Cardinality(Rows))
    BY <1>3 DEF Resized
  <2>2. PICK rows : rows = Rows
    OBVIOUS
  <2>3. expanded' = expanded /\ rows = Shown(expanded')
    BY <1>1, <1>3, <2>2 DEF Resized
  <2>4. ViewOK'
    BY <1>0, <1>1, <2>1, <2>2, <2>3, LooksRight
  <2>. QED  BY <1>0, <2>3, <2>4, KeysKeepTree
<1>4. ASSUME Expands PROVE PickInv'
  <2>1. /\ Rows # {} /\ expanded' = expanded \cup {Current} /\ LooksAt(cursor, height, Cardinality(Shown(expanded')))
    BY <1>4 DEF Expands
  <2>2. PICK rows, open : open = expanded' /\ rows = Shown(open)
    OBVIOUS
  <2>3. Shown(expanded) \subseteq Shown(open)
    BY <2>1, <2>2 DEF Shown
  <2>4. cursor < Cardinality(rows)
    BY <1>0, <2>1, <2>2, <2>3, OpenRows
  <2>5. ViewOK'
    BY <1>0, <2>1, <2>2, <2>4, LooksRight
  <2>6. expanded' \subseteq Nodes(leaves)
    BY <1>0, <2>1, RowsThere
  <2>. QED  BY <1>0, <2>5, <2>6, KeysKeepTree
<1>5. ASSUME Collapses PROVE PickInv'
  <2>0. PICK n : n = Current
    OBVIOUS
  <2>1. Rows # {} /\ n \in Rows /\ RowOf(n, Rows) = cursor
    BY <1>0, <1>5, <2>0, RowsThere DEF Collapses
  <2>2. ASSUME n \in expanded, expanded' = expanded \ {n}, LooksAt(cursor, height, Cardinality(Shown(expanded')))
        PROVE  PickInv'
    <3>1. PICK rows : rows = Shown(expanded')
      OBVIOUS
    <3>2. cursor < Cardinality(rows)
      BY <1>0, <2>0, <2>1, <2>2, <3>1, CloseRows
    <3>3. ViewOK'
      BY <1>0, <2>2, <3>1, <3>2, LooksRight
    <3>. QED  BY <1>0, <2>2, <3>3, KeysKeepTree
  <2>3. ASSUME NEW up, up = SubSeq(n, 1, Len(n) - 1), up # << >>, expanded' = expanded,
               LooksAt(RowOf(up, Rows), height, Cardinality(Rows))
        PROVE  PickInv'
    <3>1. PICK rows, open : rows = Rows /\ open = expanded
      OBVIOUS
    <3>2. n \in Node /\ n \in Nodes(leaves) /\ Len(n) \in Nat /\ Len(n) # 0 /\ Tree(leaves)
          /\ DOMAIN check = Nodes(leaves) /\ rows = Shown(open)
      BY <1>0, <1>1, <2>1, <3>1, RowsThere, PathShape DEF Node
    <3>3. up \in Nodes(leaves) /\ up \in Node /\ Len(up) = Len(n) - 1
      <4>1. Len(n) - 1 \in Nat /\ Len(n) - 1 \in 0..Len(n) /\ Len(n) - 1 <= Len(n)
        BY <3>2
      <4>. QED  BY <2>3, <3>2, <4>1, TreeNodes, PrefixOf
    <3>4. \A k \in 1..Len(up) - 1 : SubSeq(up, 1, k) \in open
      <4> SUFFICES ASSUME NEW k \in 1..Len(up) - 1 PROVE SubSeq(up, 1, k) \in open
        OBVIOUS
      <4>1. k \in 1..Len(n) - 1 /\ k \in 0..Len(n) - 1 /\ Len(n) - 1 \in 0..Len(n)
        BY <3>2, <3>3
      <4>2. SubSeq(up, 1, k) = SubSeq(n, 1, k)
        BY <2>3, <3>2, <4>1, Ancestors
      <4>3. SubSeq(n, 1, k) \in open
        BY <2>1, <3>1, <3>2, <4>1 DEF Shown
      <4>. QED  BY <4>2, <4>3
    <3>5. up \in rows
      BY <2>3, <3>2, <3>3, <3>4 DEF Shown
    <3>6. RowOf(up, rows) \in 0..Cardinality(rows) - 1 /\ Cardinality(rows) \in Nat
      <4>1. rows \in SUBSET KeyPath
        BY <1>1, <3>1
      <4>. QED  BY <3>5, <4>1, RowsInOrder
    <3>7. RowOf(up, rows) \in Nat /\ RowOf(up, rows) < Cardinality(rows)
      BY <3>6
    <3>8. rows = Shown(expanded')
      BY <2>3, <3>1, <3>2
    <3>9. ViewOK'
      BY <1>0, <2>3, <3>1, <3>7, <3>8, LooksRight
    <3>. QED  BY <1>0, <2>3, <3>9, KeysKeepTree
  <2>. QED  BY <1>5, <2>0, <2>2, <2>3 DEF Collapses
<1>. QED  BY <1>2, <1>3, <1>4, <1>5

LEMMA EndsRight ==
    ASSUME PickInv, Cancels \/ Accepts \/ \E p \in KeyPath, gone \in BOOLEAN : Switch(p, gone)
    PROVE  PickInv'
<1>1. ASSUME Closes PROVE TreeOK' /\ ViewOK'
  <2>1. TreeOK'
    BY <1>1, NoFolder DEF Closes, TreeOK
  <2>2. ViewOK'
    BY <1>1 DEF Closes, PickInv, ViewOK
  <2>. QED  BY <2>1, <2>2
<1>2. CASE Cancels
  <2>1. RulesOK'
    BY <1>2 DEF Cancels, Closes, PickInv, RulesOK
  <2>. QED  BY <1>1, <1>2, <2>1 DEF Cancels, PickInv
<1>3. CASE Accepts
  <2>1. excludes' \subseteq KeyPath /\ Short(excludes')
    <3>1. DOMAIN check = Nodes(leaves) /\ Tree(leaves)
      BY <1>3, RowsThere DEF Accepts, Closes
    <3>. QED  BY <1>3, <3>1, RulesAreShort DEF Accepts
  <2>2. RulesOK'
    BY <1>3, <2>1 DEF Accepts, Closes, PickInv, RulesOK
  <2>. QED  BY <1>1, <1>3, <2>2 DEF Accepts, PickInv
<1>4. ASSUME NEW p \in KeyPath, NEW gone \in BOOLEAN, Switch(p, gone) PROVE PickInv'
  <2>1. PICK rules : rules = excludes'
    OBVIOUS
  <2>2. rules = {r \in excludes : ~Under(r, p)} \cup (IF gone THEN {p} ELSE {})
    BY <1>4, <2>1 DEF Switch, Toggled
  <2>3. excludes \subseteq Node /\ p \in Node /\ excludes \subseteq KeyPath /\ Short(excludes)
    BY DEF PickInv, RulesOK, Node
  <2>4. \A r \in excludes : Under(p, r) => r = p
    BY <1>4 DEF Switch
  <2>5. Under(p, p)
    BY <2>3, UnderOrder
  <2>6. Short(rules)
    BY <2>2, <2>3, <2>4, <2>5 DEF Short
  <2>7. RulesOK'
    BY <1>4, <2>1, <2>2, <2>3, <2>6, PickerAssumption DEF Switch, PickInv, RulesOK
  <2>8. TreeOK'
    BY <1>4 DEF Switch, boxVars, PickInv, TreeOK, Boxes
  <2>9. ViewOK'
    BY <1>4 DEF Switch, boxVars, viewVars, PickInv, ViewOK, Rows, Shown
  <2>. QED  BY <2>7, <2>8, <2>9 DEF PickInv
<1>. QED  BY <1>2, <1>3, <1>4

LEMMA PickStays == PickInv /\ [PickNext]_pickVars => PickInv'
<1> SUFFICES ASSUME PickInv, [PickNext]_pickVars PROVE PickInv'
  OBVIOUS
<1>1. ASSUME UNCHANGED pickVars PROVE PickInv'
  BY <1>1 DEF pickVars, boxVars, viewVars, PickInv, RulesOK, TreeOK, ViewOK, Boxes, Rows, Shown
<1>. QED  BY <1>1, OpensRight, TogglesRight, SetsAllRight, MovesRight, EndsRight DEF PickNext

LEMMA PickHolds == PickSpec => []PickInv
BY PickStarts, PickStays, PTL DEF PickSpec

\* The rules, the tree and the window keep their types, no rule says what another
\* says, and the row the space bar acts on is on the screen.
THEOREM PickerKeepsTypes == PickSpec => []PickTypeOK
BY PickHolds, PickInvSays, PTL

\* After any keys, each box and each total says what the person's choice of leaves
\* says, and the list that would be saved leaves out just what they unchecked.
THEOREM BoxesAgree == PickSpec => []PickerAgrees
<1>1. PickInv => PickerAgrees
  <2> SUFFICES ASSUME PickInv, picking, leaves # {} PROVE PickerAgrees
    BY DEF PickerAgrees
  <2>1. Boxes /\ DOMAIN check = Nodes(leaves) /\ check = AllSaid(leaves, want) /\ selected = AllTotals(leaves, want)
    BY RowsThere DEF PickInv, TreeOK, Boxes
  <2>2. \A n \in DOMAIN check :
            LET in == Leaves(leaves, n) \cap want
            IN /\ selected[n] = in
               /\ check[n] = IF in = Leaves(leaves, n) THEN "on" ELSE IF in = {} THEN "off" ELSE "partial"
    BY <2>1 DEF AllSaid, AllTotals, Said
  <2>3. \A p \in leaves : Covered(ComputeExcludes, p) = (p \notin want)
    <3>1. \A p \in leaves : Covered(ComputeExcludes, p) <=> p \notin want
      BY <2>1, RulesSay
    <3>2. \A p \in leaves : Covered(ComputeExcludes, p) \in BOOLEAN
      BY DEF Covered
    <3>. QED  BY <3>1, <3>2
  <2>. QED  BY <2>2, <2>3 DEF PickerAgrees
<1>. QED  BY <1>1, PickHolds, PTL

(***************************************************************************)
(* All of them together.                                                   *)
(***************************************************************************)
LEMMA OneActs ==
    /\ InRestore => UNCHANGED <<mirrorVars, drimeVars, ultraVars, pickVars>>
    /\ InMirror => UNCHANGED <<restoreVars, drimeVars, ultraVars, pickVars>>
    /\ InDrime => UNCHANGED <<restoreVars, mirrorVars, ultraVars, pickVars>>
    /\ InUltra => UNCHANGED <<restoreVars, mirrorVars, drimeVars, pickVars>>
    /\ InPicker => UNCHANGED <<restoreVars, mirrorVars, drimeVars, ultraVars>>
BY DEF InRestore, InMirror, InDrime, InUltra, InPicker, Only

LEMMA EachByItself ==
    [Next]_partVars =>
        /\ [RestoreNext]_restoreVars /\ [MirrorNext]_mirrorVars /\ [DrimeNext]_drimeVars
        /\ [UltraNext]_ultraVars /\ [PickNext]_pickVars
<1>. SUFFICES ASSUME [Next]_partVars
              PROVE  /\ [RestoreNext]_restoreVars /\ [MirrorNext]_mirrorVars /\ [DrimeNext]_drimeVars
                     /\ [UltraNext]_ultraVars /\ [PickNext]_pickVars
  OBVIOUS
<1>1. [RestoreNext]_restoreVars
  BY Zenon, OneActs DEF Next, RestoreNext, RestoreGoesOn, Fetch, partVars
<1>2. [MirrorNext]_mirrorVars
  <2>1. ASSUME NEW r \in Copier,
               \/ (InMirror /\ StartMirror(r)) \/ (InMirror /\ ListSource(r)) \/ (InMirror /\ PlanCopy(r))
               \/ (InMirror /\ ListFails(r)) \/ (InMirror /\ PutObject(r)) \/ (InMirror /\ (\E k \in Keys : GetObject(r, k)))
               \/ (InMirror /\ DeleteBatch(r)) \/ (InMirror /\ FinishMirror(r)) \/ (InMirror /\ AskMirror(r))
               \/ (InMirror /\ AutoMirror(r)) \/ (InMirror /\ Killed(r)) \/ (InMirror /\ CancelMirror(r))
        PROVE  MirrorNext
    BY <2>1 DEF MirrorNext, RunOf
  <2>2. ASSUME NEW s \in Scope,
               \/ (InMirror /\ FolderOn(s)) \/ (InMirror /\ (\E b \in BOOLEAN : FolderOff(s, b)))
               \/ (InMirror /\ (\E b \in BOOLEAN : DropBackup(s, b)))
        PROVE  MirrorNext
    <3>1. ASSUME FolderOn(s) PROVE MirrorNext
      BY <3>1 DEF MirrorNext
    <3>2. ASSUME NEW b \in BOOLEAN, FolderOff(s, b) \/ DropBackup(s, b) PROVE MirrorNext
      BY <3>2 DEF MirrorNext
    <3>. QED  BY <2>2, <3>1, <3>2
  <2>3. ASSUME NEW k \in Keys, InMirror, StoreMain(k)
        PROVE  MirrorNext
    BY <2>3 DEF MirrorNext
  <2>. QED  BY Zenon, OneActs, <2>1, <2>2, <2>3 DEF Next, partVars
<1>3. [DrimeNext]_drimeVars
  BY Zenon, OneActs DEF Next, DrimeNext, WorkerOf, partVars
<1>4. [UltraNext]_ultraVars
  BY Zenon, OneActs DEF Next, UltraNext, partVars
<1>5. [PickNext]_pickVars
  BY Zenon, OneActs DEF Next, PickNext, partVars
<1>. QED  BY <1>1, <1>2, <1>3, <1>4, <1>5

LEMMA EachSpec ==
    Spec => RestoreSpec /\ MirrorSpec /\ DrimeSpec /\ UltraSpec /\ PickSpec
BY EachByItself, PTL DEF Spec, Init, RestoreSpec, MirrorSpec, DrimeSpec, UltraSpec, PickSpec

\* Every variable of a restore, a second copy, Drime, Ultra fast mode and the picker
\* has its type, for any numbers of workers, files, folders, parts and rules.
THEOREM StoresConsistent == Spec => []Consistent
<1>1. /\ RestoreTypeOK /\ MirrorTypeOK /\ DrimeTypeOK /\ UltraTypeOK /\ PickTypeOK
      => Consistent
  BY DEF Consistent
<1>. QED  BY <1>1, EachSpec, RestoreKeepsTypes, MirrorKeepsTypes, DrimeKeepsTypes, UltraKeepsTypes, PickerKeepsTypes, PTL
=============================================================================
