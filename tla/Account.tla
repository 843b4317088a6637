------------------------------ MODULE Account ------------------------------
(***************************************************************************)
(* The hosted account, as several computers of one person use it: email    *)
(* code, PIN, and the storage keys it keeps, sealed with a key made from   *)
(* the PIN and, before PINs existed, readable by the service.              *)
(*                                                                         *)
(* A PIN is the number of its setting: the salt is drawn each time, so the *)
(* key a computer seals with is of one setting of the PIN.  Handlers take  *)
(* their storage calls one at a time where another's can come between.     *)
(***************************************************************************)
EXTENDS Integers, FiniteSets

CONSTANTS Computer, NoKeys, OldKeys,
          Overlap,    \* two computers may be setting the PIN at one time
          StaleCheck, \* a sign-in may end while the saved session is being checked
          PinTries, MaxAttempts,
          MaxCodes, MaxPins, MaxTurns, MaxTroubles \* bounds for TLC; a trouble is a failure or a turn
ASSUME AccountAssumption ==
    /\ NoKeys # OldKeys /\ {NoKeys, OldKeys} \cap Computer = {}
    /\ {Overlap, StaleCheck} \subseteq BOOLEAN
    /\ {PinTries, MaxAttempts, MaxPins} \subseteq Nat \ {0}
    /\ {MaxCodes, MaxTurns, MaxTroubles} \subseteq Nat

VARIABLES
    otp, attempts, codes,     \* the code outstanding (0 for none), how many were sent
    pin,                      \* version, setting, wrong tries and lock
    stored_keys, sealed_keys, \* the two tables of keys
    step, pending, fresh,     \* each computer: what it is doing, PINChallenge, Session not saved yet
    got,                      \* what GetKeys answered
    token, sealKey, keys,     \* each computer's files
    checking, clearing,       \* the session an account screen asks about; ClearToken is half done
    signed, quiet,            \* history: session last saved here; nothing disturbed this sync
    missed,                   \* history: was let in before a reset that was cut off in its wipe
    failures, turns           \* answers lost and puts cut off; slips and wishes of the person

otpVars   == <<otp, attempts, codes>>
tableVars == <<stored_keys, sealed_keys>>
stepVars  == <<step, pending, fresh, got>>
fileVars  == <<token, sealKey, keys>>
seenVars  == <<checking, clearing, signed, quiet, missed>>
limitVars == <<failures, turns>>
accountVars == <<otpVars, pin, tableVars, stepVars, fileVars, seenVars, limitVars>>

NoPin   == [ver |-> 0, seal |-> 0, failures |-> 0, locked |-> FALSE]
NoSealed  == [keys |-> NoKeys, seal |-> 0]
NoSession == [ver |-> 0, seal |-> 0, legacy |-> FALSE]
\* A token from before PINs names no version; -1 stands for that.
BeforePins == -1
\* A token whose 30 days are over (SESSION_TTL).
Expired == -2

AccountInit ==
    /\ otp = 0 /\ attempts = 0 /\ codes = 0 /\ pin = NoPin
    /\ stored_keys \in {NoKeys, OldKeys} /\ sealed_keys = NoSealed
    /\ step = [c \in Computer |-> "idle"]
    /\ pending = [c \in Computer |-> 0] /\ fresh = [c \in Computer |-> NoSession]
    /\ got = [c \in Computer |-> NoKeys]
    /\ \E home \in Computer, k \in BOOLEAN, t \in {0, BeforePins} :
         /\ token = [c \in Computer |-> IF c = home THEN t ELSE 0]
         /\ keys = [c \in Computer |-> IF c = home /\ k THEN c ELSE NoKeys]
    /\ sealKey = [c \in Computer |-> 0]
    /\ checking = [c \in Computer |-> 0] /\ clearing = {} /\ signed = [c \in Computer |-> 0]
    /\ quiet = [c \in Computer |-> FALSE] /\ missed = {}
    /\ failures = 0 /\ turns = 0

Spared  == failures + turns < MaxTroubles
Fault   == Spared /\ failures' = failures + 1 /\ UNCHANGED turns
NoFault == UNCHANGED limitVars
ATurn   == Spared /\ turns < MaxTurns /\ turns' = turns + 1 /\ UNCHANGED failures
\* What a computer is at, and, unless StaleCheck, doing nothing besides.
IsAt(c, s)   == step[c] = s /\ (StaleCheck \/ (checking[c] = 0 /\ c \notin clearing))
Goes(c, s)   == step' = [step EXCEPT ![c] = s]
GoesOnTo(c, s) == Goes(c, s) /\ UNCHANGED fresh
Ends(c)      == Goes(c, "idle") /\ fresh' = [fresh EXCEPT ![c] = NoSession]
\* Another computer's request leaves no sync undisturbed.
Disturbs(c)  == quiet' = [d \in Computer |-> d = c /\ quiet[d]]
\* authenticate.
TokenAccepted(t) == pin.ver > 0 /\ t = pin.ver
\* A PIN-step token, with the setting whose salt it came with, or -1 for none
\* set: as a number one up, 0 for no challenge.
Challenged(c) == pending[c] # 0
SaltOf(c)     == pending[c] - 1

-----------------------------------------------------------------------------
(* The email code.                                                         *)

AskCode(c) ==
    /\ IsAt(c, "idle") /\ codes < MaxCodes
    /\ codes' = codes + 1 /\ otp' = codes' /\ attempts' = 0
    /\ UNCHANGED <<pin, tableVars, stepVars, fileVars, seenVars, limitVars>>
\* The newest code or one mailed before it; the answer may be lost.
EnterCode(c, n) ==
    /\ IsAt(c, "idle") /\ otp # 0
    /\ UNCHANGED codes
    /\ IF n = otp
       THEN /\ otp' = 0 /\ UNCHANGED attempts
            /\ \/ NoFault /\ pending' = [pending EXCEPT ![c] = pin.seal + 1]
               \/ Fault /\ UNCHANGED pending
       ELSE /\ ATurn
            /\ attempts' = attempts + 1 /\ UNCHANGED pending
            /\ otp' = IF attempts' >= MaxAttempts THEN 0 ELSE otp
    /\ UNCHANGED <<pin, tableVars, step, fresh, got, fileVars, seenVars>>

-----------------------------------------------------------------------------
(* The PIN step.                                                           *)

\* addLegacyKeys.
Legacy == stored_keys # NoKeys /\ sealed_keys.keys = NoKeys
\* A session is handed out; endSignIn, and finishSignIn begins.
Session(c, ver, seal, legacy) ==
    /\ fresh' = [fresh EXCEPT ![c] = [ver |-> ver, seal |-> seal, legacy |-> legacy]]
    /\ pending' = [pending EXCEPT ![c] = 0] /\ missed' = missed \ {c}
    /\ Goes(c, "finish")
PinIsRight(c) == pin.ver > 0 /\ SaltOf(c) = pin.seal
\* handlePinVerify: a locked account is not looked at; every PinTries wrong
\* ones lock it.
SignInPin(c, typed) ==
    /\ IsAt(c, "idle") /\ pending[c] > 1 /\ pin.ver > 0 /\ ~pin.locked
    /\ IF typed /\ PinIsRight(c)
       THEN /\ pin' = [pin EXCEPT !.failures = 0, !.locked = FALSE]
            /\ \/ NoFault /\ Session(c, pin.ver, pin.seal, Legacy)
               \/ Fault /\ UNCHANGED <<step, pending, fresh, missed>>
       ELSE /\ ATurn
            /\ pin' = [pin EXCEPT !.failures = @ + 1, !.locked = (pin.failures + 1) % PinTries = 0]
            /\ UNCHANGED <<step, pending, fresh, missed>>
    /\ UNCHANGED <<otpVars, tableVars, got, fileVars, checking, clearing, signed, quiet>>
Unlock ==
    /\ pin.locked /\ pin' = [pin EXCEPT !.locked = FALSE]
    /\ UNCHANGED <<otpVars, tableVars, stepVars, fileVars, seenVars, limitVars>>
\* The 10 minutes of a PIN-step token go by.
ChallengeEnds(c) ==
    /\ IsAt(c, "idle") /\ Challenged(c)
    /\ pending' = [pending EXCEPT ![c] = 0]
    /\ UNCHANGED <<otpVars, pin, tableVars, step, fresh, got, fileVars, seenVars, limitVars>>

Choosing == {c \in Computer : step[c] \in {"setup", "reset"}}
\* handlePinSetup and handlePinReset: the row is read, and put.
SetupLook(c) ==
    /\ IsAt(c, "idle") /\ (pending[c] = 1 \/ token[c] = BeforePins)
    /\ pin.ver = 0 /\ (Overlap \/ Choosing = {})
    /\ Goes(c, "setup")
    /\ UNCHANGED <<otpVars, pin, tableVars, pending, fresh, got, fileVars, seenVars, limitVars>>
\* forgotPIN: a fresh email code stands in for the PIN.
ForgotPin(c) == IsAt(c, "idle") /\ Challenged(c)
ResetLook(c) ==
    /\ ForgotPin(c) /\ pin.seal < MaxPins /\ (Overlap \/ Choosing = {})
    /\ Goes(c, "reset")
    /\ fresh' = [fresh EXCEPT ![c].ver = pin.ver + 1]
    /\ UNCHANGED <<otpVars, pin, tableVars, pending, got, fileVars, seenVars, limitVars>>
\* newPin, of a setup: what the service could read is handed back.
SetupPut(c) ==
    /\ IsAt(c, "setup")
    /\ pin' = [NoPin EXCEPT !.ver = 1, !.seal = pin.seal + 1]
    /\ \/ NoFault /\ Session(c, 1, pin'.seal, Legacy)
       \/ Fault /\ Goes(c, "idle") /\ UNCHANGED <<pending, fresh, missed>>
    /\ Disturbs(c)
    /\ UNCHANGED <<otpVars, tableVars, got, fileVars, checking, clearing, signed>>
\* Slip: the PIN is replaced, and its version stays.
NewVersionSame(c) == pin.ver
NewVersion(c) == fresh[c].ver
ResetPut(c) ==
    /\ IsAt(c, "reset")
    /\ LET v == NewVersion(c)
       IN /\ pin' = [NoPin EXCEPT !.ver = v, !.seal = pin.seal + 1]
          /\ \/ NoFault /\ Goes(c, "wipe") /\ fresh' = [fresh EXCEPT ![c] = [ver |-> v, seal |-> pin'.seal, legacy |-> FALSE]]
             \/ Fault /\ Ends(c)
    /\ Disturbs(c)
    /\ UNCHANGED <<otpVars, tableVars, pending, got, fileVars, checking, clearing, signed, missed>>
\* Let in, with nothing to move, and not synced yet.
LetIn(c) == step[c] \in {"save", "token", "sync"} \/ (step[c] = "finish" /\ ~fresh[c].legacy)
\* Locked with the forgotten PIN: both tables are emptied, one after the other.
ResetWipe(c) ==
    /\ IsAt(c, "wipe") /\ sealed_keys' = NoSealed
    /\ \/ NoFault /\ stored_keys' = NoKeys /\ GoesOnTo(c, "finish") /\ UNCHANGED missed
       \/ /\ Fault /\ stored_keys' \in {stored_keys, NoKeys} /\ Ends(c)
          /\ missed' = IF stored_keys' = NoKeys THEN missed ELSE missed \cup {d \in Computer : LetIn(d)}
    /\ Disturbs(c)
    /\ UNCHANGED <<otpVars, pin, pending, got, fileVars, checking, clearing, signed>>

-----------------------------------------------------------------------------
(* finishSignIn.                                                           *)

\* Slip: the session is saved whether or not the old keys were moved.
ToMoveLater(c) == FALSE
ToMove(c) == fresh[c].legacy
\* PutKeys of what the service could read, sealed: let in, then put.
LetInToMove(c) ==
    /\ IsAt(c, "finish") /\ ToMove(c)
    /\ \/ TokenAccepted(fresh[c].ver) /\ NoFault /\ GoesOnTo(c, "move")
       \/ ~TokenAccepted(fresh[c].ver) /\ NoFault /\ Ends(c)
       \/ Fault /\ Ends(c)
    /\ UNCHANGED <<otpVars, pin, tableVars, pending, got, fileVars, seenVars>>
\* handlePutKeys: the sealed copy, then the delete of the readable one.
Sealing(c, k, seal, then) ==
    /\ sealed_keys' = [keys |-> k, seal |-> seal]
    /\ \/ NoFault /\ stored_keys' = NoKeys /\ GoesOnTo(c, then)
       \/ Fault /\ stored_keys' \in {stored_keys, NoKeys} /\ Ends(c)
    /\ Disturbs(c)
MovePut(c) ==
    /\ IsAt(c, "move") /\ Sealing(c, OldKeys, fresh[c].seal, "save")
    /\ UNCHANGED <<otpVars, pin, pending, got, fileVars, checking, clearing, signed, missed>>
\* SaveSession: the seal key, then the token. The process may end in between.
FirstFile(c) == sealKey' = [sealKey EXCEPT ![c] = fresh[c].seal] /\ UNCHANGED token
SaveSealKey(c) ==
    /\ IsAt(c, "save") \/ (IsAt(c, "finish") /\ ~ToMove(c))
    /\ FirstFile(c)
    /\ \/ NoFault /\ GoesOnTo(c, "token")
       \/ Fault /\ Ends(c)
    /\ UNCHANGED <<otpVars, pin, tableVars, pending, got, keys, seenVars>>
SaveToken(c) ==
    /\ IsAt(c, "token")
    /\ token' = [token EXCEPT ![c] = fresh[c].ver]
    /\ signed' = [signed EXCEPT ![c] = fresh[c].ver]
    /\ pending' = [pending EXCEPT ![c] = 0] \* endSignIn, of a reset
    /\ Goes(c, "sync") /\ fresh' = [fresh EXCEPT ![c] = NoSession]
    /\ UNCHANGED <<otpVars, pin, tableVars, got, sealKey, keys, checking, clearing, quiet, missed, limitVars>>

-----------------------------------------------------------------------------
(* syncKeys, pushKeys.                                                     *)

\* What the rest of the call uses, whatever is saved here meanwhile.
InHand(c) == fresh' = [fresh EXCEPT ![c] = [ver |-> token[c], seal |-> sealKey[c], legacy |-> FALSE]]
\* ErrNotFound and ErrDecryptFailed both mean there is nothing to take.
Unreadable(c) == FALSE
GetKeys(c) ==
    /\ IsAt(c, "sync")
    /\ \/ /\ NoFault /\ sealKey[c] # 0 /\ TokenAccepted(token[c]) /\ ~Unreadable(c)
          /\ got' = [got EXCEPT ![c] = IF sealed_keys.seal = sealKey[c] THEN sealed_keys.keys ELSE NoKeys]
          /\ Goes(c, "adopt") /\ InHand(c) /\ quiet' = [quiet EXCEPT ![c] = TRUE]
       \/ /\ NoFault /\ sealKey[c] # 0 /\ Unreadable(c) /\ UNCHANGED got
          /\ Goes(c, "synced") /\ InHand(c) /\ quiet' = [quiet EXCEPT ![c] = TRUE]
       \/ NoFault /\ (sealKey[c] = 0 \/ ~TokenAccepted(token[c])) /\ Ends(c) /\ UNCHANGED <<got, quiet>>
       \/ Fault /\ Ends(c) /\ UNCHANGED <<got, quiet>>
    /\ UNCHANGED <<otpVars, pin, tableVars, pending, fileVars, checking, clearing, signed, missed>>
\* A computer with no storage takes the account's, when it can be reached; an
\* account with none takes the computer's.
Adopt(c) ==
    /\ IsAt(c, "adopt")
    /\ IF got[c] # NoKeys
       THEN /\ Goes(c, "synced")
            /\ keys' \in {keys, [keys EXCEPT ![c] = IF keys[c] = NoKeys THEN got[c] ELSE @]}
       ELSE /\ UNCHANGED keys
            /\ Goes(c, IF keys[c] = NoKeys THEN "synced" ELSE "push")
    /\ got' = [got EXCEPT ![c] = NoKeys]
    /\ UNCHANGED <<otpVars, pin, tableVars, pending, fresh, token, sealKey, seenVars, limitVars>>
\* PutKeys: let in, then put.
PushKeys(c) ==
    /\ IsAt(c, "push")
    /\ \/ TokenAccepted(fresh[c].ver) /\ NoFault /\ GoesOnTo(c, "put") /\ UNCHANGED quiet
       \/ (Fault \/ (~TokenAccepted(fresh[c].ver) /\ NoFault)) /\ Ends(c) /\ quiet' = [quiet EXCEPT ![c] = FALSE]
    /\ UNCHANGED <<otpVars, pin, tableVars, pending, got, fileVars, checking, clearing, signed, missed>>
PutKeys(c) ==
    /\ IsAt(c, "put") /\ Sealing(c, keys[c], fresh[c].seal, "synced")
    /\ UNCHANGED <<otpVars, pin, pending, got, fileVars, checking, clearing, signed, missed>>
Synced(c) ==
    /\ IsAt(c, "synced") /\ Ends(c)
    /\ quiet' = [quiet EXCEPT ![c] = FALSE]
    /\ UNCHANGED <<otpVars, pin, tableVars, pending, got, fileVars, checking, clearing, signed, missed, limitVars>>
\* Storage is connected here, and its keys are pushed to the account.
Connect(c) ==
    /\ IsAt(c, "idle") /\ ATurn
    /\ keys' = [keys EXCEPT ![c] = c]
    /\ IF token[c] = 0 \/ sealKey[c] = 0 THEN Ends(c) ELSE Goes(c, "push") /\ InHand(c)
    /\ UNCHANGED <<otpVars, pin, tableVars, pending, got, token, sealKey, seenVars>>

-----------------------------------------------------------------------------
(* The account screen, and signing out.                                    *)

\* The token goes first; then the seal key, unless the process ends in between.
ClearToken(c) == token' = [token EXCEPT ![c] = 0] /\ clearing' = clearing \cup {c}
ClearsKey(c) ==
    /\ c \in clearing /\ clearing' = clearing \ {c}
    /\ \/ NoFault /\ sealKey' = [sealKey EXCEPT ![c] = 0]
       \/ Fault /\ UNCHANGED sealKey
    /\ UNCHANGED <<otpVars, pin, tableVars, stepVars, token, keys, checking, signed, quiet, missed>>
\* The days of a session are counted from its PIN step; a call takes seconds.
SessionExpires(c) ==
    /\ IsAt(c, "idle") /\ ATurn /\ checking[c] = 0 /\ token[c] \notin {0, Expired}
    /\ token' = [token EXCEPT ![c] = Expired] /\ signed' = [signed EXCEPT ![c] = 0]
    /\ UNCHANGED <<otpVars, pin, tableVars, stepVars, sealKey, keys, checking, clearing, quiet, missed>>
\* ListDevices doubles as the check that the session is still good.
CheckSession(c) ==
    /\ token[c] # 0 /\ checking[c] = 0 /\ (StaleCheck \/ step[c] = "idle")
    /\ checking' = [checking EXCEPT ![c] = token[c]]
    /\ UNCHANGED <<otpVars, pin, tableVars, stepVars, fileVars, clearing, signed, quiet, missed, limitVars>>
\* What the service says of the session being asked about.
Verdict(c) ==
    IF TokenAccepted(checking[c]) THEN "devices"
    ELSE IF pin.ver = 0 /\ checking[c] # Expired THEN "choose a PIN" ELSE "unauthorized"
\* Only an unauthorized session is forgotten: one from before PINs is asked for
\* a PIN while the account has none, and a service that is down says nothing.
SignsOut(answer) == answer = "unauthorized"
SessionChecked(c) ==
    /\ checking[c] # 0 /\ checking' = [checking EXCEPT ![c] = 0]
    /\ \E answer \in {Verdict(c), "down"} :
         /\ IF answer = "down" THEN Fault ELSE NoFault
         /\ IF SignsOut(answer) THEN ClearToken(c) ELSE UNCHANGED <<token, clearing>>
    /\ UNCHANGED <<otpVars, pin, tableVars, stepVars, sealKey, keys, signed, quiet, missed>>
SignOut(c) ==
    /\ IsAt(c, "idle") /\ ATurn
    /\ ClearToken(c) /\ pending' = [pending EXCEPT ![c] = 0] /\ signed' = [signed EXCEPT ![c] = 0]
    /\ UNCHANGED <<otpVars, pin, tableVars, step, fresh, got, sealKey, keys, checking, quiet, missed>>

AccountOf(c) ==
    \/ AskCode(c) \/ (\E n \in 1..MaxCodes : n <= codes /\ EnterCode(c, n))
    \/ (\E typed \in BOOLEAN : SignInPin(c, typed)) \/ ChallengeEnds(c)
    \/ SetupLook(c) \/ SetupPut(c) \/ ResetLook(c) \/ ResetPut(c) \/ ResetWipe(c)
    \/ LetInToMove(c) \/ MovePut(c) \/ SaveSealKey(c) \/ SaveToken(c)
    \/ GetKeys(c) \/ Adopt(c) \/ PushKeys(c) \/ PutKeys(c) \/ Synced(c) \/ Connect(c)
    \/ CheckSession(c) \/ SessionChecked(c) \/ SignOut(c)
    \/ ClearsKey(c) \/ SessionExpires(c)
AccountNext == Unlock \/ \E c \in Computer : AccountOf(c)
AccountSpec == AccountInit /\ [][AccountNext]_accountVars

-----------------------------------------------------------------------------
(* Properties.                                                             *)

AccountTypeOK ==
    /\ otp \in 0..codes /\ attempts \in 0..MaxAttempts
    /\ stored_keys \in {NoKeys, OldKeys} /\ sealed_keys.keys \in {NoKeys, OldKeys} \cup Computer
    /\ (sealed_keys.keys = NoKeys) = (sealed_keys.seal = 0)
    /\ pin.seal \in 0..MaxPins /\ pin.ver <= pin.seal
    /\ pending \in [Computer -> 0..MaxPins + 1] /\ clearing \subseteq Computer

\* A computer whose session the service takes holds the key the present PIN
\* makes, whatever was reset, lost or cut off on the way: what it pushes, every
\* computer that signs in can open.
SessionsOpen ==
    \A c \in Computer : token[c] # 0 /\ TokenAccepted(token[c]) => sealKey[c] = pin.seal

\* No computer is signed in while the service can still read the account's only
\* copy of its keys, but one let in with a new PIN before the reset that set it
\* was cut off in its wipe: the next sign-in moves what that left.
OldKeysMoved ==
    \A c \in Computer :
        step[c] = "sync" /\ TokenAccepted(token[c]) =>
            stored_keys = NoKeys \/ sealed_keys.keys # NoKeys \/ c \in missed

\* When a sync ends, with no request of another computer in between, and there
\* are keys here, the account keeps keys that its PIN opens, also after a reset
\* left some that it does not.
SyncSaves ==
    \A c \in Computer :
        step[c] = "synced" /\ quiet[c] /\ keys[c] # NoKeys /\ TokenAccepted(token[c]) =>
            sealed_keys.keys # NoKeys /\ sealed_keys.seal = pin.seal

\* A sign-in lasts until its computer signs out, its 30 days are over or the PIN
\* is set anew: a service that cannot be reached signs nobody out.
SignInStays ==
    \A c \in Computer :
        signed[c] # 0 /\ signed[c] = pin.ver /\ step[c] \notin {"finish", "move", "save", "token"} =>
            token[c] = signed[c]
=============================================================================
