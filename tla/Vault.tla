------------------------------- MODULE Vault -------------------------------
(***************************************************************************)
(* The credential vault of the bridge (apps/bridge/src/vault): VaultStore, *)
(* its lockout after wrong passwords, its auto-lock timer and the handlers *)
(* of bridge-handler.ts that also call the OS keychain.  The extension     *)
(* sends all its vault messages over one port, so one process is modelled. *)
(*                                                                         *)
(* Frames are served one at a time, but a handler that awaits the keychain *)
(* lets the auto-lock timer run in between: `call` is the handler that     *)
(* waits.  Time is kept as countdowns, which makes the clock unbounded and *)
(* the state finite.                                                       *)
(*                                                                         *)
(* "None or one" is a set: the vault file, the keychain's entry, the       *)
(* decrypted vault and its key are {} or a singleton.                      *)
(***************************************************************************)
EXTENDS Integers, FiniteSets

CONSTANTS
    Items,          \* what a vault holds: credentials, providers, app connections
    Passwords,      \* passwords a user may type
    KeychainKeys,   \* random keys made for the keychain
    AutoLock,       \* auto-lock delay
    RateLimit,      \* the timer is restarted at most once in this time
    Tiers,          \* {[failures, pause]}: the pause after so many wrong passwords
    MayFail         \* which of "vault file", "lockout file", "keychain" may fail

ASSUME VaultAssumption ==
    /\ Passwords \cap KeychainKeys = {}
    /\ AutoLock \in Nat \ {0}
    /\ RateLimit \in Nat
    /\ Tiers \subseteq [failures: Nat \ {0}, pause: Nat]
    /\ IsFiniteSet(Tiers)
    /\ MayFail \subseteq {"vault file", "lockout file", "keychain"}

VARIABLES
    proc,           \* "down", "up", or "wedged": the frame queue was rejected
    state,          \* VaultStore.#state
    mem,            \* VaultStore.#vault
    key,            \* VaultStore.#key, with #salt and #keyMode
    timer,          \* {} or time left until the auto-lock timer fires
    sinceReset,     \* time since the timer was started, up to RateLimit
    lockout,        \* VaultLockout.#state: failures and the pause left
    call,           \* the handler waiting for the keychain
    file,           \* vault.encrypted
    lockoutFile,    \* vault-lockout.json
    keychain,       \* the OS keychain's entry
    saved,          \* history: items whose save was acknowledged
    promised,       \* history: the key of the last acknowledged setup or rekey
    idle,           \* history: time since the vault was last used, up to AutoLock
    guesses         \* history: wrong passwords since the last right one, and the pause they call for

storeVars == <<state, mem, key, timer, sinceReset>>
diskVars == <<file, lockoutFile, keychain>>
histVars == <<saved, promised, idle, guesses>>
vars == <<proc, storeVars, lockout, call, diskVars, histVars>>

Keys == Passwords \cup KeychainKeys
Calls == [op: {"setup", "unlock", "rekey"}, key: KeychainKeys] \cup [op: {"destroy"}]

\* Failures are counted up to the highest threshold, which is all the pause depends on.
MaxFailures == CHOOSE m \in {0} \cup {t.failures : t \in Tiers} :
                    \A t \in Tiers : t.failures <= m

Lockouts == [failures: 0..MaxFailures, left: Nat]
NoLockout == [failures |-> 0, left |-> 0]

\* computeLockoutSeconds: the pause of the highest tier reached.
Pauses(failures) == {0} \cup {t.pause : t \in {u \in Tiers : u.failures <= failures}}
Pause(failures) == CHOOSE s \in Pauses(failures) : \A r \in Pauses(failures) : r <= s

Failed(l) ==
    LET n == IF l.failures < MaxFailures THEN l.failures + 1 ELSE l.failures
    IN  [failures |-> n, left |-> IF Pause(n) > 0 THEN Pause(n) ELSE l.left]

Less(t) == IF t > 0 THEN t - 1 ELSE 0
More(t, bound) == IF t < bound THEN t + 1 ELSE t

---------------------------------------------------------------------------
(* The process *)

Forget ==
    /\ state' = "uninitialized"
    /\ mem' = {}
    /\ key' = {}
    /\ timer' = {}
    /\ sinceReset' = RateLimit
    /\ lockout' = NoLockout
    /\ call' = {}

Init ==
    /\ proc = "down"
    /\ state = "uninitialized"
    /\ mem = {} /\ key = {} /\ timer = {} /\ call = {}
    /\ sinceReset = RateLimit
    /\ lockout = NoLockout /\ lockoutFile = NoLockout
    /\ file = {} /\ keychain = {}
    /\ saved = {} /\ promised = {} /\ idle = 0 /\ guesses = NoLockout

\* Mutant: the lockout is not loaded.
BootForgiving ==
    /\ proc = "down"
    /\ proc' = "up"
    /\ state' = IF file = {} THEN "uninitialized" ELSE "locked"
    /\ lockout' = NoLockout
    /\ UNCHANGED <<mem, key, timer, sinceReset, call, diskVars, histVars>>

\* main() builds the store: #lastTimerReset is 0, long ago.
Boot ==
    /\ proc = "down"
    /\ proc' = "up"
    /\ state' = IF file = {} THEN "uninitialized" ELSE "locked"
    /\ lockout' = lockoutFile
    /\ UNCHANGED <<mem, key, timer, sinceReset, call, diskVars, histVars>>

\* The port is closed, or the process crashes, perhaps inside a handler.
Die ==
    /\ proc # "down"
    /\ proc' = "down"
    /\ Forget
    /\ UNCHANGED <<diskVars, histVars>>

Tick ==
    /\ timer' = {Less(t) : t \in timer}
    /\ sinceReset' = More(sinceReset, RateLimit)
    /\ lockout' = [lockout EXCEPT !.left = Less(@)]
    /\ lockoutFile' = [lockoutFile EXCEPT !.left = Less(@)]
    /\ idle' = More(idle, AutoLock)
    /\ guesses' = [guesses EXCEPT !.left = Less(@)]
    /\ UNCHANGED <<proc, state, mem, key, call, file, keychain, saved, promised>>

Serving == proc = "up" /\ call = {}

---------------------------------------------------------------------------
(* Pieces of the operations *)

\* What #persist would write; it returns silently when there is no vault or key.
Image(m, k) == [key: k, data: m]

\* Mutant: the write is reported but not made.
PersistSkipped(m, k) == file' = file

PersistOK(m, k) == file' = IF Image(m, k) = {} THEN file ELSE Image(m, k)

PersistFails(m, k) ==
    /\ "vault file" \in MayFail
    /\ Image(m, k) # {}
    /\ file' = file

\* Mutant: only the time of the restart is noted.
StartTimerNoted == UNCHANGED timer /\ sinceReset' = 0

StartTimer == timer' = {AutoLock} /\ sinceReset' = 0

\* #touchAutoLock
Touch == IF sinceReset >= RateLimit THEN StartTimer ELSE UNCHANGED <<timer, sinceReset>>

\* Mutant: the key is not wiped.
WipeKeepsKey == mem' = {} /\ timer' = {} /\ UNCHANGED <<key, sinceReset>>

Wipe == mem' = {} /\ key' = {} /\ timer' = {} /\ UNCHANGED sinceReset

\* VaultLockout.#save, which throws when it fails.
SaveLockout(l) == lockout' = l /\ lockoutFile' = l
SaveLockoutFails(l) == "lockout file" \in MayFail /\ lockout' = l /\ UNCHANGED lockoutFile

Used == idle' = 0

---------------------------------------------------------------------------
(* VaultStore *)

\* setup: on a failed write nothing has changed yet.
Setup(k) ==
    /\ state = "uninitialized"
    /\ file' = [key: {k}, data: {{}}]
    /\ mem' = {{}} /\ key' = {k} /\ state' = "unlocked"
    /\ StartTimer
    /\ promised' = {k}
    /\ Used
    /\ UNCHANGED <<lockout, lockoutFile, saved, guesses>>

\* unlock once the key was found to fit: the lockout is reset before the state
\* changes, and the file is rewritten before the timer starts.
Open(k, thrown) ==
    \E f \in file :
        /\ state = "locked" /\ lockout.left = 0 /\ f.key = k
        /\ mem' = {f.data}
        /\ guesses' = NoLockout
        /\ UNCHANGED <<saved, promised>>
        /\ \/ /\ SaveLockout(NoLockout)
              /\ key' = {k} /\ state' = "unlocked"
              /\ Used
              /\ proc' = proc
              /\ \/ PersistOK(mem', key') /\ StartTimer
                 \/ PersistFails(mem', key') /\ UNCHANGED <<timer, sinceReset>>
           \/ /\ SaveLockoutFails(NoLockout)
              /\ proc' = thrown
              /\ UNCHANGED <<key, state, timer, sinceReset, file, idle>>

\* unlock with a password that does not fit.
WrongPassword(w) ==
    \E f \in file :
        /\ state = "locked" /\ lockout.left = 0
        /\ f.key \in Passwords \ {w}
        /\ \/ SaveLockout(Failed(lockout)) /\ proc' = proc
           \/ SaveLockoutFails(Failed(lockout)) /\ proc' = "wedged"
        /\ guesses' = Failed(guesses)
        /\ UNCHANGED <<storeVars, file, saved, promised, idle>>

\* lock, by message or by the timer
Locked ==
    /\ state = "unlocked"
    /\ PersistOK(mem, key)
    /\ Wipe
    /\ state' = "locked"

Change(m, done) ==
    /\ state = "unlocked"
    /\ mem # {}
    /\ mem' = m
    /\ Touch
    /\ Used
    /\ \/ PersistOK(m, key) /\ saved' = done
       \/ PersistFails(m, key) /\ saved' = saved \cap done
    /\ UNCHANGED <<state, key, promised>>

\* Mutant: the vault is written before the key is replaced.
RekeyTooLate(k) ==
    /\ state = "unlocked"
    /\ key' = {k}
    /\ Touch
    /\ Used
    /\ \/ PersistOK(mem, key) /\ promised' = {k}
       \/ PersistFails(mem, key) /\ UNCHANGED promised
    /\ UNCHANGED <<state, mem, saved>>

Rekey(k) ==
    /\ state = "unlocked"
    /\ key' = {k}
    /\ Touch
    /\ Used
    /\ \/ PersistOK(mem, key') /\ promised' = {k}
       \/ PersistFails(mem, key') /\ UNCHANGED promised
    /\ UNCHANGED <<state, mem, saved>>

\* destroy: on a failed unlink the memory is gone and the state stays.
Destroy ==
    /\ Wipe
    /\ saved' = {}
    /\ \/ file' = {} /\ state' = "uninitialized" /\ promised' = {}
       \/ "vault file" \in MayFail /\ UNCHANGED <<file, state, promised>>
    /\ UNCHANGED <<idle, guesses>>

---------------------------------------------------------------------------
(* Messages served without waiting *)

SetupPassword(w) ==
    /\ Serving /\ Setup(w)
    /\ UNCHANGED <<proc, call, keychain>>

UnlockPassword(w) ==
    /\ Serving
    /\ Open(w, "wedged") \/ WrongPassword(w)
    /\ UNCHANGED <<call, keychain>>

Lock ==
    /\ Serving /\ Locked
    /\ UNCHANGED <<proc, call, lockout, lockoutFile, keychain, histVars>>

SaveItem(i) == \E m \in mem : Change({m \cup {i}}, saved \cup {i})
DeleteItem(i) == \E m \in mem : i \in m /\ Change({m \ {i}}, saved \ {i})

\* A read, or a change refused for its input, does not write: it only restarts
\* the timer.
ReadItems ==
    /\ Serving /\ state = "unlocked"
    /\ Touch /\ Used
    /\ UNCHANGED <<proc, state, mem, key, lockout, call, diskVars, saved, promised, guesses>>

ChangeItems ==
    /\ Serving
    /\ \E i \in Items : SaveItem(i) \/ DeleteItem(i)
    /\ UNCHANGED <<proc, call, lockout, lockoutFile, keychain, guesses>>

\* After a failed destroy the store is unlocked without a vault: reading or
\* changing it throws a TypeError, which the handler lets through.
TouchNothing ==
    /\ Serving /\ state = "unlocked" /\ mem = {}
    /\ Touch /\ Used
    /\ proc' = "wedged"
    /\ UNCHANGED <<state, mem, key, lockout, call, diskVars, saved, promised, guesses>>

RekeyPassword(w) ==
    /\ Serving /\ Rekey(w)
    /\ UNCHANGED <<proc, call, lockout, lockoutFile, keychain, guesses>>

---------------------------------------------------------------------------
(* Messages that wait for the keychain *)

Fresh == KeychainKeys \ (keychain \cup key \cup {f.key : f \in file})

\* setKey was called with a new key.  Where it fails, macOS may have deleted the
\* old entry first, and Windows may have stored the key before cmdkey failed.
StoreKey(op) ==
    /\ Serving
    /\ \E k \in Fresh :
        \/ keychain' = {k} /\ call' = {[op |-> op, key |-> k]}
        \/ "keychain" \in MayFail /\ keychain' \in {keychain, {}, {k}} /\ UNCHANGED call
    /\ UNCHANGED <<proc, storeVars, lockout, file, lockoutFile, histVars>>

FetchKey ==
    /\ Serving
    /\ call' = {[op |-> "unlock", key |-> k] : k \in keychain}
    /\ UNCHANGED <<proc, storeVars, lockout, diskVars, histVars>>

DeleteKey ==
    /\ Serving
    /\ \/ keychain' = {}
       \/ "keychain" \in MayFail /\ UNCHANGED keychain
    /\ call' = {[op |-> "destroy"]}
    /\ UNCHANGED <<proc, storeVars, lockout, file, lockoutFile, histVars>>

\* The store refuses, or its write fails: the handler answers with an error.
Refused ==
    /\ proc = "up"
    /\ \E c \in call :
        \/ c.op = "setup" /\ (state # "uninitialized" \/ "vault file" \in MayFail)
        \/ c.op = "unlock" /\ (state # "locked" \/ lockout.left > 0 \/ \A f \in file : f.key # c.key)
        \/ c.op = "rekey" /\ state # "unlocked"
    /\ call' = {}
    /\ UNCHANGED <<proc, storeVars, lockout, diskVars, histVars>>

Resume ==
    /\ proc = "up"
    /\ \E c \in call :
        \/ c.op = "setup" /\ Setup(c.key) /\ UNCHANGED proc
        \/ c.op = "unlock" /\ Open(c.key, "up")
        \/ c.op = "rekey" /\ Rekey(c.key) /\ UNCHANGED <<proc, lockout, lockoutFile, guesses>>
        \/ c.op = "destroy" /\ Destroy /\ UNCHANGED <<proc, lockout, lockoutFile>>
    /\ call' = {}
    /\ UNCHANGED keychain

---------------------------------------------------------------------------
\* The timer's callback; an error in it ends the process.
TimerFires ==
    /\ 0 \in timer
    /\ Locked
    /\ UNCHANGED <<proc, lockout, call, lockoutFile, keychain, histVars>>

TimerThrows ==
    /\ 0 \in timer
    /\ PersistFails(mem, key)
    /\ proc' = "down"
    /\ Forget
    /\ UNCHANGED <<lockoutFile, keychain, histVars>>

Next ==
    \/ Boot \/ Die \/ Tick
    \/ \E w \in Passwords : SetupPassword(w) \/ UnlockPassword(w) \/ RekeyPassword(w)
    \/ Lock \/ ReadItems \/ ChangeItems \/ TouchNothing
    \/ StoreKey("setup") \/ StoreKey("rekey") \/ FetchKey \/ DeleteKey
    \/ Refused \/ Resume
    \/ TimerFires \/ TimerThrows

Spec == Init /\ [][Next]_vars

\* Time passes, Node runs a timer that is due, and a keychain command ends
\* (it is killed after ten seconds).
FairSpec == Spec /\ WF_vars(Tick) /\ WF_vars(TimerFires \/ TimerThrows)
                 /\ WF_vars(Refused \/ Resume)
---------------------------------------------------------------------------
(* Properties *)

\* Type invariant: the store's fields, the lockout, the files and the keychain.
TypeOK ==
    /\ proc \in {"down", "up", "wedged"}
    /\ state \in {"uninitialized", "locked", "unlocked"}
    /\ mem \in SUBSET SUBSET Items /\ Cardinality(mem) <= 1
    /\ key \in SUBSET Keys /\ Cardinality(key) <= 1
    /\ timer \in SUBSET (0..AutoLock) /\ Cardinality(timer) <= 1
    /\ sinceReset \in 0..RateLimit
    /\ lockout \in Lockouts /\ lockoutFile \in Lockouts
    /\ call \in SUBSET Calls /\ Cardinality(call) <= 1
    /\ file \in SUBSET [key: Keys, data: SUBSET Items] /\ Cardinality(file) <= 1
    /\ keychain \in SUBSET KeychainKeys /\ Cardinality(keychain) <= 1
    /\ saved \subseteq Items
    /\ promised \subseteq Keys
    /\ idle \in 0..AutoLock
    /\ guesses \in Lockouts

\* The decrypted vault and its key are in memory only while the store says it
\* is unlocked, whatever write of the vault failed (lock, destroy, the timer).
WipedWhenLocked == state # "unlocked" => mem = {} /\ key = {}

\* An acknowledged save is in the file until the item is deleted or the vault
\* destroyed: through failed writes, re-keying, auto-lock and crashes.
SavesDurable == \A i \in saved : \E f \in file : i \in f.data

\* The file opens with the key of the last acknowledged setup or rekey, at
\* every moment and so after every crash (vault-store.ts: rekey, setup).
KeyAsAcknowledged == {f.key : f \in file} = promised

\* No password is compared before the pause is over that the wrong ones so far
\* call for, restarts of the bridge in between included (VaultLockout).
LockoutHonoured ==
    [][(guesses'.failures # guesses.failures \/ guesses'.left > guesses.left)
            => guesses.left = 0]_vars

\* A vault left alone gets locked: "auto-locks after timeout and transitions to
\* locked state" (vault-store.test.ts:230).
IdleLocks == (state = "unlocked" /\ idle > 0) ~> (state # "unlocked" \/ idle = 0)

=============================================================================
