----------------------------- MODULE VaultProofs -----------------------------
(***************************************************************************)
(* Proofs about the credential vault, for any items, passwords, delays and *)
(* tiers of the lockout.                                                   *)
(*                                                                         *)
(* What an acknowledged save promises is in the file; what the next write  *)
(* puts there is in memory.  The invariant keeps the two together: what is *)
(* in memory is never less than what was promised, a store that holds a    *)
(* vault can write it, and a store that may be set up has no file.         *)
(***************************************************************************)
EXTENDS Vault, TLAPS, FiniteSetTheorems

---------------------------------------------------------------------------
(* The highest of finitely many numbers exists *)

HasMax(T) == \E m \in T : \A x \in T : x <= m

LEMMA FiniteMax ==
    ASSUME NEW S \in SUBSET Nat, IsFiniteSet(S), S # {}
    PROVE  HasMax(S)
<1> SUFFICES ASSUME ~HasMax(S) PROVE FALSE
  OBVIOUS
<1> DEFINE T == {U \in SUBSET S : U # {} /\ ~HasMax(U)}
           R == StrictSubsetOrdering(S)
<1>1. IsWellFoundedOn(R, FiniteSubsetsOf(S)) /\ FiniteSubsetsOf(S) = SUBSET S
  BY FS_StrictSubsetOrderingWellFounded, FS_FiniteSubsetsOfFinite
<1>2. T \subseteq FiniteSubsetsOf(S) /\ T # {}
  BY <1>1
<1>3. \E U \in T : \A V \in T : ~ (<<V, U>> \in R)
  <2> HIDE DEF T, R
  <2> QED  BY <1>1, <1>2, WFMin
<1>4. PICK U \in SUBSET S : /\ U # {} /\ ~HasMax(U)
                           /\ \A V \in T : <<V, U>> \notin R
  BY <1>3
<1>5. PICK x \in U : TRUE
  BY <1>4
<1> DEFINE V == U \ {x}
<1>6. V \in SUBSET S /\ <<V, U>> \in R
  BY <1>4, <1>5 DEF StrictSubsetOrdering
<1>7. V # {}
  BY <1>4, <1>5 DEF HasMax
<1>8. PICK m \in V : \A y \in V : y <= m
  BY <1>4, <1>6, <1>7 DEF HasMax
<1>9. x \in Nat /\ m \in Nat /\ U \subseteq Nat
  BY <1>4, <1>5
<1>10. CASE x <= m
  BY <1>4, <1>5, <1>8, <1>9, <1>10 DEF HasMax
<1>11. CASE m <= x
  <2>1. \A y \in U : y <= x
    BY <1>5, <1>8, <1>9, <1>11
  <2> QED  BY <2>1, <1>4, <1>5 DEF HasMax
<1> QED  BY <1>9, <1>10, <1>11

\* A field of finitely many tiers, with 0, has a maximum.
LEMMA MaxOfField ==
    ASSUME NEW Ts, IsFiniteSet(Ts), NEW f \in [Ts -> Nat]
    PROVE  HasMax({0} \cup {f[t] : t \in Ts})
<1> DEFINE I == {f[t] : t \in Ts}
<1>1. f \in Surjection(Ts, I)
  BY DEF Surjection
<1>2. IsFiniteSet(I)
  BY <1>1, FS_Surjection
<1>3. IsFiniteSet({0} \cup I)
  BY <1>2, FS_Singleton, FS_Union
<1>4. {0} \cup I \in SUBSET Nat /\ {0} \cup I # {}
  OBVIOUS
<1> QED  BY <1>3, <1>4, FiniteMax

LEMMA MaxFailuresType ==
    /\ MaxFailures \in Nat
    /\ \A t \in Tiers : t.failures <= MaxFailures
<1> DEFINE f == [t \in Tiers |-> t.failures]
           M == {0} \cup {t.failures : t \in Tiers}
<1>1. f \in [Tiers -> Nat] /\ IsFiniteSet(Tiers)
  BY VaultAssumption
<1>2. M = {0} \cup {f[t] : t \in Tiers} /\ M \subseteq Nat
  BY <1>1
<1>3. PICK m \in M : \A x \in M : x <= m
  <2> HIDE DEF f, M
  <2> QED  BY <1>1, <1>2, MaxOfField DEF HasMax
<1>4. \A t \in Tiers : t.failures <= m
  BY <1>3
<1>5. MaxFailures = CHOOSE i \in M : \A t \in Tiers : t.failures <= i
  BY DEF MaxFailures
<1> HIDE DEF M
<1>6. MaxFailures \in M /\ \A t \in Tiers : t.failures <= MaxFailures
  BY <1>3, <1>4, <1>5
<1> QED  BY <1>2, <1>6

\* The pause is one of the tiers', and none of those reached is longer.
LEMMA PauseType ==
    ASSUME NEW n
    PROVE  /\ Pause(n) \in Nat
           /\ \A r \in Pauses(n) : r <= Pause(n)
<1> DEFINE U == {u \in Tiers : u.failures <= n}
           f == [t \in U |-> t.pause]
<1>1. U \in SUBSET Tiers /\ IsFiniteSet(U)
  BY VaultAssumption, FS_Subset
<1>2. f \in [U -> Nat]
  BY <1>1, VaultAssumption
<1>3. Pauses(n) = {0} \cup {f[t] : t \in U} /\ Pauses(n) \subseteq Nat
  <2>1. {t.pause : t \in U} = {f[t] : t \in U}
    OBVIOUS
  <2>2. Pauses(n) = {0} \cup {t.pause : t \in U}
    BY DEF Pauses
  <2>3. \A t \in U : t.pause \in Nat
    BY <1>1, VaultAssumption
  <2>4. Pauses(n) \subseteq Nat
    BY <2>2, <2>3
  <2> QED  BY <2>1, <2>2, <2>4
<1>4. HasMax(Pauses(n))
  <2> HIDE DEF U, f
  <2> QED  BY <1>1, <1>2, <1>3, MaxOfField
<1> QED  BY <1>3, <1>4 DEF Pause, HasMax

LEMMA FailedType == ASSUME NEW l \in Lockouts PROVE Failed(l) \in Lockouts
<1> DEFINE n == IF l.failures < MaxFailures THEN l.failures + 1 ELSE l.failures
<1>1. n \in 0..MaxFailures
  BY MaxFailuresType DEF Lockouts
<1>2. Pause(n) \in Nat
  BY PauseType
<1>3. Failed(l) = [failures |-> n, left |-> IF Pause(n) > 0 THEN Pause(n) ELSE l.left]
  BY DEF Failed
<1> HIDE DEF n
<1> QED  BY <1>1, <1>2, <1>3 DEF Lockouts

LEMMA NoLockoutType == NoLockout \in Lockouts
BY MaxFailuresType DEF NoLockout, Lockouts

---------------------------------------------------------------------------
(* The invariant *)

AtMostOne(S) == \A x, y \in S : x = y

Types ==
    /\ proc \in {"down", "up", "wedged"}
    /\ state \in {"uninitialized", "locked", "unlocked"}
    /\ mem \in SUBSET SUBSET Items
    /\ key \in SUBSET Keys
    /\ timer \in SUBSET (0..AutoLock)
    /\ sinceReset \in 0..RateLimit
    /\ lockout \in Lockouts /\ lockoutFile \in Lockouts
    /\ call \in SUBSET Calls
    /\ file \in SUBSET [key: Keys, data: SUBSET Items]
    /\ keychain \in SUBSET KeychainKeys
    /\ saved \subseteq Items
    /\ promised \subseteq Keys
    /\ idle \in 0..AutoLock
    /\ guesses \in Lockouts

Singles ==
    /\ AtMostOne(mem) /\ AtMostOne(key) /\ AtMostOne(timer)
    /\ AtMostOne(call) /\ AtMostOne(file) /\ AtMostOne(keychain)

\* A process that is down holds nothing; one that may set a vault up finds no
\* file; one that serves a vault can write it.
Coherent ==
    /\ proc = "down" => /\ state = "uninitialized"
                        /\ mem = {} /\ key = {} /\ timer = {} /\ call = {}
    /\ proc # "down" /\ state = "uninitialized" => file = {}
    /\ state = "unlocked" /\ mem # {} => key # {}

\* Memory holds what was acknowledged, and so does the file.
Durable ==
    /\ \A m \in mem : saved \subseteq m
    /\ SavesDurable

IInv == Types /\ Singles /\ Coherent /\ Durable

LEMMA OnesCount == ASSUME NEW S, AtMostOne(S) PROVE Cardinality(S) <= 1
<1>1. CASE S = {}
  BY <1>1, FS_EmptySet
<1>2. CASE S # {}
  <2>1. PICK x \in S : S = {x}
    BY <1>2 DEF AtMostOne
  <2>2. Cardinality({x}) = 1
    BY FS_Singleton
  <2> QED  BY <2>1, <2>2
<1> QED  BY <1>1, <1>2

LEMMA DelaysType ==
    /\ 0 \in 0..AutoLock /\ AutoLock \in 0..AutoLock
    /\ 0 \in 0..RateLimit /\ RateLimit \in 0..RateLimit
<1>1. AutoLock \in Nat /\ RateLimit \in Nat
  BY VaultAssumption
<1> QED  BY <1>1

LEMMA OneImage == ASSUME NEW a, NEW b PROVE [key: {a}, data: {b}] = {[key |-> a, data |-> b]}
<1>1. \A r \in [key: {a}, data: {b}] : r = [key |-> a, data |-> b]
  OBVIOUS
<1>2. [key |-> a, data |-> b] \in [key: {a}, data: {b}]
  OBVIOUS
<1> QED  BY <1>1, <1>2

\* A write that succeeds leaves one file, or what was there.
LEMMA Written ==
    ASSUME NEW m \in SUBSET SUBSET Items, NEW k \in SUBSET Keys,
           AtMostOne(m), AtMostOne(k), PersistOK(m, k)
    PROVE  \/ (m = {} \/ k = {}) /\ file' = file
           \/ \E a \in k, b \in m : /\ k = {a} /\ m = {b}
                                    /\ file' = {[key |-> a, data |-> b]}
<1>1. CASE m = {} \/ k = {}
  <2>1. Image(m, k) = {}
    BY <1>1 DEF Image
  <2> QED  BY <1>1, <2>1 DEF PersistOK
<1>2. CASE m # {} /\ k # {}
  <2>1. PICK a \in k, b \in m : k = {a} /\ m = {b}
    BY <1>2 DEF AtMostOne
  <2>2. Image(m, k) = {[key |-> a, data |-> b]}
    BY <2>1, OneImage DEF Image
  <2>3. file' = {[key |-> a, data |-> b]}
    BY <2>2 DEF PersistOK
  <2> QED  BY <2>1, <2>3
<1> QED  BY <1>1, <1>2

LEMMA InitIInv == Init => IInv
<1> SUFFICES ASSUME Init PROVE IInv
  OBVIOUS
<1>1. Types
  BY NoLockoutType, DelaysType DEF Init, Types
<1>2. Singles
  BY DEF Init, Singles, AtMostOne
<1>3. Coherent /\ Durable
  BY DEF Init, Coherent, Durable, SavesDurable
<1> QED  BY <1>1, <1>2, <1>3 DEF IInv

---------------------------------------------------------------------------
(* Each operation of the store keeps it *)

LEMMA TouchTypes ==
    ASSUME timer \in SUBSET (0..AutoLock), AtMostOne(timer), sinceReset \in 0..RateLimit, Touch
    PROVE  /\ timer' \in SUBSET (0..AutoLock) /\ AtMostOne(timer')
           /\ sinceReset' \in 0..RateLimit
BY DelaysType DEF Touch, StartTimer, AtMostOne

LEMMA SetupKeeps ==
    ASSUME IInv, NEW k \in Keys, Setup(k), proc = "up",
           proc' = proc, call' \in SUBSET call, keychain' = keychain
    PROVE  IInv'
<1> DEFINE f == [key |-> k, data |-> {}]
<1>1. /\ file' = {f} /\ mem' = {{}} /\ key' = {k} /\ state' = "unlocked"
      /\ timer' = {AutoLock} /\ sinceReset' = 0 /\ promised' = {k} /\ idle' = 0
      /\ UNCHANGED <<lockout, lockoutFile, saved, guesses>>
  <2>1. [key: {k}, data: {{}}] = {f}
    BY OneImage
  <2> QED  BY <2>1 DEF Setup, StartTimer, Used
<1>2. file = {} /\ saved = {}
  BY DEF Setup, IInv, Coherent, Durable, SavesDurable
<1>3. Types'
  BY <1>1, DelaysType DEF IInv, Types
<1>4. Singles'
  BY <1>1 DEF IInv, Singles, AtMostOne
<1>5. Coherent' /\ Durable'
  BY <1>1, <1>2 DEF Coherent, Durable, SavesDurable
<1> QED  BY <1>3, <1>4, <1>5 DEF IInv

LEMMA OpenKeeps ==
    ASSUME IInv, NEW k \in Keys, NEW thrown \in {"up", "wedged"}, Open(k, thrown), proc = "up",
           call' \in SUBSET call, keychain' = keychain
    PROVE  IInv'
<1>1. PICK f \in file :
        /\ state = "locked" /\ f.key = k
        /\ mem' = {f.data}
        /\ guesses' = NoLockout
        /\ UNCHANGED <<saved, promised>>
        /\ lockout' = NoLockout /\ lockoutFile' \in {lockoutFile, NoLockout}
        /\ \/ /\ key' = {k} /\ state' = "unlocked"
              /\ idle' = 0
              /\ proc' = proc
              /\ \/ PersistOK(mem', key') /\ StartTimer
                 \/ file' = file /\ UNCHANGED <<timer, sinceReset>>
           \/ /\ proc' = thrown
              /\ UNCHANGED <<key, state, timer, sinceReset, file, idle>>
  BY DEF Open, SaveLockout, SaveLockoutFails, Used, PersistFails
<1>2. f \in [key: Keys, data: SUBSET Items] /\ file = {f} /\ f = [key |-> k, data |-> f.data]
  BY <1>1 DEF IInv, Types, Singles, AtMostOne
<1>3. file' = file
  <2>1. CASE PersistOK(mem', key') /\ key' = {k}
    <3>1. [key: {k}, data: {f.data}] = {[key |-> k, data |-> f.data]}
      BY OneImage
    <3>2. Image(mem', key') = {f}
      BY <1>1, <1>2, <2>1, <3>1 DEF Image
    <3> QED  BY <2>1, <1>2, <3>2 DEF PersistOK
  <2> QED  BY <1>1, <2>1
<1>4. key' \in SUBSET Keys /\ AtMostOne(key') /\ (state' = "unlocked" => key' # {})
  BY <1>1 DEF IInv, Types, Singles, AtMostOne
<1>5. /\ timer' \in SUBSET (0..AutoLock) /\ AtMostOne(timer')
      /\ sinceReset' \in 0..RateLimit /\ idle' \in 0..AutoLock
  BY <1>1, DelaysType DEF IInv, Types, Singles, AtMostOne, StartTimer
<1>6. Types'
  BY <1>1, <1>2, <1>3, <1>4, <1>5, NoLockoutType DEF IInv, Types
<1>7. Singles'
  BY <1>1, <1>3, <1>4, <1>5 DEF IInv, Singles, AtMostOne
<1>8. Coherent'
  BY <1>1, <1>3, <1>4 DEF IInv, Coherent
<1>9. Durable'
  BY <1>1, <1>2, <1>3 DEF IInv, Durable, SavesDurable
<1> QED  BY <1>6, <1>7, <1>8, <1>9 DEF IInv

LEMMA LockedKeeps ==
    ASSUME IInv, Locked,
           UNCHANGED <<proc, call, lockout, lockoutFile, keychain, histVars>>
    PROVE  IInv'
<1>1. /\ mem' = {} /\ key' = {} /\ timer' = {} /\ UNCHANGED sinceReset
      /\ state = "unlocked" /\ state' = "locked"
      /\ UNCHANGED <<saved, promised, idle, guesses>>
  BY DEF Locked, Wipe, histVars
<1>2. \/ file' = file
      \/ \E a \in key, b \in mem : key = {a} /\ mem = {b} /\ file' = {[key |-> a, data |-> b]}
  BY Written DEF Locked, IInv, Types, Singles
<1>3. file' \in SUBSET [key: Keys, data: SUBSET Items] /\ AtMostOne(file')
  BY <1>2 DEF IInv, Types, Singles, AtMostOne
<1>4. Types'
  BY <1>1, <1>3 DEF IInv, Types
<1>5. Singles'
  BY <1>1, <1>3 DEF IInv, Singles, AtMostOne
<1>6. Coherent'
  BY <1>1 DEF IInv, Coherent
<1>7. Durable'
  <2>1. \A i \in saved : \E f \in file' : i \in f.data
    <3>1. CASE file' = file
      BY <3>1 DEF IInv, Durable, SavesDurable
    <3>2. ASSUME NEW a \in key, NEW b \in mem, file' = {[key |-> a, data |-> b]}
          PROVE  \A i \in saved : \E f \in file' : i \in f.data
      BY <3>2 DEF IInv, Durable
    <3> QED  BY <1>2, <3>1, <3>2
  <2> QED  BY <1>1, <2>1 DEF Durable, SavesDurable
<1> QED  BY <1>4, <1>5, <1>6, <1>7 DEF IInv

LEMMA ChangeKeeps ==
    ASSUME IInv, NEW m \in SUBSET SUBSET Items, NEW done \in SUBSET Items, AtMostOne(m), m # {},
           \A n \in m : done \subseteq n /\ saved \cap done \subseteq n,
           Change(m, done),
           UNCHANGED <<proc, call, lockout, lockoutFile, keychain, guesses>>
    PROVE  IInv'
<1>1. /\ state = "unlocked" /\ mem # {} /\ mem' = m /\ idle' = 0
      /\ UNCHANGED <<state, key, promised>>
      /\ \/ PersistOK(m, key) /\ saved' = done
         \/ file' = file /\ saved' = saved \cap done
  BY DEF Change, Used, PersistFails
<1>2. /\ timer' \in SUBSET (0..AutoLock) /\ AtMostOne(timer')
      /\ sinceReset' \in 0..RateLimit
  BY TouchTypes DEF Change, IInv, Types, Singles
<1>3. key # {} /\ key \in SUBSET Keys /\ AtMostOne(key)
  BY <1>1 DEF IInv, Coherent, Types, Singles
<1>4. \/ \E a \in key, b \in m : m = {b} /\ file' = {[key |-> a, data |-> b]} /\ saved' = done
      \/ file' = file /\ saved' = saved \cap done
  BY <1>1, <1>3, Written
<1>5. file' \in SUBSET [key: Keys, data: SUBSET Items] /\ AtMostOne(file')
  BY <1>3, <1>4 DEF IInv, Types, Singles, AtMostOne
<1>6. Types'
  BY <1>1, <1>2, <1>4, <1>5, DelaysType DEF IInv, Types
<1>7. Singles'
  BY <1>1, <1>2, <1>5 DEF IInv, Singles
<1>8. Coherent'
  BY <1>1, <1>3 DEF IInv, Coherent
<1>9. \A n \in mem' : saved' \subseteq n
  BY <1>1
<1>10. \A i \in saved' : \E f \in file' : i \in f.data
  <2>1. CASE file' = file /\ saved' = saved \cap done
    BY <2>1 DEF IInv, Durable, SavesDurable
  <2>2. ASSUME NEW a \in key, NEW b \in m, file' = {[key |-> a, data |-> b]}, saved' = done
        PROVE  \A i \in saved' : \E f \in file' : i \in f.data
    BY <2>2
  <2> QED  BY <1>4, <2>1, <2>2
<1> QED  BY <1>6, <1>7, <1>8, <1>9, <1>10 DEF IInv, Durable, SavesDurable

LEMMA RekeyKeeps ==
    ASSUME IInv, NEW k \in Keys, Rekey(k), UNCHANGED <<proc, lockout, lockoutFile, keychain, guesses>>,
           call' \in SUBSET call
    PROVE  IInv'
<1>1. /\ state = "unlocked" /\ key' = {k} /\ idle' = 0
      /\ UNCHANGED <<state, mem, saved>>
      /\ promised' \in {{k}, promised}
      /\ PersistOK(mem, key') \/ file' = file
  BY DEF Rekey, Used, PersistFails
<1>2. /\ timer' \in SUBSET (0..AutoLock) /\ AtMostOne(timer')
      /\ sinceReset' \in 0..RateLimit
  BY TouchTypes DEF Rekey, IInv, Types, Singles
<1>3. key' \in SUBSET Keys /\ AtMostOne(key') /\ key' # {}
  BY <1>1 DEF AtMostOne
<1>4. \/ \E a \in key', b \in mem : mem = {b} /\ file' = {[key |-> a, data |-> b]}
      \/ file' = file
  BY <1>1, <1>3, Written DEF IInv, Types, Singles
<1>5. file' \in SUBSET [key: Keys, data: SUBSET Items] /\ AtMostOne(file')
  BY <1>3, <1>4 DEF IInv, Types, Singles, AtMostOne
<1>6. Types'
  BY <1>1, <1>2, <1>5, DelaysType DEF IInv, Types
<1>7. Singles'
  BY <1>1, <1>2, <1>3, <1>5 DEF IInv, Singles, AtMostOne
<1>8. Coherent'
  BY <1>1, <1>3 DEF IInv, Coherent
<1>9. \A i \in saved' : \E f \in file' : i \in f.data
  <2>1. CASE file' = file
    BY <1>1, <2>1 DEF IInv, Durable, SavesDurable
  <2>2. ASSUME NEW a \in key', NEW b \in mem, file' = {[key |-> a, data |-> b]}
        PROVE  \A i \in saved' : \E f \in file' : i \in f.data
    BY <1>1, <2>2 DEF IInv, Durable
  <2> QED  BY <1>4, <2>1, <2>2
<1> QED  BY <1>1, <1>6, <1>7, <1>8, <1>9 DEF IInv, Durable, SavesDurable

LEMMA DestroyKeeps ==
    ASSUME IInv, Destroy, UNCHANGED <<proc, lockout, lockoutFile, keychain>>,
           call' \in SUBSET call
    PROVE  IInv'
<1>1. /\ mem' = {} /\ key' = {} /\ timer' = {} /\ saved' = {}
      /\ UNCHANGED <<sinceReset, idle, guesses>>
      /\ \/ file' = {} /\ state' = "uninitialized" /\ promised' = {}
         \/ UNCHANGED <<file, state, promised>>
  BY DEF Destroy, Wipe
<1>2. Types'
  BY <1>1 DEF IInv, Types
<1>3. Singles'
  BY <1>1 DEF IInv, Singles, AtMostOne
<1>4. Coherent' /\ Durable'
  BY <1>1 DEF IInv, Coherent, Durable, SavesDurable
<1> QED  BY <1>2, <1>3, <1>4 DEF IInv

LEMMA WrongPasswordKeeps ==
    ASSUME IInv, NEW w \in Passwords, WrongPassword(w), proc = "up",
           UNCHANGED <<call, keychain>>
    PROVE  IInv'
<1>1. /\ lockout' = Failed(lockout) /\ lockoutFile' \in {lockoutFile, Failed(lockout)}
      /\ proc' \in {proc, "wedged"} /\ guesses' = Failed(guesses)
      /\ UNCHANGED <<state, mem, key, timer, sinceReset, file, saved, promised, idle>>
  BY DEF WrongPassword, SaveLockout, SaveLockoutFails, storeVars
<1>2. Failed(lockout) \in Lockouts /\ Failed(guesses) \in Lockouts
  BY FailedType DEF IInv, Types
<1>3. Types'
  BY <1>1, <1>2 DEF IInv, Types
<1>4. Singles'
  BY <1>1 DEF IInv, Singles
<1>5. Coherent' /\ Durable'
  BY <1>1 DEF IInv, Coherent, Durable, SavesDurable
<1> QED  BY <1>3, <1>4, <1>5 DEF IInv

---------------------------------------------------------------------------
(* and so does every step *)

LEMMA ForgetKeeps ==
    ASSUME IInv, proc' = "down", Forget, UNCHANGED <<file, lockoutFile, keychain, histVars>>
    PROVE  IInv'
<1>1. Types'
  BY NoLockoutType, DelaysType DEF IInv, Types, Forget, histVars
<1>2. Singles'
  BY DEF IInv, Singles, AtMostOne, Forget
<1>3. Coherent' /\ Durable'
  BY DEF IInv, Coherent, Durable, SavesDurable, Forget, histVars
<1> QED  BY <1>1, <1>2, <1>3 DEF IInv

LEMMA BootKeeps == IInv /\ Boot => IInv'
<1> SUFFICES ASSUME IInv, Boot PROVE IInv'
  OBVIOUS
<1> USE DEF Boot, diskVars, histVars
<1>1. Types'
  BY DEF IInv, Types
<1>2. Singles'
  BY DEF IInv, Singles
<1>3. Coherent' /\ Durable'
  BY DEF IInv, Coherent, Durable, SavesDurable
<1> QED  BY <1>1, <1>2, <1>3 DEF IInv

LEMMA TickKeeps == IInv /\ Tick => IInv'
<1> SUFFICES ASSUME IInv, Tick PROVE IInv'
  OBVIOUS
<1>0. AutoLock \in Nat /\ RateLimit \in Nat
  BY VaultAssumption
<1>1. /\ timer' = {Less(t) : t \in timer}
      /\ sinceReset' = More(sinceReset, RateLimit)
      /\ lockout' = [lockout EXCEPT !.left = Less(lockout.left)]
      /\ lockoutFile' = [lockoutFile EXCEPT !.left = Less(lockoutFile.left)]
      /\ idle' = More(idle, AutoLock)
      /\ guesses' = [guesses EXCEPT !.left = Less(guesses.left)]
      /\ UNCHANGED <<proc, state, mem, key, call, file, keychain, saved, promised>>
  BY DEF Tick
<1>2. \A t \in 0..AutoLock : Less(t) \in 0..AutoLock
  BY <1>0 DEF Less
<1>3. timer' \in SUBSET (0..AutoLock) /\ AtMostOne(timer') /\ (timer = {} => timer' = {})
  BY <1>1, <1>2 DEF IInv, Types, Singles, AtMostOne
<1>4. sinceReset' \in 0..RateLimit /\ idle' \in 0..AutoLock
  BY <1>0, <1>1 DEF IInv, Types, More
<1>5. \A l \in Lockouts : [l EXCEPT !.left = Less(l.left)] \in Lockouts
  BY DEF Lockouts, Less
<1>6. Types'
  BY <1>1, <1>3, <1>4, <1>5 DEF IInv, Types
<1>7. Singles'
  BY <1>1, <1>3 DEF IInv, Singles
<1>8. Coherent' /\ Durable'
  BY <1>1, <1>3 DEF IInv, Coherent, Durable, SavesDurable
<1> QED  BY <1>6, <1>7, <1>8 DEF IInv

\* A step that does not touch what the invariant ties together.
LEMMA QuietKeeps ==
    ASSUME IInv, UNCHANGED <<state, mem, key, lockout, file, lockoutFile, saved, promised, guesses>>,
           proc = "up", proc' \in {"up", "wedged"},
           timer' \in SUBSET (0..AutoLock), AtMostOne(timer'), sinceReset' \in 0..RateLimit,
           idle' \in 0..AutoLock,
           call' \in SUBSET Calls, AtMostOne(call'),
           keychain' \in SUBSET KeychainKeys, AtMostOne(keychain')
    PROVE  IInv'
<1>1. Types'
  BY DEF IInv, Types
<1>2. Singles'
  BY DEF IInv, Singles
<1>3. Coherent' /\ Durable'
  BY DEF IInv, Coherent, Durable, SavesDurable
<1> QED  BY <1>1, <1>2, <1>3 DEF IInv

LEMMA StepIInv == IInv /\ [Next]_vars => IInv'
<1> SUFFICES ASSUME IInv, [Next]_vars PROVE IInv'
  OBVIOUS
<1> USE DEF storeVars, diskVars, histVars
<1>0. /\ call \in SUBSET Calls /\ AtMostOne(call)
      /\ keychain \in SUBSET KeychainKeys /\ AtMostOne(keychain)
      /\ timer \in SUBSET (0..AutoLock) /\ AtMostOne(timer)
      /\ sinceReset \in 0..RateLimit /\ idle \in 0..AutoLock
      /\ 0 \in 0..AutoLock
      /\ Passwords \subseteq Keys /\ KeychainKeys \subseteq Keys
  BY DelaysType DEF IInv, Types, Singles, Keys
<1>1. CASE Boot
  BY <1>1, BootKeeps
<1>2. CASE Die
  BY <1>2, ForgetKeeps DEF Die
<1>3. CASE Tick
  BY <1>3, TickKeeps
<1>4. ASSUME NEW w \in Passwords, SetupPassword(w) PROVE IInv'
  BY <1>0, <1>4, SetupKeeps DEF SetupPassword, Serving
<1>5. ASSUME NEW w \in Passwords, UnlockPassword(w) PROVE IInv'
  <2>1. proc = "up" /\ UNCHANGED <<call, keychain>> /\ w \in Keys
    BY <1>0, <1>5 DEF UnlockPassword, Serving
  <2>2. CASE Open(w, "wedged")
    BY <2>1, <2>2, OpenKeeps
  <2>3. CASE WrongPassword(w)
    BY <2>1, <2>3, WrongPasswordKeeps
  <2> QED  BY <1>5, <2>2, <2>3 DEF UnlockPassword
<1>6. ASSUME NEW w \in Passwords, RekeyPassword(w) PROVE IInv'
  BY <1>0, <1>6, RekeyKeeps DEF RekeyPassword
<1>7. CASE Lock
  BY <1>7, LockedKeeps DEF Lock
<1>8. CASE ReadItems
  BY <1>0, <1>8, TouchTypes, QuietKeeps DEF ReadItems, Used, Serving
<1>9. CASE ChangeItems
  <2>1. /\ UNCHANGED <<proc, call, lockout, lockoutFile, keychain, guesses>>
        /\ \E i \in Items : SaveItem(i) \/ DeleteItem(i)
    BY <1>9 DEF ChangeItems
  <2>2. /\ saved \in SUBSET Items /\ mem \in SUBSET SUBSET Items
        /\ \A m \in mem : saved \subseteq m
    BY DEF IInv, Types, Durable
  <2>3. ASSUME NEW i \in Items, NEW m \in mem, Change({m \cup {i}}, saved \cup {i})
        PROVE  IInv'
    <3> DEFINE n == {m \cup {i}}
               d == saved \cup {i}
    <3>1. /\ n \in SUBSET SUBSET Items /\ d \in SUBSET Items /\ AtMostOne(n) /\ n # {}
          /\ \A x \in n : d \subseteq x /\ saved \cap d \subseteq x
      BY <2>2 DEF AtMostOne
    <3>2. Change(n, d)
      BY <2>3
    <3> HIDE DEF n, d
    <3> QED  BY <2>1, <3>1, <3>2, ChangeKeeps
  <2>4. ASSUME NEW i \in Items, NEW m \in mem, Change({m \ {i}}, saved \ {i})
        PROVE  IInv'
    <3> DEFINE n == {m \ {i}}
               d == saved \ {i}
    <3>1. /\ n \in SUBSET SUBSET Items /\ d \in SUBSET Items /\ AtMostOne(n) /\ n # {}
          /\ \A x \in n : d \subseteq x /\ saved \cap d \subseteq x
      BY <2>2 DEF AtMostOne
    <3>2. Change(n, d)
      BY <2>4
    <3> HIDE DEF n, d
    <3> QED  BY <2>1, <3>1, <3>2, ChangeKeeps
  <2> QED  BY <2>1, <2>3, <2>4 DEF SaveItem, DeleteItem
<1>10. CASE TouchNothing
  BY <1>0, <1>10, TouchTypes, QuietKeeps DEF TouchNothing, Used, Serving
<1>11. ASSUME NEW op \in {"setup", "rekey"}, StoreKey(op) PROVE IInv'
  <2>1. /\ proc = "up" /\ UNCHANGED <<proc, storeVars, lockout, file, lockoutFile, histVars>>
        /\ keychain' \in SUBSET KeychainKeys /\ AtMostOne(keychain')
        /\ \/ call' = call
           \/ \E k \in KeychainKeys : call' = {[op |-> op, key |-> k]}
    BY <1>0, <1>11 DEF StoreKey, Serving, Fresh, AtMostOne
  <2>2. call' \in SUBSET Calls /\ AtMostOne(call')
    BY <1>0, <2>1 DEF Calls, AtMostOne
  <2> QED  BY <1>0, <2>1, <2>2, QuietKeeps
<1>12. CASE FetchKey
  <2>1. call' = {[op |-> "unlock", key |-> k] : k \in keychain}
    BY <1>12 DEF FetchKey
  <2>2. call' \in SUBSET Calls /\ AtMostOne(call')
    BY <1>0, <2>1 DEF Calls, AtMostOne
  <2> QED  BY <1>0, <1>12, <2>2, QuietKeeps DEF FetchKey, Serving
<1>13. CASE DeleteKey
  <2>1. call' = {[op |-> "destroy"]} /\ keychain' \in {{}, keychain}
    BY <1>13 DEF DeleteKey
  <2>2. call' \in SUBSET Calls /\ AtMostOne(call')
    BY <2>1 DEF Calls, AtMostOne
  <2>3. keychain' \in SUBSET KeychainKeys /\ AtMostOne(keychain')
    BY <1>0, <2>1 DEF AtMostOne
  <2> QED  BY <1>0, <1>13, <2>2, <2>3, QuietKeeps DEF DeleteKey, Serving
<1>14. CASE Refused
  <2>1. call' = {}
    BY <1>14 DEF Refused
  <2>2. call' \in SUBSET Calls /\ AtMostOne(call')
    BY <2>1 DEF AtMostOne
  <2> QED  BY <1>0, <1>14, <2>2, QuietKeeps DEF Refused
<1>15. CASE Resume
  <2>1. /\ proc = "up" /\ call' = {} /\ call' \in SUBSET call /\ UNCHANGED keychain
        /\ \E c \in call :
            \/ c.op = "setup" /\ Setup(c.key) /\ UNCHANGED proc
            \/ c.op = "unlock" /\ Open(c.key, "up")
            \/ c.op = "rekey" /\ Rekey(c.key) /\ UNCHANGED <<proc, lockout, lockoutFile, guesses>>
            \/ c.op = "destroy" /\ Destroy /\ UNCHANGED <<proc, lockout, lockoutFile>>
    BY <1>15 DEF Resume
  <2>2. \A c \in call : c.op # "destroy" => c.key \in Keys
    BY <1>0 DEF Calls
  <2> QED  BY <2>1, <2>2, SetupKeeps, OpenKeeps, RekeyKeeps, DestroyKeeps
<1>16. CASE TimerFires
  BY <1>16, LockedKeeps DEF TimerFires
<1>17. CASE TimerThrows
  <2>1. file' = file
    BY <1>17 DEF TimerThrows, PersistFails
  <2> QED  BY <1>17, <2>1, ForgetKeeps DEF TimerThrows
<1>18. CASE UNCHANGED vars
  <2>1. Types' /\ Singles'
    BY <1>18 DEF vars, IInv, Types, Singles
  <2>2. Coherent' /\ Durable'
    BY <1>18 DEF vars, IInv, Coherent, Durable, SavesDurable
  <2> QED  BY <2>1, <2>2 DEF IInv
<1> QED
  BY <1>1, <1>2, <1>3, <1>4, <1>5, <1>6, <1>7, <1>8, <1>9, <1>10, <1>11, <1>12, <1>13,
     <1>14, <1>15, <1>16, <1>17, <1>18 DEF Next

LEMMA Invariant == Spec => []IInv
  BY InitIInv, StepIInv, PTL DEF Spec

\* The store's fields, the lockout, the files and the keychain keep their types,
\* and there is at most one vault, key, timer, file and waiting handler.
THEOREM TypeCorrect == Spec => []TypeOK
<1>1. IInv => TypeOK
  BY OnesCount DEF IInv, Types, Singles, TypeOK
<1> QED  BY Invariant, <1>1, PTL

\* An acknowledged save stays in the file, whichever writes fail: those of the
\* vault, of the lockout or of the keychain.
THEOREM SavesAreDurable == Spec => []SavesDurable
<1>1. IInv => SavesDurable
  BY DEF IInv, Durable
<1> QED  BY Invariant, <1>1, PTL

---------------------------------------------------------------------------
(* A vault file that can be written opens with the acknowledged key *)

KeyInv ==
    /\ KeyAsAcknowledged
    /\ state = "unlocked" => mem # {} /\ key # {} /\ key = promised

LEMMA KeyOfOne == ASSUME NEW r PROVE {f.key : f \in {r}} = {r.key}
OBVIOUS

\* A write that succeeds, of a vault and a key that are there.
LEMMA WrittenKey ==
    ASSUME NEW m \in SUBSET SUBSET Items, NEW k \in SUBSET Keys,
           AtMostOne(m), AtMostOne(k), m # {}, k # {}, PersistOK(m, k)
    PROVE  {f.key : f \in file'} = k
<1>1. PICK a \in k, b \in m : k = {a} /\ file' = {[key |-> a, data |-> b]}
  BY Written
<1> QED  BY <1>1

LEMMA KeyStep ==
    ASSUME "vault file" \notin MayFail, IInv, KeyInv, [Next]_vars
    PROVE  KeyInv'
<1> USE DEF storeVars, diskVars, histVars
<1>0. /\ mem \in SUBSET SUBSET Items /\ AtMostOne(mem)
      /\ key \in SUBSET Keys /\ AtMostOne(key)
      /\ Passwords \subseteq Keys /\ KeychainKeys \subseteq Keys
      /\ \A c \in call : c.op # "destroy" => c.key \in Keys
  BY DEF IInv, Types, Singles, Keys, Calls
<1>1. ASSUME UNCHANGED <<file, promised>>,
             state' = "unlocked" => state = "unlocked" /\ UNCHANGED <<mem, key>>
      PROVE  KeyInv'
  BY <1>1 DEF KeyInv, KeyAsAcknowledged
<1>2. ASSUME NEW k, Setup(k) PROVE KeyInv'
  <2>1. file' = {[key |-> k, data |-> {}]} /\ key' = {k} /\ mem' = {{}} /\ promised' = {k}
    BY <1>2, OneImage DEF Setup
  <2>2. {f.key : f \in file'} = {k}
    BY <2>1, KeyOfOne
  <2> QED  BY <2>1, <2>2 DEF KeyInv, KeyAsAcknowledged
<1>3. ASSUME NEW k \in Keys, NEW thrown, Open(k, thrown) PROVE KeyInv'
  <2>1. PICK f \in file :
          /\ state = "locked" /\ f.key = k /\ mem' = {f.data} /\ UNCHANGED promised
          /\ \/ key' = {k} /\ state' = "unlocked" /\ PersistOK(mem', key')
             \/ UNCHANGED <<key, state, file>>
    BY <1>3 DEF Open, PersistFails
  <2>2. file = {f} /\ f \in [key: Keys, data: SUBSET Items]
    BY <2>1 DEF IInv, Types, Singles, AtMostOne
  <2>3. promised = {k}
    BY <2>1, <2>2, KeyOfOne DEF KeyInv, KeyAsAcknowledged
  <2>4. CASE key' = {k} /\ state' = "unlocked" /\ PersistOK(mem', key')
    <3> DEFINE m == {f.data}
               j == {k}
    <3>1. m \in SUBSET SUBSET Items /\ j \in SUBSET Keys /\ m # {} /\ j # {}
      BY <2>2
    <3>2. AtMostOne(m) /\ AtMostOne(j)
      BY DEF AtMostOne
    <3>3. PersistOK(m, j)
      BY <2>1, <2>4
    <3>4. {g.key : g \in file'} = j
      <4> HIDE DEF m, j
      <4> QED  BY <3>1, <3>2, <3>3, WrittenKey
    <3> QED  BY <2>1, <2>3, <2>4, <3>4 DEF KeyInv, KeyAsAcknowledged
  <2>5. CASE UNCHANGED <<key, state, file>>
    BY <2>1, <2>5 DEF KeyInv, KeyAsAcknowledged
  <2> QED  BY <2>1, <2>4, <2>5
<1>4. ASSUME NEW w, WrongPassword(w) PROVE KeyInv'
  BY <1>1, <1>4 DEF WrongPassword
<1>5. ASSUME NEW k \in Keys, Rekey(k) PROVE KeyInv'
  <2>1. /\ state = "unlocked" /\ key' = {k} /\ UNCHANGED mem
        /\ PersistOK(mem, key') /\ promised' = {k}
    BY <1>5 DEF Rekey, PersistFails
  <2>2. mem # {} /\ key' \in SUBSET Keys /\ AtMostOne(key') /\ key' # {}
    BY <2>1 DEF KeyInv, AtMostOne
  <2>3. {f.key : f \in file'} = key'
    BY <1>0, <2>1, <2>2, WrittenKey
  <2> QED  BY <2>1, <2>2, <2>3 DEF KeyInv, KeyAsAcknowledged
<1>6. ASSUME Locked, UNCHANGED promised PROVE KeyInv'
  <2>1. state' = "locked" /\ PersistOK(mem, key) /\ mem # {} /\ key # {} /\ key = promised
    BY <1>6 DEF Locked, KeyInv
  <2>2. {f.key : f \in file'} = key
    BY <1>0, <2>1, WrittenKey
  <2> QED  BY <1>6, <2>1, <2>2 DEF KeyInv, KeyAsAcknowledged
<1>7. ASSUME NEW m, NEW done, m \in SUBSET SUBSET Items, AtMostOne(m), m # {}, Change(m, done)
      PROVE  KeyInv'
  <2>1. /\ state = "unlocked" /\ mem' = m /\ PersistOK(m, key)
        /\ UNCHANGED <<state, key, promised>>
    BY <1>7 DEF Change, PersistFails
  <2>2. {f.key : f \in file'} = key
    BY <1>0, <1>7, <2>1, WrittenKey DEF KeyInv
  <2> QED  BY <1>7, <2>1, <2>2 DEF KeyInv, KeyAsAcknowledged
<1>8. CASE Boot \/ Die \/ Tick \/ ReadItems \/ TouchNothing
  BY <1>1, <1>8 DEF Boot, Die, Forget, Tick, ReadItems, TouchNothing
<1>9. ASSUME NEW w \in Passwords, SetupPassword(w) \/ UnlockPassword(w) \/ RekeyPassword(w)
      PROVE  KeyInv'
  BY <1>0, <1>2, <1>3, <1>4, <1>5, <1>9 DEF SetupPassword, UnlockPassword, RekeyPassword
<1>10. CASE Lock \/ TimerFires
  BY <1>6, <1>10 DEF Lock, TimerFires
<1>11. CASE ChangeItems
  <2>1. PICK i \in Items, m \in mem :
          \/ Change({m \cup {i}}, saved \cup {i})
          \/ Change({m \ {i}}, saved \ {i})
    BY <1>11 DEF ChangeItems, SaveItem, DeleteItem
  <2>2. \A n \in {{m \cup {i}}, {m \ {i}}} :
            n \in SUBSET SUBSET Items /\ AtMostOne(n) /\ n # {}
    BY <1>0, <2>1 DEF AtMostOne
  <2> QED  BY <1>7, <2>1, <2>2
<1>12. CASE StoreKey("setup") \/ StoreKey("rekey") \/ FetchKey \/ DeleteKey \/ Refused
  BY <1>1, <1>12 DEF StoreKey, FetchKey, DeleteKey, Refused
<1>13. CASE Resume
  <2>1. CASE Destroy
    <3>1. file' = {} /\ state' = "uninitialized" /\ promised' = {}
      BY <2>1 DEF Destroy
    <3> QED  BY <3>1 DEF KeyInv, KeyAsAcknowledged
  <2> QED  BY <1>0, <1>2, <1>3, <1>5, <1>13, <2>1 DEF Resume
<1>14. CASE TimerThrows
  BY <1>14 DEF TimerThrows, PersistFails
<1>15. CASE UNCHANGED vars
  BY <1>1, <1>15 DEF vars
<1> QED
  BY <1>8, <1>9, <1>10, <1>11, <1>12, <1>13, <1>14, <1>15 DEF Next

\* Where the vault file can be written it opens with the key of the last
\* acknowledged setup or rekey, whatever the keychain and the lockout file do.
THEOREM KeyIsAcknowledged ==
    ASSUME "vault file" \notin MayFail
    PROVE  Spec => []KeyAsAcknowledged
<1>1. Init => KeyInv
  BY DEF Init, KeyInv, KeyAsAcknowledged
<1>2. IInv /\ KeyInv /\ [Next]_vars => KeyInv'
  BY KeyStep
<1>3. KeyInv => KeyAsAcknowledged
  BY DEF KeyInv
<1> QED  BY Invariant, <1>1, <1>2, <1>3, PTL DEF Spec

---------------------------------------------------------------------------
(* A lockout file that can be written *)

\* The pause that is due is the one in the file, and a process that runs has it.
LockoutKept ==
    /\ guesses = lockoutFile
    /\ proc # "down" => lockout = lockoutFile

LEMMA LockoutStep ==
    ASSUME "lockout file" \notin MayFail, IInv, LockoutKept, WipedWhenLocked, [Next]_vars
    PROVE  LockoutKept' /\ WipedWhenLocked'
<1> USE DEF storeVars, diskVars, histVars
<1>1. ASSUME UNCHANGED <<lockoutFile, guesses>>,
             \/ proc' = "down"
             \/ UNCHANGED lockout /\ proc # "down"
      PROVE  LockoutKept'
  BY <1>1 DEF LockoutKept
<1>2. ASSUME \/ mem' = {} /\ key' = {}
             \/ state' = "unlocked"
             \/ UNCHANGED <<state, mem, key>>
      PROVE  WipedWhenLocked'
  BY <1>2 DEF WipedWhenLocked
<1>3. proc = "down" => mem = {} /\ key = {} /\ state # "unlocked" /\ timer = {} /\ call = {}
  BY DEF IInv, Coherent
<1>4. ASSUME NEW k, Setup(k), UNCHANGED proc, proc = "up"
      PROVE  LockoutKept' /\ WipedWhenLocked'
  BY <1>1, <1>2, <1>4 DEF Setup
<1>5. ASSUME NEW k, NEW thrown, Open(k, thrown), proc = "up"
      PROVE  LockoutKept' /\ WipedWhenLocked'
  <2>1. state' = "unlocked" /\ lockout' = NoLockout /\ lockoutFile' = NoLockout /\ guesses' = NoLockout
    BY <1>5 DEF Open, SaveLockout, SaveLockoutFails
  <2> QED  BY <1>2, <2>1 DEF LockoutKept
<1>6. ASSUME NEW w, WrongPassword(w), proc = "up"
      PROVE  LockoutKept' /\ WipedWhenLocked'
  <2>1. /\ lockout' = Failed(lockout) /\ lockoutFile' = Failed(lockout) /\ guesses' = Failed(guesses)
        /\ UNCHANGED <<state, mem, key>>
    BY <1>6 DEF WrongPassword, SaveLockout, SaveLockoutFails
  <2> QED  BY <1>2, <1>6, <2>1 DEF LockoutKept
<1>7. ASSUME NEW k, Rekey(k), UNCHANGED <<proc, lockout, lockoutFile, guesses>>, proc = "up"
      PROVE  LockoutKept' /\ WipedWhenLocked'
  BY <1>1, <1>2, <1>7 DEF Rekey
<1>8. ASSUME Locked, UNCHANGED <<proc, lockout, lockoutFile, guesses>>
      PROVE  LockoutKept' /\ WipedWhenLocked'
  BY <1>1, <1>2, <1>3, <1>8 DEF Locked, Wipe
<1>9. CASE Boot
  BY <1>2, <1>3, <1>9 DEF Boot, LockoutKept, WipedWhenLocked
<1>10. CASE Die \/ TimerThrows
  BY <1>1, <1>2, <1>10 DEF Die, TimerThrows, Forget
<1>11. CASE Tick
  BY <1>2, <1>11 DEF Tick, LockoutKept
<1>12. ASSUME NEW w \in Passwords, SetupPassword(w) \/ UnlockPassword(w) \/ RekeyPassword(w)
       PROVE  LockoutKept' /\ WipedWhenLocked'
  BY <1>4, <1>5, <1>6, <1>7, <1>12 DEF SetupPassword, UnlockPassword, RekeyPassword, Serving
<1>13. CASE Lock \/ TimerFires
  BY <1>8, <1>13 DEF Lock, TimerFires
<1>14. CASE ReadItems \/ TouchNothing
  BY <1>1, <1>2, <1>14 DEF ReadItems, TouchNothing, Serving
<1>15. CASE ChangeItems
  <2>1. UNCHANGED <<proc, lockout, lockoutFile, guesses, state>> /\ state = "unlocked" /\ proc = "up"
    BY <1>15 DEF ChangeItems, SaveItem, DeleteItem, Change, Serving
  <2> QED  BY <1>1, <1>2, <2>1
<1>16. CASE StoreKey("setup") \/ StoreKey("rekey") \/ FetchKey \/ DeleteKey \/ Refused
  BY <1>1, <1>2, <1>16 DEF StoreKey, FetchKey, DeleteKey, Refused, Serving
<1>17. CASE Resume
  <2>1. ASSUME Destroy, UNCHANGED <<proc, lockout, lockoutFile>>, proc = "up"
        PROVE  LockoutKept' /\ WipedWhenLocked'
    BY <1>1, <1>2, <2>1 DEF Destroy, Wipe
  <2> QED  BY <1>4, <1>5, <1>7, <1>17, <2>1 DEF Resume
<1>18. CASE UNCHANGED vars
  BY <1>18 DEF vars, LockoutKept, WipedWhenLocked
<1> QED
  BY <1>9, <1>10, <1>11, <1>12, <1>13, <1>14, <1>15, <1>16, <1>17, <1>18 DEF Next

LEMMA LockoutInvariant ==
    ASSUME "lockout file" \notin MayFail
    PROVE  Spec => [](IInv /\ LockoutKept /\ WipedWhenLocked)
<1>1. Init => LockoutKept /\ WipedWhenLocked
  BY DEF Init, LockoutKept, WipedWhenLocked
<1>2. IInv /\ LockoutKept /\ WipedWhenLocked /\ [Next]_vars => LockoutKept' /\ WipedWhenLocked'
  BY LockoutStep
<1> QED  BY Invariant, <1>1, <1>2, PTL DEF Spec

\* Where the lockout file can be written, a store that is not unlocked holds
\* neither the vault nor its key, whatever write of the vault failed.
THEOREM LockedIsWiped ==
    ASSUME "lockout file" \notin MayFail
    PROVE  Spec => []WipedWhenLocked
BY LockoutInvariant, PTL

LEMMA LessIsLess == \A n \in Nat : ~(n > n) /\ ~(Less(n) > n)
BY DEF Less

\* Where the lockout file can be written, no password is compared before the
\* pause is over, restarts in between included.
THEOREM LockoutKeeps ==
    ASSUME "lockout file" \notin MayFail
    PROVE  Spec => LockoutHonoured
<1> DEFINE Step == (guesses'.failures # guesses.failures \/ guesses'.left > guesses.left)
                      => guesses.left = 0
<1>1. IInv /\ LockoutKept /\ [Next]_vars => [Step]_vars
  <2> SUFFICES ASSUME IInv, LockoutKept, Next PROVE Step
    OBVIOUS
  <2> USE DEF histVars
  <2>0. guesses \in [failures: 0..MaxFailures, left: Nat] /\ (proc = "up" => lockout = guesses)
    BY DEF IInv, Types, LockoutKept, Lockouts
  <2>1. guesses.left \in Nat /\ DOMAIN guesses = {"failures", "left"} /\ (proc = "up" => lockout = guesses)
    BY <2>0
  <2>2. CASE Tick
    <3>1. guesses' = [guesses EXCEPT !.left = Less(guesses.left)]
      BY <2>2 DEF Tick
    <3>2. guesses'.failures = guesses.failures /\ guesses'.left = Less(guesses.left)
      BY <2>0, <3>1
    <3> QED  BY <2>1, <3>2, LessIsLess
  <2>3. CASE UNCHANGED guesses
    BY <2>1, <2>3, LessIsLess
  <2>4. ASSUME NEW k, NEW thrown, Open(k, thrown), proc = "up" PROVE Step
    BY <2>1, <2>4 DEF Open
  <2>5. ASSUME NEW w \in Passwords, UnlockPassword(w) PROVE Step
    BY <2>1, <2>4, <2>5 DEF UnlockPassword, WrongPassword, Serving
  <2>6. CASE Resume
    BY <2>3, <2>4, <2>6 DEF Resume, Setup, Destroy
  <2>7. ASSUME NEW w \in Passwords, SetupPassword(w) \/ RekeyPassword(w) PROVE Step
    BY <2>3, <2>7 DEF SetupPassword, RekeyPassword, Setup
  <2> HIDE DEF Step
  <2> QED
    BY <2>2, <2>3, <2>5, <2>6, <2>7
    DEF Next, Boot, Die, Lock, ReadItems, ChangeItems, TouchNothing, StoreKey, FetchKey,
        DeleteKey, Refused, TimerFires, TimerThrows
<1>2. Spec => [][Step]_vars
  <2> HIDE DEF Step
  <2> QED  BY LockoutInvariant, <1>1, PTL DEF Spec
<1> QED  BY <1>2 DEF LockoutHonoured

=============================================================================
