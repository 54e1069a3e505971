----------------------- MODULE CloudConnectionsProofs -----------------------
(***************************************************************************)
(* Proofs about the cloud connections.  Neither invariant is inductive     *)
(* alone: a handle whose revocation was answered must be missing from the  *)
(* file too, since the next process believes the file; a temporary file    *)
(* may still hold it, but is read only while there is no file, that is     *)
(* before anything was answered; and a new connection must not be given a  *)
(* revoked handle, so every handle on disk or in memory is a minted one.   *)
(* What was promised needs more (PInv): a process that loads the file      *)
(* numbers the epochs from the connections in it, and these numbers must   *)
(* not fall below the epoch of a connection that still stands.             *)
(***************************************************************************)
EXTENDS CloudConnections, TLAPS, FiniteSetTheorems

File == [state : {"none", "torn", "saved"}, handles : SUBSET Handles]
Disk == [primary : File, temp : File, lock : BOOLEAN]

Shape ==
    /\ disk \in Disk
    /\ table \in SUBSET Handles
    /\ adapter.counter \in Nat
    /\ DOMAIN minted = Handles
    /\ minted = [h \in Handles |-> minted[h]]

Minted == {h \in Handles : minted[h] # Unminted}

\* Every handle held anywhere is minted.
Known ==
    /\ table \subseteq Minted
    /\ records \subseteq Minted
    /\ disk.primary.handles \subseteq Minted
    /\ disk.temp.handles \subseteq Minted
    /\ forgotten \subseteq Minted

\* What was revoked for good is in no table, and in no file that is read.
Gone ==
    /\ forgotten \cap table = {}
    /\ forgotten \cap disk.primary.handles = {}
    /\ disk.primary = NoFile => forgotten = {}

IInv == Shape /\ Known /\ Gone /\ OkMeansSaved

\* What Saves may return.
LEMMA SavesShape ==
    ASSUME NEW d \in Disk, NEW t \in SUBSET Handles, NEW s \in Saves(d, t)
    PROVE  /\ s.disk \in Disk
           /\ \/ s.disk.primary = d.primary
              \/ s.disk.primary = Saved(t)
           /\ s.disk.temp \in {d.temp, Torn, Saved(t), NoFile}
           /\ s.persist = "ok" => s.disk.primary = Saved(t) /\ ~s.dies
<1>1. Saved(t) \in File /\ Torn \in File /\ NoFile \in File
  BY DEF Saved, Torn, NoFile, File
<1> DEFINE Fits(e) == /\ e \in Disk
                      /\ e.primary = d.primary \/ e.primary = Saved(t)
                      /\ e.temp \in {d.temp, Torn, Saved(t), NoFile}
<1>2. \A e \in Unwritten(d, t) : Fits(e)
  <2>1. Temps(d, t) \subseteq File \cap {d.temp, Torn, Saved(t), NoFile}
    BY <1>1 DEF Temps, Disk
  <2> QED  BY <2>1 DEF Unwritten, Disk
<1>3. \A e \in Written(t) : Fits(e) /\ e.primary = Saved(t)
  BY <1>1 DEF Written, Disk
<1> DEFINE Dead == {e \in Written(t) \cup Unwritten(d, t) : e.lock}
<1>4. \A e \in Dead : Fits(e)
  BY <1>2, <1>3
<1>5. \/ s = Outcome(d, "failed", FALSE)
      \/ \E e \in Written(t) : s = Outcome(e, "ok", FALSE)
      \/ \E e \in Unwritten(d, t) : s = Outcome(e, "failed", FALSE)
      \/ \E e \in Dead : s = Outcome(e, "idle", TRUE)
  BY DEF Saves, Writes
<1>6. Fits(d)
  OBVIOUS
<1> HIDE DEF Dead, Fits
<1>7. Fits(s.disk) /\ (s.persist = "ok" => s.disk.primary = Saved(t) /\ ~s.dies)
  BY <1>2, <1>3, <1>4, <1>5, <1>6 DEF Outcome
<1> QED  BY <1>7 DEF Fits

\* A file recovered is one of the two that were there.
LEMMA RecoveredShape ==
    ASSUME disk \in Disk
    PROVE  /\ Recovered \in Disk
           /\ disk.primary # NoFile => Recovered = disk
           /\ disk.primary = NoFile => Recovered.primary = disk.temp /\ Recovered.temp = NoFile
<1>1. NoFile \in File
  BY DEF NoFile, File
<1>2. CASE disk.primary = NoFile
  BY <1>1, <1>2 DEF Recovered, Disk
<1>3. CASE disk.primary # NoFile
  BY <1>3 DEF Recovered
<1> QED  BY <1>2, <1>3

LEMMA InitIInv == Init => IInv
<1> SUFFICES ASSUME Init PROVE IInv
  OBVIOUS
<1>1. NoFile \in File /\ NoFile.handles = {} /\ NoFile.state = "none"
  BY DEF NoFile, File
<1>2. disk \in Disk /\ disk.primary = NoFile /\ disk.temp = NoFile
  BY <1>1 DEF Init, Disk
<1>3. Shape
  BY <1>2 DEF Init, Shape, FreshAdapter
<1>4. Known /\ Gone
  BY <1>1, <1>2 DEF Init, Known, Gone
<1>5. OkMeansSaved
  BY DEF Init, OkMeansSaved
<1> QED  BY <1>3, <1>4, <1>5 DEF IInv

\* A step that leaves the disk, the table and the registry alone, or empties memory.
LEMMA QuietStep ==
    ASSUME IInv, UNCHANGED <<disk, minted, forgotten>>,
           adapter'.counter \in Nat,
           \/ UNCHANGED <<table, records, persist>> /\ (up' => up)
           \/ table' = {} /\ records' = {} /\ ~(up' /\ persist' = "ok")
    PROVE  IInv'
<1>1. Shape'
  BY DEF IInv, Shape
<1>2. Known' /\ Gone'
  BY DEF IInv, Known, Gone, Minted
<1>3. OkMeansSaved'
  BY DEF IInv, OkMeansSaved
<1> QED  BY <1>1, <1>2, <1>3 DEF IInv

LEMMA StartIInv == IInv /\ Start => IInv'
<1> SUFFICES ASSUME IInv, Start PROVE IInv'
  OBVIOUS
<1> DEFINE t == Recovered.primary.handles
<1>1. disk \in Disk /\ Recovered \in Disk
  BY RecoveredShape DEF IInv, Shape
<1>2. t \in SUBSET Handles
  BY <1>1 DEF Disk, File
<1>3. t \subseteq Minted /\ forgotten \cap t = {}
  BY RecoveredShape, <1>1 DEF IInv, Known, Gone
<1>4. PICK s \in Saves(Recovered, t) :
        /\ up' = ~s.dies
        /\ disk' = s.disk
        /\ IF s.dies THEN EmptyMemory
           ELSE /\ table' = t /\ records' = t
                /\ persist' = s.persist
                /\ adapter' = FreshAdapter
  BY DEF Start
<1>5. UNCHANGED <<minted, forgotten>>
  BY DEF Start, history
<1>6. Recovered.primary.handles = t /\ Recovered.temp.handles \subseteq Minted
  <2>1. NoFile.handles = {}
    BY DEF NoFile
  <2> QED  BY <1>1, <2>1, RecoveredShape DEF IInv, Known
<1> HIDE DEF t
<1>7. Saved(t) # NoFile /\ Saved(t).handles = t /\ Torn.handles = {} /\ NoFile.handles = {}
  BY DEF Saved, NoFile, Torn
<1>8. /\ disk' \in Disk
      /\ disk'.primary = Recovered.primary \/ disk'.primary = Saved(t)
      /\ disk'.temp \in {Recovered.temp, Torn, Saved(t), NoFile}
      /\ s.persist = "ok" => disk'.primary = Saved(t)
  BY SavesShape, <1>1, <1>2, <1>4
<1>9. disk'.primary = NoFile => disk.primary = NoFile
  BY <1>1, <1>7, <1>8, RecoveredShape
<1>10. disk'.primary.handles = t /\ disk'.temp.handles \subseteq Minted
  BY <1>3, <1>6, <1>7, <1>8
<1>11. /\ adapter'.counter \in Nat
       /\ table' = {} \/ table' = t
       /\ records' = {} \/ records' = t
  BY <1>4 DEF EmptyMemory, FreshAdapter
<1>12. Shape'
  BY <1>2, <1>5, <1>8, <1>11 DEF IInv, Shape
<1>13. Known'
  BY <1>3, <1>5, <1>10, <1>11 DEF IInv, Known, Minted
<1>14. Gone'
  BY <1>3, <1>5, <1>9, <1>10, <1>11 DEF IInv, Gone
<1>15. OkMeansSaved'
  BY <1>4, <1>8 DEF OkMeansSaved, EmptyMemory
<1> QED  BY <1>12, <1>13, <1>14, <1>15 DEF IInv

LEMMA CompleteIInv == ASSUME NEW h \in Handles PROVE IInv /\ Complete(h) => IInv'
<1> SUFFICES ASSUME IInv, Complete(h) PROVE IInv'
  OBVIOUS
<1> DEFINE ref == adapter.counter + 1
           t == table \cup {h}
<1>1. PICK s \in Saves(disk, t) :
        /\ minted' = [minted EXCEPT ![h] = Registered(ref)]
        /\ disk' = s.disk
        /\ up' = ~s.dies
        /\ IF s.dies THEN EmptyMemory
           ELSE /\ table' = t /\ records' = records \cup {h}
                /\ persist' = s.persist
                /\ adapter' = [counter |-> ref, held |-> adapter.held \cup {ref}, state |-> ref]
  BY DEF Complete
<1>2. minted[h] = Unminted /\ UNCHANGED forgotten /\ h \notin forgotten
  BY DEF Complete, history, IInv, Known, Minted
<1>3. t \in SUBSET Handles /\ disk \in Disk /\ ref \in Nat \ {0}
  BY DEF IInv, Shape
<1>4. Registered(ref) # Unminted
  BY <1>3 DEF Registered, Unminted
<1>5. /\ DOMAIN minted' = Handles
      /\ minted' = [g \in Handles |-> minted'[g]]
      /\ Minted' = Minted \cup {h}
  BY <1>1, <1>4 DEF IInv, Shape, Minted
<1> HIDE DEF t, ref
<1>6. /\ disk' \in Disk
      /\ disk'.primary = disk.primary \/ disk'.primary = Saved(t)
      /\ disk'.temp \in {disk.temp, Torn, Saved(t), NoFile}
      /\ s.persist = "ok" => disk'.primary = Saved(t)
  BY SavesShape, <1>1, <1>3
<1>7. Saved(t) # NoFile /\ Saved(t).handles = t /\ Torn.handles = {} /\ NoFile.handles = {}
  BY DEF Saved, NoFile, Torn
<1>8. t \subseteq Minted' /\ forgotten \cap t = {}
  BY <1>2, <1>5 DEF t, IInv, Known, Gone
<1>9. /\ adapter'.counter \in Nat
      /\ table' = {} \/ table' = t
      /\ records' = {} \/ records' = records \cup {h}
  BY <1>1, <1>3 DEF EmptyMemory, FreshAdapter
<1>10. Shape'
  BY <1>3, <1>5, <1>6, <1>9 DEF Shape
<1>11. Known'
  BY <1>2, <1>5, <1>6, <1>7, <1>8, <1>9 DEF IInv, Known
<1>12. Gone'
  BY <1>2, <1>6, <1>7, <1>8, <1>9 DEF IInv, Gone
<1>13. OkMeansSaved'
  BY <1>1, <1>6 DEF OkMeansSaved, EmptyMemory
<1> QED  BY <1>10, <1>11, <1>12, <1>13 DEF IInv

LEMMA RevokeIInv == ASSUME NEW h \in Handles PROVE IInv /\ Revoke(h) => IInv'
<1> SUFFICES ASSUME IInv, Revoke(h) PROVE IInv'
  OBVIOUS
<1> DEFINE t == RevokedFrom(h)
<1>1. PICK s \in Saves(disk, t) :
        /\ disk' = s.disk
        /\ up' = ~s.dies
        /\ IF s.dies THEN EmptyMemory /\ UNCHANGED forgotten
           ELSE /\ table' = t /\ UNCHANGED records
                /\ persist' = s.persist
                /\ adapter' = Dropped(adapter)
                /\ forgotten' = IF s.persist = "ok" THEN forgotten \cup {h} ELSE forgotten
  BY DEF Revoke
<1>2. UNCHANGED minted /\ Minted' = Minted /\ h \in Minted
  BY DEF Revoke, IInv, Known, Minted
<1>3. t \in SUBSET Handles /\ t \subseteq Minted /\ h \notin t /\ disk \in Disk /\ forgotten \cap t = {}
  BY DEF RevokedFrom, IInv, Shape, Known, Gone
<1>4. Dropped(adapter).counter \in Nat
  <2>1. [adapter EXCEPT !.held = adapter.held \ {adapter.state}, !.state = None].counter
          = adapter.counter
    OBVIOUS
  <2> QED  BY <2>1 DEF Dropped, IInv, Shape
<1> HIDE DEF t
<1>5. /\ disk' \in Disk
      /\ disk'.primary = disk.primary \/ disk'.primary = Saved(t)
      /\ disk'.temp \in {disk.temp, Torn, Saved(t), NoFile}
      /\ s.persist = "ok" => disk'.primary = Saved(t)
      /\ s.persist = "ok" => ~s.dies
  BY SavesShape, <1>1, <1>3
<1>6. Saved(t) # NoFile /\ Saved(t).handles = t /\ Torn.handles = {} /\ NoFile.handles = {}
  BY DEF Saved, NoFile, Torn
<1>7. /\ adapter'.counter \in Nat
      /\ table' = {} \/ table' = t
      /\ records' = {} \/ records' = records
      /\ \/ forgotten' = forgotten
         \/ forgotten' = forgotten \cup {h} /\ disk'.primary = Saved(t) /\ table' = t
  BY <1>1, <1>4, <1>5 DEF EmptyMemory, FreshAdapter
<1>8. Shape'
  BY <1>2, <1>3, <1>5, <1>7 DEF IInv, Shape
<1>9. Known'
  BY <1>2, <1>3, <1>5, <1>6, <1>7 DEF IInv, Known
<1>10. Gone'
  BY <1>3, <1>5, <1>6, <1>7 DEF IInv, Gone
<1>11. OkMeansSaved'
  BY <1>1, <1>5 DEF OkMeansSaved, EmptyMemory
<1> QED  BY <1>8, <1>9, <1>10, <1>11 DEF IInv

LEMMA StepIInv == IInv /\ [Next]_vars => IInv'
<1> SUFFICES ASSUME IInv, [Next]_vars PROVE IInv'
  OBVIOUS
<1> USE DEF memory, history
<1>0. adapter.counter \in Nat /\ disk \in Disk
  BY DEF IInv, Shape
<1>1. CASE Start
  BY <1>1, StartIInv
<1>2. CASE StartUnread
  <2>1. Shape'
    BY <1>2, <1>0, RecoveredShape DEF StartUnread, EmptyMemory, FreshAdapter, IInv, Shape
  <2>2. /\ UNCHANGED <<minted, forgotten>>
        /\ table' = {} /\ records' = {} /\ disk' = Recovered
    BY <1>2 DEF StartUnread, EmptyMemory
  <2>3. NoFile.handles = {}
    BY DEF NoFile
  <2>4. Known' /\ Gone'
    BY <2>2, <2>3, <1>0, RecoveredShape DEF IInv, Known, Gone, Minted
  <2>5. OkMeansSaved'
    BY <1>2 DEF StartUnread, EmptyMemory, OkMeansSaved
  <2> QED  BY <2>1, <2>4, <2>5 DEF IInv
<1>3. CASE Stop
  BY <1>3, QuietStep DEF Stop, EmptyMemory, FreshAdapter
<1>4. CASE ScheduledRefresh
  BY <1>4, <1>0, QuietStep DEF ScheduledRefresh
<1>5. CASE CacheExpires
  BY <1>5, <1>0, QuietStep DEF CacheExpires
<1>6. CASE AnswerExpires
  BY <1>6, <1>0, QuietStep DEF AnswerExpires
<1>7. ASSUME NEW ok \in BOOLEAN, RefreshEnds(ok) PROVE IInv'
  BY <1>7, <1>0, QuietStep DEF RefreshEnds
<1>8. ASSUME NEW h \in Handles, Complete(h) PROVE IInv'
  BY <1>8, CompleteIInv
<1>9. ASSUME NEW h \in Handles, Revoke(h) PROVE IInv'
  BY <1>9, RevokeIInv
<1>10. ASSUME NEW h \in Handles, RevokeUnknown(h) PROVE IInv'
  <2>1. Dropped(adapter).counter = adapter.counter
    BY DEF Dropped
  <2> QED  BY <1>10, <2>1, <1>0, QuietStep DEF RevokeUnknown
<1>11. ASSUME NEW h \in Handles, DiscoverUnder(h) \/ ChatUnder(h) PROVE IInv'
  <2> DEFINE a == [adapter EXCEPT !.state = IF @ = None THEN minted[h].ref ELSE @]
  <2>1. adapter' = a /\ a.counter = adapter.counter
    BY <1>11 DEF DiscoverUnder, ChatUnder
  <2> QED  BY <1>11, <2>1, <1>0, QuietStep DEF DiscoverUnder, ChatUnder
<1>12. CASE UNCHANGED vars
  BY <1>12, <1>0, QuietStep DEF vars
<1> QED
  BY <1>1, <1>2, <1>3, <1>4, <1>5, <1>6, <1>7, <1>8, <1>9, <1>10, <1>11, <1>12 DEF Next

LEMMA Invariant == Spec => []IInv
  BY InitIInv, StepIInv, PTL DEF Spec

\* A revocation that was answered while writes succeeded holds in every later
\* process, wherever a process dies: no service resolves the handle again.
THEOREM RevocationsLast == Spec => []RevokedForGood
<1>1. IInv => RevokedForGood
  BY DEF IInv, Gone, RevokedForGood, Usable
<1> QED  BY Invariant, <1>1, PTL

\* While the service says "ok", the file holds exactly the connections it knows.
THEOREM OkIsTrue == Spec => []OkMeansSaved
<1>1. IInv => OkMeansSaved
  BY DEF IInv
<1> QED  BY Invariant, <1>1, PTL

---------------------------------------------------------------------------
(* What was promised is kept: the epoch that a process rebuilds for a      *)
(* binding is the highest in the file, so a connection promised and not    *)
(* struck must have the highest epoch of its binding there, in memory and  *)
(* in the file, and every new one is made at the current epoch.            *)

Numbers ==
    /\ minted \in [Handles -> [ref : Nat, epoch : Nat]]
    /\ \A h \in Minted : minted[h].ref \in Refs
    /\ current \in [Refs -> Nat]
    /\ adapter.counter <= Cardinality(Minted)
    /\ ended \subseteq Minted
    /\ promised \subseteq Minted

\* No epoch in T of the binding of h is above that of h.
HighestIn(T, h) == \A g \in T : minted[g].ref = minted[h].ref => minted[g].epoch <= minted[h].epoch

PromisesOnDisk ==
    \A h \in promised \ struck :
        h \in disk.primary.handles /\ HighestIn(disk.primary.handles, h)

Epochs == up => \A g \in table : minted[g].epoch <= current[minted[g].ref]

WaitsForUsable == up /\ waits # None => waits \in Handles /\ Usable(waits)

PInv == Numbers /\ PromisesOnDisk /\ Epochs /\ WaitsForUsable /\ PromiseKept

HasMax(T) == \E m \in T : \A x \in T : x <= m

LEMMA FiniteMax ==
    ASSUME NEW S \in SUBSET Nat, IsFiniteSet(S), S # {}
    PROVE  HasMax(S)
<1> SUFFICES ASSUME ~HasMax(S) PROVE FALSE
  OBVIOUS
<1> DEFINE T == {U \in SUBSET S : U # {} /\ ~HasMax(U)}
           R == StrictSubsetOrdering(S)
<1>1. IsWellFoundedOn(R, FiniteSubsetsOf(S)) /\ FiniteSubsetsOf(S) = SUBSET S
  BY FS_StrictSubsetOrderingWellFounded, FS_FiniteSubsetsOfFinite
<1>2. T \subseteq FiniteSubsetsOf(S) /\ T # {}
  BY <1>1
<1>3. \E U \in T : \A V \in T : ~ (<<V, U>> \in R)
  <2> HIDE DEF T, R
  <2> QED  BY <1>1, <1>2, WFMin
<1>4. PICK U \in SUBSET S : /\ U # {} /\ ~HasMax(U)
                           /\ \A V \in T : <<V, U>> \notin R
  BY <1>3
<1>5. PICK x \in U : TRUE
  BY <1>4
<1> DEFINE V == U \ {x}
<1>6. V \in SUBSET S /\ <<V, U>> \in R
  BY <1>4, <1>5 DEF StrictSubsetOrdering
<1>7. V # {}
  BY <1>4, <1>5 DEF HasMax
<1>8. PICK m \in V : \A y \in V : y <= m
  BY <1>4, <1>6, <1>7 DEF HasMax
<1>9. x \in Nat /\ m \in Nat /\ U \subseteq Nat
  BY <1>4, <1>5
<1>10. CASE x <= m
  BY <1>4, <1>5, <1>8, <1>9, <1>10 DEF HasMax
<1>11. CASE m <= x
  <2>1. \A y \in U : y <= x
    BY <1>5, <1>8, <1>9, <1>11
  <2> QED  BY <2>1, <1>4, <1>5 DEF HasMax
<1> QED  BY <1>9, <1>10, <1>11

\* Where the file keeps the highest epochs, so does the process that reads it.
LEMMA HydratedHighest ==
    ASSUME minted \in [Handles -> [ref : Nat, epoch : Nat]],
           NEW t \in SUBSET Handles, NEW h \in t, minted[h].ref \in Refs
    PROVE  /\ Hydrated(t)[minted[h].ref] \in Nat
           /\ minted[h].epoch <= Hydrated(t)[minted[h].ref]
           /\ HighestIn(t, h) => Hydrated(t)[minted[h].ref] = minted[h].epoch
<1> DEFINE r == minted[h].ref
           same == {g \in t : minted[g].ref = r}
           epochs == {minted[g].epoch : g \in same}
           f == [g \in same |-> minted[g].epoch]
<1>1. epochs \in SUBSET Nat /\ minted[h].epoch \in epochs
  OBVIOUS
<1>2. IsFiniteSet(epochs)
  <2>1. same \in SUBSET Handles /\ IsFiniteSet(same)
    BY CloudAssumption, FS_Subset
  <2>2. epochs = {f[g] : g \in same}
    OBVIOUS
  <2>3. f \in Surjection(same, epochs)
    BY <2>2 DEF Surjection
  <2> HIDE DEF f, same, epochs
  <2> QED  BY <2>1, <2>3, FS_Surjection
<1>3. PICK m \in epochs : \A x \in epochs : x <= m
  <2> HIDE DEF epochs
  <2> QED  BY <1>1, <1>2, FiniteMax DEF HasMax
<1>4. Hydrated(t)[r] = CHOOSE e \in epochs : \A x \in epochs : x <= e
  <2>1. epochs # {}
    BY <1>1
  <2> QED  BY <2>1 DEF Hydrated
<1>5. HighestIn(t, h) => \A x \in epochs : x <= minted[h].epoch
  BY DEF HighestIn
<1> HIDE DEF epochs
<1>6. Hydrated(t)[r] \in epochs /\ \A x \in epochs : x <= Hydrated(t)[r]
  BY <1>3, <1>4
<1>7. Hydrated(t)[r] \in Nat /\ minted[h].epoch \in Nat /\ minted[h].epoch <= Hydrated(t)[r]
  BY <1>1, <1>6
<1>8. HighestIn(t, h) => Hydrated(t)[r] <= minted[h].epoch
  BY <1>5, <1>6
<1> QED  BY <1>7, <1>8

\* Hydrated epochs are numbers, also of a binding without a record.
LEMMA HydratedTypes ==
    ASSUME minted \in [Handles -> [ref : Nat, epoch : Nat]], NEW t \in SUBSET Handles
    PROVE  Hydrated(t) \in [Refs -> Nat]
<1>1. ASSUME NEW r \in Refs PROVE Hydrated(t)[r] \in Nat
  <2>1. CASE \E h \in t : minted[h].ref = r
    BY <2>1, HydratedHighest
  <2>2. CASE ~ \E h \in t : minted[h].ref = r
    <3>1. {minted[h].epoch : h \in {g \in t : minted[g].ref = r}} = {}
      BY <2>2
    <3> QED  BY <3>1 DEF Hydrated
  <2> QED  BY <2>1, <2>2
<1>2. Hydrated(t) = [r \in Refs |-> Hydrated(t)[r]]
  BY DEF Hydrated
<1> QED  BY <1>1, <1>2

LEMMA InitPInv == Init => PInv
<1> SUFFICES ASSUME Init PROVE PInv
  OBVIOUS
<1>1. Minted = {} /\ Cardinality({}) = 0
  BY FS_EmptySet DEF Init, Minted
<1>2. Numbers
  BY <1>1 DEF Init, Numbers, Unminted, FreshAdapter
<1> QED  BY <1>2 DEF Init, PInv, PromisesOnDisk, Epochs, WaitsForUsable, PromiseKept

\* A step that registers, revokes and writes nothing; or the memory is lost.
LEMMA QuietPInv ==
    ASSUME PInv, UNCHANGED <<minted, disk, struck>>,
           adapter'.counter <= Cardinality(Minted),
           \/ /\ UNCHANGED <<up, table, records, current, ended>>
              /\ waits' \in {waits, None} /\ promised' = promised
           \/ /\ ~up' /\ EmptyMemory /\ promised' = promised
    PROVE  PInv'
<1>1. Minted' = Minted /\ UNCHANGED promised
  BY DEF Minted
<1>2. Numbers'
  BY <1>1 DEF PInv, Numbers, EmptyMemory
<1>3. PromisesOnDisk'
  BY <1>1 DEF PInv, PromisesOnDisk, HighestIn
<1>4. Epochs' /\ WaitsForUsable' /\ PromiseKept'
  BY <1>1 DEF PInv, Epochs, WaitsForUsable, PromiseKept, Usable, EmptyMemory
<1> QED  BY <1>2, <1>3, <1>4 DEF PInv

LEMMA StartPInv == IInv /\ PInv /\ Start => PInv'
<1> SUFFICES ASSUME IInv, PInv, Start PROVE PInv'
  OBVIOUS
<1> DEFINE t == Recovered.primary.handles
<1>1. disk \in Disk /\ Recovered \in Disk
  BY RecoveredShape DEF IInv, Shape
<1>2. t \in SUBSET Handles /\ t \subseteq Minted
  BY <1>1, RecoveredShape DEF Disk, File, IInv, Known
<1>3. PICK s \in Saves(Recovered, t) :
        /\ up' = ~s.dies
        /\ disk' = s.disk
        /\ IF s.dies THEN EmptyMemory
           ELSE /\ table' = t /\ records' = t
                /\ current' = Hydrated(t)
                /\ ended' = {} /\ waits' = None
                /\ adapter' = FreshAdapter
  BY DEF Start
<1>4. UNCHANGED <<minted, promised, struck>> /\ Minted' = Minted
  BY DEF Start, history, Minted
<1>5. promised \ struck # {} => disk.primary # NoFile /\ t = disk.primary.handles
  <2>1. NoFile.handles = {}
    BY DEF NoFile
  <2> QED  BY <1>1, <2>1, RecoveredShape DEF PInv, PromisesOnDisk
<1>6. disk'.primary.handles = t
  <2>1. Saved(t).handles = t
    BY DEF Saved
  <2>2. s.disk.primary = Recovered.primary \/ s.disk.primary = Saved(t)
    <3> HIDE DEF t
    <3> QED  BY <1>1, <1>2, <1>3, SavesShape
  <2> QED  BY <1>3, <2>1, <2>2
<1> HIDE DEF t
<1>7. Numbers'
  <2>1. 0 <= Cardinality(Minted)
    BY CloudAssumption, FS_Subset, FS_CardinalityType DEF Minted
  <2>2. current' \in [Refs -> Nat] /\ ended' = {} /\ adapter'.counter = 0
    BY <1>2, <1>3, HydratedTypes DEF PInv, Numbers, EmptyMemory, FreshAdapter
  <2> QED  BY <1>4, <2>1, <2>2 DEF PInv, Numbers
<1>8. PromisesOnDisk'
  BY <1>4, <1>5, <1>6 DEF PInv, PromisesOnDisk, HighestIn
<1>9. minted \in [Handles -> [ref : Nat, epoch : Nat]] /\ \A h \in t : minted[h].ref \in Refs
  BY <1>2 DEF PInv, Numbers
<1>10. ASSUME up' PROVE Epochs' /\ PromiseKept'
  <2>1. /\ table' = t /\ records' = t /\ current' = Hydrated(t) /\ ended' = {}
    BY <1>3, <1>10
  <2>2. Epochs'
    BY <1>2, <1>4, <1>9, <2>1, HydratedHighest DEF Epochs
  <2>3. \A h \in promised \ struck : h \in t /\ HighestIn(t, h)
    BY <1>5 DEF PInv, PromisesOnDisk
  <2>4. PromiseKept'
    BY <1>2, <1>4, <1>9, <1>10, <2>1, <2>3, HydratedHighest DEF PromiseKept, Usable
  <2> QED  BY <2>2, <2>4
<1>11. waits' = None
  BY <1>3 DEF EmptyMemory
<1>12. Epochs' /\ PromiseKept' /\ WaitsForUsable'
  BY <1>10, <1>11 DEF Epochs, PromiseKept, WaitsForUsable
<1> QED  BY <1>7, <1>8, <1>12 DEF PInv

LEMMA CompletePInv == ASSUME NEW h \in Handles PROVE IInv /\ PInv /\ Complete(h) => PInv'
<1> SUFFICES ASSUME IInv, PInv, Complete(h) PROVE PInv'
  OBVIOUS
<1> DEFINE ref == adapter.counter + 1
           t == table \cup {h}
<1>1. PICK s \in Saves(disk, t) :
        /\ minted' = [minted EXCEPT ![h] = Registered(ref)]
        /\ disk' = s.disk
        /\ up' = ~s.dies
        /\ IF s.dies THEN EmptyMemory
           ELSE /\ table' = t /\ records' = records \cup {h}
                /\ adapter' = [counter |-> ref, held |-> adapter.held \cup {ref}, state |-> ref]
                /\ waits' = h
                /\ UNCHANGED <<current, ended>>
  BY DEF Complete
<1>2. up /\ minted[h] = Unminted /\ h \notin Minted /\ UNCHANGED <<promised, struck>>
  BY DEF Complete, history, Minted
<1>3. IsFiniteSet(Minted) /\ Cardinality(Minted) \in Nat /\ adapter.counter \in Nat
  BY CloudAssumption, FS_Subset, FS_CardinalityType DEF Minted, IInv, Shape
<1>4. ref \in Nat \ {0} /\ Registered(ref) # Unminted
  BY <1>3 DEF Registered, Unminted
<1>5. Minted' = Minted \cup {h}
  BY <1>1, <1>4 DEF IInv, Shape, Minted
<1>6. Cardinality(Minted') = Cardinality(Minted) + 1
  BY <1>2, <1>3, <1>5, FS_AddElement
<1>7. ref \in Refs
  <2>1. Minted' \in SUBSET Handles
    BY <1>5 DEF Minted
  <2>2. Cardinality(Minted') <= Cardinality(Handles) /\ Cardinality(Handles) \in Nat
    BY <2>1, CloudAssumption, FS_Subset, FS_CardinalityType
  <2> QED  BY <1>3, <1>4, <1>6, <2>2 DEF Refs, PInv, Numbers
<1>8. /\ Registered(ref) \in [ref : Nat, epoch : Nat]
      /\ Registered(ref).ref = ref /\ Registered(ref).epoch = current[ref]
  BY <1>4, <1>7 DEF Registered, PInv, Numbers
<1> HIDE DEF t, ref
<1>9. /\ minted'[h] = Registered(ref)
      /\ \A g \in Minted : minted'[g] = minted[g]
  BY <1>1, <1>2 DEF PInv, Numbers, Minted
<1>10. adapter'.counter \in 0..ref
  BY <1>1, <1>4 DEF EmptyMemory, FreshAdapter
<1>11. Numbers'
  <2>1. minted' \in [Handles -> [ref : Nat, epoch : Nat]]
    BY <1>1, <1>8 DEF PInv, Numbers
  <2>2. \A g \in Minted' : minted'[g].ref \in Refs
    BY <1>5, <1>7, <1>8, <1>9 DEF PInv, Numbers
  <2>3. current' \in [Refs -> Nat] /\ ended' \subseteq Minted' /\ promised' \subseteq Minted'
    BY <1>1, <1>2, <1>5 DEF EmptyMemory, PInv, Numbers
  <2>4. adapter'.counter <= Cardinality(Minted')
    BY <1>3, <1>4, <1>6, <1>10 DEF ref, PInv, Numbers
  <2> QED  BY <2>1, <2>2, <2>3, <2>4 DEF Numbers
<1>12. table \subseteq Minted /\ records \subseteq Minted /\ disk.primary.handles \subseteq Minted
  BY DEF IInv, Known
\* In memory, what is promised and not struck has the current epoch.
<1>13. \A g \in promised \ struck : /\ g \in table /\ g \in Minted
                                  /\ current[minted[g].ref] = minted[g].epoch
  BY <1>2, <1>12 DEF PInv, PromiseKept, Usable
<1>14. \A g \in table : minted[g].epoch <= current[minted[g].ref]
  BY <1>2 DEF PInv, Epochs
<1>15. current \in [Refs -> Nat] /\ current[ref] \in Nat
  BY <1>7 DEF PInv, Numbers
<1>16. ASSUME NEW g \in promised \ struck PROVE \A k \in t : minted'[k].ref = minted'[g].ref
                                                      => minted'[k].epoch <= minted'[g].epoch
  <2>1. minted'[g] = minted[g] /\ current[minted[g].ref] = minted[g].epoch
    BY <1>9, <1>13, <1>16
  <2>2. minted'[h].ref = minted'[g].ref => minted'[h].epoch <= minted'[g].epoch
    BY <1>8, <1>9, <1>15, <2>1
  <2>3. \A k \in table : minted'[k].ref = minted'[g].ref => minted'[k].epoch <= minted'[g].epoch
    BY <1>9, <1>12, <1>14, <2>1
  <2> QED  BY <2>2, <2>3 DEF t
<1>17. disk'.primary = disk.primary \/ disk'.primary = Saved(t)
  BY <1>1, SavesShape DEF t, IInv, Shape
<1>18. PromisesOnDisk'
  <2> SUFFICES ASSUME NEW g \in promised \ struck
               PROVE  /\ g \in disk'.primary.handles
                      /\ \A k \in disk'.primary.handles :
                            minted'[k].ref = minted'[g].ref => minted'[k].epoch <= minted'[g].epoch
    BY <1>2 DEF PromisesOnDisk, HighestIn
  <2>1. CASE disk'.primary = Saved(t)
    BY <1>13, <1>16, <2>1 DEF Saved, t, HighestIn
  <2>2. CASE disk'.primary = disk.primary
    BY <1>9, <1>12, <1>13, <2>2 DEF PInv, PromisesOnDisk, HighestIn
  <2> QED  BY <1>17, <2>1, <2>2
<1>19. ASSUME up' PROVE Epochs' /\ Usable(h)' /\ PromiseKept'
  <2>1. table' = t /\ records' = records \cup {h} /\ UNCHANGED <<current, ended>>
    BY <1>1, <1>19
  <2>2. Epochs'
    <3>1. minted'[h].epoch <= current[minted'[h].ref]
      BY <1>8, <1>9, <1>15
    <3>2. \A g \in table : minted'[g].epoch <= current[minted'[g].ref]
      BY <1>9, <1>12, <1>14
    <3> QED  BY <2>1, <3>1, <3>2 DEF Epochs, t
  <2>3. Usable(h)'
    BY <1>2, <1>8, <1>9, <1>19, <2>1 DEF Usable, t, PInv, Numbers
  <2>4. PromiseKept'
    BY <1>2, <1>9, <1>13, <1>19, <2>1 DEF PInv, PromiseKept, Usable, t
  <2> QED  BY <2>2, <2>3, <2>4
<1>20. Epochs' /\ PromiseKept' /\ WaitsForUsable'
  BY <1>1, <1>19 DEF Epochs, PromiseKept, WaitsForUsable
<1> QED  BY <1>11, <1>18, <1>20 DEF PInv

LEMMA RevokePInv == ASSUME NEW h \in Handles PROVE IInv /\ PInv /\ Revoke(h) => PInv'
<1> SUFFICES ASSUME IInv, PInv, Revoke(h) PROVE PInv'
  OBVIOUS
<1> DEFINE t == RevokedFrom(h)
           m == minted[h]
<1>1. PICK s \in Saves(disk, t) :
        /\ disk' = s.disk
        /\ up' = ~s.dies
        /\ struck' = struck \cup {g \in Handles : minted[g] = m}
        /\ IF s.dies THEN EmptyMemory
           ELSE /\ table' = t
                /\ ended' = ended \cup {h}
                /\ current' = IF current[m.ref] = m.epoch
                              THEN [current EXCEPT ![m.ref] = current[m.ref] + 1] ELSE current
                /\ adapter' = Dropped(adapter)
                /\ UNCHANGED <<records, waits>>
  BY DEF Revoke
<1>2. up /\ waits = None /\ h \in Minted /\ UNCHANGED <<minted, promised>> /\ Minted' = Minted
  BY DEF Revoke, IInv, Known, Minted
<1>3. t = table \ {h} /\ t \in SUBSET Handles /\ t \subseteq Minted
  BY DEF RevokedFrom, IInv, Shape, Known
<1>4. /\ minted \in [Handles -> [ref : Nat, epoch : Nat]]
      /\ \A g \in Minted : g \in Handles /\ minted[g].ref \in Refs
      /\ current \in [Refs -> Nat]
  BY DEF PInv, Numbers, Minted
<1> HIDE DEF t
<1>5. Numbers'
  <2>1. Dropped(adapter).counter = adapter.counter
    BY DEF Dropped
  <2>2. 0 <= Cardinality(Minted)
    BY CloudAssumption, FS_Subset, FS_CardinalityType DEF Minted
  <2>3. adapter'.counter <= Cardinality(Minted')
    BY <1>1, <1>2, <2>1, <2>2 DEF EmptyMemory, FreshAdapter, PInv, Numbers
  <2>4. current' \in [Refs -> Nat] /\ ended' \subseteq Minted'
    BY <1>1, <1>2, <1>4 DEF EmptyMemory, PInv, Numbers
  <2> QED  BY <1>2, <2>3, <2>4 DEF PInv, Numbers
\* The other handles of that credential and epoch are struck with it.
<1>6. \A g \in promised' \ struck' :
          /\ g \in promised \ struck /\ g # h /\ minted[g] # m /\ g \in t
          /\ g \in records /\ g \notin ended /\ g \in Minted
          /\ current[minted[g].ref] = minted[g].epoch
  <2>1. \A g \in promised \ struck : /\ g \in table /\ g \in records /\ g \notin ended
                                   /\ current[minted[g].ref] = minted[g].epoch
    BY <1>2 DEF PInv, PromiseKept, Usable
  <2>2. promised \subseteq Minted
    BY DEF PInv, Numbers
  <2> QED  BY <1>1, <1>2, <1>3, <1>4, <2>1, <2>2
<1>7. disk'.primary = disk.primary \/ disk'.primary = Saved(t)
  BY <1>1, <1>3, SavesShape DEF IInv, Shape
<1>8. PromisesOnDisk'
  <2> SUFFICES ASSUME NEW g \in promised' \ struck'
               PROVE  /\ g \in disk'.primary.handles
                      /\ \A k \in disk'.primary.handles :
                            minted'[k].ref = minted'[g].ref => minted'[k].epoch <= minted'[g].epoch
    BY DEF PromisesOnDisk, HighestIn
  <2>1. CASE disk'.primary = Saved(t)
    <3>1. \A k \in table : minted[k].epoch <= current[minted[k].ref]
      BY <1>2 DEF PInv, Epochs
    <3> QED  BY <1>2, <1>3, <1>6, <2>1, <3>1 DEF Saved, HighestIn
  <2>2. CASE disk'.primary = disk.primary
    BY <1>2, <1>6, <2>2 DEF PInv, PromisesOnDisk, HighestIn
  <2> QED  BY <1>7, <2>1, <2>2
<1>9. ASSUME up' PROVE Epochs' /\ PromiseKept'
  <2>1. /\ table' = t /\ ended' = ended \cup {h} /\ UNCHANGED records
        /\ current' = IF current[m.ref] = m.epoch
                      THEN [current EXCEPT ![m.ref] = current[m.ref] + 1] ELSE current
    BY <1>1, <1>9
  <2>2. m.ref \in Refs
    BY <1>2, <1>4
  <2>3. \A r \in Refs : current'[r] \in Nat /\ current[r] \in Nat /\ current[r] <= current'[r]
    BY <1>4, <2>1, <2>2
  <2>4. \A k \in table : minted[k].epoch <= current[minted[k].ref]
    BY <1>2 DEF PInv, Epochs
  <2>5. Epochs'
    <3>1. ASSUME NEW k \in t PROVE minted[k].epoch <= current'[minted[k].ref]
      <4>1. minted[k].ref \in Refs /\ minted[k].epoch \in Nat
        BY <1>3, <1>4, <3>1
      <4>2. minted[k].epoch <= current[minted[k].ref]
        BY <1>3, <2>4, <3>1
      <4> QED  BY <2>3, <4>1, <4>2
    <3> QED  BY <1>2, <2>1, <3>1 DEF Epochs
  <2>6. \A g \in promised' \ struck' : current'[minted[g].ref] = minted[g].epoch
    <3> SUFFICES ASSUME NEW g \in promised' \ struck'
                 PROVE  current'[minted[g].ref] = minted[g].epoch
      OBVIOUS
    <3>1. minted[g].ref = m.ref => minted[g].epoch # m.epoch
      BY <1>2, <1>4, <1>6
    <3>2. minted[g].ref \in Refs /\ current[minted[g].ref] = minted[g].epoch
      BY <1>4, <1>6
    <3> QED  BY <1>4, <2>1, <2>2, <3>1, <3>2
  <2>7. PromiseKept'
    BY <1>2, <1>6, <1>9, <2>1, <2>6 DEF PromiseKept, Usable
  <2> QED  BY <2>5, <2>7
<1>10. Epochs' /\ PromiseKept' /\ WaitsForUsable'
  <2>1. up' => waits' = None
    BY <1>1, <1>2
  <2> QED  BY <1>9, <2>1 DEF Epochs, PromiseKept, WaitsForUsable
<1> QED  BY <1>5, <1>8, <1>10 DEF PInv

\* The end of a refresh turns the completion that waits into a promise.
LEMMA RefreshEndsPInv == ASSUME NEW ok \in BOOLEAN PROVE IInv /\ PInv /\ RefreshEnds(ok) => PInv'
<1> SUFFICES ASSUME IInv, PInv, RefreshEnds(ok) PROVE PInv'
  OBVIOUS
<1>1. /\ up /\ waits' = None
      /\ UNCHANGED <<up, table, records, current, ended, persist, adapter, disk, minted, struck>>
      /\ \/ promised' = promised
         \/ promised' = promised \cup {waits} /\ waits # None /\ persist = "ok"
  BY DEF RefreshEnds
<1>2. CASE promised' = promised
  BY <1>1, <1>2, QuietPInv DEF PInv, Numbers
<1>3. CASE promised' = promised \cup {waits} /\ waits # None /\ persist = "ok"
  <2>1. Usable(waits) /\ waits \in Handles
    BY <1>1, <1>3 DEF PInv, WaitsForUsable
  <2>2. disk.primary.handles = table /\ table \subseteq Minted
    BY <1>1, <1>3 DEF IInv, OkMeansSaved, Saved, Known
  <2>3. HighestIn(table, waits)
    BY <1>1, <2>1 DEF PInv, Epochs, HighestIn, Usable
  <2>4. Numbers' /\ Epochs' /\ WaitsForUsable'
    BY <1>1, <1>3, <2>1, <2>2 DEF PInv, Numbers, Minted, Epochs, WaitsForUsable, Usable
  <2>5. PromisesOnDisk'
    BY <1>1, <1>3, <2>1, <2>2, <2>3 DEF PInv, PromisesOnDisk, HighestIn, Usable
  <2>6. PromiseKept'
    BY <1>1, <1>3, <2>1 DEF PInv, PromiseKept, Usable
  <2> QED  BY <2>4, <2>5, <2>6 DEF PInv
<1> QED  BY <1>1, <1>2, <1>3

LEMMA StepPInv == IInv /\ PInv /\ [Next]_vars => PInv'
<1> SUFFICES ASSUME IInv, PInv, [Next]_vars PROVE PInv'
  OBVIOUS
<1> USE DEF memory, history
<1>0. /\ adapter.counter <= Cardinality(Minted)
      /\ 0 <= Cardinality(Minted)
  BY CloudAssumption, FS_Subset, FS_CardinalityType DEF PInv, Numbers, Minted
<1>1. CASE Start
  BY <1>1, StartPInv
<1>2. CASE StartUnread
  <2>1. /\ up' /\ disk' = Recovered /\ EmptyMemory /\ Recovered.primary = Torn
        /\ UNCHANGED <<minted, promised, struck>>
    BY <1>2 DEF StartUnread
  <2>2. promised \ struck = {}
    <3>1. Torn.handles = {} /\ NoFile.handles = {}
      BY DEF Torn, NoFile
    <3> QED  BY <2>1, <3>1, RecoveredShape DEF IInv, Shape, PInv, PromisesOnDisk
  <2>3. Numbers'
    BY <1>0, <2>1 DEF PInv, Numbers, Minted, EmptyMemory, FreshAdapter
  <2> QED  BY <2>1, <2>2, <2>3
           DEF PInv, PromisesOnDisk, Epochs, WaitsForUsable, PromiseKept, EmptyMemory
<1>3. CASE Stop
  BY <1>0, <1>3, QuietPInv DEF Stop, EmptyMemory, FreshAdapter
<1>4. CASE ScheduledRefresh
  BY <1>0, <1>4, QuietPInv DEF ScheduledRefresh
<1>5. CASE CacheExpires
  BY <1>0, <1>5, QuietPInv DEF CacheExpires
<1>6. CASE AnswerExpires
  BY <1>0, <1>6, QuietPInv DEF AnswerExpires
<1>7. ASSUME NEW ok \in BOOLEAN, RefreshEnds(ok) PROVE PInv'
  BY <1>7, RefreshEndsPInv
<1>8. ASSUME NEW h \in Handles, Complete(h) PROVE PInv'
  BY <1>8, CompletePInv
<1>9. ASSUME NEW h \in Handles, Revoke(h) PROVE PInv'
  BY <1>9, RevokePInv
<1>10. ASSUME NEW h \in Handles, RevokeUnknown(h) PROVE PInv'
  <2>1. Dropped(adapter).counter = adapter.counter
    BY DEF Dropped
  <2> QED  BY <1>0, <1>10, <2>1, QuietPInv DEF RevokeUnknown
<1>11. ASSUME NEW h \in Handles, DiscoverUnder(h) \/ ChatUnder(h) PROVE PInv'
  <2> DEFINE a == [adapter EXCEPT !.state = IF @ = None THEN minted[h].ref ELSE @]
  <2>1. adapter' = a /\ a.counter = adapter.counter
    BY <1>11 DEF DiscoverUnder, ChatUnder
  <2> QED  BY <1>0, <1>11, <2>1, QuietPInv DEF DiscoverUnder, ChatUnder
<1>12. CASE UNCHANGED vars
  BY <1>0, <1>12, QuietPInv DEF vars
<1> QED
  BY <1>1, <1>2, <1>3, <1>4, <1>5, <1>6, <1>7, <1>8, <1>9, <1>10, <1>11, <1>12 DEF Next

\* A connection that was answered while writes succeeded is usable in every later
\* process until a revocation reaches its credential's epoch, for any number of
\* handles, wherever a process dies.
THEOREM PromisesAreKept == Spec => []PromiseKept
<1>1. PInv => PromiseKept
  BY DEF PInv
<1> QED  BY Invariant, InitPInv, StepPInv, <1>1, PTL DEF Spec

=============================================================================
