------------------------- MODULE IdempotencyProofs -------------------------
(***************************************************************************)
(* Proofs about Idempotency: for any number of processes that share the    *)
(* file and may lose writes, the file always fits the store that loads it  *)
(* and replays are genuine; one process whose writes succeed implements    *)
(* OnceOnly.                                                               *)
(***************************************************************************)
EXTENDS Idempotency, FiniteSetTheorems, TLAPS

---------------------------------------------------------------------------
(* Any processes, any losses *)

\* A copy of the table: entries of finished executions, no more than fit, and
\* with room for what is being executed.
StoreOK(entries, flight, fin) ==
    /\ entries \subseteq fin
    /\ IsFiniteSet(entries)
    /\ Cardinality(entries) <= MaxEntries
    /\ flight # {} => Cardinality(entries) < MaxEntries

TablesOK ==
    /\ \A p \in Procs : StoreOK(completed[p], inFlight[p], finished)
    /\ StoreOK(entriesFile, {}, finished)

\* Only a process that serves executes something.
IdleOK == \A p \in Procs : status[p] # "up" => inFlight[p] = {}

IInv == TypeOK /\ TablesOK /\ IdleOK

\* A part of a table is one too, also beside a longer history.
LEMMA Parts ==
    ASSUME NEW S, NEW T \in SUBSET S, NEW fl, NEW F, NEW G, F \subseteq G, StoreOK(S, fl, F)
    PROVE  StoreOK(T, fl, G) /\ StoreOK(T, {}, G)
<1>1. IsFiniteSet(S)
  BY DEF StoreOK
<1>2. /\ IsFiniteSet(T) /\ Cardinality(T) <= Cardinality(S)
      /\ Cardinality(T) \in Nat /\ Cardinality(S) \in Nat
  BY <1>1, FS_Subset, FS_CardinalityType
<1> QED BY <1>2, IdempotencyAssumption DEF StoreOK

\* A step that writes one process's table, and the file from it or not at all.
LEMMA TablesStep ==
    ASSUME IInv, finished \subseteq finished', NEW p \in Procs, NEW recs, NEW fl,
           StoreOK(recs, fl, finished'), finished' \subseteq Entry,
           fl \subseteq Reservation,
           completed' = [completed EXCEPT ![p] = recs],
           inFlight' = [inFlight EXCEPT ![p] = fl],
           entriesFile' \in {entriesFile, recs}
    PROVE  /\ TablesOK'
           /\ completed' \in [Procs -> SUBSET Entry]
           /\ inFlight' \in [Procs -> SUBSET Reservation]
           /\ entriesFile' \subseteq Entry
<1>1. \A q \in Procs : StoreOK(completed[q], inFlight[q], finished')
  BY Parts DEF IInv, TablesOK
<1>2. StoreOK(entriesFile, {}, finished') /\ StoreOK(recs, {}, finished')
  BY Parts DEF IInv, TablesOK, StoreOK
<1>3. recs \subseteq Entry /\ entriesFile \subseteq Entry
  BY <1>2 DEF StoreOK
<1>4. \A q \in Procs : StoreOK(completed'[q], inFlight'[q], finished')
  BY <1>1 DEF IInv, TypeOK
<1>5. StoreOK(entriesFile', {}, finished')
  BY <1>2
<1>6. /\ completed' \in [Procs -> SUBSET Entry]
      /\ inFlight' \in [Procs -> SUBSET Reservation]
  BY <1>3 DEF IInv, TypeOK
<1> QED BY <1>3, <1>4, <1>5, <1>6 DEF TablesOK

LEMMA FreshParts == \A S : Fresh(S) \subseteq S
  BY DEF Fresh

LEMMA ResponseType ==
    \A e \in Entry : Response(e) \in [id: Ids, print: Prints, run: Nat]
  BY DEF Entry, Response

---------------------------------------------------------------------------
(* The steps *)

LEMMA InitInv == Init => IInv
<1> SUFFICES ASSUME Init PROVE IInv
  OBVIOUS
<1>1. StoreOK({}, {}, {})
  BY FS_EmptySet, IdempotencyAssumption DEF StoreOK
<1>2. TablesOK
  BY <1>1 DEF Init, TablesOK
<1>3. TypeOK
  BY DEF Init, ProcessInit, TypeOK, ProcessTypeOK, Statuses
<1>4. IdleOK
  BY DEF Init, IdleOK
<1> QED BY <1>2, <1>3, <1>4 DEF IInv

LEMMA TickOK == ASSUME IInv, Tick PROVE IInv'
<1>1. ProcessTypeOK'
  BY DEF Tick, Advance, IInv, TypeOK, ProcessTypeOK
<1>2. UNCHANGED <<storeVars, histVars, status>>
  BY DEF Tick, Advance
<1> QED BY <1>1, <1>2 DEF IInv, TypeOK, TablesOK, IdleOK, storeVars, histVars

LEMMA StartOK == ASSUME IInv, NEW p \in Procs, Start(p) PROVE IInv'
<1>1. ProcessTypeOK'
  BY DEF Start, Move, IInv, TypeOK, ProcessTypeOK, Statuses
<1>2. UNCHANGED <<storeVars, histVars>>
  BY DEF Start
<1>3. IdleOK'
  BY <1>2 DEF Start, Move, IInv, TypeOK, ProcessTypeOK, IdleOK, storeVars
<1> QED BY <1>1, <1>2, <1>3 DEF IInv, TypeOK, TablesOK, storeVars, histVars

LEMMA StopOK ==
    ASSUME IInv, NEW p \in Procs, Stop(p) PROVE IInv'
<1>1. ProcessTypeOK'
  BY DEF Stop, Exit, IInv, TypeOK, ProcessTypeOK, Statuses
<1>2. StoreOK({}, {}, finished')
  BY FS_EmptySet, IdempotencyAssumption DEF StoreOK
<1>3. UNCHANGED <<entriesFile, begun, reply, finished>>
  BY DEF Stop
<1>4. /\ inFlight' = [inFlight EXCEPT ![p] = {}]
      /\ completed' = [completed EXCEPT ![p] = {}]
  BY DEF Stop
<1>5. /\ TablesOK'
      /\ completed' \in [Procs -> SUBSET Entry]
      /\ inFlight' \in [Procs -> SUBSET Reservation]
      /\ entriesFile' \subseteq Entry
  <2>1. finished \subseteq finished' /\ finished' \subseteq Entry
    BY <1>3 DEF IInv, TypeOK
  <2>2. {} \subseteq Reservation /\ entriesFile' \in {entriesFile, {}}
    BY <1>3
  <2> QED BY <1>2, <1>4, <2>1, <2>2, TablesStep
<1>6. IdleOK'
  BY <1>4 DEF Stop, Exit, IInv, TypeOK, ProcessTypeOK, IdleOK
<1> QED BY <1>1, <1>3, <1>5, <1>6 DEF IInv, TypeOK

LEMMA BuildOK ==
    ASSUME IInv, NEW p \in Procs, Build(p) PROVE IInv'
<1>1. ProcessTypeOK'
  BY DEF Build, Move, IInv, TypeOK, ProcessTypeOK, Statuses
<1>2. UNCHANGED <<inFlight, entriesFile, begun, reply, finished>>
  BY DEF Build, histVars
<1>3. inFlight[p] = {}
  BY DEF Build, Move, IInv, IdleOK
<1> DEFINE recs == Fresh(entriesFile)
<1>4. StoreOK(recs, {}, finished')
  BY <1>2, Parts, FreshParts DEF IInv, TablesOK
<1>5. /\ completed' = [completed EXCEPT ![p] = recs]
      /\ inFlight' = [inFlight EXCEPT ![p] = {}]
  BY <1>2, <1>3 DEF Build, IInv, TypeOK
<1>6. /\ TablesOK'
      /\ completed' \in [Procs -> SUBSET Entry]
  BY <1>2, <1>4, <1>5, TablesStep DEF IInv, TypeOK
<1>7. IdleOK'
  BY <1>2 DEF Build, Move, IInv, TypeOK, ProcessTypeOK, IdleOK
<1> QED BY <1>1, <1>2, <1>6, <1>7 DEF IInv, TypeOK

\* What reserve does in every case.
LEMMA SweepStep ==
    ASSUME IInv, NEW p \in Procs, Sweep(p), UNCHANGED <<status, finished>>,
           NEW fl, inFlight' = [inFlight EXCEPT ![p] = fl], fl \subseteq Reservation,
           fl = {} \/ Room(p), status[p] = "up"
    PROVE  /\ TablesOK' /\ IdleOK'
           /\ completed' \in [Procs -> SUBSET Entry]
           /\ inFlight' \in [Procs -> SUBSET Reservation]
           /\ entriesFile' \subseteq Entry
<1> DEFINE recs == Fresh(completed[p])
<1>1. StoreOK(recs, {}, finished')
  BY Parts, FreshParts DEF IInv, TablesOK
<1>2. StoreOK(recs, fl, finished')
  BY <1>1 DEF StoreOK, Room
<1>3. completed' = [completed EXCEPT ![p] = recs]
  BY DEF Sweep, IInv, TypeOK
<1>4. entriesFile' \in {entriesFile, recs}
  BY DEF Sweep, Saved
<1>5. IdleOK'
  BY DEF IInv, TypeOK, IdleOK
<1>6. finished' \subseteq Entry
  BY DEF IInv, TypeOK
<1>7. finished \subseteq finished'
  OBVIOUS
<1> QED BY <1>2, <1>3, <1>4, <1>5, <1>6, <1>7, TablesStep

LEMMA ReplayOK ==
    ASSUME IInv, NEW p \in Procs, NEW id \in Ids, NEW print \in Prints, Serving(p),
           ReserveReplay(p, id, print)
    PROVE  IInv'
<1>1. UNCHANGED <<now, status, inFlight, begun, finished>> /\ status[p] = "up"
  BY DEF ReserveReplay, Serving
<1>2. inFlight' = [inFlight EXCEPT ![p] = {}]
  BY <1>1 DEF ReserveReplay, Sweep, IInv, TypeOK
<1>3. /\ TablesOK' /\ IdleOK'
      /\ completed' \in [Procs -> SUBSET Entry]
      /\ inFlight' \in [Procs -> SUBSET Reservation]
      /\ entriesFile' \subseteq Entry
  BY <1>1, <1>2, SweepStep DEF ReserveReplay
<1>4. PICK e \in Known(p, id) : reply' = {Response(e)}
  BY DEF ReserveReplay
<1>5. e \in Entry
  BY DEF Known, Fresh, IInv, TypeOK
<1>6. reply' \subseteq [id: Ids, print: Prints, run: Nat]
  BY <1>4, <1>5, ResponseType
<1> QED BY <1>1, <1>3, <1>6 DEF IInv, TypeOK, ProcessTypeOK

LEMMA RefusedOK ==
    ASSUME IInv, NEW p \in Procs, NEW id \in Ids, NEW print \in Prints, Serving(p),
           ReserveRefused(p, id, print)
    PROVE  IInv'
<1>1. /\ UNCHANGED <<now, status, inFlight, begun, finished>>
      /\ status[p] = "up" /\ reply' = {}
  BY DEF ReserveRefused, Serving
<1>2. inFlight' = [inFlight EXCEPT ![p] = {}]
  BY <1>1 DEF ReserveRefused, Sweep, IInv, TypeOK
<1>3. /\ TablesOK' /\ IdleOK'
      /\ completed' \in [Procs -> SUBSET Entry]
      /\ inFlight' \in [Procs -> SUBSET Reservation]
      /\ entriesFile' \subseteq Entry
  BY <1>1, <1>2, SweepStep DEF ReserveRefused
<1> QED BY <1>1, <1>3 DEF IInv, TypeOK, ProcessTypeOK

LEMMA NewOK ==
    ASSUME IInv, NEW p \in Procs, NEW id \in Ids, NEW print \in Prints, Serving(p),
           ReserveNew(p, id, print)
    PROVE  IInv'
<1> DEFINE r == [id |-> id, print |-> print, run |-> begun[id] + 1]
<1>1. /\ UNCHANGED <<now, status, reply, finished>>
      /\ status[p] = "up" /\ Room(p)
  BY DEF ReserveNew, Serving
<1>2. /\ inFlight' = [inFlight EXCEPT ![p] = {r}]
      /\ begun' = [begun EXCEPT ![id] = begun[id] + 1]
  BY DEF ReserveNew
<1>3. r \in Reservation /\ begun' \in [Ids -> Nat]
  BY <1>2 DEF Reservation, IInv, TypeOK
<1>4. /\ TablesOK' /\ IdleOK'
      /\ completed' \in [Procs -> SUBSET Entry]
      /\ inFlight' \in [Procs -> SUBSET Reservation]
      /\ entriesFile' \subseteq Entry
  <2>1. Sweep(p) /\ UNCHANGED <<status, finished>>
    BY <1>1 DEF ReserveNew
  <2>2. {r} \subseteq Reservation /\ inFlight' = [inFlight EXCEPT ![p] = {r}]
    BY <1>2, <1>3
  <2> HIDE DEF r
  <2> QED BY <1>1, <2>1, <2>2, SweepStep
<1> QED BY <1>1, <1>3, <1>4 DEF IInv, TypeOK, ProcessTypeOK

\* The table gets one entry more, for which the reservation kept room.
LEMMA CompleteOK ==
    ASSUME IInv, NEW p \in Procs, Serving(p), Complete(p) PROVE IInv'
<1>1. PICK r \in inFlight[p] :
        LET e == [id |-> r.id, print |-> r.print, run |-> r.run, at |-> now]
            entries == {c \in completed[p] : c.id # r.id} \cup {e}
        IN  /\ inFlight' = [inFlight EXCEPT ![p] = {}]
            /\ completed' = [completed EXCEPT ![p] = entries]
            /\ entriesFile' \in Saved({entriesFile}, entries)
            /\ reply' = {Response(e)}
            /\ finished' = finished \cup {e}
            /\ UNCHANGED begun
  BY DEF Complete
<1> DEFINE e == [id |-> r.id, print |-> r.print, run |-> r.run, at |-> now]
           others == {c \in completed[p] : c.id # r.id}
           entries == others \cup {e}
<1>2. UNCHANGED <<now, status, begun>> /\ status[p] = "up"
  BY <1>1 DEF Serving
<1>3. r \in Reservation
  BY DEF IInv, TypeOK
<1>4. e \in Entry
  BY <1>3 DEF Reservation, Entry, IInv, TypeOK, ProcessTypeOK
<1>5. /\ IsFiniteSet(completed[p]) /\ Cardinality(completed[p]) < MaxEntries
      /\ completed[p] \subseteq finished
  BY DEF IInv, TablesOK, StoreOK
<1>6. /\ IsFiniteSet(others) /\ Cardinality(others) <= Cardinality(completed[p])
      /\ Cardinality(others) \in Nat /\ Cardinality(completed[p]) \in Nat
  BY <1>5, FS_Subset, FS_CardinalityType
<1>7. IsFiniteSet(entries) /\ Cardinality(entries) <= Cardinality(others) + 1
  <2> HIDE DEF others, e
  <2>1. /\ IsFiniteSet(others \cup {e})
        /\ Cardinality(others \cup {e}) =
             IF e \in others THEN Cardinality(others) ELSE Cardinality(others) + 1
    BY <1>6, FS_AddElement
  <2> QED BY <1>6, <2>1
<1>8. Cardinality(entries) \in Nat
  BY <1>7, FS_CardinalityType
<1>9. StoreOK(entries, {}, finished')
  BY <1>1, <1>5, <1>6, <1>7, <1>8, IdempotencyAssumption DEF StoreOK
<1>10. finished' \subseteq Entry /\ finished \subseteq finished'
  BY <1>1, <1>4 DEF IInv, TypeOK
<1>11. /\ inFlight' = [inFlight EXCEPT ![p] = {}]
       /\ completed' = [completed EXCEPT ![p] = entries]
       /\ entriesFile' \in {entriesFile, entries}
  BY <1>1 DEF Saved
<1>12. /\ TablesOK'
       /\ completed' \in [Procs -> SUBSET Entry]
       /\ inFlight' \in [Procs -> SUBSET Reservation]
       /\ entriesFile' \subseteq Entry
  BY <1>9, <1>10, <1>11, TablesStep
<1>13. IdleOK'
  BY <1>2, <1>11 DEF IInv, TypeOK, IdleOK
<1>14. reply' \subseteq [id: Ids, print: Prints, run: Nat]
  BY <1>1, <1>4, ResponseType
<1> QED BY <1>2, <1>10, <1>12, <1>13, <1>14 DEF IInv, TypeOK, ProcessTypeOK

LEMMA AbortOK ==
    ASSUME IInv, NEW p \in Procs, Serving(p), Abort(p) PROVE IInv'
<1>1. /\ UNCHANGED <<now, status, completed, entriesFile, begun, finished>>
      /\ status[p] = "up" /\ reply' = {}
      /\ inFlight' = [inFlight EXCEPT ![p] = {}]
  BY DEF Abort, Serving
<1>2. StoreOK(completed[p], {}, finished')
  BY <1>1 DEF IInv, TablesOK, StoreOK
<1>3. completed' = [completed EXCEPT ![p] = completed[p]]
  BY <1>1 DEF IInv, TypeOK
<1>4. /\ TablesOK'
      /\ inFlight' \in [Procs -> SUBSET Reservation]
  <2>1. finished \subseteq finished' /\ finished' \subseteq Entry
    BY <1>1 DEF IInv, TypeOK
  <2>2. {} \subseteq Reservation /\ entriesFile' \in {entriesFile, completed[p]}
    BY <1>1
  <2>3. inFlight' = [inFlight EXCEPT ![p] = {}]
    BY <1>1
  <2> QED BY <1>2, <1>3, <2>1, <2>2, <2>3, TablesStep
<1>5. IdleOK'
  BY <1>1 DEF IInv, TypeOK, IdleOK
<1> QED BY <1>1, <1>4, <1>5 DEF IInv, TypeOK, ProcessTypeOK

LEMMA NextInv == IInv /\ [Next]_vars => IInv'
<1> SUFFICES ASSUME IInv, [Next]_vars PROVE IInv'
  OBVIOUS
<1>1. CASE UNCHANGED vars
  BY <1>1 DEF vars, storeVars, histVars, IInv, TypeOK, ProcessTypeOK, TablesOK, IdleOK
<1>2. CASE Tick
  BY <1>2, TickOK
<1>3. ASSUME NEW p \in Procs, Start(p) \/ Build(p) \/ Stop(p) PROVE IInv'
  BY <1>3, StartOK, BuildOK, StopOK
<1>4. ASSUME NEW p \in Procs, Serve(p) PROVE IInv'
  <2>1. Serving(p)
    BY <1>4 DEF Serve
  <2> QED BY <1>4, <2>1, ReplayOK, RefusedOK, NewOK, CompleteOK, AbortOK DEF Serve
<1> QED BY <1>1, <1>2, <1>3, <1>4 DEF Next

---------------------------------------------------------------------------
(* What holds for every deployment *)

\* The tables, the file and the histories keep their shape.
THEOREM TypeCorrect == Spec => []TypeOK
<1>1. IInv => TypeOK
  BY DEF IInv
<1> QED BY <1>1, InitInv, NextInv, PTL DEF Spec

\* Whatever processes overwrite, the file is one that a store accepts.
THEOREM AlwaysRestartable == Spec => []Restartable
<1>1. IInv => Restartable
  BY DEF IInv, TablesOK, StoreOK, Restartable
<1> QED BY <1>1, InitInv, NextInv, PTL DEF Spec

\* A repetition is answered with the answer of an execution that finished less
\* than TTL ago.
THEOREM OnlyGenuineReplays == Spec => ReplaysGenuine
<1> DEFINE Genuine == \A a \in reply' \ reply :
                         \E f \in finished' : Response(f) = a /\ f.at + TTL > now
<1>1. IInv /\ [Next]_vars => [Genuine]_vars
  <2> SUFFICES ASSUME IInv, Next PROVE Genuine
    OBVIOUS
  <2>1. CASE UNCHANGED reply
    BY <2>1
  <2>2. CASE reply' = {}
    BY <2>2
  <2>3. ASSUME NEW p \in Procs, NEW id \in Ids, NEW print \in Prints,
               ReserveReplay(p, id, print)
        PROVE  Genuine
    <3>1. PICK e \in Known(p, id) : reply' = {Response(e)}
      BY <2>3 DEF ReserveReplay
    <3>2. e \in completed[p] /\ e.at + TTL > now
      BY DEF Known, Fresh
    <3>3. e \in finished'
      BY <2>3, <3>2 DEF ReserveReplay, IInv, TablesOK, StoreOK
    <3> QED BY <3>1, <3>2, <3>3
  <2>4. ASSUME NEW p \in Procs, Complete(p) PROVE Genuine
    <3>1. PICK r \in inFlight[p] :
            LET e == [id |-> r.id, print |-> r.print, run |-> r.run, at |-> now]
            IN  reply' = {Response(e)} /\ finished' = finished \cup {e}
      BY <2>4 DEF Complete
    <3> DEFINE e == [id |-> r.id, print |-> r.print, run |-> r.run, at |-> now]
    <3>2. e.at + TTL > now
      BY IdempotencyAssumption DEF IInv, TypeOK, ProcessTypeOK
    <3> QED BY <3>1, <3>2
  <2> QED
    <3>1. CASE Tick
      BY <3>1, <2>1 DEF Tick, histVars
    <3>2. ASSUME NEW p \in Procs, Start(p) \/ Build(p) \/ Stop(p) PROVE Genuine
      BY <3>2, <2>1 DEF Start, Build, Stop, histVars
    <3>3. ASSUME NEW p \in Procs, Serve(p) PROVE Genuine
      BY <3>3, <2>1, <2>2, <2>3, <2>4 DEF Serve, ReserveRefused, ReserveNew, Abort
    <3> QED BY <3>1, <3>2, <3>3 DEF Next
<1> QED BY <1>1, InitInv, NextInv, PTL DEF Spec, ReplaysGenuine

---------------------------------------------------------------------------
(* One process whose writes succeed implements OnceOnly *)

\* While p serves, its memory and the file agree on the answers in force; it
\* executes one thing at most, numbered by `begun`, and not one answered before.
AgreeOK(p) ==
    /\ status[p] = "up" => Fresh(completed[p]) = Fresh(entriesFile)
    /\ \A r, s \in inFlight[p] : r = s
    /\ \A r \in inFlight[p] :
        r.run = begun[r.id] /\ \A e \in Fresh(entriesFile) : e.id # r.id

RInv(p) == IInv /\ AgreeOK(p)

Running(p) == {r.id : r \in inFlight[p]}
Answers == {Response(e) : e \in Fresh(entriesFile)}

\* The refinement mapping, for one process.
LEMMA Mapped ==
    ASSUME NEW p, Procs = {p}
    PROVE  UNION {{r.id : r \in inFlight[q]} : q \in Procs} = Running(p)
  BY DEF Running

\* A reservation leaves the answers in force as they are.
LEMMA SweepKeeps ==
    ASSUME NEW p, Procs = {p}, MayLoseWrites = FALSE, RInv(p), Sweep(p), status[p] = "up",
           UNCHANGED now
    PROVE  /\ Fresh(entriesFile)' = Fresh(entriesFile)
           /\ Fresh(completed[p])' = Fresh(entriesFile)
           /\ Fresh(completed[p]) = Fresh(entriesFile)
<1>1. Fresh(completed[p]) = Fresh(entriesFile)
  BY DEF RInv, AgreeOK
<1>2. completed'[p] = Fresh(completed[p])
  BY DEF Sweep, RInv, IInv, TypeOK
<1>3. entriesFile' = entriesFile \/ entriesFile' = Fresh(completed[p])
  BY DEF Sweep, Saved
<1>4. \A S : Fresh(Fresh(S)) = Fresh(S)
  BY DEF Fresh
<1>5. Fresh(entriesFile)' = Fresh(entriesFile)
  BY <1>1, <1>3, <1>4 DEF Fresh
<1>6. Fresh(completed[p])' = Fresh(entriesFile)
  BY <1>1, <1>2, <1>4 DEF Fresh
<1> QED BY <1>1, <1>5, <1>6

\* Time passes or a process starts or stops: answers may go out of force.
LEMMA TickRefines ==
    ASSUME NEW p, Procs = {p}, RInv(p), Tick
    PROVE  AgreeOK(p)' /\ Once!Lapse
<1>1. now \in Nat /\ now' = now + 1 /\ UNCHANGED <<status, storeVars, histVars>>
  BY DEF Tick, Advance, RInv, IInv, TypeOK, ProcessTypeOK
<1>2. \A S \in SUBSET Entry : Fresh(S)' = {e \in Fresh(S) : e.at + TTL > now + 1}
  BY <1>1, IdempotencyAssumption DEF Fresh, Entry
<1>3. /\ Fresh(completed[p])' = {e \in Fresh(completed[p]) : e.at + TTL > now + 1}
      /\ Fresh(entriesFile)' = {e \in Fresh(entriesFile) : e.at + TTL > now + 1}
  BY <1>1, IdempotencyAssumption DEF Fresh, Entry, storeVars, RInv, IInv, TypeOK
<1>4. AgreeOK(p)'
  BY <1>1, <1>3 DEF RInv, AgreeOK, storeVars, histVars
<1>5. Answers' \subseteq Answers
  BY <1>3 DEF Answers, Response
<1> QED BY <1>1, <1>4, <1>5 DEF Once!Lapse, Answers, storeVars, histVars

LEMMA StartRefines ==
    ASSUME NEW p, Procs = {p}, RInv(p), Start(p) \/ Build(p)
    PROVE  AgreeOK(p)' /\ UNCHANGED Once!vars
<1>1. /\ UNCHANGED <<now, inFlight, entriesFile, begun, reply>>
      /\ status[p] # "up"
  BY DEF Start, Build, Move, storeVars, histVars
<1>2. Fresh(entriesFile)' = Fresh(entriesFile)
  BY <1>1 DEF Fresh
<1>3. status'[p] = "up" => Fresh(completed[p])' = Fresh(entriesFile)
  <2>1. CASE Start(p)
    BY <2>1 DEF Start, Move, RInv, IInv, TypeOK, ProcessTypeOK
  <2>2. CASE Build(p)
    <3>1. completed'[p] = Fresh(entriesFile)
      BY <2>2 DEF Build, RInv, IInv, TypeOK
    <3> QED BY <1>1, <3>1 DEF Fresh
  <2> QED BY <2>1, <2>2
<1>4. AgreeOK(p)'
  BY <1>1, <1>2, <1>3 DEF RInv, AgreeOK
<1> QED BY <1>1, <1>2, <1>4 DEF Once!vars

\* An execution ends without an answer, by a crash or by an error.
LEMMA CutRefines ==
    ASSUME NEW p, Procs = {p}, RInv(p), Stop(p) \/ (Serving(p) /\ Abort(p))
    PROVE  AgreeOK(p)' /\ [Once!Next]_(Once!vars)
<1>1. /\ UNCHANGED <<now, entriesFile, begun>>
      /\ reply' \in {reply, {}}
      /\ inFlight[p] = {} => UNCHANGED reply
      /\ inFlight'[p] = {}
  BY DEF Stop, Exit, Abort, Serving, RInv, IInv, TypeOK
<1>2. Fresh(entriesFile)' = Fresh(entriesFile)
  BY <1>1 DEF Fresh
<1>3. status'[p] = "up" => Fresh(completed[p])' = Fresh(entriesFile)
  BY <1>2 DEF Stop, Exit, Abort, Serving, RInv, IInv, TypeOK, ProcessTypeOK, AgreeOK, Fresh
<1>4. AgreeOK(p)'
  BY <1>1, <1>2, <1>3 DEF RInv, AgreeOK
<1>5. Running(p)' = {}
  BY <1>1 DEF Running
<1>6. Answers' = Answers
  BY <1>2 DEF Answers, Response
<1>7. CASE inFlight[p] = {}
  <2>1. Running(p)' = Running(p)
    BY <1>5, <1>7 DEF Running
  <2> QED BY <1>1, <1>4, <1>6, <1>7, <2>1, Mapped DEF Once!vars, Answers, Running
<1>8. CASE inFlight[p] # {}
  <2>1. PICK r \in inFlight[p] : TRUE
    BY <1>8
  <2>2. r.id \in Ids /\ Running(p) = {r.id}
    BY DEF RInv, AgreeOK, Running, IInv, TypeOK, Reservation
  <2>3. Once!GiveUp(r.id)
    BY <1>1, <1>5, <1>6, <2>2, Mapped DEF Once!GiveUp, Answers, Running
  <2> QED BY <1>4, <2>2, <2>3 DEF Once!Next
<1> QED BY <1>7, <1>8

LEMMA ReplayRefines ==
    ASSUME NEW p, Procs = {p}, MayLoseWrites = FALSE, RInv(p), Serving(p),
           NEW id \in Ids, NEW print \in Prints, ReserveReplay(p, id, print)
    PROVE  AgreeOK(p)' /\ Once!Next
<1>1. /\ UNCHANGED <<now, status, inFlight, begun>> /\ status[p] = "up"
      /\ Sweep(p)
  BY DEF ReserveReplay, Serving
<1>2. /\ Fresh(entriesFile)' = Fresh(entriesFile)
      /\ Fresh(completed[p])' = Fresh(entriesFile)
      /\ Fresh(completed[p]) = Fresh(entriesFile)
  BY <1>1, SweepKeeps
<1>3. AgreeOK(p)'
  BY <1>1, <1>2 DEF RInv, AgreeOK
<1>4. PICK e \in Fresh(entriesFile) : reply' = {Response(e)}
  BY <1>2 DEF ReserveReplay, Known
<1>5. Once!Repeat(Response(e))
  BY <1>1, <1>2, <1>4 DEF Once!Repeat
<1>6. Response(e) \in Answers
  BY DEF Answers
<1> QED BY <1>3, <1>5, <1>6 DEF Once!Next, Answers

LEMMA RefusedRefines ==
    ASSUME NEW p, Procs = {p}, MayLoseWrites = FALSE, RInv(p), Serving(p),
           NEW id \in Ids, NEW print \in Prints, ReserveRefused(p, id, print)
    PROVE  AgreeOK(p)' /\ Once!Next
<1>1. /\ UNCHANGED <<now, status, inFlight, begun>> /\ status[p] = "up"
      /\ Sweep(p) /\ reply' = {}
  BY DEF ReserveRefused, Serving
<1>2. /\ Fresh(entriesFile)' = Fresh(entriesFile)
      /\ Fresh(completed[p])' = Fresh(entriesFile)
  BY <1>1, SweepKeeps
<1>3. AgreeOK(p)'
  BY <1>1, <1>2 DEF RInv, AgreeOK
<1>4. Once!Decline
  BY <1>1, <1>2 DEF Once!Decline
<1> QED BY <1>3, <1>4 DEF Once!Next

LEMMA NewRefines ==
    ASSUME NEW p, Procs = {p}, MayLoseWrites = FALSE, RInv(p), Serving(p),
           NEW id \in Ids, NEW print \in Prints, ReserveNew(p, id, print)
    PROVE  AgreeOK(p)' /\ Once!Next
<1> DEFINE r == [id |-> id, print |-> print, run |-> begun[id] + 1]
<1>1. /\ UNCHANGED <<now, status, reply>> /\ status[p] = "up"
      /\ Sweep(p) /\ inFlight[p] = {}
      /\ begun' = [begun EXCEPT ![id] = begun[id] + 1]
  BY DEF ReserveNew, Serving, Sweep
<1>2. inFlight'[p] = {r}
  BY DEF ReserveNew, RInv, IInv, TypeOK
<1>3. /\ Fresh(entriesFile)' = Fresh(entriesFile)
      /\ Fresh(completed[p])' = Fresh(entriesFile)
      /\ Fresh(completed[p]) = Fresh(entriesFile)
  BY <1>1, SweepKeeps
<1>4. \A e \in Fresh(entriesFile) : e.id # id
  BY <1>3 DEF ReserveNew, Known
<1>5. r.run = begun'[r.id]
  BY <1>1 DEF RInv, IInv, TypeOK
<1>6. AgreeOK(p)'
  BY <1>1, <1>2, <1>3, <1>4, <1>5 DEF AgreeOK
<1>7. Running(p) = {} /\ Running(p)' = {id}
  BY <1>1, <1>2 DEF Running
<1>8. \A a \in Answers : a.id # id
  BY <1>4 DEF Answers, Response
<1>9. Once!Begin(id)
  BY <1>1, <1>3, <1>7, <1>8, Mapped DEF Once!Begin, Answers, Running
<1> QED BY <1>6, <1>9 DEF Once!Next

LEMMA CompleteRefines ==
    ASSUME NEW p, Procs = {p}, MayLoseWrites = FALSE, RInv(p), Serving(p), Complete(p)
    PROVE  AgreeOK(p)' /\ Once!Next
<1>1. PICK r \in inFlight[p] :
        LET e == [id |-> r.id, print |-> r.print, run |-> r.run, at |-> now]
            entries == {c \in completed[p] : c.id # r.id} \cup {e}
        IN  /\ inFlight' = [inFlight EXCEPT ![p] = {}]
            /\ completed' = [completed EXCEPT ![p] = entries]
            /\ entriesFile' \in Saved({entriesFile}, entries)
            /\ reply' = {Response(e)}
            /\ finished' = finished \cup {e}
            /\ UNCHANGED begun
  BY DEF Complete
<1> DEFINE e == [id |-> r.id, print |-> r.print, run |-> r.run, at |-> now]
           entries == {c \in completed[p] : c.id # r.id} \cup {e}
<1>2. UNCHANGED <<now, status, begun>> /\ status[p] = "up"
  BY <1>1 DEF Serving
<1>3. /\ inFlight'[p] = {} /\ completed'[p] = entries
      /\ entriesFile' = entries /\ reply' = {Response(e)}
  BY <1>1 DEF RInv, IInv, TypeOK, Saved
<1>4. /\ Fresh(completed[p]) = Fresh(entriesFile)
      /\ r.run = begun[r.id] /\ \A c \in Fresh(entriesFile) : c.id # r.id
      /\ \A s \in inFlight[p] : s = r
  BY <1>2 DEF RInv, AgreeOK
<1>5. now + TTL > now
  BY IdempotencyAssumption DEF RInv, IInv, TypeOK, ProcessTypeOK
<1>6. Fresh(entries)' = Fresh(entriesFile) \cup {e}
  <2>1. \A c \in completed[p] : c \in Fresh(completed[p]) <=> c.at + TTL > now
    BY DEF Fresh
  <2>2. \A c : c \in Fresh(entriesFile)
                  <=> c \in completed[p] /\ c.id # r.id /\ c.at + TTL > now
    BY <1>4, <2>1 DEF Fresh
  <2>3. \A c : c \in {d \in entries : d.at + TTL > now} <=> c \in Fresh(entriesFile) \cup {e}
    BY <1>5, <2>2
  <2> QED BY <1>2, <1>3, <2>3 DEF Fresh
<1>7. AgreeOK(p)'
  BY <1>3 DEF AgreeOK, Fresh
<1>8. Fresh(entriesFile)' = Fresh(entriesFile) \cup {e}
  BY <1>3, <1>6 DEF Fresh
<1>9. Answers' = Answers \cup {Response(e)}
  BY <1>8 DEF Answers, Response
<1>10. Running(p) = {r.id} /\ Running(p)' = {}
  BY <1>3, <1>4 DEF Running
<1>11. Response(e) = [id |-> r.id, print |-> r.print, run |-> begun[r.id]]
  BY <1>4 DEF Response
<1>12. r.id \in Ids /\ r.print \in Prints
  BY DEF RInv, IInv, TypeOK, Reservation
<1>13. Once!Finish(r.id, r.print)
  <2>1. r.id \in Running(p) /\ Running(p)' = Running(p) \ {r.id}
    BY <1>10
  <2>2. reply' = {[id |-> r.id, print |-> r.print, run |-> begun[r.id]]}
    BY <1>3, <1>11
  <2>3. Answers' = Answers \cup reply'
    BY <1>3, <1>9
  <2>4. UNCHANGED begun
    BY <1>2
  <2> HIDE DEF e, entries
  <2>5. (UNION {{s.id : s \in inFlight[q]} : q \in Procs})' = Running(p)'
    BY DEF Running
  <2>6. UNION {{s.id : s \in inFlight[q]} : q \in Procs} = Running(p)
    BY Mapped
  <2> QED BY <2>1, <2>2, <2>3, <2>4, <2>5, <2>6 DEF Once!Finish, Answers
<1>14. \E i \in Ids, print \in Prints : Once!Finish(i, print)
  BY <1>12, <1>13, Zenon
<1> QED BY <1>7, <1>14, Zenon DEF Once!Next

LEMMA StepRefines ==
    ASSUME NEW p, Procs = {p}, MayLoseWrites = FALSE, RInv(p), [Next]_vars
    PROVE  RInv(p)' /\ [Once!Next]_(Once!vars)
<1>1. IInv'
  BY NextInv DEF RInv
<1>2. CASE UNCHANGED vars
  BY <1>1, <1>2 DEF RInv, AgreeOK, Fresh, Once!vars, vars, storeVars, histVars
<1>3. CASE Tick
  BY <1>1, <1>3, TickRefines DEF RInv, Once!Next
<1>4. CASE Start(p) \/ Build(p)
  BY <1>1, <1>4, StartRefines DEF RInv
<1>5. CASE Stop(p)
  BY <1>1, <1>5, CutRefines DEF RInv
<1>6. CASE Serve(p)
  BY <1>1, <1>6, CutRefines, ReplayRefines, RefusedRefines, NewRefines, CompleteRefines
     DEF RInv, Serve
<1> QED BY <1>2, <1>3, <1>4, <1>5, <1>6 DEF Next

\* One process whose writes succeed keeps the promise of OnceOnly.
THEOREM OneProcessDelivers ==
    ASSUME NEW p, Procs = {p}, MayLoseWrites = FALSE
    PROVE  Spec => OncePromised
<1>1. Init => RInv(p) /\ Once!Init
  <2> SUFFICES ASSUME Init PROVE RInv(p) /\ Once!Init
    OBVIOUS
  <2>1. AgreeOK(p)
    BY DEF Init, ProcessInit, AgreeOK
  <2>2. Running(p) = {} /\ Answers = {}
    BY DEF Init, Running, Answers, Fresh
  <2>3. Once!Init
    BY <2>2, Mapped DEF Init, Once!Init, Running, Answers
  <2> QED BY <2>1, <2>3, InitInv DEF RInv
<1>2. RInv(p) /\ [Next]_vars => RInv(p)' /\ [Once!Next]_(Once!vars)
  BY StepRefines
<1> QED BY <1>1, <1>2, PTL DEF Spec, OncePromised, Once!Spec

=============================================================================
