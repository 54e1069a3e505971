-------------------------- MODULE BridgeAuthProofs --------------------------
(***************************************************************************)
(* Proofs about the pairing tables, about the handshake tables, and about  *)
(* BridgeAuth, which puts them together.                                   *)
(*                                                                         *)
(* The pairing tables, for any number of bridge processes, peers, sessions *)
(* and handles, any limits, and writes that may be lost.                   *)
(* RotationExclusive is not inductive: that a new record spares the handle *)
(* it supersedes depends on that handle being an old one.  The invariant   *)
(* proved says of every copy of the tables, in memory or in the file, that *)
(* the handles its sessions and records mention as superseded were drawn.  *)
(* What restarts must not undo (a retirement, the count of wrong guesses,  *)
(* the pause after them) is proved of one process whose writes succeed: to *)
(* a second process the first one's latest tables may be unknown.          *)
(*                                                                         *)
(* The handshake, for any number of bridge processes, nonces and tokens,   *)
(* any lifetimes, and writes that may be lost.  What makes expiry safe in  *)
(* every process is that no copy of a table ever holds a time of its own:  *)
(* each session record, in memory or in the file, carries the expiry of    *)
(* the grant it comes from, and each challenge the one of the moment its   *)
(* nonce was issued.  What needs one process whose writes succeed (that a  *)
(* challenge opens one session, that live sessions are known) comes after. *)
(*                                                                         *)
(* The composition: a deployment implements both tables' specifications,   *)
(* so what was proved of them holds of it, and the handler's histories     *)
(* (which session was granted on which pairing) need no more than that.    *)
(***************************************************************************)
EXTENDS BridgeAuth, TLAPS

---------------------------------------------------------------------------
(* The pairing tables                                                      *)

\* D stands for the handles drawn.
PendingOK(pend, D) ==
    /\ pend \in SUBSET Pending
    /\ \A s \in pend : s.supersedes \in D \cup {NoHandle}

RecordsOK(recs, D) ==
    /\ recs \in SUBSET Record
    /\ \A r \in recs : r.rotatedFrom \in D \cup {NoHandle} /\ r.rotatedFrom \notin HandlesOf(recs)

StateOK(state, D) ==
    /\ state \in [pending: SUBSET Pending, records: SUBSET Record]
    /\ PendingOK(state.pending, D)
    /\ RecordsOK(state.records, D)

TablesInv ==
    /\ pending \in [Procs -> SUBSET Pending]
    /\ records \in [Procs -> SUBSET Record]
    /\ \A p \in Procs : PendingOK(pending[p], drawn) /\ RecordsOK(records[p], drawn)
    /\ StateOK(pairingFile, drawn)

HistoryOK ==
    /\ drawn \subseteq SessionIds \cup Handles
    /\ wrong \in [SessionIds -> [count: Nat, at: Nat]]
    /\ retired \subseteq Handles

IInv == ProcessTypeOK /\ TablesInv /\ HistoryOK

---------------------------------------------------------------------------
(* The tables: what each operation computes is in order, and so is every   *)
(* state the file may be left in.                                          *)

\* Sets that are in order for some drawn handles are for more of them.
LEMMA DrawnGrows ==
    ASSUME NEW D, NEW E, D \subseteq E
    PROVE  /\ \A pend : PendingOK(pend, D) => PendingOK(pend, E)
           /\ \A recs : RecordsOK(recs, D) => RecordsOK(recs, E)
           /\ \A st : StateOK(st, D) => StateOK(st, E)
  BY DEF PendingOK, RecordsOK, StateOK

\* A part of the pending sessions, and of the records, is in order.
LEMMA PartOK ==
    ASSUME NEW D, NEW pend, PendingOK(pend, D), NEW recs, RecordsOK(recs, D)
    PROVE  /\ \A q \in SUBSET pend : PendingOK(q, D)
           /\ \A q \in SUBSET recs : RecordsOK(q, D)
  BY DEF PendingOK, RecordsOK, HandlesOf

\* State pairs two tables.
LEMMA StateOfParts ==
    ASSUME NEW D, NEW pend, PendingOK(pend, D), NEW recs, RecordsOK(recs, D)
    PROVE  StateOK(State(pend, recs), D)
  BY DEF StateOK, State, PendingOK, RecordsOK

\* Commit leaves the tables in order when it is given tables and files that are.
LEMMA CommitOK ==
    ASSUME TablesInv, NEW p \in Procs, drawn \subseteq drawn',
           NEW pend, PendingOK(pend, drawn'),
           NEW recs, RecordsOK(recs, drawn'),
           NEW files, \A f \in files : StateOK(f, drawn'),
           Commit(p, pend, recs, files)
    PROVE  TablesInv'
<1>1. /\ \A q : PendingOK(q, drawn) => PendingOK(q, drawn')
      /\ \A q : RecordsOK(q, drawn) => RecordsOK(q, drawn')
  BY DrawnGrows
<1>2. pending' \in [Procs -> SUBSET Pending] /\ records' \in [Procs -> SUBSET Record]
  BY DEF TablesInv, Commit, PendingOK, RecordsOK
<1>3. \A q \in Procs : PendingOK(pending'[q], drawn') /\ RecordsOK(records'[q], drawn')
  <2> TAKE q \in Procs
  <2>1. CASE q = p
    BY <2>1 DEF TablesInv, Commit
  <2>2. CASE q # p
    BY <1>1, <2>2 DEF TablesInv, Commit
  <2> QED BY <2>1, <2>2
<1>4. StateOK(pairingFile', drawn')
  BY DEF Commit
<1> QED BY <1>2, <1>3, <1>4 DEF TablesInv

\* What a sweep may leave in the file is in order.
LEMMA SweptOK ==
    ASSUME TablesInv, NEW p \in Procs, NEW D, drawn \subseteq D
    PROVE  /\ PendingOK(Live(p), D)
           /\ RecordsOK(records[p], D)
           /\ \A f \in SweptFiles(p) : StateOK(f, D)
<1>1. PendingOK(pending[p], D) /\ RecordsOK(records[p], D) /\ StateOK(pairingFile, D)
  BY DrawnGrows DEF TablesInv
<1>2. PendingOK(Live(p), D)
  <2>1. Live(p) \subseteq pending[p]
    BY DEF Live
  <2> QED BY <1>1, <2>1, PartOK
<1>3. StateOK(State(Live(p), records[p]), D)
  BY <1>1, <1>2, StateOfParts
<1> QED BY <1>1, <1>2, <1>3 DEF SweptFiles, Saved

\* A sweep followed by a write of new tables.
LEMMA StoreOK ==
    ASSUME TablesInv, NEW p \in Procs, drawn \subseteq drawn',
           NEW pend, PendingOK(pend, drawn'),
           NEW recs, RecordsOK(recs, drawn'),
           Store(p, pend, recs)
    PROVE  TablesInv'
<1>1. \A f \in SweptFiles(p) : StateOK(f, drawn')
  BY SweptOK
<1>2. \A f \in Saved(SweptFiles(p), State(pend, recs)) : StateOK(f, drawn')
  BY <1>1, StateOfParts DEF Saved
<1> QED BY <1>2, CommitOK DEF Store

\* A sweep alone.
LEMMA SweepOnlyOK ==
    ASSUME TablesInv, NEW p \in Procs, UNCHANGED drawn, SweepOnly(p)
    PROVE  TablesInv'
<1>1. /\ PendingOK(Live(p), drawn') /\ RecordsOK(records[p], drawn')
      /\ \A f \in SweptFiles(p) : StateOK(f, drawn')
  BY SweptOK
<1> QED BY <1>1, CommitOK DEF SweepOnly

\* The handles of a table with one record more.
LEMMA HandlesOfMore ==
    ASSUME NEW recs, NEW r
    PROVE  HandlesOf(recs \cup {r}) = HandlesOf(recs) \cup {r.handle}
  BY DEF HandlesOf

\* What a wrong attempt leaves of a session is in order: the attempts stay below
\* the limit, for which the back-off is known to be a time.
LEMMA AfterWrongOK ==
    ASSUME NEW s \in Pending, NEW D, s.supersedes \in D \cup {NoHandle}, now \in Nat
    PROVE  PendingOK(AfterWrong(s), D)
<1>1. CASE s.attempts + 1 >= MaxAttempts
  BY <1>1 DEF AfterWrong, PendingOK
<1>2. CASE ~(s.attempts + 1 >= MaxAttempts)
  <2>1. s.attempts + 1 \in 1..MaxAttempts
    BY <1>2, PairingAssumption DEF Pending
  <2>2. RetryAfter(s.attempts + 1) \in Nat
    BY <2>1, PairingAssumption DEF RetryAfter
  <2>3. now + RetryAfter(s.attempts + 1) \in Nat
    BY <2>2
  <2> DEFINE first == [s EXCEPT !.attempts = @ + 1]
  <2>4. first \in Pending /\ first.supersedes = s.supersedes
    BY DEF Pending
  <2>5. \A f \in Pending, t \in Nat :
            /\ [f EXCEPT !.nextAllowedAt = t] \in Pending
            /\ [f EXCEPT !.nextAllowedAt = t].supersedes = f.supersedes
    BY DEF Pending
  <2>6. Retry(s) = [first EXCEPT !.nextAllowedAt = now + RetryAfter(s.attempts + 1)]
    BY DEF Retry
  <2> HIDE DEF first
  <2>7. Retry(s) \in Pending /\ Retry(s).supersedes = s.supersedes
    BY <2>3, <2>4, <2>5, <2>6, Zenon
  <2> QED BY <1>2, <2>7 DEF AfterWrong, PendingOK
<1> QED BY <1>1, <1>2

---------------------------------------------------------------------------
(* The operations *)

\* A new pending session, for a handle that was drawn.
LEMMA BeginOK ==
    ASSUME IInv, NEW p \in Procs, NEW peer \in Peers,
           NEW h \in KnownHandles \cup {NoHandle}, NEW id \in SessionIds,
           BeginPairing(p, peer, h, id)
    PROVE  TablesInv' /\ HistoryOK'
<1> DEFINE new == [id |-> id, peer |-> peer, expiresAt |-> now + CodeTTL,
                   attempts |-> 0, nextAllowedAt |-> now, supersedes |-> h]
<1>1. drawn \subseteq drawn'
  BY DEF BeginPairing
<1>2. PendingOK(Live(p), drawn') /\ RecordsOK(records[p], drawn')
  BY <1>1, SweptOK DEF IInv
<1>3. new \in Pending
  BY PairingAssumption DEF Pending, KnownHandles, IInv, ProcessTypeOK
<1>4. new.supersedes \in drawn' \cup {NoHandle}
  BY <1>1 DEF KnownHandles
<1>5. PendingOK(Live(p) \cup {new}, drawn')
  <2> HIDE DEF new
  <2> QED BY <1>2, <1>3, <1>4 DEF PendingOK
<1>6. TablesInv'
  BY <1>1, <1>2, <1>5, StoreOK DEF BeginPairing, IInv
<1>7. HistoryOK'
  BY DEF BeginPairing, HistoryOK, IInv
<1> QED BY <1>6, <1>7

\* A wrong proof: the session is dropped or waits for the back-off.
LEMMA WrongOK ==
    ASSUME IInv, NEW p \in Procs, NEW peer \in Peers, NEW id \in SessionIds,
           CompleteWrong(p, id, peer)
    PROVE  TablesInv' /\ HistoryOK'
<1>1. PICK s \in Admissible(p, id, peer) :
        /\ Store(p, Without(Live(p), id) \cup AfterWrong(s), records[p])
        /\ wrong' = [wrong EXCEPT ![id] = [count |-> OneMore(@.count), at |-> now]]
        /\ UNCHANGED <<drawn, retired>>
  BY DEF CompleteWrong
<1>2. PendingOK(Live(p), drawn) /\ RecordsOK(records[p], drawn)
  BY SweptOK DEF IInv
<1>3. s \in Pending /\ s.supersedes \in drawn \cup {NoHandle}
  BY <1>2 DEF Admissible, PendingOK
<1>4. PendingOK(AfterWrong(s), drawn)
  BY <1>3, AfterWrongOK DEF IInv, ProcessTypeOK
<1>5. PendingOK(Without(Live(p), id) \cup AfterWrong(s), drawn)
  BY <1>2, <1>4 DEF PendingOK, Without
<1>6. TablesInv'
  BY <1>1, <1>2, <1>5, StoreOK DEF IInv
<1>7. HistoryOK'
  <2>1. wrong[id].count \in Nat /\ OneMore(wrong[id].count) \in Nat /\ now \in Nat
    BY DEF IInv, HistoryOK, OneMore, ProcessTypeOK
  <2> QED BY <1>1, <2>1 DEF HistoryOK, IInv
<1> QED BY <1>6, <1>7

\* A right proof: the new record takes the place of the superseded one.
LEMMA RightOK ==
    ASSUME IInv, NEW p \in Procs, NEW peer \in Peers, NEW id \in SessionIds,
           NEW h \in Handles, CompleteRight(p, id, peer, h)
    PROVE  TablesInv' /\ HistoryOK'
<1>1. PICK s \in Admissible(p, id, peer) :
        /\ h \in Handles \ drawn
        /\ Store(p,
                 Without(Live(p), id),
                 Replacing(records[p],
                           [handle |-> h, peer |-> peer, rotatedFrom |-> s.supersedes]))
        /\ drawn' = drawn \cup {h}
        /\ retired' = retired \cup (HandlesOf(records[p]) \cap {s.supersedes})
        /\ UNCHANGED wrong
  BY DEF CompleteRight
<1> DEFINE kept == {r \in records[p] : r.handle # s.supersedes}
           new == [handle |-> h, peer |-> peer, rotatedFrom |-> s.supersedes]
<1>2. /\ PendingOK(Live(p), drawn) /\ PendingOK(Live(p), drawn')
      /\ RecordsOK(records[p], drawn)
  BY <1>1, SweptOK DEF IInv
<1>3. s.supersedes \in drawn \cup {NoHandle} /\ s.supersedes \in Handles \cup {NoHandle}
  BY <1>2 DEF Admissible, PendingOK, Pending
<1>4. RecordsOK(kept \cup {new}, drawn')
  <2>1. new \in Record
    BY <1>3 DEF Record
  <2>2. HandlesOf(kept \cup {new}) = HandlesOf(kept) \cup {h}
    <3>1. new.handle = h
      OBVIOUS
    <3> HIDE DEF kept, new
    <3> QED BY <3>1, HandlesOfMore
  <2>3. s.supersedes \notin HandlesOf(kept) \cup {h}
    BY <1>1, <1>3, PairingAssumption DEF HandlesOf
  <2>4. \A r \in kept : r.rotatedFrom \in drawn' \cup {NoHandle}
                          /\ r.rotatedFrom \notin HandlesOf(kept) \cup {h}
    BY <1>1, <1>2, PairingAssumption DEF RecordsOK, HandlesOf
  <2>5. kept \in SUBSET Record
    BY <1>2 DEF RecordsOK
  <2>6. new.rotatedFrom = s.supersedes
    OBVIOUS
  <2> HIDE DEF kept, new
  <2> QED BY <1>1, <1>3, <2>1, <2>2, <2>3, <2>4, <2>5, <2>6 DEF RecordsOK
<1>5. PendingOK(Without(Live(p), id), drawn')
  BY <1>2 DEF PendingOK, Without
<1>6. TablesInv'
  <2>1. Replacing(records[p], new) = kept \cup {new}
    BY DEF Replacing
  <2>2. drawn \subseteq drawn' /\ Store(p, Without(Live(p), id), kept \cup {new})
    BY <1>1, <2>1
  <2> HIDE DEF kept, new
  <2> QED BY <1>4, <1>5, <2>2, StoreOK DEF IInv
<1>7. HistoryOK'
  BY <1>1, <1>2 DEF HistoryOK, IInv, HandlesOf, RecordsOK, Record
<1> QED BY <1>6, <1>7

\* Revocation takes a record away and leaves the sessions alone.
LEMMA RevokeOK ==
    ASSUME IInv, NEW p \in Procs, NEW h \in KnownHandles, RevokePairing(p, h)
    PROVE  TablesInv' /\ HistoryOK'
<1> DEFINE left == {r \in records[p] : r.handle # h}
<1>1. PendingOK(pending[p], drawn) /\ RecordsOK(records[p], drawn) /\ StateOK(pairingFile, drawn)
  BY DEF IInv, TablesInv
<1>2. RecordsOK(left, drawn)
  BY <1>1, PartOK
<1>3. \A f \in Saved({pairingFile}, State(pending[p], left)) : StateOK(f, drawn)
  BY <1>1, <1>2, StateOfParts DEF Saved
<1>4. TablesInv'
  <2> /\ drawn' = drawn
      /\ Commit(p, pending[p], left, Saved({pairingFile}, State(pending[p], left)))
    BY DEF RevokePairing
  <2> HIDE DEF left
  <2> QED BY <1>1, <1>2, <1>3, CommitOK DEF IInv
<1>5. HistoryOK'
  BY DEF HistoryOK, IInv, RevokePairing, KnownHandles
<1> QED BY <1>4, <1>5

\* Automatic pairing adds a record that supersedes nothing.
LEMMA AutoOK ==
    ASSUME IInv, NEW p \in Procs, NEW peer \in Peers, NEW h \in Handles,
           AutoPair(p, peer, h)
    PROVE  TablesInv' /\ HistoryOK'
<1> DEFINE new == [handle |-> h, peer |-> peer, rotatedFrom |-> NoHandle]
           recs == records[p] \cup {new}
<1>1. h \notin drawn /\ drawn' = drawn \cup {h}
  BY DEF AutoPair
<1>2. /\ PendingOK(pending[p], drawn')
      /\ StateOK(pairingFile, drawn')
      /\ RecordsOK(records[p], drawn)
  BY <1>1, DrawnGrows DEF IInv, TablesInv
<1>3. RecordsOK(recs, drawn')
  <2>1. new \in Record
    BY DEF Record
  <2>2. HandlesOf(recs) = HandlesOf(records[p]) \cup {h}
    <3>1. new.handle = h
      OBVIOUS
    <3> HIDE DEF new
    <3> QED BY <3>1, HandlesOfMore
  <2>3. NoHandle \notin HandlesOf(records[p]) \cup {h}
    BY <1>2, PairingAssumption DEF HandlesOf, RecordsOK, Record
  <2>4. \A r \in records[p] : r.rotatedFrom # h
    BY <1>1, <1>2, PairingAssumption DEF RecordsOK
  <2>5. new.rotatedFrom = NoHandle
    OBVIOUS
  <2> HIDE DEF new
  <2> QED BY <1>1, <1>2, <2>1, <2>2, <2>3, <2>4, <2>5 DEF RecordsOK
<1>4. \A f \in Saved({pairingFile}, State(pending[p], recs)) : StateOK(f, drawn')
  <2> HIDE DEF recs
  <2> QED BY <1>2, <1>3, StateOfParts DEF Saved
<1>5. TablesInv'
  <2> /\ drawn \subseteq drawn'
      /\ Commit(p, pending[p], recs, Saved({pairingFile}, State(pending[p], recs)))
    BY DEF AutoPair
  <2> HIDE DEF recs
  <2> QED BY <1>2, <1>3, <1>4, CommitOK DEF IInv
<1>6. HistoryOK'
  BY DEF HistoryOK, IInv, AutoPair
<1> QED BY <1>5, <1>6

\* Loading the file, and forgetting the tables.
LEMMA BuildOK ==
    ASSUME IInv, NEW p \in Procs, BuildPairing(p)
    PROVE  TablesInv' /\ HistoryOK'
<1> DEFINE live == {s \in pairingFile.pending : s.expiresAt > now}
<1>1. /\ StateOK(pairingFile, drawn)
      /\ PendingOK(pairingFile.pending, drawn) /\ RecordsOK(pairingFile.records, drawn)
  BY DEF IInv, TablesInv, StateOK
<1>2. PendingOK(live, drawn)
  BY <1>1, PartOK
<1>3. \A f \in Saved({pairingFile}, State(live, pairingFile.records)) : StateOK(f, drawn)
  <2> HIDE DEF live
  <2> QED BY <1>1, <1>2, StateOfParts DEF Saved
<1>4. TablesInv'
  <2> /\ drawn' = drawn
      /\ Commit(p, live, pairingFile.records,
                Saved({pairingFile}, State(live, pairingFile.records)))
    BY DEF BuildPairing
  <2> HIDE DEF live
  <2> QED BY <1>1, <1>2, <1>3, CommitOK DEF IInv
<1>5. HistoryOK'
  BY DEF HistoryOK, IInv, BuildPairing
<1> QED BY <1>4, <1>5

LEMMA DropOK ==
    ASSUME IInv, NEW p \in Procs, DropPairing(p)
    PROVE  TablesInv' /\ HistoryOK'
<1>1. TablesInv'
  BY DEF IInv, DropPairing, TablesInv, PendingOK, RecordsOK
<1>2. HistoryOK'
  BY DEF HistoryOK, IInv, DropPairing
<1> QED BY <1>1, <1>2

---------------------------------------------------------------------------
(* The invariant *)

\* The empty tables of the start are in order.
LEMMA InitInv == PInit => IInv
<1> SUFFICES ASSUME PInit PROVE IInv
  OBVIOUS
<1>1. ProcessTypeOK
  BY DEF PInit, ProcessInit, ProcessTypeOK, Statuses
<1>2. TablesInv
  BY DEF PInit, PairingInit, TablesInv, PendingOK, RecordsOK, StateOK, State
<1>3. HistoryOK
  BY DEF PInit, PairingInit, HistoryOK
<1> QED BY <1>1, <1>2, <1>3 DEF IInv

\* A message served by a process keeps the tables in order.
LEMMA ServeInv ==
    ASSUME IInv, NEW p \in Procs, PServe(p)
    PROVE  IInv'
<1>1. ProcessTypeOK'
  BY DEF PServe, Serving, ProcessTypeOK, IInv
<1>2. TablesInv' /\ HistoryOK'
  <2>1. CASE \E peer \in Peers, h \in KnownHandles \cup {NoHandle}, id \in SessionIds :
                BeginPairing(p, peer, h, id)
    BY <2>1, BeginOK
  <2>2. CASE \E peer \in Peers, h \in KnownHandles, id \in SessionIds :
                RotatePairing(p, peer, h, id)
    BY <2>2, BeginOK DEF RotatePairing
  <2>3. CASE \E peer \in Peers, id \in SessionIds : CompleteRefused(p, id, peer)
    BY <2>3, SweepOnlyOK DEF CompleteRefused, HistoryOK, IInv
  <2>4. CASE \E peer \in Peers, id \in SessionIds : CompleteWrong(p, id, peer)
    BY <2>4, WrongOK
  <2>5. CASE \E peer \in Peers, id \in SessionIds, h \in Handles :
                CompleteRight(p, id, peer, h)
    BY <2>5, RightOK
  <2>6. CASE ListPairings(p)
    BY <2>6, SweepOnlyOK DEF ListPairings, HistoryOK, IInv
  <2>7. CASE \E h \in KnownHandles : RevokePairing(p, h)
    BY <2>7, RevokeOK
  <2>8. CASE \E peer \in Peers, h \in Handles : AutoPair(p, peer, h)
    BY <2>8, AutoOK
  <2> QED BY <2>1, <2>2, <2>3, <2>4, <2>5, <2>6, <2>7, <2>8 DEF PServe
<1> QED BY <1>1, <1>2 DEF IInv

\* Every step keeps the invariant.
LEMMA NextInv == IInv /\ [PNext]_pvars => IInv'
<1> SUFFICES ASSUME IInv, [PNext]_pvars PROVE IInv'
  OBVIOUS
<1>1. ASSUME UNCHANGED pairingVars PROVE TablesInv' /\ HistoryOK'
  BY <1>1 DEF IInv, pairingVars, TablesInv, HistoryOK, PendingOK, RecordsOK, StateOK, HandlesOf
<1>2. CASE PTick
  BY <1>1, <1>2 DEF PTick, Advance, IInv, ProcessTypeOK
<1>3. ASSUME NEW p \in Procs, PStart(p) PROVE IInv'
  BY <1>1, <1>3 DEF PStart, Move, IInv, ProcessTypeOK, Statuses
<1>4. ASSUME NEW p \in Procs, PBuild(p) PROVE IInv'
  BY <1>4, BuildOK DEF PBuild, Move, IInv, ProcessTypeOK, Statuses
<1>5. ASSUME NEW p \in Procs, PStop(p) PROVE IInv'
  BY <1>5, DropOK DEF PStop, Exit, IInv, ProcessTypeOK, Statuses
<1>6. CASE UNCHANGED pvars
  BY <1>1, <1>6 DEF pvars, IInv, ProcessTypeOK
<1> QED BY <1>2, <1>3, <1>4, <1>5, <1>6, ServeInv DEF PNext

\* What the invariant says of the tables contains the two properties.
LEMMA InvImplies == IInv => PTypeOK /\ RotationExclusive
  BY DEF IInv, TablesInv, HistoryOK, PTypeOK, RotationExclusive, StateOK, RecordsOK

---------------------------------------------------------------------------
(* One process whose writes succeed.  While it serves, the file is its     *)
(* memory; so it is enough to say of the file that each of its sessions    *)
(* carries the count and the back-off of the proofs compared for its code, *)
(* and that none of its records has a retired handle.                      *)

AgreeOK(p) ==
    IF status[p] = "up" THEN pairingFile = State(pending[p], records[p])
    ELSE pending[p] = {} /\ records[p] = {}

\* D stands for what was drawn, W for the wrong proofs compared.
CodesOK(pend, D, W) ==
    /\ \A s \in pend :
        /\ s.id \in D
        /\ s.attempts = W[s.id].count
        /\ s.attempts < MaxAttempts
        /\ s.attempts > 0 => s.nextAllowedAt >= W[s.id].at + RetryAfter(s.attempts)
    /\ \A s, t \in pend : s.id = t.id => s = t

CountsOK == \A id \in SessionIds : id \notin drawn => wrong[id].count = 0

NoneRetired(recs) == HandlesOf(recs) \cap retired = {}

OneOK(p) ==
    /\ AgreeOK(p)
    /\ CodesOK(pairingFile.pending, drawn, wrong)
    /\ CountsOK
    /\ AttemptsBounded
    /\ retired \subseteq drawn
    /\ NoneRetired(pairingFile.records)

OneInv(p) == IInv /\ OneOK(p)

\* Two records with the two tables are one state.
LEMMA StateFields ==
    ASSUME NEW pend, NEW recs
    PROVE  State(pend, recs).pending = pend /\ State(pend, recs).records = recs
  BY DEF State

\* A process that serves finds in the file what it remembers.
LEMMA Remembered ==
    ASSUME NEW p, Procs = {p}, OneInv(p), status[p] = "up"
    PROVE  /\ pairingFile = State(pending[p], records[p])
           /\ CodesOK(pending[p], drawn, wrong) /\ NoneRetired(records[p])
           /\ pending[p] \subseteq Pending /\ records[p] \subseteq Record
           /\ CodesOK(Live(p), drawn, wrong) /\ Live(p) \subseteq Pending
           /\ now \in Nat
<1>1. pairingFile = State(pending[p], records[p])
  BY DEF OneInv, OneOK, AgreeOK
<1>2. CodesOK(pending[p], drawn, wrong) /\ NoneRetired(records[p])
  BY <1>1, StateFields DEF OneInv, OneOK
<1>3. pending[p] \subseteq Pending /\ records[p] \subseteq Record /\ now \in Nat
  BY DEF OneInv, IInv, TablesInv, ProcessTypeOK
<1>4. Live(p) \subseteq pending[p]
  BY DEF Live
<1> QED BY <1>1, <1>2, <1>3, <1>4 DEF CodesOK

\* Writes that succeed leave in the file what the call left in the memory.
LEMMA Written ==
    ASSUME NEW p, Procs = {p}, MayLoseWrites = FALSE, OneInv(p), status[p] = "up",
           NEW pend, NEW recs,
           \/ Store(p, pend, recs)
           \/ Commit(p, pend, recs, Saved({pairingFile}, State(pend, recs)))
           \/ SweepOnly(p) /\ pend = Live(p) /\ recs = records[p]
    PROVE  pending'[p] = pend /\ records'[p] = recs /\ pairingFile' = State(pend, recs)
<1>1. pending \in [{p} -> SUBSET Pending] /\ records \in [{p} -> SUBSET Record]
  BY DEF OneInv, IInv, TablesInv
<1>2. \A st, before : Saved(before, st) = {st}
  BY DEF Saved
<1>3. SweptFiles(p) = {State(Live(p), records[p])}
  BY <1>2, Remembered DEF SweptFiles
<1>4. PICK files : Commit(p, pend, recs, files) /\ files = {State(pend, recs)}
  BY <1>2, <1>3 DEF Store, SweepOnly
<1> QED BY <1>1, <1>4 DEF Commit

\* A call that leaves tables in order and writes them.
LEMMA OneStep ==
    ASSUME NEW p, status'[p] = "up",
           NEW pend, CodesOK(pend, drawn', wrong'), NEW recs, HandlesOf(recs) \cap retired' = {},
           pending'[p] = pend, records'[p] = recs, pairingFile' = State(pend, recs),
           CountsOK', AttemptsBounded', retired' \subseteq drawn'
    PROVE  OneOK(p)'
<1>1. pairingFile'.pending = pend /\ pairingFile'.records = recs
  BY StateFields
<1> QED BY <1>1 DEF OneOK, AgreeOK, NoneRetired

\* The sessions that are left, and codes for ids drawn since.
LEMMA CodesPart ==
    ASSUME NEW D, NEW E, D \subseteq E, NEW W, NEW pend, CodesOK(pend, D, W)
    PROVE  \A q \in SUBSET pend : CodesOK(q, E, W)
  BY DEF CodesOK

\* Sweeping, listing and refusing a completion.
LEMMA SweepOne ==
    ASSUME NEW p, Procs = {p}, MayLoseWrites = FALSE, OneInv(p), Serving(p),
           SweepOnly(p), UNCHANGED <<drawn, wrong, retired>>
    PROVE  OneOK(p)'
<1>1. status[p] = "up" /\ status'[p] = "up"
  BY DEF Serving
<1>2. /\ pending'[p] = Live(p) /\ records'[p] = records[p]
      /\ pairingFile' = State(Live(p), records[p])
  BY <1>1, Written
<1>3. CodesOK(Live(p), drawn', wrong') /\ HandlesOf(records[p]) \cap retired' = {}
  BY <1>1, Remembered DEF NoneRetired
<1>4. CountsOK' /\ AttemptsBounded' /\ retired' \subseteq drawn'
  BY DEF OneInv, OneOK, CountsOK, AttemptsBounded
<1> QED BY <1>1, <1>2, <1>3, <1>4, OneStep

\* A code for a new id: no proof was compared with it yet.
LEMMA BeginOne ==
    ASSUME NEW p, Procs = {p}, MayLoseWrites = FALSE, OneInv(p), Serving(p),
           NEW peer \in Peers, NEW h, NEW id \in SessionIds,
           BeginPairing(p, peer, h, id)
    PROVE  OneOK(p)'
<1> DEFINE new == [id |-> id, peer |-> peer, expiresAt |-> now + CodeTTL,
                   attempts |-> 0, nextAllowedAt |-> now, supersedes |-> h]
           pend == Live(p) \cup {new}
<1>1. status[p] = "up" /\ status'[p] = "up"
  BY DEF Serving
<1>2. /\ id \notin drawn /\ drawn' = drawn \cup {id} /\ UNCHANGED <<wrong, retired>>
      /\ Store(p, pend, records[p])
  BY DEF BeginPairing
<1>3. pending'[p] = pend /\ records'[p] = records[p] /\ pairingFile' = State(pend, records[p])
  <2> HIDE DEF pend
  <2> QED BY <1>1, <1>2, Written
<1>4. CodesOK(pend, drawn', wrong')
  <2>1. CodesOK(Live(p), drawn', wrong') /\ \A s \in Live(p) : s.id # id
    BY <1>1, <1>2, Remembered, CodesPart DEF CodesOK
  <2>2. new.id = id /\ new.attempts = 0 /\ wrong'[id].count = 0 /\ 0 < MaxAttempts
    BY <1>2, PairingAssumption DEF OneInv, OneOK, CountsOK
  <2> HIDE DEF new
  <2> QED BY <1>2, <2>1, <2>2 DEF CodesOK
<1>5. HandlesOf(records[p]) \cap retired' = {}
  BY <1>1, <1>2, Remembered DEF NoneRetired
<1>6. CountsOK' /\ AttemptsBounded' /\ retired' \subseteq drawn'
  BY <1>2 DEF OneInv, OneOK, CountsOK, AttemptsBounded
<1> HIDE DEF pend
<1> QED BY <1>1, <1>3, <1>4, <1>5, <1>6, OneStep

\* A wrong proof: the count of the code and of its session go up together, the
\* session is dropped at the limit, and the back-off starts now.
LEMMA WrongOne ==
    ASSUME NEW p, Procs = {p}, MayLoseWrites = FALSE, OneInv(p), Serving(p),
           NEW peer \in Peers, NEW id \in SessionIds, CompleteWrong(p, id, peer)
    PROVE  OneOK(p)'
<1>1. PICK s \in Admissible(p, id, peer) :
        /\ Store(p, Without(Live(p), id) \cup AfterWrong(s), records[p])
        /\ wrong' = [wrong EXCEPT ![id] = [count |-> OneMore(@.count), at |-> now]]
        /\ UNCHANGED <<drawn, retired>>
  BY DEF CompleteWrong
<1> DEFINE pend == Without(Live(p), id) \cup AfterWrong(s)
<1>2. status[p] = "up" /\ status'[p] = "up"
  BY DEF Serving
<1>3. pending'[p] = pend /\ records'[p] = records[p] /\ pairingFile' = State(pend, records[p])
  <2> Store(p, pend, records[p])
    BY <1>1
  <2> HIDE DEF pend
  <2> QED BY <1>2, Written
<1>4. /\ s \in Live(p) /\ s.id = id /\ s \in Pending /\ s.attempts \in Nat
      /\ CodesOK(Live(p), drawn, wrong) /\ Live(p) \subseteq Pending /\ now \in Nat
  BY <1>2, Remembered DEF Admissible, Pending
<1>5. s.attempts = wrong[id].count /\ s.attempts < MaxAttempts /\ id \in drawn
  BY <1>4 DEF CodesOK
<1>6. /\ wrong'[id].count = s.attempts + 1 /\ wrong'[id].at = now
      /\ \A i \in SessionIds : i # id => wrong'[i] = wrong[i]
  BY <1>1, <1>4, <1>5, PairingAssumption DEF OneMore, OneInv, IInv, HistoryOK
<1>7. CodesOK(Without(Live(p), id), drawn', wrong')
  BY <1>1, <1>4, <1>6 DEF CodesOK, Without, Pending
<1>8. CodesOK(AfterWrong(s), drawn', wrong') /\ \A r \in AfterWrong(s) : r.id = id
  <2>1. CASE s.attempts + 1 >= MaxAttempts
    BY <2>1 DEF AfterWrong, CodesOK
  <2>2. CASE ~(s.attempts + 1 >= MaxAttempts)
    <3>1. /\ Retry(s).id = id /\ Retry(s).attempts = s.attempts + 1
          /\ Retry(s).nextAllowedAt = now + RetryAfter(s.attempts + 1)
      BY <1>4 DEF Retry, Pending
    <3>2. RetryAfter(s.attempts + 1) \in Nat
      <4>1. s.attempts + 1 \in 1..MaxAttempts
        BY <1>4, <2>2, PairingAssumption
      <4> QED BY <4>1, PairingAssumption DEF RetryAfter
    <3>3. AfterWrong(s) = {Retry(s)}
      BY <2>2 DEF AfterWrong
    <3>4. Retry(s).nextAllowedAt >= wrong'[id].at + RetryAfter(s.attempts + 1)
      BY <1>4, <1>6, <3>1, <3>2
    <3>5. s.attempts + 1 < MaxAttempts
      BY <1>4, <2>2, PairingAssumption
    <3> QED BY <1>1, <1>5, <1>6, <3>1, <3>3, <3>4, <3>5 DEF CodesOK
  <2> QED BY <2>1, <2>2
<1>9. CodesOK(pend, drawn', wrong')
  BY <1>7, <1>8 DEF CodesOK, Without
<1>10. CountsOK' /\ AttemptsBounded' /\ retired' \subseteq drawn'
  BY <1>1, <1>4, <1>5, <1>6, PairingAssumption DEF OneInv, OneOK, CountsOK, AttemptsBounded
<1>11. HandlesOf(records[p]) \cap retired' = {}
  BY <1>1, <1>2, Remembered DEF NoneRetired
<1> HIDE DEF pend
<1> QED BY <1>2, <1>3, <1>9, <1>10, <1>11, OneStep

\* A right proof: the handle that is superseded is retired and leaves the table.
LEMMA RightOne ==
    ASSUME NEW p, Procs = {p}, MayLoseWrites = FALSE, OneInv(p), Serving(p),
           NEW peer \in Peers, NEW id \in SessionIds, NEW h \in Handles,
           CompleteRight(p, id, peer, h)
    PROVE  OneOK(p)'
<1>1. PICK s \in Admissible(p, id, peer) :
        /\ h \in Handles \ drawn
        /\ Store(p,
                 Without(Live(p), id),
                 Replacing(records[p],
                           [handle |-> h, peer |-> peer, rotatedFrom |-> s.supersedes]))
        /\ drawn' = drawn \cup {h}
        /\ retired' = retired \cup (HandlesOf(records[p]) \cap {s.supersedes})
        /\ UNCHANGED wrong
  BY DEF CompleteRight
<1> DEFINE pend == Without(Live(p), id)
           new == [handle |-> h, peer |-> peer, rotatedFrom |-> s.supersedes]
           kept == {r \in records[p] : r.handle # s.supersedes}
           recs == kept \cup {new}
<1>2. status[p] = "up" /\ status'[p] = "up"
  BY DEF Serving
<1>3. pending'[p] = pend /\ records'[p] = recs /\ pairingFile' = State(pend, recs)
  <2> Store(p, pend, recs)
    BY <1>1 DEF Replacing
  <2> HIDE DEF pend, recs
  <2> QED BY <1>2, Written
<1>4. CodesOK(pend, drawn', wrong')
  BY <1>1, <1>2, Remembered, CodesPart DEF Without
<1>5. s.supersedes \in drawn \cup {NoHandle} /\ s.supersedes \in Handles \cup {NoHandle}
  <2>1. s \in pending[p] /\ PendingOK(pending[p], drawn)
    BY DEF Admissible, Live, OneInv, IInv, TablesInv
  <2> QED BY <2>1 DEF PendingOK, Pending
<1>6. HandlesOf(records[p]) \subseteq Handles
  BY <1>2, Remembered DEF HandlesOf, Record
<1>7. retired' \subseteq drawn'
  BY <1>1, <1>5, <1>6, PairingAssumption DEF OneInv, OneOK
<1>8. HandlesOf(recs) \cap retired' = {}
  <2>1. HandlesOf(recs) = HandlesOf(kept) \cup {h}
    <3> new.handle = h
      OBVIOUS
    <3> HIDE DEF kept, new
    <3> QED BY HandlesOfMore
  <2>2. HandlesOf(kept) \subseteq HandlesOf(records[p]) \ {s.supersedes}
    BY DEF HandlesOf
  <2>3. h \notin retired'
    BY <1>1, <1>5, <1>6, PairingAssumption DEF OneInv, OneOK
  <2> HIDE DEF recs
  <2> QED BY <1>1, <1>2, <2>1, <2>2, <2>3, Remembered DEF NoneRetired
<1>9. CountsOK' /\ AttemptsBounded'
  BY <1>1 DEF OneInv, OneOK, CountsOK, AttemptsBounded
<1> HIDE DEF pend, recs
<1> QED BY <1>2, <1>3, <1>4, <1>7, <1>8, <1>9, OneStep

\* A revoked handle leaves the table and the file in one write.
LEMMA RevokeOne ==
    ASSUME NEW p, Procs = {p}, MayLoseWrites = FALSE, OneInv(p), Serving(p),
           NEW h \in KnownHandles, RevokePairing(p, h)
    PROVE  OneOK(p)'
<1> DEFINE left == {r \in records[p] : r.handle # h}
<1>1. status[p] = "up" /\ status'[p] = "up"
  BY DEF Serving
<1>2. /\ Commit(p, pending[p], left, Saved({pairingFile}, State(pending[p], left)))
      /\ retired' = retired \cup {h} /\ UNCHANGED <<drawn, wrong>>
  BY DEF RevokePairing
<1>3. pending'[p] = pending[p] /\ records'[p] = left /\ pairingFile' = State(pending[p], left)
  <2> HIDE DEF left
  <2> QED BY <1>1, <1>2, Written
<1>4. HandlesOf(left) \cap retired' = {}
  BY <1>1, <1>2, Remembered DEF NoneRetired, HandlesOf
<1>5. CodesOK(pending[p], drawn', wrong')
  BY <1>1, <1>2, Remembered
<1>6. CountsOK' /\ AttemptsBounded' /\ retired' \subseteq drawn'
  BY <1>2 DEF OneInv, OneOK, CountsOK, AttemptsBounded, KnownHandles
<1> HIDE DEF left
<1> QED BY <1>1, <1>3, <1>4, <1>5, <1>6, OneStep

\* A handle that was just drawn is not a retired one.
LEMMA AutoOne ==
    ASSUME NEW p, Procs = {p}, MayLoseWrites = FALSE, OneInv(p), Serving(p),
           NEW peer \in Peers, NEW h \in Handles, AutoPair(p, peer, h)
    PROVE  OneOK(p)'
<1> DEFINE new == [handle |-> h, peer |-> peer, rotatedFrom |-> NoHandle]
           recs == records[p] \cup {new}
<1>1. status[p] = "up" /\ status'[p] = "up"
  BY DEF Serving
<1>2. /\ Commit(p, pending[p], recs, Saved({pairingFile}, State(pending[p], recs)))
      /\ h \notin drawn /\ drawn' = drawn \cup {h} /\ UNCHANGED <<wrong, retired>>
  BY DEF AutoPair
<1>3. pending'[p] = pending[p] /\ records'[p] = recs /\ pairingFile' = State(pending[p], recs)
  <2> HIDE DEF recs
  <2> QED BY <1>1, <1>2, Written
<1>4. HandlesOf(recs) \cap retired' = {}
  <2>1. HandlesOf(recs) = HandlesOf(records[p]) \cup {h}
    <3> new.handle = h
      OBVIOUS
    <3> HIDE DEF new
    <3> QED BY HandlesOfMore
  <2> HIDE DEF recs
  <2> QED BY <1>1, <1>2, <2>1, Remembered DEF NoneRetired, OneInv, OneOK
<1>5. CodesOK(pending[p], drawn', wrong')
  BY <1>1, <1>2, Remembered, CodesPart
<1>6. CountsOK' /\ AttemptsBounded' /\ retired' \subseteq drawn'
  BY <1>2 DEF OneInv, OneOK, CountsOK, AttemptsBounded
<1> HIDE DEF recs
<1> QED BY <1>1, <1>3, <1>4, <1>5, <1>6, OneStep

LEMMA ServeOne ==
    ASSUME NEW p, Procs = {p}, MayLoseWrites = FALSE, OneInv(p), PServe(p)
    PROVE  OneOK(p)'
<1>1. Serving(p)
  BY DEF PServe
<1>2. ASSUME NEW peer \in Peers, NEW h, NEW id \in SessionIds, BeginPairing(p, peer, h, id)
      PROVE  OneOK(p)'
  BY <1>1, <1>2, BeginOne
<1>3. ASSUME NEW peer \in Peers, NEW id \in SessionIds, CompleteRefused(p, id, peer)
      PROVE  OneOK(p)'
  BY <1>1, <1>3, SweepOne DEF CompleteRefused
<1>4. CASE ListPairings(p)
  BY <1>1, <1>4, SweepOne DEF ListPairings
<1> QED BY <1>1, <1>2, <1>3, <1>4, WrongOne, RightOne, RevokeOne, AutoOne DEF PServe, RotatePairing

LEMMA NextOne ==
    ASSUME NEW p, Procs = {p}, MayLoseWrites = FALSE, OneInv(p), [PNext]_pvars
    PROVE  OneInv(p)'
<1>1. SUFFICES OneOK(p)'
  BY NextInv DEF OneInv
<1>2. /\ pending \in [{p} -> SUBSET Pending] /\ records \in [{p} -> SUBSET Record]
      /\ status \in [{p} -> Statuses]
  BY DEF OneInv, IInv, TablesInv, ProcessTypeOK
<1>3. ASSUME UNCHANGED pairingVars, status'[p] = "up" <=> status[p] = "up"
      PROVE  OneOK(p)'
  BY <1>3 DEF OneInv, OneOK, pairingVars, AgreeOK, CountsOK, AttemptsBounded, NoneRetired
<1>4. CASE UNCHANGED pvars
  BY <1>3, <1>4 DEF pvars
<1>5. CASE PTick
  BY <1>3, <1>5 DEF PTick, Advance
<1>6. CASE PStart(p)
  BY <1>2, <1>3, <1>6 DEF PStart, Move
<1>7. CASE PBuild(p)
  <2> DEFINE live == {s \in pairingFile.pending : s.expiresAt > now}
             recs == pairingFile.records
  <2>1. status'[p] = "up" /\ UNCHANGED <<drawn, wrong, retired>>
    BY <1>2, <1>7 DEF PBuild, Move, BuildPairing
  <2>2. Commit(p, live, recs, Saved({pairingFile}, State(live, recs)))
    BY <1>7 DEF PBuild, BuildPairing
  <2>3. pending'[p] = live /\ records'[p] = recs /\ pairingFile' = State(live, recs)
    <3> HIDE DEF live, recs
    <3> QED BY <1>2, <2>2 DEF Commit, Saved
  <2>4. CodesOK(live, drawn', wrong') /\ HandlesOf(recs) \cap retired' = {}
    BY <2>1, CodesPart DEF OneInv, OneOK, NoneRetired
  <2>5. CountsOK' /\ AttemptsBounded' /\ retired' \subseteq drawn'
    BY <2>1 DEF OneInv, OneOK, CountsOK, AttemptsBounded
  <2> HIDE DEF live, recs
  <2> QED BY <2>1, <2>3, <2>4, <2>5, OneStep
<1>8. CASE PStop(p)
  BY <1>2, <1>8 DEF PStop, Exit, DropPairing, OneInv, OneOK, AgreeOK, CountsOK,
                    AttemptsBounded, NoneRetired
<1> QED BY <1>4, <1>5, <1>6, <1>7, <1>8, ServeOne DEF PNext

LEMMA InitOne == ASSUME NEW p, p \in Procs, PInit PROVE OneInv(p)
<1>1. IInv
  BY InitInv
<1>2. pairingFile.pending = {} /\ pairingFile.records = {}
  BY StateFields DEF PInit, PairingInit
<1>3. AgreeOK(p)
  BY DEF PInit, PairingInit, ProcessInit, AgreeOK
<1>4. CountsOK /\ AttemptsBounded /\ retired \subseteq drawn
  BY PairingAssumption DEF PInit, PairingInit, CountsOK, AttemptsBounded
<1> QED BY <1>1, <1>2, <1>3, <1>4 DEF OneInv, OneOK, CodesOK, NoneRetired, HandlesOf

\* The whole back-off has passed when one more proof is compared.
LEMMA BackoffStep ==
    ASSUME NEW p, Procs = {p}, OneInv(p), [PNext]_pvars, NEW id \in SessionIds,
           wrong[id].count > 0, wrong'[id].count > wrong[id].count
    PROVE  now >= wrong[id].at + RetryAfter(wrong[id].count)
<1>1. wrong \in [SessionIds -> [count: Nat, at: Nat]] /\ wrong' # wrong
  BY DEF OneInv, IInv, HistoryOK
<1>2. PServe(p)
  BY <1>1 DEF PNext, pvars, PTick, PStart, PBuild, PStop, BuildPairing, DropPairing, pairingVars
<1>3. PICK peer \in Peers, i \in SessionIds : CompleteWrong(p, i, peer)
  BY <1>1, <1>2 DEF PServe, BeginPairing, RotatePairing, CompleteRefused, CompleteRight,
                    ListPairings, RevokePairing, AutoPair
<1>4. i = id
  BY <1>1, <1>3 DEF CompleteWrong
<1>5. PICK s \in Live(p) : s.id = id /\ s.nextAllowedAt <= now
  BY <1>3, <1>4 DEF CompleteWrong, Admissible
<1>6. CodesOK(Live(p), drawn, wrong) /\ Live(p) \subseteq Pending /\ now \in Nat
  BY <1>2, Remembered DEF PServe, Serving
<1>7. s.attempts = wrong[id].count /\ s.nextAllowedAt >= wrong[id].at + RetryAfter(s.attempts)
  BY <1>5, <1>6 DEF CodesOK
<1>8. RetryAfter(s.attempts) \in Nat
  <2>1. s.attempts \in 1..MaxAttempts
    BY <1>1, <1>5, <1>6, <1>7, PairingAssumption DEF CodesOK, Pending
  <2> QED BY <2>1, PairingAssumption DEF RetryAfter
<1> QED BY <1>1, <1>5, <1>6, <1>7, <1>8 DEF Pending

---------------------------------------------------------------------------
\* The tables, the file and the histories keep their shape.
THEOREM PairingTypes == PSpec => []PTypeOK
  BY InitInv, NextInv, InvImplies, PTL DEF PSpec

\* No copy of the tables ever holds a handle beside the one that superseded it,
\* for any number of processes overwriting each other's file and losing writes.
THEOREM RotationIsExclusive == PSpec => []RotationExclusive
  BY InitInv, NextInv, InvImplies, PTL DEF PSpec

\* A handle that was revoked or superseded is in no table of a process that
\* serves, across restarts, when it is the only one and its writes succeed.
THEOREM RetiredForGood ==
    ASSUME NEW p, Procs = {p}, MayLoseWrites = FALSE
    PROVE  PSpec => []RetiredStaysRetired
<1>1. PInit => OneInv(p)
  BY InitOne
<1>2. OneInv(p) /\ [PNext]_pvars => OneInv(p)'
  BY NextOne
<1>3. OneInv(p) => RetiredStaysRetired
  <2>1. OneInv(p) => HandlesOf(records[p]) \cap retired = {}
    BY Remembered DEF OneInv, OneOK, AgreeOK, NoneRetired, HandlesOf
  <2> QED BY <2>1 DEF RetiredStaysRetired
<1> QED BY <1>1, <1>2, <1>3, PTL DEF PSpec

\* Under the same conditions no more than MaxAttempts wrong proofs are ever
\* compared with one code.
THEOREM GuessesBounded ==
    ASSUME NEW p, Procs = {p}, MayLoseWrites = FALSE
    PROVE  PSpec => []AttemptsBounded
<1>1. PInit => OneInv(p)
  BY InitOne
<1>2. OneInv(p) /\ [PNext]_pvars => OneInv(p)'
  BY NextOne
<1>3. OneInv(p) => AttemptsBounded
  BY DEF OneInv, OneOK
<1> QED BY <1>1, <1>2, <1>3, PTL DEF PSpec

\* Under the same conditions no proof is compared before the back-off of the
\* wrong ones has passed.
THEOREM BackoffKept ==
    ASSUME NEW p, Procs = {p}, MayLoseWrites = FALSE
    PROVE  PSpec => BackoffHonoured
<1>1. PInit => OneInv(p)
  BY InitOne
<1>2. OneInv(p) /\ [PNext]_pvars => OneInv(p)'
  BY NextOne
<1>3. OneInv(p) /\ [PNext]_pvars =>
        [\A id \in SessionIds :
            (wrong[id].count > 0 /\ wrong'[id].count > wrong[id].count)
                => now >= wrong[id].at + RetryAfter(wrong[id].count)]_pvars
  BY BackoffStep
<1> QED BY <1>1, <1>2, <1>3, PTL DEF PSpec, BackoffHonoured


---------------------------------------------------------------------------
(* The handshake tables                                                    *)

ChallengesOK(recs, iss) ==
    /\ recs \subseteq Challenge
    /\ \A c \in recs : \E i \in iss : i.id = c.nonce /\ c.expiresAt = i.at + ChallengeTTL

SessionsOK(recs, grs) ==
    /\ recs \subseteq Session
    /\ \A s \in recs : \E g \in grs : g.token = s.token /\ s.expiresAt = g.at + SessionTTL

\* Nothing was issued or granted in the future.
PastOK == (\A i \in issued : i.at <= now) /\ (\A g \in grants : g.at <= now)

ChallengeTablesOK ==
    /\ \A p \in Procs : ChallengesOK(challenges[p], issued)
    /\ ChallengesOK(challengeFile, issued)

SessionTablesOK ==
    /\ \A p \in Procs : SessionsOK(sessions[p], grants)
    /\ SessionsOK(sessionFile, grants)

HandshakeInv ==
    /\ HTypeOK
    /\ ChallengeTablesOK
    /\ SessionTablesOK
    /\ PastOK
    /\ SessionsExpire
    /\ AnsweredInTime


\* The histories only grow, so a table that stems from them goes on doing so,
\* and so does every part of it.
LEMMA Grows ==
    ASSUME NEW D, NEW E, D \subseteq E
    PROVE  /\ \A recs : ChallengesOK(recs, D) => \A q \in SUBSET recs : ChallengesOK(q, E)
           /\ \A recs : SessionsOK(recs, D) => \A q \in SUBSET recs : SessionsOK(q, E)
  BY DEF ChallengesOK, SessionsOK

\* A step that writes one process's challenges, or no table of challenges.
LEMMA ChallengesStep ==
    ASSUME HTypeOK, ChallengeTablesOK, issued \subseteq issued',
           NEW p \in Procs, NEW recs, ChallengesOK(recs, issued'),
           challenges' = [challenges EXCEPT ![p] = recs],
           challengeFile' \in Saved({challengeFile}, recs) \cup {challengeFile}
    PROVE  /\ ChallengeTablesOK'
           /\ challenges' \in [Procs -> SUBSET Challenge]
           /\ challengeFile' \subseteq Challenge
<1>1. \A q : ChallengesOK(q, issued) => ChallengesOK(q, issued')
  BY Grows
<1>2. recs \subseteq Challenge
  BY DEF ChallengesOK
<1>3. challenges' \in [Procs -> SUBSET Challenge]
  BY <1>2 DEF HTypeOK
<1>4. \A q \in Procs : ChallengesOK(challenges'[q], issued')
  BY <1>1 DEF HTypeOK, ChallengeTablesOK
<1>5. ChallengesOK(challengeFile', issued')
  BY <1>1 DEF ChallengeTablesOK, Saved
<1> QED BY <1>3, <1>4, <1>5 DEF ChallengeTablesOK, ChallengesOK

\* The same for the session tables.
LEMMA SessionsStep ==
    ASSUME HTypeOK, SessionTablesOK, grants \subseteq grants',
           NEW p \in Procs, NEW recs, SessionsOK(recs, grants'),
           sessions' = [sessions EXCEPT ![p] = recs],
           sessionFile' \in Saved({sessionFile}, recs) \cup {sessionFile}
    PROVE  /\ SessionTablesOK'
           /\ sessions' \in [Procs -> SUBSET Session]
           /\ sessionFile' \subseteq Session
<1>1. \A q : SessionsOK(q, grants) => SessionsOK(q, grants')
  BY Grows
<1>2. recs \subseteq Session
  BY DEF SessionsOK
<1>3. sessions' \in [Procs -> SUBSET Session]
  BY <1>2 DEF HTypeOK
<1>4. \A q \in Procs : SessionsOK(sessions'[q], grants')
  BY <1>1 DEF HTypeOK, SessionTablesOK
<1>5. SessionsOK(sessionFile', grants')
  BY <1>1 DEF SessionTablesOK, Saved
<1> QED BY <1>3, <1>4, <1>5 DEF SessionTablesOK, SessionsOK

\* The sets a step starts from.
LEMMA Parts ==
    ASSUME ChallengeTablesOK, SessionTablesOK, NEW p \in Procs
    PROVE  /\ \A n : ChallengesOK(Others(p, n), issued)
           /\ ChallengesOK(Unexpired(challengeFile), issued)
           /\ SessionsOK(Unexpired(sessions[p]), grants)
           /\ SessionsOK(Unexpired(sessionFile), grants)
           /\ ChallengesOK({}, issued) /\ SessionsOK({}, grants)
<1>1. /\ \A n : Others(p, n) \subseteq challenges[p]
      /\ Unexpired(challengeFile) \subseteq challengeFile
      /\ Unexpired(sessions[p]) \subseteq sessions[p]
      /\ Unexpired(sessionFile) \subseteq sessionFile
  BY DEF Others, Unexpired
<1>2. ChallengesOK({}, issued) /\ SessionsOK({}, grants)
  BY DEF ChallengesOK, SessionsOK
<1> QED BY <1>1, <1>2, Grows DEF ChallengeTablesOK, SessionTablesOK

---------------------------------------------------------------------------
(* The operations.  `Quiet` is what most of them leave alone. *)

Quiet == UNCHANGED <<issued, grants, accepted>>

\* Only time and status move: what the histories say still holds.
LEMMA QuietOK ==
    ASSUME HandshakeInv, Quiet, ProcessTypeOK', now' \in Nat, now <= now'
    PROVE  /\ PastOK' /\ SessionsExpire' /\ AnsweredInTime'
           /\ issued' \subseteq [id: Nonces \cup Tokens, at: Nat]
           /\ grants' \subseteq Grant
           /\ accepted' \subseteq [token: Tokens, at: Nat]
<1>1. \A i \in issued : i.at \in Nat
  BY DEF HandshakeInv, HTypeOK
<1>2. \A g \in grants : g.at \in Nat
  BY DEF HandshakeInv, HTypeOK, Grant
<1>3. now \in Nat
  BY DEF HandshakeInv, HTypeOK, ProcessTypeOK
<1>4. PastOK'
  BY <1>1, <1>2, <1>3 DEF HandshakeInv, Quiet, PastOK
<1> QED BY <1>4 DEF HandshakeInv, Quiet, SessionsExpire, AnsweredInTime, HTypeOK

LEMMA CreateOK ==
    ASSUME HandshakeInv, NEW p \in Procs, NEW n \in Nonces, UNCHANGED <<now, status>>,
           CreateChallenge(p, n)
    PROVE  HandshakeInv'
<1> DEFINE new == [nonce |-> n, expiresAt |-> now + ChallengeTTL]
           recs == challenges[p] \cup {new}
           note == [id |-> n, at |-> now]
<1>1. now \in Nat
  BY DEF HandshakeInv, HTypeOK, ProcessTypeOK
<1>2. note \in issued' /\ issued' = issued \cup {note}
  BY DEF CreateChallenge
<1>3. ChallengesOK(recs, issued')
  <2>1. ChallengesOK(challenges[p], issued')
    BY <1>2, Grows DEF HandshakeInv, ChallengeTablesOK
  <2>2. ChallengesOK({new}, issued')
    <3>1. new \in Challenge
      BY <1>1, HandshakeAssumption DEF Challenge
    <3>2. note.id = new.nonce /\ new.expiresAt = note.at + ChallengeTTL
      OBVIOUS
    <3> HIDE DEF new, note
    <3> QED BY <1>2, <3>1, <3>2 DEF ChallengesOK
  <2> QED BY <2>1, <2>2 DEF ChallengesOK
<1>4. /\ ChallengeTablesOK'
      /\ challenges' \in [Procs -> SUBSET Challenge]
      /\ challengeFile' \subseteq Challenge
  <2> /\ challenges' = [challenges EXCEPT ![p] = recs]
      /\ challengeFile' \in Saved({challengeFile}, recs)
    BY DEF CreateChallenge, SetChallenges
  <2> HIDE DEF recs
  <2> QED BY <1>2, <1>3, ChallengesStep DEF HandshakeInv
<1>5. issued' \subseteq [id: Nonces \cup Tokens, at: Nat] /\ \A i \in issued' : i.at <= now
  BY <1>1, <1>2 DEF HandshakeInv, HTypeOK, PastOK
<1>6. SessionTablesOK' /\ PastOK' /\ SessionsExpire' /\ AnsweredInTime'
  BY <1>2, <1>5 DEF CreateChallenge, HandshakeInv, SessionTablesOK, PastOK, SessionsExpire,
     AnsweredInTime
<1>7. HTypeOK'
  BY <1>4, <1>5 DEF CreateChallenge, HandshakeInv, HTypeOK, ProcessTypeOK
<1> QED BY <1>4, <1>6, <1>7 DEF HandshakeInv

LEMMA ExpiredOK ==
    ASSUME HandshakeInv, NEW p \in Procs, NEW n \in Nonces, UNCHANGED <<now, status>>,
           VerifyExpired(p, n)
    PROVE  HandshakeInv'
<1>1. ChallengesOK(Others(p, n), issued')
  BY Parts DEF HandshakeInv, VerifyExpired
<1>2. /\ ChallengeTablesOK'
      /\ challenges' \in [Procs -> SUBSET Challenge]
      /\ challengeFile' \subseteq Challenge
  BY <1>1, ChallengesStep DEF HandshakeInv, VerifyExpired, SetChallenges
<1>3. SessionTablesOK'
  BY DEF HandshakeInv, VerifyExpired, SessionTablesOK
<1>4. ProcessTypeOK' /\ now' \in Nat /\ now <= now' /\ Quiet
  BY DEF HandshakeInv, HTypeOK, ProcessTypeOK, Quiet, VerifyExpired
<1>5. HTypeOK'
  BY <1>2, <1>4, QuietOK DEF HandshakeInv, HTypeOK, VerifyExpired
<1> QED BY <1>2, <1>3, <1>4, <1>5, QuietOK DEF HandshakeInv

\* A right answer in time: the challenge's expiry is that of its nonce, so the
\* grant is in time; the new session's expiry is that of the grant.
LEMMA VerifyOK ==
    ASSUME HandshakeInv, NEW p \in Procs, NEW n \in Nonces, NEW t \in Tokens,
           UNCHANGED <<now, status>>, Verify(p, n, t)
    PROVE  HandshakeInv'
<1> DEFINE new == [token |-> t, expiresAt |-> now + SessionTTL]
           recs == Unexpired(sessions[p]) \cup {new}
           note == [id |-> t, at |-> now]
           grant == [nonce |-> n, token |-> t, at |-> now]
<1>1. now \in Nat
  BY DEF HandshakeInv, HTypeOK, ProcessTypeOK
<1>2. issued' = issued \cup {note} /\ grants' = grants \cup {grant} /\ accepted' = accepted
  BY DEF Verify, Issue
<1>3. /\ ChallengeTablesOK'
      /\ challenges' \in [Procs -> SUBSET Challenge]
      /\ challengeFile' \subseteq Challenge
  <2>1. ChallengesOK(Others(p, n), issued)
    BY Parts DEF HandshakeInv
  <2>2. ChallengesOK(Others(p, n), issued')
    BY <1>2, <2>1, Grows
  <2> QED BY <1>2, <2>2, ChallengesStep DEF HandshakeInv, Verify, Consume, SetChallenges
<1>4. SessionsOK(recs, grants')
  <2>1. SessionsOK(Unexpired(sessions[p]), grants')
    <3>1. SessionsOK(Unexpired(sessions[p]), grants)
      BY Parts DEF HandshakeInv
    <3> QED BY <1>2, <3>1, Grows
  <2>2. SessionsOK({new}, grants')
    <3>1. new \in Session
      BY <1>1, HandshakeAssumption DEF Session
    <3>2. grant \in grants' /\ grant.token = new.token /\ new.expiresAt = grant.at + SessionTTL
      BY <1>2
    <3> HIDE DEF new, grant
    <3> QED BY <3>1, <3>2 DEF SessionsOK
  <2> QED BY <2>1, <2>2 DEF SessionsOK
<1>5. /\ SessionTablesOK'
      /\ sessions' \in [Procs -> SUBSET Session]
      /\ sessionFile' \subseteq Session
  <2> /\ sessions' = [sessions EXCEPT ![p] = recs]
      /\ sessionFile' \in Saved({sessionFile}, recs)
    BY DEF Verify, Issue
  <2> HIDE DEF recs
  <2> QED BY <1>2, <1>4, SessionsStep DEF HandshakeInv
<1>6. PastOK'
  BY <1>1, <1>2 DEF HandshakeInv, PastOK
<1>7. SessionsExpire'
  BY <1>2 DEF HandshakeInv, SessionsExpire
<1>8. AnsweredInTime'
  <2>1. PICK c \in challenges[p] : c.nonce = n /\ c.expiresAt > now
    BY DEF Verify, Consume, Awaited
  <2>2. PICK i \in issued : i.id = c.nonce /\ c.expiresAt = i.at + ChallengeTTL
    BY DEF HandshakeInv, ChallengeTablesOK, ChallengesOK
  <2>3. i.id = n /\ i.at <= now /\ now < i.at + ChallengeTTL
    BY <1>1, <2>1, <2>2, HandshakeAssumption DEF HandshakeInv, PastOK, HTypeOK
  <2>4. i \in issued'
    BY <1>2
  <2>5. \E j \in issued' : j.id = grant.nonce /\ j.at <= grant.at /\ grant.at < j.at + ChallengeTTL
    BY <2>3, <2>4
  <2>6. \A g \in grants : \E j \in issued' : j.id = g.nonce /\ j.at <= g.at /\ g.at < j.at + ChallengeTTL
    BY <1>2 DEF HandshakeInv, AnsweredInTime
  <2> HIDE DEF grant
  <2> QED BY <1>2, <2>5, <2>6 DEF AnsweredInTime
<1>9. HTypeOK'
  <2>1. issued' \subseteq [id: Nonces \cup Tokens, at: Nat] /\ grants' \subseteq Grant
    BY <1>1, <1>2 DEF HandshakeInv, HTypeOK, Grant
  <2>2. consumed' \in [Procs -> SUBSET Nonces]
    BY DEF HandshakeInv, HTypeOK, Verify, Consume
  <2> QED BY <1>2, <1>3, <1>5, <2>1, <2>2 DEF HandshakeInv, HTypeOK, ProcessTypeOK
<1> QED BY <1>3, <1>5, <1>6, <1>7, <1>8, <1>9 DEF HandshakeInv

\* The gate: what it accepts is in the process's own table and unexpired.
LEMMA ResolveOK ==
    ASSUME HandshakeInv, NEW p \in Procs, NEW t \in Tokens, UNCHANGED <<now, status>>,
           Resolve(p, t)
    PROVE  HandshakeInv'
<1> DEFINE recs == Unexpired(sessions[p])
<1>1. now \in Nat /\ SessionsOK(recs, grants)
  BY Parts DEF HandshakeInv, HTypeOK, ProcessTypeOK
<1>2. /\ SessionTablesOK'
      /\ sessions' \in [Procs -> SUBSET Session]
      /\ sessionFile' \subseteq Session
  <2>1. /\ sessions' = [sessions EXCEPT ![p] = recs]
        /\ sessionFile' \in Saved({sessionFile}, recs) \cup {sessionFile}
        /\ grants' = grants
    BY DEF Resolve, HandshakeInv, HTypeOK
  <2> HIDE DEF recs
  <2> QED BY <1>1, <2>1, SessionsStep DEF HandshakeInv
<1>3. ChallengeTablesOK' /\ PastOK' /\ AnsweredInTime'
  BY DEF Resolve, HandshakeInv, ChallengeTablesOK, PastOK, AnsweredInTime
<1>4. SessionsExpire' /\ accepted' \subseteq [token: Tokens, at: Nat]
  <2>1. CASE t \in TokensOf(recs)
    <3>1. PICK s \in recs : s.token = t /\ s.expiresAt > now
      BY <2>1 DEF TokensOf, Unexpired
    <3>2. PICK g \in grants : g.token = s.token /\ s.expiresAt = g.at + SessionTTL
      BY <1>1 DEF SessionsOK
    <3>3. g.at <= now /\ now < g.at + SessionTTL
      BY <1>1, <3>1, <3>2 DEF HandshakeInv, PastOK
    <3>4. accepted' = {[token |-> t, at |-> now]} /\ grants' = grants
      BY <2>1 DEF Resolve
    <3> QED BY <1>1, <3>1, <3>2, <3>3, <3>4 DEF SessionsExpire
  <2>2. CASE t \notin TokensOf(recs)
    BY <2>2 DEF Resolve, HandshakeInv, SessionsExpire, HTypeOK
  <2> QED BY <2>1, <2>2
<1>5. HTypeOK'
  BY <1>2, <1>4 DEF Resolve, HandshakeInv, HTypeOK, ProcessTypeOK
<1> QED BY <1>2, <1>3, <1>4, <1>5 DEF HandshakeInv

---------------------------------------------------------------------------
(* The process steps *)

LEMMA StartOK == ASSUME HandshakeInv, NEW p \in Procs, HStart(p) PROVE HandshakeInv'
<1>1. ProcessTypeOK' /\ now' = now /\ now \in Nat /\ Quiet
  BY DEF HStart, Move, BuildSessions, Quiet, HandshakeInv, HTypeOK, ProcessTypeOK,
     Statuses
<1>2. SessionsOK(Unexpired(sessionFile), grants')
  BY <1>1, Parts DEF HandshakeInv, Quiet
<1>3. /\ SessionTablesOK'
      /\ sessions' \in [Procs -> SUBSET Session]
      /\ sessionFile' \subseteq Session
  BY <1>1, <1>2, SessionsStep DEF HandshakeInv, HStart, BuildSessions, Quiet
<1>4. ChallengeTablesOK'
  BY DEF HStart, BuildSessions, HandshakeInv, ChallengeTablesOK
<1>5. PastOK' /\ SessionsExpire' /\ AnsweredInTime'
  BY <1>1, QuietOK
<1>6. HTypeOK'
  BY <1>1, <1>3, QuietOK DEF HStart, BuildSessions, HandshakeInv, HTypeOK
<1> QED BY <1>3, <1>4, <1>5, <1>6 DEF HandshakeInv

LEMMA BuildHandshake == ASSUME HandshakeInv, NEW p \in Procs, HBuild(p) PROVE HandshakeInv'
<1>1. ProcessTypeOK' /\ now' = now /\ now \in Nat /\ Quiet
  BY DEF HBuild, Move, BuildChallenges, Quiet, HandshakeInv, HTypeOK, ProcessTypeOK,
     Statuses
<1>2. ChallengesOK(Unexpired(challengeFile), issued')
  BY <1>1, Parts DEF HandshakeInv, Quiet
<1>3. /\ ChallengeTablesOK'
      /\ challenges' \in [Procs -> SUBSET Challenge]
      /\ challengeFile' \subseteq Challenge
  BY <1>1, <1>2, ChallengesStep DEF HandshakeInv, HBuild, BuildChallenges, Quiet
<1>4. SessionTablesOK'
  BY DEF HBuild, BuildChallenges, HandshakeInv, SessionTablesOK
<1>5. PastOK' /\ SessionsExpire' /\ AnsweredInTime'
  BY <1>1, QuietOK
<1>6. HTypeOK'
  BY <1>1, <1>3, QuietOK DEF HBuild, BuildChallenges, HandshakeInv, HTypeOK
<1> QED BY <1>3, <1>4, <1>5, <1>6 DEF HandshakeInv

\* The end of a process, regular or in the middle of a verification: both
\* forget the tables, and the challenge file may have been rewritten.
LEMMA EndOK ==
    ASSUME HandshakeInv, NEW p \in Procs, Exit(p),
           challenges' = [challenges EXCEPT ![p] = {}],
           consumed' = [consumed EXCEPT ![p] = {}],
           sessions' = [sessions EXCEPT ![p] = {}],
           UNCHANGED <<sessionFile, issued, grants, accepted>>,
           ChallengesOK(challengeFile', issued')
    PROVE  HandshakeInv'
<1>1. ProcessTypeOK' /\ now' = now /\ now \in Nat /\ Quiet
  BY DEF Exit, Quiet, HandshakeInv, HTypeOK, ProcessTypeOK, Statuses
<1>2. ChallengesOK({}, issued') /\ SessionsOK({}, grants')
  BY <1>1, Parts DEF HandshakeInv, Quiet
<1>3. /\ ChallengeTablesOK'
      /\ challenges' \in [Procs -> SUBSET Challenge]
      /\ challengeFile' \subseteq Challenge
  BY <1>1, <1>2 DEF HandshakeInv, ChallengeTablesOK, ChallengesOK, HTypeOK, Quiet
<1>4. SessionTablesOK' /\ sessions' \in [Procs -> SUBSET Session]
  BY <1>1, <1>2 DEF HandshakeInv, SessionTablesOK, HTypeOK, Quiet
<1>5. PastOK' /\ SessionsExpire' /\ AnsweredInTime'
  BY <1>1, QuietOK
<1>6. HTypeOK'
  BY <1>1, <1>3, <1>4, QuietOK DEF HandshakeInv, HTypeOK
<1> QED BY <1>3, <1>4, <1>5, <1>6 DEF HandshakeInv

LEMMA StopOK == ASSUME HandshakeInv, NEW p \in Procs, HStop(p) PROVE HandshakeInv'
<1>1. ChallengesOK(challengeFile', issued')
  BY DEF HStop, DropHandshake, HandshakeInv, ChallengeTablesOK
<1> QED BY <1>1, EndOK DEF HStop, DropHandshake

LEMMA DieOK == ASSUME HandshakeInv, NEW p \in Procs, HDie(p) PROVE HandshakeInv'
<1>1. PICK n \in Nonces : VerifyDies(p, n)
  BY DEF HDie
<1>2. ChallengesOK(challengeFile', issued')
  <2>1. ChallengesOK(Others(p, n), issued) /\ ChallengesOK(challengeFile, issued)
    BY Parts DEF HandshakeInv, ChallengeTablesOK
  <2>2. challengeFile' \in Saved({challengeFile}, Others(p, n)) /\ issued' = issued
    BY <1>1 DEF VerifyDies
  <2> QED BY <2>1, <2>2 DEF Saved
<1> QED BY <1>1, <1>2, EndOK DEF HDie, VerifyDies

LEMMA TickOK == ASSUME HandshakeInv, HTick PROVE HandshakeInv'
<1>1. ProcessTypeOK' /\ now' = now + 1 /\ now \in Nat /\ Quiet
  BY DEF HTick, Advance, Quiet, handshakeVars, HandshakeInv, HTypeOK, ProcessTypeOK
<1>2. PastOK' /\ SessionsExpire' /\ AnsweredInTime'
  BY <1>1, QuietOK
<1>3. ChallengeTablesOK' /\ SessionTablesOK' /\ HTypeOK'
  BY <1>1 DEF HTick, handshakeVars, HandshakeInv, HTypeOK, ChallengeTablesOK,
     SessionTablesOK
<1> QED BY <1>2, <1>3 DEF HandshakeInv

---------------------------------------------------------------------------
(* The invariant *)

LEMMA InitHandshake == HInit => HandshakeInv
<1> SUFFICES ASSUME HInit PROVE HandshakeInv
  OBVIOUS
<1>1. HTypeOK
  BY DEF HInit, ProcessInit, HandshakeInit, HTypeOK, ProcessTypeOK, Statuses
<1>2. ChallengeTablesOK /\ SessionTablesOK /\ PastOK
  BY DEF HInit, HandshakeInit, ChallengeTablesOK, SessionTablesOK, PastOK, ChallengesOK,
     SessionsOK
<1>3. SessionsExpire /\ AnsweredInTime
  BY DEF HInit, HandshakeInit, SessionsExpire, AnsweredInTime
<1> QED BY <1>1, <1>2, <1>3 DEF HandshakeInv

LEMMA ServeHandshake == ASSUME HandshakeInv, NEW p \in Procs, HServe(p) PROVE HandshakeInv'
<1>1. UNCHANGED <<now, status>>
  BY DEF HServe, Serving
<1>2. ASSUME NEW n \in Nonces, CreateChallenge(p, n) PROVE HandshakeInv'
  BY <1>1, <1>2, CreateOK
<1>3. ASSUME NEW n \in Nonces, VerifyExpired(p, n) PROVE HandshakeInv'
  BY <1>1, <1>3, ExpiredOK
<1>4. ASSUME NEW n \in Nonces, NEW t \in Tokens, Verify(p, n, t) PROVE HandshakeInv'
  BY <1>1, <1>4, VerifyOK
<1>5. ASSUME NEW t \in Tokens, Resolve(p, t) PROVE HandshakeInv'
  BY <1>1, <1>5, ResolveOK
<1> QED BY <1>2, <1>3, <1>4, <1>5 DEF HServe

LEMMA NextHandshake == HandshakeInv /\ [HNext]_hvars => HandshakeInv'
<1> SUFFICES ASSUME HandshakeInv, [HNext]_hvars PROVE HandshakeInv'
  OBVIOUS
<1>1. CASE UNCHANGED hvars
  BY <1>1 DEF hvars, handshakeVars, HandshakeInv, HTypeOK, ProcessTypeOK,
     ChallengeTablesOK,
              SessionTablesOK, PastOK, SessionsExpire, AnsweredInTime
<1>2. CASE HNext
  BY <1>2, TickOK, StartOK, BuildHandshake, StopOK, DieOK, ServeHandshake DEF HNext
<1> QED BY <1>1, <1>2

---------------------------------------------------------------------------
(* One process whose writes succeed.  Its memory and its files then tell   *)
(* the same: no used-up nonce waits in either, and every session that has  *)
(* not expired is in both while the process runs.                          *)

NoncesOf(recs) == {c.nonce : c \in recs}

\* The record a grant leaves in the session tables.
Issues(g) == [token |-> g.token, expiresAt |-> g.at + SessionTTL]

Current == {g \in grants : now < g.at + SessionTTL}

UsedUpOK(p) ==
    /\ \A g \in grants : g.nonce \notin NoncesOf(challenges[p]) \cup NoncesOf(challengeFile)
    /\ NonceOpensOneSession

KnownOK(p) ==
    \A g \in Current :
        /\ Issues(g) \in sessionFile
        /\ status[p] # "down" => Issues(g) \in sessions[p]

OneHandshakeInv(p) == HandshakeInv /\ UsedUpOK(p) /\ KnownOK(p)

\* A step that grants nothing and only takes challenges away.
LEMMA FewerChallenges ==
    ASSUME NEW p, UsedUpOK(p), UNCHANGED grants,
           challenges'[p] \subseteq challenges[p] \cup challengeFile,
           challengeFile' \subseteq challenges[p] \cup challengeFile
    PROVE  UsedUpOK(p)'
  BY DEF UsedUpOK, NoncesOf, NonceOpensOneSession

\* A step that grants nothing and drops expired sessions only.
LEMMA FewerSessions ==
    ASSUME NEW p, KnownOK(p), UNCHANGED grants, HandshakeInv, now' \in Nat, now <= now',
           \A s \in sessionFile : s.expiresAt > now' => s \in sessionFile',
           status'[p] # "down" =>
                \A s \in IF status[p] = "down" THEN sessionFile ELSE sessions[p] :
                    s.expiresAt > now' => s \in sessions'[p]
    PROVE  KnownOK(p)'
<1> SUFFICES ASSUME NEW g \in Current'
             PROVE  /\ Issues(g) \in sessionFile'
                    /\ status'[p] # "down" => Issues(g) \in sessions'[p]
  BY DEF KnownOK, Issues
<1>1. g \in Current /\ Issues(g).expiresAt > now'
  BY HandshakeAssumption DEF Current, Issues, HandshakeInv, HTypeOK, ProcessTypeOK, Grant
<1> QED BY <1>1 DEF KnownOK

\* A new nonce was never answered.
LEMMA CreateOne ==
    ASSUME NEW p, Procs = {p}, MayLoseWrites = FALSE, OneHandshakeInv(p), Serving(p),
           NEW n \in Nonces, CreateChallenge(p, n)
    PROVE  UsedUpOK(p)' /\ KnownOK(p)'
<1> DEFINE new == [nonce |-> n, expiresAt |-> now + ChallengeTTL]
           recs == challenges[p] \cup {new}
<1>1. \A g \in grants : g.nonce # n
  BY DEF OneHandshakeInv, HandshakeInv, AnsweredInTime, CreateChallenge, Issued
<1>2. challenges'[p] = recs /\ challengeFile' = recs /\ UNCHANGED grants
  BY DEF OneHandshakeInv, HandshakeInv, HTypeOK, CreateChallenge, SetChallenges, Saved
<1>3. NoncesOf(recs) = NoncesOf(challenges[p]) \cup {n}
  <2> new.nonce = n
    OBVIOUS
  <2> HIDE DEF new
  <2> QED BY DEF NoncesOf
<1>4. UsedUpOK(p)'
  <2>2. NoncesOf(challenges'[p]) = NoncesOf(recs) /\ NoncesOf(challengeFile') = NoncesOf(recs)
    BY <1>2
  <2> HIDE DEF recs
  <2> QED BY <1>1, <1>2, <1>3, <2>2 DEF UsedUpOK, OneHandshakeInv, NonceOpensOneSession
<1>5. KnownOK(p)'
  BY FewerSessions DEF OneHandshakeInv, HandshakeInv, HTypeOK, ProcessTypeOK, Serving,
     CreateChallenge
<1> QED BY <1>4, <1>5

\* A right answer uses its nonce up, in the memory and in the file.
LEMMA VerifyOne ==
    ASSUME NEW p, Procs = {p}, MayLoseWrites = FALSE, OneHandshakeInv(p), Serving(p),
           NEW n \in Nonces, NEW t \in Tokens, Verify(p, n, t)
    PROVE  UsedUpOK(p)' /\ KnownOK(p)'
<1> DEFINE new == [token |-> t, expiresAt |-> now + SessionTTL]
           grant == [nonce |-> n, token |-> t, at |-> now]
<1>1. /\ challenges'[p] = Others(p, n) /\ challengeFile' = Others(p, n)
      /\ sessions'[p] = Unexpired(sessions[p]) \cup {new}
      /\ sessionFile' = Unexpired(sessions[p]) \cup {new}
      /\ grants' = grants \cup {grant}
      /\ status[p] = "up" /\ UNCHANGED <<now, status>>
  BY DEF OneHandshakeInv, HandshakeInv, HTypeOK, Verify, Consume, Issue,
     SetChallenges, Saved, Serving
<1>2. n \in NoncesOf(challenges[p])
  BY DEF Verify, Consume, Awaited, NoncesOf
<1>3. \A g \in grants : g.nonce # n
  BY <1>2 DEF OneHandshakeInv, UsedUpOK
<1>4. /\ n \notin NoncesOf(Others(p, n))
      /\ NoncesOf(Others(p, n)) \subseteq NoncesOf(challenges[p])
  BY DEF NoncesOf, Others
<1>5. grant.nonce = n /\ grant.token = t /\ grant.at = now
  OBVIOUS
<1>6. UsedUpOK(p)'
  <2>1. /\ NoncesOf(challenges'[p]) = NoncesOf(Others(p, n))
        /\ NoncesOf(challengeFile') = NoncesOf(Others(p, n))
    BY <1>1
  <2> HIDE DEF grant
  <2> QED BY <1>1, <1>3, <1>4, <1>5, <2>1 DEF UsedUpOK, OneHandshakeInv, NonceOpensOneSession
<1>7. KnownOK(p)'
  <2> SUFFICES ASSUME NEW g \in Current'
               PROVE  Issues(g) \in Unexpired(sessions[p]) \cup {new}
    BY <1>1 DEF KnownOK, Issues
  <2>1. CASE g \in grants
    <3>1. g \in Current /\ Issues(g).expiresAt > now
      BY <1>1, <2>1 DEF Current, Issues, OneHandshakeInv, HandshakeInv, HTypeOK,
         ProcessTypeOK, Grant
    <3> QED BY <1>1, <3>1 DEF OneHandshakeInv, KnownOK, Unexpired
  <2>2. CASE g = grant
    BY <2>2 DEF Issues
  <2> QED BY <1>1, <2>1, <2>2 DEF Current
<1> QED BY <1>6, <1>7

LEMMA ServeOneHandshake ==
    ASSUME NEW p, Procs = {p}, MayLoseWrites = FALSE, OneHandshakeInv(p), HServe(p)
    PROVE  UsedUpOK(p)' /\ KnownOK(p)'
<1>1. Serving(p) /\ now \in Nat /\ now' = now /\ status' = status /\ status[p] = "up"
  BY DEF HServe, Serving, OneHandshakeInv, HandshakeInv, HTypeOK, ProcessTypeOK
<1>2. ASSUME NEW n \in Nonces, VerifyExpired(p, n) PROVE UsedUpOK(p)' /\ KnownOK(p)'
  <2>1. challenges'[p] \subseteq challenges[p] /\ challengeFile' \subseteq challenges[p]
    BY <1>2 DEF OneHandshakeInv, HandshakeInv, HTypeOK, VerifyExpired, SetChallenges,
       Others, Saved
  <2> QED BY <1>1, <1>2, <2>1, FewerChallenges, FewerSessions DEF OneHandshakeInv, VerifyExpired
<1>3. ASSUME NEW t \in Tokens, Resolve(p, t) PROVE UsedUpOK(p)' /\ KnownOK(p)'
  <2>1. UsedUpOK(p)'
    BY <1>3, FewerChallenges DEF OneHandshakeInv, Resolve
  <2>2. /\ sessions'[p] = Unexpired(sessions[p])
        /\ sessionFile' \in {sessionFile, Unexpired(sessions[p])}
        /\ UNCHANGED grants
    BY <1>3 DEF OneHandshakeInv, HandshakeInv, HTypeOK, Resolve, Saved
  <2>3. ASSUME NEW g \in Current PROVE Issues(g) \in Unexpired(sessions[p])
    BY <1>1 DEF OneHandshakeInv, KnownOK, Unexpired, Current, Issues
  <2>4. Current' = Current
    BY <1>1, <2>2 DEF Current
  <2> QED BY <1>1, <2>1, <2>2, <2>3, <2>4 DEF KnownOK, OneHandshakeInv, Issues
<1> QED BY <1>1, <1>2, <1>3, CreateOne, VerifyOne DEF HServe

LEMMA NextOneHandshake ==
    ASSUME NEW p, Procs = {p}, MayLoseWrites = FALSE, OneHandshakeInv(p), [HNext]_hvars
    PROVE  OneHandshakeInv(p)'
<1>1. SUFFICES UsedUpOK(p)' /\ KnownOK(p)'
  BY NextHandshake DEF OneHandshakeInv
<1>2. now \in Nat /\ p \in DOMAIN status /\ challenges \in [{p} -> SUBSET Challenge]
      /\ sessions \in [{p} -> SUBSET Session] /\ status \in [{p} -> Statuses]
  BY DEF OneHandshakeInv, HandshakeInv, HTypeOK, ProcessTypeOK
<1>3. ASSUME UNCHANGED handshakeVars, now' \in Nat, now <= now', status' = status
      PROVE  UsedUpOK(p)' /\ KnownOK(p)'
  BY <1>3, FewerChallenges, FewerSessions DEF OneHandshakeInv, handshakeVars
<1>4. CASE UNCHANGED hvars
  BY <1>2, <1>3, <1>4 DEF hvars
<1>5. CASE HTick
  BY <1>2, <1>3, <1>5 DEF HTick, Advance
<1>6. CASE HStart(p)
  BY <1>2, <1>6, FewerChallenges, FewerSessions
     DEF HStart, Move, BuildSessions, Unexpired, OneHandshakeInv
<1>7. CASE HBuild(p)
  <2>1. challenges'[p] \subseteq challengeFile /\ challengeFile' \subseteq challengeFile
    BY <1>2, <1>7 DEF HBuild, BuildChallenges, Unexpired, Saved
  <2>2. /\ status[p] = "starting" /\ status'[p] = "up" /\ now' = now
        /\ UNCHANGED <<sessions, sessionFile, grants>>
    BY <1>2, <1>7 DEF HBuild, Move, BuildChallenges
  <2> QED BY <1>2, <2>1, <2>2, FewerChallenges, FewerSessions DEF OneHandshakeInv
<1>8. ASSUME Exit(p), challenges'[p] = {}, challengeFile' \subseteq challenges[p] \cup challengeFile,
             UNCHANGED <<sessionFile, grants>>
      PROVE  UsedUpOK(p)' /\ KnownOK(p)'
  <2>1. status'[p] = "down" /\ now' = now
    BY <1>2, <1>8 DEF Exit
  <2> QED BY <1>2, <1>8, <2>1, FewerChallenges, FewerSessions DEF OneHandshakeInv
<1>9. CASE HStop(p)
  BY <1>2, <1>8, <1>9 DEF HStop, DropHandshake
<1>10. CASE HDie(p)
  BY <1>2, <1>8, <1>10 DEF HDie, VerifyDies, Others, Saved
<1>11. CASE HServe(p)
  BY <1>11, ServeOneHandshake
<1> QED BY <1>4, <1>5, <1>6, <1>7, <1>9, <1>10, <1>11 DEF HNext

LEMMA InitOneHandshake == ASSUME NEW p, HInit PROVE OneHandshakeInv(p)
  BY InitHandshake DEF OneHandshakeInv, UsedUpOK, KnownOK, Current, NonceOpensOneSession,
     HInit, HandshakeInit

---------------------------------------------------------------------------
\* The tables, the files and the histories keep their shape.
THEOREM HandshakeTypes == HSpec => []HTypeOK
<1>1. HandshakeInv => HTypeOK
  BY DEF HandshakeInv
<1> QED BY <1>1, InitHandshake, NextHandshake, PTL DEF HSpec

\* No process ever accepts a session SessionTTL or more after it was granted.
THEOREM SessionsDoExpire == HSpec => []SessionsExpire
<1>1. HandshakeInv => SessionsExpire
  BY DEF HandshakeInv
<1> QED BY <1>1, InitHandshake, NextHandshake, PTL DEF HSpec

\* No process ever grants a session for an answer given ChallengeTTL or more
\* after the challenge was created.
THEOREM AnswersAreInTime == HSpec => []AnsweredInTime
<1>1. HandshakeInv => AnsweredInTime
  BY DEF HandshakeInv
<1> QED BY <1>1, InitHandshake, NextHandshake, PTL DEF HSpec

\* A challenge opens at most one session when one process serves and its writes
\* succeed, across every restart and every crash inside a verification.
THEOREM NonceUsedOnce ==
    ASSUME NEW p, Procs = {p}, MayLoseWrites = FALSE
    PROVE  HSpec => []NonceOpensOneSession
<1>1. HInit => OneHandshakeInv(p)
  BY InitOneHandshake
<1>2. OneHandshakeInv(p) /\ [HNext]_hvars => OneHandshakeInv(p)'
  BY NextOneHandshake
<1>3. OneHandshakeInv(p) => NonceOpensOneSession
  BY DEF OneHandshakeInv, UsedUpOK
<1> QED BY <1>1, <1>2, <1>3, PTL DEF HSpec

\* Under the same conditions the process, once up, knows every session it ever
\* granted that has not expired.
THEOREM SessionsSurvive ==
    ASSUME NEW p, Procs = {p}, MayLoseWrites = FALSE
    PROVE  HSpec => []LiveSessionsKnown
<1>1. HInit => OneHandshakeInv(p)
  BY InitOneHandshake
<1>2. OneHandshakeInv(p) /\ [HNext]_hvars => OneHandshakeInv(p)'
  BY NextOneHandshake
<1>3. OneHandshakeInv(p) => LiveSessionsKnown
  <2>1. \A g, recs : Issues(g) \in recs => g.token \in TokensOf(recs)
    BY DEF Issues, TokensOf
  <2> QED BY <2>1 DEF OneHandshakeInv, KnownOK, Current, LiveSessionsKnown
<1> QED BY <1>1, <1>2, <1>3, PTL DEF HSpec

---------------------------------------------------------------------------
(* The composition                                                         *)

\* A deployment runs the handshake tables: its steps are theirs, or leave
\* them alone.
LEMMA HandshakeStep == [Next]_vars => [HNext]_hvars
<1> SUFFICES ASSUME [Next]_vars PROVE [HNext]_hvars
  OBVIOUS
<1>1. CASE UNCHANGED vars
  BY <1>1 DEF vars, hvars
<1>2. CASE Tick
  BY <1>2 DEF Tick, HNext, HTick
<1>3. ASSUME NEW p \in Procs, Start(p) \/ Build(p) \/ Stop(p) \/ Die(p) PROVE HNext
  BY <1>3 DEF Start, Build, Stop, Die, HNext, HStart, HBuild, HStop, HDie
<1>4. ASSUME NEW p \in Procs, Serve(p) PROVE [HNext]_hvars
  <2>1. Serving(p) /\ UNCHANGED <<now, status>>
    BY <1>4 DEF Serve, Serving
  <2>2. CASE Pair(p)
    BY <2>1, <2>2 DEF Pair, hvars
  <2>3. CASE HandleChallenge(p)
    BY <2>1, <2>3 DEF HandleChallenge, HNext, HServe
  <2>4. CASE HandleVerify(p)
    BY <2>1, <2>4 DEF HandleVerify, HNext, HServe
  <2>5. ASSUME NEW t \in Tokens \cap Issued, Refuse(p, t) \/ Admit(p, t) PROVE HNext
    BY <2>1, <2>5 DEF Refuse, Admit, HNext, HServe
  <2> QED BY <1>4, <2>2, <2>3, <2>4, <2>5 DEF Serve
<1> QED BY <1>1, <1>2, <1>3, <1>4 DEF Next

\* It runs the pairing tables likewise: a death inside a verification is an
\* exit to them.
LEMMA PairingStep == [Next]_vars => [PNext]_pvars
<1> SUFFICES ASSUME [Next]_vars PROVE [PNext]_pvars
  OBVIOUS
<1>1. CASE UNCHANGED vars
  BY <1>1 DEF vars, pvars
<1>2. CASE Tick
  BY <1>2 DEF Tick, PNext, PTick
<1>3. ASSUME NEW p \in Procs, Start(p) \/ Build(p) \/ Stop(p) \/ Die(p) PROVE PNext
  BY <1>3 DEF Start, Build, Stop, Die, PNext, PStart, PBuild, PStop
<1>4. ASSUME NEW p \in Procs, Serve(p) PROVE [PNext]_pvars
  <2>1. Serving(p) /\ UNCHANGED <<now, status>>
    BY <1>4 DEF Serve, Serving
  <2>2. CASE Pair(p)
    BY <2>1, <2>2 DEF Pair, PNext, PServe
  <2>3. CASE HandleChallenge(p) \/ HandleVerify(p) \/ \E t \in Tokens : Refuse(p, t)
    BY <2>1, <2>3 DEF HandleChallenge, HandleVerify, Refuse, pvars
  <2>4. ASSUME NEW t \in Tokens, Admit(p, t) PROVE PNext
    BY <2>1, <2>4 DEF Admit, PNext, PServe
  <2> QED BY <1>4, <2>2, <2>3, <2>4 DEF Serve
<1> QED BY <1>1, <1>2, <1>3, <1>4 DEF Next

\* What the handler's own histories say of the tables'.

TokensDrawnOnce ==
    /\ \A g \in grants : g.token \in Issued
    /\ \A g1, g2 \in grants : g1.token = g2.token => g1 = g2

\* A session was granted no later than its pairing was retired.
GrantedBefore ==
    \A l \in lineage : \E g \in grants :
        /\ g.token = l.token
        /\ \A r \in retiredAt : r.handle = l.handle => g.at <= r.at

RetirementsTimed == \A r \in retiredAt : r.handle \in retired

HistoriesTyped ==
    /\ lineage \subseteq [token: Tokens, handle: Handles]
    /\ retiredAt \subseteq [handle: Handles, at: Nat]

HistoriesOK ==
    /\ HistoriesTyped
    /\ TokensDrawnOnce
    /\ GrantedBefore
    /\ RetirementsTimed

\* What the handler's invariant rests on: the tables' invariants.
BothTablesInv == HandshakeInv /\ PTypeOK /\ RetiredStaysRetired

\* No step of the pairing tables takes a retirement back.
LEMMA RetiredGrows == [PNext]_pvars => retired \subseteq retired'
<1> SUFFICES ASSUME [PNext]_pvars
             PROVE  retired \subseteq retired'
  OBVIOUS
<1>1. CASE UNCHANGED pvars
  BY <1>1 DEF pvars, pairingVars
<1>2. CASE PTick
  BY <1>2 DEF PTick, pairingVars
<1>3. ASSUME NEW p \in Procs, PServe(p)
      PROVE  retired \subseteq retired'
  BY <1>3 DEF PServe, BeginPairing, RotatePairing, CompleteRefused, CompleteWrong,
              CompleteRight, ListPairings, RevokePairing, AutoPair
<1>4. ASSUME NEW p \in Procs, PStart(p) \/ PBuild(p) \/ PStop(p)
      PROVE  retired \subseteq retired'
  BY <1>4 DEF PStart, PBuild, PStop, BuildPairing, DropPairing, pairingVars
<1> QED  BY <1>1, <1>2, <1>3, <1>4 DEF PNext

\* A token is new when it is granted.
LEMMA TokensStep ==
    ASSUME HandshakeInv, TokensDrawnOnce, [HNext]_hvars
    PROVE  TokensDrawnOnce'
<1>1. \/ UNCHANGED grants
      \/ \E n \in Nonces, t \in Tokens, p \in Procs : Verify(p, n, t)
  BY DEF HNext, hvars, handshakeVars, HTick, HStart, BuildSessions, HBuild,
         BuildChallenges, HStop, DropHandshake, HDie, VerifyDies, HServe,
         CreateChallenge, VerifyExpired, Resolve
<1>2. issued \subseteq issued'
  BY DEF HNext, hvars, handshakeVars, HTick, HStart, BuildSessions, HBuild,
         BuildChallenges, HStop, DropHandshake, HDie, VerifyDies, HServe,
         CreateChallenge, VerifyExpired, Resolve, Verify, Issue
<1>3. Issued \subseteq Issued'
  BY <1>2 DEF Issued
<1>4. CASE UNCHANGED grants
  BY <1>3, <1>4 DEF TokensDrawnOnce
<1>5. ASSUME NEW n \in Nonces, NEW t \in Tokens, NEW p \in Procs, Verify(p, n, t)
      PROVE  TokensDrawnOnce'
  <2> DEFINE grant == [nonce |-> n, token |-> t, at |-> now]
  <2>1. t \notin Issued /\ grants' = grants \cup {grant}
    BY <1>5 DEF Verify, Issue
  <2>2. t \in Issued'
    <3>1. issued' = issued \cup {[id |-> t, at |-> now]}
      BY <1>5 DEF Verify, Issue
    <3>2. [id |-> t, at |-> now].id = t
      OBVIOUS
    <3> QED BY <3>1, <3>2 DEF Issued
  <2>3. grant.token = t
    OBVIOUS
  <2> HIDE DEF grant
  <2> QED BY <1>3, <2>1, <2>2, <2>3 DEF TokensDrawnOnce
<1> QED BY <1>1, <1>4, <1>5

\* Whatever the deployment, the histories keep their types.
LEMMA TypedStep ==
    ASSUME HandshakeInv, PTypeOK, PTypeOK', HistoriesTyped, [Next]_vars
    PROVE  HistoriesTyped'
<1>1. now \in Nat /\ retired' \subseteq Handles
  BY DEF HandshakeInv, HTypeOK, ProcessTypeOK, PTypeOK
<1>2. \/ UNCHANGED lineage
      \/ \E t \in Tokens, h \in KnownHandles :
            lineage' = lineage \cup {[token |-> t, handle |-> h]}
  BY DEF Next, vars, authVars, Tick, Start, Build, Stop, Die, Serve, Pair, HandleChallenge,
     HandleVerify,
         Refuse, Admit
<1>3. UNCHANGED retiredAt \/ NoteRetired
  BY DEF Next, vars, authVars, Tick, Start, Build, Stop, Die, Serve, Pair, HandleChallenge,
     HandleVerify,
         Refuse, Admit
<1>4. lineage' \subseteq [token: Tokens, handle: Handles]
  BY <1>2 DEF HistoriesTyped, KnownHandles
<1>5. retiredAt' \subseteq [handle: Handles, at: Nat]
  BY <1>1, <1>3 DEF HistoriesTyped, NoteRetired
<1> QED BY <1>4, <1>5 DEF HistoriesTyped

\* A step that opens no session but may retire pairings.
LEMMA RetireStep ==
    ASSUME BothTablesInv, HistoriesOK, TokensDrawnOnce', HistoriesTyped',
           retired \subseteq retired', NoteRetired, UNCHANGED <<lineage, grants>>
    PROVE  HistoriesOK'
<1>3. \A r \in retiredAt' : r \in retiredAt \/ (r.at = now /\ r.handle \in retired')
  BY DEF NoteRetired
<1>4. RetirementsTimed'
  BY <1>3 DEF HistoriesOK, RetirementsTimed
<1>5. GrantedBefore'
  BY <1>3 DEF HistoriesOK, GrantedBefore, BothTablesInv, HandshakeInv, PastOK
<1> QED BY <1>4, <1>5 DEF HistoriesOK

\* A step that does neither.
LEMMA IdleStep ==
    ASSUME HistoriesOK, TokensDrawnOnce', HistoriesTyped', retired \subseteq retired',
           UNCHANGED <<lineage, retiredAt, grants>>
    PROVE  HistoriesOK'
  BY DEF HistoriesOK, GrantedBefore, RetirementsTimed

\* The session opened belongs to a pairing that is not retired.
LEMMA OpensLive ==
    ASSUME NEW p \in Procs, BothTablesInv, HandleVerify(p)
    PROVE  \A l \in lineage' \ lineage : l.handle \in Handles /\ l.handle \notin retired
<1>1. PICK peer \in Peers, h \in KnownHandles, n \in Nonces :
        /\ ResolvesPairing(p, h, peer)
        /\ \/ UNCHANGED lineage
           \/ \E t \in Tokens : lineage' = lineage \cup {[token |-> t, handle |-> h]}
  BY DEF HandleVerify
<1>2. h \in Handles /\ h \notin retired
  BY <1>1 DEF KnownHandles, ResolvesPairing, HandlesOf, BothTablesInv, RetiredStaysRetired
<1> QED BY <1>1, <1>2

LEMMA VerifyStep ==
    ASSUME NEW p \in Procs, BothTablesInv, HistoriesOK, TokensDrawnOnce', HistoriesTyped',
           retired \subseteq retired', HandleVerify(p)
    PROVE  HistoriesOK'
<1>1. PICK h \in KnownHandles, n \in Nonces :
        \/ VerifyExpired(p, n) /\ UNCHANGED lineage
        \/ \E t \in Tokens :
             Verify(p, n, t) /\ lineage' = lineage \cup {[token |-> t, handle |-> h]}
  BY DEF HandleVerify
<1>2. UNCHANGED retiredAt
  BY DEF HandleVerify
<1>3. CASE VerifyExpired(p, n) /\ UNCHANGED lineage
  BY <1>2, <1>3, IdleStep DEF VerifyExpired
<1>4. ASSUME NEW t \in Tokens, Verify(p, n, t),
             lineage' = lineage \cup {[token |-> t, handle |-> h]}
      PROVE  HistoriesOK'
  <2> DEFINE grant == [nonce |-> n, token |-> t, at |-> now]
             l == [token |-> t, handle |-> h]
  <2>1. grants' = grants \cup {grant} /\ grant.token = t
    BY <1>4 DEF Verify
  <2>2. l.token = t /\ l.handle = h /\ h \in Handles
    BY DEF KnownHandles
  <2>3. l \in lineage => \E g \in grants : g.token = t
    BY <2>2 DEF HistoriesOK, GrantedBefore
  <2>4. l \notin lineage
    BY <1>4, <2>3 DEF Verify, Issue, HistoriesOK, TokensDrawnOnce
  <2>5. \A r \in retiredAt : r.handle # h
    BY <1>4, <2>2, <2>4, OpensLive DEF HistoriesOK, RetirementsTimed
  <2>6. GrantedBefore'
    <3> HIDE DEF grant, l
    <3> QED BY <1>2, <1>4, <2>1, <2>2, <2>5 DEF HistoriesOK, GrantedBefore, l
  <2> QED BY <1>2, <2>6 DEF HistoriesOK, RetirementsTimed
<1> QED BY <1>1, <1>3, <1>4

LEMMA HistoriesStep ==
    ASSUME BothTablesInv, HistoriesOK, PTypeOK', [Next]_vars
    PROVE  HistoriesOK'
<1>1. retired \subseteq retired' /\ TokensDrawnOnce' /\ HistoriesTyped'
  BY PairingStep, RetiredGrows, HandshakeStep, TokensStep, TypedStep DEF BothTablesInv,
     HistoriesOK
<1>2. CASE UNCHANGED <<lineage, retiredAt, grants>>
  BY <1>1, <1>2, IdleStep
<1>3. CASE UNCHANGED vars \/ Tick
  BY <1>2, <1>3 DEF vars, Tick, authVars, handshakeVars
<1>4. ASSUME NEW p \in Procs, Start(p) \/ Build(p) \/ Stop(p) \/ Die(p)
      PROVE  HistoriesOK'
  BY <1>2, <1>4 DEF Start, Build, Stop, Die, authVars, BuildSessions, BuildChallenges,
                    DropHandshake, VerifyDies
<1>5. ASSUME NEW p \in Procs, Serve(p) PROVE HistoriesOK'
  <2>1. CASE Pair(p)
    BY <1>1, <2>1, RetireStep DEF Pair, handshakeVars
  <2>2. CASE HandleChallenge(p)
    BY <1>2, <2>2 DEF HandleChallenge, authVars, CreateChallenge
  <2>3. CASE HandleVerify(p)
    BY <1>1, <2>3, VerifyStep
  <2>4. ASSUME NEW t, Refuse(p, t) PROVE HistoriesOK'
    BY <1>2, <2>4 DEF Refuse, authVars, Resolve
  <2>5. ASSUME NEW t, Admit(p, t) PROVE HistoriesOK'
    BY <1>1, <2>5, RetireStep DEF Admit, Resolve
  <2> QED BY <1>5, <2>1, <2>2, <2>3, <2>4, <2>5 DEF Serve
<1> QED BY <1>3, <1>4, <1>5 DEF Next

\* A session of a retired pairing was granted before the pairing was retired,
\* and its token was granted but once.
LEMMA TakesEffect ==
    ASSUME BothTablesInv, HistoriesOK
    PROVE  RevocationTakesEffect
<1> SUFFICES ASSUME NEW a \in accepted, NEW l \in lineage, NEW r \in retiredAt,
                    a.token = l.token, l.handle = r.handle
             PROVE  a.at < r.at + SessionTTL
  BY DEF RevocationTakesEffect
<1>1. PICK g \in grants : g.token = a.token /\ a.at < g.at + SessionTTL
  BY DEF BothTablesInv, HandshakeInv, SessionsExpire
<1>2. PICK d \in grants : d.token = l.token /\ d.at <= r.at
  BY DEF HistoriesOK, GrantedBefore
<1>3. g = d
  BY <1>1, <1>2 DEF HistoriesOK, TokensDrawnOnce
<1>4. a.at \in Nat /\ g.at \in Nat /\ r.at \in Nat
  BY DEF BothTablesInv, HandshakeInv, HTypeOK, Grant, HistoriesOK, HistoriesTyped
<1> QED BY <1>1, <1>2, <1>3, <1>4, HandshakeAssumption

LEMMA InitHistories == Init => PInit /\ HInit /\ HistoriesOK
<1> SUFFICES ASSUME Init PROVE PInit /\ HInit /\ HistoriesOK
  OBVIOUS
<1>1. PInit /\ HInit
  BY DEF Init, ProcessInit, PInit, HInit
<1>2. HistoriesOK
  BY DEF Init, HandshakeInit, HistoriesOK, HistoriesTyped, TokensDrawnOnce, GrantedBefore,
         RetirementsTimed
<1> QED BY <1>1, <1>2

---------------------------------------------------------------------------
\* A deployment implements both tables' specifications, so that what is proved
\* of each alone holds of them behind the handler, for any number of processes.
THEOREM PartsImplemented == Spec => PSpec /\ HSpec
<1>1. Init => PInit /\ HInit
  BY InitHistories
<1>2. [Next]_vars => [PNext]_pvars /\ [HNext]_hvars
  BY PairingStep, HandshakeStep
<1> QED BY <1>1, <1>2, PTL DEF Spec, PSpec, HSpec

\* The tables' types and the expiry of their copies, in any deployment.
LEMMA TablesTyped == Spec => []PTypeOK /\ []HandshakeInv
<1>1. HSpec => []HandshakeInv
  BY InitHandshake, NextHandshake, PTL DEF HSpec
<1> QED BY PartsImplemented, PairingTypes, <1>1, PTL

\* The types of both tables and of the handler's histories, for any number of
\* processes.
THEOREM TypeCorrect == Spec => []TypeOK
<1>1. Init => HistoriesTyped
  BY InitHistories DEF HistoriesOK
<1>2. HandshakeInv /\ PTypeOK /\ PTypeOK' /\ HistoriesTyped /\ [Next]_vars => HistoriesTyped'
  BY TypedStep
<1>3. HandshakeInv /\ PTypeOK /\ HistoriesTyped => TypeOK
  BY DEF HandshakeInv, HistoriesTyped, TypeOK
<1> QED BY TablesTyped, <1>1, <1>2, <1>3, PTL DEF Spec

\* The tables of one process whose writes succeed: what the composition's own
\* proof starts from.
LEMMA Tables ==
    ASSUME NEW p, Procs = {p}, MayLoseWrites = FALSE
    PROVE  Spec => []BothTablesInv
<1>1. PSpec => []RetiredStaysRetired
  BY RetiredForGood
<1>2. HandshakeInv /\ PTypeOK /\ RetiredStaysRetired => BothTablesInv
  BY DEF BothTablesInv
<1> QED BY PartsImplemented, TablesTyped, <1>1, <1>2, PTL

LEMMA Histories ==
    ASSUME NEW p, Procs = {p}, MayLoseWrites = FALSE
    PROVE  Spec => []HistoriesOK
<1>1. Init => HistoriesOK
  BY InitHistories
<1>2. BothTablesInv /\ BothTablesInv' /\ HistoriesOK /\ [Next]_vars => HistoriesOK'
  BY HistoriesStep DEF BothTablesInv
<1> QED BY Tables, <1>1, <1>2, PTL DEF Spec

\* A revoked or rotated-away handle opens no session in a deployment of one
\* process whose writes succeed, before or after any restart.
THEOREM RetiredNeverOpens ==
    ASSUME NEW p, Procs = {p}, MayLoseWrites = FALSE
    PROVE  Spec => RetiredOpensNothing
<1>1. BothTablesInv /\ [Next]_vars => [\A l \in lineage' \ lineage : l.handle \notin retired]_vars
  <2> SUFFICES ASSUME BothTablesInv, [Next]_vars
               PROVE  \A l \in lineage' \ lineage : l.handle \notin retired
    OBVIOUS
  <2>1. UNCHANGED lineage \/ \E q \in Procs : HandleVerify(q)
    BY DEF Next, vars, authVars, Tick, Start, Build, Stop, Die, Serve, Pair, HandleChallenge,
           Refuse, Admit
  <2> QED BY <2>1, OpensLive
<1> QED BY Tables, <1>1, PTL DEF Spec, RetiredOpensNothing

\* Under the same conditions the gate accepts no session SessionTTL or more
\* after the pairing it was granted on was revoked or rotated away.
THEOREM RevokedRunsOut ==
    ASSUME NEW p, Procs = {p}, MayLoseWrites = FALSE
    PROVE  Spec => []RevocationTakesEffect
<1>1. BothTablesInv /\ HistoriesOK => RevocationTakesEffect
  BY TakesEffect
<1> QED BY Tables, Histories, <1>1, PTL

=============================================================================
