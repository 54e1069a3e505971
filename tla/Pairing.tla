------------------------------ MODULE Pairing ------------------------------
(***************************************************************************)
(* PairingManager of the bridge (apps/bridge/src/session/pairing.ts): the  *)
(* pending one-time-code sessions and the pairing records, kept in the     *)
(* memory of every bridge process and written, both tables together, to    *)
(* one state file.                                                         *)
(*                                                                         *)
(* Session ids and handles are random 128-bit strings, drawn here from a   *)
(* finite supply of fresh ones; a peer is an (extensionId, hostName) pair; *)
(* a proof is right or wrong for the session's one-time code.              *)
(***************************************************************************)
EXTENDS BridgeProcess

CONSTANTS
    Peers, SessionIds, Handles,
    NoHandle,       \* "no superseded handle"
    CodeTTL, MaxAttempts, BackoffBase

ASSUME PairingAssumption ==
    /\ NoHandle \notin Handles
    /\ CodeTTL \in Nat \ {0}
    /\ MaxAttempts \in Nat \ {0}
    /\ \A n \in 1..MaxAttempts : BackoffBase * 2^(n - 1) \in Nat

VARIABLES
    pending,        \* [Procs -> set of pending sessions]
    records,        \* [Procs -> set of pairing records]
    pairingFile,    \* the state file
    drawn,          \* history: session ids and handles drawn so far
    wrong,          \* history: wrong proofs compared, per session id, with the time of the last
    retired         \* history: handles revoked or superseded

pairingVars == <<pending, records, pairingFile, drawn, wrong, retired>>

Pending ==
    [id: SessionIds, peer: Peers, expiresAt: Nat, attempts: Nat,
     nextAllowedAt: Nat, supersedes: Handles \cup {NoHandle}]

Record == [handle: Handles, peer: Peers, rotatedFrom: Handles \cup {NoHandle}]

State(pend, recs) == [pending |-> pend, records |-> recs]

HandlesOf(recs) == {r.handle : r \in recs}

\* The delay before the next attempt once n proofs were wrong.
RetryAfter(n) == BackoffBase * 2^(n - 1)

---------------------------------------------------------------------------
(* What every call that starts with #cleanupExpired() finds and may have   *)
(* written.  The call reads the clock twice; both readings are `now`.      *)

Live(p) == {s \in pending[p] : s.expiresAt > now}

SweptFiles(p) ==
    IF Live(p) = pending[p] THEN {pairingFile}
    ELSE Saved({pairingFile}, State(Live(p), records[p]))

\* The state after a call: p's tables, and the file a last #persistState left.
Commit(p, pend, recs, files) ==
    /\ pending' = [pending EXCEPT ![p] = pend]
    /\ records' = [records EXCEPT ![p] = recs]
    /\ pairingFile' \in files

\* Mutant: the new tables are not written.
StoreInMemory(p, pend, recs) == Commit(p, pend, recs, SweptFiles(p))

Store(p, pend, recs) ==
    Commit(p, pend, recs, Saved(SweptFiles(p), State(pend, recs)))

SweepOnly(p) == Commit(p, Live(p), records[p], SweptFiles(p))

---------------------------------------------------------------------------
(* Process steps *)

PairingInit ==
    /\ pending = [p \in Procs |-> {}]
    /\ records = [p \in Procs |-> {}]
    /\ pairingFile = State({}, {})
    /\ drawn = {}
    /\ wrong = [s \in SessionIds |-> [count |-> 0, at |-> 0]]
    /\ retired = {}

\* The constructor: load, #cleanupExpired, and an unconditional #persistState.
BuildPairing(p) ==
    LET live == {s \in pairingFile.pending : s.expiresAt > now}
    IN  /\ Commit(p, live, pairingFile.records,
                  Saved({pairingFile}, State(live, pairingFile.records)))
        /\ UNCHANGED <<drawn, wrong, retired>>

DropPairing(p) ==
    /\ pending' = [pending EXCEPT ![p] = {}]
    /\ records' = [records EXCEPT ![p] = {}]
    /\ UNCHANGED <<pairingFile, drawn, wrong, retired>>

---------------------------------------------------------------------------
(* Operations *)

\* pairing.begin takes the superseded handle from the message unchecked.
BeginPairing(p, peer, supersedes, id) ==
    /\ id \in SessionIds \ drawn
    /\ Store(p,
             Live(p) \cup {[id |-> id, peer |-> peer, expiresAt |-> now + CodeTTL,
                            attempts |-> 0, nextAllowedAt |-> now,
                            supersedes |-> supersedes]},
             records[p])
    /\ drawn' = drawn \cup {id}
    /\ UNCHANGED <<wrong, retired>>

RotatePairing(p, peer, handle, id) ==
    /\ \E r \in records[p] : r.handle = handle /\ r.peer = peer
    /\ BeginPairing(p, peer, handle, id)

\* Mutant: the back-off is not enforced.
AdmissibleEarly(p, id, peer) == {s \in Live(p) : s.id = id /\ s.peer = peer}

\* Unknown or expired session, attempt made too early, or another peer's session.
Admissible(p, id, peer) ==
    {s \in Live(p) : s.id = id /\ s.nextAllowedAt <= now /\ s.peer = peer}

CompleteRefused(p, id, peer) ==
    /\ Admissible(p, id, peer) = {}
    /\ SweepOnly(p)
    /\ UNCHANGED <<drawn, wrong, retired>>

Without(pend, id) == {s \in pend : s.id # id}

\* The session with one more wrong attempt.
Retry(s) ==
    [s EXCEPT !.attempts = @ + 1, !.nextAllowedAt = now + RetryAfter(s.attempts + 1)]

\* Mutant: one attempt too many.
AfterWrongLate(s) == IF s.attempts >= MaxAttempts THEN {} ELSE {Retry(s)}

\* What a wrong attempt leaves of the session.
AfterWrong(s) == IF s.attempts + 1 >= MaxAttempts THEN {} ELSE {Retry(s)}

\* The history counts up to one guess too many, which is all it has to tell.
OneMore(n) == IF n > MaxAttempts THEN n ELSE n + 1

CompleteWrong(p, id, peer) ==
    \E s \in Admissible(p, id, peer) :
        /\ Store(p, Without(Live(p), id) \cup AfterWrong(s), records[p])
        /\ wrong' = [wrong EXCEPT ![id] = [count |-> OneMore(@.count), at |-> now]]
        /\ UNCHANGED <<drawn, retired>>

\* Mutant: the superseded record is kept.
ReplacingKept(recs, new) == recs \cup {new}

\* A new record takes the place of the one it supersedes.
Replacing(recs, new) == {r \in recs : r.handle # new.rotatedFrom} \cup {new}

CompleteRight(p, id, peer, handle) ==
    \E s \in Admissible(p, id, peer) :
        /\ handle \in Handles \ drawn
        /\ Store(p,
                 Without(Live(p), id),
                 Replacing(records[p],
                           [handle |-> handle, peer |-> peer, rotatedFrom |-> s.supersedes]))
        /\ drawn' = drawn \cup {handle}
        /\ retired' = retired \cup (HandlesOf(records[p]) \cap {s.supersedes})
        /\ UNCHANGED wrong

ListPairings(p) ==
    /\ SweepOnly(p)
    /\ UNCHANGED <<drawn, wrong, retired>>

\* Neither reads nor sweeps the pending sessions: one that supersedes the
\* handle stays.  The bindings are optional in the message; a mismatch is a no-op.
RevokePairing(p, handle) ==
    /\ handle \in HandlesOf(records[p])
    /\ LET left == {r \in records[p] : r.handle # handle}
       IN  Commit(p, pending[p], left, Saved({pairingFile}, State(pending[p], left)))
    /\ retired' = retired \cup {handle}
    /\ UNCHANGED <<drawn, wrong>>

\* An existing record of the peer is returned as it is: no step.
AutoPair(p, peer, handle) ==
    /\ \A r \in records[p] : r.peer # peer
    /\ handle \in Handles \ drawn
    /\ LET recs == records[p] \cup {[handle |-> handle, peer |-> peer, rotatedFrom |-> NoHandle]}
       IN  Commit(p, pending[p], recs, Saved({pairingFile}, State(pending[p], recs)))
    /\ drawn' = drawn \cup {handle}
    /\ UNCHANGED <<wrong, retired>>

ResolvesPairing(p, handle, peer) ==
    \E r \in records[p] : r.handle = handle /\ r.peer = peer

---------------------------------------------------------------------------
(* A deployment with the pairing tables only; BridgeAuth has both.         *)

pvars == <<now, status, pairingVars>>

PInit == ProcessInit /\ PairingInit

PTick == Advance /\ UNCHANGED pairingVars
PStart(p) == Move(p, "down", "starting") /\ UNCHANGED pairingVars
PBuild(p) == Move(p, "starting", "up") /\ BuildPairing(p)
PStop(p) == Exit(p) /\ DropPairing(p)

\* Handles a message may carry: those the bridge has given out.
KnownHandles == drawn \cap Handles

PServe(p) ==
    /\ Serving(p)
    /\ \/ \E peer \in Peers, h \in KnownHandles \cup {NoHandle}, id \in SessionIds :
            BeginPairing(p, peer, h, id)
       \/ \E peer \in Peers, h \in KnownHandles, id \in SessionIds :
            RotatePairing(p, peer, h, id)
       \/ \E peer \in Peers, id \in SessionIds : CompleteRefused(p, id, peer)
       \/ \E peer \in Peers, id \in SessionIds : CompleteWrong(p, id, peer)
       \/ \E peer \in Peers, id \in SessionIds, h \in Handles :
            CompleteRight(p, id, peer, h)
       \/ ListPairings(p)
       \/ \E h \in KnownHandles : RevokePairing(p, h)
       \/ \E peer \in Peers, h \in Handles : AutoPair(p, peer, h)

PNext ==
    \/ PTick
    \/ \E p \in Procs : PStart(p) \/ PBuild(p) \/ PStop(p) \/ PServe(p)

PSpec == PInit /\ [][PNext]_pvars
---------------------------------------------------------------------------
(* Properties *)

\* Type invariant: the shapes of the tables and of the file
\* (PendingPairingSession and PairingRecord in pairing.ts).
PTypeOK ==
    /\ ProcessTypeOK
    /\ pending \in [Procs -> SUBSET Pending]
    /\ records \in [Procs -> SUBSET Record]
    /\ pairingFile \in [pending: SUBSET Pending, records: SUBSET Record]
    /\ drawn \subseteq SessionIds \cup Handles
    /\ wrong \in [SessionIds -> [count: Nat, at: Nat]]
    /\ retired \subseteq Handles

\* Rotation replaces: no copy of the tables, in any process's memory or in
\* the file, holds a handle beside the one that superseded it, whatever the
\* processes overwrite and whichever writes are lost (completePairing).
RotationExclusive ==
    \A recs \in {records[p] : p \in Procs} \cup {pairingFile.records} :
        \A r \in recs : r.rotatedFrom \notin HandlesOf(recs)

\* A one-time code is guessed at most MaxAttempts times, restarts between
\* the guesses included (attemptCount is persisted before the error is sent).
AttemptsBounded == \A id \in SessionIds : wrong[id].count <= MaxAttempts

\* Between two wrong guesses of one code the whole back-off has passed, even
\* when the process was restarted in between (nextAllowedAtMs is persisted).
BackoffHonoured ==
    [][\A id \in SessionIds :
        (wrong[id].count > 0 /\ wrong'[id].count > wrong[id].count)
            => now >= wrong[id].at + RetryAfter(wrong[id].count)]_pvars

\* A handle that was revoked or rotated away never authenticates again in a
\* process that serves, restarts included (revokePairing, completePairing).
RetiredStaysRetired ==
    \A p \in Procs : HandlesOf(records[p]) \cap retired = {}

=============================================================================
