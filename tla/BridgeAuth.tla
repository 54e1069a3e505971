---------------------------- MODULE BridgeAuth -----------------------------
(***************************************************************************)
(* How BridgeHandler puts the pairing and the handshake tables together    *)
(* (apps/bridge/src/bridge-handler.ts): a handshake is answered with the   *)
(* secret of a live pairing, and listing, revoking and rotating pairings   *)
(* pass the session gate, while the messages a peer starts with (auto,     *)
(* begin, complete, challenge, verify) do not.  A session is a bearer      *)
(* token: it outlives the pairing it was granted on.                       *)
(***************************************************************************)
EXTENDS Pairing, Handshake

VARIABLES
    lineage,        \* history: the pairing handle each session was granted on
    retiredAt       \* history: when each retired handle was retired

authVars == <<lineage, retiredAt>>
vars == <<now, status, pairingVars, handshakeVars, authVars>>

Init ==
    /\ ProcessInit
    /\ PairingInit
    /\ HandshakeInit
    /\ lineage = {}
    /\ retiredAt = {}

---------------------------------------------------------------------------
\* Handles that the step retires, stamped with the time.
NoteRetired ==
    retiredAt' = retiredAt \cup [handle: retired' \ retired, at: {now}]

Pair(p) ==
    /\ \/ \E peer \in Peers, h \in KnownHandles \cup {NoHandle}, id \in SessionIds :
            BeginPairing(p, peer, h, id)
       \/ \E peer \in Peers, id \in SessionIds, h \in Handles :
            \/ CompleteRefused(p, id, peer)
            \/ CompleteWrong(p, id, peer)
            \/ CompleteRight(p, id, peer, h)
            \/ AutoPair(p, peer, h)
    /\ NoteRetired
    /\ UNCHANGED <<lineage, handshakeVars>>

HandleChallenge(p) ==
    /\ \E n \in Nonces : CreateChallenge(p, n)
    /\ UNCHANGED <<pairingVars, authVars>>

\* Mutant: the pairing is not resolved; any handle given out will do.
HandleVerifyUnpaired(p) ==
    /\ \E h \in KnownHandles, n \in Nonces :
        \/ VerifyExpired(p, n) /\ UNCHANGED lineage
        \/ \E t \in Tokens :
             /\ Verify(p, n, t)
             /\ lineage' = lineage \cup {[token |-> t, handle |-> h]}
    /\ UNCHANGED <<pairingVars, retiredAt>>

\* #handleHandshakeVerify: the pairing secret first, then the challenge.
HandleVerify(p) ==
    /\ \E peer \in Peers, h \in KnownHandles, n \in Nonces :
        /\ ResolvesPairing(p, h, peer)
        /\ \/ VerifyExpired(p, n) /\ UNCHANGED lineage
           \/ \E t \in Tokens :
                /\ Verify(p, n, t)
                /\ lineage' = lineage \cup {[token |-> t, handle |-> h]}
    /\ UNCHANGED <<pairingVars, retiredAt>>

\* #requireSession refuses the message.
Refuse(p, t) ==
    /\ t \notin TokensOf(Unexpired(sessions[p]))
    /\ Resolve(p, t)
    /\ UNCHANGED <<pairingVars, authVars>>

\* The gate lets the message through to its handler.
Admit(p, t) ==
    /\ t \in TokensOf(Unexpired(sessions[p]))
    /\ Resolve(p, t)
    /\ \/ ListPairings(p)
       \/ \E h \in KnownHandles : RevokePairing(p, h)
       \/ \E peer \in Peers, h \in KnownHandles, id \in SessionIds :
            RotatePairing(p, peer, h, id)
    /\ NoteRetired
    /\ UNCHANGED lineage

Serve(p) ==
    /\ Serving(p)
    /\ \/ Pair(p)
       \/ HandleChallenge(p)
       \/ HandleVerify(p)
       \/ \E t \in Tokens \cap Issued : Refuse(p, t) \/ Admit(p, t)

Tick == Advance /\ UNCHANGED <<pairingVars, handshakeVars, authVars>>

Start(p) ==
    /\ Move(p, "down", "starting")
    /\ BuildSessions(p)
    /\ UNCHANGED <<pairingVars, authVars>>

Build(p) ==
    /\ Move(p, "starting", "up")
    /\ BuildChallenges(p)
    /\ BuildPairing(p)
    /\ UNCHANGED authVars

Stop(p) ==
    /\ Exit(p)
    /\ DropHandshake(p)
    /\ DropPairing(p)
    /\ UNCHANGED authVars

\* A crash inside a verification, after the nonce was used up.
Die(p) ==
    /\ status[p] = "up"
    /\ Exit(p)
    /\ \E peer \in Peers, h \in KnownHandles, n \in Nonces :
        ResolvesPairing(p, h, peer) /\ VerifyDies(p, n)
    /\ DropPairing(p)
    /\ UNCHANGED authVars

Next ==
    \/ Tick
    \/ \E p \in Procs : Start(p) \/ Build(p) \/ Stop(p) \/ Die(p) \/ Serve(p)

Spec == Init /\ [][Next]_vars

---------------------------------------------------------------------------
(* Properties of a deployment of one process whose writes succeed *)

\* Type invariant: the components' own, and the two histories.
TypeOK ==
    /\ PTypeOK
    /\ HTypeOK
    /\ lineage \subseteq [token: Tokens, handle: Handles]
    /\ retiredAt \subseteq [handle: Handles, at: Nat]

\* A revoked or rotated-away handle opens no further session, in this process
\* or after any restart of it (handshake.verify: "Pairing handle is invalid
\* or revoked.").
RetiredOpensNothing ==
    [][\A l \in lineage' \ lineage : l.handle \notin retired]_vars

\* Revocation takes effect late, but it does: the gate stops accepting every
\* session of a pairing less than SessionTTL after that pairing was retired.
RevocationTakesEffect ==
    \A a \in accepted, l \in lineage, r \in retiredAt :
        (a.token = l.token /\ l.handle = r.handle) => a.at < r.at + SessionTTL

=============================================================================
