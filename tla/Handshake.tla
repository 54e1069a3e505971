----------------------------- MODULE Handshake -----------------------------
(***************************************************************************)
(* HandshakeManager and SessionKeyRegistry of the bridge                   *)
(* (apps/bridge/src/session/handshake.ts and session-key-registry.ts): the *)
(* challenges waiting for an answer and the session tokens issued for the  *)
(* right answers, each in the memory of every process and in a file of its *)
(* own.  The set of consumed nonces is in memory only.                     *)
(*                                                                         *)
(* Nonces and tokens are fresh 256-bit strings.  An answer with a wrong    *)
(* HMAC, for a consumed nonce or for an unknown one is refused and leaves  *)
(* every table as it is, so it is no step here.                            *)
(***************************************************************************)
EXTENDS BridgeProcess

CONSTANTS Nonces, Tokens, ChallengeTTL, SessionTTL

ASSUME HandshakeAssumption ==
    /\ ChallengeTTL \in Nat \ {0}
    /\ SessionTTL \in Nat \ {0}

VARIABLES
    challenges,     \* [Procs -> set of challenges]
    consumed,       \* [Procs -> set of nonces answered rightly in this process]
    sessions,       \* [Procs -> set of session records]
    challengeFile,  \* handshake-state.json
    sessionFile,    \* session-key-state.json
    issued,         \* history: nonces and tokens drawn so far, with the time
    grants,         \* history: every session ever granted, with its nonce
    accepted        \* history: the last token the gate let through, and when

handshakeVars ==
    <<challenges, consumed, sessions, challengeFile, sessionFile, issued, grants, accepted>>

Challenge == [nonce: Nonces, expiresAt: Nat]
Session == [token: Tokens, expiresAt: Nat]
Grant == [nonce: Nonces, token: Tokens, at: Nat]

TokensOf(recs) == {s.token : s \in recs}
Issued == {i.id : i \in issued}

\* Mutant: expired records are kept.
ExpiredKept(recs) == recs

Unexpired(recs) == {r \in recs : r.expiresAt > now}

HandshakeInit ==
    /\ challenges = [p \in Procs |-> {}]
    /\ consumed = [p \in Procs |-> {}]
    /\ sessions = [p \in Procs |-> {}]
    /\ challengeFile = {}
    /\ sessionFile = {}
    /\ issued = {}
    /\ grants = {}
    /\ accepted = {}

---------------------------------------------------------------------------
(* Process steps.  The registry is built first thing in main(), the        *)
(* handshake manager only after the adapters were loaded and the CLIs      *)
(* probed: what other processes write to the session file in between is    *)
(* never seen.                                                             *)

\* Mutant: the persisted sessions are not loaded.
BuildSessionsUnread(p) ==
    /\ sessions' = [sessions EXCEPT ![p] = {}]
    /\ UNCHANGED <<challenges, consumed, challengeFile, sessionFile, issued, grants, accepted>>

\* SessionKeyRegistry's constructor: expired entries are skipped while
\* loading, so its #cleanupExpired() finds nothing and nothing is written.
BuildSessions(p) ==
    /\ sessions' = [sessions EXCEPT ![p] = Unexpired(sessionFile)]
    /\ UNCHANGED <<challenges, consumed, challengeFile, sessionFile, issued, grants, accepted>>

\* HandshakeManager's constructor: load, clean, and an unconditional persist.
BuildChallenges(p) ==
    /\ challenges' = [challenges EXCEPT ![p] = Unexpired(challengeFile)]
    /\ challengeFile' \in Saved({challengeFile}, Unexpired(challengeFile))
    /\ UNCHANGED <<consumed, sessions, sessionFile, issued, grants, accepted>>

DropHandshake(p) ==
    /\ challenges' = [challenges EXCEPT ![p] = {}]
    /\ consumed' = [consumed EXCEPT ![p] = {}]
    /\ sessions' = [sessions EXCEPT ![p] = {}]
    /\ UNCHANGED <<challengeFile, sessionFile, issued, grants, accepted>>

---------------------------------------------------------------------------
(* Operations *)

SetChallenges(p, recs) ==
    /\ challenges' = [challenges EXCEPT ![p] = recs]
    /\ challengeFile' \in Saved({challengeFile}, recs)

CreateChallenge(p, nonce) ==
    /\ nonce \in Nonces \ Issued
    /\ SetChallenges(p, challenges[p] \cup {[nonce |-> nonce, expiresAt |-> now + ChallengeTTL]})
    /\ issued' = issued \cup {[id |-> nonce, at |-> now]}
    /\ UNCHANGED <<consumed, sessions, sessionFile, grants, accepted>>

Others(p, nonce) == {c \in challenges[p] : c.nonce # nonce}

\* The challenge an answer is compared with.
Awaited(p, nonce) ==
    IF nonce \in consumed[p] THEN {} ELSE {c \in challenges[p] : c.nonce = nonce}

VerifyExpired(p, nonce) ==
    /\ \E c \in Awaited(p, nonce) : c.expiresAt <= now
    /\ SetChallenges(p, Others(p, nonce))
    /\ UNCHANGED <<consumed, sessions, sessionFile, issued, grants, accepted>>

\* Mutant: the challenge is not deleted.
ConsumeKept(p, nonce) ==
    /\ \E c \in Awaited(p, nonce) : c.expiresAt > now
    /\ SetChallenges(p, challenges[p])
    /\ consumed' = [consumed EXCEPT ![p] = @ \cup {nonce}]

\* Mutant: an expired challenge is still answered.
ConsumeLate(p, nonce) ==
    /\ Awaited(p, nonce) # {}
    /\ SetChallenges(p, Others(p, nonce))
    /\ consumed' = [consumed EXCEPT ![p] = @ \cup {nonce}]

\* verifyResponse up to its last write: the nonce is used up.
Consume(p, nonce) ==
    /\ \E c \in Awaited(p, nonce) : c.expiresAt > now
    /\ SetChallenges(p, Others(p, nonce))
    /\ consumed' = [consumed EXCEPT ![p] = @ \cup {nonce}]

\* SessionKeyRegistry.issue: sweep, add, write.
Issue(p, token) ==
    LET recs == Unexpired(sessions[p]) \cup {[token |-> token, expiresAt |-> now + SessionTTL]}
    IN  /\ token \in Tokens \ Issued
        /\ sessions' = [sessions EXCEPT ![p] = recs]
        /\ sessionFile' \in Saved({sessionFile}, recs)
        /\ issued' = issued \cup {[id |-> token, at |-> now]}

Verify(p, nonce, token) ==
    /\ Consume(p, nonce)
    /\ Issue(p, token)
    /\ grants' = grants \cup {[nonce |-> nonce, token |-> token, at |-> now]}
    /\ UNCHANGED accepted

\* The process dies between the two writes of a verification.
VerifyDies(p, nonce) ==
    /\ \E c \in Awaited(p, nonce) : c.expiresAt > now
    /\ challengeFile' \in Saved({challengeFile}, Others(p, nonce))
    /\ challenges' = [challenges EXCEPT ![p] = {}]
    /\ consumed' = [consumed EXCEPT ![p] = {}]
    /\ sessions' = [sessions EXCEPT ![p] = {}]
    /\ UNCHANGED <<sessionFile, issued, grants, accepted>>

\* The gate (#requireSession) or the request verifier resolves a token:
\* sweep, write if something was swept, look up.
Resolve(p, token) ==
    /\ sessions' = [sessions EXCEPT ![p] = Unexpired(@)]
    /\ sessionFile' \in IF Unexpired(sessions[p]) = sessions[p] THEN {sessionFile}
                        ELSE Saved({sessionFile}, Unexpired(sessions[p]))
    /\ accepted' = IF token \in TokensOf(Unexpired(sessions[p]))
                   THEN {[token |-> token, at |-> now]} ELSE accepted
    /\ UNCHANGED <<challenges, consumed, challengeFile, issued, grants>>

---------------------------------------------------------------------------
(* A deployment with the handshake tables only; BridgeAuth has both.       *)

hvars == <<now, status, handshakeVars>>

HInit == ProcessInit /\ HandshakeInit

HTick == Advance /\ UNCHANGED handshakeVars
HStart(p) == Move(p, "down", "starting") /\ BuildSessions(p)
HBuild(p) == Move(p, "starting", "up") /\ BuildChallenges(p)
HStop(p) == Exit(p) /\ DropHandshake(p)
HDie(p) == status[p] = "up" /\ Exit(p) /\ \E n \in Nonces : VerifyDies(p, n)

HServe(p) ==
    /\ Serving(p)
    /\ \/ \E n \in Nonces : CreateChallenge(p, n)
       \/ \E n \in Nonces : VerifyExpired(p, n)
       \/ \E n \in Nonces, t \in Tokens : Verify(p, n, t)
       \/ \E t \in Tokens \cap Issued : Resolve(p, t)

HNext ==
    \/ HTick
    \/ \E p \in Procs : HStart(p) \/ HBuild(p) \/ HStop(p) \/ HDie(p) \/ HServe(p)

HSpec == HInit /\ [][HNext]_hvars

---------------------------------------------------------------------------
(* Properties *)

\* Type invariant of the two tables and their files.
HTypeOK ==
    /\ ProcessTypeOK
    /\ challenges \in [Procs -> SUBSET Challenge]
    /\ consumed \in [Procs -> SUBSET Nonces]
    /\ sessions \in [Procs -> SUBSET Session]
    /\ challengeFile \subseteq Challenge
    /\ sessionFile \subseteq Session
    /\ issued \subseteq [id: Nonces \cup Tokens, at: Nat]
    /\ grants \subseteq Grant
    /\ accepted \subseteq [token: Tokens, at: Nat]

\* A challenge opens one session at most (verifyResponse: "Nonce has already
\* been consumed (replay detected)"), a restart or a crash in the middle of a
\* verification included, although the consumed nonces are not persisted.
NonceOpensOneSession ==
    \A g1, g2 \in grants : g1.nonce = g2.nonce => g1 = g2

\* A session is accepted for less than SessionTTL after it was granted, in
\* whatever process: stale memories and rewritten files never prolong it.
SessionsExpire ==
    \A a \in accepted : \E g \in grants :
        /\ g.token = a.token
        /\ g.at <= a.at
        /\ a.at < g.at + SessionTTL

\* An answer opens a session only within ChallengeTTL of the moment the
\* challenge was created, in whatever process it is given (verifyResponse).
AnsweredInTime ==
    \A g \in grants : \E i \in issued :
        i.id = g.nonce /\ i.at <= g.at /\ g.at < i.at + ChallengeTTL

\* In a deployment of one process, that process knows every unexpired session
\* it granted, across restarts and crashes (SessionKeyRegistry: load, issue).
LiveSessionsKnown ==
    \A p \in Procs : status[p] = "up" =>
        \A g \in grants : now < g.at + SessionTTL => g.token \in TokensOf(sessions[p])

=============================================================================
