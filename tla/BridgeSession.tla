--------------------------- MODULE BridgeSession ---------------------------
(***************************************************************************)
(* The extension's side of a bridge session: vault-proxy.ts (the one       *)
(* connectNative port, its pending requests and its session token),        *)
(* bridge-handshake.ts (the session cache and the handshakes in flight)    *)
(* and the cloud chats of cloud-native.ts, all in one service worker.      *)
(*                                                                         *)
(* A step runs from an event of the browser (a message of the port, its    *)
(* disconnection, a storage or crypto promise) to the next real wait: the  *)
(* continuations of a settled promise run in that same step.  A caller has *)
(* one request on the port at most, so that its name stands for the        *)
(* _bridgeRequestId.  Requests of different callers do not depend on each  *)
(* other, so the port carries them as sets.                                *)
(***************************************************************************)
EXTENDS Naturals, Sequences, FiniteSets

CONSTANTS
    Vaults,         \* vault messages of pages and background, retried once
    Quiets,         \* model refreshes after an unlock, never retried
    Chats,          \* cloud chats
    Proxy,          \* establishSession, on behalf of Vaults and Quiets
    NoOwner,
    SessionTTL,
    MaxTime,        \* bound on the clock
    MaxSessions,    \* bound on the sessions the bridge grants
    MaxPorts        \* bound on the bridge processes that are started

ASSUME BridgeSessionAssumption ==
    /\ Vaults \cap Quiets = {} /\ Vaults \cap Chats = {} /\ Quiets \cap Chats = {}
    /\ Proxy \notin Vaults \cup Quiets \cup Chats
    /\ NoOwner \notin Chats \cup {Proxy}
    /\ SessionTTL \in Nat \ {0}
    /\ MaxTime \in Nat /\ MaxSessions \in Nat /\ MaxPorts \in Nat \ {0}

Callers == Vaults \cup Quiets \cup Chats
Owners == Chats \cup {Proxy}            \* of handshakes in flight

VARIABLES
    now,
    port,           \* "none", "open", or "dead" until its disconnection is seen
    ports,          \* number of ports opened so far
    known,          \* tokens the bridge process behind the port accepts
    asked,          \* requests the bridge has not handled
    answers,        \* answers the extension has not seen
    sessions,       \* history: the sessions granted; a token is an index in it
    sessionToken,   \* vault-proxy's token, 0 for null
    establish,      \* sessionPromise: "no", "pairing" or "flight"
    cache,          \* sessionCacheByKey: a token or 0
    registered,     \* inFlightByKey: the owner of a handshake or NoOwner
    flight,         \* [Owners -> handshake]
    call            \* [Callers -> call]

bridgeVars == <<port, ports, known, asked, answers, sessions>>
proxyVars == <<sessionToken, establish>>
cacheVars == <<cache, registered>>
svars == <<now, bridgeVars, proxyVars, cacheVars, flight, call>>

Tokens == 1..Len(sessions)
Live(t, time) == t # 0 /\ sessions[t].until > time

NoFlight == [step |-> "none", again |-> FALSE, waiters |-> {}]
NoCall == [pc |-> "idle", token |-> 0, refused |-> 0, since |-> 0]

Settled(c) == call[c].pc \in {"idle", "refused"}

\* The service worker starts with preWarmBridgeSession.
SInit ==
    /\ now = 0
    /\ port = "none" /\ ports = 0 /\ known = {} /\ asked = {} /\ answers = {}
    /\ sessions = <<>>
    /\ sessionToken = 0 /\ establish = "pairing"
    /\ cache = 0 /\ registered = NoOwner
    /\ flight = [f \in Owners |-> NoFlight]
    /\ call = [c \in Callers |-> NoCall]

Tick ==
    /\ now < MaxTime
    /\ now' = now + 1
    /\ UNCHANGED <<bridgeVars, proxyVars, cacheVars, flight, call>>

---------------------------------------------------------------------------
(* The port *)

Request(by, kind, token) == [by |-> by, kind |-> kind, token |-> token]

\* The step read the answers `read` and posts requests: ensurePort starts a new
\* process if need be, which knows the sessions its file has kept; what is
\* posted to a port that has closed unnoticed goes nowhere.
Post(requests, read) ==
    /\ IF port = "none" /\ requests # {}
       THEN /\ port' = "open" /\ ports' = ports + 1
            /\ known' \in SUBSET {t \in known : Live(t, now)}
       ELSE UNCHANGED <<port, ports, known>>
    /\ asked' = IF port = "dead" THEN asked ELSE asked \cup requests
    /\ answers' = answers \ read
    /\ UNCHANGED sessions

Answer(r, ok, token) == [by |-> r.by, ok |-> ok, token |-> token]

Gate(r) ==
    /\ r.kind = "work"
    /\ answers' = answers \cup {Answer(r, r.token \in known /\ Live(r.token, now), 0)}
    /\ UNCHANGED <<known, sessions>>

Challenge(r) ==
    /\ r.kind = "challenge"
    /\ answers' = answers \cup {Answer(r, TRUE, 0)}
    /\ UNCHANGED <<known, sessions>>

\* handshake.verify is refused when its challenge was lost or has expired.
Verify(r) ==
    /\ r.kind = "verify"
    /\ \/ /\ Len(sessions) < MaxSessions
          /\ sessions' = Append(sessions, [until |-> now + SessionTTL, from |-> ports])
          /\ known' = known \cup {Len(sessions')}
          /\ answers' = answers \cup {Answer(r, TRUE, Len(sessions'))}
       \/ /\ answers' = answers \cup {Answer(r, FALSE, 0)}
          /\ UNCHANGED <<known, sessions>>

BridgeServes(n) ==
    \E r \in asked :
        /\ r.by = n
        /\ Gate(r) \/ Challenge(r) \/ Verify(r)
        /\ asked' = asked \ {r}
        /\ UNCHANGED <<now, port, ports, proxyVars, cacheVars, flight, call>>

\* What the process wrote before it exited may still be read.
BridgeExits ==
    /\ port = "open" /\ ports < MaxPorts
    /\ port' = "dead"
    /\ asked' = {}
    /\ UNCHANGED <<now, ports, known, answers, sessions, proxyVars, cacheVars, flight, call>>

---------------------------------------------------------------------------
(* Promises *)

\* The callers that await sessionPromise.
AwaitingSession == {c \in Callers : call[c].pc = "session"}

Woken(F) == UNION {flight[f].waiters : f \in F}

\* The callers that go on when the handshakes of F settle.
Heirs(F) ==
    (Woken(F) \cap Chats) \cup (IF Proxy \in Woken(F) THEN AwaitingSession ELSE {})

\* The callers C go on with token t: a chat prepares its request, the others
\* post theirs.
Resume(C, t, read) ==
    /\ call' = [c \in Callers |->
                    IF c \in C
                    THEN [call[c] EXCEPT !.pc = IF c \in Chats THEN "prepare" ELSE "work",
                                         !.token = t, !.since = 0]
                    ELSE call[c]]
    /\ Post({Request(c, "work", t) : c \in C \ Chats}, read)

\* The calls C are over, answered or rejected.
Release(C) == call' = [c \in Callers |-> IF c \in C THEN NoCall ELSE call[c]]

\* The handshakes F settle; the `finally` of each empties inFlightByKey,
\* whoever is registered there.
End(F) ==
    /\ flight' = [f \in Owners |-> IF f \in F THEN NoFlight ELSE flight[f]]
    /\ establish' = IF Proxy \in Woken(F) THEN "no" ELSE establish
    /\ registered' = NoOwner

Succeed(f, t, read) ==
    /\ End({f})
    /\ cache' = t
    /\ sessionToken' = IF Proxy \in flight[f].waiters THEN t ELSE sessionToken
    /\ Resume(Heirs({f}), t, read)

Reject(f, read) ==
    /\ End({f})
    /\ Release(Heirs({f}))
    /\ Post({}, read)
    /\ UNCHANGED <<sessionToken, cache>>

---------------------------------------------------------------------------
(* ensureBridgeHandshakeSession *)

\* The owner f starts a handshake at the given step.
StartFlight(f, step) ==
    /\ flight' = [flight EXCEPT ![f] = [step |-> step, again |-> TRUE, waiters |-> {f}]]
    /\ registered' = f

Join(a) ==
    /\ flight' = [flight EXCEPT ![registered].waiters = @ \cup {a}]
    /\ UNCHANGED registered

Advance(f, step) == flight' = [flight EXCEPT ![f].step = step]

\* The shared secret was read; without one the handshake is aborted.
SecretRead(f) ==
    /\ flight[f].step = "secret"
    /\ \/ /\ Advance(f, "challenge")
          /\ Post({Request(f, "challenge", 0)}, {})
          /\ UNCHANGED <<proxyVars, cacheVars, call>>
       \/ Reject(f, {})
    /\ UNCHANGED now

ChallengeReceived(f, a) ==
    /\ flight[f].step = "challenge"
    /\ Advance(f, "hmac")
    /\ Post({}, {a})
    /\ UNCHANGED <<now, proxyVars, cacheVars, call>>

HmacComputed(f) ==
    /\ flight[f].step = "hmac"
    /\ Advance(f, "verify")
    /\ Post({Request(f, "verify", 0)}, {})
    /\ UNCHANGED <<now, proxyVars, cacheVars, call>>

Granted(a) == a.ok /\ Live(a.token, now)

SessionReceived(f, a) ==
    /\ flight[f].step = "verify"
    /\ Granted(a)
    /\ Succeed(f, a.token, {a})
    /\ UNCHANGED now

\* Refused, or granted so long ago that it has expired: one more attempt.
VerifyFailed(f, a) ==
    /\ flight[f].step = "verify"
    /\ ~Granted(a)
    /\ \/ /\ flight[f].again
          /\ flight' = [flight EXCEPT ![f].step = "challenge", ![f].again = FALSE]
          /\ Post({Request(f, "challenge", 0)}, {a})
          /\ UNCHANGED <<proxyVars, cacheVars, call>>
       \/ /\ ~flight[f].again
          /\ Reject(f, {a})
    /\ UNCHANGED now

---------------------------------------------------------------------------
(* vault-proxy: getSessionToken and sendVaultMessageViaProxy *)

\* getSessionToken for the caller c of `calls`, which has given up `refused`.
GetSession(calls, c, token, refused, read) ==
    IF token # 0
    THEN /\ call' = [calls EXCEPT ![c] = [NoCall EXCEPT !.pc = "work", !.token = token,
                                                        !.refused = refused]]
         /\ Post({Request(c, "work", token)}, read)
         /\ UNCHANGED establish
    ELSE /\ call' = [calls EXCEPT ![c] = [NoCall EXCEPT !.pc = "session", !.refused = refused]]
         /\ establish' = IF establish = "no" THEN "pairing" ELSE establish
         /\ Post({}, read)

VaultCalls(c) ==
    /\ Settled(c)
    /\ GetSession(call, c, sessionToken, 0, {})
    /\ UNCHANGED <<now, sessionToken, cacheVars, flight>>

\* establishSession has its key material and asks for a session.
PairingRead ==
    /\ establish = "pairing"
    /\ \/ /\ Live(cache, now)
          /\ sessionToken' = cache /\ establish' = "no"
          /\ Resume(AwaitingSession, cache, {})
          /\ UNCHANGED <<cacheVars, flight>>
       \/ /\ ~Live(cache, now)
          /\ cache' = 0
          /\ establish' = "flight"
          /\ \/ registered # NoOwner /\ Join(Proxy) /\ Post({}, {})
             \/ /\ registered = NoOwner
                /\ StartFlight(Proxy, "challenge")
                /\ Post({Request(Proxy, "challenge", 0)}, {})
          /\ UNCHANGED <<sessionToken, call>>
    /\ UNCHANGED now

\* There is no pairing, or its key material cannot be read.
PairingFails ==
    /\ establish = "pairing"
    /\ establish' = "no"
    /\ Release(AwaitingSession)
    /\ UNCHANGED <<now, bridgeVars, sessionToken, cacheVars, flight>>

\* Mutant: the token that was refused is kept.
ForgetCached == cache' = 0 /\ registered' = NoOwner /\ UNCHANGED sessionToken

\* Mutant: the session cache is not cleared.
ForgetToken == sessionToken' = 0 /\ registered' = NoOwner /\ UNCHANGED cache

\* The session whose token was refused, or whose port closed, is given up.
Forget == cache' = 0 /\ registered' = NoOwner /\ sessionToken' = 0

VaultRefused(c, a) ==
    /\ call[c].pc = "work" /\ ~a.ok
    /\ \/ /\ c \in Vaults /\ call[c].refused = 0
          /\ Forget
          /\ GetSession(call, c, sessionToken', call[c].token, {a})
       \/ /\ c \in Vaults /\ call[c].refused # 0
          /\ call' = [call EXCEPT ![c].pc = "refused"]
          /\ Post({}, {a})
          /\ UNCHANGED <<proxyVars, cacheVars>>
       \/ /\ c \in Quiets
          /\ Release({c})
          /\ Post({}, {a})
          /\ UNCHANGED <<proxyVars, cacheVars>>
    /\ UNCHANGED <<now, flight>>

\* The answer of an unlock that was not retried also starts
\* refreshAllProviderModels.
VaultAnswered(c, a) ==
    /\ call[c].pc = "work" /\ a.ok
    /\ \/ /\ Release({c})
          /\ Post({}, {a})
          /\ UNCHANGED establish
       \/ /\ c \in Vaults /\ call[c].refused = 0
          /\ \E q \in Quiets :
                /\ Settled(q)
                /\ GetSession([call EXCEPT ![c] = NoCall], q, sessionToken, 0, {a})
    /\ UNCHANGED <<now, sessionToken, cacheVars, flight>>

---------------------------------------------------------------------------
(* runCloudBridgeCompletion *)

\* ensureBridgeHandshakeSession reads the clock and drops expired sessions,
\* then waits for the pairing handle.
ChatCalls(c) ==
    /\ Settled(c)
    /\ call' = [call EXCEPT ![c] = [NoCall EXCEPT !.pc = "handle", !.since = now]]
    /\ cache' = IF Live(cache, now) THEN cache ELSE 0
    /\ UNCHANGED <<now, bridgeVars, proxyVars, registered, flight>>

HandleRead(c) ==
    /\ call[c].pc = "handle"
    /\ \/ /\ Live(cache, call[c].since)
          /\ Resume({c}, cache, {})
          /\ UNCHANGED <<registered, flight>>
       \/ /\ ~Live(cache, call[c].since)
          /\ call' = [call EXCEPT ![c].pc = "flight", ![c].since = 0]
          /\ Post({}, {})
          /\ \/ registered # NoOwner /\ Join(c)
             \/ registered = NoOwner /\ StartFlight(c, "secret")
    /\ UNCHANGED <<now, proxyVars, cache>>

\* The payload is hashed, the proof computed, the execution sent.
ChatPosts(c) ==
    /\ call[c].pc = "prepare"
    /\ call' = [call EXCEPT ![c].pc = "work"]
    /\ Post({Request(c, "work", call[c].token)}, {})
    /\ UNCHANGED <<now, proxyVars, cacheVars, flight>>

\* shouldRetryWithFreshHandshake wants "handshake session token" in the
\* message; the gate says "Session token is invalid or has expired" and comes
\* before the verifier, so a refusal is the end of the chat.
ChatAnswered(c, a) ==
    /\ call[c].pc = "work"
    /\ IF a.ok THEN Release({c}) ELSE call' = [call EXCEPT ![c].pc = "refused"]
    /\ Post({}, {a})
    /\ UNCHANGED <<now, proxyVars, cacheVars, flight>>

---------------------------------------------------------------------------
(* onDisconnect *)

\* Mutants: `pending` is not rejected, for handshakes or for calls.
LeftFlightsNone == {}
LeftCallsNone == {}

\* The handshakes and calls that wait for an answer of the port.
LeftFlights == {f \in Owners : flight[f].step \in {"challenge", "verify"}}
LeftCalls == {c \in Callers : call[c].pc = "work"}

Disconnected ==
    /\ port = "dead"
    /\ port' = "none"
    /\ asked' = {} /\ answers' = {}
    /\ Forget
    /\ End(LeftFlights)
    /\ Release(Heirs(LeftFlights) \cup LeftCalls)
    /\ UNCHANGED <<now, ports, known, sessions>>

---------------------------------------------------------------------------
Receives(n) ==
    \E a \in answers :
        /\ a.by = n
        /\ \/ n \in Owners /\ (ChallengeReceived(n, a) \/ SessionReceived(n, a) \/ VerifyFailed(n, a))
           \/ n \in Vaults \cup Quiets /\ (VaultRefused(n, a) \/ VaultAnswered(n, a))
           \/ n \in Chats /\ ChatAnswered(n, a)

Continues(n) ==
    \/ n = Proxy /\ (PairingRead \/ PairingFails)
    \/ n \in Chats /\ (HandleRead(n) \/ ChatPosts(n))
    \/ n \in Owners /\ (SecretRead(n) \/ HmacComputed(n))

SNext ==
    \/ Tick
    \/ BridgeExits
    \/ Disconnected
    \/ \E c \in Vaults : VaultCalls(c)
    \/ \E c \in Chats : ChatCalls(c)
    \/ \E n \in Callers \cup {Proxy} : BridgeServes(n) \/ Receives(n) \/ Continues(n)

SSpec == SInit /\ [][SNext]_svars

\* The bridge serves every frame or exits, the browser delivers its answers and
\* its exit, and the promises of storage and crypto settle.
SFairSpec ==
    /\ SSpec
    /\ WF_svars(Disconnected)
    /\ \A n \in Callers \cup {Proxy} :
            WF_svars(BridgeServes(n)) /\ WF_svars(Receives(n)) /\ WF_svars(Continues(n))
---------------------------------------------------------------------------
(* Properties *)

\* Type invariant of the port, the caches, the handshakes and the calls.
TypeOK ==
    /\ now \in 0..MaxTime
    /\ port \in {"none", "open", "dead"} /\ ports \in 0..MaxPorts
    /\ sessions \in Seq([until: Nat, from: 1..MaxPorts])
    /\ known \subseteq Tokens
    /\ asked \subseteq [by: Callers \cup {Proxy}, kind: {"challenge", "verify", "work"},
                        token: Tokens \cup {0}]
    /\ answers \subseteq [by: Callers \cup {Proxy}, ok: BOOLEAN, token: Tokens \cup {0}]
    /\ sessionToken \in Tokens \cup {0} /\ cache \in Tokens \cup {0}
    /\ establish \in {"no", "pairing", "flight"}
    /\ registered \in Owners \cup {NoOwner}
    /\ flight \in [Owners -> [step: {"none", "secret", "challenge", "hmac", "verify"},
                              again: BOOLEAN, waiters: SUBSET Owners]]
    /\ call \in [Callers -> [pc: {"idle", "handle", "session", "flight", "prepare", "work", "refused"},
                             token: Tokens \cup {0}, refused: Tokens \cup {0}, since: Nat]]

\* Whoever awaits a promise or an answer is known to the one that will settle
\* it: no call is left behind when handshakes are joined, cleared and replaced
\* and the port closes and opens.
NobodyForgotten ==
    LET Expected(n) == port = "dead" \/ \E m \in asked \cup answers : m.by = n
        AwaitsFlight(n) == \E f \in Owners : flight[f].step # "none" /\ n \in flight[f].waiters
    IN  /\ \A c \in Callers : call[c].pc = "work" => Expected(c)
        /\ \A f \in Owners : flight[f].step \in {"challenge", "verify"} => Expected(f)
        /\ \A c \in Chats : call[c].pc = "flight" => AwaitsFlight(c)
        /\ AwaitingSession # {} => establish # "no"
        /\ establish = "flight" => AwaitsFlight(Proxy)

\* The token that vault messages carry and the session in the cache were
\* granted through the port that is open now, by the process behind it.
TokensOfThisPort ==
    \A t \in {sessionToken, cache} \ {0} : port # "none" /\ sessions[t].from = ports

\* A vault call refused with auth.expired is sent again with another token
\* ("re-establish and retry once", vault-proxy.ts).
RetriedWithAnother ==
    \A c \in Vaults : call[c].refused # 0 => call[c].token # call[c].refused

\* Every call is answered or rejected in the end.
EveryCallSettles == \A c \in Callers : ~Settled(c) ~> Settled(c)

=============================================================================
