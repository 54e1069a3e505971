------------------------------- MODULE Grants -------------------------------
(***************************************************************************)
(* Permission mediation in the extension: the grant store                  *)
(* (permissions/grant-store.ts), the consent prompts                       *)
(* (consent/consent-controller.ts) and the requests in flight of           *)
(* ExtensionBackgroundService (background.ts).                             *)
(*                                                                         *)
(* A step is what runs between two awaits: the check of a request, the     *)
(* user's answer to a prompt, the registration of the request under the    *)
(* grant it got, an answer or an item of the transport, a revocation.  The *)
(* listeners of the event emitter run inside the step that emits.          *)
(*                                                                         *)
(* A target stands for an origin, a capability, and the provider and model *)
(* canonicalizeGrantTarget makes of the request: "*" for the capabilities  *)
(* that have no provider, and exactly the requested ones otherwise, so     *)
(* that of the four keys a lookup tries one can hold a grant.              *)
(***************************************************************************)
EXTENDS Naturals, FiniteSets

CONSTANTS
    Requests,       \* request ids
    Ids,            \* grant ids
    Targets,
    Origins,
    TargetOf,       \* [Requests -> Targets]
    OriginOf,       \* [Targets -> Origins]
    None,
    OneTimeTTL,     \* DEFAULT_ONE_TIME_GRANT_TTL_MS
    SessionTTL,     \* DEFAULT_SESSION_GRANT_TTL_MS
    MaxItems,       \* bound on the items of a stream
    MaxTime         \* bound on the clock

ASSUME GrantsAssumption ==
    /\ TargetOf \in [Requests -> Targets] /\ OriginOf \in [Targets -> Origins]
    /\ None \notin Ids
    /\ OneTimeTTL \in Nat \ {0} /\ SessionTTL \in Nat \ {0}
    /\ MaxItems \in Nat /\ MaxTime \in Nat

VARIABLES
    now,
    grant,          \* [Ids -> grant], `at` says where it is: the store or its end
    req,            \* [Requests -> request]
    published,      \* grants the bridge was told of
    withdrawn       \* grants the bridge was told are over

vars == <<now, grant, req, published, withdrawn>>

Kinds == {"one-time", "session", "persistent"}
Reasons == {"user", "expired", "session-ended", "superseded"}

Grant(target, kind, expires) ==
    [at |-> "stored", target |-> target, kind |-> kind, expires |-> expires]

\* Grants without expiresAt do not expire: Never is past the clock's bound.
Never == MaxTime + OneTimeTTL + SessionTTL

Unused == [at |-> "unused", target |-> None, kind |-> "persistent", expires |-> Never]

\* `late` is history: the request was registered when its grant had left the store.
Idle == [step |-> "idle", grant |-> None, revoked |-> FALSE, late |-> FALSE, got |-> 0]

Stored == {g \in Ids : grant[g].at = "stored"}

Expired(g) == grant[g].expires <= now

\* A request is in #inFlightByRequestId and in #requestIdsByGrantId.
InFlight(r) == req[r].step \in {"forwarded", "stream sent", "streaming"}

Init ==
    /\ now = 0
    /\ grant = [g \in Ids |-> Unused]
    /\ req = [r \in Requests |-> Idle]
    /\ published = {} /\ withdrawn = {}

Tick ==
    /\ now < MaxTime
    /\ now' = now + 1
    /\ UNCHANGED <<grant, req, published, withdrawn>>

---------------------------------------------------------------------------
(* The store *)

Lookup(target) == {g \in Stored : grant[g].target = target}

\* Grants leave the store for a reason, or consumed.
Ended(gs, why) == [g \in Ids |-> IF g \in gs THEN [grant[g] EXCEPT !.at = why] ELSE grant[g]]

\* Mutant: only one of the requests of a grant is told of its revocation.
MarkedOne(gs) ==
    LET told == {r \in Requests : InFlight(r) /\ req[r].grant \in gs}
    IN  [r \in Requests |-> IF told # {} /\ r = CHOOSE q \in told : TRUE
                            THEN [req[r] EXCEPT !.revoked = TRUE]
                            ELSE req[r]]

\* #markGrantRevoked, for the "grant-revoked" event of each grant.
Marked(gs) ==
    [r \in Requests |-> IF InFlight(r) /\ req[r].grant \in gs
                        THEN [req[r] EXCEPT !.revoked = TRUE]
                        ELSE req[r]]

\* #revokeGrantById of each grant: the store, the requests and the bridge.
RevokeAll(gs, why) ==
    /\ grant' = Ended(gs, why)
    /\ req' = Marked(gs)
    /\ withdrawn' = withdrawn \cup gs
    /\ UNCHANGED <<now, published>>

RevokeGrant ==
    \E g \in Stored : RevokeAll({g}, "user")

RevokeGrantsByOrigin ==
    \E o \in Origins :
        LET gs == {g \in Stored : OriginOf[grant[g].target] = o}
        IN  gs # {} /\ RevokeAll(gs, "user")

\* terminateSession ends the session grants of every origin.
TerminateSession ==
    LET gs == {g \in Stored : grant[g].kind = "session"}
    IN  gs # {} /\ RevokeAll(gs, "session-ended")

ExpireStaleGrants ==
    LET gs == {g \in Stored : Expired(g)}
    IN  gs # {} /\ RevokeAll(gs, "expired")

ExpireSessionGrants ==
    LET gs == {g \in Stored : grant[g].kind = "session" /\ Expired(g)}
    IN  gs # {} /\ RevokeAll(gs, "expired")

---------------------------------------------------------------------------
(* Requests *)

Modes == {"prompt", "stream prompt"}

\* A request, or a stream, has a grant; nothing is registered under the grant yet.
Granted(mode, g) ==
    [Idle EXCEPT !.step = IF mode = "prompt" THEN "granted" ELSE "stream granted",
                 !.grant = g]

\* #ensureAuthorizedGrant: checkPermission finds a grant in force, or removes
\* an expired one and asks the user.
Mediate(r) ==
    /\ req[r].step = "idle"
    /\ \E mode \in Modes :
        LET valid == {g \in Lookup(TargetOf[r]) : ~Expired(g)}
            stale == Lookup(TargetOf[r]) \ valid
        IN  IF valid # {}
            THEN /\ \E g \in valid : req' = [req EXCEPT ![r] = Granted(mode, g)]
                 /\ UNCHANGED <<grant, withdrawn>>
            ELSE /\ grant' = Ended(stale, "expired")
                 /\ req' = [Marked(stale) EXCEPT ![r].step = mode]
                 /\ withdrawn' = withdrawn \cup stale
    /\ UNCHANGED <<now, published>>

\* The user denies, or the prompt fails.
Deny(r) ==
    /\ req[r].step \in Modes
    /\ req' = [req EXCEPT ![r].step = "failed"]
    /\ UNCHANGED <<now, grant, published, withdrawn>>

Lifetime(kind) ==
    CASE kind = "one-time" -> now + OneTimeTTL
      [] kind = "session" -> now + SessionTTL
      [] OTHER -> Never

\* #findSupersededGrantIds
Superseded(target) == Lookup(target)

\* grantPermission: what it replaces is revoked, the new grant is published
\* and the request has it.
Allow(r) ==
    /\ req[r].step \in Modes
    /\ \E g \in Ids, kind \in Kinds :
        LET old == Superseded(TargetOf[r]) IN
        /\ grant[g].at = "unused"
        /\ grant' = [Ended(old, "superseded") EXCEPT
                       ![g] = Grant(TargetOf[r], kind, Lifetime(kind))]
        /\ req' = [Marked(old) EXCEPT ![r] = Granted(req[r].step, g)]
        /\ published' = published \cup {g}
        /\ withdrawn' = withdrawn \cup old
    /\ UNCHANGED now

\* forwardRequest, forwardStream, past the await of #ensureAuthorizedGrant: the
\* request is registered under its grant and forwarded, whatever became of the
\* grant in between.
Register(r) ==
    /\ req[r].step \in {"granted", "stream granted"}
    /\ req' = [req EXCEPT
                 ![r].step = IF @ = "granted" THEN "forwarded" ELSE "stream sent",
                 ![r].late = req[r].grant \notin Stored]
    /\ UNCHANGED <<now, grant, published, withdrawn>>

Fail(r) == req' = [req EXCEPT ![r].step = "failed"]

\* Mutant: the bridge is not told of a consumption.
ConsumeQuietly(r, next) ==
    LET g == req[r].grant IN
    IF grant[g].at # "stored"
    THEN Fail(r) /\ UNCHANGED <<grant, withdrawn>>
    ELSE IF Expired(g)
    THEN /\ grant' = Ended({g}, "expired")
         /\ req' = [Marked({g}) EXCEPT ![r].step = "failed"]
         /\ withdrawn' = withdrawn \cup {g}
    ELSE grant' = Ended({g}, "consumed") /\ req' = next /\ UNCHANGED withdrawn

\* consumeOneTimeGrant once the transport has answered: the grant may be gone
\* or expired by then, which fails the request.
Consume(r, next) ==
    LET g == req[r].grant IN
    IF grant[g].at # "stored"
    THEN Fail(r) /\ UNCHANGED <<grant, withdrawn>>
    ELSE IF Expired(g)
    THEN /\ grant' = Ended({g}, "expired")
         /\ req' = [Marked({g}) EXCEPT ![r].step = "failed"]
         /\ withdrawn' = withdrawn \cup {g}
    ELSE /\ grant' = Ended({g}, "consumed")
         /\ req' = next
         /\ withdrawn' = withdrawn \cup {g}

\* Mutant: a second request of a one-time grant is answered as well.
SettleAnyway(r, next) ==
    /\ IF req[r].revoked
       THEN Fail(r) /\ UNCHANGED <<grant, withdrawn>>
       ELSE IF grant[req[r].grant].kind = "one-time" /\ req[r].grant \in Stored
       THEN Consume(r, next)
       ELSE req' = next /\ UNCHANGED <<grant, withdrawn>>
    /\ UNCHANGED <<now, published>>

\* The transport has answered: a revoked request fails.
Settle(r, next) ==
    /\ IF req[r].revoked
       THEN Fail(r) /\ UNCHANGED <<grant, withdrawn>>
       ELSE IF grant[req[r].grant].kind = "one-time"
       THEN Consume(r, next)
       ELSE req' = next /\ UNCHANGED <<grant, withdrawn>>
    /\ UNCHANGED <<now, published>>

Answered(r) ==
    /\ req[r].step = "forwarded"
    /\ Settle(r, [req EXCEPT ![r].step = "done", ![r].got = 1])

StreamOpens(r) ==
    /\ req[r].step = "stream sent"
    /\ Settle(r, [req EXCEPT ![r].step = "streaming"])

\* guardedStream: an item is passed on unless the grant was revoked meanwhile.
StreamItem(r) ==
    /\ req[r].step = "streaming" /\ req[r].got < MaxItems
    /\ IF req[r].revoked THEN Fail(r) ELSE req' = [req EXCEPT ![r].got = @ + 1]
    /\ UNCHANGED <<now, grant, published, withdrawn>>

\* The stream is over, or its reader leaves.
StreamEnds(r) ==
    /\ req[r].step = "streaming"
    /\ req' = [req EXCEPT ![r].step = "done"]
    /\ UNCHANGED <<now, grant, published, withdrawn>>

TransportFails(r) ==
    /\ InFlight(r)
    /\ Fail(r)
    /\ UNCHANGED <<now, grant, published, withdrawn>>

Request(r) ==
    \/ Mediate(r) \/ Deny(r) \/ Allow(r) \/ Register(r) \/ Answered(r)
    \/ StreamOpens(r) \/ StreamItem(r) \/ StreamEnds(r) \/ TransportFails(r)

Next ==
    \/ \E r \in Requests : Request(r)
    \/ RevokeGrant \/ RevokeGrantsByOrigin \/ TerminateSession
    \/ ExpireStaleGrants \/ ExpireSessionGrants
    \/ Tick

Spec == Init /\ [][Next]_vars

---------------------------------------------------------------------------
(* Properties *)

\* The shape of the state; a request in flight names the grant it runs under.
TypeOK ==
    /\ now \in 0..MaxTime
    /\ grant \in [Ids -> [at : {"unused", "stored", "consumed"} \cup Reasons,
                          target : Targets \cup {None}, kind : Kinds, expires : Nat]]
    /\ req \in [Requests -> [step : {"idle", "granted", "stream granted", "forwarded",
                                     "stream sent", "streaming", "done", "failed"}
                                    \cup Modes,
                             grant : Ids \cup {None}, revoked : BOOLEAN, late : BOOLEAN,
                             got : Nat]]
    /\ \A r \in Requests : InFlight(r) => req[r].grant \in Ids
    /\ published \subseteq Ids /\ withdrawn \subseteq Ids

\* A one-time grant delivers one answer or one stream, although several
\* requests may have been forwarded under it before the first was answered.
OneTimeServesOne ==
    \A r, q \in Requests :
        /\ req[r].got > 0 /\ req[q].got > 0 /\ req[r].grant = req[q].grant
        /\ grant[req[r].grant].kind = "one-time"
        => r = q

\* Nothing is delivered under a grant that was revoked, superseded, expired
\* out of the store or ended with its session while the request was
\* registered under it: before the answer or between two items of a stream.
\* What #markGrantRevoked misses is a request authorised and not registered
\* yet when its grant ended; it is served, unless the grant is one-time.
RevokedStopsRegistered ==
    [][\A r \in Requests :
          LET g == grant[req[r].grant] IN
          req'[r].got > req[r].got /\ g.at \in Reasons
              => req[r].late /\ g.kind # "one-time"]_vars

\* The bridge has been told of exactly the grants in the store: every way in
\* and every way out (revocation, expiry seen by any operation, consumption,
\* a new grant for the same target) reaches it.
BridgeTold == published \ withdrawn = Stored

=============================================================================
