---------------------------- MODULE RequestGate ----------------------------
(***************************************************************************)
(* The gate of the bridge for requests of the extension: RequestVerifier   *)
(* (apps/bridge/src/session/request-verifier.ts) lets an envelope pass     *)
(* once, RuntimeEnforcer (permissions/runtime-enforcer.ts) answers from    *)
(* the grants the extension mirrored into it, and the handlers of          *)
(* bridge-handler.ts call the one and then the other.                      *)
(*                                                                         *)
(* All of it is synchronous and in memory: one action per message, and a   *)
(* restart forgets everything.  Time is kept as ages and as time left, so  *)
(* the clock is unbounded.  A name in Nonces stands for a nonce while the  *)
(* verifier or a valid envelope remembers it, and then for another one.    *)
(*                                                                         *)
(* "None or one" is a set.                                                 *)
(***************************************************************************)
EXTENDS Integers, FiniteSets

CONSTANTS
    Nonces,
    Ids,            \* grant ids
    Subjects,       \* origin and capability of a request
    Providers,
    Models,
    Every,          \* the wildcard of a grant
    Sessions,       \* session ids
    MaxLifetime,    \* DEFAULT_MAX_ENVELOPE_LIFETIME_MS
    MaxSkew,        \* DEFAULT_MAX_CLOCK_SKEW_MS
    MaxConsumed,    \* maxConsumedNonces
    MaxLeft         \* bound: the longest time a grant is given

ASSUME GateAssumption ==
    /\ MaxLifetime \in Nat \ {0}
    /\ MaxSkew \in Nat
    /\ MaxConsumed \in Nat \ {0}
    /\ MaxLeft \in Nat
    /\ Every \notin Providers \cup Models
    /\ IsFiniteSet(Nonces)

VARIABLES
    consumed,       \* RequestVerifier.#consumedNonces: {} or the age of each nonce
    grants,         \* RuntimeEnforcer.#grants: the grants it holds, one for an id
    before,         \* the order of that Map: <<i, j>> when i was inserted before j
    envelopes,      \* the envelope of each nonce, once it passed: time left, or 0
    passes,         \* history: how often each nonce passed in this process
    usable,         \* history: the grant each id was last synced with, unless it was
                    \* revoked or, for one time, has allowed a check since
    allowed         \* history: what the step that was just taken allowed: {} or one

gateVars == <<consumed, envelopes, passes>>
grantVars == <<grants, before, usable>>
vars == <<gateVars, grantVars, allowed>>

NoneOrOne(S) == {{}} \cup {{x} : x \in S}

\* A grant without a time of expiry, or with one Date.parse cannot read, has no
\* time left to count.  Only a session's grant has use for a session id.
Grants == {g \in [id: Ids, kind: {"one-time", "session", "persistent"},
                  subject: Subjects, provider: Providers \cup {Every}, model: Models \cup {Every},
                  session: NoneOrOne(Sessions), left: NoneOrOne(0..MaxLeft)] :
              g.kind = "session" \/ g.session = {}}

Requests == [subject: Subjects, provider: Providers, model: Models]

\* What evaluate answers, if it does not deny.
Allowances == [by: Ids, request: Requests, session: NoneOrOne(Sessions)]

NonceTTL == MaxLifetime + MaxSkew
Less(t) == IF t > 0 THEN t - 1 ELSE 0

---------------------------------------------------------------------------
(* The envelope and the nonce *)

\* assertReplayResistantMetadata: `issued` and `expires` count from now.
WellTimed(issued, expires) ==
    /\ expires > 0
    /\ expires > issued
    /\ expires - issued <= MaxLifetime
    /\ issued <= MaxSkew

\* When a well-timed envelope may expire.
Expiries == {e \in 1..NonceTTL : \E issued \in -MaxLifetime..MaxSkew : WellTimed(issued, e)}

\* Mutant: kept for the lifetime of an envelope, whatever the clocks.
KeptUnskewed(table) == [n \in Nonces |-> {a \in table[n] : a < MaxLifetime}]

\* #cleanupExpiredNonces
Kept(table) == [n \in Nonces |-> {a \in table[n] : a < NonceTTL}]

\* #consumeNonce
Consume(table, n) ==
    /\ table[n] = {}
    /\ Cardinality({m \in Nonces : table[m] # {}}) < MaxConsumed
    /\ consumed' = [table EXCEPT ![n] = {0}]

\* verify, and verifyWithProof once the proof fits: an envelope that passed
\* before comes with the times it had.
Verified(n, expires) ==
    /\ \A left \in envelopes[n] : left = expires
    /\ Consume(Kept(consumed), n)
    /\ envelopes' = [envelopes EXCEPT ![n] = {expires}]
    /\ passes' = [passes EXCEPT ![n] = @ + 1]

---------------------------------------------------------------------------
(* The grants *)

Matches(g, r, session) ==
    /\ g.subject = r.subject
    /\ g.provider \in {Every, r.provider}
    /\ g.model \in {Every, r.model}
    /\ g.kind = "session" => session # {} /\ g.session = session

\* #cleanupExpired
Unexpired(gs) == {g \in gs : 0 \notin g.left}

\* #specificityScore
Specificity(g) == Cardinality({field \in {"provider", "model"} : g[field] # Every})

\* How evaluate sorts its candidates: the specific ones first, the oldest first.
Precedes(g, h) ==
    \/ Specificity(g) > Specificity(h)
    \/ Specificity(g) = Specificity(h) /\ <<g.id, h.id>> \in before

\* The first of the candidates, if there is any.
Selected(gs, r, session) ==
    LET candidates == {g \in gs : Matches(g, r, session)}
    IN  {g \in candidates : \A h \in candidates \ {g} : Precedes(g, h)}

Without(gs, i) == {g \in gs : g.id # i}

\* Mutant: a one-time grant with a wildcard is not spent.
SpentIfSpecific(gs, g) ==
    IF g.kind = "one-time" /\ Specificity(g) = 2 THEN Without(gs, g.id) ELSE gs

Spent(gs, g) == IF g.kind = "one-time" THEN Without(gs, g.id) ELSE gs

IdsOf(gs) == {g.id : g \in gs}

\* The grants gs stay, each in its place.
Retain(gs) ==
    /\ grants' = gs
    /\ before' = {b \in before : b[1] \in IdsOf(gs) /\ b[2] \in IdsOf(gs)}

\* evaluate
Evaluate(r, session) ==
    LET live == Unexpired(grants)
        selected == Selected(live, r, session)
    IN  \/ selected = {} /\ Retain(live) /\ UNCHANGED usable /\ allowed' = {}
        \/ \E g \in selected :
                /\ Retain(Spent(live, g))
                /\ usable' = [usable EXCEPT ![g.id] = {h \in @ : h.kind # "one-time"}]
                /\ allowed' = {[by |-> g.id, request |-> r, session |-> session]}

\* Map.set keeps the place of an id it has.
Put(g) ==
    /\ grants' = Without(grants, g.id) \cup {g}
    /\ before' = before \cup (IF g.id \in IdsOf(grants) THEN {} ELSE IdsOf(grants) \X {g.id})

---------------------------------------------------------------------------
(* The messages of the extension *)

Forgotten == [n \in Nonces |-> {}]

Init ==
    /\ consumed = Forgotten
    /\ envelopes = Forgotten
    /\ passes = [n \in Nonces |-> 0]
    /\ grants = {}
    /\ before = {}
    /\ usable = [i \in Ids |-> {}]
    /\ allowed = {}

\* request.check of an envelope that passes
Check(n, expires, r, session) ==
    /\ Verified(n, expires)
    /\ Evaluate(r, session)

\* request.check of one that does not: replayed, badly timed, of another
\* origin, with a proof that does not fit, or the table is full.  The old
\* nonces are gone all the same.
CheckRefused ==
    /\ consumed' = Kept(consumed)
    /\ allowed' = {}
    /\ UNCHANGED <<envelopes, passes, grantVars>>

\* The gate of cloud.chat.execute: the bridge stamps the envelope itself and
\* takes a nonce that was consumed before.
Chat(n) ==
    LET table == Kept(consumed)
    IN  /\ table[n] = {} => Consume(table, n)
        /\ table[n] # {} => consumed' = table
        /\ allowed' = {}
        /\ UNCHANGED <<envelopes, passes, grantVars>>

GrantSync(g) ==
    /\ Put(g)
    /\ usable' = [usable EXCEPT ![g.id] = {g}]
    /\ allowed' = {}
    /\ UNCHANGED gateVars

GrantRevoke(i) ==
    /\ Retain(Without(grants, i))
    /\ usable' = [usable EXCEPT ![i] = {}]
    /\ allowed' = {}
    /\ UNCHANGED gateVars

---------------------------------------------------------------------------
(* Time and restarts *)

Older(g) == [g EXCEPT !.left = {Less(t) : t \in @}]

\* A nonce neither side remembers any more is another one from now on.
Spare(n, table, left) == table[n] = {} /\ left[n] = {0}

Tick ==
    /\ consumed' = [n \in Nonces |-> {IF a < NonceTTL THEN a + 1 ELSE a : a \in consumed[n]}]
    /\ envelopes' = [n \in Nonces |-> {Less(t) : t \in envelopes[n]}]
    /\ grants' = {Older(g) : g \in grants}
    /\ usable' = [i \in Ids |-> {Older(g) : g \in usable[i]}]
    /\ allowed' = {}
    /\ UNCHANGED <<before, passes>>

Reuse(n) ==
    /\ Spare(n, consumed, envelopes)
    /\ envelopes' = [envelopes EXCEPT ![n] = {}]
    /\ passes' = [passes EXCEPT ![n] = 0]
    /\ allowed' = {}
    /\ UNCHANGED <<consumed, grantVars>>

\* The process ends and another one starts: envelopes are still about.
Restart ==
    /\ consumed' = Forgotten
    /\ passes' = [n \in Nonces |-> 0]
    /\ grants' = {}
    /\ before' = {}
    /\ usable' = [i \in Ids |-> {}]
    /\ allowed' = {}
    /\ UNCHANGED envelopes

Next ==
    \/ \E n \in Nonces, expires \in Expiries, r \in Requests, session \in NoneOrOne(Sessions) :
            Check(n, expires, r, session)
    \/ CheckRefused
    \/ \E n \in Nonces : Chat(n) \/ Reuse(n)
    \/ \E g \in Grants : GrantSync(g)
    \/ \E i \in Ids : GrantRevoke(i)
    \/ Tick \/ Restart

Spec == Init /\ [][Next]_vars

---------------------------------------------------------------------------
(* Properties *)

\* Type invariant: the verifier's table, the envelopes, the grants.
TypeOK ==
    /\ consumed \in [Nonces -> SUBSET (0..NonceTTL)]
    /\ envelopes \in [Nonces -> SUBSET (0..NonceTTL)]
    /\ passes \in [Nonces -> Nat]
    /\ grants \subseteq Grants
    /\ before \subseteq Ids \X Ids
    /\ usable \in [Ids -> SUBSET Grants]
    /\ allowed \in NoneOrOne(Allowances)

\* "Nonce replay detection" (RequestVerifier): a bridge process lets the
\* envelope of a request pass once, although it forgets its nonce after a
\* while, and whatever the extension's clock is ahead.
PassesOnce == \A n \in Nonces : passes[n] <= 1

\* A check is allowed only by a grant for its origin, capability, provider and
\* model that was synced as it is, has not been revoked since, is not past its
\* time and, when it is for one time, has allowed nothing since it was synced.
OnlyLiveGrantsAllow ==
    [][\A a \in allowed' : \E g \in usable[a.by] :
            /\ Matches(g, a.request, a.session)
            /\ 0 \notin g.left]_vars

=============================================================================
