---------------------------- MODULE GrantsProofs ----------------------------
(***************************************************************************)
(* Proofs about Grants, for any requests, grants and targets, lifetimes    *)
(* and lengths of streams.                                                 *)
(*                                                                         *)
(* The properties speak of what has been delivered; what makes them        *)
(* inductive is what every request carries before: a request in flight     *)
(* whose grant left the store for a reason is marked as revoked, or was    *)
(* registered too late to be, and a one-time grant under which something   *)
(* was delivered is consumed.                                              *)
(***************************************************************************)
EXTENDS Grants, TLAPS

GrantRecord == [at : {"unused", "stored", "consumed"} \cup Reasons,
                target : Targets \cup {None}, kind : Kinds, expires : Nat]

Flying == {"forwarded", "stream sent", "streaming"}

Authorised == {"granted", "stream granted"}

RequestRecord == [step : {"idle", "done", "failed"} \cup Authorised \cup Flying \cup Modes,
                  grant : Ids \cup {None}, revoked : BOOLEAN, late : BOOLEAN, got : Nat]

\* The request q received an answer, or a stream.
Served(q) == q.got > 0 \/ q.step = "streaming"

\* The request q is in order beside the grants G.
RequestOK(q, G) ==
    /\ q \in RequestRecord
    /\ q.step \in {"idle"} \cup Authorised \cup Modes => q.got = 0
    /\ q.step \in Authorised \cup Flying => q.grant \in Ids
    /\ q.got > 0 => q.grant \in Ids
    /\ q.grant \in Ids => G[q.grant].at # "unused"
    /\ q.step \in Flying /\ G[q.grant].at \in Reasons => q.revoked \/ q.late
    /\ Served(q) /\ G[q.grant].kind = "one-time" => G[q.grant].at = "consumed"

\* Two requests share no one-time grant when both were served.
Apart(q, p, G) ==
    ~(Served(q) /\ Served(p) /\ q.grant = p.grant /\ G[q.grant].kind = "one-time")

RequestsOK(R, G) ==
    /\ DOMAIN R = Requests
    /\ R = [r \in Requests |-> R[r]]
    /\ \A r \in Requests : RequestOK(R[r], G)
    /\ \A r, s \in Requests : r # s => Apart(R[r], R[s], G)

GrantsOK(G) ==
    /\ G \in [Ids -> GrantRecord]

Told ==
    /\ published = {g \in Ids : grant[g].at # "unused"}
    /\ withdrawn = {g \in Ids : grant[g].at \notin {"unused", "stored"}}

IInv ==
    /\ now \in 0..MaxTime
    /\ GrantsOK(grant)
    /\ RequestsOK(req, grant)
    /\ Told

---------------------------------------------------------------------------
(* What the store's operations make of the grants and the requests *)

LEMMA NeverIsNat == Never \in Nat
  BY GrantsAssumption DEF Never

\* Grants that leave the store for a reason: the requests are marked.
LEMMA RevokedOK ==
    ASSUME IInv, NEW gs \in SUBSET Stored, NEW why \in Reasons
    PROVE  /\ GrantsOK(Ended(gs, why))
           /\ RequestsOK(Marked(gs), Ended(gs, why))
<1>1. GrantsOK(Ended(gs, why))
  BY DEF IInv, GrantsOK, Ended, GrantRecord
<1>2. \A g \in Ids : /\ Ended(gs, why)[g].kind = grant[g].kind
                     /\ g \notin gs => Ended(gs, why)[g] = grant[g]
                     /\ g \in gs => Ended(gs, why)[g].at = why /\ grant[g].at = "stored"
  BY DEF IInv, GrantsOK, GrantRecord, Ended, Stored
<1>3. ASSUME NEW r \in Requests
      PROVE  RequestOK(Marked(gs)[r], Ended(gs, why)) /\ Served(Marked(gs)[r]) = Served(req[r])
             /\ Marked(gs)[r].grant = req[r].grant
  <2>1. RequestOK(req[r], grant)
    BY DEF IInv, RequestsOK
  <2>2. CASE req[r].grant \in gs
    <3>1. req[r].grant \in Ids /\ Served(req[r]) => grant[req[r].grant].kind # "one-time"
      BY <2>1, <2>2, <1>2 DEF RequestOK, Stored
    <3>2. CASE InFlight(r)
      <4>1. Marked(gs)[r] = [req[r] EXCEPT !.revoked = TRUE]
        BY <3>2, <2>2 DEF Marked
      <4> QED BY <4>1, <3>1, <3>2, <2>1, <2>2, <1>2
              DEF RequestOK, RequestRecord, Served, InFlight, Reasons, Stored
    <3>3. CASE ~InFlight(r)
      <4>1. Marked(gs)[r] = req[r]
        BY <3>3 DEF Marked
      <4>2. req[r].step \notin Flying
        BY <3>3 DEF InFlight, Authorised, Flying
      <4> QED BY <4>1, <4>2, <3>1, <2>1, <2>2, <1>2
              DEF RequestOK, RequestRecord, Served, Reasons, Stored, Authorised, Flying
    <3> QED BY <3>2, <3>3
  <2>3. CASE req[r].grant \notin gs
    <3>1. Marked(gs)[r] = req[r]
      BY <2>3 DEF Marked
    <3>2. CASE req[r].grant \in Ids
      BY <3>1, <3>2, <2>1, <2>3, <1>2 DEF RequestOK
    <3>3. CASE req[r].grant \notin Ids
      BY <3>1, <3>3, <2>1 DEF RequestOK, Served, Authorised, Flying
    <3> QED BY <3>1, <3>2, <3>3
  <2> QED BY <2>2, <2>3
<1>4. ASSUME NEW r \in Requests, NEW s \in Requests, r # s
      PROVE  Apart(Marked(gs)[r], Marked(gs)[s], Ended(gs, why))
  <2>1. Apart(req[r], req[s], grant) /\ RequestOK(req[r], grant)
    BY <1>4 DEF IInv, RequestsOK
  <2>2. Served(req[r]) => req[r].grant \in Ids
    BY <2>1 DEF RequestOK, Served, Authorised, Flying
  <2> QED BY <2>1, <2>2, <1>2, <1>3 DEF Apart
<1>5. DOMAIN Marked(gs) = Requests /\ Marked(gs) = [r \in Requests |-> Marked(gs)[r]]
  BY DEF Marked
<1> QED BY <1>1, <1>3, <1>4, <1>5 DEF RequestsOK

\* One request changes, beside grants that do not.
LEMMA OneRequestOK ==
    ASSUME NEW R, NEW G, RequestsOK(R, G), NEW r \in Requests, NEW q,
           RequestOK(q, G),
           \A s \in Requests \ {r} : Apart(q, R[s], G)
    PROVE  RequestsOK([R EXCEPT ![r] = q], G)
<1>1. \A s \in Requests : [R EXCEPT ![r] = q][s] = IF s = r THEN q ELSE R[s]
  BY DEF RequestsOK
<1>2. ASSUME NEW s \in Requests, NEW t \in Requests, s # t
      PROVE  Apart([R EXCEPT ![r] = q][s], [R EXCEPT ![r] = q][t], G)
  BY <1>1, <1>2 DEF RequestsOK, Apart
<1> QED BY <1>1, <1>2 DEF RequestsOK

\* A request that ends is in order.
LEMMA EndedOK ==
    ASSUME NEW G, NEW q, RequestOK(q, G), NEW step \in {"done", "failed"}
    PROVE  /\ RequestOK([q EXCEPT !.step = step], G)
           /\ Served([q EXCEPT !.step = step]) => Served(q)
<1> DEFINE p == [q EXCEPT !.step = step]
<1>1. p = [step |-> step, grant |-> q.grant, revoked |-> q.revoked, late |-> q.late,
           got |-> q.got]
  BY DEF RequestOK, RequestRecord
<1> HIDE DEF p
<1> QED BY <1>1 DEF RequestOK, RequestRecord, Served, Authorised, Flying, Modes

\* One request of R ends.
LEMMA OneEndsOK ==
    ASSUME NEW R, NEW G, RequestsOK(R, G), NEW r \in Requests, NEW step \in {"done", "failed"}
    PROVE  RequestsOK([R EXCEPT ![r].step = step], G)
<1> DEFINE q == [R[r] EXCEPT !.step = step]
<1>1. RequestOK(R[r], G)
  BY DEF RequestsOK
<1>2. RequestOK(q, G) /\ (Served(q) => Served(R[r])) /\ q.grant = R[r].grant
  <2>1. q.grant = R[r].grant
    BY <1>1 DEF RequestOK, RequestRecord
  <2> QED BY <1>1, <2>1, EndedOK
<1>3. [R EXCEPT ![r].step = step] = [R EXCEPT ![r] = q]
  OBVIOUS
<1> HIDE DEF q
<1>4. \A s \in Requests \ {r} : Apart(q, R[s], G)
  BY <1>2 DEF RequestsOK, Apart
<1> QED BY <1>1, <1>2, <1>3, <1>4, OneRequestOK

\* The grants that leave the store are told of.
LEMMA ToldEnded ==
    ASSUME IInv, NEW gs \in SUBSET Stored, NEW why \in Reasons \cup {"consumed"}
    PROVE  /\ published = {g \in Ids : Ended(gs, why)[g].at # "unused"}
           /\ withdrawn \cup gs = {g \in Ids : Ended(gs, why)[g].at \notin {"unused", "stored"}}
<1>1. \A g \in Ids : Ended(gs, why)[g].at = IF g \in gs THEN why ELSE grant[g].at
  BY DEF IInv, GrantsOK, GrantRecord, Ended
<1>2. why \notin {"unused", "stored"}
  BY DEF Reasons
<1> QED BY <1>1, <1>2 DEF IInv, Told, Stored

---------------------------------------------------------------------------
(* The actions *)

LEMMA Initially == Init => IInv
<1> SUFFICES ASSUME Init PROVE IInv
  OBVIOUS
<1>1. GrantsOK(grant)
  BY NeverIsNat DEF Init, GrantsOK, GrantRecord, Unused, Kinds
<1>2. RequestOK(Idle, grant) /\ ~Served(Idle)
  <2>1. Idle.step = "idle" /\ Idle.grant = None /\ Idle.got = 0
    BY DEF Idle
  <2>2. Idle \in RequestRecord
    BY DEF Idle, RequestRecord
  <2> QED BY <2>1, <2>2, GrantsAssumption DEF RequestOK, Served, Authorised, Flying, Modes
<1>3. RequestsOK(req, grant)
  BY <1>2 DEF Init, RequestsOK, Apart
<1>4. Told
  BY DEF Init, Told, Unused
<1> QED BY <1>1, <1>3, <1>4, GrantsAssumption DEF Init, IInv

LEMMA RevokeAllOK ==
    ASSUME IInv, NEW gs \in SUBSET Stored, NEW why \in Reasons, RevokeAll(gs, why)
    PROVE  IInv'
<1>1. GrantsOK(grant') /\ RequestsOK(req', grant')
  BY RevokedOK DEF RevokeAll
<1>2. /\ published = {g \in Ids : Ended(gs, why)[g].at # "unused"}
      /\ withdrawn \cup gs = {g \in Ids : Ended(gs, why)[g].at \notin {"unused", "stored"}}
  BY ToldEnded
<1>3. Told'
  BY <1>2 DEF RevokeAll, Told
<1> QED BY <1>1, <1>3 DEF IInv, RevokeAll

\* A request that was served nothing, and is not registered, or under a grant
\* of the store, or late.
LEMMA WaitingOK ==
    ASSUME NEW G, NEW q \in RequestRecord, q.got = 0, q.step # "streaming",
           q.step \in Authorised => q.grant \in Ids,
           q.step \in Flying => /\ q.grant \in Ids
                                /\ G[q.grant].at = "stored" \/ q.late,
           q.grant \in Ids => G[q.grant].at # "unused"
    PROVE  RequestOK(q, G) /\ ~Served(q)
<1>1. ~Served(q)
  BY DEF Served
<1>2. q.step \in Flying /\ G[q.grant].at \in Reasons => q.late
  BY DEF Reasons
<1> QED BY <1>1, <1>2, Zenon DEF RequestOK, Served

LEMMA GrantedShape ==
    ASSUME NEW g \in Ids, NEW mode \in Modes
    PROVE  /\ Granted(mode, g) \in RequestRecord
           /\ Granted(mode, g).step \in Authorised
           /\ Granted(mode, g).grant = g /\ Granted(mode, g).got = 0
<1>1. CASE mode = "prompt"
  BY <1>1 DEF Granted, Idle, RequestRecord, Authorised
<1>2. CASE mode # "prompt"
  BY <1>2 DEF Granted, Idle, RequestRecord, Authorised
<1> QED BY <1>1, <1>2

\* A request that has a grant of the store is in order.
LEMMA GrantedOK ==
    ASSUME NEW G, NEW g \in Ids, G[g].at = "stored", NEW mode \in Modes
    PROVE  RequestOK(Granted(mode, g), G) /\ ~Served(Granted(mode, g))
<1>1. /\ Granted(mode, g) \in RequestRecord
      /\ Granted(mode, g).step \in Authorised
      /\ Granted(mode, g).grant = g /\ Granted(mode, g).got = 0
  BY GrantedShape
<1> QED BY <1>1, WaitingOK DEF Authorised, Flying

LEMMA PromptedShape ==
    ASSUME NEW q \in RequestRecord, NEW mode \in Modes
    PROVE  /\ [q EXCEPT !.step = mode] \in RequestRecord
           /\ [q EXCEPT !.step = mode].step = mode
           /\ [q EXCEPT !.step = mode].grant = q.grant
           /\ [q EXCEPT !.step = mode].got = q.got
  BY DEF RequestRecord

\* A request that waits for a prompt is in order.
LEMMA PromptedOK ==
    ASSUME NEW G, NEW q, RequestOK(q, G), q.step = "idle", NEW mode \in Modes
    PROVE  RequestOK([q EXCEPT !.step = mode], G) /\ ~Served([q EXCEPT !.step = mode])
<1> DEFINE p == [q EXCEPT !.step = mode]
<1>1. /\ q \in RequestRecord /\ q.got = 0
      /\ q.grant \in Ids => G[q.grant].at # "unused"
  BY DEF RequestOK
<1>2. p \in RequestRecord /\ p.step = mode /\ p.grant = q.grant /\ p.got = 0
  BY <1>1, PromptedShape
<1>3. mode # "streaming" /\ mode \notin Flying /\ mode \notin Authorised
  BY DEF Modes, Authorised, Flying
<1> HIDE DEF p
<1>4. RequestOK(p, G) /\ ~Served(p)
  BY <1>1, <1>2, <1>3, WaitingOK
<1> QED BY <1>4, Zenon DEF p

LEMMA MediateOK ==
    ASSUME IInv, NEW r \in Requests, Mediate(r)
    PROVE  IInv'
<1>1. PICK mode \in Modes :
        LET valid == {g \in Lookup(TargetOf[r]) : ~Expired(g)}
            stale == Lookup(TargetOf[r]) \ valid
        IN  IF valid # {}
            THEN /\ \E g \in valid : req' = [req EXCEPT ![r] = Granted(mode, g)]
                 /\ UNCHANGED <<grant, withdrawn>>
            ELSE /\ grant' = Ended(stale, "expired")
                 /\ req' = [Marked(stale) EXCEPT ![r].step = mode]
                 /\ withdrawn' = withdrawn \cup stale
  BY DEF Mediate
<1> DEFINE valid == {g \in Lookup(TargetOf[r]) : ~Expired(g)}
           stale == Lookup(TargetOf[r]) \ valid
<1>2. CASE valid # {}
  <2>1. PICK g \in valid : req' = [req EXCEPT ![r] = Granted(mode, g)]
    BY <1>1, <1>2
  <2>2. grant' = grant /\ withdrawn' = withdrawn /\ published' = published /\ now' = now
    BY <1>1, <1>2 DEF Mediate
  <2>3. g \in Ids /\ grant[g].at = "stored"
    BY DEF Lookup, Stored
  <2>4. RequestsOK(req', grant)
    BY <2>1, <2>3, GrantedOK, OneRequestOK DEF IInv, Apart
  <2> QED BY <2>2, <2>4 DEF IInv, Told
<1>3. CASE valid = {}
  <2>1. /\ grant' = Ended(stale, "expired") /\ withdrawn' = withdrawn \cup stale
        /\ req' = [Marked(stale) EXCEPT ![r].step = mode]
        /\ published' = published /\ now' = now
    BY <1>1, <1>3 DEF Mediate
  <2>2. stale \in SUBSET Stored /\ "expired" \in Reasons
    BY DEF Lookup, Reasons
  <2> HIDE DEF stale, valid
  <2>3. GrantsOK(grant') /\ RequestsOK(Marked(stale), grant')
    BY <2>1, <2>2, RevokedOK
  <2> DEFINE R == Marked(stale)
             q == [R[r] EXCEPT !.step = mode]
  <2>4. R[r].step = "idle" /\ RequestOK(R[r], grant')
    <3>1. R[r] = req[r]
      BY DEF Marked, Mediate, InFlight
    <3> QED BY <2>3, <3>1 DEF RequestsOK, Mediate
  <2>5. req' = [R EXCEPT ![r] = q]
    BY <2>1
  <2>6. RequestOK(q, grant') /\ ~Served(q)
    BY <2>4, PromptedOK
  <2> HIDE DEF R, q
  <2>7. RequestsOK(req', grant')
    <3>1. \A s \in Requests \ {r} : Apart(q, R[s], grant')
      BY <2>6 DEF Apart
    <3> QED BY <2>3, <2>5, <2>6, <3>1, OneRequestOK DEF R
  <2>8. /\ published = {g \in Ids : Ended(stale, "expired")[g].at # "unused"}
        /\ withdrawn \cup stale =
              {g \in Ids : Ended(stale, "expired")[g].at \notin {"unused", "stored"}}
    BY <2>2, ToldEnded
  <2>9. Told'
    BY <2>1, <2>8 DEF Told
  <2> QED BY <2>1, <2>3, <2>7, <2>9 DEF IInv
<1> QED BY <1>2, <1>3


\* A grant whose id nobody uses enters the store.
LEMMA AddedOK ==
    ASSUME NEW R, NEW G, GrantsOK(G), RequestsOK(R, G), NEW g \in Ids, G[g].at = "unused",
           NEW x \in GrantRecord
    PROVE  GrantsOK([G EXCEPT ![g] = x]) /\ RequestsOK(R, [G EXCEPT ![g] = x])
<1> DEFINE H == [G EXCEPT ![g] = x]
<1>1. GrantsOK(H)
  BY DEF GrantsOK
<1>2. \A h \in Ids : h # g => H[h] = G[h]
  BY DEF GrantsOK
<1> HIDE DEF H
<1>3. ASSUME NEW r \in Requests
      PROVE  RequestOK(R[r], H)
  <2>1. RequestOK(R[r], G)
    BY DEF RequestsOK
  <2>2. CASE R[r].grant \in Ids
    BY <2>1, <2>2, <1>2 DEF RequestOK
  <2>3. CASE R[r].grant \notin Ids
    BY <2>1, <2>3 DEF RequestOK, Served, Authorised, Flying
  <2> QED BY <2>2, <2>3
<1>4. ASSUME NEW r \in Requests, NEW s \in Requests, r # s
      PROVE  Apart(R[r], R[s], H)
  <2>1. Apart(R[r], R[s], G) /\ RequestOK(R[r], G)
    BY <1>4 DEF RequestsOK
  <2>2. Served(R[r]) => R[r].grant \in Ids /\ R[r].grant # g
    BY <2>1 DEF RequestOK, Served, Authorised, Flying
  <2> QED BY <2>1, <2>2, <1>2 DEF Apart
<1>5. RequestsOK(R, H)
  BY <1>3, <1>4 DEF RequestsOK
<1> QED BY <1>1, <1>5 DEF H

LEMMA AllowOK ==
    ASSUME IInv, NEW r \in Requests, Allow(r)
    PROVE  IInv'
<1> DEFINE old == Superseded(TargetOf[r])
<1>1. PICK g \in Ids, kind \in Kinds :
        /\ grant[g].at = "unused"
        /\ grant' = [Ended(old, "superseded") EXCEPT
                       ![g] = Grant(TargetOf[r], kind, Lifetime(kind))]
        /\ req' = [Marked(old) EXCEPT ![r] = Granted(req[r].step, g)]
        /\ published' = published \cup {g}
        /\ withdrawn' = withdrawn \cup old
  BY DEF Allow
<1>2. old \in SUBSET Stored /\ "superseded" \in Reasons /\ now' = now /\ req[r].step \in Modes
  BY DEF Superseded, Lookup, Reasons, Allow
<1> HIDE DEF old
<1> DEFINE E == Ended(old, "superseded")
           x == Grant(TargetOf[r], kind, Lifetime(kind))
           H == [E EXCEPT ![g] = x]
<1>3. GrantsOK(E) /\ RequestsOK(Marked(old), E)
  BY <1>2, RevokedOK
<1>4. E[g].at = "unused" /\ g \notin old
  BY <1>1, <1>2 DEF Ended, Stored
<1>5. x \in GrantRecord /\ x.at = "stored"
  <2>1. Lifetime(kind) \in Nat
    BY GrantsAssumption, NeverIsNat DEF IInv, Lifetime, Kinds
  <2>2. TargetOf[r] \in Targets
    BY GrantsAssumption
  <2> QED BY <2>1, <2>2 DEF Grant, GrantRecord
<1>6. /\ published = {h \in Ids : E[h].at # "unused"}
      /\ withdrawn \cup old = {h \in Ids : E[h].at \notin {"unused", "stored"}}
  BY <1>2, ToldEnded
<1> HIDE DEF E, x
<1>7. GrantsOK(H) /\ RequestsOK(Marked(old), H) /\ H[g] = x /\ DOMAIN E = Ids
  BY <1>3, <1>4, <1>5, AddedOK DEF GrantsOK
<1>8. \A h \in Ids : h # g => H[h] = E[h]
  BY <1>7
<1>9. grant' = H
  BY <1>1 DEF E, x
<1> HIDE DEF H
<1>10. RequestsOK(req', H)
  <2> DEFINE q == Granted(req[r].step, g)
  <2>1. RequestOK(q, H) /\ ~Served(q)
    BY <1>2, <1>5, <1>7, GrantedOK
  <2> HIDE DEF q
  <2>2. req' = [Marked(old) EXCEPT ![r] = q]
    BY <1>1 DEF q
  <2> QED BY <1>7, <2>1, <2>2, OneRequestOK DEF Apart
<1>11. Told'
  <2>1. \A h \in Ids : grant'[h].at = IF h = g THEN "stored" ELSE E[h].at
    BY <1>5, <1>7, <1>8, <1>9
  <2>2. published' = {h \in Ids : grant'[h].at # "unused"}
    BY <1>1, <1>6, <2>1
  <2>3. withdrawn' = {h \in Ids : grant'[h].at \notin {"unused", "stored"}}
    BY <1>1, <1>4, <1>6, <2>1
  <2> QED BY <2>2, <2>3 DEF Told
<1> QED BY <1>2, <1>7, <1>9, <1>10, <1>11 DEF IInv

---------------------------------------------------------------------------
(* Answers *)

\* The request r ends beside grants that do not change.
LEMMA FailsOK ==
    ASSUME IInv, NEW r \in Requests, NEW step \in {"done", "failed"},
           req' = [req EXCEPT ![r].step = step],
           UNCHANGED <<now, grant, published, withdrawn>>
    PROVE  IInv'
<1>1. RequestsOK(req', grant)
  BY OneEndsOK DEF IInv
<1> QED BY <1>1 DEF IInv, Told

\* The only request that was served under a one-time grant consumes it.
LEMMA ConsumedOK ==
    ASSUME IInv, NEW r \in Requests, req[r].step \in Flying, ~req[r].revoked,
           grant[req[r].grant].at = "stored", grant[req[r].grant].kind = "one-time",
           NEW q \in RequestRecord, q.step \in {"done", "streaming"}, q.grant = req[r].grant
    PROVE  RequestsOK([req EXCEPT ![r] = q], Ended({req[r].grant}, "consumed"))
<1> DEFINE g == req[r].grant
           H == Ended({g}, "consumed")
<1>1. g \in Ids
  BY DEF IInv, RequestsOK, RequestOK
<1>2. \A h \in Ids : /\ H[h].kind = grant[h].kind
                     /\ h # g => H[h] = grant[h]
                     /\ h = g => H[h].at = "consumed"
  BY DEF IInv, GrantsOK, GrantRecord, Ended
<1> HIDE DEF H
<1>3. ASSUME NEW s \in Requests
      PROVE  RequestOK(req[s], H) /\ (Served(req[s]) => req[s].grant # g)
  <2>1. RequestOK(req[s], grant)
    BY DEF IInv, RequestsOK
  <2>2. CASE req[s].grant = g
    BY <2>1, <2>2, <1>1, <1>2 DEF RequestOK, Reasons
  <2>3. CASE req[s].grant # g
    <3>1. CASE req[s].grant \in Ids
      BY <2>1, <2>3, <3>1, <1>2 DEF RequestOK
    <3>2. CASE req[s].grant \notin Ids
      BY <2>1, <2>3, <3>2 DEF RequestOK, Served, Authorised, Flying
    <3> QED BY <2>3, <3>1, <3>2
  <2> QED BY <2>2, <2>3
<1>4. ASSUME NEW s \in Requests, NEW t \in Requests, s # t
      PROVE  Apart(req[s], req[t], H)
  <2>1. Apart(req[s], req[t], grant) /\ RequestOK(req[s], grant)
    BY <1>4 DEF IInv, RequestsOK
  <2>2. Served(req[s]) => req[s].grant \in Ids
    BY <2>1 DEF RequestOK, Served, Authorised, Flying
  <2> QED BY <2>1, <2>2, <1>2 DEF Apart
<1>5. RequestsOK(req, H)
  BY <1>3, <1>4 DEF IInv, RequestsOK
<1>6. RequestOK(q, H)
  BY <1>1, <1>2 DEF RequestOK, Authorised, Modes, Reasons
<1>7. \A s \in Requests \ {r} : Apart(q, req[s], H)
  BY <1>3 DEF Apart
<1>8. RequestsOK([req EXCEPT ![r] = q], H)
  BY <1>5, <1>6, <1>7, OneRequestOK
<1> QED BY <1>8 DEF H

\* A request is served under a grant that is not one-time.
LEMMA ServedOK ==
    ASSUME IInv, NEW r \in Requests, req[r].step \in Flying, ~req[r].revoked,
           grant[req[r].grant].kind # "one-time",
           NEW q \in RequestRecord, q.step \in {"done", "streaming"}, q.grant = req[r].grant,
           q.late = req[r].late
    PROVE  RequestsOK([req EXCEPT ![r] = q], grant)
<1>1. RequestOK(req[r], grant)
  BY DEF IInv, RequestsOK
<1>2. RequestOK(q, grant)
  BY <1>1 DEF RequestOK, Modes, Authorised
<1> QED BY <1>2, OneRequestOK DEF IInv, Apart

LEMMA SettleOK ==
    ASSUME IInv, NEW r \in Requests, req[r].step \in Flying,
           NEW q \in RequestRecord, q.step \in {"done", "streaming"}, q.grant = req[r].grant,
           q.late = req[r].late,
           NEW next, next = [req EXCEPT ![r] = q], Settle(r, next)
    PROVE  IInv'
<1>1. now' = now /\ published' = published
  BY DEF Settle
<1>2. CASE Fail(r) /\ UNCHANGED <<grant, withdrawn>>
  BY <1>1, <1>2, FailsOK DEF Fail
<1>3. CASE ~req[r].revoked /\ grant[req[r].grant].kind = "one-time" /\ Consume(r, next)
  <2> DEFINE g == req[r].grant
  <2>1. g \in Ids
    BY DEF IInv, RequestsOK, RequestOK
  <2>2. CASE g \notin Stored
    BY <1>1, <1>3, <2>1, <2>2, FailsOK DEF Fail, Consume, Stored
  <2>3. CASE g \in Stored /\ Expired(g)
    <3>1. /\ grant' = Ended({g}, "expired")
          /\ req' = [Marked({g}) EXCEPT ![r].step = "failed"]
          /\ withdrawn' = withdrawn \cup {g}
      BY <1>3, <2>3 DEF Consume, Stored
    <3>2. {g} \in SUBSET Stored /\ "expired" \in Reasons
      BY <2>3 DEF Reasons
    <3> HIDE DEF g
    <3>3. GrantsOK(grant') /\ RequestsOK(Marked({g}), grant')
      BY <3>1, <3>2, RevokedOK
    <3>4. RequestsOK(req', grant')
      BY <3>1, <3>3, OneEndsOK
    <3>5. Told'
      <4>1. /\ published = {h \in Ids : Ended({g}, "expired")[h].at # "unused"}
            /\ withdrawn \cup {g} =
                  {h \in Ids : Ended({g}, "expired")[h].at \notin {"unused", "stored"}}
        BY <3>2, ToldEnded
      <4> QED BY <4>1, <3>1, <1>1 DEF Told
    <3> QED BY <1>1, <3>3, <3>4, <3>5 DEF IInv
  <2>4. CASE g \in Stored /\ ~Expired(g)
    <3>1. /\ grant' = Ended({g}, "consumed") /\ req' = next
          /\ withdrawn' = withdrawn \cup {g}
      BY <1>3, <2>4 DEF Consume, Stored
    <3>2. RequestsOK(req', grant')
      BY <1>3, <2>4, <3>1, ConsumedOK DEF Stored
    <3>3. GrantsOK(grant')
      BY <3>1 DEF IInv, GrantsOK, GrantRecord, Ended
    <3>4. Told'
      <4>1. /\ published = {h \in Ids : Ended({g}, "consumed")[h].at # "unused"}
            /\ withdrawn \cup {g} =
                  {h \in Ids : Ended({g}, "consumed")[h].at \notin {"unused", "stored"}}
        BY <2>4, ToldEnded, {g} \in SUBSET Stored
      <4> QED BY <4>1, <3>1, <1>1 DEF Told
    <3> QED BY <1>1, <3>2, <3>3, <3>4 DEF IInv
  <2> QED BY <2>2, <2>3, <2>4
<1>4. CASE /\ ~req[r].revoked /\ grant[req[r].grant].kind # "one-time"
           /\ req' = next /\ UNCHANGED <<grant, withdrawn>>
  <2>1. RequestsOK(req', grant)
    BY <1>4, ServedOK
  <2> QED BY <1>1, <1>4, <2>1 DEF IInv, Told
<1> QED BY <1>2, <1>3, <1>4 DEF Settle

LEMMA AnsweredOK ==
    ASSUME IInv, NEW r \in Requests, Answered(r)
    PROVE  IInv'
<1> DEFINE q == [req[r] EXCEPT !.step = "done", !.got = 1]
<1>1. req[r] \in RequestRecord
  BY DEF IInv, RequestsOK, RequestOK
<1>3. q \in RequestRecord /\ q.step = "done" /\ q.grant = req[r].grant
        /\ q.late = req[r].late
  BY <1>1 DEF RequestRecord
<1> HIDE DEF q
<1>4. Settle(r, [req EXCEPT ![r].step = "done", ![r].got = 1])
  BY DEF Answered
<1>5. [req EXCEPT ![r].step = "done", ![r].got = 1] = [req EXCEPT ![r] = q]
  BY DEF q, IInv, RequestsOK
<1> QED BY <1>3, <1>4, <1>5, SettleOK DEF Answered, Authorised, Flying

LEMMA StreamOpensOK ==
    ASSUME IInv, NEW r \in Requests, StreamOpens(r)
    PROVE  IInv'
<1> DEFINE q == [req[r] EXCEPT !.step = "streaming"]
<1>1. req[r] \in RequestRecord
  BY DEF IInv, RequestsOK, RequestOK
<1>2. q \in RequestRecord /\ q.step = "streaming" /\ q.grant = req[r].grant
        /\ q.late = req[r].late
  BY <1>1 DEF RequestRecord, Authorised, Flying
<1>3. [req EXCEPT ![r].step = "streaming"] = [req EXCEPT ![r] = q]
  OBVIOUS
<1>4. Settle(r, [req EXCEPT ![r].step = "streaming"])
  BY DEF StreamOpens
<1> HIDE DEF q
<1> QED BY <1>2, <1>3, <1>4, SettleOK DEF StreamOpens, Authorised, Flying

LEMMA StreamItemOK ==
    ASSUME IInv, NEW r \in Requests, StreamItem(r)
    PROVE  IInv'
<1>1. CASE req[r].revoked
  BY <1>1, FailsOK DEF StreamItem, Fail
<1>2. CASE ~req[r].revoked
  <2> DEFINE q == [req[r] EXCEPT !.got = @ + 1]
  <2>1. RequestOK(req[r], grant) /\ req[r].step = "streaming"
    BY DEF IInv, RequestsOK, StreamItem
  <2>2. q \in RequestRecord /\ q.step = "streaming" /\ q.grant = req[r].grant
        /\ q.revoked = req[r].revoked /\ q.late = req[r].late
    BY <2>1 DEF RequestOK, RequestRecord
  <2>3. req' = [req EXCEPT ![r] = q]
    BY <1>2 DEF StreamItem
  <2> HIDE DEF q
  <2>4. RequestOK(q, grant)
    BY <2>1, <2>2, Zenon DEF RequestOK, Served, Authorised, Flying, Modes
  <2>5. \A s \in Requests \ {r} : Apart(q, req[s], grant)
    BY <2>1, <2>2 DEF Apart, Served, IInv, RequestsOK
  <2>6. RequestsOK(req', grant)
    BY <2>3, <2>4, <2>5, OneRequestOK DEF IInv
  <2> QED BY <2>6 DEF IInv, Told, StreamItem
<1> QED BY <1>1, <1>2

\* Nothing was delivered before the registration; if the grant is not in the
\* store any more, the request is late.
LEMMA RegisterOK ==
    ASSUME IInv, NEW r \in Requests, Register(r)
    PROVE  IInv'
<1> DEFINE q == [req[r] EXCEPT
                  !.step = IF @ = "granted" THEN "forwarded" ELSE "stream sent",
                  !.late = req[r].grant \notin Stored]
<1>1. /\ RequestOK(req[r], grant) /\ req[r].step \in Authorised
      /\ req' = [req EXCEPT ![r] = q]
  BY DEF IInv, RequestsOK, Register, Authorised
<1>2. /\ req[r] \in RequestRecord /\ req[r].got = 0 /\ req[r].grant \in Ids
      /\ grant[req[r].grant].at # "unused"
  BY <1>1 DEF RequestOK
<1>3. /\ q \in RequestRecord /\ q.step \in {"forwarded", "stream sent"}
      /\ q.grant = req[r].grant /\ q.got = 0
      /\ q.late = (req[r].grant \notin Stored)
  BY <1>2 DEF RequestRecord, Authorised, Flying
<1> HIDE DEF q
<1>4. grant[q.grant].at = "stored" \/ q.late
  BY <1>2, <1>3 DEF Stored
<1>5. RequestOK(q, grant) /\ ~Served(q)
  BY <1>2, <1>3, <1>4, WaitingOK DEF Authorised
<1>6. RequestsOK(req', grant)
  BY <1>1, <1>5, OneRequestOK DEF IInv, Apart
<1> QED BY <1>6 DEF IInv, Told, Register

LEMMA RevocationsOK ==
    ASSUME IInv,
           RevokeGrant \/ RevokeGrantsByOrigin \/ TerminateSession
              \/ ExpireStaleGrants \/ ExpireSessionGrants
    PROVE  IInv'
<1>1. \E gs \in SUBSET Stored, why \in Reasons : RevokeAll(gs, why)
  <2>1. CASE RevokeGrant
    <3>1. PICK g \in Stored : RevokeAll({g}, "user")
      BY <2>1 DEF RevokeGrant
    <3> QED BY <3>1 DEF Reasons
  <2>2. CASE RevokeGrantsByOrigin
    BY <2>2 DEF RevokeGrantsByOrigin, Reasons
  <2>3. CASE TerminateSession
    BY <2>3 DEF TerminateSession, Reasons
  <2>4. CASE ExpireStaleGrants
    BY <2>4 DEF ExpireStaleGrants, Reasons
  <2>5. CASE ExpireSessionGrants
    BY <2>5 DEF ExpireSessionGrants, Reasons
  <2> QED BY <2>1, <2>2, <2>3, <2>4, <2>5
<1> QED BY <1>1, RevokeAllOK

LEMMA Preserved == IInv /\ [Next]_vars => IInv'
<1> SUFFICES ASSUME IInv, [Next]_vars PROVE IInv'
  OBVIOUS
<1>1. ASSUME NEW r \in Requests, Request(r) PROVE IInv'
  <2>1. CASE Mediate(r)
    BY <2>1, MediateOK
  <2>2. CASE Deny(r)
    BY <2>2, FailsOK DEF Deny
  <2>3. CASE Allow(r)
    BY <2>3, AllowOK
  <2>4. CASE Answered(r)
    BY <2>4, AnsweredOK
  <2>5. CASE StreamOpens(r)
    BY <2>5, StreamOpensOK
  <2>6. CASE StreamItem(r)
    BY <2>6, StreamItemOK
  <2>7. CASE StreamEnds(r)
    BY <2>7, FailsOK DEF StreamEnds
  <2>8. CASE TransportFails(r)
    BY <2>8, FailsOK DEF TransportFails, Fail
  <2>9. CASE Register(r)
    BY <2>9, RegisterOK
  <2> QED BY <1>1, <2>1, <2>2, <2>3, <2>4, <2>5, <2>6, <2>7, <2>8, <2>9 DEF Request
<1>2. CASE Tick
  <2>1. now' \in 0..MaxTime
    BY <1>2, GrantsAssumption DEF Tick, IInv
  <2> QED BY <1>2, <2>1 DEF Tick, IInv, Told
<1>3. CASE UNCHANGED vars
  BY <1>3 DEF vars, IInv, Told
<1> QED BY <1>1, <1>2, <1>3, RevocationsOK DEF Next

LEMMA Inductive == Spec => []IInv
<1> QED BY Initially, Preserved, PTL DEF Spec

---------------------------------------------------------------------------
(* The theorems *)

\* The state keeps its shape, and a request in flight names its grant.
THEOREM TypeCorrect == Spec => []TypeOK
<1>1. IInv => TypeOK
  <2> SUFFICES ASSUME IInv PROVE TypeOK
    OBVIOUS
  <2>1. \A r \in Requests : RequestOK(req[r], grant)
    BY DEF IInv, RequestsOK
  <2>2. req \in [Requests -> [step : {"idle", "granted", "stream granted", "forwarded",
                                     "stream sent", "streaming", "done", "failed"}
                                    \cup Modes,
                             grant : Ids \cup {None}, revoked : BOOLEAN, late : BOOLEAN,
                             got : Nat]]
    <3>1. \A r \in Requests : req[r] \in [step : {"idle", "granted", "stream granted", "forwarded",
                                     "stream sent", "streaming", "done", "failed"}
                                    \cup Modes,
                             grant : Ids \cup {None}, revoked : BOOLEAN, late : BOOLEAN,
                             got : Nat]
      <4>1. RequestRecord = [step : {"idle", "granted", "stream granted", "forwarded",
                                     "stream sent", "streaming", "done", "failed"}
                                    \cup Modes,
                             grant : Ids \cup {None}, revoked : BOOLEAN, late : BOOLEAN,
                             got : Nat]
        <5>1. {"idle", "done", "failed"} \cup Authorised \cup Flying \cup Modes
                = {"idle", "granted", "stream granted", "forwarded", "stream sent",
                   "streaming", "done", "failed"} \cup Modes
          BY DEF Authorised, Flying
        <5> QED BY <5>1 DEF RequestRecord
      <4> QED BY <2>1, <4>1 DEF RequestOK
    <3>2. req = [r \in Requests |-> req[r]]
      BY DEF IInv, RequestsOK
    <3> QED BY <3>1, <3>2
  <2>3. \A r \in Requests : InFlight(r) => req[r].grant \in Ids
    BY <2>1 DEF RequestOK, InFlight, Authorised, Flying
  <2>4. published \subseteq Ids /\ withdrawn \subseteq Ids
    BY DEF IInv, Told
  <2>5. grant \in [Ids -> [at : {"unused", "stored", "consumed"} \cup Reasons,
                          target : Targets \cup {None}, kind : Kinds, expires : Nat]]
    BY DEF IInv, GrantsOK, GrantRecord
  <2>6. now \in 0..MaxTime
    BY DEF IInv
  <2> QED BY <2>2, <2>3, <2>4, <2>5, <2>6 DEF TypeOK
<1> QED BY <1>1, Inductive, PTL

\* Of the requests forwarded under one one-time grant, one is served.
THEOREM OneTimeOnce == Spec => []OneTimeServesOne
<1>1. IInv => OneTimeServesOne
  BY DEF IInv, RequestsOK, Apart, Served, OneTimeServesOne
<1> QED BY <1>1, Inductive, PTL

\* The bridge was told of exactly the grants in the store.
THEOREM ToldExactly == Spec => []BridgeTold
<1>1. IInv => BridgeTold
  BY DEF IInv, Told, BridgeTold, Stored
<1> QED BY <1>1, Inductive, PTL

\* A grant that leaves the store for a reason while a request is registered
\* under it delivers nothing more to it; a request that was registered too
\* late for that gets nothing from a one-time grant.
THEOREM RegisteredStopped == Spec => RevokedStopsRegistered
<1>1. IInv /\ [Next]_vars =>
        [\A r \in Requests :
            LET g == grant[req[r].grant] IN
            req'[r].got > req[r].got /\ g.at \in Reasons
                => req[r].late /\ g.kind # "one-time"]_vars
  <2> SUFFICES ASSUME IInv, Next, NEW s \in Requests, req'[s].got > req[s].got,
                      grant[req[s].grant].at \in Reasons
               PROVE  req[s].late /\ grant[req[s].grant].kind # "one-time"
    OBVIOUS
  <2>1. RequestOK(req[s], grant) /\ req[s].got \in Nat /\ DOMAIN req = Requests
    BY DEF IInv, RequestsOK, RequestOK, RequestRecord
  <2>2. ASSUME NEW gs PROVE Marked(gs)[s].got = req[s].got /\ DOMAIN Marked(gs) = Requests
    BY DEF Marked, IInv, RequestsOK, RequestOK, RequestRecord
  <2>3. ASSUME NEW gs, NEW why, RevokeAll(gs, why) PROVE FALSE
    BY <2>1, <2>2, <2>3 DEF RevokeAll
  <2>4. PICK r \in Requests : Request(r)
    <3>1. ~Tick
      BY <2>1 DEF Tick
    <3>2. ~RevokeGrant /\ ~RevokeGrantsByOrigin /\ ~TerminateSession
      BY <2>3 DEF RevokeGrant, RevokeGrantsByOrigin, TerminateSession
    <3>3. ~ExpireStaleGrants /\ ~ExpireSessionGrants
      BY <2>3 DEF ExpireStaleGrants, ExpireSessionGrants
    <3> QED BY <3>1, <3>2, <3>3 DEF Next
  <2>5. ASSUME NEW step, req' = [req EXCEPT ![r].step = step] PROVE FALSE
    BY <2>1, <2>5
  <2>6. ASSUME NEW gs, NEW step, req' = [Marked(gs) EXCEPT ![r].step = step] PROVE FALSE
    <3>1. Marked(gs)[s] \in RequestRecord
      BY DEF Marked, IInv, RequestsOK, RequestOK, RequestRecord
    <3>2. [Marked(gs)[s] EXCEPT !.step = step].got = Marked(gs)[s].got
      BY <3>1 DEF RequestRecord
    <3>3. CASE r = s
      <4>1. req'[s] = [Marked(gs)[s] EXCEPT !.step = step]
        BY <2>2, <2>6, <3>3
      <4> QED BY <2>1, <2>2, <3>2, <4>1
    <3>4. CASE r # s
      <4>1. req'[s] = Marked(gs)[s]
        BY <2>2, <2>6, <3>4
      <4> QED BY <2>1, <2>2, <4>1
    <3> QED BY <3>3, <3>4
  <2>7. ~Mediate(r) /\ ~Allow(r)
    <3>1. \A mode, h : Granted(mode, h).got = 0
      BY DEF Granted, Idle
    <3>2. ~Mediate(r)
      <4> SUFFICES ASSUME Mediate(r) PROVE FALSE
        OBVIOUS
      <4>1. \/ \E mode, g : req' = [req EXCEPT ![r] = Granted(mode, g)]
            \/ \E mode, gs : req' = [Marked(gs) EXCEPT ![r].step = mode]
        BY DEF Mediate
      <4>2. ASSUME NEW mode, NEW g, req' = [req EXCEPT ![r] = Granted(mode, g)] PROVE FALSE
        BY <2>1, <3>1, <4>2
      <4> QED BY <2>6, <4>1, <4>2
    <3>3. ~Allow(r)
      BY <2>1, <2>2, <3>1 DEF Allow
    <3> QED BY <3>2, <3>3
  <2>8. ~Deny(r) /\ ~StreamEnds(r) /\ ~TransportFails(r) /\ ~Register(r)
    <3>1. ~Deny(r) /\ ~StreamEnds(r) /\ ~TransportFails(r)
      BY <2>5 DEF Deny, StreamEnds, TransportFails, Fail
    <3>2. ~Register(r)
      <4> SUFFICES ASSUME Register(r) PROVE FALSE
        OBVIOUS
      <4> DEFINE q == [req[r] EXCEPT
                        !.step = IF @ = "granted" THEN "forwarded" ELSE "stream sent",
                        !.late = req[r].grant \notin Stored]
      <4>1. req' = [req EXCEPT ![r] = q]
        BY DEF Register
      <4>2. q.got = req[r].got
        BY DEF IInv, RequestsOK, RequestOK, RequestRecord
      <4> HIDE DEF q
      <4> QED BY <2>1, <4>1, <4>2
    <3> QED BY <3>1, <3>2
  <2> DEFINE g == grant[req[r].grant]
  <2>9. ASSUME Answered(r) \/ StreamOpens(r) \/ StreamItem(r)
        PROVE  /\ r = s /\ req[r].step \in Flying /\ ~req[r].revoked
               /\ g.kind # "one-time" \/ g.at \notin Reasons
    <3>1. CASE StreamItem(r)
      <4>1. r = s /\ req[r].step = "streaming" /\ ~req[r].revoked
        BY <2>1, <2>5, <3>1 DEF StreamItem, Fail
      <4>2. g.kind = "one-time" => g.at = "consumed"
        BY <2>1, <4>1 DEF RequestOK, Served
      <4> QED BY <4>1, <4>2 DEF Flying, Reasons
    <3>2. ASSUME NEW next, Settle(r, next), next \in {[req EXCEPT ![r].step = "done", ![r].got = 1],
                                                     [req EXCEPT ![r].step = "streaming"]}
          PROVE  r = s /\ ~req[r].revoked /\ (g.kind # "one-time" \/ g.at \notin Reasons)
      <4>1. ~req[r].revoked
        BY <2>5, <3>2 DEF Settle, Fail
      <4>2. req' = next /\ (g.kind # "one-time" \/ g.at \notin Reasons)
        <5>1. CASE g.kind = "one-time" /\ Consume(r, next)
          <6>1. \/ Fail(r)
                \/ req' = [Marked({req[r].grant}) EXCEPT ![r].step = "failed"]
                \/ req' = next /\ g.at = "stored"
            BY <5>1 DEF Consume
          <6>2. req' # [Marked({req[r].grant}) EXCEPT ![r].step = "failed"]
            BY <2>6
          <6> QED BY <2>5, <6>1, <6>2 DEF Fail, Reasons
        <5>2. CASE g.kind # "one-time" /\ req' = next
          BY <5>2
        <5> QED BY <3>2, <4>1, <5>1, <5>2 DEF Settle
      <4> QED BY <2>1, <3>2, <4>1, <4>2
    <3>3. CASE Answered(r)
      BY <3>2, <3>3 DEF Answered, Flying
    <3>4. CASE StreamOpens(r)
      BY <3>2, <3>4 DEF StreamOpens, Flying
    <3> QED BY <2>9, <3>1, <3>3, <3>4
  <2> QED BY <2>1, <2>4, <2>7, <2>8, <2>9 DEF Request, RequestOK
<1> QED BY <1>1, Inductive, PTL DEF RevokedStopsRegistered, Spec

=============================================================================
