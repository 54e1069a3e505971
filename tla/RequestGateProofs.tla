------------------------ MODULE RequestGateProofs -------------------------
(***************************************************************************)
(* Proofs about RequestGate, for every lifetime, skew and size of the      *)
(* table and any grants: the envelope of a request passes once, and only a *)
(* live grant allows it.                                                   *)
(***************************************************************************)
EXTENDS RequestGate, TLAPS

GateTypes ==
    /\ consumed \in [Nonces -> SUBSET (0..NonceTTL)]
    /\ envelopes \in [Nonces -> SUBSET (0..NonceTTL)]
    /\ passes \in [Nonces -> Nat]

\* What makes PassesOnce inductive: while the envelope that passed is valid,
\* its nonce is in the table, and young enough to stay there as long.
RememberedOf(n) ==
    /\ passes[n] \in {0, 1}
    /\ passes[n] = 1 => envelopes[n] # {}
    /\ passes[n] = 1 => \A left \in envelopes[n] :
                            left > 0 => \E a \in consumed[n] : a + left <= NonceTTL

Remembered ==
    /\ GateTypes
    /\ \A n \in Nonces : RememberedOf(n)

LEMMA ConstantsOK == NonceTTL \in Nat /\ MaxLifetime \in Nat \ {0} /\ MaxSkew \in Nat
BY GateAssumption DEF NonceTTL

LEMMA ExpiriesInTTL == Expiries \subseteq 1..NonceTTL
BY DEF Expiries

LEMMA RememberedInit == Init => Remembered
BY ConstantsOK DEF Init, Remembered, RememberedOf, GateTypes, Forgotten

\* The clean-up of the table loses no nonce that is still needed.
LEMMA KeptRemembers ==
    ASSUME Remembered, NEW n \in Nonces, passes[n] = 1,
           NEW left \in envelopes[n], left > 0
    PROVE  \E a \in Kept(consumed)[n] : a + left <= NonceTTL
<1>1. PICK a \in consumed[n] : a + left <= NonceTTL
  BY DEF Remembered, RememberedOf
<1>2. a \in Nat /\ left \in Nat
  BY ConstantsOK DEF Remembered, GateTypes
<1>3. a < NonceTTL
  BY <1>1, <1>2, ConstantsOK
<1>4. a \in Kept(consumed)[n]
  BY <1>3 DEF Kept
<1> QED  BY <1>1, <1>4

LEMMA KeptTypes == Remembered => Kept(consumed) \in [Nonces -> SUBSET (0..NonceTTL)]
BY DEF Remembered, GateTypes, Kept

LEMMA VerifiedKeeps ==
    ASSUME Remembered, NEW m \in Nonces, NEW e \in Expiries, Verified(m, e)
    PROVE  Remembered'
<1>1. e \in 1..NonceTTL
  BY ExpiriesInTTL
<1>2. consumed' = [Kept(consumed) EXCEPT ![m] = {0}] /\ Kept(consumed)[m] = {}
  BY DEF Verified, Consume
<1>3. envelopes' = [envelopes EXCEPT ![m] = {e}] /\ passes' = [passes EXCEPT ![m] = @ + 1]
  BY DEF Verified
<1>4. GateTypes'
  BY <1>1, <1>2, <1>3, KeptTypes, ConstantsOK DEF GateTypes, Remembered
\* Had it passed before, its envelope would still be valid and its nonce known.
<1>5. passes[m] = 0
  <2>1. SUFFICES ASSUME passes[m] = 1 PROVE FALSE
    BY DEF Remembered, RememberedOf
  <2>2. PICK left \in envelopes[m] : left = e
    BY <2>1 DEF Remembered, RememberedOf, Verified
  <2>3. left > 0
    BY <2>2, <1>1
  <2> QED  BY <2>1, <2>3, <1>2, KeptRemembers
<1>6. ASSUME NEW n \in Nonces PROVE RememberedOf(n)'
  <2>1. CASE n = m
    <3>1. passes'[n] = 1 /\ envelopes'[n] = {e} /\ consumed'[n] = {0}
      BY <2>1, <1>2, <1>3, <1>5, KeptTypes DEF Remembered, GateTypes
    <3>2. 0 + e <= NonceTTL
      BY <1>1, ConstantsOK
    <3> QED  BY <3>1, <3>2, ConstantsOK DEF RememberedOf, NonceTTL
  <2>2. CASE n # m
    <3>1. passes'[n] = passes[n] /\ envelopes'[n] = envelopes[n] /\ consumed'[n] = Kept(consumed)[n]
      BY <2>2, <1>2, <1>3, KeptTypes DEF Remembered, GateTypes
    <3>2. RememberedOf(n)
      BY DEF Remembered
    <3> QED  BY <3>1, <3>2, KeptRemembers DEF RememberedOf, NonceTTL
  <2> QED  BY <2>1, <2>2
<1> QED  BY <1>4, <1>6 DEF Remembered

LEMMA RefusedKeeps == Remembered /\ CheckRefused => Remembered'
<1> SUFFICES ASSUME Remembered, CheckRefused PROVE Remembered'
  OBVIOUS
<1>1. consumed' = Kept(consumed) /\ envelopes' = envelopes /\ passes' = passes
  BY DEF CheckRefused
<1>2. ASSUME NEW n \in Nonces PROVE RememberedOf(n)'
  <2>1. RememberedOf(n)
    BY DEF Remembered
  <2> QED  BY <1>1, <2>1, KeptRemembers DEF RememberedOf, NonceTTL
<1> QED  BY <1>1, <1>2, KeptTypes DEF Remembered, GateTypes, NonceTTL

LEMMA ChatKeeps == ASSUME Remembered, NEW m \in Nonces, Chat(m) PROVE Remembered'
<1>1. envelopes' = envelopes /\ passes' = passes
  BY DEF Chat
<1>2. CASE Kept(consumed)[m] # {}
  <2>1. consumed' = Kept(consumed)
    BY <1>2 DEF Chat
  <2>2. ASSUME NEW n \in Nonces PROVE RememberedOf(n)'
    <3>1. RememberedOf(n)
      BY DEF Remembered
    <3> QED  BY <1>1, <2>1, <3>1, KeptRemembers DEF RememberedOf, NonceTTL
  <2> QED  BY <1>1, <2>1, <2>2, KeptTypes DEF Remembered, GateTypes, NonceTTL
<1>3. CASE Kept(consumed)[m] = {}
  <2>1. consumed' = [Kept(consumed) EXCEPT ![m] = {0}]
    BY <1>3 DEF Chat, Consume
  <2>2. ASSUME NEW n \in Nonces PROVE RememberedOf(n)'
    <3>1. RememberedOf(n)
      BY DEF Remembered
    <3>2. CASE n # m
      <4>1. consumed'[n] = Kept(consumed)[n]
        BY <2>1, <3>2, KeptTypes
      <4> QED  BY <1>1, <3>1, <4>1, KeptRemembers DEF RememberedOf, NonceTTL
    \* Its envelope is not valid any more: the table has forgotten the nonce.
    <3>3. CASE n = m
      <4>1. ASSUME passes[n] = 1, NEW left \in envelopes[n], left > 0 PROVE FALSE
        BY <1>3, <3>3, <4>1, KeptRemembers
      <4> QED  BY <1>1, <3>1, <4>1 DEF RememberedOf, NonceTTL
    <3> QED  BY <3>2, <3>3
  <2>3. GateTypes'
    BY <1>1, <2>1, KeptTypes, ConstantsOK DEF Remembered, GateTypes, NonceTTL
  <2> QED  BY <2>2, <2>3 DEF Remembered
<1> QED  BY <1>2, <1>3

LEMMA TickKeeps == Remembered /\ Tick => Remembered'
<1> SUFFICES ASSUME Remembered, Tick PROVE Remembered'
  OBVIOUS
<1>1. /\ consumed' = [n \in Nonces |-> {IF a < NonceTTL THEN a + 1 ELSE a : a \in consumed[n]}]
      /\ envelopes' = [n \in Nonces |-> {Less(t) : t \in envelopes[n]}]
      /\ passes' = passes
  BY DEF Tick
<1>2. GateTypes'
  <2>1. ASSUME NEW n \in Nonces
        PROVE  /\ {IF a < NonceTTL THEN a + 1 ELSE a : a \in consumed[n]} \subseteq 0..NonceTTL
               /\ {Less(t) : t \in envelopes[n]} \subseteq 0..NonceTTL
    <3>1. consumed[n] \subseteq 0..NonceTTL /\ envelopes[n] \subseteq 0..NonceTTL
      BY DEF Remembered, GateTypes
    <3> QED  BY <3>1, ConstantsOK DEF Less
  <2> QED  BY <1>1, <2>1 DEF Remembered, GateTypes, NonceTTL
<1>3. ASSUME NEW n \in Nonces PROVE RememberedOf(n)'
  <2>1. RememberedOf(n) /\ passes'[n] = passes[n]
    BY <1>1 DEF Remembered
  <2>2. envelopes[n] # {} => envelopes'[n] # {}
    BY <1>1
  <2>3. ASSUME passes[n] = 1, NEW left \in envelopes'[n], left > 0
        PROVE  \E a \in consumed'[n] : a + left <= NonceTTL
    <3>1. PICK old \in envelopes[n] : left = Less(old)
      BY <1>1
    <3>2. old \in Nat
      BY ConstantsOK DEF Remembered, GateTypes
    <3>3. old > 0 /\ left = old - 1
      BY <2>3, <3>1, <3>2 DEF Less
    <3>4. PICK a \in consumed[n] : a + old <= NonceTTL
      BY <2>1, <2>3, <3>3 DEF RememberedOf
    <3>5. a \in Nat
      BY ConstantsOK DEF Remembered, GateTypes
    <3>6. a < NonceTTL /\ (a + 1) + left <= NonceTTL
      BY <3>2, <3>3, <3>4, <3>5, ConstantsOK
    <3>7. a + 1 \in consumed'[n]
      BY <1>1, <3>6
    <3> QED  BY <3>6, <3>7
  <2> QED  BY <2>1, <2>2, <2>3 DEF RememberedOf, NonceTTL
<1> QED  BY <1>2, <1>3 DEF Remembered

LEMMA ReuseKeeps == ASSUME Remembered, NEW m \in Nonces, Reuse(m) PROVE Remembered'
<1>1. /\ envelopes' = [envelopes EXCEPT ![m] = {}]
      /\ passes' = [passes EXCEPT ![m] = 0]
      /\ consumed' = consumed
  BY DEF Reuse
<1>2. ASSUME NEW n \in Nonces PROVE RememberedOf(n)'
  BY <1>1 DEF Remembered, RememberedOf, GateTypes, NonceTTL
<1> QED  BY <1>1, <1>2 DEF Remembered, GateTypes, NonceTTL

LEMMA RestartKeeps == Remembered /\ Restart => Remembered'
BY ConstantsOK DEF Remembered, RememberedOf, GateTypes, Restart, Forgotten, NonceTTL

LEMMA GateUntouched == Remembered /\ UNCHANGED gateVars => Remembered'
BY DEF Remembered, RememberedOf, GateTypes, gateVars, NonceTTL

LEMMA RememberedNext == Remembered /\ [Next]_vars => Remembered'
<1> SUFFICES ASSUME Remembered, [Next]_vars PROVE Remembered'
  OBVIOUS
<1>1. ASSUME NEW n \in Nonces, NEW e \in Expiries, NEW r \in Requests,
             NEW session \in NoneOrOne(Sessions), Check(n, e, r, session)
      PROVE  Remembered'
  BY <1>1, VerifiedKeeps DEF Check
<1>2. CASE CheckRefused
  BY <1>2, RefusedKeeps
<1>3. ASSUME NEW n \in Nonces, Chat(n) \/ Reuse(n) PROVE Remembered'
  BY <1>3, ChatKeeps, ReuseKeeps
<1>4. ASSUME NEW g \in Grants, GrantSync(g) PROVE Remembered'
  BY <1>4, GateUntouched DEF GrantSync
<1>5. ASSUME NEW i \in Ids, GrantRevoke(i) PROVE Remembered'
  BY <1>5, GateUntouched DEF GrantRevoke
<1>6. CASE Tick
  BY <1>6, TickKeeps
<1>7. CASE Restart
  BY <1>7, RestartKeeps
<1>8. CASE UNCHANGED vars
  BY <1>8, GateUntouched DEF vars
<1> QED  BY <1>1, <1>2, <1>3, <1>4, <1>5, <1>6, <1>7, <1>8 DEF Next

---------------------------------------------------------------------------
(* The grants.  Every grant in the enforcer's table is the one its id was  *)
(* last synced with, and a one-time grant that is still there has allowed  *)
(* nothing; so whatever the table lets evaluate select may allow.          *)

\* The Map keeps its ids in one order.
OrderOK ==
    /\ \A i, j \in IdsOf(grants) : i # j => <<i, j>> \in before \/ <<j, i>> \in before
    /\ \A i, j \in Ids : <<i, j>> \in before => <<j, i>> \notin before
    /\ before \subseteq IdsOf(grants) \X IdsOf(grants)

TableOK == \A g \in grants : usable[g.id] = {g}

GrantTypes ==
    /\ grants \subseteq Grants
    /\ before \subseteq Ids \X Ids
    /\ usable \in [Ids -> SUBSET Grants]
    /\ allowed \in NoneOrOne(Allowances)

Mirrored == GrantTypes /\ OrderOK /\ TableOK

LEMMA GrantFields ==
    \A g \in Grants : /\ g.id \in Ids /\ g.left \in SUBSET (0..MaxLeft)
                      /\ g.left \in NoneOrOne(0..MaxLeft)
  BY DEF Grants, NoneOrOne

LEMMA IdsOfGrants == \A gs \in SUBSET Grants : IdsOf(gs) \subseteq Ids
  BY GrantFields DEF IdsOf

\* Some of the grants go: the others keep their order.
LEMMA RetainKeeps ==
    ASSUME Mirrored, NEW gs, gs \subseteq grants, Retain(gs)
    PROVE  OrderOK' /\ grants' \subseteq Grants /\ before' \subseteq Ids \X Ids
<1>1. /\ grants' = gs
      /\ before' = {b \in before : b[1] \in IdsOf(gs) /\ b[2] \in IdsOf(gs)}
  BY DEF Retain
<1>2. before \subseteq Ids \X Ids /\ IdsOf(gs) \subseteq IdsOf(grants)
  BY DEF Mirrored, GrantTypes, IdsOf
<1>3. \A i, j : <<i, j>> \in before' <=> <<i, j>> \in before /\ i \in IdsOf(gs) /\ j \in IdsOf(gs)
  BY <1>1
<1>4. before' \subseteq IdsOf(gs) \X IdsOf(gs)
  BY <1>1, <1>2
<1> QED BY <1>1, <1>2, <1>3, <1>4 DEF Mirrored, GrantTypes, OrderOK

\* What evaluate selects is a live grant of the table that fits the request.
LEMMA SelectedIsLive ==
    ASSUME NEW r, NEW session, NEW g \in Selected(Unexpired(grants), r, session)
    PROVE  g \in grants /\ 0 \notin g.left /\ Matches(g, r, session)
  BY DEF Selected, Unexpired

LEMMA OneAllowance == \A a \in Allowances : {a} \in NoneOrOne(Allowances)
  BY DEF NoneOrOne

LEMMA NoAllowance == {} \in NoneOrOne(Allowances)
  BY DEF NoneOrOne

LEMMA EvaluateKeeps ==
    ASSUME Mirrored, NEW r \in Requests, NEW session \in NoneOrOne(Sessions), Evaluate(r, session)
    PROVE  Mirrored'
<1> DEFINE live == Unexpired(grants)
<1>1. live \subseteq grants
  BY DEF Unexpired
<1>3. CASE Retain(live) /\ UNCHANGED usable /\ allowed' = {}
  <2>1. OrderOK' /\ grants' \subseteq Grants /\ before' \subseteq Ids \X Ids
    <3> HIDE DEF live
    <3> QED BY <1>1, <1>3, RetainKeeps
  <2>2. grants' = live
    BY <1>3 DEF Retain
  <2> HIDE DEF live
  <2>3. GrantTypes'
    BY <1>3, <2>1, NoAllowance DEF Mirrored, GrantTypes, Allowances
  <2> QED BY <1>1, <1>3, <2>1, <2>2, <2>3 DEF Mirrored, TableOK
<1>4. CASE \E g \in Selected(live, r, session) :
            /\ Retain(Spent(live, g))
            /\ usable' = [usable EXCEPT ![g.id] = {h \in @ : h.kind # "one-time"}]
            /\ allowed' = {[by |-> g.id, request |-> r, session |-> session]}
  <2>1. PICK g \in Selected(live, r, session) :
            /\ Retain(Spent(live, g))
            /\ usable' = [usable EXCEPT ![g.id] = {h \in @ : h.kind # "one-time"}]
            /\ allowed' = {[by |-> g.id, request |-> r, session |-> session]}
    BY <1>4
  <2>2. g \in grants /\ g.id \in Ids
    BY <2>1, SelectedIsLive, GrantFields DEF Mirrored, GrantTypes
  <2>3. Spent(live, g) \subseteq grants
    BY <1>1 DEF Spent, Without
  <2>4. OrderOK' /\ grants' \subseteq Grants /\ before' \subseteq Ids \X Ids
    BY <2>1, <2>3, RetainKeeps
  <2>5. grants' = Spent(live, g)
    BY <2>1 DEF Retain
  <2>6. allowed' \in NoneOrOne(Allowances)
    <3>1. [by |-> g.id, request |-> r, session |-> session] \in Allowances
      BY <2>2 DEF Allowances
    <3> QED BY <2>1, <3>1, OneAllowance
  <2>7. GrantTypes'
    BY <2>1, <2>2, <2>4, <2>6 DEF Mirrored, GrantTypes, Allowances
  <2>8. ASSUME NEW h \in grants'
        PROVE  usable'[h.id] = {h}
    <3>1. h \in grants /\ usable[h.id] = {h} /\ h.id \in Ids
      BY <2>3, <2>5, GrantFields DEF Mirrored, TableOK, GrantTypes
    <3>2. CASE h.id # g.id
      BY <2>1, <3>1, <3>2 DEF Mirrored, GrantTypes
    <3>3. CASE h.id = g.id
      <4>1. h = g
        BY <2>2, <3>1, <3>3 DEF Mirrored, TableOK
      <4>2. h.kind # "one-time"
        BY <2>5, <4>1 DEF Spent, Without
      <4> QED BY <2>1, <3>1, <4>1, <4>2 DEF Mirrored, GrantTypes
    <3> QED BY <3>2, <3>3
  <2> QED BY <2>4, <2>7, <2>8 DEF Mirrored, TableOK
<1> QED BY <1>3, <1>4 DEF Evaluate

LEMMA SyncKeeps ==
    ASSUME Mirrored, NEW g \in Grants, GrantSync(g)
    PROVE  Mirrored'
<1>1. /\ grants' = Without(grants, g.id) \cup {g}
      /\ before' = before \cup (IF g.id \in IdsOf(grants) THEN {} ELSE IdsOf(grants) \X {g.id})
      /\ usable' = [usable EXCEPT ![g.id] = {g}]
      /\ allowed' = {}
      /\ g.id \in Ids
  BY GrantFields DEF GrantSync, Put
<1>2. IdsOf(grants') = IdsOf(grants) \cup {g.id}
  BY <1>1 DEF IdsOf, Without
<1>3. IdsOf(grants) \subseteq Ids
  BY IdsOfGrants DEF Mirrored, GrantTypes
<1>4. \A i, j : <<i, j>> \in before' <=>
            \/ <<i, j>> \in before
            \/ g.id \notin IdsOf(grants) /\ i \in IdsOf(grants) /\ j = g.id
  BY <1>1
<1>5. before' \subseteq IdsOf(grants') \X IdsOf(grants')
  BY <1>1, <1>2 DEF Mirrored, OrderOK
<1>6. OrderOK'
  <2>1. \A i, j : <<i, j>> \in before => i \in IdsOf(grants) /\ j \in IdsOf(grants)
    BY DEF Mirrored, OrderOK
  <2> QED BY <1>2, <1>3, <1>4, <1>5, <2>1 DEF Mirrored, OrderOK
<1>7. GrantTypes'
  BY <1>1, <1>2, <1>3, <1>5, NoAllowance DEF Mirrored, GrantTypes, Without, Allowances
<1>8. ASSUME NEW h \in grants'
      PROVE  usable'[h.id] = {h}
  <2>1. CASE h = g
    BY <1>1, <2>1 DEF Mirrored, GrantTypes
  <2>2. CASE h # g
    <3>1. h \in grants /\ h.id # g.id /\ h.id \in Ids
      BY <1>1, <2>2, GrantFields DEF Without, Mirrored, GrantTypes
    <3> QED BY <1>1, <3>1 DEF Mirrored, GrantTypes, TableOK
  <2> QED BY <2>1, <2>2
<1> QED BY <1>6, <1>7, <1>8 DEF Mirrored, TableOK

LEMMA RevokeKeeps ==
    ASSUME Mirrored, NEW i \in Ids, GrantRevoke(i)
    PROVE  Mirrored'
<1>1. Without(grants, i) \subseteq grants /\ grants' = Without(grants, i)
  BY DEF Without, GrantRevoke, Retain
<1>2. OrderOK' /\ grants' \subseteq Grants /\ before' \subseteq Ids \X Ids
  BY <1>1, RetainKeeps DEF GrantRevoke
<1>3. usable' = [usable EXCEPT ![i] = {}] /\ allowed' = {}
  BY DEF GrantRevoke
<1>4. \A h \in grants' : h \in grants /\ h.id # i /\ h.id \in Ids
  BY <1>1, GrantFields DEF Without, Mirrored, GrantTypes
<1>5. GrantTypes'
  BY <1>2, <1>3, NoAllowance DEF Mirrored, GrantTypes, Allowances
<1> QED BY <1>2, <1>3, <1>4, <1>5 DEF Mirrored, GrantTypes, TableOK

\* A grant with less time left is a grant of the same id and kind.
LEMMA OlderGrant ==
    \A g \in Grants : Older(g) \in Grants /\ Older(g).id = g.id /\ Older(g).kind = g.kind
<1> SUFFICES ASSUME NEW g \in Grants
             PROVE  Older(g) \in Grants /\ Older(g).id = g.id /\ Older(g).kind = g.kind
  OBVIOUS
<1> DEFINE left == {Less(t) : t \in g.left}
<1>1. left \in NoneOrOne(0..MaxLeft)
  <2>1. CASE g.left = {}
    BY <2>1 DEF NoneOrOne
  <2>2. ASSUME NEW t \in 0..MaxLeft, g.left = {t} PROVE left \in NoneOrOne(0..MaxLeft)
    <3>1. left = {Less(t)} /\ Less(t) \in 0..MaxLeft
      BY <2>2, GateAssumption DEF Less
    <3> HIDE DEF left
    <3> QED BY <3>1 DEF NoneOrOne
  <2> QED BY <2>1, <2>2, GrantFields DEF NoneOrOne
<1>2. Older(g) = [g EXCEPT !.left = left]
  BY DEF Older
<1> HIDE DEF left
<1> QED BY <1>1, <1>2 DEF Grants

LEMMA GrantsTick == Mirrored /\ Tick => Mirrored'
<1> SUFFICES ASSUME Mirrored, Tick PROVE Mirrored'
  OBVIOUS
<1>1. /\ grants' = {Older(g) : g \in grants}
      /\ usable' = [i \in Ids |-> {Older(g) : g \in usable[i]}]
      /\ UNCHANGED before /\ allowed' = {}
  BY DEF Tick
<1>2. IdsOf(grants') = IdsOf(grants)
  BY <1>1, OlderGrant DEF IdsOf, Mirrored, GrantTypes
<1>3. GrantTypes'
  <2>1. grants' \subseteq Grants
    BY <1>1, OlderGrant DEF Mirrored, GrantTypes
  <2>2. \A i \in Ids : usable[i] \subseteq Grants
    BY DEF Mirrored, GrantTypes
  <2>3. \A i \in Ids : {Older(g) : g \in usable[i]} \subseteq Grants
    BY <2>2, OlderGrant
  <2> QED BY <1>1, <2>1, <2>3, NoAllowance DEF Mirrored, GrantTypes, Allowances
<1>4. OrderOK'
  BY <1>1, <1>2 DEF Mirrored, OrderOK
<1>5. ASSUME NEW h \in grants'
      PROVE  usable'[h.id] = {h}
  <2>1. PICK g \in grants : h = Older(g)
    BY <1>1
  <2>2. g \in Grants /\ h.id = g.id /\ h.kind = g.kind /\ g.id \in Ids
    BY <2>1, OlderGrant, GrantFields DEF Mirrored, GrantTypes
  <2>3. usable[g.id] = {g}
    BY DEF Mirrored, TableOK
  <2> QED BY <1>1, <2>1, <2>2, <2>3
<1> QED BY <1>3, <1>4, <1>5 DEF Mirrored, TableOK

LEMMA GrantsUntouched ==
    Mirrored /\ UNCHANGED grantVars /\ (allowed' = {} \/ UNCHANGED allowed) => Mirrored'
  BY NoAllowance DEF Mirrored, GrantTypes, OrderOK, TableOK, grantVars, Allowances

LEMMA MirroredInit == Init => Mirrored
  BY NoAllowance DEF Init, Mirrored, GrantTypes, OrderOK, TableOK, IdsOf, Allowances

LEMMA MirroredNext == Mirrored /\ [Next]_vars => Mirrored'
<1> SUFFICES ASSUME Mirrored, [Next]_vars PROVE Mirrored'
  OBVIOUS
<1>1. ASSUME NEW n, NEW e, NEW r \in Requests, NEW session \in NoneOrOne(Sessions),
             Check(n, e, r, session)
      PROVE  Mirrored'
  BY <1>1, EvaluateKeeps DEF Check
<1>2. ASSUME NEW n, CheckRefused \/ Chat(n) \/ Reuse(n) PROVE Mirrored'
  BY <1>2, GrantsUntouched DEF CheckRefused, Chat, Reuse
<1>3. CASE Restart
  BY <1>3, NoAllowance DEF Restart, Mirrored, GrantTypes, OrderOK, TableOK, IdsOf, Allowances
<1>4. CASE UNCHANGED vars
  BY <1>4, GrantsUntouched DEF vars
<1> QED BY <1>1, <1>2, <1>3, <1>4, SyncKeeps, RevokeKeeps, GrantsTick DEF Next

\* A check that is allowed is allowed by a live grant of the table.
LEMMA AllowedByLive ==
    ASSUME Mirrored, Next, NEW a \in allowed'
    PROVE  \E g \in usable[a.by] : /\ Matches(g, a.request, a.session)
                                   /\ 0 \notin g.left
<1>1. allowed' # {}
  OBVIOUS
<1>2. PICK r, session : Evaluate(r, session)
  BY <1>1 DEF Next, Check, CheckRefused, Chat, Reuse, GrantSync, GrantRevoke, Tick, Restart
<1>3. PICK g \in Selected(Unexpired(grants), r, session) :
            allowed' = {[by |-> g.id, request |-> r, session |-> session]}
  BY <1>1, <1>2 DEF Evaluate
<1>4. g \in grants /\ 0 \notin g.left /\ Matches(g, r, session)
  BY <1>3, SelectedIsLive
<1>5. a.by = g.id /\ a.request = r /\ a.session = session
  BY <1>3
<1> QED BY <1>4, <1>5 DEF Mirrored, TableOK

---------------------------------------------------------------------------
\* The nonce of a request that passed is in the verifier's table as long as its
\* envelope is valid: the table forgets no nonce too early (#cleanupExpiredNonces
\* against assertReplayResistantMetadata).
THEOREM NoncesRemembered == Spec => []Remembered
<1> QED  BY RememberedInit, RememberedNext, PTL DEF Spec

\* A bridge process lets no envelope pass twice (RequestVerifier.verify).
THEOREM RequestsPassOnce == Spec => []PassesOnce
<1>1. Remembered => PassesOnce
  BY DEF Remembered, RememberedOf, PassesOnce
<1> QED  BY <1>1, NoncesRemembered, PTL

\* The tables of the gate and its histories keep their shape.
THEOREM TypeCorrect == Spec => []TypeOK
<1>1. Remembered /\ Mirrored => TypeOK
  BY DEF Remembered, GateTypes, Mirrored, GrantTypes, Allowances, TypeOK
<1> QED  BY <1>1, RememberedInit, RememberedNext, MirroredInit, MirroredNext, PTL DEF Spec

\* Every check that RuntimeEnforcer.evaluate allows is allowed by a grant for its
\* origin, capability, provider and model that the extension synced and did not
\* revoke since, that is not past its time and, when it is for one time, has
\* allowed nothing yet.
THEOREM LiveGrantsOnly == Spec => OnlyLiveGrantsAllow
<1>1. Mirrored /\ [Next]_vars =>
        [\A a \in allowed' : \E g \in usable[a.by] :
            /\ Matches(g, a.request, a.session)
            /\ 0 \notin g.left]_vars
  BY AllowedByLive
<1> QED  BY <1>1, MirroredInit, MirroredNext, PTL DEF Spec, OnlyLiveGrantsAllow

=============================================================================
