# Verification of arlopass

TLA+ models of the stateful core of arlopass, checked with TLC and, where it
matters for every number of processes and every size of table, proved with
TLAPS. The reference is the code: each definition is translated from it, and
`PROJECT.json` names the lines ("map").

arlopass lets a web page use the AI providers of its user without seeing their
credentials. A page talks to the **web SDK**, the SDK to the **extension**
(content script, service worker), and the service worker to the **bridge**, a
native-messaging host that Chrome starts and that holds the credentials and
calls the providers.

```
page -- web-sdk -- inpage/content script -- service worker ==port== bridge -- providers
                                            |  grants, consent      |  pairing, handshake, sessions
                                            |  session cache        |  vault (file, OS keychain)
                                            |  vault proxy          |  idempotency, connections, leases
```

Nearly everything that is hard to test sits around that port. The bridge is a
process that ends whenever its port does, several of them may run at once over
the same state files, and most of its promises ("revoked", "locked out", "once
only", "still valid") have to survive that. The other half is the way of a
request through the extension: popups, service workers, ports and pages that
come and go in the middle of it. The bridge was modelled first, then the
extension's end of the port, then what travels from the page to it.

## 1. Inventory

"State" is what a component keeps, "hard" what makes it hard to test, "correct"
what would make it right. Parts in **bold** are modelled.

### The bridge (`src/apps/bridge`)

| part | state | operations | hard | correct when |
|---|---|---|---|---|
| **Pairing** `session/pairing.ts` | pending one-time-code sessions, pairing records; one file for both | begin, complete, list, revoke, rotate, autoPair; load, sweep | restarts between guesses; several processes rewriting one file; sessions that outlive the handle they supersede | guesses bounded and backed off; a code opens one pairing; retired handles stay retired; a rotation replaces |
| **Handshake, sessions** `session/handshake.ts`, `session-key-registry.ts` | challenges, consumed nonces (memory only), session tokens; two files | challenge, verify, issue, resolve, revoke | a crash between the two writes of a verification; files loaded at different moments of start-up; stale copies | a nonce opens one session, in time; a session is known until it expires and not accepted after |
| **Session gate, dispatch** `bridge-handler.ts` | none of its own; composes the rest | one handler per message type | the bearer token outlives the pairing it came from; handlers that await | revocation takes effect; each handler leaves its tables consistent when it fails halfway |
| **Framing** `native-host.ts` | the promise chain that serialises frames | read, serve, write | a handler that throws rejects the chain and the process answers nothing more | one frame at a time |
| **Start-up** `main.ts` | signing key, file locations | build every part, probe CLIs, load adapters | the registry reads its file long before the handshake manager does | order of loading harmless |
| **Vault** `vault/vault-store.ts`, `vault-lockout.ts`, `vault-keychain.ts` | state, decrypted vault, key, auto-lock timer, lockout; two files, keychain entry | setup, unlock, lock, destroy, rekey, read, save, delete, in a password and a keychain variant | the timer runs while a handler awaits the keychain; any write may fail; crashes between the keychain and the file | wiped when locked; acknowledged saves last; the file opens with the acknowledged key; locked when idle; lockout survives restarts |
| Vault cryptography `vault-encryption.ts`, `vault-compaction.ts`, `secure-wipe.ts` | – | encrypt, decrypt, compact usage | – | decrypting inverts encrypting under the right key (assumed: a file is a key and the data it yields) |
| **Idempotency** `cloud/idempotency-store.ts` | in-flight reservations (memory only), completed entries; one file | reserve, complete, abort; load, sweep | crash between execution and completion; capacity; several processes | an implementation of "once only while the answer is in force"; genuine replays; always restartable |
| **Request verifier** `session/request-verifier.ts` | nonces seen, bounded, memory only | verify, with and without proof | nonces forgotten by age while clocks differ; a full table; order of the checks around the nonce | an envelope passes once while it is valid |
| **Permissions** `permissions/runtime-enforcer.ts` | grants mirrored from the extension | sync, revoke, evaluate | one-time grants against a re-sync; expiry seen only by messages | only a live grant allows, a one-time grant once |
| **Cloud connections** `cloud/cloud-connection-service.ts`, `connection-registry.ts` | records, epochs, revocations, the adapter's credentials; one file with a lock and a temporary file | complete, revoke, use; load, save | crashes in every write; epochs rebuilt from the records; a completion that awaits a refresh | revoked for good; acknowledged and not revoked means usable; "ok" means saved |
| **Model discovery** `discovery-cache.ts`, `discovery-refresh-scheduler.ts` | entries, a refresh in flight | read, refresh | a timer beside the frames; a completion joins a refresh of another credential | (part of the connections) |
| Chat execution `cloud-chat-executor.ts`, `token-lease-manager.ts`, `timeout-budgets.ts` | slots, circuits, leases | execute, refresh, time-outs | concurrency that the frame queue never gives it | – |
| CLI chat `cli/copilot-chat-executor.ts` | sessions of the CLI to continue, in memory | execute, stream | remembered in two places that forget at different times; options the CLI refuses; child processes | a chat is continued in its own conversation |
| Audit, secrets, configuration, updater, tray | append-only logs, environment | – | – | no state that the rest depends on |

### The extension and the packages

| part | state | operations | hard | correct when |
|---|---|---|---|---|
| **Bridge session** `vault-proxy.ts`, `transport/bridge-handshake.ts`, the chats of `transport/cloud-native.ts` | port, pending requests, session token, `sessionPromise`, session cache, handshakes in flight | send, ensure session, clear, disconnect | callers share and replace promises; the port closes at any await; refusals answered late | no caller is forgotten; tokens die with their port; a retry uses a new token |
| Pairing client, request proof | the wrapped pairing key | pure computations | – | – |
| **Streams** `transport/runtime.ts`, `content-script.ts`, `inpage-provider.ts`, the SDK's `transport.ts` | pending stream of the page, port, the worker's request | start, chunk, done, cancel, time out, disconnect | a slow reader; worker or port lost in the middle; cancellation against the end; two timers for one reader | chunks in order, "done" means all, every way out ends the reader and the worker's request |
| **Connecting an app** SDK `client.ts`, `state-machine.ts`; `handleSessionCreate`; popup wizard | the client's state and session; one pending request, one result, one kept wizard for all origins; saved apps | connect, disconnect, ask, allow, save, decline | two origins at once; popup closed and reopened; worker gone; late answers | recorded or connected only if answered for; no time-limited connect for ever |
| **Grants, consent** `permissions/grant-store.ts`, `consent-controller.ts`, `background.ts` | grants, requests in flight, what the bridge was told | grant, revoke, expire, consume, mediate | revocation between request and answer; two requests under one one-time grant; many ways out of the store | once is once; nothing after the end for a request registered before it; the bridge told of all |
| Other transport | none between two events | list, select, relay | – | – |
| Conversation `conversation.ts`, `tool-parser.ts` | messages, window of tokens | send, stream, run tools | – | – |
| Protocol, policy | pure validation, evaluation, key rings | – | – | equals a reference definition |
| Adapter runtime | host life cycle, restart budget (built in tests only) | start, stop, restart | crashes in mid-request | budget respected |
| React packages, UI, site, adapters, telemetry | views, HTTP clients | – | – | outside the core |

`PROJECT.json` "components" lists each part with its status, and "hazards" the
places where this code can go wrong unnoticed, with the properties that watch
them.

## 2. The modules

| module | what it is |
|---|---|
| `BridgeProcess` | what all bridge processes share: the clock, their life (`down`, `starting`, `up`), a file write by tmp-and-rename that may fail silently (`Saved`) |
| `Pairing` | `PairingManager` |
| `Handshake` | `HandshakeManager` and `SessionKeyRegistry` |
| `BridgeAuth` | extends the two and composes them as `BridgeHandler` does: the gate, `handshake.verify` after the pairing was resolved |
| `Vault` | `VaultStore`, `VaultLockout`, auto-lock timer, keychain handlers |
| `OnceOnly` | abstract specification: what idempotency promises a client |
| `Idempotency` | the store and its handlers; shown to implement `OnceOnly` |
| `RequestGate` | `RequestVerifier` and `RuntimeEnforcer` behind the handlers that call them |
| `CloudConnections` | the connection service with its registry, adapter, discovery and file |
| `BridgeSession` | the extension's end of the port |
| `StreamRelay` | one stream from the service worker to the page |
| `Grants` | grant store, consent and requests in flight |
| `AppConnect` | SDK clients, `session.create` and the popup's wizard, which meet in storage |
| `MC...` | symmetry sets, lockout tiers and targets for the TLC instances |
| `BridgeAuthProofs` | theorems and proofs of `Pairing`, `Handshake` and their composition |
| `ExtensionProofs` | theorems and proofs of `AppConnect` and `BridgeSession` |
| `...Proofs` | theorems and proofs of the module of that name |

### Conventions

* Bridge components are parameterised by a set of processes `Procs`. Each
  process has its own tables (`pending[p]`, `sessions[p]`, ...), each file is
  one variable. A step is one whole handler call, with the sweep it starts with
  and the write it ends with, because `NativeHost` serves one frame after the
  other; the steps of *different* processes interleave freely. Where a handler
  awaits something that lets other code of the same process run (the OS
  keychain), or where a crash between two writes matters (a verification), it
  is split there.
* `Saved(before, state)` gives what a file may hold after a write. `MayLoseWrites`
  is `FALSE` in the TLC instances and arbitrary in the theorems.
* Random identifiers (session ids, handles, nonces, tokens) are drawn from
  finite sets of fresh ones, so an exhausted set only stops drawing. An HMAC, a
  one-time code or a decryption is right or wrong.
* In the extension, JavaScript interleaves at awaits only: a step runs from one
  event (message, timer, answer of the storage, click) to the next real wait.
* Refusals that change nothing are not steps. A refusal that sweeps, counts or
  writes is.
* Variables marked *history* do not exist in the code and no action's guard
  depends on them, except that fresh identifiers are chosen outside `drawn` and
  `issued`, that runs of an identity are numbered by `begun`, and that a token of
  `BridgeSession` is an index into `sessions`, where its expiry is looked up.
* Constants with `Max` in the name that do not occur in the code (`MaxTime`,
  `MaxRuns`, `MaxSessions`, `MaxPorts`, `MaxChunks`, `MaxItems`, `MaxLeft`,
  `MaxLeaving`) only bound the instances.
* Next to a definition there may be a variant marked *Mutant*: a plausible
  mistake in that place, used to see that the properties notice it. No
  specification uses them.

### Correspondence

**Pairing.** `pending`/`records` are `#pendingSessions`/`#pairings`,
`pairingFile` the state file. `Build` is the constructor (load, sweep, write).
`BeginPairing`, `RotatePairing`, `ListPairings`, `RevokePairing`, `AutoPair` are
the methods of those names; `completePairing` is three actions by outcome:
`CompleteRefused` (unknown, early, other peer), `CompleteWrong` (counts, backs
off or discards), `CompleteRight` (removes the session, replaces the superseded
record). Note what the model keeps because the code does: `pairing.begin` takes
a superseded handle on trust, and `revokePairing` leaves pending sessions alone.

**Handshake.** `challenges`, `consumed`, `sessions` with `challengeFile` and
`sessionFile`. `Start` builds the registry, `Build`, later, the handshake
manager, as `main.ts` does. `Verify` is `verifyResponse` and
`SessionKeyRegistry.issue` together; `VerifyDies` is a crash between their
writes. `Resolve` is the look-up of the gate.

**BridgeAuth.** `Pair`, `Challenge` and `Verify` are the messages that need no
session; `Admit` and `Refuse` are `#requireSession` in front of list, revoke and
rotate. `lineage` remembers which pairing a session was granted on, which the
code does not: that is why revocation has to be argued about.

**Vault.** `state`, `mem`, `key`, `timer`, `sinceReset` are the private fields of
`VaultStore`; `file`, `lockoutFile` and `keychain` persist. Setup, unlock, rekey
and destroy with the keychain are two steps, `StoreKey`/`FetchKey`/`DeleteKey`
and `Resume`/`Refused`, with the timer, the clock and a crash possible in
between; the password variants are one. Each write has its failing branch
(`MayFail`), with exactly what has changed by then. `proc = "wedged"` is a
process whose frame queue was rejected by an error a handler let through: it
lives, keeps its timer, and answers nothing. Time is kept as countdowns, so the
clock needs no bound.

**Idempotency.** `inFlight`, `completed`, `entriesFile`. `ReserveReplay`,
`ReserveRefused`, `ReserveNew` are the outcomes of `reserve`, each after its
sweep; `Complete` and `Abort` follow the execution; `Stop` cuts it off, and the
provider may or may not have done its work. `Build` refuses a file over
capacity, as the constructor does.

**BridgeSession.** One service worker, one port (`none`, `open`, or `dead` until
the disconnection is seen). `sessionToken` and `establish` are `vault-proxy.ts`'s
token and `sessionPromise`; `cache` and `registered` are `sessionCacheByKey` and
`inFlightByKey` of `bridge-handshake.ts`; `flight[f]` is the handshake that `f`
owns, with the step it waits in and those that await it; `call[c]` is a vault
message, a model refresh or a chat. A step runs from one event (answer,
disconnection, storage or crypto promise) to the next real wait, continuations
of the settled promise included: JavaScript interleaves nowhere else. The
bridge appears as far as the extension can tell (`Gate`, `Challenge`, `Verify`),
with what `Handshake` shows: a later process may or may not know the sessions
of an earlier one.

**RequestGate.** `consumed` is `#consumedNonces`, with the age of each nonce;
`grants` is what the enforcer's map holds and `before` the order in which its
ids were inserted, which decides between candidates that `evaluate` ranks alike
(`Specificity`: how many of provider and model are no wildcard). `allowed` is
what the last step answered, with the request; `usable` remembers the grant each
id was synced with until it is revoked or, for one time, used. A *subject* is an
origin and a capability, which have no wildcards. `Check` is `request.check` of
an envelope that passes, `CheckRefused` any that does not, `Chat` the gate of
`cloud.chat.execute`, which stamps the envelope itself, and `GrantSync`,
`GrantRevoke` the messages of those names. `envelopes` remembers how long the
envelope of a nonce stays valid: it belongs to the sender, not to the bridge,
and survives `Restart`. A nonce that neither side can use any more is given a
new life by `Reuse`, so that neither time nor traffic is bounded.

**CloudConnections.** `table` and `records` are the service's and the registry's
maps, `current` and `ended` the registry's epochs and revoked handles, `persist`
`#persistencePersistStatus`, `disk` the state file, the lock and the newest
temporary file, as long as there is no state file: beside one it is never read.
Every operation that saves draws its outcome from `Saves`: done, failed, with
what a failed write or clean-up leaves behind, or the process dies at one of the
points between taking the lock and releasing it. `Complete` registers and saves, then its frame waits in `waits`
for a refresh (`RefreshEnds`), during which other frames queue up but the timers
go on. `adapter` keeps the adapter's own numbering of credentials, which starts
at 1 in each process, and the credential of its last completion, which every
revocation drops.

**StreamRelay.** `page` is `PendingStreamRequest` with the generator that reads
it: `queue`, `complete` and `open` (pending under its request id), `reader`
(`waiting` in `next`, `holding` an entry), `out` its messages to the content
script. `port` and `route` belong to the content script, `worker` to the service
worker's handling of the request; the three queues are the window messages and
the port in both directions. `Enqueue`, `Live`, `Buffered`, `Cleanup` and `End`
are the functions of those names in the sources.

**Grants.** `grant` is the store and what became of each grant; `req` is
`#inFlightByRequestId` and its `revoked` flag, with what was delivered.
`Mediate` is `#ensureAuthorizedGrant` up to the prompt or the grant it found,
`Allow` and `Deny` the user's answers; `Register`, a step of its own since the
code awaits in between, registers the request under the grant it was authorised
by and forwards it. `Answered`, `StreamOpens` and `StreamItem` are the
transport's, each followed by `throwIfOperationRevoked` and `consumeOneTimeGrant`
as in the code. All listeners of an event run inside the step that emits it.
`late` notes that the grant had ended before the registration.

**AppConnect.** `client`, `session`, `leaving` are the SDK's; `req` follows
`handleSessionCreate` from the look at the saved apps to the answer, one step
per await; `pending` and `result` are the two storage keys, `wizard` the open
popup and `kept` the reducer's persisted state. `by` says which origin made an
attempt, and `Unlimited` holds those with a `timeoutMs` of 0 or Infinity, for
which the SDK arms no timer. `ConnectThrows` is a `connect` that throws between
its transition and its `try`. `SavesApp` is `saveApp`, which looks at no answer
of the vault: it may have recorded or not. `allowed` and `answered` are what the
user saw when a button was pressed, which the code keeps nowhere.

## 3. The runs

| run | question | instance | states |
|---|---|---|---|
| `pairing` | Are guesses bounded and backed off across restarts, do retired handles stay retired, does a rotation replace? | 1 process, 1 peer, 2 sessions, 2 handles, code TTL 8, 3 attempts, clock to 8 | 854 000 |
| `handshake` | Is a nonce good for one session in its time, is a session known until it expires and refused after, crashes in mid-verification included? | 1 process, 3 nonces, 2 tokens, TTLs 2 and 3, clock to 6 | 214 000 |
| `bridge_auth` | Pairing, handshake and gate together: what does a revocation do to sessions and to challenges already out? | 1 process, 1 session, 2 handles, 2 nonces, 2 tokens, clock to 3 | 108 000 |
| `vault_password` | Password vault, failing vault-file writes: wiped when locked, saves durable, lockout honoured across restarts? | 2 items, 2 passwords, auto-lock 3, two lockout tiers | 6 300 |
| `vault_keychain` | Both modes, failing keychain and lockout file: does the file open with the acknowledged key, is an idle vault locked? | 1 item, 2 passwords, 3 keychain keys, auto-lock 2 | 19 500 (fair) |
| `idempotency` | Does one process implement `OnceOnly`, is the file always loadable, are replays genuine? | 2 identities, 2 payloads, TTL 2, capacity 1, 2 runs each, clock to 4 | 12 000 |
| `request_gate` | Does an envelope pass once, and does only a live grant that fits it allow it? | 2 nonces, table of 1, 2 grants, 2 providers, wildcards for provider and model, lifetime 1, skew 1 | 154 000 |
| `cloud_connections` | Is a revocation for good, does an acknowledged connection stay, is "ok" true, whatever dies in which write? | 3 handles, any number of restarts | 1 022 000 |
| `bridge_session` | Is any caller forgotten, can a token outlive its port, does a retry carry another token, does every call settle? | 1 vault caller, 1 refresh, 1 chat, 3 sessions, 2 ports, session TTL 1, clock to 2 | 402 000 (fair) |
| `stream_relay` | Are chunks in order, does "done" mean all, does every way out end the reader and the worker's request? | 1 stream, 4 chunks, a buffer of 2 | 52 000 (fair) |
| `grants` | Is once once, does a grant that ended deliver nothing more to what was registered under it, is the bridge told of all? | 3 requests, 2 targets of 2 origins, 2 grants, TTLs 1 and 2, clock to 2 | 4 243 000 |
| `app_connect` | Is an app recorded or connected only if answered for, has a connected client a session, does every connect with a time limit end? | 2 origins, 2 attempts, one without a limit, 2 disconnects at once | 521 000 (fair) |

All hold. Each property also has a mutant under "mutants" in `PROJECT.json`: a
plausible mistake in one mapped definition with which TLC finds it violated.

### Why these bounds

*pairing.* With a base of one, the back-offs after the first and second wrong
guess are 1 and 2, so the clock of 8 lets all three guesses, an expiry, a
rotation with its second session and several restarts happen in one behaviour.
*handshake.* Three nonces and two tokens: two challenges answered and a third
left to expire or to be cut off by a crash; the clock passes both TTLs twice.
*bridge_auth.* Two handles and two tokens give a retired pairing beside a live
one, each with a session; a session of TTL 2 can be granted, its pairing
revoked, and the session used once more and expire within three ticks.
*vault.* Two passwords give a right and a wrong one and a rekey between them;
three keychain keys are the one in the file, the one in memory or the keychain,
and the new one. Time is not bounded; failures are counted up to the highest
tier, beyond which the pause no longer changes.
*idempotency.* Capacity 1 makes the full store the common case; two identities
compete for it, a payload is reused under another identity and conversely, and
entries expire twice.
*request_gate.* The table holds one nonce and there are two, so it is full as
soon as one is known; the skew of 1 makes an envelope outlive its own lifetime
by the bridge's clock; two grants give every pair of kinds and of specificities
(0, 1 and 2), and grants that replace one another. Two providers are what a grant
may fit or not. One subject, one model and no session leave out that these, too,
may differ, which `Matches` treats alike and the proof covers. Ages and times
left are cut off where they stop mattering, so that the run covers behaviours of
any length.
*cloud_connections.* Three handles are a revoked connection, one that comes after
it under the same credential number of a later process, and one more; the number
of restarts, crashes and revocations is not bounded.
*stream_relay.* Four chunks over a buffer of two overflow it, also while the
reader holds one and the end is on its way. A stream has its own request id and
port, and nothing is shared between two of them.
*grants.* Two of the three requests share a target, so that they race for one
grant; two grants give a replacement and a revocation beside one in use; the
clock passes the shorter lifetime in the middle of a request.
*app_connect.* Two origins are what shared storage needs to go wrong; two
attempts are one each, or a retry of one origin, and one of the two has no time
limit; disconnects wait two at a time.
*bridge_session.* One caller of each kind already shares, clears and replaces
each other's handshakes; two ports give a disconnection in every state and a
life after it; three sessions allow a refusal, a renewal and another refusal.

Most of the passing instances have one process and writes that succeed, since
the properties they check beyond the type invariant are promises of a
deployment of one process and fail, or are promised by nobody, for several.
`AppConnect`, `Grants`, `RequestGate` and `StreamRelay` have no processes to
multiply.
What holds for *every* number of processes and with lost writes
(`RotationExclusive`, `SessionsExpire`, `AnsweredInTime`, `Restartable`,
`ReplaysGenuine`) is proved without that condition, see below. Symmetry is used
on identifier sets in runs without temporal properties other than action
properties.

Deadlock checking is on but for `stream_relay`, `grants` and `app_connect`,
where a stream that was read, requests that all ended and attempts that are used
up leave nothing to do.

A type invariant is checked in `stream_relay` (`RTypeOK`), where the bound of the
page's buffer is part of it. The others (`PTypeOK`, `HTypeOK` and `TypeOK`) hold
in the instances above and need no run of their own: they are proved, that of
`Pairing` and `Handshake` as `PairingTypes` and `HandshakeTypes`, that of
`BridgeSession` and `StreamRelay` as `SessionTypes` and `StreamTypes`, and those
of `BridgeAuth`, `Vault`, `Idempotency`, `RequestGate` and `Grants` as
`TypeCorrect`. `CloudConnections` and `AppConnect` state none; their proofs
carry the types in `Shape` and `Numbers`.

### Fairness

*Vault* (`FairSpec`): time passes; Node runs a timer that is due; a handler that
waits for a keychain command gets its result, because the command is killed
after ten seconds. Nothing is assumed of users, of the browser or of writes.

*BridgeSession* (`SFairSpec`): weak fairness, per caller, of the bridge handling
its frame, of the extension receiving the answer, and of storage and crypto
promises settling, and of the disconnection being noticed. The bridge serves
its frames in order and each handler ends or the process does, so this is what
a live bridge process justifies. It excludes the one case in which it does not:
a *wedged* process (see Vault), which stays connected and answers nothing.
`sendViaPort` has no time-out, so its callers would then wait until the port is
closed. Nothing is assumed of callers: they may never call. The bridge may also
exit at any moment while `ports < MaxPorts`.

*StreamRelay* (`RFairSpec`): messages that were sent arrive, a timer that is armed
fires, the provider goes on or gives up (its requests have time limits), and a
reader that holds an entry asks for the next one or leaves. Nothing is assumed
of the SDK's limit, of aborts, or of the worker's survival.

*AppConnect* (`FairSpec`): the SDK's timer of a `connect`, where one was armed,
fires unless it ended; none is for an attempt in `Unlimited` (`transport.ts:47`).
Nothing is assumed of the user, the popup or the worker, which is the point of
`ConnectsSettle`.

## 4. What is proved

Every safety invariant and action property of the runs is a theorem, for every
value of the constants that satisfies the named assumptions of the modules:
`ProcessAssumption` (the loss of writes is a Boolean), `PairingAssumption`,
`HandshakeAssumption`, `IdempotencyAssumption`, `GrantsAssumption`,
`GateAssumption`, `VaultAssumption` (time-outs and limits are positive, back-offs
and skews naturals, the lockout's tiers and the nonces finite),
`StreamRelayAssumption` (the page's queue holds at least one entry),
`CloudAssumption` (handles are finite), `ConnectAssumption` and
`BridgeSessionAssumption` (special values such as `None` are no handle, origin,
attempt or caller, and callers of different kinds differ). TLC evaluates them in
the runs. Processes, identifiers, callers and chunks are not bounded. Where a
theorem needs more than `Spec`, it says so in an `ASSUME` of its own: one process
(`Procs = {p}`) whose writes succeed, or a file that can be written.

**`BridgeAuthProofs`**, pairing tables – `PairingTypes`, `RotationIsExclusive`.
That no copy of the tables holds a handle beside its successor is not inductive:
a process may overwrite the file with an old copy, and another load it. The
invariant (`TablesInv`) therefore says it of *every* memory and of the file
alike, in a form each write preserves: every handle that a pending session or a
record names as superseded has been drawn (`PendingOK`, `RecordsOK`), and it is
not in the same table. A new record has a handle that was not drawn before, so
nothing in any table names it as superseded, and `Replacing` takes out the one
that it names itself. Since every file content is some process's table and
every loaded table a file content, overwriting cannot mix two tables.

`RetiredForGood`, `GuessesBounded` and `BackoffKept` are promises of one process
whose writes succeed; with two, or with a lost write, they fail. Then the file
is the memory of a process that serves (`AgreeOK`), so that it is enough to say
of the file that each session carries the count and the back-off of the wrong
proofs compared for its code (`CodesOK`) and that no record has a retired handle
(`NoneRetired`); a restart reads just that.

*Handshake tables* – `HandshakeTypes`, `SessionsDoExpire`, `AnswersAreInTime`.
`SessionsExpire` speaks of tokens accepted, but what decides is the expiry a
stale copy carries. The invariant (`ChallengesOK`, `SessionsOK`) ties the expiry
of each copy of a record, in each memory and file, to the moment of its grant or
creation in the history; that histories only grow and lie in the past carries it
through every step. With one process whose writes succeed, `NonceUsedOnce` and
`SessionsSurvive` follow: no nonce that opened a session is in the memory or in
the file (`UsedUpOK`), the crash between the two writes of a verification
included, and each session that has not expired is in both (`KnownOK`).

*Composition* – `PartsImplemented` shows that each step of `BridgeAuth` is a step
of `Pairing` or leaves its variables alone, and likewise for `Handshake`:
`Spec => PSpec /\ HSpec`. So the invariants of both hold of it, and `TypeCorrect`,
`RetiredNeverOpens` and `RevokedRunsOut` need only the histories that the
composition adds: tokens are granted once (`TokensDrawnOnce`), a session was
granted no later than its pairing was retired (`GrantedBefore`), and so it has
run out `SessionTTL` after the retirement, which is all that the code promises.

**`VaultProofs`** – `TypeCorrect`, `SavesAreDurable`: whatever fails. What is in
memory is never less than what was acknowledged (`Durable`), and a store that
holds a vault can write it (`Coherent`). The other three hold where one of the
two files can be written. `KeyIsAcknowledged` needs the vault file: a rekey whose
write fails keeps the new key, and the next save writes the file with it
(section 5, item 3). `LockedIsWiped` and `LockoutKeeps` need the lockout file: an
unlock that cannot reset it leaves the decrypted vault behind, and a count that
was not written is forgotten by a restart. Each run of the vault is an instance
of one of these conditions.

**`IdempotencyProofs`** – `TypeCorrect`, `AlwaysRestartable`,
`OnlyGenuineReplays`, and the refinement `OneProcessDelivers`: for one process
whose writes succeed, `Spec => OncePromised`, that is `OnceOnly` under the
mapping in `Idempotency` (running: identities in flight; answers: unexpired
entries of the file). The capacity needs `StoreOK`: a table with a reservation
in flight has room left for its entry, which the guard of `ReserveNew` gives and
only `Complete` uses. The refinement needs that memory and file agree while the
process serves (`AgreeOK`), which is where lost writes and second processes
break it. Each step is shown to be a step of `OnceOnly` or a stutter: a sweep is
`Lapse`, a tick is `Lapse`, a crash `GiveUp`.

**`GrantsProofs`** – `TypeCorrect`, `OneTimeOnce`, `RegisteredStopped`,
`ToldExactly`. The properties speak of what was delivered; inductive is what each
request carries before that (`RequestOK`): a request in flight whose grant left
the store for a reason is marked as revoked, or was registered too late to be, and
the mark is what the checks before a delivery read, and a one-time grant under which anything was served is consumed,
so that no second request gets past `Consume`. `Told` says of each grant
separately on which side of the bridge's books it is.

**`RequestGateProofs`** – `NoncesRemembered`, `RequestsPassOnce`. While the
envelope that passed is valid, its nonce is in the table and young enough to
stay there as long: age and time left add up to at most `NonceTTL`, which is why
the table must keep nonces for the lifetime *and* the skew. `TypeCorrect`,
`LiveGrantsOnly`: what is selected fits the request by the definition of
`Selected`; a grant in the table is the one its id was last synced with,
and a one-time grant that is still there was not used (`TableOK`), so that
whichever candidate the order of the table selects, it was in force; `OrderOK`
says that the order is one.

**`CloudConnectionsProofs`** – `RevocationsLast`, `OkIsTrue`, `PromisesAreKept`.
A handle whose revocation was answered must be missing from the file as well as
from the table, since the next process believes the file (`Gone`); a temporary
file may still name it, but is read only while there is no file at all, which is
before anything was answered; and every handle anywhere is a minted one
(`Known`), so that a new connection is none of the revoked. `SavesShape` says
what any outcome of a write, a crash included, leaves on disk. For the promise,
`PInv` adds that the epochs rebuilt at a start are the highest of the file, so
that a connection that was answered and not struck has the highest of its
binding there (`PromisesOnDisk`), and no record in memory is ahead of the
current epoch (`Epochs`). That a finite set of epochs has a highest is shown by
a least subset without one (`FiniteMax`).

**`ExtensionProofs`**, connecting – `RecordedWereAllowed`,
`SessionsWereAnswered`, `ConnectedMeansSession`. A wizard past its first page,
open or kept, stands for an origin that was allowed (`PastAllow`), whatever
request the popup was opened for; and each yes on its way (result, poll,
response) is one that its own origin was given (`YesAnswered`), which rests on
the comparison of origins in `Heard` being made again at each poll.

*Bridge session* – `SessionTypes`, `NobodyLeftBehind`, `TokensAreOfThisPort`,
`RetriesCarryAnother`, from `SessionInv`. For the callers it has to say who
waits with what: whoever is in a handshake's list of waiters does wait for it,
is in no other list, and the owner of a handshake is in its own (`FlightsOK`).
For the tokens: what the bridge has granted and the extension not yet received
is of this port, on its way once, and nowhere in the extension's hands
(`Undelivered`), so that the token a handshake brings cannot be the one that was
refused; and a refused token is in no cache (`RefusedGone`), which is why it has
to be forgotten in both.

**`StreamRelayProofs`** – `StreamTypes`, `DoneIsWhole`, `AbandonedAborts`,
`ChunksComeInOrder`, from `StreamInv`. The order of what the reader gets depends
on everything on its way: the page's queue continues the numbers of what was
read (`PageOK`), and the messages of the content script and of the worker, laid
end to end (`Way`), continue those of the queue, up to the worker's own count
while nothing has ended (`NumberedOK`). An end of a stream is its worker's last
envelope wherever it is (`EndsOK`, `DonesMade`). That abandoned work is aborted is
followed from the reader's leaving to the worker: the page holds a cancellation,
or one is on its way, or the worker is aborted or over (`StopOK`, `Told`). The
page's operations are classified once by what they do to the reader
(`TakesValue`, `TakesEnd`, `TakesMessage`, `LocalMove`), so that the steps of
the system need not look into them.

### What is only model-checked

The five liveness properties: `IdleLocks`, `EveryCallSettles`, `StreamSettles`,
`WorkReleased` and `ConnectsSettle`. They rest on fairness and on `ENABLED`, which
the prover does not handle.

Induction is used where data needs it, in a form the provers accept. The
library's theorems that take a predicate as a parameter cannot be instantiated,
but a least counterexample can be taken: among the subsets of a finite set
(`FiniteMax`), and among the naturals (`NatLessThanWellFounded`), which is how
the loop over the entries of a buffered response, a recursive function in
`EnqueueAll`, is shown to leave the page right after each entry. No module uses a
`RECURSIVE` operator.

## 5. What was seen on the way

The properties above hold. The following is how the code behaves where a reader
may expect something else; each was met while modelling, and most can be seen in
the models by stating the expectation.

*Bridge*

1. The session file is read once at start-up and rewritten from memory. With two
   native hosts, which Chrome starts for a port and a one-off message, the later
   writer drops the other's sessions (`session-key-registry.ts:230`), although
   the comment in line 108 says that they survive restarts. They are forgotten,
   never prolonged: `SessionsDoExpire`. Likewise a process that loaded the
   pairing file earlier keeps a handle another one revoked, and may write it back.
2. `VaultStore.unlock` changes the state, then writes, then starts the auto-lock
   timer (`vault-store.ts:176`): when the write throws, the client is told that
   the unlock failed while the vault is unlocked without a timer.
3. Setting up or re-keying with the keychain overwrites its entry before the
   store has agreed (`bridge-handler.ts:2371`, `:2165`): a refused setup, an
   auto-lock or a crash in between leaves a file whose key nobody has. A re-key
   replaces the key in memory before it writes the file (`vault-store.ts:359`): when
   the write throws, the client is told that it failed, and the next save that
   succeeds encrypts the file with the new key. `KeyIsAcknowledged` therefore
   assumes that the vault file can be written.
4. Reservations of idempotent requests live in memory: a process that ends after
   the provider did its work, or an execution that fails late, leaves a retry to
   be executed again (`idempotency-store.ts:266`).
5. The nonces of verified requests are forgotten by a restart; and a chat takes a
   nonce that a check consumed before, while a check refuses one that a chat
   consumed.
6. A grant whose `expiresAt` cannot be parsed never expires in the enforcer; one
   for a session that was published without a session id matches no request.
7. A crash inside a write of the connections leaves the lock, and so does a
   removal of it that fails; nothing else removes it: every later write fails,
   which `persist` reports and operations do not. The comment in `cloud-connection-service.ts:1379` says as much.
8. The current epoch of a binding is not saved. Revoking one of two connections
   of a credential makes the other stale; a restart makes it usable again.
   `PromiseKept` is stated of connections that no revocation reached.
9. Adapters number their credentials from 1 in each process, so connections of
   two processes may share a credential's name; and `revokeConnection` drops the
   credential of the adapter's *last* completion, whatever the handle, also when
   the registry then refuses the handle.
10. A completion that joins a refresh in flight is judged by the outcome of
    another credential's discovery; when that fails the client gets an error
    while the connection stays registered and saved. A refresh that began before
    a revocation stores its result over the entry the revocation marked stale.
    For ten minutes a repeated completion is answered with the first handle,
    also after that was revoked.

*Extension and SDK*

11. A chat whose session expires between the cache and the gate fails:
    `cloud-native.ts:190` looks for the verifier's message, but the session gate,
    which comes first, uses another (`bridge-handler.ts:355`).
12. The wizard of the popup is kept per browser session and not per origin: kept
    for A and restored when B asks, it shows A's page, and a yes records A and
    connects B. `RecordsAllowed` and `SessionsAnswered` are what remains true:
    whoever is recorded was shown, and whoever is connected was recorded or asked.
13. After a save the kept wizard is written again as `saving`, which has no page:
    the next wizards of the browser session open stuck. Declining by the button
    leaves the wizard kept, going back does not.
14. One pending request and one result serve all origins: a poll that ends clears
    those of another origin, and a result written after its poll gave up answers
    the origin's next request unasked. `wallet.requestAppConnection` shares the
    protocol.
15. A late answer to a `connect` after a `disconnect` stores a session and then
    throws; of two slow disconnects the second may reset a newer connection; the
    states `degraded` and `reconnecting` of the client are never entered.
16. A message `app-disconnected` is posted to the page, where nobody listens;
    streams that fell back to a buffered response are not stopped by a cancel,
    and one with more than 512 chunks always overflows the page's queue.
17. A stream of a CLI ends as a regular one when the bridge answers with an
    error: `runtime.ts:1795` looks only at results, so half an answer is shown as
    a whole one. (In `StreamRelay` the provider is what the worker is handed.)
18. A CLI chat without a known session id is continued with `--continue`, the
    latest session of the machine, with the last message as the only prompt, also
    as the fallback of a refused `--resume` (`copilot-chat-executor.ts:1458`).
    With `maxConcurrent` 1 the fallback of an empty stream always finds the
    executor saturated by the stream itself.
19. `ExtensionBackgroundService`, its grant store and `BridgeGrantSynchronizer`,
    as well as `grant.sync` and `request.check` in the bridge's protocol, are
    used by tests only. Two requests may be *forwarded* under one one-time grant;
    one of them is answered.
20. A request is authorised and then, an `await` later, registered under its grant
    (`background.ts:700`, `:734`, `:888`). A revocation or a new grant in that gap
    finds no request to mark (`:928`), and a session or persistent answer is
    delivered under a grant that has ended; `background.test.ts:527` waits until
    the request is registered. `RevokedStopsRegistered` is stated of requests that
    were registered before the end.
21. `connect()` moves to `connecting` (`client.ts:479`) and builds its envelope
    before its `try` (`:518`). When that throws, for an `origin` that does not
    parse for instance, the client is left connecting, and refuses another
    `connect` until `disconnect()` resets it. With a `timeoutMs` of 0 or Infinity
    no timer is armed (`transport.ts:47`). `ConnectsSettle` is stated of the others.
22. Stopping a stream aborts the worker's request. A local provider's `fetch` ends
    with it, but for cloud and CLI chats the signal only races the setup
    (`runtime.ts:2022`, `:2063`): it never reaches the bridge, whose completion
    runs to its end unread. `AbandonedIsAborted` speaks of the worker.
23. `saveApp` ignores what the vault answers (`app-storage.ts:143`): the popup
    reports an app that was refused as saved.

## 6. Not modelled

* Most of the repository's lines are outside: views and option pages, adapters
  that talk to one provider each, schemas, exporters, the landing site, tests and
  scripts. They keep no state that others rely on, and a model of them would say
  nothing that a reader of the code does not see. What is mapped is the stateful
  core, about a tenth of the implementation's lines.
* `cloud-chat-executor.ts` and `token-lease-manager.ts`. Their queues, slots,
  circuits and shared refreshes are about concurrent requests, and the frame
  queue of `NativeHost` gives them one at a time; a model would check what
  the program never does. (Read, not checked: a cancelled request that finds the
  slots full lowers queue counters that it did not raise; removing an aborted
  head of the queue does not wake the next; a request that joins a refresh gets
  the epoch of the one that began it.)
* `cli.chat.execute`: see the plan.
* The rest of the SDK: selection, chat, provider lists, the conversation. A late
  selection may belong to an older session; nothing else is kept between calls.
* `CloudConnections`: one provider and method, one process, one signing key. The
  key's file (`main.ts:1183`) may be cut short by a crash.
* `Grants`: `replacePersistentGrants`, which no caller uses, `evaluatePermission`,
  which authorises without forwarding, and the queue in which prompts are shown.
* `StreamRelay`: what the bridge does with a completion after the worker's request
  was aborted (section 5, item 22).
* One host name and one pairing handle in `BridgeSession`: its maps have one key.
* Broadcasts of the vault's state to tabs, and what a model refresh discovers.
* Validation of message fields and bindings, formats of files (a file is read
  back as it was written; the loaders' rejection of malformed contents is left
  out, but for the torn file of `CloudConnections`), cryptography, and the
  wording of errors.
* Components marked `not_modelled` in `PROJECT.json`, with their reasons.

## 7. Plan

What would add most next, in order:

1. `CliChat`: which session of the CLI a chat is continued in, from the worker's
   cache to the variants the executor tries; a chat must meet its own
   conversation, or bring the whole of it.
2. Several processes and a changed signing key in `CloudConnections`, as
   `Pairing` and `Handshake` have them.
3. The SDK's selection and chat over `AppConnect`'s client, and `conversation.ts`
   with its tool loop.
4. `AdapterHost`'s health checks and restart budget, once the program uses it.
5. Protocol version negotiation and the policy evaluator as operators against a
   reference definition.

Theorems: the eight modules of proofs state every safety property of the runs.
What is left for proofs is how several of them hang together, such as that
`TokensOfThisPort` and `SessionsDoExpire` give a chat a session that the bridge
it talks to has granted, and the invariants of modules still to come.

## 8. Running

`tlc -config Pairing.cfg MCPairing`, and so on as "runs" in `PROJECT.json` lists
module and configuration; `tlapm BridgeAuthProofs.tla` and likewise the other
modules named `...Proofs`.
