----------------------------- MODULE AppConnect -----------------------------
(***************************************************************************)
(* An application connects: connect and disconnect of the SDK client       *)
(* (packages/web-sdk/src/client.ts over state-machine.ts), the worker's    *)
(* handling of session.create (transport/runtime.ts), and the popup's      *)
(* wizard (popup.tsx, ui/components/app-connect), which meet in the        *)
(* extension's storage: ONE pending request and ONE result for all         *)
(* origins, and one saved wizard.                                          *)
(*                                                                         *)
(* Each origin has one client.  A prompt and its answer are separate       *)
(* steps, as is each await between two accesses to storage.  The wizard's  *)
(* pages after "approve" are one, "choosing".                              *)
(***************************************************************************)
EXTENDS Naturals, FiniteSets

CONSTANTS
    Origins,
    Attempts,       \* calls of connect() that reach the worker
    Unlimited,      \* those with a timeoutMs of 0 or Infinity
    None,
    MaxLeaving      \* bound on the disconnect() calls that wait

ASSUME ConnectAssumption ==
    /\ None \notin Origins /\ None \notin Attempts
    /\ Unlimited \subseteq Attempts
    /\ MaxLeaving \in Nat

VARIABLES
    client,         \* #stateMachine of each origin's client
    session,        \* its #sessionId: the attempt that gave it
    leaving,        \* its disconnect() calls that wait
    by,             \* the origin that made the attempt
    awaited,        \* attempts whose connect() waits for the worker
    req,            \* the worker's handling of the attempt
    pending,        \* pendingConnection: an origin
    result,         \* connectionResult
    wizard,         \* the open popup's wizard
    kept,           \* the wizard kept in session storage
    apps,           \* origins with an active app connection in the vault
    allowed,        \* history: origins shown when the user pressed "Allow"
    answered        \* history: origins recorded, or answered yes in their own view

clientVars == <<client, session, leaving, by, awaited>>
popupVars == <<wizard, kept>>
history == <<allowed, answered>>
vars == <<clientVars, req, pending, result, popupVars, apps, history>>

Idle == [at |-> "idle", yes |-> FALSE]
NoResult == [origin |-> None, yes |-> FALSE]
NoWizard == [view |-> None, origin |-> None, step |-> "approve"]
NothingKept == [origin |-> None, step |-> "approve"]

Init ==
    /\ client = [o \in Origins |-> "disconnected"]
    /\ session = [o \in Origins |-> None]
    /\ leaving = [o \in Origins |-> 0]
    /\ by = [a \in Attempts |-> None]
    /\ awaited = {}
    /\ req = [a \in Attempts |-> Idle]
    /\ pending = None /\ result = NoResult
    /\ wizard = NoWizard /\ kept = NothingKept
    /\ apps = {} /\ allowed = {} /\ answered = {}

---------------------------------------------------------------------------
(* The SDK client *)

Connect(o, a) ==
    /\ client[o] = "disconnected" /\ by[a] = None
    /\ client' = [client EXCEPT ![o] = "connecting"]
    /\ by' = [by EXCEPT ![a] = o]
    /\ awaited' = awaited \cup {a}
    /\ req' = [req EXCEPT ![a].at = "sent"]
    /\ UNCHANGED <<session, leaving, pending, result, popupVars, apps, history>>

\* The envelope does not parse (an origin that is none): connect() throws
\* before its try, and leaves the client connecting.
ConnectThrows(o) ==
    /\ client[o] = "disconnected"
    /\ client' = [client EXCEPT ![o] = "connecting"]
    /\ UNCHANGED <<session, leaving, by, awaited>>
    /\ UNCHANGED <<req, pending, result, popupVars, apps, history>>

\* Mutant: an attempt that fails leaves the client as it is.
FailedQuietly(o) == client

\* The catch clause: only a client that connects has failed.
Failed(o) == [client EXCEPT ![o] = IF @ = "connecting" THEN "failed" ELSE @]

\* withTimeout; what comes later is dropped.
ConnectTimesOut(a) ==
    /\ a \in awaited /\ a \notin Unlimited
    /\ awaited' = awaited \ {a}
    /\ client' = Failed(by[a])
    /\ UNCHANGED <<session, leaving, by, req, pending, result, popupVars, apps, history>>

\* A session is taken before the transition, which throws unless the client
\* connects.
ConnectEnds(a) ==
    /\ a \in awaited /\ req[a].at = "answers"
    /\ awaited' = awaited \ {a}
    /\ req' = [req EXCEPT ![a].at = "over"]
    /\ IF req[a].yes
       THEN /\ session' = [session EXCEPT ![by[a]] = a]
            /\ client' = [client EXCEPT ![by[a]] = IF @ = "connecting" THEN "connected" ELSE @]
       ELSE session' = session /\ client' = Failed(by[a])
    /\ UNCHANGED <<leaving, by, pending, result, popupVars, apps, history>>

\* Mutant: the session is dropped when the call starts.
DisconnectEager(o) ==
    /\ client[o] # "disconnected" /\ session[o] # None
    /\ leaving[o] < MaxLeaving
    /\ leaving' = [leaving EXCEPT ![o] = @ + 1]
    /\ session' = [session EXCEPT ![o] = None]
    /\ UNCHANGED <<client, by, awaited, req, pending, result, popupVars, apps, history>>

\* With a session, the worker is told first.
Disconnect(o) ==
    /\ client[o] # "disconnected" /\ session[o] # None
    /\ leaving[o] < MaxLeaving
    /\ leaving' = [leaving EXCEPT ![o] = @ + 1]
    /\ UNCHANGED <<client, session, by, awaited, req, pending, result, popupVars, apps, history>>

Left(o) ==
    /\ client' = [client EXCEPT ![o] = "disconnected"]
    /\ session' = [session EXCEPT ![o] = None]

DisconnectAtOnce(o) ==
    /\ client[o] # "disconnected" /\ session[o] = None
    /\ Left(o)
    /\ UNCHANGED <<leaving, by, awaited, req, pending, result, popupVars, apps, history>>

\* The worker answers, and the client is reset, whatever it does by now.
DisconnectEnds(o) ==
    /\ leaving[o] > 0
    /\ leaving' = [leaving EXCEPT ![o] = @ - 1]
    /\ Left(o)
    /\ UNCHANGED <<by, awaited, req, pending, result, popupVars, apps, history>>

DisconnectFails(o) ==
    /\ leaving[o] > 0
    /\ leaving' = [leaving EXCEPT ![o] = @ - 1]
    /\ UNCHANGED <<client, session, by, awaited, req, pending, result, popupVars, apps, history>>

---------------------------------------------------------------------------
(* The worker *)

Moves(a, from, to) ==
    /\ req[a].at = from
    /\ req' = [req EXCEPT ![a].at = to]

Answers(a, yes) == req' = [req EXCEPT ![a] = [at |-> "answers", yes |-> yes]]

\* The vault lists the apps; an origin without an active one is to be asked
\* for, and any origin when the list is an error other than a locked vault's.
Looks(a) ==
    /\ req[a].at = "sent"
    /\ \/ by[a] \in apps /\ Answers(a, TRUE)
       \/ Moves(a, "sent", "asks")
    /\ UNCHANGED <<clientVars, pending, result, popupVars, apps, history>>

\* The vault stays locked, or the request is refused.
Refuses(a) ==
    /\ req[a].at = "sent"
    /\ Answers(a, FALSE)
    /\ UNCHANGED <<clientVars, pending, result, popupVars, apps, history>>

Asks(a) ==
    /\ Moves(a, "asks", "polls")
    /\ pending' = by[a]
    /\ UNCHANGED <<clientVars, result, popupVars, apps, history>>

\* Mutant: the result of any origin ends the poll.
HeardAny(a) == result.origin # None

Heard(a) == result.origin # None /\ result.origin = by[a]

PollHears(a) ==
    /\ req[a].at = "polls" /\ Heard(a)
    /\ req' = [req EXCEPT ![a] = [at |-> "ends", yes |-> result.yes]]
    /\ UNCHANGED <<clientVars, pending, result, popupVars, apps, history>>

PollTimesOut(a) ==
    /\ Moves(a, "polls", "ends")
    /\ UNCHANGED <<clientVars, pending, result, popupVars, apps, history>>

\* However the poll ended, it clears both keys, whosoever they are.
ClearsPending(a) ==
    /\ Moves(a, "ends", "clears")
    /\ pending' = None
    /\ UNCHANGED <<clientVars, result, popupVars, apps, history>>

ClearsResult(a) ==
    /\ Moves(a, "clears", "answers")
    /\ result' = NoResult
    /\ UNCHANGED <<clientVars, pending, popupVars, apps, history>>

\* The browser ends the worker: the pages' requests fail, the storage stays.
WorkerDies ==
    /\ \E a \in Attempts : req[a].at \in {"asks", "polls", "ends", "clears"}
    /\ req' = [a \in Attempts |->
                 IF req[a].at \in {"sent", "asks", "polls", "ends", "clears"}
                 THEN [at |-> "answers", yes |-> FALSE] ELSE req[a]]
    /\ UNCHANGED <<clientVars, pending, result, popupVars, apps, history>>

---------------------------------------------------------------------------
(* The popup *)

\* Mutant: what was kept is restored under the origin of the new request.
RestoredHere(o) ==
    IF kept = NothingKept THEN [origin |-> o, step |-> "approve"]
    ELSE [origin |-> o, step |-> kept.step]

\* usePersistedReducer: the wizard kept, whichever origin it was for.
Restored(o) == IF kept = NothingKept THEN [origin |-> o, step |-> "approve"] ELSE kept

\* The wizard opens and is kept; a wizard kept while it saved has no page.
Open ==
    /\ wizard = NoWizard /\ pending # None
    /\ LET w == Restored(pending) IN
        /\ wizard' = [view |-> pending, origin |-> w.origin,
                      step |-> IF w.step = "saving" THEN "stuck" ELSE w.step]
        /\ kept' = w
    /\ UNCHANGED <<clientVars, req, pending, result, apps, history>>

Close ==
    /\ wizard # NoWizard
    /\ wizard' = NoWizard
    /\ UNCHANGED <<clientVars, req, pending, result, kept, apps, history>>

\* The wizard goes to the page, which is kept.
Page(from, to) ==
    /\ wizard.view # None /\ wizard.step = from
    /\ wizard' = [wizard EXCEPT !.step = to]
    /\ kept' = [origin |-> wizard.origin, step |-> to]

Allow ==
    /\ Page("approve", "choosing")
    /\ allowed' = allowed \cup {wizard.origin}
    /\ UNCHANGED <<clientVars, req, pending, result, apps, answered>>

Back ==
    /\ Page("choosing", "approve")
    /\ UNCHANGED <<clientVars, req, pending, result, apps, history>>

\* onComplete(false): the button leaves the wizard kept, going back does not.
Decline ==
    /\ wizard.view # None /\ wizard.step = "approve"
    /\ wizard' = [wizard EXCEPT !.step = "no"]
    /\ kept' \in {kept, NothingKept}
    /\ UNCHANGED <<clientVars, req, pending, result, apps, history>>

Save ==
    /\ Page("choosing", "saving")
    /\ UNCHANGED <<clientVars, req, pending, result, apps, history>>

\* saveApp for the wizard's origin: the oldest app makes room for a new one
\* beyond MAX_APPS, and the record is kept, unless the vault answers an error
\* to either: saveApp does not look.
SavesApp ==
    \E oldest \in {{}} \cup {{o} : o \in apps}, recorded \in SUBSET {wizard.origin} :
        /\ oldest # {} => wizard.origin \notin apps
        /\ apps' = (apps \ oldest) \cup recorded
        /\ answered' = answered \cup recorded

\* onComplete(true).  The kept wizard is removed, and written again by the
\* effect of SAVE_COMPLETE.
Saved ==
    /\ wizard.view # None /\ wizard.step = "saving"
    /\ SavesApp
    /\ wizard' = [wizard EXCEPT !.step = "yes"]
    /\ kept' = [origin |-> wizard.origin, step |-> "saving"]
    /\ UNCHANGED <<clientVars, req, pending, result, allowed>>

\* A message to the vault is lost, at any point of saveApp.
SaveFails ==
    /\ wizard.view # None /\ wizard.step = "saving"
    /\ SavesApp
    /\ wizard' = [wizard EXCEPT !.step = "stuck"]
    /\ UNCHANGED <<clientVars, req, pending, result, kept, allowed>>

\* The answer is written for the origin of the request.
WritesResult(yes) ==
    /\ wizard.view # None /\ wizard.step = IF yes THEN "yes" ELSE "no"
    /\ wizard' = [wizard EXCEPT !.step = "done"]
    /\ result' = [origin |-> wizard.view, yes |-> yes]
    /\ answered' = IF yes THEN answered \cup {wizard.view} ELSE answered
    /\ UNCHANGED <<clientVars, req, pending, kept, apps, allowed>>

RemovesPending ==
    /\ wizard.step = "done"
    /\ wizard' = NoWizard
    /\ pending' = None
    /\ UNCHANGED <<clientVars, req, result, kept, apps, history>>

\* removeApp, or an app disabled in the options
Remove(o) ==
    /\ o \in apps
    /\ apps' = apps \ {o}
    /\ UNCHANGED <<clientVars, req, pending, result, popupVars, history>>

---------------------------------------------------------------------------
Next ==
    \/ \E o \in Origins :
          \/ \E a \in Attempts : Connect(o, a)
          \/ ConnectThrows(o)
          \/ Disconnect(o) \/ DisconnectAtOnce(o) \/ DisconnectEnds(o) \/ DisconnectFails(o)
          \/ Remove(o)
    \/ \E a \in Attempts :
          \/ ConnectTimesOut(a) \/ ConnectEnds(a)
          \/ Looks(a) \/ Refuses(a) \/ Asks(a) \/ PollHears(a) \/ PollTimesOut(a)
          \/ ClearsPending(a) \/ ClearsResult(a)
    \/ WorkerDies
    \/ Open \/ Close \/ Allow \/ Back \/ Decline \/ Save \/ Saved \/ SaveFails
    \/ \E yes \in BOOLEAN : WritesResult(yes)
    \/ RemovesPending

Spec == Init /\ [][Next]_vars

\* A timer that was armed fires, whatever else does.
FairSpec == Spec /\ \A a \in Attempts : WF_vars(ConnectTimesOut(a))

---------------------------------------------------------------------------
(* Properties *)

\* Whatever is pending, kept, restored or left over: an app is recorded only
\* for an origin that was shown when the user pressed "Allow".
RecordsAllowed == apps \subseteq allowed

\* A client has a session only if its origin was recorded, or the answer given
\* in a popup opened for its own request was yes; never by another's answer.
SessionsAnswered == \A o \in Origins : session[o] # None => o \in answered

\* A connected client has a session, through late answers and slow disconnects.
ConnectedHasSession == \A o \in Origins : client[o] = "connected" => session[o] # None

\* A client with a time-limited connect that waits does not connect for ever,
\* whatever the worker, the user and its other calls do.  One whose connect()
\* threw before its try does, as does one without a limit that is not answered.
ConnectsSettle ==
    \A o \in Origins :
        (client[o] = "connecting" /\ \E a \in awaited \ Unlimited : by[a] = o)
            ~> client[o] # "connecting"

=============================================================================
