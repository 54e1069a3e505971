--------------------------- MODULE ExtensionProofs ---------------------------
(***************************************************************************)
(* Proofs about two parts of the extension's service worker.               *)
(*                                                                         *)
(* Connecting an application: what must be known besides the properties is *)
(* that a wizard that is past its first page, open or kept, stands for an  *)
(* origin that was allowed; and that every yes on its way from the popup   *)
(* to the client, in the result, in a poll or in a response, is one its    *)
(* own origin was given.                                                   *)
(*                                                                         *)
(* The bridge session: a token on its way to the extension is not one that *)
(* it has, or has had refused, in any of the places where it keeps them,   *)
(* and none of those places has one while there is no port; nobody waits   *)
(* for two handshakes, and the owner of a handshake waits for its own, so  *)
(* that an answer is never taken for that of another question.             *)
(***************************************************************************)
EXTENDS AppConnect, BridgeSession, TLAPS

---------------------------------------------------------------------------
(* Connecting an application *)

OriginOrNone == Origins \cup {None}
Ats == {"idle", "sent", "asks", "polls", "ends", "clears", "answers", "over"}
Steps == {"approve", "choosing", "saving", "stuck", "yes", "no", "done"}
Records == [at : Ats, yes : BOOLEAN]

Shape ==
    /\ client \in [Origins -> {"disconnected", "connecting", "connected", "failed"}]
    /\ session \in [Origins -> Attempts \cup {None}]
    /\ by \in [Attempts -> OriginOrNone]
    /\ awaited \subseteq Attempts
    /\ \A a \in awaited : by[a] \in Origins
    /\ req \in [Attempts -> Records]
    /\ result \in [origin : OriginOrNone, yes : BOOLEAN]
    /\ wizard \in [view : OriginOrNone, origin : OriginOrNone, step : Steps]
    /\ kept \in [origin : OriginOrNone, step : Steps]
    /\ pending \in OriginOrNone
    /\ answered \subseteq Origins
    /\ wizard.view # None => wizard.origin \in Origins
    /\ kept = NothingKept \/ kept.origin \in Origins

\* A wizard past its first page stands for an allowed origin.
PastAllow ==
    /\ RecordsAllowed
    /\ wizard.step \in {"choosing", "saving"} => wizard.origin \in allowed
    /\ kept.step \in {"choosing", "saving"} => kept.origin \in allowed

\* A yes is one its origin was given.
YesAnswered ==
    /\ SessionsAnswered
    /\ apps \subseteq answered
    /\ result.yes => result.origin \in answered
    /\ \A a \in Attempts : req[a].yes => by[a] \in answered

IInv == Shape /\ PastAllow /\ YesAnswered /\ ConnectedHasSession

LEMMA InitIInv == Init => IInv
<1> SUFFICES ASSUME Init PROVE IInv
  OBVIOUS
<1>1. Shape
  <2>1. req \in [Attempts -> Records]
    BY DEF Init, Idle, Records, Ats
  <2>2. result \in [origin : OriginOrNone, yes : BOOLEAN]
    BY DEF Init, NoResult, OriginOrNone
  <2>3. /\ wizard \in [view : OriginOrNone, origin : OriginOrNone, step : Steps]
        /\ wizard.view = None
    BY DEF Init, NoWizard, OriginOrNone, Steps
  <2>4. kept \in [origin : OriginOrNone, step : Steps]
    BY DEF Init, NothingKept, OriginOrNone, Steps
  <2> QED  BY <2>1, <2>2, <2>3, <2>4 DEF Init, Shape, OriginOrNone
<1>2. PastAllow
  BY DEF Init, PastAllow, RecordsAllowed, NoWizard, NothingKept
<1>3. YesAnswered
  BY DEF Init, YesAnswered, SessionsAnswered, NoResult, Idle
<1>4. ConnectedHasSession
  BY DEF Init, ConnectedHasSession
<1> QED  BY <1>1, <1>2, <1>3, <1>4 DEF IInv

\* The steps of the client leave the storage and the popup alone.
LEMMA ClientSteps ==
    ASSUME IInv, NEW o \in Origins,
           \/ \E a \in Attempts : Connect(o, a)
           \/ ConnectThrows(o)
           \/ Disconnect(o) \/ DisconnectAtOnce(o) \/ DisconnectEnds(o) \/ DisconnectFails(o)
    PROVE  IInv'
<1> USE DEF popupVars, history, IInv
<1>1. ASSUME NEW a \in Attempts, Connect(o, a) PROVE IInv'
  <2>1. /\ by' = [by EXCEPT ![a] = o] /\ by[a] = None
        /\ req' = [req EXCEPT ![a].at = "sent"]
        /\ client' = [client EXCEPT ![o] = "connecting"]
        /\ awaited' = awaited \cup {a}
        /\ UNCHANGED <<session, pending, result, wizard, kept, apps, allowed, answered>>
    BY <1>1 DEF Connect
  <2>2. /\ req' \in [Attempts -> Records]
        /\ \A b \in Attempts : req'[b].yes = req[b].yes
    BY <2>1 DEF Shape, Records, Ats
  <2>3. /\ by' \in [Attempts -> OriginOrNone]
        /\ \A b \in Attempts : b # a => by'[b] = by[b]
        /\ by'[a] = o
    BY <2>1 DEF Shape, OriginOrNone
  <2>4. Shape'
    BY <2>1, <2>2, <2>3 DEF Shape
  <2>5. PastAllow'
    BY <2>1 DEF PastAllow, RecordsAllowed
  <2>6. ~req[a].yes
    BY <2>1, ConnectAssumption DEF YesAnswered, Shape
  <2>7. YesAnswered'
    BY <2>1, <2>2, <2>3, <2>6 DEF YesAnswered, SessionsAnswered
  <2>8. ConnectedHasSession'
    BY <2>1 DEF ConnectedHasSession, Shape
  <2> QED  BY <2>4, <2>5, <2>7, <2>8
<1>2. CASE Disconnect(o) \/ DisconnectFails(o)
  BY <1>2 DEF Disconnect, DisconnectFails, Shape, PastAllow, RecordsAllowed, YesAnswered,
     SessionsAnswered, ConnectedHasSession
<1>3. CASE DisconnectAtOnce(o) \/ DisconnectEnds(o)
  BY <1>3 DEF DisconnectAtOnce, DisconnectEnds, Left, Shape, PastAllow, RecordsAllowed,
     YesAnswered, SessionsAnswered, ConnectedHasSession
<1>4. CASE ConnectThrows(o)
  BY <1>4 DEF ConnectThrows, Shape, PastAllow, RecordsAllowed, YesAnswered,
     SessionsAnswered, ConnectedHasSession
<1> QED  BY <1>1, <1>2, <1>3, <1>4

\* The end of a connect() hands a session over, or only a refusal.
LEMMA AttemptSteps ==
    ASSUME IInv, NEW a \in Attempts, ConnectTimesOut(a) \/ ConnectEnds(a)
    PROVE  IInv'
<1> USE DEF popupVars, history, IInv
<1>1. a \in awaited /\ by[a] \in Origins
  BY DEF ConnectTimesOut, ConnectEnds, Shape
<1>2. Failed(by[a]) \in [Origins -> {"disconnected", "connecting", "connected", "failed"}]
      /\ \A o \in Origins : Failed(by[a])[o] = "connected" => client[o] = "connected"
  BY <1>1 DEF Failed, Shape
<1>3. CASE ConnectTimesOut(a)
  BY <1>2, <1>3 DEF ConnectTimesOut, Shape, PastAllow, RecordsAllowed, YesAnswered,
     SessionsAnswered, ConnectedHasSession
<1>4. CASE ConnectEnds(a)
  <2>1. /\ req' = [req EXCEPT ![a].at = "over"]
        /\ awaited' = awaited \ {a}
        /\ UNCHANGED <<by, pending, result, wizard, kept, apps, allowed, answered>>
    BY <1>4 DEF ConnectEnds
  <2>2. /\ req' \in [Attempts -> Records]
        /\ \A b \in Attempts : req'[b].yes = req[b].yes
    BY <2>1 DEF Shape, Records, Ats
  <2>3. PastAllow'
    BY <2>1 DEF PastAllow, RecordsAllowed
  <2>4. CASE req[a].yes
    <3>1. /\ session' = [session EXCEPT ![by[a]] = a]
          /\ client' = [client EXCEPT ![by[a]] = IF @ = "connecting" THEN "connected" ELSE @]
      BY <1>4, <2>4 DEF ConnectEnds
    <3>2. Shape'
      BY <1>1, <2>1, <2>2, <3>1 DEF Shape
    <3>3. by[a] \in answered
      BY <2>4 DEF YesAnswered
    <3>4. YesAnswered'
      BY <1>1, <2>1, <2>2, <3>1, <3>3 DEF YesAnswered, SessionsAnswered, Shape
    <3>5. ConnectedHasSession'
      BY <1>1, <3>1, ConnectAssumption DEF ConnectedHasSession, Shape
    <3> QED  BY <2>3, <3>2, <3>4, <3>5
  <2>5. CASE ~req[a].yes
    <3>1. session' = session /\ client' = Failed(by[a])
      BY <1>4, <2>5 DEF ConnectEnds
    <3> QED  BY <1>2, <2>1, <2>2, <2>3, <3>1 DEF Shape, YesAnswered, SessionsAnswered, ConnectedHasSession
  <2> QED  BY <2>4, <2>5
<1> QED  BY <1>3, <1>4

\* A step of the worker that records in req[a] a yes its origin was given.
LEMMA RequestStep ==
    ASSUME IInv, NEW a \in Attempts, NEW r \in Records,
           req' = [req EXCEPT ![a] = r],
           r.yes => by[a] \in answered,
           UNCHANGED <<client, session, by, awaited, wizard, kept, apps, allowed, answered>>,
           pending' \in OriginOrNone,
           result' \in [origin : OriginOrNone, yes : BOOLEAN],
           result'.yes => result'.origin \in answered
    PROVE  IInv'
<1> USE DEF IInv
<1>1. /\ req' \in [Attempts -> Records]
      /\ \A b \in Attempts : b # a => req'[b] = req[b]
      /\ req'[a] = r
  BY DEF Shape
<1>2. Shape'
  BY <1>1 DEF Shape
<1>3. PastAllow' /\ ConnectedHasSession'
  BY DEF PastAllow, RecordsAllowed, ConnectedHasSession
<1>4. YesAnswered'
  BY <1>1 DEF YesAnswered, SessionsAnswered
<1> QED  BY <1>2, <1>3, <1>4

LEMMA MovesRecord ==
    ASSUME Shape, NEW a \in Attempts, NEW from, NEW to \in Ats, Moves(a, from, to)
    PROVE  \E r \in Records :
                req' = [req EXCEPT ![a] = r] /\ r.yes = req[a].yes
<1> DEFINE r == [at |-> to, yes |-> req[a].yes]
<1>1. r \in Records /\ r.yes = req[a].yes
  BY DEF Shape, Records
<1>2. [req[a] EXCEPT !.at = to] = r
  BY DEF Shape, Records
<1>3. req' = [req EXCEPT ![a] = [req[a] EXCEPT !.at = to]]
  BY DEF Moves
<1> QED  BY <1>1, <1>2, <1>3

LEMMA WorkerSteps ==
    ASSUME IInv, NEW a \in Attempts,
           \/ Looks(a) \/ Refuses(a) \/ Asks(a) \/ PollHears(a) \/ PollTimesOut(a)
           \/ ClearsPending(a) \/ ClearsResult(a)
    PROVE  IInv'
<1> USE DEF clientVars, popupVars, history
<1>1. /\ req[a].yes => by[a] \in answered
      /\ Shape
      /\ pending \in OriginOrNone /\ by[a] \in OriginOrNone
      /\ result \in [origin : OriginOrNone, yes : BOOLEAN]
      /\ result.yes => result.origin \in answered
      /\ result.yes \in BOOLEAN
      /\ apps \subseteq answered
  BY DEF IInv, Shape, YesAnswered
<1>2. /\ None \in OriginOrNone
      /\ NoResult \in [origin : OriginOrNone, yes : BOOLEAN]
      /\ ~NoResult.yes
  BY DEF OriginOrNone, NoResult
<1>3. ASSUME NEW yes \in BOOLEAN, NEW at \in {"answers", "ends"}
      PROVE  [at |-> at, yes |-> yes] \in Records
  BY DEF Records, Ats
<1>4. CASE Looks(a) /\ by[a] \in apps /\ Answers(a, TRUE)
  BY <1>1, <1>3, <1>4, RequestStep DEF Looks, Answers
<1>5. ASSUME NEW from, NEW to \in Ats, Moves(a, from, to),
             UNCHANGED <<client, session, by, awaited, wizard, kept, apps, allowed, answered>>,
             pending' \in OriginOrNone, result' = result \/ result' = NoResult
      PROVE  IInv'
  <2>1. PICK r \in Records : req' = [req EXCEPT ![a] = r] /\ r.yes = req[a].yes
    BY <1>1, <1>5, MovesRecord
  <2> QED  BY <1>1, <1>2, <1>5, <2>1, RequestStep
<1>6. {"asks", "polls", "ends", "clears", "answers"} \subseteq Ats
  BY DEF Ats
<1>7. CASE Looks(a) /\ Moves(a, "sent", "asks")
  BY <1>1, <1>5, <1>6, <1>7 DEF Looks
<1>8. CASE Refuses(a)
  BY <1>1, <1>3, <1>8, RequestStep DEF Refuses, Answers
<1>9. CASE Asks(a)
  <2>1. Moves(a, "asks", "polls")
    BY <1>9 DEF Asks
  <2> QED  BY <1>1, <1>5, <1>6, <1>9, <2>1 DEF Asks
<1>10. CASE PollHears(a)
  <2>1. [at |-> "ends", yes |-> result.yes] \in Records
    BY <1>1, <1>3
  <2>2. [at |-> "ends", yes |-> result.yes].yes = result.yes
    OBVIOUS
  <2> QED  BY <1>1, <1>10, <2>1, <2>2, RequestStep DEF PollHears, Heard
<1>11. CASE PollTimesOut(a)
  <2>1. Moves(a, "polls", "ends")
    BY <1>11 DEF PollTimesOut
  <2> QED  BY <1>1, <1>5, <1>6, <1>11, <2>1 DEF PollTimesOut
<1>12. CASE ClearsPending(a)
  <2>1. Moves(a, "ends", "clears")
    BY <1>12 DEF ClearsPending
  <2> QED  BY <1>1, <1>2, <1>5, <1>6, <1>12, <2>1 DEF ClearsPending
<1>13. CASE ClearsResult(a)
  <2>1. Moves(a, "clears", "answers")
    BY <1>13 DEF ClearsResult
  <2> QED  BY <1>1, <1>5, <1>6, <1>13, <2>1 DEF ClearsResult
<1> QED  BY <1>4, <1>7, <1>8, <1>9, <1>10, <1>11, <1>12, <1>13 DEF Looks

LEMMA WorkerDeath == IInv /\ WorkerDies => IInv'
<1> SUFFICES ASSUME IInv, WorkerDies PROVE IInv'
  OBVIOUS
<1> USE DEF clientVars, popupVars, history, IInv
<1>1. [at |-> "answers", yes |-> FALSE] \in Records /\ ~[at |-> "answers", yes |-> FALSE].yes
  BY DEF Records, Ats
<1>2. \A a \in Attempts : req'[a] = [at |-> "answers", yes |-> FALSE] \/ req'[a] = req[a]
  BY DEF WorkerDies
<1>3. req' \in [Attempts -> Records]
  <2>1. req' = [a \in Attempts |-> req'[a]]
    BY DEF WorkerDies
  <2> QED  BY <1>1, <1>2, <2>1 DEF Shape
<1>4. UNCHANGED <<client, session, by, awaited, pending, result, wizard, kept, apps, allowed, answered>>
  BY DEF WorkerDies
<1> QED
  BY <1>1, <1>2, <1>3, <1>4 DEF Shape, PastAllow, RecordsAllowed, YesAnswered,
     SessionsAnswered, ConnectedHasSession

LEMMA PopupSteps ==
    ASSUME IInv,
           \/ Open \/ Close \/ Allow \/ Back \/ Decline \/ Save \/ Saved \/ SaveFails
           \/ \E yes \in BOOLEAN : WritesResult(yes)
           \/ RemovesPending
           \/ \E o \in Origins : Remove(o)
    PROVE  IInv'
<1> USE DEF clientVars, popupVars, history, IInv
<1> DEFINE W == [view : OriginOrNone, origin : OriginOrNone, step : Steps]
           K == [origin : OriginOrNone, step : Steps]
<1>1. /\ NoWizard \in W /\ NoWizard.view = None /\ NoWizard.step = "approve"
      /\ NothingKept \in K /\ NothingKept.step = "approve"
      /\ None \in OriginOrNone
  BY DEF NoWizard, NothingKept, OriginOrNone, Steps
<1>2. wizard \in W /\ kept \in K /\ pending \in OriginOrNone
  BY DEF Shape
\* What a step of the popup may do to the wizards.
<1>3. ASSUME wizard' \in W, kept' \in K,
             UNCHANGED <<client, session, by, awaited, req>>,
             wizard'.view # None => wizard'.origin \in Origins,
             kept' = NothingKept \/ kept'.origin \in Origins,
             wizard'.step \in {"choosing", "saving"} => wizard'.origin \in allowed',
             kept'.step \in {"choosing", "saving"} => kept'.origin \in allowed',
             apps' \subseteq allowed', apps' \subseteq answered',
             answered \subseteq answered', answered' \subseteq Origins,
             pending' \in OriginOrNone,
             result' \in [origin : OriginOrNone, yes : BOOLEAN],
             result'.yes => result'.origin \in answered'
      PROVE  IInv'
  <2>1. Shape'
    BY <1>3 DEF Shape
  <2>2. PastAllow'
    BY <1>3 DEF PastAllow, RecordsAllowed
  <2>3. YesAnswered'
    BY <1>3 DEF YesAnswered, SessionsAnswered
  <2>4. ConnectedHasSession'
    BY <1>3 DEF ConnectedHasSession
  <2> QED  BY <2>1, <2>2, <2>3, <2>4
<1>4. /\ result \in [origin : OriginOrNone, yes : BOOLEAN]
      /\ result.yes => result.origin \in answered
      /\ apps \subseteq allowed /\ apps \subseteq answered /\ answered \subseteq Origins
      /\ wizard.view # None => wizard.origin \in Origins
      /\ kept = NothingKept \/ kept.origin \in Origins
      /\ wizard.step \in {"choosing", "saving"} => wizard.origin \in allowed
      /\ kept.step \in {"choosing", "saving"} => kept.origin \in allowed
  BY DEF Shape, PastAllow, RecordsAllowed, YesAnswered
\* A wizard that only goes to another page.
<1>5. ASSUME NEW to \in Steps PROVE
        LET w == [wizard EXCEPT !.step = to] IN
        w \in W /\ w.view = wizard.view /\ w.origin = wizard.origin /\ w.step = to
  BY <1>2, <1>5
<1>6. ASSUME NEW to \in Steps PROVE
        LET k == [origin |-> wizard.origin, step |-> to] IN
        k \in K /\ k.origin = wizard.origin /\ k.step = to
  BY <1>2, <1>6
<1>7. Steps = {"approve", "choosing", "saving", "stuck", "yes", "no", "done"}
  BY DEF Steps
<1> HIDE DEF W, K, IInv
<1>8. CASE Open
  <2> DEFINE w == Restored(pending)
             s == IF w.step = "saving" THEN "stuck" ELSE w.step
  <2>1. /\ pending \in Origins
        /\ UNCHANGED <<client, session, by, awaited, req, pending, result, apps, allowed, answered>>
    BY <1>2, <1>8 DEF Open, OriginOrNone
  <2>2. /\ w \in K /\ w.origin \in Origins
        /\ w.step \in {"choosing", "saving"} => w.origin \in allowed
    BY <1>2, <1>4, <1>7, <2>1 DEF Restored, K, OriginOrNone
  <2>3. wizard' = [view |-> pending, origin |-> w.origin, step |-> s] /\ kept' = w
    BY <1>8 DEF Open
  <2>4. s \in Steps /\ (s \in {"choosing", "saving"} => w.origin \in allowed)
    BY <1>7, <2>2 DEF K
  <2> HIDE DEF w, s
  <2>5. wizard' \in W /\ wizard'.origin = w.origin /\ wizard'.step = s
    BY <1>2, <2>2, <2>3, <2>4 DEF W, K
  <2> QED  BY <1>2, <1>3, <1>4, <2>1, <2>2, <2>3, <2>4, <2>5
<1>9. CASE Close
  BY <1>1, <1>2, <1>3, <1>4, <1>9 DEF Close
<1>10. CASE Allow
  BY <1>2, <1>3, <1>4, <1>5, <1>6, <1>7, <1>10 DEF Allow, Page
<1>11. CASE Back
  BY <1>2, <1>3, <1>4, <1>5, <1>6, <1>7, <1>11 DEF Back, Page
<1>12. CASE Decline
  BY <1>1, <1>2, <1>3, <1>4, <1>5, <1>7, <1>12 DEF Decline
<1>13. CASE Save
  BY <1>2, <1>3, <1>4, <1>5, <1>6, <1>7, <1>13 DEF Save, Page
\* What saveApp records is for the wizard's origin.
<1>14. ASSUME SavesApp, wizard.view # None, wizard.step = "saving", UNCHANGED allowed
       PROVE  /\ apps' \subseteq allowed' /\ apps' \subseteq answered'
              /\ answered \subseteq answered' /\ answered' \subseteq Origins
  BY <1>4, <1>14 DEF SavesApp
<1>15. CASE Saved
  <2>1. UNCHANGED <<client, session, by, awaited, req, pending, result, allowed>>
    BY <1>15 DEF Saved
  <2>2. /\ apps' \subseteq allowed' /\ apps' \subseteq answered'
        /\ answered \subseteq answered' /\ answered' \subseteq Origins
    BY <1>14, <1>15, <2>1 DEF Saved
  <2>3. /\ wizard' = [wizard EXCEPT !.step = "yes"]
        /\ kept' = [origin |-> wizard.origin, step |-> "saving"]
        /\ wizard.origin \in Origins /\ wizard.origin \in allowed
    BY <1>4, <1>15 DEF Saved
  <2> QED  BY <1>2, <1>3, <1>4, <1>5, <1>6, <1>7, <2>1, <2>2, <2>3
<1>16. CASE SaveFails
  <2>1. UNCHANGED <<client, session, by, awaited, req, pending, result, kept, allowed>>
    BY <1>16 DEF SaveFails
  <2>2. /\ apps' \subseteq allowed' /\ apps' \subseteq answered'
        /\ answered \subseteq answered' /\ answered' \subseteq Origins
    BY <1>14, <1>16, <2>1 DEF SaveFails
  <2>3. wizard' = [wizard EXCEPT !.step = "stuck"]
    BY <1>16 DEF SaveFails
  <2> QED  BY <1>2, <1>3, <1>4, <1>5, <1>7, <2>1, <2>2, <2>3
<1>17. ASSUME NEW yes \in BOOLEAN, WritesResult(yes) PROVE IInv'
  <2>1. wizard.view \in Origins
    BY <1>2, <1>17 DEF WritesResult, W, OriginOrNone
  <2>2. /\ result' \in [origin : OriginOrNone, yes : BOOLEAN]
        /\ result'.yes = yes /\ result'.origin = wizard.view
    BY <1>17, <2>1 DEF WritesResult, OriginOrNone
  <2>3. /\ wizard' = [wizard EXCEPT !.step = "done"]
        /\ answered' = IF yes THEN answered \cup {wizard.view} ELSE answered
        /\ UNCHANGED <<client, session, by, awaited, req, pending, kept, apps, allowed>>
    BY <1>17 DEF WritesResult
  <2> QED  BY <1>2, <1>3, <1>4, <1>5, <1>7, <2>1, <2>2, <2>3
<1>18. CASE RemovesPending
  BY <1>1, <1>2, <1>3, <1>4, <1>18 DEF RemovesPending
<1>19. ASSUME NEW o \in Origins, Remove(o) PROVE IInv'
  BY <1>2, <1>3, <1>4, <1>19 DEF Remove
<1> QED  BY <1>8, <1>9, <1>10, <1>11, <1>12, <1>13, <1>15, <1>17, <1>18, <1>19, <1>16

LEMMA StepIInv == IInv /\ [Next]_vars => IInv'
<1> SUFFICES ASSUME IInv, [Next]_vars PROVE IInv'
  OBVIOUS
<1>1. CASE UNCHANGED vars
  BY <1>1 DEF vars, clientVars, popupVars, history, IInv, Shape, PastAllow, RecordsAllowed,
      YesAnswered, SessionsAnswered, ConnectedHasSession
<1> QED  BY <1>1, ClientSteps, AttemptSteps, WorkerSteps, WorkerDeath, PopupSteps DEF Next

LEMMA Invariant == Spec => []IInv
  BY InitIInv, StepIInv, PTL DEF Spec

\* The vault records an app only for an origin the user allowed under its own
\* name, whichever wizard was kept and restored, and whoever died meanwhile.
THEOREM RecordedWereAllowed == Spec => []RecordsAllowed
<1>1. IInv => RecordsAllowed
  BY DEF IInv, PastAllow
<1> QED  BY Invariant, <1>1, PTL

\* No client has a session by an answer given to another origin's request.
THEOREM SessionsWereAnswered == Spec => []SessionsAnswered
<1>1. IInv => SessionsAnswered
  BY DEF IInv, YesAnswered
<1> QED  BY Invariant, <1>1, PTL

\* A client in the state "connected" has a session.
THEOREM ConnectedMeansSession == Spec => []ConnectedHasSession
<1>1. IInv => ConnectedHasSession
  BY DEF IInv
<1> QED  BY Invariant, <1>1, PTL

---------------------------------------------------------------------------
(* The bridge session *)

\* The types of the port, of the handshakes and of the calls.
Names == Callers \cup {Proxy}
Frames == [by : Names, kind : {"challenge", "verify", "work"}, token : Tokens \cup {0}]
Replies == [by : Names, ok : BOOLEAN, token : Tokens \cup {0}]
Handshakes == [step : {"none", "secret", "challenge", "hmac", "verify"},
               again : BOOLEAN, waiters : SUBSET Owners]
Pcs == {"idle", "handle", "session", "flight", "prepare", "work", "refused"}
Calls == [pc : Pcs, token : Tokens \cup {0}, refused : Tokens \cup {0}, since : Nat]

\* A closed port has nothing on it, and without a port no session is kept.
PortOK ==
    /\ port = "none" => asked = {} /\ answers = {} /\ sessionToken = 0 /\ cache = 0
    /\ port # "none" => ports > 0
    /\ port # "open" => asked = {} /\ ports < MaxPorts

\* The tokens that the extension has in its hands.
Held == {sessionToken, cache} \cup {call[c].token : c \in Callers}
                              \cup {call[c].refused : c \in Callers}

\* A token on its way is from this port, new to the extension and sent once.
Undelivered ==
    \A a \in answers :
        a.token # 0 => /\ sessions[a.token].from = ports
                       /\ a.token \notin Held
                       /\ \A b \in answers : b.token = a.token => b = a

\* A refused token has been given up.
RefusedGone ==
    \A c \in Vaults : call[c].refused # 0 => call[c].refused \notin {sessionToken, cache}

\* Who waits for a handshake, and what it waits with.
FlightsOK ==
    /\ \A f \in Owners : IF flight[f].step = "none" THEN flight[f].waiters = {}
                                                     ELSE f \in flight[f].waiters
    /\ registered # NoOwner => flight[registered].step # "none"
    /\ \A f \in Owners : \A n \in flight[f].waiters :
            (n = Proxy => establish = "flight") /\ (n \in Chats => call[n].pc = "flight")
    /\ \A f, g \in Owners : \A n \in flight[f].waiters : n \in flight[g].waiters => f = g

\* What the tokens depend on.
TokensOK == PortOK /\ Undelivered /\ RefusedGone /\ TokensOfThisPort /\ RetriedWithAnother

\* The inductive invariant.
SessionInv == TypeOK /\ TokensOK /\ FlightsOK /\ NobodyForgotten

---------------------------------------------------------------------------
\* The type invariant, conjunct for conjunct.
Typed ==
    /\ now \in 0..MaxTime
    /\ port \in {"none", "open", "dead"} /\ ports \in 0..MaxPorts
    /\ sessions \in Seq([until: Nat, from: 1..MaxPorts])
    /\ known \subseteq Tokens
    /\ asked \subseteq Frames /\ answers \subseteq Replies
    /\ sessionToken \in Tokens \cup {0} /\ cache \in Tokens \cup {0}
    /\ establish \in {"no", "pairing", "flight"}
    /\ registered \in Owners \cup {NoOwner}
    /\ flight \in [Owners -> Handshakes]
    /\ call \in [Callers -> Calls]

\* The type invariant over the names above.
LEMMA TypesAre == (TypeOK <=> Typed) /\ (TypeOK' <=> Typed')
BY DEF Typed, TypeOK, Frames, Replies, Handshakes, Calls, Pcs, Names

\* Who is a caller and who owns handshakes.
LEMMA NamesAre ==
    /\ Owners = Chats \cup {Proxy} /\ Callers = Vaults \cup Quiets \cup Chats
    /\ Owners \subseteq Names /\ Callers \subseteq Names
    /\ Proxy \notin Callers /\ Proxy \in Owners /\ NoOwner \notin Owners
    /\ \A c \in Vaults \cup Quiets : c \notin Owners /\ c \notin Chats /\ c \in Callers
    /\ \A c \in Vaults : c \notin Quiets
    /\ \A c \in Chats : c \in Callers /\ c \in Owners
BY BridgeSessionAssumption DEF Owners, Callers, Names

\* What posting does to the port.
LEMMA PostIs ==
    ASSUME TypeOK, PortOK, NEW R \in SUBSET Frames, NEW read \in SUBSET answers, Post(R, read)
    PROVE  /\ port' \in {"none", "open", "dead"} /\ ports' \in 0..MaxPorts
           /\ sessions' = sessions /\ known' \subseteq Tokens
           /\ asked' \subseteq Frames /\ asked \subseteq asked'
           /\ answers' = answers \ read
           /\ port' = "dead" <=> port = "dead"
           /\ port # "dead" => asked' = asked \cup R
           /\ port' = "none" <=> port = "none" /\ R = {}
           /\ port # "none" => port' = port /\ ports' = ports
           /\ port' # "none" => ports' > 0
           /\ port' # "open" => asked' = {} /\ ports' < MaxPorts
<1>1. CASE port = "none" /\ R # {}
  BY <1>1, BridgeSessionAssumption DEF Post, PortOK, TypeOK, Frames, Names
<1>2. CASE ~(port = "none" /\ R # {})
  BY <1>2, TypesAre DEF Typed, Post, PortOK
<1> QED  BY <1>1, <1>2

---------------------------------------------------------------------------
(* Tokens *)

\* A step that moves tokens about and takes delivery of those in T.
TokensMove(T) ==
    /\ sessions' = sessions
    /\ answers' \subseteq answers
    /\ port # "none" /\ port' # "none" => ports' = ports
    /\ \A t \in T : t # 0 => \E a \in answers \ answers' : a.token = t
    /\ {sessionToken', cache'} \subseteq {0, sessionToken, cache} \cup T
    /\ \A c \in Callers :
        /\ call'[c].token \in {0, call[c].token, sessionToken, cache} \cup T
        /\ call'[c].refused \in {0, call[c].refused, call[c].token}
    /\ \A c \in Vaults :
        \/ call'[c].refused \in {0, call[c].refused}
        \/ call'[c].token = 0 /\ sessionToken' = 0 /\ cache' = 0

\* A token read from an answer is in no other hand, and what was refused is
\* nowhere any more.
LEMMA TokensMoveKeeps ==
    ASSUME TypeOK, TypeOK', TokensOK, PortOK', NEW T, TokensMove(T)
    PROVE  TokensOK'
<1> USE DEF TokensOK
<1>1. \A t \in T : t # 0 => t \notin Held /\ sessions[t].from = ports /\ port # "none"
  BY DEF TokensMove, Undelivered, PortOK
<1>2. \A a \in answers' : a.token # 0 => a.token \notin T
  <2> SUFFICES ASSUME NEW a \in answers', a.token # 0, a.token \in T PROVE FALSE
    OBVIOUS
  <2>1. PICK b \in answers \ answers' : b.token = a.token
    BY DEF TokensMove
  <2>2. a \in answers
    BY DEF TokensMove
  <2> QED  BY <2>1, <2>2 DEF Undelivered
<1>3. Held' \subseteq Held \cup {0} \cup T
  <2>1. {sessionToken', cache'} \subseteq Held \cup {0} \cup T
    BY DEF TokensMove, Held
  <2>2. ASSUME NEW c \in Callers
        PROVE  call'[c].token \in Held \cup {0} \cup T /\ call'[c].refused \in Held \cup {0} \cup T
    BY DEF TokensMove, Held
  <2> QED  BY <2>1, <2>2 DEF Held
<1>4. answers' # {} => port # "none" /\ port' # "none" /\ ports' = ports
  BY DEF TokensMove, PortOK
<1>5. Undelivered'
  <2> SUFFICES ASSUME NEW a \in answers', a.token # 0
               PROVE  /\ sessions'[a.token].from = ports'
                      /\ a.token \notin Held'
                      /\ \A b \in answers' : b.token = a.token => b = a
    BY DEF Undelivered
  <2>1. a \in answers /\ sessions' = sessions /\ ports' = ports /\ answers' \subseteq answers
    BY <1>4 DEF TokensMove
  <2>2. a.token \notin Held'
    BY <1>2, <1>3, <2>1 DEF Undelivered
  <2> QED  BY <2>1, <2>2 DEF Undelivered
<1>6. RefusedGone'
  <2> SUFFICES ASSUME NEW c \in Vaults, call'[c].refused # 0
               PROVE  call'[c].refused \notin {sessionToken', cache'}
    BY DEF RefusedGone
  <2>1. CASE call'[c].refused = call[c].refused
    <3>1. call[c].refused \in Held
      BY NamesAre DEF Held
    <3> QED  BY <1>1, <2>1, <3>1 DEF TokensMove, RefusedGone
  <2> QED  BY <2>1 DEF TokensMove
<1>7. TokensOfThisPort'
  <2> SUFFICES ASSUME NEW t \in {sessionToken', cache'} \ {0}
               PROVE  port' # "none" /\ sessions'[t].from = ports'
    BY DEF TokensOfThisPort
  <2>1. t \in {sessionToken, cache} \cup T
    BY DEF TokensMove
  <2>2. port # "none" /\ sessions[t].from = ports
    BY <1>1, <2>1 DEF TokensOfThisPort
  <2>3. port' # "none"
    BY DEF PortOK
  <2> QED  BY <2>2, <2>3 DEF TokensMove
<1>8. RetriedWithAnother'
  <2> SUFFICES ASSUME NEW c \in Vaults, call'[c].refused # 0
               PROVE  call'[c].token # call'[c].refused
    BY DEF RetriedWithAnother
  <2>1. CASE call'[c].refused = call[c].refused
    <3>1. c \in Callers /\ call[c].refused \in Held
      BY NamesAre DEF Held
    <3>2. call'[c].token \in {0, call[c].token, sessionToken, cache} \cup T
      BY <3>1 DEF TokensMove
    <3> QED  BY <1>1, <2>1, <3>1, <3>2 DEF RetriedWithAnother, RefusedGone
  <2> QED  BY <2>1 DEF TokensMove
<1> QED  BY <1>5, <1>6, <1>7, <1>8

\* The bridge answers for the caller that asked; a token it grants is new.
LEMMA Serves ==
    ASSUME TypeOK, TokensOK, NEW n, BridgeServes(n)
    PROVE  /\ TypeOK' /\ TokensOK'
           /\ {m.by : m \in asked' \cup answers'} = {m.by : m \in asked \cup answers}
           /\ UNCHANGED <<now, port, ports, proxyVars, cacheVars, flight, call>>
<1> USE DEF TokensOK
<1>1. PICK r \in asked : /\ Gate(r) \/ Challenge(r) \/ Verify(r)
                         /\ asked' = asked \ {r}
    BY DEF BridgeServes
<1>2. UNCHANGED <<now, port, ports, proxyVars, cacheVars, flight, call>>
  BY DEF BridgeServes
<1>3. port = "open" /\ ports > 0 /\ r \in Frames
  BY <1>1, TypesAre DEF Typed, PortOK
<1>4. PICK a : /\ answers' = answers \cup {a} /\ a.by = r.by
               /\ a \in [by : Names, ok : BOOLEAN, token : Tokens' \cup {0}]
               /\ \/ sessions' = sessions /\ known' = known /\ a.token = 0
                  \/ /\ sessions' = Append(sessions, [until |-> now + SessionTTL, from |-> ports])
                     /\ a.token = Len(sessions') /\ known' = known \cup {Len(sessions')}
  <2>1. CASE Gate(r)
    <3> DEFINE a == Answer(r, r.token \in known /\ Live(r.token, now), 0)
    <3>1. /\ a.by = r.by
          /\ a.token = 0
          /\ a \in [by : Names, ok : BOOLEAN, token : Tokens' \cup {0}]
      BY <1>3 DEF Answer, Frames
    <3>2. answers' = answers \cup {a} /\ sessions' = sessions /\ known' = known
      BY <2>1 DEF Gate
    <3> HIDE DEF a
    <3> QED  BY <3>1, <3>2
  <2>2. CASE Challenge(r)
    <3> DEFINE a == Answer(r, TRUE, 0)
    <3>1. /\ a.by = r.by
          /\ a.token = 0
          /\ a \in [by : Names, ok : BOOLEAN, token : Tokens' \cup {0}]
      BY <1>3 DEF Answer, Frames
    <3>2. answers' = answers \cup {a} /\ sessions' = sessions /\ known' = known
      BY <2>2 DEF Challenge
    <3> HIDE DEF a
    <3> QED  BY <3>1, <3>2
  <2>3. CASE Verify(r) /\ sessions' = Append(sessions, [until |-> now + SessionTTL, from |-> ports])
                       /\ known' = known \cup {Len(sessions')}
                       /\ answers' = answers \cup {Answer(r, TRUE, Len(sessions'))}
    <3> DEFINE a == Answer(r, TRUE, Len(sessions'))
    <3>1. a.by = r.by /\ a.token = Len(sessions')
      BY DEF Answer
    <3>2. Len(sessions') \in Tokens'
      BY <2>3 DEF TypeOK, Tokens
    <3>3. a \in [by : Names, ok : BOOLEAN, token : Tokens' \cup {0}]
      BY <1>3, <3>2 DEF Answer, Frames
    <3> QED  BY <2>3, <3>1, <3>3
  <2>4. CASE Verify(r) /\ answers' = answers \cup {Answer(r, FALSE, 0)} /\ sessions' = sessions
                       /\ known' = known
    <3> DEFINE a == Answer(r, FALSE, 0)
    <3>1. /\ a.by = r.by
          /\ a.token = 0
          /\ a \in [by : Names, ok : BOOLEAN, token : Tokens' \cup {0}]
      BY <1>3 DEF Answer, Frames
    <3> QED  BY <2>4, <3>1
  <2> QED  BY <1>1, <2>1, <2>2, <2>3, <2>4 DEF Verify
<1>5. /\ sessions' \in Seq([until: Nat, from: 1..MaxPorts])
      /\ Tokens \subseteq Tokens' /\ known' \subseteq Tokens'
      /\ \A t \in Tokens : sessions'[t] = sessions[t]
  <2>1. CASE sessions' = sessions /\ known' = known
    BY <2>1 DEF TypeOK, Tokens
  <2>2. CASE /\ sessions' = Append(sessions, [until |-> now + SessionTTL, from |-> ports])
             /\ known' = known \cup {Len(sessions')}
    <3>1. [until |-> now + SessionTTL, from |-> ports] \in [until: Nat, from: 1..MaxPorts]
      BY <1>3, BridgeSessionAssumption DEF TypeOK
    <3>2. sessions \in Seq([until: Nat, from: 1..MaxPorts]) /\ known \subseteq Tokens
      BY DEF TypeOK
    <3> DEFINE S == [until: Nat, from: 1..MaxPorts]
               s == [until |-> now + SessionTTL, from |-> ports]
    <3>3. sessions' = Append(sessions, s) /\ s \in S /\ sessions \in Seq(S)
      BY <2>2, <3>1, <3>2
    <3> SUFFICES sessions' \in Seq(S) /\ Tokens \subseteq Tokens' /\ known' \subseteq Tokens'
                 /\ \A t \in Tokens : sessions'[t] = sessions[t]
      OBVIOUS
    <3> HIDE DEF S, s
    <3>4. /\ sessions' \in Seq(S) /\ Len(sessions') = Len(sessions) + 1 /\ Len(sessions) \in Nat
          /\ \A t \in 1..Len(sessions) : sessions'[t] = sessions[t]
      BY <3>3
    <3>5. known' = known \cup {Len(sessions')} /\ known \subseteq Tokens
      BY <2>2, <3>2
    <3>6. Tokens \subseteq Tokens' /\ known' \subseteq Tokens'
      <4>1. Tokens = 1..Len(sessions) /\ Tokens' = 1..Len(sessions')
        BY DEF Tokens
      <4>2. Len(sessions) \in Nat /\ Len(sessions') = Len(sessions) + 1
        BY <3>4
      <4>3. 1..Len(sessions) \subseteq 1..Len(sessions') /\ Len(sessions') \in 1..Len(sessions')
        BY <4>2
      <4> QED  BY <3>5, <4>1, <4>3
    <3> QED  BY <3>4, <3>6 DEF Tokens
  <2> QED  BY <1>4, <2>1, <2>2
<1>6. TypeOK'
  <2>1. asked' \subseteq Frames' /\ answers' \subseteq Replies'
    BY <1>1, <1>4, <1>5, TypesAre DEF Typed, Frames, Replies
  <2>2. call' \in [Callers -> Calls']
    BY <1>2, <1>5, TypesAre DEF Typed, Calls
  <2> QED  BY <1>2, <1>5, <2>1, <2>2, TypesAre DEF Typed, proxyVars, cacheVars
<1>7. Held \subseteq Tokens \cup {0} /\ Held' = Held
  BY <1>2, TypesAre DEF Typed, Held, Calls, proxyVars, cacheVars
<1>8. a.token # 0 => /\ a.token \notin Tokens /\ sessions'[a.token].from = ports
  BY <1>4 DEF TypeOK, Tokens
<1>9. Undelivered'
  <2> SUFFICES ASSUME NEW b \in answers', b.token # 0
               PROVE  /\ sessions'[b.token].from = ports'
                      /\ b.token \notin Held'
                      /\ \A d \in answers' : d.token = b.token => d = b
    BY DEF Undelivered
  <2>1. CASE b \in answers
    <3>1. b.token \in Tokens /\ sessions'[b.token] = sessions[b.token]
      BY <1>5, <2>1, TypesAre DEF Typed, Replies
    <3> QED  BY <1>2, <1>4, <1>7, <1>8, <2>1, <3>1 DEF Undelivered
  <2>2. CASE b = a
    <3>1. \A d \in answers : d.token \in Tokens \cup {0}
      BY TypesAre DEF Typed, Replies
    <3> QED  BY <1>2, <1>4, <1>7, <1>8, <2>2, <3>1
  <2> QED  BY <1>4, <2>1, <2>2
<1>10. PortOK' /\ RefusedGone' /\ RetriedWithAnother'
  BY <1>1, <1>2, <1>3 DEF PortOK, RefusedGone, RetriedWithAnother, proxyVars, cacheVars
<1>11. TokensOfThisPort'
  BY <1>2, <1>5, TypesAre DEF Typed, TokensOfThisPort, proxyVars, cacheVars
<1>12. {m.by : m \in asked' \cup answers'} = {m.by : m \in asked \cup answers}
  BY <1>1, <1>4
<1> QED  BY <1>2, <1>6, <1>9, <1>10, <1>11, <1>12

---------------------------------------------------------------------------
(* Waiting *)

\* n has a message on the port, or will be told that it closed.
Expected(n) == port = "dead" \/ \E m \in asked \cup answers : m.by = n
AwaitsFlight(n) == \E f \in Owners : flight[f].step # "none" /\ n \in flight[f].waiters

\* The two halves of NobodyForgotten: requests and handshakes.
Answered ==
    /\ \A c \in Callers : call[c].pc = "work" => Expected(c)
    /\ \A f \in Owners : flight[f].step \in {"challenge", "verify"} => Expected(f)

Joined ==
    /\ \A c \in Chats : call[c].pc = "flight" => AwaitsFlight(c)
    /\ \A c \in Callers : call[c].pc = "session" => establish # "no"
    /\ establish = "flight" => AwaitsFlight(Proxy)

\* Nobody is forgotten when requests are answered and handshakes are joined.
LEMMA NobodyIs ==
    (NobodyForgotten <=> Answered /\ Joined) /\ (NobodyForgotten' <=> Answered' /\ Joined')
BY DEF NobodyForgotten, Answered, Joined, Expected, AwaitsFlight, AwaitingSession

\* Who expected a message that was not read, or posts a request, expects one.
LEMMA ExpectedKept ==
    ASSUME TypeOK, PortOK, NEW R \in SUBSET Frames, NEW read \in SUBSET answers, Post(R, read),
           NEW n, \/ Expected(n) /\ \A a \in read : a.by # n
                  \/ \E r \in R : r.by = n
    PROVE  Expected(n)'
<1>1. CASE port = "dead"
  BY <1>1, PostIs DEF Expected
<1>2. CASE port # "dead"
  <2>1. asked' = asked \cup R /\ answers' = answers \ read
    BY <1>2, PostIs
  <2> QED  BY <1>2, <2>1 DEF Expected
<1> QED  BY <1>1, <1>2

\* A step answers those who wait for the port, or leaves them a message.
LEMMA AnsweredKept ==
    ASSUME TypeOK, PortOK, Answered,
           NEW R \in SUBSET Frames, NEW read \in SUBSET answers, Post(R, read),
           \A c \in Callers : call'[c].pc = "work" =>
                \/ call[c].pc = "work" /\ \A a \in read : a.by # c
                \/ \E r \in R : r.by = c,
           \A f \in Owners : flight'[f].step \in {"challenge", "verify"} =>
                \/ flight[f].step \in {"challenge", "verify"} /\ \A a \in read : a.by # f
                \/ \E r \in R : r.by = f
    PROVE  Answered'
<1>1. ASSUME NEW c \in Callers, call'[c].pc = "work" PROVE Expected(c)'
  BY <1>1, ExpectedKept DEF Answered
<1>2. ASSUME NEW f \in Owners, flight'[f].step \in {"challenge", "verify"} PROVE Expected(f)'
  BY <1>2, ExpectedKept DEF Answered
<1> QED  BY <1>1, <1>2 DEF Answered

\* Calls come and go; the handshakes and who waits for them stay.
LEMMA FlightsKept ==
    ASSUME FlightsOK, Joined,
           \A f \in Owners : /\ flight'[f].waiters = flight[f].waiters
                             /\ flight'[f].step = "none" <=> flight[f].step = "none",
           registered' \in {registered, NoOwner},
           registered \in Owners \cup {NoOwner},
           establish' = "flight" <=> establish = "flight",
           \A c \in Chats : call'[c].pc = "flight" <=> call[c].pc = "flight",
           \A c \in Callers : call'[c].pc = "session" => establish' # "no"
    PROVE  FlightsOK' /\ Joined'
<1>1. FlightsOK'
  BY DEF FlightsOK
<1>2. Joined'
  BY DEF Joined, AwaitsFlight
<1> QED  BY <1>1, <1>2

\* The handshakes F settle, and the calls L that wait for the port.
LEMMA FlightsEnd ==
    ASSUME TypeOK, FlightsOK, Joined, NEW F \in SUBSET Owners, End(F), NEW L,
           \A c \in Callers : IF c \in Heirs(F) \cup L
                              THEN call'[c].pc \notin {"flight", "session"}
                              ELSE call'[c].pc = call[c].pc,
           \A c \in L : c \in Callers /\ call[c].pc = "work"
    PROVE  FlightsOK' /\ Joined'
<1>1. \A f \in Owners : flight'[f] = IF f \in F THEN NoFlight ELSE flight[f]
  BY DEF End
<1>2. NoFlight.step = "none" /\ NoFlight.waiters = {}
  BY DEF NoFlight
<1>3. \A n : n \in Woken(F) <=> \E f \in F : n \in flight[f].waiters
  BY DEF Woken
<1>4. \A c \in Chats : c \in Callers /\ c \in Owners
  BY NamesAre
<1>5. \A c \in Chats : call[c].pc = "flight" /\ c \notin Woken(F)
                        => c \notin Heirs(F) \cup L /\ call'[c].pc = "flight"
  BY <1>4 DEF Heirs, AwaitingSession
<1>6. \A c \in Chats : call'[c].pc = "flight" => call[c].pc = "flight" /\ c \notin Woken(F)
  BY <1>4 DEF Heirs
<1>7. Proxy \notin Woken(F) => establish' = establish
  BY DEF End
<1>8. \A f \in Owners : f \notin F => \A n \in flight[f].waiters : n \notin Woken(F)
  BY <1>3 DEF FlightsOK
<1>9. FlightsOK'
  <2>1. \A f \in Owners : \A n \in flight'[f].waiters :
            (n = Proxy => establish' = "flight") /\ (n \in Chats => call'[n].pc = "flight")
    BY <1>1, <1>2, <1>5, <1>7, <1>8 DEF FlightsOK
  <2>2. registered' = NoOwner
    BY DEF End
  <2> QED  BY <1>1, <1>2, <2>1, <2>2 DEF FlightsOK
<1>10. \A n : AwaitsFlight(n) /\ n \notin Woken(F) => AwaitsFlight(n)'
  BY <1>1, <1>3 DEF AwaitsFlight
<1>11. Joined'
  <2>1. \A c \in Chats : call'[c].pc = "flight" => AwaitsFlight(c)'
    BY <1>6, <1>10 DEF Joined
  <2>2. \A c \in Callers : call'[c].pc = "session" => establish' # "no"
    <3> SUFFICES ASSUME NEW c \in Callers, call'[c].pc = "session" PROVE establish' # "no"
      OBVIOUS
    <3>1. c \notin Heirs(F) /\ call[c].pc = "session"
      OBVIOUS
    <3>2. Proxy \notin Woken(F)
      BY <3>1 DEF Heirs, AwaitingSession
    <3> QED  BY <1>7, <3>1, <3>2 DEF Joined
  <2>3. establish' = "flight" => AwaitsFlight(Proxy)'
    BY <1>7, <1>10 DEF Joined, End
  <2> QED  BY <2>1, <2>2, <2>3 DEF Joined
<1> QED  BY <1>9, <1>11

\* n, which waits for none, starts a handshake or joins the registered one.
LEMMA FlightTaken ==
    ASSUME TypeOK, FlightsOK, Joined, NEW n \in Owners, NEW step, step # "none",
           \A f \in Owners : n \notin flight[f].waiters,
           \/ registered = NoOwner /\ StartFlight(n, step)
           \/ registered # NoOwner /\ Join(n),
           n = Proxy => establish' = "flight",
           n # Proxy => establish' = establish,
           n \in Chats => call'[n].pc = "flight",
           \A c \in Chats : c # n => (call'[c].pc = "flight" <=> call[c].pc = "flight"),
           \A c \in Callers : call'[c].pc = "session" => establish' # "no"
    PROVE  FlightsOK' /\ Joined'
<1>1. PICK g \in Owners :
        /\ registered' = g /\ flight'[g].step # "none"
        /\ g \in flight'[g].waiters /\ flight'[g].waiters = flight[g].waiters \cup {n}
        /\ \A f \in Owners : f # g => flight'[f] = flight[f]
  <2>1. CASE registered = NoOwner /\ StartFlight(n, step)
    <3>1. flight[n].waiters = {}
      BY DEF FlightsOK
    <3>2. flight'[n] = [step |-> step, again |-> TRUE, waiters |-> {n}]
      BY <2>1, TypesAre DEF Typed, StartFlight
    <3>3. registered' = n /\ \A f \in Owners : f # n => flight'[f] = flight[f]
      BY <2>1, TypesAre DEF Typed, StartFlight
    <3> QED  BY <3>1, <3>2, <3>3
  <2>2. CASE registered # NoOwner /\ Join(n)
    <3>1. registered \in Owners /\ registered' = registered
      BY <2>2, TypesAre DEF Typed, Join
    <3>2. /\ flight'[registered].step = flight[registered].step
          /\ flight'[registered].waiters = flight[registered].waiters \cup {n}
          /\ \A f \in Owners : f # registered => flight'[f] = flight[f]
      BY <2>2, <3>1, TypesAre DEF Typed, Join, Handshakes
    <3> QED  BY <2>2, <3>1, <3>2 DEF FlightsOK
  <2> QED  BY <2>1, <2>2
<1>2. \A f \in Owners : /\ flight[f].waiters \subseteq flight'[f].waiters
                        /\ flight[f].waiters # {} => flight'[f].step # "none"
                        /\ \A m \in flight'[f].waiters : m \in flight[f].waiters \/ (m = n /\ f = g)
  BY <1>1 DEF FlightsOK
<1>3. FlightsOK'
  <2>1. \A f \in Owners : IF flight'[f].step = "none" THEN flight'[f].waiters = {}
                                                      ELSE f \in flight'[f].waiters
    BY <1>1 DEF FlightsOK
  <2>2. \A f \in Owners : \A m \in flight'[f].waiters :
            (m = Proxy => establish' = "flight") /\ (m \in Chats => call'[m].pc = "flight")
    <3> SUFFICES ASSUME NEW f \in Owners, NEW m \in flight'[f].waiters
                 PROVE  (m = Proxy => establish' = "flight") /\ (m \in Chats => call'[m].pc = "flight")
      OBVIOUS
    <3>1. CASE m = n
      BY <3>1
    <3>2. CASE m # n
      BY <1>2, <3>2 DEF FlightsOK
    <3> QED  BY <3>1, <3>2
  <2>3. \A f, h \in Owners : \A m \in flight'[f].waiters : m \in flight'[h].waiters => f = h
    BY <1>2 DEF FlightsOK
  <2> QED  BY <1>1, <2>1, <2>2, <2>3 DEF FlightsOK
<1>4. \A m : AwaitsFlight(m) => AwaitsFlight(m)'
  BY <1>2 DEF AwaitsFlight
<1>5. AwaitsFlight(n)'
  BY <1>1 DEF AwaitsFlight
<1>6. Joined'
  BY <1>4, <1>5 DEF Joined
<1> QED  BY <1>3, <1>6

---------------------------------------------------------------------------
(* The steps *)

\* What a step does to the tokens in hand, T being those of the answers read.
Hands(T, read) ==
    /\ \A t \in T : t # 0 => \E a \in read : a.token = t
    /\ {sessionToken', cache'} \subseteq {0, sessionToken, cache} \cup T
    /\ call' \in [Callers -> Calls]
    /\ \A c \in Callers :
        /\ call'[c].token \in {0, call[c].token, sessionToken, cache} \cup T
        /\ call'[c].refused \in {0, call[c].refused, call[c].token}
    /\ \A c \in Vaults :
        \/ call'[c].refused \in {0, call[c].refused}
        \/ call'[c].token = 0 /\ sessionToken' = 0 /\ cache' = 0

\* Who waits for the port after it.
Waits(R, read) ==
    /\ \A c \in Callers : call'[c].pc = "work" =>
            \/ call[c].pc = "work" /\ \A a \in read : a.by # c
            \/ \E r \in R : r.by = c
    /\ \A f \in Owners : flight'[f].step \in {"challenge", "verify"} =>
            \/ flight[f].step \in {"challenge", "verify"} /\ \A a \in read : a.by # f
            \/ \E r \in R : r.by = f

\* A step of the extension keeps the invariant.
LEMMA SessionStep ==
    ASSUME SessionInv,
           NEW R \in SUBSET Frames, NEW read \in SUBSET answers, Post(R, read),
           NEW T, Hands(T, read), Waits(R, read),
           now' \in 0..MaxTime, establish' \in {"no", "pairing", "flight"},
           registered' \in Owners \cup {NoOwner}, flight' \in [Owners -> Handshakes],
           FlightsOK' /\ Joined'
    PROVE  SessionInv'
<1>1. TypeOK /\ TokensOK /\ FlightsOK /\ Answered /\ Joined /\ PortOK
  BY NobodyIs DEF SessionInv, TokensOK
<1>2. /\ port' \in {"none", "open", "dead"} /\ ports' \in 0..MaxPorts
      /\ sessions' = sessions /\ known' \subseteq Tokens
      /\ asked' \subseteq Frames /\ asked \subseteq asked'
      /\ answers' = answers \ read
      /\ port' = "dead" <=> port = "dead"
      /\ port # "dead" => asked' = asked \cup R
      /\ port' = "none" <=> port = "none" /\ R = {}
      /\ port # "none" => port' = port /\ ports' = ports
      /\ port' # "none" => ports' > 0
      /\ port' # "open" => asked' = {} /\ ports' < MaxPorts
  BY <1>1, PostIs
<1>3. TokensMove(T)
  BY <1>2 DEF TokensMove, Hands
<1>4. T \subseteq Tokens \cup {0}
  BY <1>1, TypesAre DEF Typed, Hands, Replies
<1>5. sessionToken' \in Tokens \cup {0} /\ cache' \in Tokens \cup {0}
  BY <1>1, <1>4, TypesAre DEF Typed, Hands
<1>6. Tokens' = Tokens
  BY <1>2 DEF Tokens
<1>7. Frames' = Frames /\ Replies' = Replies /\ Calls' = Calls
  BY <1>6 DEF Frames, Replies, Calls
<1>8. TypeOK'
  BY <1>1, <1>2, <1>5, <1>6, <1>7, TypesAre DEF Typed, Hands
<1>9. PortOK'
  <2>1. port = "none" => T \subseteq {0}
    BY <1>1 DEF Hands, PortOK
  <2>2. port' = "none" => port = "none" /\ asked' = {} /\ answers' = {}
    BY <1>1, <1>2 DEF PortOK
  <2>3. port = "none" => sessionToken' = 0 /\ cache' = 0
    BY <1>1, <2>1 DEF Hands, PortOK
  <2> QED  BY <1>2, <2>2, <2>3 DEF PortOK
<1>10. TokensOK'
  BY <1>1, <1>3, <1>8, <1>9, TokensMoveKeeps
<1>11. Answered'
  BY <1>1, AnsweredKept DEF Waits
<1> QED  BY <1>8, <1>10, <1>11, NobodyIs DEF SessionInv

\* Without a call of ensurePort the port stays as it is.
LEMMA PostNothing == UNCHANGED bridgeVars => Post({}, {})
BY DEF bridgeVars, Post

\* The tokens stay where they are.
LEMMA SameHands ==
    ASSUME SessionInv, UNCHANGED <<sessionToken, cache, call>>, NEW read
    PROVE  Hands({}, read)
BY TypesAre DEF SessionInv, Typed, Hands

\* A request is a frame of its caller.
LEMMA RequestIs ==
    ASSUME NEW n \in Names, NEW k \in {"challenge", "verify", "work"}, NEW t \in Tokens \cup {0}
    PROVE  Request(n, k, t) \in Frames /\ Request(n, k, t).by = n
BY DEF Request, Frames

\* The owner of a handshake is waiting for it, so its answers are for it.
LEMMA OwnerWaits ==
    ASSUME SessionInv, NEW f \in Owners, flight[f].step # "none"
    PROVE  /\ f \in flight[f].waiters
           /\ \A c \in Callers : call[c].pc # "flight" => c # f
<1>1. f \in flight[f].waiters
  BY DEF SessionInv, FlightsOK
<1>2. f \in Chats => call[f].pc = "flight"
  BY <1>1 DEF SessionInv, FlightsOK
<1> QED  BY <1>1, <1>2, NamesAre

\* A handshake goes from one of its steps to the next.
LEMMA FlightMoves ==
    ASSUME SessionInv, NEW f \in Owners, flight[f].step # "none",
           NEW R \in SUBSET Frames, NEW read \in SUBSET answers, Post(R, read),
           \A a \in read : a.by = f,
           flight' \in [Owners -> Handshakes],
           \A g \in Owners : g # f => flight'[g] = flight[g],
           flight'[f].step # "none", flight'[f].waiters = flight[f].waiters,
           flight'[f].step \in {"challenge", "verify"} => \E r \in R : r.by = f,
           UNCHANGED <<now, proxyVars, cacheVars, call>>
    PROVE  SessionInv'
<1>1. UNCHANGED <<now, sessionToken, establish, cache, registered, call>>
  BY DEF proxyVars, cacheVars
<1>2. Typed /\ FlightsOK /\ Answered /\ Joined
  BY TypesAre, NobodyIs DEF SessionInv
<1>3. Waits(R, read)
  <2>1. \A c \in Callers : call[c].pc = "work" => c # f
    BY OwnerWaits
  <2> QED  BY <1>1, <2>1 DEF Waits
<1>4. \A f_1 \in Owners : /\ flight'[f_1].waiters = flight[f_1].waiters
                          /\ flight'[f_1].step = "none" <=> flight[f_1].step = "none"
  OBVIOUS
<1>5. FlightsOK' /\ Joined'
  <2>1. \A c \in Callers : call'[c].pc = "session" => establish' # "no"
    BY <1>1, <1>2 DEF Joined
  <2> QED  BY <1>1, <1>2, <1>4, <2>1, FlightsKept DEF Typed
<1> QED  BY <1>1, <1>2, <1>3, <1>5, SameHands, SessionStep DEF Typed

\* A handshake is rejected, with everyone who waits for it.
LEMMA Aborts ==
    ASSUME SessionInv, NEW f \in Owners, flight[f].step # "none",
           NEW read \in SUBSET answers, Reject(f, read),
           \A a \in read : a.by = f, now' = now
    PROVE  SessionInv'
<1>1. /\ flight' = [g \in Owners |-> IF g \in {f} THEN NoFlight ELSE flight[g]]
      /\ establish' = IF Proxy \in Woken({f}) THEN "no" ELSE establish
      /\ registered' = NoOwner
      /\ call' = [c \in Callers |-> IF c \in Heirs({f}) THEN NoCall ELSE call[c]]
      /\ Post({}, read) /\ UNCHANGED <<sessionToken, cache>>
  BY DEF Reject, End, Release
<1>2. Typed /\ TypeOK /\ FlightsOK /\ Answered /\ Joined
  BY TypesAre, NobodyIs DEF SessionInv
<1>3. NoCall \in Calls /\ NoFlight \in Handshakes
  BY DEF NoCall, Calls, Pcs, NoFlight, Handshakes
<1>4. NoCall.pc = "idle" /\ NoCall.token = 0 /\ NoCall.refused = 0 /\ NoFlight.step = "none"
  BY DEF NoCall, NoFlight
<1>5. Hands({}, read)
  <2>1. call' \in [Callers -> Calls]
    BY <1>1, <1>2, <1>3 DEF Typed
  <2>2. \A c \in Vaults : c \in Callers
    BY NamesAre
  <2> QED  BY <1>1, <1>4, <2>1, <2>2 DEF Hands
<1>6. Waits({}, read)
  <2>1. \A c \in Callers : call[c].pc = "work" => c # f
    BY OwnerWaits
  <2> QED  BY <1>1, <1>4, <2>1 DEF Waits
<1>7. FlightsOK' /\ Joined'
  <2> DEFINE F == {f}
             L == {}
  <2>1. \A c \in Callers : IF c \in Heirs(F) \cup L
                           THEN call'[c].pc \notin {"flight", "session"}
                           ELSE call'[c].pc = call[c].pc
    BY <1>1, <1>4
  <2>2. End(F) /\ F \in SUBSET Owners /\ \A c \in L : c \in Callers /\ call[c].pc = "work"
    BY DEF Reject
  <2> HIDE DEF F, L
  <2> QED  BY <1>2, <2>1, <2>2, FlightsEnd
<1>8. flight' \in [Owners -> Handshakes]
  BY <1>1, <1>2, <1>3 DEF Typed
<1> QED  BY <1>1, <1>2, <1>5, <1>6, <1>7, <1>8, SessionStep DEF Typed

\* A handshake ends with the token of the answer a.
LEMMA Succeeds ==
    ASSUME SessionInv, NEW f \in Owners, flight[f].step # "none",
           NEW a \in answers, a.by = f, Succeed(f, a.token, {a}), now' = now
    PROVE  SessionInv'
<1> DEFINE t == a.token
           R == {Request(c, "work", t) : c \in Heirs({f}) \ Chats}
<1>1. /\ flight' = [g \in Owners |-> IF g \in {f} THEN NoFlight ELSE flight[g]]
      /\ establish' = IF Proxy \in Woken({f}) THEN "no" ELSE establish
      /\ registered' = NoOwner
      /\ call' = [c \in Callers |->
                    IF c \in Heirs({f})
                    THEN [call[c] EXCEPT !.pc = IF c \in Chats THEN "prepare" ELSE "work",
                                         !.token = t, !.since = 0]
                    ELSE call[c]]
      /\ Post(R, {a})
      /\ cache' = t /\ sessionToken' \in {t, sessionToken}
  BY DEF Succeed, End, Resume
<1>2. Typed /\ TypeOK /\ FlightsOK /\ Answered /\ Joined
  BY TypesAre, NobodyIs DEF SessionInv
<1>3. NoFlight \in Handshakes /\ NoFlight.step = "none" /\ t \in Tokens \cup {0}
  BY <1>2 DEF NoFlight, Handshakes, Typed, Replies
<1>4. Heirs({f}) \subseteq Callers
  BY NamesAre DEF Heirs, AwaitingSession
<1>5. R \in SUBSET Frames /\ \A c \in Heirs({f}) \ Chats : \E r \in R : r.by = c
  <2>1. \A c \in Heirs({f}) : Request(c, "work", t) \in Frames /\ Request(c, "work", t).by = c
    BY <1>3, <1>4, NamesAre DEF Request, Frames
  <2> QED  BY <2>1
<1> HIDE DEF t, R
<1>6. ASSUME NEW c \in Callers
      PROVE  /\ call'[c] \in Calls /\ call'[c].refused = call[c].refused
             /\ IF c \in Heirs({f})
                THEN /\ call'[c].pc = IF c \in Chats THEN "prepare" ELSE "work"
                     /\ call'[c].token = t
                ELSE call'[c] = call[c]
  BY <1>1, <1>2, <1>3 DEF Typed, Calls, Pcs
<1>7. Hands({t}, {a})
  <2>1. call' \in [Callers -> Calls]
    BY <1>1, <1>6
  <2>2. \A c \in Vaults : c \in Callers
    BY NamesAre
  <2> QED  BY <1>1, <1>6, <2>1, <2>2 DEF Hands, t
<1>8. Waits(R, {a})
  <2>1. \A c \in Callers : call[c].pc = "work" => c # f
    BY OwnerWaits
  <2>2. \A c \in Callers : call'[c].pc = "work" =>
            \/ call[c].pc = "work" /\ \A b \in {a} : b.by # c
            \/ \E r \in R : r.by = c
    BY <1>5, <1>6, <2>1
  <2>3. \A g \in Owners : flight'[g].step \in {"challenge", "verify"} => g # f /\ flight'[g] = flight[g]
    BY <1>1, <1>3
  <2> QED  BY <2>2, <2>3 DEF Waits
<1>9. FlightsOK' /\ Joined'
  <2> DEFINE F == {f}
             L == {}
  <2>1. \A c \in Callers : IF c \in Heirs(F) \cup L
                           THEN call'[c].pc \notin {"flight", "session"}
                           ELSE call'[c].pc = call[c].pc
    BY <1>6
  <2>2. End(F) /\ F \in SUBSET Owners /\ \A c \in L : c \in Callers /\ call[c].pc = "work"
    BY DEF Succeed
  <2> HIDE DEF F, L
  <2> QED  BY <1>2, <2>1, <2>2, FlightsEnd
<1>10. flight' \in [Owners -> Handshakes]
  BY <1>1, <1>2, <1>3 DEF Typed
<1> QED  BY <1>1, <1>2, <1>5, <1>7, <1>8, <1>9, <1>10, SessionStep DEF Typed

\* Calls go on, handshakes do not.
LEMMA CallsMove ==
    ASSUME SessionInv,
           NEW R \in SUBSET Frames, NEW read \in SUBSET answers, Post(R, read),
           Hands({}, read), now' \in 0..MaxTime,
           flight' = flight, registered' \in {registered, NoOwner},
           establish' \in {"no", "pairing", "flight"},
           establish' = "flight" <=> establish = "flight",
           \A a \in read : a.by \in Owners => flight[a.by].step = "none",
           \A c \in Callers :
                /\ call'[c].pc = "work" => \/ call[c].pc = "work" /\ \A a \in read : a.by # c
                                           \/ \E r \in R : r.by = c
                /\ call'[c].pc = "session" => establish' # "no"
                /\ c \in Chats => (call'[c].pc = "flight" <=> call[c].pc = "flight")
    PROVE  SessionInv'
<1>1. Typed /\ FlightsOK /\ Answered /\ Joined
  BY TypesAre, NobodyIs DEF SessionInv
<1>2. Waits(R, read)
  BY DEF Waits
<1>3. FlightsOK' /\ Joined'
  <2>1. \A c \in Chats : c \in Callers
    BY NamesAre
  <2>2. \A f \in Owners : /\ flight'[f].waiters = flight[f].waiters
                          /\ flight'[f].step = "none" <=> flight[f].step = "none"
    OBVIOUS
  <2> QED  BY <1>1, <2>1, <2>2, FlightsKept DEF Typed
<1> QED  BY <1>1, <1>2, <1>3, SessionStep DEF Typed

\* Time leaves everything in its place.
LEMMA TickStep == SessionInv /\ Tick => SessionInv'
<1> SUFFICES ASSUME SessionInv, Tick PROVE SessionInv'
  OBVIOUS
<1>1. Post({}, {}) /\ now' \in 0..MaxTime
  BY PostNothing, TypesAre, BridgeSessionAssumption DEF Tick, SessionInv, Typed
<1>2. UNCHANGED <<sessionToken, establish, cache, registered, flight, call>>
  BY DEF Tick, proxyVars, cacheVars
<1>3. Hands({}, {})
  BY <1>2, SameHands
<1>4. \A c \in Callers : call[c].pc = "session" => establish # "no"
  BY NobodyIs DEF SessionInv, Joined
<1> DEFINE none == {}
<1>5. none \in SUBSET Frames /\ none \in SUBSET answers /\ \A a \in none : FALSE
  OBVIOUS
<1>6. Post(none, none) /\ Hands({}, none)
  BY <1>1, <1>3
<1> HIDE DEF none
<1>7. Typed
  BY TypesAre DEF SessionInv
<1> QED  BY <1>1, <1>2, <1>4, <1>5, <1>6, <1>7, CallsMove DEF Typed

---------------------------------------------------------------------------
(* Handshakes *)

\* The same for the one request a step posts.
LEMMA OneFrame ==
    ASSUME SessionInv, NEW n \in Names, NEW k \in {"challenge", "verify", "work"},
           NEW t \in Tokens \cup {0}
    PROVE  {Request(n, k, t)} \in SUBSET Frames /\ \E r \in {Request(n, k, t)} : r.by = n
BY RequestIs

\* The steps of ensureBridgeHandshakeSession keep the invariant.
LEMMA HandshakeSteps ==
    ASSUME SessionInv, NEW f \in Owners,
           \/ SecretRead(f) \/ HmacComputed(f)
           \/ \E a \in answers : /\ a.by = f
                                 /\ \/ ChallengeReceived(f, a) \/ SessionReceived(f, a)
                                    \/ VerifyFailed(f, a)
    PROVE  SessionInv'
<1> DEFINE C == {Request(f, "challenge", 0)}
           V == {Request(f, "verify", 0)}
<1>1. /\ C \in SUBSET Frames /\ \E r \in C : r.by = f
      /\ V \in SUBSET Frames /\ \E r \in V : r.by = f
  BY NamesAre, OneFrame
<1>2. flight \in [Owners -> Handshakes]
  BY TypesAre DEF SessionInv, Typed
<1>3. ASSUME NEW s \in {"challenge", "hmac", "verify"}, Advance(f, s)
      PROVE  /\ flight' \in [Owners -> Handshakes]
             /\ \A g \in Owners : g # f => flight'[g] = flight[g]
             /\ flight'[f].step = s /\ flight'[f].waiters = flight[f].waiters
  BY <1>2, <1>3 DEF Advance, Handshakes
<1> HIDE DEF C, V
<1>4. CASE SecretRead(f)
  <2>1. CASE /\ Advance(f, "challenge") /\ Post(C, {})
             /\ UNCHANGED <<proxyVars, cacheVars, call>>
    BY <1>1, <1>3, <1>4, <2>1, FlightMoves DEF SecretRead
  <2>2. CASE Reject(f, {})
    <3> DEFINE none == {}
    <3>1. none \in SUBSET answers /\ Reject(f, none) /\ \A a \in none : a.by = f
      BY <2>2
    <3> HIDE DEF none
    <3> QED  BY <1>4, <3>1, Aborts DEF SecretRead
  <2> QED  BY <1>4, <2>1, <2>2 DEF SecretRead, C
<1>5. CASE HmacComputed(f)
  <2>1. Advance(f, "verify") /\ Post(V, {}) /\ flight[f].step = "hmac"
        /\ UNCHANGED <<now, proxyVars, cacheVars, call>>
    BY <1>5 DEF HmacComputed, V
  <2> QED  BY <1>1, <1>3, <2>1, FlightMoves
<1>6. ASSUME NEW a \in answers, a.by = f, ChallengeReceived(f, a) PROVE SessionInv'
  <2>1. Advance(f, "hmac") /\ Post({}, {a}) /\ flight[f].step = "challenge"
        /\ UNCHANGED <<now, proxyVars, cacheVars, call>>
    BY <1>6 DEF ChallengeReceived
  <2>2. {a} \in SUBSET answers /\ \A b \in {a} : b.by = f
    BY <1>6
  <2> QED  BY <1>3, <2>1, <2>2, FlightMoves
<1>7. ASSUME NEW a \in answers, a.by = f, SessionReceived(f, a) PROVE SessionInv'
  BY <1>7, Succeeds DEF SessionReceived
<1>8. ASSUME NEW a \in answers, a.by = f, VerifyFailed(f, a) PROVE SessionInv'
  <2>1. {a} \in SUBSET answers /\ \A b \in {a} : b.by = f
    BY <1>8
  <2>2. flight[f].step = "verify" /\ now' = now
    BY <1>8 DEF VerifyFailed
  <2>3. CASE /\ flight' = [flight EXCEPT ![f].step = "challenge", ![f].again = FALSE]
             /\ Post(C, {a})
             /\ UNCHANGED <<proxyVars, cacheVars, call>>
    <3>1. /\ flight' \in [Owners -> Handshakes]
          /\ \A g \in Owners : g # f => flight'[g] = flight[g]
          /\ flight'[f].step = "challenge" /\ flight'[f].waiters = flight[f].waiters
      <4> DEFINE once == [flight EXCEPT ![f].step = "challenge"]
      <4>1. /\ once \in [Owners -> Handshakes] /\ once[f].step = "challenge"
            /\ \A g \in Owners : g # f => once[g] = flight[g]
            /\ once[f].waiters = flight[f].waiters
        BY <1>2 DEF Handshakes
      <4>2. flight' = [once EXCEPT ![f].again = FALSE]
        BY <2>3
      <4> HIDE DEF once
      <4>3. flight' = [once EXCEPT ![f] = [once[f] EXCEPT !.again = FALSE]]
        BY <4>2
      <4>4. /\ [once[f] EXCEPT !.again = FALSE] \in Handshakes
            /\ [once[f] EXCEPT !.again = FALSE].step = "challenge"
            /\ [once[f] EXCEPT !.again = FALSE].waiters = flight[f].waiters
        BY <4>1 DEF Handshakes
      <4> QED  BY <4>1, <4>3, <4>4
    <3> QED  BY <1>1, <2>1, <2>2, <2>3, <3>1, FlightMoves
  <2>4. CASE Reject(f, {a})
    <3> DEFINE one == {a}
    <3>1. one \in SUBSET answers /\ Reject(f, one) /\ \A b \in one : b.by = f
      BY <2>1, <2>4
    <3> HIDE DEF one
    <3> QED  BY <2>2, <3>1, Aborts
  <2> QED  BY <1>8, <2>3, <2>4 DEF VerifyFailed, C
<1> QED  BY <1>4, <1>5, <1>6, <1>7, <1>8

---------------------------------------------------------------------------
(* Vault messages *)

\* getSessionToken posts the request or leaves the caller waiting.
LEMMA GetsSession ==
    ASSUME SessionInv, NEW calls \in [Callers -> Calls], NEW c \in Vaults \cup Quiets,
           NEW token \in Tokens \cup {0}, NEW refused \in Tokens \cup {0},
           NEW read \in SUBSET answers, GetSession(calls, c, token, refused, read)
    PROVE  \E R \in SUBSET Frames :
                /\ Post(R, read)
                /\ call' \in [Callers -> Calls]
                /\ \A d \in Callers : d # c => call'[d] = calls[d]
                /\ call'[c].refused = refused /\ call'[c].token = token
                /\ call'[c].pc \in {"work", "session"}
                /\ call'[c].pc = "work" => \E r \in R : r.by = c
                /\ call'[c].pc = "session" => establish' # "no"
                /\ establish' = establish \/ (establish = "no" /\ establish' = "pairing")
<1>1. c \in Callers /\ c \in Names
  BY NamesAre
<1>2. CASE token # 0
  <2> DEFINE x == [NoCall EXCEPT !.pc = "work", !.token = token, !.refused = refused]
             R == {Request(c, "work", token)}
  <2>1. /\ x \in Calls /\ x.pc = "work" /\ x.token = token /\ x.refused = refused
    BY DEF NoCall, Calls, Pcs
  <2>2. call' = [calls EXCEPT ![c] = x] /\ Post(R, read) /\ establish' = establish
    BY <1>2 DEF GetSession
  <2>3. R \in SUBSET Frames /\ \E r \in R : r.by = c
    BY <1>1, OneFrame
  <2> HIDE DEF x, R
  <2> QED  BY <1>1, <2>1, <2>2, <2>3
<1>3. CASE token = 0
  <2> DEFINE x == [NoCall EXCEPT !.pc = "session", !.refused = refused]
  <2>1. /\ x \in Calls /\ x.pc = "session" /\ x.token = 0 /\ x.refused = refused
    BY DEF NoCall, Calls, Pcs
  <2>2. /\ call' = [calls EXCEPT ![c] = x] /\ Post({}, read)
        /\ establish' = IF establish = "no" THEN "pairing" ELSE establish
    BY <1>3 DEF GetSession
  <2> HIDE DEF x
  <2>3. {} \in SUBSET Frames
    OBVIOUS
  <2> QED  BY <1>1, <1>3, <2>1, <2>2, <2>3
<1> QED  BY <1>2, <1>3

\* A caller that asks for a session keeps what must be kept.
LEMMA SessionGot ==
    ASSUME SessionInv, NEW calls \in [Callers -> Calls], NEW c \in Vaults \cup Quiets,
           NEW token \in {0, sessionToken}, NEW refused \in {0, call[c].token},
           NEW read \in SUBSET answers, GetSession(calls, c, token, refused, read),
           \A d \in Callers : calls[d] = call[d] \/ (d \notin Chats /\ calls[d] = NoCall),
           \A a \in read : a.by \notin Owners /\ (a.by = c \/ calls[a.by] = NoCall),
           refused = 0 \/ (sessionToken' = 0 /\ cache' = 0 /\ token = 0),
           {sessionToken', cache'} \subseteq {0, sessionToken, cache},
           UNCHANGED <<now, flight>>, registered' \in {registered, NoOwner}
    PROVE  SessionInv'
<1>1. Typed /\ Joined
  BY TypesAre, NobodyIs DEF SessionInv
<1>2. c \in Callers /\ c \notin Chats /\ \A d \in Vaults : d \in Callers
  BY NamesAre
<1>3. token \in Tokens \cup {0} /\ refused \in Tokens \cup {0}
  BY <1>1, <1>2 DEF Typed, Calls
<1>4. PICK R \in SUBSET Frames :
        /\ Post(R, read)
        /\ call' \in [Callers -> Calls]
        /\ \A d \in Callers : d # c => call'[d] = calls[d]
        /\ call'[c].refused = refused /\ call'[c].token = token
        /\ call'[c].pc \in {"work", "session"}
        /\ call'[c].pc = "work" => \E r \in R : r.by = c
        /\ call'[c].pc = "session" => establish' # "no"
        /\ establish' = establish \/ (establish = "no" /\ establish' = "pairing")
  BY <1>3, GetsSession
<1>5. NoCall.pc = "idle" /\ NoCall.token = 0 /\ NoCall.refused = 0
  BY DEF NoCall
<1>6. Hands({}, read)
  <2>1. ASSUME NEW d \in Callers
        PROVE  /\ call'[d].token \in {0, call[d].token, sessionToken, cache} \cup {}
               /\ call'[d].refused \in {0, call[d].refused, call[d].token}
    BY <1>2, <1>4, <1>5
  <2>2. ASSUME NEW d \in Vaults
        PROVE  \/ call'[d].refused \in {0, call[d].refused}
               \/ call'[d].token = 0 /\ sessionToken' = 0 /\ cache' = 0
    BY <1>2, <1>4, <1>5
  <2> QED  BY <1>4, <2>1, <2>2 DEF Hands
<1>7. ASSUME NEW d \in Callers
      PROVE  /\ call'[d].pc = "work" => \/ call[d].pc = "work" /\ \A a \in read : a.by # d
                                        \/ \E r \in R : r.by = d
             /\ call'[d].pc = "session" => establish' # "no"
             /\ d \in Chats => (call'[d].pc = "flight" <=> call[d].pc = "flight")
  <2>1. CASE d = c
    BY <1>2, <1>4, <2>1
  <2>2. CASE d # c
    BY <1>1, <1>4, <1>5, <2>2 DEF Joined
  <2> QED  BY <2>1, <2>2
<1>8. establish' \in {"no", "pairing", "flight"} /\ (establish' = "flight" <=> establish = "flight")
  BY <1>1, <1>4 DEF Typed
<1> QED  BY <1>1, <1>4, <1>6, <1>7, <1>8, CallsMove DEF Typed

\* A call is over, or refused for good, when its answer a is read.
LEMMA CallEnds ==
    ASSUME SessionInv, NEW c \in Callers, call[c].pc = "work",
           NEW a \in answers, a.by = c, Post({}, {a}),
           Release({c}) \/ call' = [call EXCEPT ![c].pc = "refused"],
           UNCHANGED <<now, sessionToken, establish, cache, registered, flight>>
    PROVE  SessionInv'
<1>1. Typed /\ Joined
  BY TypesAre, NobodyIs DEF SessionInv
<1>2. NoCall \in Calls /\ NoCall.pc = "idle" /\ NoCall.token = 0 /\ NoCall.refused = 0
  BY DEF NoCall, Calls, Pcs
<1>3. /\ call' \in [Callers -> Calls]
      /\ \A d \in Callers : d # c => call'[d] = call[d]
      /\ call'[c].pc \in {"idle", "refused"}
      /\ call'[c].token \in {0, call[c].token} /\ call'[c].refused \in {0, call[c].refused}
  <2>1. call \in [Callers -> Calls]
    BY <1>1 DEF Typed
  <2>2. CASE Release({c})
    BY <1>2, <2>1, <2>2 DEF Release
  <2>3. CASE call' = [call EXCEPT ![c].pc = "refused"]
    BY <2>1, <2>3 DEF Calls, Pcs
  <2> QED  BY <2>2, <2>3
<1>4. Hands({}, {a})
  <2>1. \A d \in Vaults : d \in Callers
    BY NamesAre
  <2> QED  BY <1>3, <2>1 DEF Hands
<1>5. c \in Owners => flight[c].step = "none"
  BY OwnerWaits
<1> DEFINE none == {}
           one == {a}
<1>6. /\ none \in SUBSET Frames /\ one \in SUBSET answers
      /\ Post(none, one) /\ Hands({}, one) /\ \A b \in one : b.by = c
  BY <1>4
<1> HIDE DEF none, one
<1>7. ASSUME NEW d \in Callers
      PROVE  /\ call'[d].pc = "work" => \/ call[d].pc = "work" /\ \A b \in one : b.by # d
                                        \/ \E r \in none : r.by = d
             /\ call'[d].pc = "session" => establish' # "no"
             /\ d \in Chats => (call'[d].pc = "flight" <=> call[d].pc = "flight")
  BY <1>1, <1>3, <1>6 DEF Joined
<1>8. \A b \in one : b.by \in Owners => flight[b.by].step = "none"
  BY <1>5, <1>6
<1>9. /\ now' \in 0..MaxTime /\ establish' \in {"no", "pairing", "flight"}
      /\ flight' = flight /\ registered' \in {registered, NoOwner}
      /\ establish' = "flight" <=> establish = "flight"
  BY <1>1 DEF Typed
<1> QED  BY <1>6, <1>7, <1>8, <1>9, CallsMove

\* The steps of sendVaultMessageViaProxy keep the invariant.
LEMMA VaultSteps ==
    ASSUME SessionInv,
           \/ \E c \in Vaults : VaultCalls(c)
           \/ \E c \in Vaults \cup Quiets, a \in answers :
                    a.by = c /\ (VaultRefused(c, a) \/ VaultAnswered(c, a))
    PROVE  SessionInv'
<1>1. Typed
  BY TypesAre DEF SessionInv
<1>2. call \in [Callers -> Calls]
  BY <1>1 DEF Typed
<1>3. ASSUME NEW c \in Vaults, VaultCalls(c) PROVE SessionInv'
  <2> DEFINE none == {}
  <2>1. /\ GetSession(call, c, sessionToken, 0, none) /\ none \in SUBSET answers
        /\ \A a \in none : a.by \notin Owners /\ (a.by = c \/ call[a.by] = NoCall)
        /\ UNCHANGED <<now, flight>> /\ UNCHANGED <<sessionToken, cache, registered>>
    BY <1>3 DEF VaultCalls, cacheVars
  <2> HIDE DEF none
  <2> QED  BY <1>2, <2>1, SessionGot
<1>4. ASSUME NEW c \in Vaults \cup Quiets, NEW a \in answers, a.by = c, VaultRefused(c, a)
      PROVE  SessionInv'
  <2>1. c \in Callers /\ c \notin Owners /\ call[c].pc = "work" /\ UNCHANGED <<now, flight>>
    BY <1>4, NamesAre DEF VaultRefused
  <2>2. CASE /\ Forget /\ GetSession(call, c, sessionToken', call[c].token, {a})
    <3> DEFINE one == {a}
    <3>1. /\ GetSession(call, c, 0, call[c].token, one) /\ one \in SUBSET answers
          /\ \A b \in one : b.by \notin Owners /\ (b.by = c \/ call[b.by] = NoCall)
          /\ sessionToken' = 0 /\ cache' = 0 /\ registered' = NoOwner
      BY <1>4, <2>1, <2>2 DEF Forget
    <3> HIDE DEF one
    <3> QED  BY <1>2, <2>1, <3>1, SessionGot
  <2>3. CASE /\ Release({c}) \/ call' = [call EXCEPT ![c].pc = "refused"]
             /\ Post({}, {a}) /\ UNCHANGED <<proxyVars, cacheVars>>
    BY <1>4, <2>1, <2>3, CallEnds DEF proxyVars, cacheVars
  <2> QED  BY <1>4, <2>2, <2>3 DEF VaultRefused
<1>5. ASSUME NEW c \in Vaults \cup Quiets, NEW a \in answers, a.by = c, VaultAnswered(c, a)
      PROVE  SessionInv'
  <2>1. /\ c \in Callers /\ c \notin Owners /\ c \notin Chats /\ call[c].pc = "work"
        /\ UNCHANGED <<now, sessionToken, cacheVars, flight>>
    BY <1>5, NamesAre DEF VaultAnswered
  <2>2. CASE Release({c}) /\ Post({}, {a}) /\ UNCHANGED establish
    BY <1>5, <2>1, <2>2, CallEnds DEF cacheVars
  <2>3. ASSUME c \in Vaults, NEW q \in Quiets,
               GetSession([call EXCEPT ![c] = NoCall], q, sessionToken, 0, {a})
        PROVE  SessionInv'
    <3> DEFINE one == {a}
               calls == [call EXCEPT ![c] = NoCall]
    <3>1. NoCall \in Calls
      BY DEF NoCall, Calls, Pcs
    <3>2. /\ calls \in [Callers -> Calls] /\ calls[c] = NoCall
          /\ \A d \in Callers : d # c => calls[d] = call[d]
      BY <1>2, <2>1, <3>1
    <3>3. /\ GetSession(calls, q, sessionToken, 0, one) /\ one \in SUBSET answers
          /\ \A b \in one : b.by = c
      BY <1>5, <2>3
    <3> HIDE DEF one, calls
    <3>4. \A b \in one : b.by \notin Owners /\ (b.by = q \/ calls[b.by] = NoCall)
      BY <2>1, <3>2, <3>3
    <3>5. \A d \in Callers : calls[d] = call[d] \/ (d \notin Chats /\ calls[d] = NoCall)
      BY <2>1, <3>2
    <3>6. /\ /\ q \in Vaults \cup Quiets
          /\ sessionToken \in {0, sessionToken}
          /\ 0 \in {0, call[q].token}
          /\ {sessionToken', cache'} \subseteq {0, sessionToken, cache}
          /\ UNCHANGED <<now, flight>> /\ registered' \in {registered, NoOwner}
      BY <2>1 DEF cacheVars
    <3> QED  BY <3>2, <3>3, <3>4, <3>5, <3>6, SessionGot
  <2> QED  BY <1>5, <2>2, <2>3 DEF VaultAnswered
<1> QED  BY <1>3, <1>4, <1>5

\* The callers in C go on with the token t, which the extension holds.
LEMMA Resumed ==
    ASSUME SessionInv, NEW C \in SUBSET Callers, NEW t \in {sessionToken, cache},
           Resume(C, t, {}), \A c \in C : call[c].pc # "flight",
           sessionToken' \in {sessionToken, cache}, now' = now,
           UNCHANGED <<cache, registered, flight>>,
           \/ C \subseteq Chats /\ establish' = establish
           \/ C = AwaitingSession /\ establish = "pairing" /\ establish' = "no"
    PROVE  SessionInv'
<1> DEFINE R == {Request(c, "work", t) : c \in C \ Chats}
<1>1. Typed /\ Joined
  BY TypesAre, NobodyIs DEF SessionInv
<1>2. t \in Tokens \cup {0}
  BY <1>1 DEF Typed
<1>3. R \in SUBSET Frames /\ \A c \in C \ Chats : \E r \in R : r.by = c
  <2>1. \A c \in C : Request(c, "work", t) \in Frames /\ Request(c, "work", t).by = c
    BY <1>2, NamesAre DEF Request, Frames
  <2> QED  BY <2>1
<1>4. Post(R, {})
  BY DEF Resume
<1> HIDE DEF R
<1>5. ASSUME NEW c \in Callers
      PROVE  /\ call'[c] \in Calls /\ call'[c].refused = call[c].refused
             /\ IF c \in C
                THEN /\ call'[c].pc = IF c \in Chats THEN "prepare" ELSE "work"
                     /\ call'[c].token = t
                ELSE call'[c] = call[c]
  BY <1>1, <1>2 DEF Resume, Typed, Calls, Pcs
<1>6. call' \in [Callers -> Calls]
  BY <1>5 DEF Resume
<1>7. Hands({}, {})
  <2>1. \A c \in Vaults : c \in Callers
    BY NamesAre
  <2> QED  BY <1>5, <1>6, <2>1 DEF Hands
<1> DEFINE none == {}
<1>8. Post(R, none) /\ Hands({}, none) /\ none \in SUBSET answers /\ \A a \in none : FALSE
  BY <1>4, <1>7
<1> HIDE DEF none
<1>9. ASSUME NEW c \in Callers
      PROVE  /\ call'[c].pc = "work" => \/ call[c].pc = "work" /\ \A a \in none : a.by # c
                                        \/ \E r \in R : r.by = c
             /\ call'[c].pc = "session" => establish' # "no"
             /\ c \in Chats => (call'[c].pc = "flight" <=> call[c].pc = "flight")
  BY <1>1, <1>3, <1>5, <1>8 DEF Joined, AwaitingSession
<1>10. /\ now' \in 0..MaxTime /\ establish' \in {"no", "pairing", "flight"}
       /\ flight' = flight /\ registered' \in {registered, NoOwner}
       /\ establish' = "flight" <=> establish = "flight"
       /\ \A a \in none : a.by \in Owners => flight[a.by].step = "none"
  BY <1>1, <1>8 DEF Typed
<1> QED  BY <1>3, <1>8, <1>9, <1>10, CallsMove

\* establishSession takes the cached session, or starts or joins a handshake.
LEMMA PairingReadStep == SessionInv /\ PairingRead => SessionInv'
<1> SUFFICES ASSUME SessionInv, PairingRead PROVE SessionInv'
  OBVIOUS
<1>1. Typed /\ TypeOK /\ FlightsOK /\ Joined
  BY TypesAre, NobodyIs DEF SessionInv
<1>2. establish = "pairing" /\ now' = now
  BY DEF PairingRead
<1>3. CASE /\ sessionToken' = cache /\ establish' = "no"
           /\ Resume(AwaitingSession, cache, {}) /\ UNCHANGED <<cacheVars, flight>>
  <2>1. AwaitingSession \subseteq Callers /\ \A c \in AwaitingSession : call[c].pc # "flight"
    BY DEF AwaitingSession
  <2> QED  BY <1>2, <1>3, <2>1, Resumed DEF cacheVars
<1>4. ASSUME cache' = 0, establish' = "flight", UNCHANGED <<sessionToken, call>>,
             \/ registered # NoOwner /\ Join(Proxy) /\ Post({}, {})
             \/ /\ registered = NoOwner
                /\ StartFlight(Proxy, "challenge")
                /\ Post({Request(Proxy, "challenge", 0)}, {})
      PROVE  SessionInv'
  <2> DEFINE none == {}
             R == IF registered = NoOwner THEN {Request(Proxy, "challenge", 0)} ELSE {}
  <2>1. /\ R \in SUBSET Frames /\ Post(R, none) /\ none \in SUBSET answers /\ \A a \in none : FALSE
        /\ registered = NoOwner => \E r \in R : r.by = Proxy
    BY <1>4, OneFrame, NamesAre
  <2>2. Hands({}, none)
    BY <1>1, <1>4 DEF Hands, Typed
  <2> HIDE DEF none, R
  <2>3. Proxy \in Owners /\ \A f \in Owners : Proxy \notin flight[f].waiters
    BY <1>1, <1>2, NamesAre DEF FlightsOK
  <2>4. \/ registered = NoOwner /\ StartFlight(Proxy, "challenge")
        \/ registered # NoOwner /\ Join(Proxy)
    BY <1>4
  <2>5. FlightsOK' /\ Joined'
    <3>1. Proxy \notin Chats
      BY NamesAre
    <3> QED  BY <1>1, <1>4, <2>3, <2>4, <3>1, FlightTaken
  <2>6. /\ flight' \in [Owners -> Handshakes] /\ registered' \in Owners \cup {NoOwner}
        /\ \A f \in Owners : \/ flight'[f].step = flight[f].step
                             \/ f = Proxy /\ registered = NoOwner
    <3>1. CASE registered = NoOwner /\ StartFlight(Proxy, "challenge")
      <4>1. [step |-> "challenge", again |-> TRUE, waiters |-> {Proxy}] \in Handshakes
        BY <2>3 DEF Handshakes
      <4> QED  BY <1>1, <2>3, <3>1, <4>1 DEF StartFlight, Typed
    <3>2. CASE registered # NoOwner /\ Join(Proxy)
      BY <1>1, <2>3, <3>2 DEF Join, Typed, Handshakes
    <3> QED  BY <2>4, <3>1, <3>2
  <2>7. Waits(R, none)
    BY <1>4, <2>1, <2>6 DEF Waits
  <2>8. now' \in 0..MaxTime /\ establish' \in {"no", "pairing", "flight"}
    BY <1>1, <1>2, <1>4 DEF Typed
  <2> QED  BY <2>1, <2>2, <2>5, <2>6, <2>7, <2>8, SessionStep
<1> QED  BY <1>3, <1>4 DEF PairingRead

\* establishSession rejects everyone who awaits it.
LEMMA PairingFailsStep == SessionInv /\ PairingFails => SessionInv'
<1> SUFFICES ASSUME SessionInv, PairingFails PROVE SessionInv'
  OBVIOUS
<1>1. Typed /\ Joined
  BY TypesAre, NobodyIs DEF SessionInv
<1>2. /\ establish = "pairing" /\ establish' = "no"
      /\ call' = [c \in Callers |-> IF c \in AwaitingSession THEN NoCall ELSE call[c]]
      /\ UNCHANGED <<now, bridgeVars, sessionToken, cache, registered, flight>>
  BY DEF PairingFails, Release, cacheVars
<1>3. NoCall \in Calls /\ NoCall.pc = "idle" /\ NoCall.token = 0 /\ NoCall.refused = 0
  BY DEF NoCall, Calls, Pcs
<1>4. Hands({}, {})
  <2>1. \A c \in Vaults : c \in Callers
    BY NamesAre
  <2>2. call' \in [Callers -> Calls]
    BY <1>1, <1>2, <1>3 DEF Typed
  <2> QED  BY <1>2, <1>3, <2>1, <2>2 DEF Hands
<1> DEFINE none == {}
<1>5. /\ /\ Post(none, none)
      /\ Hands({}, none)
      /\ none \in SUBSET answers
      /\ none \in SUBSET Frames
      /\ \A a \in none : FALSE
  BY <1>2, <1>4, PostNothing
<1> HIDE DEF none
<1>6. ASSUME NEW c \in Callers
      PROVE  /\ call'[c].pc = "work" => \/ call[c].pc = "work" /\ \A a \in none : a.by # c
                                        \/ \E r \in none : r.by = c
             /\ call'[c].pc = "session" => establish' # "no"
             /\ c \in Chats => (call'[c].pc = "flight" <=> call[c].pc = "flight")
  BY <1>2, <1>3, <1>5 DEF AwaitingSession
<1>7. /\ now' \in 0..MaxTime /\ establish' \in {"no", "pairing", "flight"}
      /\ flight' = flight /\ registered' \in {registered, NoOwner}
      /\ establish' = "flight" <=> establish = "flight"
      /\ \A a \in none : a.by \in Owners => flight[a.by].step = "none"
  BY <1>1, <1>2, <1>5 DEF Typed
<1> QED  BY <1>5, <1>6, <1>7, CallsMove

---------------------------------------------------------------------------
(* Chats *)

\* A chat drops an expired session and reads the pairing handle.
LEMMA ChatStarts == ASSUME SessionInv, NEW c \in Chats, ChatCalls(c) PROVE SessionInv'
<1>1. Typed /\ Joined
  BY TypesAre, NobodyIs DEF SessionInv
<1>2. c \in Callers /\ c \in Owners /\ c \notin Vaults
  BY NamesAre, BridgeSessionAssumption
<1>3. /\ Settled(c)
      /\ call' = [call EXCEPT ![c] = [NoCall EXCEPT !.pc = "handle", !.since = now]]
      /\ cache' \in {cache, 0}
      /\ UNCHANGED <<now, bridgeVars, sessionToken, establish, registered, flight>>
  BY DEF ChatCalls, proxyVars
<1>4. [NoCall EXCEPT !.pc = "handle", !.since = now] \in Calls
  <2>1. now \in Nat
    BY <1>1, BridgeSessionAssumption DEF Typed
  <2> QED  BY <2>1 DEF NoCall, Calls, Pcs
<1>5. /\ call' \in [Callers -> Calls] /\ \A d \in Callers : d # c => call'[d] = call[d]
      /\ call'[c].pc = "handle" /\ call'[c].token = 0 /\ call'[c].refused = 0
  BY <1>1, <1>2, <1>3, <1>4 DEF Typed, NoCall
<1>6. Hands({}, {})
  <2>1. \A d \in Vaults : d \in Callers
    BY NamesAre
  <2> QED  BY <1>3, <1>5, <2>1 DEF Hands
<1> DEFINE none == {}
<1>7. /\ /\ Post(none, none)
      /\ Hands({}, none)
      /\ none \in SUBSET answers
      /\ none \in SUBSET Frames
      /\ \A a \in none : FALSE
  BY <1>3, <1>6, PostNothing
<1> HIDE DEF none
<1>8. ASSUME NEW d \in Callers
      PROVE  /\ call'[d].pc = "work" => \/ call[d].pc = "work" /\ \A a \in none : a.by # d
                                        \/ \E r \in none : r.by = d
             /\ call'[d].pc = "session" => establish' # "no"
             /\ d \in Chats => (call'[d].pc = "flight" <=> call[d].pc = "flight")
  BY <1>1, <1>3, <1>5, <1>7 DEF Joined, Settled
<1>9. /\ now' \in 0..MaxTime /\ establish' \in {"no", "pairing", "flight"}
      /\ flight' = flight /\ registered' \in {registered, NoOwner}
      /\ establish' = "flight" <=> establish = "flight"
      /\ \A a \in none : a.by \in Owners => flight[a.by].step = "none"
  BY <1>1, <1>3, <1>7 DEF Typed
<1> QED  BY <1>7, <1>8, <1>9, CallsMove

\* A chat takes the cached session, or starts or joins a handshake.
LEMMA HandleReadStep == ASSUME SessionInv, NEW c \in Chats, HandleRead(c) PROVE SessionInv'
<1>1. Typed /\ TypeOK /\ FlightsOK /\ Joined
  BY TypesAre, NobodyIs DEF SessionInv
<1>2. c \in Callers /\ c \in Owners /\ c # Proxy
  BY NamesAre
<1>3. /\ call[c].pc = "handle"
      /\ UNCHANGED <<now, sessionToken, establish, cache>>
  BY DEF HandleRead, proxyVars
<1>4. CASE Resume({c}, cache, {}) /\ UNCHANGED <<registered, flight>>
  BY <1>2, <1>3, <1>4, Resumed
<1>5. ASSUME call' = [call EXCEPT ![c].pc = "flight", ![c].since = 0], Post({}, {}),
             \/ registered # NoOwner /\ Join(c)
             \/ registered = NoOwner /\ StartFlight(c, "secret")
      PROVE  SessionInv'
  <2> DEFINE none == {}
  <2>1. /\ none \in SUBSET Frames /\ Post(none, none) /\ none \in SUBSET answers
        /\ \A a \in none : FALSE
    BY <1>5
  <2>2. /\ call' \in [Callers -> Calls] /\ \A d \in Callers : d # c => call'[d] = call[d]
        /\ call'[c].pc = "flight" /\ call'[c].token = call[c].token
        /\ call'[c].refused = call[c].refused
    BY <1>1, <1>2, <1>5 DEF Typed, Calls, Pcs
  <2>3. Hands({}, none)
    <3>1. \A d \in Vaults : d \in Callers
      BY NamesAre
    <3>2. ASSUME NEW d \in Callers PROVE call'[d].token = call[d].token /\ call'[d].refused = call[d].refused
      BY <2>2
    <3> QED  BY <1>3, <2>2, <3>1, <3>2 DEF Hands
  <2> HIDE DEF none
  <2>4. \A f \in Owners : c \notin flight[f].waiters
    BY <1>1, <1>3 DEF FlightsOK
  <2>5. FlightsOK' /\ Joined'
    <3>1. \A d \in Chats : d # c => (call'[d].pc = "flight" <=> call[d].pc = "flight")
      BY <2>2, NamesAre
    <3>2. \A d \in Callers : call'[d].pc = "session" => establish' # "no"
      BY <1>1, <1>3, <2>2 DEF Joined
    <3> QED  BY <1>1, <1>2, <1>3, <1>5, <2>2, <2>4, <3>1, <3>2, FlightTaken
  <2>6. /\ flight' \in [Owners -> Handshakes] /\ registered' \in Owners \cup {NoOwner}
        /\ \A f \in Owners : \/ flight'[f].step = flight[f].step
                             \/ flight'[f].step = "secret"
    <3>1. CASE registered = NoOwner /\ StartFlight(c, "secret")
      <4>1. [step |-> "secret", again |-> TRUE, waiters |-> {c}] \in Handshakes
        BY <1>2 DEF Handshakes
      <4> QED  BY <1>1, <1>2, <3>1, <4>1 DEF StartFlight, Typed
    <3>2. CASE registered # NoOwner /\ Join(c)
      BY <1>1, <1>2, <3>2 DEF Join, Typed, Handshakes
    <3> QED  BY <1>5, <3>1, <3>2
  <2>7. Waits(none, none)
    BY <2>1, <2>2, <2>6 DEF Waits
  <2>8. now' \in 0..MaxTime /\ establish' \in {"no", "pairing", "flight"}
    BY <1>1, <1>3 DEF Typed
  <2> QED  BY <2>1, <2>3, <2>5, <2>6, <2>7, <2>8, SessionStep
<1> QED  BY <1>3, <1>4, <1>5 DEF HandleRead

\* A chat sends its execution with the token that it was given.
LEMMA ChatPostsStep == ASSUME SessionInv, NEW c \in Chats, ChatPosts(c) PROVE SessionInv'
<1> DEFINE R == {Request(c, "work", call[c].token)}
<1>1. Typed /\ Joined
  BY TypesAre, NobodyIs DEF SessionInv
<1>2. c \in Callers /\ c \in Names
  BY NamesAre
<1>3. /\ call[c].pc = "prepare" /\ call' = [call EXCEPT ![c].pc = "work"] /\ Post(R, {})
      /\ UNCHANGED <<now, sessionToken, establish, cache, registered, flight>>
  BY DEF ChatPosts, proxyVars, cacheVars
<1>4. call[c].token \in Tokens \cup {0}
  BY <1>1, <1>2 DEF Typed, Calls
<1>5. R \in SUBSET Frames /\ \E r \in R : r.by = c
  BY <1>2, <1>4, OneFrame
<1> HIDE DEF R
<1>6. /\ call' \in [Callers -> Calls] /\ \A d \in Callers : d # c => call'[d] = call[d]
      /\ call'[c].pc = "work" /\ call'[c].token = call[c].token
      /\ call'[c].refused = call[c].refused
  BY <1>1, <1>2, <1>3 DEF Typed, Calls, Pcs
<1> DEFINE none == {}
<1>7. Post(R, none) /\ none \in SUBSET answers /\ \A a \in none : FALSE
  BY <1>3
<1>8. Hands({}, none)
  <2>1. \A d \in Vaults : d \in Callers
    BY NamesAre
  <2>2. ASSUME NEW d \in Callers PROVE call'[d].token = call[d].token /\ call'[d].refused = call[d].refused
    BY <1>6
  <2> QED  BY <1>3, <1>6, <2>1, <2>2 DEF Hands
<1> HIDE DEF none
<1>9. ASSUME NEW d \in Callers
      PROVE  /\ call'[d].pc = "work" => \/ call[d].pc = "work" /\ \A a \in none : a.by # d
                                        \/ \E r \in R : r.by = d
             /\ call'[d].pc = "session" => establish' # "no"
             /\ d \in Chats => (call'[d].pc = "flight" <=> call[d].pc = "flight")
  BY <1>1, <1>3, <1>5, <1>6, <1>7 DEF Joined
<1>10. /\ now' \in 0..MaxTime /\ establish' \in {"no", "pairing", "flight"}
       /\ flight' = flight /\ registered' \in {registered, NoOwner}
       /\ establish' = "flight" <=> establish = "flight"
       /\ \A a \in none : a.by \in Owners => flight[a.by].step = "none"
  BY <1>1, <1>3, <1>7 DEF Typed
<1> QED  BY <1>5, <1>7, <1>8, <1>9, <1>10, CallsMove

\* A chat is over with its answer, good or bad.
LEMMA ChatAnsweredStep ==
    ASSUME SessionInv, NEW c \in Chats, NEW a \in answers, a.by = c, ChatAnswered(c, a)
    PROVE  SessionInv'
BY CallEnds, NamesAre DEF ChatAnswered, proxyVars, cacheVars

---------------------------------------------------------------------------
(* The end of a port *)

\* A bridge process exits: its port is dead, what it wrote may still be read.
LEMMA ExitStep == SessionInv /\ BridgeExits => SessionInv'
<1> SUFFICES ASSUME SessionInv, BridgeExits PROVE SessionInv'
  OBVIOUS
<1>1. Typed /\ TypeOK /\ FlightsOK /\ Joined /\ TokensOK
  BY TypesAre, NobodyIs DEF SessionInv
<1>2. /\ port = "open" /\ ports < MaxPorts /\ port' = "dead" /\ asked' = {}
      /\ UNCHANGED <<now, ports, known, answers, sessions, sessionToken, establish, cache,
                     registered, flight, call>>
  BY DEF BridgeExits, proxyVars, cacheVars
<1>3. TypeOK'
  <2>1. Tokens' = Tokens /\ Replies' = Replies /\ Calls' = Calls
    BY <1>2 DEF Tokens, Replies, Calls
  <2> QED  BY <1>1, <1>2, <2>1, TypesAre DEF Typed
<1>4. PortOK'
  BY <1>1, <1>2 DEF PortOK, TokensOK
<1>5. TokensMove({})
  <2>1. \A c \in Vaults : c \in Callers
    BY NamesAre
  <2> QED  BY <1>2, <2>1 DEF TokensMove
<1>6. TokensOK'
  BY <1>1, <1>3, <1>4, <1>5, TokensMoveKeeps
<1>7. FlightsOK' /\ Joined'
  <2>1. \A c \in Callers : call'[c].pc = "session" => establish' # "no"
    BY <1>1, <1>2 DEF Joined
  <2> QED  BY <1>1, <1>2, <2>1, FlightsKept DEF Typed
<1>8. Answered'
  BY <1>2 DEF Answered, Expected
<1> QED  BY <1>3, <1>6, <1>7, <1>8, NobodyIs DEF SessionInv

\* onDisconnect settles every handshake and call that waits for the port.
LEMMA DisconnectedStep == SessionInv /\ Disconnected => SessionInv'
<1> SUFFICES ASSUME SessionInv, Disconnected PROVE SessionInv'
  OBVIOUS
<1>1. Typed /\ TypeOK /\ FlightsOK /\ Joined /\ TokensOK
  BY TypesAre, NobodyIs DEF SessionInv
<1> DEFINE L == Heirs(LeftFlights) \cup LeftCalls
<1>2. /\ port = "dead" /\ port' = "none" /\ asked' = {} /\ answers' = {}
      /\ cache' = 0 /\ sessionToken' = 0 /\ registered' = NoOwner
      /\ flight' = [f \in Owners |-> IF f \in LeftFlights THEN NoFlight ELSE flight[f]]
      /\ establish' \in {"no", establish}
      /\ call' = [c \in Callers |-> IF c \in L THEN NoCall ELSE call[c]]
      /\ End(LeftFlights)
      /\ UNCHANGED <<now, ports, known, sessions>>
  BY DEF Disconnected, Forget, End, Release
<1>3. NoCall \in Calls /\ NoCall.pc = "idle" /\ NoCall.token = 0 /\ NoCall.refused = 0
  BY DEF NoCall, Calls, Pcs
<1>4. NoFlight \in Handshakes /\ NoFlight.step = "none"
  BY DEF NoFlight, Handshakes
<1>5. TypeOK'
  <2>1. Tokens' = Tokens /\ Calls' = Calls
    BY <1>2 DEF Tokens, Calls
  <2>2. call' \in [Callers -> Calls] /\ flight' \in [Owners -> Handshakes]
    BY <1>1, <1>2, <1>3, <1>4 DEF Typed
  <2> QED  BY <1>1, <1>2, <2>1, <2>2, TypesAre DEF Typed
<1>6. PortOK'
  BY <1>1, <1>2 DEF PortOK, TokensOK
<1>7. TokensMove({})
  <2>1. \A c \in Vaults : c \in Callers
    BY NamesAre
  <2> QED  BY <1>2, <1>3, <2>1 DEF TokensMove
<1>8. TokensOK'
  BY <1>1, <1>5, <1>6, <1>7, TokensMoveKeeps
<1>9. FlightsOK' /\ Joined'
  <2>1. LeftFlights \in SUBSET Owners /\ \A c \in LeftCalls : c \in Callers /\ call[c].pc = "work"
    BY DEF LeftFlights, LeftCalls
  <2>2. \A c \in Callers : IF c \in Heirs(LeftFlights) \cup LeftCalls
                           THEN call'[c].pc \notin {"flight", "session"}
                           ELSE call'[c].pc = call[c].pc
    BY <1>2, <1>3
  <2> QED  BY <1>1, <1>2, <2>1, <2>2, FlightsEnd
<1>10. Answered'
  <2>1. \A c \in Callers : call'[c].pc # "work"
    BY <1>2, <1>3 DEF LeftCalls
  <2>2. \A f \in Owners : flight'[f].step \notin {"challenge", "verify"}
    BY <1>2, <1>4 DEF LeftFlights
  <2> QED  BY <2>1, <2>2 DEF Answered
<1> QED  BY <1>5, <1>8, <1>9, <1>10, NobodyIs DEF SessionInv

---------------------------------------------------------------------------
\* The service worker starts with nobody waiting and no token.
LEMMA SessionStarts == SInit => SessionInv
<1> SUFFICES ASSUME SInit PROVE SessionInv
  OBVIOUS
<1>1. NoCall \in Calls /\ NoCall.pc = "idle" /\ NoCall.token = 0 /\ NoCall.refused = 0
  BY DEF NoCall, Calls, Pcs
<1>2. NoFlight \in Handshakes /\ NoFlight.step = "none" /\ NoFlight.waiters = {}
  BY DEF NoFlight, Handshakes
<1>3. TypeOK
  <2>1. sessions \in Seq([until: Nat, from: 1..MaxPorts])
    BY DEF SInit
  <2>2. now \in 0..MaxTime /\ ports \in 0..MaxPorts
    BY BridgeSessionAssumption DEF SInit
  <2>3. call \in [Callers -> Calls] /\ flight \in [Owners -> Handshakes]
    BY <1>1, <1>2 DEF SInit
  <2> QED  BY <2>1, <2>2, <2>3, TypesAre DEF SInit, Typed
<1>4. TokensOK
  <2>1. \A c \in Vaults : call[c].refused = 0
    BY <1>1, NamesAre DEF SInit
  <2> QED  BY <2>1, BridgeSessionAssumption
           DEF SInit, TokensOK, PortOK, Undelivered, RefusedGone, TokensOfThisPort, RetriedWithAnother
<1>5. FlightsOK
  BY <1>2 DEF SInit, FlightsOK
<1>6. NobodyForgotten
  BY <1>1, <1>2, NobodyIs, NamesAre DEF SInit, Answered, Joined
<1> QED  BY <1>3, <1>4, <1>5, <1>6 DEF SessionInv

\* Every step keeps the invariant.
LEMMA SessionKept == SessionInv /\ [SNext]_svars => SessionInv'
<1> SUFFICES ASSUME SessionInv, [SNext]_svars PROVE SessionInv'
  OBVIOUS
<1>1. CASE \E c \in Vaults : VaultCalls(c)
  BY <1>1, VaultSteps
<1>2. CASE \E c \in Chats : ChatCalls(c)
  BY <1>2, ChatStarts
<1>3. ASSUME NEW n \in Callers \cup {Proxy}, BridgeServes(n) PROVE SessionInv'
  <2>1. /\ TypeOK' /\ TokensOK'
        /\ {m.by : m \in asked' \cup answers'} = {m.by : m \in asked \cup answers}
        /\ UNCHANGED <<now, port, ports, proxyVars, cacheVars, flight, call>>
    BY <1>3, Serves DEF SessionInv
  <2>2. \A x : (\E m \in asked \cup answers : m.by = x) => \E m \in asked' \cup answers' : m.by = x
    <3> TAKE x
    <3> HAVE \E m \in asked \cup answers : m.by = x
    <3>1. x \in {m.by : m \in asked' \cup answers'}
      BY <2>1
    <3> QED  BY <3>1
  <2>3. NobodyForgotten' /\ FlightsOK'
    <3>1. Answered /\ Joined /\ FlightsOK
      BY NobodyIs DEF SessionInv
    <3>2. Answered'
      BY <2>1, <2>2, <3>1 DEF Answered, Expected
    <3>3. Joined' /\ FlightsOK'
      BY <2>1, <3>1 DEF Joined, FlightsOK, AwaitsFlight, proxyVars, cacheVars
    <3> QED  BY <3>2, <3>3, NobodyIs
  <2> QED  BY <2>1, <2>3 DEF SessionInv
<1>4. ASSUME NEW n \in Callers \cup {Proxy}, Receives(n) PROVE SessionInv'
  <2>1. PICK a \in answers :
            /\ a.by = n
            /\ \/ n \in Owners /\ (ChallengeReceived(n, a) \/ SessionReceived(n, a) \/ VerifyFailed(n, a))
               \/ n \in Vaults \cup Quiets /\ (VaultRefused(n, a) \/ VaultAnswered(n, a))
               \/ n \in Chats /\ ChatAnswered(n, a)
    BY <1>4 DEF Receives
  <2> QED  BY <2>1, HandshakeSteps, VaultSteps, ChatAnsweredStep
<1>5. ASSUME NEW n \in Callers \cup {Proxy}, Continues(n) PROVE SessionInv'
  BY <1>5, PairingReadStep, PairingFailsStep, HandleReadStep, ChatPostsStep, HandshakeSteps
  DEF Continues
<1>6. CASE UNCHANGED svars
  <2>1. UNCHANGED <<now, port, ports, known, asked, answers, sessions, sessionToken, establish,
                    cache, registered, flight, call>>
    BY <1>6 DEF svars, bridgeVars, proxyVars, cacheVars
  <2>2. TypeOK'
    BY <2>1 DEF SessionInv, TypeOK, Tokens
  <2>3. TokensOK' /\ FlightsOK' /\ NobodyForgotten'
    BY <2>1 DEF SessionInv, TokensOK, PortOK, Undelivered, Held, RefusedGone, TokensOfThisPort,
                RetriedWithAnother, FlightsOK, NobodyForgotten, AwaitingSession
  <2> QED  BY <2>2, <2>3 DEF SessionInv
<1> QED  BY <1>1, <1>2, <1>3, <1>4, <1>5, <1>6, TickStep, ExitStep, DisconnectedStep DEF SNext

\* The invariant of the bridge session.
LEMMA SessionAlways == SSpec => []SessionInv
<1> QED  BY SessionStarts, SessionKept, PTL DEF SSpec

\* The variables of vault-proxy.ts, bridge-handshake.ts and cloud-native.ts
\* keep their types.
THEOREM SessionTypes == SSpec => []TypeOK
<1>1. SessionInv => TypeOK
  BY DEF SessionInv
<1> QED  BY <1>1, SessionAlways, PTL

\* A caller that awaits an answer, a handshake or establishSession is known
\* to what will settle it, however handshakes are joined, cleared and
\* replaced and whenever the native port closes.
THEOREM NobodyLeftBehind == SSpec => []NobodyForgotten
<1>1. SessionInv => NobodyForgotten
  BY DEF SessionInv
<1> QED  BY <1>1, SessionAlways, PTL

\* sessionToken of vault-proxy.ts and the cached session of
\* bridge-handshake.ts were granted through the port that is open now.
THEOREM TokensAreOfThisPort == SSpec => []TokensOfThisPort
<1>1. SessionInv => TokensOfThisPort
  BY DEF SessionInv, TokensOK
<1> QED  BY <1>1, SessionAlways, PTL

\* A vault message refused with auth.expired is sent again with a token
\* other than the refused one.
THEOREM RetriesCarryAnother == SSpec => []RetriedWithAnother
<1>1. SessionInv => RetriedWithAnother
  BY DEF SessionInv, TokensOK
<1> QED  BY <1>1, SessionAlways, PTL
==============================================================================
