------------------------------ MODULE OnceOnly ------------------------------
(***************************************************************************)
(* What the bridge's request idempotency promises a client that retries:   *)
(* a request identity is executed by at most one handler at a time, and    *)
(* while the answer of a finished execution is in force it is not executed *)
(* again: a repetition is given that same answer.  An execution may end    *)
(* without an answer, and an answer goes out of force after some time.     *)
(***************************************************************************)
EXTENDS Naturals

CONSTANTS Ids, Prints

VARIABLES
    running,    \* identities being executed
    answers,    \* answers in force: [id, print, run]
    begun,      \* [Ids -> Nat]: executions begun of each identity
    reply       \* the last answer a client was sent, {} if that was an error

Init ==
    /\ running = {}
    /\ answers = {}
    /\ begun = [i \in Ids |-> 0]
    /\ reply = {}

Begin(i) ==
    /\ i \notin running
    /\ \A a \in answers : a.id # i
    /\ running' = running \cup {i}
    /\ begun' = [begun EXCEPT ![i] = @ + 1]
    /\ UNCHANGED <<answers, reply>>

Finish(i, print) ==
    /\ i \in running
    /\ running' = running \ {i}
    /\ reply' = {[id |-> i, print |-> print, run |-> begun[i]]}
    /\ answers' = answers \cup reply'
    /\ UNCHANGED begun

GiveUp(i) ==
    /\ i \in running
    /\ running' = running \ {i}
    /\ reply' \in {reply, {}}
    /\ UNCHANGED <<answers, begun>>

Repeat(a) ==
    /\ a \in answers
    /\ reply' = {a}
    /\ UNCHANGED <<running, answers, begun>>

Decline ==
    /\ reply' = {}
    /\ UNCHANGED <<running, answers, begun>>

Lapse ==
    /\ answers' \in SUBSET answers
    /\ UNCHANGED <<running, begun, reply>>

Next ==
    \/ \E i \in Ids : Begin(i) \/ GiveUp(i)
    \/ \E i \in Ids, print \in Prints : Finish(i, print)
    \/ \E a \in answers : Repeat(a)
    \/ Decline
    \/ Lapse

vars == <<running, answers, begun, reply>>

Spec == Init /\ [][Next]_vars

=============================================================================
