---------------------------- MODULE Idempotency ----------------------------
(***************************************************************************)
(* InMemoryRequestIdempotencyStore (apps/bridge/src/cloud/                 *)
(* idempotency-store.ts) and the two handlers around it,                   *)
(* cloud.chat.execute and cloud.connection.complete: reserve the request's *)
(* identity, execute, then complete or abort the reservation.  Completed   *)
(* entries are in the memory of each process and in one file, in-flight    *)
(* reservations in memory only.                                            *)
(*                                                                         *)
(* An identity stands for a scope and its key, a print for the fingerprint *)
(* of the payload, and a response is known by the execution it came from.  *)
(* NativeHost answers a frame before it reads the next one, so a process   *)
(* has one reservation at most.                                            *)
(***************************************************************************)
EXTENDS BridgeProcess

CONSTANTS
    Ids, Prints,
    TTL, MaxEntries,
    MaxRuns         \* bound on the executions of one identity

ASSUME IdempotencyAssumption ==
    TTL \in Nat \ {0} /\ MaxEntries \in Nat \ {0} /\ MaxRuns \in Nat

VARIABLES
    inFlight,       \* [Procs -> set of reservations]
    completed,      \* [Procs -> set of completed entries]
    entriesFile,    \* the state file
    begun,          \* history: executions begun of each identity
    reply,          \* history: the last response sent, {} if that was an error
    finished        \* history: every completed execution

storeVars == <<inFlight, completed, entriesFile>>
histVars == <<begun, reply, finished>>
vars == <<now, status, storeVars, histVars>>

\* A reservation is numbered with the execution it stands for (a history).
Reservation == [id: Ids, print: Prints, run: Nat]
Entry == [id: Ids, print: Prints, run: Nat, at: Nat]

\* Mutant: expired entries are still replayed.
FreshForEver(entries) == entries

Fresh(entries) == {e \in entries : e.at + TTL > now}

Response(e) == [id |-> e.id, print |-> e.print, run |-> e.run]

Init ==
    /\ ProcessInit
    /\ inFlight = [p \in Procs |-> {}]
    /\ completed = [p \in Procs |-> {}]
    /\ entriesFile = {}
    /\ begun = [i \in Ids |-> 0]
    /\ reply = {}
    /\ finished = {}

Tick == Advance /\ UNCHANGED <<storeVars, histVars>>
Start(p) == Move(p, "down", "starting") /\ UNCHANGED <<storeVars, histVars>>

\* Mutant: the file is not loaded.
BuildUnread(p) ==
    /\ Move(p, "starting", "up")
    /\ UNCHANGED <<storeVars, histVars>>

\* The constructor loads every entry, refuses more than MaxEntries (the bridge
\* then does not start), and drops the expired ones without writing.
Build(p) ==
    /\ Move(p, "starting", "up")
    /\ Cardinality(entriesFile) <= MaxEntries
    /\ completed' = [completed EXCEPT ![p] = Fresh(entriesFile)]
    /\ UNCHANGED <<inFlight, entriesFile, histVars>>

Stop(p) ==
    /\ Exit(p)
    /\ inFlight' = [inFlight EXCEPT ![p] = {}]
    /\ completed' = [completed EXCEPT ![p] = {}]
    /\ UNCHANGED <<entriesFile, begun, reply, finished>>

---------------------------------------------------------------------------
(* reserve: #cleanupExpired first, which writes if it dropped something *)

Sweep(p) ==
    /\ inFlight[p] = {}
    /\ completed' = [completed EXCEPT ![p] = Fresh(@)]
    /\ entriesFile' \in IF Fresh(completed[p]) = completed[p] THEN {entriesFile}
                        ELSE Saved({entriesFile}, Fresh(completed[p]))

Known(p, id) == {e \in Fresh(completed[p]) : e.id = id}

\* Mutant: one entry too many.
RoomForOneMore(p) == Cardinality(Fresh(completed[p])) <= MaxEntries

Room(p) == Cardinality(Fresh(completed[p])) < MaxEntries

ReserveReplay(p, id, print) ==
    /\ Sweep(p)
    /\ \E e \in Known(p, id) : e.print = print /\ reply' = {Response(e)}
    /\ UNCHANGED <<inFlight, begun, finished>>

\* Another payload under the same identity, or no room left: an error response.
ReserveRefused(p, id, print) ==
    /\ Sweep(p)
    /\ \/ \E e \in Known(p, id) : e.print # print
       \/ Known(p, id) = {} /\ ~Room(p)
    /\ reply' = {}
    /\ UNCHANGED <<inFlight, begun, finished>>

ReserveNew(p, id, print) ==
    /\ Sweep(p)
    /\ Known(p, id) = {}
    /\ Room(p)
    /\ begun[id] < MaxRuns
    /\ inFlight' = [inFlight EXCEPT ![p] = {[id |-> id, print |-> print, run |-> begun[id] + 1]}]
    /\ begun' = [begun EXCEPT ![id] = @ + 1]
    /\ UNCHANGED <<reply, finished>>

\* The execution succeeded: complete, which stores and writes, and answer.
Complete(p) ==
    \E r \in inFlight[p] :
        LET e == [id |-> r.id, print |-> r.print, run |-> r.run, at |-> now]
            entries == {c \in completed[p] : c.id # r.id} \cup {e}
        IN  /\ inFlight' = [inFlight EXCEPT ![p] = {}]
            /\ completed' = [completed EXCEPT ![p] = entries]
            /\ entriesFile' \in Saved({entriesFile}, entries)
            /\ reply' = {Response(e)}
            /\ finished' = finished \cup {e}
            /\ UNCHANGED begun

\* The execution failed, before or after the provider did its work: abort.
Abort(p) ==
    /\ inFlight[p] # {}
    /\ inFlight' = [inFlight EXCEPT ![p] = {}]
    /\ reply' = {}
    /\ UNCHANGED <<completed, entriesFile, begun, finished>>

Serve(p) ==
    /\ Serving(p)
    /\ \/ \E id \in Ids, print \in Prints :
            \/ ReserveReplay(p, id, print)
            \/ ReserveRefused(p, id, print)
            \/ ReserveNew(p, id, print)
       \/ Complete(p)
       \/ Abort(p)

Next ==
    \/ Tick
    \/ \E p \in Procs : Start(p) \/ Build(p) \/ Stop(p) \/ Serve(p)

Spec == Init /\ [][Next]_vars
---------------------------------------------------------------------------
(* Properties *)

\* Type invariant of the tables, the file and the histories.
TypeOK ==
    /\ ProcessTypeOK
    /\ inFlight \in [Procs -> SUBSET Reservation]
    /\ completed \in [Procs -> SUBSET Entry]
    /\ entriesFile \subseteq Entry
    /\ begun \in [Ids -> Nat]
    /\ reply \subseteq [id: Ids, print: Prints, run: Nat]
    /\ finished \subseteq Entry

\* The file never holds more entries than a store accepts when it loads it
\* ("Persisted idempotency state exceeds configured retention capacity"):
\* the processes cannot lock the bridge out of its own next start.
Restartable == Cardinality(entriesFile) <= MaxEntries

\* Whatever processes overwrite and whichever writes are lost, a repetition is
\* answered only with the answer of an execution of the same identity and
\* payload that finished less than TTL ago (reserve: "replay").
ReplaysGenuine ==
    [][\A a \in reply' \ reply : \E f \in finished' : Response(f) = a /\ f.at + TTL > now]_vars

\* One process whose writes succeed does what OnceOnly promises, restarts and
\* crashes included.
Once == INSTANCE OnceOnly WITH
    running <- UNION {{r.id : r \in inFlight[p]} : p \in Procs},
    answers <- {Response(e) : e \in Fresh(entriesFile)}

OncePromised == Once!Spec

=============================================================================
