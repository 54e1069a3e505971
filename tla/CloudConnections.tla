-------------------------- MODULE CloudConnections --------------------------
(***************************************************************************)
(* Cloud connections of the bridge: CloudConnectionService (cloud/         *)
(* cloud-connection-service.ts) over ConnectionRegistry, DiscoveryCache    *)
(* and DiscoveryRefreshScheduler, the adapter around a provider            *)
(* (buildCloudControlPlaneAdapter in main.ts) and the handlers of          *)
(* bridge-handler.ts.  One process over one state file: it ends and starts *)
(* again at any time, also in the middle of a write.                       *)
(*                                                                         *)
(* One provider and one method stand for all: bindings, adapter state,     *)
(* cache and refreshes of two never touch.  A handle is known by its uuid; *)
(* the signature, which the registry checks whenever it reads one, always  *)
(* fits, since the handles here are those the registry made under one key. *)
(* NativeHost serves one frame at a time; the scheduler's timer runs       *)
(* beside it.  A frame without an await on the network is one step.        *)
(***************************************************************************)
EXTENDS Naturals, FiniteSets

CONSTANTS Handles, None

ASSUME CloudAssumption == IsFiniteSet(Handles) /\ None \notin Handles

VARIABLES
    up,             \* the process runs
    table,          \* #connectionEpochByHandle
    records,        \* #recordsByHandle of the registry
    current,        \* currentEpoch of each binding
    ended,          \* revokedHandles of all bindings
    persist,        \* #persistencePersistStatus
    adapter,        \* counter, credentials held and state of the method
    discovery,      \* scheduler and cache
    waits,          \* the completed handle whose frame awaits its refresh
    answer,         \* the completion the idempotency store replays (a file)
    disk,           \* state file, lock file and, before the first, newest temporary file
    minted,         \* what each handle says of itself
    promised,       \* history: handles answered, their record saved
    forgotten,      \* history: revocations answered, saved
    struck          \* history: handles a revocation was to reach

memory == <<table, records, current, ended, persist, adapter, discovery, waits>>
history == <<promised, forgotten, struck>>
vars == <<up, memory, answer, disk, minted, history>>

\* The provider's adapter numbers its credentials from 1 in each process.
Refs == 1..Cardinality(Handles)

NoFile == [state |-> "none", handles |-> {}]
Torn == [state |-> "torn", handles |-> {}]
Saved(t) == [state |-> "saved", handles |-> t]

FreshAdapter == [counter |-> 0, held |-> {}, state |-> None]
FreshDiscovery == [scheduled |-> FALSE, refresh |-> "none", cache |-> "miss"]

Unminted == [ref |-> 0, epoch |-> 0]

\* The registry resolves the handle, and the service knows it.
Usable(h) ==
    /\ up /\ h \in table /\ h \in records
    /\ current[minted[h].ref] = minted[h].epoch
    /\ h \notin ended

EmptyMemory ==
    /\ table' = {} /\ records' = {} /\ ended' = {}
    /\ current' = [r \in Refs |-> 0]
    /\ persist' = "idle" /\ waits' = None
    /\ adapter' = FreshAdapter /\ discovery' = FreshDiscovery

Init ==
    /\ up = FALSE
    /\ table = {} /\ records = {} /\ ended = {}
    /\ current = [r \in Refs |-> 0]
    /\ persist = "idle" /\ waits = None
    /\ adapter = FreshAdapter /\ discovery = FreshDiscovery
    /\ answer = None
    /\ disk = [primary |-> NoFile, temp |-> NoFile, lock |-> FALSE]
    /\ minted = [h \in Handles |-> Unminted]
    /\ promised = {} /\ forgotten = {} /\ struck = {}

---------------------------------------------------------------------------
(* #persistState *)

\* What a write that does not reach the rename makes of the temporary file: it
\* removes it, or leaves it torn or, when that fails too, whole.  Beside a state
\* file it is never read again, and left out.
Temps(d, t) == IF d.primary = NoFile THEN {d.temp, Torn, Saved(t)} ELSE {NoFile}

\* The disk after the rename, and after a write without one: a lock that cannot
\* be removed stays.
Written(t) == [primary : {Saved(t)}, temp : {NoFile}, lock : BOOLEAN]
Unwritten(d, t) == [primary : {d.primary}, temp : Temps(d, t), lock : BOOLEAN]

Outcome(d, status, dies) == [disk |-> d, persist |-> status, dies |-> dies]

\* Without a lock: written; an error of the file system; or the process dies,
\* before, in or after the write of the temporary file or after the rename,
\* and leaves the lock behind.
Writes(d, t) ==
    {Outcome(e, "ok", FALSE) : e \in Written(t)}
    \cup {Outcome(e, "failed", FALSE) : e \in Unwritten(d, t)}
    \cup {Outcome(e, "idle", TRUE) : e \in {x \in Written(t) \cup Unwritten(d, t) : x.lock}}

\* Mutant: a lock that is held ends the write, but not as a failure.
SavesUnlocked(d, t) ==
    IF d.lock THEN {Outcome(d, "ok", FALSE)} ELSE Writes(d, t)

\* The outcomes of writing t.
Saves(d, t) ==
    IF d.lock THEN {Outcome(d, "failed", FALSE)} ELSE Writes(d, t)

---------------------------------------------------------------------------
(* The process *)

\* Mutant: hydrate keeps the first epoch it sees.
HydratedFirst(t) ==
    [r \in Refs |->
        LET epochs == {minted[h].epoch : h \in {g \in t : minted[g].ref = r}}
        IN  IF epochs = {} THEN 0 ELSE CHOOSE e \in epochs : \A f \in epochs : e <= f]

\* hydrate of every record: the highest epoch of a binding is its current one.
Hydrated(t) ==
    [r \in Refs |->
        LET epochs == {minted[h].epoch : h \in {g \in t : minted[g].ref = r}}
        IN  IF epochs = {} THEN 0 ELSE CHOOSE e \in epochs : \A f \in epochs : f <= e]

\* #recoverPrimaryStateFileFromTemp
Recovered ==
    IF disk.primary = NoFile THEN [disk EXCEPT !.primary = disk.temp, !.temp = NoFile] ELSE disk

\* A file that cannot be read is left as it is.
StartUnread ==
    /\ ~up /\ Recovered.primary = Torn
    /\ up' = TRUE
    /\ disk' = Recovered
    /\ EmptyMemory
    /\ UNCHANGED <<answer, minted, history>>

\* The constructor loads the file, or the temporary one it recovers, and writes
\* it back.
Start ==
    /\ ~up /\ Recovered.primary # Torn
    /\ LET t == Recovered.primary.handles IN
       \E s \in Saves(Recovered, t) :
        /\ up' = ~s.dies
        /\ disk' = s.disk
        /\ IF s.dies THEN EmptyMemory
           ELSE /\ table' = t /\ records' = t
                /\ current' = Hydrated(t)
                /\ persist' = s.persist
                /\ ended' = {} /\ waits' = None
                /\ adapter' = FreshAdapter /\ discovery' = FreshDiscovery
    /\ UNCHANGED <<answer, minted, history>>

\* The port closes, or the process is killed.
Stop ==
    /\ up
    /\ up' = FALSE
    /\ EmptyMemory
    /\ UNCHANGED <<answer, disk, minted, history>>

---------------------------------------------------------------------------
(* Discovery: the scheduler's refresh is discover without a handle *)

\* The adapter discovers with the credential of its method, if it has one.
Refreshing(a) == IF a.state # None /\ a.state \in a.held THEN "may succeed" ELSE "fails"

\* #runDue
ScheduledRefresh ==
    /\ up /\ discovery.scheduled /\ discovery.refresh = "none"
    /\ discovery' = [discovery EXCEPT !.refresh = Refreshing(adapter)]
    /\ UNCHANGED <<up, table, records, current, ended, persist, adapter, waits,
                   answer, disk, minted, history>>

\* The refresh in flight ends, and with it the completion that awaits it: its
\* frame answers, or fails although the connection is registered and saved.
RefreshEnds(ok) ==
    /\ up /\ discovery.refresh # "none" /\ (ok => discovery.refresh = "may succeed")
    /\ discovery' = [scheduled |-> TRUE, refresh |-> "none",
                     cache |-> IF ok THEN "hot" ELSE "negative"]
    /\ waits' = None
    /\ answer' = IF ok /\ waits # None THEN waits ELSE answer
    /\ promised' = IF ok /\ waits # None /\ persist = "ok" THEN promised \cup {waits} ELSE promised
    /\ UNCHANGED <<up, table, records, current, ended, persist, adapter,
                   disk, minted, forgotten, struck>>

CacheExpires ==
    /\ up /\ discovery.cache \in {"hot", "negative"}
    /\ discovery' = [discovery EXCEPT !.cache = "stale"]
    /\ UNCHANGED <<up, table, records, current, ended, persist, adapter, waits,
                   answer, disk, minted, history>>

\* cloud.models.discover under a handle that resolves, beside a cache that
\* does not answer: the adapter takes the credential as its method's state.
DiscoverUnder(h) ==
    /\ waits = None /\ Usable(h)
    /\ adapter' = [adapter EXCEPT !.state = IF @ = None THEN minted[h].ref ELSE @]
    /\ \/ discovery' = [discovery EXCEPT !.scheduled = TRUE, !.cache = "hot"]
       \/ discovery' = [discovery EXCEPT !.cache = "negative"]
    /\ UNCHANGED <<up, table, records, current, ended, persist, waits,
                   answer, disk, minted, history>>

\* cloud.chat.execute under a handle that resolves
ChatUnder(h) ==
    /\ waits = None /\ Usable(h)
    /\ adapter' = [adapter EXCEPT !.state = IF @ = None THEN minted[h].ref ELSE @]
    /\ UNCHANGED <<up, table, records, current, ended, persist, discovery, waits,
                   answer, disk, minted, history>>

---------------------------------------------------------------------------
(* cloud.connection.complete *)

\* register
Registered(ref) == [ref |-> ref, epoch |-> current[ref]]

\* The completed connection is registered and saved, then the frame awaits a
\* refresh: the one in flight, if there is one.
Complete(h) ==
    /\ up /\ waits = None /\ answer = None
    /\ minted[h] = Unminted
    /\ LET ref == adapter.counter + 1
           a == [counter |-> ref, held |-> adapter.held \cup {ref}, state |-> ref]
       IN
       \E s \in Saves(disk, table \cup {h}) :
        /\ minted' = [minted EXCEPT ![h] = Registered(ref)]
        /\ disk' = s.disk
        /\ up' = ~s.dies
        /\ IF s.dies THEN EmptyMemory
           ELSE /\ table' = table \cup {h} /\ records' = records \cup {h}
                /\ persist' = s.persist
                /\ adapter' = a
                /\ waits' = h
                /\ discovery' = [discovery EXCEPT
                                   !.scheduled = TRUE,
                                   !.refresh = IF @ = "none" THEN Refreshing(a) ELSE @]
                /\ UNCHANGED <<current, ended>>
    /\ UNCHANGED <<answer, history>>

\* The idempotency entry of the completion expires; until then the same
\* completion is answered with the same handle and another one refused.
AnswerExpires ==
    /\ answer # None
    /\ answer' = None
    /\ UNCHANGED <<up, memory, disk, minted, history>>

---------------------------------------------------------------------------
(* cloud.connection.revoke *)

\* The adapter drops the credential of its method, whatever the handle.
Dropped(a) == [a EXCEPT !.held = a.held \ {a.state}, !.state = None]

\* The registry does not know the handle: an error, after the adapter has acted.
RevokeUnknown(h) ==
    /\ up /\ waits = None /\ minted[h] # Unminted /\ h \notin records
    /\ adapter' = Dropped(adapter)
    /\ UNCHANGED <<up, table, records, current, ended, persist, discovery, waits,
                   answer, disk, minted, history>>

\* Mutant: the record is kept.
RevokedKept(h) == table

\* The records left to save.
RevokedFrom(h) == table \ {h}

Revoke(h) ==
    /\ up /\ waits = None /\ h \in records
    /\ LET m == minted[h] IN
       \E s \in Saves(disk, RevokedFrom(h)) :
        /\ disk' = s.disk
        /\ up' = ~s.dies
        /\ struck' = struck \cup {g \in Handles : minted[g] = m}
        /\ IF s.dies THEN EmptyMemory /\ UNCHANGED forgotten
           ELSE /\ table' = RevokedFrom(h)
                /\ ended' = ended \cup {h}
                /\ current' = IF current[m.ref] = m.epoch
                              THEN [current EXCEPT ![m.ref] = @ + 1] ELSE current
                /\ persist' = s.persist
                /\ adapter' = Dropped(adapter)
                /\ discovery' = [discovery EXCEPT !.cache = IF @ = "miss" THEN @ ELSE "stale"]
                /\ forgotten' = IF s.persist = "ok" THEN forgotten \cup {h} ELSE forgotten
                /\ UNCHANGED <<records, waits>>
    /\ UNCHANGED <<answer, minted, promised>>

Next ==
    \/ Start \/ StartUnread \/ Stop
    \/ ScheduledRefresh \/ CacheExpires \/ AnswerExpires
    \/ \E ok \in BOOLEAN : RefreshEnds(ok)
    \/ \E h \in Handles :
          Complete(h) \/ Revoke(h) \/ RevokeUnknown(h) \/ DiscoverUnder(h) \/ ChatUnder(h)

Spec == Init /\ [][Next]_vars

---------------------------------------------------------------------------
(* Properties *)

\* A revocation answered while the service called its writes "ok" is for good:
\* no process resolves the handle again, whatever dies in which write.
RevokedForGood == \A h \in forgotten : ~Usable(h)

\* A connection answered while the service called its writes "ok" is there in
\* every later process, until a revocation reaches its credential's epoch;
\* one that reaches another epoch, or another credential, does not disturb it.
PromiseKept == up => \A h \in promised \ struck : Usable(h)

\* "ok" means that the file holds just the connections the process knows.
OkMeansSaved == up /\ persist = "ok" => disk.primary = Saved(table)

=============================================================================
