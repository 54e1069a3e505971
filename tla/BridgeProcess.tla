--------------------------- MODULE BridgeProcess ---------------------------
(***************************************************************************)
(* The life of the bridge processes.  Chrome starts one native host per    *)
(* connectNative port and one per sendNativeMessage call, so several can   *)
(* run at once; each one loads the shared state files while it starts and  *)
(* rewrites them from its own memory afterwards.  A process that ends,     *)
(* whether by a closed port, an exit or a crash, loses its memory only.    *)
(*                                                                         *)
(* The components (Pairing, Handshake) extend this module and say what     *)
(* each of these steps does to their own tables.                           *)
(***************************************************************************)
EXTENDS Integers, FiniteSets

CONSTANTS
    Procs,          \* the bridge processes
    MaxTime,        \* bound on the clock of a checked instance
    MayLoseWrites   \* may a state-file write fail?  (every failure is swallowed)

ASSUME ProcessAssumption == MaxTime \in Nat /\ MayLoseWrites \in BOOLEAN

VARIABLES
    now,            \* the wall clock all processes read
    status          \* [Procs -> Statuses]

\* "starting": SessionKeyRegistry is built, adapters are loading and the CLIs
\* being probed; "up": the handler is built and frames are being served.
Statuses == {"down", "starting", "up"}

ProcessTypeOK ==
    /\ now \in Nat
    /\ status \in [Procs -> Statuses]

ProcessInit ==
    /\ now = 0
    /\ status = [p \in Procs |-> "down"]

Advance ==
    /\ now < MaxTime
    /\ now' = now + 1
    /\ UNCHANGED status

Move(p, from, to) ==
    /\ status[p] = from
    /\ status' = [status EXCEPT ![p] = to]
    /\ UNCHANGED now

Exit(p) ==
    /\ status[p] # "down"
    /\ status' = [status EXCEPT ![p] = "down"]
    /\ UNCHANGED now

Serving(p) ==
    /\ status[p] = "up"
    /\ UNCHANGED <<now, status>>

\* What a file may hold after a write of `state` when it may have held any
\* member of `before`: tmp-and-rename, so the old contents or all of the new.
Saved(before, state) ==
    {state} \cup (IF MayLoseWrites THEN before ELSE {})

=============================================================================
