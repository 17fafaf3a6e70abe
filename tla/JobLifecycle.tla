---------------------------- MODULE JobLifecycle ----------------------------
(***************************************************************************)
(* What a client may rely on: a job is executed at most once.  It waits,   *)
(* is in process, and ends; all it does to the target table becomes        *)
(* visible in one step, and never if it fails.  A client that sees a       *)
(* finished job may have to wait for the rows.                             *)
(*                                                                         *)
(* Worker (threads, connections, transactions and a database that goes     *)
(* away) is shown to implement this module.                                *)
(***************************************************************************)
CONSTANT Jobs

VARIABLES
    state,  \* status of each job
    stored  \* the jobs whose changes are visible

vars == <<state, stored>>

Init ==
    /\ state = [j \in Jobs |-> "queued"]
    /\ stored = {}

Move(j, from, to) ==
    /\ state[j] = from
    /\ state' = [state EXCEPT ![j] = to]
    /\ UNCHANGED stored

Start(j) == Move(j, "queued", "in_process")

Finish(j) == Move(j, "in_process", "finished")

Fail(j) == j \notin stored /\ Move(j, "in_process", "failed")

Store(j) ==
    /\ state[j] \in {"in_process", "finished"}
    /\ j \notin stored
    /\ stored' = stored \cup {j}
    /\ UNCHANGED state

Next == \E j \in Jobs : Start(j) \/ Finish(j) \/ Fail(j) \/ Store(j)

Spec == Init /\ [][Next]_vars

=============================================================================
