---------------------------- MODULE RevocableLock ----------------------------
(***************************************************************************)
(* What the scheduler promises about the runs of the tasks, whatever        *)
(* documents, heartbeats and timers it takes to keep the promise: a run may *)
(* start only if every run of its task that is still under way has lost its *)
(* right to be alone, and that right is only ever lost by all the runs of a *)
(* task at once.                                                            *)
(***************************************************************************)
CONSTANTS
    Handlers,   \* those who may run
    job         \* the task of each

VARIABLES
    running,    \* runs under way
    revoked     \* those of them that were deprived of the lock

lockVars == <<running, revoked>>

LockInit == running = {} /\ revoked = {}

RunsOf(t) == {h \in running : job[h] = t}

Acquire(h) ==
    /\ h \notin running
    /\ RunsOf(job[h]) \subseteq revoked
    /\ running' = running \cup {h}
    /\ UNCHANGED revoked

Revoke(h) ==
    /\ h \in running \ revoked
    /\ revoked' = revoked \cup RunsOf(job[h])
    /\ UNCHANGED running

(* Runs end one by one, or with the instance that executes them. *)
Leave(ended) ==
    /\ running' = running \ ended
    /\ revoked' = revoked \ ended

LockNext ==
    \/ \E h \in Handlers : Acquire(h) \/ Revoke(h)
    \/ \E ended \in SUBSET Handlers : Leave(ended)

LockSpec == LockInit /\ [][LockNext]_lockVars
=============================================================================
