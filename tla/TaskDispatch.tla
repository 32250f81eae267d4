---------------------------- MODULE TaskDispatch ----------------------------
(***************************************************************************)
(* The scheduler of the periodic tasks: several instances of the explorer  *)
(* (processes) share one MongoDB collection with a lock document per task. *)
(* Cron starts a handler (TasksService.handleDoTask); the handler takes    *)
(* the lock, refreshes the heartbeat, starts an interval that refreshes    *)
(* it, runs the task, gives the lock back and clears the interval.  A      *)
(* second cron (taskDispatchFaultTolerance) releases the locks whose       *)
(* heartbeat is two periods old.                                           *)
(*                                                                         *)
(* One action is one database command as the server applies it, or one     *)
(* stretch of JavaScript between two awaits.  Time is counted in heartbeat *)
(* periods and an age is capped at Stale, which loses nothing: the code    *)
(* only compares it with Stale.                                            *)
(***************************************************************************)
EXTENDS Integers

CONSTANTS
    Procs,      \* instances of the explorer
    Tasks,      \* TaskEnum, the ones listed in CRON_JOBS
    Handlers,   \* invocations of handleDoTask that may be under way at once
    host,       \* the instance a handler runs on
    job,        \* the task a handler is for
    None,       \* no interval handle in this[`${name}_timer`]
    Steady,     \* instances that do not crash (liveness only)
    Punctual,   \* TRUE: timers are set and fire without delay
    Faults      \* the environment's faults a run allows

ASSUME HandlerAssumption ==
    /\ host \in [Handlers -> Procs]
    /\ job \in [Handlers -> Tasks]
    /\ None \notin Handlers
ASSUME SettingAssumption ==
    /\ Steady \subseteq Procs
    /\ Punctual \in BOOLEAN
    /\ Faults \subseteq {"error", "late", "hang", "crash"}

VARIABLES
    lock,       \* is_locked of each task's document, or "absent"
    age,        \* periods since heartbeat_update_time
    stage,      \* where each handler stands
    timer,      \* this[`${name}_timer`] of each instance
    live,       \* handlers whose setInterval has not been cleared
    fired,      \* intervals that fired in this period (when Punctual)
    missed,     \* history: handlers whose last heartbeat was rejected and
                \* whose task has had no other since (when Punctual)
    late,       \* second executions of lock and unlock still under way
    scan,       \* progress of each instance's fault-tolerance pass
    stable,     \* TRUE once the environment's faults have ended
    robbed      \* history: runs whose lock somebody else released

vars ==
    <<lock, age, stage, timer, live, fired, missed, late, scan, stable, robbed>>
timerVars == <<timer, live, fired, missed>>

(* Mutant: the margin is one period. *)
OnePeriod == 1

Stale == 2

Stages == {"idle", "finding", "registering", "locking", "beating", "arming",
           "running", "hung", "unlocking", "clearing"}
Commands == {"lock", "unlock"}
ScanState ==
    [todo : SUBSET Tasks, seen : [Tasks -> 0..Stale], owed : SUBSET Tasks]
Listed(todo, seen, owed) ==
    [todo |-> todo,
     seen |-> [t \in Tasks |-> IF t \in todo THEN seen[t] ELSE 0],
     owed |-> owed]
NoScan == Listed({}, [t \in Tasks |-> 0], {})

(* A run lasts from the lock being won to the unlock being sent. *)
Executing == {"beating", "arming", "running", "hung"}
Runs(t) == {h \in Handlers : job[h] = t /\ stage[h] \in Executing}

Slot(h) == timer[host[h]][job[h]]
Fault(f) == f \in Faults /\ ~stable

Older(a) == IF a < Stale THEN a + 1 ELSE Stale

TypeOK ==
    /\ lock \in [Tasks -> {"absent", "free", "locked"}]
    /\ age \in [Tasks -> 0..Stale]
    /\ stage \in [Handlers -> Stages]
    /\ timer \in [Procs -> [Tasks -> Handlers \cup {None}]]
    /\ live \subseteq Handlers
    /\ fired \subseteq Handlers
    /\ missed \subseteq Handlers
    /\ late \subseteq Handlers \X Commands
    /\ scan \in [Procs -> ScanState]
    /\ stable \in BOOLEAN
    /\ robbed \subseteq Handlers

Init ==
    /\ lock \in [Tasks -> {"absent", "free"}]
    /\ age \in [Tasks -> 0..Stale]
    /\ stage = [h \in Handlers |-> "idle"]
    /\ timer = [p \in Procs |-> [t \in Tasks |-> None]]
    /\ live = {}
    /\ fired = {}
    /\ missed = {}
    /\ late = {}
    /\ scan = [p \in Procs |-> NoScan]
    /\ stable = FALSE
    /\ robbed = {}

-----------------------------------------------------------------------------
(* The updates of the lock document.  lock() and unlock() hand a callback  *)
(* to update() and also call exec() on the query it returns: mongoose 5    *)
(* then sends the same conditional update twice.  The promise reports on   *)
(* one of them; the other, kept in late, lands at any moment before or     *)
(* after it, or not at all.                                                *)

Sent(h, c) == IF Fault("late") THEN late \cup {<<h, c>>} ELSE late

(* Mutant: the update of lock() has lost its condition is_locked: false. *)
MayLockAnyway(t) == lock[t] # "absent"

MayLock(t) == lock[t] = "free"

Locked(t) == lock' = [lock EXCEPT ![t] = "locked"]

(* {name, is_locked: true} -> is_locked: false, whoever holds the lock. *)
Unlocked(t) ==
    /\ lock' = [lock EXCEPT ![t] = IF @ = "locked" THEN "free" ELSE @]
    /\ robbed' = IF lock[t] = "locked" THEN robbed \cup Runs(t) ELSE robbed

(* Mutant: the interval does not write heartbeat_update_time. *)
NotRefreshed(t) == UNCHANGED <<age, missed>>

(* {name, is_locked: true} -> heartbeat_update_time: now. *)
Refreshed(t) ==
    \/ /\ lock[t] = "locked"
       /\ age' = [age EXCEPT ![t] = 0]
       /\ missed' = {h \in missed : job[h] # t}
    \/ /\ lock[t] # "locked"
       /\ UNCHANGED <<age, missed>>

(* clearInterval on the handle in the slot, and the slot set to null. *)
Cleared(p, t) ==
    /\ live' = live \ {timer[p][t]}
    /\ fired' = fired \ {timer[p][t]}
    /\ missed' = missed \ {timer[p][t]}
    /\ timer' = [timer EXCEPT ![p][t] = None]

Goto(h, s) == stage' = [stage EXCEPT ![h] = s]

-----------------------------------------------------------------------------
(* handleDoTask: needDoTask. *)

(* Cron fires whatever the earlier handlers of the task are doing.  A      *)
(* handler's name is used again once nothing of it is left.                *)
Cron(h) ==
    /\ stage[h] = "idle"
    /\ h \notin live
    /\ \A c \in Commands : <<h, c>> \notin late
    /\ Goto(h, "finding")
    /\ UNCHANGED <<lock, age, timerVars, late, scan, stable, robbed>>

(* Mutant: a task that is not registered is not registered now either. *)
NeedDoTaskRegistersNothing(h) ==
    /\ stage[h] = "finding"
    /\ \/ lock[job[h]] # "free" /\ Goto(h, "idle") /\ UNCHANGED late
       \/ lock[job[h]] = "free" /\ Goto(h, "locking") /\ late' = Sent(h, "lock")
    /\ UNCHANGED <<lock, age, timerVars, scan, stable, robbed>>

NeedDoTask(h) ==
    /\ stage[h] = "finding"
    /\ \/ /\ lock[job[h]] = "locked"
          /\ Goto(h, "idle")
          /\ UNCHANGED late
       \/ /\ lock[job[h]] = "free"
          /\ Goto(h, "locking")
          /\ late' = Sent(h, "lock")
       \/ /\ lock[job[h]] = "absent"
          /\ Goto(h, "registering")
          /\ UNCHANGED late
    /\ UNCHANGED <<lock, age, timerVars, scan, stable, robbed>>

(* name is a unique key: of two handlers that register, one throws. *)
RegisterTask(h) ==
    /\ stage[h] = "registering"
    /\ \/ /\ lock[job[h]] = "absent"
          /\ lock' = [lock EXCEPT ![job[h]] = "free"]
          /\ age' = [age EXCEPT ![job[h]] = 0]
          /\ late' = Sent(h, "lock")
          /\ Goto(h, "locking")
       \/ /\ lock[job[h]] # "absent"
          /\ Goto(h, "idle")
          /\ UNCHANGED <<lock, age, late>>
    /\ UNCHANGED <<timerVars, scan, stable, robbed>>

(* findOneByName or createOne rejects: handleDoTask ends before its try. *)
NeedDoTaskThrows(h) ==
    /\ Fault("error")
    /\ stage[h] \in {"finding", "registering"}
    /\ Goto(h, "idle")
    /\ UNCHANGED <<lock, age, timerVars, late, scan, stable, robbed>>

(* The reported update: nModified = 1 only if it found the lock free.  *)
(* heartbeat_update_time keeps the value the last run left.            *)
Lock(h) ==
    /\ stage[h] = "locking"
    /\ \/ MayLock(job[h]) /\ Locked(job[h]) /\ Goto(h, "beating")
       \/ ~MayLock(job[h]) /\ Goto(h, "idle") /\ UNCHANGED lock
    /\ UNCHANGED <<age, timerVars, late, scan, stable, robbed>>

(* The callback gets an error, whether or not the server applied the update. *)
LockFails(h) ==
    /\ Fault("error")
    /\ stage[h] = "locking"
    /\ \/ MayLock(job[h]) /\ Locked(job[h])
       \/ UNCHANGED lock
    /\ Goto(h, "idle")
    /\ UNCHANGED <<age, timerVars, late, scan, stable, robbed>>

-----------------------------------------------------------------------------
(* handleDoTask: the try block and its catch. *)

FirstHeartbeat(h) ==
    /\ stage[h] = "beating"
    /\ Refreshed(job[h])
    /\ Goto(h, "arming")
    /\ UNCHANGED <<lock, timer, live, fired, late, scan, stable, robbed>>

(* The run is over and unlock is sent: after doTask, or from the catch. *)
RunEnds(h) ==
    /\ Goto(h, "unlocking")
    /\ late' = Sent(h, "unlock")
    /\ robbed' = robbed \ {h}
    /\ UNCHANGED <<lock, age, timerVars, scan, stable>>

HeartbeatThrows(h) ==
    /\ Fault("error")
    /\ stage[h] = "beating"
    /\ RunEnds(h)

(* Mutant: doTask is not awaited, and unlock is sent while it runs. *)
StartTimerAndUnlock(h) ==
    /\ stage[h] = "arming"
    /\ timer' = [timer EXCEPT ![host[h]][job[h]] = h]
    /\ live' = live \cup {h}
    /\ fired' = IF Punctual THEN fired \cup {h} ELSE fired
    /\ Goto(h, "running")
    /\ lock' = [lock EXCEPT ![job[h]] = "free"]
    /\ UNCHANGED <<age, missed, late, scan, stable, robbed>>

(* setInterval: the handle an earlier handler left in the slot is lost. *)
StartTimer(h) ==
    /\ stage[h] = "arming"
    /\ timer' = [timer EXCEPT ![host[h]][job[h]] = h]
    /\ live' = live \cup {h}
    /\ fired' = IF Punctual THEN fired \cup {h} ELSE fired
    /\ Goto(h, "running")
    /\ UNCHANGED <<lock, age, missed, late, scan, stable, robbed>>

(* doTask resolves or rejects: both ways lead to unlock. *)
DoTaskEnds(h) ==
    /\ stage[h] = "running"
    /\ RunEnds(h)

(* doTask never settles: NftTaskService.doTask does when a write fails. *)
DoTaskHangs(h) ==
    /\ Fault("hang")
    /\ stage[h] = "running"
    /\ Goto(h, "hung")
    /\ UNCHANGED <<lock, age, timerVars, late, scan, stable, robbed>>

Unlock(h) ==
    /\ stage[h] = "unlocking"
    /\ Unlocked(job[h])
    /\ Goto(h, "clearing")
    /\ UNCHANGED <<age, timerVars, late, scan, stable>>

(* unlock resolves to false and handleDoTask goes on as if it had worked. *)
UnlockFails(h) ==
    /\ Fault("error")
    /\ stage[h] = "unlocking"
    /\ Goto(h, "clearing")
    /\ UNCHANGED <<lock, age, timerVars, late, scan, stable, robbed>>

(* Whatever handle the slot holds now is cleared, its own or a later one. *)
ClearTimer(h) ==
    /\ stage[h] = "clearing"
    /\ Cleared(host[h], job[h])
    /\ Goto(h, "idle")
    /\ UNCHANGED <<lock, age, late, scan, stable, robbed>>

(* The interval's callback.  It does nothing to an open lock. *)
Interval(h) ==
    /\ h \in live
    /\ Refreshed(job[h])
    /\ fired' = IF Punctual THEN fired \cup {h} ELSE fired
    /\ UNCHANGED <<lock, stage, timer, live, late, scan, stable, robbed>>

(* Nobody awaits the callback's update: when it rejects, the interval has  *)
(* fired, the heartbeat is as old as before and nothing else notices.      *)
IntervalFails(h) ==
    /\ Fault("error")
    /\ h \in live
    /\ fired' = IF Punctual THEN fired \cup {h} ELSE fired
    /\ missed' = IF Punctual THEN missed \cup {h} ELSE missed
    /\ UNCHANGED <<lock, age, stage, timer, live, late, scan, stable, robbed>>

(* The execution of lock or unlock nobody waits for reaches the server. *)
LateLock(h) ==
    /\ <<h, "lock">> \in late
    /\ late' = late \ {<<h, "lock">>}
    /\ MayLock(job[h])
    /\ Locked(job[h])
    /\ UNCHANGED <<age, stage, timerVars, scan, stable, robbed>>

LateUnlock(h) ==
    /\ <<h, "unlock">> \in late
    /\ late' = late \ {<<h, "unlock">>}
    /\ Unlocked(job[h])
    /\ UNCHANGED <<age, stage, timerVars, scan, stable>>

(* It is lost, or it finds the lock in the other state. *)
LateLost(h, c) ==
    /\ <<h, c>> \in late
    /\ late' = late \ {<<h, c>>}
    /\ UNCHANGED <<lock, age, stage, timerVars, scan, stable, robbed>>

-----------------------------------------------------------------------------
(* taskDispatchFaultTolerance. *)

ScanIdle(p) == scan[p].todo = {} /\ scan[p].owed = {}

FindAllLocked(p) ==
    LET found == {t \in Tasks : lock[t] = "locked"} IN
    /\ ScanIdle(p)
    /\ found # {}
    /\ scan' = [scan EXCEPT ![p] = Listed(found, age, {})]
    /\ UNCHANGED <<lock, age, stage, timerVars, late, stable, robbed>>

(* The next task of the list: now is compared with the heartbeat that was  *)
(* read, and the document is released without being read again.            *)
Expired(p, t) == scan[p].seen[t] >= Stale

Judge(p, t) ==
    /\ t \in scan[p].todo
    /\ scan[p].owed = {}
    /\ \/ Expired(p, t) /\ Unlocked(t)
       \/ ~Expired(p, t) /\ UNCHANGED <<lock, robbed>>
    /\ scan' = [scan EXCEPT ![p] = Listed(@.todo \ {t}, @.seen,
                                          IF Expired(p, t) THEN {t} ELSE {})]
    /\ UNCHANGED <<age, stage, timerVars, late, stable>>

(* cb(name): only the slot of this instance is within reach. *)
Callback(p, t) ==
    /\ t \in scan[p].owed
    /\ Cleared(p, t)
    /\ scan' = [scan EXCEPT ![p] = Listed(@.todo, @.seen, {})]
    /\ UNCHANGED <<lock, age, stage, late, stable, robbed>>

(* releaseLockByName rejects: the rest of the list is not looked at. *)
ScanThrows(p) ==
    /\ Fault("error")
    /\ scan[p].todo # {}
    /\ scan[p].owed = {}
    /\ scan' = [scan EXCEPT ![p] = NoScan]
    /\ UNCHANGED <<lock, age, stage, timerVars, late, stable, robbed>>

-----------------------------------------------------------------------------
(* The environment. *)

(* On a punctual instance every live interval has fired since the last     *)
(* tick, and no setInterval is due since the first heartbeat landed.       *)
OnTime ==
    /\ live \subseteq fired
    /\ \A h \in Handlers : stage[h] # "arming"

(* One heartbeat period passes. *)
Tick ==
    /\ Punctual => OnTime
    /\ age' = [t \in Tasks |-> Older(age[t])]
    /\ scan' = [p \in Procs |->
                  Listed(scan[p].todo, [t \in Tasks |-> Older(scan[p].seen[t])],
                         scan[p].owed)]
    /\ fired' = {}
    /\ UNCHANGED <<lock, stage, timer, live, missed, late, stable, robbed>>

(* The instance dies and is started again; what it sent may still land. *)
Crash(p) ==
    LET mine == {h \in Handlers : host[h] = p} IN
    /\ Fault("crash")
    /\ p \notin Steady
    /\ stage' = [h \in Handlers |-> IF h \in mine THEN "idle" ELSE stage[h]]
    /\ timer' = [timer EXCEPT ![p] = [t \in Tasks |-> None]]
    /\ live' = live \ mine
    /\ fired' = fired \ mine
    /\ missed' = missed \ mine
    /\ robbed' = robbed \ mine
    /\ scan' = [scan EXCEPT ![p] = NoScan]
    /\ UNCHANGED <<lock, age, late, stable>>

Settle ==
    /\ stable = FALSE
    /\ stable' = TRUE
    /\ UNCHANGED <<lock, age, stage, timerVars, late, scan, robbed>>

HandlerStep(h) ==
    \/ NeedDoTask(h) \/ RegisterTask(h) \/ NeedDoTaskThrows(h)
    \/ Lock(h) \/ LockFails(h)
    \/ FirstHeartbeat(h) \/ HeartbeatThrows(h) \/ StartTimer(h)
    \/ DoTaskEnds(h) \/ DoTaskHangs(h)
    \/ Unlock(h) \/ UnlockFails(h) \/ ClearTimer(h)

LateStep(h) == LateLock(h) \/ LateUnlock(h) \/ \E c \in Commands : LateLost(h, c)

ScanStep(p) ==
    \/ FindAllLocked(p)
    \/ \E t \in Tasks : Judge(p, t) \/ Callback(p, t)
    \/ ScanThrows(p)

Next ==
    \/ \E h \in Handlers :
          \/ Cron(h) \/ HandlerStep(h) \/ LateStep(h)
          \/ Interval(h) \/ IntervalFails(h)
    \/ \E p \in Procs : ScanStep(p) \/ Crash(p)
    \/ Tick \/ Settle

Spec == Init /\ [][Next]_vars

(* Cron goes on firing on the steady instances, every handler that is      *)
(* under way goes on, time passes, and the faults come to an end.          *)
Fairness ==
    /\ \A h \in Handlers : WF_vars(HandlerStep(h)) /\ WF_vars(LateStep(h))
    /\ \A h \in Handlers : host[h] \in Steady => WF_vars(Cron(h))
    /\ \A p \in Procs : p \in Steady => WF_vars(ScanStep(p))
    /\ WF_vars(Tick) /\ WF_vars(Settle)

LiveSpec == Spec /\ Fairness
-----------------------------------------------------------------------------
(* Correctness. *)

Executes(h) == stage[h] \in Executing

(* A run keeps its task's lock until it sends its own unlock, unless       *)
(* somebody else has released it: handleDoTask lines 174-196.              *)
HolderKeepsLock ==
    \A h \in Handlers : Executes(h) /\ h \notin robbed => lock[job[h]] = "locked"

(* The lock documents with all that is done to them implement a lock that  *)
(* may be revoked: a run starts only when every run of its task that has   *)
(* not ended was robbed of the lock.                                       *)
Abstract ==
    INSTANCE RevocableLock WITH running <- {h \in Handlers : Executes(h)},
                                revoked <- robbed
ImplementsLock == Abstract!LockSpec

(* Of the runs of one task that overlap, at most one still holds the lock: *)
(* every overlap begins with a lock that somebody else released.           *)
OneHolder ==
    \A g, h \in Handlers :
        /\ job[g] = job[h]
        /\ Executes(g) /\ Executes(h)
        /\ g \notin robbed /\ h \notin robbed
        => g = h

(* The comment on the cycle of a task: as long as a run has not ended, no  *)
(* other instance executes the same task.                                  *)
MutualExclusion ==
    \A g, h \in Handlers :
        job[g] = job[h] /\ Executes(g) /\ Executes(h) => g = h

(* The fault-tolerance pass of p releases the lock of t. *)
FaultReleases(p, t) ==
    /\ t \in scan[p].todo /\ t \in scan'[p].owed
    /\ lock[t] = "locked" /\ lock'[t] = "free"

Beats(h) == stage[h] = "running" /\ h \in live

(* With punctual timers the heartbeat of a run that holds its lock, whose  *)
(* interval is alive and whose last heartbeat was not rejected is less     *)
(* than two periods old: the margin updateHeartbeatUpdateTime relies on.   *)
(* One rejected heartbeat uses the margin up.                              *)
FreshWhenPunctual ==
    Punctual =>
        \A h \in Handlers \ robbed :
            /\ stage[h] = "arming" => age[job[h]] = 0
            /\ stage[h] \in {"running", "hung"} /\ h \in live \ missed =>
                   /\ age[job[h]] <= 1
                   /\ h \in fired => age[job[h]] = 0

(* With timers that fire on time, the pass takes the lock from a run that  *)
(* holds it and whose interval is alive in two cases only: the heartbeat   *)
(* it compares was read before a later one, or the last was rejected.      *)
ReleasedOnOldReading ==
    \A p \in Procs, t \in Tasks, h \in Handlers :
        FaultReleases(p, t) /\ job[h] = t /\ Beats(h) /\ h \notin robbed
        => scan[p].seen[t] > age[t] \/ h \in missed
MisjudgedOnOldReading == [][ReleasedOnOldReading]_vars

(* An interval no slot leads to any more, or that outlived its handler. *)
Leaked(t) ==
    \E h \in live : job[h] = t /\ (Slot(h) # h \/ stage[h] = "idle")
Hung(t) == \E h \in Handlers : job[h] = t /\ stage[h] = "hung"

(* Every task is run again and again, whatever crashed before. *)
TaskRunsAgain ==
    \A t \in Tasks :
        []<>((\E h \in Runs(t) : stage[h] = "running") \/ Leaked(t) \/ Hung(t))
=============================================================================
