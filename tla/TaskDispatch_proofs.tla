------------------------- MODULE TaskDispatch_proofs -------------------------
(* Proofs about TaskDispatch for any number of instances, tasks, handlers. *)
EXTENDS TaskDispatch, TLAPS

USE HandlerAssumption, SettingAssumption

(* The types of the parts that several actions share. *)
LEMMA UnlockedType ==
    ASSUME TypeOK, NEW t \in Tasks, Unlocked(t)
    PROVE  /\ lock' \in [Tasks -> {"absent", "free", "locked"}]
           /\ robbed' \subseteq Handlers
BY DEF TypeOK, Unlocked, Runs

LEMMA ClearedType ==
    ASSUME TypeOK, NEW p \in Procs, NEW t \in Tasks, Cleared(p, t)
    PROVE  /\ live' \subseteq Handlers
           /\ fired' \subseteq Handlers
           /\ missed' \subseteq Handlers
           /\ timer' \in [Procs -> [Tasks -> Handlers \cup {None}]]
BY DEF TypeOK, Cleared

LEMMA OlderType == \A a \in 0..Stale : Older(a) \in 0..Stale
BY DEF Older, Stale

LEMMA ListedType ==
    ASSUME NEW todo \in SUBSET Tasks, NEW seen \in [Tasks -> 0..Stale],
           NEW owed \in SUBSET Tasks
    PROVE  Listed(todo, seen, owed) \in ScanState
BY DEF Listed, ScanState, Stale

LEMMA NoScanType == NoScan \in ScanState
<1>1. [t \in Tasks |-> 0] \in [Tasks -> 0..Stale]
  BY DEF Stale
<1>2. QED
  BY <1>1, ListedType DEF NoScan

LEMMA SentType ==
    ASSUME TypeOK, NEW h \in Handlers, NEW c \in Commands
    PROVE  Sent(h, c) \subseteq Handlers \X Commands
BY DEF TypeOK, Sent

LEMMA InitType == Init => TypeOK
<1> SUFFICES ASSUME Init
             PROVE  TypeOK
  OBVIOUS
<1>1. scan \in [Procs -> ScanState]
  BY NoScanType DEF Init
<1>2. timer \in [Procs -> [Tasks -> Handlers \cup {None}]]
  BY DEF Init
<1>3. stage \in [Handlers -> Stages]
  BY DEF Init, Stages
<1>4. QED
  BY <1>1, <1>2, <1>3 DEF Init, TypeOK

LEMMA HandlerType ==
    ASSUME TypeOK, NEW h \in Handlers,
           \/ Cron(h) \/ HandlerStep(h) \/ LateStep(h)
           \/ Interval(h) \/ IntervalFails(h)
    PROVE  TypeOK'
<1> USE DEF Goto, Stages, timerVars
<1>a. "lock" \in Commands /\ "unlock" \in Commands
  BY DEF Commands
<1>0. job[h] \in Tasks /\ host[h] \in Procs
  OBVIOUS
<1>1. CASE Cron(h)
  BY <1>1 DEF TypeOK, Cron
<1>2. CASE NeedDoTask(h)
  <2>1. late' \subseteq Handlers \X Commands
    BY <1>2, <1>a, SentType DEF TypeOK, NeedDoTask
  <2>2. stage' \in [Handlers -> Stages]
    BY <1>2 DEF TypeOK, NeedDoTask
  <2>3. QED
    BY <1>2, <2>1, <2>2 DEF TypeOK, NeedDoTask
<1>3. CASE RegisterTask(h)
  <2>1. late' \subseteq Handlers \X Commands
    BY <1>3, <1>a, SentType DEF TypeOK, RegisterTask
  <2>2. stage' \in [Handlers -> Stages]
    BY <1>3 DEF TypeOK, RegisterTask
  <2>3. lock' \in [Tasks -> {"absent", "free", "locked"}]
    BY <1>3, <1>0 DEF TypeOK, RegisterTask
  <2>4. age' \in [Tasks -> 0..Stale]
    BY <1>3, <1>0 DEF TypeOK, RegisterTask, Stale
  <2>5. QED
    BY <1>3, <2>1, <2>2, <2>3, <2>4 DEF TypeOK, RegisterTask
<1>4. CASE NeedDoTaskThrows(h)
  BY <1>4 DEF TypeOK, NeedDoTaskThrows
<1>5. CASE Lock(h)
  BY <1>5, <1>0 DEF TypeOK, Lock, Locked
<1>6. CASE LockFails(h)
  BY <1>6, <1>0 DEF TypeOK, LockFails, Locked
<1>7. CASE FirstHeartbeat(h)
  BY <1>7, <1>0 DEF TypeOK, FirstHeartbeat, Refreshed, Stale
<1>8. CASE HeartbeatThrows(h)
  BY <1>8, <1>a, SentType DEF TypeOK, HeartbeatThrows, RunEnds
<1>9. CASE StartTimer(h)
  BY <1>9, <1>0 DEF TypeOK, StartTimer
<1>10. CASE DoTaskEnds(h)
  BY <1>10, <1>a, SentType DEF TypeOK, DoTaskEnds, RunEnds
<1>11. CASE DoTaskHangs(h)
  BY <1>11 DEF TypeOK, DoTaskHangs
<1>12. CASE Unlock(h)
  BY <1>12, <1>0, UnlockedType DEF TypeOK, Unlock
<1>13. CASE UnlockFails(h)
  BY <1>13 DEF TypeOK, UnlockFails
<1>14. CASE ClearTimer(h)
  BY <1>14, <1>0, ClearedType DEF TypeOK, ClearTimer
<1>15. CASE Interval(h)
  BY <1>15, <1>0 DEF TypeOK, Interval, Refreshed, Stale
<1>16. CASE LateLock(h)
  BY <1>16, <1>0 DEF TypeOK, LateLock, Locked
<1>17. CASE LateUnlock(h)
  BY <1>17, <1>0, UnlockedType DEF TypeOK, LateUnlock
<1>18. CASE \E c \in Commands : LateLost(h, c)
  BY <1>18 DEF TypeOK, LateLost
<1>19. CASE IntervalFails(h)
  BY <1>19 DEF TypeOK, IntervalFails
<1>20. QED
  BY <1>1, <1>2, <1>3, <1>4, <1>5, <1>6, <1>7, <1>8, <1>9, <1>10, <1>11, <1>12,
     <1>13, <1>14, <1>15, <1>16, <1>17, <1>18, <1>19 DEF HandlerStep, LateStep

LEMMA ScanType ==
    ASSUME TypeOK, NEW p \in Procs, ScanStep(p) \/ Crash(p)
    PROVE  TypeOK'
<1> USE DEF timerVars
<1>0. scan \in [Procs -> ScanState] /\ scan[p] \in ScanState
  BY DEF TypeOK
<1>1. CASE FindAllLocked(p)
  <2>1. Listed({t \in Tasks : lock[t] = "locked"}, age, {}) \in ScanState
    BY ListedType DEF TypeOK
  <2>2. scan' \in [Procs -> ScanState]
    BY <1>1, <2>1, <1>0 DEF FindAllLocked
  <2>3. QED
    BY <1>1, <2>2 DEF TypeOK, FindAllLocked
<1>2. ASSUME NEW t \in Tasks, Judge(p, t)
      PROVE  TypeOK'
  <2> DEFINE owed == IF Expired(p, t) THEN {t} ELSE {}
  <2>1. Listed(scan[p].todo \ {t}, scan[p].seen, owed) \in ScanState
    <3>1. /\ scan[p].todo \ {t} \in SUBSET Tasks
          /\ scan[p].seen \in [Tasks -> 0..Stale]
      BY <1>0 DEF ScanState
    <3>2. owed \in SUBSET Tasks
      OBVIOUS
    <3> HIDE DEF owed
    <3>3. QED
      BY <3>1, <3>2, ListedType
  <2>2. scan' \in [Procs -> ScanState]
    BY <1>2, <2>1, <1>0 DEF Judge
  <2>3. /\ lock' \in [Tasks -> {"absent", "free", "locked"}]
        /\ robbed' \subseteq Handlers
    BY <1>2, UnlockedType DEF TypeOK, Judge
  <2>4. QED
    BY <1>2, <2>2, <2>3 DEF TypeOK, Judge
<1>3. ASSUME NEW t \in Tasks, Callback(p, t)
      PROVE  TypeOK'
  <2>1. Listed(scan[p].todo, scan[p].seen, {}) \in ScanState
    BY <1>0, ListedType DEF ScanState
  <2>2. scan' \in [Procs -> ScanState]
    BY <1>3, <2>1, <1>0 DEF Callback
  <2>3. QED
    BY <1>3, <2>2, ClearedType DEF TypeOK, Callback
<1>4. CASE ScanThrows(p)
  BY <1>4, NoScanType DEF TypeOK, ScanThrows
<1>5. CASE Crash(p)
  BY <1>5, NoScanType DEF TypeOK, Crash, Stages
<1>6. QED
  BY <1>1, <1>2, <1>3, <1>4, <1>5 DEF ScanStep

LEMMA TickType == TypeOK /\ Tick => TypeOK'
<1> SUFFICES ASSUME TypeOK, Tick
             PROVE  TypeOK'
  OBVIOUS
<1>1. age' \in [Tasks -> 0..Stale]
  BY OlderType DEF TypeOK, Tick
<1>2. scan' \in [Procs -> ScanState]
  <2>1. ASSUME NEW p \in Procs
        PROVE  Listed(scan[p].todo, [t \in Tasks |-> Older(scan[p].seen[t])],
                      scan[p].owed) \in ScanState
    <3>1. scan[p] \in ScanState
      BY DEF TypeOK
    <3>2. [t \in Tasks |-> Older(scan[p].seen[t])] \in [Tasks -> 0..Stale]
      BY <3>1, OlderType DEF ScanState
    <3>3. QED
      BY <3>1, <3>2, ListedType DEF ScanState
  <2>2. QED
    BY <2>1 DEF Tick
<1>3. QED
  BY <1>1, <1>2 DEF TypeOK, Tick

LEMMA StepType == TypeOK /\ [Next]_vars => TypeOK'
<1> SUFFICES ASSUME TypeOK, [Next]_vars
             PROVE  TypeOK'
  OBVIOUS
<1>1. CASE \E h \in Handlers :
             \/ Cron(h) \/ HandlerStep(h) \/ LateStep(h)
             \/ Interval(h) \/ IntervalFails(h)
  BY <1>1, HandlerType
<1>2. CASE \E p \in Procs : ScanStep(p) \/ Crash(p)
  BY <1>2, ScanType
<1>3. CASE Tick
  BY <1>3, TickType
<1>4. CASE Settle
  BY <1>4 DEF TypeOK, Settle, timerVars
<1>5. CASE UNCHANGED vars
  BY <1>5 DEF TypeOK, vars
<1>6. QED
  BY <1>1, <1>2, <1>3, <1>4, <1>5 DEF Next

(* Every state of the scheduler is well typed; in particular an age is at  *)
(* most two periods and a slot holds the interval of a handler or none.    *)
THEOREM TypeCorrect == Spec => []TypeOK
<1>1. Init => TypeOK
  BY InitType
<1>2. TypeOK /\ [Next]_vars => TypeOK'
  BY StepType
<1>3. QED
  BY <1>1, <1>2, PTL DEF Spec

-----------------------------------------------------------------------------
(* The lock.  HolderKeepsLock and OneHolder are inductive together: a run  *)
(* begins by finding the lock free, when no run holds it.                  *)
LockInv == HolderKeepsLock /\ OneHolder

(* A step that opens no lock and starts no run. *)
LEMMA QuietStep ==
    ASSUME TypeOK, LockInv,
           \A t \in Tasks : lock[t] = "locked" => lock'[t] = "locked",
           \A h \in Handlers : Executes(h)' /\ h \notin robbed'
                               => Executes(h) /\ h \notin robbed
    PROVE  LockInv'
BY DEF LockInv, HolderKeepsLock, OneHolder

(* A step that releases a lock marks every run that loses it. *)
LEMMA ReleaseStep ==
    ASSUME TypeOK, LockInv, NEW t \in Tasks, Unlocked(t),
           \A h \in Handlers : Executes(h)' => Executes(h)
    PROVE  LockInv'
<1>1. ASSUME NEW h \in Handlers, Executes(h)', h \notin robbed'
      PROVE  /\ Executes(h) /\ h \notin robbed
             /\ lock'[job[h]] = "locked"
  <2>1. Executes(h) /\ h \notin robbed
    BY <1>1 DEF Unlocked
  <2>2. job[h] \in Tasks /\ lock[job[h]] = "locked"
    BY <2>1 DEF LockInv, HolderKeepsLock
  <2>3. job[h] # t
    BY <1>1, <2>1, <2>2 DEF Unlocked, Runs, Executes
  <2>4. QED
    BY <2>1, <2>2, <2>3 DEF Unlocked, TypeOK
<1>2. QED
  BY <1>1 DEF LockInv, HolderKeepsLock, OneHolder

LEMMA HandlerLock ==
    ASSUME TypeOK, LockInv, NEW h \in Handlers,
           \/ Cron(h) \/ HandlerStep(h) \/ LateStep(h)
           \/ Interval(h) \/ IntervalFails(h)
    PROVE  LockInv'
<1> USE DEF Goto, Executes, Executing
<1>0. job[h] \in Tasks
  OBVIOUS
<1>1. CASE Cron(h) \/ NeedDoTask(h) \/ NeedDoTaskThrows(h)
  BY <1>1, QuietStep DEF TypeOK, Cron, NeedDoTask, NeedDoTaskThrows
<1>2. CASE RegisterTask(h)
  BY <1>2, <1>0, QuietStep DEF TypeOK, RegisterTask
<1>3. CASE Lock(h)
  <2>1. CASE ~MayLock(job[h])
    BY <1>3, <2>1, QuietStep DEF TypeOK, Lock
  <2>2. CASE MayLock(job[h])
    <3>1. \A g \in Handlers : job[g] = job[h] /\ Executes(g) => g \in robbed
      BY <2>2 DEF MayLock, LockInv, HolderKeepsLock
    <3>2. /\ lock' = [lock EXCEPT ![job[h]] = "locked"]
          /\ stage' = [stage EXCEPT ![h] = "beating"]
          /\ robbed' = robbed
      BY <1>3, <2>2 DEF Lock, Locked
    <3>3. HolderKeepsLock'
      BY <3>2, <1>0 DEF LockInv, HolderKeepsLock, TypeOK
    <3>4. OneHolder'
      BY <3>1, <3>2 DEF LockInv, OneHolder, TypeOK
    <3>5. QED
      BY <3>3, <3>4 DEF LockInv
  <2>3. QED
    BY <2>1, <2>2
<1>4. CASE LockFails(h)
  BY <1>4, <1>0, QuietStep DEF TypeOK, LockFails, Locked
<1>5. CASE FirstHeartbeat(h) \/ StartTimer(h) \/ DoTaskHangs(h)
  BY <1>5, QuietStep DEF TypeOK, FirstHeartbeat, StartTimer, DoTaskHangs
<1>6. CASE HeartbeatThrows(h) \/ DoTaskEnds(h)
  BY <1>6, QuietStep DEF TypeOK, HeartbeatThrows, DoTaskEnds, RunEnds
<1>7. CASE Unlock(h)
  <2>1. \A g \in Handlers : Executes(g)' => Executes(g)
    BY <1>7 DEF TypeOK, Unlock
  <2>2. QED
    BY <1>7, <1>0, <2>1, ReleaseStep DEF Unlock
<1>8. CASE UnlockFails(h) \/ ClearTimer(h)
  BY <1>8, QuietStep DEF TypeOK, UnlockFails, ClearTimer
<1>9. CASE Interval(h) \/ IntervalFails(h)
  BY <1>9, QuietStep DEF TypeOK, Interval, IntervalFails
<1>10. CASE LateLock(h)
  BY <1>10, <1>0, QuietStep DEF TypeOK, LateLock, Locked, timerVars
<1>11. CASE LateUnlock(h)
  BY <1>11, <1>0, ReleaseStep DEF LateUnlock, timerVars
<1>12. CASE \E c \in Commands : LateLost(h, c)
  BY <1>12, QuietStep DEF TypeOK, LateLost
<1>13. QED
  BY <1>1, <1>2, <1>3, <1>4, <1>5, <1>6, <1>7, <1>8, <1>9, <1>10, <1>11, <1>12
     DEF HandlerStep, LateStep

LEMMA ScanLock ==
    ASSUME TypeOK, LockInv, NEW p \in Procs, ScanStep(p) \/ Crash(p)
    PROVE  LockInv'
<1> USE DEF Executes, Executing
<1>1. CASE FindAllLocked(p) \/ ScanThrows(p)
  BY <1>1, QuietStep DEF TypeOK, FindAllLocked, ScanThrows
<1>2. ASSUME NEW t \in Tasks, Judge(p, t)
      PROVE  LockInv'
  <2>1. CASE Unlocked(t)
    BY <1>2, <2>1, ReleaseStep DEF Judge
  <2>2. CASE UNCHANGED <<lock, robbed>>
    BY <1>2, <2>2, QuietStep DEF Judge
  <2>3. QED
    BY <1>2, <2>1, <2>2 DEF Judge
<1>3. ASSUME NEW t \in Tasks, Callback(p, t)
      PROVE  LockInv'
  BY <1>3, QuietStep DEF Callback
<1>4. CASE Crash(p)
  BY <1>4, QuietStep DEF TypeOK, Crash
<1>5. QED
  BY <1>1, <1>2, <1>3, <1>4 DEF ScanStep

(* A run keeps the lock until it sends its unlock unless somebody else     *)
(* released it, and two runs of a task overlap only after such a release:  *)
(* mutual exclusion can be lost in no other way, whatever crashes, fails   *)
(* or is applied late.                                                     *)
THEOREM LockHeld == Spec => [](HolderKeepsLock /\ OneHolder)
<1>1. Init => LockInv
  BY DEF Init, LockInv, HolderKeepsLock, OneHolder, Executes, Executing
<1>2. TypeOK /\ LockInv /\ [Next]_vars => LockInv'
  <2> SUFFICES ASSUME TypeOK, LockInv, [Next]_vars
               PROVE  LockInv'
    OBVIOUS
  <2>1. CASE \E h \in Handlers :
               \/ Cron(h) \/ HandlerStep(h) \/ LateStep(h)
               \/ Interval(h) \/ IntervalFails(h)
    BY <2>1, HandlerLock
  <2>2. CASE \E p \in Procs : ScanStep(p) \/ Crash(p)
    BY <2>2, ScanLock
  <2>3. CASE Tick \/ Settle \/ UNCHANGED vars
    BY <2>3, QuietStep DEF Tick, Settle, vars, Executes
  <2>4. QED
    BY <2>1, <2>2, <2>3 DEF Next
<1>3. LockInv => HolderKeepsLock /\ OneHolder
  BY DEF LockInv
<1>4. QED
  BY <1>1, <1>2, <1>3, TypeCorrect, PTL DEF Spec

-----------------------------------------------------------------------------
(* The refinement.  A step that starts no run and robs nobody stutters;     *)
(* the unlock of a held lock is a Revoke, the end of runs a Leave.          *)
Running == {h \in Handlers : Executes(h)}
AbstractStep == [Abstract!LockNext]_(Abstract!lockVars)

LEMMA StutterRefines ==
    ASSUME Running' = Running, robbed' = robbed
    PROVE  AbstractStep
BY DEF AbstractStep, Abstract!lockVars, Running

LEMMA LeaveRefines ==
    ASSUME NEW ended \in SUBSET Handlers,
           Running' = Running \ ended, robbed' = robbed \ ended
    PROVE  AbstractStep
<1>1. Abstract!Leave(ended)
  BY DEF Abstract!Leave, Running
<1>2. QED
  BY <1>1 DEF AbstractStep, Abstract!LockNext

(* A released lock is taken from all the runs of the task together. *)
LEMMA UnlockedRefines ==
    ASSUME TypeOK, NEW t \in Tasks, Unlocked(t), Running' = Running
    PROVE  AbstractStep
<1>1. Runs(t) = {g \in Running : job[g] = t}
  BY DEF Runs, Running, Executes
<1>2. CASE robbed' = robbed
  BY <1>2, StutterRefines
<1>3. CASE robbed' # robbed
  <2>1. robbed' = robbed \cup Runs(t)
    BY <1>3 DEF Unlocked
  <2>2. PICK h \in Runs(t) : h \notin robbed
    BY <1>3, <2>1
  <2>3. h \in Handlers /\ h \in Running /\ job[h] = t
    BY <1>1, <2>2 DEF Running
  <2>4. Abstract!RunsOf(job[h]) = Runs(t)
    BY <1>1, <2>3 DEF Abstract!RunsOf, Running
  <2>5. Abstract!Revoke(h)
    BY <2>1, <2>2, <2>3, <2>4 DEF Abstract!Revoke, Running
  <2>6. QED
    BY <2>3, <2>5 DEF AbstractStep, Abstract!LockNext
<1>4. QED
  BY <1>2, <1>3

LEMMA HandlerRefines ==
    ASSUME TypeOK, LockInv, NEW h \in Handlers,
           \/ Cron(h) \/ HandlerStep(h) \/ LateStep(h)
           \/ Interval(h) \/ IntervalFails(h)
    PROVE  AbstractStep
<1> USE DEF Goto
<1>0. job[h] \in Tasks
  OBVIOUS
<1>1. CASE Cron(h) \/ NeedDoTask(h) \/ RegisterTask(h) \/ NeedDoTaskThrows(h)
           \/ LockFails(h) \/ FirstHeartbeat(h) \/ StartTimer(h)
           \/ DoTaskHangs(h) \/ UnlockFails(h) \/ ClearTimer(h)
           \/ Interval(h) \/ IntervalFails(h) \/ LateLock(h)
           \/ \E c \in Commands : LateLost(h, c)
  <2>1. Running' = Running
    BY <1>1 DEF TypeOK, Running, Executes, Executing, Cron, NeedDoTask,
       RegisterTask, NeedDoTaskThrows, LockFails, FirstHeartbeat, StartTimer,
       DoTaskHangs, UnlockFails, ClearTimer, Interval, IntervalFails, LateLock,
       LateLost
  <2>2. robbed' = robbed
    BY <1>1 DEF Cron, NeedDoTask, RegisterTask, NeedDoTaskThrows, LockFails,
       FirstHeartbeat, StartTimer, DoTaskHangs, UnlockFails, ClearTimer,
       Interval, IntervalFails, LateLock, LateLost
  <2>3. QED
    BY <2>1, <2>2, StutterRefines
<1>2. CASE Lock(h)
  <2>1. CASE ~MayLock(job[h])
    <3>1. Running' = Running /\ robbed' = robbed
      BY <1>2, <2>1 DEF TypeOK, Running, Executes, Executing, Lock
    <3>2. QED
      BY <3>1, StutterRefines
  <2>2. CASE MayLock(job[h])
    <3>1. \A g \in Handlers : job[g] = job[h] /\ Executes(g) => g \in robbed
      BY <2>2 DEF MayLock, LockInv, HolderKeepsLock
    <3>2. /\ stage[h] = "locking"
          /\ stage' = [stage EXCEPT ![h] = "beating"]
          /\ robbed' = robbed
      BY <1>2, <2>2 DEF Lock
    <3>3. h \notin Running /\ Running' = Running \cup {h}
      BY <3>2 DEF TypeOK, Running, Executes, Executing
    <3>4. Abstract!RunsOf(job[h]) \subseteq robbed
      BY <3>1 DEF Abstract!RunsOf
    <3>5. Abstract!Acquire(h)
      BY <3>2, <3>3, <3>4 DEF Abstract!Acquire, Running
    <3>6. QED
      BY <3>5 DEF AbstractStep, Abstract!LockNext
  <2>3. QED
    BY <2>1, <2>2
<1>3. CASE HeartbeatThrows(h) \/ DoTaskEnds(h)
  <2>1. Running' = Running \ {h} /\ robbed' = robbed \ {h}
    BY <1>3 DEF TypeOK, Running, Executes, Executing, HeartbeatThrows,
       DoTaskEnds, RunEnds
  <2>2. {h} \in SUBSET Handlers
    OBVIOUS
  <2>3. QED
    BY <2>1, <2>2, LeaveRefines
<1>4. CASE Unlock(h) \/ LateUnlock(h)
  <2>1. Unlocked(job[h]) /\ Running' = Running
    BY <1>4 DEF TypeOK, Running, Executes, Executing, Unlock, LateUnlock
  <2>2. QED
    BY <1>0, <2>1, UnlockedRefines
<1>5. QED
  BY <1>1, <1>2, <1>3, <1>4 DEF HandlerStep, LateStep

LEMMA ScanRefines ==
    ASSUME TypeOK, NEW p \in Procs, ScanStep(p) \/ Crash(p)
    PROVE  AbstractStep
<1>1. CASE FindAllLocked(p) \/ ScanThrows(p) \/ \E t \in Tasks : Callback(p, t)
  <2>1. Running' = Running /\ robbed' = robbed
    BY <1>1 DEF Running, Executes, FindAllLocked, ScanThrows, Callback
  <2>2. QED
    BY <2>1, StutterRefines
<1>2. ASSUME NEW t \in Tasks, Judge(p, t)
      PROVE  AbstractStep
  <2>1. Running' = Running
    BY <1>2 DEF Running, Executes, Judge
  <2>2. CASE Unlocked(t)
    BY <2>1, <2>2, UnlockedRefines
  <2>3. CASE UNCHANGED <<lock, robbed>>
    BY <2>1, <2>3, StutterRefines
  <2>4. QED
    BY <1>2, <2>2, <2>3 DEF Judge
<1>3. CASE Crash(p)
  <2>1. /\ Running' = Running \ {h \in Handlers : host[h] = p}
        /\ robbed' = robbed \ {h \in Handlers : host[h] = p}
    BY <1>3 DEF TypeOK, Running, Executes, Executing, Crash
  <2>2. QED
    BY <2>1, LeaveRefines
<1>4. QED
  BY <1>1, <1>2, <1>3 DEF ScanStep

LEMMA StepRefines == TypeOK /\ LockInv /\ [Next]_vars => AbstractStep
<1> SUFFICES ASSUME TypeOK, LockInv, [Next]_vars
             PROVE  AbstractStep
  OBVIOUS
<1>1. CASE \E h \in Handlers :
             \/ Cron(h) \/ HandlerStep(h) \/ LateStep(h)
             \/ Interval(h) \/ IntervalFails(h)
  BY <1>1, HandlerRefines
<1>2. CASE \E p \in Procs : ScanStep(p) \/ Crash(p)
  BY <1>2, ScanRefines
<1>3. CASE Tick \/ Settle \/ UNCHANGED vars
  <2>1. Running' = Running /\ robbed' = robbed
    BY <1>3 DEF Running, Executes, Tick, Settle, vars
  <2>2. QED
    BY <2>1, StutterRefines
<1>4. QED
  BY <1>1, <1>2, <1>3 DEF Next

(* The scheduler implements the revocable lock: whatever crashes, fails or *)
(* comes late, a run starts only when all other runs of its task have been *)
(* robbed of the lock or have ended.                                       *)
THEOREM Refinement == Spec => ImplementsLock
<1>1. Init => Abstract!LockInit
  BY DEF Init, Abstract!LockInit, Executes, Executing
<1>2. TypeOK /\ LockInv /\ [Next]_vars => [Abstract!LockNext]_(Abstract!lockVars)
  BY StepRefines DEF AbstractStep
<1>3. HolderKeepsLock /\ OneHolder => LockInv
  BY DEF LockInv
<1>4. QED
  BY <1>1, <1>2, <1>3, TypeCorrect, LockHeld, PTL
     DEF Spec, ImplementsLock, Abstract!LockSpec

-----------------------------------------------------------------------------
(* The heartbeat of a run with a punctual interval.  It is zero when the   *)
(* interval starts and after every firing; a period cannot end before the  *)
(* interval has fired in it, so it never passes one.                       *)

LEMMA FreshStep ==
    ASSUME TypeOK, FreshWhenPunctual, Punctual,
           \A t \in Tasks : age'[t] = age[t] \/ age'[t] = 0,
           \A h \in Handlers \ robbed' : age'[job[h]] # 0 =>
               /\ stage'[h] = "arming" => stage[h] = "arming" /\ h \notin robbed
               /\ stage'[h] \in {"running", "hung"} /\ h \in live' \ missed' =>
                     /\ stage[h] \in {"running", "hung"} /\ h \in live \ missed
                     /\ h \notin robbed
                     /\ h \in fired' => h \in fired
    PROVE  FreshWhenPunctual'
BY DEF FreshWhenPunctual, TypeOK

LEMMA HandlerFresh ==
    ASSUME TypeOK, LockInv, FreshWhenPunctual, Punctual, NEW h \in Handlers,
           \/ Cron(h) \/ HandlerStep(h) \/ LateStep(h)
           \/ Interval(h) \/ IntervalFails(h)
    PROVE  FreshWhenPunctual'
<1> USE DEF Goto, timerVars
<1>0. job[h] \in Tasks /\ host[h] \in Procs
  OBVIOUS
<1>1. CASE Cron(h) \/ NeedDoTask(h) \/ NeedDoTaskThrows(h)
  BY <1>1, FreshStep DEF TypeOK, Cron, NeedDoTask, NeedDoTaskThrows
<1>2. CASE RegisterTask(h)
  BY <1>2, FreshStep DEF TypeOK, RegisterTask
<1>3. CASE Lock(h) \/ LockFails(h)
  BY <1>3, FreshStep DEF TypeOK, Lock, LockFails
<1>4. CASE FirstHeartbeat(h)
  <2>1. h \notin robbed => age'[job[h]] = 0
    BY <1>4, <1>0 DEF FirstHeartbeat, Refreshed, LockInv, HolderKeepsLock,
                      Executes, Executing, TypeOK
  <2>2. \A t \in Tasks : age'[t] = age[t] \/ age'[t] = 0
    BY <1>4 DEF FirstHeartbeat, Refreshed, TypeOK
  <2>3. \A g \in Handlers : age'[job[g]] # 0 /\ g \in missed => g \in missed'
    BY <1>4, <1>0 DEF FirstHeartbeat, Refreshed, TypeOK
  <2>4. QED
    BY <1>4, <2>1, <2>2, <2>3, FreshStep DEF FirstHeartbeat, TypeOK
<1>5. CASE HeartbeatThrows(h) \/ DoTaskEnds(h)
  BY <1>5, FreshStep DEF TypeOK, HeartbeatThrows, DoTaskEnds, RunEnds
<1>6. CASE StartTimer(h)
  <2>1. h \notin robbed => age'[job[h]] = 0
    BY <1>6 DEF StartTimer, FreshWhenPunctual
  <2>2. QED
    BY <1>6, <2>1, FreshStep DEF StartTimer, TypeOK
<1>7. CASE DoTaskHangs(h)
  BY <1>7, FreshStep DEF TypeOK, DoTaskHangs
<1>8. CASE Unlock(h) \/ UnlockFails(h)
  BY <1>8, FreshStep DEF TypeOK, Unlock, Unlocked, UnlockFails
<1>9. CASE ClearTimer(h)
  BY <1>9, FreshStep DEF TypeOK, ClearTimer, Cleared
<1>10. CASE Interval(h)
  <2>1. stage[h] \in {"running", "hung"} /\ h \notin robbed => age'[job[h]] = 0
    BY <1>10, <1>0 DEF Interval, Refreshed, LockInv, HolderKeepsLock,
                       Executes, Executing, TypeOK
  <2>2. \A t \in Tasks : age'[t] = age[t] \/ age'[t] = 0
    BY <1>10 DEF Interval, Refreshed, TypeOK
  <2>3. \A g \in Handlers : age'[job[g]] # 0 /\ g \in missed => g \in missed'
    BY <1>10, <1>0 DEF Interval, Refreshed, TypeOK
  <2>4. QED
    BY <1>10, <2>1, <2>2, <2>3, FreshStep DEF Interval, TypeOK
<1>11. CASE LateLock(h) \/ \E c \in Commands : LateLost(h, c)
  BY <1>11, FreshStep DEF TypeOK, LateLock, LateLost
<1>12. CASE LateUnlock(h)
  BY <1>12, FreshStep DEF TypeOK, LateUnlock, Unlocked
<1>13. CASE IntervalFails(h)
  <2>1. /\ fired' = fired \cup {h} /\ missed' = missed \cup {h}
        /\ UNCHANGED <<age, stage, live, robbed>>
    BY <1>13 DEF IntervalFails
  <2>2. QED
    BY <2>1, FreshStep
<1>14. QED
  BY <1>1, <1>2, <1>3, <1>4, <1>5, <1>6, <1>7, <1>8, <1>9, <1>10, <1>11, <1>12,
     <1>13 DEF HandlerStep, LateStep

LEMMA ScanFresh ==
    ASSUME TypeOK, FreshWhenPunctual, Punctual, NEW p \in Procs,
           ScanStep(p) \/ Crash(p)
    PROVE  FreshWhenPunctual'
<1> USE DEF timerVars
<1>1. CASE FindAllLocked(p) \/ ScanThrows(p)
  BY <1>1, FreshStep DEF TypeOK, FindAllLocked, ScanThrows
<1>2. ASSUME NEW t \in Tasks, Judge(p, t)
      PROVE  FreshWhenPunctual'
  BY <1>2, FreshStep DEF TypeOK, Judge, Unlocked
<1>3. ASSUME NEW t \in Tasks, Callback(p, t)
      PROVE  FreshWhenPunctual'
  BY <1>3, FreshStep DEF TypeOK, Callback, Cleared
<1>4. CASE Crash(p)
  BY <1>4, FreshStep DEF TypeOK, Crash
<1>5. QED
  BY <1>1, <1>2, <1>3, <1>4 DEF ScanStep

LEMMA TickFresh ==
    ASSUME TypeOK, FreshWhenPunctual, Punctual, Tick
    PROVE  FreshWhenPunctual'
<1>1. \A h \in Handlers : stage[h] # "arming"
  BY DEF Tick, OnTime
<1>2. \A t \in Tasks : age[t] = 0 => age'[t] = 1
  BY DEF Tick, Older, Stale
<1>3. \A h \in Handlers \ robbed :
        stage[h] \in {"running", "hung"} /\ h \in live \ missed
            => age[job[h]] = 0
  BY DEF Tick, OnTime, FreshWhenPunctual
<1>4. QED
  BY <1>1, <1>2, <1>3 DEF Tick, FreshWhenPunctual

(* A pass owes the callback only for a task it has taken off its list. *)
ScanApart == \A p \in Procs : scan[p].todo \cap scan[p].owed = {}

LEMMA ApartStep == TypeOK /\ ScanApart /\ [Next]_vars => ScanApart'
<1> SUFFICES ASSUME TypeOK, ScanApart, [Next]_vars
             PROVE  ScanApart'
  OBVIOUS
<1> USE DEF ScanApart
<1>1. CASE UNCHANGED scan
  BY <1>1
<1>2. ASSUME NEW p \in Procs, ScanStep(p) \/ Crash(p)
      PROVE  ScanApart'
  <2>1. /\ \A q \in Procs \ {p} : scan'[q] = scan[q]
        /\ scan'[p].todo \cap scan'[p].owed = {}
    <3>1. CASE FindAllLocked(p)
      BY <3>1 DEF TypeOK, FindAllLocked, Listed
    <3>2. ASSUME NEW t \in Tasks, Judge(p, t)
          PROVE  <2>1!:
      BY <3>2 DEF TypeOK, Judge, Listed
    <3>3. ASSUME NEW t \in Tasks, Callback(p, t)
          PROVE  <2>1!:
      BY <3>3 DEF TypeOK, Callback, Listed
    <3>4. CASE ScanThrows(p) \/ Crash(p)
      BY <3>4 DEF TypeOK, ScanThrows, Crash, NoScan, Listed
    <3>5. QED
      BY <1>2, <3>1, <3>2, <3>3, <3>4 DEF ScanStep
  <2>2. QED
    BY <2>1
<1>3. CASE Tick
  BY <1>3 DEF Tick, Listed
<1>4. ASSUME NEW h \in Handlers,
             \/ Cron(h) \/ HandlerStep(h) \/ LateStep(h)
             \/ Interval(h) \/ IntervalFails(h)
      PROVE  UNCHANGED scan
  BY <1>4 DEF Cron, Interval, IntervalFails, HandlerStep, NeedDoTask, RegisterTask,
     NeedDoTaskThrows, Lock, LockFails, FirstHeartbeat, HeartbeatThrows,
     StartTimer, DoTaskEnds, RunEnds, DoTaskHangs, Unlock, UnlockFails,
     ClearTimer, LateStep, LateLock, LateUnlock, LateLost
<1>5. QED
  BY <1>1, <1>2, <1>3, <1>4 DEF Next, Settle, vars

LEMMA FreshStepAll ==
    TypeOK /\ LockInv /\ FreshWhenPunctual /\ [Next]_vars => FreshWhenPunctual'
<1> SUFFICES ASSUME TypeOK, LockInv, FreshWhenPunctual, [Next]_vars, Punctual
             PROVE  FreshWhenPunctual'
  BY DEF FreshWhenPunctual
<1>1. CASE \E h \in Handlers :
             \/ Cron(h) \/ HandlerStep(h) \/ LateStep(h)
             \/ Interval(h) \/ IntervalFails(h)
  BY <1>1, HandlerFresh
<1>2. CASE \E p \in Procs : ScanStep(p) \/ Crash(p)
  BY <1>2, ScanFresh
<1>3. CASE Tick
  BY <1>3, TickFresh
<1>4. CASE Settle \/ UNCHANGED vars
  BY <1>4, FreshStep DEF Settle, vars, timerVars
<1>5. QED
  BY <1>1, <1>2, <1>3, <1>4 DEF Next

(* With punctual timers the heartbeat of a run that holds its lock, whose  *)
(* interval is alive and whose last heartbeat was not rejected is less     *)
(* than two periods old.                                                   *)
THEOREM HeartbeatsAreFresh == Spec => []FreshWhenPunctual
<1>1. Init => FreshWhenPunctual
  BY DEF Init, FreshWhenPunctual
<1>2. Init => LockInv
  BY DEF Init, LockInv, HolderKeepsLock, OneHolder, Executes, Executing
<1>3. LockInv <=> HolderKeepsLock /\ OneHolder
  BY DEF LockInv
<1>4. QED
  BY <1>1, <1>3, FreshStepAll, TypeCorrect, LockHeld, PTL DEF Spec

(* With punctual timers the fault-tolerance pass takes the lock of a run   *)
(* whose interval is alive only when the heartbeat it compares was read    *)
(* before a later one, or when the run's last heartbeat was rejected.      *)
THEOREM MisjudgedOnlyOnOldReading ==
    ASSUME Punctual
    PROVE  Spec => MisjudgedOnOldReading
<1>1. Init => ScanApart
  <2>1. NoScan.todo = {} /\ NoScan.owed = {}
    BY DEF NoScan, Listed
  <2>2. QED
    BY <2>1 DEF Init, ScanApart
<1>2. TypeOK /\ ScanApart /\ FreshWhenPunctual /\ [Next]_vars
      => [ReleasedOnOldReading]_vars
  <2> SUFFICES ASSUME TypeOK, ScanApart, FreshWhenPunctual, [Next]_vars,
                      NEW p \in Procs, NEW t \in Tasks, NEW h \in Handlers,
                      FaultReleases(p, t), job[h] = t, Beats(h), h \notin robbed,
                      h \notin missed
               PROVE  scan[p].seen[t] > age[t]
    BY DEF ReleasedOnOldReading
  <2>1. t \in scan[p].todo /\ t \notin scan[p].owed /\ t \in scan'[p].owed
    BY DEF FaultReleases, ScanApart
  <2>2. age[t] <= 1
    BY DEF FreshWhenPunctual, Beats
  <2>3. scan[p].seen[t] \in 0..Stale /\ age[t] \in 0..Stale
    BY DEF TypeOK, ScanState
  <2>4. Expired(p, t)
    <3>1. PICK q \in Procs : ScanStep(q) \/ Crash(q)
      <4>1. scan' # scan
        BY <2>1
      <4>2. CASE \E g \in Handlers :
                   \/ Cron(g) \/ HandlerStep(g) \/ LateStep(g)
                   \/ Interval(g) \/ IntervalFails(g)
        BY <4>1, <4>2 DEF Cron, Interval, IntervalFails, HandlerStep, NeedDoTask, RegisterTask,
           NeedDoTaskThrows, Lock, LockFails, FirstHeartbeat, HeartbeatThrows,
           StartTimer, DoTaskEnds, RunEnds, DoTaskHangs, Unlock, UnlockFails,
           ClearTimer, LateStep, LateLock, LateUnlock, LateLost
      <4>3. CASE Tick
        BY <4>3, <2>1 DEF Tick, Listed
      <4>4. QED
        BY <4>1, <4>2, <4>3 DEF Next, Settle, vars
    <3>2. CASE FindAllLocked(q) \/ ScanThrows(q) \/ Crash(q)
      <4>1. scan'[p].owed = {} \/ scan'[p] = scan[p]
        BY <3>2 DEF TypeOK, FindAllLocked, ScanThrows, Crash, NoScan, Listed
      <4>2. QED
        BY <4>1, <2>1
    <3>3. ASSUME NEW u \in Tasks, Judge(q, u)
          PROVE  Expired(p, t)
      BY <3>3, <2>1 DEF TypeOK, Judge, Listed
    <3>4. ASSUME NEW u \in Tasks, Callback(q, u)
          PROVE  FALSE
      BY <3>4, <2>1 DEF TypeOK, Callback, Listed
    <3>5. QED
      BY <3>1, <3>2, <3>3, <3>4 DEF ScanStep
  <2>5. QED
    BY <2>2, <2>3, <2>4 DEF Expired, Stale
<1>3. QED
  BY <1>1, <1>2, ApartStep, TypeCorrect, HeartbeatsAreFresh, PTL
     DEF Spec, MisjudgedOnOldReading
=============================================================================
