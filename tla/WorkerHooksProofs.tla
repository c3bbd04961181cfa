-------------------------- MODULE WorkerHooksProofs --------------------------
(***************************************************************************)
(* What the hooks of WorkerHooks keep for any finite number of tasks, any  *)
(* number of failures, kills and requeues, and every shape of a step.      *)
(***************************************************************************)
EXTENDS WorkerHooks, FiniteSetTheorems, TLAPS

\* slurmstepd is in one exit hook at a time, for the one task being reaped.
ReapingInv ==
  /\ hook = "idle" <=> \A t \in Tasks : task[t] # "reaping"
  /\ \A s, t \in Tasks : task[s] = "reaping" /\ task[t] = "reaping" => s = t

Mounts == \E t \in Tasks : task[t] \in Mounting

\* A task whose exit hook has not begun.
Pending == \E t \in Tasks : task[t] \notin {"reaping", "reaped"}

\* Past the unmount, and past the removal of the task-init lock.
PastUnmount == hook \in {"unmounted"} \cup Ops
PastRemoval == hook = TaskExitOp

\* While an exit hook works, the task-exit lock is there; a mount file or lock
\* file that escapes it has a task whose exit hook is still to come, and so has
\* one that is there between two exit hooks, unless the cleanup went wrong.
CleanInv ==
  /\ UserInitOp \notin locks
  /\ ~job.enroot => mount = NoFile /\ ~Mounts
  /\ hook \notin {"idle", "locking"} => TaskExitOp \in locks
  /\ hook \in Removing => job.enroot
  /\ PastUnmount /\ mount # NoFile => Pending
  /\ PastRemoval /\ TaskInitOp \in locks => cleanupError \/ Pending
  /\ hook = "idle" /\ TaskExitOp \notin locks /\ ~cleanupError /\ Active /\ Tasks # {} =>
       Pending \/ (mount = NoFile /\ TaskInitOp \notin locks)

\* The task-init lock is made once more than it was removed, at most.
Room == IF TaskInitOp \in locks THEN 1 ELSE 0

RoundsInv ==
  /\ \A t \in swept : task[t] = "reaped" \/ (task[t] = "reaping" /\ hook = TaskExitOp)
  /\ Cardinality(won) <= Cardinality(swept) + Room

HooksInv == TypeOK /\ ReapingInv /\ CleanInv /\ RoundsInv
-----------------------------------------------------------------------------
(* The types.                                                             *)

\* The steps of a hook that are steps of with_lock.
LockStep(c) ==
  \/ EnterLock(c) \/ Lock!FlockLock(c) \/ Lock!Unlock(c) \/ Lock!UnlinkLock(c)
  \/ Lock!UnlinkLockFails(c) \/ Lock!CloseLock(c)
  \/ Lock!ChmodLost(c) \/ Lock!LockError(c) \/ Lock!Killed(c)

LEMMA CallTypes ==
  ASSUME NEW t \in Tasks
  PROVE  InitCall(t) \in Calls /\ ExitCall(t) \in Calls
  BY DEF InitCall, ExitCall, Calls

\* close() at the end of a call does to it what an error or a kill would.
LEMMA CloseIsStop ==
  ASSUME NEW c \in Calls, Lock!CloseLock(c)
  PROVE  Lock!Stop(c)
  BY DEF Lock!CloseLock, Lock!Goto, Lock!Stop

LEMMA LockTypes ==
  ASSUME Lock!TypeOK, NEW c \in Calls, LockStep(c)
  PROVE  Lock!TypeOK'
<1> USE DEF Lock!TypeOK, Lock!Files, Lock!Open, Lock!Ended, Lock!Goto
<1>1. CASE Lock!OpenLock(c)
  BY <1>1 DEF Lock!OpenLock
<1>2. CASE Lock!StatLock(c)
  BY <1>2 DEF Lock!StatLock
<1>3. CASE Lock!ChmodLock(c)
  BY <1>3 DEF Lock!ChmodLock
<1>4. CASE Lock!FlockLock(c) \/ Lock!Unlock(c) \/ Lock!UnlinkLockFails(c)
  BY <1>4 DEF Lock!FlockLock, Lock!Unlock, Lock!UnlinkLockFails
<1>5. CASE Lock!UnlinkLock(c)
  BY <1>5 DEF Lock!UnlinkLock
<1>6. CASE Lock!Stop(c)
  BY <1>6 DEF Lock!Stop
<1> QED
  BY <1>1, <1>2, <1>3, <1>4, <1>5, <1>6, CloseIsStop
     DEF LockStep, EnterLock, Lock!ChmodLost, Lock!LockError, Lock!Killed

LEMMA LockTypesSame ==
  ASSUME Lock!TypeOK, UNCHANGED lockVars
  PROVE  Lock!TypeOK'
  BY DEF lockVars, Lock!TypeOK

LEMMA TypeInit == Init => TypeOK
<1> SUFFICES ASSUME Init
             PROVE  TypeOK
  OBVIOUS
<1>1. Lock!TypeOK
  BY CallsAssumption DEF Init, Lock!Init, Lock!TypeOK, Lock!Files, Lock!Open, Lock!Ended
<1>2. /\ task \in [Tasks -> Alive \cup {"exited", "reaping", "reaped"}]
      /\ hook \in ExitHook \cup {"idle"}
  BY DEF Init, Alive, InitHook
<1>3. faults \in 0..MaxFaults /\ requeues \in 0..MaxRequeues /\ job \in JobShapes
  BY HooksAssumption DEF Init
<1>4. /\ mount \in Tasks \cup {NoFile, OldFile}
      /\ mountFd \in [Tasks -> Tasks \cup {NoFile, OldFile}]
  BY DEF Init
<1>5. mountFull \in BOOLEAN /\ dumpDir \in BOOLEAN /\ cleanupError \in BOOLEAN
  BY DEF Init
<1>6. /\ locks \subseteq Ops /\ wide \subseteq Ops \cup {MountFile}
      /\ won \subseteq Tasks /\ swept \subseteq Tasks
  BY DEF Init
<1> QED
  BY <1>1, <1>2, <1>3, <1>4, <1>5, <1>6 DEF TypeOK

LEMMA InitHookTypes ==
  ASSUME TypeOK, NEW t \in Tasks, InitStep(t) \/ InitFault(t)
  PROVE  TypeOK'
<1> USE HooksAssumption DEF TypeOK, Go, Fault, NoFault, fileVars, mountVars, history
<1> USE DEF Alive, InitHook, Mounting, Creating, ExitHook, Removing, Ops
<1>1. CASE InitBegin(t)
  BY <1>1, LockTypesSame DEF InitBegin
<1>2. CASE InitBeginFails(t)
  BY <1>2, LockTypesSame DEF InitBeginFails, InitFails
<1>3. CASE InitLock(t)
  BY <1>3, LockTypesSame DEF InitLock, TaskInitOp
<1>4. CASE InitLockMode(t)
  BY <1>4, LockTypesSame DEF InitLockMode, AfterStat
<1>5. CASE InitLockChmod(t)
  BY <1>5, LockTypesSame DEF InitLockChmod, InitFails, MakeWide, TaskInitOp
<1>6. CASE InitLockFails(t)
  BY <1>6, LockTypesSame DEF InitLockFails, InitFails
<1>7. CASE InitDumpDir(t)
  BY <1>7, LockTypesSame DEF InitDumpDir
<1>8. CASE InitDumpDirFails(t)
  BY <1>8, LockTypesSame DEF InitDumpDirFails, InitFails
<1>9. CASE MountEnter(t)
  <2>1. Lock!TypeOK'
    BY <1>9, LockTypes, CallTypes DEF MountEnter, LockStep
  <2> QED
    BY <1>9, <2>1 DEF MountEnter
<1>10. CASE MountEnterLost(t)
  <2>1. Lock!TypeOK'
    BY <1>10, LockTypes, CallTypes DEF MountEnterLost, LockStep
  <2> QED
    BY <1>10, <2>1 DEF MountEnterLost, InitFails
<1>11. CASE MountEnterFails(t)
  <2>1. Lock!TypeOK'
    BY <1>11, LockTypes, CallTypes DEF MountEnterFails, LockStep
  <2> QED
    BY <1>11, <2>1 DEF MountEnterFails, InitFails
<1>12. CASE MountHold(t)
  <2>1. Lock!TypeOK'
    BY <1>12, LockTypes, CallTypes DEF MountHold, LockStep
  <2> QED
    BY <1>12, <2>1 DEF MountHold
<1>13. CASE MountStat(t)
  BY <1>13, LockTypesSame DEF MountStat
<1>14. CASE MountOpen(t)
  BY <1>14, LockTypesSame DEF MountOpen, MountFile
<1>15. CASE MountWrite(t)
  BY <1>15, LockTypesSame DEF MountWrite
<1>16. CASE MountMode(t)
  BY <1>16, LockTypesSame DEF MountMode, AfterStat
<1>17. CASE MountChmod(t)
  BY <1>17, LockTypesSame DEF MountChmod, MakeWide, MountFile
<1>18. CASE MountFails(t)
  BY <1>18, LockTypesSame DEF MountFails
<1>19. CASE MountUnlock(t)
  <2>1. Lock!TypeOK'
    BY <1>19, LockTypes, CallTypes DEF MountUnlock, LockStep
  <2> QED
    BY <1>19, <2>1 DEF MountUnlock
<1>20. CASE MountReturn(t)
  <2>1. Lock!TypeOK'
    BY <1>20, LockTypes, CallTypes DEF MountReturn, LockStep
  <2> QED
    BY <1>20, <2>1 DEF MountReturn
<1>21. CASE InitKilled(t)
  <2>1. Lock!TypeOK'
    BY <1>21, LockTypes, LockTypesSame, CallTypes DEF InitKilled, LockStep
  <2> QED
    BY <1>21, <2>1 DEF InitKilled
<1>22. CASE MountUnlink(t)
  <2>1. Lock!TypeOK'
    BY <1>22, LockTypes, CallTypes DEF MountUnlink, LockStep
  <2> QED
    BY <1>22, <2>1 DEF MountUnlink
<1>23. CASE MountUnlinkFails(t)
  <2>1. Lock!TypeOK'
    BY <1>23, LockTypes, CallTypes DEF MountUnlinkFails, LockStep
  <2> QED
    BY <1>23, <2>1 DEF MountUnlinkFails
<1> QED
  BY <1>1, <1>2, <1>3, <1>4, <1>5, <1>6, <1>7, <1>8, <1>9, <1>10, <1>11,
     <1>12, <1>13, <1>14, <1>15, <1>16, <1>17, <1>18, <1>19, <1>20, <1>21, <1>22, <1>23
     DEF InitStep, InitFault

LEMMA ExitHookTypes ==
  ASSUME TypeOK, NEW t \in Tasks, ExitStep(t) \/ ExitFault(t)
  PROVE  TypeOK'
<1> USE HooksAssumption DEF TypeOK, Go, Fault, NoFault, fileVars, mountVars, history
<1> USE DEF Alive, InitHook, Mounting, Creating, ExitHook, Removing, Ops
<1>1. CASE ExitBegin(t)
  BY <1>1, LockTypesSame DEF ExitBegin, ExitReturns
<1>2. CASE ExitLock(t)
  BY <1>2, LockTypesSame DEF ExitLock, ExitReturns, TaskExitOp
<1>3. CASE ExitLockFails(t)
  BY <1>3, LockTypesSame DEF ExitLockFails, ExitReturns
<1>4. CASE ExitLockMode(t)
  BY <1>4, LockTypesSame DEF ExitLockMode, AfterStat, AfterExitLock, UserInitOp
<1>5. CASE ExitLockChmod(t)
  BY <1>5, LockTypesSame DEF ExitLockChmod, MakeWide, AfterExitLock, TaskExitOp, UserInitOp
<1>6. CASE ExitLockChmodFails(t)
  BY <1>6, LockTypesSame DEF ExitLockChmodFails, ExitReturns
<1>7. CASE UnmountEnter(t)
  <2>1. Lock!TypeOK'
    BY <1>7, LockTypes, CallTypes DEF UnmountEnter, LockStep
  <2> QED
    BY <1>7, <2>1 DEF UnmountEnter
<1>8. CASE UnmountEnterLost(t)
  <2>1. Lock!TypeOK'
    BY <1>8, LockTypes, CallTypes DEF UnmountEnterLost, LockStep
  <2> QED
    BY <1>8, <2>1 DEF UnmountEnterLost, ExitReturns
<1>9. CASE UnmountEnterFails(t)
  <2>1. Lock!TypeOK'
    BY <1>9, LockTypes, CallTypes DEF UnmountEnterFails, LockStep
  <2> QED
    BY <1>9, <2>1 DEF UnmountEnterFails, ExitReturns
<1>10. CASE Unmount(t)
  <2>1. mount' \in Tasks \cup {NoFile, OldFile} /\ mountFull' \in BOOLEAN
    BY <1>10 DEF Unmount
  <2>2. hook' \in ExitHook \cup {"idle"} /\ faults' \in 0..MaxFaults
    BY <1>10 DEF Unmount
  <2> QED
    BY <1>10, <2>1, <2>2, LockTypesSame DEF Unmount
<1>11. CASE UnmountUnlock(t)
  <2>1. Lock!TypeOK'
    BY <1>11, LockTypes, CallTypes DEF UnmountUnlock, LockStep
  <2> QED
    BY <1>11, <2>1 DEF UnmountUnlock
<1>12. CASE UnmountReturn(t)
  <2>1. Lock!TypeOK'
    BY <1>12, LockTypes, CallTypes DEF UnmountReturn, LockStep
  <2> QED
    BY <1>12, <2>1 DEF UnmountReturn, ExitReturns, UserInitOp
<1>13. CASE RemoveLock(t)
  BY <1>13, LockTypesSame DEF RemoveLock, AfterRemoval, ExitReturns
<1>14. CASE RemoveLockFails(t)
  BY <1>14, LockTypesSame DEF RemoveLockFails, AfterRemoval, ExitReturns
<1>15. CASE UnmountUnlink(t)
  <2>1. Lock!TypeOK'
    BY <1>15, LockTypes, CallTypes DEF UnmountUnlink, LockStep
  <2> QED
    BY <1>15, <2>1 DEF UnmountUnlink
<1>16. CASE UnmountUnlinkFails(t)
  <2>1. Lock!TypeOK'
    BY <1>16, LockTypes, CallTypes DEF UnmountUnlinkFails, LockStep
  <2> QED
    BY <1>16, <2>1 DEF UnmountUnlinkFails
<1> QED
  BY <1>1, <1>2, <1>3, <1>4, <1>5, <1>6, <1>7, <1>8, <1>9, <1>10, <1>11,
     <1>12, <1>13, <1>14, <1>15, <1>16
     DEF ExitStep, ExitFault

LEMMA OtherTypes ==
  ASSUME TypeOK, Requeue \/ (\E t \in Tasks : TaskExits(t)) \/ UNCHANGED vars
  PROVE  TypeOK'
<1> USE HooksAssumption DEF TypeOK, fileVars, mountVars, history
<1>1. CASE Requeue
  <2>1. Lock!TypeOK'
    BY <1>1 DEF Requeue, Lock!Restart, Lock!TypeOK, Lock!Files, Lock!Open, Lock!Ended
  <2>2. /\ task' \in [Tasks -> Alive \cup {"exited", "reaping", "reaped"}]
        /\ hook' \in ExitHook \cup {"idle"}
    BY <1>1 DEF Requeue, Alive, InitHook
  <2>3. requeues' \in 0..MaxRequeues
    BY <1>1 DEF Requeue
  <2>4. /\ mount' \in Tasks \cup {NoFile, OldFile}
        /\ mountFd' \in [Tasks -> Tasks \cup {NoFile, OldFile}]
    BY <1>1 DEF Requeue
  <2>5. won' \subseteq Tasks /\ swept' \subseteq Tasks /\ cleanupError' \in BOOLEAN
    BY <1>1 DEF Requeue
  <2> QED
    BY <1>1, <2>1, <2>2, <2>3, <2>4, <2>5 DEF Requeue
<1>2. CASE \E t \in Tasks : TaskExits(t)
  BY <1>2, LockTypesSame DEF TaskExits, Go
<1>3. CASE UNCHANGED vars
  BY <1>3, LockTypesSame DEF vars
<1> QED
  BY <1>1, <1>2, <1>3

LEMMA TypeNext == TypeOK /\ [Next]_vars => TypeOK'
  BY InitHookTypes, ExitHookTypes, OtherTypes DEF Next

(***************************************************************************)
(* The files, the tasks and the exit hook have the types WorkerHooks       *)
(* declares, for every number of tasks, failures and requeues.             *)
(***************************************************************************)
THEOREM TypeCorrect == Spec => []TypeOK
<1>1. Init => TypeOK
  BY TypeInit
<1>2. TypeOK /\ [Next]_vars => TypeOK'
  BY TypeNext
<1> QED
  BY <1>1, <1>2, PTL DEF Spec
-----------------------------------------------------------------------------
(* What a step of an init hook, or a task's end, can do to the files and   *)
(* tasks: its own task is not in an exit hook, and the only lock file it   *)
(* makes is the task-init lock.                                            *)

TakesLock(t) ==
  /\ TaskInitOp \notin locks
  /\ locks' = locks \cup {TaskInitOp}
  /\ won' = won \cup {t}

InitEffect(t) ==
  /\ UNCHANGED <<job, hook, swept, cleanupError>>
  /\ task' = [task EXCEPT ![t] = task'[t]]
  /\ task[t] \notin {"reaping", "reaped"} /\ task'[t] \notin {"reaping", "reaped"}
  /\ task'[t] \in Mounting => task[t] \in Mounting \/ job.enroot
  /\ mount' # mount => task[t] \in Mounting
  /\ TakesLock(t) \/ UNCHANGED <<locks, won>>

LEMMA InitStepEffect ==
  ASSUME TypeOK, NEW t \in Tasks, InitStep(t) \/ InitFault(t) \/ TaskExits(t)
  PROVE  InitEffect(t)
<1>0. task \in [Tasks -> Alive \cup {"exited", "reaping", "reaped"}]
  BY DEF TypeOK
<1> USE <1>0 DEF InitEffect, Go, fileVars, mountVars, history, Mounting, Creating
<1>1. CASE InitBegin(t) \/ InitBeginFails(t) \/ TaskExits(t)
  BY <1>1 DEF InitBegin, InitBeginFails, InitFails, TaskExits
<1>2. CASE InitLock(t)
  BY <1>2 DEF InitLock, TakesLock
<1>3. CASE InitLockMode(t) \/ InitLockChmod(t) \/ InitLockFails(t)
  BY <1>3 DEF InitLockMode, AfterStat, InitLockChmod, InitLockFails, InitFails
<1>4. CASE InitDumpDir(t) \/ InitDumpDirFails(t)
  BY <1>4 DEF InitDumpDir, InitDumpDirFails, InitFails
<1>5. CASE MountEnter(t) \/ MountEnterLost(t) \/ MountEnterFails(t) \/ MountHold(t)
  BY <1>5 DEF MountEnter, MountEnterLost, MountEnterFails, MountHold, InitFails
<1>6. CASE MountStat(t) \/ MountOpen(t) \/ MountWrite(t)
  BY <1>6 DEF MountStat, MountOpen, MountWrite
<1>7. CASE MountMode(t) \/ MountChmod(t) \/ MountFails(t)
  BY <1>7 DEF MountMode, AfterStat, MountChmod, MountFails
<1>8. CASE MountUnlock(t) \/ MountUnlink(t) \/ MountUnlinkFails(t) \/ MountReturn(t)
  BY <1>8 DEF MountUnlock, MountUnlink, MountUnlinkFails, MountReturn
<1>9. CASE InitKilled(t)
  BY <1>9 DEF InitKilled, InitHook
<1> QED
  BY <1>1, <1>2, <1>3, <1>4, <1>5, <1>6, <1>7, <1>8, <1>9 DEF InitStep, InitFault
-----------------------------------------------------------------------------
(* What a step of an exit hook does to the tasks.                         *)

\* The exit hook of t begins, or returns at once.
HookBegins(t) ==
  /\ task[t] = "exited" /\ hook = "idle"
  /\ \/ Active /\ hook' = "locking" /\ Go(t, "reaping")
     \/ ~Active /\ hook' = "idle" /\ Go(t, "reaped")

\* The exit hook of t goes on or returns.
HookMoves(t) ==
  /\ task[t] = "reaping" /\ hook # "idle"
  /\ \/ hook' # "idle" /\ UNCHANGED task
     \/ ExitReturns(t)

HookSteps(t) ==
  ExitLock(t) \/ ExitLockFails(t) \/ ExitLockMode(t) \/ ExitLockChmod(t)
  \/ ExitLockChmodFails(t) \/ UnmountEnter(t) \/ UnmountEnterLost(t)
  \/ UnmountEnterFails(t) \/ Unmount(t) \/ UnmountUnlock(t) \/ UnmountUnlink(t)
  \/ UnmountUnlinkFails(t) \/ UnmountReturn(t) \/ RemoveLock(t) \/ RemoveLockFails(t)

LEMMA HookStepMoves ==
  ASSUME NEW t \in Tasks, HookSteps(t)
  PROVE  HookMoves(t)
<1> USE DEF HookMoves, ExitReturns, Ops, UserInitOp, TaskInitOp, TaskExitOp
<1>1. CASE ExitLock(t) \/ ExitLockFails(t)
  BY <1>1 DEF ExitLock, ExitLockFails
<1>2. CASE ExitLockMode(t) \/ ExitLockChmod(t) \/ ExitLockChmodFails(t)
  BY <1>2 DEF ExitLockMode, AfterStat, AfterExitLock, ExitLockChmod, ExitLockChmodFails
<1>3. CASE UnmountEnter(t) \/ UnmountEnterLost(t) \/ UnmountEnterFails(t)
  BY <1>3 DEF UnmountEnter, UnmountEnterLost, UnmountEnterFails
<1>4. CASE Unmount(t)
  BY <1>4 DEF Unmount
<1>5. CASE UnmountUnlock(t) \/ UnmountUnlink(t) \/ UnmountUnlinkFails(t) \/ UnmountReturn(t)
  BY <1>5 DEF UnmountUnlock, UnmountUnlink, UnmountUnlinkFails, UnmountReturn
<1>6. CASE RemoveLock(t) \/ RemoveLockFails(t)
  BY <1>6 DEF RemoveLock, RemoveLockFails, AfterRemoval
<1> QED
  BY <1>1, <1>2, <1>3, <1>4, <1>5, <1>6 DEF HookSteps

LEMMA ExitStepCases ==
  ASSUME NEW t \in Tasks, ExitStep(t) \/ ExitFault(t)
  PROVE  ExitBegin(t) \/ HookSteps(t)
  BY DEF ExitStep, ExitFault, HookSteps

\* An exit hook on its way neither adds nor removes tasks that are pending or
\* in the mount file's part of their init hook.
LEMMA HookMovesTasks ==
  ASSUME TypeOK, ReapingInv, NEW t \in Tasks, HookMoves(t)
  PROVE  ReapingInv' /\ (Pending' <=> Pending) /\ (Mounts' <=> Mounts)
<1>1. task \in [Tasks -> Alive \cup {"exited", "reaping", "reaped"}]
  BY DEF TypeOK
<1>2. CASE UNCHANGED task /\ hook' # "idle"
  BY <1>2 DEF HookMoves, ReapingInv, Pending, Mounts
<1>3. CASE ExitReturns(t)
  <2>1. /\ task[t] = "reaping" /\ task'[t] = "reaped"
        /\ \A s \in Tasks \ {t} : task'[s] = task[s]
    BY <1>1, <1>3 DEF HookMoves, ExitReturns, Go
  <2>2. ReapingInv'
    BY <1>3, <2>1 DEF ReapingInv, ExitReturns
  <2>3. Pending' <=> Pending
    BY <2>1 DEF Pending
  <2>4. Mounts' <=> Mounts
    BY <2>1 DEF Mounts, Mounting, Creating
  <2> QED
    BY <2>2, <2>3, <2>4
<1> QED
  BY <1>2, <1>3 DEF HookMoves
-----------------------------------------------------------------------------
(* Who is being reaped.                                                   *)

LEMMA ReapingNext == TypeOK /\ ReapingInv /\ [Next]_vars => ReapingInv'
<1> SUFFICES ASSUME TypeOK, ReapingInv, [Next]_vars
             PROVE  ReapingInv'
  OBVIOUS
<1>0. task \in [Tasks -> Alive \cup {"exited", "reaping", "reaped"}]
  BY DEF TypeOK
<1>1. ASSUME NEW t \in Tasks, InitStep(t) \/ InitFault(t) \/ TaskExits(t)
      PROVE  ReapingInv'
  <2>1. InitEffect(t)
    BY <1>1, InitStepEffect
  <2>2. /\ task[t] # "reaping" /\ task'[t] # "reaping"
        /\ \A s \in Tasks \ {t} : task'[s] = task[s]
    BY <1>0, <2>1 DEF InitEffect
  <2> QED
    BY <2>1, <2>2 DEF InitEffect, ReapingInv
<1>2. ASSUME NEW t \in Tasks, ExitBegin(t)
      PROVE  ReapingInv'
  BY <1>0, <1>2 DEF ExitBegin, ExitReturns, Go, ReapingInv
<1>3. ASSUME NEW t \in Tasks, HookSteps(t)
      PROVE  ReapingInv'
  BY <1>3, HookStepMoves, HookMovesTasks
<1>4. CASE Requeue
  BY <1>4 DEF Requeue, ReapingInv
<1>5. CASE UNCHANGED vars
  BY <1>5 DEF vars, ReapingInv
<1> QED
  BY <1>1, <1>2, <1>3, <1>4, <1>5, ExitStepCases DEF Next
-----------------------------------------------------------------------------
(* What is cleaned up.                                                    *)

LEMMA OpsDiffer ==
  /\ UserInitOp # TaskInitOp /\ UserInitOp # TaskExitOp /\ TaskInitOp # TaskExitOp
  /\ Ops \cap (Removing \cup {"idle", "locking", "lockMode", "lockChmod"}) = {}
  BY DEF Ops, UserInitOp, TaskInitOp, TaskExitOp, Removing

\* Init hooks and ending tasks: the step's own task is pending afterwards.
LEMMA CleanInitStep ==
  ASSUME TypeOK, CleanInv, NEW t \in Tasks, InitStep(t) \/ InitFault(t) \/ TaskExits(t)
  PROVE  CleanInv'
<1>1. InitEffect(t)
  BY InitStepEffect
<1>2. /\ task \in [Tasks -> Alive \cup {"exited", "reaping", "reaped"}]
      /\ \A s \in Tasks \ {t} : task'[s] = task[s]
  BY <1>1 DEF TypeOK, InitEffect
<1>3. Pending'
  BY <1>1 DEF InitEffect, Pending
<1>4. Mounts' => Mounts \/ job.enroot
  BY <1>1, <1>2 DEF InitEffect, Mounts
<1>5. mount' # mount => Mounts
  BY <1>1 DEF InitEffect, Mounts
<1>6. TaskExitOp \in locks => TaskExitOp \in locks'
  BY <1>1 DEF InitEffect, TakesLock
<1>7. UserInitOp \notin locks'
  BY <1>1, OpsDiffer DEF InitEffect, TakesLock, CleanInv
<1> QED
  BY <1>1, <1>3, <1>4, <1>5, <1>6, <1>7 DEF CleanInv, InitEffect, PastUnmount, PastRemoval

LEMMA CleanExitBegin ==
  ASSUME TypeOK, CleanInv, NEW t \in Tasks, ExitBegin(t)
  PROVE  CleanInv'
<1>1. /\ UNCHANGED <<job, mount, locks, cleanupError>>
      /\ hook' \in {"idle", "locking"} /\ (hook' = "idle" => ~Active)
      /\ task' \in {[task EXCEPT ![t] = "reaping"], [task EXCEPT ![t] = "reaped"]}
  BY DEF ExitBegin, ExitReturns, Go, fileVars, mountVars, history
<1>2. Mounts' => Mounts
  BY <1>1 DEF TypeOK, Mounts, Mounting, Creating
<1>3. Active' = Active
  BY <1>1 DEF Active
<1> QED
  BY <1>1, <1>2, <1>3, OpsDiffer DEF CleanInv, PastUnmount, PastRemoval, Removing, Ops

LEMMA CleanHookStep ==
  ASSUME TypeOK, ReapingInv, CleanInv, NEW t \in Tasks, HookSteps(t)
  PROVE  CleanInv'
<1>1. HookMoves(t) /\ (Pending' <=> Pending) /\ (Mounts' <=> Mounts)
  BY HookStepMoves, HookMovesTasks
<1>2. UNCHANGED job
  BY DEF HookSteps, ExitLock, ExitLockFails, ExitLockMode, ExitLockChmod,
         ExitLockChmodFails, UnmountEnter, UnmountEnterLost, UnmountEnterFails,
         Unmount, UnmountUnlock, UnmountUnlink, UnmountUnlinkFails, UnmountReturn,
         RemoveLock, RemoveLockFails
<1>3. Active' = Active
  BY <1>2 DEF Active
<1> USE OpsDiffer DEF CleanInv, PastUnmount, PastRemoval, Removing, Ops, ExitReturns,
                      fileVars, mountVars, history
<1>4. CASE ExitLock(t) \/ ExitLockFails(t)
  BY <1>1, <1>2, <1>3, <1>4 DEF ExitLock, ExitLockFails
<1>5. CASE ExitLockMode(t) \/ ExitLockChmod(t) \/ ExitLockChmodFails(t)
  BY <1>1, <1>2, <1>3, <1>5
     DEF ExitLockMode, AfterStat, AfterExitLock, ExitLockChmod, ExitLockChmodFails
<1>6. CASE UnmountEnter(t) \/ UnmountEnterLost(t) \/ UnmountEnterFails(t)
  BY <1>1, <1>2, <1>3, <1>6 DEF UnmountEnter, UnmountEnterLost, UnmountEnterFails
<1>7. CASE Unmount(t)
  BY <1>1, <1>2, <1>3, <1>7 DEF Unmount
<1>8. CASE UnmountUnlock(t) \/ UnmountUnlink(t) \/ UnmountUnlinkFails(t) \/ UnmountReturn(t)
  BY <1>1, <1>2, <1>3, <1>8
     DEF UnmountUnlock, UnmountUnlink, UnmountUnlinkFails, UnmountReturn
<1>9. CASE RemoveLock(t) \/ RemoveLockFails(t)
  BY <1>1, <1>2, <1>3, <1>9 DEF RemoveLock, RemoveLockFails, AfterRemoval
<1> QED
  BY <1>4, <1>5, <1>6, <1>7, <1>8, <1>9 DEF HookSteps

LEMMA CleanOther ==
  ASSUME CleanInv, Requeue \/ UNCHANGED vars
  PROVE  CleanInv'
<1>1. CASE Requeue
  <2>1. /\ UNCHANGED <<job, locks>> /\ hook' = "idle"
        /\ mount' = NoFile \/ mount # NoFile
        /\ task' = [t \in Tasks |-> "forked"]
    BY <1>1 DEF Requeue
  <2>2. Tasks # {} => Pending'
    BY <2>1 DEF Pending
  <2>3. ~Mounts'
    BY <2>1 DEF Mounts, Mounting, Creating
  <2> QED
    BY <2>1, <2>2, <2>3, OpsDiffer DEF CleanInv, PastUnmount, PastRemoval, Removing, Ops
<1>2. CASE UNCHANGED vars
  <2>1. /\ UNCHANGED <<job, hook, locks, mount, cleanupError>>
        /\ Pending' = Pending /\ Mounts' = Mounts /\ Active' = Active
    BY <1>2 DEF vars, fileVars, mountVars, history, Pending, Mounts, Active
  <2> QED
    BY <2>1 DEF CleanInv, PastUnmount, PastRemoval
<1> QED
  BY <1>1, <1>2

LEMMA CleanNext == TypeOK /\ ReapingInv /\ CleanInv /\ [Next]_vars => CleanInv'
  BY CleanInitStep, CleanExitBegin, CleanHookStep, CleanOther, ExitStepCases DEF Next

LEMMA CleanFromInv == TypeOK /\ ReapingInv /\ CleanInv => CleanOrMarked
<1> SUFFICES ASSUME TypeOK, ReapingInv, CleanInv, AllReaped, Tasks # {}, Active,
                    ~cleanupError, TaskExitOp \notin locks
             PROVE  locks = {} /\ mount = NoFile
  BY DEF CleanOrMarked
<1>1. hook = "idle"
  BY DEF AllReaped, ReapingInv
<1>2. ~Pending
  BY DEF AllReaped, Pending
<1>3. mount = NoFile /\ TaskInitOp \notin locks /\ UserInitOp \notin locks
  BY <1>1, <1>2 DEF CleanInv
<1> QED
  BY <1>3 DEF TypeOK, Ops
-----------------------------------------------------------------------------
(* How often the step is prepared.                                        *)

LEMMA FiniteHistory == TypeOK => IsFiniteSet(won) /\ IsFiniteSet(swept)
  BY HooksAssumption, FS_Subset DEF TypeOK

LEMMA RoundsInitStep ==
  ASSUME TypeOK, RoundsInv, NEW t \in Tasks, InitStep(t) \/ InitFault(t) \/ TaskExits(t)
  PROVE  RoundsInv'
<1>1. InitEffect(t)
  BY InitStepEffect
<1>2. \A s \in Tasks \ {t} : task'[s] = task[s]
  BY <1>1 DEF TypeOK, InitEffect
<1>3. t \notin swept
  BY <1>1 DEF InitEffect, RoundsInv
<1>4. \A s \in swept' : task'[s] = "reaped" \/ (task'[s] = "reaping" /\ hook' = TaskExitOp)
  BY <1>1, <1>2, <1>3 DEF RoundsInv, InitEffect, TypeOK
<1>5. Cardinality(won') <= Cardinality(swept') + Room'
  <2>1. CASE TakesLock(t)
    <3>1. Cardinality(won) \in Nat /\ Cardinality(swept) \in Nat
      BY FiniteHistory, FS_CardinalityType
    <3>2. Cardinality(won') \in {Cardinality(won), Cardinality(won) + 1}
      BY <2>1, FiniteHistory, FS_AddElement DEF TakesLock
    <3> QED
      BY <1>1, <2>1, <3>1, <3>2 DEF RoundsInv, Room, TakesLock, InitEffect
  <2>2. CASE UNCHANGED <<locks, won>>
    BY <1>1, <2>2 DEF RoundsInv, Room, InitEffect
  <2> QED
    BY <1>1, <2>1, <2>2 DEF InitEffect
<1> QED
  BY <1>4, <1>5 DEF RoundsInv, Room

\* What a step of an exit hook does to the task-init lock.
SweepEffect(t) ==
  /\ UNCHANGED won
  /\ \/ UNCHANGED <<swept, Room>>
     \/ /\ hook = TaskInitOp /\ hook' = TaskExitOp
        /\ UNCHANGED task /\ swept' = swept \cup {t}
  /\ hook = TaskExitOp => ExitReturns(t)

LEMMA HookStepSweeps ==
  ASSUME NEW t \in Tasks, HookSteps(t)
  PROVE  SweepEffect(t)
<1> USE OpsDiffer DEF SweepEffect, Room, Removing, Ops, fileVars, history
<1>1. CASE ExitLock(t) \/ ExitLockFails(t)
  BY <1>1 DEF ExitLock, ExitLockFails
<1>2. CASE ExitLockMode(t) \/ ExitLockChmod(t) \/ ExitLockChmodFails(t)
  BY <1>2 DEF ExitLockMode, ExitLockChmod, ExitLockChmodFails
<1>3. CASE UnmountEnter(t) \/ UnmountEnterLost(t) \/ UnmountEnterFails(t)
  BY <1>3 DEF UnmountEnter, UnmountEnterLost, UnmountEnterFails
<1>4. CASE Unmount(t) \/ UnmountUnlock(t) \/ UnmountUnlink(t) \/ UnmountUnlinkFails(t)
           \/ UnmountReturn(t)
  BY <1>4 DEF Unmount, UnmountUnlock, UnmountUnlink, UnmountUnlinkFails, UnmountReturn
<1>5. CASE RemoveLock(t) \/ RemoveLockFails(t)
  BY <1>5 DEF RemoveLock, RemoveLockFails, AfterRemoval
<1> QED
  BY <1>1, <1>2, <1>3, <1>4, <1>5 DEF HookSteps

LEMMA RoundsHookStep ==
  ASSUME TypeOK, ReapingInv, RoundsInv, NEW t \in Tasks, HookSteps(t)
  PROVE  RoundsInv'
<1>1. HookMoves(t) /\ SweepEffect(t)
  BY HookStepMoves, HookStepSweeps
<1>2. \A s \in swept \ {t} : task[s] = "reaped" /\ task'[s] = "reaped"
  BY <1>1 DEF TypeOK, ReapingInv, RoundsInv, HookMoves, ExitReturns, Go
<1>3. t \in swept => hook = TaskExitOp /\ task'[t] = "reaped"
  BY <1>1 DEF TypeOK, RoundsInv, HookMoves, SweepEffect, ExitReturns, Go
<1>4. \A s \in swept' : task'[s] = "reaped" \/ (task'[s] = "reaping" /\ hook' = TaskExitOp)
  BY <1>1, <1>2, <1>3 DEF SweepEffect, HookMoves
<1>5. Cardinality(won') <= Cardinality(swept') + Room'
  <2>1. CASE UNCHANGED <<swept, Room>>
    BY <1>1, <2>1 DEF RoundsInv, Room, SweepEffect
  <2>2. CASE hook = TaskInitOp /\ swept' = swept \cup {t}
    <3>1. t \notin swept
      BY <1>3, <2>2, OpsDiffer
    <3>2. Cardinality(swept') = Cardinality(swept) + 1
      BY <2>2, <3>1, FiniteHistory, FS_AddElement
    <3>3. Cardinality(won) \in Nat /\ Cardinality(swept) \in Nat
      BY FiniteHistory, FS_CardinalityType
    <3> QED
      BY <1>1, <3>2, <3>3 DEF RoundsInv, Room, SweepEffect
  <2> QED
    BY <1>1, <2>1, <2>2 DEF SweepEffect
<1> QED
  BY <1>4, <1>5 DEF RoundsInv, Room

LEMMA RoundsExitBegin ==
  ASSUME TypeOK, ReapingInv, RoundsInv, NEW t \in Tasks, ExitBegin(t)
  PROVE  RoundsInv'
<1>1. /\ task[t] = "exited" /\ hook = "idle"
      /\ UNCHANGED <<locks, won, swept>>
      /\ \A s \in Tasks \ {t} : task'[s] = task[s]
  BY DEF ExitBegin, ExitReturns, Go, fileVars, history, TypeOK
<1> QED
  BY <1>1 DEF RoundsInv, Room, TypeOK, TaskExitOp

LEMMA RoundsOther ==
  ASSUME RoundsInv, Requeue \/ UNCHANGED vars
  PROVE  RoundsInv'
<1>1. CASE Requeue
  <2>1. won' = {} /\ swept' = {}
    BY <1>1 DEF Requeue
  <2>2. Cardinality({}) = 0
    BY FS_EmptySet
  <2> QED
    BY <2>1, <2>2 DEF RoundsInv, Room
<1>2. CASE UNCHANGED vars
  BY <1>2 DEF vars, fileVars, history, RoundsInv, Room
<1> QED
  BY <1>1, <1>2

LEMMA RoundsNext == TypeOK /\ ReapingInv /\ RoundsInv /\ [Next]_vars => RoundsInv'
  BY RoundsInitStep, RoundsExitBegin, RoundsHookStep, RoundsOther, ExitStepCases DEF Next

LEMMA RoundsFromInv == TypeOK /\ RoundsInv => SetupRounds
  BY FiniteHistory, FS_CardinalityType DEF RoundsInv, Room, SetupRounds
-----------------------------------------------------------------------------
(* The invariant.                                                         *)

LEMMA HooksInit == Init => HooksInv
<1> SUFFICES ASSUME Init
             PROVE  HooksInv
  OBVIOUS
<1>1. TypeOK
  BY TypeInit
<1>2. ReapingInv
  BY DEF Init, ReapingInv
<1>3. ~Mounts
  BY DEF Init, Mounts, Mounting, Creating
<1>4. CleanInv
  BY <1>3, OpsDiffer DEF Init, CleanInv, PastUnmount, PastRemoval, Removing, Ops
<1>5. RoundsInv
  BY FS_EmptySet DEF Init, RoundsInv, Room
<1> QED
  BY <1>1, <1>2, <1>4, <1>5 DEF HooksInv

LEMMA HooksNext == HooksInv /\ [Next]_vars => HooksInv'
  BY TypeNext, ReapingNext, CleanNext, RoundsNext DEF HooksInv

(***************************************************************************)
(* The inductive invariant: whatever slipped past an exit hook belongs to  *)
(* a task whose exit hook is still to come.                                *)
(***************************************************************************)
THEOREM HooksInvariant == Spec => []HooksInv
  BY HooksInit, HooksNext, PTL DEF Spec

(***************************************************************************)
(* The last exit hook leaves no lock file and no mount file, or the        *)
(* task-exit lock file that tells of a cleanup cut short, for any number   *)
(* of tasks, failures, kills and requeues.                                 *)
(***************************************************************************)
THEOREM CleanedOrMarked == Spec => []CleanOrMarked
<1>1. HooksInv => CleanOrMarked
  BY CleanFromInv DEF HooksInv
<1> QED
  BY <1>1, HooksInvariant, PTL

(***************************************************************************)
(* The step is prepared at most once more than exit hooks got to removing  *)
(* the task-init lock.                                                     *)
(***************************************************************************)
THEOREM RoundsBounded == Spec => []SetupRounds
<1>1. HooksInv => SetupRounds
  BY RoundsFromInv DEF HooksInv
<1> QED
  BY <1>1, HooksInvariant, PTL
-----------------------------------------------------------------------------
(* What the winner of the task-init lock has prepared, while no exit hook  *)
(* has begun.                                                              *)

\* The winner is past the lock and not done.
Working == {"lockMode", "lockChmod", "dumping"} \cup Mounting

PreparedSoFar(t) ==
  /\ task[t] \notin {"forked", "locking"}
  /\ task[t] \in {"lockMode", "lockChmod", "dumping", "mounting", "mountStat"} =>
       mount \in {NoFile, OldFile}
  /\ task[t] = "mountOpen" => mount = NoFile
  /\ task[t] \in Mounting => DirReady
  /\ task[t] = "mountWrite" => mount # NoFile /\ mountFd[t] = mount
  /\ task[t] \in {"mountMode", "mountChmod", "mounted"} =>
       mount # NoFile /\ (mountFull \/ mount = OldFile)
  /\ task[t] = "running" => DirReady /\ (mount # OldFile => MountReady)

\* There is one winner, and only the winner touches the mount file; another one
\* can only be from an earlier run.
WinnerInv ==
  ~ExitHookSeen =>
    /\ won # {} => TaskInitOp \in locks
    /\ won = {} => mount \in {NoFile, OldFile}
    /\ \A t, u \in won : t = u
    /\ \A t \in Tasks : task[t] \in Working => t \in won
    /\ \A t \in won : PreparedSoFar(t)

\* A step of a task that is not the winner, and does not become it.
LEMMA WinnerOtherStep ==
  ASSUME TypeOK, WinnerInv, ~ExitHookSeen, NEW t \in Tasks,
         task' = [task EXCEPT ![t] = task'[t]],
         mountFd' = [mountFd EXCEPT ![t] = mountFd'[t]],
         UNCHANGED <<job, locks, dumpDir, mount, mountFull, won>>,
         task'[t] \notin Working,
         t \notin won \/ task'[t] = "exited"
  PROVE  WinnerInv'
<1>1. task \in [Tasks -> Alive \cup {"exited", "reaping", "reaped"}] /\ won \subseteq Tasks
  BY DEF TypeOK
<1>2. \A s \in Tasks \ {t} : task'[s] = task[s] /\ mountFd'[s] = mountFd[s]
  BY <1>1 DEF TypeOK
<1>3. DirReady' = DirReady /\ MountReady' = MountReady
  BY DEF DirReady, MountReady
<1>4. ASSUME NEW s \in won
      PROVE  PreparedSoFar(s)'
  <2>1. CASE s = t
    BY <2>1 DEF PreparedSoFar, Mounting, Creating
  <2>2. CASE s # t
    BY <1>1, <1>2, <1>3, <2>2 DEF PreparedSoFar, WinnerInv
  <2> QED
    BY <2>1, <2>2
<1>5. \A s \in Tasks : task'[s] \in Working => s \in won
  BY <1>2 DEF WinnerInv
<1> QED
  BY <1>4, <1>5 DEF WinnerInv

\* A step of the winner that keeps the lock file.
LEMMA WinnerOwnStep ==
  ASSUME TypeOK, WinnerInv, ~ExitHookSeen, NEW t \in Tasks, task[t] \in Working,
         task' = [task EXCEPT ![t] = task'[t]],
         UNCHANGED <<locks, won>>,
         PreparedSoFar(t)'
  PROVE  WinnerInv'
<1>1. t \in won /\ won = {t}
  BY DEF WinnerInv, TypeOK
<1>2. \A s \in Tasks \ {t} : task'[s] = task[s]
  BY DEF TypeOK
<1> QED
  BY <1>1, <1>2 DEF WinnerInv

LEMMA WinnerInitStep ==
  ASSUME TypeOK, WinnerInv, ~ExitHookSeen, NEW t \in Tasks,
         InitStep(t) \/ InitFault(t) \/ TaskExits(t)
  PROVE  WinnerInv'
<1>1. /\ task \in [Tasks -> Alive \cup {"exited", "reaping", "reaped"}]
      /\ mountFd \in [Tasks -> Tasks \cup {NoFile, OldFile}]
  BY DEF TypeOK
<1>2. task[t] \in Working => PreparedSoFar(t) /\ t \in won
  BY DEF WinnerInv
<1> USE <1>1 DEF Go, fileVars, mountVars, history, InitFails
<1>3. CASE InitBegin(t) \/ InitBeginFails(t)
  <2>1. t \notin won
    BY <1>3 DEF InitBegin, InitBeginFails, WinnerInv, PreparedSoFar
  <2> QED
    BY <1>3, <2>1, WinnerOtherStep DEF InitBegin, InitBeginFails, Working, Mounting, Creating
<1>4. CASE InitLock(t)
  <2>1. t \notin won
    BY <1>4 DEF InitLock, WinnerInv, PreparedSoFar
  <2>2. CASE TaskInitOp \in locks
    BY <1>4, <2>1, <2>2, WinnerOtherStep DEF InitLock, Working, Mounting, Creating
  <2>3. CASE TaskInitOp \notin locks
    <3>1. won = {} /\ mount \in {NoFile, OldFile}
      BY <2>3 DEF WinnerInv
    <3>2. /\ task' = [task EXCEPT ![t] = "lockMode"] /\ won' = {t}
          /\ locks' = locks \cup {TaskInitOp} /\ mount' \in {NoFile, OldFile}
      BY <1>4, <2>3, <3>1 DEF InitLock
    <3>3. task'[t] = "lockMode" /\ \A s \in Tasks \ {t} : task'[s] = task[s]
      BY <3>2
    <3>4. PreparedSoFar(t)'
      BY <3>2, <3>3 DEF PreparedSoFar, Mounting, Creating
    <3>5. \A s \in Tasks : task'[s] \in Working => s \in won'
      BY <3>1, <3>2, <3>3 DEF WinnerInv
    <3> QED
      BY <3>2, <3>4, <3>5 DEF WinnerInv
  <2> QED
    BY <2>2, <2>3
<1>5. CASE InitLockMode(t) \/ InitLockChmod(t)
  <2>1. task[t] \in Working
    BY <1>5 DEF InitLockMode, InitLockChmod, Working
  <2>2. PreparedSoFar(t)'
    BY <1>2, <1>5, <2>1
       DEF InitLockMode, AfterStat, InitLockChmod, PreparedSoFar, Mounting, Creating
  <2> QED
    BY <1>5, <2>1, <2>2, WinnerOwnStep DEF InitLockMode, InitLockChmod
<1>6. CASE InitLockFails(t)
  BY <1>6, WinnerOtherStep DEF InitLockFails, Working, Mounting, Creating
<1>7. CASE InitDumpDir(t)
  <2>1. task[t] \in Working
    BY <1>7 DEF InitDumpDir, Working
  <2>2. PreparedSoFar(t)'
    BY <1>2, <1>7, <2>1 DEF InitDumpDir, PreparedSoFar, DirReady, MountReady,
           Mounting, Creating
  <2> QED
    BY <1>7, <2>1, <2>2, WinnerOwnStep DEF InitDumpDir
<1>8. CASE InitDumpDirFails(t) \/ MountEnterFails(t) \/ MountEnterLost(t)
  BY <1>8, WinnerOtherStep
     DEF InitDumpDirFails, MountEnterFails, MountEnterLost, Working, Mounting, Creating
<1>9. CASE MountEnter(t) \/ MountHold(t) \/ MountStat(t) \/ MountUnlock(t)
           \/ MountUnlink(t) \/ MountUnlinkFails(t)
  <2>1. task[t] \in Working
    BY <1>9 DEF MountEnter, MountHold, MountStat, MountUnlock, MountUnlink, MountUnlinkFails,
                Working, Mounting, Creating
  <2>2. PreparedSoFar(t)'
    BY <1>2, <1>9, <2>1
       DEF MountEnter, MountHold, MountStat, MountUnlock, MountUnlink, MountUnlinkFails,
           PreparedSoFar, DirReady, MountReady, Mounting, Creating
  <2> QED
    BY <1>9, <2>1, <2>2, WinnerOwnStep
       DEF MountEnter, MountHold, MountStat, MountUnlock, MountUnlink, MountUnlinkFails
<1>10. CASE MountOpen(t)
  <2>1. task[t] \in Working
    BY <1>10 DEF MountOpen, Working, Mounting, Creating
  <2>2. mountFd'[t] = mount' /\ mount' # NoFile
    BY <1>10, HooksAssumption DEF MountOpen
  <2>3. PreparedSoFar(t)'
    BY <1>2, <1>10, <2>1, <2>2 DEF MountOpen, PreparedSoFar, DirReady, Mounting, Creating
  <2> QED
    BY <1>10, <2>1, <2>3, WinnerOwnStep DEF MountOpen
<1>11. CASE MountWrite(t) \/ MountMode(t) \/ MountChmod(t) \/ MountFails(t)
  <2>1. task[t] \in Working
    BY <1>11 DEF MountWrite, MountMode, MountChmod, MountFails, Working, Mounting, Creating
  <2>2. PreparedSoFar(t)'
    BY <1>2, <1>11, <2>1
       DEF MountWrite, MountMode, AfterStat, MountChmod, MountFails, PreparedSoFar,
           DirReady, Mounting, Creating
  <2> QED
    BY <1>11, <2>1, <2>2, WinnerOwnStep DEF MountWrite, MountMode, MountChmod, MountFails
<1>12. CASE MountReturn(t)
  <2>1. task[t] \in Working
    BY <1>12 DEF MountReturn, Working, Mounting
  <2>2. PreparedSoFar(t)'
    BY <1>2, <1>12, <2>1 DEF MountReturn, PreparedSoFar, DirReady, MountReady,
           Mounting, Creating
  <2> QED
    BY <1>12, <2>1, <2>2, WinnerOwnStep DEF MountReturn
<1>13. CASE TaskExits(t) \/ InitKilled(t)
  BY <1>13, WinnerOtherStep DEF TaskExits, InitKilled, Working, Mounting, Creating
<1> QED
  BY <1>3, <1>4, <1>5, <1>6, <1>7, <1>8, <1>9, <1>10, <1>11, <1>12, <1>13
     DEF InitStep, InitFault

\* From the first exit hook on there is nothing to keep.
LEMMA ExitStepSeen ==
  ASSUME TypeOK, NEW t \in Tasks, ExitStep(t) \/ ExitFault(t)
  PROVE  ExitHookSeen'
<1>1. task \in [Tasks -> Alive \cup {"exited", "reaping", "reaped"}]
  BY DEF TypeOK
<1>2. CASE ExitBegin(t)
  BY <1>1, <1>2 DEF ExitBegin, ExitReturns, Go, ExitHookSeen
<1>3. CASE HookSteps(t)
  BY <1>1, <1>3, HookStepMoves DEF HookMoves, ExitReturns, Go, ExitHookSeen
<1> QED
  BY <1>2, <1>3, ExitStepCases

LEMMA WinnerNext == TypeOK /\ WinnerInv /\ [Next]_vars => WinnerInv'
<1> SUFFICES ASSUME TypeOK, WinnerInv, [Next]_vars
             PROVE  WinnerInv'
  OBVIOUS
<1>1. ASSUME NEW t \in Tasks, InitStep(t) \/ InitFault(t) \/ TaskExits(t)
      PROVE  WinnerInv'
  <2>1. CASE ExitHookSeen
    <3>1. InitEffect(t)
      BY <1>1, InitStepEffect
    <3>2. ExitHookSeen'
      BY <2>1, <3>1 DEF InitEffect, ExitHookSeen, TypeOK
    <3> QED
      BY <3>2 DEF WinnerInv
  <2>2. CASE ~ExitHookSeen
    BY <1>1, <2>2, WinnerInitStep
  <2> QED
    BY <2>1, <2>2
<1>2. ASSUME NEW t \in Tasks, ExitStep(t) \/ ExitFault(t)
      PROVE  WinnerInv'
  BY <1>2, ExitStepSeen DEF WinnerInv
<1>3. CASE Requeue
  <2>1. /\ won' = {} /\ mount' \in {NoFile, OldFile}
        /\ \A t \in Tasks : task'[t] = "forked"
    BY <1>3 DEF Requeue
  <2> QED
    BY <2>1 DEF WinnerInv, Working, Mounting, Creating
<1>4. CASE UNCHANGED vars
  BY <1>4 DEF vars, fileVars, mountVars, history, WinnerInv, ExitHookSeen,
              PreparedSoFar, DirReady, MountReady
<1> QED
  BY <1>1, <1>2, <1>3, <1>4 DEF Next

(***************************************************************************)
(* While no exit hook has begun, a task whose own init hook did the        *)
(* preparation runs user code with all of it in place, for any number of   *)
(* tasks, failures, kills and requeues; a mount file from an earlier run   *)
(* may be without its lines.                                               *)
(***************************************************************************)
THEOREM WinnerIsPrepared == Spec => []WinnerPrepared
<1>1. Init => TypeOK /\ WinnerInv
  <2>1. Init => WinnerInv
    BY DEF Init, WinnerInv, Working, Mounting, Creating
  <2> QED
    BY <2>1, TypeInit
<1>2. TypeOK /\ WinnerInv /\ [Next]_vars => (TypeOK /\ WinnerInv)'
  BY TypeNext, WinnerNext
<1>3. TypeOK /\ WinnerInv => WinnerPrepared
  BY DEF WinnerInv, WinnerPrepared, PreparedSoFar
<1> QED
  BY <1>1, <1>2, <1>3, PTL DEF Spec
-----------------------------------------------------------------------------
(* The lock of the mount file.                                            *)

LEMMA LockStepIsStep ==
  ASSUME NEW c \in Calls, LockStep(c)
  PROVE  Lock!Next
  BY DEF LockStep, EnterLock, Lock!Next, Lock!Step, Lock!Progress

LEMMA InitHookUsesLock ==
  ASSUME NEW t \in Tasks, InitStep(t) \/ InitFault(t) \/ TaskExits(t)
  PROVE  LockStep(InitCall(t)) \/ UNCHANGED lockVars
<1>1. CASE MountEnter(t) \/ MountEnterLost(t) \/ MountEnterFails(t)
  BY <1>1 DEF MountEnter, MountEnterLost, MountEnterFails, LockStep
<1>2. CASE MountHold(t) \/ MountUnlock(t) \/ MountUnlink(t) \/ MountUnlinkFails(t)
           \/ MountReturn(t) \/ InitKilled(t)
  BY <1>2 DEF MountHold, MountUnlock, MountUnlink, MountUnlinkFails, MountReturn,
              InitKilled, LockStep
<1>3. CASE MountStat(t) \/ MountOpen(t) \/ MountWrite(t) \/ MountMode(t) \/ MountChmod(t)
           \/ MountFails(t)
  BY <1>3 DEF MountStat, MountOpen, MountWrite, MountMode, MountChmod, MountFails
<1>4. CASE InitBegin(t) \/ InitBeginFails(t) \/ InitLock(t) \/ InitLockMode(t)
           \/ InitLockChmod(t) \/ InitLockFails(t)
  BY <1>4 DEF InitBegin, InitBeginFails, InitLock, InitLockMode, InitLockChmod,
              InitLockFails
<1>5. CASE InitDumpDir(t) \/ InitDumpDirFails(t) \/ TaskExits(t)
  BY <1>5 DEF InitDumpDir, InitDumpDirFails, TaskExits
<1> QED
  BY <1>1, <1>2, <1>3, <1>4, <1>5 DEF InitStep, InitFault

LEMMA ExitHookUsesLock ==
  ASSUME NEW t \in Tasks, ExitStep(t) \/ ExitFault(t)
  PROVE  LockStep(ExitCall(t)) \/ UNCHANGED lockVars
<1>1. CASE UnmountEnter(t) \/ UnmountEnterLost(t) \/ UnmountEnterFails(t)
  BY <1>1 DEF UnmountEnter, UnmountEnterLost, UnmountEnterFails, LockStep
<1>2. CASE UnmountUnlock(t) \/ UnmountUnlink(t) \/ UnmountUnlinkFails(t) \/ UnmountReturn(t)
  BY <1>2 DEF UnmountUnlock, UnmountUnlink, UnmountUnlinkFails, UnmountReturn, LockStep
<1>3. CASE ExitBegin(t) \/ ExitLock(t) \/ ExitLockFails(t) \/ ExitLockMode(t)
           \/ ExitLockChmod(t) \/ ExitLockChmodFails(t)
  BY <1>3 DEF ExitBegin, ExitLock, ExitLockFails, ExitLockMode, ExitLockChmod,
              ExitLockChmodFails
<1>4. CASE Unmount(t) \/ RemoveLock(t) \/ RemoveLockFails(t)
  BY <1>4 DEF Unmount, RemoveLock, RemoveLockFails
<1> QED
  BY <1>1, <1>2, <1>3, <1>4 DEF ExitStep, ExitFault

(***************************************************************************)
(* Every step of the hooks is a step of WithLock or leaves the mount       *)
(* file's lock alone.                                                      *)
(***************************************************************************)
THEOREM HooksUseWithLock == Spec => UsesWithLock
<1>1. Init => Lock!Init
  BY DEF Init
<1>2. [Next]_vars => [Lock!Next]_(Lock!vars)
  <2> SUFFICES ASSUME [Next]_vars
               PROVE  Lock!Next \/ UNCHANGED lockVars
    BY DEF lockVars, Lock!vars
  <2>1. ASSUME NEW t \in Tasks, InitStep(t) \/ InitFault(t) \/ TaskExits(t)
        PROVE  Lock!Next \/ UNCHANGED lockVars
    BY <2>1, InitHookUsesLock, CallTypes, LockStepIsStep
  <2>2. ASSUME NEW t \in Tasks, ExitStep(t) \/ ExitFault(t)
        PROVE  Lock!Next \/ UNCHANGED lockVars
    BY <2>2, ExitHookUsesLock, CallTypes, LockStepIsStep
  <2>3. CASE Requeue
    BY <2>3 DEF Requeue, Lock!Next
  <2>4. CASE UNCHANGED vars
    BY <2>4 DEF vars
  <2> QED
    BY <2>1, <2>2, <2>3, <2>4 DEF Next
<1> QED
  BY <1>1, <1>2, PTL DEF Spec, UsesWithLock, Lock!Spec
-----------------------------------------------------------------------------
(* Two tasks: the callbacks under with_lock exclude each other.           *)

\* A call has the lock file open exactly between its open() and its close(),
\* and no two calls hold the flock of the same file.
HeldInv ==
  /\ \A c \in Calls : lockPc[c] \in Lock!Open <=> lockFd[c] # NoFile
  /\ \A c, d \in Lock!Holders : lockFd[c] = lockFd[d] => c = d

\* A call is under way only inside its hook's part on the mount file.
StageInv ==
  \A t \in Tasks :
    /\ lockPc[InitCall(t)] \in Lock!Open => task[t] \in Mounting
    /\ lockPc[ExitCall(t)] \in Lock!Open => task[t] = "reaping" /\ hook \in Removing

\* An exit hook has got past the task-init lock.
Removed == \E t \in Tasks : task[t] = "reaped" \/ (task[t] = "reaping" /\ hook = TaskExitOp)

\* One init hook works at a time: the lock is there, or an exit hook removed it.
WorkerInv ==
  /\ \A s, t \in Tasks : task[s] \in Working /\ task[t] \in Working => s = t
  /\ (\E t \in Tasks : task[t] \in Working) => TaskInitOp \in locks \/ Removed

\* The exit hook of t has taken the lock file's name away, or is past that.
Spent(t) ==
  \/ task[t] = "reaped" \/ (task[t] = "reaping" /\ hook \in Ops)
  \/ lockPc[ExitCall(t)] = "unlinked"

\* And so has the init hook of t.
Started(t) == task[t] \in {"running", "exited"} \/ lockPc[InitCall(t)] = "unlinked"

\* A call that has yet to let go of the flock.
Locking == {"opened", "chmod", "waiting", "held"}

\* A call whose lock file has lost its name is alone: the other task's hook has
\* unlinked the name and makes no other call while this one is under way.
StaleInv ==
  \A t \in Tasks :
    /\ lockPc[InitCall(t)] \in Locking /\ lockFd[InitCall(t)] # lockFile =>
         \A u \in Tasks \ {t} : Spent(u)
    /\ lockPc[ExitCall(t)] \in Locking /\ lockFd[ExitCall(t)] # lockFile =>
         \A u \in Tasks \ {t} : Started(u)

ExclusionInv == TypeOK /\ ReapingInv /\ HeldInv /\ StageInv /\ WorkerInv /\ StaleInv

\* What a step of with_lock does besides opening and unlinking the lock file.
Keeps(c) ==
  /\ \A d \in Calls \ {c} : lockPc'[d] = lockPc[d] /\ lockFd'[d] = lockFd[d]
  /\ UNCHANGED lockFile
  /\ lockPc'[c] \in Lock!Open => lockPc[c] \in Lock!Open
  /\ lockPc'[c] \in Locking => lockPc[c] \in Locking /\ lockFd'[c] = lockFd[c]
  /\ lockPc[c] = "unlinked" => lockPc'[c] \notin Lock!Open \ {"unlinked"}

LEMMA LockStepKeeps ==
  ASSUME Lock!TypeOK, NEW c \in Calls,
         \/ Lock!StatLock(c) \/ Lock!ChmodLock(c) \/ Lock!FlockLock(c) \/ Lock!Unlock(c)
         \/ Lock!UnlinkLockFails(c) \/ Lock!Stop(c)
  PROVE  Keeps(c)
<1> USE DEF Lock!TypeOK, Lock!Goto, Lock!Open, Keeps, Locking
<1>1. CASE Lock!StatLock(c) \/ Lock!ChmodLock(c)
  BY <1>1 DEF Lock!StatLock, Lock!ChmodLock
<1>2. CASE Lock!FlockLock(c) \/ Lock!Unlock(c) \/ Lock!UnlinkLockFails(c)
  BY <1>2 DEF Lock!FlockLock, Lock!Unlock, Lock!UnlinkLockFails
<1>3. CASE Lock!Stop(c)
  BY <1>3 DEF Lock!Stop
<1> QED
  BY <1>1, <1>2, <1>3

LEMMA StopCloses ==
  ASSUME Lock!TypeOK, NEW c \in Calls, Lock!Stop(c)
  PROVE  lockPc'[c] \notin Lock!Open
  BY DEF Lock!TypeOK, Lock!Stop, Lock!Open

LEMMA LockStepStaysOpen ==
  ASSUME Lock!TypeOK, NEW c \in Calls,
         \/ Lock!StatLock(c) \/ Lock!ChmodLock(c) \/ Lock!FlockLock(c) \/ Lock!Unlock(c)
         \/ Lock!UnlinkLockFails(c)
  PROVE  lockPc'[c] \in Lock!Open
  BY DEF Lock!TypeOK, Lock!Goto, Lock!Open, Lock!StatLock, Lock!ChmodLock, Lock!FlockLock,
         Lock!Unlock, Lock!UnlinkLockFails

LEMMA HeldStep ==
  ASSUME Lock!TypeOK, HeldInv, NEW c \in Calls, LockStep(c)
  PROVE  HeldInv'
<1> USE DEF Lock!TypeOK, Lock!Goto, Lock!Open, Lock!Holders, Lock!Holds, HeldInv
<1>1. CASE Lock!OpenLock(c)
  BY <1>1, CallsAssumption DEF Lock!OpenLock, Lock!Files
<1>2. CASE Lock!StatLock(c) \/ Lock!ChmodLock(c) \/ Lock!Unlock(c)
           \/ Lock!UnlinkLock(c) \/ Lock!UnlinkLockFails(c)
  BY <1>2 DEF Lock!StatLock, Lock!ChmodLock, Lock!Unlock, Lock!UnlinkLock,
              Lock!UnlinkLockFails
<1>3. CASE Lock!FlockLock(c)
  BY <1>3 DEF Lock!FlockLock
<1>4. CASE Lock!Stop(c)
  BY <1>4 DEF Lock!Stop
<1> QED
  BY <1>1, <1>2, <1>3, <1>4, CloseIsStop
     DEF LockStep, EnterLock, Lock!ChmodLost, Lock!LockError, Lock!Killed

LEMMA HeldSame ==
  ASSUME HeldInv, UNCHANGED lockVars
  PROVE  HeldInv'
  BY DEF HeldInv, lockVars, Lock!Holders, Lock!Holds

LEMMA HeldNext == TypeOK /\ HeldInv /\ [Next]_vars => HeldInv'
<1> SUFFICES ASSUME TypeOK, HeldInv, [Next]_vars
             PROVE  HeldInv'
  OBVIOUS
<1>0. Lock!TypeOK
  BY DEF TypeOK
<1>1. ASSUME NEW t \in Tasks, InitStep(t) \/ InitFault(t) \/ TaskExits(t)
      PROVE  HeldInv'
  BY <1>0, <1>1, InitHookUsesLock, CallTypes, HeldStep, HeldSame
<1>2. ASSUME NEW t \in Tasks, ExitStep(t) \/ ExitFault(t)
      PROVE  HeldInv'
  BY <1>0, <1>2, ExitHookUsesLock, CallTypes, HeldStep, HeldSame
<1>3. CASE Requeue
  BY <1>3 DEF Requeue, Lock!Restart, HeldInv, Lock!Holders, Lock!Holds, Lock!Open
<1>4. CASE UNCHANGED vars
  BY <1>4, HeldSame DEF vars
<1> QED
  BY <1>1, <1>2, <1>3, <1>4 DEF Next
-----------------------------------------------------------------------------
(* What a step of a hook does to its call of with_lock and to its stage.  *)

InitLockUse(t) ==
  \/ Lock!OpenLock(InitCall(t)) /\ UNCHANGED task /\ task[t] \in Mounting
  \/ Lock!UnlinkLock(InitCall(t)) /\ UNCHANGED task /\ task[t] \in Mounting
  \/ /\ Keeps(InitCall(t))
     /\ lockPc'[InitCall(t)] \in Lock!Open => task'[t] \in Mounting
     /\ lockPc[InitCall(t)] \in Lock!Open /\ lockPc'[InitCall(t)] \notin Lock!Open =>
          task'[t] \in {"running", "exited"}

LEMMA InitStepLockUse ==
  ASSUME TypeOK, StageInv, NEW t \in Tasks, InitStep(t) \/ InitFault(t) \/ TaskExits(t)
  PROVE  InitLockUse(t)
<1> DEFINE c == InitCall(t)
<1>1. /\ Lock!TypeOK /\ c \in Calls
      /\ task \in [Tasks -> Alive \cup {"exited", "reaping", "reaped"}]
      /\ lockPc[c] \in Lock!Open => task[t] \in Mounting
  BY CallTypes DEF TypeOK, StageInv
<1>2. ASSUME NEW to, Go(t, to)
      PROVE  task'[t] = to
  BY <1>1, <1>2 DEF Go
<1> HIDE DEF c
<1>3. ASSUME UNCHANGED lockVars, task[t] \in Mounting => task'[t] \in Mounting
      PROVE  InitLockUse(t)
  BY <1>1, <1>3 DEF lockVars, Keeps, InitLockUse, c
<1>4. ASSUME Lock!Stop(c), task'[t] \in {"running", "exited"}
      PROVE  InitLockUse(t)
  BY <1>1, <1>4, LockStepKeeps, StopCloses DEF InitLockUse, c
<1>5. ASSUME task'[t] \in Mounting,
             \/ Lock!StatLock(c) \/ Lock!ChmodLock(c) \/ Lock!FlockLock(c)
             \/ Lock!Unlock(c) \/ Lock!UnlinkLockFails(c)
      PROVE  InitLockUse(t)
  BY <1>1, <1>5, LockStepKeeps, LockStepStaysOpen DEF InitLockUse, c
<1>6. CASE MountEnter(t)
  <2>1. UNCHANGED task /\ task[t] \in Mounting
    BY <1>6 DEF MountEnter, Mounting
  <2>2. Lock!OpenLock(c) \/ Lock!StatLock(c) \/ Lock!ChmodLock(c)
    BY <1>6 DEF MountEnter, EnterLock, c
  <2>3. CASE Lock!OpenLock(c)
    BY <2>1, <2>3 DEF InitLockUse, c
  <2> QED
    BY <1>5, <2>1, <2>2, <2>3
<1>7. CASE MountEnterLost(t) \/ MountEnterFails(t)
  <2>1. Lock!Stop(c) /\ task'[t] = "exited"
    BY <1>2, <1>7 DEF MountEnterLost, MountEnterFails, InitFails, Lock!ChmodLost,
                      Lock!LockError, c
  <2> QED
    BY <1>4, <2>1
<1>8. CASE MountHold(t)
  <2>1. Lock!FlockLock(c) /\ task'[t] = "mountStat"
    BY <1>2, <1>8 DEF MountHold, c
  <2> QED
    BY <1>5, <2>1 DEF Mounting, Creating
<1>9. CASE MountStat(t) \/ MountOpen(t) \/ MountWrite(t) \/ MountMode(t)
           \/ MountChmod(t) \/ MountFails(t)
  <2>1. UNCHANGED lockVars
    BY <1>9 DEF MountStat, MountOpen, MountWrite, MountMode, MountChmod, MountFails
  <2>2. task'[t] \in Mounting
    BY <1>2, <1>9 DEF MountStat, MountOpen, MountWrite, MountMode, AfterStat, MountChmod,
                      MountFails, Mounting, Creating
  <2> QED
    BY <1>3, <2>1, <2>2
<1>10. CASE MountUnlock(t) \/ MountUnlink(t) \/ MountUnlinkFails(t)
  <2>1. UNCHANGED task /\ task[t] \in Mounting
    BY <1>10 DEF MountUnlock, MountUnlink, MountUnlinkFails, Mounting
  <2>2. Lock!Unlock(c) \/ Lock!UnlinkLock(c) \/ Lock!UnlinkLockFails(c)
    BY <1>10 DEF MountUnlock, MountUnlink, MountUnlinkFails, c
  <2>3. CASE Lock!UnlinkLock(c)
    BY <2>1, <2>3 DEF InitLockUse, c
  <2> QED
    BY <1>5, <2>1, <2>2, <2>3
<1>11. CASE MountReturn(t)
  <2>1. Lock!Stop(c) /\ task'[t] \in {"running", "exited"}
    BY <1>1, <1>2, <1>11, CloseIsStop DEF MountReturn, c
  <2> QED
    BY <1>4, <2>1
<1>12. CASE InitKilled(t)
  <2>1. task'[t] = "exited"
    BY <1>2, <1>12 DEF InitKilled
  <2>2. CASE Lock!Killed(c)
    BY <1>4, <2>1, <2>2 DEF Lock!Killed
  <2>3. CASE lockPc[c] \notin Lock!Open /\ UNCHANGED lockVars
    BY <1>1, <2>3 DEF lockVars, Keeps, InitLockUse, Lock!Open, Locking, c
  <2> QED
    BY <1>12, <2>2, <2>3 DEF InitKilled, c
<1>13. CASE \/ InitBegin(t) \/ InitBeginFails(t) \/ InitLock(t) \/ InitLockMode(t)
            \/ InitLockChmod(t) \/ InitLockFails(t) \/ InitDumpDir(t)
            \/ InitDumpDirFails(t) \/ TaskExits(t)
  <2>1. UNCHANGED lockVars
    BY <1>13 DEF InitBegin, InitBeginFails, InitLock, InitLockMode, InitLockChmod,
                 InitLockFails, InitDumpDir, InitDumpDirFails, TaskExits
  <2>2. task[t] \notin Mounting
    BY <1>13 DEF InitBegin, InitBeginFails, InitLock, InitLockMode, InitLockChmod,
                 InitLockFails, InitDumpDir, InitDumpDirFails, TaskExits, Mounting, Creating
  <2> QED
    BY <1>3, <2>1, <2>2
<1> QED
  BY <1>6, <1>7, <1>8, <1>9, <1>10, <1>11, <1>12, <1>13 DEF InitStep, InitFault

LEMMA InitStepWorks ==
  ASSUME TypeOK, NEW t \in Tasks, InitStep(t) \/ InitFault(t) \/ TaskExits(t),
         task'[t] \in Working
  PROVE  task[t] \in Working \/ (task[t] = "locking" /\ TakesLock(t))
<1>1. /\ task \in [Tasks -> Alive \cup {"exited", "reaping", "reaped"}]
      /\ \A to : Go(t, to) => task'[t] = to
  BY DEF TypeOK, Go
<1> USE DEF Working, Mounting, Creating
<1>2. CASE InitBegin(t) \/ InitBeginFails(t) \/ TaskExits(t) \/ InitKilled(t)
  BY <1>1, <1>2 DEF InitBegin, InitBeginFails, InitFails, TaskExits, InitKilled
<1>3. CASE InitLock(t) \/ InitLockFails(t)
  BY <1>1, <1>3 DEF InitLock, InitLockFails, InitFails, TakesLock
<1>4. CASE InitLockMode(t) \/ InitLockChmod(t) \/ InitDumpDir(t) \/ InitDumpDirFails(t)
  BY <1>4 DEF InitLockMode, InitLockChmod, InitDumpDir, InitDumpDirFails
<1>5. CASE MountEnter(t) \/ MountEnterLost(t) \/ MountEnterFails(t) \/ MountHold(t)
           \/ MountStat(t) \/ MountOpen(t) \/ MountWrite(t) \/ MountMode(t)
  BY <1>5 DEF MountEnter, MountEnterLost, MountEnterFails, MountHold, MountStat,
              MountOpen, MountWrite, MountMode
<1>6. CASE MountChmod(t) \/ MountFails(t) \/ MountUnlock(t) \/ MountUnlink(t)
           \/ MountUnlinkFails(t) \/ MountReturn(t)
  BY <1>6 DEF MountChmod, MountFails, MountUnlock, MountUnlink, MountUnlinkFails, MountReturn
<1> QED
  BY <1>2, <1>3, <1>4, <1>5, <1>6 DEF InitStep, InitFault

ExitLockUse(t) ==
  \/ /\ Lock!OpenLock(ExitCall(t)) /\ UNCHANGED <<task, hook>>
     /\ task[t] = "reaping" /\ hook \in Removing
  \/ /\ Lock!UnlinkLock(ExitCall(t)) /\ UNCHANGED <<task, hook>>
     /\ task[t] = "reaping" /\ hook \in Removing
  \/ /\ Keeps(ExitCall(t))
     /\ lockPc'[ExitCall(t)] \in Lock!Open => task'[t] = "reaping" /\ hook' \in Removing
     /\ lockPc[ExitCall(t)] \in Lock!Open /\ lockPc'[ExitCall(t)] \notin Lock!Open =>
          Spent(t)'

LEMMA ExitStepLockUse ==
  ASSUME TypeOK, StageInv, NEW t \in Tasks, ExitStep(t) \/ ExitFault(t)
  PROVE  ExitLockUse(t)
<1> DEFINE c == ExitCall(t)
<1>1. /\ Lock!TypeOK /\ c \in Calls
      /\ task \in [Tasks -> Alive \cup {"exited", "reaping", "reaped"}]
      /\ lockPc[c] \in Lock!Open => task[t] = "reaping" /\ hook \in Removing
  BY CallTypes DEF TypeOK, StageInv
<1>2. Go(t, "reaped") => task'[t] = "reaped"
  BY <1>1 DEF Go
<1> HIDE DEF c
<1>3. ASSUME UNCHANGED lockVars,
             \/ task[t] # "reaping" \/ hook \notin Removing
             \/ task'[t] = "reaping" /\ hook' \in Removing
      PROVE  ExitLockUse(t)
  BY <1>1, <1>3 DEF lockVars, Keeps, ExitLockUse, c
<1>4. ASSUME Lock!Stop(c), Spent(t)'
      PROVE  ExitLockUse(t)
  BY <1>1, <1>4, LockStepKeeps, StopCloses DEF ExitLockUse, c
<1>5. ASSUME UNCHANGED <<task, hook>>, task[t] = "reaping", hook \in Removing,
             \/ Lock!StatLock(c) \/ Lock!ChmodLock(c) \/ Lock!FlockLock(c)
             \/ Lock!Unlock(c) \/ Lock!UnlinkLockFails(c)
      PROVE  ExitLockUse(t)
  BY <1>1, <1>5, LockStepKeeps, LockStepStaysOpen DEF ExitLockUse, c
<1>6. CASE UnmountEnter(t)
  <2>1. UNCHANGED <<task, hook>> /\ task[t] = "reaping" /\ hook \in Removing
    BY <1>6 DEF UnmountEnter, Removing
  <2>2. \/ Lock!OpenLock(c) \/ Lock!StatLock(c) \/ Lock!ChmodLock(c)
        \/ Lock!FlockLock(c)
    BY <1>6 DEF UnmountEnter, EnterLock, c
  <2>3. CASE Lock!OpenLock(c)
    BY <2>1, <2>3 DEF ExitLockUse, c
  <2> QED
    BY <1>5, <2>1, <2>2, <2>3
<1>7. CASE UnmountEnterLost(t) \/ UnmountEnterFails(t)
  <2>1. Lock!Stop(c) /\ task'[t] = "reaped"
    BY <1>2, <1>7 DEF UnmountEnterLost, UnmountEnterFails, ExitReturns, Lock!ChmodLost,
                      Lock!LockError, c
  <2> QED
    BY <1>4, <2>1 DEF Spent
<1>8. CASE Unmount(t)
  <2>1. UNCHANGED <<lockVars, task>> /\ task[t] = "reaping" /\ hook' \in Removing
    BY <1>8 DEF Unmount, Removing
  <2> QED
    BY <1>3, <2>1
<1>9. CASE UnmountUnlock(t) \/ UnmountUnlink(t) \/ UnmountUnlinkFails(t)
  <2>1. UNCHANGED <<task, hook>> /\ task[t] = "reaping" /\ hook \in Removing
    BY <1>9 DEF UnmountUnlock, UnmountUnlink, UnmountUnlinkFails, Removing
  <2>2. Lock!Unlock(c) \/ Lock!UnlinkLock(c) \/ Lock!UnlinkLockFails(c)
    BY <1>9 DEF UnmountUnlock, UnmountUnlink, UnmountUnlinkFails, c
  <2>3. CASE Lock!UnlinkLock(c)
    BY <2>1, <2>3 DEF ExitLockUse, c
  <2> QED
    BY <1>5, <2>1, <2>2, <2>3
<1>10. CASE UnmountReturn(t)
  <2>1. Lock!Stop(c)
    BY <1>1, <1>10, CloseIsStop DEF UnmountReturn, c
  <2>2. task'[t] = "reaped" \/ (task'[t] = "reaping" /\ hook' \in Ops)
    BY <1>2, <1>10 DEF UnmountReturn, ExitReturns, Ops
  <2> QED
    BY <1>4, <2>1, <2>2 DEF Spent
<1>11. CASE \/ ExitBegin(t) \/ ExitLock(t) \/ ExitLockFails(t) \/ ExitLockMode(t)
            \/ ExitLockChmod(t) \/ ExitLockChmodFails(t) \/ RemoveLock(t)
            \/ RemoveLockFails(t)
  <2>1. UNCHANGED lockVars
    BY <1>11 DEF ExitBegin, ExitLock, ExitLockFails, ExitLockMode, ExitLockChmod,
                 ExitLockChmodFails, RemoveLock, RemoveLockFails
  <2>2. task[t] = "exited" \/ hook \notin Removing
    BY <1>11, OpsDiffer
       DEF ExitBegin, ExitLock, ExitLockFails, ExitLockMode, ExitLockChmod,
           ExitLockChmodFails, RemoveLock, RemoveLockFails, Removing
  <2> QED
    BY <1>3, <2>1, <2>2
<1> QED
  BY <1>6, <1>7, <1>8, <1>9, <1>10, <1>11 DEF ExitStep, ExitFault
-----------------------------------------------------------------------------
(* The stages of the hooks, and who works.                                *)

LEMMA CallsDiffer ==
  ASSUME NEW s \in Tasks, NEW t \in Tasks
  PROVE  /\ InitCall(s) # ExitCall(t)
         /\ s # t => InitCall(s) # InitCall(t) /\ ExitCall(s) # ExitCall(t)
  BY DEF InitCall, ExitCall

\* The tasks other than the one that steps.
LEMMA InitStepOthers ==
  ASSUME TypeOK, NEW t \in Tasks, InitStep(t) \/ InitFault(t) \/ TaskExits(t)
  PROVE  /\ InitEffect(t)
         /\ task[t] \notin {"reaping", "reaped"} /\ task'[t] \notin {"reaping", "reaped"}
         /\ \A s \in Tasks \ {t} : task'[s] = task[s]
  BY InitStepEffect DEF InitEffect, TypeOK

LEMMA ExitStepOthers ==
  ASSUME TypeOK, ReapingInv, NEW t \in Tasks, ExitStep(t) \/ ExitFault(t)
  PROVE  /\ task[t] \in {"exited", "reaping"} /\ task'[t] \in {"reaping", "reaped"}
         /\ \A s \in Tasks \ {t} : task'[s] = task[s] /\ task[s] # "reaping"
         /\ task[t] = "exited" => hook = "idle"
<1>1. HookBegins(t) \/ HookMoves(t)
  BY ExitStepCases, HookStepMoves DEF ExitBegin, ExitReturns, HookBegins
<1> QED
  BY <1>1 DEF HookBegins, HookMoves, ExitReturns, Go, ReapingInv, TypeOK

\* A step of a call leaves the other calls alone.
LEMMA LockUseOthers ==
  ASSUME TypeOK, NEW c \in Calls,
         Lock!OpenLock(c) \/ Lock!UnlinkLock(c) \/ Keeps(c)
  PROVE  \A d \in Calls \ {c} : lockPc'[d] = lockPc[d] /\ lockFd'[d] = lockFd[d]
  BY DEF TypeOK, Lock!TypeOK, Lock!OpenLock, Lock!UnlinkLock, Lock!Goto, Keeps

LEMMA UnlinkStep ==
  ASSUME TypeOK, NEW c \in Calls, Lock!UnlinkLock(c)
  PROVE  lockPc[c] = "unlocked" /\ lockPc'[c] = "unlinked"
  BY DEF TypeOK, Lock!TypeOK, Lock!UnlinkLock, Lock!Goto

LEMMA StageNext == TypeOK /\ ReapingInv /\ StageInv /\ [Next]_vars => StageInv'
<1> SUFFICES ASSUME TypeOK, ReapingInv, StageInv, [Next]_vars
             PROVE  StageInv'
  OBVIOUS
<1>1. ASSUME NEW t \in Tasks, InitStep(t) \/ InitFault(t) \/ TaskExits(t)
      PROVE  StageInv'
  <2>1. InitLockUse(t)
    BY <1>1, InitStepLockUse
  <2>2. \A d \in Calls \ {InitCall(t)} : lockPc'[d] = lockPc[d]
    BY <2>1, CallTypes, LockUseOthers DEF InitLockUse
  <2>3. /\ hook' = hook /\ task[t] # "reaping"
        /\ \A s \in Tasks \ {t} : task'[s] = task[s]
    BY <1>1, InitStepOthers DEF InitEffect
  <2>4. lockPc'[InitCall(t)] \in Lock!Open => task'[t] \in Mounting
    BY <2>1 DEF InitLockUse
  <2>5. ASSUME NEW s \in Tasks \ {t}
        PROVE  lockPc'[InitCall(s)] = lockPc[InitCall(s)]
    BY <2>2, CallTypes, CallsDiffer
  <2>6. ASSUME NEW s \in Tasks
        PROVE  lockPc'[ExitCall(s)] = lockPc[ExitCall(s)]
    BY <2>2, CallTypes, CallsDiffer
  <2> QED
    BY <2>3, <2>4, <2>5, <2>6 DEF StageInv
<1>2. ASSUME NEW t \in Tasks, ExitStep(t) \/ ExitFault(t)
      PROVE  StageInv'
  <2>1. ExitLockUse(t)
    BY <1>2, ExitStepLockUse
  <2>2. \A d \in Calls \ {ExitCall(t)} : lockPc'[d] = lockPc[d]
    BY <2>1, CallTypes, LockUseOthers DEF ExitLockUse
  <2>3. /\ task[t] \in {"exited", "reaping"}
        /\ \A s \in Tasks \ {t} : task'[s] = task[s] /\ task[s] # "reaping"
    BY <1>2, ExitStepOthers
  <2>4. lockPc'[ExitCall(t)] \in Lock!Open => task'[t] = "reaping" /\ hook' \in Removing
    BY <2>1 DEF ExitLockUse
  <2>5. ASSUME NEW s \in Tasks \ {t}
        PROVE  lockPc'[ExitCall(s)] = lockPc[ExitCall(s)]
    BY <2>2, CallTypes, CallsDiffer
  <2>6. ASSUME NEW s \in Tasks
        PROVE  lockPc'[InitCall(s)] = lockPc[InitCall(s)]
    BY <2>2, CallTypes, CallsDiffer
  <2>7. task[t] \notin Mounting
    BY <2>3 DEF Mounting, Creating
  <2> QED
    BY <2>3, <2>4, <2>5, <2>6, <2>7 DEF StageInv
<1>3. CASE Requeue
  <2>1. \A c \in Calls : lockPc'[c] \notin Lock!Open
    BY <1>3 DEF Requeue, Lock!Restart, Lock!Open
  <2> QED
    BY <2>1, CallTypes DEF StageInv
<1>4. CASE UNCHANGED vars
  BY <1>4 DEF vars, lockVars, StageInv
<1> QED
  BY <1>1, <1>2, <1>3, <1>4 DEF Next

\* No three tasks differ.
AtMostTwo == \A s, t, u \in Tasks : s = t \/ t = u \/ s = u

LEMMA WorkerNext ==
  ASSUME AtMostTwo
  PROVE  TypeOK /\ ReapingInv /\ WorkerInv /\ [Next]_vars => WorkerInv'
<1> SUFFICES ASSUME TypeOK, ReapingInv, WorkerInv, [Next]_vars
             PROVE  WorkerInv'
  OBVIOUS
<1>0. "reaping" \notin Working /\ "reaped" \notin Working /\ "exited" \notin Working
      /\ "locking" \notin Working /\ "forked" \notin Working
  BY DEF Working, Mounting, Creating
<1>1. ASSUME NEW t \in Tasks, InitStep(t) \/ InitFault(t) \/ TaskExits(t)
      PROVE  WorkerInv'
  <2>1. /\ hook' = hook /\ (TakesLock(t) \/ UNCHANGED locks)
        /\ task[t] \notin {"reaping", "reaped"} /\ task'[t] \notin {"reaping", "reaped"}
        /\ \A s \in Tasks \ {t} : task'[s] = task[s]
    BY <1>1, InitStepOthers DEF InitEffect
  <2>2. Removed' <=> Removed
    BY <2>1 DEF Removed
  <2>3. TaskInitOp \in locks => TaskInitOp \in locks'
    BY <2>1 DEF TakesLock
  <2>4. CASE task'[t] \in Working /\ task[t] \notin Working
    <3>1. task[t] = "locking" /\ TakesLock(t)
      BY <1>1, <2>4, InitStepWorks
    <3>2. ASSUME NEW s \in Tasks \ {t}, task[s] \in Working
          PROVE  FALSE
      <4>1. PICK u \in Tasks : task[u] = "reaped" \/ task[u] = "reaping"
        BY <3>1, <3>2 DEF WorkerInv, Removed, TakesLock
      <4>2. u # s /\ u # t
        BY <1>0, <2>1, <3>2, <4>1
      <4> QED
        BY <3>2, <4>2 DEF AtMostTwo
    <3>3. TaskInitOp \in locks'
      BY <3>1 DEF TakesLock
    <3> QED
      BY <2>1, <3>2, <3>3 DEF WorkerInv
  <2>5. CASE ~(task'[t] \in Working /\ task[t] \notin Working)
    <3>1. \A s \in Tasks : task'[s] \in Working => task[s] \in Working
      BY <2>1, <2>5
    <3> QED
      BY <2>2, <2>3, <3>1 DEF WorkerInv
  <2> QED
    BY <2>4, <2>5
<1>2. ASSUME NEW t \in Tasks, ExitStep(t) \/ ExitFault(t)
      PROVE  WorkerInv'
  <2>1. /\ task[t] \in {"exited", "reaping"} /\ task'[t] \in {"reaping", "reaped"}
        /\ \A s \in Tasks \ {t} : task'[s] = task[s] /\ task[s] # "reaping"
        /\ task[t] = "exited" => hook = "idle"
    BY <1>2, ExitStepOthers
  <2>2. \A s \in Tasks : task'[s] \in Working => task[s] \in Working
    BY <1>0, <2>1
  <2>3. Removed => Removed'
    <3> SUFFICES ASSUME NEW s \in Tasks,
                        task[s] = "reaped" \/ (task[s] = "reaping" /\ hook = TaskExitOp)
                 PROVE  Removed'
      BY DEF Removed
    <3>1. CASE s # t
      BY <2>1, <3>1 DEF Removed
    <3>2. CASE s = t
      <4>1. task[t] = "reaping" /\ hook = TaskExitOp
        BY <2>1, <3>2
      <4>2. HookSteps(t)
        BY <1>2, <4>1, ExitStepCases, OpsDiffer DEF ExitBegin
      <4>3. ExitReturns(t)
        BY <4>1, <4>2, HookStepSweeps DEF SweepEffect
      <4>4. task'[t] = "reaped"
        BY <4>3 DEF ExitReturns, Go, TypeOK
      <4> QED
        BY <4>4 DEF Removed
    <3> QED
      BY <3>1, <3>2
  <2>4. TaskInitOp \in locks => TaskInitOp \in locks' \/ Removed'
    <3>1. CASE ExitBegin(t)
      BY <3>1 DEF ExitBegin, fileVars
    <3>2. CASE HookSteps(t)
      <4>1. SweepEffect(t)
        BY <3>2, HookStepSweeps
      <4>2. CASE UNCHANGED Room
        BY <4>2 DEF Room
      <4>3. CASE hook' = TaskExitOp /\ UNCHANGED task /\ hook = TaskInitOp
        <5>1. task[t] = "reaping"
          BY <3>2, HookStepMoves DEF HookMoves
        <5> QED
          BY <4>3, <5>1 DEF Removed
      <4> QED
        BY <4>1, <4>2, <4>3 DEF SweepEffect
    <3> QED
      BY <1>2, <3>1, <3>2, ExitStepCases
  <2> QED
    BY <2>2, <2>3, <2>4 DEF WorkerInv
<1>3. CASE Requeue
  BY <1>0, <1>3 DEF Requeue, WorkerInv
<1>4. CASE UNCHANGED vars
  BY <1>4 DEF vars, fileVars, WorkerInv, Removed
<1> QED
  BY <1>1, <1>2, <1>3, <1>4 DEF Next
-----------------------------------------------------------------------------
(* Who shares the lock with a call whose file has lost its name.          *)

LEMMA StartedStays ==
  ASSUME TypeOK, StageInv, NEW t \in Tasks, InitStep(t) \/ InitFault(t) \/ TaskExits(t),
         Started(t)
  PROVE  Started(t)'
<1>0. CASE lockPc[InitCall(t)] = "unlinked"
  <2>1. InitLockUse(t)
    BY InitStepLockUse
  <2>2. Keeps(InitCall(t))
    BY <1>0, <2>1, CallTypes, UnlinkStep DEF InitLockUse, Lock!OpenLock, Lock!Goto
  <2>3. lockPc'[InitCall(t)] = "unlinked" \/ task'[t] \in {"running", "exited"}
    BY <1>0, <2>1, <2>2, CallTypes, UnlinkStep
       DEF InitLockUse, Keeps, Lock!Open, Lock!OpenLock, Lock!Goto
  <2> QED
    BY <2>3 DEF Started
<1> SUFFICES ASSUME task[t] \in {"running", "exited"}
             PROVE  task'[t] = "exited"
  BY <1>0 DEF Started
<1>1. TaskExits(t)
  BY DEF InitStep, InitFault, InitBegin, InitBeginFails, InitLock, InitLockMode,
         InitLockChmod, InitLockFails, InitDumpDir, InitDumpDirFails, MountEnter,
         MountEnterLost, MountEnterFails, MountHold, MountStat, MountOpen, MountWrite,
         MountMode, MountChmod, MountFails, MountUnlock, MountUnlink, MountUnlinkFails,
         MountReturn, InitKilled, InitHook, Mounting, Creating
<1> QED
  BY <1>1 DEF TaskExits, Go, TypeOK

LEMMA SpentStays ==
  ASSUME TypeOK, StageInv, NEW t \in Tasks, ExitStep(t) \/ ExitFault(t), Spent(t)
  PROVE  Spent(t)'
<1>0. CASE lockPc[ExitCall(t)] = "unlinked"
  <2>1. ExitLockUse(t)
    BY ExitStepLockUse
  <2>2. Keeps(ExitCall(t))
    BY <1>0, <2>1, CallTypes, UnlinkStep DEF ExitLockUse, Lock!OpenLock, Lock!Goto
  <2>3. lockPc'[ExitCall(t)] = "unlinked" \/ Spent(t)'
    BY <1>0, <2>1, <2>2, CallTypes, UnlinkStep
       DEF ExitLockUse, Keeps, Lock!Open, Lock!OpenLock, Lock!Goto
  <2> QED
    BY <2>3 DEF Spent
<1> SUFFICES ASSUME task[t] = "reaped" \/ (task[t] = "reaping" /\ hook \in Ops)
             PROVE  Spent(t)'
  BY <1>0 DEF Spent
<1>1. HookBegins(t) \/ HookMoves(t)
  BY ExitStepCases, HookStepMoves DEF ExitBegin, ExitReturns, HookBegins
<1>2. hook \in Ops /\ task[t] = "reaping"
  BY <1>1 DEF HookBegins, HookMoves
<1>3. RemoveLock(t) \/ RemoveLockFails(t)
  BY <1>2, OpsDiffer
     DEF ExitStep, ExitFault, ExitBegin, ExitLock, ExitLockFails, ExitLockMode,
         ExitLockChmod, ExitLockChmodFails, UnmountEnter, UnmountEnterLost,
         UnmountEnterFails, Unmount, UnmountUnlock, UnmountUnlink, UnmountUnlinkFails,
         UnmountReturn, Removing
<1>4. AfterRemoval(t)
  BY <1>3 DEF RemoveLock, RemoveLockFails
<1> QED
  BY <1>2, <1>4 DEF AfterRemoval, ExitReturns, Go, Spent, Ops, TypeOK

\* A call other than the one that steps is where it was, with the same file.
LEMMA StaleStays ==
  ASSUME NEW c \in Calls, Keeps(c), NEW d \in Calls, lockPc'[d] \in Locking,
         lockFd'[d] # lockFile'
  PROVE  lockPc[d] \in Locking /\ lockFd[d] # lockFile
  BY DEF Keeps

LEMMA OpenKeepsName ==
  ASSUME TypeOK, HeldInv, NEW c \in Calls, Lock!OpenLock(c), NEW d \in Calls,
         lockPc'[d] \in Locking, lockFd'[d] # lockFile'
  PROVE  lockPc[d] \in Locking /\ lockFd[d] # lockFile
<1>1. lockFd'[c] = lockFile'
  BY DEF Lock!OpenLock, TypeOK, Lock!TypeOK
<1>2. lockPc'[d] = lockPc[d] /\ lockFd'[d] = lockFd[d]
  BY <1>1, LockUseOthers
<1>3. CASE lockFile = NoFile
  BY <1>2, <1>3 DEF HeldInv, Locking, Lock!Open
<1>4. CASE lockFile # NoFile
  BY <1>1, <1>2, <1>4 DEF Lock!OpenLock
<1> QED
  BY <1>3, <1>4

LEMMA StaleInitStep ==
  ASSUME AtMostTwo, ExclusionInv,
         NEW t \in Tasks, InitStep(t) \/ InitFault(t) \/ TaskExits(t)
  PROVE  StaleInv'
<1> DEFINE c == InitCall(t)
<1>1. InitLockUse(t) /\ c \in Calls
  BY InitStepLockUse, CallTypes DEF ExclusionInv
<1>2. /\ hook' = hook
      /\ task[t] \notin {"reaping", "reaped"}
      /\ \A s \in Tasks \ {t} : task'[s] = task[s]
  BY InitStepOthers DEF InitEffect, ExclusionInv
<1>3. ASSUME NEW s \in Tasks
      PROVE  InitCall(s) \in Calls /\ ExitCall(s) \in Calls /\ ExitCall(s) # c
             /\ (s # t => InitCall(s) # c)
  BY CallTypes, CallsDiffer
<1>4. \A d \in Calls \ {c} : lockPc'[d] = lockPc[d]
  BY <1>1, LockUseOthers DEF InitLockUse, ExclusionInv
<1>5. ASSUME NEW u \in Tasks
      PROVE  (Spent(u) => Spent(u)') /\ (Started(u) => Started(u)')
  <2>1. Spent(u) => Spent(u)'
    BY <1>2, <1>3, <1>4 DEF Spent
  <2>2. CASE u = t
    BY <2>1, <2>2, StartedStays DEF ExclusionInv
  <2>3. CASE u # t
    BY <1>2, <1>3, <1>4, <2>1, <2>3 DEF Started
  <2> QED
    BY <2>2, <2>3
<1> HIDE DEF c
<1>6. CASE Lock!OpenLock(c) \/ Keeps(c)
  <2>1. ASSUME NEW d \in Calls, lockPc'[d] \in Locking, lockFd'[d] # lockFile'
        PROVE  lockPc[d] \in Locking /\ lockFd[d] # lockFile
    BY <1>1, <1>6, <2>1, OpenKeepsName, StaleStays DEF ExclusionInv
  <2> QED
    BY <1>3, <1>5, <2>1 DEF ExclusionInv, StaleInv
<1>7. CASE Lock!UnlinkLock(c) /\ task[t] \in Mounting
  <2>1. lockPc'[c] = "unlinked"
    BY <1>1, <1>7, UnlinkStep DEF ExclusionInv
  <2>2. ASSUME NEW s \in Tasks, lockPc'[InitCall(s)] \in Locking
        PROVE  FALSE
    <3>1. s # t /\ lockPc[InitCall(s)] \in Lock!Open
      BY <1>3, <1>4, <2>1, <2>2 DEF c, Locking, Lock!Open
    <3>2. task[s] \in Mounting
      BY <3>1 DEF ExclusionInv, StageInv
    <3> QED
      BY <1>7, <3>1, <3>2 DEF ExclusionInv, WorkerInv, Working
  <2>3. ASSUME NEW s \in Tasks, lockPc'[ExitCall(s)] \in Locking, NEW u \in Tasks \ {s}
        PROVE  Started(u)'
    <3>1. lockPc[ExitCall(s)] \in Lock!Open
      BY <1>3, <1>4, <2>3 DEF Locking, Lock!Open
    <3>2. s # t
      BY <1>2, <3>1 DEF ExclusionInv, StageInv
    <3>3. u = t
      BY <3>2 DEF AtMostTwo
    <3> QED
      BY <2>1, <3>3 DEF Started, c
  <2> QED
    BY <2>2, <2>3 DEF StaleInv
<1> QED
  BY <1>1, <1>6, <1>7 DEF InitLockUse, c

LEMMA StaleExitStep ==
  ASSUME AtMostTwo, ExclusionInv, NEW t \in Tasks, ExitStep(t) \/ ExitFault(t)
  PROVE  StaleInv'
<1> DEFINE c == ExitCall(t)
<1>1. ExitLockUse(t) /\ c \in Calls
  BY ExitStepLockUse, CallTypes DEF ExclusionInv
<1>2. /\ task[t] \in {"exited", "reaping"}
      /\ \A s \in Tasks \ {t} : task'[s] = task[s] /\ task[s] # "reaping"
  BY ExitStepOthers DEF ExclusionInv
<1>3. ASSUME NEW s \in Tasks
      PROVE  InitCall(s) \in Calls /\ ExitCall(s) \in Calls /\ InitCall(s) # c
             /\ (s # t => ExitCall(s) # c)
  BY CallTypes, CallsDiffer
<1>4. \A d \in Calls \ {c} : lockPc'[d] = lockPc[d]
  BY <1>1, LockUseOthers DEF ExitLockUse, ExclusionInv
<1>5. ASSUME NEW u \in Tasks, Spent(u)
      PROVE  Spent(u)'
  <2>1. CASE u = t
    BY <1>5, <2>1, SpentStays DEF ExclusionInv
  <2>2. CASE u # t
    BY <1>2, <1>3, <1>4, <1>5, <2>2 DEF Spent
  <2> QED
    BY <2>1, <2>2
<1>6. ASSUME NEW u \in Tasks \ {t}, Started(u)
      PROVE  Started(u)'
  BY <1>2, <1>3, <1>4, <1>6 DEF Started
<1>7. ASSUME NEW s \in Tasks, lockPc[ExitCall(s)] \in Locking
      PROVE  s = t
  BY <1>2, <1>7 DEF ExclusionInv, StageInv, Locking, Lock!Open
<1> HIDE DEF c
<1>8. CASE Lock!OpenLock(c) \/ Keeps(c)
  <2>1. ASSUME NEW d \in Calls, lockPc'[d] \in Locking, lockFd'[d] # lockFile'
        PROVE  lockPc[d] \in Locking /\ lockFd[d] # lockFile
    BY <1>1, <1>8, <2>1, OpenKeepsName, StaleStays DEF ExclusionInv
  <2>2. ASSUME NEW s \in Tasks, lockPc'[ExitCall(s)] \in Locking,
               lockFd'[ExitCall(s)] # lockFile', NEW u \in Tasks \ {s}
        PROVE  Started(u)'
    <3>1. s = t /\ Started(u)
      BY <1>3, <1>7, <2>1, <2>2 DEF ExclusionInv, StaleInv
    <3> QED
      BY <1>6, <3>1
  <2> QED
    BY <1>3, <1>5, <2>1, <2>2 DEF ExclusionInv, StaleInv
<1>9. CASE Lock!UnlinkLock(c)
  <2>1. lockPc[c] = "unlocked" /\ lockPc'[c] = "unlinked"
    BY <1>1, <1>9, UnlinkStep DEF ExclusionInv
  <2>2. ASSUME NEW s \in Tasks
        PROVE  lockPc'[ExitCall(s)] \notin Locking
    BY <1>3, <1>4, <1>7, <2>1 DEF c, Locking
  <2>3. ASSUME NEW s \in Tasks, lockPc'[InitCall(s)] \in Locking, NEW u \in Tasks \ {s}
        PROVE  Spent(u)'
    <3>1. task[s] \in Mounting
      BY <1>3, <1>4, <2>3 DEF ExclusionInv, StageInv, Locking, Lock!Open
    <3>2. s # t
      BY <1>2, <3>1 DEF Mounting, Creating
    <3>3. u = t
      BY <3>2 DEF AtMostTwo
    <3> QED
      BY <2>1, <3>3 DEF Spent, c
  <2> QED
    BY <2>2, <2>3 DEF StaleInv
<1> QED
  BY <1>1, <1>8, <1>9 DEF ExitLockUse, c

LEMMA StaleNext ==
  ASSUME AtMostTwo
  PROVE  ExclusionInv /\ [Next]_vars => StaleInv'
<1> SUFFICES ASSUME ExclusionInv, [Next]_vars
             PROVE  StaleInv'
  OBVIOUS
<1>1. CASE Requeue
  <2>1. \A c \in Calls : lockPc'[c] \notin Lock!Open
    BY <1>1 DEF Requeue, Lock!Restart, Lock!Open
  <2> QED
    BY <2>1, CallTypes DEF StaleInv, Locking, Lock!Open
<1>2. CASE UNCHANGED vars
  BY <1>2 DEF vars, lockVars, StaleInv, Spent, Started, ExclusionInv
<1> QED
  BY <1>1, <1>2, StaleInitStep, StaleExitStep DEF Next

\* Two holders would be one init hook and the other task's exit hook, with
\* different files, one of which has lost its name.
LEMMA ExclusionFromInv == ExclusionInv => CallbacksExclusive
<1> SUFFICES ASSUME ExclusionInv, NEW c \in Lock!Holders, NEW d \in Lock!Holders, c # d
             PROVE  FALSE
  BY DEF CallbacksExclusive
<1>1. c \in Calls /\ lockPc[c] = "held" /\ d \in Calls /\ lockPc[d] = "held"
  BY DEF Lock!Holders, Lock!Holds
<1>2. lockFd[c] # lockFd[d]
  BY DEF ExclusionInv, HeldInv
<1>3. \A e \in Calls : \E t \in Tasks : e = InitCall(t) \/ e = ExitCall(t)
  BY DEF Calls, InitCall, ExitCall
<1>4. ASSUME NEW t \in Tasks
      PROVE  /\ lockPc[InitCall(t)] = "held" => task[t] \in Mounting
             /\ lockPc[ExitCall(t)] = "held" => task[t] = "reaping" /\ hook \in Removing
  BY DEF ExclusionInv, StageInv, Lock!Open
<1>5. ASSUME NEW s \in Tasks, NEW t \in Tasks, lockPc[InitCall(s)] = "held",
             lockPc[ExitCall(t)] = "held"
      PROVE  lockFd[InitCall(s)] = lockFile /\ lockFd[ExitCall(t)] = lockFile
  <2>1. task[s] \in Mounting /\ task[t] = "reaping" /\ hook \in Removing
    BY <1>4, <1>5
  <2>2. s # t /\ ~Started(s)
    BY <1>5, <2>1 DEF Mounting, Creating, Started
  <2>3. ~Spent(t)
    BY <1>5, <2>1, OpsDiffer DEF Spent
  <2> QED
    BY <1>5, <2>2, <2>3 DEF ExclusionInv, StaleInv, Locking
<1>6. ASSUME NEW s \in Tasks, NEW t \in Tasks, lockPc[InitCall(s)] = "held",
             lockPc[InitCall(t)] = "held"
      PROVE  s = t
  BY <1>4, <1>6 DEF ExclusionInv, WorkerInv, Working
<1>7. ASSUME NEW s \in Tasks, NEW t \in Tasks, lockPc[ExitCall(s)] = "held",
             lockPc[ExitCall(t)] = "held"
      PROVE  s = t
  BY <1>4, <1>7 DEF ExclusionInv, ReapingInv
<1> QED
  BY <1>1, <1>2, <1>3, <1>5, <1>6, <1>7

LEMMA AtMostTwoTasks ==
  ASSUME Cardinality(Tasks) <= 2
  PROVE  AtMostTwo
<1> SUFFICES ASSUME NEW s \in Tasks, NEW t \in Tasks, NEW u \in Tasks,
                    s # t, t # u, s # u
             PROVE  FALSE
  BY DEF AtMostTwo
<1>1. IsFiniteSet({s}) /\ Cardinality({s}) = 1
  BY FS_Singleton
<1>2. IsFiniteSet({s} \cup {t}) /\ Cardinality({s} \cup {t}) = 2
  BY <1>1, FS_AddElement
<1>3. Cardinality(({s} \cup {t}) \cup {u}) = 3
  BY <1>2, FS_AddElement
<1>4. Cardinality(({s} \cup {t}) \cup {u}) <= Cardinality(Tasks)
  BY HooksAssumption, FS_Subset
<1>5. Cardinality(Tasks) \in Nat
  BY HooksAssumption, FS_CardinalityType
<1> QED
  BY <1>3, <1>4, <1>5

(***************************************************************************)
(* With at most two tasks on the worker, no two callbacks run at the same  *)
(* time, whatever fails, is killed or is requeued: of the four calls of    *)
(* with_lock that WithLock would let overlap after an unlink, the          *)
(* task-init lock and the order of the exit hooks keep all but two apart.  *)
(***************************************************************************)
THEOREM TwoTasksExclusive ==
  ASSUME Cardinality(Tasks) <= 2
  PROVE  Spec => []CallbacksExclusive
<1>0. AtMostTwo
  BY AtMostTwoTasks
<1>1. Init => ExclusionInv
  <2> SUFFICES ASSUME Init
               PROVE  ExclusionInv
    OBVIOUS
  <2>1. TypeOK
    BY TypeInit
  <2>2. ReapingInv
    BY DEF Init, ReapingInv
  <2>3. \A c \in Calls : lockPc[c] = "start" /\ lockFd[c] = NoFile
    BY DEF Init, Lock!Init
  <2>4. HeldInv /\ StageInv /\ StaleInv
    BY <2>3, CallTypes
       DEF HeldInv, StageInv, StaleInv, Locking, Lock!Holders, Lock!Holds, Lock!Open
  <2>5. WorkerInv
    BY DEF Init, WorkerInv, Working, Mounting, Creating
  <2> QED
    BY <2>1, <2>2, <2>4, <2>5 DEF ExclusionInv
<1>2. ExclusionInv /\ [Next]_vars => ExclusionInv'
  BY <1>0, TypeNext, ReapingNext, HeldNext, StageNext, WorkerNext, StaleNext DEF ExclusionInv
<1> QED
  BY <1>1, <1>2, ExclusionFromInv, PTL DEF Spec
=============================================================================
