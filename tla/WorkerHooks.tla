----------------------------- MODULE WorkerHooks -----------------------------
(***************************************************************************)
(* The hooks of the plugin on one worker, for one job step:                *)
(* slurm_spank_task_init_privileged, which each task's process runs just   *)
(* after slurmstepd forked it, and slurm_spank_task_exit, which slurmstepd *)
(* itself runs for one dead task after the other.  They meet in the file   *)
(* system: the worker lock files, the dump directory, the Enroot mount     *)
(* file and the lock file next to it.  Every system call on a shared file  *)
(* is a step.  File names hold host, job and step, so other hosts, jobs    *)
(* and steps are out of sight; a requeued job has the same names again.    *)
(***************************************************************************)
EXTENDS Naturals, FiniteSets

CONSTANTS
  Tasks,        \* the tasks of the step on this worker
  Jobs,         \* what the step may look like, see JobShapes
  NoFile,       \* no file under a name, no open file
  OldFile,      \* a file left behind by an earlier run of the same step
  MaxFaults,    \* bound on system call failures and kills inside a hook
  MaxRequeues   \* bound on crashes of the worker followed by a requeue

\* inspector: NCCL_INSPECTOR_ENABLE is 1; enabled: the plugin's own setting;
\* batch: the step is the batch script; enroot: /etc/enroot/mounts.d exists;
\* dump: NCCL_INSPECTOR_DUMP_DIR is set, unset or too long for the buffer.
JobShapes ==
  [inspector : BOOLEAN, enabled : BOOLEAN, batch : BOOLEAN, enroot : BOOLEAN,
   dump : {"set", "unset", "long"}]

ASSUME HooksAssumption ==
  /\ IsFiniteSet(Tasks)
  /\ Jobs \subseteq JobShapes
  /\ MaxFaults \in Nat
  /\ MaxRequeues \in Nat
  /\ NoFile # OldFile
  /\ NoFile \notin Tasks /\ OldFile \notin Tasks

InitCall(t) == <<"init", t>>
ExitCall(t) == <<"exit", t>>
Calls == {"init", "exit"} \X Tasks

ASSUME CallsAssumption == NoFile \notin Calls /\ OldFile \notin Calls

UserInitOp == "user-init"
TaskInitOp == "task-init-privileged"
TaskExitOp == "task-exit"
Ops == {UserInitOp, TaskInitOp, TaskExitOp}
MountFile == "mount"

VARIABLES
  job,        \* the shape of the step, the same for every hook call
  task,       \* task[t]: where task t is in its life and its init hook
  hook,       \* where slurmstepd is in the exit hook, or "idle"
  locks,      \* the operations whose worker lock file exists
  dumpDir,    \* the dump directory exists
  mount,      \* the mount file, named by the task that created it
  mountFull,  \* the mount file holds both of its lines
  mountFd,    \* mountFd[t]: the mount file task t writes
  wide,       \* which of the named files have mode 0777
  lockPc, lockFd, lockFile, lockWide,     \* with_lock on the mount file
  won,        \* history: tasks that created the task-init lock in this run
  swept,      \* history: tasks whose exit hook got to removing that lock
  cleanupError, \* history: an exit hook failed before it had its own lock,
                \* or could not remove a lock file
  faults, requeues                        \* how much of the bounds is used

lockVars == <<lockPc, lockFd, lockFile, lockWide>>
mountVars == <<mount, mountFull, mountFd>>
fileVars == <<locks, dumpDir, mountVars, wide>>
history == <<won, swept, cleanupError>>
vars == <<job, task, hook, fileVars, lockVars, history, faults, requeues>>

Lock == INSTANCE WithLock WITH
          pc <- lockPc, fd <- lockFd, dirent <- lockFile, wide <- lockWide

\* The task's process is inside its init hook.
Creating == {"mountStat", "mountOpen", "mountWrite", "mountMode", "mountChmod"}
Mounting == {"mounting", "mounted", "mountFailed"} \cup Creating
InitHook == {"forked", "locking", "lockMode", "lockChmod", "dumping"} \cup Mounting
Alive == InitHook \cup {"running"}

Removing == {"unmounting", "unmounted", "unmountFailed"}
ExitHook == {"locking", "lockMode", "lockChmod"} \cup Removing \cup Ops

TypeOK ==
  /\ job \in JobShapes
  /\ task \in [Tasks -> Alive \cup {"exited", "reaping", "reaped"}]
  /\ hook \in ExitHook \cup {"idle"}
  /\ locks \subseteq Ops
  /\ dumpDir \in BOOLEAN
  /\ mount \in Tasks \cup {NoFile, OldFile}
  /\ mountFull \in BOOLEAN
  /\ mountFd \in [Tasks -> Tasks \cup {NoFile, OldFile}]
  /\ wide \subseteq Ops \cup {MountFile}
  /\ Lock!TypeOK
  /\ won \subseteq Tasks /\ swept \subseteq Tasks
  /\ cleanupError \in BOOLEAN
  /\ faults \in 0..MaxFaults /\ requeues \in 0..MaxRequeues
-----------------------------------------------------------------------------
\* slurmstepd has forked all tasks of a new step; the worker may have seen
\* other steps, so the dump directory may be there already.
Init ==
  /\ job \in Jobs
  /\ task = [t \in Tasks |-> "forked"]
  /\ hook = "idle"
  /\ locks = {} /\ wide = {}
  /\ dumpDir \in BOOLEAN
  /\ mount = NoFile /\ mountFull = FALSE
  /\ mountFd = [t \in Tasks |-> NoFile]
  /\ Lock!Init /\ lockFile = NoFile /\ lockWide = FALSE
  /\ won = {} /\ swept = {} /\ cleanupError = FALSE
  /\ faults = 0 /\ requeues = 0

\* The conditions every hook checks first.
Active == job.inspector /\ job.enabled /\ ~job.batch

Go(t, to) == task' = [task EXCEPT ![t] = to]
Fault == faults < MaxFaults /\ faults' = faults + 1
NoFault == UNCHANGED faults

\* Where ensure_mode goes after its stat(): on, or to chmod().
AfterStat(exists, file, next, chmod) ==
  IF exists /\ file \notin wide THEN chmod ELSE next

\* chmod() of a file that exists; EPERM and EACCES count as success.
MakeWide(file) == wide' \in {wide, wide \cup {file}}
-----------------------------------------------------------------------------
(* snccliprecon_task_init_privileged, in the process of task t.           *)

\* The hook returns ESPANK_ERROR and the process of the task exits.
InitFails(t) ==
  /\ Go(t, "exited")
  /\ UNCHANGED <<job, hook, fileVars, history, requeues>>

\* The early returns; then the environment and the base directory, which no
\* other hook call takes back.
InitBegin(t) ==
  /\ task[t] = "forked"
  /\ Go(t, IF Active THEN "locking" ELSE "running")
  /\ UNCHANGED <<job, hook, fileVars, lockVars, history, faults, requeues>>

InitBeginFails(t) ==
  /\ task[t] = "forked" /\ Active
  /\ Fault /\ InitFails(t) /\ UNCHANGED lockVars

\* Mutant: no O_EXCL, so nobody sees that the lock file was there before.
InitLockNotExclusive(t) ==
  /\ task[t] = "locking"
  /\ Go(t, "lockMode")
  /\ locks' = locks \cup {TaskInitOp}
  /\ wide' = wide \ {TaskInitOp}
  /\ won' = won \cup {t}
  /\ UNCHANGED <<job, hook, dumpDir, mountVars, lockVars, swept, cleanupError,
                 faults, requeues>>

\* Mutant: a task that finds the lock file waits until it is gone.
InitLockWaits(t) ==
  /\ TaskInitOp \notin locks
  /\ InitLockNotExclusive(t)

\* open(O_CREAT | O_EXCL) of the worker lock: the first task goes on, the
\* others return ESPANK_SUCCESS and start user code.
InitLock(t) ==
  /\ task[t] = "locking"
  /\ \/ /\ TaskInitOp \in locks
        /\ Go(t, "running")
        /\ UNCHANGED <<locks, wide, won>>
     \/ /\ TaskInitOp \notin locks
        /\ Go(t, "lockMode")
        /\ locks' = locks \cup {TaskInitOp}
        /\ wide' = wide \ {TaskInitOp}
        /\ won' = won \cup {t}
  /\ UNCHANGED <<job, hook, dumpDir, mountVars, lockVars, swept, cleanupError,
                 faults, requeues>>

InitLockMode(t) ==
  /\ task[t] = "lockMode"
  /\ Go(t, AfterStat(TaskInitOp \in locks, TaskInitOp, "dumping", "lockChmod"))
  /\ UNCHANGED <<job, hook, fileVars, lockVars, history, faults, requeues>>

InitLockChmod(t) ==
  /\ task[t] = "lockChmod"
  /\ \/ /\ TaskInitOp \in locks
        /\ MakeWide(TaskInitOp) /\ Go(t, "dumping")
        /\ UNCHANGED <<job, hook, locks, dumpDir, mountVars, history, requeues>>
     \/ TaskInitOp \notin locks /\ InitFails(t)
  /\ UNCHANGED <<lockVars, faults>>

\* A failing open(), chmod() or close() leaves behind what is there.
InitLockFails(t) ==
  /\ task[t] \in {"locking", "lockChmod"}
  /\ Fault /\ InitFails(t) /\ UNCHANGED lockVars

\* ensure_dump_dir_if_set, then the conditions of create_enroot_mount_if_ready.
InitDumpDir(t) ==
  /\ task[t] = "dumping"
  /\ dumpDir' = (dumpDir \/ job.dump = "set")
  /\ Go(t, IF job.enroot /\ job.dump # "unset" THEN "mounting" ELSE "running")
  /\ UNCHANGED <<job, hook, locks, mountVars, wide, lockVars, history,
                 faults, requeues>>

InitDumpDirFails(t) ==
  /\ task[t] = "dumping" /\ job.dump = "set"
  /\ Fault /\ InitFails(t) /\ UNCHANGED lockVars
-----------------------------------------------------------------------------
(* snccliprecon_enroot_create_mount_file, under with_lock.                *)

\* with_lock up to waiting for the flock.
EnterLock(c) == Lock!OpenLock(c) \/ Lock!StatLock(c) \/ Lock!ChmodLock(c)

MountEnter(t) ==
  /\ task[t] = "mounting"
  /\ EnterLock(InitCall(t))
  /\ UNCHANGED <<job, task, hook, fileVars, history, faults, requeues>>

MountEnterLost(t) ==
  /\ task[t] = "mounting"
  /\ Lock!ChmodLost(InitCall(t)) /\ InitFails(t) /\ NoFault

MountEnterFails(t) ==
  /\ task[t] = "mounting"
  /\ Lock!LockError(InitCall(t)) /\ Fault /\ InitFails(t)

MountHold(t) ==
  /\ task[t] = "mounting"
  /\ Lock!FlockLock(InitCall(t)) /\ Go(t, "mountStat")
  /\ UNCHANGED <<job, hook, fileVars, history, faults, requeues>>

\* create_mount_file_locked leaves an existing mount file as it is.
MountStat(t) ==
  /\ task[t] = "mountStat"
  /\ Go(t, IF mount = NoFile THEN "mountOpen" ELSE "mountMode")
  /\ UNCHANGED <<job, hook, fileVars, lockVars, history, faults, requeues>>

\* open(O_CREAT | O_TRUNC): no O_EXCL, so this may empty another task's file.
MountOpen(t) ==
  /\ task[t] = "mountOpen"
  /\ Go(t, "mountWrite")
  /\ mount' = (IF mount = NoFile THEN t ELSE mount)
  /\ wide' = (IF mount = NoFile THEN wide \ {MountFile} ELSE wide)
  /\ mountFull' = FALSE
  /\ mountFd' = [mountFd EXCEPT ![t] = mount']
  /\ UNCHANGED <<job, hook, locks, dumpDir, lockVars, history, faults, requeues>>

\* dprintf() and close(): the lines reach the name only if it still leads to
\* the file that was opened.
MountWrite(t) ==
  /\ task[t] = "mountWrite"
  /\ Go(t, "mountMode")
  /\ mountFull' = (mountFull \/ mountFd[t] = mount)
  /\ mountFd' = [mountFd EXCEPT ![t] = NoFile]
  /\ UNCHANGED <<job, hook, locks, dumpDir, mount, wide, lockVars, history,
                 faults, requeues>>

MountMode(t) ==
  /\ task[t] = "mountMode"
  /\ Go(t, AfterStat(mount # NoFile, MountFile, "mounted", "mountChmod"))
  /\ UNCHANGED <<job, hook, fileVars, lockVars, history, faults, requeues>>

MountChmod(t) ==
  /\ task[t] = "mountChmod"
  /\ \/ mount # NoFile /\ MakeWide(MountFile) /\ Go(t, "mounted")
     \/ mount = NoFile /\ UNCHANGED wide /\ Go(t, "mountFailed")
  /\ UNCHANGED <<job, hook, locks, dumpDir, mountVars, lockVars, history,
                 faults, requeues>>

\* Mutant: the errors are logged and the hook returns success.
MountFailsSwallowed(t) ==
  /\ task[t] \in Creating \ {"mountMode"}
  /\ Fault /\ Go(t, "mounted")
  /\ mountFd' = [mountFd EXCEPT ![t] = NoFile]
  /\ UNCHANGED <<job, hook, locks, dumpDir, mount, mountFull, wide, lockVars,
                 history, requeues>>

MountFails(t) ==
  /\ task[t] \in Creating \ {"mountMode"}
  /\ Fault /\ Go(t, "mountFailed")
  /\ mountFd' = [mountFd EXCEPT ![t] = NoFile]
  /\ UNCHANGED <<job, hook, locks, dumpDir, mount, mountFull, wide, lockVars,
                 history, requeues>>

MountUnlock(t) ==
  /\ task[t] \in {"mounted", "mountFailed"}
  /\ Lock!Unlock(InitCall(t))
  /\ UNCHANGED <<job, task, hook, fileVars, history, faults, requeues>>

MountUnlink(t) ==
  /\ task[t] \in {"mounted", "mountFailed"}
  /\ Lock!UnlinkLock(InitCall(t))
  /\ UNCHANGED <<job, task, hook, fileVars, history, faults, requeues>>

MountUnlinkFails(t) ==
  /\ task[t] \in {"mounted", "mountFailed"}
  /\ Lock!UnlinkLockFails(InitCall(t)) /\ Fault
  /\ UNCHANGED <<job, task, hook, fileVars, history, requeues>>

\* with_lock returns what the callback returned, and so does the hook.
MountReturn(t) ==
  /\ task[t] \in {"mounted", "mountFailed"}
  /\ Lock!CloseLock(InitCall(t))
  /\ Go(t, IF task[t] = "mounted" THEN "running" ELSE "exited")
  /\ UNCHANGED <<job, hook, fileVars, history, faults, requeues>>
-----------------------------------------------------------------------------
(* The life of a task, which slurmstepd and the user's code decide.       *)

TaskExits(t) ==
  /\ task[t] = "running"
  /\ Go(t, "exited")
  /\ UNCHANGED <<job, hook, fileVars, lockVars, history, faults, requeues>>

\* SIGKILL (scancel, the OOM killer) inside the init hook.
InitKilled(t) ==
  /\ task[t] \in InitHook
  /\ Fault /\ Go(t, "exited")
  /\ mountFd' = [mountFd EXCEPT ![t] = NoFile]
  /\ \/ Lock!Killed(InitCall(t))
     \/ lockPc[InitCall(t)] \notin Lock!Open /\ UNCHANGED lockVars
  /\ UNCHANGED <<job, hook, locks, dumpDir, mount, mountFull, wide, history,
                 requeues>>
-----------------------------------------------------------------------------
(* snccliprecon_task_exit, in slurmstepd, for the dead task t.            *)

ExitReturns(t) == hook' = "idle" /\ Go(t, "reaped")

ExitBegin(t) ==
  /\ task[t] = "exited" /\ hook = "idle"
  /\ \/ Active /\ hook' = "locking" /\ Go(t, "reaping")
     \/ ~Active /\ ExitReturns(t)
  /\ UNCHANGED <<job, fileVars, lockVars, history, faults, requeues>>

\* Mutant: the mount file is left to whoever created it.
AfterExitLockNoUnmount == UserInitOp

\* Mutant: the first removal is called with a name that is no operation.
AfterExitLockWrongOp == IF job.enroot THEN "unmounting" ELSE MountFile

\* After the lock: remove the mount file, then the lock files.
AfterExitLock == IF job.enroot THEN "unmounting" ELSE UserInitOp

\* Mutant: a hook that finds the task-exit lock file waits until it is gone.
ExitLockWaits(t) ==
  /\ task[t] = "reaping" /\ hook = "locking"
  /\ TaskExitOp \notin locks
  /\ locks' = locks \cup {TaskExitOp}
  /\ wide' = wide \ {TaskExitOp}
  /\ hook' = "lockMode"
  /\ UNCHANGED <<job, task, dumpDir, mountVars, lockVars, history, faults, requeues>>

ExitLock(t) ==
  /\ task[t] = "reaping" /\ hook = "locking"
  /\ \/ TaskExitOp \in locks /\ ExitReturns(t) /\ UNCHANGED <<locks, wide>>
     \/ /\ TaskExitOp \notin locks
        /\ locks' = locks \cup {TaskExitOp}
        /\ wide' = wide \ {TaskExitOp}
        /\ hook' = "lockMode"
        /\ UNCHANGED task
  /\ UNCHANGED <<job, dumpDir, mountVars, lockVars, history, faults, requeues>>

\* The base directory or the lock file cannot be made.
ExitLockFails(t) ==
  /\ task[t] = "reaping" /\ hook = "locking"
  /\ Fault /\ ExitReturns(t)
  /\ cleanupError' = TRUE
  /\ UNCHANGED <<job, fileVars, lockVars, won, swept, requeues>>

ExitLockMode(t) ==
  /\ task[t] = "reaping" /\ hook = "lockMode"
  /\ hook' = AfterStat(TaskExitOp \in locks, TaskExitOp, AfterExitLock, "lockChmod")
  /\ UNCHANGED <<job, task, fileVars, lockVars, history, faults, requeues>>

\* Only exit hooks remove this lock file and they run one after the other, so
\* unlike the init hook's it cannot vanish before the chmod().
ExitLockChmod(t) ==
  /\ task[t] = "reaping" /\ hook = "lockChmod"
  /\ MakeWide(TaskExitOp) /\ hook' = AfterExitLock
  /\ UNCHANGED <<job, task, locks, dumpDir, mountVars, lockVars, history,
                 faults, requeues>>

\* From here on an error return leaves the task-exit lock file behind.
ExitLockChmodFails(t) ==
  /\ task[t] = "reaping" /\ hook = "lockChmod"
  /\ Fault /\ ExitReturns(t)
  /\ UNCHANGED <<job, fileVars, lockVars, history, requeues>>

UnmountEnter(t) ==
  /\ task[t] = "reaping" /\ hook = "unmounting"
  /\ EnterLock(ExitCall(t)) \/ Lock!FlockLock(ExitCall(t))
  /\ UNCHANGED <<job, task, hook, fileVars, history, faults, requeues>>

UnmountEnterLost(t) ==
  /\ task[t] = "reaping" /\ hook = "unmounting"
  /\ Lock!ChmodLost(ExitCall(t)) /\ ExitReturns(t)
  /\ UNCHANGED <<job, fileVars, history, faults, requeues>>

UnmountEnterFails(t) ==
  /\ task[t] = "reaping" /\ hook = "unmounting"
  /\ Lock!LockError(ExitCall(t)) /\ Fault /\ ExitReturns(t)
  /\ UNCHANGED <<job, fileVars, history, requeues>>

\* remove_mount_file_locked: ENOENT is success.
Unmount(t) ==
  /\ task[t] = "reaping" /\ hook = "unmounting" /\ Lock!Holds(ExitCall(t))
  /\ \/ mount' = NoFile /\ mountFull' = FALSE /\ hook' = "unmounted" /\ NoFault
     \/ UNCHANGED <<mount, mountFull>> /\ hook' = "unmountFailed" /\ Fault
  /\ UNCHANGED <<job, task, locks, dumpDir, mountFd, wide, lockVars, history,
                 requeues>>

UnmountUnlock(t) ==
  /\ task[t] = "reaping" /\ hook \in {"unmounted", "unmountFailed"}
  /\ Lock!Unlock(ExitCall(t))
  /\ UNCHANGED <<job, task, hook, fileVars, history, faults, requeues>>

UnmountUnlink(t) ==
  /\ task[t] = "reaping" /\ hook \in {"unmounted", "unmountFailed"}
  /\ Lock!UnlinkLock(ExitCall(t))
  /\ UNCHANGED <<job, task, hook, fileVars, history, faults, requeues>>

UnmountUnlinkFails(t) ==
  /\ task[t] = "reaping" /\ hook \in {"unmounted", "unmountFailed"}
  /\ Lock!UnlinkLockFails(ExitCall(t)) /\ Fault
  /\ UNCHANGED <<job, task, hook, fileVars, history, requeues>>

UnmountReturn(t) ==
  /\ task[t] = "reaping"
  /\ \/ hook = "unmounted" /\ hook' = UserInitOp /\ UNCHANGED task
     \/ hook = "unmountFailed" /\ ExitReturns(t)
  /\ Lock!CloseLock(ExitCall(t))
  /\ UNCHANGED <<job, fileVars, history, faults, requeues>>

\* Mutant: the task-init lock file is forgotten.
AfterRemovalShort(t) ==
  \/ hook = UserInitOp /\ hook' = TaskExitOp /\ UNCHANGED <<task, swept>>
  \/ hook = TaskExitOp /\ ExitReturns(t) /\ swept' = swept \cup {t}

\* The lock files go in this order; the last one ends the hook.
AfterRemoval(t) ==
  \/ hook = UserInitOp /\ hook' = TaskInitOp /\ UNCHANGED <<task, swept>>
  \/ hook = TaskInitOp /\ hook' = TaskExitOp /\ UNCHANGED task
                       /\ swept' = swept \cup {t}
  \/ hook = TaskExitOp /\ ExitReturns(t) /\ UNCHANGED swept

\* Mutant: the sweep takes the mount file's own lock file along.
RemoveLockSweeping(t) ==
  /\ task[t] = "reaping" /\ hook \in Ops
  /\ locks' = locks \ {hook}
  /\ lockFile' = NoFile
  /\ AfterRemoval(t)
  /\ UNCHANGED <<job, dumpDir, mountVars, wide, lockPc, lockFd, lockWide, won,
                 cleanupError, faults, requeues>>

RemoveLock(t) ==
  /\ task[t] = "reaping" /\ hook \in Ops
  /\ locks' = locks \ {hook}
  /\ AfterRemoval(t)
  /\ UNCHANGED <<job, dumpDir, mountVars, wide, lockVars, won, cleanupError,
                 faults, requeues>>

\* unlink() failures are logged at debug2 level and otherwise ignored.
RemoveLockFails(t) ==
  /\ task[t] = "reaping" /\ hook \in Ops \cap locks
  /\ Fault /\ AfterRemoval(t)
  /\ cleanupError' = TRUE
  /\ UNCHANGED <<job, fileVars, lockVars, won, requeues>>
-----------------------------------------------------------------------------
\* The worker goes down, the job is requeued under the same id and its step
\* starts again on this worker.  The files are still there.
Requeue ==
  /\ requeues < MaxRequeues
  /\ requeues' = requeues + 1
  /\ task' = [t \in Tasks |-> "forked"]
  /\ hook' = "idle"
  /\ mount' = (IF mount = NoFile THEN NoFile ELSE OldFile)
  /\ mountFd' = [t \in Tasks |-> NoFile]
  /\ Lock!Restart
  /\ won' = {} /\ swept' = {} /\ cleanupError' = FALSE
  /\ UNCHANGED <<job, locks, dumpDir, mountFull, wide, faults>>

InitStep(t) ==
  \/ InitBegin(t) \/ InitLock(t) \/ InitLockMode(t) \/ InitLockChmod(t)
  \/ InitDumpDir(t) \/ MountEnter(t) \/ MountEnterLost(t) \/ MountHold(t)
  \/ MountStat(t) \/ MountOpen(t) \/ MountWrite(t) \/ MountMode(t)
  \/ MountChmod(t) \/ MountUnlock(t) \/ MountUnlink(t) \/ MountReturn(t)

InitFault(t) ==
  \/ InitBeginFails(t) \/ InitLockFails(t) \/ InitDumpDirFails(t)
  \/ MountEnterFails(t) \/ MountFails(t) \/ MountUnlinkFails(t) \/ InitKilled(t)

ExitStep(t) ==
  \/ ExitBegin(t) \/ ExitLock(t) \/ ExitLockMode(t) \/ ExitLockChmod(t)
  \/ UnmountEnter(t) \/ UnmountEnterLost(t) \/ Unmount(t) \/ UnmountUnlock(t)
  \/ UnmountUnlink(t) \/ UnmountReturn(t) \/ RemoveLock(t)

ExitFault(t) ==
  \/ ExitLockFails(t) \/ ExitLockChmodFails(t) \/ UnmountEnterFails(t)
  \/ UnmountUnlinkFails(t) \/ RemoveLockFails(t)

Next ==
  \/ \E t \in Tasks : InitStep(t) \/ InitFault(t) \/ TaskExits(t)
  \/ \E t \in Tasks : ExitStep(t) \/ ExitFault(t)
  \/ Requeue

Spec == Init /\ [][Next]_vars

\* The kernel schedules the tasks' processes and slurmstepd; nothing obliges
\* the user's code to end.
FairSpec ==
  /\ Spec
  /\ \A t \in Tasks : WF_vars(InitStep(t))
  /\ \A t \in Tasks : WF_vars(ExitStep(t))
-----------------------------------------------------------------------------
AllReaped == \A t \in Tasks : task[t] = "reaped"
ExitHookSeen == \E t \in Tasks : task[t] \in {"reaping", "reaped"}

\* What the init hook is there to provide.
DirReady == job.dump = "set" => dumpDir
MountReady == job.enroot /\ job.dump # "unset" => mount # NoFile /\ mountFull
Prepared == DirReady /\ MountReady

(***************************************************************************)
(* The last exit hook leaves nothing behind, except that a task-exit lock  *)
(* file that is still there tells of a cleanup that was cut short (by an   *)
(* error, a race or a crash, in this run or an earlier one).  Failures and *)
(* kills inside init hooks and any overlap of init and exit hooks do not   *)
(* matter; an exit hook that fails before it takes its lock, or an unlink  *)
(* of a lock file that fails, does.                                        *)
(***************************************************************************)
CleanOrMarked ==
  AllReaped /\ Tasks # {} /\ Active /\ ~cleanupError /\ TaskExitOp \notin locks
    => locks = {} /\ mount = NoFile

(***************************************************************************)
(* A task whose own init hook did the preparation runs user code with the  *)
(* dump directory and a complete mount file in place, for as long as no    *)
(* task of the step has entered its exit hook.  Only a mount file from an  *)
(* earlier run is taken as it is, with or without its lines.               *)
(***************************************************************************)
WinnerPrepared ==
  ~ExitHookSeen =>
    \A t \in won : task[t] = "running" => DirReady /\ (mount # OldFile => MountReady)

(***************************************************************************)
(* The preparation is repeated only as often as exit hooks removed the     *)
(* task-init lock, whatever is killed or fails: at most once more.         *)
(***************************************************************************)
SetupRounds == Cardinality(won) <= 1 + Cardinality(swept)

(***************************************************************************)
(* With two tasks on the worker the callbacks under with_lock exclude each *)
(* other, although with_lock alone does not promise it for the four calls  *)
(* the two tasks can make.                                                 *)
(***************************************************************************)
CallbacksExclusive == \A c, d \in Lock!Holders : c = d

(***************************************************************************)
(* The hooks use with_lock as its module says: every step of theirs is a   *)
(* step of it, so what holds of WithLock holds of the mount file's lock.   *)
(***************************************************************************)
UsesWithLock == Lock!Spec

(***************************************************************************)
(* No hook hangs: an init hook that was entered returns (or its process    *)
(* dies), and every dead task gets reaped, although init hooks and exit    *)
(* hooks wait for each other's flock.                                      *)
(***************************************************************************)
InitHooksReturn == \A t \in Tasks : []<>(task[t] \notin InitHook)
DeadTasksReaped == \A t \in Tasks : []<>(task[t] \notin {"exited", "reaping"})
-----------------------------------------------------------------------------
(* What the documentation says of the hooks.                              *)

(***************************************************************************)
(* Every task the plugin acts on starts user code with its files prepared  *)
(* (as long as no task of the step has entered its exit hook).             *)
(***************************************************************************)
PreparedBeforeLaunch ==
  Active /\ ~ExitHookSeen => \A t \in Tasks : task[t] = "running" => Prepared

(***************************************************************************)
(* The cleanup is done once per worker and step.                           *)
(***************************************************************************)
CleanupOnce == Cardinality(swept) <= 1

(***************************************************************************)
(* The Enroot mount file is gone when every task was reaped.               *)
(***************************************************************************)
MountRemoved == AllReaped /\ Active /\ Tasks # {} => mount = NoFile
=============================================================================
