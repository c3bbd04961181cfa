# A verification project for the NCCL Inspector SPANK plugin

The repository's program is `src/spank/nccl-inspector-preconf`, a SPANK plugin
that slurmstepd loads for every job step. It prepares the files and the
environment that NCCL Inspector needs (a dump directory, an Enroot mount file)
before a task starts user code, and removes them when tasks end. All of its
state is in files and environment variables that several processes touch at
once; there is no daemon of its own and no memory shared between the hooks.
Source names below leave out the prefix
`src/spank/nccl-inspector-preconf/src/snccliprecon`, so `_file_ops.c` is
`src/spank/nccl-inspector-preconf/src/snccliprecon_file_ops.c` and `.c` is
`snccliprecon.c`.

## 1. Inventory

| Component | State | Operations | What makes it correct |
|---|---|---|---|
| `with_lock` (`_file_ops.c:104-140`) | the lock file `<path>.lock`, its mode, every caller's descriptor and flock | open, `ensure_mode` (stat, chmod), flock, callback, unlock, unlink, close | callbacks exclude each other; nobody waits for ever; a lock file that stays is somebody's error |
| worker lock files (`_worker_lock.c`) | one file per operation, host, job and step | create with `O_EXCL` and make 0777; remove | of the tasks of a step on a worker, one does the work |
| Enroot mount file (`_enroot.c`) | the file in `/etc/enroot/mounts.d` | create (under `with_lock`), remove (under `with_lock`) | whole when a container starts, gone when the step ended |
| directories (`_file_ops.c:45-102`) | base directory, dump directory | `mkdir_all`, `ensure_dir` | exist with mode 0777, whoever makes them; callers do not make each other fail |
| `task_init_privileged` hook (`_op_task_init_privileged.c`) | | own dump directory, base directory, task-init lock, dump directory, mount file | prepared before user code starts |
| `task_exit` hook (`_op_task_exit.c`) | | base directory, task-exit lock, mount file, the three lock files | nothing stays behind |
| `user_init` hook, job environment (`_op_user_init.c`, `_env.c`) | the job's environment, the flag that says the plugin owns the dump directory | get, exists, set, set if missing | the user's settings win over defaults |
| configuration (`_config.c`) | `snccliprecon_config_t`, in srun and again in slurmstepd | reset, plugstack arguments, environment, srun options | default < plugstack < environment < option; every text fits its buffer, also after a rejected one; srun and slurmstepd agree on what they reject |
| dump directory placeholders (`_config.c:156-263`) | | `render_dump_dir` with job placeholders, later step placeholders | bounded, the two passes give what one would |
| entry points and gates (`.c:168-286`) | | `slurm_spank_init`, `_user_init`, `_task_init_privileged`, `_task_exit` | the plugin does nothing where it is not wanted |
| logging (`.c:28-155`), build and packaging | | | no state the hooks depend on |

How the parts interact. slurmstepd calls `user_init` once per step, forks the
tasks, and each forked process calls `task_init_privileged` *concurrently*
with the others; an error makes the process exit. slurmstepd itself calls
`task_exit` for *one dead task after the other*, while other tasks may still be
in their init hook. The hooks meet in the file system only: the worker lock
files decide who prepares and who cleans up, and the mount file is created and
removed under `with_lock`. File names hold host, job and step, so hosts, jobs
and steps do not disturb each other, but a requeued job has the same names
again.

The hard behaviours are therefore

* interleavings of init hooks with each other and with exit hooks (a task can
  die before another has finished its init hook), at the grain of system calls;
* names and files: `open`, `stat`, `chmod` and `unlink` work on names, `flock`
  and `write` on files, and the name may lead elsewhere in between;
* a system call that fails half-way, a task killed inside a hook, a crash of
  the worker with the files left for the requeued job;
* everybody waiting in `flock` without a timeout, slurmstepd included;
* environment variables that outlive the process that set them, and buffers
  whose size decides whether a variable is seen;
* directories that other tasks, steps, workers and users make and remove while
  `mkdir_all` walks down to them without a lock;
* texts at the limit of their buffer: a value that is cut within a placeholder, a
  number at the top of its range, a template rendered twice.

`PROJECT.json` lists each one as a hazard at its line. Where the code gives up by design, the hazard has no
property that would catch it but a note, and the properties next to it show that the exception they make is the
only one: a mount file of an earlier run (`_enroot.c:22`), a user's value longer than the buffer
(`_env.c:12`), a flag that could not be set (`_op_user_init.c:50`), a directory's name taken by something else
(`_file_ops.c:15`).

## 2. Modules

| Module | Models | State and actions |
|---|---|---|
| `WithLock` | `snccliprecon_with_lock` for any set of calls on one path | `pc`, `fd`: a call's next system call and open file; `dirent`: the file under the lock's name; `wide`: its mode. One action per system call (`OpenLock`, `StatLock`, `ChmodLock`, `FlockLock`, `Unlock`, `UnlinkLock`, `CloseLock`), one per way to go wrong (`ChmodLost`, `LockError`, `UnlinkLockFails`, `Killed`), and `Restart` |
| `LockPromise` | what `with_lock` really promises, as an abstract specification: a call enters its callback at most once, and beside another only on the account of a call that took the lock file's name away | `phase[c]`; `Enter`, `Leave`, `Release`, `End`, `Restart` |
| `WorkerHooks` | both privileged hooks of one step on one worker, with `WithLock` as the mount file's lock | `task[t]`: a task's life and position in its init hook; `hook`: slurmstepd's position in the exit hook; `locks`, `dumpDir`, `mount`, `mountFull`, `wide`: the files; `mountFd`: the mount file a task writes. `Init...` and `Mount...` actions are the init hook, `Exit...`, `Unmount...`, `RemoveLock` the exit hook |
| `JobEnv` | what a step's user code finds in its environment: `slurm_spank_init`, the option callbacks, `user_init`, and the rendering of the dump directory in `task_init_privileged`, for steps that are started from the user code of other steps | `phase[s]`, `config[s]` (per setting, the source it is from), `environ[p]` (the NCCL variables with their origin, the `SNCCLIPRECON_*` variables, the ownership flag); `SpankInit`, `SpankOptions`, `UserInit`, `TaskInit` for the plugin, `Start` and the `Set...` actions for users |
| `PluginConfig` | the texts of all settings: `slurm_spank_init`, the arguments, the environment, the option callbacks, in srun and then in slurmstepd, and the two renderings of the dump directory, with `DumpDirRender` as the renderer | `input`: what the step is given; `process`, `phase`, `pending`: who reads it and how far; `config`: the buffers; `dumpDir`. `SpankInit`, `ParseArg`, `ArgsParsed`, `ParseOption`, `Launch`, then `UserInit`, `TaskInit` and what follows their rendering |
| `DumpDirRender` | `render_dump_dir` | `template`, `next`, `output`, `status`: one iteration of the loop per step (`Substitute`, `Copy`, `Return`), one `Call` per rendering |
| `EnsureDir` | `snccliprecon_ensure_dir` for any set of calls on a tree of directories, among others who remove and create entries | `pc`, `at`: a call's next system call and component; `kind`, `wide`: what is under each name and whether its mode is 0777. `Stat`, `Mkdir...`, `StatMode`, `Chmod`, `Fails` per call; `Remove`, `Put` for others |
| `MCWithLock`, `MCWorkerHooks`, `MCJobEnv`, `MCPluginConfig`, `MCEnsureDir` | instances for TLC | |
| `WithLockProofs`, `WorkerHooksProofs`, `JobEnvProofs`, `PluginConfigProofs`, `DumpDirRenderProofs`, `EnsureDirProofs` | theorems about the six | |
| `IntervalProofs` | theorems about the number parser of `PluginConfig` | |
| `DataLemmas` | induction and recursion over the naturals, joined sequences and sums, for the proofs about texts | |

`WorkerHooks` composes with `WithLock` through `Lock == INSTANCE WithLock WITH
...`: the calls are `InitCall(t)` and `ExitCall(t)`, and the hook actions
conjoin the lock's actions with what the hook does at that point. The property
`UsesWithLock` (the instance's own specification) says that this composition is
honest, and it is both checked and proved. `PluginConfig` composes with
`DumpDirRender` in the same way (`Render == INSTANCE DumpDirRender WITH ...`): the
hooks call it, and `HooksUseRender` proves that the composition is one of the renderer's
own behaviors. `EnsureDir` stands beside `WorkerHooks`, whose `InitDumpDir` (the
directory is made) and `InitDumpDirFails` are the two ways its calls end.

How code is read into actions:

* Every system call on a file that another process may touch is a step. Work
  that nobody else sees (paths, environment of the hook's own process) is folded
  into the step before or after it.
* Files have identities, named by whoever created them, so an unlinked file and
  its successor under the same name are different files.
* `ensure_mode` is a `stat` and a `chmod`; `EPERM`/`EACCES` count as success
  and leave the mode, `ENOENT` is an error.
* A failing system call whose result the code ignores is a step too. In `with_lock` that is
  the `unlink` of the lock file (`_file_ops.c:135`): the call goes on to `close` and returns as
  if the name were free. The `flock(LOCK_UN)` and the `close` are ignored as well, but cannot
  keep the flock beyond the call.
* The environment a hook reads (is the plugin enabled, batch step or not, is the
  dump directory set, unset or longer than the buffer, does the worker have
  Enroot) does not change while the hooks of a step run: it is the constant
  record `job`, and the runs take one shape or all of them.
* `Fault`: every `...Fails` action is the error path of the code at that place,
  and `InitKilled` a SIGKILL inside the init hook. `MaxFaults` bounds them.
* `Requeue`: the worker goes down, processes are gone, files stay, the step is
  started again under the same names. `MaxRequeues` bounds it.
* `won`, `swept` and `cleanupError` are history variables; no guard reads them. So
  are `mine`, `parent` and `flagLost` in `JobEnv`.
* `JobEnv` is apart from `WorkerHooks`: environments are private copies, files are
  shared, and what the one module fixes (`job`, the environment `WorkerHooks` takes as
  given) is what the other computes. A value is represented by its origin: nobody, the
  user (fitting the 4096 byte buffer or not), or the plugin with the source of the
  setting and, for a dump directory, the step it was rendered for. `NCCL_PROFILER_PLUGIN`,
  `_PROM_DUMP`, `_DUMP_VERBOSE` and `_DUMP_THREAD_INTERVAL_MICROSECONDS` are treated
  alike by the code and are one variable. Steps get their parent's whole environment;
  `--export` lists that drop variables are not modelled. Batch scripts get no options:
  sbatch loads the plugin in the allocator context, where `slurm_spank_init` returns before
  it registers any (`.c:186-193`).
* `PluginConfig` has what `JobEnv` leaves out, and the reverse: a text is a sequence of
  characters, a buffer a number of them, but there is one step with a fixed environment. The
  arguments and options are read one per step, the six variables of the environment at
  once, since a variable only changes its own setting. Equal code of the two paths and of
  the three switches is one definition over the name of the setting. An argument without
  `=`, without a name or with a name too long has the name `Unknown`: it is rejected like
  one that nobody knows. `srun` hands on the last value of an option that is given twice.
* The texts a word such as `true` consists of are not spelled out: `TrueTexts` is a set. The
  three appends of `%J` are one, which fails exactly if one of the three does, and what a failed
  call leaves in the buffer is read by nobody.
* In `EnsureDir` a path is the sequence of directories it leads through (the components
  above them are there), so calls share parents as the configured paths do. `kind`
  says what `stat()` finds: nothing, a directory (also through a link), another entry,
  or a link to nowhere, which `mkdir()` takes for something and `stat()` for nothing. The
  mode after `mkdir()` is a choice, for the caller's umask. `hit` and `removed` are history
  variables: which calls met an error of their own, and what others removed.

Modelled from outside the repository: slurmstepd (when hooks are called, in
which process), the user's code (a task may run for ever), the kernel (`flock`
waits for holders of the same file and is dropped when its holder dies).

## 3. Runs

| Run | Instance | Properties | Shows |
|---|---|---|---|
| `lock` | 4 calls, errors, failing unlinks, kills and restarts unbounded, fair | `TypeOK`, `OverlapBound`, `LeftByItsCreator`, `KeepsPromise`, `EveryCallReturns` | callbacks overlap only as far as `LockPromise` allows, who left a lock file is known, and nobody waits for ever |
| `hooks` | 3 tasks, 1 fault, a dump directory that fits or not | `CleanOrMarked`, `WinnerPrepared`, `SetupRounds` | three tasks are needed for two to be in init hooks while a third is reaped, or for two exit hooks to meet one init hook |
| `hooks_requeue` | 2 tasks, every shape of a step but the long dump directory, 1 fault, 1 requeue, fair | `TypeOK`, `CleanOrMarked`, `WinnerPrepared`, `SetupRounds`, `CallbacksExclusive`, `UsesWithLock`, `InitHooksReturn`, `DeadTasksReaped` | what holds after a crash; two tasks never overlap in `with_lock`; no hook hangs |
| `job_env` | 2 steps, 6 login shells, 3 command lines, 1 edit, 1 fault | `TypeOK`, `UserValueKept`, `StepDirOwn`, `LoginOrder` | which value wins, down a chain of steps |
| `plugin_config` | every dump directory up to 5 characters of 5 and up to 7 of 3, every interval up to 4 of 5, and every order of 2 arguments, a variable and 2 options, good, bad and too long; buffers of 7 and 4 bytes, numbers up to 25 | `TypeOK`, `SettingsFit`, `IntervalExact`, `LastOneWins`, `RefusedBySrun`, `DumpDirExported`, `DumpDirFits`, `DumpDirMeant`, `StepDirFromJobDir` | what becomes of a text on its way into the environment of a task |
| `ensure_dir` | 2 calls for one directory, 1 for its sibling, from every state of the 3 directories, errors, kills and others' changes unbounded | `TypeOK`, `ReadyIsReady`, `NoneFailsAlone` | a call that succeeds has its directory, one that fails has a reason |
| `early_launch`, `cleanup_again`, `mount_left`, `overlap` | 2 tasks (`overlap`: 3), no fault | one documented claim each | section 4 |
| `options_inherited`, `user_dir` | 2 steps, no fault | one documented claim each | section 4 |

Bounds. One fault is enough to reach every error path from every state; a second
one only adds paths that end earlier (the model was also run with two faults
and two tasks while it was written). One requeue is enough to meet every set of
files a crash can leave. Two tasks are the least with any interleaving; three
are the least in which `with_lock`'s callbacks overlap inside the hooks (`overlap`), which is why
`WinnerPrepared` and `CleanOrMarked` are checked with three, beside two with a requeue. In `lock`, four calls
let two waiters be stranded on two successive unlinked files. In `job_env`, two steps
are one inside the other, which is where inheritance matters; a third was tried with
one shell and no fault, and any depth is proved. In `plugin_config` the buffers are
small so that every text around their size is tried: a path of 7 bytes takes a
setting that is cut between the `%` and the letter of a placeholder, a rendering that
fits exactly and one that is a character too long; 25 as the largest number has a
last digit that is neither 0 nor 9, so a number is out of range by its last digit, or
by its length. In `ensure_dir`, two calls race for each component, and the third shares
the parent but not the directory. Safety for other sizes is what the proofs are for
(section 5).

Symmetry of the tasks (and of the steps in `JobEnv`) is used in safety runs, where they
occur in equality tests only; of the calls of `EnsureDir`, the two with the same path are
interchangeable. Runs with a liveness property use none. `CHECK_DEADLOCK` is off where the step (or the calls) simply end.

Fairness. `FairSpec` of `WithLock` gives every call weak fairness on its own next
system call: the kernel schedules every process, and a caller blocked in `flock`
gets it if it stays free. Errors, kills and restarts get none. `FairSpec` of
`WorkerHooks` is the same per task for the init hook and for slurmstepd's exit
hook; user code gets none, so a task may run for ever. Neither assumes that there is no
restart or requeue: those may interrupt a hook at any point, and end the waiting of
its process with it. The liveness properties say `[]<>` of a call or a task: it is again and again out of the function
or the hook, hence leaves it whenever it is in. They hold because a waiter in
`flock` waits for calls that need nothing from anyone else, and because slurmstepd runs
exit hooks one after the other and each returns. `EnsureDir` and `PluginConfig`
state no fairness: their calls never wait.

What the properties say, beyond the comments in the modules:

* `CleanOrMarked` is the strongest cleanup guarantee the code gives. Each exit
  hook removes its own task-exit lock at the end, so the cleanup runs once per
  task, and it is the *last* one that matters: files that an init hook makes
  after one cleanup are taken by the next. If any hook after its lock fails,
  its lock file stays and marks the cleanup as cut short. A worker lock whose own `unlink`
  failed is only logged and nothing tries again: that is exempt (`cleanupError`).
* `WinnerPrepared` is what remains of "prepared before launch": it holds for the
  task that won the lock, until the first exit hook, also after a crash. The one exception
  is a mount file of an earlier run (`OldFile`), which the requeued step takes as it is,
  with its lines or without (`_enroot.c:22`).
* `SetupRounds` bounds the repetition of the preparation: an exit hook removes the
  task-init lock even while tasks are still starting, so a late task prepares
  again, for a step that is partly over.
* `ReadyIsReady` and `NoneFailsAlone` say in which sense `ensure_dir` may be called by everyone
  at once. Both have an exception for what the code cannot know: a name taken by something
  that is no directory (section 4), and a directory that somebody removed in between.
* `LastOneWins` is the configuration order for one step, with what the README does
  not say: a text that is too long is rejected *and* stored as far as it fits, so it
  still beats what came before it. `SettingsFit` and `DumpDirMeant` say that the rest
  is a text like any other. `RefusedBySrun`: a bad option fails the command, never the step.
* `StepDirFromJobDir`: the code renders the setting again from the start, while the plugin's README
  (lines 87-88) describes a second expansion of the job-level directory; both give the same.
* `LeftByItsCreator` is what the code guarantees of its lock files, where every unlink may fail or
  be cut short: unlinking goes by name, so a call may remove another's file, and its own may be
  removed by another. A call that got through its unlink is never the reason for a file that is
  there, and one unlink is enough to remove what a crash left.
* `OverlapBound` and `LockPromise` state what is left of mutual exclusion when
  the holder unlinks the lock file's name before it lets go of the descriptor.

## 4. Findings

| Run | Claim | What the code does |
|---|---|---|
| `early_launch` | `.c:241`: files are prepared "before launching a task" | a task that finds the task-init lock returns success at once (`_op_task_init_privileged.c:288`) and may start user code before the lock's creator has made the directory or the mount file |
| `cleanup_again` | `.h:68`: cleanup "once per worker and step" | the exit hook removes its own lock (`_op_task_exit.c:78`), so every task's exit repeats the cleanup, also while other tasks run |
| `mount_left` | plugin `README.md:98`: "The mount file is removed during task exit." | an exit hook that stats `mount.lock`, then loses it to another call's unlink, fails in `chmod` with `ENOENT`, leaves the task-exit lock, and no later exit hook removes the mount file; no error or kill is needed |
| `overlap` | `_file_ops.h:51`: "while holding an exclusive file lock" | `with_lock` unlinks the name (`_file_ops.c:135`), so a waiter on the old file and a caller that creates a new one both get in; with three tasks the mount file is removed while it is written |
| `options_inherited` | plugin `README.md:32-37`: srun options come last | `user_init` exports what is missing, steps started from there inherit it and take it for the user's own (`_env.c:36`); srun options are without effect inside batch scripts, except on the dump directory, which `task_init_privileged` renders again |
| `user_dir` | `_op_task_init_privileged.c:20-22`: user-provided directories "remain untouched" | the ownership flag is inherited and outlives the directory it stood for: a directory exported in a batch script is rewritten |

A value that does not fit the buffer counts as missing (`_env.c:12`) and is overwritten,
so `UserValueKept` is stated for values that fit.

Seen while modelling, without a run of their own: `ensure_dir` returns 0 without a directory
when its name is a link to nowhere, since `mkdir()` answers `EEXIST` and `ensure_mode` has
nothing to do (`_file_ops.c:69` and `:15`, against `_file_ops.h:43`), which is the exception in
`ReadyIsReady`; only the last component of a path gets mode 0777, its new parents
get what the umask leaves; and a rejected text that is too long stays in the
configuration, cut (`_config.c:89`).

A crash has one more effect that follows from the first finding and is not listed
apart: the task-init lock survives the crash, so the requeued step skips the
preparation altogether.

## 5. Proofs

`WithLockProofs` (for every finite set `Calls`, with `NoFile`, `OldFile` and the calls
distinct):

* `TypeCorrect`, and `LockFileAccounted` (`LeftByItsCreator`, inductive with the types: a name
  is given to a file only by a call that starts, and every step that adds an unlinker frees it).
* `OverlapBounded`. `OverlapBound` is not inductive: it counts holders, and the
  holders' *files* are what a step changes. `OverlapInv` adds that a
  call between open and return has a descriptor, that holders of the same file
  are equal (`FlockInv`), and `LiveInv`: the files within reach (under the name or
  open) are at most as many as the calls that unlinked the name, plus one while the
  name is taken. Creating a file needs the name free, and each call frees it once; holders are
  injectively mapped to live files.
* `PairExclusive`: with two calls holders are equal. `PromiseKept`: `Spec => KeepsPromise`,
  each step mapped to a step of `LockPromise` or a stutter, `Enter`'s
  guard being `OverlapInv`'s bound.

`WorkerHooksProofs` (for every finite set `Tasks`, all `MaxFaults`, `MaxRequeues`, all
sets of shapes of a step):

* `TypeCorrect`.
* `HooksInvariant`, with `HooksInv == TypeOK /\ ReapingInv /\ CleanInv /\ RoundsInv`.
  `CleanOrMarked` speaks of the end only; `CleanInv` carries it through the run:
  a mount file or task-init lock that is there after the running exit hook has
  passed the point where it removes them belongs with a task whose own exit
  hook has not begun (`Pending`), since only init hooks make such files. A step of an
  init hook makes its own task pending, so the lemma `InitStepEffect` settles
  all of them; the exit hook's steps are taken one by one.
* `CleanedOrMarked` and `RoundsBounded` from it: `CleanOrMarked` and `SetupRounds`.
* `WinnerIsPrepared`: `WinnerPrepared`, for any number of requeues. `WinnerInv`
  says that until an exit hook begins there is one winner, only it touches the mount file
  (any step of another task is `WinnerOtherStep`), and what it has prepared so far
  (`PreparedSoFar`): a mount file that is there is its own, or an earlier run's, which is
  why the exception for `OldFile` is needed and nothing more.
* `HooksUseWithLock`: `Spec => UsesWithLock`, hence the theorems of `WithLockProofs` apply to
  the mount file's lock.
* `TwoTasksExclusive`: `CallbacksExclusive`, under `Cardinality(Tasks) <= 2` (run `overlap` refutes
  it for three). Two tasks can make four calls of `with_lock`, for which `WithLock` alone allows
  an overlap, so the proof is about how the hooks use it. `ExclusionInv` says that a call is
  under way only in its hook's part on the mount file (`StageInv`), that one init hook works at a
  time, since the task-init lock is there or was removed by an exit hook, whose task starts no
  init hook any more (`WorkerInv`), that holders of one file are equal (`HeldInv`), and what is to
  be said of a call that has yet to let go of the flock and whose lock file has lost its name
  (`StaleInv`): it is alone, because the other task's hook has got through its unlink and makes
  no other call meanwhile. A failing unlink takes no name away, so it makes no call stale. Two holders would be an init
  hook and the other task's exit hook, with different files, so one of them would be stale.

`JobEnvProofs` (for every set `Steps`, every nesting, all `Environs`, `Options` and bounds
`JobAssumption` admits):

* `TypeCorrect`.
* `UserValuesKept` (`UserValueKept`): `UserInv` says the same of every process at every
  point, not only of steps that are ready, and that is inductive.
* `StepDirsOwn` (`StepDirOwn`), with `FlagInv`: wherever a dump directory is the plugin's,
  the flag is with it, unless setting it failed. Users can remove the directory but
  nothing removes the flag, so every step below renders its own. `user_init`'s effect is
  the lemma `ExportEffect`.
* `OrderFromLogin` (`LoginOrder`): `StageInv` follows a step through its hooks, with the
  environment equal to what the user made of it until `user_init` runs.

`DataLemmas` is what the next three rest on. A theorem of the library that takes an operator, as its
induction theorems do, cannot be instantiated here, so induction is stated about *sets*:
`LeastNat` gets the least element of a set of naturals from the well-foundedness of strict
inclusion between finite sets (a theorem of the library without an operator), and
`InductionUpTo` says that a set that has 0, and each `k` up to `n` whose predecessor it has,
has all of `0..n`. A recursive function is to the prover a `CHOOSE` of one that
satisfies its equation; `RecursionExists` builds such a function step by step, which makes the equation
usable for local recursive functions, for `FlattenSeq` (`FlattenIsJoins`) and for `SumFunction`
(`SumFunctionIsSums`, where any order of summation gives the same).

`DumpDirRenderProofs` (for all templates, ids and buffer sizes `RenderConstants` admits):

* `TypeCorrect` and `OutputFits`, each an invariant together with the other: the index stays in the
  template because a placeholder needs a letter after its `%`.
* `RenderingIsMeaning`: a call that succeeds has rendered the documented meaning of the template, defined without the
  loop (`Meaning` joins what each character stands for), and one that fails had no room for it. The
  invariant is `LoopInv`: the output is the meaning of what has been passed, and the loop
  never stops between a `%` and its letter.
* `SecondPass`: for every template, rendering for the job and then for the step means what the step's
  rendering alone means. By induction over the template, with `MeansTheSame`: what the first pass made of
  a prefix means the same to the second, and its last `%` is one of the template. It is *not* true of
  ids that are arbitrary texts: an id that begins with a placeholder's letter would complete a `%`
  before it. `RenderConstants` therefore says that job and step ids are texts of digits (`Numerals`), which is what
  `snprintf` with `"%u"` makes of them (`_op_user_init.c:22`, `_op_task_init_privileged.c:275-276`).
* `StepFromJob`: the same of the renderer's state.

`IntervalProofs` (texts of any length, every `UintMax`):

* `OverflowTestExact`: the arithmetic of `set_uint_string`'s test before one digit.
* `ParserIsExact`: the loop accepts a text of digits if and only if its number is at most `UintMax`. Its
  accumulator wraps around, so after a failed test it means nothing; the induction shows that up to the first
  failed test it equals the unbounded number, and that more digits make no smaller number. The unbounded
  number, read digit by digit, is the sum of what each digit is worth at its place (lemma `ReadByDigits`).

`PluginConfigProofs` (for all inputs, buffer sizes and defaults `ConfigAssumption` and `DefaultAssumption`
admit; the latter says that the built-in interval, `"1000000"` at `_config.c:23`, is a number in range):

* `ConfigInvariant`, with `ConfigInv`: the types, `SettingsFit`, the renderer's invariants and four
  parts of its own. `OptionsInv`: srun's options are either checked or still pending, hence all of them checked
  when the step is launched, and what slurmstepd gets (`LastGivenTypes`) are some of them. `ReadInv`:
  each setting is what the texts so far make of it, those of the arguments that are done, then of the
  environment and the options that are done, and when all is read, of all. `IntervalInv`: the
  interval is a number in range, also when it is the rest of one that was cut. `StepDirInv`: what a
  task starts with was rendered for its step from the setting, and from nothing else.
* From it `TypeCorrect`, `SettingsAlwaysFit`, `OnlySrunRefuses`, `DumpDirAlwaysFits`; `LastSourceWins`
  (`LastOneWins`, for any number of texts, where the run has two arguments, a variable and two options);
  `IntervalIsExact` (with `ParserIsExact`); `TaskDirIsDocumented`, `HooksRenderMeaning` and
  `JobDirKeepsPlaceholders` (`DumpDirExported`, `DumpDirMeant`, `StepDirFromJobDir`, with the theorems about the renderer).
* `HooksUseRender`: `Spec => Render!Spec`. The lemmas of `DumpDirRenderProofs` are used through an
  instance, `RenderKeeps` being the bridge.

`EnsureDirProofs` (for every set of calls and every tree of paths `PathAssumption` admits): `TypeCorrect`;
`ReadyMeansReady` and `NobodyFailsAlone` from one invariant, which says what a call knows at
each system call: the directories above its component are there unless somebody removed one
or something else is in the way. It survives the other calls' steps, since what is there and
is not removed stays as it is.

Every invariant a run checks is the property of a theorem, and so are `KeepsPromise` and `UsesWithLock`.
Model-checked only: liveness (`EveryCallReturns`, `InitHooksReturn`, `DeadTasksReaped`), which
needs `ENABLED` of fair actions, out of the prover's reach. The violations of section 4 are what TLC finds.

## 6. Not modelled, and the plan

Not modelled: logging (no state), build and packaging, the text of the files, paths
(one name per file), the fallback host name of `_worker_lock.c:11-23`, `--export` lists, and
slurmstepd itself: the hooks' errors are assumed to count, as they do for a plugin that
`plugstack.conf` marks as required.

Left for later: a composition in which `InitDumpDir` of `WorkerHooks` is a call of `EnsureDir`.
