------------------------------ MODULE WithLock ------------------------------
(***************************************************************************)
(* snccliprecon_with_lock (snccliprecon_file_ops.c): run a callback while  *)
(* holding flock(LOCK_EX) on "<path>.lock", a file every caller opens      *)
(* (O_CREAT), makes 0777 by name, locks, and finally unlinks by name.      *)
(*                                                                         *)
(* One element of Calls is one call of the function by one process on the  *)
(* same path; a call runs once.  A file is identified by the call that     *)
(* created it, so a file whose name was unlinked stays distinct from the   *)
(* file that took the name over.  Every system call is a step of its own.  *)
(***************************************************************************)
EXTENDS Naturals, FiniteSets

CONSTANTS
  Calls,     \* the calls of snccliprecon_with_lock on one path
  NoFile,    \* no file: the name is free, or a descriptor is closed
  OldFile    \* a lock file left behind by a process that no longer exists

ASSUME FilesAssumption ==
  /\ IsFiniteSet(Calls)
  /\ NoFile \notin Calls
  /\ OldFile \notin Calls
  /\ NoFile # OldFile

VARIABLES
  pc,        \* pc[c]: the next system call of c
  fd,        \* fd[c]: the file c has open
  dirent,    \* the file the name "<path>.lock" leads to
  wide       \* that file has mode 0777

vars == <<pc, fd, dirent, wide>>

Files == Calls \cup {OldFile}

\* Between open() and the return of the function.
Open == {"opened", "chmod", "waiting", "held", "unlocked", "unlinked", "kept"}

\* The call is over: it took the name away, or it left the name as it was.
Ended == {"done", "left"}

TypeOK ==
  /\ pc \in [Calls -> {"start"} \cup Open \cup Ended]
  /\ fd \in [Calls -> Files \cup {NoFile}]
  /\ dirent \in Files \cup {NoFile}
  /\ wide \in BOOLEAN

\* The callback runs, and the flock is held, exactly while pc[c] = "held".
Holds(c) == pc[c] = "held"
Holders == {c \in Calls : Holds(c)}

\* The calls that have taken the lock file's name away.
Unlinkers == {c \in Calls : pc[c] \in {"unlinked", "done"}}

Init ==
  /\ pc = [c \in Calls |-> "start"]
  /\ fd = [c \in Calls |-> NoFile]
  /\ dirent \in {NoFile, OldFile}
  /\ wide \in BOOLEAN

Goto(c, from, to) ==
  /\ pc[c] = from
  /\ pc' = [pc EXCEPT ![c] = to]
-----------------------------------------------------------------------------
\* Mutant: the result of open() is not checked, -1 is taken for a descriptor.
OpenLockUnchecked(c) ==
  /\ Goto(c, "start", "opened")
  /\ fd' = [fd EXCEPT ![c] = "EACCES"]
  /\ UNCHANGED <<dirent, wide>>

\* open(lock_path, O_CREAT | O_RDWR, 0777): the umask clears bits of the mode.
OpenLock(c) ==
  /\ Goto(c, "start", "opened")
  /\ \/ dirent = NoFile /\ dirent' = c /\ wide' = FALSE
     \/ dirent # NoFile /\ UNCHANGED <<dirent, wide>>
  /\ fd' = [fd EXCEPT ![c] = dirent']

\* ensure_mode, first half: stat() the name, and decide whether to chmod() it.
StatLock(c) ==
  /\ Goto(c, "opened", IF dirent = NoFile \/ wide THEN "waiting" ELSE "chmod")
  /\ UNCHANGED <<fd, dirent, wide>>

\* ensure_mode, second half; EPERM and EACCES count as success.
ChmodLock(c) ==
  /\ Goto(c, "chmod", "waiting")
  /\ dirent # NoFile
  /\ wide' \in {wide, TRUE}
  /\ UNCHANGED <<fd, dirent>>

\* Mutant: LOCK_EX | LOCK_NB, with EWOULDBLOCK taken for success.
FlockLockNonBlocking(c) ==
  /\ Goto(c, "waiting", "held")
  /\ UNCHANGED <<fd, dirent, wide>>

\* Mutant: every other open descriptor of the file is taken for a lock on it.
FlockLockOpenConflicts(c) ==
  /\ Goto(c, "waiting", "held")
  /\ \A d \in Calls \ {c} : fd[d] # fd[c]
  /\ UNCHANGED <<fd, dirent, wide>>

\* flock(fd, LOCK_EX) waits for the holders of the same file, not of the name.
FlockLock(c) ==
  /\ Goto(c, "waiting", "held")
  /\ \A d \in Holders : fd[d] # fd[c]
  /\ UNCHANGED <<fd, dirent, wide>>

\* Mutant: a callback that fails is tried again.
UnlockRetries(c) ==
  /\ Goto(c, "held", "unlocked") \/ Goto(c, "held", "waiting")
  /\ UNCHANGED <<fd, dirent, wide>>

\* fn(arg) has returned; flock(fd, LOCK_UN).
Unlock(c) ==
  /\ Goto(c, "held", "unlocked")
  /\ UNCHANGED <<fd, dirent, wide>>

\* Mutant: the function returns without unlink().
UnlinkLockForgotten(c) ==
  /\ Goto(c, "unlocked", "unlinked")
  /\ UNCHANGED <<fd, dirent, wide>>

\* unlink(lock_path), whichever file has the name by now, or none.
UnlinkLock(c) ==
  /\ Goto(c, "unlocked", "unlinked")
  /\ dirent' = NoFile
  /\ UNCHANGED <<fd, wide>>

\* A failing unlink() is ignored and the name stays.
UnlinkLockFails(c) ==
  /\ Goto(c, "unlocked", "kept")
  /\ dirent # NoFile
  /\ UNCHANGED <<fd, dirent, wide>>

\* close(fd), whose result is ignored; the callback's result is returned.
CloseLock(c) ==
  /\ Goto(c, "unlinked", "done") \/ Goto(c, "kept", "left")
  /\ fd' = [fd EXCEPT ![c] = NoFile]
  /\ UNCHANGED <<dirent, wide>>

\* The call ends early: its descriptor is closed, which drops the flock, and
\* the lock file keeps its name unless it has just lost it.
Stop(c) ==
  /\ pc' = [pc EXCEPT ![c] = IF pc[c] = "unlinked" THEN "done" ELSE "left"]
  /\ fd' = [fd EXCEPT ![c] = NoFile]
  /\ UNCHANGED <<dirent, wide>>

\* chmod() of a name another call has unlinked since the stat(): ENOENT, -1.
ChmodLost(c) == pc[c] = "chmod" /\ dirent = NoFile /\ Stop(c)

\* open(), chmod() or flock() fails: -1.
LockError(c) == pc[c] \in {"start", "chmod", "waiting"} /\ Stop(c)

\* SIGKILL while the call is under way.
Killed(c) == pc[c] \in Open /\ Stop(c)
-----------------------------------------------------------------------------
\* What the function does when nothing outside it goes wrong.
Progress(c) ==
  \/ OpenLock(c) \/ StatLock(c) \/ ChmodLock(c) \/ FlockLock(c)
  \/ Unlock(c) \/ UnlinkLock(c) \/ CloseLock(c) \/ ChmodLost(c)

Step(c) == Progress(c) \/ LockError(c) \/ UnlinkLockFails(c) \/ Killed(c)

\* The machine goes down and the calls are made again: descriptors and locks
\* are gone, the lock file is still there.
Restart ==
  /\ pc' = [c \in Calls |-> "start"]
  /\ fd' = [c \in Calls |-> NoFile]
  /\ dirent' = IF dirent = NoFile THEN NoFile ELSE OldFile
  /\ UNCHANGED wide

Next == Restart \/ \E c \in Calls : Step(c)

Spec == Init /\ [][Next]_vars

\* The kernel keeps scheduling every caller; errors, kills and restarts come as
\* they may.
FairSpec ==
  /\ Spec
  /\ \A c \in Calls : WF_vars(Progress(c))
-----------------------------------------------------------------------------
(***************************************************************************)
(* Callbacks can only overlap because an unlink took the name away from a  *)
(* file that others were still waiting on: every callback beyond the first *)
(* costs one successful unlink.  In particular nothing overlaps before the *)
(* first unlink, and two calls never overlap.                              *)
(***************************************************************************)
OverlapBound == Cardinality(Holders) <= 1 + Cardinality(Unlinkers)

(***************************************************************************)
(* Whoever left a lock file is known: the name never leads to a file whose *)
(* creator has got through its unlink, nor, once any call has, to one from *)
(* before a restart.  A lock file that stays is therefore its creator's    *)
(* error, kill or failed unlink, and the first unlink that works removes   *)
(* it, whichever call makes it and whatever happened to the others.        *)
(***************************************************************************)
LeftByItsCreator ==
  /\ dirent \notin Unlinkers
  /\ dirent = OldFile => Unlinkers = {}

(***************************************************************************)
(* Nobody waits for ever: every call that has opened the lock file returns *)
(* or dies, although flock() waits for files whose names may be long gone  *)
(* and for processes that get killed.                                      *)
(***************************************************************************)
EveryCallReturns == \A c \in Calls : []<>(pc[c] \notin Open)
-----------------------------------------------------------------------------
\* A call as its caller sees it.
Phase(c) ==
  CASE pc[c] = "held" -> "inside"
    [] pc[c] \in {"unlocked", "kept"} -> "after"
    [] pc[c] \in {"unlinked", "done"} -> "released"
    [] pc[c] = "left" -> "ended"
    [] OTHER -> "before"

Promise == INSTANCE LockPromise WITH phase <- [c \in Calls |-> Phase(c)]

(***************************************************************************)
(* The system calls of with_lock implement the weakened exclusion of       *)
(* LockPromise: a callback is entered beside others only on the account of *)
(* calls that took the name away, and no callback is entered twice.        *)
(***************************************************************************)
KeepsPromise == Promise!Spec
=============================================================================
