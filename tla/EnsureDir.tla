------------------------------ MODULE EnsureDir ------------------------------
(***************************************************************************)
(* snccliprecon_ensure_dir (snccliprecon_file_ops.c), called at once by    *)
(* the hooks of many tasks, steps and workers for directories that share   *)
(* parents, while others use the same file system: stat, a mkdir per       *)
(* component, stat and chmod, each a step.  Nobody holds a lock here.      *)
(***************************************************************************)
EXTENDS Naturals, Sequences, FiniteSets

CONSTANTS
  Calls,  \* the calls of ensure_dir
  Dirs,   \* what their paths lead through, below directories that are there
  Path    \* Path[c]: the components of a call's path, its directory last

ASSUME PathAssumption ==
  /\ Path \in [Calls -> Seq(Dirs)]
  /\ \A c \in Calls : Path[c] # <<>>
  /\ \A c, e \in Calls : \A i \in DOMAIN Path[c], j \in DOMAIN Path[e] :
       Path[c][i] = Path[e][j]
         => i = j /\ (i > 1 => Path[c][i - 1] = Path[e][j - 1])

\* What has a name: nothing, a directory (maybe through a link), something
\* else, or a link that leads nowhere, which stat() takes for nothing and
\* mkdir() for something.
Kinds == {"none", "dir", "file", "link"}

VARIABLES
  pc,      \* pc[c]: the system call that is next, or what was returned
  at,      \* at[c]: the component mkdir_all is at
  kind,    \* kind[d]: what is there
  wide,    \* wide[d]: it is there and its mode has all of 0777
  hit,     \* history: calls that a failing system call or a kill has hit
  removed  \* history: what others have removed

vars == <<pc, at, kind, wide, hit, removed>>
fileVars == <<kind, wide>>

Leaf(c) == Path[c][Len(Path[c])]
OnPath(c) == {Path[c][i] : i \in DOMAIN Path[c]}

\* The directory of the i-th component is there.
ParentThere(c, i) == i > 1 => kind[Path[c][i - 1]] = "dir"

Stages == {"stat", "mkdir", "mode", "chmod", "ready", "failed"}
Busy(c) == pc[c] \notin {"ready", "failed"}

TypeOK ==
  /\ pc \in [Calls -> Stages]
  /\ at \in [Calls -> Nat \ {0}] /\ \A c \in Calls : at[c] \in DOMAIN Path[c]
  /\ kind \in [Dirs -> Kinds] /\ wide \in [Dirs -> BOOLEAN]
  /\ hit \subseteq Calls /\ removed \subseteq Dirs
-----------------------------------------------------------------------------
Init ==
  /\ pc = [c \in Calls |-> "stat"]
  /\ at = [c \in Calls |-> 1]
  /\ kind \in [Dirs -> Kinds]
  /\ \A c \in Calls : \A i \in DOMAIN Path[c] :
       kind[Path[c][i]] # "none" => ParentThere(c, i)
  /\ wide \in [Dirs -> BOOLEAN] /\ \A d \in Dirs : wide[d] => kind[d] \in {"dir", "file"}
  /\ hit = {} /\ removed = {}

Goto(c, from, to) == pc[c] = from /\ pc' = [pc EXCEPT ![c] = to]

\* stat() answers ENOTDIR for a path through a file.
ThroughFile(c) == \E d \in OnPath(c) \ {Leaf(c)} : kind[d] = "file"

Stat(c) ==
  /\ \/ kind[Leaf(c)] = "dir" /\ Goto(c, "stat", "mode")
     \/ kind[Leaf(c)] \in {"none", "link"} /\ ~ThroughFile(c) /\ Goto(c, "stat", "mkdir")
     \/ kind[Leaf(c)] = "file" /\ Goto(c, "stat", "failed")
     \/ kind[Leaf(c)] # "file" /\ ThroughFile(c) /\ Goto(c, "stat", "failed")
  /\ UNCHANGED <<at, fileVars, hit, removed>>

\* Mutant: the mode given to mkdir() is relied on, umask or not.
NextComponentTrusting(c) ==
  /\ pc[c] = "mkdir"
  /\ IF at[c] = Len(Path[c])
     THEN pc' = [pc EXCEPT ![c] = "ready"] /\ UNCHANGED at
     ELSE at' = [at EXCEPT ![c] = @ + 1] /\ UNCHANGED pc

\* Mutant: the loop makes one turn too many.
NextComponentPast(c) ==
  /\ pc[c] = "mkdir"
  /\ IF at[c] > Len(Path[c])
     THEN pc' = [pc EXCEPT ![c] = "mode"] /\ UNCHANGED at
     ELSE at' = [at EXCEPT ![c] = @ + 1] /\ UNCHANGED pc

NextComponent(c) ==
  /\ pc[c] = "mkdir"
  /\ IF at[c] = Len(Path[c])
     THEN pc' = [pc EXCEPT ![c] = "mode"] /\ UNCHANGED at
     ELSE at' = [at EXCEPT ![c] = @ + 1] /\ UNCHANGED pc

\* mkdir() makes the directory, whose mode depends on the caller's umask.
Mkdir(c) ==
  LET d == Path[c][at[c]] IN
  /\ ParentThere(c, at[c]) /\ kind[d] = "none"
  /\ NextComponent(c)
  /\ kind' = [kind EXCEPT ![d] = "dir"]
  /\ \E w \in BOOLEAN : wide' = [wide EXCEPT ![d] = w]
  /\ UNCHANGED <<hit, removed>>

\* Mutant: EEXIST is an error like others.
MkdirExistsFails(c) ==
  /\ ParentThere(c, at[c]) /\ kind[Path[c][at[c]]] # "none"
  /\ Goto(c, "mkdir", "failed")
  /\ UNCHANGED <<at, fileVars, hit, removed>>

\* EEXIST, whatever it is that exists.
MkdirExists(c) ==
  /\ ParentThere(c, at[c]) /\ kind[Path[c][at[c]]] # "none"
  /\ NextComponent(c)
  /\ UNCHANGED <<fileVars, hit, removed>>

\* ENOENT or ENOTDIR.
MkdirFails(c) ==
  /\ ~ParentThere(c, at[c])
  /\ Goto(c, "mkdir", "failed")
  /\ UNCHANGED <<at, fileVars, hit, removed>>

\* ensure_mode: what is missing needs no mode.
StatMode(c) ==
  /\ \/ kind[Leaf(c)] \in {"none", "link"} /\ Goto(c, "mode", "ready")
     \/ kind[Leaf(c)] \in {"dir", "file"}
        /\ Goto(c, "mode", IF wide[Leaf(c)] THEN "ready" ELSE "chmod")
  /\ UNCHANGED <<at, fileVars, hit, removed>>

Chmod(c) ==
  /\ \/ kind[Leaf(c)] \in {"dir", "file"} /\ Goto(c, "chmod", "ready")
        /\ wide' = [wide EXCEPT ![Leaf(c)] = TRUE]
     \/ kind[Leaf(c)] \in {"none", "link"} /\ Goto(c, "chmod", "failed")
        /\ UNCHANGED wide
  /\ UNCHANGED <<at, kind, hit, removed>>

\* EPERM or EACCES of chmod() and any error of ensure_mode's stat() are ignored.
ModeRefused(c) ==
  /\ pc[c] \in {"mode", "chmod"}
  /\ pc' = [pc EXCEPT ![c] = "ready"]
  /\ hit' = hit \cup {c}
  /\ UNCHANGED <<at, fileVars, removed>>

\* Another error of another system call, or SIGKILL.
Fails(c) ==
  /\ Busy(c)
  /\ pc' = [pc EXCEPT ![c] = "failed"]
  /\ hit' = hit \cup {c}
  /\ UNCHANGED <<at, fileVars, removed>>

Step(c) ==
  \/ Stat(c) \/ Mkdir(c) \/ MkdirExists(c) \/ MkdirFails(c) \/ StatMode(c) \/ Chmod(c)
  \/ ModeRefused(c) \/ Fails(c)
-----------------------------------------------------------------------------
(* Others, say the user's own code or somebody who tidies up.             *)

Empty(d) ==
  \A c \in Calls : \A i \in DOMAIN Path[c] :
    i > 1 /\ Path[c][i - 1] = d => kind[Path[c][i]] = "none"

Remove(d) ==
  /\ kind[d] # "none" /\ Empty(d)
  /\ kind' = [kind EXCEPT ![d] = "none"]
  /\ wide' = [wide EXCEPT ![d] = FALSE]
  /\ removed' = removed \cup {d}
  /\ UNCHANGED <<pc, at, hit>>

Put(d, k) ==
  /\ kind[d] = "none"
  /\ \A c \in Calls : \A i \in DOMAIN Path[c] : Path[c][i] = d => ParentThere(c, i)
  /\ kind' = [kind EXCEPT ![d] = k]
  /\ \E w \in {FALSE, k # "link"} : wide' = [wide EXCEPT ![d] = w]
  /\ UNCHANGED <<pc, at, hit, removed>>

OthersStep(d) == Remove(d) \/ \E k \in Kinds \ {"none"} : Put(d, k)

Next == (\E c \in Calls : Step(c)) \/ (\E d \in Dirs : OthersStep(d))

Spec == Init /\ [][Next]_vars
-----------------------------------------------------------------------------
\* Nobody took away what the call relies on.
Undisturbed(c) == OnPath(c) \cap removed = {}

Obstacle(d) == kind[d] \in {"file", "link"}

(***************************************************************************)
(* A call that returned 0 has its directory, with mode 0777, however its   *)
(* steps and those of others were mixed: the exceptions are a mode that    *)
(* could not be set and a name that is taken by something else, which      *)
(* mkdir() reports in the same way as a directory another call has made.   *)
(***************************************************************************)
ReadyIsReady ==
  \A c \in Calls \ hit :
    pc[c] = "ready" /\ Undisturbed(c)
      => \/ kind[Leaf(c)] = "dir" /\ wide[Leaf(c)]
         \/ Obstacle(Leaf(c))

(***************************************************************************)
(* No call fails because of other calls: those that fail have met an error *)
(* of their own, or something on their path that is no directory, or that  *)
(* was removed.                                                            *)
(***************************************************************************)
NoneFailsAlone ==
  \A c \in Calls \ hit :
    pc[c] = "failed" /\ Undisturbed(c) => \E d \in OnPath(c) : Obstacle(d)
=============================================================================
