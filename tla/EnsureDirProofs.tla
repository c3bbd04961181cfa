--------------------------- MODULE EnsureDirProofs ---------------------------
(* Theorems about EnsureDir, for every set of calls and every tree of paths. *)
EXTENDS EnsureDir, SequenceTheorems, TLAPS

\* A path is not empty and leads through Dirs only.
LEMMA PathTypes ==
  ASSUME NEW c \in Calls
  PROVE  /\ Len(Path[c]) \in Nat \ {0}
         /\ DOMAIN Path[c] = 1..Len(Path[c])
         /\ \A i \in DOMAIN Path[c] : Path[c][i] \in Dirs /\ Path[c][i] \in OnPath(c)
         /\ Leaf(c) \in Dirs /\ Leaf(c) \in OnPath(c)
         /\ OnPath(c) \subseteq Dirs
<1>1. Path[c] \in Seq(Dirs) /\ Path[c] # <<>>
  BY PathAssumption
<1>2. Len(Path[c]) \in Nat \ {0} /\ DOMAIN Path[c] = 1..Len(Path[c])
  BY <1>1, EmptySeq, LenProperties
<1>3. \A i \in DOMAIN Path[c] : Path[c][i] \in Dirs
  BY <1>1, <1>2, ElementOfSeq
<1>4. Len(Path[c]) \in DOMAIN Path[c]
  BY <1>2
<1> QED
  BY <1>2, <1>3, <1>4 DEF Leaf, OnPath

-----------------------------------------------------------------------------
(* Type correctness. *)

\* The index of mkdir_all stays within the path.
LEMMA NextComponentTypes ==
  ASSUME TypeOK, NEW c \in Calls, NextComponent(c)
  PROVE  /\ pc' \in [Calls -> Stages]
         /\ at' \in [Calls -> Nat \ {0}] /\ \A e \in Calls : at'[e] \in DOMAIN Path[e]
<1>1. CASE at[c] = Len(Path[c])
  BY <1>1 DEF NextComponent, TypeOK, Stages
<1>2. CASE at[c] # Len(Path[c])
  <2>1. at[c] \in 1..Len(Path[c]) /\ Len(Path[c]) \in Nat
    BY PathTypes DEF TypeOK
  <2>2. at[c] + 1 \in 1..Len(Path[c])
    BY <1>2, <2>1
  <2>3. at' = [at EXCEPT ![c] = at[c] + 1] /\ pc' = pc
    BY <1>2 DEF NextComponent
  <2> QED
    BY <2>2, <2>3, PathTypes DEF TypeOK
<1> QED
  BY <1>1, <1>2

\* The state keeps its types.
THEOREM TypeCorrect == Spec => []TypeOK
<1>1. Init => TypeOK
  BY PathTypes DEF Init, TypeOK, Stages
<1>2. TypeOK /\ [Next]_vars => TypeOK'
  <2> SUFFICES ASSUME TypeOK, [Next]_vars PROVE TypeOK'
    OBVIOUS
  <2>1. ASSUME NEW c \in Calls, Mkdir(c) PROVE TypeOK'
    <3>1. Path[c][at[c]] \in Dirs
      BY PathTypes DEF TypeOK
    <3>2. kind' \in [Dirs -> Kinds] /\ wide' \in [Dirs -> BOOLEAN]
      BY <2>1, <3>1 DEF Mkdir, TypeOK, Kinds
    <3> QED
      BY <2>1, <3>2, NextComponentTypes DEF Mkdir, TypeOK
  <2>2. ASSUME NEW c \in Calls, MkdirExists(c) PROVE TypeOK'
    BY <2>2, NextComponentTypes DEF MkdirExists, TypeOK, fileVars
  <2>3. ASSUME NEW c \in Calls, Chmod(c) PROVE TypeOK'
    BY <2>3, PathTypes DEF Chmod, TypeOK, Goto, Stages
  <2>4. ASSUME NEW c \in Calls, Stat(c) \/ MkdirFails(c) \/ StatMode(c) PROVE TypeOK'
    BY <2>4 DEF Stat, MkdirFails, StatMode, TypeOK, Goto, Stages, fileVars
  <2>5. ASSUME NEW c \in Calls, ModeRefused(c) \/ Fails(c) PROVE TypeOK'
    BY <2>5 DEF ModeRefused, Fails, TypeOK, Stages, fileVars
  <2>6. ASSUME NEW d \in Dirs, OthersStep(d) PROVE TypeOK'
    BY <2>6 DEF OthersStep, Remove, Put, TypeOK, Kinds
  <2>7. CASE UNCHANGED vars
    BY <2>7 DEF vars, TypeOK
  <2> QED
    BY <2>1, <2>2, <2>3, <2>4, <2>5, <2>6, <2>7 DEF Next, Step
<1> QED
  BY <1>1, <1>2, PTL DEF Spec

-----------------------------------------------------------------------------
(* What a step leaves alone. *)

\* What is there and is not removed stays as it is, and its mode is not narrowed.
Lasting ==
  /\ hit \subseteq hit' /\ removed \subseteq removed'
  /\ \A d \in Dirs : kind[d] # "none" /\ d \notin removed'
       => kind'[d] = kind[d] /\ (wide[d] => wide'[d])

\* Every step leaves alone what Lasting says.
LEMMA StepLasts ==
  ASSUME TypeOK, [Next]_vars
  PROVE  Lasting
<1>1. ASSUME NEW c \in Calls, Mkdir(c) PROVE Lasting
  <2> DEFINE d == Path[c][at[c]]
  <2>1. d \in Dirs /\ kind[d] = "none"
    BY <1>1, PathTypes DEF Mkdir, TypeOK
  <2>2. kind' = [kind EXCEPT ![d] = "dir"] /\ \E w \in BOOLEAN : wide' = [wide EXCEPT ![d] = w]
    BY <1>1 DEF Mkdir
  <2>3. hit' = hit /\ removed' = removed
    BY <1>1 DEF Mkdir
  <2> HIDE DEF d
  <2> QED
    BY <2>1, <2>2, <2>3 DEF Lasting, TypeOK
<1>2. ASSUME NEW c \in Calls, Chmod(c) PROVE Lasting
  BY <1>2, PathTypes DEF Chmod, Lasting, TypeOK
<1>3. ASSUME NEW c \in Calls, Stat(c) \/ MkdirExists(c) \/ MkdirFails(c) \/ StatMode(c)
      PROVE  Lasting
  BY <1>3 DEF Stat, MkdirExists, MkdirFails, StatMode, Lasting, fileVars
<1>4. ASSUME NEW c \in Calls, ModeRefused(c) \/ Fails(c) PROVE Lasting
  BY <1>4 DEF ModeRefused, Fails, Lasting, fileVars
<1>5. ASSUME NEW d \in Dirs, OthersStep(d) PROVE Lasting
  BY <1>5 DEF OthersStep, Remove, Put, Lasting, TypeOK
<1>6. CASE UNCHANGED vars
  BY <1>6 DEF vars, Lasting
<1> QED
  BY <1>1, <1>2, <1>3, <1>4, <1>5, <1>6 DEF Next, Step

-----------------------------------------------------------------------------
(* The inductive invariant. *)

StartInv(c) == pc[c] = "stat" => at[c] = 1

\* What mkdir_all has passed is there, whatever it is.
PassedInv(c) ==
  pc[c] = "mkdir" /\ Undisturbed(c)
    => \A i \in DOMAIN Path[c] : i < at[c] => kind[Path[c][i]] # "none"

\* So is the last component when ensure_mode is called.
LeafInv(c) ==
  pc[c] \in {"mode", "chmod"} /\ Undisturbed(c) => kind[Leaf(c)] # "none"

ReadyInv(c) ==
  c \notin hit /\ pc[c] = "ready" /\ Undisturbed(c)
    => (kind[Leaf(c)] = "dir" /\ wide[Leaf(c)]) \/ Obstacle(Leaf(c))

FailedInv(c) ==
  c \notin hit /\ pc[c] = "failed" /\ Undisturbed(c) => \E d \in OnPath(c) : Obstacle(d)

CallInv(c) == StartInv(c) /\ PassedInv(c) /\ LeafInv(c) /\ ReadyInv(c) /\ FailedInv(c)

EnsureInv == TypeOK /\ \A c \in Calls : CallInv(c)

\* A call that does not move keeps its part of the invariant.
LEMMA OthersKeep ==
  ASSUME TypeOK, TypeOK', Lasting, NEW c \in Calls, CallInv(c), pc'[c] = pc[c], at'[c] = at[c]
  PROVE  CallInv(c)'
<1>1. Undisturbed(c)' => Undisturbed(c)
  BY DEF Lasting, Undisturbed, OnPath
<1>2. \A d \in OnPath(c) : Undisturbed(c)' => d \in Dirs /\ d \notin removed'
  BY PathTypes DEF Undisturbed, OnPath
<1>3. PassedInv(c)'
  BY <1>1, <1>2, PathTypes DEF CallInv, PassedInv, Lasting
<1>4. LeafInv(c)'
  BY <1>1, <1>2, PathTypes DEF CallInv, LeafInv, Lasting, Leaf
<1>5. ReadyInv(c)'
  <2> SUFFICES ASSUME c \notin hit', pc'[c] = "ready", Undisturbed(c)'
               PROVE  (kind'[Leaf(c)] = "dir" /\ wide'[Leaf(c)]) \/ kind'[Leaf(c)] \in {"file", "link"}
    BY DEF ReadyInv, Obstacle, Leaf
  <2>1. Leaf(c) \in Dirs /\ Leaf(c) \notin removed'
    BY <1>2, PathTypes
  <2>2. (kind[Leaf(c)] = "dir" /\ wide[Leaf(c)]) \/ kind[Leaf(c)] \in {"file", "link"}
    BY <1>1 DEF CallInv, ReadyInv, Lasting, Obstacle
  <2> QED
    BY <2>1, <2>2 DEF Lasting
<1>6. FailedInv(c)'
  <2> SUFFICES ASSUME c \notin hit', pc'[c] = "failed", Undisturbed(c)'
               PROVE  \E d \in OnPath(c) : kind'[d] \in {"file", "link"}
    BY DEF FailedInv, Obstacle, OnPath
  <2>1. PICK d \in OnPath(c) : kind[d] \in {"file", "link"}
    BY <1>1 DEF CallInv, FailedInv, Lasting, Obstacle
  <2> QED
    BY <2>1, <1>2 DEF Lasting
<1> QED
  BY <1>3, <1>4, <1>5, <1>6 DEF CallInv, StartInv

\* mkdir() of the component a call is at, which is there afterwards.
LEMMA NextComponentKeeps ==
  ASSUME TypeOK, TypeOK', Lasting, NEW c \in Calls, CallInv(c), NextComponent(c),
         kind'[Path[c][at[c]]] # "none"
  PROVE  CallInv(c)'
<1>1. Undisturbed(c)' => Undisturbed(c)
  BY DEF Lasting, Undisturbed, OnPath
<1>2. \A d \in OnPath(c) : Undisturbed(c)' => d \in Dirs /\ d \notin removed'
  BY PathTypes DEF Undisturbed, OnPath
<1>3. at[c] \in 1..Len(Path[c]) /\ Len(Path[c]) \in Nat /\ pc[c] = "mkdir"
  BY PathTypes DEF TypeOK, NextComponent
<1>4. CASE at[c] = Len(Path[c])
  <2>1. pc'[c] = "mode" /\ kind'[Leaf(c)] # "none"
    BY <1>4 DEF NextComponent, TypeOK, Leaf
  <2> QED
    BY <2>1 DEF CallInv, StartInv, PassedInv, LeafInv, ReadyInv, FailedInv, Leaf
<1>5. CASE at[c] # Len(Path[c])
  <2>1. pc'[c] = "mkdir" /\ at'[c] = at[c] + 1
    BY <1>3, <1>5 DEF NextComponent, TypeOK
  <2>2. ASSUME Undisturbed(c)', NEW i \in DOMAIN Path[c], i < at[c] + 1
        PROVE  kind'[Path[c][i]] # "none"
    <3>1. CASE i = at[c]
      BY <3>1
    <3>2. CASE i # at[c]
      <4>1. i < at[c]
        BY <2>2, <3>2, <1>3, PathTypes
      <4>2. kind[Path[c][i]] # "none"
        BY <4>1, <1>1, <1>3, <2>2 DEF CallInv, PassedInv
      <4> QED
        BY <4>2, <1>2, <2>2, PathTypes DEF Lasting
    <3> QED
      BY <3>1, <3>2
  <2>3. PassedInv(c)'
    BY <2>1, <2>2 DEF PassedInv
  <2> QED
    BY <2>1, <2>3 DEF CallInv, StartInv, LeafInv, ReadyInv, FailedInv
<1> QED
  BY <1>4, <1>5

\* The step of a call keeps its part of the invariant.
LEMMA StepKeeps ==
  ASSUME TypeOK, TypeOK', Lasting, NEW c \in Calls, CallInv(c), Step(c)
  PROVE  CallInv(c)'
<1>1. CASE Stat(c)
  <2>1. CASE pc'[c] = "mode" /\ kind[Leaf(c)] = "dir"
    BY <1>1, <2>1 DEF Stat, CallInv, StartInv, PassedInv, LeafInv, ReadyInv, FailedInv, Leaf, fileVars
  <2>2. CASE pc'[c] = "mkdir"
    <3>1. at'[c] = 1
      BY <1>1 DEF Stat, Goto, CallInv, StartInv, TypeOK, Stages
    <3>2. \A i \in DOMAIN Path[c] : ~(i < 1)
      BY PathTypes
    <3> QED
      BY <2>2, <3>1, <3>2 DEF CallInv, StartInv, PassedInv, LeafInv, ReadyInv, FailedInv
  <2>3. CASE pc'[c] = "failed" /\ \E d \in OnPath(c) : kind[d] = "file"
    BY <1>1, <2>3 DEF Stat, CallInv, StartInv, PassedInv, LeafInv, ReadyInv, FailedInv, Obstacle,
                      OnPath, fileVars
  <2> QED
    BY <1>1, <2>1, <2>2, <2>3, PathTypes DEF Stat, Goto, TypeOK, ThroughFile
<1>2. CASE Mkdir(c)
  <2>1. kind'[Path[c][at[c]]] = "dir"
    BY <1>2, PathTypes DEF Mkdir, TypeOK
  <2> QED
    BY <1>2, <2>1, NextComponentKeeps DEF Mkdir
<1>3. CASE MkdirExists(c)
  BY <1>3, NextComponentKeeps DEF MkdirExists, fileVars
<1>4. CASE MkdirFails(c)
  <2>1. PICK i \in DOMAIN Path[c] : at[c] = i + 1 /\ kind[Path[c][i]] # "dir"
    <3>1. at[c] > 1 /\ kind[Path[c][at[c] - 1]] # "dir"
      BY <1>4 DEF MkdirFails, ParentThere
    <3>2. at[c] - 1 \in DOMAIN Path[c]
      BY <3>1, PathTypes DEF TypeOK
    <3> QED
      BY <3>1, <3>2 DEF TypeOK
  <2>2. pc'[c] = "failed" /\ kind' = kind /\ removed' = removed /\ pc[c] = "mkdir"
    BY <1>4 DEF MkdirFails, Goto, TypeOK, fileVars
  <2>3. Undisturbed(c)' => Obstacle(Path[c][i])'
    <3>1. Undisturbed(c)' => kind[Path[c][i]] # "none"
      BY <2>1, <2>2, PathTypes DEF CallInv, PassedInv, Undisturbed, OnPath
    <3> QED
      BY <2>1, <2>2, <3>1, PathTypes DEF Obstacle, TypeOK, Kinds
  <2> QED
    BY <2>2, <2>3, PathTypes DEF CallInv, StartInv, PassedInv, LeafInv, ReadyInv, FailedInv, OnPath
<1>5. CASE StatMode(c)
  <2>1. pc[c] = "mode" /\ kind' = kind /\ wide' = wide /\ removed' = removed
    BY <1>5 DEF StatMode, Goto, fileVars
  <2>2. Undisturbed(c)' => kind[Leaf(c)] # "none"
    BY <2>1 DEF CallInv, LeafInv, Undisturbed, OnPath
  <2>3. pc'[c] = "ready" \/ pc'[c] = "chmod"
    BY <1>5 DEF StatMode, Goto, TypeOK
  <2>4. pc'[c] = "ready" => kind[Leaf(c)] \in {"none", "link"} \/ wide[Leaf(c)]
    BY <1>5 DEF StatMode, Goto, TypeOK
  <2>5. kind[Leaf(c)] \in Kinds
    BY PathTypes DEF TypeOK
  <2> QED
    BY <2>1, <2>2, <2>3, <2>4, <2>5
      DEF CallInv, StartInv, PassedInv, LeafInv, ReadyInv, FailedInv, Leaf, Obstacle, Kinds
<1>6. CASE Chmod(c)
  <2>1. pc[c] = "chmod" /\ kind' = kind /\ removed' = removed
    BY <1>6 DEF Chmod, Goto
  <2>2. Undisturbed(c)' => kind[Leaf(c)] # "none"
    BY <2>1 DEF CallInv, LeafInv, Undisturbed, OnPath
  <2>3. CASE kind[Leaf(c)] \in {"dir", "file"}
    <3>1. pc'[c] = "ready" /\ wide'[Leaf(c)]
      BY <1>6, <2>3, PathTypes DEF Chmod, Goto, TypeOK
    <3> QED
      BY <2>1, <2>3, <3>1
        DEF CallInv, StartInv, PassedInv, LeafInv, ReadyInv, FailedInv, Leaf, Obstacle
  <2>4. CASE kind[Leaf(c)] \in {"none", "link"}
    <3>1. pc'[c] = "failed"
      BY <1>6, <2>4 DEF Chmod, Goto, TypeOK
    <3> QED
      BY <2>1, <2>2, <2>4, <3>1, PathTypes
        DEF CallInv, StartInv, PassedInv, LeafInv, ReadyInv, FailedInv, Leaf, Obstacle, OnPath
  <2> QED
    BY <1>6, <2>3, <2>4 DEF Chmod
<1>7. CASE ModeRefused(c) \/ Fails(c)
  <2>1. c \in hit' /\ pc'[c] \in {"ready", "failed"}
    BY <1>7 DEF ModeRefused, Fails, TypeOK
  <2> QED
    BY <2>1 DEF CallInv, StartInv, PassedInv, LeafInv, ReadyInv, FailedInv
<1> QED
  BY <1>1, <1>2, <1>3, <1>4, <1>5, <1>6, <1>7 DEF Step

\* The invariant holds before the first system call.
LEMMA InitEstablishes == Init => EnsureInv
<1> SUFFICES ASSUME Init PROVE EnsureInv
  OBVIOUS
<1>1. TypeOK
  BY PathTypes DEF Init, TypeOK, Stages
<1>2. ASSUME NEW c \in Calls PROVE CallInv(c)
  BY DEF Init, CallInv, StartInv, PassedInv, LeafInv, ReadyInv, FailedInv
<1> QED
  BY <1>1, <1>2 DEF EnsureInv

\* And every step of a call or of others keeps it.
LEMMA NextPreserves == EnsureInv /\ TypeOK' /\ [Next]_vars => EnsureInv'
<1> SUFFICES ASSUME EnsureInv, TypeOK', [Next]_vars, NEW c \in Calls PROVE CallInv(c)'
  BY DEF EnsureInv
<1>1. TypeOK /\ CallInv(c)
  BY DEF EnsureInv
<1>2. Lasting
  BY <1>1, StepLasts
<1>3. CASE Step(c)
  BY <1>1, <1>2, <1>3, StepKeeps
<1>4. CASE ~Step(c)
  <2>1. pc'[c] = pc[c] /\ at'[c] = at[c]
    <3>1. ASSUME NEW e \in Calls \ {c}, Step(e)
          PROVE  pc'[c] = pc[c] /\ at'[c] = at[c]
      BY <3>1, <1>1 DEF Step, Stat, Mkdir, MkdirExists, MkdirFails, StatMode, Chmod, ModeRefused,
                        Fails, NextComponent, Goto, TypeOK
    <3>2. ASSUME NEW d \in Dirs, OthersStep(d) PROVE pc' = pc /\ at' = at
      BY <3>2 DEF OthersStep, Remove, Put
    <3> QED
      BY <1>4, <3>1, <3>2 DEF Next, vars
  <2> QED
    BY <1>1, <1>2, <2>1, OthersKeep
<1> QED
  BY <1>3, <1>4

\* The invariant that carries both properties through every step.
THEOREM EnsureInvariant == Spec => []EnsureInv
<1>1. Spec => []TypeOK
  BY TypeCorrect
<1> QED
  BY <1>1, InitEstablishes, NextPreserves, PTL DEF Spec

\* ReadyIsReady, whatever the number of calls and the shape of their paths.
THEOREM ReadyMeansReady == Spec => []ReadyIsReady
<1>1. EnsureInv => ReadyIsReady
  BY DEF EnsureInv, CallInv, ReadyInv, ReadyIsReady
<1> QED
  BY <1>1, EnsureInvariant, PTL

\* NoneFailsAlone likewise: concurrent calls never make each other fail.
THEOREM NobodyFailsAlone == Spec => []NoneFailsAlone
<1>1. EnsureInv => NoneFailsAlone
  BY DEF EnsureInv, CallInv, FailedInv, NoneFailsAlone
<1> QED
  BY <1>1, EnsureInvariant, PTL
=============================================================================
