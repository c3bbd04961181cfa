--------------------------- MODULE WithLockProofs ---------------------------
(***************************************************************************)
(* What WithLock keeps for any finite number of calls.  Everything follows *)
(* from one inductive invariant: an open descriptor leads to a file, two   *)
(* holders have different files, and the files that are still of any use   *)
(* (the named one, and the unlinked ones somebody has open) are at most as *)
(* many as the calls that have unlinked the name, and one more for a file  *)
(* that has the name.                                                      *)
(***************************************************************************)
EXTENDS WithLock, FiniteSetTheorems, TLAPS

\* close() at the end of a call does to it what an error or a kill would.
LEMMA StepCases ==
  ASSUME [Next]_vars
  PROVE  \/ UNCHANGED vars
         \/ Restart
         \/ \E c \in Calls :
              \/ OpenLock(c) \/ StatLock(c) \/ ChmodLock(c) \/ FlockLock(c)
              \/ Unlock(c) \/ UnlinkLock(c) \/ UnlinkLockFails(c)
              \/ pc[c] \notin Ended /\ Stop(c)
<1>1. ASSUME NEW c \in Calls, CloseLock(c)
      PROVE  pc[c] \notin Ended /\ Stop(c)
  BY <1>1 DEF CloseLock, Goto, Stop, Ended
<1> QED
  BY <1>1 DEF Next, Step, Progress, ChmodLost, LockError, Killed, Open, Ended

LEMMA TypeInit == Init => TypeOK
  BY FilesAssumption DEF Init, TypeOK, Files, Open, Ended

LEMMA TypeNext == TypeOK /\ [Next]_vars => TypeOK'
<1> SUFFICES ASSUME TypeOK, [Next]_vars
             PROVE  TypeOK'
  OBVIOUS
<1> USE DEF TypeOK, Files
<1>1. CASE UNCHANGED vars
  BY <1>1 DEF vars
<1>2. CASE Restart
  BY <1>2 DEF Restart
<1>3. ASSUME NEW c \in Calls, OpenLock(c)
      PROVE  TypeOK'
  BY <1>3 DEF OpenLock, Goto, Open
<1>4. ASSUME NEW c \in Calls, StatLock(c)
      PROVE  TypeOK'
  BY <1>4 DEF StatLock, Goto, Open
<1>5. ASSUME NEW c \in Calls, ChmodLock(c)
      PROVE  TypeOK'
  BY <1>5 DEF ChmodLock, Goto, Open
<1>6. ASSUME NEW c \in Calls, FlockLock(c) \/ Unlock(c) \/ UnlinkLockFails(c)
      PROVE  TypeOK'
  BY <1>6 DEF FlockLock, Unlock, UnlinkLockFails, Goto, Open
<1>7. ASSUME NEW c \in Calls, UnlinkLock(c)
      PROVE  TypeOK'
  BY <1>7 DEF UnlinkLock, Goto, Open
<1>8. ASSUME NEW c \in Calls, Stop(c)
      PROVE  TypeOK'
  BY <1>8 DEF Stop, Ended
<1> QED
  BY <1>1, <1>2, <1>3, <1>4, <1>5, <1>6, <1>7, <1>8, StepCases

(***************************************************************************)
(* The lock's state has the types WithLock declares.                       *)
(***************************************************************************)
THEOREM TypeCorrect == Spec => []TypeOK
<1>1. Init => TypeOK
  BY TypeInit
<1>2. TypeOK /\ [Next]_vars => TypeOK'
  BY TypeNext
<1> QED
  BY <1>1, <1>2, PTL DEF Spec

(***************************************************************************)
(* A lock file that stays was left by the call that created it (an error,  *)
(* a kill, an unlink that failed): the first unlink of with_lock that      *)
(* works removes whatever has the name, and only new calls create files.   *)
(***************************************************************************)
THEOREM LockFileAccounted == Spec => []LeftByItsCreator
<1>1. Init => LeftByItsCreator
  BY FilesAssumption DEF Init, LeftByItsCreator, Unlinkers
<1>2. TypeOK /\ LeftByItsCreator /\ [Next]_vars => LeftByItsCreator'
  <2> SUFFICES ASSUME TypeOK, LeftByItsCreator, [Next]_vars
               PROVE  LeftByItsCreator'
    OBVIOUS
  <2> USE DEF TypeOK, LeftByItsCreator, Unlinkers
  <2>1. CASE UNCHANGED vars
    BY <2>1 DEF vars
  <2>2. CASE Restart
    BY <2>2, FilesAssumption DEF Restart
  <2>3. ASSUME NEW c \in Calls, OpenLock(c)
        PROVE  LeftByItsCreator'
    BY <2>3, FilesAssumption DEF OpenLock, Goto
  <2>4. ASSUME NEW c \in Calls,
               \/ StatLock(c) \/ ChmodLock(c) \/ FlockLock(c)
               \/ Unlock(c) \/ UnlinkLockFails(c)
        PROVE  LeftByItsCreator'
    BY <2>4 DEF StatLock, ChmodLock, FlockLock, Unlock, UnlinkLockFails, Goto
  <2>5. ASSUME NEW c \in Calls, UnlinkLock(c)
        PROVE  LeftByItsCreator'
    BY <2>5, FilesAssumption DEF UnlinkLock
  <2>6. ASSUME NEW c \in Calls, Stop(c), pc[c] \notin Ended
        PROVE  LeftByItsCreator'
    <3>1. Unlinkers' = Unlinkers /\ dirent' = dirent
      BY <2>6 DEF Stop, Ended
    <3> QED
      BY <3>1
  <2> QED
    BY <2>1, <2>2, <2>3, <2>4, <2>5, <2>6, StepCases
<1> QED
  BY <1>1, <1>2, TypeCorrect, PTL DEF Spec
-----------------------------------------------------------------------------
(* The overlap of callbacks.                                              *)

\* The files that can still be locked: the named one and the open ones.
Live == {f \in Files : f = dirent \/ \E c \in Calls : fd[c] = f}

\* Open descriptors lead to files, and only open ones do.
DescriptorInv == \A c \in Calls : pc[c] \in Open <=> fd[c] # NoFile

\* flock() grants a file to one descriptor at a time.
FlockInv == \A c, d \in Holders : fd[c] = fd[d] => c = d

\* A second live file exists only because a call unlinked the first one's name.
LiveInv == Cardinality(Live) <= Cardinality(Unlinkers) + (IF dirent = NoFile THEN 0 ELSE 1)

OverlapInv == TypeOK /\ DescriptorInv /\ FlockInv /\ LiveInv

LEMMA FiniteSets ==
  /\ IsFiniteSet(Files)
  /\ IsFiniteSet(Live) /\ Cardinality(Live) \in Nat
  /\ IsFiniteSet(Unlinkers) /\ Cardinality(Unlinkers) \in Nat
  /\ IsFiniteSet(Holders) /\ Cardinality(Holders) \in Nat
<1>1. IsFiniteSet(Files)
  BY FilesAssumption, FS_AddElement DEF Files
<1>2. Live \in SUBSET Files /\ Unlinkers \in SUBSET Calls /\ Holders \in SUBSET Calls
  BY DEF Live, Unlinkers, Holders
<1>3. IsFiniteSet(Live) /\ IsFiniteSet(Unlinkers) /\ IsFiniteSet(Holders)
  BY <1>1, <1>2, FilesAssumption, FS_Subset
<1> QED
  BY <1>1, <1>3, FS_CardinalityType

LEMMA FiniteSetsNext ==
  /\ IsFiniteSet(Live') /\ Cardinality(Live') \in Nat
  /\ IsFiniteSet(Unlinkers') /\ Cardinality(Unlinkers') \in Nat
<1>1. Live' \in SUBSET Files /\ Unlinkers' \in SUBSET Calls
  BY DEF Live, Unlinkers, Files
<1>2. IsFiniteSet(Live') /\ IsFiniteSet(Unlinkers')
  BY <1>1, FiniteSets, FilesAssumption, FS_Subset
<1> QED
  BY <1>2, FS_CardinalityType

\* A file that is live twice is found once: the holders are no more than the
\* live files.
LEMMA HoldersAreLive ==
  ASSUME OverlapInv
  PROVE  Cardinality(Holders) <= Cardinality(Live)
<1> DEFINE file == [c \in Holders |-> fd[c]]
<1>1. \A c \in Holders : fd[c] \in Live
  BY DEF OverlapInv, TypeOK, DescriptorInv, Holders, Holds, Live, Open
<1>2. file \in Injection(Holders, Live)
  BY <1>1 DEF Injection, IsInjective, OverlapInv, FlockInv
<1> QED
  BY <1>2, FiniteSets, FS_Injection

\* The two cardinalities of LiveInv compare as their sets do.
LEMMA LiveStep ==
  ASSUME LiveInv, Live' \subseteq Live, Unlinkers \subseteq Unlinkers', dirent' = dirent
  PROVE  LiveInv'
<1>1. Cardinality(Live') <= Cardinality(Live)
  BY FiniteSets, FS_Subset
<1>2. Cardinality(Unlinkers) <= Cardinality(Unlinkers')
  BY FiniteSetsNext, FS_Subset
<1> QED
  BY <1>1, <1>2, FiniteSets, FiniteSetsNext DEF LiveInv

LEMMA OverlapInit == Init => OverlapInv
<1> SUFFICES ASSUME Init
             PROVE  OverlapInv
  OBVIOUS
<1>1. TypeOK
  BY TypeInit
<1>2. DescriptorInv /\ FlockInv
  BY DEF Init, DescriptorInv, FlockInv, Holders, Holds, Open
<1>3. LiveInv
  <2>1. CASE dirent = NoFile
    <3>1. Live = {}
      BY <2>1, FilesAssumption DEF Init, Live, Files
    <3> QED
      BY <2>1, <3>1, FiniteSets, FS_EmptySet DEF LiveInv
  <2>2. CASE dirent = OldFile
    <3>1. Live = {OldFile}
      BY <2>2, FilesAssumption DEF Init, Live, Files
    <3>2. Cardinality(Live) = 1
      BY <3>1, FS_Singleton
    <3> QED
      BY <2>2, <3>2, FiniteSets, FilesAssumption DEF LiveInv
  <2> QED
    BY <2>1, <2>2 DEF Init
<1> QED
  BY <1>1, <1>2, <1>3 DEF OverlapInv

LEMMA OverlapNext == OverlapInv /\ [Next]_vars => OverlapInv'
<1> SUFFICES ASSUME OverlapInv, [Next]_vars
             PROVE  OverlapInv'
  OBVIOUS
<1> USE DEF OverlapInv
<1>0. TypeOK'
  BY TypeNext
<1>1. CASE UNCHANGED vars
  BY <1>0, <1>1 DEF vars, DescriptorInv, FlockInv, LiveInv, Live, Unlinkers, Holders, Holds
<1>2. CASE Restart
  <2>1. DescriptorInv' /\ FlockInv'
    BY <1>2 DEF Restart, DescriptorInv, FlockInv, Holders, Holds, Open
  <2>2. LiveInv'
    <3>1. Unlinkers' = {}
      BY <1>2 DEF Restart, Unlinkers
    <3>2. CASE dirent = NoFile
      <4>1. Live' = {} /\ dirent' = NoFile
        BY <1>2, <3>2, FilesAssumption DEF Restart, Live, Files
      <4> QED
        BY <3>1, <4>1, FS_EmptySet DEF LiveInv
    <3>3. CASE dirent # NoFile
      <4>1. Live' = {OldFile} /\ dirent' = OldFile
        BY <1>2, <3>3, FilesAssumption DEF Restart, Live, Files
      <4>2. Cardinality(Live') = 1
        BY <4>1, FS_Singleton
      <4>3. Cardinality(Unlinkers') = 0
        BY <3>1, FS_EmptySet
      <4> QED
        BY <4>1, <4>2, <4>3, FilesAssumption DEF LiveInv
    <3> QED
      BY <3>2, <3>3
  <2> QED
    BY <1>0, <2>1, <2>2
<1>3. ASSUME NEW c \in Calls, OpenLock(c)
      PROVE  OverlapInv'
  <2>1. DescriptorInv'
    BY <1>3, FilesAssumption DEF OpenLock, Goto, DescriptorInv, TypeOK, Files, Open
  <2>2. FlockInv'
    BY <1>3 DEF OpenLock, Goto, FlockInv, TypeOK, Holders, Holds
  <2>3. Unlinkers' = Unlinkers
    BY <1>3 DEF OpenLock, Goto, TypeOK, Unlinkers
  <2>4. CASE dirent = NoFile
    <3>1. Live' \subseteq Live \cup {c}
      BY <1>3, <2>4 DEF OpenLock, TypeOK, Live
    <3>2. /\ IsFiniteSet(Live \cup {c})
          /\ Cardinality(Live \cup {c}) =
               IF c \in Live THEN Cardinality(Live) ELSE Cardinality(Live) + 1
      <4>1. IsFiniteSet(Live)
        BY FiniteSets
      <4> QED
        BY <4>1, FS_AddElement
    <3>3. Cardinality(Live') <= Cardinality(Live \cup {c})
      BY <3>1, <3>2, FS_Subset
    <3>4. dirent' # NoFile
      BY <1>3, <2>4, FilesAssumption DEF OpenLock
    <3>5. LiveInv'
      BY <2>3, <2>4, <3>2, <3>3, <3>4, FiniteSets, FiniteSetsNext DEF LiveInv
    <3> QED
      BY <1>0, <2>1, <2>2, <3>5
  <2>5. CASE dirent # NoFile
    <3>1. Live' \subseteq Live /\ dirent' = dirent
      BY <1>3, <2>5 DEF OpenLock, TypeOK, Live
    <3> QED
      BY <1>0, <2>1, <2>2, <2>3, <3>1, LiveStep
  <2> QED
    BY <2>4, <2>5
<1>4. ASSUME NEW c \in Calls, StatLock(c) \/ ChmodLock(c) \/ Unlock(c) \/ UnlinkLockFails(c)
      PROVE  OverlapInv'
  <2>1. DescriptorInv'
    BY <1>4 DEF StatLock, ChmodLock, Unlock, UnlinkLockFails, Goto, DescriptorInv, TypeOK, Open
  <2>2. FlockInv'
    BY <1>4 DEF StatLock, ChmodLock, Unlock, UnlinkLockFails, Goto, FlockInv, TypeOK,
                Holders, Holds
  <2>3. Unlinkers' = Unlinkers /\ Live' = Live /\ dirent' = dirent
    BY <1>4 DEF StatLock, ChmodLock, Unlock, UnlinkLockFails, Goto, TypeOK, Unlinkers, Live
  <2> QED
    BY <1>0, <2>1, <2>2, <2>3, LiveStep
<1>5. ASSUME NEW c \in Calls, FlockLock(c)
      PROVE  OverlapInv'
  <2>1. DescriptorInv'
    BY <1>5 DEF FlockLock, Goto, DescriptorInv, TypeOK, Open
  <2>2. Holders' = Holders \cup {c} /\ fd' = fd
    BY <1>5 DEF FlockLock, Goto, TypeOK, Holders, Holds
  <2>3. FlockInv'
    BY <1>5, <2>2 DEF FlockLock, FlockInv
  <2>4. Unlinkers' = Unlinkers /\ Live' = Live /\ dirent' = dirent
    BY <1>5 DEF FlockLock, Goto, TypeOK, Unlinkers, Live
  <2> QED
    BY <1>0, <2>1, <2>3, <2>4, LiveStep
<1>6. ASSUME NEW c \in Calls, UnlinkLock(c)
      PROVE  OverlapInv'
  <2>1. DescriptorInv'
    BY <1>6 DEF UnlinkLock, Goto, DescriptorInv, TypeOK, Open
  <2>2. FlockInv'
    BY <1>6 DEF UnlinkLock, Goto, FlockInv, TypeOK, Holders, Holds
  <2>3. Unlinkers' = Unlinkers \cup {c} /\ c \notin Unlinkers
    BY <1>6 DEF UnlinkLock, Goto, TypeOK, Unlinkers
  <2>4. Cardinality(Unlinkers') = Cardinality(Unlinkers) + 1
    BY <2>3, FiniteSets, FS_AddElement
  <2>5. Live' \subseteq Live /\ dirent' = NoFile
    BY <1>6, FilesAssumption DEF UnlinkLock, Live, Files
  <2>6. Cardinality(Live') <= Cardinality(Live)
    BY <2>5, FiniteSets, FS_Subset
  <2>7. LiveInv'
    BY <2>4, <2>5, <2>6, FiniteSets, FiniteSetsNext DEF LiveInv
  <2> QED
    BY <1>0, <2>1, <2>2, <2>7
<1>7. ASSUME NEW c \in Calls, pc[c] \notin Ended, Stop(c)
      PROVE  OverlapInv'
  <2>1. DescriptorInv'
    BY <1>7 DEF Stop, DescriptorInv, TypeOK, Open
  <2>2. FlockInv'
    BY <1>7 DEF Stop, FlockInv, TypeOK, Holders, Holds
  <2>3. Unlinkers' = Unlinkers
    BY <1>7 DEF Stop, Ended, TypeOK, Unlinkers
  <2>4. Live' \subseteq Live /\ dirent' = dirent
    BY <1>7, FilesAssumption DEF Stop, TypeOK, Live, Files
  <2> QED
    BY <1>0, <2>1, <2>2, <2>3, <2>4, LiveStep
<1> QED
  BY <1>1, <1>2, <1>3, <1>4, <1>5, <1>6, <1>7, StepCases

LEMMA OverlapFromInv == OverlapInv => OverlapBound
<1> SUFFICES ASSUME OverlapInv
             PROVE  OverlapBound
  OBVIOUS
<1>1. Cardinality(Holders) <= Cardinality(Live)
  BY HoldersAreLive
<1>2. Cardinality(Live) <= Cardinality(Unlinkers) + 1
  BY FiniteSets DEF OverlapInv, LiveInv
<1> QED
  BY <1>1, <1>2, FiniteSets DEF OverlapBound

THEOREM OverlapInvariant == Spec => []OverlapInv
<1>1. Init => OverlapInv
  BY OverlapInit
<1>2. OverlapInv /\ [Next]_vars => OverlapInv'
  BY OverlapNext
<1> QED
  BY <1>1, <1>2, PTL DEF Spec

(***************************************************************************)
(* For any number of callers of with_lock: callbacks overlap only on the   *)
(* account of calls that have unlinked the lock file.                      *)
(***************************************************************************)
THEOREM OverlapBounded == Spec => []OverlapBound
<1>1. OverlapInv => OverlapBound
  BY OverlapFromInv
<1> QED
  BY <1>1, OverlapInvariant, PTL
(***************************************************************************)
(* Two calls exclude each other, which is what the documentation of        *)
(* with_lock promises for any number of them.                              *)
(***************************************************************************)
THEOREM PairExclusive ==
  ASSUME NEW a, NEW b, Calls = {a, b}
  PROVE  Spec => [](\A c, d \in Holders : c = d)
<1>1. OverlapBound => \A c, d \in Holders : c = d
  <2> SUFFICES ASSUME OverlapBound, NEW c \in Holders, NEW d \in Holders, c # d
               PROVE  FALSE
    OBVIOUS
  <2>1. Holders = {c, d} /\ Unlinkers = {}
    BY DEF Holders, Holds, Unlinkers
  <2>2. Cardinality({c} \cup {d}) = 2
    <3>1. IsFiniteSet({c}) /\ Cardinality({c}) = 1
      BY FS_Singleton
    <3> QED
      BY <3>1, FS_AddElement
  <2>3. Cardinality(Holders) = 2
    <3>1. Holders = {c} \cup {d}
      BY <2>1
    <3> QED
      BY <2>2, <3>1
  <2>4. Cardinality(Unlinkers) = 0
    BY <2>1, FS_EmptySet
  <2> QED
    BY <2>3, <2>4 DEF OverlapBound
<1> QED
  BY <1>1, OverlapBounded, PTL
-----------------------------------------------------------------------------
(* The refinement of LockPromise.                                         *)

\* What the caller of each call sees; the instance's only variable.
phases == [c \in Calls |-> Phase(c)]

LEMMA PromiseSets ==
  /\ Promise!Inside = Holders
  /\ Promise!Released = Unlinkers
  BY DEF Promise!Inside, Promise!Released, Holders, Holds, Unlinkers, Phase

\* The instance of LockPromise has a Cardinality of its own.
LEMMA SameCardinality == \A S : Promise!Cardinality(S) = Cardinality(S)
  BY DEF Promise!Cardinality, Cardinality

\* A step of c alone moves the phase of c alone.
LEMMA PhaseStep ==
  ASSUME TypeOK, NEW c \in Calls, NEW from, NEW to, Goto(c, from, to)
  PROVE  phases' = [phases EXCEPT ![c] = Phase(c)'] /\ pc[c] = from /\ pc'[c] = to
<1>1. pc[c] = from /\ pc'[c] = to /\ \A d \in Calls \ {c} : pc'[d] = pc[d]
  BY DEF TypeOK, Goto
<1>2. \A d \in Calls \ {c} : Phase(d)' = Phase(d)
  BY <1>1 DEF Phase
<1> QED
  BY <1>1, <1>2 DEF phases

LEMMA PromiseInit == Init => Promise!Init
  BY DEF Init, Promise!Init, Phase

LEMMA PromiseNext == OverlapInv /\ [Next]_vars => [Promise!Next]_phases
<1> SUFFICES ASSUME OverlapInv, [Next]_vars
             PROVE  [Promise!Next]_phases
  OBVIOUS
<1> USE DEF OverlapInv
<1>1. CASE UNCHANGED vars
  BY <1>1 DEF vars, phases, Phase
<1>2. CASE Restart
  <2>1. phases' = [c \in Calls |-> "before"]
    BY <1>2 DEF Restart, phases, Phase
  <2> QED
    BY <2>1 DEF Promise!Next, Promise!Restart, phases
<1>3. ASSUME NEW c \in Calls,
             OpenLock(c) \/ StatLock(c) \/ ChmodLock(c) \/ UnlinkLockFails(c)
      PROVE  [Promise!Next]_phases
  <2>1. Phase(c)' = Phase(c) /\ \A d \in Calls \ {c} : Phase(d)' = Phase(d)
    BY <1>3 DEF OpenLock, StatLock, ChmodLock, UnlinkLockFails, Goto, Phase, TypeOK
  <2> QED
    BY <2>1 DEF phases
<1>4. ASSUME NEW c \in Calls, FlockLock(c)
      PROVE  [Promise!Next]_phases
  <2>1. Phase(c) = "before" /\ phases' = [phases EXCEPT ![c] = "inside"]
    <3>1. phases' = [phases EXCEPT ![c] = Phase(c)'] /\ pc[c] = "waiting" /\ pc'[c] = "held"
      BY <1>4, PhaseStep DEF FlockLock
    <3>2. Phase(c) = "before" /\ Phase(c)' = "inside"
      BY <3>1 DEF Phase
    <3> QED
      BY <3>1, <3>2
  <2>2. Holders' = Holders \cup {c} /\ c \notin Holders /\ Unlinkers' = Unlinkers
    BY <1>4 DEF FlockLock, Goto, TypeOK, Holders, Holds, Unlinkers
  <2>3. Cardinality(Holders') = Cardinality(Holders) + 1
    <3>1. IsFiniteSet(Holders)
      BY FiniteSets
    <3> QED
      BY <2>2, <3>1, FS_AddElement
  <2>4. Cardinality(Holders') <= 1 + Cardinality(Unlinkers')
    <3>1. OverlapInv'
      BY OverlapNext
    <3>2. OverlapBound'
      BY <3>1, OverlapFromInv, PTL
    <3> QED
      BY <3>2 DEF OverlapBound
  <2>5. Cardinality(Holders) <= Cardinality(Unlinkers)
    BY <2>2, <2>3, <2>4, FiniteSets
  <2>6. Promise!Enter(c)
    <3>1. phases[c] = "before"
      BY <2>1 DEF phases
    <3> QED
      BY <2>1, <2>5, <3>1, PromiseSets, SameCardinality DEF Promise!Enter, Promise!Move, phases
  <2> QED
    BY <2>6 DEF Promise!Next
<1>5. ASSUME NEW c \in Calls, Unlock(c)
      PROVE  [Promise!Next]_phases
  <2>1. Phase(c) = "inside" /\ phases' = [phases EXCEPT ![c] = "after"]
    <3>1. phases' = [phases EXCEPT ![c] = Phase(c)'] /\ pc[c] = "held" /\ pc'[c] = "unlocked"
      BY <1>5, PhaseStep DEF Unlock
    <3>2. Phase(c) = "inside" /\ Phase(c)' = "after"
      BY <3>1 DEF Phase
    <3> QED
      BY <3>1, <3>2
  <2>2. Promise!Leave(c)
    BY <2>1 DEF Promise!Leave, Promise!Move, phases
  <2> QED
    BY <2>2 DEF Promise!Next
<1>6. ASSUME NEW c \in Calls, UnlinkLock(c)
      PROVE  [Promise!Next]_phases
  <2>1. Phase(c) = "after" /\ phases' = [phases EXCEPT ![c] = "released"]
    <3>1. phases' = [phases EXCEPT ![c] = Phase(c)'] /\ pc[c] = "unlocked" /\ pc'[c] = "unlinked"
      BY <1>6, PhaseStep DEF UnlinkLock
    <3>2. Phase(c) = "after" /\ Phase(c)' = "released"
      BY <3>1 DEF Phase
    <3> QED
      BY <3>1, <3>2
  <2>2. Promise!Release(c)
    BY <2>1 DEF Promise!Release, Promise!Move, phases
  <2> QED
    BY <2>2 DEF Promise!Next
<1>7. ASSUME NEW c \in Calls, pc[c] \notin Ended, Stop(c)
      PROVE  [Promise!Next]_phases
  <2>1. CASE pc[c] = "unlinked"
    <3>1. Phase(c)' = Phase(c) /\ \A d \in Calls \ {c} : Phase(d)' = Phase(d)
      BY <1>7, <2>1 DEF Stop, Phase, TypeOK
    <3> QED
      BY <3>1 DEF phases
  <2>2. CASE pc[c] # "unlinked"
    <3>1. Goto(c, pc[c], "left")
      BY <1>7, <2>2 DEF Stop, Goto
    <3>2. phases' = [phases EXCEPT ![c] = Phase(c)'] /\ pc'[c] = "left"
      BY <3>1, PhaseStep
    <3>3. Phase(c) \notin {"released", "ended"} /\ Phase(c)' = "ended"
      BY <1>7, <2>2, <3>2 DEF Phase, Ended
    <3>4. Promise!End(c)
      BY <3>2, <3>3 DEF Promise!End, phases
    <3> QED
      BY <3>4 DEF Promise!Next
  <2> QED
    BY <2>1, <2>2
<1> QED
  BY <1>1, <1>2, <1>3, <1>4, <1>5, <1>6, <1>7, StepCases

(***************************************************************************)
(* The system calls of with_lock implement LockPromise: each callback is   *)
(* entered at most once, and beside others only on the account of calls    *)
(* that have taken the lock file's name away.                              *)
(***************************************************************************)
THEOREM PromiseKept == Spec => KeepsPromise
<1>1. Init => Promise!Init
  BY PromiseInit
<1>2. OverlapInv /\ [Next]_vars => [Promise!Next]_phases
  BY PromiseNext
<1> QED
  BY <1>1, <1>2, OverlapInvariant, PTL DEF Spec, KeepsPromise, Promise!Spec, phases
=============================================================================
