---------------------------- MODULE JobEnvProofs ----------------------------
(***************************************************************************)
(* What JobEnv keeps for any number of steps, nested in any depth, any     *)
(* command lines and edits, and any number of setenv failures.             *)
(***************************************************************************)
EXTENDS JobEnv, FiniteSetTheorems, TLAPS

\* A user's value is only lost where the plugin has claimed the dump directory.
UserInv ==
  \A p \in Processes : \A v \in Vars :
    mine[p][v] = Short /\ ~(v = "dumpDir" /\ environ[p].flag) => environ[p].nccl[v] = Short

\* A dump directory that the plugin made has the flag with it.
FlagInv ==
  ~flagLost => \A p \in Processes :
                 environ[p].nccl["dumpDir"].by = "plugin" => environ[p].flag
-----------------------------------------------------------------------------
(* Values and types.                                                      *)

LEMMA ValueTypes ==
  /\ None \in Values /\ Short \in Values /\ Long \in Values
  /\ \A f \in Sources, a \in Steps \cup {"job"} : FromPlugin(f, a) \in Values
  BY DEF Values

LEMMA ValuesDiffer ==
  /\ Short # None /\ Short # Long
  /\ None.by # "plugin" /\ Short.by # "plugin" /\ Long.by # "plugin"
  BY DEF None, Short, Long

\* An environment with one of its parts replaced.
LEMMA EnvironTypes ==
  ASSUME NEW e \in EnvironShapes
  PROVE  /\ \A v \in Vars, x \in Values : [e EXCEPT !.nccl[v] = x] \in EnvironShapes
         /\ \A plug \in SUBSET Vars : [e EXCEPT !.plug = plug] \in EnvironShapes
         /\ \A switch \in Switches : [e EXCEPT !.enabled = switch] \in EnvironShapes
         /\ \A nccl \in [Vars -> Values], flag \in BOOLEAN :
              [e EXCEPT !.nccl = nccl, !.flag = flag] \in EnvironShapes
  BY DEF EnvironShapes

LEMMA TypeInit == Init => TypeOK
<1> SUFFICES ASSUME Init
             PROVE  TypeOK
  OBVIOUS
<1>1. PICK e \in Environs : /\ environ = [p \in Processes |-> e]
                            /\ mine = [p \in Processes |-> e.nccl]
  BY DEF Init
<1>2. e \in EnvironShapes /\ \A v \in Vars : e.nccl[v].by # "plugin"
  BY JobAssumption
<1>3. e.nccl \in [Vars -> {None, Short, Long}]
  <2>1. \A f \in Sources, a \in Steps \cup {"job"} : FromPlugin(f, a).by = "plugin"
    BY DEF FromPlugin
  <2>2. e.nccl \in [Vars -> Values]
    BY <1>2 DEF EnvironShapes
  <2> QED
    BY <1>2, <2>1, <2>2 DEF Values
<1>4. environ \in [Processes -> EnvironShapes]
  BY <1>1, <1>2
<1>5. mine \in [Processes -> [Vars -> {None, Short, Long}]]
  BY <1>1, <1>3
<1>6. config \in [Steps -> Configs]
  BY DEF Init, Defaults, Configs, Sources
<1>7. option \in [Steps -> OptionShapes]
  BY DEF Init, NoOption, OptionShapes, Switches
<1>8. parent \in [Steps -> Processes]
  BY DEF Init, Processes
<1>9. faults \in 0..MaxFaults /\ edits \in 0..MaxEdits
  BY JobAssumption DEF Init
<1>10. phase \in [Steps -> Phases] /\ batch \in [Steps -> BOOLEAN] /\ flagLost \in BOOLEAN
  BY DEF Init, Phases
<1> QED
  BY <1>4, <1>5, <1>6, <1>7, <1>8, <1>9, <1>10 DEF TypeOK

LEMMA UserTypes ==
  ASSUME TypeOK, NEW p \in Processes, UserStep(p)
  PROVE  TypeOK'
<1> USE DEF TypeOK
<1>1. ASSUME NEW v \in Vars, NEW value \in {None, Short, Long}, SetVariable(p, v, value)
      PROVE  TypeOK'
  <2>1. environ' \in [Processes -> EnvironShapes]
    <3>1. value \in Values /\ environ[p] \in EnvironShapes
      BY ValueTypes
    <3>2. environ' = [environ EXCEPT ![p] = [environ[p] EXCEPT !.nccl[v] = value]]
      BY <1>1 DEF SetVariable
    <3> QED
      BY <3>1, <3>2, EnvironTypes
  <2>2. mine' \in [Processes -> [Vars -> {None, Short, Long}]]
    BY <1>1 DEF SetVariable
  <2> QED
    BY <1>1, <2>1, <2>2, JobAssumption DEF SetVariable, Edit
<1>2. ASSUME NEW v \in Vars, SetPluginVariable(p, v)
      PROVE  TypeOK'
  <2>1. environ' \in [Processes -> EnvironShapes]
    <3>1. PICK plug \in {environ[p].plug \cup {v}, environ[p].plug \ {v}} :
            environ' = [environ EXCEPT ![p] = [environ[p] EXCEPT !.plug = plug]]
      BY <1>2 DEF SetPluginVariable
    <3>2. plug \in SUBSET Vars /\ environ[p] \in EnvironShapes
      BY DEF EnvironShapes
    <3> QED
      BY <3>1, <3>2, EnvironTypes
  <2> QED
    BY <1>2, <2>1, JobAssumption DEF SetPluginVariable, Edit
<1>3. ASSUME NEW switch \in Switches, SetEnabled(p, switch)
      PROVE  TypeOK'
  <2>1. environ' \in [Processes -> EnvironShapes]
    <3>1. environ' = [environ EXCEPT ![p] = [environ[p] EXCEPT !.enabled = switch]]
      BY <1>3 DEF SetEnabled
    <3> QED
      BY <3>1, EnvironTypes
  <2> QED
    BY <1>3, <2>1, JobAssumption DEF SetEnabled, Edit
<1>4. ASSUME NEW s \in Steps, Start(p, s)
      PROVE  TypeOK'
  <2>1. option' \in [Steps -> OptionShapes] /\ batch' \in [Steps -> BOOLEAN]
    BY <1>4, JobAssumption DEF Start, CommandLinesOf, NoOption, OptionShapes, Switches
  <2>2. environ' \in [Processes -> EnvironShapes]
    BY <1>4 DEF Start
  <2>3. mine' \in [Processes -> [Vars -> {None, Short, Long}]]
    BY <1>4 DEF Start
  <2> QED
    BY <1>4, <2>1, <2>2, <2>3 DEF Start, Goto, Phases
<1> QED
  BY <1>1, <1>2, <1>3, <1>4 DEF UserStep

LEMMA ConfigTypes ==
  ASSUME TypeOK, NEW s \in Steps, SpankInit(s) \/ SpankOptions(s)
  PROVE  config' \in [Steps -> Configs]
<1>1. /\ environ[s].enabled \in Switches /\ option[s].enabled \in Switches
      /\ config[s].enabled \in BOOLEAN /\ config[s].source \in [Vars -> Sources]
  BY DEF TypeOK, EnvironShapes, OptionShapes, Configs, Processes
<1>2. CASE SpankInit(s)
  <2>1. Switch(Defaults.enabled, environ[s].enabled) \in BOOLEAN
    BY DEF Switch, Defaults
  <2>2. [v \in Vars |-> IF v \in environ[s].plug THEN "env" ELSE Defaults.source[v]]
          \in [Vars -> Sources]
    BY DEF Defaults, Sources
  <2> QED
    BY <1>2, <2>1, <2>2 DEF TypeOK, SpankInit, Configs
<1>3. CASE SpankOptions(s)
  <2>1. Switch(config[s].enabled, option[s].enabled) \in BOOLEAN
    BY <1>1 DEF Switch
  <2>2. [v \in Vars |-> IF v \in option[s].given THEN "option" ELSE config[s].source[v]]
          \in [Vars -> Sources]
    BY <1>1 DEF Sources
  <2> QED
    BY <1>3, <2>1, <2>2 DEF TypeOK, SpankOptions, Configs
<1> QED
  BY <1>2, <1>3

LEMMA FailsFinite == IsFiniteSet(Vars \cup {"flag"})
<1>1. IsFiniteSet({} \cup {"dumpDir"})
  BY FS_EmptySet, FS_AddElement
<1>2. IsFiniteSet(({} \cup {"dumpDir"}) \cup {"other"})
  BY <1>1, FS_AddElement
<1>3. IsFiniteSet((({} \cup {"dumpDir"}) \cup {"other"}) \cup {"flag"})
  BY <1>2, FS_AddElement
<1>4. Vars \cup {"flag"} = (({} \cup {"dumpDir"}) \cup {"other"}) \cup {"flag"}
  BY DEF Vars
<1> QED
  BY <1>3, <1>4

\* What user_init does to the environment of its step.
Exported(s, nccl, flag) ==
  /\ environ' = [environ EXCEPT ![s] = [@ EXCEPT !.nccl = nccl, !.flag = flag]]
  /\ \A v \in Vars :
       nccl[v] = environ[s].nccl[v]
         \/ (~Exists(s, v) /\ nccl[v] = FromPlugin(config[s].source[v], "job"))
  /\ environ[s].flag => flag
  /\ nccl["dumpDir"] # environ[s].nccl["dumpDir"] => flag \/ flagLost'
  /\ flagLost => flagLost'

LEMMA ExportEffect ==
  ASSUME TypeOK, NEW s \in Steps, NEW fails \in SUBSET (Vars \cup {"flag"}), Export(s, fails)
  PROVE  \E nccl \in [Vars -> Values], flag \in BOOLEAN : Exported(s, nccl, flag)
<1> DEFINE missing == {v \in Vars : ~Exists(s, v)}
           setNow == missing \ fails
           nccl == [v \in Vars |-> IF v \in setNow
                                   THEN FromPlugin(config[s].source[v], "job")
                                   ELSE environ[s].nccl[v]]
           flag == environ[s].flag \/ ("dumpDir" \in setNow /\ "flag" \notin fails)
<1>1. /\ environ[s].flag \in BOOLEAN /\ environ[s].nccl \in [Vars -> Values]
      /\ config[s].source \in [Vars -> Sources]
  BY DEF TypeOK, EnvironShapes, Configs, Processes
<1>2. nccl \in [Vars -> Values]
  BY <1>1, ValueTypes
<1>3. flag \in BOOLEAN
  BY <1>1
<1>4. environ' = [environ EXCEPT ![s] = [@ EXCEPT !.nccl = nccl, !.flag = flag]]
  BY DEF Export
<1>5. flagLost' = (flagLost \/ "flag" \in fails)
  BY DEF Export
<1>6. nccl["dumpDir"] # environ[s].nccl["dumpDir"] => flag \/ flagLost'
  BY <1>5 DEF Vars
<1>7. \A v \in Vars :
        nccl[v] = environ[s].nccl[v]
          \/ (~Exists(s, v) /\ nccl[v] = FromPlugin(config[s].source[v], "job"))
  OBVIOUS
<1>8. environ[s].flag => flag
  OBVIOUS
<1> HIDE DEF nccl, flag
<1> QED
  BY <1>2, <1>3, <1>4, <1>5, <1>6, <1>7, <1>8 DEF Exported

LEMMA HookTypes ==
  ASSUME TypeOK, NEW s \in Steps, HookStep(s)
  PROVE  TypeOK'
<1> USE DEF TypeOK, Goto, Phases
<1>1. CASE SpankInit(s) \/ SpankOptions(s)
  BY <1>1, ConfigTypes DEF SpankInit, SpankOptions
<1>2. CASE UserInit(s)
  <2>1. ASSUME NEW fails \in SUBSET (Vars \cup {"flag"}), Export(s, fails)
        PROVE  /\ environ' \in [Processes -> EnvironShapes]
               /\ faults' \in 0..MaxFaults /\ flagLost' \in BOOLEAN
    <3>1. environ' \in [Processes -> EnvironShapes]
      <4>1. PICK nccl \in [Vars -> Values], flag \in BOOLEAN : Exported(s, nccl, flag)
        BY <2>1, ExportEffect
      <4>2. [environ[s] EXCEPT !.nccl = nccl, !.flag = flag] \in EnvironShapes
        BY EnvironTypes DEF Processes
      <4> QED
        BY <4>1, <4>2 DEF Exported
    <3>2. Cardinality(fails) \in Nat
      BY FailsFinite, FS_Subset, FS_CardinalityType
    <3>3. faults' \in 0..MaxFaults
      BY <2>1, <3>2, JobAssumption DEF Export
    <3>4. flagLost' \in BOOLEAN
      BY <2>1 DEF Export
    <3> QED
      BY <3>1, <3>3, <3>4
  <2>2. CASE UNCHANGED <<environ, flagLost, faults>>
    BY <1>2, <2>2 DEF UserInit
  <2>3. ASSUME NEW fails \in SUBSET (Vars \cup {"flag"}), Export(s, fails)
        PROVE  TypeOK'
    BY <1>2, <2>1, <2>3 DEF UserInit
  <2> QED
    BY <1>2, <2>2, <2>3 DEF UserInit
<1>3. CASE UserInitFails(s)
  BY <1>3, JobAssumption DEF UserInitFails
<1>4. CASE TaskInit(s)
  <2>1. FromPlugin(config[s].source["dumpDir"], s) \in Values
    BY ValueTypes DEF Configs, Vars
  <2>2. environ' \in [Processes -> EnvironShapes]
    BY <1>4, <2>1, EnvironTypes DEF TaskInit, Processes, Vars
  <2> QED
    BY <1>4, <2>2 DEF TaskInit
<1>5. CASE TaskInitFails(s)
  BY <1>5, JobAssumption DEF TaskInitFails
<1>6. CASE Launch(s)
  BY <1>6 DEF Launch
<1> QED
  BY <1>1, <1>2, <1>3, <1>4, <1>5, <1>6 DEF HookStep

LEMMA TypeNext == TypeOK /\ [Next]_vars => TypeOK'
<1> SUFFICES ASSUME TypeOK, [Next]_vars
             PROVE  TypeOK'
  OBVIOUS
<1>1. CASE UNCHANGED vars
  BY <1>1 DEF vars, TypeOK
<1> QED
  BY <1>1, UserTypes, HookTypes DEF Next

(***************************************************************************)
(* The steps, their configurations and environments keep the types JobEnv  *)
(* declares, for any number of steps.                                      *)
(***************************************************************************)
THEOREM TypeCorrect == Spec => []TypeOK
  BY TypeInit, TypeNext, PTL DEF Spec
-----------------------------------------------------------------------------
(* What users set.                                                        *)

LEMMA UserInvStep ==
  ASSUME TypeOK, UserInv, NEW p \in Processes, UserStep(p)
  PROVE  UserInv'
<1> USE DEF UserInv, TypeOK, EnvironShapes
<1>1. ASSUME NEW v \in Vars, NEW value \in {None, Short, Long}, SetVariable(p, v, value)
      PROVE  UserInv'
  BY <1>1 DEF SetVariable
<1>2. ASSUME NEW v \in Vars, SetPluginVariable(p, v)
      PROVE  UserInv'
  BY <1>2 DEF SetPluginVariable
<1>3. ASSUME NEW switch \in Switches, SetEnabled(p, switch)
      PROVE  UserInv'
  BY <1>3 DEF SetEnabled
<1>4. ASSUME NEW s \in Steps, Start(p, s)
      PROVE  UserInv'
  BY <1>4 DEF Start
<1> QED
  BY <1>1, <1>2, <1>3, <1>4 DEF UserStep

LEMMA UserInvHook ==
  ASSUME TypeOK, UserInv, NEW s \in Steps, HookStep(s)
  PROVE  UserInv'
<1> USE DEF UserInv
<1>0. environ \in [Processes -> EnvironShapes] /\ s \in Processes
  BY DEF TypeOK, Processes
<1>1. CASE UserInit(s)
  <2>1. ASSUME NEW fails \in SUBSET (Vars \cup {"flag"}), Export(s, fails)
        PROVE  UserInv'
    <3>1. PICK nccl \in [Vars -> Values], flag \in BOOLEAN : Exported(s, nccl, flag)
      BY <2>1, ExportEffect
    <3>2. \A v \in Vars : environ[s].nccl[v] = Short => nccl[v] = Short
      BY <3>1, ValuesDiffer DEF Exported, Exists
    <3>3. environ'[s].nccl = nccl /\ environ'[s].flag = flag
      BY <1>0, <3>1 DEF Exported, EnvironShapes
    <3>4. \A p \in Processes \ {s} : environ'[p] = environ[p]
      BY <1>0, <3>1 DEF Exported
    <3>5. UNCHANGED mine
      BY <1>1 DEF UserInit
    <3> QED
      BY <3>1, <3>2, <3>3, <3>4, <3>5 DEF Exported
  <2> QED
    BY <1>1, <2>1 DEF UserInit
<1>2. CASE TaskInit(s)
  <2>1. CASE UNCHANGED environ
    BY <1>2, <2>1 DEF TaskInit
  <2>2. CASE environ[s].flag /\ environ' = [environ EXCEPT ![s].nccl["dumpDir"] =
                                            FromPlugin(config[s].source["dumpDir"], s)]
    <3>1. /\ environ'[s].flag
          /\ \A v \in Vars \ {"dumpDir"} : environ'[s].nccl[v] = environ[s].nccl[v]
          /\ \A p \in Processes \ {s} : environ'[p] = environ[p]
      BY <1>0, <2>2 DEF EnvironShapes
    <3>2. UNCHANGED mine
      BY <1>2 DEF TaskInit
    <3> QED
      BY <2>2, <3>1, <3>2
  <2> QED
    BY <1>2, <2>1, <2>2 DEF TaskInit
<1>3. CASE SpankInit(s) \/ SpankOptions(s) \/ UserInitFails(s) \/ TaskInitFails(s) \/ Launch(s)
  BY <1>3 DEF SpankInit, SpankOptions, UserInitFails, TaskInitFails, Launch
<1> QED
  BY <1>1, <1>2, <1>3 DEF HookStep

(***************************************************************************)
(* user_init and task_init_privileged leave alone what a user set and the  *)
(* buffer holds, however deep steps are nested, except for a dump          *)
(* directory in an environment that carries the plugin's flag.             *)
(***************************************************************************)
THEOREM UserValuesKept == Spec => []UserValueKept
<1>1. Init => UserInv
  BY DEF Init, UserInv
<1>2. TypeOK /\ UserInv /\ [Next]_vars => UserInv'
  <2> SUFFICES ASSUME TypeOK, UserInv, [Next]_vars
               PROVE  UserInv'
    OBVIOUS
  <2>1. CASE UNCHANGED vars
    BY <2>1 DEF vars, UserInv
  <2> QED
    BY <2>1, UserInvStep, UserInvHook DEF Next
<1>3. UserInv => UserValueKept
  BY DEF UserInv, UserValueKept, Processes
<1> QED
  BY <1>1, <1>2, <1>3, TypeCorrect, PTL DEF Spec
-----------------------------------------------------------------------------
(* The step's own dump directory.                                         *)

DirInv == FlagInv /\ StepDirOwn

LEMMA DirInvInit == Init => DirInv
<1> SUFFICES ASSUME Init
             PROVE  DirInv
  OBVIOUS
<1>1. FlagInv
  BY JobAssumption DEF Init, FlagInv, Vars
<1>2. StepDirOwn
  BY DEF Init, StepDirOwn, Ready
<1> QED
  BY <1>1, <1>2 DEF DirInv

LEMMA DirInvUser ==
  ASSUME TypeOK, DirInv, NEW p \in Processes, UserStep(p)
  PROVE  DirInv'
<1>0. /\ environ \in [Processes -> EnvironShapes] /\ phase \in [Steps -> Phases]
      /\ Login \notin Steps
  BY JobAssumption DEF TypeOK
<1>1. ASSUME NEW v \in Vars, NEW value \in {None, Short, Long}, SetVariable(p, v, value)
      PROVE  DirInv'
  <2>1. FlagInv'
    BY <1>0, <1>1, ValuesDiffer DEF DirInv, FlagInv, SetVariable, EnvironShapes
  <2>2. StepDirOwn'
    BY <1>0, <1>1 DEF DirInv, StepDirOwn, Ready, Active, SetVariable, Edit, RunsUserCode
  <2> QED
    BY <2>1, <2>2 DEF DirInv
<1>2. ASSUME NEW v \in Vars, SetPluginVariable(p, v)
      PROVE  DirInv'
  <2>1. FlagInv'
    BY <1>0, <1>2 DEF DirInv, FlagInv, SetPluginVariable, EnvironShapes
  <2>2. StepDirOwn'
    BY <1>0, <1>2 DEF DirInv, StepDirOwn, Ready, Active, SetPluginVariable, Edit, RunsUserCode
  <2> QED
    BY <2>1, <2>2 DEF DirInv
<1>3. ASSUME NEW switch \in Switches, SetEnabled(p, switch)
      PROVE  DirInv'
  <2>1. FlagInv'
    BY <1>0, <1>3 DEF DirInv, FlagInv, SetEnabled, EnvironShapes
  <2>2. StepDirOwn'
    BY <1>0, <1>3 DEF DirInv, StepDirOwn, Ready, Active, SetEnabled, Edit, RunsUserCode
  <2> QED
    BY <2>1, <2>2 DEF DirInv
<1>4. ASSUME NEW s \in Steps, Start(p, s)
      PROVE  DirInv'
  <2>1. FlagInv'
    BY <1>0, <1>4 DEF DirInv, FlagInv, Start
  <2>2. phase' = [phase EXCEPT ![s] = "init"]
    BY <1>4 DEF Start, Goto
  <2>3. StepDirOwn'
    BY <1>0, <1>4, <2>2 DEF DirInv, StepDirOwn, Ready, Active, Start, TypeOK
  <2> QED
    BY <2>1, <2>3 DEF DirInv
<1> QED
  BY <1>1, <1>2, <1>3, <1>4 DEF UserStep

LEMMA DirInvHook ==
  ASSUME TypeOK, DirInv, NEW s \in Steps, HookStep(s)
  PROVE  DirInv'
<1>0. /\ environ \in [Processes -> EnvironShapes] /\ s \in Processes
      /\ phase \in [Steps -> Phases] /\ config \in [Steps -> Configs]
      /\ Steps \subseteq Processes
  BY DEF TypeOK, Processes
<1>1. CASE SpankInit(s) \/ SpankOptions(s)
  <2>1. /\ UNCHANGED <<environ, batch, flagLost>>
        /\ phase'[s] # "ready"
        /\ \A r \in Steps \ {s} : phase'[r] = phase[r] /\ config'[r] = config[r]
    BY <1>0, <1>1 DEF SpankInit, SpankOptions, Goto
  <2> QED
    BY <2>1 DEF DirInv, FlagInv, StepDirOwn, Ready, Active
<1>2. CASE UserInit(s)
  <2>1. /\ UNCHANGED <<config, batch>> /\ phase'[s] # "ready"
        /\ \A r \in Steps \ {s} : phase'[r] = phase[r]
    BY <1>0, <1>2 DEF UserInit, Goto
  <2>2. CASE UNCHANGED <<environ, flagLost, faults>>
    BY <2>1, <2>2 DEF DirInv, FlagInv, StepDirOwn, Ready, Active
  <2>3. ASSUME NEW fails \in SUBSET (Vars \cup {"flag"}), Export(s, fails)
        PROVE  DirInv'
    <3>1. PICK nccl \in [Vars -> Values], flag \in BOOLEAN : Exported(s, nccl, flag)
      BY <2>3, ExportEffect
    <3>2. environ'[s].nccl = nccl /\ environ'[s].flag = flag
      BY <1>0, <3>1 DEF Exported, EnvironShapes
    <3>3. \A p \in Processes \ {s} : environ'[p] = environ[p]
      BY <1>0, <3>1 DEF Exported
    <3>4. FlagInv'
      BY <1>0, <3>1, <3>2, <3>3 DEF DirInv, FlagInv, Exported
    <3>5. StepDirOwn'
      BY <1>0, <2>1, <3>1, <3>3 DEF DirInv, StepDirOwn, Ready, Active, Exported
    <3> QED
      BY <3>4, <3>5 DEF DirInv
  <2> QED
    BY <1>2, <2>2, <2>3 DEF UserInit
<1>3. CASE TaskInit(s)
  <2>1. /\ UNCHANGED <<config, batch, flagLost>>
        /\ \A r \in Steps \ {s} : phase'[r] = phase[r]
    BY <1>0, <1>3 DEF TaskInit, Goto
  <2>2. CASE UNCHANGED environ /\ ~(Active(s) /\ ~batch[s] /\ environ[s].flag)
    <3>1. FlagInv'
      BY <2>1, <2>2 DEF DirInv, FlagInv
    <3>2. StepDirOwn'
      BY <1>0, <2>1, <2>2 DEF DirInv, FlagInv, StepDirOwn, Ready, Active
    <3> QED
      BY <3>1, <3>2 DEF DirInv
  <2>3. CASE /\ environ[s].flag
             /\ environ' = [environ EXCEPT ![s].nccl["dumpDir"] =
                              FromPlugin(config[s].source["dumpDir"], s)]
    <3>1. /\ environ'[s].flag
          /\ environ'[s].nccl["dumpDir"] = FromPlugin(config[s].source["dumpDir"], s)
          /\ \A p \in Processes \ {s} : environ'[p] = environ[p]
      BY <1>0, <2>3 DEF EnvironShapes, Vars
    <3>2. FlagInv'
      BY <2>1, <3>1 DEF DirInv, FlagInv
    <3>3. StepDirOwn'
      BY <1>0, <2>1, <3>1 DEF DirInv, StepDirOwn, Ready, Active
    <3> QED
      BY <3>2, <3>3 DEF DirInv
  <2> QED
    BY <1>3, <2>2, <2>3 DEF TaskInit
<1>4. CASE UserInitFails(s) \/ TaskInitFails(s) \/ Launch(s)
  <2>1. /\ UNCHANGED <<environ, config, batch, flagLost>>
        /\ phase'[s] # "ready"
        /\ \A r \in Steps \ {s} : phase'[r] = phase[r]
    BY <1>0, <1>4 DEF UserInitFails, TaskInitFails, Launch, Goto
  <2> QED
    BY <2>1 DEF DirInv, FlagInv, StepDirOwn, Ready, Active
<1> QED
  BY <1>1, <1>2, <1>3, <1>4 DEF HookStep

(***************************************************************************)
(* A step the plugin acts on gets a dump directory of its own: where       *)
(* user_init or an enclosing step made it, task_init_privileged renders it *)
(* again for this step, unless setting the flag failed somewhere.          *)
(***************************************************************************)
THEOREM StepDirsOwn == Spec => []StepDirOwn
<1>1. TypeOK /\ DirInv /\ [Next]_vars => DirInv'
  <2> SUFFICES ASSUME TypeOK, DirInv, [Next]_vars
               PROVE  DirInv'
    OBVIOUS
  <2>1. CASE UNCHANGED vars
    BY <2>1 DEF vars, DirInv, FlagInv, StepDirOwn, Ready, Active
  <2> QED
    BY <2>1, DirInvUser, DirInvHook DEF Next
<1>2. DirInv => StepDirOwn
  BY DEF DirInv
<1> QED
  BY <1>1, <1>2, DirInvInit, TypeCorrect, PTL DEF Spec
-----------------------------------------------------------------------------
(* The documented order, in steps from the login shell.                   *)

\* How far the step s has got towards LoginOrder.
StageInv(s) ==
  /\ phase[s] \in {"init", "options", "user-init"}
       => environ[s].nccl = mine[s] /\ ~environ[s].flag
  /\ phase[s] = "options"
       => \A v \in Vars : config[s].source[v] = IF v \in environ[s].plug THEN "env" ELSE "site"
  /\ phase[s] \in {"user-init", "task-init"}
       => \A v \in Vars : config[s].source[v] = Wins(s, v)
  /\ phase[s] = "task-init" /\ Active(s) /\ faults = 0
       => \A v \in Vars : mine[s][v] = None
            => /\ environ[s].nccl[v] = FromPlugin(Wins(s, v), "job")
               /\ v = "dumpDir" => environ[s].flag
  /\ \A v \in Vars : Unclaimed(s, v)
       => environ[s].nccl[v] =
            FromPlugin(Wins(s, v), IF v = "dumpDir" /\ ~batch[s] THEN s ELSE "job")

LoginInv ==
  /\ environ[Login].nccl = mine[Login] /\ ~environ[Login].flag
  /\ \A s \in Steps : parent[s] = Login => StageInv(s)

\* A step of which nothing changes is as far as it was.
LEMMA StageKept ==
  ASSUME NEW s \in Steps, StageInv(s),
         phase'[s] = phase[s], batch'[s] = batch[s], option'[s] = option[s],
         config'[s] = config[s], environ'[s] = environ[s], mine'[s] = mine[s],
         faults' = 0 => faults = 0
  PROVE  StageInv(s)'
  BY DEF StageInv, Active, Wins, Unclaimed, Ready

\* User code is not at any hook.
LEMMA StageLeft ==
  ASSUME NEW s \in Steps, phase'[s] \in {"new", "running", "failed"}
  PROVE  StageInv(s)'
  BY DEF StageInv, Unclaimed, Ready

LEMMA LoginInvInit == Init => LoginInv
<1> SUFFICES ASSUME Init
             PROVE  LoginInv
  OBVIOUS
<1>1. PICK e \in Environs : /\ environ = [p \in Processes |-> e]
                            /\ mine = [p \in Processes |-> e.nccl]
  BY DEF Init
<1>2. environ[Login].nccl = mine[Login] /\ ~environ[Login].flag
  BY <1>1, JobAssumption DEF Processes
<1>3. \A s \in Steps : StageInv(s)
  BY DEF Init, StageInv, Unclaimed, Ready
<1> QED
  BY <1>2, <1>3 DEF LoginInv

LEMMA LoginInvUser ==
  ASSUME TypeOK, LoginInv, NEW p \in Processes, UserStep(p)
  PROVE  LoginInv'
<1>0. /\ environ \in [Processes -> EnvironShapes] /\ phase \in [Steps -> Phases]
      /\ mine \in [Processes -> [Vars -> {None, Short, Long}]]
      /\ batch \in [Steps -> BOOLEAN] /\ option \in [Steps -> OptionShapes]
      /\ parent \in [Steps -> Processes]
      /\ Login \notin Steps /\ Login \in Processes /\ Steps \subseteq Processes
  BY JobAssumption DEF TypeOK, Processes
<1>1. ASSUME /\ Edit(p) /\ UNCHANGED <<phase, batch, option, config, parent, faults>>
             /\ \A q \in Processes \ {p} : environ'[q] = environ[q] /\ mine'[q] = mine[q]
             /\ environ[p].nccl = mine[p] => environ'[p].nccl = mine'[p]
             /\ environ'[p].flag = environ[p].flag
      PROVE  LoginInv'
  <2>1. environ'[Login].nccl = mine'[Login] /\ ~environ'[Login].flag
    BY <1>0, <1>1 DEF LoginInv
  <2>2. ASSUME NEW s \in Steps, parent'[s] = Login
        PROVE  StageInv(s)'
    <3>1. CASE s = p
      <4>1. phase'[s] = "running"
        BY <1>0, <1>1, <3>1 DEF Edit, RunsUserCode
      <4> QED
        BY <4>1, StageLeft
    <3>2. CASE s # p
      <4>1. StageInv(s) /\ environ'[s] = environ[s] /\ mine'[s] = mine[s]
        BY <1>0, <1>1, <2>2, <3>2 DEF LoginInv
      <4> QED
        BY <1>1, <4>1, StageKept
    <3> QED
      BY <3>1, <3>2
  <2> QED
    BY <2>1, <2>2 DEF LoginInv
<1>2. ASSUME NEW v \in Vars, NEW value \in {None, Short, Long}, SetVariable(p, v, value)
      PROVE  LoginInv'
  <2>1. /\ \A q \in Processes \ {p} : environ'[q] = environ[q] /\ mine'[q] = mine[q]
        /\ environ'[p].nccl = [environ[p].nccl EXCEPT ![v] = value]
        /\ mine'[p] = [mine[p] EXCEPT ![v] = value]
        /\ environ'[p].flag = environ[p].flag
    BY <1>0, <1>2 DEF SetVariable, EnvironShapes
  <2> QED
    BY <1>1, <1>2, <2>1 DEF SetVariable
<1>3. ASSUME NEW v \in Vars, SetPluginVariable(p, v)
      PROVE  LoginInv'
  <2>1. /\ \A q \in Processes \ {p} : environ'[q] = environ[q] /\ mine'[q] = mine[q]
        /\ environ'[p].nccl = environ[p].nccl /\ mine'[p] = mine[p]
        /\ environ'[p].flag = environ[p].flag
    BY <1>0, <1>3 DEF SetPluginVariable, EnvironShapes
  <2> QED
    BY <1>1, <1>3, <2>1 DEF SetPluginVariable
<1>4. ASSUME NEW switch \in Switches, SetEnabled(p, switch)
      PROVE  LoginInv'
  <2>1. /\ \A q \in Processes \ {p} : environ'[q] = environ[q] /\ mine'[q] = mine[q]
        /\ environ'[p].nccl = environ[p].nccl /\ mine'[p] = mine[p]
        /\ environ'[p].flag = environ[p].flag
    BY <1>0, <1>4 DEF SetEnabled, EnvironShapes
  <2> QED
    BY <1>1, <1>4, <2>1 DEF SetEnabled
<1>5. ASSUME NEW s \in Steps, Start(p, s)
      PROVE  LoginInv'
  <2>1. /\ phase' = [phase EXCEPT ![s] = "init"] /\ parent' = [parent EXCEPT ![s] = p]
        /\ environ' = [environ EXCEPT ![s] = environ[p]] /\ mine' = [mine EXCEPT ![s] = mine[p]]
        /\ UNCHANGED <<config, faults>>
        /\ \A r \in Steps \ {s} : option'[r] = option[r] /\ batch'[r] = batch[r]
    BY <1>0, <1>5 DEF Start, Goto
  <2>2. environ'[Login].nccl = mine'[Login] /\ ~environ'[Login].flag
    BY <1>0, <2>1 DEF LoginInv
  <2>3. ASSUME NEW r \in Steps, parent'[r] = Login
        PROVE  StageInv(r)'
    <3>1. CASE r = s
      <4>1. /\ phase'[s] = "init" /\ p = Login
            /\ environ'[s].nccl = mine'[s] /\ ~environ'[s].flag
        BY <1>0, <2>1, <2>3, <3>1 DEF LoginInv
      <4> QED
        BY <3>1, <4>1 DEF StageInv, Unclaimed, Ready
    <3>2. CASE r # s
      <4>1. /\ StageInv(r) /\ phase'[r] = phase[r] /\ environ'[r] = environ[r]
            /\ mine'[r] = mine[r]
        BY <1>0, <2>1, <2>3, <3>2 DEF LoginInv
      <4> QED
        BY <2>1, <3>2, <4>1, StageKept
    <3> QED
      BY <3>1, <3>2
  <2> QED
    BY <2>2, <2>3 DEF LoginInv
<1> QED
  BY <1>2, <1>3, <1>4, <1>5 DEF UserStep

\* user_init without a failure sets all that is missing, and the flag.
LEMMA ExportAll ==
  ASSUME TypeOK, NEW s \in Steps, NEW fails \in SUBSET (Vars \cup {"flag"}), Export(s, fails),
         faults' = 0
  PROVE  \A v \in Vars : ~Exists(s, v)
           => /\ environ'[s].nccl[v] = FromPlugin(config[s].source[v], "job")
              /\ v = "dumpDir" => environ'[s].flag
<1>1. IsFiniteSet(fails) /\ Cardinality(fails) \in Nat
  BY FailsFinite, FS_Subset, FS_CardinalityType
<1>2. Cardinality(fails) = 0
  BY <1>1, JobAssumption DEF Export, TypeOK
<1>3. fails = {}
  BY <1>1, <1>2, FS_EmptySet
<1>4. environ' = [environ EXCEPT ![s] =
        [@ EXCEPT !.nccl = [v \in Vars |-> IF ~Exists(s, v)
                                           THEN FromPlugin(config[s].source[v], "job")
                                           ELSE environ[s].nccl[v]],
                  !.flag = environ[s].flag \/ ~Exists(s, "dumpDir")]]
  BY <1>3 DEF Export, Vars
<1>5. environ[s] \in EnvironShapes /\ environ \in [Processes -> EnvironShapes] /\ s \in Processes
  BY DEF TypeOK, Processes
<1> QED
  BY <1>4, <1>5 DEF EnvironShapes

LEMMA LoginInvHook ==
  ASSUME TypeOK, LoginInv, NEW s \in Steps, HookStep(s)
  PROVE  LoginInv'
<1>0. /\ environ \in [Processes -> EnvironShapes] /\ phase \in [Steps -> Phases]
      /\ config \in [Steps -> Configs] /\ s \in Processes /\ faults \in Nat
      /\ Login \notin Steps /\ Login \in Processes /\ Steps \subseteq Processes
  BY JobAssumption DEF TypeOK, Processes
<1>1. /\ UNCHANGED <<batch, option, mine, parent>>
      /\ \A r \in Steps \ {s} : phase'[r] = phase[r] /\ config'[r] = config[r]
  BY <1>0 DEF HookStep, SpankInit, SpankOptions, UserInit, UserInitFails, TaskInit,
     TaskInitFails, Launch, Goto
<1>2. /\ \A q \in Processes \ {s} : environ'[q] = environ[q]
      /\ faults' = 0 => faults = 0
  <2>1. CASE UserInit(s)
    <3>1. ASSUME NEW fails \in SUBSET (Vars \cup {"flag"}), Export(s, fails)
          PROVE  faults' = 0 => faults = 0
      <4>1. Cardinality(fails) \in Nat
        BY FailsFinite, FS_Subset, FS_CardinalityType
      <4> QED
        BY <1>0, <3>1, <4>1 DEF Export
    <3>2. ASSUME NEW fails \in SUBSET (Vars \cup {"flag"}), Export(s, fails)
          PROVE  \A q \in Processes \ {s} : environ'[q] = environ[q]
      BY <1>0, <3>2 DEF Export
    <3> QED
      BY <2>1, <3>1, <3>2 DEF UserInit
  <2>2. CASE TaskInit(s)
    BY <1>0, <2>2 DEF TaskInit
  <2>3. CASE SpankInit(s) \/ SpankOptions(s) \/ UserInitFails(s) \/ TaskInitFails(s) \/ Launch(s)
    BY <1>0, <2>3 DEF SpankInit, SpankOptions, UserInitFails, TaskInitFails, Launch
  <2> QED
    BY <2>1, <2>2, <2>3 DEF HookStep
<1>3. ASSUME parent[s] = Login
      PROVE  StageInv(s)'
  <2>0. StageInv(s)
    BY <1>3 DEF LoginInv
  <2>1. CASE SpankInit(s)
    <3>1. /\ phase[s] = "init" /\ phase'[s] = "options" /\ environ' = environ
          /\ \A v \in Vars : config'[s].source[v] =
               IF v \in environ[s].plug THEN "env" ELSE "site"
      BY <1>0, <2>1 DEF SpankInit, Goto, Defaults
    <3> QED
      BY <1>1, <2>0, <3>1 DEF StageInv, Unclaimed, Ready
  <2>2. CASE SpankOptions(s)
    <3>1. /\ phase[s] = "options" /\ phase'[s] = "user-init" /\ environ' = environ
          /\ \A v \in Vars : config'[s].source[v] =
               IF v \in option[s].given THEN "option" ELSE config[s].source[v]
      BY <1>0, <2>2 DEF SpankOptions, Goto
    <3>2. \A v \in Vars : config'[s].source[v] = Wins(s, v)'
      BY <1>1, <2>0, <3>1 DEF StageInv, Wins
    <3> QED
      BY <1>1, <2>0, <3>1, <3>2 DEF StageInv, Unclaimed, Ready
  <2>3. CASE UserInit(s)
    <3>1. /\ phase[s] = "user-init" /\ phase'[s] = "task-init" /\ config' = config
      BY <1>0, <2>3 DEF UserInit, Goto
    <3>2. environ'[s].plug = environ[s].plug /\ environ'[s].active = environ[s].active
      <4>1. ASSUME NEW fails \in SUBSET (Vars \cup {"flag"}), Export(s, fails)
            PROVE  environ'[s].plug = environ[s].plug /\ environ'[s].active = environ[s].active
        <5>1. PICK nccl \in [Vars -> Values], flag \in BOOLEAN : Exported(s, nccl, flag)
          BY <4>1, ExportEffect
        <5> QED
          BY <1>0, <5>1 DEF Exported, EnvironShapes
      <4> QED
        BY <2>3, <4>1 DEF UserInit
    <3>3. \A v \in Vars : config'[s].source[v] = Wins(s, v)' /\ Wins(s, v)' = Wins(s, v)
      BY <1>1, <2>0, <3>1, <3>2 DEF StageInv, Wins
    <3>4. ASSUME Active(s)', faults' = 0, NEW v \in Vars, mine'[s][v] = None
          PROVE  /\ environ'[s].nccl[v] = FromPlugin(Wins(s, v)', "job")
                 /\ v = "dumpDir" => environ'[s].flag
      <4>1. Active(s)
        BY <3>1, <3>2, <3>4 DEF Active
      <4>2. PICK fails \in SUBSET (Vars \cup {"flag"}) : Export(s, fails)
        BY <2>3, <4>1 DEF UserInit
      <4>3. ~Exists(s, v)
        BY <1>1, <2>0, <3>1, <3>4 DEF StageInv, Exists
      <4> QED
        BY <3>1, <3>3, <3>4, <4>2, <4>3, ExportAll
    <3> QED
      BY <3>1, <3>3, <3>4 DEF StageInv, Unclaimed, Ready
  <2>4. CASE TaskInit(s)
    <3>1. /\ phase[s] = "task-init" /\ phase'[s] = "ready" /\ UNCHANGED <<config, faults>>
      BY <1>0, <2>4 DEF TaskInit, Goto
    <3>2. /\ environ'[s].plug = environ[s].plug /\ environ'[s].active = environ[s].active
          /\ \A v \in Vars \ {"dumpDir"} : environ'[s].nccl[v] = environ[s].nccl[v]
          /\ environ'[s].nccl["dumpDir"] =
               IF Active(s) /\ ~batch[s] /\ environ[s].flag
               THEN FromPlugin(config[s].source["dumpDir"], s)
               ELSE environ[s].nccl["dumpDir"]
      BY <1>0, <2>4 DEF TaskInit, EnvironShapes, Vars
    <3>3. ASSUME NEW v \in Vars, Unclaimed(s, v)'
          PROVE  environ'[s].nccl[v] =
                   FromPlugin(Wins(s, v)', IF v = "dumpDir" /\ ~batch'[s] THEN s ELSE "job")
      <4>1. /\ Active(s) /\ mine[s][v] = None /\ faults = 0
            /\ Wins(s, v)' = Wins(s, v) /\ batch'[s] = batch[s]
        BY <1>1, <3>1, <3>2, <3>3 DEF Unclaimed, Active, Wins
      <4>2. /\ environ[s].nccl[v] = FromPlugin(Wins(s, v), "job")
            /\ v = "dumpDir" => environ[s].flag
            /\ config[s].source[v] = Wins(s, v)
        BY <2>0, <3>1, <4>1 DEF StageInv
      <4> QED
        BY <3>2, <4>1, <4>2
    <3> QED
      BY <3>1, <3>3 DEF StageInv
  <2>5. CASE UserInitFails(s) \/ TaskInitFails(s) \/ Launch(s)
    <3>1. phase'[s] \in {"running", "failed"}
      BY <1>0, <2>5 DEF UserInitFails, TaskInitFails, Launch, Goto
    <3> QED
      BY <3>1, StageLeft
  <2> QED
    BY <2>1, <2>2, <2>3, <2>4, <2>5 DEF HookStep
<1>4. ASSUME NEW r \in Steps, r # s, parent[r] = Login
      PROVE  StageInv(r)'
  <2>1. StageInv(r) /\ r \in Processes \ {s}
    BY <1>0, <1>4 DEF LoginInv
  <2> QED
    BY <1>1, <1>2, <1>4, <2>1, StageKept
<1>5. environ'[Login].nccl = mine'[Login] /\ ~environ'[Login].flag
  BY <1>0, <1>1, <1>2 DEF LoginInv
<1> QED
  BY <1>1, <1>3, <1>4, <1>5 DEF LoginInv

(***************************************************************************)
(* In a step from the login shell every variable the user left alone comes *)
(* from the last source in the documented order, for any options, edits    *)
(* and number of other steps, as long as no setenv has failed.             *)
(***************************************************************************)
THEOREM OrderFromLogin == Spec => []LoginOrder
<1>1. TypeOK /\ LoginInv /\ [Next]_vars => LoginInv'
  <2> SUFFICES ASSUME TypeOK, LoginInv, [Next]_vars
               PROVE  LoginInv'
    OBVIOUS
  <2>1. CASE UNCHANGED vars
    BY <2>1 DEF vars, LoginInv, StageInv, Active, Wins, Unclaimed, Ready
  <2> QED
    BY <2>1, LoginInvUser, LoginInvHook DEF Next
<1>2. LoginInv => LoginOrder
  BY DEF LoginInv, StageInv, LoginOrder
<1> QED
  BY <1>1, <1>2, LoginInvInit, TypeCorrect, PTL DEF Spec
=============================================================================
