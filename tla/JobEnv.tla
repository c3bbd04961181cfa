------------------------------- MODULE JobEnv -------------------------------
(***************************************************************************)
(* How the plugin settles what user code finds in its environment:         *)
(* slurm_spank_init (plugstack arguments, SNCCLIPRECON_* variables), the   *)
(* srun option callbacks, slurm_spank_user_init, and the part of           *)
(* task_init_privileged that renders the dump directory of the step.       *)
(*                                                                         *)
(* User code may start further steps, which inherit its environment with   *)
(* all that the plugin put there: a batch script starts srun steps and     *)
(* chained batch jobs, a task may start steps of its own.                  *)
(***************************************************************************)
EXTENDS Naturals, FiniteSets

CONSTANTS
  Steps,      \* steps that may be started, batch scripts included
  Login,      \* the shell outside of any step
  Environs,   \* the environments the login shell may have
  Options,    \* what a step may be given on srun's command line
  MaxFaults,  \* bound on setenv failures
  MaxEdits    \* bound on what users change in their environments

\* The five NCCL variables user_init exports: NCCL_INSPECTOR_DUMP_DIR, and one
\* that stands for the four which get no further treatment.
Vars == {"dumpDir", "other"}

\* A variable's value: who made it, from which source of the configuration, and
\* for a dump directory whether it is rendered for the job or for which step.
None == [by |-> "nobody", from |-> "none", at |-> "job"]
Short == [by |-> "user", from |-> "short", at |-> "job"]
Long == [by |-> "user", from |-> "long", at |-> "job"]  \* no room in the buffer
Sources == {"site", "env", "option"}
FromPlugin(source, at) == [by |-> "plugin", from |-> source, at |-> at]
Values == {None, Short, Long} \cup {FromPlugin(f, a) : f \in Sources, a \in Steps \cup {"job"}}

\* active: NCCL_INSPECTOR_ENABLE=1; enabled: SNCCLIPRECON_ENABLED; plug: the
\* other SNCCLIPRECON_* variables; nccl: the NCCL variables; flag:
\* SNCCLIPRECON_LOG_DIR_SET_BY_PLUGIN=1.
Switches == {"unset", "0", "1"}
EnvironShapes ==
  [active : BOOLEAN, enabled : Switches, plug : SUBSET Vars, nccl : [Vars -> Values],
   flag : BOOLEAN]
OptionShapes == [enabled : Switches, given : SUBSET Vars]

ASSUME JobAssumption ==
  /\ Login \notin Steps /\ "job" \notin Steps
  /\ Environs \subseteq {e \in EnvironShapes :
                           ~e.flag /\ \A v \in Vars : e.nccl[v].by # "plugin"}
  /\ Options \subseteq OptionShapes
  /\ MaxFaults \in Nat /\ MaxEdits \in Nat

Processes == Steps \cup {Login}

VARIABLES
  phase,    \* phase[s]: the hook a step is at, or "new", "ready", "running"
  batch,    \* batch[s]: the step is a batch script
  option,   \* option[s]: its command line options
  config,   \* config[s]: snccliprecon_config_t, per value the source it is from
  environ,  \* environ[p]: the environment of user code, or of a step's hooks
  mine,     \* history: mine[p][v], what the user last made of v
  parent,   \* history: the process that started the step
  flagLost, \* history: the flag could not be set beside the dump directory
  faults, edits                      \* how much of the bounds is used

vars == <<phase, batch, option, config, environ, mine, parent, flagLost, faults, edits>>

Phases == {"new", "init", "options", "user-init", "task-init", "ready", "running", "failed"}
NoOption == [enabled |-> "unset", given |-> {}]
Configs == [enabled : BOOLEAN, source : [Vars -> Sources]]
Defaults == [enabled |-> TRUE, source |-> [v \in Vars |-> "site"]]

TypeOK ==
  /\ phase \in [Steps -> Phases]
  /\ batch \in [Steps -> BOOLEAN]
  /\ option \in [Steps -> OptionShapes]
  /\ config \in [Steps -> Configs]
  /\ environ \in [Processes -> EnvironShapes]
  /\ mine \in [Processes -> [Vars -> {None, Short, Long}]]
  /\ parent \in [Steps -> Processes]
  /\ flagLost \in BOOLEAN
  /\ faults \in 0..MaxFaults /\ edits \in 0..MaxEdits
-----------------------------------------------------------------------------
Init ==
  /\ phase = [s \in Steps |-> "new"]
  /\ batch = [s \in Steps |-> FALSE]
  /\ option = [s \in Steps |-> NoOption]
  /\ config = [s \in Steps |-> Defaults]
  /\ \E e \in Environs :
       /\ environ = [p \in Processes |-> e]
       /\ mine = [p \in Processes |-> e.nccl]
  /\ parent = [s \in Steps |-> Login]
  /\ flagLost = FALSE
  /\ faults = 0 /\ edits = 0

Goto(s, from, to) ==
  /\ phase[s] = from
  /\ phase' = [phase EXCEPT ![s] = to]

\* User code that can change its environment and start steps.
RunsUserCode(p) == p = Login \/ (p \in Steps /\ phase[p] = "running")
-----------------------------------------------------------------------------
(* Users.                                                                 *)

Edit(p) == RunsUserCode(p) /\ edits < MaxEdits /\ edits' = edits + 1

\* export or unset of an NCCL variable.
SetVariable(p, v, value) ==
  /\ Edit(p)
  /\ environ' = [environ EXCEPT ![p].nccl[v] = value]
  /\ mine' = [mine EXCEPT ![p][v] = value]
  /\ UNCHANGED <<phase, batch, option, config, parent, flagLost, faults>>

\* export or unset of a SNCCLIPRECON_* variable.
SetPluginVariable(p, v) ==
  /\ Edit(p)
  /\ \E plug \in {environ[p].plug \cup {v}, environ[p].plug \ {v}} :
       environ' = [environ EXCEPT ![p].plug = plug]
  /\ UNCHANGED <<phase, batch, option, config, mine, parent, flagLost, faults>>

SetEnabled(p, switch) ==
  /\ Edit(p)
  /\ environ' = [environ EXCEPT ![p].enabled = switch]
  /\ UNCHANGED <<phase, batch, option, config, mine, parent, flagLost, faults>>

\* sbatch loads the plugin in the allocator context, where slurm_spank_init
\* returns before it registers the options.
CommandLinesOf(isBatch) == IF isBatch THEN {NoOption} ELSE Options

\* srun or sbatch: the step's hooks get a copy of the environment.
Start(p, s) ==
  /\ RunsUserCode(p)
  /\ Goto(s, "new", "init")
  /\ \E b \in BOOLEAN : \E o \in CommandLinesOf(b) :
       option' = [option EXCEPT ![s] = o] /\ batch' = [batch EXCEPT ![s] = b]
  /\ environ' = [environ EXCEPT ![s] = environ[p]]
  /\ mine' = [mine EXCEPT ![s] = mine[p]]
  /\ parent' = [parent EXCEPT ![s] = p]
  /\ UNCHANGED <<config, flagLost, faults, edits>>
-----------------------------------------------------------------------------
(* The plugin, in the slurmstepd of the step s.                           *)

Switch(current, switch) == IF switch = "unset" THEN current ELSE switch = "1"

\* Mutant: the reset to the defaults is missing, what nobody sets has no source.
SpankInitUnreset(s) ==
  /\ Goto(s, "init", "options")
  /\ config' = [config EXCEPT ![s] =
       [enabled |-> Switch(Defaults.enabled, environ[s].enabled),
        source |-> [v \in Vars |-> IF v \in environ[s].plug THEN "env" ELSE "unset"]]]
  /\ UNCHANGED <<batch, option, environ, mine, parent, flagLost, faults, edits>>

\* snccliprecon_config_parse_args: reset, plugstack, environment.
SpankInit(s) ==
  /\ Goto(s, "init", "options")
  /\ config' = [config EXCEPT ![s] =
       [enabled |-> Switch(Defaults.enabled, environ[s].enabled),
        source |-> [v \in Vars |-> IF v \in environ[s].plug THEN "env"
                                   ELSE Defaults.source[v]]]]
  /\ UNCHANGED <<batch, option, environ, mine, parent, flagLost, faults, edits>>

\* Mutant: what is there already is not replaced.
SpankOptionsKeepEnv(s) ==
  /\ Goto(s, "options", "user-init")
  /\ config' = [config EXCEPT ![s] =
       [enabled |-> Switch(config[s].enabled, option[s].enabled),
        source |-> [v \in Vars |-> IF v \in option[s].given /\ v \notin environ[s].plug
                                   THEN "option" ELSE config[s].source[v]]]]
  /\ UNCHANGED <<batch, option, environ, mine, parent, flagLost, faults, edits>>

\* The option callbacks, which slurmstepd calls after slurm_spank_init.
SpankOptions(s) ==
  /\ Goto(s, "options", "user-init")
  /\ config' = [config EXCEPT ![s] =
       [enabled |-> Switch(config[s].enabled, option[s].enabled),
        source |-> [v \in Vars |-> IF v \in option[s].given THEN "option"
                                   ELSE config[s].source[v]]]]
  /\ UNCHANGED <<batch, option, environ, mine, parent, flagLost, faults, edits>>

\* The gates of every hook.
Active(s) == environ[s].active /\ config[s].enabled

\* Mutant: user_init sets its variables whether or not they are missing.
ExistsIgnored(s, v) == FALSE

\* snccliprecon_env_exists: a value that does not fit the buffer is no value.
Exists(s, v) == environ[s].nccl[v] \notin {None, Long}

\* user_init with every setenv but those in fails; their errors are ignored.
\* The flag is set only beside a dump directory that user_init has just set.
Export(s, fails) ==
  LET missing == {v \in Vars : ~Exists(s, v)}
      setNow == missing \ fails
  IN /\ fails \subseteq missing \cup (IF "dumpDir" \in setNow THEN {"flag"} ELSE {})
     /\ faults + Cardinality(fails) <= MaxFaults
     /\ faults' = faults + Cardinality(fails)
     /\ environ' = [environ EXCEPT ![s] =
          [@ EXCEPT !.nccl = [v \in Vars |-> IF v \in setNow
                                             THEN FromPlugin(config[s].source[v], "job")
                                             ELSE environ[s].nccl[v]],
                    !.flag = environ[s].flag \/ ("dumpDir" \in setNow /\ "flag" \notin fails)]]
     /\ flagLost' = (flagLost \/ "flag" \in fails)

UserInit(s) ==
  /\ Goto(s, "user-init", "task-init")
  /\ \/ Active(s) /\ \E fails \in SUBSET (Vars \cup {"flag"}) : Export(s, fails)
     \/ ~Active(s) /\ UNCHANGED <<environ, flagLost, faults>>
  /\ UNCHANGED <<batch, option, config, mine, parent, edits>>

\* The job's dump directory cannot be rendered: ESPANK_ERROR, no user code.
UserInitFails(s) ==
  /\ Goto(s, "user-init", "failed")
  /\ Active(s)
  /\ faults < MaxFaults /\ faults' = faults + 1
  /\ UNCHANGED <<batch, option, config, environ, mine, parent, flagLost, edits>>

\* Mutant: a dump directory of the job is rendered, one of a step is kept.
TaskInitOnce(s) ==
  /\ Goto(s, "task-init", "ready")
  /\ environ' = IF Active(s) /\ ~batch[s] /\ environ[s].flag
                   /\ environ[s].nccl["dumpDir"].at = "job"
                THEN [environ EXCEPT ![s].nccl["dumpDir"] =
                        FromPlugin(config[s].source["dumpDir"], s)]
                ELSE environ
  /\ UNCHANGED <<batch, option, config, mine, parent, flagLost, faults, edits>>

\* set_step_dump_dir_if_owned_by_plugin, in each task's process alike: from
\* here on environ[s] is the environment of a task of s.
TaskInit(s) ==
  /\ Goto(s, "task-init", "ready")
  /\ environ' = IF Active(s) /\ ~batch[s] /\ environ[s].flag
                THEN [environ EXCEPT ![s].nccl["dumpDir"] =
                        FromPlugin(config[s].source["dumpDir"], s)]
                ELSE environ
  /\ UNCHANGED <<batch, option, config, mine, parent, flagLost, faults, edits>>

\* It cannot be rendered or set: ESPANK_ERROR.
TaskInitFails(s) ==
  /\ Goto(s, "task-init", "failed")
  /\ Active(s) /\ ~batch[s] /\ environ[s].flag
  /\ faults < MaxFaults /\ faults' = faults + 1
  /\ UNCHANGED <<batch, option, config, environ, mine, parent, flagLost, edits>>

\* User code starts.
Launch(s) ==
  /\ Goto(s, "ready", "running")
  /\ UNCHANGED <<batch, option, config, environ, mine, parent, flagLost, faults, edits>>

UserStep(p) ==
  \/ \E v \in Vars, value \in {None, Short, Long} : SetVariable(p, v, value)
  \/ \E v \in Vars : SetPluginVariable(p, v)
  \/ \E switch \in Switches : SetEnabled(p, switch)
  \/ \E s \in Steps : Start(p, s)

HookStep(s) ==
  \/ SpankInit(s) \/ SpankOptions(s) \/ UserInit(s) \/ UserInitFails(s)
  \/ TaskInit(s) \/ TaskInitFails(s) \/ Launch(s)

Next == (\E p \in Processes : UserStep(p)) \/ (\E s \in Steps : HookStep(s))

Spec == Init /\ [][Next]_vars
-----------------------------------------------------------------------------
\* The environment user code is about to start with.
Ready(s) == phase[s] = "ready"

(***************************************************************************)
(* What a user set, and what fits the buffer, reaches the user code of     *)
(* every step down the line, through any number of hooks of enclosing      *)
(* steps; only a dump directory is at risk, and only where the plugin set  *)
(* one earlier (the flag is there).                                        *)
(***************************************************************************)
UserValueKept ==
  \A s \in Steps : \A v \in Vars :
    Ready(s) /\ mine[s][v] = Short /\ ~(v = "dumpDir" /\ environ[s].flag)
      => environ[s].nccl[v] = Short

(***************************************************************************)
(* A step the plugin acts on never inherits its parent's dump directory: a *)
(* directory that the plugin made is rendered for this very step from its  *)
(* own configuration, unless setting the flag failed somewhere.            *)
(***************************************************************************)
StepDirOwn ==
  \A s \in Steps :
    Ready(s) /\ Active(s) /\ ~batch[s] /\ ~flagLost
             /\ environ[s].nccl["dumpDir"].by = "plugin"
      => environ[s].nccl["dumpDir"] = FromPlugin(config[s].source["dumpDir"], s)

\* The source that comes last in the documented order: built-in defaults and
\* plugstack.conf, environment variables, srun options.
Wins(s, v) ==
  IF v \in option[s].given THEN "option" ELSE IF v \in environ[s].plug THEN "env" ELSE "site"

\* The user left v alone, and the step was not kept from setting it.
Unclaimed(s, v) == Ready(s) /\ Active(s) /\ mine[s][v] = None /\ faults = 0

(***************************************************************************)
(* In a step started from the login shell, each variable the user left     *)
(* alone comes from the last source in the documented order.               *)
(***************************************************************************)
LoginOrder ==
  \A s \in Steps : \A v \in Vars :
    Unclaimed(s, v) /\ parent[s] = Login
      => environ[s].nccl[v] =
           FromPlugin(Wins(s, v), IF v = "dumpDir" /\ ~batch[s] THEN s ELSE "job")
-----------------------------------------------------------------------------
(* What the documentation says.                                           *)

(***************************************************************************)
(* The same order holds in every step, so srun options always win.         *)
(***************************************************************************)
ConfigurationOrder ==
  \A s \in Steps : \A v \in Vars :
    Unclaimed(s, v) => environ[s].nccl[v].from = Wins(s, v)

(***************************************************************************)
(* A dump directory the user provided is not rewritten.                    *)
(***************************************************************************)
UserDirUntouched ==
  \A s \in Steps :
    Ready(s) /\ mine[s]["dumpDir"] = Short => environ[s].nccl["dumpDir"] = Short
=============================================================================
