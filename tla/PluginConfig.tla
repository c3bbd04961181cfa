----------------------------- MODULE PluginConfig -----------------------------
(***************************************************************************)
(* How the texts of a step's settings are read and used: by srun, which    *)
(* loads the plugin and calls the option callbacks to check the command    *)
(* line, and then by the step's slurmstepd, which starts anew from         *)
(* plugstack.conf, adds the environment and the options srun let pass, and *)
(* runs the hooks.  A setting is a text in a buffer of fixed size; what is *)
(* malformed or too long is rejected, which is not to say without traces.  *)
(*                                                                         *)
(* Steps of their own are what can go wrong by itself.  Which variables    *)
(* are in whose environment is the subject of JobEnv.                      *)
(***************************************************************************)
EXTENDS Naturals, Sequences, SequencesExt

CONSTANTS
  Chars,          \* the characters of a text
  TrueTexts, FalseTexts,   \* "1" and any case of "true"; "0" and "false"
  JobId, StepId,  \* the ids as text
  PathSize,       \* SNCCLIPRECON_PATH_MAX
  IntervalSize,   \* SNCCLIPRECON_DUMP_THREAD_INTERVAL_BUFFER_SIZE
  UintMax,        \* ULLONG_MAX
  DefaultPath, DefaultInterval,  \* the built-in texts
  Unset,          \* no dump directory in the step's environment
  Inputs          \* what the step may be given, see IsInput

BoolNames == {"enabled", "prom-dump", "dump-verbose"}
PathNames == {"profiler-plugin", "dump-dir"}
Interval == "dump-thread-interval-microseconds"
Names == BoolNames \cup PathNames \cup {Interval}

\* An argument without "=", without a name or with one that is too long has a
\* name that is none of ours, like one with a name nobody knows.
Unknown == "unknown"
Settings == [name : Names \cup {Unknown}, text : Seq(Chars)]

\* args: plugstack.conf, in order; env: the SNCCLIPRECON_* variables that are
\* set; opts: the options on srun's command line, in order.
IsInput(given) ==
  /\ given.args \in Seq(Settings)
  /\ given.opts \in Seq([name : Names, text : Seq(Chars)])
  /\ DOMAIN given.env \subseteq Names
  /\ \A n \in DOMAIN given.env : given.env[n] \in Seq(Chars)

ASSUME ConfigAssumption ==
  /\ {"%", "j", "s", "J", "."} \subseteq Chars
  /\ {JobId, StepId} \subseteq
       Seq(Chars) \cap (Seq({"0", "1", "2", "3", "4", "5", "6", "7", "8", "9"}) \ {<<>>})
  /\ TrueTexts \subseteq Seq(Chars) /\ FalseTexts \subseteq Seq(Chars)
  /\ TrueTexts \cap FalseTexts = {}
  /\ PathSize \in Nat \ {0, 1} /\ IntervalSize \in Nat \ {0, 1}
  /\ UintMax \in Nat /\ UintMax >= 9
  /\ DefaultPath \in Seq(Chars) /\ Len(DefaultPath) \in 1..(PathSize - 1)
  /\ DefaultInterval \in Seq(Chars) /\ Len(DefaultInterval) \in 1..(IntervalSize - 1)
  /\ Unset \notin Seq(Chars)
  /\ \A given \in Inputs : IsInput(given)

VARIABLES
  input,     \* what the step is given
  process,   \* "srun", then "slurmstepd"
  phase,     \* what the process does
  pending,   \* the arguments, then the options, that are still to come
  config,    \* snccliprecon_config_t of the process
  dumpDir,   \* NCCL_INSPECTOR_DUMP_DIR in the environment of the step
  template, renderStep, next, output, status    \* the call of render_dump_dir

renderVars == <<template, renderStep, next, output, status>>
vars == <<input, process, phase, pending, config, dumpDir, renderVars>>

Render == INSTANCE DumpDirRender WITH OutputSize <- PathSize, Templates <- Seq(Chars)
-----------------------------------------------------------------------------
(* Reading one text.                                                      *)

Digits == <<"0", "1", "2", "3", "4", "5", "6", "7", "8", "9">>
IsDigit(c) == \E d \in 0..9 : c = Digits[d + 1]
Digit(c) == CHOOSE d \in 0..9 : c = Digits[d + 1]

\* Mutant: what is tested is the result, when it may have wrapped around.
UintFitsAfterwards(text) ==
  LET parsed[k \in 0..Len(text)] ==
        IF k = 0 THEN 0 ELSE (parsed[k - 1] * 10 + Digit(text[k])) % (UintMax + 1)
  IN \A k \in 1..Len(text) : parsed[k] >= parsed[k - 1]

\* The overflow test of set_uint_string before each digit is added, in an
\* unsigned long long.
UintFits(text) ==
  LET parsed[k \in 0..Len(text)] ==
        IF k = 0 THEN 0 ELSE (parsed[k - 1] * 10 + Digit(text[k])) % (UintMax + 1)
  IN \A k \in 1..Len(text) : parsed[k - 1] <= (UintMax - Digit(text[k])) \div 10

Size(name) == IF name = Interval THEN IntervalSize ELSE PathSize

\* A text that gets as far as set_string.
Readable(name, text) ==
  /\ text # <<>>
  /\ name = Interval => (\A k \in DOMAIN text : IsDigit(text[k])) /\ UintFits(text)

\* The parser returns ESPANK_SUCCESS.
Accepted(name, text) ==
  IF name \in BoolNames THEN text \in TrueTexts \cup FalseTexts
  ELSE name \in Names /\ Readable(name, text) /\ Len(text) < Size(name)

\* set_string copies what fits and then rejects the text for the rest.
Cut(name, text) ==
  name \in Names \ BoolNames /\ Readable(name, text) /\ Len(text) >= Size(name)

\* Mutant: snprintf is given room for one character too many.
StoredWide(name, text) ==
  IF name \in BoolNames THEN text \in TrueTexts
  ELSE IF Cut(name, text) THEN SubSeq(text, 1, Size(name))
  ELSE text

Stored(name, text) ==
  IF name \in BoolNames THEN text \in TrueTexts
  ELSE IF Cut(name, text) THEN SubSeq(text, 1, Size(name) - 1)
  ELSE text

Writes(name, text) == Accepted(name, text) \/ Cut(name, text)

\* snccliprecon_config_parse_option, as far as the configuration goes.
Parse(name, text) ==
  config' = IF Writes(name, text) THEN [config EXCEPT ![name] = Stored(name, text)]
            ELSE config
-----------------------------------------------------------------------------
\* The configuration is static storage.
Zero == [n \in Names |-> IF n \in BoolNames THEN FALSE ELSE <<>>]

Defaults ==
  [n \in Names |->
    CASE n \in {"enabled", "dump-verbose"} -> TRUE
      [] n = "prom-dump" -> FALSE
      [] n \in PathNames -> DefaultPath
      [] n = Interval -> DefaultInterval]

Init ==
  /\ input \in Inputs
  /\ process = "srun" /\ phase = "init"
  /\ pending = <<>>
  /\ config = Zero
  /\ dumpDir = Unset
  /\ Render!Init

Goto(from, to) == phase = from /\ phase' = to

\* slurm_spank_init: register the options, snccliprecon_config_reset.
SpankInit ==
  /\ Goto("init", "args")
  /\ config' = Defaults
  /\ pending' = input.args
  /\ UNCHANGED <<input, process, dumpDir, renderVars>>

\* spank_option_register fails, and with it slurm_spank_init.
RegisterFails ==
  /\ Goto("init", "failed")
  /\ UNCHANGED <<input, process, pending, config, dumpDir, renderVars>>

ParseArg ==
  /\ phase = "args" /\ pending # <<>>
  /\ Parse(Head(pending).name, Head(pending).text)
  /\ pending' = Tail(pending)
  /\ UNCHANGED <<input, process, phase, dumpDir, renderVars>>

\* Of an option that was given twice, slurmstepd gets what came last.
LastGiven(opts) ==
  LET last(k) == \A m \in DOMAIN opts : opts[m].name = opts[k].name => m <= k
  IN SetToSeq({opts[k] : k \in {m \in DOMAIN opts : last(m)}})

\* What spank_getenv returns: a text that does not fit is not there.
InEnv(name) == name \in DOMAIN input.env /\ Len(input.env[name]) < PathSize

\* Mutant: variables that are rejected reset their setting.
ArgsParsedResetting ==
  /\ Goto("args", "options") /\ pending = <<>>
  /\ \/ /\ process = "srun"
        /\ pending' = input.opts
        /\ UNCHANGED config
     \/ /\ process = "slurmstepd"
        /\ pending' = LastGiven(input.opts)
        /\ config' = [n \in Names |->
             IF InEnv(n)
             THEN IF Writes(n, input.env[n]) THEN Stored(n, input.env[n]) ELSE Defaults[n]
             ELSE config[n]]
  /\ UNCHANGED <<input, process, dumpDir, renderVars>>

\* After the arguments, the environment: in the remote context only.
ArgsParsed ==
  /\ Goto("args", "options") /\ pending = <<>>
  /\ \/ /\ process = "srun"
        /\ pending' = input.opts
        /\ UNCHANGED config
     \/ /\ process = "slurmstepd"
        /\ pending' = LastGiven(input.opts)
        /\ config' = [n \in Names |->
             IF InEnv(n) /\ Writes(n, input.env[n]) THEN Stored(n, input.env[n])
             ELSE config[n]]
  /\ UNCHANGED <<input, process, dumpDir, renderVars>>

\* Mutant: srun leaves it to slurmstepd to reject an option.
ParseOptionLax ==
  /\ phase = "options" /\ pending # <<>>
  /\ Parse(Head(pending).name, Head(pending).text)
  /\ IF Accepted(Head(pending).name, Head(pending).text) \/ process = "srun"
     THEN pending' = Tail(pending) /\ UNCHANGED phase
     ELSE phase' = "refused" /\ UNCHANGED pending
  /\ UNCHANGED <<input, process, dumpDir, renderVars>>

\* spank_option_*: a callback that returns ESPANK_BAD_ARG ends the process.
ParseOption ==
  /\ phase = "options" /\ pending # <<>>
  /\ Parse(Head(pending).name, Head(pending).text)
  /\ IF Accepted(Head(pending).name, Head(pending).text)
     THEN pending' = Tail(pending) /\ UNCHANGED phase
     ELSE phase' = "refused" /\ UNCHANGED pending
  /\ UNCHANGED <<input, process, dumpDir, renderVars>>

\* srun starts the step, in whose slurmstepd the plugin is loaded again.
Launch ==
  /\ process = "srun" /\ Goto("options", "init") /\ pending = <<>>
  /\ process' = "slurmstepd"
  /\ config' = Zero
  /\ UNCHANGED <<input, pending, dumpDir, renderVars>>

\* user_init renders the dump directory for the job, if it is enabled.
UserInit ==
  /\ process = "slurmstepd" /\ phase = "options" /\ pending = <<>>
  /\ \/ /\ config["enabled"]
        /\ phase' = "job-dir"
        /\ Render!Call(config["dump-dir"], FALSE)
     \/ ~config["enabled"] /\ phase' = "ready" /\ UNCHANGED renderVars
  /\ UNCHANGED <<input, process, pending, config, dumpDir>>

RenderLoop ==
  /\ phase \in {"job-dir", "step-dir"} /\ Render!Loop
  /\ UNCHANGED <<input, process, phase, pending, config, dumpDir>>

\* The directory goes into the environment, where none was.
JobDirRendered ==
  /\ status = "rendered" /\ Goto("job-dir", "task-init")
  /\ dumpDir' = output
  /\ UNCHANGED <<input, process, pending, config, renderVars>>

\* task_init_privileged renders the setting, not what it finds there.
TaskInit ==
  /\ Goto("task-init", "step-dir")
  /\ Render!Call(config["dump-dir"], TRUE)
  /\ UNCHANGED <<input, process, pending, config, dumpDir>>

StepDirRendered ==
  /\ status = "rendered" /\ Goto("step-dir", "ready")
  /\ dumpDir' = output
  /\ UNCHANGED <<input, process, pending, config, renderVars>>

\* ESPANK_ERROR: the step does not start, or the task exits.
RenderFails ==
  /\ phase \in {"job-dir", "step-dir"} /\ status = "failed"
  /\ phase' = "failed"
  /\ UNCHANGED <<input, process, pending, config, dumpDir, renderVars>>

Next ==
  \/ SpankInit \/ RegisterFails \/ ParseArg \/ ArgsParsed \/ ParseOption \/ Launch
  \/ UserInit \/ RenderLoop \/ JobDirRendered \/ TaskInit \/ StepDirRendered
  \/ RenderFails

Spec == Init /\ [][Next]_vars
-----------------------------------------------------------------------------
ValueTypes(n) == IF n \in BoolNames THEN BOOLEAN ELSE Seq(Chars)

TypeOK ==
  /\ IsInput(input)
  /\ process \in {"srun", "slurmstepd"}
  /\ phase \in {"init", "args", "options", "job-dir", "task-init", "step-dir", "ready",
                "refused", "failed"}
  /\ pending \in Seq(Settings)
  /\ config = [n \in Names |-> config[n]] /\ \A n \in Names : config[n] \in ValueTypes(n)
  /\ dumpDir = Unset \/ dumpDir \in Seq(Chars)
  /\ Render!TypeOK

\* The process has read its arguments at least.
Configured == phase \notin {"init", "failed"}

(***************************************************************************)
(* Whatever was rejected along the way, each text of the configuration is  *)
(* there and fits its buffer with the terminator.                          *)
(***************************************************************************)
SettingsFit ==
  Configured => \A n \in Names \ BoolNames : Len(config[n]) \in 1..(Size(n) - 1)

\* The sum over the digits of text of what each is worth at its place.
DecimalValue(text) ==
  LET power[k \in 0..Len(text)] == IF k = 0 THEN 1 ELSE 10 * power[k - 1]
  IN SumFunction([k \in DOMAIN text |-> Digit(text[k]) * power[Len(text) - k]])

IsUint(text) ==
  (\A k \in DOMAIN text : IsDigit(text[k])) /\ DecimalValue(text) <= UintMax

\* The built-in interval is a number.
ASSUME DefaultAssumption == IsUint(DefaultInterval)

(***************************************************************************)
(* An interval is a 64 bit number, even if it is the rest of a rejected    *)
(* one, and every number is read as what it is up to the last one.         *)
(***************************************************************************)
IntervalExact ==
  /\ Configured => IsUint(config[Interval])
  /\ Interval \in DOMAIN input.env /\ input.env[Interval] # <<>>
       => (Readable(Interval, input.env[Interval]) <=> IsUint(input.env[Interval]))

\* The texts n was given, in the documented order.
Given(n) ==
  LET texts(settings) == FlattenSeq([k \in DOMAIN settings |->
                           IF settings[k].name = n THEN <<settings[k].text>> ELSE <<>>])
  IN texts(input.args) \o (IF InEnv(n) THEN <<input.env[n]>> ELSE <<>>)
       \o texts(LastGiven(input.opts))

(***************************************************************************)
(* When the hooks begin, each setting is what the last source made of it   *)
(* that was accepted or cut, else the default: no rejected text but one    *)
(* that is too long makes a difference, in any combination of sources.     *)
(***************************************************************************)
LastOneWins ==
  process = "slurmstepd" /\ phase \in {"job-dir", "ready"} =>
    \A n \in Names :
      LET given == Given(n)
          wrote == {k \in DOMAIN given : Writes(n, given[k])}
      IN config[n] = IF wrote = {} THEN Defaults[n]
                     ELSE Stored(n, given[CHOOSE k \in wrote : \A m \in wrote : m <= k])

(***************************************************************************)
(* An option that srun let pass is not refused by the slurmstepds, where   *)
(* it would fail the step instead of the command.                          *)
(***************************************************************************)
RefusedBySrun == phase = "refused" => process = "srun"

(***************************************************************************)
(* The directory in the environment fits the buffers of the hooks that     *)
(* read it back, so it is never taken for missing, and a task starts with  *)
(* the documented meaning of the setting for its step.                     *)
(***************************************************************************)
DumpDirExported ==
  /\ dumpDir # Unset => Len(dumpDir) < PathSize
  /\ phase = "ready" /\ config["enabled"]
       => dumpDir = Render!Meaning(config["dump-dir"], TRUE)

(***************************************************************************)
(* DumpDirRender's own properties, of the templates that reach it: also    *)
(* what is left of a setting that was too long, say the "%" of a           *)
(* placeholder that was cut off, is rendered as documented.                *)
(***************************************************************************)
DumpDirFits == Render!Fits
DumpDirMeant == Render!RendersTemplate
StepDirFromJobDir == Render!TwoPasses
=============================================================================
