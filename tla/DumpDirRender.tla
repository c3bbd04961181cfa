---------------------------- MODULE DumpDirRender ----------------------------
(***************************************************************************)
(* render_dump_dir (snccliprecon_config.c): expand Slurm placeholders of a *)
(* dump directory template into a buffer of OutputSize bytes, an iteration *)
(* of the loop per step.  user_init renders the template for the job,      *)
(* task_init_privileged renders it once more, from the start, for the      *)
(* step.  A text is a sequence of characters, its terminator not included. *)
(***************************************************************************)
EXTENDS Naturals, Sequences, SequencesExt

CONSTANTS
  Chars,         \* the characters of a text
  JobId, StepId, \* the ids as text
  Templates,     \* the templates that are rendered
  OutputSize     \* the size of the output buffer, terminator included

\* What snprintf makes of an id: decimal digits, at least one.
Numerals == Seq({"0", "1", "2", "3", "4", "5", "6", "7", "8", "9"}) \ {<<>>}

\* What the theorems assume of the constants.
RenderConstants ==
  /\ {"%", "j", "s", "J", "."} \subseteq Chars
  /\ {JobId, StepId} \subseteq Seq(Chars) \cap Numerals
  /\ Templates \subseteq Seq(Chars)
  /\ OutputSize \in Nat \ {0}

VARIABLES
  template,    \* the template of the latest call
  renderStep,  \* the call renders for the step
  next,        \* the position in the template
  output,      \* the text in the buffer
  status       \* "idle", "rendering", "rendered" (0), "failed" (-1, ENAMETOOLONG)

renderVars == <<template, renderStep, next, output, status>>

Init ==
  /\ template = <<>> /\ output = <<>>
  /\ renderStep = FALSE
  /\ next = 1
  /\ status = "idle"

\* What a placeholder stands for.  The job id, a dot and the step id of %J are
\* three appends, which fail exactly if all of them together do not fit.
Text(letter) ==
  CASE letter = "j" -> JobId
    [] letter = "s" -> StepId
    [] letter = "J" -> JobId \o <<".">> \o StepId

Letters == IF renderStep THEN {"j", "s", "J"} ELSE {"j"}

\* The character after the last one is the terminator, which is no letter.
AtPlaceholder ==
  /\ template[next] = "%"
  /\ next < Len(template) /\ template[next + 1] \in Letters

\* Mutant: the terminator is not counted.
RoomForNoTerminator(text) == Len(output) + Len(text) <= OutputSize

RoomFor(text) == Len(output) + Len(text) < OutputSize

\* Put text where width characters of the template were, or return -1.  What a
\* failed call leaves in the buffer is read by nobody.
Put(text, width) ==
  /\ \/ /\ RoomFor(text)
        /\ output' = output \o text
        /\ next' = next + width
        /\ UNCHANGED status
     \/ /\ ~RoomFor(text)
        /\ status' = "failed"
        /\ UNCHANGED <<output, next>>
  /\ UNCHANGED <<template, renderStep>>

Looping == status = "rendering" /\ next <= Len(template)

\* Mutant: only the "%" is consumed.
SubstituteOne == Looping /\ AtPlaceholder /\ Put(Text(template[next + 1]), 1)

\* Mutant: the letter is skipped once more.
SubstituteThree == Looping /\ AtPlaceholder /\ Put(Text(template[next + 1]), 3)

Substitute == Looping /\ AtPlaceholder /\ Put(Text(template[next + 1]), 2)

\* Mutant: "%%" stands for one "%", as in printf.
CopyEscaped ==
  /\ Looping /\ ~AtPlaceholder
  /\ Put(<<template[next]>>,
         IF next < Len(template) /\ template[next] = "%" /\ template[next + 1] = "%" THEN 2
         ELSE 1)

Copy == Looping /\ ~AtPlaceholder /\ Put(<<template[next]>>, 1)

Return ==
  /\ status = "rendering" /\ next > Len(template)
  /\ status' = "rendered"
  /\ UNCHANGED <<template, renderStep, next, output>>

Loop == Substitute \/ Copy \/ Return

\* Mutant: the buffer still holds what the previous call put there.
CallAppends(text, forStep) ==
  /\ status # "rendering"
  /\ template' = text /\ renderStep' = forStep
  /\ next' = 1 /\ UNCHANGED output
  /\ status' = "rendering"

\* snccliprecon_config_render_job_dump_dir and ..._render_step_dump_dir.
Call(text, forStep) ==
  /\ status # "rendering"
  /\ template' = text /\ renderStep' = forStep
  /\ next' = 1 /\ output' = <<>>
  /\ status' = "rendering"

Next == Loop \/ \E text \in Templates, forStep \in BOOLEAN : Call(text, forStep)

Spec == Init /\ [][Next]_renderVars

TypeOK ==
  /\ template \in Seq(Chars) /\ output \in Seq(Chars)
  /\ renderStep \in BOOLEAN
  /\ next \in 1..(Len(template) + 1)
  /\ status \in {"idle", "rendering", "rendered", "failed"}
-----------------------------------------------------------------------------
(***************************************************************************)
(* The text and its terminator never leave the buffer.                     *)
(***************************************************************************)
Fits == Len(output) < OutputSize

\* The documented meaning of a template, without a loop: every character
\* stands for itself, except in a placeholder, which the "%" stands for.
Opens(text, forStep, k) ==
  /\ k \in DOMAIN text /\ k + 1 \in DOMAIN text
  /\ text[k] = "%"
  /\ text[k + 1] = "j" \/ (forStep /\ text[k + 1] \in {"s", "J"})

Meaning(text, forStep) ==
  FlattenSeq([k \in DOMAIN text |->
    IF Opens(text, forStep, k) THEN Text(text[k + 1])
    ELSE IF Opens(text, forStep, k - 1) THEN <<>>
    ELSE <<text[k]>>])

(***************************************************************************)
(* A call that succeeds has rendered the template as documented, and a     *)
(* call fails only if that would not fit: no placeholder is missed,        *)
(* expanded twice or taken from the rest of another.                       *)
(***************************************************************************)
RendersTemplate ==
  /\ status = "rendered" => output = Meaning(template, renderStep)
  /\ status = "failed" => Len(Meaning(template, renderStep)) >= OutputSize

(***************************************************************************)
(* To render the template anew for the step gives what the documented      *)
(* second pass over the job-level directory would give: the first pass     *)
(* neither uses up nor makes up placeholders of the step.                  *)
(***************************************************************************)
TwoPasses ==
  status = "rendered" /\ ~renderStep
    => Meaning(output, TRUE) = Meaning(template, TRUE)
=============================================================================
