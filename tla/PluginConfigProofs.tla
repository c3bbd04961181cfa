------------------------- MODULE PluginConfigProofs -------------------------
(* Theorems about PluginConfig, for all texts, buffer sizes and inputs. *)
EXTENDS IntervalProofs

R == INSTANCE DumpDirRenderProofs WITH OutputSize <- PathSize, Templates <- Seq(Chars)

\* The module's constants are what the rendering assumes.
LEMMA RenderAssumes == Render!RenderConstants
BY ConfigAssumption DEF Render!RenderConstants, Render!Numerals

-----------------------------------------------------------------------------
(* One text. *)

\* What a parser stores has the type of its setting and fits its buffer.
LEMMA StoredTypes ==
  ASSUME NEW name \in Names, NEW text \in Seq(Chars), Writes(name, text)
  PROVE  /\ Stored(name, text) \in ValueTypes(name)
         /\ name \notin BoolNames => Len(Stored(name, text)) \in 1..(Size(name) - 1)
<1>1. Len(text) \in Nat /\ Size(name) \in Nat /\ Size(name) >= 2
  BY LenProperties, ConfigAssumption DEF Size
<1>2. CASE name \in BoolNames
  BY <1>2 DEF Stored, ValueTypes
<1>3. CASE name \notin BoolNames /\ Cut(name, text)
  <2>1. Len(text) >= Size(name)
    BY <1>3 DEF Cut
  <2>2. \A i \in 1..(Size(name) - 1) : text[i] \in Chars
    BY <1>1, <2>1, ElementOfSeq
  <2>3. SubSeq(text, 1, Size(name) - 1) \in Seq(Chars)
        /\ Len(SubSeq(text, 1, Size(name) - 1)) = Size(name) - 1
    BY <1>1, <2>2, SubSeqProperties
  <2> QED
    BY <1>1, <1>3, <2>3 DEF Stored, ValueTypes
<1>4. CASE name \notin BoolNames /\ ~Cut(name, text)
  <2>1. text # <<>> /\ Len(text) < Size(name)
    BY <1>4 DEF Writes, Accepted, Readable
  <2>2. Len(text) > 0
    BY <1>1, <2>1, EmptySeq
  <2> QED
    BY <1>1, <1>4, <2>1, <2>2 DEF Stored, ValueTypes
<1> QED
  BY <1>2, <1>3, <1>4

ConfigTypes == config = [n \in Names |-> config[n]] /\ \A n \in Names : config[n] \in ValueTypes(n)
TextsFit == \A n \in Names \ BoolNames : Len(config[n]) \in 1..(Size(n) - 1)

\* A parser keeps the types and the fit of all settings, whatever the text.
LEMMA ParseKeeps ==
  ASSUME ConfigTypes, TextsFit, NEW name \in Names \cup {Unknown}, NEW text \in Seq(Chars),
         Parse(name, text)
  PROVE  ConfigTypes' /\ TextsFit'
<1>1. CASE Writes(name, text)
  <2>1. name \in Names
    BY <1>1 DEF Writes, Accepted, Cut, Unknown, BoolNames, Names
  <2>2. config' = [config EXCEPT ![name] = Stored(name, text)]
    BY <1>1 DEF Parse
  <2> QED
    BY <1>1, <2>1, <2>2, StoredTypes DEF ConfigTypes, TextsFit, ValueTypes, Size
<1>2. CASE ~Writes(name, text)
  BY <1>2 DEF Parse, ConfigTypes, TextsFit
<1> QED
  BY <1>1, <1>2

\* The built-in values have their types and fit.
LEMMA DefaultsFit ==
  /\ \A n \in Names : Defaults[n] \in ValueTypes(n)
  /\ \A n \in Names \ BoolNames : Len(Defaults[n]) \in 1..(Size(n) - 1)
BY ConfigAssumption
  DEF Defaults, ValueTypes, Names, BoolNames, PathNames, Interval, Size

\* Static storage has the types, not the fit.
LEMMA ZeroTypes ==
  /\ Zero = [n \in Names |-> Zero[n]]
  /\ \A n \in Names : Zero[n] \in ValueTypes(n)
<1>1. Zero = [n \in Names |-> IF n \in BoolNames THEN FALSE ELSE <<>>]
  BY DEF Zero
<1>2. <<>> \in Seq(Chars)
  OBVIOUS
<1>3. \A n \in Names : Zero[n] = IF n \in BoolNames THEN FALSE ELSE <<>>
  BY <1>1
<1>4. \A n \in Names : Zero[n] \in ValueTypes(n)
  BY <1>2, <1>3 DEF ValueTypes
<1> QED
  BY <1>1, <1>4

-----------------------------------------------------------------------------
(* The options slurmstepd gets. *)

\* They are some of those that srun got.
LEMMA LastGivenTypes ==
  ASSUME NEW S, NEW opts \in Seq(S)
  PROVE  /\ LastGiven(opts) \in Seq(S)
         /\ \A j \in DOMAIN LastGiven(opts) : \E k \in DOMAIN opts : LastGiven(opts)[j] = opts[k]
<1> DEFINE last(k) == \A m \in DOMAIN opts : opts[m].name = opts[k].name => m <= k
           kept == {m \in DOMAIN opts : last(m)}
           T == {opts[k] : k \in kept}
<1>1. LastGiven(opts) = SetToSeq(T)
  BY DEF LastGiven
<1> HIDE DEF last
<1>2. IsFiniteSet(kept)
  <2>1. Len(opts) \in Nat /\ DOMAIN opts = 1..Len(opts)
    BY LenProperties
  <2>2. IsFiniteSet(1..Len(opts))
    BY <2>1, FS_Interval
  <2> QED
    BY <2>1, <2>2, FS_Subset
<1>3. IsFiniteSet(T)
  <2>1. [k \in kept |-> opts[k]] \in Surjection(kept, T)
    BY DEF Surjection
  <2> QED
    BY <1>2, <2>1, FS_Surjection
<1>4. Cardinality(T) \in Nat /\ SetToSeq(T) \in [1..Cardinality(T) -> T]
  <2>1. Cardinality(T) \in Nat /\ ExistsBijection(1..Cardinality(T), T)
    BY <1>3, FS_CardinalityType
  <2>2. \E f \in [1..Cardinality(T) -> T] : IsInjective(f)
    BY <2>1 DEF ExistsBijection, Bijection, Injection
  <2> QED
    BY <2>1, <2>2 DEF SetToSeq
<1>5. \A k \in DOMAIN opts : opts[k] \in S
  BY ElementOfSeq, LenProperties
<1>6. T \subseteq S
  BY <1>5
<1>7. SetToSeq(T) \in Seq(S)
  <2>1. PICK n \in Nat : SetToSeq(T) \in [1..n -> T]
    BY <1>4
  <2> HIDE DEF T
  <2>2. SetToSeq(T) \in [1..n -> S]
    BY <1>6, <2>1
  <2> QED
    BY <2>2
<1> QED
  BY <1>1, <1>4, <1>7

-----------------------------------------------------------------------------
(* What a setting is after a sequence of texts. *)

\* The texts that n is given by a sequence of settings.
Texts(settings, n) ==
  FlattenSeq([k \in DOMAIN settings |->
    IF settings[k].name = n THEN <<settings[k].text>> ELSE <<>>])

\* The last text that was accepted or cut decides.
Value(n, given) ==
  LET wrote == {k \in DOMAIN given : Writes(n, given[k])}
  IN IF wrote = {} THEN Defaults[n]
     ELSE Stored(n, given[CHOOSE k \in wrote : \A m \in wrote : m <= k])

\* One text more.
Reread(n, text, old) == IF Writes(n, text) THEN Stored(n, text) ELSE old

\* A text that is rejected changes nothing, whatever came before.
LEMMA ValueAppend ==
  ASSUME NEW n, NEW given \in Seq(Seq(Chars)), NEW text \in Seq(Chars)
  PROVE  Value(n, Append(given, text)) = Reread(n, text, Value(n, given))
<1> DEFINE l == Len(given)
           more == Append(given, text)
           wrote == {k \in DOMAIN given : Writes(n, given[k])}
           wroteMore == {k \in DOMAIN more : Writes(n, more[k])}
           last == CHOOSE k \in wrote : \A m \in wrote : m <= k
           lastMore == CHOOSE k \in wroteMore : \A m \in wroteMore : m <= k
<1>1. /\ l \in Nat /\ DOMAIN given = 1..l /\ DOMAIN more = 1..(l + 1)
      /\ \A i \in 1..l : more[i] = given[i]
      /\ more[l + 1] = text
  BY AppendProperties, LenProperties
<1>2. Value(n, given) = IF wrote = {} THEN Defaults[n] ELSE Stored(n, given[last])
  BY DEF Value
<1>3. Value(n, more) = IF wroteMore = {} THEN Defaults[n] ELSE Stored(n, more[lastMore])
  BY DEF Value
<1> HIDE DEF more, l
<1>4. CASE Writes(n, text)
  <2>1. l + 1 \in wroteMore /\ \A k \in wroteMore : k <= l + 1 /\ k \in Nat
    BY <1>1, <1>4
  <2>2. lastMore = l + 1
    <3> HIDE DEF wroteMore
    <3>1. lastMore \in wroteMore /\ \A k \in wroteMore : k <= lastMore
      BY <2>1
    <3>2. lastMore <= l + 1 /\ l + 1 <= lastMore /\ lastMore \in Nat
      BY <2>1, <3>1
    <3> HIDE DEF lastMore
    <3> QED
      BY <1>1, <3>2
  <2> HIDE DEF wroteMore, lastMore
  <2> QED
    BY <1>1, <1>3, <1>4, <2>1, <2>2 DEF Reread, more
<1>5. CASE ~Writes(n, text)
  <2>1. wroteMore = wrote
    BY <1>1, <1>5
  <2>2. wrote # {} => last \in wrote
    <3> SUFFICES ASSUME wrote # {} PROVE last \in wrote
      OBVIOUS
    <3>1. wrote \subseteq 1..l
      BY <1>1
    <3> HIDE DEF wrote
    <3>2. \E k \in wrote : \A m \in wrote : m <= k
      BY <1>1, <3>1, GreatestUpTo
    <3> QED
      BY <3>2
  <2>3. lastMore = last
    BY <2>1
  <2>4. wrote # {} => more[last] = given[last]
    BY <1>1, <2>2
  <2> HIDE DEF wroteMore, wrote, last, lastMore
  <2> QED
    BY <1>2, <1>3, <1>5, <2>1, <2>3, <2>4 DEF Reread, more
<1> QED
  BY <1>4, <1>5

\* Nothing was given yet.
LEMMA ValueEmpty ==
  ASSUME NEW n
  PROVE  Value(n, <<>>) = Defaults[n] /\ Texts(<<>>, n) = <<>>
<1>1. DOMAIN <<>> = {} /\ Len(<<>>) = 0
  OBVIOUS
<1>2. Value(n, <<>>) = Defaults[n]
  BY <1>1 DEF Value
<1> DEFINE pieces == [k \in DOMAIN <<>> |->
                       IF <<>>[k].name = n THEN << <<>>[k].text >> ELSE <<>>]
<1>3. pieces = <<>>
  BY <1>1
<1>4. Texts(<<>>, n) = FlattenSeq(pieces)
  BY DEF Texts
<1> HIDE DEF pieces
<1>5. FlattenSeq(<<>>) = <<>>
  BY <1>1 DEF FlattenSeq
<1> QED
  BY <1>2, <1>3, <1>4, <1>5

\* The texts of one setting more.
LEMMA TextsAppend ==
  ASSUME NEW n, NEW settings \in Seq(Settings), NEW s \in Settings
  PROVE  /\ Texts(settings, n) \in Seq(Seq(Chars))
         /\ Texts(Append(settings, s), n)
              = IF s.name = n THEN Append(Texts(settings, n), s.text) ELSE Texts(settings, n)
<1> DEFINE piece(t) == IF t.name = n THEN <<t.text>> ELSE <<>>
           l == Len(settings)
           more == Append(settings, s)
           pieces == [k \in DOMAIN settings |-> piece(settings[k])]
           piecesMore == [k \in DOMAIN more |-> piece(more[k])]
<1>1. /\ l \in Nat /\ DOMAIN settings = 1..l /\ DOMAIN more = 1..(l + 1)
      /\ \A i \in 1..l : more[i] = settings[i] /\ settings[i] \in Settings
      /\ more[l + 1] = s
  BY AppendProperties, LenProperties, ElementOfSeq
<1>2. \A t \in Settings : piece(t) \in Seq(Seq(Chars)) /\ t.text \in Seq(Chars)
  BY DEF Settings
<1>3. Texts(settings, n) = FlattenSeq(pieces) /\ Texts(more, n) = FlattenSeq(piecesMore)
  BY DEF Texts
<1>4. piece(s) = IF s.name = n THEN <<s.text>> ELSE <<>>
  OBVIOUS
<1> HIDE DEF piece, l, more
<1>5. pieces \in Seq(Seq(Seq(Chars))) /\ Len(pieces) = l
  <2>1. pieces \in [1..l -> Seq(Seq(Chars))]
    BY <1>1, <1>2
  <2> HIDE DEF pieces
  <2> QED
    BY <1>1, <2>1
<1>6. piecesMore = Append(pieces, piece(s))
  <2>1. /\ Append(pieces, piece(s)) \in Seq(Seq(Seq(Chars)))
        /\ Len(Append(pieces, piece(s))) = l + 1
        /\ \A i \in 1..l : Append(pieces, piece(s))[i] = pieces[i]
        /\ Append(pieces, piece(s))[l + 1] = piece(s)
    <3> HIDE DEF pieces
    <3> QED
      BY <1>2, <1>5, AppendProperties
  <2>2. \A i \in 1..l : pieces[i] = piecesMore[i]
    BY <1>1
  <2>3. piecesMore[l + 1] = piece(s)
    BY <1>1
  <2>4. piecesMore \in Seq(Seq(Seq(Chars))) /\ Len(piecesMore) = l + 1
    <3>1. piecesMore \in [1..(l + 1) -> Seq(Seq(Chars))]
      <4>1. \A i \in 1..(l + 1) : more[i] \in Settings
        BY <1>1
      <4> QED
        BY <1>1, <1>2, <4>1
    <3> HIDE DEF piecesMore
    <3> QED
      BY <1>1, <3>1
  <2> HIDE DEF pieces, piecesMore
  <2>5. \A i \in 1..(l + 1) : piecesMore[i] = Append(pieces, piece(s))[i]
    BY <1>1, <2>1, <2>2, <2>3
  <2> QED
    BY <2>1, <2>4, <2>5, SeqEqual
<1> HIDE DEF pieces, piecesMore
<1>7. FlattenSeq(piecesMore) = FlattenSeq(pieces) \o piece(s) /\ FlattenSeq(pieces) \in Seq(Seq(Chars))
  BY <1>2, <1>5, <1>6, FlattenAppend, FlattenIsJoins
<1>8. /\ FlattenSeq(pieces) \o <<>> = FlattenSeq(pieces)
      /\ FlattenSeq(pieces) \o <<s.text>> = Append(FlattenSeq(pieces), s.text)
  BY <1>2, <1>7, ConcatEmptySeq, AppendIsConcat
<1> QED
  BY <1>3, <1>4, <1>7, <1>8 DEF more

-----------------------------------------------------------------------------
(* The inductive invariant. *)

\* An option that gets as far as slurmstepd was let pass by srun, which forgets
\* none of its options until it has checked it.
Fine(given) == Accepted(given.name, given.text)
OptionsInv ==
  /\ process = "srun" /\ phase = "options"
       => \A k \in DOMAIN input.opts :
            Fine(input.opts[k]) \/ \E j \in DOMAIN pending : pending[j] = input.opts[k]
  /\ process = "slurmstepd" => \A k \in DOMAIN input.opts : Fine(input.opts[k])
  /\ process = "slurmstepd" /\ phase = "options"
       => \A j \in DOMAIN pending : Fine(pending[j])
  /\ RefusedBySrun

DumpDirInv == dumpDir # Unset => Len(dumpDir) < PathSize

\* The rendering that ends with what a task starts with is one of the setting,
\* for the step.
StepDirInv ==
  /\ phase = "step-dir" => template = config["dump-dir"] /\ renderStep
  /\ phase = "ready" /\ config["enabled"]
       => dumpDir = Render!Meaning(config["dump-dir"], TRUE)

\* What n is given before the options.
EnvTexts(n) == IF InEnv(n) THEN <<input.env[n]>> ELSE <<>>
BeforeOptions(n) == Texts(input.args, n) \o EnvTexts(n)

\* Each setting is what the texts so far make of it: those of the arguments that
\* are done, then of the environment and the options that are done, then all.
ReadInv ==
  /\ phase = "args" =>
       \E done \in Seq(Settings) :
         /\ done \o pending = input.args
         /\ \A n \in Names : config[n] = Value(n, Texts(done, n))
  /\ process = "slurmstepd" /\ phase = "options" =>
       \E done \in Seq(Settings) :
         /\ done \o pending = LastGiven(input.opts)
         /\ \A n \in Names : config[n] = Value(n, BeforeOptions(n) \o Texts(done, n))
  /\ process = "slurmstepd" /\ phase \in {"job-dir", "task-init", "step-dir", "ready"} =>
       \A n \in Names : config[n] = Value(n, Given(n))

\* The interval is a number in range.
IntervalInv == Configured => IsUint(config[Interval])

\* The renderer's own invariant.
Rendered == Render!Fits /\ R!LoopInv /\ R!RendersTemplate

ConfigInv ==
  /\ TypeOK /\ SettingsFit /\ DumpDirInv /\ Rendered
  /\ OptionsInv /\ StepDirInv /\ ReadInv /\ IntervalInv

\* The steps of the rendering keep its part of the invariant.
LEMMA RenderKeeps ==
  ASSUME Render!TypeOK, Rendered, [Render!Next]_renderVars
  PROVE  Render!TypeOK' /\ Rendered'
<1>1. R!RenderConstants
  BY RenderAssumes DEF R!RenderConstants, Render!RenderConstants, R!Numerals, Render!Numerals
<1>2. R!RenderInv
  BY DEF Rendered, R!RenderInv, R!TypeOK, R!Fits, Render!TypeOK, Render!Fits
<1>3. [R!Next]_R!renderVars
  <2>1. \A letter : R!Text(letter) = Render!Text(letter)
    BY DEF R!Text, Render!Text
  <2>2. R!AtPlaceholder <=> Render!AtPlaceholder
    BY DEF R!AtPlaceholder, R!Letters, Render!AtPlaceholder, Render!Letters
  <2>3. \A text, width : R!Put(text, width) <=> Render!Put(text, width)
    BY DEF R!Put, R!RoomFor, Render!Put, Render!RoomFor
  <2>4. R!Looping <=> Render!Looping
    BY DEF R!Looping, Render!Looping
  <2>5. R!Substitute <=> Render!Substitute
    BY <2>1, <2>2, <2>3, <2>4 DEF R!Substitute, Render!Substitute
  <2>6. R!Copy <=> Render!Copy
    BY <2>2, <2>3, <2>4 DEF R!Copy, Render!Copy
  <2>7. R!Return <=> Render!Return
    BY DEF R!Return, Render!Return
  <2>8. \A text, forStep : R!Call(text, forStep) <=> Render!Call(text, forStep)
    BY DEF R!Call, Render!Call
  <2>9. R!Next <=> Render!Next
    BY <2>5, <2>6, <2>7, <2>8 DEF R!Next, R!Loop, Render!Next, Render!Loop
  <2> QED
    BY <2>9 DEF R!renderVars, renderVars
<1>4. R!RenderInv'
  BY <1>1, <1>2, <1>3, R!RenderNext
<1>5. R!LoopInv' /\ R!RendersTemplate'
  BY <1>1, <1>2, <1>3, R!MeaningNext DEF R!RenderInv, Rendered
<1> QED
  BY <1>4, <1>5 DEF Rendered, R!RenderInv, R!TypeOK, R!Fits, Render!TypeOK, Render!Fits

\* Every step of the plugin is a step of the rendering, or none.
LEMMA UsesRenderStep ==
  ASSUME ConfigInv, [Next]_vars
  PROVE  [Render!Next]_renderVars
<1>1. config["dump-dir"] \in Seq(Chars)
  BY DEF ConfigInv, TypeOK, ValueTypes, Names, BoolNames, PathNames, Interval
<1>2. CASE RenderLoop
  BY <1>2 DEF RenderLoop, Render!Next
<1>3. CASE UserInit
  <2>1. Render!Call(config["dump-dir"], FALSE) => Render!Next
    BY <1>1 DEF Render!Next
  <2> QED
    BY <1>3, <2>1 DEF UserInit
<1>4. CASE TaskInit
  <2>1. Render!Call(config["dump-dir"], TRUE) => Render!Next
    BY <1>1 DEF Render!Next
  <2> QED
    BY <1>4, <2>1 DEF TaskInit
<1> QED
  BY <1>2, <1>3, <1>4 DEF Next, SpankInit, RegisterFails, ParseArg, ArgsParsed, ParseOption,
     Launch, JobDirRendered, StepDirRendered, RenderFails, vars

\* An input is made of texts.
LEMMA InputTypes ==
  ASSUME TypeOK
  PROVE  /\ input.args \in Seq(Settings)
         /\ input.opts \in Seq(Settings)
         /\ DOMAIN input.opts = 1..Len(input.opts) /\ Len(input.opts) \in Nat
         /\ \A n \in DOMAIN input.env : input.env[n] \in Seq(Chars)
         /\ LastGiven(input.opts) \in Seq(Settings)
<1>1. IsInput(input)
  BY DEF TypeOK
<1>2. input.opts \in Seq([name : Names, text : Seq(Chars)])
  BY <1>1 DEF IsInput
<1>3. [name : Names, text : Seq(Chars)] \subseteq Settings
  BY DEF Settings
<1>4. input.opts \in Seq(Settings)
  BY <1>2, <1>3, SeqMonotonic
<1> QED
  BY <1>1, <1>4, LenProperties, LastGivenTypes DEF IsInput

\* The first setting that is still to come, and the rest.
LEMMA PendingTypes ==
  ASSUME TypeOK, pending # <<>>
  PROVE  /\ Head(pending) \in Settings /\ Tail(pending) \in Seq(Settings)
         /\ Head(pending).name \in Names \cup {Unknown} /\ Head(pending).text \in Seq(Chars)
         /\ Head(pending) = pending[1]
         /\ \A j \in DOMAIN Tail(pending) : j + 1 \in DOMAIN pending /\ Tail(pending)[j] = pending[j + 1]
         /\ \A j \in DOMAIN pending : j # 1
              => \E i \in DOMAIN Tail(pending) : Tail(pending)[i] = pending[j]
<1>1. pending \in Seq(Settings)
  BY DEF TypeOK
<1>2. Head(pending) \in Settings /\ Tail(pending) \in Seq(Settings) /\ Head(pending) = pending[1]
  BY <1>1, HeadTailProperties
<1>3. /\ Len(Tail(pending)) = Len(pending) - 1 /\ Len(pending) \in Nat
      /\ DOMAIN pending = 1..Len(pending) /\ DOMAIN Tail(pending) = 1..Len(Tail(pending))
      /\ \A i \in 1..Len(Tail(pending)) : Tail(pending)[i] = pending[i + 1]
  BY <1>1, HeadTailProperties, LenProperties
<1>4. ASSUME NEW j \in DOMAIN pending, j # 1
      PROVE  \E i \in DOMAIN Tail(pending) : Tail(pending)[i] = pending[j]
  <2>1. j - 1 \in DOMAIN Tail(pending) /\ Tail(pending)[j - 1] = pending[j]
    BY <1>3, <1>4
  <2> QED
    BY <2>1
<1>5. \A j \in DOMAIN Tail(pending) : j + 1 \in DOMAIN pending /\ Tail(pending)[j] = pending[j + 1]
  BY <1>3
<1> QED
  BY <1>2, <1>4, <1>5 DEF Settings

\* Both instances of the renderer give a template the same meaning.
LEMMA SameMeaning ==
  ASSUME NEW text, NEW forStep
  PROVE  R!Meaning(text, forStep) = Render!Meaning(text, forStep)
<1>1. \A letter : R!Text(letter) = Render!Text(letter)
  BY DEF R!Text, Render!Text
<1>2. \A k : R!Opens(text, forStep, k) = Render!Opens(text, forStep, k)
  BY DEF R!Opens, Render!Opens
<1>3. \A seqs : R!FlattenSeq(seqs) = Render!FlattenSeq(seqs)
  BY DEF R!FlattenSeq, Render!FlattenSeq
<1> QED
  BY <1>1, <1>2, <1>3 DEF R!Meaning, Render!Meaning

\* Every step keeps what the step's directory depends on.
LEMMA StepDirKeeps ==
  ASSUME ConfigInv, [Next]_vars
  PROVE  StepDirInv'
<1>1. CASE SpankInit \/ RegisterFails \/ ParseArg \/ ArgsParsed \/ ParseOption \/ Launch
             \/ JobDirRendered \/ RenderFails
  BY <1>1 DEF SpankInit, RegisterFails, ParseArg, ArgsParsed, ParseOption, Launch,
     JobDirRendered, RenderFails, Goto, StepDirInv
<1>2. CASE UserInit
  BY <1>2 DEF UserInit, StepDirInv
<1>3. CASE RenderLoop
  <2>1. template' = template /\ renderStep' = renderStep
    BY <1>3 DEF RenderLoop, Render!Loop, Render!Substitute, Render!Copy, Render!Put, Render!Return
  <2> QED
    BY <1>3, <2>1 DEF RenderLoop, ConfigInv, StepDirInv
<1>4. CASE TaskInit
  BY <1>4 DEF TaskInit, Goto, Render!Call, StepDirInv
<1>5. CASE StepDirRendered
  <2>1. output = R!Meaning(template, renderStep) /\ template = config["dump-dir"] /\ renderStep
    BY <1>5 DEF StepDirRendered, Goto, ConfigInv, Rendered, R!RendersTemplate, StepDirInv
  <2>2. renderStep = TRUE
    BY <2>1 DEF ConfigInv, TypeOK, Render!TypeOK
  <2>3. output = Render!Meaning(config["dump-dir"], TRUE)
    BY <2>1, <2>2, SameMeaning
  <2> QED
    BY <1>5, <2>3 DEF StepDirRendered, Goto, StepDirInv, Render!Meaning, Render!Opens, Render!Text
<1>6. CASE UNCHANGED vars
  BY <1>6 DEF vars, renderVars, ConfigInv, StepDirInv, Render!Meaning, Render!Opens, Render!Text
<1> QED
  BY <1>1, <1>2, <1>3, <1>4, <1>5, <1>6 DEF Next

\* The texts of all sources are texts.
LEMMA BeforeTypes ==
  ASSUME TypeOK, NEW n \in Names
  PROVE  /\ Texts(input.args, n) \in Seq(Seq(Chars)) /\ BeforeOptions(n) \in Seq(Seq(Chars))
         /\ \A settings \in Seq(Settings) : Texts(settings, n) \in Seq(Seq(Chars))
         /\ InEnv(n) => input.env[n] \in Seq(Chars)
<1>1. \A settings \in Seq(Settings) : Texts(settings, n) \in Seq(Seq(Chars))
  <2>1. [name |-> n, text |-> <<>>] \in Settings
    BY DEF Settings
  <2> QED
    BY <2>1, TextsAppend
<1>2. Texts(input.args, n) \in Seq(Seq(Chars)) /\ (InEnv(n) => input.env[n] \in Seq(Chars))
  BY <1>1, InputTypes DEF InEnv
<1>3. EnvTexts(n) \in Seq(Seq(Chars))
  BY <1>2 DEF EnvTexts
<1> QED
  BY <1>1, <1>2, <1>3, ConcatProperties DEF BeforeOptions

\* What n was given before, and then by the settings that are done, is read.
IsRead(n, before, done) == config[n] = Value(n, before \o Texts(done, n))

\* One setting is parsed: those that came before it are one more.
LEMMA OneMore ==
  ASSUME TypeOK, pending # <<>>, NEW n \in Names, NEW done \in Seq(Settings),
         NEW before \in Seq(Seq(Chars)),
         IsRead(n, before, done), Parse(Head(pending).name, Head(pending).text)
  PROVE  config'[n] = Value(n, before \o Texts(Append(done, Head(pending)), n))
<1> DEFINE s == Head(pending)
           t == Texts(done, n)
<1>1. s \in Settings /\ s.text \in Seq(Chars)
  BY PendingTypes
<1>2. config' = IF Writes(s.name, s.text) THEN [config EXCEPT ![s.name] = Stored(s.name, s.text)]
                ELSE config
  BY DEF Parse
<1>3. config'[n] = IF s.name = n THEN Reread(n, s.text, config[n]) ELSE config[n]
  <2>1. config = [m \in Names |-> config[m]]
    BY DEF TypeOK
  <2>2. n \in DOMAIN config
    BY <2>1
  <2> QED
    BY <1>2, <2>2 DEF Reread
<1> HIDE DEF s
<1>4. /\ t \in Seq(Seq(Chars))
      /\ Texts(Append(done, s), n) = IF s.name = n THEN Append(t, s.text) ELSE t
  BY <1>1, TextsAppend
<1>5. config[n] = Value(n, before \o t)
  BY DEF IsRead
<1> HIDE DEF t
<1>6. before \o t \in Seq(Seq(Chars)) /\ before \o Append(t, s.text) = Append(before \o t, s.text)
  <2>1. Append(t, s.text) = t \o <<s.text>>
    BY <1>1, <1>4, AppendIsConcat
  <2> DEFINE e == s.text
             C == Seq(Chars)
  <2>2. before \in Seq(C) /\ t \in Seq(C) /\ e \in C
    BY <1>1, <1>4
  <2> HIDE DEF e, C
  <2>3. before \o (t \o <<e>>) = Append(before \o t, e) /\ before \o t \in Seq(C)
    BY <2>2, AppendOne
  <2> QED
    BY <2>1, <2>3 DEF e, C
<1>7. Value(n, Append(before \o t, s.text)) = Reread(n, s.text, Value(n, before \o t))
  BY <1>1, <1>6, ValueAppend
<1> QED
  BY <1>3, <1>4, <1>5, <1>6, <1>7 DEF s

\* slurm_spank_init and the arguments.
LEMMA ArgsRead ==
  ASSUME ConfigInv, SpankInit \/ ParseArg \/ ArgsParsed
  PROVE  ReadInv'
<1>0. TypeOK /\ ReadInv
  BY DEF ConfigInv
<1>1. CASE SpankInit
  <2>1. phase' = "args" /\ pending' = input.args /\ config' = Defaults /\ input' = input
    BY <1>1 DEF SpankInit, Goto
  <2>2. <<>> \in Seq(Settings) /\ <<>> \o input.args = input.args
    BY <1>0, InputTypes, ConcatEmptySeq
  <2>3. \A n \in Names : config'[n] = Value(n, Texts(<<>>, n))
    BY <2>1, ValueEmpty
  <2>4. \E done \in Seq(Settings) : /\ done \o pending' = input'.args
                                   /\ \A n \in Names : config'[n] = Value(n, Texts(done, n))
    BY <2>1, <2>2, <2>3
  <2> QED
    BY <2>1, <2>4 DEF ReadInv
<1>2. CASE ParseArg
  <2>1. /\ phase = "args" /\ pending # <<>> /\ Parse(Head(pending).name, Head(pending).text)
        /\ pending' = Tail(pending) /\ input' = input /\ phase' = phase
    BY <1>2 DEF ParseArg
  <2>2. PICK done \in Seq(Settings) : /\ done \o pending = input.args
                                      /\ \A n \in Names : config[n] = Value(n, Texts(done, n))
    BY <1>0, <2>1 DEF ReadInv
  <2> DEFINE more == Append(done, Head(pending))
  <2>3. more \in Seq(Settings) /\ more \o pending' = input'.args
    <3>1. pending \in Seq(Settings) /\ Head(pending) \in Settings
      BY <1>0, <2>1, PendingTypes DEF TypeOK
    <3>2. Append(done, Head(pending)) \o Tail(pending) = done \o pending
      BY <2>1, <3>1, HeadMoves
    <3> QED
      BY <2>1, <2>2, <3>1, <3>2, AppendProperties
  <2>4. ASSUME NEW n \in Names
        PROVE  config'[n] = Value(n, Texts(more, n))
    <3>1. /\ <<>> \in Seq(Seq(Chars))
          /\ Texts(done, n) \in Seq(Seq(Chars)) /\ Texts(more, n) \in Seq(Seq(Chars))
      <4>1. done \in Seq(Settings) /\ more \in Seq(Settings)
        BY <2>3
      <4> HIDE DEF more
      <4> QED
        BY <1>0, <4>1, BeforeTypes
    <3>2. <<>> \o Texts(done, n) = Texts(done, n) /\ <<>> \o Texts(more, n) = Texts(more, n)
      BY <3>1, ConcatEmptySeq
    <3>3. config[n] = Value(n, <<>> \o Texts(done, n))
      BY <2>2, <3>2
    <3>4. config'[n] = Value(n, <<>> \o Texts(more, n))
      BY <1>0, <2>1, <3>1, <3>3, OneMore DEF IsRead
    <3> QED
      BY <3>2, <3>4
  <2> HIDE DEF more
  <2>5. \E d \in Seq(Settings) : /\ d \o pending' = input'.args
                                /\ \A n \in Names : config'[n] = Value(n, Texts(d, n))
    BY <2>3, <2>4
  <2> QED
    BY <2>1, <2>5 DEF ReadInv
<1>3. CASE ArgsParsed
  <2>1. phase = "args" /\ phase' = "options" /\ pending = <<>> /\ process' = process /\ input' = input
    BY <1>3 DEF ArgsParsed, Goto
  <2> SUFFICES ASSUME process = "slurmstepd"
               PROVE  \E done \in Seq(Settings) :
                        /\ done \o pending' = LastGiven(input.opts)
                        /\ \A n \in Names : config'[n] = Value(n, BeforeOptions(n) \o Texts(done, n))
    BY <2>1 DEF ReadInv, BeforeOptions, EnvTexts, InEnv
  <2>2. /\ pending' = LastGiven(input.opts)
        /\ \A n \in Names : config'[n] = IF InEnv(n) THEN Reread(n, input.env[n], config[n]) ELSE config[n]
    BY <1>3 DEF ArgsParsed, Reread
  <2>3. \A n \in Names : config[n] = Value(n, Texts(input.args, n))
    <3>1. PICK done \in Seq(Settings) : /\ done \o pending = input.args
                                        /\ \A n \in Names : config[n] = Value(n, Texts(done, n))
      BY <1>0, <2>1 DEF ReadInv
    <3>2. done = input.args
      BY <2>1, <3>1, ConcatEmptySeq
    <3> QED
      BY <3>1, <3>2
  <2>4. ASSUME NEW n \in Names
        PROVE  config'[n] = Value(n, BeforeOptions(n) \o Texts(<<>>, n))
    <3> DEFINE t == Texts(input.args, n)
               e == input.env[n]
    <3>1. t \in Seq(Seq(Chars)) /\ (InEnv(n) => e \in Seq(Chars)) /\ BeforeOptions(n) \in Seq(Seq(Chars))
      BY <1>0, BeforeTypes
    <3>2. BeforeOptions(n) \o Texts(<<>>, n) = BeforeOptions(n)
      BY <3>1, ValueEmpty, ConcatEmptySeq
    <3>3. config[n] = Value(n, t)
      BY <2>3
    <3>4. BeforeOptions(n) = t \o (IF InEnv(n) THEN <<e>> ELSE <<>>)
      BY DEF BeforeOptions, EnvTexts
    <3> HIDE DEF t, e
    <3>5. CASE InEnv(n)
      <4>1. BeforeOptions(n) = Append(t, e)
        BY <3>1, <3>4, <3>5, AppendIsConcat
      <4>2. Value(n, Append(t, e)) = Reread(n, e, Value(n, t))
        BY <3>1, <3>5, ValueAppend
      <4> QED
        BY <2>2, <3>2, <3>3, <3>5, <4>1, <4>2 DEF e
    <3>6. CASE ~InEnv(n)
      <4>1. BeforeOptions(n) = t
        BY <3>1, <3>4, <3>6, ConcatEmptySeq
      <4> QED
        BY <2>2, <3>2, <3>3, <3>6, <4>1
    <3> QED
      BY <3>5, <3>6
  <2>5. <<>> \in Seq(Settings) /\ <<>> \o pending' = LastGiven(input.opts)
    BY <1>0, <2>2, InputTypes, ConcatEmptySeq
  <2> QED
    BY <2>4, <2>5
<1> QED
  BY <1>1, <1>2, <1>3

\* The options, and what the hooks find.
LEMMA OptionsRead ==
  ASSUME ConfigInv, ParseOption \/ UserInit
  PROVE  ReadInv'
<1>0. TypeOK /\ ReadInv
  BY DEF ConfigInv
<1>1. CASE ParseOption
  <2>1. /\ phase = "options" /\ pending # <<>> /\ Parse(Head(pending).name, Head(pending).text)
        /\ (pending' = Tail(pending) /\ phase' = phase) \/ phase' = "refused"
        /\ input' = input /\ process' = process
    BY <1>1 DEF ParseOption
  <2> SUFFICES ASSUME process = "slurmstepd", pending' = Tail(pending)
               PROVE  \E done \in Seq(Settings) :
                        /\ done \o pending' = LastGiven(input.opts)
                        /\ \A n \in Names : config'[n] = Value(n, BeforeOptions(n) \o Texts(done, n))
    BY <2>1 DEF ReadInv, BeforeOptions, EnvTexts, InEnv
  <2>2. PICK done \in Seq(Settings) :
          /\ done \o pending = LastGiven(input.opts)
          /\ \A n \in Names : config[n] = Value(n, BeforeOptions(n) \o Texts(done, n))
    BY <1>0, <2>1 DEF ReadInv
  <2> DEFINE more == Append(done, Head(pending))
  <2>3. more \in Seq(Settings) /\ more \o pending' = LastGiven(input.opts)
    <3>1. pending \in Seq(Settings) /\ Head(pending) \in Settings
      BY <1>0, <2>1, PendingTypes DEF TypeOK
    <3>2. Append(done, Head(pending)) \o Tail(pending) = done \o pending
      BY <2>1, <3>1, HeadMoves
    <3> QED
      BY <2>1, <2>2, <3>1, <3>2, AppendProperties
  <2>4. \A n \in Names : config'[n] = Value(n, BeforeOptions(n) \o Texts(more, n))
    BY <1>0, <2>1, <2>2, BeforeTypes, OneMore DEF IsRead
  <2> HIDE DEF more
  <2> QED
    BY <2>3, <2>4
<1>2. CASE UserInit
  <2>1. /\ process = "slurmstepd" /\ phase = "options" /\ pending = <<>>
        /\ phase' \in {"job-dir", "ready"} /\ config' = config /\ input' = input
    BY <1>2 DEF UserInit
  <2>2. PICK done \in Seq(Settings) :
          /\ done \o pending = LastGiven(input.opts)
          /\ \A n \in Names : config[n] = Value(n, BeforeOptions(n) \o Texts(done, n))
    BY <1>0, <2>1 DEF ReadInv
  <2>3. done = LastGiven(input.opts)
    BY <2>1, <2>2, ConcatEmptySeq
  <2>4. \A n \in Names : config[n] = Value(n, Given(n))
    BY <2>2, <2>3 DEF Given, BeforeOptions, EnvTexts, Texts
  <2> QED
    BY <2>1, <2>4 DEF ReadInv, Given, InEnv
<1> QED
  BY <1>1, <1>2

\* Every step keeps what has been read.
LEMMA ReadKeeps ==
  ASSUME ConfigInv, [Next]_vars
  PROVE  ReadInv'
<1>1. CASE SpankInit \/ ParseArg \/ ArgsParsed
  BY <1>1, ArgsRead
<1>2. CASE ParseOption \/ UserInit
  BY <1>2, OptionsRead
<1>3. CASE RegisterFails \/ Launch \/ RenderFails
  BY <1>3 DEF RegisterFails, Launch, RenderFails, Goto, ReadInv
<1>4. CASE RenderLoop \/ JobDirRendered \/ TaskInit \/ StepDirRendered \/ UNCHANGED vars
  <2>1. /\ UNCHANGED <<input, process, pending, config>>
        /\ phase' = phase \/ {phase, phase'} \subseteq {"job-dir", "task-init", "step-dir", "ready"}
    BY <1>4 DEF RenderLoop, JobDirRendered, TaskInit, StepDirRendered, vars, Goto
  <2>2. ReadInv
    BY DEF ConfigInv
  <2> QED
    BY <2>1, <2>2 DEF ReadInv, BeforeOptions, EnvTexts, Given, InEnv
<1> QED
  BY <1>1, <1>2, <1>3, <1>4 DEF Next

\* A parser leaves the interval alone or stores a number in range.
LEMMA ParseInterval ==
  ASSUME TypeOK, NEW name, NEW text \in Seq(Chars), Parse(name, text), IsUint(config[Interval])
  PROVE  IsUint(config'[Interval])
<1>1. config = [n \in Names |-> config[n]] /\ Interval \in Names
  BY DEF TypeOK, Names
<1>2. CASE name = Interval /\ Writes(name, text)
  <2>1. config'[Interval] = Stored(Interval, text)
    BY <1>1, <1>2 DEF Parse
  <2> QED
    BY <1>2, <2>1, StoredIsUint
<1>3. CASE ~(name = Interval /\ Writes(name, text))
  <2>1. config'[Interval] = config[Interval]
    BY <1>1, <1>3 DEF Parse
  <2> QED
    BY <2>1
<1> QED
  BY <1>2, <1>3

\* Every step keeps it a number in range.
LEMMA IntervalKeeps ==
  ASSUME ConfigInv, [Next]_vars
  PROVE  IntervalInv'
<1>0. TypeOK /\ IntervalInv
  BY DEF ConfigInv
<1>1. CASE SpankInit
  <2>1. config'[Interval] = DefaultInterval
    BY <1>1 DEF SpankInit, Defaults, Names, Interval, PathNames
  <2> QED
    BY <2>1, DefaultAssumption DEF IntervalInv
<1>2. CASE ParseArg \/ ParseOption
  <2>1. /\ pending # <<>> /\ Parse(Head(pending).name, Head(pending).text)
        /\ phase \in {"args", "options"}
    BY <1>2 DEF ParseArg, ParseOption
  <2>2. Head(pending).text \in Seq(Chars)
    BY <1>0, <2>1, PendingTypes
  <2>3. IsUint(config[Interval])
    BY <1>0, <2>1 DEF IntervalInv, Configured
  <2> QED
    BY <1>0, <2>1, <2>2, <2>3, ParseInterval DEF IntervalInv
<1>3. CASE ArgsParsed
  <2>1. IsUint(config[Interval]) /\ Interval \in Names
    BY <1>0, <1>3 DEF ArgsParsed, Goto, IntervalInv, Configured, Names
  <2>2. \/ config' = config
        \/ config'[Interval] = IF InEnv(Interval) /\ Writes(Interval, input.env[Interval])
                               THEN Stored(Interval, input.env[Interval]) ELSE config[Interval]
    BY <1>3, <2>1 DEF ArgsParsed
  <2>3. InEnv(Interval) => input.env[Interval] \in Seq(Chars)
    BY <1>0, <2>1, BeforeTypes
  <2> QED
    BY <2>1, <2>2, <2>3, StoredIsUint DEF IntervalInv
<1>4. CASE RegisterFails \/ Launch
  BY <1>4 DEF RegisterFails, Launch, Goto, IntervalInv, Configured
<1>5. CASE UserInit \/ RenderLoop \/ JobDirRendered \/ TaskInit \/ StepDirRendered \/ RenderFails
             \/ UNCHANGED vars
  <2>1. config' = config /\ (Configured' => Configured)
    BY <1>5 DEF UserInit, RenderLoop, JobDirRendered, TaskInit, StepDirRendered, RenderFails, vars,
       Goto, Configured
  <2> QED
    BY <1>0, <2>1 DEF IntervalInv
<1> QED
  BY <1>1, <1>2, <1>3, <1>4, <1>5 DEF Next

\* Nothing is configured, rendered or refused at the beginning.
LEMMA InvInit == Init => ConfigInv
<1> SUFFICES ASSUME Init PROVE ConfigInv
  OBVIOUS
<1>1. R!RenderConstants /\ R!Init
  BY RenderAssumes DEF R!RenderConstants, Render!RenderConstants, R!Numerals, Render!Numerals, Init, R!Init, Render!Init
<1>2. Render!TypeOK /\ Rendered
  <2>1. R!RenderInv
    BY <1>1, R!RenderInit
  <2>2. status = "idle"
    BY DEF Init, Render!Init
  <2> QED
    BY <2>1, <2>2 DEF Rendered, R!LoopInv, R!RendersTemplate, R!RenderInv, R!TypeOK, R!Fits,
       Render!TypeOK, Render!Fits
<1>3. ConfigTypes
  BY ZeroTypes DEF Init, ConfigTypes
<1>4. pending \in Seq(Settings)
  BY DEF Init
<1> QED
  BY <1>2, <1>3, <1>4, ConfigAssumption
    DEF Init, ConfigInv, TypeOK, ConfigTypes, SettingsFit, Configured, DumpDirInv, OptionsInv,
        StepDirInv, ReadInv, IntervalInv, RefusedBySrun

\* slurm_spank_init and the arguments of plugstack.conf keep it.
LEMMA ArgsKeep ==
  ASSUME ConfigInv, Render!TypeOK', Rendered', StepDirInv', ReadInv', IntervalInv', SpankInit \/ ParseArg \/ ArgsParsed
  PROVE  ConfigInv'
<1> USE DEF ConfigInv
<1>1. CASE SpankInit
  <2>1. ConfigTypes' /\ TextsFit' /\ pending' \in Seq(Settings)
    <3>1. Defaults = [n \in Names |-> Defaults[n]]
      <4> DEFINE Default(n) == CASE n \in {"enabled", "dump-verbose"} -> TRUE
                                [] n = "prom-dump" -> FALSE
                                [] n \in PathNames -> DefaultPath
                                [] n = Interval -> DefaultInterval
      <4>1. Defaults = [n \in Names |-> Default(n)]
        BY DEF Defaults
      <4> HIDE DEF Default
      <4> QED
        BY <4>1
    <3>2. config' = Defaults /\ pending' = input.args
      BY <1>1 DEF SpankInit
    <3> QED
      BY <3>1, <3>2, DefaultsFit, InputTypes DEF ConfigTypes, TextsFit, ValueTypes, Size
  <2> QED
    BY <1>1, <2>1 DEF SpankInit, Goto, TypeOK, ConfigTypes, ValueTypes, SettingsFit, TextsFit,
       Configured, Size, DumpDirInv, OptionsInv, RefusedBySrun, Fine
<1>2. CASE ParseArg
  <2>1. ConfigTypes' /\ TextsFit'
    BY <1>2, PendingTypes, ParseKeeps
      DEF ParseArg, TypeOK, ConfigTypes, SettingsFit, TextsFit, Configured
  <2> QED
    BY <1>2, <2>1, PendingTypes DEF ParseArg, TypeOK, ConfigTypes, ValueTypes, SettingsFit, TextsFit,
       Configured, Size, DumpDirInv, OptionsInv, RefusedBySrun, Fine
<1>3. CASE ArgsParsed
  <2>1. ConfigTypes /\ TextsFit /\ phase = "args" /\ phase' = "options" /\ process' = process
        /\ input' = input /\ dumpDir' = dumpDir
    BY <1>3 DEF ArgsParsed, Goto, TypeOK, ConfigTypes, SettingsFit, TextsFit, Configured
  <2>2. ConfigTypes' /\ TextsFit'
    <3>1. CASE config' = config
      BY <2>1, <3>1 DEF ConfigTypes, TextsFit
    <3>2. CASE config' = [n \in Names |->
                IF InEnv(n) /\ Writes(n, input.env[n]) THEN Stored(n, input.env[n])
                ELSE config[n]]
      <4>1. \A n \in Names : InEnv(n) /\ Writes(n, input.env[n])
              => /\ Stored(n, input.env[n]) \in ValueTypes(n)
                 /\ n \notin BoolNames => Len(Stored(n, input.env[n])) \in 1..(Size(n) - 1)
        BY InputTypes, StoredTypes DEF InEnv
      <4>2. \A n \in Names : /\ config'[n] \in ValueTypes(n)
                             /\ n \notin BoolNames => Len(config'[n]) \in 1..(Size(n) - 1)
        BY <2>1, <3>2, <4>1 DEF ConfigTypes, TextsFit
      <4>3. config' = [n \in Names |-> config'[n]]
        BY <3>2
      <4> QED
        BY <4>2, <4>3 DEF ConfigTypes, TextsFit, ValueTypes, Size
    <3> QED
      BY <1>3, <3>1, <3>2 DEF ArgsParsed
  <2>3. /\ pending' \in Seq(Settings)
        /\ process = "srun" => pending' = input.opts
        /\ process = "slurmstepd" => pending' = LastGiven(input.opts)
    BY <1>3, InputTypes DEF ArgsParsed
  <2>4. OptionsInv'
    <3>1. CASE process = "srun"
      BY <2>1, <2>3, <3>1 DEF OptionsInv, RefusedBySrun
    <3>2. CASE process = "slurmstepd"
      <4>1. \A k \in DOMAIN input.opts : Fine(input.opts[k])
        BY <3>2 DEF OptionsInv
      <4>2. \A j \in DOMAIN LastGiven(input.opts) : Fine(LastGiven(input.opts)[j])
        BY <4>1, InputTypes, LastGivenTypes
      <4> QED
        BY <2>1, <2>3, <3>2, <4>1, <4>2 DEF OptionsInv, RefusedBySrun, Fine
    <3> QED
      BY <3>1, <3>2 DEF TypeOK
  <2> QED
    BY <2>1, <2>2, <2>3, <2>4 DEF TypeOK, ConfigTypes, ValueTypes, SettingsFit, TextsFit,
       Configured, Size, DumpDirInv
<1> QED
  BY <1>1, <1>2, <1>3

\* The option callbacks and the launch of the step keep it.
LEMMA OptionsKeep ==
  ASSUME ConfigInv, Render!TypeOK', Rendered', StepDirInv', ReadInv', IntervalInv', ParseOption \/ Launch
  PROVE  ConfigInv'
<1> USE DEF ConfigInv
<1>1. CASE ParseOption
  <2>1. /\ phase = "options" /\ process' = process /\ input' = input /\ dumpDir' = dumpDir
        /\ pending # <<>>
        /\ \/ Fine(Head(pending)) /\ pending' = Tail(pending) /\ phase' = phase
           \/ ~Fine(Head(pending)) /\ pending' = pending /\ phase' = "refused"
    BY <1>1 DEF ParseOption, Fine
  <2>2. ConfigTypes' /\ TextsFit'
    BY <1>1, <2>1, PendingTypes, ParseKeeps
      DEF ParseOption, TypeOK, ConfigTypes, SettingsFit, TextsFit, Configured
  <2>3. pending' \in Seq(Settings)
    BY <2>1, PendingTypes DEF TypeOK
  <2>4. OptionsInv'
    <3>1. CASE Fine(Head(pending)) /\ pending' = Tail(pending) /\ phase' = phase
      <4>1. ASSUME process = "srun", NEW k \in DOMAIN input.opts, ~Fine(input.opts[k])
            PROVE  \E i \in DOMAIN pending' : pending'[i] = input.opts[k]
        <5>1. PICK j \in DOMAIN pending : pending[j] = input.opts[k]
          BY <2>1, <4>1 DEF OptionsInv
        <5>2. j # 1
          BY <2>1, <3>1, <4>1, <5>1, PendingTypes
        <5> QED
          BY <2>1, <3>1, <5>1, <5>2, PendingTypes
      <4>2. ASSUME process = "slurmstepd", NEW j \in DOMAIN pending'
            PROVE  Fine(pending'[j])
        BY <2>1, <3>1, <4>2, PendingTypes DEF OptionsInv
      <4>3. process = "slurmstepd" => \A k \in DOMAIN input.opts : Fine(input.opts[k])
        BY DEF OptionsInv
      <4> QED
        BY <2>1, <3>1, <4>1, <4>2, <4>3 DEF OptionsInv, RefusedBySrun, Fine
    <3>2. CASE ~Fine(Head(pending)) /\ pending' = pending /\ phase' = "refused"
      <4>1. 1 \in DOMAIN pending /\ Head(pending) = pending[1]
        BY <2>1, HeadTailProperties, LenProperties, EmptySeq DEF TypeOK
      <4>2. process # "slurmstepd"
        BY <2>1, <3>2, <4>1 DEF OptionsInv
      <4> QED
        BY <2>1, <3>2, <4>2 DEF OptionsInv, RefusedBySrun, TypeOK
    <3> QED
      BY <2>1, <3>1, <3>2
  <2> QED
    BY <2>1, <2>2, <2>3, <2>4 DEF TypeOK, ConfigTypes, ValueTypes, SettingsFit, TextsFit,
       Configured, Size, DumpDirInv
<1>2. CASE Launch
  <2>1. /\ process = "srun" /\ phase = "options" /\ pending = <<>> /\ config' = Zero
        /\ process' = "slurmstepd" /\ phase' = "init"
        /\ input' = input /\ pending' = pending /\ dumpDir' = dumpDir
    BY <1>2 DEF Launch, Goto
  <2>2. ConfigTypes'
    BY <2>1, ZeroTypes DEF ConfigTypes, ValueTypes
  <2>3. OptionsInv'
    <3>1. \A k \in DOMAIN input.opts : Fine(input.opts[k])
      BY <2>1 DEF OptionsInv
    <3> QED
      BY <2>1, <3>1 DEF OptionsInv, RefusedBySrun, Fine
  <2> QED
    BY <2>1, <2>2, <2>3
      DEF TypeOK, ConfigTypes, ValueTypes, SettingsFit, Configured, DumpDirInv
<1> QED
  BY <1>1, <1>2

\* What leaves the configuration alone keeps it, the hooks with what they render.
LEMMA HooksKeep ==
  ASSUME ConfigInv, Render!TypeOK', Rendered', StepDirInv', ReadInv', IntervalInv',
         UNCHANGED <<input, process, pending, config>>,
         \/ UNCHANGED <<phase, dumpDir>>
         \/ phase' = "failed" /\ UNCHANGED dumpDir
         \/ /\ Configured
            /\ phase' \in {"job-dir", "task-init", "step-dir", "ready"}
            /\ dumpDir' = dumpDir \/ dumpDir' = output
  PROVE  ConfigInv'
<1>1. output \in Seq(Chars) /\ Len(output) < PathSize
  BY DEF ConfigInv, Rendered, Render!TypeOK, Render!Fits, TypeOK
<1>2. /\ dumpDir' = Unset \/ dumpDir' \in Seq(Chars)
      /\ dumpDir' # Unset => Len(dumpDir') < PathSize
  BY <1>1 DEF ConfigInv, TypeOK, DumpDirInv
<1>3. Configured' => Configured
  BY DEF Configured
<1>4. phase' = phase \/ phase' \in {"job-dir", "task-init", "step-dir", "ready", "failed"}
  OBVIOUS
<1>5. TypeOK' /\ SettingsFit' /\ DumpDirInv'
  BY <1>2, <1>3, <1>4
    DEF ConfigInv, TypeOK, ConfigTypes, ValueTypes, SettingsFit, Size, DumpDirInv
<1>6. OptionsInv'
  BY <1>4 DEF ConfigInv, OptionsInv, RefusedBySrun, Fine
<1> QED
  BY <1>5, <1>6 DEF ConfigInv

\* Every step keeps it.
LEMMA InvNext == ConfigInv /\ [Next]_vars => ConfigInv'
<1> SUFFICES ASSUME ConfigInv, [Next]_vars PROVE ConfigInv'
  OBVIOUS
<1>1. Render!TypeOK' /\ Rendered'
  BY UsesRenderStep, RenderKeeps DEF ConfigInv, TypeOK
<1>0. StepDirInv' /\ ReadInv' /\ IntervalInv'
  BY StepDirKeeps, ReadKeeps, IntervalKeeps
<1>2. CASE SpankInit \/ ParseArg \/ ArgsParsed
  BY <1>0, <1>1, <1>2, ArgsKeep
<1>3. CASE ParseOption \/ Launch
  BY <1>0, <1>1, <1>3, OptionsKeep
<1>4. CASE RegisterFails \/ UserInit \/ RenderLoop \/ JobDirRendered \/ TaskInit
             \/ StepDirRendered \/ RenderFails \/ UNCHANGED vars
  BY <1>0, <1>1, <1>4, HooksKeep DEF RegisterFails, UserInit, RenderLoop, JobDirRendered, TaskInit,
     StepDirRendered, RenderFails, vars, Goto, Configured
<1> QED
  BY <1>2, <1>3, <1>4 DEF Next

-----------------------------------------------------------------------------
\* The invariant holds.
THEOREM ConfigInvariant == Spec => []ConfigInv
BY InvInit, InvNext, PTL DEF Spec

\* The state keeps its types.
THEOREM TypeCorrect == Spec => []TypeOK
<1>1. ConfigInv => TypeOK
  BY DEF ConfigInv
<1> QED
  BY <1>1, ConfigInvariant, PTL

\* Each text of the configuration fits its buffer, whatever was rejected.
THEOREM SettingsAlwaysFit == Spec => []SettingsFit
<1>1. ConfigInv => SettingsFit
  BY DEF ConfigInv
<1> QED
  BY <1>1, ConfigInvariant, PTL

\* No slurmstepd refuses an option that its srun let pass.
THEOREM OnlySrunRefuses == Spec => []RefusedBySrun
<1>1. ConfigInv => RefusedBySrun
  BY DEF ConfigInv, OptionsInv
<1> QED
  BY <1>1, ConfigInvariant, PTL

\* What the hooks render fits their buffers.
THEOREM DumpDirAlwaysFits == Spec => []DumpDirFits
<1>1. ConfigInv => DumpDirFits
  BY DEF ConfigInv, Rendered, DumpDirFits
<1> QED
  BY <1>1, ConfigInvariant, PTL

\* The hooks' use of the renderer is a behavior of the renderer: it is called
\* between two calls only, with texts only.
THEOREM HooksUseRender == Spec => Render!Spec
<1>1. Init => Render!Init
  BY DEF Init
<1>2. ConfigInv /\ [Next]_vars => [Render!Next]_renderVars
  BY UsesRenderStep
<1> QED
  BY <1>1, <1>2, ConfigInvariant, PTL DEF Spec, Render!Spec, renderVars, Render!renderVars

\* A task starts with what the documentation makes of the dump directory of the
\* plugin's settings for its step, and no directory is too long for the hooks.
THEOREM TaskDirIsDocumented == Spec => []DumpDirExported
<1>1. ConfigInv => DumpDirExported
  BY DEF ConfigInv, DumpDirInv, StepDirInv, DumpDirExported
<1> QED
  BY <1>1, ConfigInvariant, PTL

\* What the hooks render, from whatever source, is rendered as documented.
THEOREM HooksRenderMeaning == Spec => []DumpDirMeant
<1>1. R!RendersTemplate => DumpDirMeant
  BY SameMeaning DEF R!RendersTemplate, DumpDirMeant, Render!RendersTemplate
<1>2. ConfigInv => DumpDirMeant
  BY <1>1 DEF ConfigInv, Rendered
<1> QED
  BY <1>2, ConfigInvariant, PTL

\* The job's directory is the step's as far as it goes.
THEOREM JobDirKeepsPlaceholders == Spec => []StepDirFromJobDir
<1>1. ASSUME ConfigInv PROVE StepDirFromJobDir
  <2>1. R!RenderConstants
    BY RenderAssumes DEF R!RenderConstants, Render!RenderConstants, R!Numerals, Render!Numerals
  <2>2. template \in Seq(Chars)
    BY <1>1 DEF ConfigInv, TypeOK, Render!TypeOK
  <2>3. R!Meaning(R!Meaning(template, FALSE), TRUE) = R!Meaning(template, TRUE)
    BY <2>1, <2>2, R!SecondPass
  <2>4. Render!Meaning(Render!Meaning(template, FALSE), TRUE) = Render!Meaning(template, TRUE)
    BY <2>3, SameMeaning
  <2>5. status = "rendered" /\ ~renderStep => output = Render!Meaning(template, FALSE)
    <3>1. status = "rendered" => output = R!Meaning(template, renderStep)
      BY <1>1 DEF ConfigInv, Rendered, R!RendersTemplate
    <3>2. renderStep \in BOOLEAN
      BY <1>1 DEF ConfigInv, TypeOK, Render!TypeOK
    <3> QED
      BY <3>1, <3>2, SameMeaning
  <2> QED
    BY <2>4, <2>5 DEF StepDirFromJobDir, Render!TwoPasses
<1> QED
  BY <1>1, ConfigInvariant, PTL

\* When the hooks begin, each setting is what the last text that was accepted
\* or cut makes of it: for any arguments, environment and options, of any length.
THEOREM LastSourceWins == Spec => []LastOneWins
<1>1. ConfigInv => LastOneWins
  BY DEF ConfigInv, ReadInv, LastOneWins, Value
<1> QED
  BY <1>1, ConfigInvariant, PTL

\* The interval is always a number in range, even if it is the rest of one that
\* was too long, and the parser of the environment refuses exactly the others.
THEOREM IntervalIsExact == Spec => []IntervalExact
<1>1. ASSUME ConfigInv PROVE IntervalExact
  <2> DEFINE text == input.env[Interval]
  <2>1. Configured => IsUint(config[Interval])
    BY <1>1 DEF ConfigInv, IntervalInv
  <2>2. Interval \in DOMAIN input.env => text \in Seq(Chars)
    BY <1>1, InputTypes DEF ConfigInv
  <2> HIDE DEF text
  <2>3. text \in Seq(Chars) /\ IsNumeral(text) => (UintFits(text) <=> DecimalValue(text) <= UintMax)
    BY ParserIsExact
  <2>4. text \in Seq(Chars) /\ text # <<>> => (Readable(Interval, text) <=> IsUint(text))
    BY <2>3 DEF Readable, IsUint, IsNumeral
  <2> QED
    BY <2>1, <2>2, <2>4 DEF IntervalExact, text
<1> QED
  BY <1>1, ConfigInvariant, PTL
=============================================================================
