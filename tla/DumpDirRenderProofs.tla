------------------------ MODULE DumpDirRenderProofs ------------------------
(* Theorems about DumpDirRender, for all texts, ids and buffer sizes. *)
EXTENDS DumpDirRender, DataLemmas

\* What a call is in between its steps.
RenderInv == TypeOK /\ Fits

\* A placeholder stands for a text.
LEMMA TextTypes ==
  ASSUME RenderConstants, NEW letter \in {"j", "s", "J"}
  PROVE  Text(letter) \in Seq(Chars)
<1>1. JobId \in Seq(Chars) /\ StepId \in Seq(Chars) /\ <<".">> \in Seq(Chars)
  BY DEF RenderConstants
<1>2. JobId \o <<".">> \o StepId \in Seq(Chars)
  BY <1>1, ConcatProperties
<1> QED
  BY <1>1, <1>2 DEF Text

\* An append keeps the bound of the buffer, or fails.
LEMMA PutKeeps ==
  ASSUME RenderConstants, RenderInv, NEW text \in Seq(Chars), NEW width \in Nat,
         next + width \in 1..(Len(template) + 1), Put(text, width)
  PROVE  RenderInv'
<1>1. Len(text) \in Nat /\ Len(output) \in Nat /\ OutputSize \in Nat
  BY LenProperties DEF RenderInv, TypeOK, RenderConstants
<1>2. template' = template /\ renderStep' = renderStep
  BY DEF Put
<1>3. CASE RoomFor(text)
  <2>1. output' = output \o text /\ next' = next + width /\ status' = status
    BY <1>3 DEF Put
  <2>2. output' \in Seq(Chars) /\ Len(output') = Len(output) + Len(text)
    BY <2>1, ConcatProperties DEF RenderInv, TypeOK
  <2> QED
    BY <1>1, <1>2, <1>3, <2>1, <2>2 DEF RenderInv, TypeOK, Fits, RoomFor
<1>4. CASE ~RoomFor(text)
  BY <1>2, <1>4 DEF Put, RenderInv, TypeOK, Fits
<1> QED
  BY <1>3, <1>4

\* An idle renderer satisfies the invariant.
LEMMA RenderInit == RenderConstants /\ Init => RenderInv
<1> SUFFICES ASSUME RenderConstants, Init PROVE RenderInv
  OBVIOUS
<1>1. template = <<>> /\ output = <<>> /\ next = 1 /\ renderStep = FALSE /\ status = "idle"
  BY DEF Init
<1>2. template \in Seq(Chars) /\ output \in Seq(Chars) /\ Len(template) = 0 /\ Len(output) = 0
  BY <1>1
<1>3. next \in 1..(Len(template) + 1) /\ 0 < OutputSize
  BY <1>1, <1>2 DEF RenderConstants
<1> QED
  BY <1>1, <1>2, <1>3 DEF RenderInv, TypeOK, Fits

\* Every step keeps it.
LEMMA RenderNext == RenderConstants /\ RenderInv /\ [Next]_renderVars => RenderInv'
<1> SUFFICES ASSUME RenderConstants, RenderInv, [Next]_renderVars PROVE RenderInv'
  OBVIOUS
<1>0. Len(template) \in Nat /\ next \in 1..(Len(template) + 1)
  BY LenProperties DEF RenderInv, TypeOK
<1>1. CASE Substitute
  <2>1. next < Len(template) /\ template[next + 1] \in {"j", "s", "J"}
    BY <1>1 DEF Substitute, AtPlaceholder, Letters
  <2>2. Text(template[next + 1]) \in Seq(Chars)
    BY <2>1, TextTypes
  <2>3. next + 2 \in 1..(Len(template) + 1)
    BY <1>0, <2>1
  <2> QED
    BY <1>1, <2>2, <2>3, PutKeeps DEF Substitute
<1>2. CASE Copy
  <2>1. next <= Len(template)
    BY <1>2 DEF Copy, Looping
  <2>2. next + 1 \in 1..(Len(template) + 1) /\ next \in 1..Len(template)
    BY <1>0, <2>1
  <2>3. template[next] \in Chars
    BY <2>2, ElementOfSeq DEF RenderInv, TypeOK
  <2>4. <<template[next]>> \in Seq(Chars)
    BY <2>3
  <2> QED
    BY <1>2, <2>2, <2>4, PutKeeps DEF Copy
<1>3. CASE Return
  BY <1>3 DEF Return, RenderInv, TypeOK, Fits
<1>4. ASSUME NEW text \in Templates, NEW forStep \in BOOLEAN, Call(text, forStep)
      PROVE  RenderInv'
  <2>1. text \in Seq(Chars) /\ Len(text) \in Nat
    BY LenProperties DEF RenderConstants
  <2>2. <<>> \in Seq(Chars) /\ Len(<<>>) = 0
    OBVIOUS
  <2> QED
    BY <1>4, <2>1, <2>2 DEF Call, RenderInv, TypeOK, Fits, RenderConstants
<1>5. CASE UNCHANGED renderVars
  BY <1>5 DEF renderVars, RenderInv, TypeOK, Fits
<1> QED
  BY <1>1, <1>2, <1>3, <1>4, <1>5 DEF Next, Loop

\* The state keeps its types.
THEOREM TypeCorrect == ASSUME RenderConstants PROVE Spec => []TypeOK
<1>1. RenderInv => TypeOK
  BY DEF RenderInv
<1> QED
  BY <1>1, RenderInit, RenderNext, PTL DEF Spec

\* The buffer always holds the text with its terminator.
THEOREM OutputFits == ASSUME RenderConstants PROVE Spec => []Fits
<1>1. RenderInv => Fits
  BY DEF RenderInv
<1> QED
  BY <1>1, RenderInit, RenderNext, PTL DEF Spec
-----------------------------------------------------------------------------
(* What is rendered, by induction over the template.                      *)

\* What each character of a template stands for.
Pieces(text, forStep) ==
  [k \in DOMAIN text |->
    IF Opens(text, forStep, k) THEN Text(text[k + 1])
    ELSE IF Opens(text, forStep, k - 1) THEN <<>>
    ELSE <<text[k]>>]

\* What the first k characters of a template stand for.
Meant(text, forStep, k) == Joins(Pieces(text, forStep))[k]

(***************************************************************************)
(* The loop has rendered what it has passed, and never stops between a "%" *)
(* and its letter.                                                         *)
(***************************************************************************)
LoopInv ==
  status = "rendering" =>
    /\ output = Meant(template, renderStep, next - 1)
    /\ ~Opens(template, renderStep, next - 1)

\* Each character stands for a text.
LEMMA PiecesTypes ==
  ASSUME RenderConstants, NEW text \in Seq(Chars), NEW forStep \in BOOLEAN
  PROVE  Pieces(text, forStep) \in Seq(Seq(Chars)) /\ Len(Pieces(text, forStep)) = Len(text)
<1>1. Len(text) \in Nat /\ DOMAIN text = 1..Len(text) /\ \A k \in 1..Len(text) : text[k] \in Chars
  BY LenProperties, ElementOfSeq
<1> DEFINE piece(k) == IF Opens(text, forStep, k) THEN Text(text[k + 1])
                       ELSE IF Opens(text, forStep, k - 1) THEN <<>>
                       ELSE <<text[k]>>
<1>2. ASSUME NEW k \in 1..Len(text)
      PROVE  piece(k) \in Seq(Chars)
  <2>1. Opens(text, forStep, k) => text[k + 1] \in {"j", "s", "J"}
    BY DEF Opens
  <2>2. Opens(text, forStep, k) => Text(text[k + 1]) \in Seq(Chars)
    BY <2>1, TextTypes
  <2>3. <<text[k]>> \in Seq(Chars) /\ <<>> \in Seq(Chars)
    BY <1>1
  <2> QED
    BY <2>2, <2>3
<1>3. Pieces(text, forStep) = [k \in 1..Len(text) |-> piece(k)]
  BY <1>1 DEF Pieces
<1> HIDE DEF piece
<1>4. Pieces(text, forStep) \in [1..Len(text) -> Seq(Chars)]
  BY <1>2, <1>3
<1> QED
  BY <1>1, <1>4, IsASeq, LenProperties

\* The meaning of a template is that of all of its characters.
LEMMA MeaningIsMeant ==
  ASSUME RenderConstants, NEW text \in Seq(Chars), NEW forStep \in BOOLEAN
  PROVE  /\ Meaning(text, forStep) = Meant(text, forStep, Len(text))
         /\ Meaning(text, forStep) \in Seq(Chars)
<1>1. Meaning(text, forStep) = FlattenSeq(Pieces(text, forStep))
  BY DEF Meaning, Pieces
<1> QED
  BY <1>1, PiecesTypes, FlattenIsJoins DEF Meant

\* One character more.
LEMMA MeantStep ==
  ASSUME RenderConstants, NEW text \in Seq(Chars), NEW forStep \in BOOLEAN,
         NEW k \in 1..Len(text)
  PROVE  /\ Meant(text, forStep, 0) = <<>>
         /\ Meant(text, forStep, k) = Meant(text, forStep, k - 1) \o Pieces(text, forStep)[k]
         /\ Meant(text, forStep, k - 1) \in Seq(Chars) /\ Meant(text, forStep, k) \in Seq(Chars)
         /\ Pieces(text, forStep)[k] \in Seq(Chars)
         /\ Len(Meant(text, forStep, k)) <= Len(Meaning(text, forStep))
<1> DEFINE seqs == Pieces(text, forStep)
           n == Len(text)
<1>1. seqs \in Seq(Seq(Chars)) /\ Len(seqs) = n /\ n \in Nat
  BY PiecesTypes, LenProperties
<1>2. Meaning(text, forStep) = FlattenSeq(seqs)
  BY DEF Meaning, Pieces
<1>3. k \in 1..n
  OBVIOUS
<1> HIDE DEF seqs, n
<1>4. k \in 1..Len(seqs) /\ k \in 0..Len(seqs) /\ k - 1 \in 0..Len(seqs)
  BY <1>1, <1>3
<1>5. /\ Joins(seqs)[0] = <<>> /\ Joins(seqs)[k] = Joins(seqs)[k - 1] \o seqs[k]
      /\ Joins(seqs)[k - 1] \in Seq(Chars) /\ Joins(seqs)[k] \in Seq(Chars)
  BY <1>1, <1>4, JoinsEquation
<1>6. seqs[k] \in Seq(Chars)
  BY <1>1, <1>4, ElementOfSeq
<1>7. Len(Joins(seqs)[k]) <= Len(FlattenSeq(seqs))
  BY <1>1, <1>4, JoinsGrow
<1> QED
  BY <1>2, <1>5, <1>6, <1>7 DEF Meant, seqs

\* The code finds a placeholder exactly where the template has one.
LEMMA AtOpens ==
  ASSUME RenderConstants, TypeOK, next <= Len(template)
  PROVE  AtPlaceholder <=> Opens(template, renderStep, next)
<1>1. Len(template) \in Nat /\ DOMAIN template = 1..Len(template) /\ next \in 1..Len(template)
  BY LenProperties DEF TypeOK
<1>2. renderStep \in BOOLEAN
  BY DEF TypeOK
<1> QED
  BY <1>1, <1>2 DEF AtPlaceholder, Letters, Opens
\* An append of what the next width characters stand for keeps the loop
\* invariant, and fails only if the whole does not fit.
LEMMA PutMeans ==
  ASSUME RenderConstants, TypeOK, status = "rendering",
         output = Meant(template, renderStep, next - 1),
         NEW text \in Seq(Chars), NEW width \in {1, 2},
         next + width - 1 \in 1..Len(template),
         Pieces(template, renderStep)[next] = text,
         Meant(template, renderStep, next + width - 1) = output \o text,
         ~Opens(template, renderStep, next + width - 1),
         Put(text, width)
  PROVE  LoopInv' /\ RendersTemplate'
<1>0. /\ template \in Seq(Chars) /\ renderStep \in BOOLEAN /\ next \in Nat /\ output \in Seq(Chars)
      /\ Len(template) \in Nat
  BY LenProperties DEF TypeOK
<1>1. template' = template /\ renderStep' = renderStep
  BY DEF Put
<1>2. CASE RoomFor(text)
  <2>1. output' = output \o text /\ next' = next + width /\ status' = "rendering"
    BY <1>2 DEF Put
  <2>2. next' - 1 = next + width - 1
    BY <1>0, <2>1
  <2> QED
    BY <1>1, <2>1, <2>2 DEF LoopInv, RendersTemplate
<1>3. CASE ~RoomFor(text)
  <2>1. status' = "failed" /\ output' = output
    BY <1>3 DEF Put
  <2>2. Len(Meant(template, renderStep, next + width - 1)) <= Len(Meaning(template, renderStep))
    BY <1>0, MeantStep
  <2>3. Len(output \o text) = Len(output) + Len(text)
    BY <1>0, ConcatProperties
  <2>4. Len(output) + Len(text) >= OutputSize
    <3>1. Len(output) \in Nat /\ Len(text) \in Nat /\ OutputSize \in Nat
      BY <1>0, LenProperties DEF RenderConstants
    <3> QED
      BY <1>3, <3>1 DEF RoomFor
  <2>5. Len(Meaning(template, renderStep)) \in Nat
    BY <1>0, MeaningIsMeant, LenProperties
  <2>6. Len(Meaning(template, renderStep)) >= OutputSize
    <3>1. Len(output) \in Nat /\ Len(text) \in Nat /\ OutputSize \in Nat
      BY <1>0, LenProperties DEF RenderConstants
    <3> QED
      BY <2>2, <2>3, <2>4, <2>5, <3>1
  <2> QED
    BY <1>1, <2>1, <2>6 DEF LoopInv, RendersTemplate, Meaning, Opens, Text
<1> QED
  BY <1>2, <1>3

\* A placeholder is replaced by its text, once.
LEMMA SubstituteMeans ==
  ASSUME RenderConstants, TypeOK, LoopInv, Substitute
  PROVE  LoopInv' /\ RendersTemplate'
<1>1. /\ template \in Seq(Chars) /\ renderStep \in BOOLEAN /\ status = "rendering"
      /\ next \in 1..Len(template) /\ Len(template) \in Nat /\ DOMAIN template = 1..Len(template)
  BY LenProperties DEF TypeOK, Substitute, Looping
<1>2. AtPlaceholder /\ Put(Text(template[next + 1]), 2)
  BY DEF Substitute
<1>3. Opens(template, renderStep, next)
  BY <1>1, <1>2, AtOpens
<1>4. next + 1 \in 1..Len(template) /\ template[next + 1] \in {"j", "s", "J"}
  BY <1>1, <1>3 DEF Opens
<1>5. ~Opens(template, renderStep, next + 1) /\ next \in DOMAIN template /\ next + 1 \in DOMAIN template
  BY <1>1, <1>4 DEF Opens
<1>6. Pieces(template, renderStep)[next] = Text(template[next + 1])
  BY <1>3, <1>5 DEF Pieces
<1>7. (next + 1) - 1 = next
  BY <1>1
<1>8. Pieces(template, renderStep)[next + 1] = <<>>
  BY <1>3, <1>5, <1>7 DEF Pieces
<1>9. output = Meant(template, renderStep, next - 1)
  BY <1>1 DEF LoopInv
<1>10. Meant(template, renderStep, next) = output \o Text(template[next + 1])
  BY <1>1, <1>6, <1>9, MeantStep
<1>11. /\ Meant(template, renderStep, next + 1) = Meant(template, renderStep, next) \o <<>>
       /\ Meant(template, renderStep, next) \in Seq(Chars)
  BY <1>1, <1>4, <1>7, <1>8, MeantStep
<1>12. Meant(template, renderStep, next + 1) = output \o Text(template[next + 1])
  BY <1>10, <1>11, ConcatEmptySeq
<1>13. next + 2 - 1 = next + 1
  BY <1>1
<1>14. Text(template[next + 1]) \in Seq(Chars)
  BY <1>4, TextTypes
<1> QED
  BY <1>1, <1>2, <1>4, <1>5, <1>6, <1>9, <1>12, <1>13, <1>14, PutMeans

\* Any other character is copied.
LEMMA CopyMeans ==
  ASSUME RenderConstants, TypeOK, LoopInv, Copy
  PROVE  LoopInv' /\ RendersTemplate'
<1>1. /\ template \in Seq(Chars) /\ renderStep \in BOOLEAN /\ status = "rendering"
      /\ next \in 1..Len(template) /\ Len(template) \in Nat /\ DOMAIN template = 1..Len(template)
  BY LenProperties DEF TypeOK, Copy, Looping
<1>2. ~AtPlaceholder /\ Put(<<template[next]>>, 1)
  BY DEF Copy
<1>3. ~Opens(template, renderStep, next)
  BY <1>1, <1>2, AtOpens
<1>4. output = Meant(template, renderStep, next - 1) /\ ~Opens(template, renderStep, next - 1)
  BY <1>1 DEF LoopInv
<1>5. Pieces(template, renderStep)[next] = <<template[next]>>
  BY <1>1, <1>3, <1>4 DEF Pieces
<1>6. Meant(template, renderStep, next) = output \o <<template[next]>>
  BY <1>1, <1>4, <1>5, MeantStep
<1>7. next + 1 - 1 = next
  BY <1>1
<1>8. <<template[next]>> \in Seq(Chars)
  BY <1>1, ElementOfSeq
<1> QED
  BY <1>1, <1>2, <1>3, <1>4, <1>5, <1>6, <1>7, <1>8, PutMeans

\* Every step keeps the loop invariant and renders what is meant.
LEMMA MeaningNext ==
  RenderConstants /\ TypeOK /\ LoopInv /\ RendersTemplate /\ [Next]_renderVars
    => LoopInv' /\ RendersTemplate'
<1> SUFFICES ASSUME RenderConstants, TypeOK, LoopInv, RendersTemplate, [Next]_renderVars
             PROVE  LoopInv' /\ RendersTemplate'
  OBVIOUS
<1>1. CASE Substitute
  BY <1>1, SubstituteMeans
<1>2. CASE Copy
  BY <1>2, CopyMeans
<1>3. CASE Return
  <2>1. template \in Seq(Chars) /\ renderStep \in BOOLEAN /\ Len(template) \in Nat
    BY LenProperties DEF TypeOK
  <2>2. next - 1 = Len(template)
    BY <1>3, <2>1 DEF Return, TypeOK
  <2>3. output = Meaning(template, renderStep)
    BY <1>3, <2>1, <2>2, MeaningIsMeant DEF LoopInv, Return
  <2>4. status' = "rendered" /\ output' = output /\ template' = template /\ renderStep' = renderStep
    BY <1>3 DEF Return
  <2> QED
    BY <2>3, <2>4 DEF LoopInv, RendersTemplate, Meaning, Opens, Text
<1>4. ASSUME NEW text \in Templates, NEW forStep \in BOOLEAN, Call(text, forStep)
      PROVE  LoopInv' /\ RendersTemplate'
  <2>1. text \in Seq(Chars) /\ DOMAIN text = 1..Len(text) /\ Len(text) \in Nat
    BY LenProperties DEF RenderConstants
  <2>2. /\ status' = "rendering" /\ output' = <<>> /\ template' = text /\ renderStep' = forStep
        /\ next' = 1
    BY <1>4 DEF Call
  <2>3. ~Opens(text, forStep, 0)
    BY <2>1 DEF Opens
  <2>4. Meant(text, forStep, 0) = <<>>
    BY <2>1, PiecesTypes, JoinsEquation DEF Meant
  <2>5. 1 - 1 = 0
    OBVIOUS
  <2> QED
    BY <2>2, <2>3, <2>4, <2>5 DEF LoopInv, RendersTemplate
<1>5. CASE UNCHANGED renderVars
  BY <1>5 DEF renderVars, LoopInv, RendersTemplate, Meant, Pieces, Meaning, Opens, Text
<1> QED
  BY <1>1, <1>2, <1>3, <1>4, <1>5 DEF Next, Loop

(***************************************************************************)
(* A call that succeeds has rendered the template as documented, and a     *)
(* call fails only if the result would not fit: for every template, and    *)
(* whatever the ids are.                                                   *)
(***************************************************************************)
THEOREM RenderingIsMeaning == ASSUME RenderConstants PROVE Spec => []RendersTemplate
<1>1. Init => LoopInv /\ RendersTemplate
  BY DEF Init, LoopInv, RendersTemplate
<1>2. RenderInv => TypeOK
  BY DEF RenderInv
<1> QED
  BY <1>1, <1>2, RenderInit, RenderNext, MeaningNext, PTL DEF Spec
-----------------------------------------------------------------------------
(* The second pass, by induction over the template once more.             *)

\* The letters of a step's placeholders.
StepLetters == {"j", "s", "J"}

\* The text is cut off after the "%" of a placeholder, if a letter follows.
Halfway(text) == text # <<>> /\ text[Len(text)] = "%"

(***************************************************************************)
(* What one more character does to the meaning of a text: nothing to what  *)
(* was there before, unless it makes a placeholder of the last "%".        *)
(***************************************************************************)
LEMMA MeaningAppend ==
  ASSUME RenderConstants, NEW text \in Seq(Chars), NEW c \in Chars, NEW n \in Nat, n = Len(text)
  PROVE  /\ Meant(Append(text, c), TRUE, n)
              = IF Halfway(text) /\ c \in StepLetters
                THEN Meant(text, TRUE, n - 1) \o Text(c) ELSE Meaning(text, TRUE)
         /\ Meaning(Append(text, c), TRUE)
              = IF Halfway(text) /\ c \in StepLetters
                THEN Meant(text, TRUE, n - 1) \o Text(c) ELSE Meaning(text, TRUE) \o <<c>>
<1> DEFINE more == Append(text, c)
           m == n + 1
<1>1. /\ more \in Seq(Chars) /\ Len(more) = m /\ n \in Nat
      /\ \A i \in 1..n : more[i] = text[i]
      /\ more[m] = c /\ DOMAIN more = 1..m /\ DOMAIN text = 1..n
  BY AppendProperties, LenProperties
<1>2. Halfway(text) <=> n # 0 /\ text[n] = "%"
  BY EmptySeq DEF Halfway
<1> HIDE DEF more
<1> DEFINE a == Pieces(more, TRUE)
           b == Pieces(text, TRUE)
<1>3. /\ a \in Seq(Seq(Chars)) /\ Len(a) = m
      /\ b \in Seq(Seq(Chars)) /\ Len(b) = n
  BY <1>1, PiecesTypes
<1>4. \A i \in 1..n : i # n => Opens(more, TRUE, i) = Opens(text, TRUE, i)
  BY <1>1 DEF Opens
<1>5. ~Opens(more, TRUE, m) /\ ~Opens(text, TRUE, n) /\ ~Opens(more, TRUE, 0)
  BY <1>1 DEF Opens
<1>6. Opens(more, TRUE, n) <=> Halfway(text) /\ c \in StepLetters
  BY <1>1, <1>2 DEF Opens, StepLetters
<1>7. \A i \in 1..n : i # n => a[i] = b[i]
  <2> SUFFICES ASSUME NEW i \in 1..n, i # n PROVE a[i] = b[i]
    OBVIOUS
  <2>1. i \in DOMAIN more /\ i \in DOMAIN text /\ i + 1 \in 1..n /\ more[i] = text[i]
        /\ more[i + 1] = text[i + 1]
    BY <1>1
  <2>2. Opens(more, TRUE, i - 1) = Opens(text, TRUE, i - 1)
    <3>1. CASE i = 1
      BY <1>1, <3>1 DEF Opens
    <3>2. CASE i # 1
      <4>1. i - 1 \in 1..n /\ i - 1 # n
        BY <3>2
      <4> QED
        BY <1>4, <4>1
    <3> QED
      BY <3>1, <3>2
  <2> QED
    BY <1>4, <2>1, <2>2 DEF Pieces
<1>8. m \in 1..m /\ m - 1 = n /\ n <= m /\ n - 1 <= n /\ n <= n
  BY <1>1
<1>9. a[m] = IF Opens(more, TRUE, n) THEN <<>> ELSE <<c>>
  BY <1>1, <1>5, <1>8 DEF Pieces
<1>10. /\ Meant(more, TRUE, m) = Meant(more, TRUE, n) \o a[m]
       /\ Meant(more, TRUE, n) \in Seq(Chars)
       /\ Meaning(more, TRUE) = Meant(more, TRUE, m)
       /\ Meaning(text, TRUE) = Meant(text, TRUE, n)
  <2> HIDE DEF m
  <2>1. Meant(more, TRUE, m) = Meant(more, TRUE, m - 1) \o a[m] /\ Meant(more, TRUE, m - 1) \in Seq(Chars)
    BY <1>1, <1>8, MeantStep
  <2>2. Meaning(more, TRUE) = Meant(more, TRUE, m) /\ Meaning(text, TRUE) = Meant(text, TRUE, n)
    BY <1>1, MeaningIsMeant
  <2> QED
    BY <1>8, <2>1, <2>2
<1>11. CASE ~(Halfway(text) /\ c \in StepLetters)
  <2>1. \A i \in 1..n : a[i] = b[i]
    <3> HIDE DEF a, b
    <3> SUFFICES ASSUME n # 0 PROVE a[n] = b[n]
      BY <1>7
    <3>1. n \in DOMAIN more /\ n \in DOMAIN text /\ more[n] = text[n]
      BY <1>1
    <3>2. Opens(more, TRUE, n - 1) = Opens(text, TRUE, n - 1)
      <4>1. CASE n = 1
        BY <1>1, <4>1 DEF Opens
      <4>2. CASE n # 1
        <5>1. n - 1 \in 1..n /\ n - 1 # n
          BY <1>1, <4>2
        <5> QED
          BY <1>4, <5>1
      <4> QED
        BY <4>1, <4>2
    <3>3. ~Opens(more, TRUE, n)
      BY <1>6, <1>11
    <3>4. a[n] = IF Opens(more, TRUE, n - 1) THEN <<>> ELSE <<more[n]>>
      BY <3>1, <3>3 DEF a, Pieces
    <3>5. b[n] = IF Opens(text, TRUE, n - 1) THEN <<>> ELSE <<text[n]>>
      BY <1>5, <3>1 DEF b, Pieces
    <3> QED
      BY <3>1, <3>2, <3>4, <3>5
  <2> HIDE DEF a, b, m
  <2>2. Meant(more, TRUE, n) = Meant(text, TRUE, n)
    <3>1. Joins(a)[n] = Joins(b)[n]
      BY <1>1, <1>3, <1>8, <2>1, JoinsSame
    <3> QED
      BY <3>1 DEF Meant, a, b
  <2> QED
    BY <1>6, <1>9, <1>10, <1>11, <2>2 DEF more
<1>12. CASE Halfway(text) /\ c \in StepLetters
  <2>1. n \in 1..n /\ n - 1 \in Nat /\ n - 1 <= m /\ \A i \in 1..(n - 1) : i \in 1..n /\ i # n
    BY <1>1, <1>2, <1>12
  <2>2. a[n] = Text(c)
    <3>1. n \in DOMAIN more /\ more[n + 1] = c
      BY <1>1, <2>1
    <3>2. Opens(more, TRUE, n)
      BY <1>6, <1>12
    <3> QED
      BY <3>1, <3>2 DEF Pieces
  <2>3. Text(c) \in Seq(Chars)
    BY <1>12, TextTypes DEF StepLetters
  <2> HIDE DEF b
  <2>4. Meant(more, TRUE, n) = Meant(more, TRUE, n - 1) \o a[n]
    <3>1. n \in 1..Len(more)
      BY <1>1, <2>1
    <3> QED
      BY <1>1, <3>1, MeantStep
  <2> HIDE DEF a, m
  <2>5. Meant(more, TRUE, n - 1) = Meant(text, TRUE, n - 1)
    <3> DEFINE l == n - 1
    <3>1. l \in Nat /\ l <= Len(a) /\ l <= Len(b) /\ \A i \in 1..l : a[i] = b[i]
      BY <1>3, <1>7, <1>8, <2>1
    <3> HIDE DEF l
    <3>2. Joins(a)[l] = Joins(b)[l]
      BY <1>3, <3>1, JoinsSame
    <3> QED
      BY <3>2 DEF Meant, a, b, l
  <2>6. Meant(more, TRUE, n) = Meant(text, TRUE, n - 1) \o Text(c)
    BY <2>2, <2>4, <2>5
  <2>7. Meant(more, TRUE, m) = Meant(more, TRUE, n)
    BY <1>6, <1>9, <1>10, <1>12, ConcatEmptySeq
  <2> QED
    BY <1>10, <1>12, <2>6, <2>7 DEF more
<1> QED
  BY <1>11, <1>12
(***************************************************************************)
(* A number that is appended to a text completes no placeholder and begins *)
(* none: this is where it matters that the job id is printed as a number.  *)
(***************************************************************************)
LEMMA NumeralAppend ==
  ASSUME RenderConstants, NEW text \in Seq(Chars), NEW id \in Seq(Chars) \cap Numerals
  PROVE  /\ Meaning(text \o id, TRUE) = Meaning(text, TRUE) \o id
         /\ text \o id \in Seq(Chars)
         /\ ~Halfway(text \o id)
<1> DEFINE l == Len(id)
           prefix == [i \in 0..l |-> SubSeq(id, 1, i)]
           meaning == Meaning(text, TRUE)
           S == {i \in 0..l : Meaning(text \o prefix[i], TRUE) = meaning \o prefix[i]}
<1>1. l \in Nat /\ l # 0 /\ \A i \in 1..l : id[i] \in Chars
  BY LenProperties, ElementOfSeq, EmptySeq DEF Numerals
<1>2. \A i \in 1..l : id[i] \in {"0", "1", "2", "3", "4", "5", "6", "7", "8", "9"}
  BY ElementOfSeq DEF Numerals
<1>3. meaning \in Seq(Chars)
  BY MeaningIsMeant
<1>4. \A i \in 0..l : prefix[i] \in Seq(Chars)
  <2> SUFFICES ASSUME NEW i \in 0..l PROVE SubSeq(id, 1, i) \in Seq(Chars)
    OBVIOUS
  <2>1. \A j \in 1..i : id[j] \in Chars
    BY <1>1
  <2> QED
    BY <2>1, SubSeqProperties
<1>5. \A k \in 1..l : prefix[k] = prefix[k - 1] \o <<id[k]>>
  <2> SUFFICES ASSUME NEW k \in 1..l PROVE prefix[k] = prefix[k - 1] \o <<id[k]>>
    OBVIOUS
  <2>1. 1 \in 1..l /\ k \in 1..l /\ k \in 0..l /\ k - 1 \in 0..l
    BY <1>1
  <2>2. SubSeq(id, 1, k) = SubSeq(id, 1, k - 1) \o <<id[k]>>
    BY <2>1, SubSeqRecursiveSecond
  <2> QED
    BY <2>1, <2>2
<1>6. prefix[0] = <<>> /\ prefix[l] = id
  <2>1. SubSeq(id, 1, 0) = <<>> /\ SubSeq(id, 1, l) = id
    BY SubSeqEmpty, SubSeqFull
  <2>2. 0 \in 0..l /\ l \in 0..l
    BY <1>1
  <2> QED
    BY <2>1, <2>2
<1> HIDE DEF l, prefix, meaning
<1>7. 0 \in S
  <2>1. text \o <<>> = text /\ meaning \o <<>> = meaning
    BY <1>3, ConcatEmptySeq
  <2>2. Meaning(text \o prefix[0], TRUE) = meaning \o prefix[0]
    BY <1>6, <2>1 DEF meaning
  <2>3. 0 \in 0..l
    BY <1>1
  <2> QED
    BY <2>2, <2>3, Zenon
<1>8. ASSUME NEW k \in 1..l, k - 1 \in S
      PROVE  k \in S
  <2> DEFINE before == text \o prefix[k - 1]
             c == id[k]
  <2>0. k \in 0..l /\ k - 1 \in 0..l
    BY <1>1
  <2>1. prefix[k - 1] \in Seq(Chars) /\ c \in Chars /\ c \notin StepLetters /\ k \in 0..l
    BY <1>1, <1>2, <1>4, <2>0 DEF StepLetters
  <2>2. text \o prefix[k] = Append(before, c) /\ before \in Seq(Chars)
    <3>1. prefix[k] = prefix[k - 1] \o <<c>>
      BY <1>5
    <3> HIDE DEF c
    <3>2. text \o (prefix[k - 1] \o <<c>>) = Append(before, c) /\ before \in Seq(Chars)
      BY <2>1, AppendOne
    <3> QED
      BY <3>1, <3>2
  <2>3. Meaning(before, TRUE) = meaning \o prefix[k - 1]
    BY <1>8
  <2>4. meaning \o prefix[k] = (meaning \o prefix[k - 1]) \o <<c>>
    <3>1. prefix[k] = prefix[k - 1] \o <<c>>
      BY <1>5
    <3> HIDE DEF c
    <3> DEFINE p == prefix[k - 1]
    <3>2. p \in Seq(Chars) /\ c \in Chars
      BY <2>1
    <3> HIDE DEF p
    <3>3. meaning \o (p \o <<c>>) = (meaning \o p) \o <<c>>
      BY <1>3, <3>2, AppendOne
    <3> QED
      BY <3>1, <3>3 DEF p
  <2> HIDE DEF before, c
  <2>5. Meaning(Append(before, c), TRUE) = Meaning(before, TRUE) \o <<c>>
    BY <2>1, <2>2, MeaningAppend, LenProperties
  <2> QED
    BY <2>1, <2>2, <2>3, <2>4, <2>5
<1>9. l \in S
  <2> HIDE DEF S
  <2>1. 0..l \subseteq S
    BY <1>1, <1>7, <1>8, InductionUpTo
  <2> QED
    BY <1>1, <2>1
<1>10. text \o id \in Seq(Chars) /\ Len(text \o id) = Len(text) + l /\ Len(text) \in Nat
       /\ (text \o id)[Len(text) + l] = id[l]
  BY <1>1, ConcatProperties, LenProperties DEF l
<1>11. id[l] # "%"
  BY <1>1, <1>2
<1> QED
  BY <1>6, <1>9, <1>10, <1>11 DEF Halfway, meaning
\* A placeholder of the step begins at k.
OfStep(text, k) == Opens(text, TRUE, k) /\ ~Opens(text, FALSE, k)

(***************************************************************************)
(* What the first pass has made of the first k characters means to the     *)
(* second pass what the characters themselves mean, and its last "%" is    *)
(* one of the template.                                                    *)
(***************************************************************************)
MeansTheSame(text, k) ==
  /\ Halfway(Meant(text, FALSE, k)) <=> k # 0 /\ text[k] = "%" /\ ~Opens(text, FALSE, k)
  /\ IF OfStep(text, k)
     THEN Meant(Meant(text, FALSE, k), TRUE, Len(Meant(text, FALSE, k)) - 1)
            = Meant(text, TRUE, k - 1)
     ELSE Meaning(Meant(text, FALSE, k), TRUE) = Meant(text, TRUE, k)

\* So it does for one character more.
LEMMA SameStep ==
  ASSUME RenderConstants, NEW text \in Seq(Chars), NEW n \in Nat, n = Len(text),
         NEW k \in 1..n, MeansTheSame(text, k - 1)
  PROVE  MeansTheSame(text, k)
<1> DEFINE f == Meant(text, FALSE, k - 1)
           t == Meant(text, TRUE, k - 1)
           c == text[k]
<1>1. /\ DOMAIN text = 1..n /\ c \in Chars /\ k \in 1..Len(text) /\ k - 1 \in Nat
      /\ k - 1 = 0 \/ k - 1 \in 1..n
  BY LenProperties, ElementOfSeq
<1>2. /\ f \in Seq(Chars) /\ t \in Seq(Chars)
      /\ Meant(text, FALSE, k) = f \o Pieces(text, FALSE)[k]
      /\ Meant(text, TRUE, k) = t \o Pieces(text, TRUE)[k]
  BY <1>1, MeantStep
<1>3. Halfway(f) <=> k - 1 # 0 /\ text[k - 1] = "%" /\ ~Opens(text, FALSE, k - 1)
  BY DEF MeansTheSame
<1>4. OfStep(text, k - 1) => Meant(f, TRUE, Len(f) - 1) = Meant(text, TRUE, k - 1 - 1)
  BY DEF MeansTheSame
<1>5. ~OfStep(text, k - 1) => Meaning(f, TRUE) = t
  BY DEF MeansTheSame
<1>6. \A i : Opens(text, FALSE, i) => Opens(text, TRUE, i)
  BY DEF Opens
<1>7. \A i, forStep : Opens(text, forStep, i) => text[i] = "%" /\ text[i + 1] \in StepLetters /\ i \in 1..n
  BY <1>1 DEF Opens, StepLetters
<1>8. (k - 1) + 1 = k /\ k # 0
  OBVIOUS
<1>9. Opens(text, TRUE, k - 1) => c \in StepLetters /\ c # "%" /\ text[k - 1] = "%" /\ k - 1 # 0
  <2>1. Opens(text, TRUE, k - 1) => c \in StepLetters /\ text[k - 1] = "%" /\ k - 1 # 0
    <3> DEFINE i == k - 1
    <3>1. i + 1 = k
      OBVIOUS
    <3> HIDE DEF i
    <3>2. Opens(text, TRUE, i) => text[i] = "%" /\ text[k] \in StepLetters /\ i \in 1..n
      BY <1>7, <3>1
    <3>3. 0 \notin 1..n
      OBVIOUS
    <3> QED
      BY <3>2, <3>3 DEF i
  <2> QED
    BY <2>1 DEF StepLetters
<1>10. c \in StepLetters /\ Halfway(f) => Opens(text, TRUE, k - 1)
  BY <1>1, <1>3, <1>8 DEF Opens, StepLetters
<1>11. \A forStep \in BOOLEAN : Pieces(text, forStep)[k]
          = IF Opens(text, forStep, k) THEN Text(text[k + 1])
            ELSE IF Opens(text, forStep, k - 1) THEN <<>> ELSE <<c>>
  BY <1>1 DEF Pieces
<1>12. Append(f, c) = f \o <<c>> /\ Append(t, c) = t \o <<c>> /\ <<c>> \in Seq(Chars)
  <2> HIDE DEF f, t, c
  <2> QED
    BY <1>1, <1>2, AppendIsConcat
<1>13. /\ Append(f, c) \in Seq(Chars) /\ Len(Append(f, c)) = Len(f) + 1 /\ Len(f) \in Nat
       /\ Append(f, c)[Len(f) + 1] = c /\ Append(f, c) # <<>>
  <2> HIDE DEF f, t, c
  <2> QED
    BY <1>1, <1>2, AppendProperties, LenProperties
<1>14. Halfway(Append(f, c)) <=> c = "%"
  BY <1>13 DEF Halfway
<1>15. CASE Opens(text, FALSE, k - 1)
  <2>1. Opens(text, TRUE, k - 1) /\ ~Opens(text, TRUE, k) /\ ~Opens(text, FALSE, k)
    BY <1>6, <1>7, <1>9, <1>15
  <2>2. Pieces(text, FALSE)[k] = <<>> /\ Pieces(text, TRUE)[k] = <<>>
    BY <1>11, <1>15, <2>1
  <2>3. Meant(text, FALSE, k) = f /\ Meant(text, TRUE, k) = t
    BY <1>2, <2>2, ConcatEmptySeq
  <2>4. Meaning(f, TRUE) = t /\ ~Halfway(f)
    BY <1>3, <1>5, <1>15 DEF OfStep
  <2> QED
    BY <1>9, <2>1, <2>3, <2>4 DEF MeansTheSame, OfStep
<1>16. CASE OfStep(text, k - 1)
  <2>1. /\ Opens(text, TRUE, k - 1) /\ ~Opens(text, FALSE, k - 1)
        /\ ~Opens(text, TRUE, k) /\ ~Opens(text, FALSE, k)
    BY <1>6, <1>7, <1>9, <1>16 DEF OfStep
  <2>2. Meant(text, FALSE, k) = Append(f, c) /\ Meant(text, TRUE, k) = t
    <3>1. Pieces(text, FALSE)[k] = <<c>> /\ Pieces(text, TRUE)[k] = <<>>
      BY <1>11, <2>1
    <3> QED
      BY <1>2, <1>12, <3>1, ConcatEmptySeq
  <2>3. Halfway(f) /\ c \in StepLetters
    BY <1>3, <1>9, <2>1
  <2>4. Meaning(Append(f, c), TRUE) = Meant(f, TRUE, Len(f) - 1) \o Text(c)
    BY <1>1, <1>2, <1>13, <2>3, MeaningAppend
  <2>5. t = Meant(text, TRUE, k - 1 - 1) \o Text(c)
    <3>1. k - 1 \in 1..Len(text) /\ k - 1 \in 1..n
      BY <1>1, <1>7, <2>1
    <3>2. Meant(text, TRUE, k - 1) = Meant(text, TRUE, k - 1 - 1) \o Pieces(text, TRUE)[k - 1]
      BY <3>1, MeantStep
    <3>3. Pieces(text, TRUE)[k - 1] = Text(c)
      BY <1>1, <1>8, <2>1, <3>1 DEF Pieces
    <3> QED
      BY <3>2, <3>3
  <2>6. Meaning(Append(f, c), TRUE) = t
    BY <1>4, <1>16, <2>4, <2>5
  <2>7. ~OfStep(text, k) /\ c # "%"
    BY <1>9, <2>1 DEF OfStep
  <2> QED
    BY <1>14, <2>2, <2>6, <2>7 DEF MeansTheSame
<1>17. CASE ~Opens(text, TRUE, k - 1)
  <2>1. /\ ~Opens(text, FALSE, k - 1) /\ Meaning(f, TRUE) = t
        /\ ~(Halfway(f) /\ c \in StepLetters)
    BY <1>5, <1>6, <1>10, <1>17 DEF OfStep
  <2>2. CASE Opens(text, FALSE, k)
    <3>1. Opens(text, TRUE, k) /\ text[k + 1] = "j"
      BY <1>6, <2>2 DEF Opens
    <3>2. Pieces(text, FALSE)[k] = JobId /\ Pieces(text, TRUE)[k] = JobId
      BY <1>11, <2>2, <3>1 DEF Text
    <3>3. Meaning(f \o JobId, TRUE) = Meaning(f, TRUE) \o JobId /\ ~Halfway(f \o JobId)
      <4>1. JobId \in Seq(Chars) \cap Numerals
        BY DEF RenderConstants
      <4> QED
        BY <1>2, <4>1, NumeralAppend
    <3> QED
      BY <1>2, <2>1, <2>2, <3>2, <3>3 DEF MeansTheSame, OfStep
  <2>3. CASE OfStep(text, k)
    <3>1. Opens(text, TRUE, k) /\ ~Opens(text, FALSE, k) /\ c = "%"
      BY <1>7, <2>3 DEF OfStep
    <3>2. Meant(text, FALSE, k) = Append(f, c)
      BY <1>2, <1>11, <1>12, <2>1, <3>1
    <3>3. Meant(Append(f, c), TRUE, Len(f)) = Meaning(f, TRUE)
      BY <1>1, <1>2, <1>13, <2>1, MeaningAppend
    <3>4. Len(Append(f, c)) - 1 = Len(f)
      BY <1>13
    <3> QED
      BY <1>8, <1>14, <2>1, <2>3, <3>1, <3>2, <3>3, <3>4 DEF MeansTheSame
  <2>4. CASE ~Opens(text, FALSE, k) /\ ~OfStep(text, k)
    <3>1. ~Opens(text, TRUE, k)
      BY <2>4 DEF OfStep
    <3>2. Meant(text, FALSE, k) = Append(f, c) /\ Meant(text, TRUE, k) = t \o <<c>>
      BY <1>2, <1>11, <1>12, <1>17, <2>1, <2>4, <3>1
    <3>3. Meaning(Append(f, c), TRUE) = Meaning(f, TRUE) \o <<c>>
      BY <1>1, <1>2, <1>13, <2>1, MeaningAppend
    <3> QED
      BY <1>8, <1>14, <2>1, <2>4, <3>2, <3>3 DEF MeansTheSame
  <2> QED
    BY <2>2, <2>3, <2>4
<1> QED
  BY <1>15, <1>16, <1>17 DEF OfStep

(***************************************************************************)
(* The two passes of the documentation, for every template.                *)
(***************************************************************************)
THEOREM SecondPass ==
  ASSUME RenderConstants, NEW text \in Seq(Chars)
  PROVE  Meaning(Meaning(text, FALSE), TRUE) = Meaning(text, TRUE)
<1> DEFINE n == Len(text)
           S == {k \in 0..n : MeansTheSame(text, k)}
<1>1. n \in Nat /\ DOMAIN text = 1..n
  BY LenProperties
<1>2. /\ Meaning(text, FALSE) = Meant(text, FALSE, n)
      /\ Meaning(text, TRUE) = Meant(text, TRUE, n)
  BY MeaningIsMeant
<1>3. MeansTheSame(text, 0)
  <2>1. Meant(text, FALSE, 0) = <<>> /\ Meant(text, TRUE, 0) = <<>>
    BY PiecesTypes, JoinsEquation DEF Meant
  <2>2. <<>> \in Seq(Chars) /\ Len(<<>>) = 0
    OBVIOUS
  <2>3. Meaning(<<>>, TRUE) = Meant(<<>>, TRUE, 0)
    BY <2>2, MeaningIsMeant
  <2>4. Meant(<<>>, TRUE, 0) = <<>>
    BY <2>2, PiecesTypes, JoinsEquation DEF Meant
  <2>5. ~OfStep(text, 0) /\ ~Halfway(<<>>)
    BY <1>1 DEF OfStep, Opens, Halfway
  <2> QED
    BY <2>1, <2>3, <2>4, <2>5 DEF MeansTheSame
<1>4. ~OfStep(text, n)
  BY <1>1 DEF OfStep, Opens
<1>5. \A k \in 1..n : MeansTheSame(text, k - 1) => MeansTheSame(text, k)
  BY <1>1, SameStep
<1> HIDE DEF n
<1>6. 0 \in S /\ \A k \in 1..n : k - 1 \in S => k \in S
  BY <1>1, <1>3, <1>5
<1>7. n \in S
  <2> HIDE DEF S
  <2>1. 0..n \subseteq S
    BY <1>1, <1>6, InductionUpTo
  <2> QED
    BY <1>1, <2>1
<1>8. Meaning(Meant(text, FALSE, n), TRUE) = Meant(text, TRUE, n)
  BY <1>4, <1>7 DEF MeansTheSame
<1> QED
  BY <1>2, <1>8

(***************************************************************************)
(* What is rendered for the job keeps all that the step's rendering would  *)
(* expand, and has nothing more for it.                                    *)
(***************************************************************************)
THEOREM StepFromJob == ASSUME RenderConstants PROVE Spec => []TwoPasses
<1>1. TypeOK /\ RendersTemplate => TwoPasses
  BY SecondPass DEF TypeOK, RendersTemplate, TwoPasses
<1> QED
  BY <1>1, TypeCorrect, RenderingIsMeaning, PTL
=============================================================================
