---------------------------- MODULE IntervalProofs ----------------------------
(***************************************************************************)
(* The parser of numbers in PluginConfig, for texts of any length and any  *)
(* largest number: the loop of set_uint_string reads what the digits are   *)
(* worth, and its test, in arithmetic that wraps around, lets a number     *)
(* pass if and only if it is in range.                                     *)
(***************************************************************************)
EXTENDS PluginConfig, DataLemmas

\* The overflow test of set_uint_string, made before a digit is added, is exact:
\* it lets the digit pass if and only if the number with it is in range.
THEOREM OverflowTestExact ==
  ASSUME NEW parsed \in 0..UintMax, NEW digit \in 0..9
  PROVE  parsed <= (UintMax - digit) \div 10 <=> parsed * 10 + digit <= UintMax
<1>1. UintMax \in Nat /\ UintMax >= 9
  BY ConfigAssumption
<1> QED
  BY <1>1, SMT

\* Numbers up to the largest one do not wrap around.
LEMMA NoWrap ==
  ASSUME NEW x \in 0..UintMax
  PROVE  x % (UintMax + 1) = x
<1>1. UintMax \in Nat
  BY ConfigAssumption
<1> QED
  BY <1>1, SMT

\* A text of digits.
IsNumeral(text) == \A k \in DOMAIN text : IsDigit(text[k])

LEMMA DigitTypes ==
  ASSUME NEW text \in Seq(Chars), IsNumeral(text), NEW k \in 1..Len(text)
  PROVE  Digit(text[k]) \in 0..9
<1>1. k \in DOMAIN text
  BY LenProperties
<1>2. \E d \in 0..9 : text[k] = Digits[d + 1]
  BY <1>1 DEF IsNumeral, IsDigit
<1> QED
  BY <1>2 DEF Digit

\* h[k] is the number that the first k digits are, without a bound.
IsHorner(h, text) ==
  /\ h \in [0..Len(text) -> Nat]
  /\ h[0] = 0
  /\ \A k \in 1..Len(text) : h[k] = h[k - 1] * 10 + Digit(text[k])

Horner(text) == CHOOSE h : IsHorner(h, text)

\* Such numbers exist.
LEMMA HornerExists ==
  ASSUME NEW text \in Seq(Chars), IsNumeral(text)
  PROVE  IsHorner(Horner(text), text)
<1> DEFINE n == Len(text)
           digit == [k \in 1..n |-> Digit(text[k])]
           step == [p \in Nat \X (1..n) |-> p[1] * 10 + digit[p[2]]]
<1>0. n \in Nat
  BY LenProperties
<1>1. \A k \in 1..n : digit[k] \in Nat
  BY DigitTypes
<1>2. \A k \in 1..n : digit[k] = Digit(text[k])
  OBVIOUS
<1> HIDE DEF n, digit
<1>3. IsStep(step, n, Nat)
  BY <1>1 DEF IsStep
<1>4. \A v \in Nat, k \in 1..n : step[<<v, k>>] = v * 10 + digit[k]
  OBVIOUS
<1> HIDE DEF step
<1>5. PICK h : Follows(h, n, Nat, 0, step)
  BY <1>0, <1>3, RecursionExists
<1>6. \A k \in 1..n : k - 1 \in 0..n /\ h[k - 1] \in Nat
  BY <1>0, <1>5 DEF Follows
<1>7. h \in [0..n -> Nat] /\ h[0] = 0 /\ \A k \in 1..n : h[k] = h[k - 1] * 10 + Digit(text[k])
  BY <1>2, <1>4, <1>5, <1>6 DEF Follows
<1>8. IsHorner(h, text)
  BY <1>7 DEF IsHorner, n
<1> QED
  BY <1>8 DEF Horner

\* The powers of ten up to the length of a text.
IsPower(p, n) == p = [k \in 0..n |-> IF k = 0 THEN 1 ELSE 10 * p[k - 1]]

LEMMA PowerExists ==
  ASSUME NEW n \in Nat
  PROVE  /\ \E p : IsPower(p, n)
         /\ \A p : IsPower(p, n) =>
              p \in [0..n -> Nat] /\ p[0] = 1 /\ \A k \in 1..n : p[k] = 10 * p[k - 1]
<1>1. \E p : IsPower(p, n)
  <2> DEFINE step == [q \in Nat \X (1..n) |-> 10 * q[1]]
  <2>1. IsStep(step, n, Nat)
    BY DEF IsStep
  <2>2. \A v \in Nat, k \in 1..n : step[<<v, k>>] = 10 * v
    OBVIOUS
  <2> HIDE DEF step
  <2>3. PICK p : Follows(p, n, Nat, 1, step)
    BY <2>1, RecursionExists
  <2>4. \A k \in 1..n : k - 1 \in 0..n /\ p[k - 1] \in Nat
    BY <2>3 DEF Follows
  <2>5. p \in [0..n -> Nat] /\ p[0] = 1 /\ \A k \in 1..n : p[k] = 10 * p[k - 1]
    BY <2>2, <2>3, <2>4 DEF Follows
  <2>6. p = [k \in 0..n |-> p[k]] /\ \A k \in 0..n : p[k] = IF k = 0 THEN 1 ELSE 10 * p[k - 1]
    BY <2>5
  <2>7. IsPower(p, n)
    BY <2>6 DEF IsPower
  <2> QED
    BY <2>7
<1>2. ASSUME NEW p, IsPower(p, n)
      PROVE  p \in [0..n -> Nat] /\ p[0] = 1 /\ \A k \in 1..n : p[k] = 10 * p[k - 1]
  <2>1. p = [k \in 0..n |-> IF k = 0 THEN 1 ELSE 10 * p[k - 1]]
    BY <1>2 DEF IsPower
  <2>2. p[0] = 1
    BY <2>1
  <2>3. \A k \in 1..n : p[k] = 10 * p[k - 1]
    BY <2>1
  <2> DEFINE S == {k \in 0..n : p[k] \in Nat}
  <2>4. 0 \in S /\ \A k \in 1..n : k - 1 \in S => k \in S
    BY <2>2, <2>3
  <2>5. 0..n \subseteq S
    <3> HIDE DEF S
    <3> QED
      BY <2>4, InductionUpTo
  <2>6. p = [k \in 0..n |-> p[k]] /\ \A k \in 0..n : p[k] \in Nat
    BY <2>1, <2>5
  <2> QED
    BY <2>2, <2>3, <2>6
<1> QED
  BY <1>1, <1>2
\* What one digit adds, at any place.
LEMMA Place ==
  ASSUME NEW a \in Nat, NEW p \in Nat, NEW d \in Nat
  PROVE  a * (10 * p) + d * p = (a * 10 + d) * p /\ d * p \in Nat /\ a * p \in Nat
  BY SMT

(***************************************************************************)
(* What the digits are worth together is the number that is read digit by  *)
(* digit, a multiplication by ten at a time.                               *)
(***************************************************************************)
LEMMA ReadByDigits ==
  ASSUME NEW text \in Seq(Chars), IsNumeral(text)
  PROVE  DecimalValue(text) = Horner(text)[Len(text)]
<1> DEFINE n == Len(text)
           h == Horner(text)
           digit == [k \in 1..n |-> Digit(text[k])]
           power == CHOOSE p : IsPower(p, n)
           worth == [k \in 1..n |-> digit[k] * power[n - k]]
           w == [k \in 0..n |-> h[k] * power[n - k]]
<1>0. n \in Nat /\ DOMAIN text = 1..n
  BY LenProperties
<1>1. \A k \in 1..n : digit[k] \in Nat /\ digit[k] = Digit(text[k])
  BY DigitTypes
<1>2. DecimalValue(text) = SumFunction(worth)
  <2>1. DecimalValue(text) = SumFunction([k \in DOMAIN text |-> Digit(text[k]) * power[Len(text) - k]])
    BY DEF DecimalValue, IsPower
  <2>2. worth = [k \in DOMAIN text |-> Digit(text[k]) * power[Len(text) - k]]
    <3> HIDE DEF power
    <3> QED
      BY <1>0, <1>1
  <2> QED
    BY <2>1, <2>2
<1>3. IsHorner(h, text)
  BY HornerExists
<1>4. IsPower(power, n)
  BY <1>0, PowerExists
<1> HIDE DEF n, h, digit, power
<1>5. power \in [0..n -> Nat] /\ power[0] = 1 /\ \A k \in 1..n : power[k] = 10 * power[k - 1]
  BY <1>0, <1>4, PowerExists
<1>6. h \in [0..n -> Nat] /\ h[0] = 0 /\ \A k \in 1..n : h[k] = h[k - 1] * 10 + digit[k]
  BY <1>1, <1>3 DEF IsHorner, n
<1>7. \A k \in 0..n : n - k \in 0..n /\ power[n - k] \in Nat /\ h[k] \in Nat
  BY <1>0, <1>5, <1>6
<1>8. worth \in [1..n -> Nat]
  <2> SUFFICES ASSUME NEW k \in 1..n PROVE digit[k] * power[n - k] \in Nat
    OBVIOUS
  <2>1. digit[k] \in Nat /\ power[n - k] \in Nat
    BY <1>0, <1>1, <1>7
  <2> QED
    BY <2>1, Place
<1>9. IsSums(w, n, worth, 1..n)
  <2>1. w \in [0..n -> Nat]
    <3> SUFFICES ASSUME NEW k \in 0..n PROVE h[k] * power[n - k] \in Nat
      OBVIOUS
    <3> QED
      BY <1>7, Place
  <2>2. w[0] = 0
    <3>1. w[0] = 0 * power[n - 0] /\ power[n - 0] \in Nat
      BY <1>0, <1>6, <1>7
    <3> QED
      BY <3>1
  <2>3. ASSUME NEW k \in 1..n
        PROVE  w[k] = w[k - 1] + (IF k \in 1..n THEN worth[k] ELSE 0)
    <3>1. k \in 0..n /\ k - 1 \in 0..n /\ n - (k - 1) \in 1..n /\ (n - (k - 1)) - 1 = n - k
      BY <1>0
    <3>2. power[n - (k - 1)] = 10 * power[n - k]
      BY <1>5, <3>1
    <3>3. w[k] = h[k] * power[n - k] /\ w[k - 1] = h[k - 1] * power[n - (k - 1)]
          /\ worth[k] = digit[k] * power[n - k]
      BY <3>1
    <3> DEFINE a == h[k - 1]
               p == power[n - k]
               d == digit[k]
    <3>4. a \in Nat /\ p \in Nat /\ d \in Nat
      BY <1>1, <1>7, <3>1
    <3>5. w[k] = (a * 10 + d) * p /\ w[k - 1] = a * (10 * p) /\ worth[k] = d * p
      BY <1>6, <3>2, <3>3
    <3> HIDE DEF a, p, d, w, worth
    <3>6. a * (10 * p) + d * p = (a * 10 + d) * p
      BY <3>4, Place
    <3>7. w[k] = w[k - 1] + worth[k]
      BY <3>5, <3>6
    <3> QED
      BY <3>7
  <2> HIDE DEF w, worth
  <2> QED
    BY <2>1, <2>2, <2>3 DEF IsSums
<1>10. SumFunction(worth) = w[n]
  <2> HIDE DEF w, worth
  <2> QED
    BY <1>0, <1>8, <1>9, SumFunctionIsSums
<1>11. w[n] = h[n] * power[n - n] /\ n - n = 0 /\ h[n] \in Nat
  BY <1>0, <1>7
<1>12. w[n] = h[n]
  BY <1>5, <1>11
<1> QED
  BY <1>2, <1>10, <1>12 DEF n, h

\* More digits make no smaller number.
LEMMA HornerGrows ==
  ASSUME NEW text \in Seq(Chars), IsNumeral(text), NEW m \in 0..Len(text)
  PROVE  Horner(text)[m] <= Horner(text)[Len(text)]
<1> DEFINE n == Len(text)
           h == Horner(text)
           S == {k \in 0..n : k < m \/ h[m] <= h[k]}
<1>0. n \in Nat /\ m \in 0..n
  BY LenProperties
<1>1. IsHorner(h, text)
  BY HornerExists
<1>2. \A k \in 1..n : Digit(text[k]) \in Nat
  BY DigitTypes
<1> HIDE DEF n, h
<1>3. h \in [0..n -> Nat] /\ \A k \in 1..n : h[k] = h[k - 1] * 10 + Digit(text[k])
  BY <1>1 DEF IsHorner, n
<1>4. \A k \in 0..n : h[k] \in Nat
  BY <1>3
<1>5. ASSUME NEW k \in 1..n
      PROVE  h[k - 1] <= h[k] /\ h[k] \in Nat /\ h[k - 1] \in Nat
  <2>1. k \in 0..n /\ k - 1 \in 0..n
    BY <1>0
  <2> QED
    BY <1>2, <1>3, <1>4, <2>1
<1>6. 0 \in S
  BY <1>0, <1>4
<1>7. ASSUME NEW k \in 1..n, k - 1 \in S
      PROVE  k \in S
  <2>1. h[m] \in Nat /\ k \in 0..n
    BY <1>0, <1>4
  <2>2. CASE k - 1 < m
    <3>1. k < m \/ k = m
      BY <1>0, <2>2
    <3> QED
      BY <2>1, <3>1
  <2>3. CASE h[m] <= h[k - 1]
    BY <1>5, <2>1, <2>3
  <2> QED
    BY <1>7, <2>2, <2>3
<1>8. n \in S
  <2> HIDE DEF S
  <2>1. 0..n \subseteq S
    BY <1>0, <1>6, <1>7, InductionUpTo
  <2> QED
    BY <1>0, <2>1
<1>9. h[m] <= h[n]
  BY <1>0, <1>4, <1>8
<1> QED
  BY <1>9 DEF n, h

\* The accumulator of set_uint_string, which wraps around.
IsParsed(parsed, text) ==
  parsed = [k \in 0..Len(text) |->
    IF k = 0 THEN 0 ELSE (parsed[k - 1] * 10 + Digit(text[k])) % (UintMax + 1)]

\* It is given by its recursion.
LEMMA ParsedExists ==
  ASSUME NEW text \in Seq(Chars), IsNumeral(text)
  PROVE  /\ \E parsed : IsParsed(parsed, text)
         /\ \A parsed : IsParsed(parsed, text) =>
              /\ parsed[0] = 0
              /\ \A k \in 1..Len(text) :
                   parsed[k] = (parsed[k - 1] * 10 + Digit(text[k])) % (UintMax + 1)
<1> DEFINE n == Len(text)
           V == 0..UintMax
           digit == [k \in 1..n |-> Digit(text[k])]
           step == [q \in V \X (1..n) |-> (q[1] * 10 + digit[q[2]]) % (UintMax + 1)]
<1>0. n \in Nat /\ UintMax \in Nat
  BY LenProperties, ConfigAssumption
<1>1. \A k \in 1..n : digit[k] \in Nat
  BY DigitTypes
<1>2. \A k \in 1..n : digit[k] = Digit(text[k])
  OBVIOUS
<1> HIDE DEF n, digit
<1>3. \A v \in V, k \in 1..n : (v * 10 + digit[k]) % (UintMax + 1) \in V
  <2> SUFFICES ASSUME NEW v \in V, NEW k \in 1..n
               PROVE  (v * 10 + digit[k]) % (UintMax + 1) \in V
    OBVIOUS
  <2>1. v * 10 + digit[k] \in Nat
    BY <1>0, <1>1
  <2> QED
    BY <1>0, <2>1
<1>4. IsStep(step, n, V) /\ 0 \in V
  BY <1>0, <1>3 DEF IsStep
<1>5. \A v \in V, k \in 1..n : step[<<v, k>>] = (v * 10 + digit[k]) % (UintMax + 1)
  OBVIOUS
<1> HIDE DEF step, V
<1>6. PICK parsed : Follows(parsed, n, V, 0, step)
  BY <1>0, <1>4, RecursionExists
<1>7. \A k \in 1..n : k - 1 \in 0..n /\ parsed[k - 1] \in V
  BY <1>0, <1>6 DEF Follows
<1>8. \A k \in 1..n : parsed[k] = (parsed[k - 1] * 10 + Digit(text[k])) % (UintMax + 1)
  BY <1>2, <1>5, <1>6, <1>7 DEF Follows
<1>9. parsed = [k \in 0..n |-> parsed[k]] /\ parsed[0] = 0
  BY <1>6 DEF Follows
<1>10. \A k \in 0..n : parsed[k] = IF k = 0 THEN 0
                                   ELSE (parsed[k - 1] * 10 + Digit(text[k])) % (UintMax + 1)
  <2>1. \A k \in 0..n : k = 0 \/ k \in 1..n
    BY <1>0
  <2> QED
    BY <1>8, <1>9, <2>1
<1>11. parsed = [k \in 0..n |-> IF k = 0 THEN 0
                                ELSE (parsed[k - 1] * 10 + Digit(text[k])) % (UintMax + 1)]
  BY <1>9, <1>10
<1>12. IsParsed(parsed, text)
  BY <1>11 DEF IsParsed, n
<1>13. ASSUME NEW p, IsParsed(p, text)
       PROVE  /\ p[0] = 0
              /\ \A k \in 1..n : p[k] = (p[k - 1] * 10 + Digit(text[k])) % (UintMax + 1)
  <2>1. p = [k \in 0..n |-> IF k = 0 THEN 0
                            ELSE (p[k - 1] * 10 + Digit(text[k])) % (UintMax + 1)]
    BY <1>13 DEF IsParsed, n
  <2> QED
    BY <1>0, <2>1
<1> QED
  BY <1>12, <1>13 DEF n
(***************************************************************************)
(* The loop lets a text of digits pass if and only if its number is in     *)
(* range, although what is tested has wrapped around if it is not.         *)
(***************************************************************************)
THEOREM ParserIsExact ==
  ASSUME NEW text \in Seq(Chars), IsNumeral(text)
  PROVE  UintFits(text) <=> DecimalValue(text) <= UintMax
<1> DEFINE n == Len(text)
           h == Horner(text)
           digit == [k \in 1..n |-> Digit(text[k])]
           parsed == CHOOSE p : IsParsed(p, text)
           passes == \A k \in 1..n : parsed[k - 1] <= (UintMax - digit[k]) \div 10
           S == {k \in 0..n : parsed[k] = h[k] /\ h[k] <= UintMax}
<1>0. n \in Nat /\ UintMax \in Nat
  BY LenProperties, ConfigAssumption
<1>1. \A k \in 1..n : digit[k] \in 0..9 /\ digit[k] = Digit(text[k])
  BY DigitTypes
<1>2. UintFits(text) <=> passes
  <2>1. UintFits(text) <=> \A k \in 1..n : parsed[k - 1] <= (UintMax - Digit(text[k])) \div 10
    BY DEF UintFits, IsParsed
  <2> HIDE DEF parsed, digit
  <2> QED
    BY <1>1, <2>1
<1>3. IsHorner(h, text) /\ IsParsed(parsed, text)
  BY HornerExists, ParsedExists
<1>4. DecimalValue(text) = h[n]
  BY ReadByDigits
<1>5. \A k \in 0..n : h[k] <= h[n]
  BY HornerGrows
<1> HIDE DEF n, h, digit, parsed
<1>6. /\ parsed[0] = 0
      /\ \A k \in 1..n : parsed[k] = (parsed[k - 1] * 10 + digit[k]) % (UintMax + 1)
  BY <1>1, <1>3, ParsedExists DEF n
<1>7. /\ h \in [0..n -> Nat] /\ h[0] = 0
      /\ \A k \in 1..n : h[k] = h[k - 1] * 10 + digit[k]
  BY <1>1, <1>3 DEF IsHorner, n
<1>8. 0 \in S
  BY <1>0, <1>6, <1>7
<1>9. ASSUME NEW k \in 1..n, k - 1 \in S
      PROVE  /\ parsed[k - 1] <= (UintMax - digit[k]) \div 10 <=> h[k] <= UintMax
             /\ h[k] <= UintMax => k \in S
  <2>1. k \in 0..n /\ k - 1 \in 0..n /\ parsed[k - 1] = h[k - 1] /\ h[k - 1] \in 0..UintMax
    BY <1>0, <1>7, <1>9
  <2>2. h[k - 1] <= (UintMax - digit[k]) \div 10 <=> h[k - 1] * 10 + digit[k] <= UintMax
    BY <1>1, <2>1, OverflowTestExact
  <2>3. h[k] = h[k - 1] * 10 + digit[k] /\ h[k] \in Nat
    BY <1>7, <2>1
  <2>4. h[k] <= UintMax => h[k] % (UintMax + 1) = h[k]
    <3>1. h[k] <= UintMax => h[k] \in 0..UintMax
      BY <1>0, <2>3
    <3> QED
      BY <3>1, NoWrap
  <2>5. parsed[k] = h[k] % (UintMax + 1)
    BY <1>6, <2>1, <2>3
  <2> QED
    BY <2>1, <2>2, <2>3, <2>4, <2>5
<1>10. ASSUME passes
       PROVE  h[n] <= UintMax
  <2>1. \A k \in 1..n : k - 1 \in S => k \in S
    BY <1>9, <1>10
  <2>2. n \in S
    <3> HIDE DEF S, passes
    <3>1. 0..n \subseteq S
      BY <1>0, <1>8, <2>1, InductionUpTo
    <3> QED
      BY <1>0, <3>1
  <2> QED
    BY <2>2
<1>11. ASSUME h[n] <= UintMax
       PROVE  passes
  <2>1. \A k \in 0..n : h[k] <= UintMax
    <3> SUFFICES ASSUME NEW k \in 0..n PROVE h[k] <= UintMax
      OBVIOUS
    <3>1. h[k] \in Nat /\ h[n] \in Nat /\ h[k] <= h[n]
      BY <1>0, <1>5, <1>7
    <3> QED
      BY <1>0, <1>11, <3>1
  <2>2. \A k \in 1..n : k \in 0..n /\ k - 1 \in 0..n
    BY <1>0
  <2>3. \A k \in 1..n : k - 1 \in S => k \in S
    BY <1>9, <2>1, <2>2
  <2>4. 0..n \subseteq S
    <3> HIDE DEF S, passes
    <3> QED
      BY <1>0, <1>8, <2>3, InductionUpTo
  <2>5. \A k \in 1..n : parsed[k - 1] <= (UintMax - digit[k]) \div 10
    <3> SUFFICES ASSUME NEW k \in 1..n PROVE parsed[k - 1] <= (UintMax - digit[k]) \div 10
      OBVIOUS
    <3>1. k - 1 \in S /\ h[k] <= UintMax
      BY <2>1, <2>2, <2>4
    <3> HIDE DEF S
    <3> QED
      BY <1>9, <3>1
  <2> QED
    BY <2>5
<1> HIDE DEF passes
<1> QED
  BY <1>2, <1>4, <1>10, <1>11

\* Whatever is stored of a text that can be read is a number in range: all of
\* it, or as many of its digits as fit the buffer.
LEMMA StoredIsUint ==
  ASSUME NEW text \in Seq(Chars), Writes(Interval, text)
  PROVE  IsUint(Stored(Interval, text))
<1>1. Interval \notin BoolNames /\ Interval \in Names
  BY DEF Interval, BoolNames, Names
<1>2. IsNumeral(text) /\ UintFits(text)
  BY <1>1 DEF Writes, Accepted, Cut, Readable, IsNumeral
<1>3. DecimalValue(text) <= UintMax
  BY <1>2, ParserIsExact
<1>4. CASE ~Cut(Interval, text)
  BY <1>1, <1>2, <1>3, <1>4 DEF Stored, IsUint, IsNumeral
<1>5. CASE Cut(Interval, text)
  <2> DEFINE m == Size(Interval) - 1
             n == Len(text)
             cut == SubSeq(text, 1, m)
             a == Horner(cut)
             h == Horner(text)
             digit == [k \in 1..n |-> Digit(text[k])]
             S == {k \in 0..m : a[k] = h[k]}
  <2>1. m \in Nat /\ m <= n /\ n \in Nat /\ DOMAIN text = 1..n
    <3>1. Size(Interval) \in Nat \ {0, 1} /\ n >= Size(Interval)
      BY <1>5, ConfigAssumption DEF Cut, Size
    <3> QED
      BY <3>1, LenProperties
  <2>2. cut \in Seq(Chars) /\ Len(cut) = m /\ \A i \in 1..m : cut[i] = text[i]
    <3>1. \A i \in 1..m : text[i] \in Chars
      BY <2>1, ElementOfSeq
    <3> HIDE DEF m
    <3> QED
      BY <2>1, <3>1, SubSeqProperties
  <2>3. Stored(Interval, text) = cut
    BY <1>1, <1>5 DEF Stored
  <2> HIDE DEF m, n, cut
  <2>4. IsNumeral(cut)
    <3>1. DOMAIN cut = 1..m /\ \A i \in 1..m : i \in 1..n
      BY <2>1, <2>2, LenProperties
    <3> QED
      BY <1>2, <2>1, <2>2, <3>1 DEF IsNumeral
  <2>5. IsHorner(a, cut) /\ IsHorner(h, text)
    BY <1>2, <2>2, <2>4, HornerExists
  <2>6. DecimalValue(cut) = a[m] /\ DecimalValue(text) = h[n] /\ h[m] <= h[n]
    <3>1. DecimalValue(cut) = a[m]
      BY <2>2, <2>4, ReadByDigits
    <3>2. DecimalValue(text) = h[n]
      BY <1>2, ReadByDigits DEF n
    <3>3. m \in 0..Len(text)
      BY <2>1 DEF n
    <3>4. h[m] <= h[Len(text)]
      BY <1>2, <3>3, HornerGrows
    <3> QED
      BY <3>1, <3>2, <3>4 DEF n
  <2> HIDE DEF a, h
  <2>7. /\ a[0] = 0 /\ h[0] = 0
        /\ \A k \in 1..m : a[k] = a[k - 1] * 10 + Digit(text[k])
        /\ \A k \in 1..n : h[k] = h[k - 1] * 10 + Digit(text[k]) /\ k \in 1..Len(text)
        /\ \A k \in 0..n : h[k] \in Nat
    BY <2>2, <2>5 DEF IsHorner, n
  <2>8. 0 \in S /\ \A k \in 1..m : k - 1 \in S => k \in S
    <3>1. \A k \in 1..m : k \in 1..n
      BY <2>1
    <3> QED
      BY <2>1, <2>7, <3>1
  <2>9. m \in S
    <3> HIDE DEF S
    <3>1. 0..m \subseteq S
      BY <2>1, <2>8, InductionUpTo
    <3> QED
      BY <2>1, <3>1
  <2>10. a[m] <= UintMax
    <3>1. a[m] = h[m] /\ h[m] \in Nat /\ h[n] \in Nat /\ h[n] <= UintMax /\ UintMax \in Nat
      BY <1>3, <2>1, <2>6, <2>7, <2>9, ConfigAssumption
    <3> QED
      BY <2>6, <3>1
  <2> QED
    BY <2>3, <2>4, <2>6, <2>10 DEF IsUint, IsNumeral
<1> QED
  BY <1>4, <1>5
=============================================================================
