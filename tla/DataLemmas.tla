------------------------------ MODULE DataLemmas ------------------------------
(***************************************************************************)
(* Induction over data, stated without operators as parameters: a set of   *)
(* numbers stands for the property, a function for the step of a           *)
(* recursion.  With it, what FlattenSeq and SumFunction compute for every  *)
(* argument.                                                               *)
(***************************************************************************)
EXTENDS Naturals, Sequences, SequencesExt, FiniteSetTheorems, SequenceTheorems, TLAPS

(***************************************************************************)
(* A set of numbers has a least one: the intervals from 1 to its members   *)
(* are finite sets, among which one has no strict subset.                  *)
(***************************************************************************)
LEMMA LeastNat ==
  ASSUME NEW T, T \subseteq Nat, T # {}
  PROVE  \E x \in T : \A y \in T : x <= y
<1>1. PICK m \in T : TRUE
  OBVIOUS
<1>2. IsFiniteSet(1..m)
  BY <1>1, FS_Interval
<1> DEFINE U == {1..x : x \in {z \in T : z <= m}}
<1>3. U # {} /\ U \subseteq SUBSET (1..m)
  BY <1>1
<1>4. PICK u \in U : \A v \in U : ~ (<<v, u>> \in StrictSubsetOrdering(1..m))
  <2>1. IsWellFoundedOn(StrictSubsetOrdering(1..m), SUBSET (1..m))
    BY <1>2, FS_FiniteSubsetsOfFinite, FS_StrictSubsetOrderingWellFounded
  <2> HIDE DEF U
  <2> QED
    BY <1>3, <2>1, WFMin
<1>5. PICK x \in T : x <= m /\ u = 1..x
  BY <1>4
<1>6. ASSUME NEW y \in T, y < x
      PROVE  FALSE
  <2>1. 1..y \in U
    BY <1>5, <1>6
  <2>2. 1..y \subseteq 1..x /\ x \in 1..x /\ x \notin 1..y
    BY <1>6
  <2> QED
    BY <1>3, <1>4, <1>5, <2>1, <2>2 DEF StrictSubsetOrdering
<1> QED
  BY <1>5, <1>6

\* A set of numbers up to n has a greatest one.
LEMMA GreatestUpTo ==
  ASSUME NEW n \in Nat, NEW T, T \subseteq 1..n, T # {}
  PROVE  \E x \in T : \A y \in T : y <= x
<1> DEFINE U == {n - x : x \in T}
<1>1. PICK u \in U : \A v \in U : u <= v
  <2>0. \A x \in T : x \in 1..n /\ n - x \in Nat
    OBVIOUS
  <2>1. U \subseteq Nat /\ U # {}
    BY <2>0
  <2> HIDE DEF U
  <2> QED
    BY <2>1, LeastNat
<1>2. PICK x \in T : u = n - x
  OBVIOUS
<1>3. \A y \in T : n - x <= n - y /\ x \in 1..n /\ y \in 1..n
  BY <1>1, <1>2
<1>4. \A y \in T : y <= x
  BY <1>3
<1> QED
  BY <1>4

(***************************************************************************)
(* Induction up to n, the property being membership in S.                  *)
(***************************************************************************)
LEMMA InductionUpTo ==
  ASSUME NEW n \in Nat, NEW S, 0 \in S, \A k \in 1..n : k - 1 \in S => k \in S
  PROVE  0..n \subseteq S
<1> DEFINE T == 0..n \ S
<1> SUFFICES ASSUME T # {} PROVE FALSE
  OBVIOUS
<1>1. PICK x \in T : \A y \in T : x <= y
  <2>1. T \subseteq Nat
    OBVIOUS
  <2> HIDE DEF T
  <2> QED
    BY <2>1, LeastNat
<1>2. x \in 1..n /\ x - 1 \in 0..n /\ ~(x <= x - 1)
  BY <1>1
<1>3. x - 1 \in S
  BY <1>1, <1>2
<1> QED
  BY <1>2, <1>3

\* step maps a value and the number of the step to the next value.
IsStep(step, n, V) == step \in [V \X (1..n) -> V]

\* f is what n steps make of base.
Follows(f, n, V, base, step) ==
  /\ f \in [0..n -> V]
  /\ f[0] = base
  /\ \A k \in 1..n : f[k] = step[<<f[k - 1], k>>]

(***************************************************************************)
(* A function that is given by its first value and a step exists.          *)
(***************************************************************************)
LEMMA RecursionExists ==
  ASSUME NEW n \in Nat, NEW V, NEW base \in V, NEW step, IsStep(step, n, V)
  PROVE  \E f : Follows(f, n, V, base, step)
<1>0. step \in [V \X (1..n) -> V]
  BY DEF IsStep
<1> DEFINE Good(f, m) == f[0] = base /\ \A k \in 1..m : f[k] = step[<<f[k - 1], k>>]
           S == {m \in 0..n : \E f \in [0..m -> V] : Good(f, m)}
<1>1. 0 \in S
  <2>1. [k \in 0..0 |-> base] \in [0..0 -> V] /\ Good([k \in 0..0 |-> base], 0)
    OBVIOUS
  <2>2. \E f \in [0..0 -> V] : Good(f, 0)
    BY <2>1
  <2> HIDE DEF Good
  <2> QED
    BY <2>2
<1>2. ASSUME NEW m \in 1..n, m - 1 \in S
      PROVE  m \in S
  <2>1. PICK f \in [0..(m - 1) -> V] : Good(f, m - 1)
    BY <1>2
  <2> DEFINE g == [k \in 0..m |-> IF k = m THEN step[<<f[m - 1], m>>] ELSE f[k]]
  <2>2. step[<<f[m - 1], m>>] \in V
    BY <1>0, <2>1
  <2>3. g \in [0..m -> V]
    BY <2>1, <2>2
  <2>4. g[0] = base
    BY <2>1
  <2>5. ASSUME NEW k \in 1..m
        PROVE  g[k] = step[<<g[k - 1], k>>]
    <3>1. g[k - 1] = f[k - 1]
      OBVIOUS
    <3>2. CASE k = m
      <4>1. g[k] = step[<<f[k - 1], k>>]
        BY <3>2
      <4> QED
        BY <3>1, <4>1
    <3>3. CASE k # m
      <4>1. k \in 1..(m - 1) /\ g[k] = f[k]
        BY <3>3
      <4> QED
        BY <2>1, <3>1, <4>1
    <3> QED
      BY <3>2, <3>3
  <2> HIDE DEF g
  <2> QED
    BY <2>3, <2>4, <2>5
<1>3. n \in S
  <2> HIDE DEF S
  <2>1. 0..n \subseteq S
    BY <1>1, <1>2, InductionUpTo
  <2> QED
    BY <2>1
<1> QED
  BY <1>3 DEF Follows
\* One element at a time.
LEMMA AppendOne ==
  ASSUME NEW C, NEW s \in Seq(C), NEW t \in Seq(C), NEW e \in C
  PROVE  /\ s \o (t \o <<e>>) = (s \o t) \o <<e>>
         /\ s \o (t \o <<e>>) = Append(s \o t, e) /\ s \o t \in Seq(C)
<1>1. s \o t \in Seq(C) /\ <<e>> \in Seq(C)
  BY ConcatProperties
<1>2. (s \o t) \o <<e>> = s \o (t \o <<e>>)
  BY <1>1, ConcatAssociative
<1> QED
  BY <1>1, <1>2, AppendIsConcat

\* The first element of the rest moves to what came before.
LEMMA HeadMoves ==
  ASSUME NEW C, NEW done \in Seq(C), NEW rest \in Seq(C), rest # <<>>
  PROVE  Append(done, Head(rest)) \o Tail(rest) = done \o rest
<1> DEFINE e == Head(rest)
           t == Tail(rest)
           first == <<e>>
<1>1. /\ e \in C /\ t \in Seq(C) /\ Len(t) = Len(rest) - 1 /\ Len(rest) \in Nat \ {0}
      /\ \A i \in 1..Len(t) : t[i] = rest[i + 1]
      /\ e = rest[1]
  BY HeadTailProperties, EmptySeq
<1>2. first \in Seq(C) /\ Len(first) = 1 /\ first[1] = e
  BY <1>1
<1> HIDE DEF e, t, first
<1>0. first \in Seq(C) /\ t \in Seq(C)
  BY <1>1, <1>2
<1>3. first \o t = rest
  <2>1. /\ first \o t \in Seq(C) /\ Len(first \o t) = 1 + Len(t)
        /\ \A i \in 1..(1 + Len(t)) : (first \o t)[i] = IF i <= 1 THEN first[i] ELSE t[i - 1]
    <3>1. /\ first \o t \in Seq(C) /\ Len(first \o t) = Len(first) + Len(t)
          /\ \A i \in 1..(Len(first) + Len(t)) :
               (first \o t)[i] = IF i <= Len(first) THEN first[i] ELSE t[i - Len(first)]
      BY <1>0, ConcatProperties
    <3>2. Len(first) = 1
      BY <1>2
    <3> HIDE DEF first
    <3> QED
      BY <3>1, <3>2
  <2> DEFINE l == Len(rest)
  <2>2. Len(t) = l - 1 /\ 1 + Len(t) = l /\ l \in Nat
    BY <1>1
  <2> HIDE DEF l
  <2>3. ASSUME NEW i \in 1..l
        PROVE  (first \o t)[i] = rest[i]
    <3>1. CASE i = 1
      BY <1>1, <1>2, <2>1, <2>2, <3>1
    <3>2. CASE i # 1
      <4>1. i - 1 \in 1..Len(t) /\ (i - 1) + 1 = i /\ ~(i <= 1)
        BY <2>2, <3>2
      <4>2. t[i - 1] = rest[(i - 1) + 1]
        BY <1>1, <4>1
      <4> QED
        BY <2>1, <2>2, <4>1, <4>2
    <3> QED
      BY <3>1, <3>2
  <2> QED
    BY <2>1, <2>2, <2>3, SeqEqual DEF l
<1>4. Append(done, e) = done \o first
  BY <1>1, AppendIsConcat DEF first
<1>5. (done \o first) \o t = done \o (first \o t)
  BY <1>0, ConcatAssociative
<1> QED
  BY <1>3, <1>4, <1>5 DEF e, t

-----------------------------------------------------------------------------
(* Joining the texts of a sequence.                                       *)

\* s \o t, as a definition of its own to be kept from the provers.
Cat(s, t) == s \o t

\* f is the recursion that appends seqs[k] in step k.
Appends(f, n, base, seqs) ==
  f = [k \in 0..n |-> IF k = 0 THEN base ELSE Cat(f[k - 1], seqs[k])]

Closed(n, V, seqs) == \A v \in V, k \in 1..n : Cat(v, seqs[k]) \in V

IsJoins(J, n, V, base, seqs) ==
  /\ J \in [0..n -> V]
  /\ J[0] = base
  /\ \A k \in 1..n : J[k] = Cat(J[k - 1], seqs[k])

\* Joins(seqs)[k] is the first k sequences of seqs, joined.
Joins(seqs) == CHOOSE f : Appends(f, Len(seqs), <<>>, seqs)

\* The recursion has a solution in any set that \o stays in.
LEMMA AppendsExists ==
  ASSUME NEW n \in Nat, NEW V, NEW base \in V, NEW seqs,
         Closed(n, V, seqs)
  PROVE  \E f : Appends(f, n, base, seqs)
<1> DEFINE step == [p \in V \X (1..n) |-> Cat(p[1], seqs[p[2]])]
<1>1. IsStep(step, n, V)
  BY DEF IsStep, Closed
<1>2. \A v \in V, k \in 1..n : step[<<v, k>>] = Cat(v, seqs[k])
  OBVIOUS
<1> HIDE DEF step
<1>3. PICK f : Follows(f, n, V, base, step)
  BY <1>1, RecursionExists
<1>4. \A k \in 1..n : f[k - 1] \in V
  BY <1>3 DEF Follows
<1>5. f = [k \in 0..n |-> f[k]] /\ f[0] = base /\ \A k \in 1..n : f[k] = Cat(f[k - 1], seqs[k])
  BY <1>2, <1>3, <1>4 DEF Follows
<1>6. \A k \in 0..n : f[k] = IF k = 0 THEN base ELSE Cat(f[k - 1], seqs[k])
  BY <1>5
<1>7. f = [k \in 0..n |-> IF k = 0 THEN base ELSE Cat(f[k - 1], seqs[k])]
  BY <1>5, <1>6
<1> QED
  BY <1>7 DEF Appends

LEMMA AppendsEquation ==
  ASSUME NEW n \in Nat, NEW V, NEW base \in V, NEW seqs,
         Closed(n, V, seqs), NEW J, Appends(J, n, base, seqs)
  PROVE  IsJoins(J, n, V, base, seqs)
<1>0. \A v \in V, k \in 1..n : Cat(v, seqs[k]) \in V
  BY DEF Closed
<1>1. J = [k \in 0..n |-> IF k = 0 THEN base ELSE Cat(J[k - 1], seqs[k])]
  BY DEF Appends
<1>2. J[0] = base
  BY <1>1
<1>3. ASSUME NEW k \in 1..n
      PROVE  J[k] = Cat(J[k - 1], seqs[k])
  <2>1. k \in 0..n /\ k # 0
    OBVIOUS
  <2> QED
    BY <1>1, <2>1
<1>4. J = [k \in 0..n |-> J[k]]
  BY <1>1
<1> DEFINE S == {k \in 0..n : J[k] \in V}
<1>5. 0 \in S
  BY <1>2
<1>6. ASSUME NEW k \in 1..n, k - 1 \in S
      PROVE  k \in S
  BY <1>0, <1>3, <1>6
<1>7. 0..n \subseteq S
  <2> HIDE DEF S
  <2> QED
    BY <1>5, <1>6, InductionUpTo
<1>8. \A k \in 0..n : J[k] \in V
  BY <1>7
<1>9. J \in [0..n -> V]
  BY <1>4, <1>8
<1> QED
  BY <1>2, <1>3, <1>9 DEF IsJoins

LEMMA JoinsEquation ==
  ASSUME NEW C, NEW seqs \in Seq(Seq(C))
  PROVE  /\ Joins(seqs) \in [0..Len(seqs) -> Seq(C)]
         /\ Joins(seqs)[0] = <<>>
         /\ \A k \in 1..Len(seqs) : Joins(seqs)[k] = Joins(seqs)[k - 1] \o seqs[k]
<1>1. Len(seqs) \in Nat /\ \A k \in 1..Len(seqs) : seqs[k] \in Seq(C)
  BY LenProperties, ElementOfSeq
<1>2. Closed(Len(seqs), Seq(C), seqs)
  BY <1>1, ConcatProperties DEF Cat, Closed
<1>3. <<>> \in Seq(C)
  OBVIOUS
<1>4. Appends(Joins(seqs), Len(seqs), <<>>, seqs)
  BY <1>1, <1>2, <1>3, AppendsExists DEF Joins
<1>5. IsJoins(Joins(seqs), Len(seqs), Seq(C), <<>>, seqs)
  BY <1>1, <1>2, <1>3, <1>4, AppendsEquation
<1> QED
  BY <1>5 DEF IsJoins, Cat

\* The function that FlattenSeq chooses.
Flattens(f, seqs) ==
  f = [i \in 1..Len(seqs) |-> IF i = 1 THEN seqs[i] ELSE Cat(f[i - 1], seqs[i])]

LEMMA FlattenSeqChooses ==
  ASSUME NEW seqs, Len(seqs) # 0
  PROVE  FlattenSeq(seqs) = (CHOOSE f : Flattens(f, seqs))[Len(seqs)]
  BY DEF FlattenSeq, Flattens, Cat

FollowsJoins(J, seqs) ==
  /\ Cat(<<>>, seqs[1]) = seqs[1]
  /\ J[0] = <<>> /\ \A k \in 1..Len(seqs) : J[k] = Cat(J[k - 1], seqs[k])

LEMMA FlattensJoins ==
  ASSUME NEW seqs, Len(seqs) \in Nat \ {0}, NEW f, Flattens(f, seqs),
         NEW J, FollowsJoins(J, seqs)
  PROVE  f[Len(seqs)] = J[Len(seqs)]
<1> DEFINE n == Len(seqs)
<1>0. /\ n \in Nat \ {0} /\ Cat(<<>>, seqs[1]) = seqs[1]
      /\ J[0] = <<>> /\ \A k \in 1..n : J[k] = Cat(J[k - 1], seqs[k])
  BY DEF FollowsJoins
<1> DEFINE S == {k \in 0..n : k = 0 \/ f[k] = J[k]}
<1>1. 0 \in S
  BY <1>0
<1>2. \A i \in 1..n : f[i] = IF i = 1 THEN seqs[i] ELSE Cat(f[i - 1], seqs[i])
  BY DEF Flattens
<1> HIDE DEF n
<1>3. ASSUME NEW k \in 1..n, k - 1 \in S
      PROVE  k \in S
  <2>1. CASE k = 1
    <3>1. f[1] = seqs[1] /\ J[1] = Cat(J[0], seqs[1])
      BY <1>0, <1>2
    <3> QED
      BY <1>0, <2>1, <3>1
  <2>2. CASE k # 1
    <3>1. f[k - 1] = J[k - 1]
      BY <1>3, <2>2
    <3> QED
      BY <1>0, <1>2, <2>2, <3>1
  <2> QED
    BY <2>1, <2>2
<1>4. 0..n \subseteq S
  <2> HIDE DEF S
  <2> QED
    BY <1>0, <1>1, <1>3, InductionUpTo
<1>5. n \in S
  BY <1>0, <1>4
<1> QED
  BY <1>0, <1>5 DEF n

(***************************************************************************)
(* FlattenSeq joins all of its sequences.                                  *)
(***************************************************************************)
LEMMA FlattenIsJoins ==
  ASSUME NEW C, NEW seqs \in Seq(Seq(C))
  PROVE  FlattenSeq(seqs) = Joins(seqs)[Len(seqs)] /\ FlattenSeq(seqs) \in Seq(C)
<1> DEFINE J == Joins(seqs)
<1>0. IsJoins(J, Len(seqs), Seq(C), <<>>, seqs)
  BY JoinsEquation DEF IsJoins, Cat
<1>1. /\ J \in [0..Len(seqs) -> Seq(C)]
      /\ J[0] = <<>>
      /\ \A k \in 1..Len(seqs) : J[k] = Cat(J[k - 1], seqs[k])
  BY JoinsEquation DEF Cat
<1>2. Len(seqs) \in Nat /\ \A k \in 1..Len(seqs) : seqs[k] \in Seq(C)
  BY LenProperties, ElementOfSeq
<1> HIDE DEF J
<1>3. J[Len(seqs)] \in Seq(C)
  BY <1>1, <1>2
<1>4. CASE Len(seqs) = 0
  <2>1. seqs = <<>>
    BY <1>4, EmptySeq
  <2>2. FlattenSeq(seqs) = seqs
    BY <1>4 DEF FlattenSeq
  <2> QED
    BY <1>1, <1>3, <1>4, <2>1, <2>2 DEF J
<1>5. CASE Len(seqs) # 0
  <2>1. Cat(<<>>, seqs[1]) = seqs[1]
    BY <1>2, <1>5, ConcatEmptySeq DEF Cat
  <2>2. \E f : Flattens(f, seqs)
    <3> DEFINE f == [i \in 1..Len(seqs) |-> J[i]]
    <3>1. \A i \in 1..Len(seqs) : f[i] = IF i = 1 THEN seqs[i] ELSE Cat(f[i - 1], seqs[i])
      <4> SUFFICES ASSUME NEW i \in 1..Len(seqs)
                   PROVE  f[i] = IF i = 1 THEN seqs[i] ELSE Cat(f[i - 1], seqs[i])
        OBVIOUS
      <4>1. f[i] = Cat(J[i - 1], seqs[i])
        BY <1>1
      <4>2. CASE i = 1
        BY <1>1, <2>1, <4>1, <4>2
      <4>3. CASE i # 1
        <5>1. i - 1 \in 1..Len(seqs)
          BY <1>2, <4>3
        <5> QED
          BY <4>1, <4>3, <5>1
      <4> QED
        BY <4>2, <4>3
    <3>2. f = [i \in 1..Len(seqs) |-> IF i = 1 THEN seqs[i] ELSE Cat(f[i - 1], seqs[i])]
      BY <3>1
    <3> HIDE DEF f
    <3> QED
      BY <3>2 DEF Flattens
  <2>3. PICK f : Flattens(f, seqs) /\ FlattenSeq(seqs) = f[Len(seqs)]
    BY <1>5, <2>2, FlattenSeqChooses
  <2>4. f[Len(seqs)] = J[Len(seqs)]
    <3>1. Len(seqs) \in Nat \ {0}
      BY <1>2, <1>5
    <3>2. FollowsJoins(J, seqs)
      BY <1>1, <2>1 DEF FollowsJoins
    <3> QED
      BY <2>3, <3>1, <3>2, FlattensJoins
  <2> QED
    BY <1>3, <2>3, <2>4 DEF J
<1> QED
  BY <1>4, <1>5

\* What is joined depends on the sequences that are joined only.
LEMMA JoinsSame ==
  ASSUME NEW C, NEW a \in Seq(Seq(C)), NEW b \in Seq(Seq(C)), NEW n \in Nat,
         n <= Len(a), n <= Len(b), \A i \in 1..n : a[i] = b[i]
  PROVE  Joins(a)[n] = Joins(b)[n]
<1> DEFINE A == Joins(a)
           B == Joins(b)
           S == {k \in 0..n : A[k] = B[k]}
<1>1. /\ A[0] = <<>> /\ \A k \in 1..Len(a) : A[k] = Cat(A[k - 1], a[k])
      /\ B[0] = <<>> /\ \A k \in 1..Len(b) : B[k] = Cat(B[k - 1], b[k])
  BY JoinsEquation DEF Cat
<1>2. Len(a) \in Nat /\ Len(b) \in Nat
  BY LenProperties
<1> HIDE DEF A, B
<1>3. 0 \in S
  BY <1>1
<1>4. ASSUME NEW k \in 1..n, k - 1 \in S
      PROVE  k \in S
  <2>1. k \in 1..Len(a) /\ k \in 1..Len(b)
    BY <1>2
  <2> QED
    BY <1>1, <1>4, <2>1
<1>5. 0..n \subseteq S
  <2> HIDE DEF S
  <2> QED
    BY <1>3, <1>4, InductionUpTo
<1>6. n \in S
  BY <1>5
<1> QED
  BY <1>6 DEF A, B

\* Joining more makes it no shorter.
LEMMA JoinsGrow ==
  ASSUME NEW C, NEW seqs \in Seq(Seq(C)), NEW m \in 0..Len(seqs)
  PROVE  Len(Joins(seqs)[m]) <= Len(FlattenSeq(seqs))
<1> DEFINE J == Joins(seqs)
           n == Len(seqs)
           S == {k \in 0..n : k < m \/ Len(J[m]) <= Len(J[k])}
<1>1. J \in [0..n -> Seq(C)] /\ \A k \in 1..n : J[k] = J[k - 1] \o seqs[k]
  BY JoinsEquation
<1>2. n \in Nat /\ \A k \in 1..n : seqs[k] \in Seq(C)
  BY LenProperties, ElementOfSeq
<1>3. \A k \in 0..n : Len(J[k]) \in Nat
  BY <1>1, LenProperties
<1>5. m \in 0..n
  OBVIOUS
<1> HIDE DEF J, n
<1>4. \A k \in 1..n : Len(J[k - 1]) <= Len(J[k])
  <2> SUFFICES ASSUME NEW k \in 1..n
               PROVE  Len(J[k - 1]) <= Len(J[k])
    OBVIOUS
  <2>0. k - 1 \in 0..n
    BY <1>2
  <2>1. J[k - 1] \in Seq(C) /\ seqs[k] \in Seq(C) /\ J[k] = J[k - 1] \o seqs[k]
    BY <1>1, <1>2, <2>0
  <2> DEFINE a == J[k - 1]
             b == seqs[k]
  <2>2. a \in Seq(C) /\ b \in Seq(C) /\ J[k] = a \o b
    BY <2>1
  <2> HIDE DEF a, b
  <2>3. Len(a \o b) = Len(a) + Len(b) /\ Len(a) \in Nat /\ Len(b) \in Nat
    BY <2>2, ConcatProperties, LenProperties
  <2>4. Len(a) <= Len(J[k])
    BY <2>2, <2>3
  <2> QED
    BY <2>4 DEF a
<1>6. 0 \in S
  BY <1>2, <1>3, <1>5
<1>7. ASSUME NEW k \in 1..n, k - 1 \in S
      PROVE  k \in S
  <2>1. Len(J[k]) \in Nat /\ Len(J[k - 1]) \in Nat /\ Len(J[m]) \in Nat
    BY <1>2, <1>3, <1>5
  <2>2. Len(J[k - 1]) <= Len(J[k])
    BY <1>4
  <2>3. CASE k - 1 < m
    <3>1. k < m \/ k = m
      BY <1>5, <2>3
    <3> QED
      BY <2>1, <3>1
  <2>4. CASE Len(J[m]) <= Len(J[k - 1])
    BY <2>1, <2>2, <2>4
  <2> QED
    BY <1>7, <2>3, <2>4
<1>8. 0..n \subseteq S
  <2> HIDE DEF S
  <2> QED
    BY <1>2, <1>6, <1>7, InductionUpTo
<1>9. n \in S
  BY <1>2, <1>8
<1>10. Len(J[m]) <= Len(J[n])
  BY <1>2, <1>3, <1>5, <1>9
<1> QED
  BY <1>10, FlattenIsJoins DEF J, n

(***************************************************************************)
(* One more sequence is joined at the end.                                 *)
(***************************************************************************)
LEMMA FlattenAppend ==
  ASSUME NEW C, NEW seqs \in Seq(Seq(C)), NEW s \in Seq(C)
  PROVE  FlattenSeq(Append(seqs, s)) = FlattenSeq(seqs) \o s
<1> DEFINE more == Append(seqs, s)
           n == Len(seqs)
           m == n + 1
<1>1. /\ more \in Seq(Seq(C)) /\ Len(more) = n + 1 /\ n \in Nat
      /\ \A i \in 1..n : more[i] = seqs[i]
      /\ more[n + 1] = s
  BY AppendProperties, LenProperties
<1>2. m \in 1..Len(more) /\ m - 1 = n /\ more[m] = s /\ n <= Len(more) /\ n <= Len(seqs)
  BY <1>1
<1> HIDE DEF more, m, n
<1>3. Joins(more)[m] = Joins(more)[m - 1] \o more[m]
  BY <1>1, <1>2, JoinsEquation
<1>4. Joins(more)[n] = Joins(seqs)[n]
  BY <1>1, <1>2, JoinsSame
<1>5. Joins(more)[m] = Joins(seqs)[n] \o s
  BY <1>2, <1>3, <1>4
<1>6. FlattenSeq(more) = Joins(more)[m] /\ FlattenSeq(seqs) = Joins(seqs)[n]
  BY <1>1, FlattenIsJoins DEF m, n
<1> QED
  BY <1>5, <1>6 DEF more
-----------------------------------------------------------------------------
(* The sum of a function on 1..n, in the order of its arguments.          *)

\* w[k] is the sum over those of the first k arguments that are in s.
IsSums(w, n, fun, s) ==
  /\ w \in [0..n -> Nat]
  /\ w[0] = 0
  /\ \A k \in 1..n : w[k] = w[k - 1] + (IF k \in s THEN fun[k] ELSE 0)

Sums(n, fun, s) == CHOOSE w : IsSums(w, n, fun, s)

LEMMA SumsExist ==
  ASSUME NEW n \in Nat, NEW fun \in [1..n -> Nat], NEW s
  PROVE  IsSums(Sums(n, fun, s), n, fun, s)
<1> DEFINE step == [p \in Nat \X (1..n) |-> p[1] + (IF p[2] \in s THEN fun[p[2]] ELSE 0)]
<1>1. IsStep(step, n, Nat)
  BY DEF IsStep
<1>2. \A v \in Nat, k \in 1..n : step[<<v, k>>] = v + (IF k \in s THEN fun[k] ELSE 0)
  OBVIOUS
<1> HIDE DEF step
<1>3. PICK w : Follows(w, n, Nat, 0, step)
  BY <1>1, RecursionExists
<1>4. \A k \in 1..n : k - 1 \in 0..n /\ w[k - 1] \in Nat
  BY <1>3 DEF Follows
<1>5. IsSums(w, n, fun, s)
  BY <1>2, <1>3, <1>4 DEF Follows, IsSums
<1> QED
  BY <1>5 DEF Sums

\* Sums are given by their recursion.
LEMMA SumsUnique ==
  ASSUME NEW n \in Nat, NEW fun \in [1..n -> Nat], NEW s, NEW v, NEW w,
         IsSums(v, n, fun, s), IsSums(w, n, fun, s)
  PROVE  v[n] = w[n]
<1> DEFINE S == {k \in 0..n : v[k] = w[k]}
<1>1. 0 \in S
  BY DEF IsSums
<1>2. ASSUME NEW k \in 1..n, k - 1 \in S
      PROVE  k \in S
  BY <1>2 DEF IsSums
<1>3. n \in S
  <2> HIDE DEF S
  <2>1. 0..n \subseteq S
    BY <1>1, <1>2, InductionUpTo
  <2> QED
    BY <2>1
<1> QED
  BY <1>3

\* One argument can be split off, whichever it is.
LEMMA SumsSplit ==
  ASSUME NEW n \in Nat, NEW fun \in [1..n -> Nat], NEW s \in SUBSET (1..n), NEW c \in s
  PROVE  Sums(n, fun, s)[n] = fun[c] + Sums(n, fun, s \ {c})[n]
<1> DEFINE v == Sums(n, fun, s)
           w == Sums(n, fun, s \ {c})
           S == {k \in 0..n : v[k] = w[k] + (IF c <= k THEN fun[c] ELSE 0)}
<1>1. IsSums(v, n, fun, s) /\ IsSums(w, n, fun, s \ {c})
  BY SumsExist
<1> HIDE DEF v, w
<1>2. /\ v[0] = 0 /\ w[0] = 0
      /\ \A k \in 0..n : v[k] \in Nat /\ w[k] \in Nat
      /\ \A k \in 1..n : v[k] = v[k - 1] + (IF k \in s THEN fun[k] ELSE 0)
      /\ \A k \in 1..n : w[k] = w[k - 1] + (IF k \in s \ {c} THEN fun[k] ELSE 0)
  BY <1>1 DEF IsSums
<1>3. c \in 1..n /\ \A k \in 1..n : fun[k] \in Nat
  OBVIOUS
<1>4. 0 \in S
  <2>1. ~(c <= 0) /\ 0 \in 0..n
    BY <1>3
  <2>2. v[0] = w[0] + (IF c <= 0 THEN fun[c] ELSE 0)
    BY <1>2, <2>1
  <2> QED
    BY <2>1, <2>2
<1>5. ASSUME NEW k \in 1..n, k - 1 \in S
      PROVE  k \in S
  <2>1. k \in 0..n /\ k - 1 \in 0..n /\ v[k - 1] \in Nat /\ w[k - 1] \in Nat
    BY <1>2
  <2>2. v[k - 1] = w[k - 1] + (IF c <= k - 1 THEN fun[c] ELSE 0)
    BY <1>5
  <2>3. CASE k = c
    <3>1. v[k] = v[k - 1] + fun[k] /\ w[k] = w[k - 1]
      BY <1>2, <2>1, <2>3
    <3> QED
      BY <1>3, <2>1, <2>2, <2>3, <3>1
  <2>4. CASE k # c
    <3>1. k \in s <=> k \in s \ {c}
      BY <2>4
    <3>2. c <= k - 1 <=> c <= k
      BY <1>3, <2>4
    <3> QED
      BY <1>2, <1>3, <2>1, <2>2, <3>1, <3>2
  <2> QED
    BY <2>3, <2>4
<1>6. n \in S
  <2> HIDE DEF S
  <2>1. 0..n \subseteq S
    BY <1>4, <1>5, InductionUpTo
  <2> QED
    BY <2>1
<1>7. v[n] = w[n] + fun[c] /\ w[n] \in Nat /\ fun[c] \in Nat
  BY <1>2, <1>3, <1>6
<1> QED
  BY <1>7 DEF v, w

\* The function on sets that SumFunction chooses.
SetSum(f, fun, D) ==
  f = [s \in SUBSET D |->
        IF s = {} THEN 0 ELSE fun[CHOOSE x \in s : TRUE] + f[s \ {CHOOSE x \in s : TRUE}]]

LEMMA SumFunctionChooses ==
  ASSUME NEW fun
  PROVE  SumFunction(fun) = (CHOOSE f : SetSum(f, fun, DOMAIN fun))[DOMAIN fun]
  BY DEF SumFunction, SumFunctionOnSet, FoldFunctionOnSet, MapThenFoldSet, SetSum

\* There is one that agrees with the sums in order, and any other agrees with it.
LEMMA SetSumIsSums ==
  ASSUME NEW n \in Nat, NEW fun \in [1..n -> Nat]
  PROVE  /\ \E f : SetSum(f, fun, 1..n)
         /\ \A f : SetSum(f, fun, 1..n) => f[1..n] = Sums(n, fun, 1..n)[n]
<1> DEFINE D == 1..n
           least(s) == CHOOSE x \in s : TRUE
           total == [s \in SUBSET D |-> Sums(n, fun, s)[n]]
<1>1. Sums(n, fun, {})[n] = 0
  <2> DEFINE w == Sums(n, fun, {})
             S == {k \in 0..n : w[k] = 0}
  <2>1. IsSums(w, n, fun, {})
    BY SumsExist
  <2> HIDE DEF w
  <2>2. 0 \in S /\ \A k \in 1..n : k - 1 \in S => k \in S
    BY <2>1 DEF IsSums
  <2>3. n \in S
    <3> HIDE DEF S
    <3>1. 0..n \subseteq S
      BY <2>2, InductionUpTo
    <3> QED
      BY <3>1
  <2> QED
    BY <2>3 DEF w
<1>2. \A s \in SUBSET D : s # {} => least(s) \in s
  OBVIOUS
<1> HIDE DEF least
<1>3. \A s \in SUBSET D : total[s] = IF s = {} THEN 0 ELSE fun[least(s)] + total[s \ {least(s)}]
  <2> SUFFICES ASSUME NEW s \in SUBSET D
               PROVE  total[s] = IF s = {} THEN 0 ELSE fun[least(s)] + total[s \ {least(s)}]
    OBVIOUS
  <2>1. CASE s = {}
    BY <1>1, <2>1
  <2>2. CASE s # {}
    <3>1. least(s) \in s /\ s \ {least(s)} \in SUBSET D
      BY <1>2, <2>2
    <3>2. Sums(n, fun, s)[n] = fun[least(s)] + Sums(n, fun, s \ {least(s)})[n]
      BY <3>1, SumsSplit
    <3> QED
      BY <2>2, <3>1, <3>2
  <2> QED
    BY <2>1, <2>2
<1>4. total = [s \in SUBSET D |-> IF s = {} THEN 0 ELSE fun[least(s)] + total[s \ {least(s)}]]
  BY <1>3
<1>5. total[D] = Sums(n, fun, D)[n]
  OBVIOUS
<1> HIDE DEF total
<1>6. SetSum(total, fun, D)
  BY <1>4 DEF SetSum, least
<1>7. ASSUME NEW f, SetSum(f, fun, D)
      PROVE  f[D] = total[D]
  <2>1. f = [s \in SUBSET D |-> IF s = {} THEN 0 ELSE fun[least(s)] + f[s \ {least(s)}]]
    BY <1>7 DEF SetSum, least
  <2>2. \A s \in SUBSET D : f[s] = IF s = {} THEN 0 ELSE fun[least(s)] + f[s \ {least(s)}]
    BY <2>1
  <2> DEFINE T == {s \in SUBSET D : f[s] # total[s]}
  <2>3. ASSUME T # {}
        PROVE  FALSE
    <3>1. PICK t \in T : \A s \in T : ~(<<s, t>> \in StrictSubsetOrdering(D))
      <4>1. IsFiniteSet(D)
        BY FS_Interval
      <4>2. IsWellFoundedOn(StrictSubsetOrdering(D), SUBSET D)
        <5> HIDE DEF D
        <5> QED
          BY <4>1, FS_FiniteSubsetsOfFinite, FS_StrictSubsetOrderingWellFounded
      <4>3. T \subseteq SUBSET D
        OBVIOUS
      <4> HIDE DEF T, D
      <4> QED
        BY <2>3, <4>2, <4>3, WFMin
    <3>2. t # {}
      BY <1>3, <2>2
    <3>3. least(t) \in t
      BY <1>2, <3>2
    <3> DEFINE r == t \ {least(t)}
    <3>4. r \in SUBSET D /\ r \subseteq t /\ r # t /\ t \in SUBSET D
      BY <3>3
    <3>5. f[t] = fun[least(t)] + f[r] /\ total[t] = fun[least(t)] + total[r]
      BY <1>3, <2>2, <3>2
    <3>6. <<r, t>> \in StrictSubsetOrdering(D)
      <4> HIDE DEF r, D
      <4> QED
        BY <3>4 DEF StrictSubsetOrdering
    <3>7. f[r] = total[r]
      BY <3>1, <3>4, <3>6
    <3> QED
      BY <3>1, <3>5, <3>7
  <2> QED
    BY <2>3
<1> QED
  BY <1>5, <1>6, <1>7

(***************************************************************************)
(* SumFunction adds up in order, as in any order.                          *)
(***************************************************************************)
LEMMA SumFunctionIsSums ==
  ASSUME NEW n \in Nat, NEW fun \in [1..n -> Nat], NEW w, IsSums(w, n, fun, 1..n)
  PROVE  SumFunction(fun) = w[n]
<1>1. DOMAIN fun = 1..n
  OBVIOUS
<1>2. SumFunction(fun) = Sums(n, fun, 1..n)[n]
  BY <1>1, SumFunctionChooses, SetSumIsSums
<1>3. Sums(n, fun, 1..n)[n] = w[n]
  BY SumsExist, SumsUnique
<1> QED
  BY <1>2, <1>3
=============================================================================
