------------------------------ MODULE Induction ------------------------------
(***************************************************************************)
(* Induction over the natural numbers, and what it gives for recursive     *)
(* functions and for the concatenation of a sequence of sequences.  What   *)
(* is to be shown of every number is stated as a set of numbers, so that   *)
(* no theorem has an operator for a parameter.                             *)
(***************************************************************************)
EXTENDS Integers, Sequences, SequencesExt, FiniteSetTheorems, SequenceTheorems, TLAPS

\* A set of natural numbers that is not empty has a least element: of the sets 0..n,
\* strict inclusion is well-founded.
LEMMA NatLeast ==
  ASSUME NEW T \in SUBSET Nat, T # {}
  PROVE  \E n \in T : \A m \in T : n <= m
<1> DEFINE Upto == {0..n : n \in T}
           R == StrictSubsetOrdering(Nat)
           F == FiniteSubsetsOf(Nat)
<1>1. IsWellFoundedOn(R, F) BY FS_StrictSubsetOrderingWellFounded
<1>2. Upto \subseteq F
  <2>1. \A n \in T : 0..n \in SUBSET Nat OBVIOUS
  <2>2. \A n \in T : IsFiniteSet(0..n) BY FS_Interval
  <2> QED BY <2>1, <2>2 DEF FiniteSubsetsOf
<1>3. Upto # {} OBVIOUS
<1>4. PICK x \in Upto : \A y \in Upto : <<y, x>> \notin R
  <2> HIDE DEF R, F, Upto
  <2> QED BY <1>1, <1>2, <1>3, WFMin
<1>5. PICK n \in T : x = 0..n OBVIOUS
<1>6. \A m \in T : m < n => <<0..m, 0..n>> \in R
  <2> SUFFICES ASSUME NEW m \in T, m < n PROVE <<0..m, 0..n>> \in R OBVIOUS
  <2>1. 0..m \subseteq 0..n /\ n \in 0..n /\ n \notin 0..m OBVIOUS
  <2>2. 0..m \in SUBSET Nat /\ 0..n \in SUBSET Nat OBVIOUS
  <2> QED BY <2>1, <2>2 DEF StrictSubsetOrdering
<1>7. \A m \in T : <<0..m, 0..n>> \notin R BY <1>4, <1>5
<1>8. ASSUME NEW m \in T, ~(n <= m) PROVE FALSE
  <2>1. m \in Nat /\ n \in Nat OBVIOUS
  <2>2. m < n BY <2>1, <1>8
  <2> HIDE DEF R, F, Upto
  <2> QED BY <1>6, <1>7, <2>2
<1> QED BY <1>8

\* Induction: a set that has 0, and with each number the next one, has them all.
LEMMA SetInduction ==
  ASSUME NEW T, 0 \in T, \A n \in Nat : n \in T => n + 1 \in T
  PROVE  \A n \in Nat : n \in T
<1> SUFFICES ASSUME NEW c \in Nat, c \notin T PROVE FALSE OBVIOUS
<1> DEFINE C == {n \in Nat : n \notin T}
<1>1. PICK n \in C : \A m \in C : n <= m
  <2>1. C \in SUBSET Nat /\ C # {} OBVIOUS
  <2> HIDE DEF C
  <2> QED BY <2>1, NatLeast
<1>2. n # 0 /\ n - 1 \in Nat BY <1>1
<1>3. n - 1 \in T BY <1>1, <1>2
<1> QED BY <1>1, <1>2, <1>3

\* A function on 0..n may be defined by its first value and by steps: there is one.
Steps(n, Y) == [1..n -> [Y -> Y]]
IsRecursive(f, n, Y, base, step) ==
  f \in [0..n -> Y] /\ f[0] = base /\ \A i \in 1..n : f[i] = step[i][f[i - 1]]

LEMMA RecursionExists ==
  ASSUME NEW n \in Nat, NEW Y, NEW base \in Y, NEW step \in Steps(n, Y)
  PROVE  \E f : IsRecursive(f, n, Y, base, step)
<1> DEFINE Good(m, f) == f[0] = base /\ \A i \in 1..m : f[i] = step[i][f[i - 1]]
           T == {m \in Nat : m <= n => \E f \in [0..m -> Y] : Good(m, f)}
<1>1. 0 \in T
  <2>1. Good(0, [i \in 0..0 |-> base]) OBVIOUS
  <2>2. [i \in 0..0 |-> base] \in [0..0 -> Y] OBVIOUS
  <2> QED BY <2>1, <2>2
<1>2. ASSUME NEW m \in Nat, m \in T PROVE m + 1 \in T
  <2> SUFFICES ASSUME m + 1 <= n PROVE \E f \in [0..m + 1 -> Y] : Good(m + 1, f)
    <3> HIDE DEF Good
    <3> QED OBVIOUS
  <2>1. PICK f \in [0..m -> Y] : Good(m, f) BY <1>2
  <2> DEFINE g == [i \in 0..m + 1 |-> IF i = m + 1 THEN step[m + 1][f[m]] ELSE f[i]]
  <2>2. m + 1 \in 1..n /\ m \in 0..m OBVIOUS
  <2>3. step[m + 1] \in [Y -> Y] BY <2>2 DEF Steps
  <2>4. step[m + 1][f[m]] \in Y BY <2>3, <2>2
  <2>5. g \in [0..m + 1 -> Y] BY <2>4
  <2>6. g[0] = base BY <2>1
  <2>7. ASSUME NEW i \in 1..m + 1 PROVE g[i] = step[i][g[i - 1]]
    <3>1. CASE i = m + 1 BY <3>1
    <3>2. CASE i # m + 1
      <4>1. i \in 1..m /\ i - 1 \in 0..m /\ i - 1 # m + 1 /\ i \in 0..m + 1 /\ i - 1 \in 0..m + 1 BY <3>2
      <4>2. g[i] = f[i] /\ g[i - 1] = f[i - 1] BY <4>1, <3>2
      <4> QED BY <4>1, <4>2, <2>1
    <3> QED BY <3>1, <3>2
  <2>8. Good(m + 1, g) BY <2>6, <2>7
  <2> QED BY <2>5, <2>8
<1>3. \A m \in Nat : m \in T
  <2> HIDE DEF T
  <2> QED BY <1>1, <1>2, SetInduction
<1> QED BY <1>3 DEF IsRecursive
------------------------------------------------------------------------------
(***************************************************************************)
(* FlattenSeq: the concatenation of a sequence of sequences                *)
(***************************************************************************)
\* What a function gives that takes up the sequences one after the other.
Adding(s, f) == f[0] = <<>> /\ \A i \in 1..Len(s) : f[i] = f[i - 1] \o s[i]

LEMMA AddingExists ==
  ASSUME NEW X, NEW s \in Seq(Seq(X))
  PROVE  \E f \in [0..Len(s) -> Seq(X)] : Adding(s, f)
<1> DEFINE n == Len(s)
           step == [i \in 1..n |-> [y \in Seq(X) |-> y \o s[i]]]
<1>1. n \in Nat BY LenProperties
<1>2. \A i \in 1..n : s[i] \in Seq(X) BY ElementOfSeq
<1>3. step \in [1..n -> [Seq(X) -> Seq(X)]]
  <2>1. \A i \in 1..n, y \in Seq(X) : y \o s[i] \in Seq(X) BY <1>2, ConcatProperties
  <2> QED BY <2>1
<1>4. <<>> \in Seq(X) BY EmptySeq
<1>5. PICK f : IsRecursive(f, n, Seq(X), <<>>, step)
  <2>1. step \in Steps(n, Seq(X)) BY <1>3 DEF Steps
  <2> HIDE DEF step, n
  <2> QED BY <1>1, <1>4, <2>1, RecursionExists
<1>6. \A i \in 1..n : f[i - 1] \in Seq(X)
  <2>1. \A i \in 1..n : i - 1 \in 0..n BY <1>1
  <2> HIDE DEF n
  <2> QED BY <2>1, <1>5 DEF IsRecursive
<1>7. \A i \in 1..n : f[i] = f[i - 1] \o s[i] BY <1>5, <1>6 DEF IsRecursive
<1> QED BY <1>5, <1>7 DEF Adding, IsRecursive

LEMMA FlattenIsAdding ==
  ASSUME NEW X, NEW s \in Seq(Seq(X)), NEW f \in [0..Len(s) -> Seq(X)], Adding(s, f)
  PROVE  FlattenSeq(s) = f[Len(s)]
<1> DEFINE n == Len(s)
<1>1. n \in Nat BY LenProperties
<1>2. CASE n = 0
  <2>1. s = <<>> BY <1>2, EmptySeq
  <2> QED BY <1>2, <2>1 DEF FlattenSeq, Adding
<1>3. CASE n # 0
  <2> DEFINE Eq(g) == g = [i \in 1..n |-> IF i = 1 THEN s[i] ELSE g[i - 1] \o s[i]]
             h == [i \in 1..n |-> f[i]]
             c == CHOOSE g : Eq(g)
  <2>1. \A i \in 1..n : s[i] \in Seq(X) BY ElementOfSeq
  <2>2. f[1] = s[1]
    <3>1. 1 \in 1..n BY <1>1, <1>3
    <3>2. f[1] = f[1 - 1] \o s[1] BY <3>1 DEF Adding
    <3>3. f[0] = <<>> BY DEF Adding
    <3>4. f[1] = <<>> \o s[1]
      <4>1. 1 - 1 = 0 OBVIOUS
      <4> HIDE DEF n, Eq, h, c
      <4> QED BY <3>2, <3>3, <4>1
    <3>5. s[1] \in Seq(X) BY <3>1, <2>1
    <3> QED BY <3>4, <3>5, ConcatEmptySeq
  <2>3. Eq(h)
    <3>1. \A i \in 1..n : i # 1 => i - 1 \in 1..n BY <1>1
    <3>2. \A i \in 1..n : h[i] = IF i = 1 THEN s[i] ELSE h[i - 1] \o s[i]
      BY <3>1, <2>2 DEF Adding
    <3> QED BY <3>2
  <2>4. Eq(c) BY <2>3
  <2>5. FlattenSeq(s) = c[n] BY <1>3 DEF FlattenSeq
  <2> DEFINE T == {i \in Nat : i + 1 <= n => c[i + 1] = f[i + 1]}
  <2>6. 0 \in T
    <3>1. 1 \in 1..n BY <1>1, <1>3
    <3>2. c[1] = s[1] BY <2>4, <3>1
    <3> QED BY <3>2, <2>2
  <2>7. ASSUME NEW i \in Nat, i \in T PROVE i + 1 \in T
    <3> SUFFICES ASSUME i + 2 <= n PROVE c[i + 2] = f[i + 2]
      <4>1. (i + 1) + 1 = i + 2 OBVIOUS
      <4> QED BY <4>1
    <3>1. i + 2 \in 1..n /\ i + 2 # 1 /\ (i + 2) - 1 = i + 1 BY <1>1
    <3>2. c[i + 2] = c[i + 1] \o s[i + 2] BY <2>4, <3>1
    <3>3. f[i + 2] = f[i + 1] \o s[i + 2] BY <3>1 DEF Adding
    <3>4. c[i + 1] = f[i + 1] BY <2>7, <1>1
    <3> QED BY <3>2, <3>3, <3>4
  <2>8. \A i \in Nat : i \in T
    <3> HIDE DEF T
    <3> QED BY <2>6, <2>7, SetInduction
  <2>9. n - 1 \in Nat /\ (n - 1) + 1 = n BY <1>1, <1>3
  <2>10. c[n] = f[n]
    <3>1. n - 1 \in T BY <2>8, <2>9
    <3> QED BY <3>1, <2>9, <1>1
  <2> QED BY <2>5, <2>10
<1> QED BY <1>2, <1>3

\* The result is a sequence over the same set; of nothing, it is empty.
LEMMA FlattenType ==
  ASSUME NEW X, NEW s \in Seq(Seq(X))
  PROVE  FlattenSeq(s) \in Seq(X)
<1>1. PICK f \in [0..Len(s) -> Seq(X)] : Adding(s, f) BY AddingExists
<1>2. Len(s) \in 0..Len(s) BY LenProperties
<1> QED BY <1>1, <1>2, FlattenIsAdding

LEMMA FlattenEmpty == FlattenSeq(<<>>) = <<>>
BY DEF FlattenSeq

LEMMA FlattenAppend ==
  ASSUME NEW X, NEW s \in Seq(Seq(X)), NEW e \in Seq(X)
  PROVE  FlattenSeq(Append(s, e)) = FlattenSeq(s) \o e
<1> DEFINE n == Len(s)
           t == Append(s, e)
<1>1. n \in Nat /\ Len(t) = n + 1 /\ t \in Seq(Seq(X)) /\ t[n + 1] = e /\ \A i \in 1..n : t[i] = s[i]
  BY LenProperties, AppendProperties
<1>2. PICK f \in [0..n -> Seq(X)] : Adding(s, f) BY AddingExists
<1> DEFINE g == [i \in 0..n + 1 |-> IF i = n + 1 THEN f[n] \o e ELSE f[i]]
<1>3. n \in 0..n BY <1>1
<1>4. f[n] \o e \in Seq(X) BY <1>3, ConcatProperties
<1>5. g \in [0..Len(t) -> Seq(X)]
  <2>1. \A i \in 0..n + 1 : i # n + 1 => f[i] \in Seq(X) BY <1>1
  <2> QED BY <2>1, <1>1, <1>4
<1>6. Adding(t, g)
  <2>1. g[0] = <<>> BY <1>1, <1>2 DEF Adding
  <2>2. ASSUME NEW i \in 1..Len(t) PROVE g[i] = g[i - 1] \o t[i]
    <3>1. CASE i = n + 1 BY <3>1, <1>1
    <3>2. CASE i # n + 1
      <4>1. i \in 1..n /\ i - 1 \in 0..n + 1 /\ i - 1 # n + 1 /\ i \in 0..n + 1 BY <1>1, <3>2
      <4>2. g[i] = f[i] /\ g[i - 1] = f[i - 1] /\ t[i] = s[i] BY <4>1, <3>2, <1>1
      <4> QED BY <4>1, <4>2, <1>2 DEF Adding
    <3> QED BY <3>1, <3>2
  <2> QED BY <2>1, <2>2 DEF Adding
<1>7. FlattenSeq(t) = g[n + 1]
  <2> HIDE DEF g, t
  <2> QED BY <1>1, <1>5, <1>6, FlattenIsAdding
<1>8. FlattenSeq(s) = f[n] BY <1>2, FlattenIsAdding
<1> QED BY <1>1, <1>7, <1>8

LEMMA FlattenConcat ==
  ASSUME NEW X, NEW s \in Seq(Seq(X)), NEW t \in Seq(Seq(X))
  PROVE  FlattenSeq(s \o t) = FlattenSeq(s) \o FlattenSeq(t)
<1> DEFINE n == Len(s)
           m == Len(t)
           u == s \o t
<1>1. /\ n \in Nat /\ m \in Nat /\ Len(u) = n + m /\ u \in Seq(Seq(X))
      /\ \A i \in 1..n + m : u[i] = IF i <= n THEN s[i] ELSE t[i - n]
  BY LenProperties, ConcatProperties
<1>2. PICK f \in [0..n -> Seq(X)] : Adding(s, f) BY AddingExists
<1>3. PICK g \in [0..m -> Seq(X)] : Adding(t, g) BY AddingExists
<1> DEFINE h == [i \in 0..n + m |-> IF i <= n THEN f[i] ELSE f[n] \o g[i - n]]
<1>4. f[n] \in Seq(X) BY <1>1
<1>5. h \in [0..Len(u) -> Seq(X)]
  <2>1. ASSUME NEW i \in 0..n + m PROVE h[i] \in Seq(X)
    <3>1. CASE i <= n
      <4>1. i \in 0..n BY <3>1, <1>1
      <4> QED BY <3>1, <4>1
    <3>2. CASE ~(i <= n)
      <4>1. i - n \in 0..m BY <1>1, <3>2
      <4>2. g[i - n] \in Seq(X) BY <4>1
      <4>3. f[n] \o g[i - n] \in Seq(X) BY <4>2, <1>4, ConcatProperties
      <4> QED BY <3>2, <4>3
    <3> QED BY <3>1, <3>2
  <2> QED BY <2>1, <1>1
<1>6. Adding(u, h)
  <2>1. h[0] = <<>> BY <1>1, <1>2 DEF Adding
  <2>2. ASSUME NEW i \in 1..Len(u) PROVE h[i] = h[i - 1] \o u[i]
    <3>0. i \in 1..n + m /\ i \in 0..n + m /\ i - 1 \in 0..n + m BY <1>1
    <3>1. CASE i <= n
      <4>1. i \in 1..n /\ i - 1 <= n BY <3>0, <3>1, <1>1
      <4>2. h[i] = f[i] /\ h[i - 1] = f[i - 1] /\ u[i] = s[i] BY <3>0, <4>1, <3>1, <1>1
      <4> QED BY <4>1, <4>2, <1>2 DEF Adding
    <3>2. CASE i = n + 1
      <4>1. 1 \in 1..m /\ 1 - 1 = 0 /\ i - n = 1 /\ ~(i <= n) /\ i - 1 = n /\ n <= n BY <3>0, <3>2, <1>1
      <4>2. h[i] = f[n] \o g[1] /\ h[i - 1] = f[n] /\ u[i] = t[1] BY <3>0, <4>1, <1>1
      <4>3. g[1] = <<>> \o t[1] BY <4>1, <1>3 DEF Adding
      <4>4. t[1] \in Seq(X) BY <4>1, ElementOfSeq
      <4>5. g[1] = t[1] BY <4>3, <4>4, ConcatEmptySeq
      <4> QED BY <4>2, <4>5
    <3>3. CASE i > n + 1
      <4> DEFINE k == i - n
      <4>1. k \in 1..m /\ k - 1 \in 0..m /\ ~(i <= n) /\ ~(i - 1 <= n) /\ (i - 1) - n = k - 1 BY <3>0, <3>3, <1>1
      <4>2. h[i] = f[n] \o g[k] /\ h[i - 1] = f[n] \o g[k - 1] /\ u[i] = t[k] BY <3>0, <4>1, <1>1
      <4>3. g[k] = g[k - 1] \o t[k] BY <4>1, <1>3 DEF Adding
      <4>4. t[k] \in Seq(X) /\ g[k - 1] \in Seq(X) BY <4>1, ElementOfSeq
      <4>5. (f[n] \o g[k - 1]) \o t[k] = f[n] \o (g[k - 1] \o t[k])
        <5> DEFINE a == f[n]
                   b == g[k - 1]
                   c == t[k]
        <5>1. a \in Seq(X) /\ b \in Seq(X) /\ c \in Seq(X) BY <4>4, <1>4
        <5>2. (a \o b) \o c = a \o (b \o c)
          <6> HIDE DEF a, b, c
          <6> QED BY <5>1, ConcatAssociative
        <5> QED BY <5>2
      <4> QED BY <4>2, <4>3, <4>5
    <3>4. i <= n \/ i = n + 1 \/ i > n + 1 BY <3>0, <1>1
    <3> QED BY <3>1, <3>2, <3>3, <3>4
  <2> QED BY <2>1, <2>2 DEF Adding
<1>7. FlattenSeq(u) = h[n + m]
  <2> HIDE DEF h, u
  <2> QED BY <1>1, <1>5, <1>6, FlattenIsAdding
<1>8. FlattenSeq(s) = f[n] /\ FlattenSeq(t) = g[m] BY <1>2, <1>3, FlattenIsAdding
<1>9. CASE m = 0
  <2>1. h[n + m] = f[n] BY <1>1, <1>9
  <2>2. g[m] = <<>> BY <1>3, <1>9 DEF Adding
  <2>3. f[n] \o <<>> = f[n] BY <1>4, ConcatEmptySeq
  <2> QED BY <1>7, <1>8, <2>1, <2>2, <2>3
<1>10. CASE m # 0
  <2>1. h[n + m] = f[n] \o g[m]
    <3>1. n + m \in 0..n + m /\ ~(n + m <= n) /\ (n + m) - n = m BY <1>1, <1>10
    <3> QED BY <3>1
  <2> QED BY <1>7, <1>8, <2>1
<1> QED BY <1>9, <1>10

LEMMA FlattenOne ==
  ASSUME NEW X, NEW e \in Seq(X)
  PROVE  FlattenSeq(<<e>>) = e
<1>1. <<>> \in Seq(Seq(X)) BY EmptySeq
<1>2. Append(<<>>, e) = <<e>> OBVIOUS
<1>3. FlattenSeq(<<e>>) = FlattenSeq(<<>>) \o e BY <1>1, <1>2, FlattenAppend
<1>4. <<>> \o e = e BY ConcatEmptySeq
<1> QED BY <1>3, <1>4, FlattenEmpty

\* A function may be defined on 0..n by what it is at a smaller argument: there is one.
Smaller(n, of) == \A i \in 1..n : of[i] \in 0..i - 1
Descends(f, n, Y, base, step, of) ==
  f \in [0..n -> Y] /\ f[0] = base /\ \A i \in 1..n : f[i] = step[i][f[of[i]]]

\* It exists for any base and steps.
LEMMA DescentExists ==
  ASSUME NEW n \in Nat, NEW Y, NEW base \in Y, NEW step \in Steps(n, Y), NEW of, Smaller(n, of)
  PROVE  \E f : Descends(f, n, Y, base, step, of)
<1> DEFINE Good(m, f) == f[0] = base /\ \A i \in 1..m : f[i] = step[i][f[of[i]]]
           T == {m \in Nat : m <= n => \E f \in [0..m -> Y] : Good(m, f)}
<1>1. 0 \in T
  <2>1. Good(0, [i \in 0..0 |-> base])
    OBVIOUS
  <2>2. [i \in 0..0 |-> base] \in [0..0 -> Y]
    OBVIOUS
  <2> QED
    BY <2>1, <2>2
<1>2. ASSUME NEW m \in Nat, m \in T PROVE m + 1 \in T
  <2> SUFFICES ASSUME m + 1 <= n PROVE \E f \in [0..m + 1 -> Y] : Good(m + 1, f)
    <3> HIDE DEF Good
    <3> QED
      OBVIOUS
  <2>1. PICK f \in [0..m -> Y] : Good(m, f)
    BY <1>2
  <2> DEFINE y == step[m + 1][f[of[m + 1]]]
             g == [i \in 0..m + 1 |-> IF i = m + 1 THEN y ELSE f[i]]
  <2>2. m + 1 \in 1..n /\ of[m + 1] \in 0..m
    BY DEF Smaller
  <2>3. step[m + 1] \in [Y -> Y]
    BY <2>2 DEF Steps
  <2>4. y \in Y
    BY <2>3, <2>2
  <2> HIDE DEF y
  <2>5. g \in [0..m + 1 -> Y]
    BY <2>4
  <2>6. g[0] = base
    BY <2>1
  <2>7. ASSUME NEW i \in 1..m + 1 PROVE g[i] = step[i][g[of[i]]]
    <3>1. CASE i = m + 1
      <4>1. of[i] \in 0..m + 1 /\ of[i] # m + 1 /\ i \in 0..m + 1
        BY <3>1, <2>2
      <4>2. g[of[i]] = f[of[i]] /\ g[i] = y
        BY <4>1, <3>1
      <4> QED
        BY <3>1, <4>2 DEF y
    <3>2. CASE i # m + 1
      <4>1. i \in 1..m /\ i \in 1..n /\ i \in 0..m + 1
        BY <3>2
      <4>2. of[i] \in 0..i - 1
        BY <4>1 DEF Smaller
      <4>3. of[i] \in 0..m + 1 /\ of[i] # m + 1
        BY <4>1, <4>2
      <4>4. g[i] = f[i] /\ g[of[i]] = f[of[i]]
        BY <4>1, <4>3, <3>2
      <4> QED
        BY <4>1, <4>4, <2>1
    <3> QED
      BY <3>1, <3>2
  <2>8. Good(m + 1, g)
    BY <2>6, <2>7
  <2> QED
    BY <2>5, <2>8
<1>3. \A m \in Nat : m \in T
  <2> HIDE DEF T
  <2> QED
    BY <1>1, <1>2, SetInduction
<1> QED
  BY <1>3 DEF Descends
==============================================================================
