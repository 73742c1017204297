------------------------------ MODULE MathSeq ------------------------------
(***************************************************************************)
(* Mathematical sequences, unpythonic/mathseq.py: what s(a0, a1, ..., an)  *)
(* makes of its specification, termwise arithmetic, the diagonal           *)
(* reduction, and the sequences that come ready-made.                      *)
(*                                                                         *)
(* Numbers are integers, and a factor or exponent is a fraction; a         *)
(* sequence is known by its formula, and by which integer its j-th term    *)
(* is.  Floating-point and symbolic input are left out.  Partitions of an  *)
(* integer (numutil.py) use the triangular numbers.                        *)
(***************************************************************************)
EXTENDS Integers, Sequences, FiniteSets, SequencesExt

CONSTANTS
  Calls,      \* the calls that are made: of "s", "lift1", "lift2", "infix", "diagonal", "partition" or "ready"
  MaxFactors  \* bound: how far a last element is from the first

VARIABLES asked, answered
qvars == <<asked, answered>>

Size(x) == IF x < 0 THEN - x ELSE x
Infty == -1        \* a number of terms
Raises(e) == [raised |-> e, desc |-> <<>>, n |-> 0]
Found(desc) == [raised |-> "", desc |-> <<desc>>, n |-> Infty]
\* A formula with its factor or exponent, a reduced fraction
Formula(seqtype, x0, num, den) ==
  LET common == {d \in 1..Size(den) : num % d = 0 /\ den % d = 0}
      gcd == (CHOOSE d \in common : \A e \in common : e <= d) * (IF den < 0 THEN -1 ELSE 1)
  IN  [seqtype |-> seqtype, x0 |-> x0, k |-> [num |-> num \div gcd, den |-> den \div gcd]]
------------------------------------------------------------------------------
\* Logarithms: the exponents of numbers that are powers of one integer (which all
\* three must be for their logarithms to have rational ratios)
Exponents(xs) ==
  LET IsPowerOf(x, b, e) == Size(x) = b ^ e
      bases == {b \in 2..9 : \A j \in 1..Len(xs) : \E e \in 0..8 : IsPowerOf(xs[j], b, e)}
  IN  IF bases = {} THEN <<>>
      ELSE LET b == CHOOSE b \in bases : TRUE
           IN  [j \in 1..Len(xs) |-> CHOOSE e \in 0..8 : IsPowerOf(xs[j], b, e)]

\* MUTANT of Power: the exponents are not compared
Power_any(a) ==
  LET e == Exponents(a)
  IN  IF a[1] = 0 THEN Raises("ValueError")
      ELSE IF Size(a[2]) = 1 THEN Raises("ZeroDivisionError")
      ELSE IF e # <<>> THEN Found(Formula("power", a[1], e[2], e[1]))
      ELSE Raises("SyntaxError")

\* The last case of three terms: log|a1| / log|a0| = log|a2| / log|a1|
Power(a) ==
  LET e == Exponents(a)
  IN  IF a[1] = 0 THEN Raises("ValueError")
      ELSE IF Size(a[2]) = 1 THEN Raises("ZeroDivisionError")
      ELSE IF e # <<>> /\ e[2] * e[2] = e[1] * e[3] THEN Found(Formula("power", a[1], e[2], e[1]))
      ELSE Raises("SyntaxError")

AnalyzeThree(a) ==
  IF a[1] = a[2] /\ a[2] = a[3] THEN Found(Formula("const", a[1], 0, 1))
  ELSE IF a[2] - a[1] = a[3] - a[2] THEN Found(Formula("arith", a[1], a[2] - a[1], 1))
  ELSE IF 0 \notin ToSet(a) /\ a[2] * a[2] = a[1] * a[3] THEN Found(Formula("geom", a[1], a[2], a[1]))
  ELSE IF Size(a[1]) # 1 /\ a[2] # 0 /\ a[3] # 0 THEN Power(a)
  ELSE Raises("SyntaxError")

Same(k, l) == k.num * l.den = l.num * k.den

\* analyze: more than three terms must agree, each three of them that follow each other
Analyze(spec) ==
  CASE Len(spec) = 1 -> Found(Formula("const", spec[1], 0, 1))
    [] Len(spec) = 2 -> IF spec[1] = spec[2] THEN Found(Formula("const", spec[1], 0, 1))
                        ELSE Found(Formula("arith", spec[1], spec[2] - spec[1], 1))
    [] Len(spec) = 3 -> AnalyzeThree(spec)
    [] OTHER ->
         LET data == [j \in 1..Len(spec) - 2 |-> AnalyzeThree(SubSeq(spec, j, j + 2))]
             bad == {j \in 1..Len(data) : data[j].raised # ""}
         IN  IF bad # {} THEN data[CHOOSE j \in bad : \A i \in bad : j <= i]
             ELSE IF \A j \in 2..Len(data) : /\ data[j].desc[1].seqtype = data[1].desc[1].seqtype
                                             /\ Same(data[j].desc[1].k, data[1].desc[1].k)
             THEN data[1] ELSE Raises("SyntaxError")

\* Whether x is the j-th term (from 0) that the formula generates
Term(desc, j, x) ==
  LET num == desc.k.num ^ j  den == desc.k.den ^ j  e == Exponents(<<desc.x0, x>>)
  IN  CASE desc.seqtype = "const" -> x = desc.x0
        [] desc.seqtype = "arith" -> x = desc.x0 + j * desc.k.num
        [] desc.seqtype = "geom" -> x * den = desc.x0 * num
        [] desc.seqtype = "power" -> /\ e # <<>> /\ e[2] * den = e[1] * num
                                     /\ IF desc.x0 > 0 THEN x > 0
                                        ELSE num % den = 0 /\ (x < 0 <=> (num \div den) % 2 = 1)

\* nofterms: 1 + a, for the position a > 0 of the last element, by logarithms
NofTerms(found, last) ==
  LET desc == found.desc[1]
      k == desc.k
      At(a) == IF desc.seqtype = "power" THEN Term([desc EXCEPT !.x0 = Size(@)], a, Size(last))
               ELSE /\ Size(k.den) ^ a <= Size(desc.x0) /\ Size(k.num) ^ a <= Size(last)
                    /\ Size(last) * Size(k.den) ^ a = Size(desc.x0) * Size(k.num) ^ a
      As == {a \in 1..MaxFactors : At(a)}
      n == IF As = {} THEN 0 ELSE 1 + CHOOSE a \in As : TRUE
  IN  CASE desc.seqtype = "const" -> Raises("SyntaxError")
        [] desc.seqtype = "arith" -> IF (last - desc.x0) % Size(k.num) = 0 /\ (last - desc.x0) * k.num > 0
                                     THEN [found EXCEPT !.n = 1 + Size(last - desc.x0) \div Size(k.num)]
                                     ELSE Raises("SyntaxError")
        [] OTHER -> \* the logarithm of 0, and of 1 again; and to the base 1
             IF last = 0 \/ (desc.seqtype = "power" /\ Size(last) = 1) THEN Raises("ValueError")
             ELSE IF Size(k.num) = Size(k.den) THEN Raises("ZeroDivisionError")
             ELSE IF n > 0 /\ Term(desc, n - 1, last) THEN [found EXCEPT !.n = n] ELSE Raises("SyntaxError")

\* s(*spec, ...) and s(*spec, ..., last); `last` is a sequence of one or none
S(spec, last) ==
  LET found == Analyze(spec)
  IN  IF found.raised # "" \/ last = <<>> THEN found ELSE NofTerms(found, last[1])

\* s([*repeats], ...), and s(*initials, [*repeats], ...): the first m terms
Cyclic(initial, repeating, m) ==
  [j \in 1..m |-> IF j <= Len(initial) THEN initial[j] ELSE repeating[((j - Len(initial) - 1) % Len(repeating)) + 1]]
------------------------------------------------------------------------------
\* An operand is a number, or an iterable of operands.
Number(x) == [iterable |-> FALSE, x |-> x, items |-> <<>>]
Many(xs) == [iterable |-> TRUE, x |-> 0, items |-> xs]

\* The operations that are lifted, of which these stand for all: what matters is the
\* order of their operands.
Atom(op, x, y) ==
  CASE op = "ssub" -> x - y
    [] op = "smul" -> x * y
    [] op = "slt" -> IF x < y THEN 1 ELSE 0

RECURSIVE Lift1(_)
\* stream_op of slift1, for atom_neg
Lift1(a) == IF a.iterable THEN Many([j \in 1..Len(a.items) |-> Lift1(a.items[j])]) ELSE Number(-a.x)

RECURSIVE Lift2(_, _, _)
\* MUTANT of Lift2: a number on the left is broadcast to the right
Lift2_swapped(op, a, b) ==
  LET n == IF Len(a.items) < Len(b.items) THEN Len(a.items) ELSE Len(b.items)
  IN  IF a.iterable /\ b.iterable THEN Many([j \in 1..n |-> Lift2(op, a.items[j], b.items[j])])
      ELSE IF a.iterable THEN Many([j \in 1..Len(a.items) |-> Lift2(op, a.items[j], b)])
      ELSE IF b.iterable THEN Many([j \in 1..Len(b.items) |-> Lift2(op, b.items[j], a)])
      ELSE Number(Atom(op, a.x, b.x))

\* stream_op of slift2
Lift2(op, a, b) ==
  LET n == IF Len(a.items) < Len(b.items) THEN Len(a.items) ELSE Len(b.items)
  IN  IF a.iterable /\ b.iterable THEN Many([j \in 1..n |-> Lift2(op, a.items[j], b.items[j])])
      ELSE IF a.iterable THEN Many([j \in 1..Len(a.items) |-> Lift2(op, a.items[j], b)])
      ELSE IF b.iterable THEN Many([j \in 1..Len(b.items) |-> Lift2(op, a, b.items[j])])
      ELSE Number(Atom(op, a.x, b.x))

\* The operators of an m'd iterable: __sub__ and its kin, __rsub__ and its kin
Infix(op, self, other, reflected) == IF reflected THEN Lift2(op, other, self) ELSE Lift2(op, self, other)
\* Python asks the left operand, and the right one if the left one does not know.  For
\* a comparison this is the opposite one; the operand on the right is asked for b > a.
Operator(op, a, b) == IF a.iterable THEN Infix(op, a, b, FALSE) ELSE Infix(op, b, a, TRUE)

RECURSIVE Diagonal(_, _, _, _)
\* diagonal() of diagonal_reduce, with the sum of products
Diagonal(a, b, all, n) ==
  LET xs == SubSeq(a, 1, n)  ys == SubSeq(b, 1, n)
      lx == IF Len(a) < n THEN Len(a) ELSE n
      ly == IF Len(b) < n THEN Len(b) ELSE n
      cut == (lx = ly /\ lx < n) \/ lx # ly
      cx == IF cut THEN SubSeq(a, n - ly + 1, lx) ELSE SubSeq(a, 1, lx)
      cy == Reverse(IF cut THEN SubSeq(b, n - lx + 1, ly) ELSE SubSeq(b, 1, ly))
  IN  IF (all /\ (lx < n \/ ly < n)) \/ cx = <<>> THEN <<>>
      ELSE <<FoldSeq(+, 0, [j \in 1..Len(cx) |-> cx[j] * cy[j]])>> \o Diagonal(a, b, all, n + 1)

Cauchyprod(a, b, all) == Diagonal(a, b, all, 1)

RECURSIVE Fibos(_, _, _), Triangles(_, _, _), Sieve(_, _, _)
Fibos(a, b, m) == IF m = 0 THEN <<>> ELSE <<a>> \o Fibos(b, a + b, m - 1)
Triangles(sum, r, m) == IF m = 0 THEN <<>> ELSE <<sum>> \o Triangles(sum + r, r + 1, m - 1)
\* _primes and _fastprimes: the primes found so far, up to the root, are tried
Sieve(memo, n, m) ==
  IF Len(memo) >= m THEN memo
  ELSE Sieve(IF \E j \in 1..Len(memo) : memo[j] * memo[j] <= n /\ n % memo[j] = 0 THEN memo ELSE Append(memo, n), n + 2, m)

RECURSIVE Partition(_, _)
\* MUTANT of Partition: a component that has been used is not used again
Partition_once(n, components) ==
  FlattenSeq([i \in 1..Len(components) |->
    LET k == components[i]  m == n - k
        fitting == SelectSeq(components, LAMBDA x : x <= m /\ x # k)
        items == IF m = 0 THEN <<<<>>>> ELSE Partition(m, fitting)
    IN  [j \in 1..Len(items) |-> <<k>> \o items[j]]])
\* partition_int_custom (numutil.py): a component, and the partitions of what is left
Partition(n, components) ==
  FlattenSeq([i \in 1..Len(components) |->
    LET k == components[i]  m == n - k
        fitting == SelectSeq(components, LAMBDA x : x <= m)
        items == IF m = 0 THEN <<<<>>>> ELSE Partition(m, fitting)
    IN  [j \in 1..Len(items) |-> <<k>> \o items[j]]])

\* partition_int and partition_int_triangular: the components from the largest; a ValueError
\* is <<0>>, which sums to nothing
Components(lower, upper, triangular) ==
  LET within == IF triangular THEN SelectSeq(Triangles(1, 2, upper), LAMBDA t : lower <= t /\ t <= upper)
                ELSE [j \in 1..(upper - lower + 1) |-> lower + j - 1]
  IN  Reverse(within)
PartitionInt(n, lower, upper, triangular) ==
  LET top == IF upper = <<>> THEN n ELSE upper[1]
  IN  IF lower < 1 \/ lower > n \/ top > n \/ lower > top THEN <<<<0>>>>
      ELSE Partition(n, Components(lower, top, triangular))

Ready(m) == [fibonacci |-> Fibos(1, 1, m), triangular |-> Triangles(1, 2, m), primes |-> Sieve(<<2>>, 3, m)]
------------------------------------------------------------------------------
Init == asked \in Calls /\ answered = <<>>
Call ==
  /\ answered = <<>> /\ UNCHANGED asked
  /\ answered' = <<CASE asked.f = "s" -> S(asked.spec, asked.last)
                     [] asked.f = "cyclic" -> Cyclic(asked.initial, asked.repeating, 9)
                     [] asked.f = "lift2" -> Lift2(asked.op, asked.a, asked.b)
                     [] asked.f = "lift1" -> Lift1(asked.a)
                     [] asked.f = "infix" -> Operator(asked.op, asked.a, asked.b)
                     [] asked.f = "diagonal" -> Cauchyprod(asked.a, asked.b, asked.all)
                     [] asked.f = "partition" -> PartitionInt(asked.n, asked.lower, asked.upper, asked.triangular)
                     [] asked.f = "ready" -> Ready(asked.m)>>
Spec == Init /\ [][Call]_qvars
------------------------------------------------------------------------------
(***************************************************************************)
(* Properties                                                              *)
(***************************************************************************)
\* The detection of power sequences looks at absolute values only (mathseq.py:337-342)
Signed(spec) == \E j \in 1..Len(spec) : spec[j] < 0

Begins(r, spec) == \A j \in 1..Len(spec) : Term(r.desc[1], j - 1, spec[j])

\* A specification that is accepted describes a sequence that begins with the terms
\* that were given, and which has the given last element for its last term
\* (mathseq.py:123-125, 278-391).  Signed power sequences are left out.
SpecificationsAreKept ==
  asked.f = "s" /\ answered # <<>> /\ answered[1].raised = "" =>
    LET r == answered[1] IN
    /\ (r.desc[1].seqtype = "power" => ~ Signed(asked.spec)) => Begins(r, asked.spec)
    /\ asked.last # <<>> => r.n > 0 /\ Term(r.desc[1], r.n - 1, asked.last[1])

\* "If spec matches none of the above, SyntaxError is raised" (mathseq.py:202)
OnlySyntaxErrors ==
  asked.f = "s" /\ answered # <<>> =>
    /\ answered[1].raised \in {"", "SyntaxError"}
    /\ answered[1].raised = "" => Begins(answered[1], asked.spec)

\* The products whose places add up to k, as far as they are there; with require="all",
\* only while all of them are
Products(a, b, k) == {p \in (1..Len(a)) \X (1..Len(b)) : p[1] + p[2] = k + 1}
SumOver(ps, a, b) == FoldSeq(LAMBDA p, acc : a[p[1]] * b[p[2]] + acc, 0, SetToSeq(ps))
RECURSIVE At(_, _)
\* The operand at a path of indices; a number is at every path below its place
At(x, path) == IF path = <<>> \/ ~ x.iterable THEN x ELSE At(x.items[Head(path)], Tail(path))

\* A partition is listed once, and all of them are: every sequence of numbers within the
\* bounds, triangular ones if so wanted, that sums to n (numutil.py:107-236).
PartitionsAreAll ==
  asked.f = "partition" /\ answered # <<>> /\ answered[1] # <<<<0>>>> =>
    LET n == asked.n
        fits(k) == /\ asked.lower <= k /\ (asked.upper = <<>> \/ k <= asked.upper[1])
                   /\ asked.triangular => \E j \in 1..n : 2 * k = j * (j + 1)
        sums == {s \in UNION {[1..m -> {k \in 1..n : fits(k)}] : m \in 1..n} : FoldSeq(+, 0, s) = n}
    IN  ToSet(answered[1]) = sums /\ IsInjective(answered[1])

\* Termwise operations meet what stands at the same place, in the order of the operands,
\* with numbers broadcast, and end with the shorter (mathseq.py:720-733); the diagonal
\* reduction forms each product of the table exactly once (mathseq.py:956-977); and the
\* ready-made sequences are what they are called (mathseq.py:981-1036); a cycle repeats.
TermwiseAndDiagonal ==
  answered # <<>> =>
    CASE asked.f \in {"lift2", "infix"} ->
           LET ok(path) == At(answered[1], path).iterable \/ At(answered[1], path).x = Atom(asked.op, At(asked.a, path).x, At(asked.b, path).x)
               Width(x) == Len(x.items)
           IN  /\ Width(answered[1]) = IF asked.a.iterable /\ asked.b.iterable
                                     THEN (IF Width(asked.a) < Width(asked.b) THEN Width(asked.a) ELSE Width(asked.b))
                                     ELSE Width(asked.a) + Width(asked.b)
               /\ \A i \in 1..Width(answered[1]) :
                    /\ ok(<<i>>)
                    /\ \A j \in 1..Width(answered[1].items[i]) : ok(<<i, j>>)
      [] asked.f = "lift1" -> \A i \in 1..Len(asked.a.items) : \A j \in 1..Len(asked.a.items[i].items) :
                                 At(answered[1], <<i, j>>).x = -At(asked.a, <<i, j>>).x
      [] asked.f = "diagonal" ->
           LET a == asked.a  b == asked.b  least == IF Len(a) < Len(b) THEN Len(a) ELSE Len(b)
           IN  answered[1] = [k \in 1..(IF asked.all THEN least ELSE IF least = 0 THEN 0 ELSE Len(a) + Len(b) - 1) |->
                              SumOver(Products(a, b, k), a, b)]
      [] asked.f = "ready" ->
           LET r == answered[1]  m == asked.m IN
           /\ \A j \in 3..m : r.fibonacci[j] = r.fibonacci[j - 1] + r.fibonacci[j - 2]
           /\ \A j \in 1..m : r.triangular[j] = (j * (j + 1)) \div 2
           /\ \A n \in 2..r.primes[m] : n \in ToSet(r.primes) <=> \A d \in 2..n - 1 : n % d # 0
      [] asked.f = "cyclic" -> \A j \in 1..Len(answered[1]) - Len(asked.repeating) :
           j > Len(asked.initial) => answered[1][j] = answered[1][j + Len(asked.repeating)]
      [] OTHER -> TRUE
==============================================================================
