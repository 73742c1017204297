------------------------------- MODULE Monads -------------------------------
(***************************************************************************)
(* The monads (unpythonic/monads) and their do-notation (unpythonic/       *)
(* syntax/monadic_do.py).  Data are naturals and nil, which None counts as *)
(* too; a state, or an environment, is one of States.  A state processor   *)
(* or a reader is a function, and runs where it is applied.                *)
(***************************************************************************)
EXTENDS Naturals, Sequences, SequencesExt

CONSTANTS
  MonadChains,  \* a monad, a value of it, two functions into it, and two plain functions
  States   \* states and environments: an initial segment of Nat

VARIABLES composing, computed
mvars == <<composing, computed>>

MonadClasses == {"Identity", "Maybe", "Left", "Right", "List", "Writer", "State", "Reader"}
Data(v) == [m |-> "data", v |-> <<v>>]
NilData == [m |-> "data", v |-> <<>>]
Values == {NilData} \cup {Data(n) : n \in 0..2 \cup States}
TypeError == [m |-> "TypeError"]
Log == <<"entry">>
------------------------------------------------------------------------------
\* The constructors.  State and Reader wrap functions, which data are not; Either is abstract.
New(M, x) ==
  CASE M \in {"Identity", "Maybe", "Left", "Right"} -> [m |-> M, x |-> x]
    [] M = "List" -> [m |-> M, xs |-> IF x = NilData THEN <<>> ELSE <<x>>]
    [] M = "Writer" -> [m |-> M, x |-> x, log |-> <<>>]
    [] OTHER -> TypeError
FromIterable(xs) == [m |-> "List", xs |-> xs]
StateOf(f) == [m |-> "State", f |-> f]
ReaderOf(f) == [m |-> "Reader", f |-> f]
\* The unit of each monad
Unit(M, x) ==
  CASE M = "State" -> StateOf([s \in States |-> <<x, s>>])
    [] M = "Reader" -> ReaderOf([e \in States |-> x])
    [] M \in {"Either", "Left"} -> New("Right", x)
    [] OTHER -> New(M, x)

\* isinstance(mx, M)
IsA(mx, M) == mx.m = M \/ (M = "Either" /\ mx.m \in {"Left", "Right"})
RunM(mx, s) == mx.f[s]

\* BindM of State: the state goes through both processors.
BindState(mx, f) ==
  StateOf([s \in States |-> LET first == RunM(mx, s)  next == f[first[1]]
                            IN  IF next = TypeError THEN <<TypeError, s>> ELSE RunM(next, first[2])])

Fmap(mx, f) ==
  CASE mx.m = "Left" \/ (mx.m = "Maybe" /\ mx.x = NilData) -> mx
    [] mx.m = "List" -> FromIterable([i \in 1..Len(mx.xs) |-> f[mx.xs[i]]])
    [] mx.m = "State" -> BindState(mx, [a \in Values |-> Unit("State", f[a])])
    [] mx.m = "Reader" -> ReaderOf([e \in States |-> f[RunM(mx, e)]])
    [] OTHER -> [mx EXCEPT !.x = f[@]]

\* MUTANT of Joined: the log of the inner writer comes first
Joined_inner(log, inner) == [inner EXCEPT !.log = @ \o log]
\* A writer in a writer: the outer log goes before the inner one.
Joined(log, inner) == [inner EXCEPT !.log = log \o @]
Join(mx) ==
  CASE mx.m = "Left" \/ (mx.m = "Maybe" /\ mx.x = NilData) -> mx
    [] mx.m = "List" -> IF \A i \in 1..Len(mx.xs) : IsA(mx.xs[i], "List")
                        THEN FromIterable(FlattenSeq([i \in 1..Len(mx.xs) |-> mx.xs[i].xs])) ELSE TypeError
    [] mx.m = "State" -> StateOf([s \in States |-> LET inner == RunM(mx, s) IN
                                                   IF IsA(inner[1], "State") THEN RunM(inner[1], inner[2]) ELSE <<TypeError, s>>])
    [] mx.m = "Reader" -> ReaderOf([e \in States |-> IF IsA(RunM(mx, e), "Reader") THEN RunM(RunM(mx, e), e) ELSE TypeError])
    [] mx.m = "Writer" -> IF IsA(mx.x, "Writer") THEN Joined(mx.log, mx.x) ELSE TypeError
    [] mx.m = "Right" -> IF IsA(mx.x, "Either") THEN mx.x ELSE TypeError
    [] OTHER -> IF IsA(mx.x, mx.m) THEN mx.x ELSE TypeError

\* >>, which is the default one in all monads but State
BindM(mx, f) == IF mx.m = "State" THEN BindState(mx, f) ELSE Join(Fmap(mx, f))
Then(mx, other) ==
  IF IsA(other, IF IsA(mx, "Either") THEN "Either" ELSE mx.m) THEN BindM(mx, [x \in Values |-> other]) ELSE TypeError

\* A pass or short-circuit token
Guard(M, b) ==
  CASE M \in {"Either", "Left", "Right"} -> IF b THEN New("Right", Data(1)) ELSE New("Left", Data(0))
    [] M = "Maybe" -> New("Maybe", IF b THEN Data(1) ELSE NilData)
    [] OTHER -> FromIterable(IF b THEN <<Data(1)>> ELSE <<>>)
Tell(entry) == [m |-> "Writer", x |-> NilData, log |-> entry]

Get == StateOf([s \in States |-> <<Data(s), s>>])
Put(s) == StateOf([t \in States |-> <<NilData, s>>])
Modify(f) == BindM(Get, [s \in Values |-> Put(f[s.v[1]])])
Gets(f) == BindM(Get, [s \in Values |-> Unit("State", f[s])])
Ask == ReaderOf([e \in States |-> Data(e)])
Asks(f) == BindM(Ask, [e \in Values |-> Unit("Reader", f[e])])
Local(mx, f) == ReaderOf([e \in States |-> RunM(mx, f[e])])

\* lift, and liftm, which constructs M(...) in the end
Lift(M, f, x) == IF M \in {"Left", "Right", "Either"} THEN New("Right", f[x]) ELSE New(M, f[x])
Liftm(M, f, mx) == IF IsA(mx, M) THEN BindM(mx, [x \in Values |-> New(M, f[x])]) ELSE TypeError
Liftm2(M, f, mx, my) ==
  IF IsA(mx, M) /\ IsA(my, M)
  THEN BindM(mx, [x \in Values |-> BindM(my, [y \in Values |-> New(M, f[x, y])])]) ELSE TypeError
Liftm3(M, f, mx, my, mz) ==
  IF \A m \in {mx, my, mz} : IsA(m, M)
  THEN BindM(mx, [x \in Values |-> BindM(my, [y \in Values |-> BindM(mz, [z \in Values |-> New(M, f[x, y, z])])])])
  ELSE TypeError

\* monadic_do[M] of two bindings, a bare line and a last line: a chain of binds
MonadicDo(mx, my, bare, last) ==
  BindM(mx, [x \in Values |-> BindM(my[x], [y \in Values |-> BindM(bare, [ignored \in Values |-> last[x, y]])])])
------------------------------------------------------------------------------
\* The functions that are passed.  Plain ones:
Successor(x) == IF x = NilData THEN Data(0) ELSE Data((x.v[1] + 1) % 3)
Plain(name, x) == CASE name = "next" -> Successor(x) [] name = "vanish" -> IF x = Data(1) THEN NilData ELSE x
Bump == [n \in States |-> IF n + 1 \in States THEN n + 1 ELSE n]
\* and ones into the monad M.
Into(M, name, x) ==
  CASE name = "unit" -> Unit(M, Successor(x))
    [] name = "end" -> (CASE M \in {"Left", "Right"} -> New("Left", Data(2))
                          [] M \in {"Maybe", "List"} -> Guard(M, FALSE)
                          [] M = "Writer" -> Tell(Log)
                          [] M = "State" -> Put(0)
                          [] M = "Reader" -> Ask
                          [] OTHER -> Unit(M, NilData))
    [] name = "effect" -> (CASE M \in {"Left", "Right"} -> Then(Guard(M, x # Data(1)), New("Right", x))
                             [] M \in {"Maybe"} -> Then(Guard(M, x # Data(1)), New(M, Successor(x)))
                             [] M = "List" -> FromIterable(<<x, Successor(x)>>)
                             [] M = "Writer" -> [m |-> M, x |-> Successor(x), log |-> IF x = NilData THEN Log \o Log ELSE <<"next">>]
                             [] M = "State" -> Then(Modify(Bump), Gets([s \in Values |-> IF x = NilData THEN s ELSE x]))
                             [] M = "Reader" -> Local(Asks([e \in Values |-> IF x = NilData THEN e ELSE x]), Bump)
                             [] OTHER -> Unit(M, x))

MonadsInit == composing \in MonadChains /\ computed = <<>>

Compute ==
  /\ computed = <<>>
  /\ LET M == composing.m  mx == composing.mx
         K1 == [x \in Values |-> Into(M, composing.k1, x)]  K2 == [x \in Values |-> Into(M, composing.k2, x)]
         F == [x \in Values |-> Plain(composing.f, x)]  G == [x \in Values |-> Plain(composing.g, x)]
         Second == [x, y \in Values |-> y]
     IN computed' =
       <<[ left |-> BindM(BindM(mx, K1), K2), right |-> BindM(mx, [x \in Values |-> BindM(K1[x], K2)]),
           done |-> MonadicDo(mx, K1, Unit(M, Data(0)), [x, y \in Values |-> K2[y]]),
           joined |-> Join(Fmap(mx, K1)), bound |-> BindM(mx, K1),
           units |-> [x \in {NilData, Data(0), Data(1)} |-> <<BindM(Unit(M, x), K1), K1[x]>>],
           back |-> BindM(mx, [x \in Values |-> Unit(M, x)]),
           mapped |-> Fmap(Fmap(mx, F), G), composed |-> Fmap(mx, [x \in Values |-> G[F[x]]]),
           lifted |-> IF M \in {"State", "Reader"} THEN Fmap(mx, F) ELSE BindM(mx, [x \in Values |-> Lift(M, F, x)]),
           liftm |-> Liftm(M, F, mx), liftm2 |-> Liftm2(M, Second, mx, BindM(mx, K1)),
           then |-> Then(mx, BindM(mx, K1)),
           liftm3 |-> Liftm3(M, [x, y, z \in Values |-> z], mx, mx, mx), twice |-> Liftm2(M, Second, mx, mx),
           once |-> Fmap(mx, F)]>>
  /\ UNCHANGED composing
------------------------------------------------------------------------------
Atoms(mx) ==
  CASE mx.m = "List" -> ToSet(mx.xs)
    [] mx.m = "State" -> {RunM(mx, s)[1] : s \in States}
    [] mx.m = "Reader" -> {RunM(mx, s) : s \in States}
    [] OTHER -> {mx.x}
\* nil stands for nothing in Maybe, and for no items when a List is constructed.
InBand == composing.m \in {"Maybe", "List"}

\* The order in which a chain is put together does not matter: associativity, also of the
\* chain that the do-notation makes; bind is map and join, where it is overridden too;
\* the unit is neutral on both sides and maps compose, but for the nil of Maybe and List
\* (monads/maybe.py:27-30).  A writer logs in the order of the computation.
MonadsAreLawful ==
  computed # <<>> =>
    LET r == computed[1] IN
    /\ r.left = r.right /\ r.done = r.right
    /\ r.joined = r.bound
    /\ composing.m = "Writer" => IsPrefix(composing.mx.log, r.bound.log)
    /\ \A x \in DOMAIN r.units : (InBand /\ x = NilData) \/ r.units[x][1] = r.units[x][2]
    /\ (composing.m = "List" /\ NilData \in Atoms(composing.mx)) \/ r.back = composing.mx
    /\ (composing.m = "Maybe" /\ composing.f = "vanish") \/ r.mapped = r.composed

\* What lift and liftm make of a function does what fmap does with it, and the lifted
\* function of several arguments runs them from left to right, each once (monads/core.py).
LiftedFunctionsAgree ==
  computed # <<>> =>
    LET r == computed[1]  lists == composing.m = "List" /\ (composing.f = "vanish" \/ NilData \in Atoms(composing.mx)) IN
    /\ lists \/ r.lifted = r.once
    /\ composing.m \in {"State", "Reader"} \/ lists \/ r.liftm = r.once
    /\ composing.m \in {"Identity", "Writer"} => r.liftm2 = r.then /\ r.liftm3 = Then(composing.mx, r.twice)

\* "produce a function that takes one monadic argument M a and returns M r"
\* (monads/core.py:46-47): fails for State and Reader, whose unit is not their constructor.
LiftmIsFmap == computed # <<>> => computed[1].liftm = computed[1].once
==============================================================================
