---------------------------- MODULE MCAlgorithms ----------------------------
(***************************************************************************)
(* Components that compute something from what they are given, each on its *)
(* own: a behaviour is one of Curry, Dispatch, Pipelines, Streams,         *)
(* Updates, MathSeq, LinkedLists, Choices or Monads, on one of the inputs  *)
(* below, or of Multishot, whose user goes on for as long as it likes; and *)
(* what it is not about stays as it is.                                    *)
(***************************************************************************)
EXTENDS Curry, LinkedLists, Monads, Integers

CONSTANTS Classes, Mro, Multimethods, Receivers, CallArgs, MaxMethods
CONSTANTS Chains, Specs
CONSTANTS Programs, Sources, MaxItems
CONSTANTS Updatings, Heaps
CONSTANTS Calls, MaxFactors
CONSTANT Forms
CONSTANTS SomeValue, Error, Code, Sendables, Exceptions, NoValue, MaxIterators, MaxObjects

VARIABLES registry, made, typed, dispatched
VARIABLES chain, at, pipe, planned, results
VARIABLES program, source, heap, value, outs, got, ended, orderly
VARIABLES updating, updated
VARIABLES asked, answered
VARIABLES lines, solved
VARIABLES its, mine, agrees, hist, over, entangled
VARIABLE subject

dvars == <<registry, made, typed, dispatched>>
lvars == <<chain, at, pipe, planned, results>>
svars == <<program, source, heap, value, outs, got, ended, orderly>>
uvars == <<updating, updated>>
qvars == <<asked, answered>>
avars == <<lines, solved>>
ivars == <<its, mine, agrees, hist, over, entangled>>
allvars == <<vars, dvars, lvars, svars, uvars, qvars, wvars, avars, mvars, ivars>>

D == INSTANCE Dispatch WITH call <- dispatched
L == INSTANCE Pipelines
S == INSTANCE Streams
U == INSTANCE Updates
Q == INSTANCE MathSeq
A == INSTANCE Choices
Y == INSTANCE Multishot
ASSUME MultishotAssumption == Y!MultishotAssumption

------------------------------------------------------------------------------
(***************************************************************************)
(* Types and values, and the functions of Curry: positional-only, named,   *)
(* variadic and default parameters; results that are callable, that are    *)
(* several values, or named ones; and a generic function.                  *)
(***************************************************************************)
Ty(m, n, as, b) == [meta |-> m, name |-> n, args |-> as, bare |-> b]
AnyT == Ty("Any", "", <<>>, TRUE)
IntT == Ty("class", "int", <<>>, TRUE)
StrT == Ty("class", "str", <<>>, TRUE)
IntsT == Ty("Tuple", "ellipsis", <<IntT>>, FALSE)
NoneT == Ty("none", "", <<>>, TRUE)
MCBasesOf ==
  [c \in {"bool", "tuple", "dict", "list"} |->
     CASE c = "bool" -> {"int"}
       [] c = "tuple" -> {"Sequence", "Iterable", "Sized"}
       [] c = "list" -> {"MutableSequence", "Sequence", "Iterable", "Sized"}
       [] c = "dict" -> {"Mapping", "Iterable", "Sized"}]

V(c, n) == [cls |-> c, val |-> n, items |-> <<>>]
I(n) == V("int", n)
Param(n, k, t) == [name |-> n, kind |-> k, req |-> TRUE, dflt |-> V("NoneType", "None"), type |-> t]
P(n, k) == Param(n, k, NoneT)
Opt(p) == [p EXCEPT !.req = FALSE]
Ints(n) == Param(n, POS_OR_KW, IntT)
M(n, sig) == [method |-> [name |-> n, sig |-> sig]]
Func(n, sig, rets, kwrets) == [generic |-> FALSE, methods |-> <<M(n, sig)>>, rets |-> rets, kwrets |-> kwrets]

MCFunctions ==
  [n \in {"f", "g", "h", "k", "v", "w", "m", "t", "n"} |->
     CASE n = "f" -> Func("f", <<P("a", POS_OR_KW), P("b", POS_OR_KW)>>, <<THIS>>, {})
       [] n = "g" -> Func("g", <<P("a", POS_OR_KW)>>, <<FunctionNamed("f"), THIS>>, {<<"b", I("kb")>>})
       [] n = "h" -> Func("h", <<P("a", POS_ONLY), Opt(P("b", POS_OR_KW)), P("c", KW_ONLY)>>, <<THIS>>, {})
       [] n = "k" -> Func("k", <<P("a", POS_OR_KW), P("args", VAR_POS), Opt(P("c", KW_ONLY)), P("kw", VAR_KW)>>,
                          <<>>, {<<"c", I("kc")>>})
       [] n = "v" -> Func("v", <<P("a", POS_OR_KW)>>, <<FunctionNamed("f")>>, {})
       [] n = "w" -> Func("w", <<P("a", POS_OR_KW), P("kw", VAR_KW)>>, <<THIS>>, {})
       [] n = "t" -> Func("t", <<Ints("a"), P("b", POS_OR_KW)>>, <<THIS>>, {})
       [] n = "n" -> Func("n", <<Ints("a"), Param("b", POS_OR_KW, StrT), Ints("c")>>, <<THIS>>, {})
       [] n = "m" -> [generic |-> TRUE, rets |-> <<THIS>>, kwrets |-> {},
                      methods |-> <<M("m1", <<Param("a", POS_OR_KW, StrT)>>), M("m2", <<Ints("a"), Ints("b")>>)>>]]
MCScripts ==
  [fn : DOMAIN MCFunctions, outer : BOOLEAN,
   args : {<<>>, <<I("1")>>, <<I("1"), I("2")>>, <<I("1"), I("2"), I("3")>>, <<V("str", "s"), I("2")>>,
           <<I("1"), V("str", "s"), I("3")>>, <<I("1"), V("str", "s")>>},
   kw : {{}, {<<"b", I("4")>>}, {<<"c", I("5")>>}, {<<"a", I("6")>>, <<"b", I("7")>>}}]

(***************************************************************************)
(* Dispatch: a diamond, an instance that is false, and multimethods one of *)
(* which lacks an annotation.                                              *)
(***************************************************************************)
Self == Param("self", POS_OR_KW, AnyT)
MCClasses == {"A", "B", "C", "D"}
MCMro == [c \in MCClasses |->
  CASE c = "A" -> <<"A">> [] c = "B" -> <<"B", "A">> [] c = "C" -> <<"C", "A">> [] c = "D" -> <<"D", "B", "C", "A">>]
MCMultimethods ==
  {[name |-> "any", sig |-> <<Self, Param("x", POS_OR_KW, AnyT)>>],
   [name |-> "int", sig |-> <<Self, Ints("x")>>],
   [name |-> "ints", sig |-> <<Self, Param("args", VAR_POS, IntsT)>>],
   [name |-> "bad", sig |-> <<Self, P("x", POS_OR_KW)>>]}
MCReceivers ==
  {[cls |-> "B", truthy |-> TRUE], [cls |-> "B", truthy |-> FALSE], [cls |-> "D", truthy |-> TRUE]}
MCCallArgs ==
  {[args |-> <<V("bool", "1")>>, kw |-> {}], [args |-> <<>>, kw |-> {<<"x", V("str", "s")>>}],
   [args |-> <<>>, kw |-> {}], [args |-> <<I("1"), I("2")>>, kw |-> {}]}

(***************************************************************************)
(* Pipelines: chains of up to three functions of one or two values, which  *)
(* give none, one or two.                                                  *)
(***************************************************************************)
Item(n) == <<n>>
StartingFrom(rets, kwrets) == [rets |-> rets, kwrets |-> kwrets]
Stage(n, params, named, gives, curried) ==
  [name |-> n, params |-> params, named |-> named, gives |-> gives, curried |-> curried]
One == Stage("one", 1, {}, 1, FALSE)
Other == Stage("other", 1, {}, 1, FALSE)
MCStages == {One, Stage("two", 2, {}, 1, FALSE), Stage("split", 1, {}, 2, FALSE),
             Stage("named", 1, {"k"}, 1, FALSE), Stage("eat", 2, {}, 0, FALSE)}
MCStarts == {StartingFrom(<<Item("a")>>, {}), StartingFrom(<<Item("a"), Item("b")>>, {}),
             StartingFrom(<<Item("a"), Item("b"), Item("c")>>, {}), StartingFrom(<<Item("a")>>, {<<"k", "v">>}),
             StartingFrom(<<Item("a"), Item("b")>>, {<<"k", "v">>})}
MCChains == [start : MCStarts,
             stages : UNION {[1..n -> MCStages] : n \in 1..3} \cup [1..2 -> MCStages \cup {[One EXCEPT !.curried = TRUE]}]]
MCSpecs == {<<<<-2, One>>>>, <<<<0, One>>>>, <<<<-1, One>>, <<0, Other>>, <<1, One>>>>, <<<<1, One>>, <<1, Other>>>>}

(***************************************************************************)
(* Streams: every function, on sequences with and without repetitions.     *)
(***************************************************************************)
Program(f, n, k, longest) == [f |-> f, n |-> n, k |-> k, longest |-> longest]
WithCount == {"take", "drop", "split_at", "butlastn", "lastn", "nth", "pad", "iindex", "inn", "unfold"}
OfOne == {"last", "scons", "within", "interleave", "uniqify", "uniq", "partition", "powerset", "iterate", "rev", "map",
          "scanl1", "rscanl1", "scanr1", "reducel", "reducer", "rreducel", "running_minmax", "minmax", "allsame"}
OfTwo == {"rmap", "rzip", "mapr", "zipr", "scanr", "scanl", "rscanl", "foldl", "foldr", "rfoldl"}
MCPrograms ==
  {Program(f, n, 0, FALSE) : f \in WithCount, n \in 0..3}
  \cup {Program(f, n, 0, FALSE) : f \in {"window", "chunked"}, n \in 2..3}
  \cup {Program(f, 0, 0, FALSE) : f \in OfOne}
  \cup {Program(f, 0, 0, l) : f \in OfTwo, l \in BOOLEAN} \cup {Program("map_longest", 0, 0, TRUE)}
  \cup {Program("unpack", n, k, FALSE) : n \in 0..3, k \in 0..3}
  \cup [f : {"islice"}, start : -3..2, stop : {<<>>} \cup {<<n>> : n \in -3..3}, step : {1, 2}]
MCSources ==
  {<<>>, <<1>>, <<1, 2>>, <<2, 2>>, <<1, 1, 2, 3>>, <<3, 2, 2, 1>>, <<2, 1, 2, 1>>, <<1, 2, 3, 1>>}
  \X {<<>>, <<1, 3>>, <<2, 5, 1, 4, 3>>}

(***************************************************************************)
(* Updates: four items, one or two updates of them; trees of containers of *)
(* which one may be shared.                                                *)
(***************************************************************************)
Ends == {<<>>, <<-2>>, <<1>>, <<3>>, <<4>>, <<5>>}
Ones == [kind : {"one"}, ix : {-1, 1, 7}, v : {20}, count : {0}]
Shadows == Ones \cup [kind : {"sequence", "iterator", "memoized"}, count : {0},
                      ix : [start : Ends, stop : Ends, step : {1, 2, -1, -2}],
                      v : {<<21, 22>>, <<31, 32, 33, 34>>}]
Seconds == Ones \cup [kind : {"sequence", "iterator"}, count : {0}, v : {<<41, 42>>},
                      ix : {[start |-> <<1>>, stop |-> <<3>>, step |-> 1], [start |-> <<>>, stop |-> <<>>, step |-> 2]}]
MCUpdatings == [f : {"fupdate"}, target : {<<1, 2, 3, 4>>},
                shadows : {<<>>} \cup {<<s>> : s \in Shadows} \cup (Shadows \X Seconds)]
Leaf(x) == [atom |-> <<x>>, at |-> 0]
To(i) == [atom |-> <<>>, at |-> i]
Leaves == {<<Leaf(1)>>, <<Leaf(1), Leaf(2)>>}
Inner(i) == Leaves \cup {<<To(3)>>, <<Leaf(1), To(3)>>, <<To(i + 1), To(3)>>, <<To(i + 1), To(i + 1)>>}
Containers(items) == [mutable : BOOLEAN, items : items]
MCHeaps == [f : {"mogrify"}, heap : Containers(Inner(1)) \X Containers(Inner(2)) \X Containers(Leaves)]

(***************************************************************************)
(* MathSeq: specifications of up to four terms of either sign, with and    *)
(* without a last element; sequences of sequences.                         *)
(***************************************************************************)
Numbers == {-4, -2, -1, 0, 1, 2, 3, 4, 8, 16}
Four == {-2, -4, 0, 1, 2, 3, 4}
Specifications ==
  [f : {"s"}, spec : {<<x>> : x \in Numbers} \cup (Numbers \X Numbers) \cup (Numbers \X Numbers \X Numbers),
   last : {<<>>} \cup {<<x>> : x \in {-8, 0, 1, 5, 16, 64}}]
  \cup [f : {"s"}, spec : Four \X Four \X (Four \cup {8, 16}) \X {4, 5, 8, 16, 256}, last : {<<>>, <<16>>}]
Number(x) == [iterable |-> FALSE, x |-> x, items |-> <<>>]
Iterable(xs) == [iterable |-> TRUE, x |-> 0, items |-> xs]
Terms == {Number(1), Number(5), Iterable(<<>>), Iterable(<<Number(2), Number(7)>>)}
Operands == Terms \cup {Iterable(<<x, y>>) : x \in Terms, y \in Terms} \cup {Iterable(<<x>>) : x \in Terms}
Rows == {<<>>, <<1>>, <<1, 2>>, <<3, 1, 2>>, <<2, 5, 3, 7>>}
MCCalls ==
  Specifications \cup [f : {"lift2"}, op : {"ssub", "slt"}, a : Operands, b : Operands]
  \cup [f : {"lift1"}, a : Operands]
  \cup {c \in [f : {"infix"}, op : {"ssub", "smul"}, a : Operands, b : Terms] : c.a.iterable \/ c.b.iterable}
  \cup [f : {"diagonal"}, a : Rows, b : Rows, all : BOOLEAN] \cup [f : {"ready"}, m : {12}]
  \cup [f : {"partition"}, n : {1, 3, 5}, lower : 0..2, upper : {<<>>, <<3>>, <<4>>}, triangular : BOOLEAN]
  \cup [f : {"cyclic"}, initial : {<<>>, <<1, 2>>}, repeating : {<<3>>, <<3, 4>>}]

(***************************************************************************)
(* LinkedLists: structures of up to four cells, lists and others.          *)
(***************************************************************************)
EndsOfCells == {Nil, Atom(1), Atom(2)}
Shallow == {Nil} \cup {Cell(a, d) : a \in EndsOfCells, d \in EndsOfCells}
Deeper == {Cell(a, d) : a \in EndsOfCells \cup Shallow, d \in EndsOfCells \cup Shallow}
Deepest ==
  {Cell(a, d) : a \in {Atom(1), Cell(Atom(1), Nil), Cell(Atom(2), Atom(1))}, d \in Deeper}
MCStructures ==
  ((Shallow \cup Deeper) \X Shallow) \cup {<<c, c>> : c \in Deepest}
  \cup (Deepest \X {Nil, Cell(Atom(1), Cell(Atom(2), Nil))})

(***************************************************************************)
(* Choices: up to four lines, with names that are used, bound again or     *)
(* missing, and lines that end a branch or raise.                          *)
(***************************************************************************)
Body(kind, of, items) ==
  [kind |-> kind, of |-> of, items |-> items, reads |-> IF kind = "all" THEN {items[k] : k \in DOMAIN items} ELSE {of} \ {""}]
Line(name, body) == [name |-> name, body |-> body]
OneTwo == Body("constant", "", <<<<1>>, <<2>>>>)
FirstLines == {Line("x", OneTwo), Line("", OneTwo), Line("y", Body("constant", "", <<<<2>>>>)), Line("x", Body("constant", "", <<>>))}
MiddleLines ==
  {Line(n, Body("next", o, <<>>)) : n \in {"x", "y", "z"}, o \in {"x", "y"}}
  \cup {Line("y", OneTwo), Line("z", OneTwo), Line("", OneTwo)}
  \cup {Line("", Body(k, "x", <<>>)) : k \in {"insist", "fussy", "single"}}
LastLines ==
  {Line("", Body(k, "x", <<>>)) : k \in {"next", "single", "insist", "fussy"}}
  \cup {Line("", Body("all", "x", <<"x", "y">>)), Line("", Body("all", "x", <<"z", "x">>))}
MCForms ==
  {<<l>> : l \in {Line("", OneTwo), Line("", Body("single", "x", <<>>))}}
  \cup (FirstLines \X LastLines) \cup (FirstLines \X MiddleLines \X LastLines)
  \cup (FirstLines \X MiddleLines \X MiddleLines \X LastLines)

(***************************************************************************)
(* Monads: values of each monad, nil among what they hold, three states.   *)
(***************************************************************************)
MCStates == 0..2
Held == {NilData, Data(0), Data(1)}
ValuesOf(m) ==
  CASE m = "List" -> {FromIterable(xs) : xs \in {<<>>} \cup [1..1 -> Held] \cup [1..2 -> Held]}
    [] m = "Writer" -> {[m |-> m, x |-> x, log |-> l] : x \in Held, l \in {<<>>, Log}}
    [] m = "State" -> {Get, Put(1), Unit(m, Data(1)), Modify(Bump),
                       StateOf([s \in MCStates |-> IF s = 1 THEN <<NilData, 2>> ELSE <<Data(s), 0>>])}
    [] m = "Reader" -> {Ask, Unit(m, Data(1)),
                        ReaderOf([e \in MCStates |-> IF e = 1 THEN NilData ELSE Data(e)])}
    [] OTHER -> {New(m, x) : x \in Held}
Kleisli == {"unit", "end", "effect"}
MCMonadChains ==
  UNION {[m : {m}, mx : ValuesOf(m), k1 : Kleisli, k2 : Kleisli, f : {"next", "vanish"}, g : {"next", "vanish"}] : m \in MonadClasses}

(***************************************************************************)
(* Multishot: a generator that delegates to one that is sent a value; two  *)
(* iterators over it.                                                      *)
(***************************************************************************)
MCCode == [outer |-> <<"from", "yield">>, inner |-> <<"bind">>]

------------------------------------------------------------------------------
AnyOf(X) == CHOOSE x \in X : TRUE

MCInit ==
  /\ subject \in {"curry", "dispatch", "pipelines", "streams", "updates", "mathseq", "lists", "choices", "monads",
                 "multishot"}
  /\ (subject # "curry" => script = AnyOf(Scripts)) /\ Init
  /\ D!Init /\ Y!Init
  /\ (subject # "pipelines" => chain = AnyOf(Chains)) /\ L!Init
  /\ (subject # "streams" => program = Program("take", 0, 0, FALSE) /\ source = AnyOf(Sources)) /\ S!Init
  /\ (subject # "updates" => updating = AnyOf(Heaps)) /\ U!Init
  /\ (subject # "mathseq" => asked = [f |-> "ready", m |-> 12]) /\ Q!Init
  /\ IF subject = "lists" THEN ListsInit ELSE structures = <<>> /\ walked = <<>>
  /\ IF subject = "choices" THEN A!Init ELSE lines = <<>> /\ solved = <<>>
  /\ IF subject = "monads" THEN MonadsInit ELSE composing = <<>> /\ computed = <<>>

CurryStep(B) == subject = "curry" /\ B /\ UNCHANGED <<dvars, lvars, svars, uvars, qvars, wvars, avars, mvars, ivars, subject>>
DispatchStep(B) == subject = "dispatch" /\ B /\ UNCHANGED <<vars, lvars, svars, uvars, qvars, wvars, avars, mvars, ivars, subject>>
PipelinesStep(B) == subject = "pipelines" /\ B /\ UNCHANGED <<vars, dvars, svars, uvars, qvars, wvars, avars, mvars, ivars, subject>>
StreamsStep(B) == subject = "streams" /\ B /\ UNCHANGED <<vars, dvars, lvars, uvars, qvars, wvars, avars, mvars, ivars, subject>>
UpdatesStep(B) == subject = "updates" /\ B /\ UNCHANGED <<vars, dvars, lvars, svars, qvars, wvars, avars, mvars, ivars, subject>>
MathSeqStep(B) == subject = "mathseq" /\ B /\ UNCHANGED <<vars, dvars, lvars, svars, uvars, wvars, avars, mvars, ivars, subject>>
ListsStep(B) == subject = "lists" /\ B /\ UNCHANGED <<vars, dvars, lvars, svars, uvars, qvars, avars, mvars, ivars, subject>>
ChoicesStep(B) == subject = "choices" /\ B /\ UNCHANGED <<vars, dvars, lvars, svars, uvars, qvars, wvars, mvars, ivars, subject>>
MonadsStep(B) == subject = "monads" /\ B /\ UNCHANGED <<vars, dvars, lvars, svars, uvars, qvars, wvars, avars, ivars, subject>>
MultishotStep(B) == subject = "multishot" /\ B /\ UNCHANGED <<vars, dvars, lvars, svars, uvars, qvars, wvars, avars, mvars, subject>>

MCNext ==
  \/ CurryStep(Next) \/ DispatchStep(D!Next) \/ PipelinesStep(L!Next)
  \/ StreamsStep(S!ConsumeAny) \/ UpdatesStep(U!UpdatesStep) \/ MathSeqStep(Q!Call)
  \/ ListsStep(Walk) \/ ChoicesStep(A!Forall) \/ MonadsStep(Compute)
  \/ MultishotStep(Y!Next)

MCSpec == MCInit /\ [][MCNext]_<<allvars, subject>>

\* Curry: one call of a curried function and the same call in steps agree.
CurriedCallsAgree == subject = "curry" => TypeOK /\ SplitsAgree
\* Dispatch: a call runs the first multimethod that matches, in MRO order.
TriedInMroOrder == subject = "dispatch" => D!TypeOK /\ D!TriedInMroOrder
\* Pipelines: the families of compositions and pipes agree, and to() puts each
\* result in its place.  Choices: the function and the macro forall agree.  Monads:
\* the laws, and what is lifted.
ChainsAgree ==
  /\ subject = "pipelines" => L!TypeOK /\ L!FamiliesAgree /\ L!ToUpdatesInPlace
  /\ subject = "choices" => A!ChoicesAreLexical
  /\ subject = "monads" => MonadsAreLawful /\ LiftedFunctionsAgree
\* Streams: the functions give what they say, and read no more than they need.
\* Multishot: every iterator gives what is due for what it was sent.
StreamsAgree ==
  /\ subject = "streams" => S!StreamsAgree /\ S!NothingReadAhead
  /\ subject = "multishot" => Y!TypeOK /\ Y!TimelinesAreIndependent
\* Updates: fupdate does what assignment does to a copy; mogrify is map.  LinkedLists:
\* lists are sequences, equality is structural, trees are walked in order.
StructuresAgree ==
  /\ subject = "updates" => U!FupdateIsAssignment /\ U!MogrifyIsMap
  /\ subject = "lists" => ListsAreSequences /\ EqualityIsStructural /\ TreesAreWalkedInOrder
\* MathSeq: a sequence has the terms it was specified with, operations are
\* termwise, products go by the diagonals, and partitions are complete.
SequencesAgree == subject = "mathseq" => Q!SpecificationsAreKept /\ Q!TermwiseAndDiagonal /\ Q!PartitionsAreAll
==============================================================================
