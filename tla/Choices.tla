------------------------------ MODULE Choices ------------------------------
(***************************************************************************)
(* Nondeterministic evaluation: the function forall (unpythonic/amb.py)    *)
(* and the macro of that name (unpythonic/syntax/forall.py).               *)
(*                                                                         *)
(* Both chain the lines by the bind of the list monad.  The macro makes    *)
(* the name of each line a parameter of the lambda that holds the lines    *)
(* after it.  The function generates code in which all lines share one     *)
(* object, whose attributes are set, and deleted again, as the evaluation  *)
(* goes from branch to branch.                                             *)
(*                                                                         *)
(* A number n is the item <<n>>, a tuple of numbers the item of them all.  *)
(***************************************************************************)
EXTENDS Naturals, Sequences, FiniteSets, SequencesExt, TLC

CONSTANT Forms  \* lines of a forall: [name, body], without a name ""

VARIABLES lines, solved
avars == <<lines, solved>>

\* What a body gives: an iterable, a single item, a list monad, or an exception.
Value(kind, items) == [kind |-> kind, items |-> items]
Raised == Value("raises", <<>>)
\* The bodies: constants, and functions of the environment
Evaluate(body, e) ==
  IF ~ body.reads \subseteq DOMAIN e THEN Raised
  ELSE LET x == e[body.of] IN
       CASE body.kind = "constant" -> Value("iterable", body.items)
         [] body.kind = "next" -> Value("iterable", <<<<x + 1>>, <<x + 2>>>>)
         [] body.kind = "single" -> Value("single", <<x>>)
         [] body.kind = "all" -> Value("iterable", [k \in 1..Len(body.items) |-> <<e[body.items[k]]>>])
         [] body.kind = "insist" -> Value("monadic", IF x # 1 THEN <<<<1>>>> ELSE <<>>)
         [] body.kind = "fussy" -> IF x = 1 THEN Raised ELSE Value("single", <<x>>)

\* monadify: what is not a list monad becomes one; an iterable is taken apart if unpack says so.
Monadify(v, unpack) ==
  CASE v.kind = "monadic" -> v.items
    [] v.kind = "iterable" -> IF unpack THEN v.items ELSE <<FlattenSeq(v.items)>>
    [] OTHER -> <<v.items>>

IsLast(j) == j = Len(lines)
ItemsOf(j, e) ==
  LET v == Evaluate(lines[j].body, e)
  IN  IF v = Raised THEN <<>> ELSE <<Monadify(v, ~ IsLast(j))>>
------------------------------------------------------------------------------
\* The object e of forall: its names are those that it has.
Assign(e, k, v) == (k :> v) @@ e
CloseOver(e, freevars) == Restrict(e, DOMAIN e \cap freevars)
\* The names from the surrounding scopes
FreeVars(j) == {lines[i].name : i \in 1..j - 1} \ {""}
\* MUTANT of Begin: the scope is closed after the assignment
Begin_late(j, e, item) ==
  IF lines[j].name = "" THEN CloseOver(e, {})
  ELSE CloseOver(Assign(e, lines[j].name, item[1]), FreeVars(j))
\* What the lambda of a line does before it goes on to the next line
Begin(j, e, item) ==
  IF lines[j].name = "" THEN CloseOver(e, {})
  ELSE Assign(CloseOver(e, FreeVars(j)), lines[j].name, item[1])

\* An evaluation of the rest of the lines: the object as it leaves it, too
Done(items, e) == [raised |-> FALSE, items |-> items, e |-> e]
Broken(e) == [raised |-> TRUE, items |-> <<>>, e |-> e]

RECURSIVE RunFrom(_, _), RunBranches(_, _, _)
\* The generated code.  A line with a name, and the first one, is bound to the rest.
\* Any other is sequenced by "then", whose argument, the rest, is evaluated once,
\* before it is known how many items the line has.
RunFrom(j, e) ==
  LET items == ItemsOf(j, e) IN
  IF items = <<>> THEN Broken(e)
  ELSE IF IsLast(j) THEN Done(items[1], e)
  ELSE IF lines[j].name # "" \/ j = 1 THEN RunBranches(j, items[1], e)
  ELSE LET rest == RunFrom(j + 1, e)
       IN  IF rest.raised THEN rest
           ELSE Done(FlattenSeq([k \in 1..Len(items[1]) |-> rest.items]), rest.e)
\* fmap: the items one after the other, all with the same object
RunBranches(j, items, e) ==
  IF items = <<>> THEN Done(<<>>, e)
  ELSE LET branch == RunFrom(j + 1, Begin(j, e, Head(items))) IN
       IF branch.raised THEN branch
       ELSE LET others == RunBranches(j, Tail(items), branch.e)
            IN  [others EXCEPT !.items = branch.items \o @]

RECURSIVE ExpandFrom(_, _), ExpandBranches(_, _, _)
\* The expansion of the macro: every line is bound to the rest.
ExpandFrom(j, scope) ==
  LET items == ItemsOf(j, scope) IN
  IF items = <<>> THEN Broken(scope)
  ELSE IF IsLast(j) THEN Done(items[1], scope)
  ELSE ExpandBranches(j, items[1], scope)
ExpandBranches(j, items, scope) ==
  IF items = <<>> THEN Done(<<>>, scope)
  ELSE LET here == IF lines[j].name = "" THEN scope ELSE Assign(scope, lines[j].name, Head(items)[1])
           branch == ExpandFrom(j + 1, here)
       IN  IF branch.raised THEN branch
           ELSE LET others == ExpandBranches(j, Tail(items), scope)
                IN  [others EXCEPT !.items = branch.items \o @]

Init == lines \in Forms /\ solved = <<>>

Forall ==
  /\ solved = <<>>
  /\ solved' = <<[function |-> RunFrom(1, [n \in {} |-> 0]), macro |-> ExpandFrom(1, [n \in {} |-> 0])]>>
  /\ UNCHANGED lines
------------------------------------------------------------------------------
\* Each name is bound by one line.
Distinct == \A i, j \in 1..Len(lines) : lines[i].name # "" /\ lines[i].name = lines[j].name => i = j
\* A line that is sequenced, not bound, lets the next one run though it ends its branch.
Sequenced == \E j \in 2..Len(lines) - 1 : lines[j].name = ""

\* The function finds the same solutions, in the same order, as the macro: each line
\* sees the names of the lines before it and no others, with the values of its own
\* branch, although all branches share one object (amb.py:135-143), as long as no name
\* is bound twice; and it raises only where the macro does, or behind a line that is
\* sequenced.
ChoicesAreLexical ==
  solved # <<>> /\ Distinct =>
    LET f == solved[1].function  m == solved[1].macro IN
    /\ ~ f.raised => ~ m.raised /\ f.items = m.items
    /\ f.raised => m.raised \/ Sequenced

\* "so that we get proper lexical scoping" (amb.py:190), for all lines: fails when a
\* line binds a name that an earlier one has bound.
AlwaysLexical == solved # <<>> /\ ~ solved[1].function.raised => solved[1].function.items = solved[1].macro.items

\* "insist is a filter, which allows the remaining lines to run if the condition
\* evaluates to truthy" (features.md:3550): fails, since the rest is run once in any case.
InsistGuardsTheRest == solved # <<>> => (solved[1].function.raised => solved[1].macro.raised)
==============================================================================
