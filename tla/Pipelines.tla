------------------------------ MODULE Pipelines -------------------------------
(***************************************************************************)
(* Sending multiple values through a chain of functions: the compose       *)
(* family, tokth and to, flip and rotate of unpythonic/fun.py, the pipes   *)
(* of unpythonic/seq.py, and the unpacking of Values in funutil.py.        *)
(*                                                                         *)
(* What travels is a Values [rets, kwrets]: a sequence, and a set of pairs *)
(* <<name, value>>.  A function that returns one thing returns it as the   *)
(* only member of rets.  A stage is a record [name, params, named, gives,  *)
(* curried]: the number of its positional parameters, the names of its     *)
(* keyword-only parameters, how many positional values it returns (each    *)
(* tells which arguments it came from) and whether it is curried.          *)
(***************************************************************************)
EXTENDS Integers, Sequences

CONSTANTS
  Chains,          \* set of [start, stages]: initial values and the functions they go through
  Specs,           \* set of sequences of <<k, stage>>, for to()
  None

VARIABLES
  chain,           \* the chain being run, or None
  at,              \* the stages that a piped object has been through
  pipe,            \* what is in the piped object: Values, or an error
  planned,         \* the functions a lazy_piped object has collected
  results           \* the value at the exit of each family, or None

vars == <<chain, at, pipe, planned, results>>

LOCAL Folds == INSTANCE SequencesExt

Values(rets, kwrets) == [rets |-> rets, kwrets |-> kwrets]
Failed == Values(<<<<"TypeError">>>>, {})
ItemOf(stage, args, kw, i) == <<stage.name, i, args, kw>>
NamesIn(kw) == {p[1] : p \in kw}

(***************************************************************************)
(* Calling a stage with the contents of a Values.  A curried stage passes  *)
(* on what it does not take, if there is a curry context around it, and    *)
(* waits if something is missing.                                          *)
(***************************************************************************)
Run(stage, args, kw) ==
  Values([i \in 1..stage.gives |-> ItemOf(stage, args, kw, i)], {})

Least(a, b) == IF a <= b THEN a ELSE b
CallCurried(stage, v, context) ==
  LET n == Least(stage.params, Len(v.rets))
      takes == {p \in v.kwrets : p[1] \in stage.named}
      extra == SubSeq(v.rets, n + 1, Len(v.rets))
      extraKw == v.kwrets \ takes
      now == Run(stage, SubSeq(v.rets, 1, n), takes)
  IN IF n < stage.params \/ stage.named \ NamesIn(takes) # {}
     THEN IF extra = <<>> /\ extraKw = {} THEN Values(<<<<stage.name, "waits", v.rets, v.kwrets>>>>, {})
          ELSE Failed
     ELSE IF (extra # <<>> \/ extraKw # {}) /\ ~context THEN Failed
     ELSE Values(now.rets \o extra, extraKw)

CallStage(stage, v, context) ==
  IF v = Failed THEN Failed
  ELSE IF stage.curried THEN CallCurried(stage, v, context)
  ELSE IF Len(v.rets) = stage.params /\ NamesIn(v.kwrets) = stage.named
  THEN Run(stage, v.rets, v.kwrets)
  ELSE Failed

(***************************************************************************)
(* The compose family.  compose_two(f, g) applies g and then f, and opens  *)
(* a curry context around g if f is curried; a composed function is not    *)
(* itself curried.  The whole is a left fold over the functions, with      *)
(* compose_two flipped for the right-to-left variants.                     *)
(***************************************************************************)
RECURSIVE CallTree(_, _, _)
CallTree(tree, v, context) ==
  IF tree.first = None THEN CallStage(tree.second, v, context)
  ELSE LET f == tree.second
           curried == f.first = None /\ f.second.curried
       IN CallTree(f, CallTree(tree.first, v, context \/ curried), context)

Leaf(stage) == [first |-> None, second |-> stage]
\* MUTANT of ComposeTwo: f is applied first
ComposeTwo_swapped(f, g) == [first |-> f, second |-> g]
ComposeTwo(f, g) == [first |-> g, second |-> f]

\* reducel(op, fs): op(elt, acc), starting from the first function.
ComposeLeft(stages) ==
  Folds!FoldLeft(LAMBDA acc, elt : ComposeTwo(Leaf(elt), acc), Leaf(Head(stages)), Tail(stages))
ComposeRight(stages) ==
  Folds!FoldLeft(LAMBDA acc, elt : ComposeTwo(acc, Leaf(elt)), Leaf(Head(stages)), Tail(stages))

Curried(stages) == [i \in DOMAIN stages |-> [stages[i] EXCEPT !.curried = TRUE]]

\* composel, composelc: left to right.  composer, composerc: right to left.
Composel(stages, v) == CallTree(ComposeLeft(stages), v, FALSE)
Composer(stages, v) == CallTree(ComposeRight(stages), v, FALSE)
Composelc(stages, v) == Composel(Curried(stages), v)
Composerc(stages, v) == Composer(Curried(stages), v)

(***************************************************************************)
(* The pipe functions.  A curry context is open around each curried stage  *)
(* but the last.                                                           *)
(***************************************************************************)
RECURSIVE PipeFrom(_, _)
PipeFrom(stages, v) ==
  IF stages = <<>> THEN v
  ELSE PipeFrom(Tail(stages), CallStage(Head(stages), v, Len(stages) > 1))
\* At the exit a lone value is taken out of its Values, by xs[0]: with no
\* values at all that is an IndexError.
Unwrap(v) == IF v.rets = <<>> /\ v.kwrets = {} THEN Failed ELSE v
Pipe(stages, v) == Unwrap(PipeFrom(stages, v))
Pipec(stages, v) == Pipe(Curried(stages), v)

(***************************************************************************)
(* Argument manipulation.                                                  *)
(***************************************************************************)
Reversed(s) == [i \in DOMAIN s |-> s[Len(s) + 1 - i]]

\* flip
Flip(args) == Reversed(args)

\* MUTANT of Rotate: to the other side
Rotate_right(k, args) ==
  LET n == Len(args)
      j == k % n
  IN IF n = 0 \/ ~(-n < k /\ k < n) THEN <<"error">>
     ELSE IF j = 0 THEN args
     ELSE SubSeq(args, n - j + 1, n) \o SubSeq(args, 1, n - j)

\* rotate(k): args[-j:] + args[:-j] with j = -k % n.
Rotate(k, args) ==
  LET n == Len(args)
      j == (-k) % n
  IN IF n = 0 \/ ~(-n < k /\ k < n) THEN <<"error">>
     ELSE IF j = 0 THEN args
     ELSE SubSeq(args, n - j + 1, n) \o SubSeq(args, 1, n - j)

\* tokth(k, f): f on args[k], the rest as they are.
Tokth(k, stage, v) ==
  LET n == Len(v.rets)
  IN IF v = Failed \/ n = 0 \/ ~(-n < k /\ k < n) THEN Failed
     ELSE Values([v.rets EXCEPT ![(k % n) + 1] = Run(stage, <<@>>, {}).rets[1]], v.kwrets)

\* to(*specs): the specs in the given order.
To(specs, v) == Folds!FoldLeft(LAMBDA acc, spec : Tokth(spec[1], spec[2], acc), v, specs)

\* _maybe_unpack_values of call and callwith: each Values in the arguments
\* is spliced in, and the rightmost binding of a name wins.
Unpack(args, kw) ==
  LET Merge(old, new) == {p \in old : p[1] \notin NamesIn(new)} \cup new
      spread == Folds!FoldLeft(LAMBDA acc, a : Values(acc.rets \o a.rets, Merge(acc.kwrets, a.kwrets)),
                               Values(<<>>, {}), args)
  IN Values(spread.rets, Merge(spread.kwrets, kw))

(***************************************************************************)
(* The piped classes, one | at a time.  A piped object applies the         *)
(* function and holds the new values; a lazy one collects the functions,   *)
(* and runs them at exitpipe.                                              *)
(***************************************************************************)
Init ==
  /\ chain \in Chains
  /\ at = 0
  /\ pipe = chain.start
  /\ planned = <<>>
  /\ results = None

Or ==
  /\ at < Len(chain.stages)
  /\ at' = at + 1
  /\ pipe' = CallStage(chain.stages[at + 1], pipe, FALSE)
  /\ planned' = Append(planned, chain.stages[at + 1])
  /\ UNCHANGED <<chain, results>>

RunPlan(stages, v) == Unwrap(Folds!FoldLeft(LAMBDA acc, f : CallStage(f, acc, FALSE), v, stages))

\* Each family gets the chain, and a second program its arguments through to().
ExitPipe ==
  /\ results = None
  /\ at = Len(chain.stages)
  /\ \E specs \in Specs :
       results' = [ piped |-> Unwrap(pipe),
                   lazy_piped |-> RunPlan(planned, chain.start),
                   pipe |-> Pipe(chain.stages, chain.start),
                   pipec |-> Pipec(chain.stages, chain.start),
                   composel |-> Composel(chain.stages, chain.start),
                   composer |-> Composer(Reversed(chain.stages), chain.start),
                   composelc |-> Composelc(chain.stages, chain.start),
                   composerc |-> Composerc(Reversed(chain.stages), chain.start),
                   specs |-> specs, to |-> To(specs, chain.start) ]
  /\ UNCHANGED <<chain, at, pipe, planned>>

Next == Or \/ ExitPipe

Spec == Init /\ [][Next]_vars
------------------------------------------------------------------------------
TypeOK ==
  /\ chain \in Chains
  /\ at \in 0..Len(chain.stages)
  /\ planned \in Seq({chain.stages[i] : i \in DOMAIN chain.stages})

Plain == \A i \in DOMAIN chain.stages : ~chain.stages[i].curried
SameAs(exit, composed) == exit = composed \/ (composed = Values(<<>>, {}) /\ exit = Failed)

\* The families agree on what a chain computes.  Without curried stages the
\* pipes, eager and lazy, and the compositions in both directions all send
\* the same values, named ones included, to the same stages; and piping
\* through curried functions does what composing them from the left does,
\* the extras passed on included.  (A chain that ends with no value at all
\* is an error in a pipe.)  Composing curried functions from the right does
\* the same for two of them; for more it is refused or does the same, and it
\* does so where the values fit without currying.
FamiliesAgree ==
  results # None =>
    /\ Plain => /\ SameAs(results.piped, results.composel)
                /\ SameAs(results.lazy_piped, results.composel)
                /\ SameAs(results.pipe, results.composel)
                /\ results.composer = results.composel
    /\ SameAs(results.pipec, results.composelc)
    /\ results.composerc \in {results.composelc, Failed}
    /\ (Len(chain.stages) <= 2 \/ (Plain /\ results.composer # Failed)) => results.composerc = results.composelc
    /\ (Plain /\ results.composer # Failed) => results.composerc = results.composer

\* to() updates the arguments it names, in order, and leaves the rest and
\* the named arguments alone; rotating back undoes a rotation, and a
\* rotation by k moves each argument k slots to the left.
Place(k, n) == IF k < 0 THEN k + n + 1 ELSE k + 1
ToUpdatesInPlace ==
  (results # None /\ results.to # Failed) =>
    LET n == Len(chain.start.rets)
        touching(i) == SelectSeq(results.specs, LAMBDA s : Place(s[1], n) = i)
    IN /\ results.to.kwrets = chain.start.kwrets
       /\ \A i \in 1..n :
            results.to.rets[i] = Folds!FoldLeft(LAMBDA x, s : ItemOf(s[2], <<x>>, {}, 1),
                                               chain.start.rets[i], touching(i))
       /\ \A k \in (1 - n)..(n - 1) :
            /\ Rotate(-k, Rotate(k, chain.start.rets)) = chain.start.rets
            /\ \A i \in 1..n : Rotate(k, chain.start.rets)[i] = chain.start.rets[((i - 1 + k) % n) + 1]
       /\ Flip(Flip(chain.start.rets)) = chain.start.rets
==============================================================================
