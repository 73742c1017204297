--------------------------------- MODULE Curry --------------------------------
(***************************************************************************)
(* Currying with passthrough: curry, partial and _decide_curry_action of   *)
(* unpythonic/fun.py.                                                      *)
(*                                                                         *)
(* A program calls curry(f) and supplies its arguments in steps, in one of *)
(* the ways to cut them up.  Each step binds everything collected so far   *)
(* against the signature of f (or of its multimethods) and then calls f,   *)
(* calls it and passes on what it cannot take, or waits for more.  A       *)
(* function returns Values: rets, where the result of applying it may be   *)
(* one, and kwrets.                                                        *)
(***************************************************************************)
EXTENDS Multimethods

CONSTANTS
  Functions,       \* name -> [generic, methods, rets, kwrets]: methods a sequence of
                   \* [method |-> [name, sig]], the latest first; a plain function has one
  Scripts          \* set of [fn, args, kw, outer]: the whole call, and whether it is
                   \* made inside a curry context

VARIABLES
  script,          \* the whole call
  todo,            \* [args, kw]: what the program has not supplied yet
  waiting,         \* [fn, args, kw]: the curried function and what it has collected
  step,            \* [args, kw]: the arguments of the call being handled, or None
  nested,          \* this call is made while another curried call is being handled
  outcome,         \* [kind, rets, kwrets], or None
  steps            \* into how many steps the program has cut the call so far

vars == <<script, todo, waiting, step, nested, outcome, steps>>

IsCallable(v) == v.cls = "function"
FunctionNamed(n) == [cls |-> "function", val |-> n, items |-> <<>>]

\* What one call of the underlying function gives.  The token THIS in rets
\* is the application itself, which tells which bindings it got.
THIS == FunctionNamed("this")
Applied(n, sig, args, kw) ==
  [cls |-> "app", val |-> n,
   items |-> [i \in DOMAIN sig |-> (CHOOSE b \in ResolveBindings(sig, args, kw) : b[1] = sig[i])[2]]]

Raised == [kind |-> "raised", rets |-> <<>>, kwrets |-> {}]
Returned(rets, kwrets) == [kind |-> "returned", rets |-> rets, kwrets |-> kwrets]

\* f(*args, **kw): Python's call, or the dispatcher's for a generic function,
\* which finds no multimethod (None) or one that takes the arguments.
RunMethod(F, m, args, kw) ==
  IF m = None \/ (~F.generic /\ Refused(m.method.sig, args, kw, FALSE)) THEN Raised
  ELSE LET this == Applied(m.method.name, m.method.sig, args, kw) IN
       Returned([i \in DOMAIN F.rets |-> IF F.rets[i] = THIS THEN this ELSE F.rets[i]], F.kwrets)
Run(f, args, kw) ==
  LET F == Functions[f] IN
  RunMethod(F, IF F.generic THEN FirstMatch(F.methods, args, kw, FALSE) ELSE F.methods[1], args, kw)

(***************************************************************************)
(* _decide_curry_action.                                                   *)
(***************************************************************************)
\* What the bindings b of one signature call for; the types are looked at
\* here for a generic function only.
ActionOf(F, b) ==
  CASE b.raises -> "raise"
    [] ~b.raises /\ F.generic /\ ~NoMismatches(b.bound) -> "mismatch"
    [] OTHER -> IF b.unbound # {} THEN "keep"
                ELSE IF ExtraArgs(b) # <<>> \/ b.extraKwargs # {} THEN "pass" ELSE "call"

\* The multimethods are searched for an exact match, then for a complete one
\* with extras, then for a partial one.
Choose(actions, bindings) ==
  LET With(a) == {i \in DOMAIN actions : actions[i] = a}
      found == IF With("call") # {} THEN "call" ELSE IF With("pass") # {} THEN "pass" ELSE "keep"
  IN IF \/ \E i \in With("raise") : \A j \in With("call") : i < j
        \/ With("call") \cup With("pass") \cup With("keep") = {}
     THEN [action |-> "raise", analysis |-> None]
     ELSE [action |-> found, analysis |-> Earliest(bindings, With(found))]
Judge(F, bindings) == Choose([i \in DOMAIN bindings |-> ActionOf(F, bindings[i])], bindings)
Decide(f, args, kw) ==
  LET F == Functions[f] IN Judge(F, [i \in DOMAIN F.methods |-> Bind(F.methods[i].method.sig, args, kw)])

Annotated(sig) == \E p \in Params(sig) : p.type # Unannotated

\* partial(func, *args, **kw) checks the types of all the arguments so far, if
\* there is anything to check.  After the first step, func is the partial
\* object of the step before, and they are bound to what that one left of the
\* parameters, those it has already taken as well.  And curry wants the
\* signature of the new partial object: Python must be able to bind them.
PartialRefuses(f, earlier, args, kw) ==
  LET F == Functions[f] IN
  IF F.generic THEN FirstMatch(F.methods, args, kw, TRUE) = None
  ELSE LET sig == F.methods[1].method.sig
           left == PartialSignature(sig, earlier.args, earlier.kw)
       IN \/ /\ Annotated(sig)
             /\ Refused(left, args, kw, TRUE) \/ ~NoMismatchesSeen(ResolveBindings(left, args, kw))
          \/ Refused(sig, args, kw, TRUE)

(***************************************************************************)
(* The steps of a curried call.                                            *)
(***************************************************************************)
Init ==
  /\ script \in Scripts
  /\ todo = [args |-> script.args, kw |-> script.kw]
  /\ waiting = [fn |-> script.fn, args |-> <<>>, kw |-> {}]
  /\ step = None
  /\ nested = FALSE
  /\ outcome = None
  /\ steps = 0

AllArgs == waiting.args \o step.args
AllKw == Update(waiting.kw, step.kw)

\* The program calls what it has with some more of the arguments.  (Once f
\* has been called and has passed the rest on, a call of what came back is
\* another script.)
Supply(n, kw) ==
  /\ step = None /\ outcome = None
  /\ waiting.fn = script.fn
  /\ n > 0 \/ kw # {} \/ (script.args = <<>> /\ script.kw = {} /\ steps = 0)
  /\ step' = [args |-> SubSeq(todo.args, 1, n), kw |-> kw]
  /\ todo' = [args |-> SubSeq(todo.args, n + 1, Len(todo.args)), kw |-> todo.kw \ kw]
  /\ nested' = script.outer
  /\ steps' = steps + 1
  /\ UNCHANGED <<script, waiting, outcome>>

Finish(result) ==
  /\ outcome' = result
  /\ step' = None
  /\ UNCHANGED <<script, todo, waiting, nested, steps>>

\* No signature accepts the arguments: TypeError.
Reject(d) == d.action = "raise" /\ Finish(Raised)

Call(d) == d.action = "call" /\ Finish(Run(waiting.fn, AllArgs, AllKw))

\* What is left over of the arguments of this step, and what goes in now.
\* The extras are taken off the end of this step's arguments, and earlier
\* steps' arguments always go in.
NowArgs(b) == waiting.args \o SubSeq(step.args, 1, Len(step.args) - Len(ExtraArgs(b)))
\* MUTANT of NowKw: all arguments by name go in now
NowKw_all(b) == AllKw
NowKw(b) == Update(waiting.kw, {p \in step.kw : p[1] \notin Names(b.extraKwargs)})

\* The returned values go in front of the extra arguments, except for a
\* callable in the leftmost place, and named ones override extra named ones.
Onward(result, b) ==
  LET called == result.rets # <<>> /\ IsCallable(result.rets[1])
  IN [args |-> (IF called THEN Tail(result.rets) ELSE result.rets) \o ExtraArgs(b),
      kw |-> Update(b.extraKwargs, result.kwrets)]

\* The values that came back go on to where they are headed.
Pass(result, on) ==
  IF result.kind = "raised" THEN Finish(Raised)
  ELSE IF result.rets # <<>> /\ IsCallable(result.rets[1])
  THEN \* curry the result and call it on the rest, in the context of this call
       /\ waiting' = [fn |-> result.rets[1].val, args |-> <<>>, kw |-> {}]
       /\ step' = on
       /\ nested' = TRUE
       /\ UNCHANGED <<script, todo, outcome, steps>>
  ELSE \* the values go to the outer curry context, if there is one
       Finish(IF nested THEN Returned(on.args, on.kw) ELSE Raised)

CallWithPassthrough(d) ==
  /\ d.action = "pass"
  /\ \E result \in {Run(waiting.fn, NowArgs(d.analysis), NowKw(d.analysis))} :
       Pass(result, Onward(result, d.analysis))

KeepCurrying(d) ==
  /\ d.action = "keep"
  /\ IF PartialRefuses(waiting.fn, waiting, AllArgs, AllKw) THEN Finish(Raised)
     ELSE /\ waiting' = [fn |-> waiting.fn, args |-> AllArgs, kw |-> AllKw]
          /\ step' = None
          /\ UNCHANGED <<script, todo, nested, outcome, steps>>

Handle(d) == Reject(d) \/ Call(d) \/ CallWithPassthrough(d) \/ KeepCurrying(d)

Next ==
  \/ \E n \in 0..Len(todo.args), kw \in SUBSET todo.kw : Supply(n, kw)
  \/ step # None /\ \E d \in {Decide(waiting.fn, AllArgs, AllKw)} : Handle(d)

Spec == Init /\ [][Next]_vars
------------------------------------------------------------------------------
TypeOK ==
  /\ script \in Scripts
  /\ waiting.fn \in DOMAIN Functions
  /\ outcome # None => outcome.kind \in {"raised", "returned"}

Outcome(kind) == [kind |-> kind, rets |-> <<>>, kwrets |-> {}]

\* The program has supplied everything, and nothing more will happen; or what
\* it has supplied so far has been refused.
Supplied == todo.args = <<>> /\ todo.kw = {}
Settled == step = None /\ steps > 0 /\ (Supplied \/ outcome = Raised)
Final == IF outcome = None THEN Outcome("waiting") ELSE outcome

\* One call with all the arguments at once, by the rules of Python's calls:
\* a function takes what it can, and the rest is passed on, positional
\* arguments on the right, to the result if that is callable.
RECURSIVE AtOnce(_, _, _, _)
\* What sig takes, and what is to be passed on
Goes(sig, args, kw) ==
  LET takes == IF OfKind(sig, VAR_POS) # {} THEN Len(args) ELSE Landed(sig, args)
      extraKw == IF OfKind(sig, VAR_KW) # {} THEN {} ELSE Unknown(sig, kw)
  IN [now |-> SubSeq(args, 1, takes), extra |-> SubSeq(args, takes + 1, Len(args)),
      nowKw |-> kw \ extraKw, extraKw |-> extraKw]
\* What the code does not do as documented, and what no doc speaks of.
Unspoken(sig, g, incomplete) ==
  \/ g.extra # <<>> /\ OfKind(sig, KW_ONLY) \cup OfKind(sig, VAR_KW) # {}
  \/ g.extraKw # {} /\ (incomplete \/ steps > 1 \/ ~Supplied)
  \/ ~NoMismatchesSeen(ResolveBindings(sig, g.now, g.nowKw))
  \/ Annotated(sig) /\ steps > (IF incomplete \/ ~Supplied THEN 1 ELSE 2)  \* line 168 binds twice
PassedOn(result, g, outer) ==
  LET values == result.rets \o g.extra  named == Update(g.extraKw, result.kwrets) IN
  IF result.rets # <<>> /\ IsCallable(values[1]) THEN AtOnce(values[1].val, Tail(values), named, TRUE)
  ELSE IF outer THEN Returned(values, named) ELSE Raised
ByOne(f, sig, g, outer, incomplete) ==
  IF Refused(sig, g.now, g.nowKw, TRUE) THEN Raised
  ELSE IF Unspoken(sig, g, incomplete) THEN Outcome("open")
  ELSE IF incomplete THEN Outcome("waiting")
  ELSE IF g.extra = <<>> /\ g.extraKw = {} THEN Run(f, g.now, g.nowKw)
  ELSE PassedOn(Run(f, g.now, g.nowKw), g, outer)
AllAtOnce(f, sig, g, outer) == ByOne(f, sig, g, outer, MissingByPython(sig, g.now, g.nowKw) # {})
OpenIfRaised(result) == IF result.kind = "raised" THEN Outcome("open") ELSE result
AtOnce(f, args, kw, outer) ==
  LET F == Functions[f]  sig == F.methods[1].method.sig IN
  IF F.generic THEN OpenIfRaised(Run(f, args, kw)) ELSE AllAtOnce(f, sig, Goes(sig, args, kw), outer)

\* However a program cuts a call into steps, and whichever arguments it
\* passes by name, the outcome is that of the one call with all of them
\* ("it shouldn't matter whether the function parameters end up bound by
\* position or name; when all parameters have a binding, the call
\* triggers"), extras and all.
AsExpected(expected) == expected.kind = "open" \/ Final = expected
SplitsAgree == Settled => AsExpected(AtOnce(script.fn, script.args, script.kw, script.outer))
==============================================================================
