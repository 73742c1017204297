-------------------------------- MODULE Arity --------------------------------
(***************************************************************************)
(* How arguments meet parameters: unpythonic/arity.py.                     *)
(*                                                                         *)
(* A parameter is a record [name, kind, req, dflt, type]; a signature is a *)
(* sequence of parameters in Python's order (positional-only, positional,  *)
(* *args, keyword-only, **kwargs).  Positional arguments are a sequence,   *)
(* named ones a set of pairs <<name, value>>, where a value is a record as *)
(* in Typecheck.  A binding is a set of pairs <<parameter, value>>; *args   *)
(* is bound to a tuple and **kwargs to a dict.                             *)
(***************************************************************************)
EXTENDS Naturals, Sequences, FiniteSets, Typecheck

LOCAL INSTANCE SequencesExt      \* SetToSeq, FlattenSeq

POS_ONLY == "pos_only"
POS_OR_KW == "pos_or_kw"
VAR_POS == "var_pos"
KW_ONLY == "kw_only"
VAR_KW == "var_kw"

Params(sig) == {sig[i] : i \in DOMAIN sig}
Positional(sig) == {p \in Params(sig) : p.kind \in {POS_ONLY, POS_OR_KW}}
OfKind(sig, k) == {i \in DOMAIN sig : sig[i].kind = k}
Names(kw) == {p[1] : p \in kw}
Given(kw, n) == (CHOOSE p \in kw : p[1] = n)[2]

\* {**old, **new}
Update(old, new) == {p \in old : p[1] \notin Names(new)} \cup new

Smaller(a, b) == IF a <= b THEN a ELSE b

(***************************************************************************)
(* Positional arity.  Without an upper limit the second part is "infty".   *)
(***************************************************************************)
Infty == "infty"

\* arities(f) of one signature; `implicit` is 1 for a bound method, whose
\* self or cls is not counted, and 0 for any other function.
Arities(sig, implicit) ==
  << Cardinality({p \in Positional(sig) : p.req}) - implicit,
     IF OfKind(sig, VAR_POS) # {} THEN Infty ELSE Cardinality(Positional(sig)) - implicit >>

AtMost(n, upper) == upper = Infty \/ n <= upper

\* For a generic function, the smallest lower and the largest upper bound.
AritiesOfGeneric(sigs, implicit) ==
  LET every == {Arities(s, implicit) : s \in sigs}
  IN << CHOOSE n \in {a[1] : a \in every} : \A a \in every : n <= a[1],
        CHOOSE u \in {a[2] : a \in every} :
          \A a \in every : u = Infty \/ (a[2] # Infty /\ a[2] <= u) >>

ArityIncludes(sigs, implicit, n) ==
  LET a == AritiesOfGeneric(sigs, implicit) IN a[1] <= n /\ AtMost(n, a[2])

\* required_kwargs, optional_kwargs.
Kwargs(sigs, optionals) ==
  {p.name : p \in {q \in UNION {Params(s) : s \in sigs} : q.kind = KW_ONLY /\ q.req # optionals}}

(***************************************************************************)
(* inspect.Signature.bind and bind_partial, the rules of Python's calls.   *)
(***************************************************************************)
VarArgs(vs) == [cls |-> "tuple", val |-> "", items |-> vs]
VarKwargs(kw) ==
  [cls |-> "dict", val |-> "",
   items |-> SetToSeq({<<[cls |-> "str", val |-> p[1], items |-> <<>>], p[2]>> : p \in kw})]

\* How many positional arguments land in named parameters.
Landed(sig, args) == Smaller(Cardinality(Positional(sig)), Len(args))

\* The names that the named arguments can reach.
Reachable(sig) == {p \in Params(sig) : p.kind \in {POS_OR_KW, KW_ONLY}}

Surplus(sig, args) == SubSeq(args, Landed(sig, args) + 1, Len(args))
Unknown(sig, kw) == {p \in kw : p[1] \notin {q.name : q \in Reachable(sig)}}

BoundByPython(sig, args, kw) ==
  LET n == Landed(sig, args)
      byPosition == {<<sig[i], args[i]>> : i \in 1..n}
      byName == {<<p, Given(kw, p.name)>> : p \in {q \in Reachable(sig) : q.name \in Names(kw)}}
      star == {<<sig[i], VarArgs(Surplus(sig, args))>> :
                 i \in {j \in OfKind(sig, VAR_POS) : Surplus(sig, args) # <<>>}}
      starstar == {<<sig[i], VarKwargs(Unknown(sig, kw))>> :
                     i \in {j \in OfKind(sig, VAR_KW) : Unknown(sig, kw) # {}}}
  IN byPosition \cup byName \cup star \cup starstar

MissingByPython(sig, args, kw) ==
  {p \in Params(sig) : /\ p.kind \notin {VAR_POS, VAR_KW}
                       /\ p.req
                       /\ \A b \in BoundByPython(sig, args, kw) : b[1] # p}

\* bind raises TypeError: an argument given twice, one that nothing takes,
\* or (unless binding partially) a parameter without a value.
Refused(sig, args, kw, partial) ==
  \/ \E i \in 1..Landed(sig, args) : sig[i].kind # POS_ONLY /\ sig[i].name \in Names(kw)
  \/ Surplus(sig, args) # <<>> /\ OfKind(sig, VAR_POS) = {}
  \/ Unknown(sig, kw) # {} /\ OfKind(sig, VAR_KW) = {}
  \/ ~partial /\ MissingByPython(sig, args, kw) # {}

\* resolve_bindings: the same, and then the defaults of what is unbound.
WithDefaults(sig, bound) ==
  bound \cup {<<p, CASE p.kind = VAR_POS -> VarArgs(<<>>)
                      [] p.kind = VAR_KW  -> VarKwargs({})
                      [] OTHER            -> p.dflt>> :
                p \in {q \in Params(sig) : /\ \A b \in bound : b[1] # q
                                           /\ q.kind \in {VAR_POS, VAR_KW} \/ ~q.req}}
ResolveBindings(sig, args, kw) == WithDefaults(sig, BoundByPython(sig, args, kw))

\* inspect.signature of functools.partial(f, *args, **kw), sig that of f: what
\* args took is gone, what kw names has its value for a default, and from the
\* first parameter named so on, nothing is taken by position.
PartialSignature(sig, args, kw) ==
  LET n == Landed(sig, args)
      Fixed(i) == sig[i].kind \in {POS_OR_KW, KW_ONLY} /\ sig[i].name \in Names(kw)
      ByName(i) == \E j \in OfKind(sig, POS_OR_KW) : n < j /\ j <= i /\ Fixed(j)
      Gone(i) == i <= n \/ (sig[i].kind = VAR_POS /\ ByName(i))
      Left(i) == [sig[i] EXCEPT !.kind = IF @ = POS_OR_KW /\ ByName(i) THEN KW_ONLY ELSE @,
                                !.req = @ /\ ~Fixed(i),
                                !.dflt = IF Fixed(i) THEN Given(kw, sig[i].name) ELSE @]
  IN FlattenSeq([i \in DOMAIN sig |-> IF Gone(i) THEN <<>> ELSE <<Left(i)>>])

(***************************************************************************)
(* _bind: unpythonic's variant for curry, which collects what is missing   *)
(* and what is left over instead of raising.  Arguments and parameters are *)
(* paired one to one, whatever the kind of the parameter, until one of the *)
(* two runs out or *args swallows the rest.                                *)
(***************************************************************************)
Tied(sig, args) ==
  LET star == OfKind(sig, VAR_POS)
      stop == IF star = {} THEN Len(sig) ELSE (CHOOSE i \in star : TRUE) - 1
  IN Smaller(stop, Len(args))

\* Where the pass over the named arguments starts: the first parameter past
\* the positional arguments that is *args, or that has a value or a default.
FirstNamed(sig, args, kw) ==
  LET ends == {i \in (Tied(sig, args) + 1)..Len(sig) :
                 \/ sig[i].kind \in {VAR_POS, VAR_KW}
                 \/ sig[i].name \in Names(kw) /\ sig[i].kind # POS_ONLY
                 \/ sig[i].name \notin Names(kw) /\ ~sig[i].req}
  IN IF ends = {} THEN Len(sig) + 1 ELSE CHOOSE i \in ends : \A j \in ends : i <= j

Bind(sig, args, kw) ==
  LET n == Tied(sig, args)
      first == FirstNamed(sig, args, kw)
      star == {i \in OfKind(sig, VAR_POS) : Len(args) > n}
      pairs == {<<sig[i], args[i]>> : i \in 1..n}
      named == {i \in first..Len(sig) : sig[i].kind \notin {VAR_POS, VAR_KW}}
      taken == {i \in named : sig[i].name \in Names(kw)}
      starstar == {i \in OfKind(sig, VAR_KW) : i >= first}
      rest == {p \in kw : p[1] \notin {sig[i].name : i \in taken}}
      skipped == {i \in (n + 1)..(first - 1) : sig[i].name \in Names(kw)}   \* positional-only
  IN [ raises |-> \/ \E i \in 1..n : sig[i].name \in Names(kw) /\ sig[i].kind # POS_ONLY
                  \/ \E i \in skipped : sig[i].req
                  \/ rest # {} /\ starstar = {} /\ skipped # {},
       bound |-> pairs
                 \cup {<<sig[i], VarArgs(SubSeq(args, n + 1, Len(args)))>> : i \in star}
                 \cup {<<sig[i], Given(kw, sig[i].name)>> : i \in taken}
                 \cup {<<sig[i], VarKwargs(rest)>> : i \in {j \in starstar : rest # {}}},
       unbound |-> {sig[i] : i \in ((n + 1)..(first - 1) \ skipped) \cup {j \in named \ taken : sig[j].req}},
       \* An argument that met a keyword-only parameter or **kwargs is extra,
       \* and yet bound to it.
       extraArgs |-> SelectSeq([i \in 1..n |-> IF sig[i].kind \in {KW_ONLY, VAR_KW} THEN <<args[i]>> ELSE <<>>],
                               LAMBDA s : s # <<>>),
       surplus |-> IF star = {} THEN SubSeq(args, n + 1, Len(args)) ELSE <<>>,
       extraKwargs |-> IF starstar = {} THEN rest ELSE {} ]

\* The extra positional arguments, in order.
ExtraArgs(b) == [i \in DOMAIN b.extraArgs |-> b.extraArgs[i][1]] \o b.surplus
==============================================================================
