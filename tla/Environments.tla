----------------------------- MODULE Environments -----------------------------
(***************************************************************************)
(* Environments and the constructs that fill them: env (unpythonic/env.py),*)
(* assignonce, let and letrec in both syntaxes, as expressions, decorators *)
(* and blocks (let.py, lispylet.py), do and do0 (seq.py).                  *)
(*                                                                         *)
(* There is one environment.  User code runs in the middle of what the     *)
(* construct does: a right-hand side `lambda e: ...` gets an environment   *)
(* that is half filled and not finalized yet, and may do anything to it.   *)
(* An operation that is refused raises and changes nothing, so that only   *)
(* those that succeed are steps; user code may raise at any time.          *)
(***************************************************************************)
EXTENDS Naturals, Sequences, Functions

CONSTANTS
  Identifiers,   \* names that may be bound
  Reserved,      \* _reserved_names
  Malformed,     \* strings that are not identifiers
  Values,
  Mappings,      \* the arguments of update
  Forms,         \* the constructs: see FormsType
  None,
  Unnamed,       \* the name of an item of do that is not an assign
  Do0Result      \* the name _do0_result

Names == Identifiers \cup Reserved \cup Malformed
Item == [name : Names \cup {Unnamed}, rhs : {"value", "thunk", "misfit"}]

\* "plain" is code that uses an environment of its own; cls is its class.
\* use: how let is used; do and do0 have none.
FormsType ==
  [kind : {"plain", "let", "letrec", "lispylet", "lispyletrec", "do", "do0"},
   cls : {"env", "assignonce"}, use : {"expression", "decorator", "block"}, items : Seq(Item)]
EnvironmentsAssumption ==
  /\ Forms \subseteq FormsType
  /\ Do0Result \in Identifiers /\ Unnamed \notin Names
  /\ None \notin Names /\ None \notin Values
  /\ \A m \in Mappings : DOMAIN m \subseteq Names /\ \A n \in DOMAIN m : m[n] \in Values
  /\ \A f \in Forms :
       /\ f.cls = "assignonce" => f.kind = "plain"
       /\ f.kind \in {"do", "do0"} => f.items # <<>>
       /\ \A i \in DOMAIN f.items : f.items[i].name # Do0Result

VARIABLES
  form,        \* the construct
  todo,        \* the bindings, or items, that are still to be evaluated
  env,         \* _env: the names that are bound, and their values
  finalized,   \* _finalized
  at,          \* who runs: "form" (the construct), "thunk", "body" or "plain" (user code), "outside", "over"
  last,        \* the value of the last item of do
  given,       \* history: what a name was given by the construct, or by its definition in
               \* an assign-once environment, until an operation that may change it
  first        \* history: the value of the first item of do0

nvars == <<form, todo, env, finalized, at, last, given, first>>

Binds(f, n, v) == [m \in DOMAIN f \cup {n} |-> IF m = n THEN v ELSE f[m]]
Without(f, S) == Restrict(f, DOMAIN f \ S)
Doing == form.kind \in {"do", "do0"}
Pythonic == form.kind \in {"let", "letrec"}
Lispy == form.kind \in {"lispylet", "lispyletrec"}
Letting == Pythonic \/ Lispy
Recursive == form.kind \in {"letrec", "lispyletrec", "do", "do0"}

\* do0 binds the value of the first item, and reads it in a last item.  If the
\* first item is an assignment, the value is that of its name.
Do0(items) ==
  LET read == [name |-> Unnamed, rhs |-> "thunk"]
      first0 == IF items[1].name # Unnamed
                THEN <<items[1], [name |-> Do0Result, rhs |-> "thunk"]>>
                ELSE <<[name |-> Do0Result, rhs |-> items[1].rhs]>>
  IN first0 \o Tail(items) \o <<read>>

Init ==
  /\ form \in Forms
  /\ todo = IF form.kind = "do0" THEN Do0(form.items) ELSE form.items
  /\ env = <<>> /\ given = <<>>
  /\ finalized = FALSE
  /\ at = IF form.kind = "plain" THEN "plain" ELSE "form"
  /\ last = None /\ first = None

------------------------------------------------------------------------------
\* env.__setattr__, when it does not raise.
Storable(n) ==
  /\ n \notin Reserved
  /\ finalized => n \in DOMAIN env
  /\ n \in Identifiers
\* MUTANT of Definable: a name may be defined again
Definable_any(n) == Storable(n)
\* assignonce.__setattr__ refuses a name that is defined.
Definable(n) == Storable(n) /\ (form.cls = "assignonce" => n \notin DOMAIN env)

\* The first value that a name is given by the construct, or by its definition in
\* an assign-once environment; in do a later assign counts.
Gives(n, v) == given' = IF n \in DOMAIN given /\ ~Doing THEN given ELSE Binds(given, n, v)
\* An operation of user code that may change the values of the names in S.
Touches(S) == given' = Without(given, S)
ByUser == at \in {"thunk", "body", "plain"} /\ UNCHANGED <<form, todo, finalized, at, last, first>>

\* e.n = v, e[n] = v: in an assign-once environment a definition, whose value is to stay.
SetAttr(n, v) ==
  /\ ByUser /\ Definable(n)
  /\ env' = Binds(env, n, v)
  /\ IF form.cls = "assignonce" THEN Gives(n, v) ELSE Touches({n})

\* e.set(n, v), e << (n, v): rebinds; assignonce.set passes by its own __setattr__.
Set(n, v) ==
  /\ ByUser /\ n \in DOMAIN env /\ Storable(n)
  /\ env' = Binds(env, n, v)
  /\ IF form.cls = "assignonce" THEN given' = Binds(given, n, v) ELSE Touches({n})

\* del e.n, del e[n]
DelAttr(n) ==
  /\ ByUser /\ n \in DOMAIN env \ Malformed /\ ~finalized
  /\ form.cls = "assignonce" => n \in Reserved
  /\ env' = Without(env, {n})
  /\ IF form.cls = "assignonce" THEN UNCHANGED given ELSE Touches({n})

\* MUTANT of Pop: pop does not ask whether the environment is finalized
Pop_finalized(n) ==
  /\ ByUser /\ n \in DOMAIN env
  /\ env' = Without(env, {n}) /\ Touches({n})
\* pop(n), and popitem, whose choice of the item is left open.
Pop(n) ==
  /\ ByUser /\ n \in DOMAIN env /\ ~finalized
  /\ env' = Without(env, {n}) /\ Touches({n})

Clear == ByUser /\ ~finalized /\ env' = <<>> /\ given' = <<>>

\* update and setdefault write the dictionary: neither the form of a name nor
\* assignonce is looked at.
Update(mapping) ==
  /\ ByUser
  /\ finalized => DOMAIN mapping \subseteq DOMAIN env
  /\ env' = [n \in DOMAIN env \cup DOMAIN mapping |-> IF n \in DOMAIN mapping THEN mapping[n] ELSE env[n]]
  /\ Touches(DOMAIN mapping)
SetDefault(n, v) ==
  /\ ByUser
  /\ finalized => n \in DOMAIN env
  /\ env' = IF n \in DOMAIN env THEN env ELSE Binds(env, n, v)
  /\ UNCHANGED given

Finalize ==
  /\ at \in {"thunk", "body", "plain"}
  /\ finalized' = TRUE
  /\ UNCHANGED <<form, todo, env, at, last, given, first>>

\* The end of `with e:`, also of a finalized environment.
ExitWith == ByUser /\ env' = <<>> /\ given' = <<>>

UserOperates ==
  \/ \E n \in Names, v \in Values : SetAttr(n, v) \/ Set(n, v) \/ SetDefault(n, v)
  \/ \E n \in Names : DelAttr(n) \/ Pop(n)
  \/ \E m \in Mappings : Update(m)
  \/ Clear \/ Finalize \/ ExitWith

------------------------------------------------------------------------------
\* The construct is left, with a value or by an exception.
Leave == at' = "over" /\ UNCHANGED <<form, todo, env, finalized, last, given, first>>

\* env[k] = v; or, for an item of do without a name, nothing.  The value of the
\* item of do is remembered.
Store(n, v) ==
  IF n = Unnamed \/ Storable(n)
  THEN /\ at' = "form"
       /\ todo' = Tail(todo)
       /\ IF n = Unnamed THEN UNCHANGED <<env, given>> ELSE env' = Binds(env, n, v) /\ Gives(n, v)
       /\ last' = (IF Doing THEN v ELSE None)
       /\ first' = (IF form.kind = "do0" /\ first = None THEN v ELSE first)
       /\ UNCHANGED <<form, finalized>>
  ELSE Leave

\* MUTANT of Taken: a name may have two initializers
Taken_never == FALSE
\* if k in env: "Cannot rebind the same name"
Taken == ~Doing /\ todo[1].name \in DOMAIN env

\* What the thunks read that do0 itself adds.
OwnRead ==
  IF form.kind # "do0" THEN None
  ELSE IF Len(todo) = 1 THEN Do0Result
  ELSE IF todo[1].name = Do0Result /\ form.items[1].name # Unnamed THEN form.items[1].name
  ELSE None

\* A binding, or an item of do.  A callable right-hand side is called with the
\* environment, except in let, where it is the value.
Evaluate ==
  LET rhs == todo[1].rhs
  IN  IF Taken \/ (Recursive /\ rhs = "misfit") THEN Leave
      ELSE IF OwnRead # None
           THEN IF OwnRead \in DOMAIN env THEN Store(todo[1].name, env[OwnRead]) ELSE Leave
      ELSE IF Recursive /\ rhs = "thunk"
           THEN at' = "thunk" /\ UNCHANGED <<form, todo, env, finalized, last, given, first>>
      ELSE \E v \in Values : Store(todo[1].name, v)

\* v(env) has returned, or raised.
ThunkEnds ==
  /\ at = "thunk"
  /\ (\E v \in Values : Store(todo[1].name, v)) \/ Leave

\* MUTANT of Complete: let does not finalize
Complete_open ==
  /\ at' \in IF form.use = "expression" THEN {"body", "over"} ELSE {"outside"}
  /\ given' = <<>>
  /\ UNCHANGED <<form, todo, env, finalized, last, first>>
\* All bindings are there: the environment is finalized and the body runs, unless it
\* does not take one argument, which raises; or a decorator gives a function that
\* runs the body with this environment.
Complete ==
  /\ finalized' = TRUE
  /\ at' \in IF form.use = "expression" THEN {"body", "over"} ELSE {"outside"}
  /\ given' = <<>>
  /\ UNCHANGED <<form, todo, env, last, first>>

\* The loop of _let in let.py.
PythonicLet == Pythonic /\ at = "form" /\ IF todo = <<>> THEN Complete ELSE Evaluate

\* The recursion of _let in lispylet.py.  An environment without bindings is false,
\* and `env or _envcls()` makes a new one in its place: the first time only, as
\* each call of _let that follows is made after a binding.
LispyLet == Lispy /\ at = "form" /\ IF todo = <<>> THEN Complete ELSE Evaluate

\* do evaluates item by item, and returns the value of the last one.
Do == Doing /\ at = "form" /\ IF todo = <<>> THEN Leave ELSE Evaluate

\* withenv: the body is called with the environment of the decorator; blet
\* calls it at once.
CallDecorated == at = "outside" /\ at' = "body" /\ UNCHANGED <<form, todo, env, finalized, last, given, first>>
BodyEnds ==
  /\ at = "body"
  /\ at' = IF form.use = "decorator" THEN "outside" ELSE "over"
  /\ UNCHANGED <<form, todo, env, finalized, last, given, first>>

Next ==
  \/ UserOperates
  \/ PythonicLet \/ LispyLet \/ Do
  \/ ThunkEnds \/ CallDecorated \/ BodyEnds

Spec == Init /\ [][Next]_nvars
------------------------------------------------------------------------------
TypeOK ==
  /\ form \in Forms
  /\ DOMAIN env \subseteq Names /\ \A n \in DOMAIN env : env[n] \in Values
  /\ finalized \in BOOLEAN
  /\ at \in {"form", "thunk", "body", "plain", "outside", "over"}

\* A name that was defined, in an assign-once environment, or initialized, by a
\* construct, is there and has this value whatever else was done to the environment, as long
\* as nobody asked for a change: no second definition, no second initializer
\* and no deletion by attribute has an effect.
BindingsAreKept ==
  form.cls = "assignonce" \/ at \in {"form", "thunk"} =>
    \A n \in DOMAIN given : n \in DOMAIN env /\ env[n] = given[n]

\* From the moment the body of a let can run, and in any finalized environment,
\* names neither come nor go, except that all go at the end of a with block.
NamesAreFixed ==
  [][(finalized \/ (Letting /\ at \in {"body", "outside"})) => (DOMAIN env' = DOMAIN env \/ ExitWith)]_nvars

\* do0 gives the value of its first item, unless user code wrote _do0_result, or
\* the name that it is bound to, meanwhile.
FirstIsReturned ==
  form.kind = "do0" /\ at = "over" /\ todo = <<>> /\ Do0Result \in DOMAIN given => last = first
==============================================================================
