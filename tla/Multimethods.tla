---------------------------- MODULE Multimethods -----------------------------
(***************************************************************************)
(* Which multimethod takes a call: the matching of arguments against       *)
(* signatures and annotations in unpythonic/dispatch.py.  A candidate is a *)
(* record with a field method, itself a record with a field sig.           *)
(***************************************************************************)
EXTENDS Arity

CONSTANTS Unannotated,    \* the type of a parameter without an annotation
          None

\* No binding of an annotated parameter has a value of another type.
NoMismatches(bound) == \A b \in bound : IsOfType(b[2], b[1].type)

\* The same with skip_unannotated.
NoMismatchesSeen(bound) == NoMismatches({b \in bound : b[1].type # Unannotated})

\* A candidate of _resolve_multimethod: Python can bind the arguments, and
\* the values, defaults included, have the annotated types.
Accepts(method, args, kw, partial) ==
  /\ ~Refused(method.sig, args, kw, partial)
  /\ NoMismatches(ResolveBindings(method.sig, args, kw))

\* _resolve_multimethod, over a list of candidates: the first that accepts.
Earliest(candidates, good) ==
  IF good = {} THEN None ELSE candidates[CHOOSE i \in good : \A j \in good : i <= j]
FirstMatch(candidates, args, kw, partial) ==
  Earliest(candidates, {i \in DOMAIN candidates : Accepts(candidates[i].method, args, kw, partial)})
==============================================================================
