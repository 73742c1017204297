------------------------------- MODULE Dispatch -------------------------------
(***************************************************************************)
(* Multiple dispatch: unpythonic/dispatch.py.                              *)
(*                                                                         *)
(* One generic method name, declared @generic (or @typed) in the classes   *)
(* of a hierarchy.  Each class that declares it has a dispatcher with a    *)
(* registry of multimethods of its own; a call tries the multimethods of   *)
(* the dispatcher it reached and then those of the classes in the MRO of   *)
(* its receiver.  A multimethod is a record [name, sig]; the first         *)
(* parameter of every signature is self.                                   *)
(***************************************************************************)
EXTENDS Multimethods

CONSTANTS
  Classes,
  Mro,             \* class -> its method resolution order, itself first
  Multimethods,    \* set of [name, sig]; a parameter without annotation has type Unannotated
  Receivers,       \* set of [cls, truthy]: an instance and its truth value
  CallArgs,        \* set of [args, kw]
  MaxMethods       \* bound: multimethods registered in all

VARIABLES
  registry,        \* class -> the _method_registry of its dispatcher, in order of registration
  made,            \* classes whose dispatcher is in _dispatcher_registry
  typed,           \* those that take no more multimethods
  call             \* the call made since the latest registration, or None

vars == <<registry, made, typed, call>>

\* MUTANT of LatestFirst: in order of registration
LatestFirst_never(seq) == seq
LatestFirst(seq) == [i \in DOMAIN seq |-> seq[Len(seq) + 1 - i]]

\* The class whose attribute getattr(c, name) finds: c or a class it inherits from.
AttributeOf(c) ==
  LET having == {i \in DOMAIN Mro[c] : registry[Mro[c][i]] # <<>>}
  IN IF having = {} THEN None ELSE Mro[c][CHOOSE i \in having : \A j \in having : i <= j]

\* The multimethods of a class, each with the class whose registry holds it.
Owned(c) == IF c = None THEN <<>>
            ELSE [i \in DOMAIN registry[c] |-> [owner |-> c, method |-> LatestFirst(registry[c])[i]]]

\* _list_multimethods: the dispatcher's own, and then those of the attribute
\* that each class in the MRO of self, after the first, has by that name.
RECURSIVE Linked(_)
Linked(bases) ==
  IF bases = <<>> THEN <<>> ELSE Owned(AttributeOf(Head(bases))) \o Linked(Tail(bases))
ListMultimethods(dispatcher, self) ==
  Owned(dispatcher) \o (IF self.truthy THEN Linked(Tail(Mro[self.cls])) ELSE <<>>)

SelfOf(r) == [cls |-> r.cls, val |-> "self", items |-> <<>>]

FullyAnnotated(m) == \A p \in Params(m.sig) : p.type # Unannotated

Init ==
  /\ registry = [c \in Classes |-> <<>>]
  /\ made = {}
  /\ typed = {}
  /\ call = None

Registered == {<<c, i>> \in Classes \X (1..MaxMethods) : i \in DOMAIN registry[c]}

\* _setup and _register_to: the dispatcher is made for the first multimethod
\* (and stays, if the registration then fails); @typed takes no more.
Register(c, m) ==
  /\ call' = None
  /\ made' = made \cup {c}
  /\ registry' = IF c \notin typed /\ FullyAnnotated(m)
                 THEN [registry EXCEPT ![c] = Append(@, m)]
                 ELSE registry                                   \* TypeError

\* @generic, and @augment from anywhere.
Generic(c, m) ==
  /\ Cardinality(Registered) < MaxMethods
  /\ Register(c, m)
  /\ UNCHANGED typed

\* @augment of a function that is not generic raises TypeError.
Augment(c, m) == registry[c] # <<>> /\ Generic(c, m)

\* @typed registers the multimethod and then closes the dispatcher.
Typed(c, m) ==
  /\ Cardinality(Registered) < MaxMethods
  /\ Register(c, m)
  /\ typed' = IF FullyAnnotated(m) THEN typed \cup {c} ELSE typed

Dispatched(r, above, dispatcher, a) ==
  [ receiver |-> r, above |-> above, args |-> <<SelfOf(r)>> \o a.args, kw |-> a.kw,
    chosen |-> FirstMatch(ListMultimethods(dispatcher, r), <<SelfOf(r)>> \o a.args, a.kw, FALSE) ]

\* r.f(...): the dispatcher is the attribute of the receiver's class.
Call(r, a) ==
  /\ call = None
  /\ AttributeOf(r.cls) # None
  /\ call' = Dispatched(r, None, AttributeOf(r.cls), a)
  /\ UNCHANGED <<registry, made, typed>>

\* super().f(...) in a multimethod of class c: the dispatcher is that of the
\* next class in the MRO of the receiver that declares f itself.
SuperCall(r, c, a) ==
  LET mro == Mro[r.cls]
      later == {i \in DOMAIN mro : /\ \E j \in 1..(i - 1) : mro[j] = c
                                   /\ registry[mro[i]] # <<>>}
  IN /\ call = None
     /\ registry[c] # <<>>
     /\ later # {}
     /\ call' = Dispatched(r, c, mro[CHOOSE i \in later : \A j \in later : i <= j], a)
     /\ UNCHANGED <<registry, made, typed>>

Next ==
  \/ \E c \in Classes, m \in Multimethods : Generic(c, m) \/ Augment(c, m) \/ Typed(c, m)
  \/ \E r \in Receivers, a \in CallArgs : Call(r, a) \/ \E c \in Classes : SuperCall(r, c, a)

Spec == Init /\ [][Next]_vars

------------------------------------------------------------------------------
TypeOK ==
  /\ registry \in [Classes -> Seq(Multimethods)]
  /\ made \subseteq Classes
  /\ typed \subseteq made
  /\ call # None => call.receiver \in Receivers

\* The multimethods a call should try: those of each class in MRO order,
\* from the class asked, in most-recently-registered order.
Newest(c) == LET k == Len(registry[c]) IN
             [i \in 1..k |-> [owner |-> c, method |-> registry[c][k + 1 - i]]]
RECURSIVE InMroOrder(_)
InMroOrder(mro) == IF mro = <<>> THEN <<>> ELSE Newest(Head(mro)) \o InMroOrder(Tail(mro))

\* Each class inherits along the rest of the MRO: no diamonds.
Linear(mro) == \A i \in DOMAIN mro : Mro[mro[i]] = SubSeq(mro, i, Len(mro))

From(mro, c) == IF c = None THEN mro
                ELSE SubSeq(mro, (CHOOSE i \in DOMAIN mro : mro[i] = c) + 1, Len(mro))

\* "Classes are tried in MRO order.  All multimethods of the method defined
\* in the class currently being looked up are tested before moving on to the
\* next class in the MRO", and in one class the latest registration that
\* matches wins.  It is so for a call on a truthy receiver of a class
\* without multiple inheritance, in whichever order the classes and later
\* augmentations have registered their multimethods.
TriedInMroOrder ==
  (call # None /\ call.above = None /\ call.receiver.truthy /\ Linear(Mro[call.receiver.cls])) =>
     call.chosen = FirstMatch(InMroOrder(Mro[call.receiver.cls]), call.args, call.kw, FALSE)

\* The same without the exceptions, and for super() calls too, as the
\* docstring of generic says.
AlwaysInMroOrder ==
  call # None =>
     call.chosen = FirstMatch(InMroOrder(From(Mro[call.receiver.cls], call.above)), call.args, call.kw, FALSE)
==============================================================================
