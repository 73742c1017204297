------------------------- MODULE EnvironmentsProofs -------------------------
(***************************************************************************)
(* Proofs about Environments, for all names, values, bindings and          *)
(* constructs: what was bound stays bound until someone asks for a change, *)
(* and a finalized environment keeps its names.                            *)
(*                                                                         *)
(* Four parts of the invariant say why.  A right-hand side that is being   *)
(* evaluated belongs to a name that has no initializer yet, as the         *)
(* construct has looked; the body of a let only runs in a finalized        *)
(* environment; no construct fills an assign-once environment, and in one  *)
(* a reserved name, which could be deleted, is not given a value.          *)
(*                                                                         *)
(* That do0 returns its first value needs to know which of its items are   *)
(* done (FirstIsKept).                                                     *)
(***************************************************************************)
EXTENDS Environments, TLAPS

\* While a thunk runs, its name has not been given a value by the construct.
NotYetGiven == at = "thunk" /\ ~ Doing => todo[1].name \notin DOMAIN given
\* The body of a let, and the function that a decorator gives, come after the end of
\* the bindings.
FinalizedBeforeBody == Letting /\ at \in {"body", "outside"} => finalized
\* Constructs make environments of the class env; code that uses one of its own
\* runs no thunk.
ThunksHaveConstructs ==
  /\ form.cls = "assignonce" => form.kind = "plain"
  /\ at = "thunk" => Recursive
\* No definition succeeds for a reserved name, which could be deleted.
NothingReservedGiven == form.cls = "assignonce" => \A n \in DOMAIN given : n \notin Reserved

IInv ==
  BindingsAreKept /\ NotYetGiven /\ FinalizedBeforeBody /\ ThunksHaveConstructs /\ NothingReservedGiven

\* What Without does with the names and the values.
LEMMA WithoutMeans ==
  ASSUME NEW f, NEW S
  PROVE  /\ DOMAIN Without(f, S) = DOMAIN f \ S
         /\ \A m \in DOMAIN f \ S : Without(f, S)[m] = f[m]
  BY DEF Without, Restrict

LEMMA NothingBound == DOMAIN <<>> = {}
  OBVIOUS

\* Nothing is given at first.
LEMMA InitIInv == ASSUME EnvironmentsAssumption, Init PROVE IInv
  BY NothingBound
     DEF EnvironmentsAssumption, FormsType, Init, IInv, BindingsAreKept, NotYetGiven,
         FinalizedBeforeBody, ThunksHaveConstructs, NothingReservedGiven, Recursive

\* An operation of user code keeps the invariant if it keeps the values of the names that are
\* still given, and, while a thunk runs, gives no others.
LEMMA OperationKeeps ==
  ASSUME IInv, ByUser,
         form.cls = "assignonce" \/ at = "thunk" =>
           \A n \in DOMAIN given' : n \in DOMAIN env' /\ env'[n] = given'[n],
         form.cls # "assignonce" => DOMAIN given' \subseteq DOMAIN given,
         form.cls = "assignonce" => \A n \in DOMAIN given' : n \notin Reserved
  PROVE  IInv'
<1>1. UNCHANGED <<form, todo, finalized, at>>
  BY DEF ByUser
<1>2. BindingsAreKept'
  BY <1>1 DEF ByUser, BindingsAreKept
<1>3. NotYetGiven'
  <2>1. SUFFICES ASSUME at = "thunk", ~ Doing PROVE todo[1].name \notin DOMAIN given'
    BY <1>1 DEF NotYetGiven, Doing
  <2>2. form.cls # "assignonce"
    BY <2>1 DEF IInv, ThunksHaveConstructs, Recursive
  <2> QED
    BY <2>1, <2>2 DEF IInv, NotYetGiven
<1>4. FinalizedBeforeBody' /\ ThunksHaveConstructs' /\ NothingReservedGiven'
  BY <1>1 DEF IInv, FinalizedBeforeBody, ThunksHaveConstructs, NothingReservedGiven, Letting, Pythonic, Lispy, Recursive
<1> QED
  BY <1>2, <1>3, <1>4 DEF IInv

\* What is given is bound, in an assign-once environment and while a thunk runs.
LEMMA GivenIsBound ==
  ASSUME IInv, form.cls = "assignonce" \/ at = "thunk", NEW n \in DOMAIN given
  PROVE  n \in DOMAIN env /\ env[n] = given[n]
  BY DEF IInv, BindingsAreKept

\* Each operation of user code keeps the invariant.
LEMMA UserKeeps == ASSUME IInv, UserOperates PROVE IInv'
<1> USE DEF IInv, NothingReservedGiven
<1>1. ASSUME NEW n \in Names, NEW v \in Values, SetAttr(n, v) PROVE IInv'
  <2>0. ByUser /\ env' = Binds(env, n, v) /\ n \notin Reserved
    BY <1>1 DEF SetAttr, Definable, Storable
  <2>1. CASE form.cls = "assignonce"
    <3>1. n \notin DOMAIN env /\ n \notin DOMAIN given
      BY <1>1, <2>1, GivenIsBound DEF SetAttr, Definable
    <3>2. given' = Binds(given, n, v)
      BY <1>1, <2>1, <3>1 DEF SetAttr, Gives
    <3>3. \A m \in DOMAIN given' : m \in DOMAIN env' /\ env'[m] = given'[m]
      BY <2>0, <2>1, <3>2, GivenIsBound DEF Binds
    <3>4. \A m \in DOMAIN given' : m \notin Reserved
      BY <2>0, <2>1, <3>2 DEF Binds
    <3> QED
      BY <2>0, <2>1, <3>3, <3>4, OperationKeeps
  <2>2. CASE form.cls # "assignonce"
    <3>1. given' = Without(given, {n})
      BY <1>1, <2>2 DEF SetAttr, Touches
    <3>2. DOMAIN given' \subseteq DOMAIN given
      BY <3>1, WithoutMeans
    <3>3. at = "thunk" => \A m \in DOMAIN given' : m \in DOMAIN env' /\ env'[m] = given'[m]
      BY <2>0, <3>1, GivenIsBound DEF Without, Restrict, Binds
    <3> QED
      BY <2>0, <2>2, <3>2, <3>3, OperationKeeps
  <2> QED
    BY <2>1, <2>2
<1>2. ASSUME NEW n \in Names, NEW v \in Values, Set(n, v) PROVE IInv'
  <2>0. ByUser /\ env' = Binds(env, n, v) /\ n \notin Reserved
    BY <1>2 DEF Set, Storable
  <2>1. CASE form.cls = "assignonce"
    <3>1. given' = Binds(given, n, v)
      BY <1>2, <2>1 DEF Set
    <3>2. \A m \in DOMAIN given' : m \in DOMAIN env' /\ env'[m] = given'[m]
      BY <2>0, <2>1, <3>1, GivenIsBound DEF Binds
    <3>3. \A m \in DOMAIN given' : m \notin Reserved
      BY <2>0, <2>1, <3>1 DEF Binds
    <3> QED
      BY <2>0, <2>1, <3>2, <3>3, OperationKeeps
  <2>2. CASE form.cls # "assignonce"
    <3>1. given' = Without(given, {n})
      BY <1>2, <2>2 DEF Set, Touches
    <3>2. DOMAIN given' \subseteq DOMAIN given
      BY <3>1, WithoutMeans
    <3>3. at = "thunk" => \A m \in DOMAIN given' : m \in DOMAIN env' /\ env'[m] = given'[m]
      BY <2>0, <3>1, GivenIsBound DEF Without, Restrict, Binds
    <3> QED
      BY <2>0, <2>2, <3>2, <3>3, OperationKeeps
  <2> QED
    BY <2>1, <2>2
<1>3. ASSUME NEW n \in Names, NEW v \in Values, SetDefault(n, v) PROVE IInv'
  <2>1. ByUser /\ given' = given
    BY <1>3 DEF SetDefault
  <2>2. \A m \in DOMAIN env : m \in DOMAIN env' /\ env'[m] = env[m]
    BY <1>3 DEF SetDefault, Binds
  <2>3. form.cls = "assignonce" \/ at = "thunk" =>
          \A m \in DOMAIN given' : m \in DOMAIN env' /\ env'[m] = given'[m]
    BY <2>1, <2>2, GivenIsBound
  <2> QED
    BY <2>1, <2>3, OperationKeeps
<1>4. ASSUME NEW n \in Names, DelAttr(n) PROVE IInv'
  <2>0. ByUser /\ env' = Without(env, {n})
    BY <1>4 DEF DelAttr
  <2>1. CASE form.cls = "assignonce"
    <3>1. n \in Reserved /\ given' = given
      BY <1>4, <2>1 DEF DelAttr
    <3>2. \A m \in DOMAIN given' : m \in DOMAIN env' /\ env'[m] = given'[m]
      BY <2>0, <2>1, <3>1, GivenIsBound DEF Without, Restrict
    <3> QED
      BY <2>0, <2>1, <3>1, <3>2, OperationKeeps
  <2>2. CASE form.cls # "assignonce"
    <3>1. given' = Without(given, {n})
      BY <1>4, <2>2 DEF DelAttr, Touches
    <3>2. DOMAIN given' \subseteq DOMAIN given
      BY <3>1, WithoutMeans
    <3>3. at = "thunk" => \A m \in DOMAIN given' : m \in DOMAIN env' /\ env'[m] = given'[m]
      BY <2>0, <3>1, GivenIsBound DEF Without, Restrict
    <3> QED
      BY <2>0, <2>2, <3>2, <3>3, OperationKeeps
  <2> QED
    BY <2>1, <2>2
<1>5. ASSUME NEW n \in Names, Pop(n) PROVE IInv'
  <2>1. ByUser /\ env' = Without(env, {n}) /\ given' = Without(given, {n})
    BY <1>5 DEF Pop, Touches
  <2>2. DOMAIN given' \subseteq DOMAIN given
    BY <2>1, WithoutMeans
  <2>3. form.cls = "assignonce" \/ at = "thunk" =>
          \A m \in DOMAIN given' : m \in DOMAIN env' /\ env'[m] = given'[m]
    BY <2>1, GivenIsBound DEF Without, Restrict
  <2> QED
    BY <2>1, <2>2, <2>3, OperationKeeps
<1>6. ASSUME NEW mapping \in Mappings, Update(mapping) PROVE IInv'
  <2>1. ByUser /\ given' = Without(given, DOMAIN mapping)
    BY <1>6 DEF Update, Touches
  <2>2. \A m \in DOMAIN env : m \notin DOMAIN mapping => m \in DOMAIN env' /\ env'[m] = env[m]
    BY <1>6 DEF Update
  <2>3. DOMAIN given' \subseteq DOMAIN given
    BY <2>1 DEF Without, Restrict
  <2>4. form.cls = "assignonce" \/ at = "thunk" =>
          \A m \in DOMAIN given' : m \in DOMAIN env' /\ env'[m] = given'[m]
    BY <2>1, <2>2, GivenIsBound DEF Without, Restrict
  <2> QED
    BY <2>1, <2>3, <2>4, OperationKeeps
<1>7. ASSUME Clear \/ ExitWith PROVE IInv'
  <2>1. ByUser /\ given' = <<>>
    BY <1>7 DEF Clear, ExitWith
  <2> QED
    BY <2>1, NothingBound, OperationKeeps
<1>8. ASSUME Finalize PROVE IInv'
  BY <1>8 DEF Finalize, BindingsAreKept, NotYetGiven, FinalizedBeforeBody, ThunksHaveConstructs,
              Doing, Letting, Pythonic, Lispy, Recursive
<1> QED
  BY <1>1, <1>2, <1>3, <1>4, <1>5, <1>6, <1>7, <1>8 DEF UserOperates

------------------------------------------------------------------------------
\* The construct stores a value under a name that it has not given yet, in do under any.
LEMMA StoreKeeps ==
  ASSUME IInv, NEW n, NEW v, Store(n, v), form.cls # "assignonce",
         \A m \in DOMAIN given : m \in DOMAIN env /\ env[m] = given[m],
         Doing \/ n \notin DOMAIN given
  PROVE  IInv'
<1>1. CASE n # Unnamed /\ Storable(n)
  <2>1. env' = Binds(env, n, v) /\ given' = Binds(given, n, v) /\ at' = "form" /\ form' = form
    BY <1>1 DEF Store, Gives
  <2>2. \A m \in DOMAIN given' : m \in DOMAIN env' /\ env'[m] = given'[m]
    BY <2>1 DEF Binds
  <2> QED
    BY <2>1, <2>2 DEF IInv, BindingsAreKept, NotYetGiven, FinalizedBeforeBody, ThunksHaveConstructs,
                      NothingReservedGiven
<1>2. CASE n = Unnamed
  BY <1>2 DEF Store, IInv, BindingsAreKept, NotYetGiven, FinalizedBeforeBody, ThunksHaveConstructs,
              NothingReservedGiven
<1>3. CASE n # Unnamed /\ ~ Storable(n)
  BY <1>3 DEF Store, Leave, IInv, BindingsAreKept, NotYetGiven, FinalizedBeforeBody, ThunksHaveConstructs,
              NothingReservedGiven
<1> QED
  BY <1>1, <1>2, <1>3

\* A binding is stored at once, or its thunk starts, only if its name is not bound.
LEMMA EvaluateKeeps ==
  ASSUME IInv, at = "form", form.cls # "assignonce", Evaluate
  PROVE  IInv'
<1>1. \A m \in DOMAIN given : m \in DOMAIN env /\ env[m] = given[m]
  BY DEF IInv, BindingsAreKept
<1>2. CASE Taken \/ (Recursive /\ todo[1].rhs = "misfit") \/ (OwnRead # None /\ OwnRead \notin DOMAIN env)
  BY <1>2 DEF Evaluate, Leave, IInv, BindingsAreKept, NotYetGiven, FinalizedBeforeBody,
              ThunksHaveConstructs, NothingReservedGiven
<1>3. ASSUME ~ Taken, at' = "thunk", Recursive, UNCHANGED <<form, todo, env, finalized, last, given, first>>
      PROVE  IInv'
  BY <1>1, <1>3 DEF Taken, IInv, BindingsAreKept, NotYetGiven, FinalizedBeforeBody,
                    ThunksHaveConstructs, NothingReservedGiven, Doing, Recursive
<1>4. ASSUME ~ Taken, NEW v, Store(todo[1].name, v) PROVE IInv'
  <2>1. Doing \/ todo[1].name \notin DOMAIN given
    BY <1>1, <1>4 DEF Taken
  <2> QED
    BY <1>1, <1>4, <2>1, StoreKeeps
<1> QED
  BY <1>2, <1>3, <1>4 DEF Evaluate

\* The construct fills an environment of the class env only.
LEMMA ConstructKeeps ==
  ASSUME IInv, PythonicLet \/ LispyLet \/ Do \/ ThunkEnds
  PROVE  IInv'
<1>1. form.cls # "assignonce"
  BY DEF IInv, ThunksHaveConstructs, PythonicLet, LispyLet, Do, ThunkEnds, Pythonic, Lispy, Doing, Recursive
<1>2. CASE at = "form" /\ Evaluate
  BY <1>1, <1>2, EvaluateKeeps
<1>3. CASE at = "form" /\ Complete
  BY <1>1, <1>3, NothingBound
     DEF Complete, IInv, BindingsAreKept, NotYetGiven, FinalizedBeforeBody, ThunksHaveConstructs, NothingReservedGiven
<1>4. CASE Leave
  BY <1>4 DEF Leave, IInv, BindingsAreKept, NotYetGiven, FinalizedBeforeBody, ThunksHaveConstructs,
              NothingReservedGiven
<1>5. ASSUME at = "thunk", NEW v, Store(todo[1].name, v) PROVE IInv'
  BY <1>1, <1>5, StoreKeeps DEF IInv, BindingsAreKept, NotYetGiven
<1> QED
  BY <1>2, <1>3, <1>4, <1>5 DEF PythonicLet, LispyLet, Do, ThunkEnds

LEMMA StepKeeps == ASSUME IInv, [Next]_nvars PROVE IInv'
<1>1. CASE UserOperates
  BY <1>1, UserKeeps
<1>2. CASE PythonicLet \/ LispyLet \/ Do \/ ThunkEnds
  BY <1>2, ConstructKeeps
<1>3. CASE CallDecorated \/ BodyEnds
  BY <1>3 DEF CallDecorated, BodyEnds, IInv, BindingsAreKept, NotYetGiven, FinalizedBeforeBody,
              ThunksHaveConstructs, NothingReservedGiven, Letting, Pythonic, Lispy
<1>4. CASE UNCHANGED nvars
  BY <1>4 DEF nvars, IInv, BindingsAreKept, NotYetGiven, FinalizedBeforeBody, ThunksHaveConstructs,
              NothingReservedGiven, Letting, Pythonic, Lispy, Doing, Recursive
<1> QED
  BY <1>1, <1>2, <1>3, <1>4 DEF Next

\* In a finalized environment names neither come nor go, but for the end of a with block.
LEMMA FinalizedKeepsNames ==
  ASSUME finalized, [Next]_nvars
  PROVE  DOMAIN env' = DOMAIN env \/ ExitWith
<1>1. CASE UserOperates
  <2>1. ASSUME NEW n \in Names, NEW v \in Values, SetAttr(n, v) \/ Set(n, v) \/ SetDefault(n, v)
        PROVE  DOMAIN env' = DOMAIN env
    BY <2>1 DEF SetAttr, Set, SetDefault, Definable, Storable, Binds
  <2>2. ASSUME NEW n \in Names, DelAttr(n) \/ Pop(n) PROVE FALSE
    BY <2>2 DEF DelAttr, Pop
  <2>3. ASSUME NEW m \in Mappings, Update(m) PROVE DOMAIN env' = DOMAIN env
    BY <2>3 DEF Update
  <2>4. ~ Clear /\ (Finalize => DOMAIN env' = DOMAIN env)
    BY DEF Clear, Finalize
  <2> QED
    BY <1>1, <2>1, <2>2, <2>3, <2>4 DEF UserOperates
<1>2. ASSUME NEW n, NEW v, Store(n, v) PROVE DOMAIN env' = DOMAIN env
  BY <1>2 DEF Store, Storable, Leave, Binds
<1>3. CASE PythonicLet \/ LispyLet \/ Do \/ ThunkEnds
  BY <1>2, <1>3 DEF PythonicLet, LispyLet, Do, ThunkEnds, Evaluate, Complete, Leave
<1>4. CASE CallDecorated \/ BodyEnds \/ UNCHANGED nvars
  BY <1>4 DEF CallDecorated, BodyEnds, nvars
<1> QED
  BY <1>1, <1>3, <1>4 DEF Next

------------------------------------------------------------------------------
(***************************************************************************)
(* Types, and the value of do0                                             *)
(***************************************************************************)
LEMMA InitTypes == ASSUME EnvironmentsAssumption, Init PROVE TypeOK
  BY NothingBound DEF Init, TypeOK

\* A value is stored, or the construct is left.
LEMMA StoreTypes ==
  ASSUME TypeOK, NEW n, NEW v \in Values, Store(n, v)
  PROVE  TypeOK'
<1>1. CASE UNCHANGED env
  BY <1>1 DEF TypeOK, Store, Leave
<1>2. CASE Storable(n) /\ env' = Binds(env, n, v)
  BY <1>2 DEF TypeOK, Store, Leave, Storable, Binds, Names
<1> QED
  BY <1>1, <1>2 DEF Store, Leave

LEMMA EvaluateTypes ==
  ASSUME TypeOK, Evaluate
  PROVE  TypeOK'
<1>1. CASE Leave \/ (at' = "thunk" /\ UNCHANGED <<form, todo, env, finalized, last, given, first>>)
  BY <1>1 DEF TypeOK, Leave
<1>2. ASSUME NEW v \in Values, Store(todo[1].name, v) PROVE TypeOK'
  BY <1>2, StoreTypes
<1>3. CASE OwnRead \in DOMAIN env /\ Store(todo[1].name, env[OwnRead])
  <2>1. env[OwnRead] \in Values
    BY <1>3 DEF TypeOK
  <2> QED
    BY <1>3, <2>1, StoreTypes
<1> QED
  BY <1>1, <1>2, <1>3 DEF Evaluate

LEMMA UserTypes ==
  ASSUME EnvironmentsAssumption, TypeOK, UserOperates
  PROVE  TypeOK'
<1> USE DEF TypeOK, ByUser
<1>1. ASSUME NEW n \in Names, NEW v \in Values, SetAttr(n, v) \/ Set(n, v) \/ SetDefault(n, v) PROVE TypeOK'
  BY <1>1 DEF SetAttr, Set, SetDefault, Binds
<1>2. ASSUME NEW n \in Names, DelAttr(n) \/ Pop(n) PROVE TypeOK'
  <2>1. env' = Without(env, {n}) /\ UNCHANGED <<form, finalized, at>>
    BY <1>2 DEF DelAttr, Pop
  <2>2. DOMAIN env' = DOMAIN env \ {n} /\ \A m \in DOMAIN env' : env'[m] = env[m]
    BY <2>1 DEF Without, Restrict
  <2> QED
    BY <2>1, <2>2
<1>3. ASSUME NEW m \in Mappings, Update(m) PROVE TypeOK'
  <2>1. DOMAIN m \subseteq Names /\ \A n \in DOMAIN m : m[n] \in Values
    BY DEF EnvironmentsAssumption
  <2> QED
    BY <1>3, <2>1 DEF Update
<1>4. CASE Clear \/ Finalize \/ ExitWith
  BY <1>4, NothingBound DEF Clear, Finalize, ExitWith
<1> QED
  BY <1>1, <1>2, <1>3, <1>4 DEF UserOperates

LEMMA StepTypes == ASSUME EnvironmentsAssumption, TypeOK, [Next]_nvars PROVE TypeOK'
<1>1. ASSUME NEW v \in Values, Store(todo[1].name, v) PROVE TypeOK'
  BY <1>1, StoreTypes
<1>2. CASE PythonicLet \/ LispyLet \/ Do \/ ThunkEnds
  <2>1. CASE Complete \/ Leave
    BY <2>1 DEF TypeOK, Complete, Leave
  <2> QED
    BY <1>1, <1>2, <2>1, EvaluateTypes DEF PythonicLet, LispyLet, Do, ThunkEnds
<1>3. CASE CallDecorated \/ BodyEnds \/ UNCHANGED nvars
  BY <1>3 DEF TypeOK, CallDecorated, BodyEnds, nvars
<1> QED
  BY <1>2, <1>3, UserTypes DEF Next

\* do0: the items with those it adds, how many of them are done, and when
\* _do0_result is among them
Items == Do0(form.items)
Done == Len(Items) - Len(todo)
Named == form.items[1].name # Unnamed
Place == IF Named THEN 2 ELSE 1

\* What is still to be evaluated is the end of the items.  Until _do0_result is bound,
\* the first item is done at most, whose name has its value; afterwards it has this value
\* for good, which the last item reads.
FirstIsKept ==
  form.kind = "do0" =>
    /\ at \in {"form", "thunk", "over"}
    /\ todo \in Seq(Item) /\ Len(todo) <= Len(Items)
    /\ \A i \in 1..Len(todo) : todo[i] = Items[Done + i]
    /\ Done = 0 <=> first = None
    /\ at = "thunk" => todo # <<>> /\ OwnRead = None
    /\ Done < Place => Do0Result \notin DOMAIN given
    /\ Named /\ Done = 1 /\ at = "form" =>
         form.items[1].name \in DOMAIN given /\ given[form.items[1].name] = first
    /\ Done >= Place /\ Do0Result \in DOMAIN given => given[Do0Result] = first
    /\ todo = <<>> /\ Do0Result \in DOMAIN given => last = first

\* Where _do0_result is among the items of do0
LEMMA ItemsOfDo0 ==
  ASSUME EnvironmentsAssumption, form \in Forms, form.kind = "do0"
  PROVE  /\ form.cls = "env" /\ Items \in Seq(Item) /\ Len(Items) > Place /\ Len(Items) \in Nat
         /\ Items[Len(Items)].name = Unnamed
         /\ Named => Items[1].name = form.items[1].name
         /\ \A i \in 1..Len(Items) : Items[i].name = Do0Result <=> i = Place
<1> DEFINE items == form.items
<1> DEFINE read == [name |-> Unnamed, rhs |-> "thunk"]
<1> DEFINE first0 == IF Named THEN <<items[1], [name |-> Do0Result, rhs |-> "thunk"]>>
                     ELSE <<[name |-> Do0Result, rhs |-> items[1].rhs]>>
<1>1. /\ form.cls = "env" /\ items \in Seq(Item) /\ items # <<>>
      /\ Do0Result \in Names /\ Unnamed \notin Names
      /\ \A i \in 1..Len(items) : items[i].name # Do0Result
  BY DEF EnvironmentsAssumption, FormsType, Names
<1>2. Items = first0 \o Tail(items) \o <<read>>
  BY DEF Items, Do0, Named
<1>3. items[1] \in Item /\ items[1].name # Do0Result /\ items[1].rhs \in {"value", "thunk", "misfit"}
  <2> HIDE DEF items
  <2>1. 1 \in 1..Len(items)
    BY <1>1
  <2>2. items[1] \in Item
    BY <1>1, <2>1
  <2> QED
    BY <1>1, <2>1, <2>2 DEF Item
<1>4. /\ first0 \in Seq(Item) /\ Len(first0) = Place /\ first0[Place].name = Do0Result
      /\ Named => first0[1] = items[1]
  <2>1. [name |-> Do0Result, rhs |-> "thunk"] \in Item /\ [name |-> Do0Result, rhs |-> items[1].rhs] \in Item
    BY <1>1, <1>3 DEF Item
  <2> HIDE DEF items
  <2>2. CASE Named
    BY <1>3, <2>1, <2>2 DEF Place
  <2>3. CASE ~Named
    BY <1>3, <2>1, <2>3 DEF Place
  <2> QED
    BY <2>2, <2>3
<1>5. read \in Item
  BY DEF Item
<1>6. Tail(items) \in Seq(Item) /\ \A i \in 1..Len(Tail(items)) : Tail(items)[i].name # Do0Result
  <2> HIDE DEF items
  <2>1. Tail(items) \in Seq(Item) /\ Len(Tail(items)) = Len(items) - 1
    BY <1>1
  <2>2. \A i \in 1..Len(Tail(items)) : Tail(items)[i] = items[i + 1] /\ i + 1 \in 1..Len(items)
    BY <1>1, <2>1
  <2> QED
    BY <1>1, <2>1, <2>2
<1>7. Place \in {1, 2} /\ read.name = Unnamed /\ Unnamed # Do0Result
  BY <1>1 DEF Place
<1>8. Named => first0[1].name # Do0Result
  BY <1>3, <1>4
<1>9. /\ Items \in Seq(Item) /\ Len(Items) = Place + Len(Tail(items)) + 1 /\ Len(Tail(items)) \in Nat
      /\ \A i \in 1..Len(Items) :
           Items[i] = IF i <= Place THEN first0[i]
                      ELSE IF i < Len(Items) THEN Tail(items)[i - Place] ELSE read
  <2> HIDE DEF items, first0, read
  <2>1. DEFINE rest == Tail(items)
  <2>2. rest \in Seq(Item) /\ Items = first0 \o rest \o <<read>>
    BY <1>2, <1>6
  <2> HIDE DEF rest
  <2>3. /\ Items \in Seq(Item) /\ Len(Items) = Place + Len(rest) + 1 /\ Len(rest) \in Nat
        /\ \A i \in 1..Len(Items) :
             Items[i] = IF i <= Place THEN first0[i]
                        ELSE IF i < Len(Items) THEN rest[i - Place] ELSE read
    BY <1>4, <1>5, <1>7, <2>2
  <2> QED
    BY <2>3 DEF rest
<1>10. \A i \in 1..Len(Items) : Items[i].name = Do0Result <=> i = Place
  <2> HIDE DEF items, first0, read
  <2> SUFFICES ASSUME NEW i \in 1..Len(Items) PROVE Items[i].name = Do0Result <=> i = Place
    OBVIOUS
  <2>1. CASE i <= Place
    <3>1. i = Place \/ (Named /\ i = 1 /\ Place = 2)
      BY <1>7, <2>1 DEF Place
    <3> QED
      BY <1>4, <1>8, <1>9, <2>1, <3>1
  <2>2. CASE i > Place /\ i < Len(Items)
    <3>1. i - Place \in 1..Len(Tail(items))
      BY <1>7, <1>9, <2>2
    <3>2. Items[i] = Tail(items)[i - Place] /\ i # Place
      BY <1>7, <1>9, <2>2
    <3> QED
      BY <1>6, <3>1, <3>2
  <2>3. CASE i > Place /\ i = Len(Items)
    BY <1>7, <1>9, <2>3
  <2> QED
    BY <1>7, <1>9, <2>1, <2>2, <2>3
<1>11. Items[Len(Items)].name = Unnamed /\ Len(Items) > Place /\ Len(Items) \in Nat
  <2> HIDE DEF items, first0, read
  <2> QED
    BY <1>7, <1>9
<1>12. Named => Items[1].name = form.items[1].name
  <2>1. 1 \in 1..Len(Items) /\ 1 <= Place
    BY <1>7, <1>11
  <2> QED
    BY <1>4, <1>9, <2>1
<1> QED
  BY <1>1, <1>9, <1>10, <1>11, <1>12

LEMMA InitFirst == ASSUME EnvironmentsAssumption, Init PROVE FirstIsKept
<1> SUFFICES ASSUME form.kind = "do0" PROVE FirstIsKept
  BY DEF FirstIsKept
<1>1. form \in Forms /\ todo = Items /\ given = <<>> /\ at = "form" /\ first = None
  BY DEF Init, Items
<1>2. /\ Items \in Seq(Item) /\ Len(Items) > Place /\ Len(Items) \in Nat /\ Place \in {1, 2}
  BY <1>1, ItemsOfDo0 DEF Place
<1>3. Done = 0 /\ todo # <<>>
  BY <1>1, <1>2 DEF Done
<1> QED
  BY <1>1, <1>2, <1>3, NothingBound DEF FirstIsKept

\* A value of an item of do0 is stored, by the construct or after a thunk.
LEMMA StoreFirst ==
  ASSUME EnvironmentsAssumption, TypeOK, IInv, FirstIsKept, form.kind = "do0",
         at \in {"form", "thunk"}, todo # <<>>, NEW v, Store(todo[1].name, v),
         IF OwnRead # None THEN OwnRead \in DOMAIN env /\ v = env[OwnRead] ELSE v \in Values
  PROVE  FirstIsKept'
<1> DEFINE n == todo[1].name
<1>1. /\ todo \in Seq(Item) /\ Len(todo) <= Len(Items)
      /\ \A i \in 1..Len(todo) : todo[i] = Items[Done + i]
      /\ Done = 0 <=> first = None
      /\ at = "thunk" => todo # <<>> /\ OwnRead = None
      /\ Done < Place => Do0Result \notin DOMAIN given
      /\ Named /\ Done = 1 /\ at = "form" =>
           form.items[1].name \in DOMAIN given /\ given[form.items[1].name] = first
      /\ Done >= Place /\ Do0Result \in DOMAIN given => given[Do0Result] = first
  BY DEF FirstIsKept
<1>2. /\ form.cls = "env" /\ Items \in Seq(Item) /\ Len(Items) > Place /\ Len(Items) \in Nat
      /\ Items[Len(Items)].name = Unnamed
      /\ Named => Items[1].name = form.items[1].name
      /\ \A i \in 1..Len(Items) : Items[i].name = Do0Result <=> i = Place
  BY ItemsOfDo0 DEF TypeOK
<1>3. /\ Place \in {1, 2} /\ (Named <=> Place = 2)
      /\ None \notin Names \cup Values /\ Do0Result \in Names /\ Do0Result # Unnamed
  BY DEF Place, EnvironmentsAssumption, Names
<1>4. /\ Len(todo) \in Nat \ {0} /\ Done \in Nat /\ Done = Len(Items) - Len(todo)
      /\ Done + 1 \in 1..Len(Items) /\ todo[1] = Items[Done + 1]
  BY <1>1, <1>2 DEF Done
<1>11. /\ Len(todo) \in Nat /\ Len(todo) # 0 /\ Len(Items) \in Nat /\ Done = Len(Items) - Len(todo)
       /\ Len(Items) > Place /\ Done \in Nat /\ Place \in Nat
  BY <1>2, <1>3, <1>4
<1>12. Place = 1 \/ Place = 2
  BY <1>3
<1>13. Place = 2 => Named
  BY <1>3
<1>5. Doing
  BY DEF Doing
<1>6. CASE Leave
  BY <1>6 DEF Leave, FirstIsKept, Items, Done, Place, Named, OwnRead
<1>7. CASE /\ at' = "form" /\ todo' = Tail(todo) /\ last' = v /\ UNCHANGED <<form, finalized>>
           /\ first' = (IF first = None THEN v ELSE first)
           /\ IF n = Unnamed THEN UNCHANGED <<env, given>>
                             ELSE given' = Binds(given, n, v)
  <2>1. Items' = Items /\ Place' = Place /\ Named' = Named
    BY <1>7 DEF Items, Place, Named
  <2>2. /\ todo' \in Seq(Item) /\ Len(todo') = Len(todo) - 1
        /\ \A i \in 1..Len(todo') : todo'[i] = todo[i + 1]
    BY <1>1, <1>7
  <2>3. Done' = Done + 1
    BY <1>4, <2>1, <2>2 DEF Done
  <2>4. \A i \in 1..Len(todo') : todo'[i] = Items[Done' + i]
    <3> SUFFICES ASSUME NEW i \in 1..Len(todo') PROVE todo'[i] = Items[Done' + i]
      OBVIOUS
    <3>1. i + 1 \in 1..Len(todo) /\ Done + (i + 1) = Done' + i
      BY <1>4, <2>2, <2>3
    <3> QED
      BY <1>1, <2>2, <3>1
  <2>5. n = Do0Result <=> Done + 1 = Place
    BY <1>2, <1>4
  <2>6. OwnRead = IF Done + 1 = Len(Items) THEN Do0Result
                  ELSE IF Done + 1 = Place /\ Named THEN form.items[1].name ELSE None
    <3>1. Len(todo) = 1 <=> Done + 1 = Len(Items)
      <4>1. \A a, b, c \in Nat : a = b - c => (c = 1 <=> a + 1 = b)
        OBVIOUS
      <4> QED
        BY <1>11, <4>1
    <3> QED
      BY <2>5, <3>1 DEF OwnRead, Named
  <2>7. OwnRead # None => at = "form"
    BY <1>1
  <2>8. Done = 0 => OwnRead = None /\ v \in Values
    <3>2. Done = 0 => Done + 1 # Len(Items) /\ Done + 1 # 2
      BY <1>11, <1>12
    <3>1. Done = 0 => Done + 1 # Len(Items) /\ ~(Done + 1 = Place /\ Named)
      BY <1>3, <3>2
    <3> QED
      BY <2>6, <3>1
  <2>9. first' # None
    BY <1>1, <1>3, <1>7, <2>8
  <2>10. at = "form" => \A m \in DOMAIN given : m \in DOMAIN env /\ env[m] = given[m]
    BY DEF IInv, BindingsAreKept
  <2>11. /\ \A m \in DOMAIN given' : m \in DOMAIN given \/ m = n
         /\ \A m \in DOMAIN given' : m # n => given'[m] = given[m]
         /\ n # Unnamed => n \in DOMAIN given' /\ given'[n] = v
         /\ n = Unnamed => given' = given
    BY <1>7 DEF Binds
  <2>12. Done' < Place => Do0Result \notin DOMAIN given'
    <3> SUFFICES ASSUME Done' < Place PROVE Do0Result \notin DOMAIN given'
      OBVIOUS
    <3>1. Done < Place /\ Done + 1 # Place
      BY <1>11, <2>3
    <3> QED
      BY <1>1, <2>5, <2>11, <3>1
  <2>13. Named /\ Done' = 1 =>
           form.items[1].name \in DOMAIN given' /\ given'[form.items[1].name] = first'
    <3> SUFFICES ASSUME Named, Done' = 1
                 PROVE  form.items[1].name \in DOMAIN given' /\ given'[form.items[1].name] = first'
      OBVIOUS
    <3>1. Done = 0
      BY <1>4, <2>3
    <3>2. n = form.items[1].name /\ n # Unnamed /\ first' = v
      BY <1>1, <1>2, <1>4, <1>7, <3>1 DEF Named
    <3> QED
      BY <2>11, <3>2
  <2>14. Done' >= Place /\ Do0Result \in DOMAIN given' => given'[Do0Result] = first'
    <3> SUFFICES ASSUME Done' >= Place, Do0Result \in DOMAIN given'
                 PROVE  given'[Do0Result] = first'
      OBVIOUS
    <3>1. CASE Done + 1 = Place
      <4>1. given'[Do0Result] = v
        BY <1>3, <2>5, <2>11, <3>1
      <4>2. CASE Done = 0
        BY <1>1, <1>7, <4>1, <4>2
      <4>3. CASE Done # 0
        <5>1. Named /\ Done = 1 /\ Done + 1 # Len(Items)
          <6>1. Place = 2 /\ Done = 1 /\ Done + 1 # Len(Items)
            BY <1>11, <1>12, <3>1, <4>3
          <6> QED
            BY <1>13, <6>1
        <5>2. OwnRead = form.items[1].name
          BY <2>6, <3>1, <5>1
        <5>3. OwnRead # None
          <6>1. Items[1] \in Item
            BY <1>2, <1>4
          <6>2. form.items[1].name \in Names \cup {Unnamed}
            BY <1>2, <5>1, <6>1 DEF Item
          <6> QED
            BY <1>3, <5>1, <5>2, <6>2 DEF Named
        <5>4. at = "form" /\ v = env[OwnRead]
          BY <2>7, <5>3
        <5>5. env[OwnRead] = first
          BY <1>1, <2>10, <5>1, <5>2, <5>4
        <5> QED
          BY <1>1, <1>7, <4>1, <4>3, <5>4, <5>5
      <4> QED
        BY <4>2, <4>3
    <3>2. CASE Done + 1 # Place
      <4>1. Done >= Place /\ Done # 0
        BY <1>11, <1>12, <2>3, <3>2
      <4>2. n # Do0Result
        BY <2>5, <3>2
      <4> QED
        BY <1>1, <1>7, <2>11, <4>1, <4>2
    <3> QED
      BY <3>1, <3>2
  <2>15. todo' = <<>> /\ Do0Result \in DOMAIN given' => last' = first'
    <3> SUFFICES ASSUME todo' = <<>>, Do0Result \in DOMAIN given' PROVE last' = first'
      OBVIOUS
    <3>1. Len(todo) = 1
      BY <1>4, <2>2
    <3>2. Done + 1 = Len(Items) /\ Done >= Place /\ Done # 0
      BY <1>11, <1>12, <3>1
    <3>3. OwnRead = Do0Result /\ OwnRead # None
      BY <1>3, <2>6, <3>2
    <3>4. n = Unnamed /\ given' = given
      BY <1>2, <1>4, <2>11, <3>2
    <3>5. v = env[Do0Result] /\ at = "form"
      BY <2>7, <3>3
    <3>6. env[Do0Result] = given[Do0Result]
      BY <2>10, <3>4, <3>5
    <3> QED
      BY <1>1, <1>7, <3>2, <3>4, <3>5, <3>6
  <2>16. Len(todo') <= Len(Items') /\ (Done' = 0 <=> first' = None)
    BY <1>1, <1>4, <2>1, <2>2, <2>3, <2>9
  <2>17. /\ at' = "form" /\ \A i \in 1..Len(todo') : todo'[i] = Items'[Done' + i]
         /\ Named' /\ Done' = 1 /\ at' = "form" =>
              form'.items[1].name \in DOMAIN given' /\ given'[form'.items[1].name] = first'
    BY <1>7, <2>1, <2>4, <2>13
  <2>18. /\ Done' < Place' => Do0Result \notin DOMAIN given'
         /\ Done' >= Place' /\ Do0Result \in DOMAIN given' => given'[Do0Result] = first'
    BY <2>1, <2>12, <2>14
  <2> QED
    BY <2>2, <2>15, <2>16, <2>17, <2>18 DEF FirstIsKept
<1> QED
  BY <1>5, <1>6, <1>7 DEF Store, Gives

LEMMA StepFirst ==
  ASSUME EnvironmentsAssumption, TypeOK, IInv, FirstIsKept, [Next]_nvars
  PROVE  FirstIsKept'
<1> SUFFICES ASSUME form.kind = "do0" PROVE FirstIsKept'
  <2>1. form' = form
    BY DEF Next, nvars, UserOperates, SetAttr, Set, SetDefault, DelAttr, Pop, Update, Clear, Finalize, ExitWith, ByUser,
           PythonicLet, LispyLet, Do, ThunkEnds, CallDecorated, BodyEnds, Evaluate, Complete, Store, Leave
  <2> QED
    BY <2>1 DEF FirstIsKept
<1>1. form.cls = "env" /\ at \in {"form", "thunk", "over"}
  BY ItemsOfDo0 DEF TypeOK, FirstIsKept
<1> USE DEF Items, Done, Place, Named, OwnRead
<1>2. ASSUME UNCHANGED <<form, todo, at, last, first>>,
             \A m \in DOMAIN given' : m \in DOMAIN given /\ given'[m] = given[m],
             at \in {"thunk", "over"} \/ given' = given
      PROVE  FirstIsKept'
  BY <1>2 DEF FirstIsKept
<1>3. CASE UserOperates
  <2>1. at = "thunk" /\ UNCHANGED <<form, todo, at, last, first>>
    BY <1>1, <1>3 DEF UserOperates, SetAttr, Set, SetDefault, DelAttr, Pop, Update, Clear, Finalize, ExitWith, ByUser
  <2>2. \A m \in DOMAIN given' : m \in DOMAIN given /\ given'[m] = given[m]
    <3>1. ASSUME NEW S, Touches(S)
          PROVE  \A m \in DOMAIN given' : m \in DOMAIN given /\ given'[m] = given[m]
      BY <3>1 DEF Touches, Without, Restrict
    <3>2. CASE given' = <<>>
      BY <3>2, NothingBound
    <3> QED
      BY <1>1, <1>3, <3>1, <3>2
         DEF UserOperates, SetAttr, Set, SetDefault, DelAttr, Pop, Update, Clear, Finalize, ExitWith
  <2> QED
    BY <1>2, <2>1, <2>2
<1>4. CASE Leave
  BY <1>4 DEF Leave, FirstIsKept
<1>5. CASE at = "form" /\ todo # <<>> /\ Evaluate
  <2>1. CASE OwnRead # None /\ OwnRead \in DOMAIN env /\ Store(todo[1].name, env[OwnRead])
    <3> HIDE DEF Items, Done, Place, Named, OwnRead
    <3> QED
      BY <1>5, <2>1, StoreFirst
  <2>2. ASSUME OwnRead = None, NEW v \in Values, Store(todo[1].name, v) PROVE FirstIsKept'
    <3> HIDE DEF Items, Done, Place, Named, OwnRead
    <3> QED
      BY <1>5, <2>2, StoreFirst
  <2>3. CASE OwnRead = None /\ at' = "thunk" /\ UNCHANGED <<form, todo, env, finalized, last, given, first>>
    BY <1>5, <2>3 DEF FirstIsKept
  <2> HIDE DEF Items, Done, Place, Named, OwnRead
  <2> QED
    BY <1>4, <1>5, <2>1, <2>2, <2>3 DEF Evaluate
<1>6. CASE ThunkEnds
  <2>1. at = "thunk" /\ todo # <<>> /\ OwnRead = None
    BY <1>6 DEF ThunkEnds, FirstIsKept
  <2>2. ASSUME NEW v \in Values, Store(todo[1].name, v) PROVE FirstIsKept'
    <3> HIDE DEF Items, Done, Place, Named, OwnRead
    <3> QED
      BY <2>1, <2>2, StoreFirst
  <2> QED
    BY <1>4, <1>6, <2>2 DEF ThunkEnds
<1>7. CASE UNCHANGED nvars
  BY <1>7 DEF nvars, FirstIsKept
<1>8. ~ CallDecorated /\ ~ BodyEnds /\ ~ PythonicLet /\ ~ LispyLet
  BY <1>1 DEF CallDecorated, BodyEnds, PythonicLet, LispyLet, Pythonic, Lispy
<1> HIDE DEF Items, Done, Place, Named, OwnRead
<1> QED
  BY <1>3, <1>4, <1>5, <1>6, <1>7, <1>8 DEF Next, Do

------------------------------------------------------------------------------
\* What an assign-once environment or a construct has bound keeps its value until an
\* operation asks for a change (env.py:82, assignonce.py:37, let.py:235).
THEOREM BindingsHold == ASSUME EnvironmentsAssumption PROVE Spec => []BindingsAreKept
<1>1. Init => IInv
  BY InitIInv
<1>2. IInv /\ [Next]_nvars => IInv'
  BY StepKeeps
<1>3. IInv => BindingsAreKept
  BY DEF IInv
<1> QED
  BY <1>1, <1>2, <1>3, PTL DEF Spec

\* Once the body of a let can run, and in every finalized environment, no operation
\* and no construct adds a name or takes one away, other than the end of a with block.
THEOREM NamesFixed == ASSUME EnvironmentsAssumption PROVE Spec => NamesAreFixed
<1>1. Init => IInv
  BY InitIInv
<1>2. IInv /\ [Next]_nvars => IInv'
  BY StepKeeps
<1>3. IInv /\ [Next]_nvars =>
        [(finalized \/ (Letting /\ at \in {"body", "outside"})) => (DOMAIN env' = DOMAIN env \/ ExitWith)]_nvars
  BY FinalizedKeepsNames DEF IInv, FinalizedBeforeBody
<1> QED
  BY <1>1, <1>2, <1>3, PTL DEF Spec, NamesAreFixed

LEMMA AllKept == ASSUME EnvironmentsAssumption PROVE Spec => [](TypeOK /\ IInv /\ FirstIsKept)
<1>1. Init => TypeOK /\ IInv /\ FirstIsKept
  BY InitTypes, InitIInv, InitFirst
<1>2. TypeOK /\ IInv /\ FirstIsKept /\ [Next]_nvars => TypeOK' /\ IInv' /\ FirstIsKept'
  BY StepTypes, StepKeeps, StepFirst
<1> QED
  BY <1>1, <1>2, PTL DEF Spec

\* do0 returns the value of its first item, whatever the other items do, unless one of
\* them wrote over the name that holds it (seq.py:617-624).
THEOREM FirstReturned == ASSUME EnvironmentsAssumption PROVE Spec => []FirstIsReturned
<1>1. FirstIsKept => FirstIsReturned
  BY DEF FirstIsKept, FirstIsReturned
<1> QED
  BY AllKept, <1>1, PTL

\* An environment only holds values under names.
THEOREM TypesOfEnvironments == ASSUME EnvironmentsAssumption PROVE Spec => []TypeOK
BY AllKept, PTL
==============================================================================
