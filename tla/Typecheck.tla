------------------------------ MODULE Typecheck ------------------------------
(***************************************************************************)
(* The run-time type checker of unpythonic/typecheck.py: isoftype(value,   *)
(* T), for values that are scalars, classes and (nested) containers, and   *)
(* for type specifications built with the meta-utilities of typing.        *)
(*                                                                         *)
(* A value is a record [cls, val, items]: its class, an identity for a     *)
(* scalar (the name of the class, if the value is a class), and what       *)
(* iterating over it yields (pairs <<key, value>> for a mapping).  A type  *)
(* specification is a record [meta, name, args, bare]: which utility it    *)
(* was made with, the class it names, its type arguments, and whether it   *)
(* was written without brackets.                                           *)
(***************************************************************************)
EXTENDS Naturals, Sequences

CONSTANT BasesOf     \* class name -> the set of classes and ABCs it is a subclass of

LOCAL Anything == [meta |-> "Any", name |-> "", args |-> <<>>, bare |-> TRUE]

\* issubclass and isinstance.
IsSubclass(c, D) == c = D \/ (c \in DOMAIN BasesOf /\ D \in BasesOf[c])
IsInstance(v, C) == IsSubclass(v.cls, C)

\* The values that a loop over v sees: a mapping yields its keys, and a
\* string yields strings.
Elements(v) ==
  CASE IsInstance(v, "Mapping") -> [i \in DOMAIN v.items |-> v.items[i][1]]
    [] v.cls = "str"            -> IF v.val = "" THEN <<>> ELSE <<v>>
    [] OTHER                    -> v.items
IsEmpty(v) == Elements(v) = <<>>

\* Literal uses ==, and in Python a bool equals the integer of its value.
Equal(v, w) ==
  /\ v.val = w.val
  /\ v.items = w.items
  /\ v.cls = w.cls \/ {v.cls, w.cls} \subseteq {"int", "bool", "float"}

\* The type arguments of a parametric type; a bare type takes anything.
Args(T, n) == IF T.bare THEN [i \in 1..n |-> Anything] ELSE T.args

RECURSIVE IsOfType(_, _)

\* any(isoftype(value, U) for U in ...), for TypeVar constraints and unions.
\* An abstract type name, a TypeVar without constraints, accepts anything.
IsOfSome(v, T) ==
  \/ T.meta = "TypeVar" /\ T.args = <<>>
  \/ \E i \in DOMAIN T.args : IsOfType(v, T.args[i])

\* Type[X]: the value is a class, X or below it.
IsOfClassObject(v, T) ==
  v.cls = "type" /\ (T.bare \/ IsSubclass(v.val, T.args[1].name))

\* ABCs whose elements are checked when the value has a length: a value
\* without one (an iterator) is accepted for its class alone.
IsOfIterable(v, T) ==
  /\ IsInstance(v, T.name)
  /\ \/ T.bare
     \/ ~IsInstance(v, "Sized")
     \/ ~IsEmpty(v) /\ \A i \in DOMAIN Elements(v) : IsOfType(Elements(v)[i], T.args[1])

\* Structural check of a TypedDict: T.args are <<key, type, required>>.
IsOfTypedDict(v, T) ==
  LET keys == {Elements(v)[i].val : i \in DOMAIN Elements(v)}
      hints == {T.args[j] : j \in DOMAIN T.args}
  IN /\ IsInstance(v, "dict")
     /\ {h[1] : h \in {g \in hints : g[3]}} \subseteq keys
     /\ keys \subseteq {h[1] : h \in hints}
     /\ \A i \in DOMAIN v.items : \A h \in hints :
          h[1] = v.items[i][1].val => IsOfType(v.items[i][2], h[2])

\* Tuple[T, ...] is homogeneous, and an empty tuple has no element type;
\* Tuple[T1, ..., TN] has exactly N elements.  No arguments (a bare Tuple,
\* and also Tuple[()]) put no restriction.
IsOfTuple(v, T) ==
  /\ IsInstance(v, "tuple")
  /\ CASE T.args = <<>>        -> TRUE
       [] T.name = "ellipsis"  -> v.items # <<>> /\ \A i \in DOMAIN v.items : IsOfType(v.items[i], T.args[1])
       [] OTHER                -> /\ Len(v.items) = Len(T.args)
                                  /\ \A i \in DOMAIN v.items : IsOfType(v.items[i], T.args[i])

\* Mappings and ItemsView: all keys and all values, and at least one item.
IsOfMapping(v, T) ==
  /\ IsInstance(v, T.name)
  /\ v.items # <<>>
  /\ \A i \in DOMAIN v.items : \A j \in 1..2 : IsOfType(v.items[i][j], Args(T, 2)[j])

\* A Counter has one type argument; its values are integers.
IsOfCounter(v, T) ==
  /\ IsInstance(v, "Counter")
  /\ v.items # <<>>
  /\ \A i \in DOMAIN v.items : /\ IsOfType(v.items[i][1], Args(T, 1)[1])
                               /\ IsInstance(v.items[i][2], "int")

\* The other collections that can be iterated over without consuming them.
IsOfCollection(v, T) ==
  /\ IsInstance(v, T.name)
  /\ ~IsEmpty(v)
  /\ \A i \in DOMAIN Elements(v) : IsOfType(Elements(v)[i], Args(T, 1)[1])

\* Pattern[T] and Match[T]: the class of the string is checked.
IsOfPattern(v, T) == IsInstance(v, T.name) /\ (T.bare \/ v.items[1].cls = T.args[1].name)

\* isoftype(value, T).
IsOfType(v, T) ==
  CASE T.meta = "Any"                    -> TRUE
    [] T.meta \in {"NoReturn", "Never"}  -> FALSE
    [] T.meta \in {"TypeVar", "Union"}   -> IsOfSome(v, T)
    [] T.meta = "Literal"                -> \E i \in DOMAIN T.args : Equal(v, T.args[i])
    [] T.meta = "Type"                   -> IsOfClassObject(v, T)
    [] T.meta \in {"ClassVar", "Final"}  -> T.bare \/ IsOfType(v, T.args[1])
    [] T.meta = "iterable"               -> IsOfIterable(v, T)
    [] T.meta = "TypedDict"              -> IsOfTypedDict(v, T)
    [] T.meta = "Pattern"                -> IsOfPattern(v, T)
    [] T.meta = "Tuple"                  -> IsOfTuple(v, T)
    [] T.meta = "mapping"                -> IsOfMapping(v, T)
    [] T.meta = "Counter"                -> IsOfCounter(v, T)
    [] T.meta = "collection"             -> IsOfCollection(v, T)
    \* NewType, the ABCs whose arguments are ignored, the Supports* and
    \* other runtime protocols, Callable, and concrete classes.
    [] OTHER                             -> IsInstance(v, T.name)
==============================================================================
