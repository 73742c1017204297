------------------------------- MODULE Interning -------------------------------
(***************************************************************************)
(* Interned objects shared by threads: sym and gsym of                     *)
(* unpythonic/symbol.py, and Singleton of unpythonic/singleton.py.         *)
(*                                                                         *)
(* A registry maps a key (the name of a symbol, the UUID of a gensym, a    *)
(* singleton class) to the one living object for it, by a weak reference:  *)
(* the entry goes when the last strong reference does, at any moment and   *)
(* without the registry's lock.  __new__ reads the registry without the    *)
(* lock, and on a miss takes the lock and looks again.  Symbols and        *)
(* unpickling get to __new__ directly; the constructor of a singleton      *)
(* holds the lock around all of it.                                        *)
(***************************************************************************)
EXTENDS Naturals, FiniteSets

CONSTANTS
  Threads,
  Keys,
  SingletonClasses,  \* those of the keys that are singleton classes
  MaxObjects,        \* bound: objects made in all
  Nobody, NoObject

ASSUME InterningAssumption ==
  /\ SingletonClasses \subseteq Keys
  /\ MaxObjects \in Nat
  /\ NoObject \notin Nat \ {0}
  /\ Nobody \notin Threads \cup Keys

Objects == 1..MaxObjects

VARIABLES
  registry,        \* key -> its object, or NoObject
  made,            \* how many objects have been made
  keyOf,           \* object -> the key it was made for
  state,           \* object -> "blank", "constructed" or "unpickled": what wrote its attributes last
  lock,            \* module -> the thread that holds the lock of its registry
  pc,              \* thread -> where in the call it is
  call,            \* thread -> [key, how] of the call it is in
  instance,        \* thread -> the local variable of __new__
  held,            \* thread -> objects that the program keeps through it
  failed           \* calls that ended in a KeyError

vars == <<registry, made, keyOf, state, lock, pc, call, instance, held, failed>>

\* The singletons and the symbols have a registry and a lock each.
Modules == {"symbol", "singleton"}

Ways == {"construct", "unpickle"}
NoCall == [key |-> Nobody, how |-> "construct"]

Init ==
  /\ registry = [k \in Keys |-> NoObject]
  /\ made = 0
  /\ keyOf = [o \in Objects |-> Nobody]
  /\ state = [o \in Objects |-> "blank"]
  /\ lock = [m \in Modules |-> Nobody]
  /\ pc = [t \in Threads |-> "idle"]
  /\ call = [t \in Threads |-> NoCall]
  /\ instance = [t \in Threads |-> NoObject]
  /\ held = [t \in Threads |-> {}]
  /\ failed = {}

Living == {instance[t] : t \in Threads} \cup UNION {held[t] : t \in Threads}
Key(t) == call[t].key
Guarded(t) == Key(t) \in SingletonClasses /\ call[t].how = "construct"

Module(t) == IF Key(t) \in SingletonClasses THEN "singleton" ELSE "symbol"
Holder(t) == lock[Module(t)]
HandTo(t, u) == lock' = [lock EXCEPT ![Module(t)] = u]

Go(t, where) == pc' = [pc EXCEPT ![t] = where]

\* A call is made; the metaclass of a singleton intercepts constructor calls.
Begin(t, k, how) ==
  /\ pc[t] = "idle"
  /\ call' = [call EXCEPT ![t] = [key |-> k, how |-> how]]
  /\ Go(t, IF k \in SingletonClasses /\ how = "construct" THEN "metaclass" ELSE "look")
  /\ UNCHANGED <<registry, made, keyOf, state, lock, instance, held, failed>>

\* ThereCanBeOnlyOne.__call__: under the lock, a second instance is refused.
EnterMetaclass(t) ==
  /\ pc[t] = "metaclass"
  /\ Holder(t) = Nobody
  /\ IF registry[Key(t)] # NoObject
     THEN Go(t, "idle") /\ UNCHANGED lock                 \* TypeError
     ELSE Go(t, "look") /\ HandTo(t, t)
  /\ UNCHANGED <<registry, made, keyOf, state, call, instance, held, failed>>

\* try: return _symbols[name]
Look(t) ==
  /\ pc[t] = "look"
  /\ instance' = [instance EXCEPT ![t] = registry[Key(t)]]
  /\ Go(t, IF registry[Key(t)] = NoObject THEN "lock" ELSE "write")
  /\ UNCHANGED <<registry, made, keyOf, state, lock, call, held, failed>>

\* with _symbols_update_lock (the lock of the singletons is reentrant)
Acquire(t) ==
  /\ pc[t] = "lock"
  /\ Holder(t) \in {Nobody, t}
  /\ HandTo(t, t)
  /\ Go(t, "check")
  /\ UNCHANGED <<registry, made, keyOf, state, call, instance, held, failed>>

\* The constructor of a singleton keeps its lock until it returns.
Release(t) == HandTo(t, IF Guarded(t) THEN t ELSE Nobody)

\* MUTANT of Check: the lookup is not repeated under the lock
Check_once(t) ==
  /\ pc[t] = "check"
  /\ Go(t, "make")
  /\ UNCHANGED <<registry, made, keyOf, state, lock, call, instance, held, failed>>

\* if name not in _symbols
Check(t) ==
  /\ pc[t] = "check"
  /\ Go(t, IF registry[Key(t)] = NoObject THEN "make" ELSE "read")
  /\ UNCHANGED <<registry, made, keyOf, state, lock, call, instance, held, failed>>

\* The object is made, and kept by a local variable; the lock is left.
Make(t) ==
  /\ pc[t] = "make"
  /\ made < MaxObjects
  /\ made' = made + 1
  /\ keyOf' = [keyOf EXCEPT ![made + 1] = Key(t)]
  /\ registry' = [registry EXCEPT ![Key(t)] = made + 1]
  /\ instance' = [instance EXCEPT ![t] = made + 1]
  /\ Release(t)
  /\ Go(t, "write")
  /\ UNCHANGED <<state, call, held, failed>>

\* else: instance = _symbols[name], which by now may be gone.
Read(t) ==
  /\ pc[t] = "read"
  /\ instance' = [instance EXCEPT ![t] = registry[Key(t)]]
  /\ IF registry[Key(t)] = NoObject
     THEN Go(t, "idle") /\ failed' = failed \cup {Key(t)}
     ELSE Go(t, "write") /\ UNCHANGED failed
  /\ HandTo(t, IF Guarded(t) /\ registry[Key(t)] # NoObject THEN t ELSE Nobody)
  /\ UNCHANGED <<registry, made, keyOf, state, call, held>>

\* __init__, or __setstate__ when unpickling; then the caller has the object.
Write(t) ==
  /\ pc[t] = "write"
  /\ state' = [state EXCEPT ![instance[t]] = IF call[t].how = "construct" THEN "constructed" ELSE "unpickled"]
  /\ held' = [held EXCEPT ![t] = @ \cup {instance[t]}]
  /\ instance' = [instance EXCEPT ![t] = NoObject]
  /\ HandTo(t, IF Holder(t) = t THEN Nobody ELSE Holder(t))
  /\ Go(t, "idle")
  /\ UNCHANGED <<registry, made, keyOf, call, failed>>

\* The program drops a reference.  With the last one the object dies, and
\* its entry goes from the registry.
Drop(t, o) ==
  /\ o \in held[t]
  /\ held' = [held EXCEPT ![t] = @ \ {o}]
  /\ registry' = IF \/ \E u \in Threads : instance[u] = o
                    \/ \E u \in Threads \ {t} : o \in held[u]
                 THEN registry
                 ELSE [k \in Keys |-> IF registry[k] = o THEN NoObject ELSE registry[k]]
  /\ UNCHANGED <<made, keyOf, state, lock, pc, call, instance, failed>>

Next ==
  \E t \in Threads :
    \/ \E k \in Keys, how \in Ways : Begin(t, k, how)
    \/ EnterMetaclass(t) \/ Look(t) \/ Acquire(t) \/ Check(t) \/ Make(t) \/ Read(t) \/ Write(t)
    \/ \E o \in Objects : Drop(t, o)

Spec == Init /\ [][Next]_vars
------------------------------------------------------------------------------
TypeOK ==
  /\ registry \in [Keys -> Objects \cup {NoObject}]
  /\ made \in 0..MaxObjects
  /\ keyOf \in [Objects -> Keys \cup {Nobody}]
  /\ state \in [Objects -> {"blank", "constructed", "unpickled"}]
  /\ lock \in [Modules -> Threads \cup {Nobody}]
  /\ pc \in [Threads -> {"idle", "metaclass", "look", "lock", "check", "make", "read", "write"}]
  /\ call \in [Threads -> [key : Keys \cup {Nobody}, how : Ways]]
  /\ instance \in [Threads -> Objects \cup {NoObject}]
  /\ held \in [Threads -> SUBSET Objects]
  /\ failed \subseteq Keys

\* Objects of one key are one object: at no time are there two living
\* objects for a name, whichever threads make, unpickle and drop them in
\* whatever order; and what is alive can be found.
OneObjectPerKey ==
  /\ \A o, p \in Living \ {NoObject} : keyOf[o] = keyOf[p] => o = p
  /\ \A o \in Living \ {NoObject} : registry[keyOf[o]] = o

\* What OneObjectPerKey rests on.  Who is about to make an object for a key holds the
\* lock of the registry, and has seen under it that there is none; what a registry
\* refers to is alive; a thread that writes to an object has it in a variable.
LockHeld ==
  \A t \in Threads : /\ pc[t] \in {"check", "make", "read"} => Holder(t) = t
                     /\ Guarded(t) /\ pc[t] \in {"look", "lock", "write"} => Holder(t) = t
NoneBeforeMaking == \A t \in Threads : pc[t] = "make" => registry[Key(t)] = NoObject
CallsAreForKeys == \A t \in Threads : pc[t] # "idle" => Key(t) \in Keys
WritersHaveTheirs == \A t \in Threads : (pc[t] = "write") = (instance[t] # NoObject)
FreshIsUnused == \A o \in Living \ {NoObject} : o \in 1..made /\ keyOf[o] \in Keys /\ registry[keyOf[o]] = o
RegisteredLives == \A k \in Keys : registry[k] # NoObject => registry[k] \in Living /\ keyOf[registry[k]] = k

IInv == /\ TypeOK /\ LockHeld /\ NoneBeforeMaking /\ CallsAreForKeys
        /\ WritersHaveTheirs /\ FreshIsUnused /\ RegisteredLives

\* A constructor call of a singleton never hands out an object that someone
\* had before the call: it raises TypeError instead.
ConstructorsMakeNew ==
  [][\A t \in Threads : (pc[t] = "write" /\ pc'[t] = "idle" /\ Guarded(t)) =>
       \A u \in Threads : instance[t] \in held[u] => state[instance[t]] = "unpickled"]_vars

\* Making a symbol never fails ("EAFP to eliminate TOCTTOU").
NeverFails == failed = {}

\* "Its state is restored upon unpickling": what an unpickled singleton says
\* is not overwritten by the constructor.
UnpickledStateStands ==
  [][\A o \in Objects : (keyOf[o] \in SingletonClasses /\ state[o] = "unpickled") =>
                            state'[o] = "unpickled"]_vars
==============================================================================
