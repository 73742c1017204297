---------------------------- MODULE ControlProofs ----------------------------
(***************************************************************************)
(* Proofs about the components of MCControl, for all values of the         *)
(* constants: a promise whose forces do not overlap is settled once;       *)
(* environments keep what they were given; escapes arrive at their own     *)
(* catch points, and the calls of a chain share one trampoline; visited    *)
(* holds exactly the calls and jumps that are going on; continuations run  *)
(* what was promised to run next; views are live.                          *)
(*                                                                         *)
(* Each component has its inductive invariant (PInv, EInv, FInv, KInv), a  *)
(* lemma that the initial state has it, one for each group of its actions, *)
(* and one that every step keeps it (PStep, EStep, FStep, KStep).  The     *)
(* theorems at the end put the components together, types included.        *)
(***************************************************************************)
EXTENDS MCControl, Induction, SequenceTheorems, TLAPS

------------------------------------------------------------------------------
(***************************************************************************)
(* Interning: for any number of threads, keys and objects, there is at     *)
(* most one living object for a key.                                       *)
(*                                                                         *)
(* The steps fall into three groups.  Some only move a thread through the  *)
(* call and take or leave a lock; some give a thread a reference to an     *)
(* object that the registry has; one makes an object, and one drops a      *)
(* reference.  There is a lemma for each action and in it a step for each  *)
(* part of the invariant.                                                  *)
(***************************************************************************)
\* An object lives if a thread has it in a variable or keeps it (the weak references
\* of symbol.py:67-78 do not count).
LEMMA LivingMeans ==
  ASSUME NEW o
  PROVE  o \in Living <=> \E t \in Threads : instance[t] = o \/ o \in held[t]
  BY DEF Living

\* The same in the next state.
LEMMA LivingMeansNext ==
  ASSUME NEW o
  PROVE  o \in Living' <=> \E t \in Threads : instance'[t] = o \/ o \in held'[t]
  BY DEF Living

\* Two threads whose keys are in one registry have one lock between them.
LEMMA OneInside ==
  ASSUME LockHeld, NEW t \in Threads, NEW u \in Threads, Module(t) = Module(u),
         pc[t] \in {"check", "make", "read"}, pc[u] \in {"check", "make", "read"}
  PROVE  t = u
  BY DEF LockHeld, Holder

\* In the initial state nothing is made and nobody calls.
LEMMA InitIInv == Init => IInv
<1> SUFFICES ASSUME Init PROVE IInv
  OBVIOUS
<1> USE InterningAssumption
<1>1. TypeOK
  BY DEF Init, TypeOK, Objects, Modules, NoCall, Ways
<1>2. LockHeld /\ NoneBeforeMaking /\ CallsAreForKeys /\ WritersHaveTheirs
  BY DEF Init, LockHeld, NoneBeforeMaking, CallsAreForKeys, WritersHaveTheirs, Guarded, Key, NoCall
<1>3. FreshIsUnused
  BY DEF Init, FreshIsUnused, Living
<1>4. RegisteredLives
  BY DEF Init, RegisteredLives
<1> QED
  BY <1>1, <1>2, <1>3, <1>4 DEF IInv

\* Steps that change neither objects nor references leave what is said about them
\* as it is: entering a call, the metaclass, the lock and the second look
\* (symbol.py:71-73, singleton.py:134-141).
LEMMA ObjectsStay ==
  ASSUME IInv, UNCHANGED <<registry, made, keyOf, state, instance, held, failed>>
  PROVE  FreshIsUnused' /\ RegisteredLives'
<1>1. Living' = Living
  BY DEF Living
<1> QED
  BY <1>1 DEF IInv, FreshIsUnused, RegisteredLives

LEMMA BeginKeeps ==
  ASSUME IInv, NEW t \in Threads, NEW k \in Keys, NEW how \in Ways, Begin(t, k, how)
  PROVE  IInv'
<1> USE InterningAssumption DEF IInv, Begin, Go
<1>1. TypeOK'
  BY DEF TypeOK, Ways
<1>2. LockHeld'
  BY DEF TypeOK, LockHeld, Holder, Module, Guarded, Key
<1>3. NoneBeforeMaking' /\ CallsAreForKeys' /\ WritersHaveTheirs'
  BY DEF TypeOK, NoneBeforeMaking, CallsAreForKeys, WritersHaveTheirs, Key
<1> QED
  BY <1>1, <1>2, <1>3, ObjectsStay

LEMMA EnterMetaclassKeeps ==
  ASSUME IInv, NEW t \in Threads, EnterMetaclass(t)
  PROVE  IInv'
<1> USE InterningAssumption DEF IInv, EnterMetaclass, Go
<1>1. TypeOK'
  BY DEF TypeOK, HandTo, Modules, Module
<1>2. LockHeld'
  BY DEF TypeOK, LockHeld, Holder, HandTo, Modules, Module, Guarded, Key
<1>3. NoneBeforeMaking' /\ CallsAreForKeys' /\ WritersHaveTheirs'
  BY DEF TypeOK, NoneBeforeMaking, CallsAreForKeys, WritersHaveTheirs, Key
<1> QED
  BY <1>1, <1>2, <1>3, ObjectsStay

LEMMA AcquireKeeps ==
  ASSUME IInv, NEW t \in Threads, Acquire(t)
  PROVE  IInv'
<1> USE InterningAssumption DEF IInv, Acquire, Go
<1>1. TypeOK'
  BY DEF TypeOK, HandTo, Modules, Module
<1>2. LockHeld'
  BY DEF TypeOK, LockHeld, Holder, HandTo, Modules, Module, Guarded, Key
<1>3. NoneBeforeMaking' /\ CallsAreForKeys' /\ WritersHaveTheirs'
  BY DEF TypeOK, NoneBeforeMaking, CallsAreForKeys, WritersHaveTheirs, Key
<1> QED
  BY <1>1, <1>2, <1>3, ObjectsStay

LEMMA CheckKeeps ==
  ASSUME IInv, NEW t \in Threads, Check(t)
  PROVE  IInv'
<1> USE InterningAssumption DEF IInv, Check, Go
<1>1. TypeOK'
  BY DEF TypeOK
<1>2. LockHeld'
  BY DEF TypeOK, LockHeld, Holder, Module, Guarded, Key
<1>3. NoneBeforeMaking' /\ CallsAreForKeys' /\ WritersHaveTheirs'
  BY DEF TypeOK, NoneBeforeMaking, CallsAreForKeys, WritersHaveTheirs, Key
<1> QED
  BY <1>1, <1>2, <1>3, ObjectsStay

\* A thread takes what the registry has, or nothing (symbol.py:68, 78).
LEMMA Referred ==
  ASSUME IInv, NEW t \in Threads, instance[t] = NoObject, Key(t) \in Keys,
         instance' = [instance EXCEPT ![t] = registry[Key(t)]],
         UNCHANGED <<registry, made, keyOf, held>>
  PROVE  FreshIsUnused' /\ RegisteredLives'
<1> USE InterningAssumption DEF IInv
<1>1. ASSUME NEW o, o # NoObject PROVE o \in Living' <=> o \in Living \/ o = registry[Key(t)]
  BY LivingMeans, LivingMeansNext, <1>1 DEF TypeOK
<1>2. \A o : o # NoObject => (o \in Living' <=> o \in Living)
  BY <1>1 DEF RegisteredLives
<1> QED
  BY <1>2 DEF FreshIsUnused, RegisteredLives

LEMMA LookKeeps ==
  ASSUME IInv, NEW t \in Threads, Look(t)
  PROVE  IInv'
<1> USE InterningAssumption DEF IInv, Look, Go
<1>1. Key(t) \in Keys /\ instance[t] = NoObject
  BY DEF CallsAreForKeys, WritersHaveTheirs
<1>2. TypeOK'
  BY <1>1 DEF TypeOK
<1>3. LockHeld'
  BY DEF TypeOK, LockHeld, Holder, Module, Guarded, Key
<1>4. NoneBeforeMaking' /\ CallsAreForKeys' /\ WritersHaveTheirs'
  BY <1>1 DEF TypeOK, NoneBeforeMaking, CallsAreForKeys, WritersHaveTheirs, Key
<1> QED
  BY <1>1, <1>2, <1>3, <1>4, Referred

LEMMA ReadKeeps ==
  ASSUME IInv, NEW t \in Threads, Read(t)
  PROVE  IInv'
<1> USE InterningAssumption DEF IInv, Read, Go
<1>1. Key(t) \in Keys /\ instance[t] = NoObject
  BY DEF CallsAreForKeys, WritersHaveTheirs
<1>2. TypeOK'
  BY <1>1 DEF TypeOK, HandTo, Modules, Module
<1>3. LockHeld'
  BY DEF TypeOK, LockHeld, Holder, HandTo, Modules, Module, Guarded, Key
<1>4. NoneBeforeMaking' /\ CallsAreForKeys' /\ WritersHaveTheirs'
  BY <1>1 DEF TypeOK, NoneBeforeMaking, CallsAreForKeys, WritersHaveTheirs, Key
<1> QED
  BY <1>1, <1>2, <1>3, <1>4, Referred

\* The one step that makes an object: there is none for the key, and nobody else is
\* about to make one, as the lock is held (symbol.py:73-76).
LEMMA MakeKeeps ==
  ASSUME IInv, NEW t \in Threads, Make(t)
  PROVE  IInv'
<1> USE InterningAssumption DEF IInv, Make, Go
<1> DEFINE new == made + 1
<1>1. /\ Key(t) \in Keys /\ instance[t] = NoObject /\ registry[Key(t)] = NoObject
      /\ new \in Objects /\ new # NoObject /\ Holder(t) = t
  BY DEF CallsAreForKeys, WritersHaveTheirs, NoneBeforeMaking, LockHeld, TypeOK, Objects
<1>2. TypeOK'
  BY <1>1 DEF TypeOK, Objects, Release, HandTo, Modules, Module
<1>3. LockHeld'
  BY DEF TypeOK, LockHeld, Release, Holder, HandTo, Modules, Module, Guarded, Key
<1>4. NoneBeforeMaking'
  <2> SUFFICES ASSUME NEW u \in Threads, pc'[u] = "make" PROVE registry'[Key(u)'] = NoObject
    BY DEF NoneBeforeMaking
  <2>1. u # t /\ pc[u] = "make" /\ Key(u)' = Key(u)
    BY DEF TypeOK, Key
  <2>2. Key(u) # Key(t)
    BY <2>1, OneInside DEF Module
  <2> QED
    BY <2>1, <2>2, <1>1 DEF TypeOK, NoneBeforeMaking
<1>5. CallsAreForKeys' /\ WritersHaveTheirs'
  BY <1>1 DEF TypeOK, CallsAreForKeys, WritersHaveTheirs, Key
<1>6. ASSUME NEW o, o # NoObject PROVE o \in Living' <=> o \in Living \/ o = new
  BY <1>1, <1>6, LivingMeans, LivingMeansNext DEF TypeOK
<1>7. new \notin Living
  BY <1>1 DEF FreshIsUnused, TypeOK, Objects
<1>8. FreshIsUnused'
  <2> SUFFICES ASSUME NEW o \in Living', o # NoObject
               PROVE  o \in 1..made' /\ keyOf'[o] \in Keys /\ registry'[keyOf'[o]] = o
    BY DEF FreshIsUnused
  <2>1. CASE o = new
    BY <2>1, <1>1 DEF TypeOK, Objects
  <2>2. CASE o # new
    <3>1. o \in Living /\ o \in 1..made /\ keyOf[o] \in Keys /\ registry[keyOf[o]] = o
      BY <2>2, <1>6 DEF FreshIsUnused
    <3>2. keyOf'[o] = keyOf[o] /\ keyOf[o] # Key(t)
      BY <3>1, <2>2, <1>1 DEF TypeOK, Objects
    <3> QED
      BY <3>1, <3>2, <1>1 DEF TypeOK
  <2> QED
    BY <2>1, <2>2
<1>9. RegisteredLives'
  <2> SUFFICES ASSUME NEW k \in Keys, registry'[k] # NoObject
               PROVE  registry'[k] \in Living' /\ keyOf'[registry'[k]] = k
    BY DEF RegisteredLives
  <2>1. CASE k = Key(t)
    BY <2>1, <1>1, <1>6 DEF TypeOK
  <2>2. CASE k # Key(t)
    <3>1. registry'[k] = registry[k] /\ registry[k] \in Living /\ keyOf[registry[k]] = k
      BY <2>2 DEF TypeOK, RegisteredLives
    <3>2. registry[k] # new /\ registry[k] \in Objects
      BY <3>1, <1>7 DEF TypeOK
    <3> QED
      BY <3>1, <3>2, <1>6 DEF TypeOK
  <2> QED
    BY <2>1, <2>2
<1> QED
  BY <1>2, <1>3, <1>4, <1>5, <1>8, <1>9

LEMMA WriteKeeps ==
  ASSUME IInv, NEW t \in Threads, Write(t)
  PROVE  IInv'
<1> USE InterningAssumption DEF IInv, Write, Go
<1>1. instance[t] \in Objects
  BY DEF WritersHaveTheirs, TypeOK
<1>2. TypeOK'
  BY <1>1 DEF TypeOK, HandTo, Holder, Modules, Module
<1>3. LockHeld'
  BY DEF TypeOK, LockHeld, Holder, HandTo, Modules, Module, Guarded, Key
<1>4. NoneBeforeMaking' /\ CallsAreForKeys' /\ WritersHaveTheirs'
  BY DEF TypeOK, NoneBeforeMaking, CallsAreForKeys, WritersHaveTheirs, Key
<1>5. ASSUME NEW o, o # NoObject PROVE o \in Living' <=> o \in Living
  BY <1>5, <1>1, LivingMeans, LivingMeansNext DEF TypeOK
<1> QED
  BY <1>2, <1>3, <1>4, <1>5 DEF FreshIsUnused, RegisteredLives

\* With the last reference the entry goes, and only then.
LEMMA DropKeeps ==
  ASSUME IInv, NEW t \in Threads, NEW o \in Objects, Drop(t, o)
  PROVE  IInv'
<1> USE InterningAssumption DEF IInv, Drop
<1>1. TypeOK'
  BY DEF TypeOK
<1>2. LockHeld' /\ CallsAreForKeys' /\ WritersHaveTheirs'
  BY DEF LockHeld, CallsAreForKeys, WritersHaveTheirs, Holder, Module, Guarded, Key
<1>3. \A k \in Keys : registry'[k] = registry[k] \/ (registry[k] = o /\ registry'[k] = NoObject)
  BY DEF TypeOK
<1>4. NoneBeforeMaking'
  BY <1>3 DEF NoneBeforeMaking, CallsAreForKeys, Key
<1>5. ASSUME NEW p, p # o PROVE p \in Living' <=> p \in Living
  BY <1>5, LivingMeans, LivingMeansNext DEF TypeOK
<1>6. o # NoObject
  BY DEF Objects
<1>7. CASE \E u \in Threads : instance[u] = o \/ (u # t /\ o \in held[u])
  <2>1. registry' = registry
    BY <1>7
  <2>2. o \in Living /\ o \in Living'
    BY <1>7, LivingMeans, LivingMeansNext DEF TypeOK
  <2> QED
    BY <1>1, <1>2, <1>4, <1>5, <2>1, <2>2 DEF FreshIsUnused, RegisteredLives
<1>8. CASE ~ \E u \in Threads : instance[u] = o \/ (u # t /\ o \in held[u])
  <2>1. o \notin Living'
    BY <1>8, LivingMeansNext DEF TypeOK
  <2>2. registry' = [k \in Keys |-> IF registry[k] = o THEN NoObject ELSE registry[k]]
    BY <1>8
  <2>3. FreshIsUnused'
    BY <1>5, <2>1, <2>2 DEF FreshIsUnused
  <2>4. RegisteredLives'
    BY <1>5, <2>2 DEF RegisteredLives
  <2> QED
    BY <1>1, <1>2, <1>4, <2>3, <2>4
<1> QED
  BY <1>7, <1>8

\* Every step keeps the invariant.
LEMMA NextIInv == IInv /\ [Next]_vars => IInv'
<1> SUFFICES ASSUME IInv, [Next]_vars PROVE IInv'
  OBVIOUS
<1>1. CASE UNCHANGED vars
  BY <1>1, ObjectsStay DEF vars, IInv, TypeOK, LockHeld, NoneBeforeMaking, CallsAreForKeys, WritersHaveTheirs,
     Holder, Module, Guarded, Key
<1>2. CASE Next
  BY <1>2, BeginKeeps, EnterMetaclassKeeps, LookKeeps, AcquireKeeps, CheckKeeps, MakeKeeps, ReadKeeps, WriteKeeps,
     DropKeeps DEF Next
<1> QED
  BY <1>1, <1>2

\* The invariant says that there is one object per key.
LEMMA IInvOneObject == IInv => OneObjectPerKey
  BY DEF IInv, FreshIsUnused, OneObjectPerKey

\* In every reachable state, for any number of threads that make, unpickle and drop
\* symbols and singletons, two living objects have different keys, and each is the one
\* that the registry gives (symbol.py:62-79, singleton.py:169-189).
THEOREM OneLivingObject == Spec => []OneObjectPerKey
<1>1. Spec => []IInv
  BY InitIInv, NextIInv, PTL DEF Spec
<1> QED
  BY <1>1, IInvOneObject, PTL

\* The variables of Interning keep their types.
THEOREM TypesOfInterning == Spec => []TypeOK
<1>1. IInv => TypeOK
  BY DEF IInv
<1> QED
  BY <1>1, InitIInv, NextIInv, PTL DEF Spec

------------------------------------------------------------------------------
\* Removing the last element of a nonempty sequence
LEMMA Shortened ==
  ASSUME NEW S, NEW q \in Seq(S), q # <<>>
  PROVE  LET p == SubSeq(q, 1, Len(q) - 1) IN
         /\ p \in Seq(S) /\ Len(p) = Len(q) - 1 /\ Len(q) \in Nat \ {0} /\ Len(p) \in Nat
         /\ \A i \in 1..Len(p) : i \in 1..Len(q) /\ p[i] = q[i]
         /\ Len(q) \in 1..Len(q) /\ q[Len(q)] \in S
<1> DEFINE n == Len(q) - 1
           p == SubSeq(q, 1, n)
<1>1. Len(q) \in Nat \ {0}
  BY EmptySeq
<1>2. n \in Nat /\ Len(q) \in 1..Len(q) /\ \A i \in 1..n : i \in 1..Len(q) /\ q[i] \in S
  BY <1>1
<1>3. q[Len(q)] \in S
  BY <1>2
<1>4. /\ p \in Seq(S)
      /\ Len(p) = IF 1 <= n THEN n - 1 + 1 ELSE 0
      /\ \A i \in 1..n - 1 + 1 : p[i] = q[1 + i - 1]
  <2> HIDE DEF n
  <2>1. QED
    BY <1>2, SubSeqProperties
<1>5. Len(p) = n /\ \A i \in 1..n : p[i] = q[i]
  <2> HIDE DEF n, p
  <2>1. n - 1 + 1 = n /\ (IF 1 <= n THEN n - 1 + 1 ELSE 0) = n /\ \A i \in 1..n : 1 + i - 1 = i
    BY <1>2
  <2>2. QED
    BY <1>4, <2>1
<1> QED
  BY <1>1, <1>2, <1>3, <1>4, <1>5

------------------------------------------------------------------------------
(***************************************************************************)
(* Promises                                                                *)
(***************************************************************************)
Given == (Thunks \ {"escapes"}) \X (Nat \ {0})
Ends == {"promise", "value", "exception", "escape"}
Places == {"idle", "force", "thunk", "flag", "decide", "return", "raise"}

PTypes ==
  /\ value \in {None} \cup Given
  /\ forcing \in [Forcers -> Places]
  /\ gave \in [Forcers -> {None} \cup Given]
  /\ runs \in Seq(Thunks)
  /\ outcome \in [Forcers -> Seq(Ends \X ({None} \cup Given))]
  /\ overlapped \in BOOLEAN

\* Nobody else is in force.
Alone == \A t, u \in Forcers : forcing[t] # "idle" /\ forcing[u] # "idle" => t = u

\* The last run of the thunk, the only one that may have settled the promise, what it
\* has given, and what force makes of it.
Ending == runs[Len(runs)]
Settled == runs # <<>> /\ Ending # "escapes"
TheRun == <<Ending, Len(runs)>>
TheOutcome == <<IF Ending = "returns" THEN "value" ELSE "exception", TheRun>>

\* All runs before the last were left by an escape.  The value is what the last has
\* given, the flag says how it ended, unless a thread is about to write them, and
\* whoever goes by the flag has a value.
RunOnce ==
  /\ \A i \in 1..Len(runs) : runs[i] # "escapes" => i = Len(runs)
  /\ value # None => Settled /\ value = TheRun
  /\ value = None /\ Settled => \E t \in Forcers : gave[t] # None
  /\ value # None => normally = (Ending = "returns") \/ \E t \in Forcers : forcing[t] = "flag"
OnTheWay ==
  \A t \in Forcers :
    /\ gave[t] # None => forcing[t] \in {"thunk", "flag"} /\ Settled /\ gave[t] = TheRun
    /\ forcing[t] = "thunk" => value = None /\ (gave[t] = None => ~Settled)
    /\ forcing[t] = "flag" => gave[t] # None /\ value # None
    /\ forcing[t] \in {"decide", "return", "raise"} => value # None
    /\ forcing[t] = "return" => Ending = "returns"
    /\ forcing[t] = "raise" => Ending # "returns"
OutcomesAgree == \A o \in P!Forced : value # None /\ o = TheOutcome

PInv == PTypes /\ (~overlapped => Alone /\ RunOnce /\ OnTheWay /\ OutcomesAgree)

LEMMA GivenIsNotNone == ASSUME NEW g \in Given PROVE g # None
  BY PromisesAssumption DEF P!PromisesAssumption, Given

\* A call has come to its end.
LEMMA OutcomeAdded ==
  ASSUME PTypes, NEW t \in Forcers, NEW x \in Ends \X ({None} \cup Given),
         outcome' = [outcome EXCEPT ![t] = Append(@, x)]
  PROVE  /\ outcome' \in [Forcers -> Seq(Ends \X ({None} \cup Given))]
         /\ \A o \in P!Outcomes' : o \in P!Outcomes \/ o = x
<1> DEFINE S == Ends \X ({None} \cup Given)
<1>1. outcome \in [Forcers -> Seq(S)] /\ x \in S
  BY DEF PTypes
<1> HIDE DEF S
<1>2. outcome[t] \in Seq(S) /\ outcome'[t] = Append(outcome[t], x)
  BY <1>1
<1>3. outcome' \in [Forcers -> Seq(S)]
  <2>1. Append(outcome[t], x) \in Seq(S)
    BY <1>1, <1>2
  <2>2. QED
    BY <1>1, <2>1
<1>4. ASSUME NEW u \in Forcers, NEW i \in DOMAIN outcome'[u]
      PROVE  outcome'[u][i] \in P!Outcomes \/ outcome'[u][i] = x
  <2>1. CASE u = t
    <3>1. CASE i = Len(outcome[t]) + 1
      BY <1>1, <1>2, <2>1, <3>1
    <3>2. CASE i # Len(outcome[t]) + 1
      <4>1. i \in DOMAIN outcome[t] /\ outcome'[t][i] = outcome[t][i]
        BY <1>1, <1>2, <1>4, <2>1, <3>2
      <4>2. QED
        BY <2>1, <4>1 DEF P!Outcomes
    <3>3. QED
      BY <3>1, <3>2
  <2>2. CASE u # t
    <3>1. outcome'[u] = outcome[u]
      BY <1>1, <2>2
    <3>2. QED
      BY <1>4, <3>1 DEF P!Outcomes
  <2>3. QED
    BY <2>1, <2>2
<1> QED
  BY <1>3, <1>4 DEF P!Outcomes, S

LEMMA PInit == P!Init => PInv
<1> SUFFICES ASSUME P!Init PROVE PInv
  OBVIOUS
<1> USE DEF P!Init
<1>1. PTypes
  <2>1. \A S : <<>> \in Seq(S)
    OBVIOUS
  <2>2. outcome \in [Forcers -> Seq(Ends \X ({None} \cup Given))]
    <3>1. <<>> \in Seq(Ends \X ({None} \cup Given))
      BY <2>1
    <3>2. QED
      BY <3>1
  <2>3. QED
    BY <2>1, <2>2 DEF PTypes, Places
<1>2. Alone /\ RunOnce /\ OnTheWay
  BY DEF Alone, RunOnce, OnTheWay, Settled
<1>3. P!Forced = {}
  BY DEF P!Forced, P!Outcomes
<1> QED
  BY <1>1, <1>2, <1>3 DEF PInv, OutcomesAgree

\* Forcing begins, or a function takes the promise as it is.
LEMMA PBegin ==
  ASSUME PInv, NEW t \in Forcers, P!MaybeForceArgs(t) \/ P!Force1(t)
  PROVE  PInv'
<1>1. /\ forcing[t] = "idle" /\ UNCHANGED <<value, normally, gave, runs>>
      /\ PTypes
  BY DEF P!MaybeForceArgs, P!Force1, PInv
<1>2. CASE forcing' = [forcing EXCEPT ![t] = "force"] /\ outcome' = outcome
           /\ overlapped' = (overlapped \/ \E u \in Forcers \ {t} : forcing[u] # "idle")
  <2>1. PTypes'
    BY <1>1, <1>2 DEF PTypes, Places
  <2>2. ASSUME ~overlapped'
        PROVE  /\ ~overlapped /\ \A u \in Forcers \ {t} : forcing[u] = "idle"
               /\ \A u \in Forcers : forcing'[u] = IF u = t THEN "force" ELSE forcing[u]
    BY <1>1, <1>2, <2>2 DEF PTypes
  <2>3. P!Forced' = P!Forced
    BY <1>2 DEF P!Forced, P!Outcomes
  <2>4. ASSUME ~overlapped'
        PROVE  Alone' /\ RunOnce' /\ OnTheWay' /\ OutcomesAgree'
    <3>1. Alone'
      BY <2>2, <2>4 DEF Alone
    <3>2. RunOnce'
      BY <1>1, <2>2, <2>4 DEF PInv, RunOnce, TheRun, Settled, Ending
    <3>3. OnTheWay'
      BY <1>1, <2>2, <2>4 DEF PInv, OnTheWay, TheRun, Settled, Ending
    <3>4. OutcomesAgree'
      BY <1>1, <2>2, <2>3, <2>4 DEF PInv, OutcomesAgree, TheOutcome, TheRun, Settled, Ending
    <3>5. QED
      BY <3>1, <3>2, <3>3, <3>4
  <2>5. QED
    BY <2>1, <2>4 DEF PInv
<1>3. CASE outcome' = [outcome EXCEPT ![t] = Append(@, <<"promise", None>>)] /\ UNCHANGED <<forcing, overlapped>>
  <2>1. /\ outcome' \in [Forcers -> Seq(Ends \X ({None} \cup Given))]
        /\ \A o \in P!Outcomes' : o \in P!Outcomes \/ o = <<"promise", None>>
    <3>1. <<"promise", None>> \in Ends \X ({None} \cup Given)
      BY DEF Ends
    <3>2. QED
      BY <1>1, <1>3, <3>1, OutcomeAdded
  <2>2. PTypes'
    BY <1>1, <1>3, <2>1 DEF PTypes
  <2>3. \A o \in P!Forced' : o \in P!Forced
    BY <2>1 DEF P!Forced
  <2>4. ASSUME ~overlapped
        PROVE  Alone' /\ RunOnce' /\ OnTheWay' /\ OutcomesAgree'
    BY <1>1, <1>3, <2>3, <2>4
       DEF PInv, Alone, RunOnce, OnTheWay, OutcomesAgree, TheOutcome, TheRun, Settled, Ending
  <2>5. QED
    BY <1>3, <2>2, <2>4 DEF PInv
<1> QED
  BY <1>2, <1>3 DEF P!MaybeForceArgs, P!Force1, P!Go

\* The thunk has run.
LEMMA PRunThunk ==
  ASSUME PInv, NEW t \in Forcers, P!RunThunk(t)
  PROVE  PInv'
<1>1. /\ forcing[t] = "thunk" /\ gave[t] = None /\ PTypes
      /\ UNCHANGED <<value, normally, lazily, overlapped>>
  BY DEF P!RunThunk, PInv
<1>2. PICK what \in Thunks :
        /\ runs' = Append(runs, what)
        /\ \/ what = "escapes" /\ P!Escape(t)
           \/ /\ what # "escapes"
              /\ gave' = [gave EXCEPT ![t] = <<what, Len(runs) + 1>>]
              /\ UNCHANGED <<forcing, outcome>>
  BY DEF P!RunThunk
<1>3. runs \in Seq(Thunks) /\ Len(runs) \in Nat /\ gave \in [Forcers -> {None} \cup Given]
      /\ forcing \in [Forcers -> Places]
  BY <1>1 DEF PTypes
<1>4. /\ runs' \in Seq(Thunks) /\ Len(runs') = Len(runs) + 1 /\ runs' # <<>> /\ runs'[Len(runs')] = what
      /\ \A i \in 1..Len(runs') : i = Len(runs') \/ (i \in 1..Len(runs) /\ runs'[i] = runs[i])
  BY <1>2, <1>3
<1>5. ASSUME ~overlapped
      PROVE  /\ value = None /\ ~Settled /\ Alone /\ P!Forced = {}
             /\ \A i \in 1..Len(runs) : runs[i] = "escapes"
             /\ \A u \in Forcers \ {t} : forcing[u] = "idle" /\ gave[u] = None
  <2>1. value = None /\ ~Settled /\ Alone /\ RunOnce /\ OutcomesAgree
    BY <1>1, <1>5 DEF PInv, OnTheWay
  <2>2. \A i \in 1..Len(runs) : runs[i] = "escapes"
    BY <1>3, <2>1 DEF RunOnce, Settled, Ending
  <2>3. \A u \in Forcers \ {t} : forcing[u] = "idle" /\ gave[u] = None
    BY <1>1, <1>5, <2>1 DEF PInv, Alone, OnTheWay
  <2>4. QED
    BY <2>1, <2>2, <2>3 DEF OutcomesAgree
<1>6. \A i \in 1..Len(runs') : ~overlapped /\ runs'[i] # "escapes" => i = Len(runs')
  BY <1>4, <1>5
<1>7. CASE what # "escapes"
  <2>1. gave' = [gave EXCEPT ![t] = <<what, Len(runs) + 1>>] /\ UNCHANGED <<forcing, outcome>>
    BY <1>2, <1>7
  <2>2. <<what, Len(runs) + 1>> \in Given
    BY <1>3, <1>7 DEF Given
  <2>3. PTypes'
    BY <1>1, <1>3, <1>4, <2>1, <2>2 DEF PTypes
  <2>4. Settled' /\ TheRun' = <<what, Len(runs) + 1>> /\ gave'[t] = TheRun' /\ gave'[t] # None
    BY <1>3, <1>4, <1>7, <2>1, <2>2, GivenIsNotNone DEF Settled, Ending, TheRun
  <2>5. P!Forced' = P!Forced
    BY <2>1 DEF P!Forced, P!Outcomes
  <2>6. ASSUME ~overlapped
        PROVE  Alone' /\ RunOnce' /\ OnTheWay' /\ OutcomesAgree'
    <3>1. \A u \in Forcers \ {t} : gave'[u] = None /\ forcing'[u] = "idle"
      BY <1>3, <1>5, <2>1, <2>6
    <3>2. RunOnce'
      BY <1>1, <1>5, <1>6, <2>4, <2>6 DEF RunOnce
    <3>3. OnTheWay'
      BY <1>1, <1>5, <2>1, <2>4, <2>6, <3>1 DEF OnTheWay
    <3>4. QED
      BY <1>5, <2>1, <2>5, <2>6, <3>2, <3>3 DEF Alone, OutcomesAgree
  <2>7. QED
    BY <1>1, <2>3, <2>6 DEF PInv
<1>8. CASE what = "escapes"
  <2>1. /\ outcome' = [outcome EXCEPT ![t] = Append(@, <<"escape", None>>)]
        /\ forcing' = [forcing EXCEPT ![t] = "idle"] /\ UNCHANGED gave
    BY <1>2, <1>8 DEF P!Escape, P!Go
  <2>2. /\ outcome' \in [Forcers -> Seq(Ends \X ({None} \cup Given))]
        /\ \A o \in P!Outcomes' : o \in P!Outcomes \/ o = <<"escape", None>>
    <3>1. <<"escape", None>> \in Ends \X ({None} \cup Given)
      BY DEF Ends
    <3>2. QED
      BY <1>1, <2>1, <3>1, OutcomeAdded
  <2>3. PTypes'
    BY <1>1, <1>3, <1>4, <2>1, <2>2 DEF PTypes, Places
  <2>4. ~Settled'
    BY <1>4, <1>8 DEF Settled, Ending
  <2>5. P!Forced' \subseteq P!Forced
    BY <2>2 DEF P!Forced
  <2>6. ASSUME ~overlapped
        PROVE  Alone' /\ RunOnce' /\ OnTheWay' /\ OutcomesAgree'
    <3>1. \A u \in Forcers : gave'[u] = None /\ forcing'[u] = "idle"
      BY <1>1, <1>3, <1>5, <2>1, <2>6
    <3>2. RunOnce'
      BY <1>1, <1>5, <1>6, <2>4, <2>6 DEF RunOnce
    <3>3. OnTheWay'
      BY <3>1 DEF OnTheWay
    <3>4. QED
      BY <1>5, <2>5, <2>6, <3>1, <3>2, <3>3 DEF Alone, OutcomesAgree
  <2>7. QED
    BY <1>1, <2>3, <2>6 DEF PInv
<1> QED
  BY <1>7, <1>8

\* The outcomes are those of before, and so is what they are compared with.
LEMMA OutcomesKept ==
  ASSUME OutcomesAgree, UNCHANGED <<outcome, runs>>, value # None => value' = value
  PROVE  OutcomesAgree'
<1>1. P!Forced' = P!Forced
  BY DEF P!Forced, P!Outcomes
<1> QED
  BY <1>1 DEF OutcomesAgree, TheOutcome, TheRun, Ending

\* The steps of force that neither run the thunk nor leave
LEMMA PForcing ==
  ASSUME PInv, NEW t \in Forcers, P!Test(t) \/ P!StoreValue(t) \/ P!StoreFlag(t) \/ P!Decide(t)
  PROVE  PInv'
<1>1. /\ forcing[t] # "idle" /\ PTypes
      /\ UNCHANGED <<runs, outcome, lazily, overlapped>>
  BY DEF P!Test, P!StoreValue, P!StoreFlag, P!Decide, PInv
<1>2. /\ gave \in [Forcers -> {None} \cup Given] /\ forcing \in [Forcers -> Places]
      /\ value \in {None} \cup Given
  BY <1>1 DEF PTypes
<1>3. PTypes'
  <2>1. value' \in {None} \cup Given /\ gave' \in [Forcers -> {None} \cup Given]
    BY <1>2 DEF P!Test, P!StoreValue, P!StoreFlag, P!Decide
  <2>2. forcing' \in [Forcers -> Places]
    BY <1>2 DEF P!Test, P!StoreValue, P!StoreFlag, P!Decide, P!Go, Places
  <2>3. QED
    BY <1>1, <2>1, <2>2 DEF PTypes
<1>4. ASSUME ~overlapped
      PROVE  Alone' /\ RunOnce' /\ OnTheWay' /\ OutcomesAgree'
  <2>1. /\ \A u \in Forcers \ {t} : forcing[u] = "idle" /\ gave[u] = None
        /\ Alone /\ RunOnce /\ OnTheWay /\ OutcomesAgree
    BY <1>1, <1>4 DEF PInv, Alone, OnTheWay
  <2>2. \A u \in Forcers \ {t} : forcing'[u] = "idle" /\ gave'[u] = None
    BY <1>2, <2>1 DEF P!Test, P!StoreValue, P!StoreFlag, P!Decide, P!Go
  <2>3. Alone'
    BY <2>2 DEF Alone
  <2>4. CASE P!Test(t)
    <3>1. /\ forcing[t] = "force" /\ UNCHANGED <<value, normally, gave>>
          /\ forcing'[t] = IF value = None THEN "thunk" ELSE "decide"
      BY <1>2, <2>4 DEF P!Test, P!Go
    <3>2. gave[t] = None
      BY <2>1, <3>1 DEF OnTheWay
    <3>3. value = None => ~Settled
      BY <2>1, <3>2 DEF RunOnce
    <3>4. RunOnce' /\ OnTheWay'
      BY <1>1, <2>1, <2>2, <3>1, <3>2, <3>3 DEF RunOnce, OnTheWay, TheRun, Settled, Ending
    <3>5. QED
      BY <1>1, <2>1, <2>3, <3>1, <3>4, OutcomesKept
  <2>5. CASE P!StoreValue(t)
    <3>1. /\ forcing[t] = "thunk" /\ gave[t] # None /\ value' = gave[t] /\ UNCHANGED <<normally, gave>>
          /\ forcing'[t] = "flag"
      BY <1>2, <2>5 DEF P!StoreValue, P!Go
    <3>2. value = None /\ Settled /\ gave[t] = TheRun
      BY <2>1, <3>1 DEF OnTheWay
    <3>3. RunOnce' /\ OnTheWay'
      BY <1>1, <2>1, <2>2, <3>1, <3>2 DEF RunOnce, OnTheWay, TheRun, Settled, Ending
    <3>4. QED
      BY <1>1, <2>1, <2>3, <3>2, <3>3, OutcomesKept
  <2>6. CASE P!StoreFlag(t)
    <3>1. /\ forcing[t] = "flag" /\ value' = value /\ gave' = [gave EXCEPT ![t] = None]
          /\ normally' = (gave[t][1] = "returns") /\ forcing'[t] = "decide" /\ gave'[t] = None
      BY <1>2, <2>6 DEF P!StoreFlag, P!Go
    <3>2. gave[t] = TheRun /\ value # None /\ Settled
      BY <2>1, <3>1 DEF OnTheWay
    <3>3. normally' = (Ending' = "returns")
      BY <1>1, <3>1, <3>2 DEF TheRun, Settled, Ending
    <3>4. RunOnce' /\ OnTheWay'
      BY <1>1, <2>1, <2>2, <3>1, <3>2, <3>3 DEF RunOnce, OnTheWay, TheRun, Settled, Ending
    <3>5. QED
      BY <1>1, <2>1, <2>3, <3>1, <3>4, OutcomesKept
  <2>7. CASE P!Decide(t)
    <3>1. /\ forcing[t] = "decide" /\ UNCHANGED <<value, normally, gave>>
          /\ forcing'[t] = IF P!Truthy(normally) THEN "return" ELSE "raise"
      BY <1>2, <2>7 DEF P!Decide, P!Go
    <3>2. /\ value # None /\ normally = (Ending = "returns") /\ gave[t] = None
      <4>1. \A u \in Forcers : forcing[u] # "flag"
        BY <2>1, <3>1
      <4>2. QED
        BY <2>1, <3>1, <4>1 DEF OnTheWay, RunOnce
    <3>3. P!Truthy(normally) <=> Ending = "returns"
      <4>1. None # TRUE /\ None # FALSE
        BY PromisesAssumption DEF P!PromisesAssumption
      <4>2. QED
        BY <3>2, <4>1 DEF P!Truthy
    <3>4. RunOnce' /\ OnTheWay'
      BY <1>1, <2>1, <2>2, <3>1, <3>2, <3>3 DEF RunOnce, OnTheWay, TheRun, Settled, Ending
    <3>5. QED
      BY <1>1, <2>1, <2>3, <3>1, <3>4, OutcomesKept
  <2>8. QED
    BY <2>4, <2>5, <2>6, <2>7
<1> QED
  BY <1>1, <1>3, <1>4 DEF PInv

\* The value is returned, or the exception raised.
LEMMA PLeave ==
  ASSUME PInv, NEW t \in Forcers, P!Leave(t)
  PROVE  PInv'
<1> DEFINE x == <<IF forcing[t] = "return" THEN "value" ELSE "exception", value>>
<1>1. /\ forcing[t] \in {"return", "raise"} /\ outcome' = [outcome EXCEPT ![t] = Append(@, x)]
      /\ forcing' = [forcing EXCEPT ![t] = "idle"] /\ PTypes
      /\ UNCHANGED <<value, normally, gave, runs, lazily, overlapped>>
  BY DEF P!Leave, P!Go, PInv
<1>2. x \in Ends \X ({None} \cup Given)
  BY <1>1 DEF PTypes, Ends
<1>3. /\ outcome' \in [Forcers -> Seq(Ends \X ({None} \cup Given))]
      /\ \A o \in P!Outcomes' : o \in P!Outcomes \/ o = x
  <2> HIDE DEF x
  <2>1. QED
    BY <1>1, <1>2, OutcomeAdded
<1>4. PTypes'
  BY <1>1, <1>3 DEF PTypes, Places
<1>5. ASSUME ~overlapped
      PROVE  Alone' /\ RunOnce' /\ OnTheWay' /\ OutcomesAgree'
  <2>1. Alone /\ RunOnce /\ OnTheWay /\ OutcomesAgree
    BY <1>5 DEF PInv
  <2>2. /\ value # None /\ value = TheRun /\ (forcing[t] = "return" <=> Ending = "returns")
        /\ gave[t] = None
    BY <1>1, <2>1 DEF OnTheWay, RunOnce
  <2>3. x = TheOutcome
    BY <1>1, <2>2 DEF TheOutcome
  <2>4. \A u \in Forcers : forcing'[u] = IF u = t THEN "idle" ELSE forcing[u]
    BY <1>1 DEF PTypes
  <2>5. Alone' /\ OnTheWay'
    BY <1>1, <2>1, <2>2, <2>4 DEF Alone, OnTheWay, TheRun, Settled, Ending
  <2>6. RunOnce'
    BY <1>1, <2>1, <2>4 DEF RunOnce, TheRun, Settled, Ending
  <2>7. OutcomesAgree'
    <3>1. \A o \in P!Forced' : o \in P!Forced \/ o = x
      BY <1>3 DEF P!Forced
    <3>2. TheOutcome' = TheOutcome
      BY <1>1 DEF TheOutcome, TheRun, Settled, Ending
    <3>3. QED
      BY <1>1, <2>1, <2>2, <2>3, <3>1, <3>2 DEF OutcomesAgree
  <2>8. QED
    BY <2>5, <2>6, <2>7
<1> QED
  BY <1>1, <1>4, <1>5 DEF PInv

LEMMA PStep == PInv /\ [P!Next]_pvars => PInv'
<1>1. ASSUME PInv, P!Next PROVE PInv'
  BY <1>1, PBegin, PRunThunk, PForcing, PLeave DEF P!Next
<1>2. ASSUME PInv, UNCHANGED pvars PROVE PInv'
  <2>1. P!Forced' = P!Forced
    BY <1>2 DEF pvars, P!Forced, P!Outcomes
  <2>2. QED
    BY <1>2, <2>1 DEF pvars, PInv, PTypes, Alone, RunOnce, OnTheWay, OutcomesAgree, TheOutcome, TheRun, Settled, Ending
<1> QED
  BY <1>1, <1>2

\* However forces overlap: what is stored, what is on its way and what has come out are
\* from runs of the thunk, and a flag that is FALSE from one that raised.
Provenance ==
  /\ normally \in BOOLEAN \cup {None}
  /\ value # None => value \in P!GivenByRuns
  /\ normally = FALSE => P!SomeRunRaised
  /\ \A t \in Forcers :
       /\ gave[t] # None => gave[t] \in P!GivenByRuns
       /\ forcing[t] = "flag" => gave[t] # None
       /\ forcing[t] \in {"flag", "decide", "return", "raise"} => value # None
       /\ forcing[t] = "raise" => P!SomeRunRaised
  /\ \A o \in P!Forced : o[2] \in P!GivenByRuns /\ (o[1] = "exception" => P!SomeRunRaised)

LEMMA ProvenanceInit == P!Init => Provenance
<1> SUFFICES ASSUME P!Init PROVE Provenance
  OBVIOUS
<1>1. P!Forced = {}
  BY DEF P!Init, P!Forced, P!Outcomes
<1>2. normally # FALSE
  BY PromisesAssumption DEF P!Init, P!PromisesAssumption
<1> QED
  BY <1>1, <1>2 DEF P!Init, Provenance

\* The runs of before have given what they gave.
LEMMA RunsOnlyGrow ==
  ASSUME PTypes, runs' = runs \/ \E what \in Thunks : runs' = Append(runs, what)
  PROVE  P!GivenByRuns \subseteq P!GivenByRuns' /\ (P!SomeRunRaised => P!SomeRunRaised')
<1>1. \A i \in DOMAIN runs : i \in DOMAIN runs' /\ runs'[i] = runs[i]
  <2>1. CASE runs' = runs
    BY <2>1
  <2>2. ASSUME NEW what \in Thunks, runs' = Append(runs, what), NEW i \in DOMAIN runs
        PROVE  i \in DOMAIN runs' /\ runs'[i] = runs[i]
    BY <2>2 DEF PTypes
  <2>3. QED
    BY <2>1, <2>2
<1> QED
  BY <1>1 DEF P!GivenByRuns, P!SomeRunRaised

\* A step after which no more has come out
LEMMA ForcedKept ==
  ASSUME PTypes, Provenance, runs' = runs \/ \E what \in Thunks : runs' = Append(runs, what),
         P!Forced' \subseteq P!Forced
  PROVE  \A o \in P!Forced' : o[2] \in P!GivenByRuns' /\ (o[1] = "exception" => P!SomeRunRaised')
  BY RunsOnlyGrow DEF Provenance

LEMMA ProvenanceBegin ==
  ASSUME PTypes, Provenance, NEW t \in Forcers, P!MaybeForceArgs(t) \/ P!Force1(t)
  PROVE  Provenance'
<1>1. /\ UNCHANGED <<value, normally, gave, runs>>
      /\ forcing' = forcing \/ forcing' = [forcing EXCEPT ![t] = "force"]
      /\ outcome' = outcome \/ outcome' = [outcome EXCEPT ![t] = Append(@, <<"promise", None>>)]
  BY DEF P!MaybeForceArgs, P!Force1, P!Go
<1>2. P!Forced' \subseteq P!Forced
  <2>1. CASE outcome' = outcome
    BY <2>1 DEF P!Forced, P!Outcomes
  <2>2. CASE outcome' = [outcome EXCEPT ![t] = Append(@, <<"promise", None>>)]
    <3>1. <<"promise", None>> \in Ends \X ({None} \cup Given)
      BY DEF Ends
    <3>2. \A o \in P!Outcomes' : o \in P!Outcomes \/ o = <<"promise", None>>
      BY <2>2, <3>1, OutcomeAdded
    <3>3. QED
      BY <3>2 DEF P!Forced
  <2>3. QED
    BY <1>1, <2>1, <2>2
<1>3. \A u \in Forcers : forcing'[u] = forcing[u] \/ forcing'[u] = "force"
  BY <1>1 DEF PTypes
<1>4. P!GivenByRuns' = P!GivenByRuns /\ (P!SomeRunRaised' <=> P!SomeRunRaised)
  BY <1>1 DEF P!GivenByRuns, P!SomeRunRaised
<1> QED
  BY <1>1, <1>2, <1>3, <1>4 DEF Provenance

LEMMA ProvenanceRunThunk ==
  ASSUME PTypes, Provenance, NEW t \in Forcers, P!RunThunk(t)
  PROVE  Provenance'
<1>1. /\ forcing[t] = "thunk" /\ UNCHANGED <<value, normally>>
      /\ runs \in Seq(Thunks) /\ forcing \in [Forcers -> Places] /\ gave \in [Forcers -> {None} \cup Given]
  BY DEF P!RunThunk, PTypes
<1>2. PICK what \in Thunks :
        /\ runs' = Append(runs, what)
        /\ \/ what = "escapes" /\ P!Escape(t)
           \/ /\ what # "escapes"
              /\ gave' = [gave EXCEPT ![t] = <<what, Len(runs) + 1>>]
              /\ UNCHANGED <<forcing, outcome>>
  BY DEF P!RunThunk
<1>3. P!GivenByRuns \subseteq P!GivenByRuns' /\ (P!SomeRunRaised => P!SomeRunRaised')
  BY <1>2, RunsOnlyGrow
<1>4. <<what, Len(runs) + 1>> \in P!GivenByRuns'
  <2>1. Len(runs) + 1 \in DOMAIN runs' /\ runs'[Len(runs) + 1] = what
    BY <1>1, <1>2
  <2>2. QED
    BY <2>1 DEF P!GivenByRuns
<1>5. P!Forced' \subseteq P!Forced
  <2>1. CASE outcome' = outcome
    BY <2>1 DEF P!Forced, P!Outcomes
  <2>2. CASE outcome' = [outcome EXCEPT ![t] = Append(@, <<"escape", None>>)]
    <3>1. <<"escape", None>> \in Ends \X ({None} \cup Given)
      BY DEF Ends
    <3>2. \A o \in P!Outcomes' : o \in P!Outcomes \/ o = <<"escape", None>>
      BY <2>2, <3>1, OutcomeAdded
    <3>3. QED
      BY <3>2 DEF P!Forced
  <2>3. QED
    BY <1>2, <2>1, <2>2 DEF P!Escape
<1>6. \A o \in P!Forced' : o[2] \in P!GivenByRuns' /\ (o[1] = "exception" => P!SomeRunRaised')
  BY <1>2, <1>5, ForcedKept
<1>7. \A u \in Forcers : forcing'[u] = forcing[u] \/ forcing'[u] = "idle"
  BY <1>1, <1>2 DEF P!Escape, P!Go
<1>8. \A u \in Forcers : gave'[u] = gave[u] \/ (u = t /\ gave'[u] = <<what, Len(runs) + 1>>)
  BY <1>1, <1>2 DEF P!Escape
<1>9. \A u \in Forcers : gave'[u] # None => gave'[u] \in P!GivenByRuns'
  BY <1>3, <1>4, <1>8 DEF Provenance
<1>10. \A u \in Forcers : forcing'[u] = "flag" => gave'[u] # None
  BY <1>1, <1>7, <1>8 DEF Provenance
<1> QED
  BY <1>1, <1>3, <1>6, <1>7, <1>9, <1>10 DEF Provenance

LEMMA ProvenanceForcing ==
  ASSUME PTypes, Provenance, NEW t \in Forcers, P!Test(t) \/ P!StoreValue(t) \/ P!StoreFlag(t) \/ P!Decide(t)
  PROVE  Provenance'
<1>1. /\ UNCHANGED <<runs, outcome>>
      /\ forcing \in [Forcers -> Places] /\ gave \in [Forcers -> {None} \cup Given] /\ normally' \in BOOLEAN \cup {normally}
  BY DEF P!Test, P!StoreValue, P!StoreFlag, P!Decide, PTypes
<1>2. P!Forced' = P!Forced /\ P!GivenByRuns' = P!GivenByRuns /\ (P!SomeRunRaised' <=> P!SomeRunRaised)
  BY <1>1 DEF P!Forced, P!Outcomes, P!GivenByRuns, P!SomeRunRaised
<1>3. CASE P!Test(t)
  <2>1. /\ UNCHANGED <<value, normally, gave>>
        /\ \A u \in Forcers : forcing'[u] = IF u = t THEN (IF value = None THEN "thunk" ELSE "decide") ELSE forcing[u]
    BY <1>1, <1>3 DEF P!Test, P!Go
  <2>2. QED
    BY <1>2, <2>1 DEF Provenance
<1>4. CASE P!StoreValue(t)
  <2>1. /\ gave[t] # None /\ value' = gave[t] /\ UNCHANGED <<normally, gave>>
        /\ \A u \in Forcers : forcing'[u] = IF u = t THEN "flag" ELSE forcing[u]
    BY <1>1, <1>4 DEF P!StoreValue, P!Go
  <2>2. QED
    BY <1>2, <2>1 DEF Provenance
<1>5. CASE P!StoreFlag(t)
  <2>1. /\ forcing[t] = "flag" /\ value' = value /\ normally' = (gave[t][1] = "returns")
        /\ \A u \in Forcers : /\ forcing'[u] = IF u = t THEN "decide" ELSE forcing[u]
                             /\ gave'[u] = IF u = t THEN None ELSE gave[u]
    BY <1>1, <1>5 DEF P!StoreFlag, P!Go
  <2>2. gave[t] \in P!GivenByRuns /\ gave[t] \in Given
    BY <1>1, <2>1 DEF Provenance
  <2>3. gave[t][1] = "returns" \/ P!SomeRunRaised
    BY <2>2 DEF P!GivenByRuns, P!SomeRunRaised, Given
  <2>4. normally' = FALSE => P!SomeRunRaised
    BY <2>1, <2>3
  <2>5. QED
    BY <1>2, <2>1, <2>4 DEF Provenance
<1>6. CASE P!Decide(t)
  <2>1. /\ forcing[t] = "decide" /\ UNCHANGED <<value, normally, gave>>
        /\ \A u \in Forcers : forcing'[u] = IF u = t THEN (IF P!Truthy(normally) THEN "return" ELSE "raise")
                                              ELSE forcing[u]
    BY <1>1, <1>6 DEF P!Decide, P!Go
  <2>2. ~P!Truthy(normally) => normally = FALSE
    <3>1. normally = None \/ normally \in BOOLEAN
      BY DEF Provenance
    <3>2. QED
      BY <3>1, Zenon DEF P!Truthy
  <2>3. QED
    BY <1>2, <2>1, <2>2 DEF Provenance
<1> QED
  BY <1>3, <1>4, <1>5, <1>6

LEMMA ProvenanceLeave ==
  ASSUME PTypes, Provenance, NEW t \in Forcers, P!Leave(t)
  PROVE  Provenance'
<1> DEFINE x == <<IF forcing[t] = "return" THEN "value" ELSE "exception", value>>
<1>1. /\ forcing[t] \in {"return", "raise"} /\ outcome' = [outcome EXCEPT ![t] = Append(@, x)]
      /\ forcing' = [forcing EXCEPT ![t] = "idle"]
      /\ UNCHANGED <<value, normally, gave, runs>>
  BY DEF P!Leave, P!Go
<1>2. P!GivenByRuns' = P!GivenByRuns /\ (P!SomeRunRaised' <=> P!SomeRunRaised)
  BY <1>1 DEF P!GivenByRuns, P!SomeRunRaised
<1>3. x \in Ends \X ({None} \cup Given) /\ x[2] \in P!GivenByRuns /\ (x[1] = "exception" => P!SomeRunRaised)
  BY <1>1 DEF PTypes, Ends, Provenance
<1>4. \A o \in P!Outcomes' : o \in P!Outcomes \/ o = x
  <2> HIDE DEF x
  <2>1. QED
    BY <1>1, <1>3, OutcomeAdded
<1>5. \A o \in P!Forced' : o \in P!Forced \/ o = x
  BY <1>4 DEF P!Forced
<1>6. \A u \in Forcers : forcing'[u] = IF u = t THEN "idle" ELSE forcing[u]
  BY <1>1 DEF PTypes
<1> HIDE DEF x
<1> QED
  BY <1>1, <1>2, <1>3, <1>5, <1>6 DEF Provenance

LEMMA ProvenanceStep == PTypes /\ Provenance /\ [P!Next]_pvars => Provenance'
<1>1. ASSUME PTypes, Provenance, P!Next PROVE Provenance'
  BY <1>1, ProvenanceBegin, ProvenanceRunThunk, ProvenanceForcing, ProvenanceLeave DEF P!Next
<1>2. ASSUME Provenance, UNCHANGED pvars PROVE Provenance'
  BY <1>2 DEF pvars, Provenance, P!Forced, P!Outcomes, P!GivenByRuns, P!SomeRunRaised
<1> QED
  BY <1>1, <1>2

LEMMA PForcedOnce == PInv /\ Provenance => P!ForcedOnce
<1>1. ASSUME PInv, ~overlapped
      PROVE  /\ \A i \in 1..Len(runs) : runs[i] # "escapes" => i = Len(runs)
             /\ \A o, p \in P!Forced : o = p
             /\ \A o \in P!Forced : P!Kept(o)
  BY <1>1 DEF PInv, RunOnce, OutcomesAgree, TheOutcome, TheRun, P!Kept
<1> QED
  BY <1>1 DEF P!ForcedOnce, Provenance

\* A thread that is in force has not got all its outcomes.
ForcesBounded ==
  \A t \in Forcers : Len(outcome[t]) <= MaxForces /\ (forcing[t] # "idle" => Len(outcome[t]) < MaxForces)

LEMMA PBounded ==
  /\ P!Init => ForcesBounded
  /\ PInv /\ ForcesBounded /\ [P!Next]_pvars => ForcesBounded'
<1>1. P!Init => ForcesBounded
  <2>1. Len(<<>>) = 0 /\ 0 <= MaxForces
    BY PromisesAssumption DEF P!PromisesAssumption
  <2>2. QED
    BY <2>1 DEF P!Init, ForcesBounded
<1>2. ASSUME PInv, ForcesBounded, NEW t \in Forcers,
             \/ P!MaybeForceArgs(t) \/ P!Force1(t) \/ P!Test(t) \/ P!RunThunk(t) \/ P!StoreValue(t)
             \/ P!StoreFlag(t) \/ P!Decide(t) \/ P!Leave(t)
      PROVE  ForcesBounded'
  <2>1. /\ forcing \in [Forcers -> Places] /\ outcome[t] \in Seq(Ends \X ({None} \cup Given))
        /\ DOMAIN outcome = Forcers /\ value \in {None} \cup Given /\ MaxForces \in Nat
    BY <1>2, PromisesAssumption DEF PInv, PTypes, P!PromisesAssumption
  <2>2. \A u \in Forcers \ {t} : forcing'[u] = forcing[u] /\ outcome'[u] = outcome[u]
    BY <1>2, <2>1 DEF P!MaybeForceArgs, P!Force1, P!Test, P!RunThunk, P!Escape, P!StoreValue, P!StoreFlag, P!Decide, P!Leave, P!Go
  <2>3. /\ outcome'[t] = outcome[t] \/ \E o : outcome'[t] = Append(outcome[t], o)
        /\ outcome'[t] # outcome[t] => Len(outcome[t]) < MaxForces /\ forcing'[t] = "idle"
        /\ forcing'[t] # "idle" => Len(outcome[t]) < MaxForces
    BY <1>2, <2>1 DEF ForcesBounded, P!MaybeForceArgs, P!Force1, P!Test, P!RunThunk, P!Escape, P!StoreValue, P!StoreFlag,
                      P!Decide, P!Leave, P!Go
  <2>4. outcome'[t] # outcome[t] => Len(outcome'[t]) = Len(outcome[t]) + 1
    BY <2>1, <2>3
  <2>5. Len(outcome[t]) \in Nat
    BY <2>1
  <2>6. Len(outcome'[t]) <= MaxForces /\ (forcing'[t] # "idle" => Len(outcome'[t]) < MaxForces)
    BY <1>2, <2>1, <2>3, <2>4, <2>5 DEF ForcesBounded
  <2>7. QED
    BY <1>2, <2>2, <2>6 DEF ForcesBounded
<1>3. ASSUME ForcesBounded, UNCHANGED pvars PROVE ForcesBounded'
  BY <1>3 DEF pvars, ForcesBounded
<1> QED
  BY <1>1, <1>2, <1>3 DEF P!Next

LEMMA PTypeOK == PInv /\ ForcesBounded => P!TypeOK
<1> SUFFICES ASSUME PInv, ForcesBounded PROVE P!TypeOK
  OBVIOUS
<1>1. value = None \/ value[1] \in Thunks \ {"escapes"}
  BY DEF PInv, PTypes, Given
<1> QED
  BY <1>1 DEF PInv, PTypes, Places, ForcesBounded, P!TypeOK

------------------------------------------------------------------------------
(***************************************************************************)
(* Environments: the behaviours are those that EnvironmentsProofs is about *)
(***************************************************************************)
NP == INSTANCE EnvironmentsProofs

LEMMA SameAssumption == NP!EnvironmentsAssumption
  BY EnvironmentsAssumption
     DEF N!EnvironmentsAssumption, NP!EnvironmentsAssumption, N!FormsType, NP!FormsType,
         N!Names, NP!Names, N!Item, NP!Item

LEMMA SameInit == N!Init => NP!Init
  BY DEF N!Init, NP!Init, N!Do0, NP!Do0

LEMMA SameStep == N!Next => NP!Next
<1>1. N!UserOperates => NP!UserOperates
  BY DEF N!UserOperates, NP!UserOperates, N!SetAttr, NP!SetAttr, N!Set, NP!Set, N!SetDefault, NP!SetDefault,
         N!DelAttr, NP!DelAttr, N!Pop, NP!Pop, N!Update, NP!Update, N!Clear, NP!Clear, N!Finalize, NP!Finalize,
         N!ExitWith, NP!ExitWith, N!ByUser, NP!ByUser, N!Definable, NP!Definable, N!Storable, NP!Storable,
         N!Gives, NP!Gives, N!Touches, NP!Touches, N!Binds, NP!Binds, N!Without, NP!Without,
         N!Restrict, NP!Restrict, N!Doing, NP!Doing, N!Names, NP!Names
<1>2. ASSUME NEW n, NEW v, N!Store(n, v) PROVE NP!Store(n, v)
  BY <1>2 DEF N!Store, NP!Store, N!Storable, NP!Storable, N!Leave, NP!Leave, N!Binds, NP!Binds,
              N!Gives, NP!Gives, N!Doing, NP!Doing
<1>3. N!Leave => NP!Leave
  BY DEF N!Leave, NP!Leave
<1>4. N!Evaluate => NP!Evaluate
  BY <1>2, <1>3 DEF N!Evaluate, NP!Evaluate, N!Taken, NP!Taken, N!Recursive, NP!Recursive, N!OwnRead, NP!OwnRead,
                    N!Doing, NP!Doing
<1>5. N!Complete => NP!Complete
  BY DEF N!Complete, NP!Complete
<1>6. /\ N!PythonicLet => NP!PythonicLet
      /\ N!LispyLet => NP!LispyLet
      /\ N!Do => NP!Do
      /\ N!ThunkEnds => NP!ThunkEnds
  BY <1>2, <1>3, <1>4, <1>5
     DEF N!PythonicLet, NP!PythonicLet, N!Pythonic, NP!Pythonic, N!LispyLet, NP!LispyLet, N!Lispy, NP!Lispy,
         N!Do, NP!Do, N!Doing, NP!Doing, N!ThunkEnds, NP!ThunkEnds
<1>7. /\ N!CallDecorated => NP!CallDecorated
      /\ N!BodyEnds => NP!BodyEnds
  BY DEF N!CallDecorated, NP!CallDecorated, N!BodyEnds, NP!BodyEnds
<1> QED
  BY <1>1, <1>6, <1>7 DEF N!Next, NP!Next

LEMMA EnvironmentsOnly == MCSpec => NP!Spec
<1>1. MCInit => NP!Init
  BY SameInit DEF MCInit
<1>2. [MCNext]_allvars => [NP!Next]_NP!nvars
  BY SameStep DEF MCNext, allvars, nvars, NP!nvars, InterningStep, EscapesStep, FixStep, PromisesStep,
                  EnvironmentsStep, ContinuationsStep, ViewsStep
<1> QED
  BY <1>1, <1>2, PTL DEF MCSpec, NP!Spec

------------------------------------------------------------------------------
(***************************************************************************)
(* Escapes                                                                 *)
(***************************************************************************)
FrameType ==
  [kind : {"catch"}, tags : {None} \cup SUBSET (Tags \cup Uids), untagged : BOOLEAN, inner : BOOLEAN]
  \cup [kind : {"call_ec"}, ec : Nat \ {0}, tags : SUBSET Uids, untagged : BOOLEAN, inner : BOOLEAN]
  \cup [kind : {"trampoline"}, left : Nat, inner : BOOLEAN]
EcType == [uid : Uids, valid : BOOLEAN]

\* A catch point was asked for by user code; a call_ec has an escape continuation that
\* is valid, and catches its uid.
FrameSound(f, es) ==
  /\ f.kind = "catch" => [tags |-> f.tags, untagged |-> f.untagged] \in Catchers
  /\ f.kind = "call_ec" => /\ f.ec \in 1..Len(es) /\ es[f.ec].valid /\ f.tags = {es[f.ec].uid}
                           /\ ~f.untagged /\ ~f.inner

\* The living anchors have different addresses, a valid escape continuation has its call_ec on
\* the stack, no trampoline is called by another one, and user code calls the first frame.
Distinct(s, es) ==
  \A i, j \in 1..Len(s) :
    s[i].kind = "call_ec" /\ s[j].kind = "call_ec" /\ es[s[i].ec].uid = es[s[j].ec].uid => i = j
Reachable(s, es) ==
  \A n \in 1..Len(es) : es[n].valid => \E k \in 1..Len(s) : s[k].kind = "call_ec" /\ s[k].ec = n
Apart(s) ==
  \A k, j \in 1..Len(s) :
    k < j /\ s[k].kind = "trampoline" /\ s[j].kind = "trampoline" => \E i \in k + 1..j : ~s[i].inner
Rooted(s) == 1 \in 1..Len(s) => ~s[1].inner
Sound(s, es) ==
  /\ s \in Seq(FrameType) /\ es \in Seq(EcType)
  /\ \A i \in 1..Len(s) : FrameSound(s[i], es)
  /\ Distinct(s, es) /\ Reachable(s, es) /\ Apart(s) /\ Rooted(s)

\* User code does not catch what happens to be the address of an anchor.
NoUidsCaught == \A c \in Catchers : c.tags # None => c.tags \cap Uids = {}

\* An escape that is on its way to a call_ec has its uid, and the call_ec is there.
Modes ==
  \/ mode \in [kind : {"running"}, got : E!AnyValue]
  \/ mode \in [kind : {"returning"}, value : E!AnyValue] /\ stack # <<>>
  \/ mode \in [kind : {"escaping"}, tag : Tags \cup {None} \cup Uids, catchall : BOOLEAN, ec : Nat]
  \/ mode \in [kind : {"failing"}]
OnItsWay ==
  NoUidsCaught /\ mode.kind = "escaping" /\ mode.ec # 0 =>
    mode.ec \in 1..Len(ecs) /\ ecs[mode.ec].valid /\ mode.tag = ecs[mode.ec].uid /\ mode.catchall = FALSE

EInv == Sound(stack, ecs) /\ Modes /\ OnItsWay

\* A function is called with its frames, of which at most one is a trampoline; a trampoline
\* that is not the first is called by the frame below, and so on to the first.
LEMMA Pushed ==
  ASSUME NEW s, NEW es, Sound(s, es), NEW fs \in Seq(FrameType),
         \A i \in 1..Len(fs) : fs[i].kind # "call_ec" /\ FrameSound(fs[i], es),
         \A i \in 1..Len(fs) : fs[i].kind = "trampoline" => ~fs[1].inner,
         s = <<>> => Rooted(fs),
         \A i, j \in 1..Len(fs) : fs[i].kind = "trampoline" /\ fs[j].kind = "trampoline" => i = j
  PROVE  Sound(s \o fs, es)
<1> DEFINE r == s \o fs
           n == Len(s)
<1>1. /\ s \in Seq(FrameType) /\ es \in Seq(EcType) /\ \A i \in 1..n : FrameSound(s[i], es)
      /\ Distinct(s, es) /\ Reachable(s, es) /\ Apart(s) /\ Rooted(s)
  BY DEF Sound
<1>2. /\ r \in Seq(FrameType) /\ Len(r) = n + Len(fs) /\ n \in Nat /\ Len(fs) \in Nat
      /\ \A i \in 1..n : r[i] = s[i] /\ i \in 1..Len(r)
      /\ \A i \in 1..Len(fs) : r[n + i] = fs[i] /\ n + i \in 1..Len(r)
  <2>1. r \in Seq(FrameType) /\ Len(r) = n + Len(fs) /\ n \in Nat /\ Len(fs) \in Nat
    BY <1>1
  <2>2. \A i \in 1..n : r[i] = s[i] /\ i \in 1..Len(r)
    BY <1>1
  <2>3. \A i \in 1..Len(fs) : r[n + i] = fs[i] /\ n + i \in 1..Len(r)
    BY <1>1
  <2>4. QED
    BY <2>1, <2>2, <2>3
<1> HIDE DEF r, n
<1>3. \A i \in 1..Len(r) : i \in 1..n \/ (i - n \in 1..Len(fs) /\ n + (i - n) = i)
  BY <1>2
<1>4. \A i \in 1..Len(r) : (i \in 1..n /\ r[i] = s[i]) \/ (i - n \in 1..Len(fs) /\ r[i] = fs[i - n])
  <2>1. ASSUME NEW i \in 1..Len(r) PROVE (i \in 1..n /\ r[i] = s[i]) \/ (i - n \in 1..Len(fs) /\ r[i] = fs[i - n])
    <3>1. CASE i \in 1..n
      BY <1>2, <3>1
    <3>2. CASE i - n \in 1..Len(fs) /\ n + (i - n) = i
      <4> DEFINE d == i - n
      <4>1. d \in 1..Len(fs) /\ n + d = i
        BY <3>2
      <4> HIDE DEF d
      <4>2. r[i] = fs[d]
        BY <1>2, <4>1
      <4>3. QED
        BY <4>1, <4>2 DEF d
    <3>3. QED
      BY <1>3, <3>1, <3>2
  <2>2. QED
    BY <2>1
<1>5. \A i \in 1..Len(r) : FrameSound(r[i], es)
  BY <1>1, <1>4 DEF n
<1>6. \A i \in 1..Len(r) : r[i].kind = "call_ec" => i \in 1..n /\ r[i] = s[i]
  BY <1>4
<1>7. Distinct(r, es)
  BY <1>1, <1>6 DEF Distinct, n
<1>8. Reachable(r, es)
  <2>1. ASSUME NEW m \in 1..Len(es), es[m].valid
        PROVE  \E k \in 1..Len(r) : r[k].kind = "call_ec" /\ r[k].ec = m
    <3>1. PICK k \in 1..n : s[k].kind = "call_ec" /\ s[k].ec = m
      BY <1>1, <2>1 DEF Reachable, n
    <3>2. k \in 1..Len(r) /\ r[k] = s[k]
      BY <1>2
    <3>3. QED
      BY <3>1, <3>2
  <2>2. QED
    BY <2>1 DEF Reachable
<1>9. Apart(r)
  <2>1. ASSUME NEW k \in 1..Len(r), NEW j \in 1..Len(r), k < j, r[k].kind = "trampoline", r[j].kind = "trampoline"
        PROVE  \E i \in k + 1..j : ~r[i].inner
    <3>1. CASE j \in 1..n
      <4>1. k \in 1..n /\ r[k] = s[k] /\ r[j] = s[j]
        BY <1>2, <2>1, <3>1
      <4>2. PICK i \in k + 1..j : ~s[i].inner
        BY <1>1, <2>1, <3>1, <4>1 DEF Apart, n
      <4>3. i \in 1..n
        BY <1>2, <3>1, <4>1
      <4>4. QED
        BY <1>2, <4>2, <4>3
    <3>2. CASE j - n \in 1..Len(fs) /\ r[j] = fs[j - n]
      <4>1. ~fs[1].inner /\ 1 \in 1..Len(fs) /\ n + 1 <= j
        BY <1>2, <2>1, <3>2
      <4>2. r[n + 1] = fs[1]
        BY <1>2, <4>1
      <4>3. CASE k \in 1..n
        <5>1. n + 1 \in k + 1..j
          BY <1>2, <4>1, <4>3
        <5>2. QED
          BY <4>1, <4>2, <5>1
      <4>4. CASE k - n \in 1..Len(fs) /\ r[k] = fs[k - n]
        <5>1. k - n = j - n
          BY <2>1, <3>2, <4>4
        <5>2. k = j
          BY <1>2, <5>1
        <5>3. QED
          BY <2>1, <5>2
      <4>5. QED
        BY <1>4, <4>3, <4>4
    <3>3. QED
      BY <1>4, <3>1, <3>2
  <2>2. QED
    BY <2>1 DEF Apart
<1>10. Rooted(r)
  <2>1. CASE 1 \in 1..n
    BY <1>1, <1>2, <2>1 DEF Rooted, n
  <2>2. CASE n = 0
    <3>1. s = <<>>
      BY <1>1, <2>2 DEF n
    <3>2. 1 \in 1..Len(r) => 1 \in 1..Len(fs) /\ r[1] = fs[1]
      BY <1>2, <1>4, <2>2
    <3>3. QED
      BY <3>1, <3>2 DEF Rooted
  <2>3. QED
    BY <1>2, <2>1, <2>2
<1> QED
  BY <1>1, <1>2, <1>5, <1>7, <1>8, <1>9, <1>10 DEF Sound, r

\* A trampoline on top, called by user code or by a frame that is not a trampoline and
\* was called by user code
LEMMA TrampolineOnTop ==
  ASSUME NEW s, NEW es, Sound(s, es), NEW f \in [kind : {"trampoline"}, left : Nat, inner : BOOLEAN],
         f.inner => s # <<>> /\ s[Len(s)].kind = "call_ec"
  PROVE  Sound(Append(s, f), es)
<1> DEFINE r == Append(s, f)
           n == Len(s)
<1>1. /\ s \in Seq(FrameType) /\ es \in Seq(EcType) /\ \A i \in 1..n : FrameSound(s[i], es)
      /\ Distinct(s, es) /\ Reachable(s, es) /\ Apart(s) /\ Rooted(s)
  BY DEF Sound
<1>2. f \in FrameType /\ f.kind = "trampoline"
  BY DEF FrameType
<1>3. /\ r \in Seq(FrameType) /\ Len(r) = n + 1 /\ n \in Nat /\ r[n + 1] = f
      /\ \A i \in 1..n : r[i] = s[i] /\ i \in 1..Len(r)
      /\ \A i \in 1..Len(r) : i \in 1..n \/ i = n + 1
  BY <1>1, <1>2
<1> HIDE DEF r, n
<1>4. \A i \in 1..Len(r) : FrameSound(r[i], es)
  BY <1>1, <1>2, <1>3 DEF FrameSound, n
<1>5. Distinct(r, es)
  BY <1>1, <1>2, <1>3 DEF Distinct, n
<1>6. Reachable(r, es)
  BY <1>1, <1>3 DEF Reachable, n
<1>7. Apart(r)
  <2>1. ASSUME NEW k \in 1..Len(r), NEW j \in 1..Len(r), k < j, r[k].kind = "trampoline", r[j].kind = "trampoline"
        PROVE  \E i \in k + 1..j : ~r[i].inner
    <3>1. CASE j \in 1..n
      <4>1. k \in 1..n /\ r[k] = s[k] /\ r[j] = s[j]
        BY <1>3, <2>1, <3>1
      <4>2. PICK i \in k + 1..j : ~s[i].inner
        BY <1>1, <2>1, <3>1, <4>1 DEF Apart, n
      <4>3. i \in 1..n
        BY <1>3, <3>1, <4>1
      <4>4. QED
        BY <1>3, <4>2, <4>3
    <3>2. CASE j = n + 1 /\ ~f.inner
      <4>1. j \in k + 1..j
        BY <1>3, <2>1, <3>2
      <4>2. QED
        BY <1>3, <3>2, <4>1
    <3>3. CASE j = n + 1 /\ f.inner
      <4>1. s # <<>> /\ s[n].kind = "call_ec"
        BY <3>3 DEF n
      <4>2. n \in 1..n /\ s[n] \in FrameType
        BY <1>1, <1>3, <4>1 DEF n
      <4>3. ~s[n].inner
        BY <1>1, <4>1, <4>2 DEF FrameSound
      <4>4. k # n
        BY <1>3, <2>1, <4>1, <4>2
      <4>5. n \in k + 1..j
        BY <1>3, <2>1, <3>3, <4>4
      <4>6. QED
        BY <1>3, <4>2, <4>3, <4>5
    <3>4. QED
      BY <1>3, <3>1, <3>2, <3>3
  <2>2. QED
    BY <2>1 DEF Apart
<1>8. Rooted(r)
  <2>1. CASE 1 \in 1..n
    BY <1>1, <1>3, <2>1 DEF Rooted, n
  <2>2. CASE n = 0
    <3>1. s = <<>>
      BY <1>1, <2>2 DEF n
    <3>2. QED
      BY <1>3, <2>2, <3>1 DEF Rooted
  <2>3. QED
    BY <1>3, <2>1, <2>2
<1> QED
  BY <1>1, <1>3, <1>4, <1>5, <1>6, <1>7, <1>8 DEF Sound, r

\* call_ec, with an anchor at an address where no other one lives
LEMMA AnchorOnTop ==
  ASSUME Sound(stack, ecs), NEW u \in Uids, E!NewEc(u)
  PROVE  LET f == E!EcFrame(Len(ecs) + 1) IN
         /\ Sound(Append(stack, f), ecs')
         /\ Append(stack, f) # <<>> /\ Append(stack, f)[Len(Append(stack, f))].kind = "call_ec"
         /\ \A i \in 1..Len(ecs) : i \in 1..Len(ecs') /\ ecs'[i] = ecs[i]
<1> DEFINE f == E!EcFrame(Len(ecs) + 1)
           r == Append(stack, f)
           n == Len(stack)
           e == [uid |-> u, valid |-> TRUE]
<1>1. /\ stack \in Seq(FrameType) /\ ecs \in Seq(EcType) /\ \A i \in 1..n : FrameSound(stack[i], ecs)
      /\ Distinct(stack, ecs) /\ Reachable(stack, ecs) /\ Apart(stack) /\ Rooted(stack)
  BY DEF Sound
<1>2. /\ \A i \in 1..n : stack[i].kind = "call_ec" => ecs[stack[i].ec].uid # u
      /\ ecs' = Append(ecs, e)
  BY DEF E!NewEc
<1>3. /\ ecs' \in Seq(EcType) /\ Len(ecs') = Len(ecs) + 1 /\ ecs'[Len(ecs) + 1] = e /\ Len(ecs) \in Nat
      /\ \A i \in 1..Len(ecs) : i \in 1..Len(ecs') /\ ecs'[i] = ecs[i]
      /\ \A i \in 1..Len(ecs') : i \in 1..Len(ecs) \/ i = Len(ecs) + 1
  <2>1. e \in EcType
    BY DEF EcType
  <2> HIDE DEF e
  <2>2. QED
    BY <1>1, <1>2, <2>1
<1>4. f = [kind |-> "call_ec", ec |-> Len(ecs) + 1, tags |-> {u}, untagged |-> FALSE, inner |-> FALSE]
  BY <1>3 DEF E!EcFrame
<1> HIDE DEF f
<1>5. f \in FrameType /\ f.kind = "call_ec" /\ f.ec = Len(ecs) + 1 /\ f.tags = {u} /\ ~f.inner /\ ~f.untagged
  <2>1. Len(ecs) + 1 \in Nat \ {0} /\ {u} \in SUBSET Uids
    BY <1>3
  <2>2. f \in [kind : {"call_ec"}, ec : Nat \ {0}, tags : SUBSET Uids, untagged : BOOLEAN, inner : BOOLEAN]
    BY <1>4, <2>1
  <2>3. QED
    BY <1>4, <2>2 DEF FrameType
<1>6. /\ r \in Seq(FrameType) /\ Len(r) = n + 1 /\ n \in Nat /\ r[n + 1] = f /\ r # <<>>
      /\ \A i \in 1..n : r[i] = stack[i] /\ i \in 1..Len(r)
      /\ \A i \in 1..Len(r) : i \in 1..n \/ i = n + 1
      /\ n + 1 \in 1..Len(r)
  <2>1. stack \in Seq(FrameType) /\ f \in FrameType
    BY <1>1, <1>5
  <2>2. QED
    BY <2>1
<1> HIDE DEF r, n
<1>7. \A i \in 1..n : stack[i].kind = "call_ec" =>
        stack[i].ec \in 1..Len(ecs) /\ ecs'[stack[i].ec] = ecs[stack[i].ec] /\ stack[i].ec \in 1..Len(ecs')
  BY <1>1, <1>3 DEF FrameSound, n
<1>8. \A i \in 1..Len(r) : FrameSound(r[i], ecs')
  <2>1. FrameSound(f, ecs')
    <3>1. Len(ecs) + 1 \in 1..Len(ecs')
      BY <1>3
    <3>2. QED
      BY <1>3, <1>5, <3>1 DEF FrameSound
  <2>2. \A i \in 1..n : FrameSound(stack[i], ecs')
    BY <1>1, <1>7 DEF FrameSound, n
  <2>3. QED
    BY <1>6, <2>1, <2>2
<1>9. Distinct(r, ecs')
  <2>1. ASSUME NEW i \in 1..Len(r), NEW j \in 1..Len(r), r[i].kind = "call_ec", r[j].kind = "call_ec",
               ecs'[r[i].ec].uid = ecs'[r[j].ec].uid
        PROVE  i = j
    <3>1. CASE i \in 1..n /\ j \in 1..n
      BY <1>1, <1>6, <1>7, <2>1, <3>1 DEF Distinct, n
    <3>2. ecs'[f.ec].uid = u
      BY <1>3, <1>5
    <3>3. ASSUME NEW k \in 1..n, r[k].kind = "call_ec" PROVE ecs'[r[k].ec].uid # u
      BY <1>2, <1>6, <1>7, <3>3 DEF n
    <3>4. QED
      BY <1>6, <2>1, <3>1, <3>2, <3>3
  <2>2. QED
    BY <2>1 DEF Distinct
<1>10. Reachable(r, ecs')
  <2>1. ASSUME NEW m \in 1..Len(ecs'), ecs'[m].valid
        PROVE  \E k \in 1..Len(r) : r[k].kind = "call_ec" /\ r[k].ec = m
    <3>1. CASE m \in 1..Len(ecs)
      <4>1. PICK k \in 1..n : stack[k].kind = "call_ec" /\ stack[k].ec = m
        BY <1>1, <1>3, <2>1, <3>1 DEF Reachable, n
      <4>2. QED
        BY <1>6, <4>1
    <3>2. CASE m = Len(ecs) + 1
      BY <1>5, <1>6, <3>2
    <3>3. QED
      BY <1>3, <3>1, <3>2
  <2>2. QED
    BY <2>1 DEF Reachable
<1>11. Apart(r)
  <2>1. ASSUME NEW k \in 1..Len(r), NEW j \in 1..Len(r), k < j, r[k].kind = "trampoline", r[j].kind = "trampoline"
        PROVE  \E i \in k + 1..j : ~r[i].inner
    <3>1. k \in 1..n /\ j \in 1..n /\ r[k] = stack[k] /\ r[j] = stack[j]
      BY <1>5, <1>6, <2>1
    <3>2. PICK i \in k + 1..j : ~stack[i].inner
      BY <1>1, <2>1, <3>1 DEF Apart, n
    <3>3. i \in 1..n
      BY <1>6, <3>1
    <3>4. QED
      BY <1>6, <3>2, <3>3
  <2>2. QED
    BY <2>1 DEF Apart
<1>12. r[Len(r)].kind = "call_ec"
  BY <1>5, <1>6
<1>13. Rooted(r)
  <2>1. CASE 1 \in 1..n
    BY <1>1, <1>6, <2>1 DEF Rooted, n
  <2>2. CASE 1 \notin 1..n
    BY <1>5, <1>6, <2>2 DEF Rooted
  <2>3. QED
    BY <2>1, <2>2
<1> QED
  BY <1>3, <1>6, <1>8, <1>9, <1>10, <1>11, <1>12, <1>13 DEF Sound, r, f

\* An escape continuation is refused from now on.
Refuse(e, k) == [e EXCEPT ![k].valid = FALSE]
LEMMA Refused ==
  ASSUME NEW e \in Seq(EcType), NEW k \in 1..Len(e), NEW f, f = Refuse(e, k)
  PROVE  /\ f \in Seq(EcType) /\ Len(f) = Len(e) /\ Len(e) \in Nat
         /\ \A i \in 1..Len(e) : f[i].uid = e[i].uid
         /\ \A i \in 1..Len(e) : k # i => f[i] = e[i]
         /\ ~f[k].valid
<1>1. f = [i \in DOMAIN e |-> IF i = k THEN [e[i] EXCEPT !.valid = FALSE] ELSE e[i]]
  BY DEF Refuse
<1>2. DOMAIN e = 1..Len(e) /\ Len(e) \in Nat /\ \A i \in 1..Len(e) : e[i] \in EcType
  OBVIOUS
<1>3. f = [i \in 1..Len(e) |-> IF i = k THEN [e[i] EXCEPT !.valid = FALSE] ELSE e[i]]
  BY <1>1, <1>2
<1>4. \A i \in 1..Len(e) : f[i] = IF i = k THEN [e[i] EXCEPT !.valid = FALSE] ELSE e[i]
  BY <1>3
<1>5. \A i \in 1..Len(e) : f[i] \in EcType /\ f[i].uid = e[i].uid
  BY <1>2, <1>4 DEF EcType
<1>6. ~f[k].valid
  BY <1>2, <1>4 DEF EcType
<1>7. f \in Seq(EcType) /\ Len(f) = Len(e)
  <2>1. f \in [1..Len(e) -> EcType]
    BY <1>3, <1>5
  <2>2. QED
    BY <1>2, <2>1
<1> QED
  BY <1>2, <1>4, <1>5, <1>6, <1>7

\* The topmost frame is left; if it is that of a call_ec, its escape continuation is refused
\* from then on.
LEMMA Dropped ==
  ASSUME Sound(stack, ecs), stack # <<>>
  PROVE  /\ Sound(E!Below, E!Invalidated) /\ Len(E!Invalidated) = Len(ecs)
         /\ E!Top \in FrameType /\ FrameSound(E!Top, ecs) /\ (E!Top.inner => E!Below # <<>>)
         /\ \A i \in 1..Len(ecs) :
              /\ E!Invalidated[i].uid = ecs[i].uid
              /\ ~(E!Top.kind = "call_ec" /\ E!Top.ec = i) => E!Invalidated[i] = ecs[i]
<1> DEFINE n == Len(stack)
           t == stack[n]
           s == SubSeq(stack, 1, n - 1)
           es == IF t.kind = "call_ec" THEN [ecs EXCEPT ![t.ec].valid = FALSE] ELSE ecs
<1>1. /\ stack \in Seq(FrameType) /\ ecs \in Seq(EcType) /\ \A i \in 1..n : FrameSound(stack[i], ecs)
      /\ Distinct(stack, ecs) /\ Reachable(stack, ecs) /\ Apart(stack) /\ Rooted(stack)
  BY DEF Sound
<1>2. /\ E!Top = t /\ E!Below = s /\ E!Invalidated = es
  BY DEF E!Top, E!Below, E!Invalidated
<1>3. /\ s \in Seq(FrameType) /\ Len(s) = n - 1 /\ n \in Nat \ {0} /\ Len(s) \in Nat
      /\ \A i \in 1..Len(s) : i \in 1..n /\ s[i] = stack[i]
      /\ n \in 1..n /\ t \in FrameType
  BY <1>1, Shortened
<1>4. FrameSound(t, ecs)
  BY <1>1, <1>3
<1>5. t.kind = "call_ec" => t.ec \in 1..Len(ecs)
  BY <1>4 DEF FrameSound
<1> HIDE DEF s, n, t
<1>6. /\ es \in Seq(EcType) /\ Len(es) = Len(ecs) /\ Len(ecs) \in Nat
      /\ \A i \in 1..Len(ecs) : es[i].uid = ecs[i].uid
      /\ \A i \in 1..Len(ecs) : ~(t.kind = "call_ec" /\ t.ec = i) => es[i] = ecs[i]
      /\ t.kind = "call_ec" => ~es[t.ec].valid
  <2>1. CASE t.kind = "call_ec"
    <3>1. t.ec \in 1..Len(ecs) /\ es = Refuse(ecs, t.ec)
      BY <1>5, <2>1 DEF Refuse
    <3> HIDE DEF es
    <3>2. QED
      BY <1>1, <2>1, <3>1, Refused
  <2>2. CASE t.kind # "call_ec"
    BY <1>1, <2>2
  <2>3. QED
    BY <2>1, <2>2
<1> HIDE DEF es
<1>7. ASSUME NEW i \in 1..Len(s), s[i].kind = "call_ec", t.kind = "call_ec"
      PROVE  s[i].ec # t.ec
  <2>1. i \in 1..n /\ s[i] = stack[i] /\ t = stack[n] /\ n \in 1..n /\ i # n
    BY <1>3 DEF t
  <2>2. QED
    BY <1>1, <1>7, <2>1 DEF Distinct, n
<1>8. \A i \in 1..Len(s) : s[i].kind = "call_ec" => s[i].ec \in 1..Len(ecs) /\ es[s[i].ec] = ecs[s[i].ec]
  <2>1. ASSUME NEW i \in 1..Len(s), s[i].kind = "call_ec"
        PROVE  s[i].ec \in 1..Len(ecs) /\ es[s[i].ec] = ecs[s[i].ec]
    <3>1. FrameSound(s[i], ecs)
      BY <1>1, <1>3 DEF n
    <3>2. s[i].ec \in 1..Len(ecs)
      BY <2>1, <3>1 DEF FrameSound
    <3>3. QED
      BY <1>6, <1>7, <2>1, <3>2
  <2>2. QED
    BY <2>1
<1>9. \A i \in 1..Len(s) : FrameSound(s[i], es)
  <2>1. ASSUME NEW i \in 1..Len(s) PROVE FrameSound(s[i], es)
    <3>1. FrameSound(s[i], ecs)
      BY <1>1, <1>3 DEF n
    <3>2. QED
      BY <1>6, <1>8, <3>1 DEF FrameSound
  <2>2. QED
    BY <2>1
<1>10. Distinct(s, es)
  <2>1. ASSUME NEW i \in 1..Len(s), NEW j \in 1..Len(s), s[i].kind = "call_ec", s[j].kind = "call_ec",
               es[s[i].ec].uid = es[s[j].ec].uid
        PROVE  i = j
    <3>1. i \in 1..n /\ j \in 1..n /\ s[i] = stack[i] /\ s[j] = stack[j]
      BY <1>3
    <3>2. ecs[s[i].ec].uid = ecs[s[j].ec].uid
      BY <1>8, <2>1
    <3>3. QED
      BY <1>1, <2>1, <3>1, <3>2 DEF Distinct, n
  <2>2. QED
    BY <2>1 DEF Distinct
<1>11. Reachable(s, es)
  <2>1. ASSUME NEW m \in 1..Len(es), es[m].valid
        PROVE  \E k \in 1..Len(s) : s[k].kind = "call_ec" /\ s[k].ec = m
    <3>1. ~(t.kind = "call_ec" /\ t.ec = m) /\ m \in 1..Len(ecs) /\ ecs[m].valid
      BY <1>6, <2>1
    <3>2. PICK k \in 1..n : stack[k].kind = "call_ec" /\ stack[k].ec = m
      BY <1>1, <3>1 DEF Reachable, n
    <3>3. k # n
      BY <3>1, <3>2 DEF t
    <3>4. k \in 1..Len(s)
      BY <1>3, <3>3
    <3>5. QED
      BY <1>3, <3>2, <3>4
  <2>2. QED
    BY <2>1 DEF Reachable
<1>12. Apart(s)
  <2>1. ASSUME NEW k \in 1..Len(s), NEW j \in 1..Len(s), k < j, s[k].kind = "trampoline", s[j].kind = "trampoline"
        PROVE  \E i \in k + 1..j : ~s[i].inner
    <3>1. PICK i \in k + 1..j : ~stack[i].inner
      BY <1>1, <1>3, <2>1 DEF Apart, n
    <3>2. i \in 1..Len(s)
      BY <1>3, <2>1
    <3>3. QED
      BY <1>3, <3>1, <3>2
  <2>2. QED
    BY <2>1 DEF Apart
<1>13. Rooted(s) /\ (t.inner => s # <<>>)
  <2>1. Rooted(s)
    BY <1>1, <1>3 DEF Rooted, n
  <2>2. ASSUME s = <<>> PROVE ~t.inner
    <3>1. n = 1
      BY <1>3, <2>2
    <3>2. QED
      BY <1>1, <1>3, <3>1 DEF Rooted, n, t
  <2>3. QED
    BY <2>1, <2>2
<1> QED
  BY <1>2, <1>3, <1>4, <1>6, <1>9, <1>10, <1>11, <1>12, <1>13 DEF Sound

\* One element less is left for a loop.
Count(s, k) == [s EXCEPT ![k].left = IF @ = 0 THEN 0 ELSE @ - 1]
LEMMA Counted ==
  ASSUME NEW s, NEW es, Sound(s, es), NEW k \in 1..Len(s), s[k].kind = "trampoline"
  PROVE  Sound(Count(s, k), es)
<1> DEFINE r == Count(s, k)
<1>1. /\ s \in Seq(FrameType) /\ es \in Seq(EcType) /\ \A i \in 1..Len(s) : FrameSound(s[i], es)
      /\ Distinct(s, es) /\ Reachable(s, es) /\ Apart(s) /\ Rooted(s)
  BY DEF Sound
<1>2. r = [i \in DOMAIN s |-> IF i = k THEN [s[i] EXCEPT !.left = IF @ = 0 THEN 0 ELSE @ - 1] ELSE s[i]]
  BY <1>1 DEF Count
<1> HIDE DEF r
<1>3. DOMAIN s = 1..Len(s) /\ Len(s) \in Nat /\ \A i \in 1..Len(s) : s[i] \in FrameType
  BY <1>1
<1>4. r = [i \in 1..Len(s) |-> IF i = k THEN [s[i] EXCEPT !.left = IF @ = 0 THEN 0 ELSE @ - 1] ELSE s[i]]
  BY <1>2, <1>3
<1>5. /\ \A i \in 1..Len(s) : i # k => r[i] = s[i]
      /\ r[k] = [s[k] EXCEPT !.left = IF @ = 0 THEN 0 ELSE @ - 1]
  BY <1>4
<1>6. s[k] \in [kind : {"trampoline"}, left : Nat, inner : BOOLEAN]
  BY <1>3 DEF FrameType
<1>7. r[k] \in FrameType /\ r[k].kind = s[k].kind /\ r[k].inner = s[k].inner
  BY <1>5, <1>6 DEF FrameType
<1>8. /\ r \in Seq(FrameType) /\ Len(r) = Len(s)
      /\ \A i \in 1..Len(s) : r[i].kind = s[i].kind /\ r[i].inner = s[i].inner
      /\ \A i \in 1..Len(s) : r[i].kind # "trampoline" => r[i] = s[i]
  <2>1. \A i \in 1..Len(s) : r[i] \in FrameType /\ r[i].kind = s[i].kind /\ r[i].inner = s[i].inner
    BY <1>3, <1>5, <1>7
  <2>2. r \in [1..Len(s) -> FrameType]
    BY <1>4, <2>1
  <2>3. r \in Seq(FrameType) /\ Len(r) = Len(s)
    BY <1>3, <2>2
  <2>4. QED
    BY <1>5, <1>7, <2>1, <2>3
<1>9. \A i \in 1..Len(r) : FrameSound(r[i], es)
  BY <1>1, <1>8 DEF FrameSound
<1>10. Distinct(r, es)
  BY <1>1, <1>8 DEF Distinct
<1>11. Reachable(r, es)
  <2>1. ASSUME NEW m \in 1..Len(es), es[m].valid
        PROVE  \E n \in 1..Len(r) : r[n].kind = "call_ec" /\ r[n].ec = m
    <3>1. PICK n \in 1..Len(s) : s[n].kind = "call_ec" /\ s[n].ec = m
      BY <1>1, <2>1 DEF Reachable
    <3>2. n \in 1..Len(r) /\ r[n] = s[n]
      BY <1>8, <3>1
    <3>3. QED
      BY <3>1, <3>2
  <2>2. QED
    BY <2>1 DEF Reachable
<1>12. Apart(r)
  <2>1. ASSUME NEW i \in 1..Len(r), NEW j \in 1..Len(r), i < j, r[i].kind = "trampoline", r[j].kind = "trampoline"
        PROVE  \E n \in i + 1..j : ~r[n].inner
    <3>1. PICK n \in i + 1..j : ~s[n].inner
      BY <1>1, <1>8, <2>1 DEF Apart
    <3>2. n \in 1..Len(s)
      BY <1>3, <1>8, <2>1
    <3>3. QED
      BY <1>8, <3>1, <3>2
  <2>2. QED
    BY <2>1 DEF Apart
<1>13. Rooted(r)
  BY <1>1, <1>8 DEF Rooted
<1> QED
  BY <1>1, <1>8, <1>9, <1>10, <1>11, <1>12, <1>13 DEF Sound, r

LEMMA EscapesConstants ==
  /\ None \notin Tags \cup Uids /\ Tags \cap Uids = {} /\ None \notin SUBSET (Tags \cup Uids)
  /\ Catchers \subseteq [tags : {None} \cup SUBSET (Tags \cup Uids), untagged : BOOLEAN]
  /\ Throws \subseteq [tag : Tags \cup {None} \cup Uids, catchall : BOOLEAN]
  /\ \A f \in Functions : f \in Seq(Catchers \cup {Trampolined})
  /\ \A f \in Functions : \A i, j \in 1..Len(f) : f[i] = Trampolined /\ f[j] = Trampolined => i = j
  /\ Lengths \subseteq Nat
<1>1. None \notin SUBSET (Tags \cup Uids)
  BY EscapesAssumption DEF E!EscapesAssumption
<1> QED
  BY <1>1, EscapesAssumption DEF E!EscapesAssumption, E!Catcher, E!Thrown

\* The frames of a call
LEMMA FramesFit ==
  ASSUME NEW f \in Seq(Catchers \cup {Trampolined}), NEW b \in BOOLEAN
  PROVE  LET fs == E!FramesOf(f, b) IN
         /\ fs \in Seq(FrameType) /\ Len(fs) = Len(f)
         /\ \A i \in 1..Len(f) : /\ fs[i].kind # "call_ec" /\ \A es : FrameSound(fs[i], es)
                                 /\ fs[i].kind = "trampoline" => f[i] = Trampolined
         /\ 1 \in 1..Len(f) => fs[1].inner = b
<1> DEFINE fs == E!FramesOf(f, b)
<1>1. Len(f) \in Nat /\ \A i \in 1..Len(f) : f[i] \in Catchers \cup {Trampolined}
  OBVIOUS
<1>2. fs = [i \in 1..Len(f) |-> IF f[i] = Trampolined
              THEN [kind |-> "trampoline", left |-> 0, inner |-> b \/ i > 1]
              ELSE [kind |-> "catch", tags |-> f[i].tags, untagged |-> f[i].untagged, inner |-> b \/ i > 1]]
  BY DEF E!FramesOf, E!TrampolineFrame, E!CatchFrame
<1> HIDE DEF fs
<1>3. ASSUME NEW i \in 1..Len(f)
      PROVE  /\ fs[i] \in FrameType /\ fs[i].kind # "call_ec" /\ \A es : FrameSound(fs[i], es)
             /\ fs[i].kind = "trampoline" => f[i] = Trampolined
             /\ fs[i].inner = (b \/ i > 1)
  <2> DEFINE c == b \/ i > 1
  <2>1. c \in BOOLEAN /\ c = (b \/ i > 1)
    OBVIOUS
  <2> HIDE DEF c
  <2>2. CASE f[i] = Trampolined
    <3>1. fs[i] = [kind |-> "trampoline", left |-> 0, inner |-> c]
      BY <1>2, <2>2 DEF c
    <3>2. fs[i] \in FrameType /\ fs[i].kind = "trampoline" /\ fs[i].inner = c
      BY <2>1, <3>1 DEF FrameType
    <3>3. QED
      BY <2>1, <2>2, <3>2 DEF FrameSound
  <2>3. CASE f[i] # Trampolined
    <3>1. fs[i] = [kind |-> "catch", tags |-> f[i].tags, untagged |-> f[i].untagged, inner |-> c]
      BY <1>2, <2>3 DEF c
    <3>2. f[i] \in Catchers /\ f[i] \in [tags : {None} \cup SUBSET (Tags \cup Uids), untagged : BOOLEAN]
      BY <1>1, <2>3, EscapesConstants
    <3>3. f[i] = [tags |-> f[i].tags, untagged |-> f[i].untagged]
      BY <3>2
    <3>4. fs[i] \in FrameType /\ fs[i].kind = "catch" /\ fs[i].inner = c
          /\ fs[i].tags = f[i].tags /\ fs[i].untagged = f[i].untagged
      BY <2>1, <3>1, <3>2 DEF FrameType
    <3>5. QED
      BY <2>1, <3>2, <3>3, <3>4 DEF FrameSound
  <2>4. QED
    BY <2>2, <2>3
<1>4. fs \in Seq(FrameType) /\ Len(fs) = Len(f)
  <2>1. fs \in [1..Len(f) -> FrameType]
    BY <1>2, <1>3
  <2>2. QED
    BY <1>1, <2>1
<1>5. 1 \in 1..Len(f) => fs[1].inner = b
  <2>1. (b \/ 1 > 1) = b
    OBVIOUS
  <2>2. QED
    BY <1>3, <2>1
<1> QED
  BY <1>3, <1>4, <1>5 DEF fs

\* A jump leaves out the trampoline of its target, and what is around it.
LEMMA TargetFits ==
  ASSUME NEW f \in Functions \cup {Inert, <<>>}, E!Target(f) # Inert
  PROVE  /\ E!Target(f) \in Seq(Catchers \cup {Trampolined})
         /\ \A i \in 1..Len(E!Target(f)) : E!Target(f)[i] # Trampolined
<1> DEFINE S == Catchers \cup {Trampolined}
<1>1. f \in Seq(S)
  <2>1. <<>> \in Seq(S)
    OBVIOUS
  <2>2. f # Inert
    BY DEF E!Target
  <2>3. QED
    BY <2>1, <2>2, EscapesConstants
<1>2. CASE Trampolined \notin E!Decorators(f)
  BY <1>1, <1>2 DEF E!Target, E!Decorators
<1>3. CASE Trampolined \in E!Decorators(f)
  <2> DEFINE i == CHOOSE i \in 1..Len(f) : f[i] = Trampolined
             g == SubSeq(f, i + 1, Len(f))
  <2>1. E!Target(f) = g /\ f \in Functions
    <3>1. f # Inert
      BY DEF E!Target
    <3>2. f # <<>>
      BY <1>3 DEF E!Decorators
    <3>3. QED
      BY <1>3, <3>1, <3>2 DEF E!Target
  <2>2. i \in 1..Len(f) /\ f[i] = Trampolined
    BY <1>3 DEF E!Decorators
  <2> HIDE DEF i, S
  <2>3. /\ g \in Seq(S) /\ Len(g) = Len(f) - i
        /\ \A j \in 1..Len(g) : g[j] = f[i + j] /\ i + j \in 1..Len(f) /\ i + j # i
    <3>1. /\ f \in Seq(S) /\ Len(f) \in Nat /\ i \in 1..Len(f) /\ i + 1 \in 1..Len(f) + 1
          /\ \A j \in i + 1..Len(f) : f[j] \in S
      BY <1>1, <2>2
    <3>2. /\ g \in Seq(S)
          /\ Len(g) = IF i + 1 <= Len(f) THEN Len(f) - (i + 1) + 1 ELSE 0
          /\ \A j \in 1..Len(f) - (i + 1) + 1 : g[j] = f[i + 1 + j - 1]
      BY <3>1, SubSeqProperties
    <3>3. Len(g) = Len(f) - i /\ Len(f) - (i + 1) + 1 = Len(f) - i
      BY <3>1, <3>2
    <3>4. \A j \in 1..Len(f) - i : i + 1 + j - 1 = i + j /\ i + j \in 1..Len(f) /\ i + j # i
      BY <3>1
    <3>5. QED
      BY <3>2, <3>3, <3>4
  <2>4. \A j \in 1..Len(g) : g[j] # Trampolined
    BY <2>1, <2>2, <2>3, EscapesConstants
  <2>5. QED
    BY <2>1, <2>3, <2>4 DEF S
<1> QED
  BY <1>2, <1>3

LEMMA ModeKinds ==
  /\ E!Value \in E!AnyValue
  /\ \A v \in E!AnyValue : /\ E!Running(v) \in [kind : {"running"}, got : E!AnyValue]
                           /\ E!Returning(v) \in [kind : {"returning"}, value : E!AnyValue]
  /\ E!Failing \in [kind : {"failing"}]
  BY DEF E!AnyValue, E!Running, E!Returning, E!Failing

LEMMA EInit == E!Init => EInv
<1> SUFFICES ASSUME E!Init PROVE EInv
  OBVIOUS
<1>1. stack = <<>> /\ ecs = <<>> /\ mode = E!Running(E!Value) /\ Len(stack) = 0 /\ Len(ecs) = 0
  BY DEF E!Init
<1>2. \A S : <<>> \in Seq(S)
  OBVIOUS
<1>3. Sound(stack, ecs)
  BY <1>1, <1>2 DEF Sound, Distinct, Reachable, Apart, Rooted
<1>4. Modes /\ OnItsWay
  BY <1>1, ModeKinds DEF Modes, OnItsWay
<1> QED
  BY <1>3, <1>4 DEF EInv

\* Anything but an escape goes on at the top.
LEMMA NoEscape ==
  ASSUME Sound(stack', ecs'),
         \/ \E v \in E!AnyValue : mode' = E!Running(v)
         \/ stack' # <<>> /\ \E v \in E!AnyValue : mode' = E!Returning(v)
         \/ mode' = E!Failing
  PROVE  EInv'
<1>1. Modes' /\ OnItsWay'
  BY ModeKinds DEF Modes, OnItsWay
<1> QED
  BY <1>1 DEF EInv

\* User code makes something happen above it.
LEMMA ECalls ==
  ASSUME EInv,
         \/ \E f \in Functions : E!Call(f)
         \/ \E u \in Uids : E!CallEc(u)
         \/ \E n \in Lengths : E!Loop(n) \/ \E u \in Uids : E!BreakableLoop(u, n)
         \/ \E k \in 1..Len(stack) : E!CallLoop(k)
  PROVE  EInv'
<1>1. Sound(stack, ecs)
  BY DEF EInv
<1>2. CASE \E f \in Functions : E!Call(f)
  <2>1. PICK f \in Functions :
          stack' = stack \o E!FramesOf(f, FALSE) /\ mode' = E!Running(E!Value) /\ ecs' = ecs
    BY <1>2 DEF E!Call
  <2> DEFINE fs == E!FramesOf(f, FALSE)
  <2>2. f \in Seq(Catchers \cup {Trampolined})
    BY EscapesConstants
  <2>3. /\ fs \in Seq(FrameType) /\ Len(fs) = Len(f) /\ Len(f) \in Nat
        /\ \A i \in 1..Len(f) : /\ fs[i].kind # "call_ec" /\ FrameSound(fs[i], ecs)
                                /\ fs[i].kind = "trampoline" => f[i] = Trampolined
        /\ 1 \in 1..Len(f) => ~fs[1].inner
    <3>1. Len(f) \in Nat /\ FALSE \in BOOLEAN
      BY <2>2
    <3>2. /\ fs \in Seq(FrameType) /\ Len(fs) = Len(f)
          /\ \A i \in 1..Len(f) : /\ fs[i].kind # "call_ec" /\ \A es : FrameSound(fs[i], es)
                                  /\ fs[i].kind = "trampoline" => f[i] = Trampolined
          /\ 1 \in 1..Len(f) => fs[1].inner = FALSE
      BY <2>2, <3>1, FramesFit
    <3>3. QED
      BY <3>1, <3>2
  <2> HIDE DEF fs
  <2>4. /\ Rooted(fs) /\ \A i \in 1..Len(fs) : fs[i].kind = "trampoline" => ~fs[1].inner
        /\ \A i, j \in 1..Len(fs) : fs[i].kind = "trampoline" /\ fs[j].kind = "trampoline" => i = j
    BY <2>3, EscapesConstants DEF Rooted
  <2>5. Sound(stack \o fs, ecs)
    BY <1>1, <2>3, <2>4, Pushed
  <2>6. QED
    BY <2>1, <2>5, NoEscape, ModeKinds DEF fs
<1>3. CASE \E u \in Uids : E!CallEc(u)
  <2>1. PICK u \in Uids : /\ E!NewEc(u) /\ stack' = Append(stack, E!EcFrame(Len(ecs) + 1))
                          /\ mode' = E!Running(E!Value)
    BY <1>3 DEF E!CallEc
  <2>2. Sound(stack', ecs')
    BY <1>1, <2>1, AnchorOnTop
  <2>3. QED
    BY <2>1, <2>2, NoEscape, ModeKinds
<1>4. CASE \E n \in Lengths : E!Loop(n)
  <2>1. PICK n \in Lengths :
          /\ stack' = IF n = 0 THEN stack ELSE Append(stack, E!TrampolineFrame(n - 1, FALSE))
          /\ mode' = E!Running(E!Value) /\ ecs' = ecs
    BY <1>4 DEF E!Loop
  <2>2. n \in Nat
    BY EscapesConstants
  <2>3. Sound(stack', ecs')
    <3>1. CASE n = 0
      BY <1>1, <2>1, <3>1
    <3>2. CASE n # 0
      <4> DEFINE t == E!TrampolineFrame(n - 1, FALSE)
      <4>1. t \in [kind : {"trampoline"}, left : Nat, inner : BOOLEAN] /\ ~t.inner
        BY <2>2, <3>2 DEF E!TrampolineFrame
      <4> HIDE DEF t
      <4>2. Sound(Append(stack, t), ecs)
        BY <1>1, <4>1, TrampolineOnTop
      <4>3. QED
        BY <2>1, <3>2, <4>2 DEF t
    <3>3. QED
      BY <3>1, <3>2
  <2>4. QED
    BY <2>1, <2>3, NoEscape, ModeKinds
<1>5. CASE \E n \in Lengths : \E u \in Uids : E!BreakableLoop(u, n)
  <2>1. PICK n \in Lengths, u \in Uids : E!BreakableLoop(u, n)
    BY <1>5
  <2> DEFINE s == Append(stack, E!EcFrame(Len(ecs) + 1))
             t == E!TrampolineFrame(n - 1, TRUE)
  <2>2. /\ E!NewEc(u)
        /\ \/ n = 0 /\ stack' = s /\ mode' = E!Returning(E!Value)
           \/ n # 0 /\ stack' = Append(s, t) /\ mode' = E!Running(E!Value)
    BY <2>1 DEF E!BreakableLoop
  <2>3. Sound(s, ecs') /\ s # <<>> /\ s[Len(s)].kind = "call_ec"
    BY <1>1, <2>2, AnchorOnTop
  <2>4. n \in Nat
    BY EscapesConstants
  <2> HIDE DEF s
  <2>5. n # 0 => Sound(Append(s, t), ecs')
    <3>1. n # 0 => t \in [kind : {"trampoline"}, left : Nat, inner : BOOLEAN]
      BY <2>4 DEF E!TrampolineFrame
    <3> HIDE DEF t
    <3>2. QED
      BY <2>3, <3>1, TrampolineOnTop
  <2> HIDE DEF t
  <2>6. QED
    BY <2>2, <2>3, <2>5, NoEscape, ModeKinds
<1>6. CASE \E k \in 1..Len(stack) : E!CallLoop(k)
  <2>1. PICK k \in 1..Len(stack) :
          /\ stack[k].kind = "trampoline" /\ stack' = Count(stack, k) /\ ecs' = ecs
          /\ mode' = E!Running(IF stack[k].left = 0 THEN E!Value ELSE E!Jump(<<>>))
    BY <1>6 DEF E!CallLoop, Count
  <2>2. Sound(stack', ecs')
    BY <1>1, <2>1, Counted
  <2>3. E!Jump(<<>>) \in E!AnyValue
    BY DEF E!AnyValue
  <2>4. QED
    BY <2>1, <2>2, <2>3, NoEscape, ModeKinds
<1> QED
  BY <1>2, <1>3, <1>4, <1>5, <1>6

\* User code returns, throws, escapes or fails.
LEMMA EEnds ==
  ASSUME EInv,
         \/ E!Fail
         \/ \E v \in {E!Value} \cup {E!Jump(f) : f \in Functions \cup {Inert}} : E!Return(v)
         \/ E!Runs /\ E!Return(mode.got)
         \/ \E t \in Throws : E!Throw(t)
         \/ \E n \in 1..Len(ecs) : E!Invoke(n)
  PROVE  EInv'
<1>1. Sound(stack, ecs) /\ UNCHANGED <<stack, ecs>> /\ mode.kind = "running" /\ Sound(stack', ecs')
  BY DEF EInv, E!Fail, E!Return, E!Throw, E!Invoke, E!Runs
<1>2. mode.got \in E!AnyValue
  BY <1>1 DEF EInv, Modes
<1>3. CASE E!Fail \/ \E v \in E!AnyValue : E!Return(v)
  BY <1>1, <1>3, NoEscape DEF E!Fail, E!Return
<1>4. \A v \in {E!Value} \cup {E!Jump(f) : f \in Functions \cup {Inert}} : v \in E!AnyValue
  BY DEF E!AnyValue
<1>5. CASE \E t \in Throws : E!Throw(t)
  <2>1. PICK t \in Throws : mode' = [kind |-> "escaping", tag |-> t.tag, catchall |-> t.catchall, ec |-> 0]
    BY <1>5 DEF E!Throw, E!Escaping
  <2>2. t.tag \in Tags \cup {None} \cup Uids /\ t.catchall \in BOOLEAN
    BY EscapesConstants
  <2>3. Modes' /\ OnItsWay'
    BY <2>1, <2>2 DEF Modes, OnItsWay
  <2>4. QED
    BY <1>1, <2>3 DEF EInv
<1>6. CASE \E n \in 1..Len(ecs) : E!Invoke(n)
  <2>1. PICK n \in 1..Len(ecs) : mode' = IF ecs[n].valid THEN E!Escaping(ecs[n].uid, FALSE, n) ELSE E!Failing
    BY <1>6 DEF E!Invoke
  <2>2. CASE ~ecs[n].valid
    BY <1>1, <2>1, <2>2, NoEscape
  <2>3. CASE ecs[n].valid
    <3>1. mode' = [kind |-> "escaping", tag |-> ecs[n].uid, catchall |-> FALSE, ec |-> n]
      BY <2>1, <2>3 DEF E!Escaping
    <3>2. ecs[n] \in EcType /\ n \in Nat
      BY <1>1 DEF Sound
    <3>3. ecs[n].uid \in Tags \cup {None} \cup Uids
      BY <3>2 DEF EcType
    <3>4. Modes'
      BY <3>1, <3>2, <3>3 DEF Modes
    <3>5. OnItsWay'
      BY <1>1, <2>3, <3>1 DEF OnItsWay
    <3>6. QED
      BY <1>1, <3>4, <3>5 DEF EInv
  <2>4. QED
    BY <2>2, <2>3
<1> QED
  BY <1>2, <1>3, <1>4, <1>5, <1>6

\* What the frames do with what reaches them
LEMMA EFrames ==
  ASSUME EInv, E!Leave \/ E!Trampoline \/ E!Propagate \/ E!Uncaught
  PROVE  EInv'
<1>1. Sound(stack, ecs)
  BY DEF EInv
<1>2. ASSUME mode.kind = "returning" PROVE mode.value \in E!AnyValue /\ stack # <<>>
  BY <1>2 DEF EInv, Modes
<1>3. ASSUME NEW v \in E!AnyValue, E!Pop(v), stack # <<>>, ecs' = E!Invalidated
      PROVE  EInv'
  <2>1. Sound(stack', ecs')
    BY <1>1, <1>3, Dropped DEF E!Pop
  <2>2. mode' = E!Running(v) \/ (mode' = E!Returning(v) /\ stack' # <<>>)
    <3>1. E!Top.inner => E!Below # <<>>
      BY <1>1, <1>3, Dropped
    <3>2. CASE E!Top.inner
      BY <1>3, <3>1, <3>2 DEF E!Pop
    <3>3. CASE ~E!Top.inner
      BY <1>3, <3>3 DEF E!Pop
    <3>4. QED
      BY <3>2, <3>3
  <2>3. QED
    BY <2>1, <2>2, NoEscape
<1>4. ASSUME E!Leave \/ E!Trampoline PROVE EInv'
  <2>1. mode.kind = "returning" /\ mode.value \in E!AnyValue /\ stack # <<>>
    BY <1>2, <1>4 DEF E!Leave, E!Trampoline
  <2>2. CASE E!Leave
    BY <1>3, <1>4, <2>1, <2>2 DEF E!Leave
  <2>3. CASE E!Trampoline /\ ~mode.value.jump
    <3>1. E!Top.kind = "trampoline" /\ E!Pop(mode.value) /\ ecs' = ecs
      BY <2>3 DEF E!Trampoline
    <3>2. ecs' = E!Invalidated
      BY <3>1 DEF E!Invalidated
    <3>3. QED
      BY <1>3, <1>4, <2>1, <3>1, <3>2
  <2>4. CASE E!Trampoline /\ mode.value.jump
    <3>1. PICK f \in Functions \cup {Inert, <<>>} : mode.value.target = f
      BY <2>1, <2>4 DEF E!AnyValue, E!Value, E!Jump
    <3>2. CASE E!Target(f) = Inert
      <4>1. stack' = stack /\ mode' = E!Failing /\ ecs' = ecs
        BY <2>4, <3>1, <3>2 DEF E!Trampoline
      <4>2. QED
        BY <1>1, <4>1, NoEscape
    <3>3. CASE E!Target(f) # Inert
      <4> DEFINE g == E!Target(f)
                 fs == E!FramesOf(g, TRUE)
      <4>1. stack' = stack \o fs /\ mode' = E!Running(E!Value) /\ ecs' = ecs
        BY <2>4, <3>1, <3>3 DEF E!Trampoline
      <4>2. g \in Seq(Catchers \cup {Trampolined}) /\ \A i \in 1..Len(g) : g[i] # Trampolined
        BY <3>3, TargetFits
      <4> HIDE DEF g
      <4>3. /\ fs \in Seq(FrameType) /\ Len(fs) = Len(g)
            /\ \A i \in 1..Len(g) : /\ fs[i].kind # "call_ec" /\ \A es : FrameSound(fs[i], es)
                                    /\ fs[i].kind = "trampoline" => g[i] = Trampolined
        BY <4>2, FramesFit
      <4> HIDE DEF fs
      <4>4. /\ \A i \in 1..Len(fs) : fs[i].kind # "call_ec" /\ FrameSound(fs[i], ecs)
            /\ \A i \in 1..Len(fs) : fs[i].kind # "trampoline"
        BY <4>2, <4>3
      <4>5. Sound(stack \o fs, ecs)
        BY <1>1, <2>1, <4>3, <4>4, Pushed
      <4>6. QED
        BY <4>1, <4>5, NoEscape, ModeKinds
    <3>4. QED
      BY <3>2, <3>3
  <2>5. QED
    BY <1>4, <2>2, <2>3, <2>4
<1>5. CASE E!Propagate
  <2>1. stack # <<>> /\ stack' = E!Below /\ ecs' = E!Invalidated /\ (mode' = E!Failing \/ mode' = E!Running(E!Value))
    BY <1>5 DEF E!Propagate
  <2>2. Sound(stack', ecs')
    BY <1>1, <2>1, Dropped
  <2>3. QED
    BY <2>1, <2>2, NoEscape, ModeKinds
<1>6. CASE E!Uncaught
  BY <1>1, <1>6, NoEscape, ModeKinds DEF E!Uncaught
<1> QED
  BY <1>4, <1>5, <1>6

\* The table of ec.py is what shouldcatch computes.
LEMMA TableIsRight ==
  ASSUME NEW f, NEW e, f.tags \in {None} \cup SUBSET (Tags \cup Uids), f.untagged \in BOOLEAN,
         e.tag \in Tags \cup {None} \cup Uids, e.catchall \in BOOLEAN
  PROVE  E!ShouldCatch(f, e) <=> E!Table(f, e)
<1>1. CASE f.tags = None /\ ~f.untagged
  BY <1>1 DEF E!ShouldCatch, E!Table
<1>2. CASE f.tags = None /\ f.untagged
  BY <1>2 DEF E!ShouldCatch, E!Table
<1>3. CASE f.tags # None /\ ~f.untagged
  BY <1>3 DEF E!ShouldCatch, E!Table
<1>4. CASE f.tags # None /\ f.untagged
  BY <1>4 DEF E!ShouldCatch, E!Table
<1> QED
  BY <1>1, <1>2, <1>3, <1>4

\* An escape on its way to a call_ec is caught by its frame and by no other.
LEMMA CaughtByItsOwn ==
  ASSUME NoUidsCaught, EInv, stack # <<>>, mode.kind = "escaping", mode.ec # 0, E!Top.kind # "trampoline"
  PROVE  E!ShouldCatch(E!Top, mode) <=> E!Top.kind = "call_ec" /\ E!Top.ec = mode.ec
<1> DEFINE t == E!Top
           u == ecs[mode.ec].uid
<1>1. Sound(stack, ecs) /\ t \in FrameType /\ FrameSound(t, ecs)
  BY Dropped DEF EInv
<1>2. /\ mode.ec \in 1..Len(ecs) /\ ecs[mode.ec].valid /\ mode.tag = u /\ mode.catchall = FALSE
      /\ ecs \in Seq(EcType)
  BY <1>1 DEF EInv, OnItsWay, Sound
<1>3. u \in Uids /\ u # None /\ u \notin Tags
  <2>1. ecs[mode.ec] \in EcType
    BY <1>2
  <2>2. QED
    BY <2>1, EscapesConstants DEF EcType
<1> HIDE DEF t, u
<1>4. CASE t.kind = "call_ec"
  <2>1. t.ec \in 1..Len(ecs) /\ t.tags = {ecs[t.ec].uid} /\ ~t.untagged
    BY <1>1, <1>4 DEF FrameSound
  <2>2. ecs[t.ec].uid = u => t.ec = mode.ec
    <3>1. PICK k \in 1..Len(stack) : stack[k].kind = "call_ec" /\ stack[k].ec = mode.ec
      BY <1>1, <1>2 DEF Sound, Reachable
    <3>2. Len(stack) \in 1..Len(stack) /\ t = stack[Len(stack)]
      BY <1>1, Shortened DEF Sound, t, E!Top
    <3>3. ecs[t.ec].uid = u => k = Len(stack)
      BY <1>1, <1>4, <3>1, <3>2 DEF Sound, Distinct, u
    <3>4. QED
      BY <3>1, <3>2, <3>3
  <2>3. {ecs[t.ec].uid} # None
    <3>1. ecs[t.ec] \in EcType
      BY <1>2, <2>1
    <3>2. {ecs[t.ec].uid} \in SUBSET (Tags \cup Uids)
      BY <3>1 DEF EcType
    <3>3. QED
      BY <3>2, EscapesConstants
  <2>4. E!ShouldCatch(t, mode) <=> u = ecs[t.ec].uid
    BY <1>2, <1>3, <2>1, <2>3 DEF E!ShouldCatch
  <2>5. QED
    BY <1>4, <2>2, <2>4 DEF t, u
<1>5. CASE t.kind = "catch"
  <2>1. PICK c \in Catchers : c.tags = t.tags /\ c.untagged = t.untagged
    BY <1>1, <1>5 DEF FrameSound
  <2>2. t.tags # None => u \notin t.tags
    BY <1>3, <2>1 DEF NoUidsCaught
  <2>3. ~E!ShouldCatch(t, mode)
    BY <1>2, <1>3, <2>2 DEF E!ShouldCatch
  <2>4. QED
    BY <1>5, <2>3 DEF t
<1> QED
  BY <1>1, <1>4, <1>5 DEF FrameType, t

LEMMA EUnwind ==
  ASSUME EInv, E!Unwind
  PROVE  EInv'
<1>1. /\ mode.kind = "escaping" /\ stack # <<>> /\ stack' = E!Below /\ ecs' = E!Invalidated
      /\ Sound(stack, ecs)
  BY DEF E!Unwind, E!Pop, EInv
<1>2. /\ Sound(stack', ecs') /\ Len(ecs') = Len(ecs) /\ (E!Top.inner => E!Below # <<>>)
      /\ \A i \in 1..Len(ecs) : /\ ecs'[i].uid = ecs[i].uid
                                /\ ~(E!Top.kind = "call_ec" /\ E!Top.ec = i) => ecs'[i] = ecs[i]
  BY <1>1, Dropped
<1>3. CASE E!Top.kind # "trampoline" /\ E!ShouldCatch(E!Top, mode)
  <2>1. E!Pop(E!Value)
    BY <1>3 DEF E!Unwind
  <2>2. CASE E!Top.inner
    BY <1>1, <1>2, <2>1, <2>2, ModeKinds, NoEscape DEF E!Pop
  <2>3. CASE ~E!Top.inner
    BY <1>1, <1>2, <2>1, <2>3, ModeKinds, NoEscape DEF E!Pop
  <2>4. QED
    BY <2>2, <2>3
<1>4. CASE ~(E!Top.kind # "trampoline" /\ E!ShouldCatch(E!Top, mode))
  <2>1. mode' = mode
    BY <1>4 DEF E!Unwind
  <2>2. NoUidsCaught /\ mode.ec # 0 => ~(E!Top.kind = "call_ec" /\ E!Top.ec = mode.ec)
    BY <1>1, <1>4, CaughtByItsOwn
  <2>3. OnItsWay'
    BY <1>2, <2>1, <2>2 DEF EInv, OnItsWay
  <2>4. Modes'
    BY <1>1, <2>1 DEF EInv, Modes
  <2>5. QED
    BY <1>2, <2>3, <2>4 DEF EInv
<1> QED
  BY <1>3, <1>4

LEMMA EStep == EInv /\ [E!Next]_evars => EInv'
<1>1. ASSUME EInv, E!Next PROVE EInv'
  BY <1>1, ECalls, EEnds, EFrames, EUnwind DEF E!Next, E!UserCode
<1>2. ASSUME EInv, UNCHANGED evars PROVE EInv'
  BY <1>2 DEF evars, EInv, Modes, OnItsWay
<1> QED
  BY <1>1, <1>2

LEMMA EArrives ==
  ASSUME NoUidsCaught, EInv, E!Next, mode.kind = "escaping"
  PROVE  /\ mode.ec # 0 => \E k \in 1..Len(stack) : stack[k].kind = "call_ec" /\ stack[k].ec = mode.ec
         /\ stack # <<>> /\ mode'.kind # "escaping" => E!Top.kind # "trampoline"
         /\ stack # <<>> /\ E!Top.kind # "trampoline" =>
              (mode'.kind # "escaping" <=> IF mode.ec # 0 THEN E!Top.kind = "call_ec" /\ E!Top.ec = mode.ec
                                                          ELSE E!Table(E!Top, mode))
<1>1. mode.ec # 0 => \E k \in 1..Len(stack) : stack[k].kind = "call_ec" /\ stack[k].ec = mode.ec
  BY DEF EInv, OnItsWay, Sound, Reachable
<1>2. E!Unwind \/ E!Uncaught
  BY DEF E!Next, E!UserCode, E!Runs, E!Fail, E!Call, E!CallEc, E!Loop, E!BreakableLoop, E!CallLoop, E!Return,
         E!Throw, E!Invoke, E!Leave, E!Trampoline, E!Propagate
<1>3. ASSUME stack # <<>>
      PROVE  mode'.kind # "escaping" <=> E!Top.kind # "trampoline" /\ E!ShouldCatch(E!Top, mode)
  <2>1. E!Unwind
    BY <1>2, <1>3 DEF E!Uncaught
  <2>2. CASE E!Top.kind # "trampoline" /\ E!ShouldCatch(E!Top, mode)
    <3>1. E!Pop(E!Value)
      BY <2>1, <2>2 DEF E!Unwind
    <3>2. mode'.kind # "escaping"
      BY <3>1 DEF E!Pop, E!Returning, E!Running
    <3>3. QED
      BY <2>2, <3>2
  <2>3. CASE ~(E!Top.kind # "trampoline" /\ E!ShouldCatch(E!Top, mode))
    <3>1. mode' = mode
      BY <2>1, <2>3 DEF E!Unwind
    <3>2. QED
      BY <2>3, <3>1
  <2>4. QED
    BY <2>2, <2>3
<1>4. ASSUME stack # <<>>, E!Top.kind # "trampoline", mode.ec = 0
      PROVE  E!ShouldCatch(E!Top, mode) <=> E!Table(E!Top, mode)
  <2>1. E!Top \in FrameType
    BY <1>4, Dropped DEF EInv
  <2>2. E!Top.tags \in {None} \cup SUBSET (Tags \cup Uids) /\ E!Top.untagged \in BOOLEAN
    BY <1>4, <2>1 DEF FrameType
  <2>3. mode.tag \in Tags \cup {None} \cup Uids /\ mode.catchall \in BOOLEAN
    BY DEF EInv, Modes
  <2>4. QED
    BY <2>2, <2>3, TableIsRight
<1> QED
  BY <1>1, <1>3, <1>4, CaughtByItsOwn

LEMMA ETypes == EInv => E!TypeOK
<1> SUFFICES ASSUME EInv PROVE E!TypeOK
  OBVIOUS
<1>1. /\ stack \in Seq(FrameType) /\ ecs \in Seq([uid : Uids, valid : BOOLEAN])
      /\ \A i \in 1..Len(stack) : stack[i] \in FrameType /\ FrameSound(stack[i], ecs)
  BY DEF EInv, Sound, EcType
<1>2. ASSUME NEW i \in 1..Len(stack)
      PROVE  CASE stack[i].kind = "catch" -> [tags |-> stack[i].tags, untagged |-> stack[i].untagged] \in Catchers
               [] stack[i].kind = "call_ec" -> ecs[stack[i].ec].valid
               [] stack[i].kind = "trampoline" -> stack[i].left \in Nat
  <2>1. FrameSound(stack[i], ecs) /\ stack[i] \in FrameType
    BY <1>1
  <2>2. CASE stack[i].kind = "catch"
    BY <2>1, <2>2 DEF FrameSound
  <2>3. CASE stack[i].kind = "call_ec"
    BY <2>1, <2>3 DEF FrameSound
  <2>4. CASE stack[i].kind = "trampoline"
    BY <2>1, <2>4 DEF FrameType
  <2>5. QED
    BY <2>1, <2>2, <2>3, <2>4 DEF FrameType
<1>3. \/ mode.kind = "running" /\ mode.got \in E!AnyValue
      \/ mode.kind = "returning" /\ mode.value \in E!AnyValue
      \/ mode.kind = "escaping" /\ [tag |-> mode.tag, catchall |-> mode.catchall] \in E!Thrown
      \/ mode.kind = "failing"
  BY DEF EInv, Modes, E!Thrown
<1> QED
  BY <1>1, <1>2, <1>3 DEF E!TypeOK

LEMMA EOneTrampoline == EInv => E!OneTrampoline
  BY DEF EInv, Sound, Apart, E!OneTrampoline

------------------------------------------------------------------------------
(***************************************************************************)
(* Fix                                                                     *)
(***************************************************************************)
FixFrame ==
  [key : FixKeys, target : FixKeys, cleanup : SUBSET ({"you"} \X FixKeys), scrub : BOOLEAN, pc : Nat \ {0},
   partial : BOOLEAN]

FBodies ==
  /\ DOMAIN body = FixKeys /\ body = [k \in DOMAIN body |-> body[k]]
  /\ \A k \in FixKeys : body[k] \in Seq(F!Calling \cup F!Ending(k))

FTypes ==
  /\ FBodies
  /\ memo \in [FixKeys -> SUBSET F!Results]
  /\ visited \subseteq {"me", "you"} \X FixKeys
  /\ calls \in Seq(FixFrame)
  /\ phase \in {"body", "got", "leave"} /\ result \in F!Results

\* A body raises an exception.
Raised == \E k \in FixKeys : [op |-> "raise"] \in F!Range(body[k])

\* The calls s are in v, and the targets of the chains of the first h of them; no call is
\* going on twice, no target is in two chains; only the outermost call clears visited.
Covered(s, v, h) ==
  /\ \A i \in 1..Len(s) : <<"me", s[i].key>> \in v
  /\ \A i \in 1..h : s[i].cleanup \subseteq v
  /\ \A i, j \in 1..Len(s) : s[i].key = s[j].key => i = j
  /\ \A i, j \in 1..Len(s) : s[i].cleanup \cap s[j].cleanup # {} => i = j
  /\ \A i \in 1..Len(s) : s[i].scrub <=> i = 1
  /\ s = <<>> => v = {}

\* There is nothing else in v.
Accounted(s, v, h) ==
  \A x \in v : \/ \E i \in 1..Len(s) : x = <<"me", s[i].key>>
               \/ \E i \in 1..h : x \in s[i].cleanup

\* No result is an exception.
NoError(m, r) == r # "error" /\ \A k \in FixKeys : "error" \notin m[k]

\* The calls whose targets are in visited: when the last one is being left, its targets have been
\* removed, or stay behind.
Whole == IF phase = "leave" THEN Len(calls) - 1 ELSE Len(calls)

FInv ==
  /\ FTypes
  /\ Covered(calls, visited, Whole)
  /\ Raised \/ (Accounted(calls, visited, Whole) /\ NoError(memo, result))
  /\ calls = <<>> => phase = "got"

LEMMA FInit == F!Init => FInv
<1> SUFFICES ASSUME F!Init PROVE FInv
  OBVIOUS
<1> USE DEF F!Init
<1>1. calls = <<>> /\ Len(calls) = 0 /\ calls \in Seq(FixFrame)
  OBVIOUS
<1>2. FBodies
  BY DEF FBodies
<1>3. memo \in [FixKeys -> SUBSET F!Results] /\ result \in F!Results /\ visited \subseteq {"me", "you"} \X FixKeys
  BY DEF F!Results
<1>4. Whole = 0
  BY <1>1 DEF Whole
<1>5. Covered(calls, visited, Whole)
  BY <1>1, <1>4 DEF Covered
<1>6. Accounted(calls, visited, Whole) /\ NoError(memo, result)
  BY DEF Accounted, NoError
<1> QED
  BY <1>1, <1>2, <1>3, <1>5, <1>6 DEF FInv, FTypes

\* The call that is going on
LEMMA TopCall ==
  ASSUME FInv, calls # <<>>
  PROVE  /\ Len(calls) \in Nat \ {0} /\ Len(calls) \in 1..Len(calls)
         /\ F!Call = calls[Len(calls)] /\ F!Call \in FixFrame
         /\ F!Call.target \in FixKeys /\ F!Call.key \in FixKeys /\ F!Call.cleanup \subseteq {"you"} \X FixKeys
         /\ F!Call.pc \in Nat \ {0} /\ F!Call.scrub \in BOOLEAN
         /\ \A k : <<"me", k>> \notin F!Call.cleanup
<1>1. calls \in Seq(FixFrame)
  BY DEF FInv, FTypes
<1>2. Len(calls) \in Nat \ {0} /\ Len(calls) \in 1..Len(calls) /\ calls[Len(calls)] \in FixFrame
  BY <1>1, Shortened
<1>3. F!Call \in FixFrame
  BY <1>2 DEF F!Call
<1>4. F!Call.cleanup \subseteq {"you"} \X FixKeys
  BY <1>3 DEF FixFrame
<1> QED
  BY <1>2, <1>3, <1>4 DEF FixFrame, F!Call

\* The call that is going on changes.
LEMMA Replaced ==
  ASSUME NEW s \in Seq(FixFrame), s # <<>>, NEW f \in FixFrame
  PROVE  LET r == [s EXCEPT ![Len(s)] = f] IN
         /\ r \in Seq(FixFrame) /\ Len(r) = Len(s) /\ r[Len(s)] = f /\ r # <<>>
         /\ \A i \in 1..Len(s) : i # Len(s) => r[i] = s[i]
<1> DEFINE r == [s EXCEPT ![Len(s)] = f]
<1>1. Len(s) \in Nat \ {0} /\ DOMAIN s = 1..Len(s)
  BY EmptySeq
<1>2. /\ r \in Seq(FixFrame) /\ Len(r) = Len(s) /\ r[Len(s)] = f
      /\ \A i \in 1..Len(s) : i # Len(s) => r[i] = s[i]
  <2>1. Len(s) \in 1..Len(s)
    BY <1>1
  <2>2. /\ r \in Seq(FixFrame) /\ Len(r) = Len(s)
        /\ \A j \in 1..Len(s) : r[j] = IF Len(s) = j THEN f ELSE s[j]
    BY <2>1, ExceptSeq
  <2>3. QED
    BY <2>1, <2>2
<1>3. r # <<>>
  BY <1>1, <1>2
<1> QED
  BY <1>2, <1>3

\* A call begins, or is a cycle.
LEMMA FEnter ==
  ASSUME FInv, phase # "leave", NEW k \in FixKeys, F!Enter(k), memo' = memo, FBodies', Raised => Raised',
         calls # <<>> \/ phase = "got"
  PROVE  FInv'
<1>1. CASE F!Me(k) \in visited
  <2>1. phase' = "got" /\ result' = "bottom" /\ calls' = calls /\ visited' = visited
    BY <1>1 DEF F!Enter
  <2>2. Whole' = Whole
    BY <2>1 DEF Whole
  <2>3. FTypes'
    BY <2>1 DEF FInv, FTypes, F!Results
  <2>4. Covered(calls, visited, Whole)'
    BY <2>1, <2>2 DEF FInv
  <2>5. Raised' \/ (Accounted(calls, visited, Whole)' /\ NoError(memo, result)')
    BY <2>1, <2>2 DEF FInv, NoError
  <2>6. QED
    BY <2>1, <2>3, <2>4, <2>5 DEF FInv
<1>2. CASE F!Me(k) \notin visited
  <2> DEFINE f == F!Frame(k)
  <2>1. /\ visited' = visited \cup {F!Me(k)} /\ calls' = Append(calls, f)
        /\ phase' \in {"body", "leave"}
        /\ result' = result \/ (result' \in memo[k] /\ phase' = "leave")
    BY <1>2 DEF F!Enter
  <2>2. /\ f \in FixFrame /\ f.key = k /\ f.cleanup = {} /\ f.scrub = (visited = {})
    BY DEF F!Frame, FixFrame
  <2> HIDE DEF f
  <2>3. calls \in Seq(FixFrame)
    BY DEF FInv, FTypes
  <2>4. /\ calls' \in Seq(FixFrame) /\ Len(calls') = Len(calls) + 1 /\ calls'[Len(calls) + 1] = f
        /\ Len(calls) \in Nat /\ calls' # <<>>
        /\ \A i \in 1..Len(calls) : calls'[i] = calls[i]
    BY <2>1, <2>2, <2>3
  <2>5. Covered(calls, visited, Len(calls)) /\ Whole = Len(calls)
    BY DEF FInv, Whole
  <2>6. F!Me(k) = <<"me", k>>
    BY DEF F!Me
  <2>7. Covered(calls', visited', Len(calls')) /\ Covered(calls', visited', Len(calls') - 1)
    <3>1. \A i \in 1..Len(calls') : <<"me", calls'[i].key>> \in visited' /\ calls'[i].cleanup \subseteq visited'
      BY <2>1, <2>2, <2>4, <2>5, <2>6 DEF Covered
    <3>2. \A i, j \in 1..Len(calls') : calls'[i].key = calls'[j].key => i = j
      <4>1. \A i \in 1..Len(calls) : calls[i].key # k
        BY <1>2, <2>5, <2>6 DEF Covered
      <4>2. QED
        BY <2>2, <2>4, <2>5, <4>1 DEF Covered
    <3>3. \A i, j \in 1..Len(calls') : calls'[i].cleanup \cap calls'[j].cleanup # {} => i = j
      BY <2>2, <2>4, <2>5 DEF Covered
    <3>4. \A i \in 1..Len(calls') : calls'[i].scrub <=> i = 1
      <4>1. visited = {} <=> Len(calls) + 1 = 1
        <5>1. CASE calls = <<>>
          BY <2>4, <2>5, <5>1 DEF Covered
        <5>2. CASE calls # <<>>
          <6>1. Len(calls) \in Nat \ {0} /\ 1 \in 1..Len(calls)
            BY <2>3, <5>2, EmptySeq
          <6>2. visited # {}
            BY <2>5, <6>1 DEF Covered
          <6>3. QED
            BY <6>1, <6>2
        <5>3. QED
          BY <5>1, <5>2
      <4>2. calls'[Len(calls) + 1].scrub <=> Len(calls) + 1 = 1
        BY <2>2, <2>4, <4>1
      <4>3. \A i \in 1..Len(calls') : i \in 1..Len(calls) \/ i = Len(calls) + 1
        BY <2>4
      <4>4. QED
        BY <2>4, <2>5, <4>2, <4>3 DEF Covered
    <3>5. 1..Len(calls') - 1 \subseteq 1..Len(calls')
      BY <2>4
    <3>6. QED
      BY <2>4, <3>1, <3>2, <3>3, <3>4, <3>5 DEF Covered
  <2>8. ASSUME Accounted(calls, visited, Len(calls)), NEW h \in {Len(calls), Len(calls) + 1}
        PROVE  Accounted(calls', visited', h)
    <3>1. ASSUME NEW x \in visited
          PROVE  \/ \E i \in 1..Len(calls') : x = <<"me", calls'[i].key>>
                 \/ \E i \in 1..h : x \in calls'[i].cleanup
      <4>1. \A i \in 1..Len(calls) : i \in 1..Len(calls') /\ i \in 1..h
        BY <2>4
      <4>2. QED
        BY <2>4, <2>8, <3>1, <4>1 DEF Accounted
    <3>2. Len(calls) + 1 \in 1..Len(calls')
      BY <2>4
    <3>3. \E i \in 1..Len(calls') : F!Me(k) = <<"me", calls'[i].key>>
      BY <2>2, <2>4, <2>6, <3>2
    <3>4. QED
      BY <2>1, <3>1, <3>3 DEF Accounted
  <2>9. Whole' \in {Len(calls), Len(calls) + 1} /\ (Whole' = Len(calls') \/ Whole' = Len(calls') - 1)
    BY <2>4 DEF Whole
  <2>10. FTypes'
    <3>1. result' \in F!Results
      BY <2>1 DEF FInv, FTypes
    <3>2. visited' \subseteq {"me", "you"} \X FixKeys
      BY <2>1, <2>6 DEF FInv, FTypes
    <3>3. QED
      BY <2>1, <2>4, <3>1, <3>2 DEF FInv, FTypes
  <2>11. Raised' \/ (Accounted(calls, visited, Whole)' /\ NoError(memo, result)')
    <3>1. CASE Raised
      BY <3>1
    <3>2. CASE ~Raised
      BY <2>1, <2>5, <2>8, <2>9, <3>2 DEF FInv, NoError
    <3>3. QED
      BY <3>1, <3>2
  <2>12. QED
    BY <2>4, <2>7, <2>9, <2>10, <2>11 DEF FInv
<1> QED
  BY <1>1, <1>2

\* A call has its result: its chain is cleaned up, or an exception went past that.
LEMMA FFinish ==
  ASSUME FInv, phase # "leave", calls # <<>>, calls' = calls, NEW r \in F!Results, F!Finish(r),
         visited' = F!Cleaned \/ (visited' = visited /\ Raised'), r = "error" => Raised', FBodies', Raised => Raised'
  PROVE  FInv'
<1> DEFINE n == Len(calls)
<1>1. /\ n \in Nat \ {0} /\ n \in 1..n /\ F!Call = calls[n] /\ F!Call.key \in FixKeys
      /\ \A k : <<"me", k>> \notin calls[n].cleanup
  BY TopCall
<1>2. Covered(calls, visited, n) /\ Whole = n /\ Whole' = n - 1
  BY DEF FInv, Whole, F!Finish
<1> HIDE DEF n
<1>3. visited' \subseteq visited
  BY DEF F!Cleaned
<1>4. Covered(calls, visited', n - 1)
  <2>1. \A i \in 1..n - 1 : i \in 1..n /\ i # n
    BY <1>1
  <2>2. ASSUME NEW i \in 1..n - 1 PROVE calls[i].cleanup \subseteq visited'
    <3>1. calls[i].cleanup \cap calls[n].cleanup = {}
      BY <1>1, <1>2, <2>1 DEF Covered, n
    <3>2. calls[i].cleanup \subseteq visited
      BY <1>2, <2>1 DEF Covered
    <3>3. QED
      BY <1>1, <3>1, <3>2 DEF F!Cleaned
  <2>3. ASSUME NEW i \in 1..Len(calls) PROVE <<"me", calls[i].key>> \in visited'
    BY <1>1, <1>2 DEF Covered, F!Cleaned
  <2>4. QED
    BY <1>2, <2>2, <2>3 DEF Covered
<1>5. FTypes'
  <2>1. memo' \in [FixKeys -> SUBSET F!Results]
    BY <1>1 DEF F!Finish, FInv, FTypes
  <2>2. QED
    BY <1>3, <2>1 DEF F!Finish, FInv, FTypes
<1>6. ASSUME ~Raised'
      PROVE  Accounted(calls, visited', n - 1) /\ NoError(memo', result')
  <2>1. Accounted(calls, visited, n) /\ NoError(memo, result) /\ r # "error" /\ visited' = F!Cleaned
    BY <1>2, <1>6 DEF FInv
  <2>2. ASSUME NEW x \in visited'
        PROVE  \/ \E i \in 1..Len(calls) : x = <<"me", calls[i].key>>
               \/ \E i \in 1..n - 1 : x \in calls[i].cleanup
    <3>1. x \in visited /\ x \notin calls[n].cleanup
      BY <1>1, <2>1, <2>2 DEF F!Cleaned
    <3>2. \A i \in 1..n : i # n => i \in 1..n - 1
      BY <1>1
    <3>3. QED
      BY <2>1, <3>1, <3>2 DEF Accounted
  <2>3. NoError(memo', result')
    BY <1>1, <2>1 DEF NoError, F!Finish, FInv, FTypes
  <2>4. QED
    BY <2>2, <2>3 DEF Accounted
<1> QED
  BY <1>2, <1>4, <1>5, <1>6 DEF FInv

\* A call goes on with another function, or further.
Moved(f, k, c, p, b) == [f EXCEPT !.target = k, !.cleanup = c, !.pc = p, !.partial = b]
LEMMA Retargeted ==
  ASSUME NEW f \in FixFrame, NEW k \in FixKeys, NEW c \in SUBSET ({"you"} \X FixKeys), NEW p \in Nat \ {0},
         NEW b \in BOOLEAN
  PROVE  /\ Moved(f, k, c, p, b) \in FixFrame /\ Moved(f, k, c, p, b).key = f.key
         /\ Moved(f, k, c, p, b).cleanup = c /\ Moved(f, k, c, p, b).scrub = f.scrub
<1> DEFINE S == SUBSET ({"you"} \X FixKeys)
<1>1. /\ f \in [key : FixKeys, target : FixKeys, cleanup : S, scrub : BOOLEAN, pc : Nat \ {0}, partial : BOOLEAN]
      /\ c \in S
  BY DEF FixFrame
<1> HIDE DEF S
<1>2. Moved(f, k, c, p, b) \in
        [key : FixKeys, target : FixKeys, cleanup : S, scrub : BOOLEAN, pc : Nat \ {0}, partial : BOOLEAN]
  BY <1>1 DEF Moved
<1>3. /\ Moved(f, k, c, p, b).key = f.key
      /\ Moved(f, k, c, p, b).cleanup = c /\ Moved(f, k, c, p, b).scrub = f.scrub
  BY <1>1 DEF Moved
<1> QED
  BY <1>2, <1>3 DEF FixFrame, S

Further(f, p, b) == [f EXCEPT !.pc = p, !.partial = b]
LEMMA Advanced ==
  ASSUME NEW f \in FixFrame, NEW p \in Nat \ {0}, NEW b \in BOOLEAN
  PROVE  /\ Further(f, p, b) \in FixFrame /\ Further(f, p, b).key = f.key
         /\ Further(f, p, b).cleanup = f.cleanup /\ Further(f, p, b).scrub = f.scrub
  BY DEF FixFrame, Further

\* The body of a chain returns a jump.
LEMMA FJump ==
  ASSUME FInv, phase = "body", calls # <<>>, NEW k \in FixKeys, F!Jump(k), FBodies', Raised => Raised'
  PROVE  FInv'
<1>1. CASE F!You(k) \in visited
  <2>1. visited' = F!Cleaned /\ F!Finish("bottom") /\ calls' = calls
    BY <1>1 DEF F!Jump
  <2>2. "bottom" \in F!Results
    BY DEF F!Results
  <2>3. QED
    BY <2>1, <2>2, FFinish
<1>2. CASE F!You(k) \notin visited
  <2> DEFINE n == Len(calls)
             f == [F!Call EXCEPT !.target = k, !.cleanup = @ \cup {F!You(k)}, !.pc = 1, !.partial = FALSE]
  <2>1. /\ visited' = visited \cup {F!You(k)} /\ calls' = [calls EXCEPT ![n] = f]
        /\ memo' = memo /\ phase' = phase /\ result' = result
    BY <1>2 DEF F!Jump, F!SetCall
  <2>2. /\ n \in Nat \ {0} /\ n \in 1..n /\ F!Call = calls[n] /\ F!Call \in FixFrame
        /\ calls \in Seq(FixFrame)
    BY TopCall DEF FInv, FTypes
  <2>3. F!You(k) = <<"you", k>>
    BY DEF F!You
  <2>4. /\ f \in FixFrame /\ f.key = calls[n].key /\ f.cleanup = calls[n].cleanup \cup {F!You(k)}
        /\ f.scrub = calls[n].scrub
    <3>1. F!Call.cleanup \cup {F!You(k)} \in SUBSET ({"you"} \X FixKeys)
      BY <2>2, <2>3 DEF FixFrame
    <3> DEFINE c == F!Call.cleanup \cup {F!You(k)}
               start == 1
               no == FALSE
    <3>2. f = Moved(F!Call, k, c, start, no)
      BY DEF Moved
    <3>3. f \in FixFrame /\ f.key = F!Call.key /\ f.cleanup = c /\ f.scrub = F!Call.scrub
      <4>1. c \in SUBSET ({"you"} \X FixKeys)
        BY <3>1 DEF c
      <4>2. start \in Nat \ {0} /\ no \in BOOLEAN
        OBVIOUS
      <4> HIDE DEF c, f, start, no
      <4>3. QED
        BY <2>2, <3>2, <4>1, <4>2, Retargeted
    <3> HIDE DEF f
    <3>4. QED
      BY <2>2, <3>3
  <2> HIDE DEF f
  <2>5. /\ calls' \in Seq(FixFrame) /\ Len(calls') = n /\ calls'[n] = f /\ calls' # <<>>
        /\ \A i \in 1..n : i # n => calls'[i] = calls[i]
    BY <2>1, <2>2, <2>4, Replaced
  <2>6. Covered(calls, visited, n) /\ Whole = n /\ Whole' = n
    BY <2>1, <2>5 DEF FInv, Whole
  <2> HIDE DEF n
  <2>7. \A i \in 1..n : calls'[i].key = calls[i].key /\ calls'[i].scrub = calls[i].scrub
    BY <2>4, <2>5
  <2>8. \A i \in 1..n : calls'[i].cleanup = IF i = n THEN calls[i].cleanup \cup {F!You(k)} ELSE calls[i].cleanup
    BY <2>4, <2>5
  <2>9. Len(calls) = n
    BY DEF n
  <2>10. Covered(calls', visited', n)
    <3>1. \A i \in 1..n : F!You(k) \notin calls[i].cleanup
      BY <1>2, <2>6 DEF Covered
    <3>2. \A i, j \in 1..n : calls'[i].cleanup \cap calls'[j].cleanup # {} => i = j
      <4>1. ASSUME NEW i \in 1..n, NEW j \in 1..n, i # j, calls'[i].cleanup \cap calls'[j].cleanup # {}
            PROVE  FALSE
        <5> PICK x : x \in calls'[i].cleanup /\ x \in calls'[j].cleanup
          BY <4>1
        <5>1. x # F!You(k)
          <6>1. ASSUME NEW m \in 1..n, m # n PROVE F!You(k) \notin calls'[m].cleanup
            BY <2>5, <3>1, <6>1
          <6>2. x \in calls'[i].cleanup /\ x \in calls'[j].cleanup /\ (i # n \/ j # n)
            BY <4>1
          <6>3. QED
            BY <6>1, <6>2
        <5>2. ASSUME NEW m \in 1..n, x \in calls'[m].cleanup PROVE x \in calls[m].cleanup
          <6>1. x \in calls[m].cleanup \/ x \in calls[m].cleanup \cup {F!You(k)}
            BY <2>8, <5>2
          <6>2. QED
            BY <5>1, <6>1
        <5>3. calls[i].cleanup \cap calls[j].cleanup # {}
          BY <4>1, <5>2
        <5>4. QED
          BY <2>6, <2>9, <4>1, <5>3 DEF Covered
      <4>2. QED
        BY <4>1
    <3>3. ASSUME NEW i \in 1..n
          PROVE  <<"me", calls'[i].key>> \in visited' /\ calls'[i].cleanup \subseteq visited'
      <4>1. <<"me", calls[i].key>> \in visited /\ calls[i].cleanup \subseteq visited
        BY <2>6, <2>9 DEF Covered
      <4>2. calls'[i].cleanup \subseteq calls[i].cleanup \cup {F!You(k)}
        BY <2>8
      <4>3. QED
        BY <2>1, <2>7, <4>1, <4>2
    <3>4. \A i, j \in 1..n : calls'[i].key = calls'[j].key => i = j
      BY <2>6, <2>7, <2>9 DEF Covered
    <3>5. \A i \in 1..n : calls'[i].scrub <=> i = 1
      BY <2>6, <2>7, <2>9 DEF Covered
    <3>6. Len(calls') = n /\ calls' # <<>>
      BY <2>5
    <3>7. QED
      BY <3>2, <3>3, <3>4, <3>5, <3>6 DEF Covered
  <2>11. Accounted(calls, visited, n) => Accounted(calls', visited', n)
    <3>1. ASSUME Accounted(calls, visited, n), NEW x \in visited
          PROVE  \/ \E i \in 1..n : x = <<"me", calls'[i].key>>
                 \/ \E i \in 1..n : x \in calls'[i].cleanup
      BY <2>7, <2>8, <2>9, <3>1 DEF Accounted
    <3>2. F!You(k) \in calls'[n].cleanup
      BY <2>2, <2>8
    <3>3. QED
      BY <2>1, <2>2, <2>5, <3>1, <3>2 DEF Accounted
  <2>12. FTypes'
    <3>1. visited' \subseteq {"me", "you"} \X FixKeys
      BY <2>1, <2>3 DEF FInv, FTypes
    <3>2. QED
      BY <2>1, <2>5, <3>1 DEF FInv, FTypes
  <2>13. Raised' \/ (Accounted(calls, visited, Whole)' /\ NoError(memo, result)')
    BY <2>1, <2>6, <2>11 DEF FInv, NoError
  <2>14. QED
    BY <2>5, <2>6, <2>10, <2>12, <2>13 DEF FInv
<1> QED
  BY <1>1, <1>2

\* What a body does, and that it stays what the body does
LEMMA FPerforms ==
  ASSUME FInv, phase = "body", calls # <<>>, NEW o \in F!Calling \cup F!Ending(F!Call.target), F!Perform(o),
         FBodies', Raised => Raised', o.op = "raise" => Raised'
  PROVE  FInv'
<1>1. CASE o \in F!Calling
  <2>1. o.op \in {"call", "try"} /\ o.key \in FixKeys
    BY <1>1 DEF F!Calling
  <2>2. F!Enter(o.key) /\ memo' = memo
    BY <2>1 DEF F!Perform
  <2>3. QED
    BY <2>1, <2>2, FEnter
<1>2. CASE o.op = "return"
  <2>1. /\ F!Finish(IF F!Call.partial THEN "partial" ELSE "value") /\ visited' = F!Cleaned /\ calls' = calls
    BY <1>2 DEF F!Perform
  <2>2. (IF F!Call.partial THEN "partial" ELSE "value") \in F!Results /\
        (IF F!Call.partial THEN "partial" ELSE "value") # "error"
    BY DEF F!Results
  <2>3. QED
    BY <2>1, <2>2, FFinish
<1>3. CASE o.op = "raise"
  <2>1. F!Finish("error") /\ visited' = visited /\ calls' = calls
    BY <1>3 DEF F!Perform
  <2>2. "error" \in F!Results
    BY DEF F!Results
  <2>3. QED
    BY <1>3, <2>1, <2>2, FFinish
<1>4. CASE o.op = "jump" /\ o.key \in FixKeys
  <2>1. F!Jump(o.key)
    BY <1>4 DEF F!Perform
  <2>2. QED
    BY <1>4, <2>1, FJump
<1>5. o \in F!Calling \/ o.op = "return" \/ o.op = "raise" \/ (o.op = "jump" /\ o.key \in FixKeys)
  BY DEF F!Ending
<1> QED
  BY <1>1, <1>2, <1>3, <1>4, <1>5

LEMMA FStart == ASSUME FInv, NEW k \in FixKeys, F!Start(k) PROVE FInv'
<1>1. calls = <<>> /\ F!Enter(k) /\ body' = body /\ memo' = memo
  BY DEF F!Start
<1>2. phase = "got" /\ FBodies' /\ Raised' = Raised
  BY <1>1 DEF FInv, FTypes, FBodies, Raised
<1> QED
  BY <1>1, <1>2, FEnter

LEMMA FRepeat == FInv /\ F!Repeat => FInv'
<1> SUFFICES ASSUME FInv, F!Repeat PROVE FInv'
  OBVIOUS
<1> DEFINE t == F!Call.target
           o == body[t][F!Call.pc]
<1>1. calls # <<>> /\ phase = "body" /\ F!Call.pc <= Len(body[t]) /\ F!Perform(o) /\ body' = body
  BY DEF F!Repeat
<1>2. t \in FixKeys /\ F!Call.pc \in Nat \ {0}
  BY <1>1, TopCall
<1>3. FBodies /\ body[t] \in Seq(F!Calling \cup F!Ending(t))
  BY <1>2 DEF FInv, FTypes, FBodies
<1>4. FBodies' /\ Raised' = Raised
  BY <1>1, <1>3 DEF FBodies, Raised
<1>5. Len(body[t]) \in Nat /\ DOMAIN body[t] = 1..Len(body[t])
  BY <1>3
<1>6. F!Call.pc \in 1..Len(body[t])
  BY <1>1, <1>2, <1>5
<1>7. o \in F!Calling \cup F!Ending(t) /\ o \in F!Range(body[t])
  BY <1>3, <1>5, <1>6 DEF F!Range
<1>8. ASSUME o.op = "raise" PROVE Raised
  <2>1. o = [op |-> "raise"]
    BY <1>7, <1>8 DEF F!Calling, F!Ending
  <2>2. QED
    BY <1>2, <1>7, <2>1 DEF Raised
<1> HIDE DEF t, o
<1>9. o \in F!Calling \cup F!Ending(F!Call.target)
  BY <1>7 DEF t
<1> QED
  BY <1>1, <1>4, <1>8, <1>9, FPerforms

LEMMA FDo ==
  ASSUME FInv, calls # <<>>, NEW o \in F!Calling \cup F!Ending(F!Call.target), F!Do(o)
  PROVE  FInv'
<1> DEFINE t == F!Call.target
           b == Append(body[t], o)
<1>1. phase = "body" /\ F!Perform(o) /\ body' = [body EXCEPT ![t] = b]
  BY DEF F!Do
<1>2. t \in FixKeys
  BY TopCall
<1>3. FBodies /\ body[t] \in Seq(F!Calling \cup F!Ending(t))
  BY <1>2 DEF FInv, FTypes, FBodies
<1>4. b \in Seq(F!Calling \cup F!Ending(t)) /\ o \in F!Range(b) /\ F!Range(body[t]) \subseteq F!Range(b)
  <2>1. o \in F!Calling \cup F!Ending(t)
    OBVIOUS
  <2> HIDE DEF t
  <2>2. /\ b \in Seq(F!Calling \cup F!Ending(t)) /\ Len(b) = Len(body[t]) + 1 /\ b[Len(body[t]) + 1] = o
        /\ \A i \in 1..Len(body[t]) : b[i] = body[t][i]
    BY <1>3, <2>1
  <2> HIDE DEF b
  <2>3. Len(body[t]) \in Nat /\ DOMAIN b = 1..Len(body[t]) + 1 /\ DOMAIN body[t] = 1..Len(body[t])
    BY <1>3, <2>2
  <2>4. o \in F!Range(b)
    BY <2>2, <2>3 DEF F!Range
  <2>5. F!Range(body[t]) \subseteq F!Range(b)
    BY <2>2, <2>3 DEF F!Range
  <2>6. QED
    BY <2>2, <2>4, <2>5
<1> HIDE DEF t, b
<1>5. body'[t] = b /\ \A k \in FixKeys : k # t => body'[k] = body[k]
  BY <1>1, <1>2, <1>3 DEF FBodies
<1>6. FBodies'
  <2>1. DOMAIN body' = FixKeys /\ body' = [k \in DOMAIN body' |-> body'[k]]
    BY <1>1, <1>3 DEF FBodies
  <2>2. \A k \in FixKeys : body'[k] \in Seq(F!Calling \cup F!Ending(k))
    BY <1>3, <1>4, <1>5 DEF FBodies
  <2>3. QED
    BY <2>1, <2>2 DEF FBodies
<1>7. Raised => Raised'
  BY <1>4, <1>5 DEF Raised
<1>8. ASSUME o.op = "raise" PROVE Raised'
  <2>1. o = [op |-> "raise"]
    BY <1>8 DEF F!Calling, F!Ending
  <2>2. QED
    BY <1>2, <1>4, <1>5, <2>1 DEF Raised
<1> QED
  BY <1>1, <1>6, <1>7, <1>8, FPerforms

\* A call that a body made has ended.
LEMMA FGot == FInv /\ F!Got => FInv'
<1> SUFFICES ASSUME FInv, F!Got PROVE FInv'
  OBVIOUS
<1> DEFINE n == Len(calls)
<1>1. /\ phase = "got" /\ calls # <<>> /\ body' = body /\ visited' = visited
      /\ \/ result = "error" /\ F!Finish("error") /\ calls' = calls
         \/ /\ calls' = [calls EXCEPT ![n] =
                           [F!Call EXCEPT !.pc = @ + 1, !.partial = @ \/ result \in {"partial", "bottom"}]]
            /\ phase' = "body" /\ memo' = memo /\ result' = result
  BY DEF F!Got, F!SetCall
<1>2. FBodies' /\ Raised' = Raised
  BY <1>1 DEF FInv, FTypes, FBodies, Raised
<1>3. CASE result = "error" /\ F!Finish("error") /\ calls' = calls
  <2>1. Raised /\ "error" \in F!Results
    BY <1>3 DEF FInv, NoError, F!Results
  <2>2. QED
    BY <1>1, <1>2, <1>3, <2>1, FFinish
<1>4. CASE /\ calls' = [calls EXCEPT ![n] =
                          [F!Call EXCEPT !.pc = @ + 1, !.partial = @ \/ result \in {"partial", "bottom"}]]
           /\ phase' = "body" /\ memo' = memo /\ result' = result
  <2> DEFINE f == [F!Call EXCEPT !.pc = @ + 1, !.partial = @ \/ result \in {"partial", "bottom"}]
             p == F!Call.partial \/ result \in {"partial", "bottom"}
  <2>1. /\ n \in Nat \ {0} /\ n \in 1..n /\ F!Call = calls[n] /\ F!Call \in FixFrame
        /\ calls \in Seq(FixFrame)
    BY <1>1, TopCall DEF FInv, FTypes
  <2>2. f \in FixFrame /\ f.key = calls[n].key /\ f.cleanup = calls[n].cleanup /\ f.scrub = calls[n].scrub
    <3> DEFINE d == F!Call.pc + 1
    <3>1. f = Further(F!Call, d, p)
      BY DEF Further
    <3>2. F!Call.pc \in Nat \ {0} /\ F!Call.partial \in BOOLEAN
      BY <2>1 DEF FixFrame
    <3>3. d \in Nat \ {0}
      BY <3>2
    <3>4. p \in BOOLEAN
      BY <3>2
    <3> HIDE DEF d, p, f
    <3>5. QED
      BY <2>1, <3>1, <3>3, <3>4, Advanced
  <2>2a. calls' = [calls EXCEPT ![n] = f]
    BY <1>4
  <2> HIDE DEF f
  <2>3. /\ calls' \in Seq(FixFrame) /\ Len(calls') = n /\ calls'[n] = f /\ calls' # <<>>
        /\ \A i \in 1..n : i # n => calls'[i] = calls[i]
    BY <1>1, <2>1, <2>2, <2>2a, Replaced
  <2>4. Covered(calls, visited, n) /\ Whole = n /\ Whole' = n
    BY <1>1, <1>4, <2>3 DEF FInv, Whole
  <2> HIDE DEF n
  <2>5. \A i \in 1..n : calls'[i].key = calls[i].key /\ calls'[i].scrub = calls[i].scrub
                        /\ calls'[i].cleanup = calls[i].cleanup
    BY <2>2, <2>3
  <2>6. Len(calls) = n
    BY DEF n
  <2>7. Covered(calls', visited, n)
    BY <2>3, <2>4, <2>5, <2>6 DEF Covered
  <2>8. Accounted(calls, visited, n) => Accounted(calls', visited, n)
    BY <2>3, <2>5, <2>6 DEF Accounted
  <2>9. FTypes'
    BY <1>1, <1>2, <1>4, <2>3 DEF FInv, FTypes
  <2>10. Raised' \/ (Accounted(calls, visited, Whole)' /\ NoError(memo, result)')
    BY <1>1, <1>2, <1>4, <2>4, <2>8 DEF FInv, NoError
  <2>11. QED
    BY <1>1, <2>3, <2>4, <2>7, <2>9, <2>10 DEF FInv
<1> QED
  BY <1>1, <1>3, <1>4

\* The call that is going on is left.
LEMMA FLeave == FInv /\ F!Leave => FInv'
<1> SUFFICES ASSUME FInv, F!Leave PROVE FInv'
  OBVIOUS
<1> DEFINE n == Len(calls)
<1>1. /\ phase = "leave" /\ calls # <<>>
      /\ visited' = IF F!Call.scrub THEN {} ELSE visited \ {F!Me(F!Call.key)}
      /\ calls' = SubSeq(calls, 1, Len(calls) - 1)
      /\ phase' = "got" /\ body' = body /\ memo' = memo /\ result' = result
  BY DEF F!Leave, F!Front, FInv
<1>2. /\ n \in Nat \ {0} /\ n \in 1..n /\ F!Call = calls[n] /\ calls \in Seq(FixFrame)
      /\ calls[n].scrub \in BOOLEAN
  BY <1>1, TopCall DEF FInv, FTypes
<1>3. /\ calls' \in Seq(FixFrame) /\ Len(calls') = n - 1
      /\ \A i \in 1..n - 1 : i \in 1..n /\ calls'[i] = calls[i]
  BY <1>1, <1>2, Shortened
<1>4. Covered(calls, visited, n - 1) /\ Whole' = n - 1
  BY <1>1, <1>3 DEF FInv, Whole
<1>5. F!Me(calls[n].key) = <<"me", calls[n].key>>
  BY DEF F!Me
<1>6. Len(calls) = n
  OBVIOUS
<1> HIDE DEF n
<1>7. calls[n].scrub <=> n = 1
  BY <1>2, <1>4, <1>6 DEF Covered
<1>8. FBodies' /\ Raised' = Raised
  BY <1>1 DEF FInv, FTypes, FBodies, Raised
<1>9. FTypes'
  <2>1. visited' \subseteq visited
    BY <1>1
  <2>2. QED
    BY <1>1, <1>3, <1>8, <2>1 DEF FInv, FTypes
<1>10. CASE n = 1
  <2>1. visited' = {} /\ Len(calls') = 0 /\ calls' = <<>>
    BY <1>1, <1>2, <1>3, <1>7, <1>10, EmptySeq
  <2>2. Whole' = 0 /\ n - 1 = 0
    BY <1>4, <1>10
  <2>3. Covered(calls', visited', Whole')
    BY <2>1, <2>2 DEF Covered
  <2>4. Accounted(calls', visited', Whole')
    BY <2>1 DEF Accounted
  <2>5. NoError(memo, result) => NoError(memo', result')
    BY <1>1
  <2>6. QED
    BY <1>1, <1>8, <1>9, <2>3, <2>4, <2>5 DEF FInv
<1>11. CASE n # 1
  <2>1. visited' = visited \ {<<"me", calls[n].key>>} /\ n - 1 \in Nat \ {0} /\ calls' # <<>>
    <3>1. n - 1 \in Nat \ {0}
      BY <1>2, <1>11
    <3>2. calls' # <<>>
      BY <1>3, <3>1
    <3>3. QED
      BY <1>1, <1>2, <1>5, <1>7, <1>11, <3>1, <3>2
  <2>2. \A i \in 1..n - 1 : i \in 1..n /\ i # n
    BY <1>2
  <2>3. ASSUME NEW i \in 1..n - 1
        PROVE  /\ <<"me", calls'[i].key>> \in visited' /\ calls'[i].cleanup \subseteq visited'
    <3>1. calls'[i] = calls[i] /\ calls[i].key # calls[n].key
      BY <1>2, <1>3, <1>4, <1>6, <2>2 DEF Covered
    <3>2. calls[i] \in FixFrame
      BY <1>2, <1>6, <2>2
    <3>3. calls[i].cleanup \subseteq {"you"} \X FixKeys
      BY <3>2 DEF FixFrame
    <3>4. <<"me", calls[i].key>> \in visited /\ calls[i].cleanup \subseteq visited
      BY <1>4, <1>6, <2>2 DEF Covered
    <3>5. QED
      BY <2>1, <3>1, <3>3, <3>4
  <2>4. Covered(calls', visited', n - 1)
    <3>1. \A i, j \in 1..n - 1 : calls'[i].key = calls'[j].key => i = j
      BY <1>3, <1>4, <1>6 DEF Covered
    <3>2. \A i, j \in 1..n - 1 : calls'[i].cleanup \cap calls'[j].cleanup # {} => i = j
      BY <1>3, <1>4, <1>6 DEF Covered
    <3>3. \A i \in 1..n - 1 : calls'[i].scrub <=> i = 1
      BY <1>3, <1>4, <1>6 DEF Covered
    <3>4. Len(calls') = n - 1
      BY <1>3
    <3>5. QED
      BY <2>1, <2>3, <3>1, <3>2, <3>3, <3>4 DEF Covered
  <2>5. Accounted(calls, visited, n - 1) => Accounted(calls', visited', n - 1)
    <3>1. ASSUME Accounted(calls, visited, n - 1), NEW x \in visited'
          PROVE  \/ \E i \in 1..n - 1 : x = <<"me", calls'[i].key>>
                 \/ \E i \in 1..n - 1 : x \in calls'[i].cleanup
      <4>1. x \in visited /\ x # <<"me", calls[n].key>>
        BY <2>1, <3>1
      <4>2. \A i \in 1..n : i # n => i \in 1..n - 1
        BY <1>2
      <4>3. QED
        BY <1>3, <1>6, <3>1, <4>1, <4>2 DEF Accounted
    <3>2. Len(calls') = n - 1
      BY <1>3
    <3>3. QED
      BY <3>1, <3>2 DEF Accounted
  <2>6. Accounted(calls, visited, Whole) => Accounted(calls, visited, n - 1)
    BY <1>1, <1>6 DEF Whole
  <2>7. Raised' \/ (Accounted(calls, visited, Whole)' /\ NoError(memo, result)')
    BY <1>1, <1>4, <1>8, <2>5, <2>6 DEF FInv, NoError
  <2>8. QED
    BY <1>1, <1>4, <1>9, <2>4, <2>7 DEF FInv
<1> QED
  BY <1>10, <1>11

LEMMA FStep == FInv /\ [F!Next]_fvars => FInv'
<1>1. ASSUME FInv, F!Next PROVE FInv'
  BY <1>1, FStart, FRepeat, FDo, FGot, FLeave DEF F!Next, F!Step
<1>2. ASSUME FInv, UNCHANGED fvars PROVE FInv'
  BY <1>2 DEF fvars, FInv, FTypes, FBodies, Raised, Covered, Accounted, NoError, Whole
<1> QED
  BY <1>1, <1>2

LEMMA FTypeOK == FInv => F!TypeOK
<1> SUFFICES ASSUME FInv PROVE F!TypeOK
  OBVIOUS
<1>1. \A i \in 1..Len(calls) : calls[i] \in FixFrame
  BY DEF FInv, FTypes
<1> QED
  BY <1>1 DEF FInv, FTypes, FBodies, FixFrame, F!TypeOK

LEMMA FSeen == FInv => F!CyclesAreSeen
<1> SUFFICES ASSUME FInv PROVE F!CyclesAreSeen
  OBVIOUS
<1>1. calls \in Seq(FixFrame) /\ Len(calls) \in Nat
  BY DEF FInv, FTypes
<1>2. Covered(calls, visited, Whole)
  BY DEF FInv
<1>3. {F!Me(calls[i].key) : i \in 1..Len(calls)} \subseteq visited
  BY <1>2 DEF Covered, F!Me
<1>4. phase # "leave" => F!InProgress \subseteq visited
  BY <1>2, <1>3 DEF Covered, Whole, F!InProgress
<1>5. ASSUME ~Raised, NEW x \in visited PROVE x \in F!InProgress
  <2>1. Whole = Len(calls) \/ Whole = Len(calls) - 1
    BY DEF Whole
  <2>2. 1..Whole \subseteq 1..Len(calls)
    BY <1>1, <2>1
  <2>3. Accounted(calls, visited, Whole)
    BY <1>5 DEF FInv
  <2>4. QED
    BY <1>5, <2>2, <2>3 DEF Accounted, F!InProgress, F!Me
<1> QED
  BY <1>2, <1>3, <1>4, <1>5 DEF Covered, Raised, F!CyclesAreSeen

------------------------------------------------------------------------------
(***************************************************************************)
(* Continuations                                                           *)
(***************************************************************************)
Numbers == Seq(1..MaxMade)

ObjectType == [kind : {"cont", "chain"}, first : Nat, second : Nat, owed : Numbers]
BodyType == [cc : Nat, pcc : Nat, rest : Numbers, after : Numbers]

\* Continuations and bodies refer to what was made before.
Bounded(m) ==
  Len(m) <= MaxMade /\ \A k \in 1..Len(m) : m[k].first \in 0..k - 1 /\ m[k].second \in 0..k - 1
Refers(m, r) == r.cc \in 0..Len(m) /\ r.pcc \in 0..Len(m)

KTypes ==
  /\ conts \in Seq(ObjectType) /\ Bounded(conts) /\ Refers(conts, running)
  /\ broken \subseteq {"sequence", "none", "chain", "unclaimed"}
  /\ running \in BodyType /\ callers \in Seq(BodyType)
  /\ kept \in 0..Len(conts) /\ due \in Numbers

\* What is owed for the objects in m; a body, and an object, that go by what the objects
\* owe that they refer to.
OwedIn(m, k) == IF k = 0 THEN <<>> ELSE m[k].owed
Keeps(m, r) ==
  /\ r.cc \in 0..Len(m) /\ r.pcc \in 0..Len(m)
  /\ r.rest = OwedIn(m, r.pcc) /\ r.after = OwedIn(m, r.cc)
Matches(m, k) ==
  /\ m[k].first \in 0..k - 1 /\ m[k].second \in 0..k - 1
  /\ m[k].kind = "cont" => m[k].owed = <<k>> \o OwedIn(m, m[k].first)
  /\ m[k].kind = "chain" => m[k].first # 0 /\ m[k].owed = OwedIn(m, m[k].first) \o OwedIn(m, m[k].second)
AllMatch(m) == \A k \in 1..Len(m) : Matches(m, k)

\* As long as no promise is broken, everything that runs or waits promises what its cc and
\* its _pcc owe.
PromisesMatch ==
  broken = {} => /\ AllMatch(conts) /\ Keeps(conts, running)
                 /\ \A i \in 1..Len(callers) : Keeps(conts, callers[i])

KInv == KTypes /\ PromisesMatch /\ K!RunsWhatIsDue

\* Lists of continuations
LEMMA ListFacts ==
  ASSUME NEW s \in Numbers, NEW t \in Numbers
  PROVE  /\ <<>> \o s = s /\ s \o <<>> = s /\ s \o t \in Numbers /\ <<>> \in Numbers
         /\ SubSeq(s \o t, Len(s) + 1, Len(s \o t)) = t
         /\ SubSeq(s, Len(s) + 1, Len(s)) = <<>>
<1>1. s \in Seq(1..MaxMade) /\ t \in Seq(1..MaxMade)
  BY DEF Numbers
<1>2. <<>> \o s = s /\ s \o <<>> = s
  BY <1>1
<1>3. s \o t \in Seq(1..MaxMade) /\ <<>> \in Seq(1..MaxMade)
  BY <1>1
<1>4. SubSeq(s \o t, Len(s) + 1, Len(s \o t)) = t
  BY <1>1
<1>5. SubSeq(s, Len(s) + 1, Len(s)) = <<>>
  BY <1>1
<1> QED
  BY <1>2, <1>3, <1>4, <1>5 DEF Numbers

LEMMA HeadFacts ==
  ASSUME NEW s \in Numbers, NEW t \in Numbers, NEW n \in 1..MaxMade
  PROVE  /\ <<n>> \o s \in Numbers /\ Tail(<<n>> \o s) = s /\ (<<n>> \o s)[1] = n /\ <<n>> \o s # <<>>
         /\ ((<<n>> \o s) \o t)[1] = n /\ (<<n>> \o s) \o t # <<>>
         /\ <<n>> \o <<>> = <<n>>
<1>1. s \in Seq(1..MaxMade) /\ t \in Seq(1..MaxMade) /\ <<n>> \in Seq(1..MaxMade)
  BY DEF Numbers
<1>2. <<n>> \o s \in Seq(1..MaxMade) /\ (<<n>> \o s) \o t \in Seq(1..MaxMade)
  BY <1>1
<1>3. Tail(<<n>> \o s) = s /\ (<<n>> \o s)[1] = n /\ <<n>> \o s # <<>>
  BY <1>1
<1>4. ((<<n>> \o s) \o t)[1] = n /\ (<<n>> \o s) \o t # <<>>
  BY <1>1, <1>2, <1>3
<1>5. <<n>> \o <<>> = <<n>>
  BY <1>1
<1> QED
  BY <1>2, <1>3, <1>4, <1>5 DEF Numbers

\* New objects do not change what the others owe.
LEMMA Appended ==
  ASSUME NEW m \in Seq(ObjectType), NEW o \in ObjectType
  PROVE  LET m2 == Append(m, o) IN
         /\ m2 \in Seq(ObjectType) /\ Len(m2) = Len(m) + 1 /\ m2[Len(m) + 1] = o /\ Len(m) \in Nat
         /\ \A k \in 1..Len(m) : m2[k] = m[k]
         /\ \A k \in 0..Len(m) : OwedIn(m2, k) = OwedIn(m, k)
         /\ \A r : Keeps(m, r) => Keeps(m2, r)
         /\ AllMatch(m) /\ Matches(m2, Len(m) + 1) => AllMatch(m2)
<1> DEFINE m2 == Append(m, o)
<1>1. /\ m2 \in Seq(ObjectType) /\ Len(m2) = Len(m) + 1 /\ m2[Len(m) + 1] = o /\ Len(m) \in Nat
      /\ \A k \in 1..Len(m) : m2[k] = m[k]
  OBVIOUS
<1> HIDE DEF m2
<1>2. \A k \in 0..Len(m) : OwedIn(m2, k) = OwedIn(m, k)
  BY <1>1 DEF OwedIn
<1>3. \A r : Keeps(m, r) => Keeps(m2, r)
  BY <1>1, <1>2 DEF Keeps
<1>4. ASSUME AllMatch(m), NEW k \in 1..Len(m) PROVE Matches(m2, k)
  <2>1. Matches(m, k) /\ m2[k] = m[k] /\ 0..k - 1 \subseteq 0..Len(m)
    BY <1>1, <1>4 DEF AllMatch
  <2>2. QED
    BY <1>2, <2>1 DEF Matches
<1>5. AllMatch(m) /\ Matches(m2, Len(m) + 1) => AllMatch(m2)
  <2>1. 1..Len(m2) = 1..Len(m) \cup {Len(m) + 1}
    BY <1>1
  <2>2. QED
    BY <1>4, <2>1 DEF AllMatch
<1> QED
  BY <1>1, <1>2, <1>3, <1>5 DEF m2

LEMMA OwedType ==
  ASSUME NEW m \in Seq(ObjectType), NEW k \in 0..Len(m)
  PROVE  OwedIn(m, k) \in Numbers
<1>1. CASE k = 0
  BY <1>1 DEF OwedIn, Numbers
<1>2. CASE k # 0
  <2>1. m[k] \in ObjectType
    BY <1>2
  <2>2. QED
    BY <1>2, <2>1 DEF OwedIn, ObjectType
<1> QED
  BY <1>1, <1>2

\* The trampoline runs a continuation.
LEMMA Entered ==
  ASSUME NEW m \in Seq(ObjectType), AllMatch(m), Len(m) <= MaxMade, NEW k \in 1..Len(m), m[k].kind = "cont",
         NEW cc \in 0..Len(m), K!Enter(m, k, cc, OwedIn(m, k) \o OwedIn(m, cc))
  PROVE  /\ running' \in BodyType /\ Keeps(m, running')
         /\ OwedIn(m, k) \o OwedIn(m, cc) # <<>> /\ (OwedIn(m, k) \o OwedIn(m, cc))[1] = k
         /\ OwedIn(m, k) # <<>> /\ OwedIn(m, k)[1] = k
<1> DEFINE p == m[k].first
           s == OwedIn(m, p)
           t == OwedIn(m, cc)
<1>1. /\ m[k] \in ObjectType /\ k # 0 /\ k \in Nat
      /\ p \in 0..k - 1 /\ m[k].owed = <<k>> \o s /\ OwedIn(m, k) = <<k>> \o s
  <2>1. Matches(m, k)
    BY DEF AllMatch
  <2>2. p \in 0..k - 1 /\ m[k].owed = <<k>> \o s
    BY <2>1 DEF Matches
  <2>3. m[k] \in ObjectType /\ k # 0 /\ k \in Nat
    OBVIOUS
  <2>4. OwedIn(m, k) = m[k].owed
    BY <2>3 DEF OwedIn
  <2>5. QED
    BY <2>2, <2>3, <2>4
<1>2. p \in 0..Len(m) /\ p \in Nat /\ cc \in Nat
  BY <1>1
<1>3. s \in Numbers /\ t \in Numbers
  BY <1>2, OwedType
<1>4. running' = [cc |-> cc, pcc |-> p, rest |-> Tail(m[k].owed),
                  after |-> SubSeq(OwedIn(m, k) \o t, Len(m[k].owed) + 1, Len(OwedIn(m, k) \o t))]
  BY DEF K!Enter, K!Running
<1> HIDE DEF p, s, t
<1>5. <<k>> \o s \in Numbers /\ Tail(<<k>> \o s) = s /\ ((<<k>> \o s) \o t)[1] = k /\ (<<k>> \o s) \o t # <<>>
  <2>1. k \in 1..MaxMade
    BY <1>1, ContinuationsAssumption DEF K!ContinuationsAssumption
  <2>2. <<k>> \o s \in Numbers /\ Tail(<<k>> \o s) = s
    BY <1>3, <2>1, HeadFacts
  <2>3. ((<<k>> \o s) \o t)[1] = k /\ (<<k>> \o s) \o t # <<>>
    BY <1>3, <2>1, HeadFacts
  <2>4. QED
    BY <2>2, <2>3
<1>5a. <<k>> \o s # <<>> /\ (<<k>> \o s)[1] = k
  <2>1. k \in 1..MaxMade
    BY <1>1, ContinuationsAssumption DEF K!ContinuationsAssumption
  <2>2. QED
    BY <1>3, <2>1, HeadFacts
<1>6. SubSeq((<<k>> \o s) \o t, Len(<<k>> \o s) + 1, Len((<<k>> \o s) \o t)) = t
  BY <1>3, <1>5, ListFacts
<1>7. running' = [cc |-> cc, pcc |-> p, rest |-> s, after |-> t]
  BY <1>1, <1>4, <1>5, <1>6
<1>8. running' \in BodyType
  BY <1>2, <1>3, <1>7 DEF BodyType
<1>9. Keeps(m, running')
  BY <1>2, <1>7 DEF Keeps, s, t
<1> QED
  BY <1>1, <1>5, <1>5a, <1>8, <1>9 DEF t

\* A jump goes where something is owed.
LEMMA Jumped ==
  ASSUME NEW m \in Seq(ObjectType), AllMatch(m), Len(m) <= MaxMade, callers \in Seq(BodyType), callers # <<>>,
         \A i \in 1..Len(callers) : Keeps(m, callers[i]),
         NEW k \in 0..Len(m), NEW with \in BOOLEAN, with => k # 0, NEW cc \in 0..Len(m), ~with => cc = 0,
         broken = {}, due \in Numbers, K!RunsWhatIsDue,
         K!Jump(m, k, with, cc, OwedIn(m, k) \o OwedIn(m, cc)), kept' = kept, kept \in 0..Len(m),
         running \in BodyType
  PROVE  KInv'
<1> DEFINE list == OwedIn(m, k) \o OwedIn(m, cc)
<1>1. /\ conts' = m /\ OwedIn(m, 0) = <<>> /\ Len(callers) \in Nat \ {0}
      /\ OwedIn(m, k) \in Numbers /\ OwedIn(m, cc) \in Numbers
  BY OwedType DEF K!Jump, OwedIn
<1>2. list \in Numbers
  BY <1>1, ListFacts
<1>2a. Bounded(m) /\ \A r : Keeps(m, r) => Refers(m, r)
  BY DEF AllMatch, Matches, Bounded, Refers, Keeps
<1> HIDE DEF list
<1>3. \/ k = 0
      \/ k # 0 /\ m[k].kind = "cont"
      \/ k # 0 /\ m[k].kind = "chain"
  BY DEF K!Jump
<1>4. CASE k = 0
  <2>1. /\ running' = callers[Len(callers)] /\ callers' = SubSeq(callers, 1, Len(callers) - 1)
        /\ due' = list /\ ran' = 0 /\ broken' = broken
    BY <1>4 DEF K!Jump, list
  <2>2. list = <<>>
    <3>1. cc = 0
      BY <1>4
    <3>2. <<>> \o <<>> = <<>>
      OBVIOUS
    <3>3. QED
      BY <1>1, <1>4, <3>1, <3>2 DEF list
  <2>3. /\ callers' \in Seq(BodyType) /\ running' \in BodyType
        /\ Len(callers') = Len(callers) - 1
        /\ \A i \in 1..Len(callers') : i \in 1..Len(callers) /\ callers'[i] = callers[i]
    <3>1. QED
      BY <2>1, Shortened
  <2>4. Keeps(m, running') /\ \A i \in 1..Len(callers') : Keeps(m, callers'[i])
    BY <1>1, <2>1, <2>3
  <2>5. KTypes'
    BY <1>1, <1>2, <1>2a, <2>1, <2>3, <2>4 DEF KTypes
  <2>6. PromisesMatch'
    BY <1>1, <2>4 DEF PromisesMatch
  <2>7. K!RunsWhatIsDue'
    BY <2>1, <2>2 DEF K!RunsWhatIsDue, K!Nothing
  <2>8. QED
    BY <2>5, <2>6, <2>7 DEF KInv
<1>5. CASE k # 0 /\ m[k].kind = "cont"
  <2>1. /\ K!Enter(m, k, cc, list) /\ due' = list /\ ran' = k /\ UNCHANGED <<callers, broken>>
    BY <1>5 DEF K!Jump, list
  <2>2. running' \in BodyType /\ Keeps(m, running') /\ list # <<>> /\ list[1] = k
    BY <1>5, <2>1, Entered DEF list
  <2>3. KTypes'
    BY <1>1, <1>2, <1>2a, <2>1, <2>2 DEF KTypes
  <2>4. PromisesMatch'
    BY <1>1, <2>1, <2>2 DEF PromisesMatch
  <2>5. K!RunsWhatIsDue'
    BY <2>1, <2>2 DEF K!RunsWhatIsDue, K!Nothing
  <2>6. QED
    BY <2>3, <2>4, <2>5 DEF KInv
<1>6. CASE k # 0 /\ m[k].kind = "chain"
  <2>1. CASE with \/ m[m[k].first].kind = "chain"
    <3>1. K!Raise
      BY <1>6, <2>1 DEF K!Jump
    <3>2. running' \in BodyType
      BY <3>1 DEF K!Raise, K!Outside, K!Running, BodyType, Numbers
    <3>3. Refers(m, running')
      BY <3>1 DEF K!Raise, K!Outside, K!Running, Refers
    <3>4. KTypes' /\ PromisesMatch' /\ K!RunsWhatIsDue'
      BY <1>1, <1>2a, <3>1, <3>2, <3>3 DEF K!Raise, KTypes, PromisesMatch, K!RunsWhatIsDue, K!Nothing
    <3>5. QED
      BY <3>4 DEF KInv
  <2>2. CASE ~(with \/ m[m[k].first].kind = "chain")
    <3> DEFINE p == m[k].first
               q == m[k].second
    <3>1. /\ K!Enter(m, p, q, list) /\ due' = list /\ ran' = p /\ UNCHANGED <<callers, broken>>
      BY <1>6, <2>2 DEF K!Jump, list
    <3>2. /\ m[k] \in ObjectType /\ p \in 0..k - 1 /\ q \in 0..k - 1 /\ p # 0
          /\ OwedIn(m, k) = OwedIn(m, p) \o OwedIn(m, q)
      <4>1. Matches(m, k) /\ k \in 1..Len(m)
        BY <1>6 DEF AllMatch
      <4>2. p \in 0..k - 1 /\ q \in 0..k - 1 /\ p # 0 /\ m[k].owed = OwedIn(m, p) \o OwedIn(m, q)
        BY <1>6, <4>1 DEF Matches
      <4>3. m[k] \in ObjectType /\ OwedIn(m, k) = m[k].owed
        BY <1>6, <4>1 DEF OwedIn
      <4>4. QED
        BY <4>2, <4>3
    <3>3. p \in 1..Len(m) /\ q \in 0..Len(m) /\ m[p].kind = "cont"
      <4>1. p \in 1..Len(m) /\ q \in 0..Len(m)
        BY <3>2
      <4>2. m[p] \in ObjectType
        BY <4>1
      <4>3. QED
        BY <2>2, <4>1, <4>2 DEF ObjectType
    <3>4. list = OwedIn(m, p) \o OwedIn(m, q)
      <4>1. cc = 0
        BY <2>2
      <4>2. OwedIn(m, k) \o <<>> = OwedIn(m, k)
        BY <1>1 DEF Numbers
      <4>3. QED
        BY <1>1, <3>2, <4>1, <4>2 DEF list
    <3> HIDE DEF p, q
    <3>5. running' \in BodyType /\ Keeps(m, running') /\ list # <<>> /\ list[1] = p
      BY <3>1, <3>3, <3>4, Entered
    <3>6. KTypes'
      BY <1>1, <1>2, <1>2a, <3>1, <3>5 DEF KTypes
    <3>7. PromisesMatch'
      BY <1>1, <3>1, <3>5 DEF PromisesMatch
    <3>8. K!RunsWhatIsDue'
      BY <3>1, <3>5 DEF K!RunsWhatIsDue, K!Nothing
    <3>9. QED
      BY <3>6, <3>7, <3>8 DEF KInv
  <2>3. QED
    BY <2>1, <2>2
<1> QED
  BY <1>3, <1>4, <1>5, <1>6

\* chain_conts: what is owed for the result is the one and then the other.
LEMMA ChainOwes ==
  ASSUME conts \in Seq(ObjectType), AllMatch(conts), NEW r, Keeps(conts, r), r \in BodyType,
         NEW cc \in 0..Len(conts)
  PROVE  LET owed == r.rest \o OwedIn(conts, cc)
             c == K!Chained(r.pcc, cc, owed)
         IN  /\ c.made \in Seq(ObjectType) /\ AllMatch(c.made) /\ Len(conts) <= Len(c.made)
             /\ Len(c.made) \in Nat /\ Len(conts) \in Nat
             /\ Len(c.made) <= IF r.pcc = 0 THEN Len(conts) ELSE Len(conts) + 1
             /\ c.cc \in 0..Len(c.made) /\ OwedIn(c.made, c.cc) = owed /\ owed \in Numbers
             /\ \A k \in 0..Len(conts) : OwedIn(c.made, k) = OwedIn(conts, k)
             /\ \A q : Keeps(conts, q) => Keeps(c.made, q)
<1> DEFINE owed == r.rest \o OwedIn(conts, cc)
           c == K!Chained(r.pcc, cc, owed)
<1>1. /\ r.pcc \in 0..Len(conts) /\ r.rest = OwedIn(conts, r.pcc) /\ Len(conts) \in Nat
      /\ OwedIn(conts, cc) \in Numbers /\ r.rest \in Numbers
  BY OwedType DEF Keeps
<1>2. owed \in Numbers
  BY <1>1, ListFacts
<1>3. CASE r.pcc = 0
  <2>1. c.cc = cc /\ c.made = conts
    BY <1>3 DEF K!Chained
  <2>2. owed = OwedIn(conts, cc)
    <3>1. r.rest = <<>>
      BY <1>1, <1>3 DEF OwedIn
    <3>2. <<>> \o OwedIn(conts, cc) = OwedIn(conts, cc)
      BY <1>1, ListFacts
    <3>3. QED
      BY <3>1, <3>2
  <2> HIDE DEF owed, c
  <2>3. QED
    BY <1>1, <1>2, <2>1, <2>2 DEF owed, c
<1>4. CASE r.pcc # 0
  <2> DEFINE o == K!Chain(r.pcc, cc, owed)
  <2>1. c.cc = Len(conts) + 1 /\ c.made = Append(conts, o)
    BY <1>4 DEF K!Chained
  <2>2. /\ o.kind = "chain" /\ o.first = r.pcc /\ o.second = cc /\ o.owed = owed
        /\ o \in ObjectType
    BY <1>1, <1>2 DEF K!Chain, ObjectType
  <2> HIDE DEF owed, c, o
  <2>3. /\ c.made \in Seq(ObjectType) /\ Len(c.made) = Len(conts) + 1 /\ c.made[Len(conts) + 1] = o
        /\ \A k \in 0..Len(conts) : OwedIn(c.made, k) = OwedIn(conts, k)
        /\ \A q : Keeps(conts, q) => Keeps(c.made, q)
        /\ AllMatch(conts) /\ Matches(c.made, Len(conts) + 1) => AllMatch(c.made)
    BY <2>1, <2>2, Appended
  <2>4. c.cc # 0 /\ c.cc \in 0..Len(c.made) /\ OwedIn(c.made, c.cc) = owed
    BY <1>1, <2>1, <2>2, <2>3 DEF OwedIn
  <2>5. Matches(c.made, Len(conts) + 1)
    <3>1. /\ 0..(Len(conts) + 1) - 1 = 0..Len(conts)
          /\ r.pcc \in 0..Len(conts) /\ cc \in 0..Len(conts)
      BY <1>1
    <3>2. owed = OwedIn(c.made, r.pcc) \o OwedIn(c.made, cc)
      BY <1>1, <2>3, <3>1 DEF owed
    <3>3. QED
      BY <1>4, <2>2, <2>3, <3>1, <3>2 DEF Matches
  <2>6. Len(c.made) \in Nat /\ Len(conts) <= Len(c.made)
        /\ Len(c.made) <= IF r.pcc = 0 THEN Len(conts) ELSE Len(conts) + 1
    BY <1>1, <1>4, <2>3
  <2>7. QED
    BY <1>1, <1>2, <2>3, <2>4, <2>5, <2>6 DEF owed, c
<1>5. QED
  BY <1>3, <1>4

LEMMA KInit == K!Init => KInv
<1> SUFFICES ASSUME K!Init PROVE KInv
  OBVIOUS
<1> USE DEF K!Init, K!Outside, K!Running, K!Nothing
<1>1. \A S : <<>> \in Seq(S)
  OBVIOUS
<1>2. conts = <<>> /\ Len(conts) = 0 /\ callers = <<>> /\ Len(callers) = 0 /\ kept = 0 /\ due = <<>> /\ ran = 0
  OBVIOUS
<1>3. KTypes
  <2>1. conts \in Seq(ObjectType) /\ callers \in Seq(BodyType) /\ <<>> \in Numbers
    BY <1>1, <1>2 DEF Numbers
  <2>2. running \in BodyType
    BY <2>1 DEF BodyType
  <2>3. QED
    BY <1>2, <2>1, <2>2, ContinuationsAssumption DEF KTypes, Bounded, Refers, K!ContinuationsAssumption
<1>4. PromisesMatch
  <2>1. AllMatch(conts) /\ \A i \in 1..Len(callers) : Keeps(conts, callers[i])
    BY <1>2 DEF AllMatch
  <2>2. Keeps(conts, running)
    BY <1>2 DEF Keeps, OwedIn
  <2>3. QED
    BY <2>1, <2>2 DEF PromisesMatch
<1> QED
  BY <1>2, <1>3, <1>4 DEF KInv, K!RunsWhatIsDue

\* A return ends the call, or goes on where it should.
LEMMA KReturn == KInv /\ K!Return => KInv'
<1> SUFFICES ASSUME KInv, K!Return PROVE KInv'
  OBVIOUS
<1>1. /\ callers # <<>> /\ broken = {} /\ kept' = kept /\ KTypes /\ K!RunsWhatIsDue
      /\ AllMatch(conts) /\ Keeps(conts, running) /\ \A i \in 1..Len(callers) : Keeps(conts, callers[i])
  BY DEF K!Return, K!InBody, KInv, PromisesMatch
<1>2. /\ conts \in Seq(ObjectType) /\ running \in BodyType /\ callers \in Seq(BodyType)
      /\ kept \in 0..Len(conts) /\ due \in Numbers /\ Len(conts) \in Nat /\ 0 \in 0..Len(conts)
      /\ Len(conts) <= MaxMade
  BY <1>1 DEF KTypes, Bounded
<1>3. /\ running.cc \in 0..Len(conts) /\ running.pcc \in 0..Len(conts)
      /\ K!Promised = OwedIn(conts, running.pcc) \o OwedIn(conts, running.cc)
  BY <1>1 DEF Keeps, K!Promised
<1>4. CASE running.pcc = 0
  <2>1. K!Promised = OwedIn(conts, running.cc) \o OwedIn(conts, 0)
    <3>1. OwedIn(conts, 0) = <<>>
      BY DEF OwedIn
    <3>2. OwedIn(conts, running.cc) \in Numbers
      BY <1>2, <1>3, OwedType
    <3>3. <<>> \o OwedIn(conts, running.cc) = OwedIn(conts, running.cc) \o <<>>
      BY <3>2, ListFacts
    <3>4. QED
      BY <1>3, <1>4, <3>1, <3>3
  <2>2. K!Jump(conts, running.cc, FALSE, 0, OwedIn(conts, running.cc) \o OwedIn(conts, 0))
    BY <1>4, <2>1 DEF K!Return
  <2>3. QED
    BY <1>1, <1>2, <1>3, <2>2, Jumped
<1>5. CASE running.pcc # 0
  <2>1. K!Jump(conts, running.pcc, TRUE, running.cc, OwedIn(conts, running.pcc) \o OwedIn(conts, running.cc))
    BY <1>3, <1>5 DEF K!Return
  <2>2. QED
    BY <1>1, <1>2, <1>3, <1>5, <2>1, Jumped
<1> QED
  BY <1>4, <1>5

\* What the steps of bodies start from, and what they leave
Promising ==
  /\ conts \in Seq(ObjectType) /\ running \in BodyType /\ callers \in Seq(BodyType)
  /\ kept \in 0..Len(conts) /\ due \in Numbers /\ K!RunsWhatIsDue
  /\ Len(conts) \in Nat /\ Len(conts) <= MaxMade
  /\ AllMatch(conts) /\ Keeps(conts, running) /\ \A i \in 1..Len(callers) : Keeps(conts, callers[i])

LEMMA IsPromising == KInv /\ broken = {} => Promising /\ \A k : K!Owed(k) = OwedIn(conts, k)
  BY DEF KInv, KTypes, Bounded, PromisesMatch, Promising, K!Owed, OwedIn, K!Nothing

LEMMA Promises == Promising' /\ broken' = {} => KInv'
<1> SUFFICES ASSUME Promising', broken' = {} PROVE KInv'
  OBVIOUS
<1>1. Bounded(conts') /\ Refers(conts', running')
  BY DEF Promising, AllMatch, Matches, Bounded, Refers, Keeps
<1> QED
  BY <1>1 DEF KInv, KTypes, PromisesMatch, Promising

\* A body starts with continuation cc, and no _pcc.
LEMMA Started ==
  ASSUME NEW m \in Seq(ObjectType), NEW cc \in 0..Len(m),
         running' = K!Running(cc, 0, <<>>, OwedIn(m, cc))
  PROVE  running' \in BodyType /\ Keeps(m, running')
<1>1. OwedIn(m, cc) \in Numbers /\ <<>> \in Numbers /\ cc \in Nat /\ 0 \in 0..Len(m)
  <2>1. <<>> \in Seq(1..MaxMade) /\ cc \in Nat /\ 0 \in 0..Len(m)
    OBVIOUS
  <2>2. QED
    BY <2>1, OwedType DEF Numbers
<1>2. running' = [cc |-> cc, pcc |-> 0, rest |-> <<>>, after |-> OwedIn(m, cc)]
  BY DEF K!Running
<1>3. OwedIn(m, 0) = <<>>
  BY DEF OwedIn
<1> QED
  BY <1>1, <1>2, <1>3 DEF BodyType, Keeps

\* return k(value)
LEMMA KResume == KInv /\ K!Resume => KInv'
<1> SUFFICES ASSUME KInv, K!Resume PROVE KInv'
  OBVIOUS
<1> DEFINE c == K!Chained(running.pcc, running.cc, K!Promised)
<1>1. /\ callers # <<>> /\ broken = {} /\ kept' = kept /\ kept # 0
      /\ K!Jump(c.made, kept, TRUE, c.cc, K!Owed(kept) \o K!Promised)
  BY DEF K!Resume, K!InBody
<1>2. Promising /\ K!Owed(kept) = OwedIn(conts, kept)
  BY <1>1, IsPromising
<1>3. running.cc \in 0..Len(conts) /\ K!Promised = running.rest \o OwedIn(conts, running.cc)
  BY <1>2 DEF Promising, Keeps, K!Promised
<1>4. /\ c.made \in Seq(ObjectType) /\ AllMatch(c.made) /\ Len(conts) <= Len(c.made)
      /\ Len(c.made) \in Nat /\ Len(conts) \in Nat
      /\ c.cc \in 0..Len(c.made) /\ OwedIn(c.made, c.cc) = K!Promised
      /\ \A k \in 0..Len(conts) : OwedIn(c.made, k) = OwedIn(conts, k)
      /\ \A q : Keeps(conts, q) => Keeps(c.made, q)
      /\ Len(c.made) <= IF running.pcc = 0 THEN Len(conts) ELSE Len(conts) + 1
  BY <1>2, <1>3, ChainOwes DEF Promising
<1> HIDE DEF c
<1>5. kept \in 0..Len(c.made) /\ kept \in 0..Len(conts)
  BY <1>2, <1>4 DEF Promising
<1>5a. Len(c.made) <= MaxMade
  <2>1. running.pcc # 0 => Len(conts) < MaxMade
    BY DEF K!Resume, K!ChainFits, K!Room
  <2>2. QED
    BY <1>2, <1>4, <2>1, ContinuationsAssumption DEF Promising, K!ContinuationsAssumption
<1>6. K!Jump(c.made, kept, TRUE, c.cc, OwedIn(c.made, kept) \o OwedIn(c.made, c.cc))
  BY <1>1, <1>2, <1>4, <1>5
<1>7. /\ callers \in Seq(BodyType) /\ due \in Numbers /\ K!RunsWhatIsDue /\ running \in BodyType
      /\ \A i \in 1..Len(callers) : Keeps(c.made, callers[i])
  BY <1>2, <1>4 DEF Promising
<1> QED
  BY <1>1, <1>4, <1>5, <1>5a, <1>6, <1>7, Jumped

\* return g(), return g(cc=k)
LEMMA KTailCall ==
  ASSUME KInv, NEW cc \in {running.cc, kept}, K!TailCall(cc, OwedIn(conts, cc))
  PROVE  KInv'
<1> DEFINE owed == running.rest \o OwedIn(conts, cc)
           c == K!Chained(running.pcc, cc, owed)
<1>1. /\ broken = {} /\ conts' = c.made /\ running' = K!Running(c.cc, 0, <<>>, owed)
      /\ UNCHANGED <<callers, kept, broken, due, ran>>
  BY DEF K!TailCall, K!InBody, K!NoReturn, K!Nothing
<1>2. Promising
  BY <1>1, IsPromising
<1>3. cc \in 0..Len(conts)
  BY <1>2 DEF Promising, Keeps
<1>4. /\ c.made \in Seq(ObjectType) /\ AllMatch(c.made) /\ Len(conts) <= Len(c.made)
      /\ Len(c.made) \in Nat /\ Len(conts) \in Nat
      /\ c.cc \in 0..Len(c.made) /\ OwedIn(c.made, c.cc) = owed
      /\ \A k \in 0..Len(conts) : OwedIn(c.made, k) = OwedIn(conts, k)
      /\ \A q : Keeps(conts, q) => Keeps(c.made, q)
      /\ Len(c.made) <= IF running.pcc = 0 THEN Len(conts) ELSE Len(conts) + 1
  BY <1>2, <1>3, ChainOwes DEF Promising
<1> HIDE DEF c, owed
<1>5. running' \in BodyType /\ Keeps(c.made, running')
  BY <1>1, <1>4, Started
<1>6. kept \in 0..Len(c.made)
  BY <1>2, <1>4 DEF Promising
<1>6a. Len(c.made) <= MaxMade
  <2>1. running.pcc # 0 => Len(conts) < MaxMade
    BY DEF K!TailCall, K!ChainFits, K!Room
  <2>2. QED
    BY <1>2, <1>4, <2>1, ContinuationsAssumption DEF Promising, K!ContinuationsAssumption
<1>7. Promising'
  BY <1>1, <1>2, <1>4, <1>5, <1>6, <1>6a DEF Promising, K!RunsWhatIsDue
<1> QED
  BY <1>1, <1>7, Promises

\* Normal calls
LEMMA KCall == KInv /\ (K!Call \/ K!CallKept) => KInv'
<1> SUFFICES ASSUME KInv, K!Call \/ K!CallKept PROVE KInv'
  OBVIOUS
<1>1. /\ broken = {} /\ UNCHANGED <<conts, kept, due, ran>>
  BY DEF K!Call, K!CallKept, K!NoReturn
<1>2. Promising /\ \A k : K!Owed(k) = OwedIn(conts, k)
  BY <1>1, IsPromising
<1>3. CASE /\ callers' = Append(callers, running) /\ broken' = broken
           /\ running' \in BodyType /\ Keeps(conts, running')
  <2>1. /\ callers' \in Seq(BodyType) /\ Len(callers') = Len(callers) + 1 /\ Len(callers) \in Nat
        /\ callers'[Len(callers) + 1] = running /\ \A i \in 1..Len(callers) : callers'[i] = callers[i]
    BY <1>2, <1>3 DEF Promising
  <2>2. \A i \in 1..Len(callers') : i \in 1..Len(callers) \/ i = Len(callers) + 1
    BY <2>1
  <2>3. \A i \in 1..Len(callers') : Keeps(conts, callers'[i])
    BY <1>2, <2>1, <2>2 DEF Promising
  <2>4. Promising'
    BY <1>1, <1>2, <1>3, <2>1, <2>3 DEF Promising, K!RunsWhatIsDue
  <2>5. QED
    BY <1>1, <1>3, <2>4, Promises
<1>4. CASE K!Call
  <2>1. running' = K!Running(0, 0, <<>>, OwedIn(conts, 0)) /\ 0 \in 0..Len(conts)
    BY <1>2, <1>4 DEF K!Call, OwedIn, K!Nothing, Promising
  <2>2. running' \in BodyType /\ Keeps(conts, running')
    BY <1>2, <2>1, Started DEF Promising
  <2>3. QED
    BY <1>3, <1>4, <2>2 DEF K!Call
<1>5. CASE K!CallKept /\ conts[kept].kind = "cont"
  <2>1. /\ kept \in 1..Len(conts) /\ 0 \in 0..Len(conts)
        /\ OwedIn(conts, kept) \in Numbers /\ OwedIn(conts, 0) = <<>>
    BY <1>2, <1>5, OwedType DEF K!CallKept, Promising, OwedIn
  <2>2. OwedIn(conts, kept) \o <<>> = OwedIn(conts, kept)
    BY <2>1, ListFacts
  <2>3. K!Enter(conts, kept, 0, OwedIn(conts, kept) \o OwedIn(conts, 0))
    BY <1>2, <1>5, <2>1, <2>2 DEF K!CallKept
  <2>4. running' \in BodyType /\ Keeps(conts, running')
    BY <1>2, <1>5, <2>1, <2>3, Entered DEF Promising
  <2>5. QED
    BY <1>3, <1>5, <2>4 DEF K!CallKept
<1>6. CASE K!CallKept /\ conts[kept].kind # "cont"
  <2>1. broken' = {"unclaimed"} /\ UNCHANGED <<callers, running>>
    BY <1>6 DEF K!CallKept
  <2>2. QED
    BY <1>1, <1>2, <2>1 DEF KInv, KTypes, PromisesMatch, Promising, K!RunsWhatIsDue
<1> QED
  BY <1>4, <1>5, <1>6

\* A new continuation, with parent p, owes itself and then what the parent owes.
LEMMA ContOwes ==
  ASSUME Promising, NEW p \in 0..Len(conts), NEW owed \in Numbers,
         conts' = Append(conts, K!Cont(p, owed))
  PROVE  /\ conts' \in Seq(ObjectType) /\ Len(conts') = Len(conts) + 1 /\ Len(conts') \in 1..Len(conts')
         /\ conts'[Len(conts')] = [kind |-> "cont", first |-> p, second |-> 0, owed |-> owed]
         /\ OwedIn(conts', Len(conts')) = owed
         /\ kept \in 0..Len(conts')
         /\ \A q : Keeps(conts, q) => Keeps(conts', q)
         /\ \A k \in 0..Len(conts) : OwedIn(conts', k) = OwedIn(conts, k)
         /\ owed = <<Len(conts')>> \o OwedIn(conts, p) => AllMatch(conts')
         /\ Len(conts) < MaxMade => Bounded(conts')
<1> DEFINE o == [kind |-> "cont", first |-> p, second |-> 0, owed |-> owed]
<1>1. o \in ObjectType /\ conts' = Append(conts, o) /\ conts \in Seq(ObjectType)
  BY DEF K!Cont, ObjectType, Promising
<1>2. o.kind = "cont" /\ o.first = p /\ o.second = 0 /\ o.owed = owed
  OBVIOUS
<1> HIDE DEF o
<1>3. /\ conts' \in Seq(ObjectType) /\ Len(conts') = Len(conts) + 1 /\ conts'[Len(conts) + 1] = o
      /\ Len(conts) \in Nat
      /\ \A k \in 0..Len(conts) : OwedIn(conts', k) = OwedIn(conts, k)
      /\ \A q : Keeps(conts, q) => Keeps(conts', q)
      /\ AllMatch(conts) /\ Matches(conts', Len(conts) + 1) => AllMatch(conts')
  BY <1>1, Appended
<1>4. Len(conts') \in 1..Len(conts') /\ Len(conts') # 0 /\ kept \in 0..Len(conts')
  BY <1>3 DEF Promising
<1>5. OwedIn(conts', Len(conts')) = owed
  BY <1>2, <1>3, <1>4 DEF OwedIn
<1>6. ASSUME owed = <<Len(conts')>> \o OwedIn(conts, p) PROVE AllMatch(conts')
  <2>1. 0..(Len(conts) + 1) - 1 = 0..Len(conts) /\ 0 \in 0..Len(conts)
    BY <1>3
  <2>2. Matches(conts', Len(conts) + 1)
    BY <1>2, <1>3, <1>6, <2>1 DEF Matches
  <2>3. QED
    BY <1>3, <2>2 DEF Promising
<1>7. ASSUME Len(conts) < MaxMade PROVE Bounded(conts')
  <2>1. Len(conts') <= MaxMade
    BY <1>3, <1>7, ContinuationsAssumption DEF K!ContinuationsAssumption
  <2>2. \A k \in 1..Len(conts') : k \in 1..Len(conts) \/ k = Len(conts) + 1
    BY <1>3
  <2>3. \A k \in 1..Len(conts) : conts'[k] = conts[k]
    BY <1>1
  <2>4. \A k \in 1..Len(conts) : conts[k].first \in 0..k - 1 /\ conts[k].second \in 0..k - 1
    BY DEF Promising, AllMatch, Matches
  <2>5. 0..(Len(conts) + 1) - 1 = 0..Len(conts) /\ 0 \in 0..Len(conts)
    BY <1>3
  <2>6. QED
    BY <1>2, <1>3, <2>1, <2>2, <2>3, <2>4, <2>5 DEF Bounded
<1> QED
  BY <1>3, <1>4, <1>5, <1>6, <1>7, <1>1 DEF o

\* call_cc[] at the top level
LEMMA KTopCallCc == KInv /\ K!TopCallCc => KInv'
<1> SUFFICES ASSUME KInv, K!TopCallCc PROVE KInv'
  OBVIOUS
<1>1. /\ broken = {} /\ UNCHANGED <<kept, broken, due, ran>>
      /\ conts' = Append(conts, K!Cont(0, <<Len(conts) + 1>>)) /\ callers' = <<running>>
      /\ running' = K!Running(Len(conts'), 0, <<>>, conts'[Len(conts')].owed)
  BY DEF K!TopCallCc, K!NoReturn, K!Nothing
<1>2. Promising
  BY <1>1, IsPromising
<1> DEFINE owed == <<Len(conts) + 1>>
<1>3. owed \in Numbers /\ 0 \in 0..Len(conts) /\ OwedIn(conts, 0) = <<>> /\ Len(conts) < MaxMade
  <2>1. Len(conts) < MaxMade /\ Len(conts) \in Nat
    BY <1>2 DEF Promising, K!TopCallCc, K!Room
  <2>2. Len(conts) + 1 \in 1..MaxMade
    BY <2>1, ContinuationsAssumption DEF K!ContinuationsAssumption
  <2>3. owed \in Seq(1..MaxMade)
    BY <2>2
  <2>4. QED
    BY <2>1, <2>3 DEF Numbers, OwedIn
<1> HIDE DEF owed
<1>4. /\ conts' \in Seq(ObjectType) /\ Len(conts') = Len(conts) + 1 /\ Len(conts') \in 1..Len(conts')
      /\ conts'[Len(conts')] = [kind |-> "cont", first |-> 0, second |-> 0, owed |-> owed]
      /\ OwedIn(conts', Len(conts')) = owed
      /\ kept \in 0..Len(conts')
      /\ \A q : Keeps(conts, q) => Keeps(conts', q)
      /\ owed = <<Len(conts')>> \o OwedIn(conts, 0) => AllMatch(conts')
      /\ Bounded(conts')
  BY <1>1, <1>2, <1>3, ContOwes DEF owed
<1>5. AllMatch(conts')
  <2>1. Len(conts) + 1 \in Nat
    BY <1>2 DEF Promising
  <2>2. owed = <<Len(conts')>> \o <<>>
    BY <1>4, <2>1 DEF owed
  <2>3. QED
    BY <1>3, <1>4, <2>2
<1>6. running' \in BodyType /\ Keeps(conts', running')
  <2>1. running' = K!Running(Len(conts'), 0, <<>>, OwedIn(conts', Len(conts'))) /\ Len(conts') \in 0..Len(conts')
    BY <1>1, <1>4
  <2>2. QED
    BY <1>4, <2>1, Started
<1>7. callers' \in Seq(BodyType) /\ \A i \in 1..Len(callers') : Keeps(conts', callers'[i])
  <2>1. running \in BodyType /\ Keeps(conts', running)
    BY <1>2, <1>4 DEF Promising
  <2>2. callers' \in Seq(BodyType) /\ Len(callers') = 1 /\ callers'[1] = running
    BY <1>1, <2>1
  <2>3. \A i \in 1..Len(callers') : i = 1
    BY <2>2
  <2>4. QED
    BY <2>1, <2>2, <2>3
<1>8. Len(conts') \in Nat /\ Len(conts') <= MaxMade
  <2>1. Len(conts) \in Nat
    BY <1>2 DEF Promising
  <2>2. QED
    BY <1>3, <1>4, <2>1, ContinuationsAssumption DEF K!ContinuationsAssumption
<1>9. Promising'
  BY <1>1, <1>2, <1>4, <1>5, <1>6, <1>7, <1>8 DEF Promising, K!RunsWhatIsDue
<1> QED
  BY <1>1, <1>9, Promises

\* call_cc[] in a body: the rest of the body becomes a continuation.
LEMMA KCaptured == KInv /\ (K!CallCc \/ K!CallNone \/ K!GetCc) => KInv'
<1> SUFFICES ASSUME KInv, K!CallCc \/ K!CallNone \/ K!GetCc PROVE KInv'
  OBVIOUS
<1> DEFINE n == Len(conts')
           owed == <<Len(conts) + 1>> \o K!Promised
<1>1. /\ broken = {} /\ UNCHANGED <<callers, due, ran>> /\ K!Lost \subseteq broken'
      /\ conts' = Append(conts, K!Cont(running.cc, owed))
  BY DEF K!CallCc, K!CallNone, K!GetCc, K!NoReturn, K!InBody, K!NewCont
<1>2. Promising
  BY <1>1, IsPromising
<1>2a. Len(conts) + 1 \in 1..MaxMade /\ Len(conts) < MaxMade
  <2>1. Len(conts) < MaxMade /\ Len(conts) \in Nat
    BY <1>2 DEF Promising, K!CallCc, K!CallNone, K!GetCc, K!Room
  <2>2. QED
    BY <2>1, ContinuationsAssumption DEF K!ContinuationsAssumption
<1>3. /\ running.cc \in 0..Len(conts) /\ running.pcc \in 0..Len(conts) /\ Len(conts) + 1 \in Nat
      /\ running.rest \in Numbers /\ running.after \in Numbers
      /\ running.after = OwedIn(conts, running.cc)
  BY <1>2 DEF Promising, Keeps, BodyType
<1>4. K!Promised \in Numbers
  BY <1>3, ListFacts DEF K!Promised
<1>5. owed \in Numbers /\ Tail(owed) = K!Promised
  BY <1>2a, <1>4, HeadFacts
<1> HIDE DEF owed
<1>6. /\ conts' \in Seq(ObjectType) /\ n = Len(conts) + 1 /\ n \in 1..n
      /\ conts'[n] = [kind |-> "cont", first |-> running.cc, second |-> 0, owed |-> owed]
      /\ OwedIn(conts', n) = owed
      /\ kept \in 0..n
      /\ \A q : Keeps(conts, q) => Keeps(conts', q)
      /\ \A k \in 0..Len(conts) : OwedIn(conts', k) = OwedIn(conts, k)
      /\ owed = <<n>> \o OwedIn(conts, running.cc) => AllMatch(conts')
      /\ Bounded(conts')
  BY <1>1, <1>2, <1>2a, <1>3, <1>5, ContOwes
<1>7. running.cc \in Nat /\ n \in Nat /\ <<>> \in Numbers /\ conts'[n].owed = owed /\ conts'[n].first = running.cc
      /\ 0 \in 0..n /\ n \in 0..n
  <2>1. <<>> \in Seq(1..MaxMade)
    OBVIOUS
  <2>2. QED
    BY <1>3, <1>6, <2>1 DEF Numbers
<1> HIDE DEF n
<1>8. \/ running' = K!Running(n, 0, <<>>, owed)
      \/ running' = K!Running(running.cc, running.cc, K!Promised, <<>>) /\ (broken' = {} => running.cc = 0)
      \/ running' = K!Running(0, running.cc, K!Promised, <<>>)
  <2>1. CASE K!CallCc
    BY <1>7, <2>1 DEF K!CallCc, K!Nothing, n
  <2>2. CASE K!CallNone
    BY <2>2 DEF K!CallNone, K!Nothing
  <2>3. CASE K!GetCc
    <3>1. running' = K!Running(0, conts'[n].first, Tail(conts'[n].owed),
                               SubSeq(conts'[n].owed, Len(conts'[n].owed) + 1, Len(conts'[n].owed)))
      BY <2>3 DEF K!GetCc, K!Enter, n
    <3>2. SubSeq(owed, Len(owed) + 1, Len(owed)) = <<>>
      BY <1>5, ListFacts
    <3>3. QED
      BY <1>5, <1>7, <3>1, <3>2
  <2>4. QED
    BY <2>1, <2>2, <2>3
<1>9. kept' \in 0..n
  <2>1. kept' = kept \/ kept' = n
    BY DEF K!CallCc, K!CallNone, K!GetCc, n
  <2>2. QED
    BY <1>6, <1>7, <2>1
<1>10. running' \in BodyType
  BY <1>4, <1>5, <1>7, <1>8 DEF K!Running, BodyType
<1>11. KTypes'
  <2>1. running.cc \in 0..n
    BY <1>3, <1>6
  <2>2. Refers(conts', running')
    BY <1>7, <1>8, <2>1 DEF Refers, K!Running, n
  <2>3. broken' \subseteq {"sequence", "none", "chain", "unclaimed"}
    BY <1>1 DEF K!CallCc, K!CallNone, K!GetCc, K!Lost
  <2>4. QED
    BY <1>1, <1>2, <1>6, <1>9, <1>10, <2>2, <2>3 DEF KTypes, Promising, n
<1>12. ASSUME broken' = {}
       PROVE  AllMatch(conts') /\ Keeps(conts', running')
  <2>1. running.rest = <<>>
    BY <1>1, <1>12 DEF K!Lost, K!Nothing
  <2>2. K!Promised = OwedIn(conts, running.cc)
    BY <1>3, <2>1, ListFacts DEF K!Promised
  <2>3. K!Promised = OwedIn(conts', running.cc) /\ running.cc \in 0..n
    BY <1>3, <1>6, <2>2
  <2>4. AllMatch(conts')
    BY <1>6, <2>2 DEF owed
  <2>5. OwedIn(conts', 0) = <<>>
    BY DEF OwedIn
  <2>6. Keeps(conts', running')
    BY <1>6, <1>7, <1>8, <1>12, <2>3, <2>5 DEF K!Running, Keeps, n
  <2>7. QED
    BY <2>4, <2>6
<1>13. PromisesMatch'
  BY <1>1, <1>2, <1>6, <1>12 DEF PromisesMatch, Promising
<1>14. K!RunsWhatIsDue'
  BY <1>1, <1>2 DEF K!RunsWhatIsDue, Promising
<1> QED
  BY <1>11, <1>13, <1>14 DEF KInv

\* k = cc, and cc = k
LEMMA KAssign ==
  ASSUME KInv, K!Keep \/ \E k \in {0, kept} : K!SetCc(k)
  PROVE  KInv'
<1>1. broken = {} /\ UNCHANGED <<conts, callers, broken, due, ran>>
  BY DEF K!Keep, K!SetCc, K!InBody, K!NoReturn
<1>2. Promising /\ \A k : K!Owed(k) = OwedIn(conts, k)
  BY <1>1, IsPromising
<1>3. /\ kept' \in 0..Len(conts) /\ running' \in BodyType /\ Keeps(conts, running')
  <2>1. CASE K!Keep
    BY <1>2, <2>1 DEF K!Keep, Promising, Keeps
  <2>2. CASE \E k \in {0, kept} : K!SetCc(k)
    <3>1. PICK k \in 0..Len(conts) :
            /\ running' = K!Running(k, running.pcc, running.rest, OwedIn(conts, k)) /\ kept' = kept
      BY <1>2, <2>2 DEF K!SetCc, Promising
    <3>2. OwedIn(conts, k) \in Numbers /\ k \in Nat
      BY <1>2, OwedType DEF Promising
    <3>3. QED
      BY <1>2, <3>1, <3>2 DEF Promising, Keeps, K!Running, BodyType
  <2>3. QED
    BY <2>1, <2>2
<1>4. Promising'
  BY <1>1, <1>2, <1>3 DEF Promising, K!RunsWhatIsDue
<1> QED
  BY <1>1, <1>4, Promises

LEMMA KTypeOK == KInv => K!TypeOK
<1> SUFFICES ASSUME KInv PROVE K!TypeOK
  OBVIOUS
<1>1. KTypes /\ conts \in Seq(ObjectType) /\ Bounded(conts) /\ Len(conts) \in Nat
  BY DEF KInv, KTypes
<1>2. ASSUME NEW k \in 1..Len(conts)
      PROVE  conts[k] \in K!Made /\ conts[k].first < k /\ conts[k].second < k
  <2>1. conts[k].first \in 0..k - 1 /\ conts[k].second \in 0..k - 1 /\ k <= MaxMade /\ k \in Nat
    BY <1>1, <1>2, ContinuationsAssumption DEF Bounded, K!ContinuationsAssumption
  <2>2. conts[k].first \in 0..MaxMade /\ conts[k].second \in 0..MaxMade
    BY <2>1, ContinuationsAssumption DEF K!ContinuationsAssumption
  <2>3. conts[k] \in ObjectType
    BY <1>1
  <2>4. QED
    BY <2>1, <2>2, <2>3 DEF ObjectType, Numbers, K!Made, K!Objects, K!Lists
<1>3. conts \in Seq(K!Made)
  <2>1. DOMAIN conts = 1..Len(conts) /\ conts = [k \in 1..Len(conts) |-> conts[k]]
    BY <1>1
  <2>2. QED
    BY <1>1, <1>2, <2>1
<1> QED
  BY <1>1, <1>2, <1>3 DEF KTypes, Bounded, Refers, K!TypeOK

LEMMA KStep == KInv /\ [K!Next]_kvars => KInv'
<1>1. ASSUME KInv, K!Next PROVE KInv'
  <2>1. CASE K!TailCall(running.cc, running.after)
    <3>1. running.after = OwedIn(conts, running.cc)
      BY <1>1, <2>1, IsPromising DEF K!TailCall, K!InBody, Promising, Keeps
    <3>2. QED
      BY <1>1, <2>1, <3>1, KTailCall
  <2>2. CASE K!TailCall(kept, K!Owed(kept))
    <3>1. K!Owed(kept) = OwedIn(conts, kept)
      BY DEF K!Owed, OwedIn, K!Nothing
    <3>2. QED
      BY <1>1, <2>2, <3>1, KTailCall
  <2>3. QED
    BY <1>1, <2>1, <2>2, KCall, KCaptured, KTopCallCc, KReturn, KResume, KAssign DEF K!Next
<1>2. ASSUME KInv, UNCHANGED kvars PROVE KInv'
  BY <1>2 DEF kvars, KInv, KTypes, Bounded, Refers, PromisesMatch, K!RunsWhatIsDue
<1> QED
  BY <1>1, <1>2

------------------------------------------------------------------------------
(***************************************************************************)
(* Views: for any lists, slices and numbers of views, a view on the list,  *)
(* or on views whose slices count from the front, gives what slicing the   *)
(* list gives.                                                             *)
(*                                                                         *)
(* Of two ranges of such a view, for two lengths of the list, one begins   *)
(* with the other; so a range is known by its length.  That is why a cache *)
(* may be kept for as long as what is viewed has the same length.  The     *)
(* invariant is that every cache that has been made is the range for some  *)
(* length of the list (Caches).                                            *)
(***************************************************************************)
\* A slice: start and stop are integers or absent, and the step is not 0.
IsSlice(s) ==
  /\ s.start \in Seq(Int) /\ Len(s.start) <= 1 /\ s.stop \in Seq(Int) /\ Len(s.stop) <= 1
  /\ s.step \in Int \ {0}

\* The k-th term of a progression that begins at 0 and stays below x.
LEMMA Progression ==
  ASSUME NEW x \in Int, NEW d \in Nat \ {0}, NEW k \in 1..(x + (d - 1)) \div d
  PROVE  (k - 1) * d \in Nat /\ (k - 1) * d <= x - 1
<1> DEFINE q == (x + (d - 1)) \div d
<1>1. q \in Int /\ q * d <= x + (d - 1)
  OBVIOUS
<1>2. k - 1 \in Nat /\ k - 1 <= q - 1
  BY <1>1
<1> HIDE DEF q
<1>3. (k - 1) * d <= (q - 1) * d
  BY <1>1, <1>2
<1>4. (q - 1) * d = q * d - d
  BY <1>1
<1>5. (k - 1) * d \in Nat
  BY <1>2
<1>6. q * d \in Int
  BY <1>1
<1> QED
  BY <1>1, <1>3, <1>4, <1>5, <1>6

\* The places that a slice stands for are places.
LEMMA PlacesInRange ==
  ASSUME NEW s, IsSlice(s), NEW n \in Nat
  PROVE  W!Places(s, n) \in Seq(1..n) /\ Len(W!Places(s, n)) <= n
<1> DEFINE Clip(x, low, high) == IF x < low THEN low ELSE IF x > high THEN high ELSE x
           Place(x, low, high) == Clip(IF x < 0 THEN x + n ELSE x, low, high)
           Bound(b, low, high, default) == IF b = <<>> THEN default ELSE Place(b[1], low, high)
<1>0. s.step \in Int /\ s.step # 0
  BY DEF IsSlice
<1>1. \A b \in {s.start, s.stop} : b # <<>> => b[1] \in Int
  BY DEF IsSlice
<1>2. CASE s.step > 0
  <2> DEFINE start == Bound(s.start, 0, n, 0)
             stop == Bound(s.stop, 0, n, n)
             count == (stop - start + s.step - 1) \div s.step
             c == IF count > 0 THEN count ELSE 0
  <2>1. start \in 0..n /\ stop \in 0..n
    BY <1>1
  <2>2. W!Places(s, n) = [k \in 1..c |-> start + (k - 1) * s.step + 1]
    BY <1>2 DEF W!Places
  <2> HIDE DEF start, stop, Clip, Place, Bound
  <2> DEFINE x == stop - start
             d == s.step
  <2>3. d \in Nat \ {0} /\ x \in Int /\ count = (x + (d - 1)) \div d
    BY <1>0, <1>2, <2>1
  <2>4. c \in Nat
    <3>1. (x + (d - 1)) \div d \in Int
      BY <2>3
    <3> QED
      BY <2>3, <3>1
  <2>5. ASSUME NEW k \in 1..c PROVE start + (k - 1) * s.step + 1 \in 1..n
    <3>1. k \in 1..(x + (d - 1)) \div d
      BY <2>3, <2>4
    <3> HIDE DEF c, count
    <3>2. (k - 1) * d \in Nat /\ (k - 1) * d <= x - 1
      <4> HIDE DEF x, d
      <4> QED
        BY <2>3, <3>1, Progression
    <3> QED
      BY <2>1, <3>2
  <2>6. c <= n
    <3> SUFFICES ASSUME c > 0 PROVE c <= n
      BY <2>1
    <3>1. c \in 1..(x + (d - 1)) \div d
      BY <2>3, <2>4
    <3> HIDE DEF c, count
    <3>2. (c - 1) * d \in Nat /\ (c - 1) * d <= x - 1
      <4> HIDE DEF x, d
      <4> QED
        BY <2>3, <3>1, Progression
    <3>3. c - 1 <= (c - 1) * d
      <4> HIDE DEF x, d
      <4> QED
        BY <2>3, <2>4
    <3>4. x <= n
      BY <2>1
    <3> HIDE DEF x, d
    <3> QED
      BY <3>2, <3>3, <3>4, <2>3, <2>4
  <2> HIDE DEF c
  <2>7. W!Places(s, n) \in Seq(1..n)
    BY <2>2, <2>4, <2>5
  <2>8. DOMAIN W!Places(s, n) = 1..c
    BY <2>2
  <2>9. Len(W!Places(s, n)) = c
    BY <2>4, <2>7, <2>8, LenProperties
  <2> QED
    BY <2>6, <2>7, <2>9
<1>3. CASE s.step < 0
  <2> DEFINE start == Bound(s.start, -1, n - 1, n - 1)
             stop == Bound(s.stop, -1, n - 1, -1)
             count == (start - stop - s.step - 1) \div (- s.step)
             c == IF count > 0 THEN count ELSE 0
  <2>1. start \in -1..n - 1 /\ stop \in -1..n - 1
    BY <1>1
  <2>2. W!Places(s, n) = [k \in 1..c |-> start + (k - 1) * s.step + 1]
    BY <1>0, <1>3 DEF W!Places
  <2> HIDE DEF start, stop, Clip, Place, Bound
  <2> DEFINE x == start - stop
             d == - s.step
  <2>3. d \in Nat \ {0} /\ x \in Int /\ count = (x + (d - 1)) \div d
    BY <1>0, <1>3, <2>1
  <2>4. c \in Nat
    <3>1. (x + (d - 1)) \div d \in Int
      BY <2>3
    <3> QED
      BY <2>3, <3>1
  <2>5. ASSUME NEW k \in 1..c PROVE start + (k - 1) * s.step + 1 \in 1..n
    <3>1. k \in 1..(x + (d - 1)) \div d
      BY <2>3, <2>4
    <3> HIDE DEF c, count
    <3>2. (k - 1) * d \in Nat /\ (k - 1) * d <= x - 1
      <4> HIDE DEF x, d
      <4> QED
        BY <2>3, <3>1, Progression
    <3>3. (k - 1) * s.step = - ((k - 1) * d)
      BY <1>0, <2>4
    <3> QED
      BY <2>1, <3>2, <3>3
  <2>6. c <= n
    <3> SUFFICES ASSUME c > 0 PROVE c <= n
      BY <2>1
    <3>1. c \in 1..(x + (d - 1)) \div d
      BY <2>3, <2>4
    <3> HIDE DEF c, count
    <3>2. (c - 1) * d \in Nat /\ (c - 1) * d <= x - 1
      <4> HIDE DEF x, d
      <4> QED
        BY <2>3, <3>1, Progression
    <3>3. c - 1 <= (c - 1) * d
      <4> HIDE DEF x, d
      <4> QED
        BY <2>3, <2>4
    <3>4. x <= n
      BY <2>1
    <3> HIDE DEF x, d
    <3> QED
      BY <3>2, <3>3, <3>4, <2>3, <2>4
  <2> HIDE DEF c
  <2>7. W!Places(s, n) \in Seq(1..n)
    BY <2>2, <2>4, <2>5
  <2>8. DOMAIN W!Places(s, n) = 1..c
    BY <2>2
  <2>9. Len(W!Places(s, n)) = c
    BY <2>4, <2>7, <2>8, LenProperties
  <2> QED
    BY <2>6, <2>7, <2>9
<1> QED
  BY <1>0, <1>2, <1>3

\* The slices that views are taken with are slices.
LEMMA SliceTypes == \A s \in Slices : IsSlice(s)
  BY ViewsAssumption DEF W!ViewsAssumption, IsSlice

\* A slice of a sequence consists of items of it.
LEMMA SubTypes ==
  ASSUME NEW s, IsSlice(s), NEW X, NEW r \in Seq(X)
  PROVE  /\ W!Sub(r, s) \in Seq(X)
         /\ Len(W!Sub(r, s)) = Len(W!Places(s, Len(r))) /\ Len(W!Sub(r, s)) <= Len(r)
         /\ \A k \in 1..Len(W!Sub(r, s)) : W!Places(s, Len(r))[k] \in 1..Len(r)
                                         /\ W!Sub(r, s)[k] = r[W!Places(s, Len(r))[k]]
<1> DEFINE n == Len(r)
           ps == W!Places(s, n)
<1>1. n \in Nat
  BY LenProperties
<1>2. ps \in Seq(1..n) /\ Len(ps) <= n
  <2> HIDE DEF n
  <2> QED
    BY <1>1, PlacesInRange
<1> HIDE DEF ps
<1>3. Len(ps) \in Nat /\ \A k \in 1..Len(ps) : ps[k] \in 1..n
  BY <1>2, LenProperties, ElementOfSeq
<1>4. \A k \in 1..Len(ps) : r[ps[k]] \in X
  BY <1>3, ElementOfSeq
<1>5. W!Sub(r, s) = [k \in 1..Len(ps) |-> r[ps[k]]]
  BY DEF W!Sub, ps
<1>6. W!Sub(r, s) \in Seq(X)
  BY <1>3, <1>4, <1>5
<1>7. Len(W!Sub(r, s)) = Len(ps)
  <2>1. DOMAIN W!Sub(r, s) = 1..Len(ps)
    BY <1>5
  <2> QED
    BY <1>3, <1>6, <2>1, LenProperties
<1> QED
  BY <1>2, <1>3, <1>5, <1>6, <1>7 DEF ps

\* What is asked of a chain of views: each is a view of one before it.
IsChain(vs) ==
  /\ Len(vs) \in Nat /\ \A v \in 1..Len(vs) : vs[v].of \in 0..v - 1 /\ IsSlice(vs[v].slice)

\* The ranges are what their recursion says, and hold places of the list.
LEMMA RangesUnfold ==
  ASSUME NEW vs, IsChain(vs), NEW n \in Nat
  PROVE  /\ W!Ranges(vs, n)[0] = [k \in 1..n |-> k]
         /\ \A v \in 1..Len(vs) : W!Ranges(vs, n)[v] = W!Sub(W!Ranges(vs, n)[vs[v].of], vs[v].slice)
         /\ \A v \in 0..Len(vs) : W!Ranges(vs, n)[v] \in Seq(1..n) /\ Len(W!Ranges(vs, n)[v]) <= n
<1> DEFINE m == Len(vs)
           X == 1..n
           Y == {r \in Seq(X) : Len(r) <= n}
           base == [k \in 1..n |-> k]
           of == [v \in 1..m |-> vs[v].of]
           step == [v \in 1..m |-> [r \in Y |-> W!Sub(r, vs[v].slice)]]
           Def(f) == f = [v \in 0..m |-> IF v = 0 THEN [k \in 1..n |-> k]
                                         ELSE W!Sub(f[vs[v].of], vs[v].slice)]
<1>1. m \in Nat /\ \A v \in 1..m : of[v] \in 0..v - 1 /\ IsSlice(vs[v].slice)
  BY DEF IsChain
<1>2. base \in Y
  OBVIOUS
<1>3. ASSUME NEW v \in 1..m, NEW r \in Y PROVE W!Sub(r, vs[v].slice) \in Y
  <2> DEFINE t == W!Sub(r, vs[v].slice)
  <2> HIDE DEF X, of, m
  <2>1. t \in Seq(X) /\ Len(t) <= Len(r)
    BY <1>1, SubTypes
  <2> HIDE DEF t
  <2>2. Len(t) \in Nat /\ Len(r) \in Nat
    BY <2>1, LenProperties
  <2>3. Len(t) <= n
    BY <2>1, <2>2
  <2> QED
    BY <2>1, <2>3 DEF t
<1>4. step \in Steps(m, Y)
  <2> HIDE DEF Y, m
  <2> QED
    BY <1>3 DEF Steps
<1>5. PICK f \in [0..m -> Y] : f[0] = base /\ \A v \in 1..m : f[v] = step[v][f[of[v]]]
  <2>1. Smaller(m, of)
    BY <1>1 DEF Smaller
  <2> HIDE DEF Y, m, step, of, base
  <2>2. m \in Nat
    BY <1>1
  <2>3. PICK f : Descends(f, m, Y, base, step, of)
    BY <2>2, <1>2, <1>4, <2>1, DescentExists
  <2> QED
    BY <2>3 DEF Descends
<1>6. ASSUME NEW v \in 1..m PROVE of[v] \in 0..m /\ of[v] = vs[v].of
  BY <1>1
<1>7. ASSUME NEW v \in 1..m PROVE f[v] = W!Sub(f[vs[v].of], vs[v].slice)
  <2>1. f[of[v]] \in Y
    BY <1>5, <1>6
  <2>2. step[v][f[of[v]]] = W!Sub(f[of[v]], vs[v].slice)
    BY <2>1
  <2> QED
    BY <2>2, <1>5, <1>6
<1>8. Def(f)
  <2>1. \A v \in 0..m : v # 0 => v \in 1..m
    BY <1>1
  <2> HIDE DEF Y, m, step, of
  <2>2. \A v \in 0..m : f[v] = IF v = 0 THEN [k \in 1..n |-> k] ELSE W!Sub(f[vs[v].of], vs[v].slice)
    BY <2>1, <1>5, <1>7
  <2> QED
    BY <2>2
<1> DEFINE c == CHOOSE g : Def(g)
<1>9. W!Ranges(vs, n) = c
  BY DEF W!Ranges
<1>10. Def(c)
  <2> HIDE DEF Def
  <2> QED
    BY <1>8
<1> HIDE DEF c
<1>11. c[0] = [k \in 1..n |-> k]
  <2>1. 0 \in 0..m
    BY <1>1
  <2> QED
    BY <1>10, <2>1
<1>12. \A v \in 1..m : c[v] = W!Sub(c[vs[v].of], vs[v].slice)
  <2>1. \A v \in 1..m : v \in 0..m /\ v # 0
    BY <1>1
  <2> HIDE DEF m
  <2> QED
    BY <1>10, <2>1
<1> DEFINE Bad == {v \in 0..m : c[v] # f[v]}
<1>13. Bad = {}
  <2> SUFFICES ASSUME Bad # {} PROVE FALSE
    OBVIOUS
  <2>1. PICK v \in Bad : \A u \in Bad : v <= u
    <3>1. Bad \in SUBSET Nat
      BY <1>1
    <3> HIDE DEF Bad
    <3> QED
      BY <3>1, NatLeast
  <2>2. v # 0
    BY <1>5, <1>11
  <2>3. v \in 1..m
    BY <2>2, <1>1
  <2>4. vs[v].of \in 0..v - 1 /\ vs[v].of \in 0..m
    BY <2>3, <1>1
  <2>5. vs[v].of \notin Bad
    BY <2>1, <2>3, <2>4
  <2>6. c[vs[v].of] = f[vs[v].of]
    BY <2>4, <2>5
  <2> HIDE DEF m
  <2>7. c[v] = f[v]
    BY <2>3, <2>6, <1>7, <1>12
  <2> QED
    BY <2>7
<1>14. \A v \in 0..m : c[v] \in Y
  BY <1>5, <1>13
<1> QED
  BY <1>9, <1>11, <1>12, <1>14

\* Where a slice that counts from the front has a place, it is the same in any range.
LEMMA PlacesFromFront ==
  ASSUME NEW s, IsSlice(s), W!FromFront(s), NEW n \in Nat, NEW k \in 1..Len(W!Places(s, n))
  PROVE  W!Places(s, n)[k] = (IF s.start = <<>> THEN 0 ELSE s.start[1]) + (k - 1) * s.step + 1
<1> DEFINE Clip(x, low, high) == IF x < low THEN low ELSE IF x > high THEN high ELSE x
           Place(x, low, high) == Clip(IF x < 0 THEN x + n ELSE x, low, high)
           Bound(b, low, high, default) == IF b = <<>> THEN default ELSE Place(b[1], low, high)
           start == Bound(s.start, 0, n, 0)
           stop == Bound(s.stop, 0, n, n)
           count == (stop - start + s.step - 1) \div s.step
           c == IF count > 0 THEN count ELSE 0
           x == stop - start
           d == s.step
           begin == IF s.start = <<>> THEN 0 ELSE s.start[1]
<1>1. /\ s.step \in Nat \ {0} /\ s.step > 0
      /\ s.start # <<>> => s.start[1] \in Nat
      /\ s.stop # <<>> => s.stop[1] \in Int
  BY DEF IsSlice, W!FromFront
<1>2. start \in 0..n /\ stop \in 0..n
  BY <1>1
<1>3. W!Places(s, n) = [i \in 1..c |-> start + (i - 1) * s.step + 1]
  BY <1>1 DEF W!Places
<1>4. start < n => start = begin
  BY <1>1
<1> HIDE DEF start, stop, Clip, Place, Bound, begin
<1>5. d \in Nat \ {0} /\ x \in Int /\ count = (x + (d - 1)) \div d
  BY <1>1, <1>2
<1>6. (x + (d - 1)) \div d \in Int
  <2> HIDE DEF x, d
  <2> QED
    BY <1>5
<1>7. c \in Nat
  <2> HIDE DEF x, d, count
  <2> QED
    BY <1>5, <1>6
<1>8. Len(W!Places(s, n)) = c
  <2>1. DOMAIN W!Places(s, n) = 1..c
    <3> HIDE DEF c
    <3> QED
      BY <1>3
  <2>2. W!Places(s, n) \in Seq(1..n)
    BY PlacesInRange
  <2> HIDE DEF c
  <2> QED
    BY <2>1, <2>2, <1>7, LenProperties
<1>9. k \in 1..c
  <2> HIDE DEF c
  <2> QED
    BY <1>8
<1>10. W!Places(s, n)[k] = start + (k - 1) * s.step + 1
  <2> HIDE DEF c
  <2> QED
    BY <1>3, <1>9
<1>11. k \in 1..(x + (d - 1)) \div d
  <2> HIDE DEF x, d, count
  <2> QED
    BY <1>5, <1>6, <1>9
<1>12. (k - 1) * d \in Nat /\ (k - 1) * d <= x - 1
  <2> HIDE DEF x, d, c
  <2> QED
    BY <1>5, <1>11, Progression
<1>13. start < n
  <2> HIDE DEF d, c
  <2> QED
    BY <1>2, <1>12
<1> HIDE DEF c, x
<1> QED
  BY <1>4, <1>10, <1>13 DEF begin

\* Of two such ranges one begins with the other.
Comparable(r, t) == \A k \in 1..Len(r) : k \in 1..Len(t) => r[k] = t[k]

\* Comparable ranges have comparable slices, if these count from the front.
LEMMA SubComparable ==
  ASSUME NEW s, IsSlice(s), W!FromFront(s), NEW X, NEW r \in Seq(X), NEW t \in Seq(X), Comparable(r, t)
  PROVE  Comparable(W!Sub(r, s), W!Sub(t, s))
<1> SUFFICES ASSUME NEW k \in 1..Len(W!Sub(r, s)), k \in 1..Len(W!Sub(t, s))
             PROVE  W!Sub(r, s)[k] = W!Sub(t, s)[k]
  BY DEF Comparable
<1> DEFINE p == W!Places(s, Len(r))
           q == W!Places(s, Len(t))
<1>1. /\ Len(W!Sub(r, s)) = Len(p) /\ p[k] \in 1..Len(r) /\ W!Sub(r, s)[k] = r[p[k]]
      /\ Len(W!Sub(t, s)) = Len(q) /\ q[k] \in 1..Len(t) /\ W!Sub(t, s)[k] = t[q[k]]
  BY SubTypes
<1>2. p[k] = q[k]
  <2>1. Len(r) \in Nat /\ Len(t) \in Nat
    BY LenProperties
  <2>2. k \in 1..Len(p) /\ k \in 1..Len(q)
    BY <1>1
  <2> QED
    BY <2>1, <2>2, PlacesFromFront
<1> HIDE DEF p, q
<1> QED
  BY <1>1, <1>2 DEF Comparable

\* What an anchored view is of is anchored.
LEMMA AnchoredDown ==
  ASSUME NEW vs, IsChain(vs), NEW v \in W!Anchored(vs)
  PROVE  /\ v \in 0..Len(vs)
         /\ v # 0 => W!FromFront(vs[v].slice) /\ vs[v].of \in W!Anchored(vs)
<1>1. PICK A \in SUBSET (0..Len(vs)) :
         v \in A /\ \A u \in A \ {0} : W!FromFront(vs[u].slice) /\ vs[u].of \in A
  BY DEF W!Anchored
<1> QED
  BY <1>1 DEF W!Anchored

\* What an anchored view is of depends on the length of the list only where it ends.
LEMMA RangesComparable ==
  ASSUME NEW vs, IsChain(vs), NEW n \in Nat, NEW m \in Nat
  PROVE  \A v \in W!Anchored(vs) : Comparable(W!Ranges(vs, n)[v], W!Ranges(vs, m)[v])
<1> DEFINE R == W!Ranges(vs, n)
           T == W!Ranges(vs, m)
           Bad == {v \in W!Anchored(vs) : ~Comparable(R[v], T[v])}
<1>0. Len(vs) \in Nat /\ \A v \in 1..Len(vs) : vs[v].of \in 0..v - 1 /\ IsSlice(vs[v].slice)
  BY DEF IsChain
<1> SUFFICES ASSUME Bad # {} PROVE FALSE
  OBVIOUS
<1>1. Bad \in SUBSET Nat
  BY <1>0, AnchoredDown
<1>2. PICK v \in Bad : \A u \in Bad : v <= u
  <2> HIDE DEF Bad
  <2> QED
    BY <1>1, NatLeast
<1>3. v \in 0..Len(vs) /\ v \in Nat
  BY <1>0, AnchoredDown
<1>4. CASE v = 0
  <2>1. R[0] = [k \in 1..n |-> k] /\ T[0] = [k \in 1..m |-> k]
    BY RangesUnfold
  <2>2. Len(R[0]) = n /\ Len(T[0]) = m
    BY <2>1
  <2>3. Comparable(R[0], T[0])
    BY <2>1, <2>2 DEF Comparable
  <2> QED
    BY <2>3, <1>4, <1>2
<1>5. CASE v # 0
  <2> DEFINE u == vs[v].of
             s == vs[v].slice
  <2>1. W!FromFront(s) /\ u \in W!Anchored(vs)
    BY <1>5, AnchoredDown
  <2>2. v \in 1..Len(vs)
    BY <1>0, <1>3, <1>5
  <2>3. u \in 0..v - 1 /\ IsSlice(s)
    BY <1>0, <2>2
  <2>4. u \notin Bad
    BY <1>2, <1>3, <2>3
  <2>5. Comparable(R[u], T[u])
    BY <2>1, <2>4
  <2>6. u \in 0..Len(vs)
    BY <2>3, <1>0, <1>3
  <2>7. R[u] \in Seq(1..n) /\ T[u] \in Seq(1..m)
    BY <2>6, RangesUnfold
  <2>8. R[v] = W!Sub(R[u], s) /\ T[v] = W!Sub(T[u], s)
    BY <2>2, RangesUnfold
  <2>9. R[u] \in Seq(Nat) /\ T[u] \in Seq(Nat)
    <3> HIDE DEF R, T, u
    <3> QED
      BY <2>7
  <2> HIDE DEF R, T, u, s
  <2>10. Comparable(R[v], T[v])
    BY <2>1, <2>3, <2>5, <2>8, <2>9, SubComparable
  <2> QED
    BY <2>10, <1>2
<1> QED
  BY <1>4, <1>5

\* Views are views of views before them.
LEMMA ViewsAreChains ==
  ASSUME NEW vs, W!AreViews(vs)
  PROVE  /\ IsChain(vs)
         /\ \A v \in 1..Len(vs) : /\ vs[v] \in W!View /\ vs[v].of \in 0..v - 1 /\ vs[v].slice \in Slices
                                  /\ vs[v].seql \in Int /\ Len(vs[v].cache) \in 0..MaxLen
<1>0. MaxViews \in Nat /\ MaxLen \in Nat
  BY ViewsAssumption DEF W!ViewsAssumption
<1>1. vs \in Seq(W!View) /\ Len(vs) \in Nat
  BY LenProperties DEF W!AreViews
<1>2. ASSUME NEW v \in 1..Len(vs)
      PROVE  /\ vs[v] \in W!View /\ vs[v].of \in 0..v - 1 /\ vs[v].slice \in Slices
             /\ vs[v].seql \in Int /\ Len(vs[v].cache) \in 0..MaxLen
  <2>1. vs[v] \in W!View
    BY <1>1, ElementOfSeq
  <2>2. /\ vs[v].of \in 0..MaxViews /\ vs[v].slice \in Slices /\ vs[v].seql \in Int
        /\ vs[v].cache \in Seq(1..MaxLen)
    BY <2>1, <1>0 DEF W!View, W!NoLength
  <2>3. vs[v].of < v /\ Len(vs[v].cache) <= MaxLen
    BY DEF W!AreViews
  <2>4. Len(vs[v].cache) \in Nat
    BY <2>2, LenProperties
  <2>5. vs[v].of \in 0..v - 1
    BY <2>2, <2>3, <1>0
  <2>6. Len(vs[v].cache) \in 0..MaxLen
    BY <2>3, <2>4, <1>0
  <2> QED
    BY <2>1, <2>2, <2>5, <2>6
<1> QED
  BY <1>1, <1>2, SliceTypes DEF IsChain

\* The begin views of ws are views of the same things as those of vs.
SameShape(vs, ws) ==
  Len(vs) <= Len(ws) /\ \A v \in 1..Len(vs) : ws[v].of = vs[v].of /\ ws[v].slice = vs[v].slice

\* Views of the same things have the same ranges.
LEMMA ShapeRanges ==
  ASSUME NEW vs, IsChain(vs), NEW ws, IsChain(ws), SameShape(vs, ws), NEW n \in Nat
  PROVE  \A v \in 0..Len(vs) : W!Ranges(ws, n)[v] = W!Ranges(vs, n)[v]
<1> DEFINE R == W!Ranges(vs, n)
           T == W!Ranges(ws, n)
           Bad == {v \in 0..Len(vs) : T[v] # R[v]}
<1>0. /\ Len(vs) \in Nat /\ Len(ws) \in Nat /\ Len(vs) <= Len(ws)
      /\ \A v \in 1..Len(vs) : vs[v].of \in 0..v - 1
  BY DEF IsChain, SameShape
<1> SUFFICES ASSUME Bad # {} PROVE FALSE
  OBVIOUS
<1>1. Bad \in SUBSET Nat
  BY <1>0
<1>2. PICK v \in Bad : \A u \in Bad : v <= u
  <2> HIDE DEF Bad
  <2> QED
    BY <1>1, NatLeast
<1>3. T[0] = R[0]
  BY RangesUnfold
<1>4. v \in 1..Len(vs) /\ v \in 1..Len(ws)
  BY <1>0, <1>3
<1>5. vs[v].of \in 0..v - 1 /\ vs[v].of \in 0..Len(vs)
  BY <1>0, <1>4
<1>6. T[vs[v].of] = R[vs[v].of]
  <2>1. vs[v].of \notin Bad
    BY <1>2, <1>4, <1>5
  <2> QED
    BY <2>1, <1>5
<1>7. R[v] = W!Sub(R[vs[v].of], vs[v].slice) /\ T[v] = W!Sub(T[ws[v].of], ws[v].slice)
  <2>1. \A u \in 1..Len(vs) : W!Ranges(vs, n)[u] = W!Sub(W!Ranges(vs, n)[vs[u].of], vs[u].slice)
    BY RangesUnfold
  <2>2. \A u \in 1..Len(ws) : W!Ranges(ws, n)[u] = W!Sub(W!Ranges(ws, n)[ws[u].of], ws[u].slice)
    BY RangesUnfold
  <2> QED
    BY <2>1, <2>2, <1>4
<1>8. ws[v].of = vs[v].of /\ ws[v].slice = vs[v].slice
  BY <1>4 DEF SameShape
<1> HIDE DEF R, T
<1>9. T[v] = R[v]
  BY <1>6, <1>7, <1>8
<1> QED
  BY <1>9

\* A view that is anchored among more views is anchored.
LEMMA ShapeAnchored ==
  ASSUME NEW vs, IsChain(vs), NEW ws, IsChain(ws), SameShape(vs, ws),
         NEW v \in 0..Len(vs), v \in W!Anchored(ws)
  PROVE  v \in W!Anchored(vs)
<1>1. PICK A \in SUBSET (0..Len(ws)) :
         v \in A /\ \A u \in A \ {0} : W!FromFront(ws[u].slice) /\ ws[u].of \in A
  BY DEF W!Anchored
<1> DEFINE B == {u \in A : u \in 0..Len(vs)}
<1>2. ASSUME NEW u \in B \ {0} PROVE W!FromFront(vs[u].slice) /\ vs[u].of \in B
  <2>1. Len(vs) \in Nat /\ u \in 1..Len(vs)
    BY DEF IsChain
  <2>2. ws[u].of = vs[u].of /\ ws[u].slice = vs[u].slice /\ vs[u].of \in 0..u - 1
    BY <2>1 DEF SameShape, IsChain
  <2>3. vs[u].of \in 0..Len(vs)
    BY <2>1, <2>2
  <2> QED
    BY <1>1, <2>2, <2>3
<1>3. B \in SUBSET (0..Len(vs)) /\ v \in B
  BY <1>1
<1> HIDE DEF B
<1> QED
  BY <1>2, <1>3 DEF W!Anchored

\* What a refresh may do to the views.
Refreshings(vs) == {ws \in Seq(W!View) : W!AreViews(ws) /\ Len(ws) = Len(vs) /\ SameShape(vs, ws)}

\* To renew a cache leaves the other views alone.
LEMMA RenewedTypes ==
  ASSUME NEW vs, W!AreViews(vs), Len(viewed) \in 0..MaxLen, NEW v \in 1..Len(vs), NEW ws \in Refreshings(vs)
  PROVE  /\ W!Renewed(vs, v, ws) \in Refreshings(vs)
         /\ \A u \in 1..Len(vs) : u # v => W!Renewed(vs, v, ws)[u] = ws[u]
         /\ LET seql == IF vs[v].of = 0 THEN Len(viewed) ELSE Len(ws[vs[v].of].cache)
            IN  \/ W!Renewed(vs, v, ws) = ws /\ seql = vs[v].seql
                \/ /\ W!Renewed(vs, v, ws)[v].seql = seql
                   /\ W!Renewed(vs, v, ws)[v].cache = W!Ranges(vs, Len(viewed))[v]
<1> DEFINE L == Len(viewed)
           seql == IF vs[v].of = 0 THEN L ELSE Len(ws[vs[v].of].cache)
           r == W!Ranges(vs, L)[v]
           new == [ws EXCEPT ![v].seql = seql, ![v].cache = r]
<1>0. MaxLen \in Nat /\ L \in Nat /\ L <= MaxLen
  BY ViewsAssumption DEF W!ViewsAssumption
<1>1. ws \in Seq(W!View) /\ W!AreViews(ws) /\ Len(ws) = Len(vs) /\ SameShape(vs, ws)
  BY DEF Refreshings
<1>2. IsChain(vs) /\ vs[v].of \in 0..v - 1 /\ Len(vs) \in Nat
  BY ViewsAreChains DEF IsChain
<1>3. seql \in 0..MaxLen
  <2>1. vs[v].of # 0 => vs[v].of \in 1..Len(ws)
    BY <1>1, <1>2
  <2>2. vs[v].of # 0 => Len(ws[vs[v].of].cache) \in 0..MaxLen
    BY <1>1, <2>1, ViewsAreChains
  <2> QED
    BY <1>0, <2>2
<1>4. r \in Seq(1..MaxLen) /\ Len(r) <= MaxLen
  <2>1. v \in 0..Len(vs)
    OBVIOUS
  <2>2. r \in Seq(1..L) /\ Len(r) <= L
    <3> HIDE DEF L
    <3> QED
      BY <1>0, <1>2, <2>1, RangesUnfold
  <2> HIDE DEF r, L
  <2>3. \A k \in 1..L : k \in 1..MaxLen
    BY <1>0
  <2>4. Len(r) \in Nat
    BY <2>2, LenProperties
  <2> QED
    BY <1>0, <2>2, <2>3, <2>4
<1>5. W!Renewed(vs, v, ws) = IF seql = vs[v].seql THEN ws ELSE new
  BY DEF W!Renewed
<1> HIDE DEF seql, r
<1>6. /\ ws[v] \in W!View /\ v \in 1..Len(ws) /\ ws[v].of < v
      /\ ws[v].of = vs[v].of /\ ws[v].slice = vs[v].slice
  BY <1>1, ElementOfSeq DEF W!AreViews, SameShape
<1>7. [ws[v] EXCEPT !.seql = seql, !.cache = r] \in W!View
  <2>1. seql \in W!NoLength..MaxLen
    BY <1>0, <1>3 DEF W!NoLength
  <2>2. r \in Seq(1..MaxLen)
    BY <1>4
  <2>3. ws[v] \in [of : 0..MaxViews, slice : Slices, seql : W!NoLength..MaxLen, cache : Seq(1..MaxLen)]
    BY <1>6 DEF W!View
  <2> HIDE DEF W!View
  <2> QED
    BY <2>1, <2>2, <2>3 DEF W!View
<1>8. new = [ws EXCEPT ![v] = [ws[v] EXCEPT !.seql = seql, !.cache = r]]
  BY <1>1, <1>6
<1> DEFINE e == [ws[v] EXCEPT !.seql = seql, !.cache = r]
<1>9. e.of = ws[v].of /\ e.slice = ws[v].slice /\ e.seql = seql /\ e.cache = r
  BY <1>6 DEF W!View
<1> HIDE DEF new, e
<1>10. /\ new \in Seq(W!View) /\ Len(new) = Len(ws) /\ new[v] = e
       /\ \A u \in 1..Len(ws) : u # v => new[u] = ws[u]
  <2>1. e \in W!View
    BY <1>7 DEF e
  <2>2. new = [ws EXCEPT ![v] = e]
    BY <1>8 DEF e
  <2>3. /\ [ws EXCEPT ![v] = e] \in Seq(W!View) /\ Len([ws EXCEPT ![v] = e]) = Len(ws)
        /\ \A u \in 1..Len(ws) : [ws EXCEPT ![v] = e][u] = IF u = v THEN e ELSE ws[u]
    BY <1>1, <1>6, <2>1, ExceptSeq
  <2> QED
    BY <2>2, <2>3, <1>6
<1>11. W!AreViews(new)
  BY <1>1, <1>4, <1>6, <1>9, <1>10 DEF W!AreViews
<1>12. SameShape(vs, new)
  BY <1>1, <1>6, <1>9, <1>10 DEF SameShape
<1>13. new \in Refreshings(vs)
  BY <1>1, <1>10, <1>11, <1>12 DEF Refreshings
<1> QED
  BY <1>1, <1>5, <1>9, <1>10, <1>13 DEF seql, r

\* A refresh is what its recursion says, and keeps what the views are of.
LEMMA RefreshUnfold ==
  ASSUME NEW vs, W!AreViews(vs), Len(viewed) \in 0..MaxLen
  PROVE  /\ W!Refresh(vs)[0] = vs
         /\ \A v \in 1..Len(vs) : W!Refresh(vs)[v] = W!Renewed(vs, v, W!Refresh(vs)[vs[v].of])
         /\ \A v \in 0..Len(vs) : W!Refresh(vs)[v] \in Refreshings(vs)
<1> DEFINE m == Len(vs)
           Y == Refreshings(vs)
           of == [v \in 1..m |-> vs[v].of]
           step == [v \in 1..m |-> [ws \in Y |-> W!Renewed(vs, v, ws)]]
           Def(f) == f = [v \in 0..m |-> IF v = 0 THEN vs ELSE W!Renewed(vs, v, f[vs[v].of])]
<1>1. m \in Nat /\ \A v \in 1..m : of[v] \in 0..v - 1
  BY ViewsAreChains DEF IsChain
<1>2. vs \in Y
  BY <1>1 DEF Refreshings, SameShape, W!AreViews
<1>3. ASSUME NEW v \in 1..m, NEW ws \in Y PROVE W!Renewed(vs, v, ws) \in Y
  BY RenewedTypes
<1>4. step \in Steps(m, Y)
  <2> HIDE DEF Y, m
  <2> QED
    BY <1>3 DEF Steps
<1>5. PICK f \in [0..m -> Y] : f[0] = vs /\ \A v \in 1..m : f[v] = step[v][f[of[v]]]
  <2>1. Smaller(m, of)
    BY <1>1 DEF Smaller
  <2> HIDE DEF Y, m, step, of
  <2>2. m \in Nat
    BY <1>1
  <2>3. PICK f : Descends(f, m, Y, vs, step, of)
    BY <2>2, <1>2, <1>4, <2>1, DescentExists
  <2> QED
    BY <2>3 DEF Descends
<1>6. ASSUME NEW v \in 1..m PROVE of[v] \in 0..m /\ of[v] = vs[v].of
  BY <1>1
<1>7. ASSUME NEW v \in 1..m PROVE f[v] = W!Renewed(vs, v, f[vs[v].of])
  <2>1. f[of[v]] \in Y
    BY <1>5, <1>6
  <2>2. step[v][f[of[v]]] = W!Renewed(vs, v, f[of[v]])
    BY <2>1
  <2> QED
    BY <2>2, <1>5, <1>6
<1>8. Def(f)
  <2>1. \A v \in 0..m : v # 0 => v \in 1..m
    BY <1>1
  <2> HIDE DEF Y, m, step, of
  <2>2. \A v \in 0..m : f[v] = IF v = 0 THEN vs ELSE W!Renewed(vs, v, f[vs[v].of])
    BY <2>1, <1>5, <1>7
  <2> QED
    BY <2>2
<1> DEFINE c == CHOOSE g : Def(g)
<1>9. W!Refresh(vs) = c
  BY DEF W!Refresh
<1>10. Def(c)
  <2> HIDE DEF Def
  <2> QED
    BY <1>8
<1> HIDE DEF c
<1>11. c[0] = vs
  <2>1. 0 \in 0..m
    BY <1>1
  <2> QED
    BY <1>10, <2>1
<1>12. \A v \in 1..m : c[v] = W!Renewed(vs, v, c[vs[v].of])
  <2>1. \A v \in 1..m : v \in 0..m /\ v # 0
    BY <1>1
  <2> HIDE DEF m
  <2> QED
    BY <1>10, <2>1
<1> DEFINE Bad == {v \in 0..m : c[v] # f[v]}
<1>13. Bad = {}
  <2> SUFFICES ASSUME Bad # {} PROVE FALSE
    OBVIOUS
  <2>1. PICK v \in Bad : \A u \in Bad : v <= u
    <3>1. Bad \in SUBSET Nat
      BY <1>1
    <3> HIDE DEF Bad
    <3> QED
      BY <3>1, NatLeast
  <2>2. v # 0
    BY <1>5, <1>11
  <2>3. v \in 1..m
    BY <2>2, <1>1
  <2>4. vs[v].of \in 0..v - 1 /\ vs[v].of \in 0..m
    BY <2>3, <1>1
  <2>5. vs[v].of \notin Bad
    BY <2>1, <2>3, <2>4
  <2>6. c[vs[v].of] = f[vs[v].of]
    BY <2>4, <2>5
  <2> HIDE DEF m
  <2>7. c[v] = f[v]
    BY <2>3, <2>6, <1>7, <1>12
  <2> QED
    BY <2>7
<1>14. \A v \in 0..m : c[v] \in Y
  BY <1>5, <1>13
<1> QED
  BY <1>9, <1>11, <1>12, <1>14

\* The cache of a view, if it has been made, is right for some length of the list, and
\* for every length that makes what is viewed as long as it was.
CacheRight(vs, ws, v) ==
  vs[v].of \in W!Anchored(vs) /\ ws[v].seql # W!NoLength =>
    \E n \in Nat : /\ ws[v].seql = Len(W!Ranges(vs, n)[vs[v].of])
                   /\ ws[v].cache = W!Ranges(vs, n)[v]
Caches(vs) == \A v \in 1..Len(vs) : CacheRight(vs, vs, v)

\* A cache that is right stays so when views are added or refreshed.
LEMMA CachesOfShape ==
  ASSUME NEW vs, IsChain(vs), NEW ws, IsChain(ws), SameShape(vs, ws),
         NEW v \in 1..Len(vs), CacheRight(vs, ws, v)
  PROVE  CacheRight(ws, ws, v)
<1> SUFFICES ASSUME ws[v].of \in W!Anchored(ws), ws[v].seql # W!NoLength
             PROVE  \E n \in Nat : /\ ws[v].seql = Len(W!Ranges(ws, n)[ws[v].of])
                                   /\ ws[v].cache = W!Ranges(ws, n)[v]
  BY DEF CacheRight
<1>1. /\ ws[v].of = vs[v].of /\ vs[v].of \in 0..v - 1 /\ v \in 0..Len(vs) /\ Len(vs) \in Nat
      /\ vs[v].of \in 0..Len(vs)
  BY DEF SameShape, IsChain
<1>2. vs[v].of \in W!Anchored(vs)
  BY <1>1, ShapeAnchored
<1>3. PICK n \in Nat : ws[v].seql = Len(W!Ranges(vs, n)[vs[v].of]) /\ ws[v].cache = W!Ranges(vs, n)[v]
  BY <1>2 DEF CacheRight
<1>4. W!Ranges(ws, n)[vs[v].of] = W!Ranges(vs, n)[vs[v].of] /\ W!Ranges(ws, n)[v] = W!Ranges(vs, n)[v]
  BY <1>1, ShapeRanges
<1> QED
  BY <1>1, <1>3, <1>4

\* A refresh keeps the caches right, and gives a view on anchored ones its range:
\* its cache is of the length that what is viewed has now, and so of its range.
LEMMA RefreshRenews ==
  ASSUME NEW vs, W!AreViews(vs), Caches(vs), Len(viewed) \in 0..MaxLen
  PROVE  \A v \in 0..Len(vs) :
           /\ \A u \in 1..Len(vs) : CacheRight(vs, W!Refresh(vs)[v], u)
           /\ \A u \in 1..Len(vs) : u > v => W!Refresh(vs)[v][u] = vs[u]
           /\ v # 0 /\ vs[v].of \in W!Anchored(vs) =>
                W!Refresh(vs)[v][v].cache = W!Ranges(vs, Len(viewed))[v]
<1> DEFINE L == Len(viewed)
           m == Len(vs)
           fresh == W!Refresh(vs)
           Right(v) == \A u \in 1..m : CacheRight(vs, fresh[v], u)
           Above(v) == \A u \in 1..m : u > v => fresh[v][u] = vs[u]
           Live(v) == v # 0 /\ vs[v].of \in W!Anchored(vs) => fresh[v][v].cache = W!Ranges(vs, L)[v]
           Bad == {v \in 0..m : ~(Right(v) /\ Above(v) /\ Live(v))}
<1>0. /\ m \in Nat /\ L \in Nat /\ \A v \in 1..m : vs[v].of \in 0..v - 1
      /\ IsChain(vs)
  BY ViewsAssumption, ViewsAreChains DEF IsChain, W!ViewsAssumption
<1> SUFFICES ASSUME Bad # {} PROVE FALSE
  OBVIOUS
<1>1. PICK v \in Bad : \A u \in Bad : v <= u
  <2>1. Bad \in SUBSET Nat
    BY <1>0
  <2> HIDE DEF Bad
  <2> QED
    BY <2>1, NatLeast
<1>2. v \in 0..m /\ v \in Nat /\ ~(Right(v) /\ Above(v) /\ Live(v))
  BY <1>0, <1>1
<1>3. CASE v = 0
  <2>1. fresh[0] = vs
    BY RefreshUnfold
  <2>2. Right(0)
    BY <2>1 DEF Caches
  <2>3. Above(0)
    BY <2>1
  <2>4. Live(0)
    OBVIOUS
  <2> HIDE DEF Right, Above, Live
  <2> QED
    BY <1>2, <1>3, <2>2, <2>3, <2>4
<1>4. CASE v # 0
  <2> DEFINE o == vs[v].of
             ws == fresh[o]
             seql == IF o = 0 THEN L ELSE Len(ws[o].cache)
  <2>1. v \in 1..m
    BY <1>0, <1>2, <1>4
  <2>2. o \in 0..v - 1 /\ o \in 0..m /\ o < v
    BY <1>0, <2>1
  <2>3. Right(o) /\ Above(o) /\ Live(o)
    <3>1. o \notin Bad
      BY <1>1, <1>2, <2>2
    <3> HIDE DEF Right, Above, Live, o
    <3> QED
      BY <3>1, <2>2
  <2>4. ws \in Refreshings(vs) /\ fresh[v] = W!Renewed(vs, v, ws)
    BY <2>1, <2>2, RefreshUnfold
  <2>5. ws[v] = vs[v]
    BY <2>1, <2>2, <2>3
  <2>6. /\ \A u \in 1..m : u # v => fresh[v][u] = ws[u]
        /\ \/ fresh[v] = ws /\ seql = vs[v].seql
           \/ fresh[v][v].seql = seql /\ fresh[v][v].cache = W!Ranges(vs, L)[v]
    BY <2>1, <2>4, RenewedTypes
  <2>7. ASSUME o \in W!Anchored(vs) PROVE seql = Len(W!Ranges(vs, L)[o])
    <3>1. CASE o = 0
      <4>1. W!Ranges(vs, L)[0] = [k \in 1..L |-> k]
        BY <1>0, RangesUnfold
      <4>2. Len(W!Ranges(vs, L)[0]) = L
        BY <1>0, <4>1
      <4> QED
        BY <3>1, <4>2
    <3>2. CASE o # 0
      <4>1. vs[o].of \in W!Anchored(vs)
        BY <1>0, <2>7, <3>2, AnchoredDown
      <4>2. ws[o].cache = W!Ranges(vs, L)[o]
        BY <2>3, <3>2, <4>1
      <4> HIDE DEF o
      <4> QED
        BY <3>2, <4>2
    <3> QED
      BY <3>1, <3>2
  <2>8. ASSUME o \in W!Anchored(vs), fresh[v] = ws, seql = vs[v].seql
        PROVE  ws[v].cache = W!Ranges(vs, L)[v]
    <3>1. PICK n \in Nat : vs[v].seql = Len(W!Ranges(vs, n)[o]) /\ vs[v].cache = W!Ranges(vs, n)[v]
      <4>1. Len(W!Ranges(vs, L)[o]) \in Nat
        <5>1. W!Ranges(vs, L)[o] \in Seq(1..L)
          <6> HIDE DEF L, o
          <6> QED
            BY <1>0, <2>2, RangesUnfold
        <5> HIDE DEF L
        <5> QED
          BY <5>1, LenProperties
      <4>2. vs[v].seql # W!NoLength
        <5>1. vs[v].seql = Len(W!Ranges(vs, L)[o])
          BY <2>7, <2>8
        <5> QED
          BY <4>1, <5>1 DEF W!NoLength
      <4>3. CacheRight(vs, vs, v)
        BY <2>1 DEF Caches
      <4> QED
        BY <2>8, <4>2, <4>3 DEF CacheRight
    <3> DEFINE r == W!Ranges(vs, n)[o]
               t == W!Ranges(vs, L)[o]
    <3>2. r \in Seq(1..n) /\ t \in Seq(1..L)
      <4> HIDE DEF L, o
      <4>1. \A u \in 0..Len(vs) : W!Ranges(vs, n)[u] \in Seq(1..n)
        BY <1>0, RangesUnfold
      <4>2. \A u \in 0..Len(vs) : W!Ranges(vs, L)[u] \in Seq(1..L)
        BY <1>0, RangesUnfold
      <4> QED
        BY <2>2, <4>1, <4>2
    <3>3. Comparable(r, t)
      <4> HIDE DEF L, o
      <4> QED
        BY <1>0, <2>8, RangesComparable
    <3>4. Len(r) = Len(t)
      BY <2>7, <2>8, <3>1
    <3>5. /\ W!Ranges(vs, n)[v] = W!Sub(r, vs[v].slice)
          /\ W!Ranges(vs, L)[v] = W!Sub(t, vs[v].slice)
      <4>1. \A u \in 1..Len(vs) : W!Ranges(vs, n)[u] = W!Sub(W!Ranges(vs, n)[vs[u].of], vs[u].slice)
        BY <1>0, RangesUnfold
      <4>2. \A u \in 1..Len(vs) : W!Ranges(vs, L)[u] = W!Sub(W!Ranges(vs, L)[vs[u].of], vs[u].slice)
        <5> HIDE DEF L
        <5> QED
          BY <1>0, RangesUnfold
      <4> QED
        BY <4>1, <4>2, <2>1
    <3> HIDE DEF r, t
    <3>6. r = t
      <4>1. r \in Seq(Nat) /\ t \in Seq(Nat)
        BY <1>0, <3>2
      <4>2. \A k \in 1..Len(r) : r[k] = t[k]
        BY <3>3, <3>4 DEF Comparable
      <4> QED
        BY <4>1, <4>2, <3>4, SeqEqual
    <3>7. W!Ranges(vs, n)[v] = W!Ranges(vs, L)[v]
      BY <3>5, <3>6
    <3> QED
      BY <3>1, <3>7, <2>5
  <2> HIDE DEF ws, seql
  <2>9. Live(v)
    <3> SUFFICES ASSUME o \in W!Anchored(vs) PROVE fresh[v][v].cache = W!Ranges(vs, L)[v]
      OBVIOUS
    <3> HIDE DEF o, fresh
    <3> QED
      BY <2>6, <2>8
  <2>10. Above(v)
    <3> SUFFICES ASSUME NEW u \in 1..m, u > v PROVE fresh[v][u] = vs[u]
      OBVIOUS
    <3>1. u # v /\ u > o
      BY <1>0, <1>2, <2>2
    <3>2. ws[u] = vs[u]
      BY <2>3, <3>1 DEF ws
    <3> QED
      BY <2>6, <3>1, <3>2
  <2>11. Right(v)
    <3> SUFFICES ASSUME NEW u \in 1..m PROVE CacheRight(vs, fresh[v], u)
      OBVIOUS
    <3>1. CacheRight(vs, ws, u)
      BY <2>3 DEF ws
    <3>2. CASE u # v \/ fresh[v] = ws
      <4>1. fresh[v][u] = ws[u]
        BY <2>6, <3>2
      <4> HIDE DEF fresh
      <4> QED
        BY <3>1, <4>1 DEF CacheRight
    <3>3. CASE u = v /\ fresh[v][v].seql = seql /\ fresh[v][v].cache = W!Ranges(vs, L)[v]
      <4> HIDE DEF fresh, L
      <4> QED
        BY <1>0, <2>7, <3>3 DEF CacheRight
    <3> QED
      BY <2>6, <3>2, <3>3
  <2> HIDE DEF Right, Above, Live
  <2> QED
    BY <1>2, <2>9, <2>10, <2>11
<1> QED
  BY <1>3, <1>4

\* What a view is of is what the list has at the places that its range has.
Shown(r) == [k \in 1..Len(r) |-> <<viewed[r[k]]>>]

\* To slice what is shown is to show a slice of the places.
LEMMA ShownSub ==
  ASSUME NEW s, IsSlice(s), NEW r \in Seq(Nat)
  PROVE  W!Sub(Shown(r), s) = Shown(W!Sub(r, s))
<1> DEFINE n == Len(r)
           ps == W!Places(s, n)
           X == {Shown(r)[k] : k \in 1..n}
<1>1. n \in Nat
  BY LenProperties
<1>2. Shown(r) \in Seq(X) /\ Len(Shown(r)) = n
  <2> HIDE DEF n
  <2>1. Shown(r) = [k \in 1..n |-> <<viewed[r[k]]>>]
    BY DEF Shown, n
  <2>2. \A k \in 1..n : Shown(r)[k] \in X
    OBVIOUS
  <2>3. DOMAIN Shown(r) = 1..n
    BY <2>1
  <2> HIDE DEF X
  <2>4. Shown(r) \in [1..n -> X]
    BY <2>1, <2>2
  <2>5. Shown(r) \in Seq(X)
    BY <1>1, <2>4
  <2> QED
    BY <1>1, <2>3, <2>5, LenProperties
<1>3. /\ Len(W!Sub(r, s)) = Len(ps) /\ Len(ps) \in Nat
      /\ \A k \in 1..Len(ps) : ps[k] \in 1..n /\ W!Sub(r, s)[k] = r[ps[k]]
  <2>1. /\ W!Sub(r, s) \in Seq(Nat) /\ Len(W!Sub(r, s)) = Len(ps)
        /\ \A k \in 1..Len(W!Sub(r, s)) : ps[k] \in 1..n /\ W!Sub(r, s)[k] = r[ps[k]]
    BY SubTypes
  <2>2. Len(W!Sub(r, s)) \in Nat
    BY <2>1, LenProperties
  <2> HIDE DEF ps, n
  <2> QED
    BY <2>1, <2>2
<1>4. W!Sub(Shown(r), s) = [k \in 1..Len(ps) |-> Shown(r)[ps[k]]]
  BY <1>2 DEF W!Sub
<1>5. \A k \in 1..Len(ps) : Shown(r)[ps[k]] = <<viewed[r[ps[k]]]>>
  <2> HIDE DEF ps
  <2> QED
    BY <1>3 DEF Shown
<1>6. Shown(W!Sub(r, s)) = [k \in 1..Len(ps) |-> <<viewed[W!Sub(r, s)[k]]>>]
  BY <1>3 DEF Shown
<1> HIDE DEF ps
<1> QED
  BY <1>3, <1>4, <1>5, <1>6

\* The elements that slicing gives are those at the places of the range.
LEMMA ViewedIsShown ==
  ASSUME W!AreViews(views), Len(viewed) \in Nat, NEW v \in 0..Len(views)
  PROVE  W!Viewed(v) = Shown(W!Ranges(views, Len(viewed))[v])
<1> DEFINE L == Len(viewed)
           R == W!Ranges(views, L)
           Def(f) == f = [u \in 0..v |-> IF u = 0 THEN [k \in 1..L |-> <<viewed[k]>>]
                                         ELSE W!Sub(f[views[u].of], views[u].slice)]
           g == [u \in 0..v |-> Shown(R[u])]
<1>0. /\ Len(views) \in Nat /\ v \in Nat /\ v <= Len(views) /\ L \in Nat
      /\ \A u \in 1..Len(views) : views[u].of \in 0..u - 1 /\ IsSlice(views[u].slice)
      /\ IsChain(views)
  BY ViewsAreChains DEF IsChain
<1>1. Shown(R[0]) = [k \in 1..L |-> <<viewed[k]>>]
  <2>1. R[0] = [k \in 1..L |-> k]
    BY <1>0, RangesUnfold
  <2> HIDE DEF R, L
  <2>2. Len(R[0]) = L
    BY <1>0, <2>1
  <2> QED
    BY <2>1, <2>2 DEF Shown
<1>2. ASSUME NEW u \in 1..v
      PROVE  /\ views[u].of \in 0..u - 1 /\ views[u].of \in 0..v
             /\ Shown(R[u]) = W!Sub(Shown(R[views[u].of]), views[u].slice)
  <2> DEFINE o == views[u].of
             s == views[u].slice
  <2>1. u \in 1..Len(views)
    BY <1>0
  <2>2. o \in 0..u - 1 /\ IsSlice(s)
    BY <1>0, <2>1
  <2>3. o \in 0..v /\ o \in 0..Len(views)
    BY <1>0, <2>2
  <2>4. R[o] \in Seq(Nat)
    <3>1. \A w \in 0..Len(views) : R[w] \in Seq(1..L)
      <4> HIDE DEF L
      <4> QED
        BY <1>0, RangesUnfold
    <3> HIDE DEF R, L, o
    <3> QED
      BY <1>0, <2>3, <3>1
  <2>5. R[u] = W!Sub(R[o], s)
    <3>1. \A w \in 1..Len(views) : R[w] = W!Sub(R[views[w].of], views[w].slice)
      <4> HIDE DEF L
      <4> QED
        BY <1>0, RangesUnfold
    <3> QED
      BY <2>1, <3>1
  <2> HIDE DEF R, o, s
  <2>6. W!Sub(Shown(R[o]), s) = Shown(W!Sub(R[o], s))
    BY <2>2, <2>4, ShownSub
  <2> QED
    BY <2>2, <2>3, <2>5, <2>6 DEF o, s
<1>3. Def(g)
  <2> HIDE DEF R, L
  <2>1. \A u \in 0..v : u # 0 => u \in 1..v
    BY <1>0
  <2>2. \A u \in 0..v : g[u] = IF u = 0 THEN [k \in 1..L |-> <<viewed[k]>>]
                               ELSE W!Sub(g[views[u].of], views[u].slice)
    BY <1>1, <1>2, <2>1
  <2> HIDE DEF g
  <2>3. g = [u \in 0..v |-> g[u]]
    BY DEF g
  <2> QED
    BY <2>2, <2>3
<1> DEFINE c == CHOOSE f : Def(f)
<1>4. W!Viewed(v) = c[v]
  BY DEF W!Viewed
<1>5. Def(c)
  <2> HIDE DEF Def
  <2> QED
    BY <1>3
<1> HIDE DEF c, L, R
<1> DEFINE Bad == {u \in 0..v : c[u] # Shown(R[u])}
<1>6. Bad = {}
  <2> SUFFICES ASSUME Bad # {} PROVE FALSE
    OBVIOUS
  <2>1. PICK u \in Bad : \A w \in Bad : u <= w
    <3>1. Bad \in SUBSET Nat
      BY <1>0
    <3> HIDE DEF Bad
    <3> QED
      BY <3>1, NatLeast
  <2>2. c[0] = [k \in 1..L |-> <<viewed[k]>>]
    <3>1. 0 \in 0..v
      BY <1>0
    <3> QED
      BY <3>1, <1>5
  <2>3. u # 0
    BY <2>2, <1>1
  <2>4. u \in 1..v
    BY <1>0, <2>3
  <2>5. views[u].of \in 0..v /\ views[u].of < u
    BY <1>2, <2>4
  <2>6. views[u].of \notin Bad
    BY <2>1, <2>4, <2>5
  <2>7. c[views[u].of] = Shown(R[views[u].of])
    BY <2>5, <2>6
  <2>8. c[u] = W!Sub(c[views[u].of], views[u].slice)
    <3>1. u \in 0..v /\ u # 0
      BY <2>4
    <3> QED
      BY <3>1, <1>5
  <2>9. c[u] = Shown(R[u])
    BY <1>2, <2>4, <2>7, <2>8
  <2> QED
    BY <2>9
<1>7. v \in 0..v
  BY <1>0
<1> QED
  BY <1>4, <1>6, <1>7 DEF L, R

\* Views whose caches are right are live.
LEMMA CachesShow ==
  ASSUME W!TypeOK, Caches(views)
  PROVE  W!ViewsAreLive
<1> SUFFICES ASSUME NEW v \in 1..Len(views), views[v].of \in W!Anchored(views)
             PROVE  W!Elements(v) = W!Viewed(v)
  BY DEF W!ViewsAreLive
<1> DEFINE L == Len(viewed)
           r == W!Refresh(views)[v][v].cache
           t == W!Ranges(views, L)[v]
<1>1. W!AreViews(views) /\ L \in 0..MaxLen /\ L \in Nat
  <2>1. MaxLen \in Nat
    BY ViewsAssumption DEF W!ViewsAssumption
  <2>2. Len(viewed) \in Nat
    BY LenProperties DEF W!TypeOK
  <2> QED
    BY <2>1, <2>2 DEF W!TypeOK
<1>2. IsChain(views) /\ Len(views) \in Nat
  BY <1>1, ViewsAreChains DEF IsChain
<1>3. v \in 0..Len(views) /\ v # 0
  BY <1>2
<1>4. r = t
  <2> HIDE DEF t
  <2>1. \A u \in 0..Len(views) :
          u # 0 /\ views[u].of \in W!Anchored(views) =>
            W!Refresh(views)[u][u].cache = W!Ranges(views, Len(viewed))[u]
    BY <1>1, RefreshRenews
  <2> QED
    BY <1>3, <2>1 DEF t
<1>5. t \in Seq(1..L)
  <2> HIDE DEF L
  <2> QED
    BY <1>1, <1>2, <1>3, RangesUnfold
<1>6. W!Viewed(v) = Shown(t)
  BY <1>1, <1>3, ViewedIsShown
<1>7. \A k \in 1..Len(t) : t[k] <= L
  <2> HIDE DEF t, L
  <2>1. \A k \in 1..Len(t) : t[k] \in 1..L
    BY <1>5, ElementOfSeq
  <2> QED
    BY <2>1, <1>1
<1>8. W!Elements(v) = [k \in 1..Len(r) |-> IF r[k] <= L THEN <<viewed[r[k]]>> ELSE <<"IndexError">>]
  BY DEF W!Elements
<1> HIDE DEF t, r, L
<1> QED
  BY <1>4, <1>6, <1>7, <1>8 DEF Shown

\* The inductive invariant of Views.
ViewsInv == W!TypeOK /\ Caches(views)

\* At first there are no views.
LEMMA ViewsInit == W!Init => ViewsInv
<1> SUFFICES ASSUME W!Init PROVE ViewsInv
  OBVIOUS
<1>1. viewed \in Seq(Entries) /\ Len(viewed) <= MaxLen
  BY ViewsAssumption DEF W!Init, W!ViewsAssumption
<1>2. views = <<>> /\ Len(views) = 0
  BY DEF W!Init
<1>3. W!AreViews(views)
  <2>1. MaxViews \in Nat
    BY ViewsAssumption DEF W!ViewsAssumption
  <2>2. views \in Seq(W!View)
    BY <1>2
  <2> QED
    BY <1>2, <2>1, <2>2 DEF W!AreViews
<1>4. Caches(views)
  BY <1>2 DEF Caches
<1> QED
  BY <1>1, <1>3, <1>4 DEF ViewsInv, W!TypeOK

\* Another view is taken.
LEMMA ViewOfStep ==
  ASSUME ViewsInv, NEW v \in 0..Len(views), NEW s \in Slices, W!ViewOf(v, s)
  PROVE  ViewsInv'
<1> DEFINE m == Len(views)
           e == [of |-> v, slice |-> s, seql |-> W!NoLength, cache |-> <<>>]
<1>0. MaxLen \in Nat /\ MaxViews \in Nat
  BY ViewsAssumption DEF W!ViewsAssumption
<1>1. W!AreViews(views) /\ IsChain(views) /\ m \in Nat /\ views \in Seq(W!View)
  BY ViewsAreChains DEF ViewsInv, W!TypeOK, IsChain, W!AreViews
<1>2. m < MaxViews /\ views' = Append(views, e) /\ viewed' = viewed
  BY DEF W!ViewOf
<1>4. e \in W!View
  <2>1. v \in 0..MaxViews
    BY <1>0, <1>1, <1>2
  <2>2. W!NoLength \in W!NoLength..MaxLen
    BY <1>0 DEF W!NoLength
  <2>3. <<>> \in Seq(1..MaxLen)
    OBVIOUS
  <2> QED
    BY <2>1, <2>2, <2>3 DEF W!View
<1>5. e.of = v /\ e.slice = s /\ e.seql = W!NoLength /\ e.cache = <<>>
  OBVIOUS
<1> HIDE DEF e
<1>6. /\ views' \in Seq(W!View) /\ Len(views') = m + 1 /\ views'[m + 1] = e
      /\ \A u \in 1..m : views'[u] = views[u]
  BY <1>1, <1>2, <1>4, AppendProperties
<1>7. W!AreViews(views')
  <2>1. ASSUME NEW u \in 1..m + 1 PROVE views'[u].of < u /\ Len(views'[u].cache) <= MaxLen
    <3>1. CASE u = m + 1
      <4>1. e.of < m + 1
        BY <1>1, <1>5
      <4>2. Len(e.cache) <= MaxLen
        BY <1>0, <1>5
      <4> QED
        BY <3>1, <4>1, <4>2, <1>6
    <3>2. CASE u # m + 1
      <4>1. u \in 1..m
        BY <1>1, <3>2
      <4> QED
        BY <4>1, <1>1, <1>6 DEF W!AreViews
    <3> QED
      BY <3>1, <3>2
  <2>2. m + 1 <= MaxViews
    BY <1>0, <1>1, <1>2
  <2> QED
    BY <1>6, <2>1, <2>2 DEF W!AreViews
<1>8. IsChain(views')
  BY <1>7, ViewsAreChains
<1>9. SameShape(views, views')
  BY <1>1, <1>6 DEF SameShape
<1>10. ASSUME NEW u \in 1..m + 1 PROVE CacheRight(views', views', u)
  <2>1. CASE u = m + 1
    BY <1>5, <1>6, <2>1 DEF CacheRight
  <2>2. CASE u # m + 1
    <3>1. u \in 1..m
      BY <1>1, <2>2
    <3>2. CacheRight(views, views, u)
      BY <3>1 DEF ViewsInv, Caches
    <3>3. CacheRight(views, views', u)
      BY <1>6, <3>1, <3>2 DEF CacheRight
    <3> QED
      BY <1>1, <1>8, <1>9, <3>1, <3>3, CachesOfShape
  <2> QED
    BY <2>1, <2>2
<1>11. Caches(views')
  BY <1>6, <1>10 DEF Caches
<1>12. viewed \in Seq(Entries) /\ Len(viewed) <= MaxLen
  BY DEF ViewsInv, W!TypeOK
<1>13. W!TypeOK'
  BY <1>2, <1>7, <1>12 DEF W!TypeOK, W!AreViews
<1>14. Caches(views)'
  BY <1>11 DEF Caches, CacheRight, W!Ranges, W!Anchored
<1> QED
  BY <1>13, <1>14 DEF ViewsInv

\* The list, if its length changes, and the views, if some of them are refreshed, keep
\* the invariant.
LEMMA RefreshStep ==
  ASSUME ViewsInv, viewed' \in Seq(Entries), Len(viewed') <= MaxLen,
         views' = views \/ \E v \in 1..Len(views) : views' = W!Refresh(views)[v]
  PROVE  ViewsInv'
<1>0. Len(viewed) \in 0..MaxLen /\ viewed \in Seq(Entries)
  <2>1. Len(viewed) \in Nat /\ MaxLen \in Nat
    BY ViewsAssumption, LenProperties DEF W!ViewsAssumption, ViewsInv, W!TypeOK
  <2> QED
    BY <2>1 DEF ViewsInv, W!TypeOK
<1>1. W!AreViews(views) /\ IsChain(views) /\ Len(views) \in Nat /\ Caches(views)
  BY ViewsAreChains DEF ViewsInv, W!TypeOK, IsChain
<1>2. /\ W!AreViews(views') /\ Len(views') = Len(views) /\ SameShape(views, views')
      /\ \A u \in 1..Len(views) : CacheRight(views, views', u)
  <2>1. CASE views' = views
    <3>1. SameShape(views, views)
      BY <1>1 DEF SameShape
    <3> QED
      BY <1>1, <2>1, <3>1 DEF Caches
  <2>2. CASE \E v \in 1..Len(views) : views' = W!Refresh(views)[v]
    <3>1. PICK v \in 1..Len(views) : views' = W!Refresh(views)[v]
      BY <2>2
    <3>2. v \in 0..Len(views)
      OBVIOUS
    <3>3. W!Refresh(views)[v] \in Refreshings(views)
      BY <1>0, <1>1, <3>2, RefreshUnfold
    <3>4. \A u \in 1..Len(views) : CacheRight(views, W!Refresh(views)[v], u)
      BY <1>0, <1>1, <3>2, RefreshRenews
    <3>5. views' \in Refreshings(views)
      BY <3>1, <3>3
    <3> QED
      BY <3>1, <3>4, <3>5 DEF Refreshings
  <2> QED
    BY <2>1, <2>2
<1>3. IsChain(views')
  BY <1>2, ViewsAreChains
<1>4. ASSUME NEW u \in 1..Len(views') PROVE CacheRight(views', views', u)
  BY <1>1, <1>2, <1>3, CachesOfShape
<1>5. Caches(views)'
  BY <1>4 DEF Caches, CacheRight, W!Ranges, W!Anchored
<1>6. W!TypeOK'
  BY <1>2 DEF W!TypeOK, W!AreViews
<1> QED
  BY <1>5, <1>6 DEF ViewsInv

\* Every step keeps the caches right.
LEMMA ViewsSteps == ViewsInv /\ [W!ViewsStep]_wvars => ViewsInv'
<1> SUFFICES ASSUME ViewsInv, [W!ViewsStep]_wvars PROVE ViewsInv'
  OBVIOUS
<1> DEFINE L == Len(viewed)
<1>0. MaxLen \in Nat /\ viewed \in Seq(Entries) /\ L \in Nat /\ L <= MaxLen /\ W!AreViews(views)
  BY ViewsAssumption, LenProperties DEF W!ViewsAssumption, ViewsInv, W!TypeOK
<1>1. ASSUME NEW v \in 0..Len(views), NEW s \in Slices, W!ViewOf(v, s) PROVE ViewsInv'
  BY <1>1, ViewOfStep
<1>9. ASSUME NEW v \in 1..Len(views), NEW s \in Slices, W!Subscript(v, s) PROVE ViewsInv'
  <2> DEFINE o == IF views[v].slice = W!All THEN views[v].of ELSE v
  <2>1. W!ViewOf(o, s)
    BY <1>9 DEF W!Subscript
  <2>2. Len(views) \in Nat /\ views[v].of \in 0..v - 1
    BY <1>0, ViewsAreChains DEF IsChain
  <2>3. o \in 0..Len(views)
    BY <2>2
  <2> HIDE DEF o
  <2> QED
    BY <2>1, <2>3, ViewOfStep
<1>2. ASSUME NEW v \in 1..Len(views), W!Read(v) PROVE ViewsInv'
  BY <1>0, <1>2, RefreshStep DEF W!Read
<1>3. ASSUME NEW v \in 1..Len(views), NEW k \in 1..MaxLen, NEW x \in Entries, W!SetItem(v, k, x)
      PROVE  ViewsInv'
  <2> DEFINE j == W!Refresh(views)[v][v].cache[k]
  <2>1. viewed' = [viewed EXCEPT ![j] = x] /\ views' = W!Refresh(views)[v]
    BY <1>3 DEF W!SetItem
  <2> HIDE DEF j
  <2>2. viewed \in [1..L -> Entries]
    <3>1. \A i \in 1..L : viewed[i] \in Entries
      BY <1>0, ElementOfSeq
    <3>2. viewed = [i \in 1..L |-> viewed[i]]
      BY <1>0
    <3> HIDE DEF L
    <3> QED
      BY <3>1, <3>2
  <2> HIDE DEF L
  <2>3. viewed' \in [1..L -> Entries]
    BY <2>1, <2>2
  <2>4. viewed' \in Seq(Entries) /\ Len(viewed') = L
    BY <1>0, <2>3
  <2> QED
    BY <1>0, <2>1, <2>4, RefreshStep
<1>4. ASSUME NEW v \in 1..Len(views), NEW s \in Slices, NEW x \in Entries, W!SetSlice(v, s, x)
      PROVE  ViewsInv'
  <2>1. PICK written : viewed' = [j \in 1..L |-> IF j \in written THEN x ELSE viewed[j]]
    BY <1>4 DEF W!SetSlice
  <2>2. views' = W!Refresh(views)[v]
    BY <1>4 DEF W!SetSlice
  <2>3. \A j \in 1..L : viewed[j] \in Entries
    BY <1>0, ElementOfSeq
  <2> HIDE DEF L
  <2>4. viewed' \in [1..L -> Entries]
    BY <2>1, <2>3
  <2>5. viewed' \in Seq(Entries) /\ Len(viewed') = L
    BY <1>0, <2>4
  <2> QED
    BY <1>0, <2>2, <2>5, RefreshStep
<1>5. ASSUME NEW v \in 1..Len(views), W!ReverseView(v) PROVE ViewsInv'
  <2> DEFINE r == W!Refresh(views)[v][v].cache
             n == Len(r)
             where(j) == CHOOSE k \in 1..n : r[k] = j
  <2>1. /\ \A k \in 1..n : r[k] <= L
        /\ viewed' = [j \in 1..L |-> IF \E k \in 1..n : r[k] = j THEN viewed[r[n + 1 - where(j)]]
                                 ELSE viewed[j]]
        /\ views' = W!Refresh(views)[v]
    BY <1>5 DEF W!ReverseView
  <2>2. r \in Seq(1..MaxLen)
    <3>1. v \in 0..Len(views) /\ L \in 0..MaxLen
      BY <1>0
    <3>2. W!Refresh(views)[v] \in Refreshings(views)
      BY <1>0, <3>1, RefreshUnfold
    <3>3. W!AreViews(W!Refresh(views)[v]) /\ Len(W!Refresh(views)[v]) = Len(views)
      BY <3>2 DEF Refreshings
    <3>4. W!Refresh(views)[v][v] \in W!View
      BY <3>3, ViewsAreChains
    <3> QED
      BY <3>4 DEF W!View
  <2> HIDE DEF r, L
  <2>3. n \in Nat /\ \A k \in 1..n : r[k] \in 1..L
    <3>1. n \in Nat
      BY <2>2, LenProperties
    <3>2. \A k \in 1..n : r[k] \in 1..MaxLen
      BY <2>2, ElementOfSeq
    <3> QED
      BY <1>0, <2>1, <3>1, <3>2
  <2>4. \A j \in 1..L : viewed[j] \in Entries
    BY <1>0, ElementOfSeq DEF L
  <2>5. ASSUME NEW j \in 1..L, \E k \in 1..n : r[k] = j PROVE viewed[r[n + 1 - where(j)]] \in Entries
    <3>1. where(j) \in 1..n
      BY <2>5
    <3>2. n + 1 - where(j) \in 1..n
      <4> HIDE DEF where
      <4> QED
        BY <2>3, <3>1
    <3> HIDE DEF where, n
    <3> QED
      BY <2>3, <2>4, <3>2
  <2>6. viewed' \in [1..L -> Entries]
    <3> HIDE DEF where
    <3> QED
      BY <2>1, <2>4, <2>5
  <2>7. viewed' \in Seq(Entries) /\ Len(viewed') = L
    BY <1>0, <2>6 DEF L
  <2> QED
    BY <1>0, <2>1, <2>7, RefreshStep DEF L
<1>6. ASSUME NEW x \in Entries, W!Grow(x) PROVE ViewsInv'
  <2>1. views' = views /\ L < MaxLen /\ (viewed' = Append(viewed, x) \/ viewed' = <<x>> \o viewed)
    BY <1>6 DEF W!Grow
  <2>2. CASE viewed' = Append(viewed, x)
    <3>1. viewed' \in Seq(Entries) /\ Len(viewed') = L + 1
      BY <1>0, <2>2, AppendProperties
    <3>2. Len(viewed') <= MaxLen
      BY <1>0, <2>1, <3>1
    <3> QED
      BY <2>1, <3>1, <3>2, RefreshStep
  <2>3. CASE viewed' = <<x>> \o viewed
    <3>1. <<x>> \in Seq(Entries) /\ Len(<<x>>) = 1
      OBVIOUS
    <3>2. viewed' \in Seq(Entries) /\ Len(viewed') = 1 + L
      BY <1>0, <2>3, <3>1, ConcatProperties
    <3>3. Len(viewed') <= MaxLen
      BY <1>0, <2>1, <3>2
    <3> QED
      BY <2>1, <3>2, <3>3, RefreshStep
  <2> QED
    BY <2>1, <2>2, <2>3
<1>7. CASE W!Shrink
  <2>1. views' = views /\ viewed # <<>> /\ viewed' = Tail(viewed)
    BY <1>7 DEF W!Shrink
  <2>2. viewed' \in Seq(Entries) /\ Len(viewed') = L - 1
    BY <1>0, <2>1
  <2> QED
    BY <1>0, <2>1, <2>2, RefreshStep
<1>8. CASE UNCHANGED wvars
  BY <1>0, <1>8, RefreshStep DEF wvars
<1> QED
  BY <1>1, <1>2, <1>3, <1>4, <1>5, <1>6, <1>7, <1>8, <1>9 DEF W!ViewsStep

------------------------------------------------------------------------------
(***************************************************************************)
(* All components, each on its own                                         *)
(***************************************************************************)
\* However forces overlap, each gives what a run of the thunk has given, and raises only
\* if a run did.  If no two threads force the promise at a time, the thunk runs again only
\* after something that is not an Exception has left it, and every thread gets the same
\* value or the same exception (lazyutil.py:52-77).
THEOREM PromiseForcedOnce == MCSpec => []ForcedOnce
<1>1. MCInit => PInv /\ Provenance
  BY PInit, ProvenanceInit DEF MCInit
<1>2. PInv /\ Provenance /\ [MCNext]_allvars => PInv' /\ Provenance'
  <2>1. [MCNext]_allvars => [P!Next]_pvars
    BY DEF MCNext, allvars, pvars, InterningStep, EscapesStep, FixStep, PromisesStep,
           EnvironmentsStep, ContinuationsStep, ViewsStep
  <2>2. PInv => PTypes
    BY DEF PInv
  <2>3. QED
    BY <2>1, <2>2, PStep, ProvenanceStep
<1>3. PInv /\ Provenance => ForcedOnce
  BY PForcedOnce DEF ForcedOnce
<1> QED
  BY <1>1, <1>2, <1>3, PTL DEF MCSpec

\* What a name of an environment was given stays, whatever the code that runs while a
\* construct is half done does; names are fixed once a body runs, and do0 returns
\* its first value (env.py:82-125, assignonce.py:37, let.py:235, seq.py:617-624).
THEOREM BindingsStay == MCSpec => BindingsAreKept
<1>1. NP!Spec => []NP!BindingsAreKept
  BY SameAssumption, NP!BindingsHold
<1>2. NP!Spec => []NP!FirstIsReturned
  BY SameAssumption, NP!FirstReturned
<1>3. NP!Spec => NP!NamesAreFixed
  BY SameAssumption, NP!NamesFixed
<1>4. NP!BindingsAreKept /\ NP!FirstIsReturned => (subject = "environments" => N!BindingsAreKept /\ N!FirstIsReturned)
  BY DEF NP!BindingsAreKept, N!BindingsAreKept, NP!FirstIsReturned, N!FirstIsReturned
<1>5. [(finalized \/ (NP!Letting /\ at \in {"body", "outside"})) => (DOMAIN env' = DOMAIN env \/ NP!ExitWith)]_NP!nvars
      => [(finalized \/ (N!Letting /\ at \in {"body", "outside"})) => (DOMAIN env' = DOMAIN env \/ N!ExitWith)]_N!nvars
  BY DEF NP!Letting, N!Letting, NP!Pythonic, N!Pythonic, NP!Lispy, N!Lispy, NP!ExitWith, N!ExitWith,
         NP!ByUser, N!ByUser, NP!nvars, N!nvars
<1> QED
  BY EnvironmentsOnly, <1>1, <1>2, <1>3, <1>4, <1>5, PTL DEF BindingsAreKept, NP!NamesAreFixed, N!NamesAreFixed

\* An escape continuation arrives at its own call_ec and nothing else catches it, a throw
\* goes by the table of catch points (ec.py:220-224, 78-99); the calls of a chain share one
\* trampoline (tco.py:57-60); and a return goes to what was promised to run next, in every
\* chain that keeps its promises (tailtools.py).
THEOREM EscapesAreRight == ASSUME NoUidsCaught PROVE MCSpec => EscapesArrive
<1>1. MCInit => EInv /\ KInv
  BY EInit, KInit DEF MCInit
<1>2. EInv /\ [MCNext]_allvars => EInv'
  BY EStep DEF MCNext, allvars, evars, InterningStep, EscapesStep, FixStep, PromisesStep,
               EnvironmentsStep, ContinuationsStep, ViewsStep
<1>3. KInv /\ [MCNext]_allvars => KInv'
  BY KStep DEF MCNext, allvars, kvars, InterningStep, EscapesStep, FixStep, PromisesStep,
               EnvironmentsStep, ContinuationsStep, ViewsStep
<1>4. EInv /\ [MCNext]_allvars =>
        [mode.kind = "escaping" =>
          /\ mode.ec # 0 => \E k \in 1..Len(stack) : stack[k].kind = "call_ec" /\ stack[k].ec = mode.ec
          /\ stack # <<>> /\ mode'.kind # "escaping" => E!Top.kind # "trampoline"
          /\ stack # <<>> /\ E!Top.kind # "trampoline" =>
               (mode'.kind # "escaping" <=> IF mode.ec # 0 THEN E!Top.kind = "call_ec" /\ E!Top.ec = mode.ec
                                                           ELSE E!Table(E!Top, mode))]_E!evars
  <2>1. [MCNext]_allvars => E!Next \/ E!evars' = E!evars
    BY DEF MCNext, allvars, evars, E!evars, InterningStep, EscapesStep, FixStep, PromisesStep,
           EnvironmentsStep, ContinuationsStep, ViewsStep
  <2>2. QED
    BY <2>1, EArrives
<1>5. EInv => (subject = "escapes" => E!OneTrampoline)
  BY EOneTrampoline
<1>6. KInv => (subject = "continuations" => K!RunsWhatIsDue)
  BY DEF KInv
<1> QED
  BY <1>1, <1>2, <1>3, <1>4, <1>5, <1>6, PTL DEF MCSpec, EscapesArrive, E!EscapesArrive

\* Every call that is going on under fix is in visited, none is going on twice, nothing else
\* is there unless an exception went past the cleanup of a chain, and nothing is left after
\* the outermost call (fix.py:222-231, 256-276).
THEOREM CyclesSeen == MCSpec => [](subject = "fix" => F!CyclesAreSeen)
<1>1. MCInit => FInv
  BY FInit DEF MCInit
<1>2. FInv /\ [MCNext]_allvars => FInv'
  BY FStep DEF MCNext, allvars, fvars, InterningStep, EscapesStep, FixStep, PromisesStep,
               EnvironmentsStep, ContinuationsStep, ViewsStep
<1>3. FInv => (subject = "fix" => F!CyclesAreSeen)
  BY FSeen
<1> QED
  BY <1>1, <1>2, <1>3, PTL DEF MCSpec

\* Views are live: whatever was done to the list, directly or through another view, and
\* whenever the caches were made, a view of the list, or of views that are counted from
\* the front, gives the slice of what the list holds now (collections.py:627-680).
THEOREM ViewsLive == MCSpec => []ViewsAreLive
<1>1. MCInit => ViewsInv
  BY ViewsInit DEF MCInit
<1>2. ViewsInv /\ [MCNext]_allvars => ViewsInv'
  BY ViewsSteps DEF MCNext, allvars, wvars, InterningStep, EscapesStep, FixStep, PromisesStep,
                    EnvironmentsStep, ContinuationsStep, ViewsStep
<1>3. ViewsInv => ViewsAreLive
  BY CachesShow DEF ViewsInv, ViewsAreLive
<1> QED
  BY <1>1, <1>2, <1>3, PTL DEF MCSpec

\* The variables of all seven components keep their types.
THEOREM TypesOfControl == MCSpec => []MCTypeOK
<1>1. MCInit => IInv /\ EInv /\ FInv /\ PInv /\ ForcesBounded /\ KInv /\ ViewsInv
  BY InitIInv, EInit, FInit, PInit, PBounded, KInit, ViewsInit DEF MCInit
<1>2. IInv /\ [MCNext]_allvars => IInv'
  BY NextIInv DEF MCNext, allvars, InterningStep, EscapesStep, FixStep, PromisesStep,
                  EnvironmentsStep, ContinuationsStep, ViewsStep
<1>3. EInv /\ [MCNext]_allvars => EInv'
  BY EStep DEF MCNext, allvars, evars, InterningStep, EscapesStep, FixStep, PromisesStep,
               EnvironmentsStep, ContinuationsStep, ViewsStep
<1>4. FInv /\ [MCNext]_allvars => FInv'
  BY FStep DEF MCNext, allvars, fvars, InterningStep, EscapesStep, FixStep, PromisesStep,
               EnvironmentsStep, ContinuationsStep, ViewsStep
<1>5. PInv /\ ForcesBounded /\ [MCNext]_allvars => PInv' /\ ForcesBounded'
  BY PStep, PBounded DEF MCNext, allvars, pvars, InterningStep, EscapesStep, FixStep, PromisesStep,
                         EnvironmentsStep, ContinuationsStep, ViewsStep
<1>6. KInv /\ [MCNext]_allvars => KInv'
  BY KStep DEF MCNext, allvars, kvars, InterningStep, EscapesStep, FixStep, PromisesStep,
               EnvironmentsStep, ContinuationsStep, ViewsStep
<1>7. ViewsInv /\ [MCNext]_allvars => ViewsInv'
  BY ViewsSteps DEF MCNext, allvars, wvars, InterningStep, EscapesStep, FixStep, PromisesStep,
                    EnvironmentsStep, ContinuationsStep, ViewsStep
<1>8. NP!Spec => []NP!TypeOK
  BY SameAssumption, NP!TypesOfEnvironments
<1>9. NP!TypeOK => N!TypeOK
  BY DEF NP!TypeOK, N!TypeOK, NP!Names, N!Names
<1>10. IInv /\ EInv /\ FInv /\ PInv /\ ForcesBounded /\ KInv /\ ViewsInv /\ N!TypeOK => MCTypeOK
  BY ETypes, FTypeOK, PTypeOK, KTypeOK DEF IInv, ViewsInv, MCTypeOK
<1> QED
  BY EnvironmentsOnly, <1>1, <1>2, <1>3, <1>4, <1>5, <1>6, <1>7, <1>8, <1>9, <1>10, PTL DEF MCSpec
==============================================================================
