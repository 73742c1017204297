----------------------------- MODULE Dynassign -----------------------------
(***************************************************************************)
(* Dynamic assignment, unpythonic/dynassign.py: dyn.let, assignment,       *)
(* dyn.update, make_dynvar and the live views of dyn.asdict, in the main   *)
(* thread and in threads, which take over its stack of scopes.             *)
(*                                                                         *)
(* A scope is a dictionary; stacks refer to it by its identity, its index  *)
(* in `scopes`.  Each `with dyn.let(...)` brings a dictionary of its own.  *)
(***************************************************************************)
EXTENDS Naturals, Sequences

CONSTANTS
  Main,
  Children,    \* the other threads
  Names,
  Values,
  Unbound,     \* the value of a name that a scope does not bind
  Lets,        \* the bindings that dyn.let is called with
  Updates,     \* the arguments that dyn.update is called with
  Defaults,    \* the default values set by make_dynvar, as name and value
  MaxScopes,   \* bound: how many scopes are ever created
  MaxViews     \* bound: how many views a thread creates

Threads == {Main} \cup Children
Scope == [Names -> Values \cup {Unbound}]
Empty == [n \in Names |-> Unbound]

\* What dyn.update is called with: an order of some names, and their values
Update == Seq(Names) \X [Names -> Values]

ASSUME DynassignAssumption ==
  /\ Main \notin Children /\ Unbound \notin Values
  /\ Lets \subseteq Scope \ {Empty} /\ Updates \subseteq Update
  /\ Defaults \subseteq Names \X Values
  /\ MaxScopes \in Nat /\ MaxViews \in Nat

VARIABLES
  scopes,    \* the dictionaries created so far
  globals,   \* _global_dynvars
  using,     \* the threads that have used dyn, and so have a stack
  stack,     \* of each thread: its stack of scopes, innermost last
  blocks,    \* of each thread: the scopes of the `with dyn.let` it executes
  views,     \* of each thread: the `maps` of its live views, innermost first
  updating,  \* of each thread: the writes its dyn.update has yet to do
  inherited, \* history: the stack each thread has taken over
  spawned    \* of a thread that has been started and has not used dyn:
             \* history, what the main thread had bound at its start

vars == <<scopes, globals, using, stack, blocks, views, updating, inherited, spawned>>

Global == 0    \* the identity of the global scope
NotSpawned == <<>>
Contents(s) == IF s = Global THEN globals ELSE scopes[s]

------------------------------------------------------------------------------
\* The innermost scope of the stack q that binds n, or Global: it is at this
\* position.
Binds(q, n) == {i \in 1..Len(q) : scopes[q[i]][n] # Unbound}
Resolve(q, n) ==
  IF Binds(q, n) = {} THEN Global
  ELSE q[CHOOSE i \in Binds(q, n) : \A k \in Binds(q, n) : k <= i]
Value(q, n) == Contents(Resolve(q, n))[n]
LocalValue(q, n) == IF Binds(q, n) = {} THEN Unbound ELSE Value(q, n)

\* _DynLiveView._refresh: the scopes innermost first, then the global one
Maps(q) == Append([i \in 1..Len(q) |-> q[Len(q) + 1 - i]], Global)

\* User code runs in thread t, which has its stack.
Ready(t) == t \in using /\ updating[t] = <<>>

------------------------------------------------------------------------------
\* The main thread starts another one, within a dyn.let or outside of all.
Spawn(t) ==
  /\ Ready(Main)
  /\ t \in Children \ using /\ spawned[t] = NotSpawned
  /\ spawned' = [spawned EXCEPT ![t] = [n \in Names |->
                   LocalValue(stack[Main], n)]]
  /\ UNCHANGED <<scopes, globals, using, stack, blocks, views, updating, inherited>>

\* MUTANT of FirstUse: no lock
FirstUse_notLocked(t) ==
  /\ t \notin using /\ spawned[t] # NotSpawned
  /\ using' = using \cup {t}
  /\ stack' = [stack EXCEPT ![t] = stack[Main]]
  /\ inherited' = [inherited EXCEPT ![t] = stack[Main]]
  /\ spawned' = [spawned EXCEPT ![t] = NotSpawned]
  /\ UNCHANGED <<scopes, globals, blocks, views, updating>>

\* _getstack: when a thread uses dyn for the first time it copies the main
\* thread's stack - the list, not the dictionaries - unless the main thread
\* holds the lock.
FirstUse(t) ==
  /\ t \notin using /\ spawned[t] # NotSpawned
  /\ updating[Main] = <<>>
  /\ using' = using \cup {t}
  /\ stack' = [stack EXCEPT ![t] = stack[Main]]
  /\ inherited' = [inherited EXCEPT ![t] = stack[Main]]
  /\ spawned' = [spawned EXCEPT ![t] = NotSpawned]
  /\ UNCHANGED <<scopes, globals, blocks, views, updating>>

\* A stack has changed: the views of the thread are refreshed.
SetStack(t, q) ==
  /\ stack' = [stack EXCEPT ![t] = q]
  /\ views' = [views EXCEPT ![t] = [i \in 1..Len(@) |-> Maps(q)]]

\* MUTANT of EnterLet: equal bindings share a dictionary
EnterLet_shared(t, bindings) ==
  LET same == {s \in 1..Len(scopes) : scopes[s] = bindings}
      d == IF same = {} THEN Len(scopes) + 1 ELSE CHOOSE s \in same : TRUE
  IN  /\ Ready(t) /\ Len(scopes) < MaxScopes
      /\ scopes' = IF same = {} THEN Append(scopes, bindings) ELSE scopes
      /\ SetStack(t, Append(stack[t], d))
      /\ blocks' = [blocks EXCEPT ![t] = Append(@, d)]
      /\ UNCHANGED <<globals, using, updating, inherited, spawned>>

\* with dyn.let(...)
EnterLet(t, bindings) ==
  /\ Ready(t) /\ Len(scopes) < MaxScopes
  /\ scopes' = Append(scopes, bindings)
  /\ SetStack(t, Append(stack[t], Len(scopes) + 1))
  /\ blocks' = [blocks EXCEPT ![t] = Append(@, Len(scopes) + 1)]
  /\ UNCHANGED <<globals, using, updating, inherited, spawned>>

\* MUTANT of ExitLet: the views keep the scope
ExitLet_noRefresh(t) ==
  /\ Ready(t) /\ blocks[t] # <<>>
  /\ stack' = [stack EXCEPT ![t] = SubSeq(@, 1, Len(@) - 1)]
  /\ blocks' = [blocks EXCEPT ![t] = SubSeq(@, 1, Len(@) - 1)]
  /\ UNCHANGED <<scopes, globals, using, views, updating, inherited, spawned>>

\* The block is left, normally or by an exception.
ExitLet(t) ==
  /\ Ready(t) /\ blocks[t] # <<>>
  /\ SetStack(t, SubSeq(stack[t], 1, Len(stack[t]) - 1))
  /\ blocks' = [blocks EXCEPT ![t] = SubSeq(@, 1, Len(@) - 1)]
  /\ UNCHANGED <<scopes, globals, using, updating, inherited, spawned>>

Write(s, n, v) ==
  /\ IF s = Global THEN globals' = [globals EXCEPT ![n] = v] /\ UNCHANGED scopes
                   ELSE scopes' = [scopes EXCEPT ![s][n] = v] /\ UNCHANGED globals

\* dyn.n = v, which raises AttributeError if n is not bound at all
Assign(t, n, v) ==
  /\ Ready(t) /\ Value(stack[t], n) # Unbound
  /\ Write(Resolve(stack[t], n), n, v)
  /\ UNCHANGED <<using, stack, blocks, views, updating, inherited, spawned>>

\* dyn.update: first all names are resolved, each of which must be bound;
\* then they are written one after the other.
BeginUpdate(t, u) ==
  /\ Ready(t)
  /\ \A i \in 1..Len(u[1]) : Value(stack[t], u[1][i]) # Unbound
  /\ updating' = [updating EXCEPT ![t] = [i \in 1..Len(u[1]) |->
                    <<Resolve(stack[t], u[1][i]), u[1][i], u[2][u[1][i]]>>]]
  /\ UNCHANGED <<scopes, globals, using, stack, blocks, views, inherited, spawned>>

ContinueUpdate(t) ==
  /\ updating[t] # <<>>
  /\ LET w == Head(updating[t]) IN Write(w[1], w[2], w[3])
  /\ updating' = [updating EXCEPT ![t] = Tail(@)]
  /\ UNCHANGED <<using, stack, blocks, views, inherited, spawned>>

\* make_dynvar(n=v)
MakeDynvar(t, n, v) ==
  /\ Ready(t)
  /\ globals' = [globals EXCEPT ![n] = v]
  /\ UNCHANGED <<scopes, using, stack, blocks, views, updating, inherited, spawned>>

\* dyn.asdict(), and everything that iterates over dyn: the thread keeps a
\* reference to the new view for ever.
CreateView(t) ==
  /\ Ready(t) /\ Len(views[t]) < MaxViews
  /\ views' = [views EXCEPT ![t] = Append(@, Maps(stack[t]))]
  /\ UNCHANGED <<scopes, globals, using, stack, blocks, updating, inherited, spawned>>

------------------------------------------------------------------------------
Init ==
  /\ scopes = <<>> /\ globals = Empty /\ using = {Main}
  /\ stack = [t \in Threads |-> <<>>]
  /\ blocks = [t \in Threads |-> <<>>]
  /\ views = [t \in Threads |-> <<>>]
  /\ updating = [t \in Threads |-> <<>>]
  /\ inherited = [t \in Threads |-> <<>>]
  /\ spawned = [t \in Threads |-> NotSpawned]

Step(t) ==
  \/ Spawn(t) \/ FirstUse(t) \/ ExitLet(t) \/ ContinueUpdate(t) \/ CreateView(t)
  \/ \E bindings \in Lets : EnterLet(t, bindings)
  \/ \E u \in Updates : BeginUpdate(t, u)
  \/ \E n \in Names, v \in Values : Assign(t, n, v)
  \/ \E d \in Defaults : MakeDynvar(t, d[1], d[2])

Next == \E t \in Threads : Step(t)

Spec == Init /\ [][Next]_vars
------------------------------------------------------------------------------
(***************************************************************************)
(* Properties                                                              *)
(***************************************************************************)
Identities == 1..Len(scopes)
Writes == (Identities \cup {Global}) \X Names \X Values
TypeOK ==
  /\ scopes \in Seq(Scope) /\ globals \in Scope
  /\ using \subseteq Threads
  /\ stack \in [Threads -> Seq(Identities)]
  /\ blocks \in [Threads -> Seq(Identities)]
  /\ inherited \in [Threads -> Seq(Identities)]
  /\ views \in [Threads -> Seq(Seq(Identities \cup {Global}))]
  /\ updating \in [Threads -> Seq(Writes)]
  /\ spawned \in [Threads -> Scope \cup {NotSpawned}]

\* The stack of a thread is what it has taken over and the blocks it is
\* executing, in this order: "any copied bindings will never be popped, even
\* if the main thread pops its own instances of them" (doc/features.md:509);
\* and every view shows the stack as it is now (dynassign.py:78-79).
StacksFollowBlocks ==
  \A t \in Threads :
    /\ stack[t] = inherited[t] \o blocks[t]
    /\ \A i \in 1..Len(views[t]) : views[t][i] = Maps(stack[t])

\* What a thread binds is its own: the only scopes two threads share are those
\* that one of them has taken over ("the dynamic scope stacks are
\* thread-local", aside from the initial copying; doc/features.md:509).
Elements(q) == {q[i] : i \in 1..Len(q)}
OnlyInheritedIsShared ==
  \A t, u \in Threads : t # u =>
    Elements(stack[t]) \cap Elements(stack[u]) \subseteq Elements(inherited[t]) \cup Elements(inherited[u])

\* A thread that takes over the main thread's stack finds all or nothing of an
\* update of it: no scope has part of it written (dynassign.py:212-216).
WholeUpdates ==
  [][\A t \in Threads : t \notin using /\ t \in using' =>
       \A i \in 1..Len(inherited'[t]) : \A k \in 1..Len(updating[Main]) :
         updating[Main][k][1] # inherited'[t][i]]_vars

\* "A newly spawned thread automatically copies the then-current state of the
\* dynamic scope stack from the main thread", and aside from that copying the
\* stacks are thread-local (doc/features.md:509): what it takes over has
\* the values it had when the thread was started, and no step changes what two
\* threads have bound.
StateIsCopied ==
  [][/\ \A t \in using' \ using : \A n \in Names : LocalValue(stack[Main], n) = spawned[t][n]
     /\ \A t, u \in using, n \in Names :
          t # u => \/ LocalValue(stack[t], n)' = LocalValue(stack[t], n)
                   \/ LocalValue(stack[u], n)' = LocalValue(stack[u], n)]_vars
==============================================================================
