------------------------------ MODULE Memoize ------------------------------
(***************************************************************************)
(* The decorator memoize of unpythonic/fun.py, used from several threads.  *)
(* Each memoized function has a memo and a reentrant lock of its own; a    *)
(* function may call itself, and other memoized functions, while it        *)
(* computes a result.                                                      *)
(*                                                                         *)
(* A key stands for a function together with its arguments.  A function is *)
(* pure and its recursion ends: `Calls` has no cycles.  It may still fail, *)
(* and a result is told apart by the evaluation it comes from.             *)
(***************************************************************************)
EXTENDS Naturals, Sequences, FiniteSets

CONSTANTS
  Threads,
  Functions,   \* the memoized functions
  Keys,        \* their calls
  FunctionOf,  \* the function a key is a call of
  Calls,       \* the keys whose values the computation of a key may ask for
  Rank,        \* of a key: larger than that of every key in its Calls
  Nobody       \* the owner of a free lock

ASSUME MemoizeAssumption ==
  /\ FunctionOf \in [Keys -> Functions]
  /\ Calls \in [Keys -> SUBSET Keys]
  /\ Rank \in [Keys -> Nat]
  /\ \A k \in Keys : \A m \in Calls[k] : Rank[m] < Rank[k]
  /\ Nobody \notin Threads

VARIABLES
  memo,      \* the memos of all functions: a result for a key, or NotYet
  lock,      \* the owner of each function's lock
  comp,      \* the keys each thread is computing, innermost last
  pc,        \* what each thread does: user code, or a step of memoized
  key,       \* the key it does that for
  evals,     \* history: how often the computation of a key was begun
  returned   \* history: what calls returned, as key and result

vars == <<memo, lock, comp, pc, key, evals, returned>>

Kinds == {"success", "fail"}
Results == [kind : Kinds, eval : Nat]
NotYet == [kind |-> "none"]

Top(t) == comp[t][Len(comp[t])]
Computing(t) == {comp[t][i] : i \in 1..Len(comp[t])}

\* Leaving a `with lock` frees the lock unless the thread is still inside an
\* outer one of the same function.
Release(t, f, keys) ==
  lock' = IF \E k \in keys : FunctionOf[k] = f THEN lock ELSE [lock EXCEPT ![f] = Nobody]

------------------------------------------------------------------------------
\* User code calls a memoized function: from the outside, or from inside
\* the function it is computing.
Call(t, k) ==
  /\ pc[t] = "user"
  /\ comp[t] # <<>> => k \in Calls[Top(t)]
  /\ pc' = [pc EXCEPT ![t] = "lookup"]
  /\ key' = [key EXCEPT ![t] = k]
  /\ UNCHANGED <<memo, lock, comp, evals, returned>>

Return(t) ==
  /\ returned' = returned \cup {<<key[t], memo[key[t]]>>}
  /\ pc' = [pc EXCEPT ![t] = "user"]
  /\ UNCHANGED <<memo, lock, comp, key, evals>>

\* MUTANT of Lookup: what is not in the memo is returned as well
Lookup_get(t) == pc[t] = "lookup" /\ Return(t) /\ UNCHANGED <<memo, lock, comp, key, evals>>

\* kind, value = memo[k], without the lock
Lookup(t) ==
  /\ pc[t] = "lookup"
  /\ \/ memo[key[t]] # NotYet /\ Return(t)
     \/ /\ memo[key[t]] = NotYet
        /\ pc' = [pc EXCEPT ![t] = "acquire"]
        /\ UNCHANGED <<memo, lock, comp, key, evals, returned>>

\* MUTANT of Acquire: the lock is not taken
Acquire_not(t) ==
  /\ pc[t] = "acquire"
  /\ pc' = [pc EXCEPT ![t] = "check"]
  /\ UNCHANGED <<memo, lock, comp, key, evals, returned>>

\* MUTANT of Acquire: a lock that is not reentrant
Acquire_once(t) ==
  /\ pc[t] = "acquire"
  /\ lock[FunctionOf[key[t]]] = Nobody
  /\ lock' = [lock EXCEPT ![FunctionOf[key[t]]] = t]
  /\ pc' = [pc EXCEPT ![t] = "check"]
  /\ UNCHANGED <<memo, comp, key, evals, returned>>

\* with lock
Acquire(t) ==
  /\ pc[t] = "acquire"
  /\ lock[FunctionOf[key[t]]] \in {t, Nobody}
  /\ lock' = [lock EXCEPT ![FunctionOf[key[t]]] = t]
  /\ pc' = [pc EXCEPT ![t] = "check"]
  /\ UNCHANGED <<memo, comp, key, evals, returned>>

\* MUTANT of Check: no second look at the memo
Check_notAgain(t) ==
  /\ pc[t] = "check"
  /\ comp' = [comp EXCEPT ![t] = Append(@, key[t])]
  /\ evals' = [evals EXCEPT ![key[t]] = @ + 1]
  /\ pc' = [pc EXCEPT ![t] = "user"]
  /\ UNCHANGED <<memo, lock, key, returned>>

\* if k not in memo: the function is called; else another thread was faster.
Check(t) ==
  /\ pc[t] = "check"
  /\ \/ /\ memo[key[t]] = NotYet
        /\ comp' = [comp EXCEPT ![t] = Append(@, key[t])]
        /\ evals' = [evals EXCEPT ![key[t]] = @ + 1]
        /\ pc' = [pc EXCEPT ![t] = "user"]
        /\ UNCHANGED <<memo, lock, key, returned>>
     \/ /\ memo[key[t]] # NotYet
        /\ Release(t, FunctionOf[key[t]], Computing(t))
        /\ pc' = [pc EXCEPT ![t] = "read"]
        /\ UNCHANGED <<memo, comp, key, evals, returned>>

\* The function returns or raises; either is the result, and the lock is left.
Finish(t, kind) ==
  /\ pc[t] = "user" /\ comp[t] # <<>>
  /\ LET k == Top(t)
         outer == SubSeq(comp[t], 1, Len(comp[t]) - 1)
     IN  /\ memo' = [memo EXCEPT ![k] = [kind |-> kind, eval |-> evals[k]]]
         /\ comp' = [comp EXCEPT ![t] = outer]
         /\ Release(t, FunctionOf[k], {outer[i] : i \in 1..Len(outer)})
         /\ key' = [key EXCEPT ![t] = k]
         /\ pc' = [pc EXCEPT ![t] = "read"]
  /\ UNCHANGED <<evals, returned>>

\* kind, value = memo[k], after the lock
Read(t) == pc[t] = "read" /\ Return(t)

------------------------------------------------------------------------------
Init ==
  /\ memo = [k \in Keys |-> NotYet]
  /\ lock = [f \in Functions |-> Nobody]
  /\ comp = [t \in Threads |-> <<>>]
  /\ pc = [t \in Threads |-> "user"]
  /\ key \in [Threads -> Keys]
  /\ evals = [k \in Keys |-> 0]
  /\ returned = {}

Memoized(t) ==
  Lookup(t) \/ Acquire(t) \/ Check(t) \/ Read(t) \/ \E kind \in Kinds : Finish(t, kind)

Next == \E t \in Threads : Memoized(t) \/ \E k \in Keys : Call(t, k)

\* Every thread that can take a step does so; functions come to their end
\* although they may call others before.
Fairness ==
  \A t \in Threads : /\ WF_vars(Memoized(t)) /\ SF_vars(Acquire(t))
                     /\ SF_vars(\E kind \in Kinds : Finish(t, kind))

Spec == Init /\ [][Next]_vars /\ Fairness
------------------------------------------------------------------------------
(***************************************************************************)
(* Properties                                                              *)
(***************************************************************************)
TypeOK ==
  /\ memo \in [Keys -> Results \cup {NotYet}]
  /\ lock \in [Functions -> Threads \cup {Nobody}]
  /\ comp \in [Threads -> Seq(Keys)]
  /\ pc \in [Threads -> {"user", "lookup", "acquire", "check", "read"}]
  /\ key \in [Threads -> Keys]
  /\ evals \in [Keys -> Nat]
  /\ returned \subseteq Keys \X Results

\* "Exactly one thread will compute the result": the function is evaluated
\* at most once for the same arguments, whatever the threads do, also when it
\* calls itself and when it fails (fun.py:76-78).
ComputedOnce == \A k \in Keys : evals[k] <= 1

\* All calls with the same arguments, in whatever thread, get the very same
\* result, and the very same exception (fun.py:66-68).
AnswersAgree == \A r \in returned : r[2] # NotYet /\ r[2] = memo[r[1]]

\* From the outside, a memoized function is one table: a call begins when it is made,
\* whether or not it needs the lock; an evaluation is what no one else evaluates and
\* what has no result; and a call is answered in one step with the one result of its
\* key, though it looks at the memo two or three times (fun.py:60-75).
Open == [t \in Threads |-> IF pc[t] = "user" THEN comp[t] ELSE Append(comp[t], key[t])]
Evaluating == {e \in Threads \X Keys : e[2] \in Computing(e[1])}
Table == INSTANCE MemoTable WITH open <- Open, evaluating <- Evaluating
ImplementsTable == Table!Spec

\* Threads that wait for each other's locks in a circle; a thread can hold
\* a lock while it waits for another one only when functions call each other.
WaitsFor(t, u) == /\ pc[t] = "acquire" /\ t # u
                  /\ lock[FunctionOf[key[t]]] = u
Deadlocked(t) ==
  \E T \in SUBSET Threads : t \in T /\ \A u \in T : \E w \in T : WaitsFor(u, w)
Doomed(t) == \E u \in Threads : Deadlocked(u) /\ (t = u \/ WaitsFor(t, u))

\* Every call returns, unless functions that call each other have run into a
\* deadlock over their locks (fun.py:80-82: one lock per use of memoize).
CallsReturn == \A t \in Threads : (pc[t] = "lookup") ~> (comp[t] = <<>> /\ pc[t] = "user") \/ Doomed(t)
==============================================================================
