------------------------------- MODULE Promises --------------------------------
(***************************************************************************)
(* Promises of unpythonic/lazyutil.py: Lazy.force, with threads that force *)
(* one promise, and maybe_force_args, which decides who forces it.         *)
(*                                                                         *)
(* Forcing has no lock.  It writes two attributes one after the other, the *)
(* value and then whether the thunk returned normally, and reads them in   *)
(* the same order.  Both start as the symbol _uninitialized, which is true *)
(* in a condition.                                                         *)
(***************************************************************************)
EXTENDS Naturals, Sequences

CONSTANTS
  Forcers,         \* the threads
  Thunks,          \* what a run of the thunk can do: it "returns", "raises" an
                   \* Exception, or "escapes" with another BaseException
  MaxRuns,         \* bound: runs of the thunk
  MaxForces,       \* bound: calls of force by one thread
  None             \* the symbol _uninitialized

\* A symbol is neither a truth value nor what a run of the thunk gives.
PromisesAssumption ==
  /\ None \notin BOOLEAN \cup (Thunks \X (Nat \ {0}))
  /\ MaxRuns \in Nat /\ MaxForces \in Nat

\* A symbol, such as the initial value of the flag, is true in a condition.
Truthy(flag) == flag = None \/ flag

VARIABLES
  value,           \* <<what, run>>: what the n-th run of the thunk gave, or None
  normally,        \* thunk_returned_normally: TRUE, FALSE or None (uninitialized)
  pc,              \* thread -> where in force it is
  gave,            \* thread -> what its run of the thunk gave, or None
  runs,            \* what the runs of the thunk gave, in order
  outcome,         \* thread -> sequence of <<"value" or "exception", <<what, run>>>>,
                   \* <<"promise", None>> and <<"escape", None>>
  lazily,          \* thread -> its function is marked to take its arguments unforced
  overlapped       \* two threads have been in force at a time

vars == <<value, normally, pc, gave, runs, outcome, lazily, overlapped>>

Init ==
  /\ value = None
  /\ normally = None
  /\ pc = [t \in Forcers |-> "idle"]
  /\ gave = [t \in Forcers |-> None]
  /\ runs = <<>>
  /\ outcome = [t \in Forcers |-> <<>>]
  /\ lazily \in [Forcers -> BOOLEAN]
  /\ overlapped = FALSE

Go(t, where) == pc' = [pc EXCEPT ![t] = where]

\* maybe_force_args(f, promise): a strict f has its arguments forced before
\* it runs; one marked by passthrough_lazy_args gets the promise.
MaybeForceArgs(t) ==
  /\ pc[t] = "idle"
  /\ Len(outcome[t]) < MaxForces
  /\ IF lazily[t]
     THEN /\ outcome' = [outcome EXCEPT ![t] = Append(@, <<"promise", None>>)]
          /\ UNCHANGED <<pc, overlapped>>
     ELSE /\ Go(t, "force")
          /\ overlapped' = (overlapped \/ \E u \in Forcers \ {t} : pc[u] # "idle")
          /\ UNCHANGED outcome
  /\ UNCHANGED <<value, normally, gave, runs, lazily>>

\* The body of the function forces what it needs, with force1 or force.
Force1(t) ==
  /\ pc[t] = "idle" /\ lazily[t]
  /\ Len(outcome[t]) < MaxForces
  /\ Go(t, "force")
  /\ overlapped' = (overlapped \/ \E u \in Forcers \ {t} : pc[u] # "idle")
  /\ UNCHANGED <<value, normally, gave, runs, outcome, lazily>>

\* if self.value is _uninitialized
Test(t) ==
  /\ pc[t] = "force"
  /\ Go(t, IF value = None THEN "thunk" ELSE "decide")
  /\ UNCHANGED <<value, normally, gave, runs, outcome, lazily, overlapped>>

\* MUTANT of Escape: the promise takes what is not an Exception for a value
Escape_kept(t) ==
  /\ gave' = [gave EXCEPT ![t] = <<"returns", Len(runs) + 1>>]
  /\ UNCHANGED <<pc, outcome>>

\* `except Exception` does not hold what is not one, such as an escape, an
\* invoked restart or a KeyboardInterrupt: it leaves force, and the promise
\* is as before.
Escape(t) ==
  /\ outcome' = [outcome EXCEPT ![t] = Append(@, <<"escape", None>>)]
  /\ Go(t, "idle")
  /\ UNCHANGED gave

\* self.thunk() runs, for as long as it takes.
RunThunk(t) ==
  /\ pc[t] = "thunk" /\ gave[t] = None
  /\ Len(runs) < MaxRuns
  /\ \E what \in Thunks :
       /\ runs' = Append(runs, what)
       /\ \/ what = "escapes" /\ Escape(t)
          \/ /\ what # "escapes"
             /\ gave' = [gave EXCEPT ![t] = <<what, Len(runs) + 1>>]
             /\ UNCHANGED <<pc, outcome>>
  /\ UNCHANGED <<value, normally, lazily, overlapped>>

\* self.value = the value, or the exception instance.
StoreValue(t) ==
  /\ pc[t] = "thunk" /\ gave[t] # None
  /\ value' = gave[t]
  /\ Go(t, "flag")
  /\ UNCHANGED <<normally, gave, runs, outcome, lazily, overlapped>>

\* MUTANT of StoreFlag: an exception counts as a value
StoreFlag_always(t) ==
  /\ pc[t] = "flag"
  /\ normally' = TRUE
  /\ gave' = [gave EXCEPT ![t] = None]
  /\ Go(t, "decide")
  /\ UNCHANGED <<value, runs, outcome, lazily, overlapped>>

\* self.thunk_returned_normally = ...
StoreFlag(t) ==
  /\ pc[t] = "flag"
  /\ normally' = (gave[t][1] = "returns")
  /\ gave' = [gave EXCEPT ![t] = None]
  /\ Go(t, "decide")
  /\ UNCHANGED <<value, runs, outcome, lazily, overlapped>>

\* if self.thunk_returned_normally: return self.value; else: raise it.  The
\* condition and the reading of the value are two steps.
Decide(t) ==
  /\ pc[t] = "decide"
  /\ Go(t, IF Truthy(normally) THEN "return" ELSE "raise")
  /\ UNCHANGED <<value, normally, gave, runs, outcome, lazily, overlapped>>

Leave(t) ==
  /\ pc[t] \in {"return", "raise"}
  /\ outcome' = [outcome EXCEPT ![t] = Append(@, <<IF pc[t] = "return" THEN "value" ELSE "exception", value>>)]
  /\ Go(t, "idle")
  /\ UNCHANGED <<value, normally, gave, runs, lazily, overlapped>>

Next == \E t \in Forcers :
  \/ MaybeForceArgs(t) \/ Force1(t)
  \/ Test(t) \/ RunThunk(t) \/ StoreValue(t) \/ StoreFlag(t) \/ Decide(t) \/ Leave(t)

Spec == Init /\ [][Next]_vars
------------------------------------------------------------------------------
Outcomes == UNION {{outcome[t][i] : i \in DOMAIN outcome[t]} : t \in Forcers}
Forced == {o \in Outcomes : o[1] \in {"value", "exception"}}
GivenByRuns == {<<runs[i], i>> : i \in DOMAIN runs}
SomeRunRaised == \E i \in DOMAIN runs : runs[i] \notin {"returns", "escapes"}
Kept(o) == o[1] = (IF o[2][1] = "returns" THEN "value" ELSE "exception")

TypeOK ==
  /\ value = None \/ value[1] \in Thunks \ {"escapes"}
  /\ pc \in [Forcers -> {"idle", "force", "thunk", "flag", "decide", "return", "raise"}]
  /\ \A t \in Forcers : Len(outcome[t]) <= MaxForces

\* Whatever overlaps, a force gives what a run of the thunk has given, never
\* the symbol of a promise that has none, and raises only if a run did.  A
\* promise whose forces do not overlap runs its thunk again only if every run
\* before was left by something that is not an Exception.  As soon as one has
\* returned or raised, it gives every thread the same thing: the value if it
\* returned, the same exception again if it raised.  (In an overlap, threads
\* may get what different runs gave, or an exception as if it were a value.)
ForcedOnce ==
  /\ \A o \in Forced : o[2] \in GivenByRuns /\ (o[1] = "exception" => SomeRunRaised)
  /\ ~overlapped => /\ \A i \in 1..Len(runs) : runs[i] # "escapes" => i = Len(runs)
                    /\ \A o, p \in Forced : o = p
                    /\ \A o \in Forced : Kept(o)
==============================================================================
