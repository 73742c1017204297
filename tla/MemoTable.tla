----------------------------- MODULE MemoTable -----------------------------
(***************************************************************************)
(* What memoize promises (fun.py:60-74), with no lock and no second look:  *)
(* one table for all threads.  Threads make calls, one inside the other;   *)
(* one of them evaluates a key that has no result and that nobody          *)
(* evaluates; its result is written down once; and a call is answered, in  *)
(* one step, with what the table says.                                     *)
(***************************************************************************)
EXTENDS Naturals, Sequences

CONSTANTS Threads, Keys, Calls, Results, NotYet

VARIABLES
  memo,        \* the result of each key, or NotYet
  open,        \* the calls each thread has made and not had answered
  evaluating,  \* who evaluates what
  returned     \* the answers so far

tvars == <<memo, open, evaluating, returned>>

Innermost(t) == open[t][Len(open[t])]

Init ==
  /\ memo = [k \in Keys |-> NotYet]
  /\ open = [t \in Threads |-> <<>>]
  /\ evaluating = {}
  /\ returned = {}

\* A call from the outside, or from a function that is being evaluated.
Ask(t, k) ==
  /\ open[t] # <<>> => <<t, Innermost(t)>> \in evaluating /\ k \in Calls[Innermost(t)]
  /\ open' = [open EXCEPT ![t] = Append(@, k)]
  /\ UNCHANGED <<memo, evaluating, returned>>

Evaluate(t) ==
  /\ open[t] # <<>>
  /\ memo[Innermost(t)] = NotYet
  /\ \A u \in Threads : <<u, Innermost(t)>> \notin evaluating
  /\ evaluating' = evaluating \cup {<<t, Innermost(t)>>}
  /\ UNCHANGED <<memo, open, returned>>

\* Only the innermost evaluation of a thread comes to its end.
Settle(t) ==
  /\ open[t] # <<>>
  /\ <<t, Innermost(t)>> \in evaluating
  /\ memo[Innermost(t)] = NotYet
  /\ memo'[Innermost(t)] \in Results
  /\ memo' = [memo EXCEPT ![Innermost(t)] = memo'[Innermost(t)]]
  /\ evaluating' = evaluating \ {<<t, Innermost(t)>>}
  /\ UNCHANGED <<open, returned>>

Answer(t) ==
  /\ open[t] # <<>>
  /\ memo[Innermost(t)] # NotYet
  /\ returned' = returned \cup {<<Innermost(t), memo[Innermost(t)]>>}
  /\ open' = [open EXCEPT ![t] = SubSeq(@, 1, Len(@) - 1)]
  /\ UNCHANGED <<memo, evaluating>>

Next == \E t \in Threads : Evaluate(t) \/ Settle(t) \/ Answer(t) \/ \E k \in Keys : Ask(t, k)

Spec == Init /\ [][Next]_tvars
==============================================================================
