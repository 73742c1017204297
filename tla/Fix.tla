-------------------------------- MODULE Fix --------------------------------
(***************************************************************************)
(* Breaking cycles of recursion: fix and fixtco (unpythonic/fix.py), with  *)
(* the trampoline whose jumps fixtco spies on, in one thread (the state is *)
(* thread-local).                                                          *)
(*                                                                         *)
(* A key is a function with its arguments.  What the body of a key does is *)
(* chosen when it does it for the first time, and is the same afterwards,  *)
(* since fix is for pure functions.                                        *)
(***************************************************************************)
EXTENDS Naturals, Sequences, FiniteSets, SequencesExt

CONSTANTS
  Keys,
  Tco,       \* the keys of functions under fixtco, which may jump; the others are under fix
  Memo,      \* the keys of functions with memo=True
  MaxCalls   \* bound: the calls in one body

FixAssumption == Tco \subseteq Keys /\ Memo \subseteq Keys /\ MaxCalls \in Nat

VARIABLES
  body,     \* what the body of each key does, as far as it is known
  memo,     \* the memoized results: of each key one or none
  visited,  \* e.visited: <<"me", k>> for a call, <<"you", k>> for the target of a jump
  stack,    \* the calls that have been entered, and their entries in e.tco_stack
  phase,    \* of the topmost call: "body", "got" (a call it made has ended), "leave"
  result    \* what the call that ended last returned

fvars == <<body, memo, visited, stack, phase, result>>

\* A value; one that was computed from bottom; bottom itself; an exception.
Results == {"value", "partial", "bottom", "error"}

\* A body calls a key, catching exceptions or not; in the end it returns, raises
\* or jumps.
Calling == [op : {"call", "try"}, key : Keys]
Ending(k) == [op : {"return", "raise"}] \cup IF k \in Tco THEN [op : {"jump"}, key : Keys] ELSE {}

Me(k) == <<"me", k>>
You(k) == <<"you", k>>

\* f_fix puts this frame on the stack.  `key` is that of the call, `target` that of
\* the function that runs, `scrub` is mrproper.
Frame(k) == [key |-> k, target |-> k, cleanup |-> {}, scrub |-> visited = {}, pc |-> 1, partial |-> FALSE]

Call == stack[Len(stack)]
SetCall(f) == stack' = [stack EXCEPT ![Len(stack)] = f]

\* MUTANT of Cleaned: the targets of a chain stay in visited
Cleaned_never == visited
\* for target in t.cleanup: e.visited.remove(target)
Cleaned == visited \ Call.cleanup

------------------------------------------------------------------------------
\* f_fix is called: a cycle, or the beginning of a call, whose result may have
\* been memoized.
Enter(k) ==
  IF Me(k) \in visited
  THEN phase' = "got" /\ result' = "bottom" /\ UNCHANGED <<stack, visited>>
  ELSE /\ visited' = visited \cup {Me(k)}
       /\ stack' = Append(stack, Frame(k))
       /\ IF memo[k] # {} THEN phase' = "leave" /\ result' \in memo[k]
                          ELSE phase' = "body" /\ UNCHANGED result

Start(k) ==
  /\ stack = <<>> /\ Enter(k)
  /\ UNCHANGED <<body, memo>>

\* The trampoline (or the call, under fix) has a result, which is memoized.
Finish(r) ==
  /\ phase' = "leave" /\ result' = r
  /\ memo' = IF Call.key \in Memo THEN [memo EXCEPT ![Call.key] = {r}] ELSE memo

\* MUTANT of Jump: a target is not entered in visited
Jump_unseen(k) ==
  IF You(k) \in visited
  THEN /\ visited' = Cleaned /\ Finish("bottom")
       /\ UNCHANGED stack
  ELSE /\ SetCall([Call EXCEPT !.target = k, !.cleanup = @ \cup {You(k)}, !.pc = 1, !.partial = FALSE])
       /\ UNCHANGED <<visited, memo, phase, result>>

\* spy: the body of a chain returns a jump, which is a cycle or is followed.
Jump(k) ==
  IF You(k) \in visited
  THEN /\ visited' = Cleaned /\ Finish("bottom")
       /\ UNCHANGED stack
  ELSE /\ visited' = visited \cup {You(k)}
       /\ SetCall([Call EXCEPT !.target = k, !.cleanup = @ \cup {You(k)}, !.pc = 1, !.partial = FALSE])
       /\ UNCHANGED <<memo, phase, result>>

Perform(o) ==
  CASE o.op \in {"call", "try"} -> Enter(o.key) /\ UNCHANGED memo
    [] o.op = "jump" -> Jump(o.key)
    [] o.op = "return" -> /\ Finish(IF Call.partial THEN "partial" ELSE "value")
                          /\ visited' = Cleaned /\ UNCHANGED stack
    [] o.op = "raise" -> Finish("error") /\ UNCHANGED <<visited, stack>>   \* out of spy, before its cleanup

\* The body of the topmost call does what it did the last time,
Repeat ==
  /\ stack # <<>> /\ phase = "body" /\ Call.pc <= Len(body[Call.target])
  /\ Perform(body[Call.target][Call.pc])
  /\ UNCHANGED body

\* or something for the first time.
Do(o) ==
  LET done == body[Call.target] IN
  /\ phase = "body" /\ Call.pc = Len(done) + 1
  /\ o \in Calling => Len(done) < MaxCalls
  /\ body' = [body EXCEPT ![Call.target] = Append(@, o)]
  /\ Perform(o)

\* A call made by the body has ended.  An exception that it does not catch ends
\* the body as well.
Got ==
  /\ phase = "got" /\ stack # <<>>
  /\ IF result = "error" /\ body[Call.target][Call.pc].op = "call"
     THEN Finish("error") /\ UNCHANGED stack
     ELSE /\ SetCall([Call EXCEPT !.pc = @ + 1, !.partial = @ \/ result \in {"partial", "bottom"}])
          /\ phase' = "body"
          /\ UNCHANGED <<memo, result>>
  /\ UNCHANGED <<body, visited>>

\* `finally` in f_fix
Leave ==
  /\ phase = "leave"
  /\ visited' = IF Call.scrub THEN {} ELSE visited \ {Me(Call.key)}
  /\ stack' = Front(stack)
  /\ phase' = "got"
  /\ UNCHANGED <<body, memo, result>>

Init ==
  /\ body = [k \in Keys |-> <<>>] /\ memo = [k \in Keys |-> {}]
  /\ visited = {} /\ stack = <<>> /\ phase = "got" /\ result = "value"

Step == Repeat \/ Got \/ Leave \/ (stack # <<>> /\ \E o \in Calling \cup Ending(Call.target) : Do(o))
Next == Step \/ \E k \in Keys : Start(k)

Spec == Init /\ [][Next]_fvars /\ WF_fvars(Step)
------------------------------------------------------------------------------
(***************************************************************************)
(* Properties                                                              *)
(***************************************************************************)
TypeOK ==
  /\ \A k \in Keys : body[k] \in Seq(Calling \cup Ending(k)) /\ memo[k] \subseteq Results
  /\ visited \subseteq {"me", "you"} \X Keys
  /\ phase \in {"body", "got", "leave"} /\ result \in Results
  /\ \A i \in 1..Len(stack) : stack[i].key \in Keys /\ stack[i].cleanup \subseteq {"you"} \X Keys

\* The calls that are going on, and the targets of their chains
InProgress == {Me(stack[i].key) : i \in 1..Len(stack)} \cup UNION {stack[i].cleanup : i \in 1..Len(stack)}

\* Every call that is going on is in visited, unless it is just being left, and
\* no call is going on twice; nothing else is there, unless a chain has been left
\* by an exception, and nothing at all after the outermost call (fix.py:222-231,
\* 256-276).
CyclesAreSeen ==
  /\ IF phase = "leave" THEN {Me(stack[i].key) : i \in 1..Len(stack)} \subseteq visited
                        ELSE InProgress \subseteq visited
  /\ \A i, j \in 1..Len(stack) : stack[i].key = stack[j].key => i = j
  /\ visited \subseteq InProgress \/ \E k \in Keys : [op |-> "raise"] \in Range(body[k])
  /\ stack = <<>> => visited = {}

\* Every computation ends, however its functions call each other and jump
\* ("breaks recursion cycles ... causing some non-terminating strict functions to
\* return", fix.py:9-11).
ComputationsEnd == []<>(stack = <<>>)

\* "If no recursion cycle occurs, f returns normally" (fix.py:98): what is cut
\* off is a call or a jump to something that is going on.
OnlyCyclesAreCut ==
  [][phase = "body" /\ phase' # "body" /\ result' = "bottom" =>
       LET o == body'[Call.target][Call.pc]
       IN  \/ o.op \in {"call", "try"} /\ (phase' = "leave" \/ Me(o.key) \in InProgress)
           \/ o.op = "jump" /\ You(o.key) \in InProgress]_fvars
==============================================================================
