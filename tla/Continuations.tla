---------------------------- MODULE Continuations ----------------------------
(***************************************************************************)
(* Functions in a block `with continuations` (unpythonic/syntax/tailtools) *)
(* as the macro has transformed them: a function gets its continuation as  *)
(* cc; call_cc[] makes the rest of the body a function, a continuation,    *)
(* and return is a jump.                                                   *)
(*                                                                         *)
(* What is to run after a function is what the documentation promises, as  *)
(* a list of continuations (rest, after, owed: history), and what the      *)
(* transformed code makes of it with cc, _pcc and chain_conts.  User code  *)
(* does what it likes where a body runs; values are left out.              *)
(***************************************************************************)
EXTENDS Naturals, Sequences

CONSTANTS
  MaxMade,      \* bound: continuations, and chains of them, that are made
  MaxNested     \* bound: calls inside calls that are not tail calls

ContinuationsAssumption == MaxMade \in Nat

VARIABLES
  made,     \* the continuations and chains, which are known by their place in here
  running,  \* the function that runs, or Outside
  callers,  \* who waits for a normal call: each of those has a trampoline
  kept,     \* a continuation that user code has stored, or 0
  due, ran, \* history: at the last return what was promised to run, and what does
  broken    \* history: the promises that were broken, see below

cvars == <<made, running, callers, kept, due, ran, broken>>

\* A continuation is a place in made; 0 is identity as a cc, and None as a _pcc.
\* pcc: the parent continuation that the definition of the function captured.
Cont(pcc, owed) == [kind |-> "cont", first |-> pcc, second |-> 0, owed |-> owed]
Chain(cc1, cc2, owed) == [kind |-> "chain", first |-> cc1, second |-> cc2, owed |-> owed]
Objects == 0..MaxMade
Lists == Seq(1..MaxMade)
Made == [kind : {"cont", "chain"}, first : Objects, second : Objects, owed : Lists]

\* A function that runs, its cc and its _pcc; and what it promises to run when it is done:
\* the rest of the function whose continuation it is, and what comes after that.
Running(cc, pcc, rest, after) == [cc |-> cc, pcc |-> pcc, rest |-> rest, after |-> after]
Outside == Running(0, 0, <<>>, <<>>)
Nothing == <<>>
Promised == running.rest \o running.after
Owed(k) == IF k = 0 THEN Nothing ELSE made[k].owed

InBody == callers # <<>> /\ broken = {}
Room == Len(made) < MaxMade
NoReturn == UNCHANGED <<due, ran>>

Init ==
  /\ made = <<>> /\ running = Outside /\ callers = <<>> /\ kept = 0
  /\ due = Nothing /\ ran = 0 /\ broken = {}

------------------------------------------------------------------------------
\* MUTANT of Chained: the parent continuation runs last
Chained_swapped(cc1, cc2, owed) ==
  IF cc1 = 0 THEN [cc |-> cc2, made |-> made]
  ELSE [cc |-> Len(made) + 1, made |-> Append(made, Chain(IF cc2 = 0 THEN cc1 ELSE cc2, cc1, owed))]
\* chain_conts, with_star: without a parent it is cc2 itself.
Chained(cc1, cc2, owed) ==
  IF cc1 = 0 THEN [cc |-> cc2, made |-> made]
  ELSE [cc |-> Len(made) + 1, made |-> Append(made, Chain(cc1, cc2, owed))]
ChainFits == running.pcc # 0 => Room

\* The trampoline runs continuation k of the objects in m: with a cc, or with
\* its default, identity.  The promise is to run what is in list.
Enter(m, k, cc, list) ==
  running' = Running(cc, m[k].first, Tail(m[k].owed), SubSeq(list, Len(m[k].owed) + 1, Len(list)))

\* The function that jump() raises TypeError for: it passes on its own cc, and another one
\* among its arguments.
Raise == running' = Outside /\ callers' = <<>> /\ broken' = {"chain"} /\ UNCHANGED <<due, ran>>

\* jump(k, ..., cc=cc) if with, or else jump(k, ...), from the trampoline of a call.
Jump(m, k, with, cc, list) ==
  /\ made' = m
  /\ \/ /\ k = 0
        /\ running' = callers[Len(callers)]
        /\ callers' = SubSeq(callers, 1, Len(callers) - 1)
        /\ due' = list /\ ran' = 0 /\ UNCHANGED broken
     \/ /\ k # 0 /\ m[k].kind = "cont"
        /\ Enter(m, k, IF with THEN cc ELSE 0, list)
        /\ due' = list /\ ran' = k /\ UNCHANGED <<callers, broken>>
     \/ /\ k # 0 /\ m[k].kind = "chain"
        /\ IF with \/ m[m[k].first].kind = "chain"
           THEN Raise
           ELSE /\ Enter(m, m[k].first, m[k].second, list)
                /\ due' = list /\ ran' = m[k].first /\ UNCHANGED <<callers, broken>>

------------------------------------------------------------------------------
\* A normal call of a function, which gets the defaults cc=identity, _pcc=None.
Call ==
  /\ broken = {} /\ Len(callers) < MaxNested
  /\ callers' = Append(callers, running)
  /\ running' = Running(0, 0, Nothing, Nothing)
  /\ UNCHANGED <<made, kept, broken>> /\ NoReturn

\* A normal call of a continuation.  A chain is not trampolined: its jump is
\* returned instead of being performed.
CallKept ==
  /\ broken = {} /\ kept # 0 /\ Len(callers) < MaxNested
  /\ IF made[kept].kind = "cont"
     THEN /\ callers' = Append(callers, running)
          /\ Enter(made, kept, 0, Owed(kept))
          /\ UNCHANGED broken
     ELSE broken' = {"unclaimed"} /\ UNCHANGED <<callers, running>>
  /\ UNCHANGED <<made, kept>> /\ NoReturn

\* What makes the rest of the body a continuation: def f_cont(..., cc=identity, _pcc=cc).
\* In a function that is itself a continuation its own _pcc is not taken over.
NewCont(pcc) == Cont(pcc, <<Len(made) + 1>> \o Promised)
Lost == IF running.rest # Nothing THEN {"sequence"} ELSE {}

\* MUTANT of CallCc: the continuation forgets its parent
CallCc_orphan ==
  /\ InBody /\ Room
  /\ made' = Append(made, NewCont(0))
  /\ running' = Running(Len(made'), 0, Nothing, made'[Len(made')].owed)
  /\ broken' = Lost
  /\ UNCHANGED <<callers, kept>> /\ NoReturn
\* call_cc[f()]: a jump to f, whose cc is the rest of this body.
CallCc ==
  /\ InBody /\ Room
  /\ made' = Append(made, NewCont(running.cc))
  /\ running' = Running(Len(made'), 0, Nothing, made'[Len(made')].owed)
  /\ broken' = Lost
  /\ UNCHANGED <<callers, kept>> /\ NoReturn

\* At the top level of the block f is called normally.
TopCallCc ==
  /\ broken = {} /\ callers = <<>> /\ Room
  /\ made' = Append(made, Cont(0, <<Len(made) + 1>>))
  /\ callers' = <<running>>
  /\ running' = Running(Len(made'), 0, Nothing, made'[Len(made')].owed)
  /\ UNCHANGED <<kept, broken>> /\ NoReturn

\* call_cc[None], call_cc[f() if p else None]: a jump to the rest of the body, with
\* this cc; which is its _pcc, too.
CallNone ==
  /\ InBody /\ Room
  /\ made' = Append(made, NewCont(running.cc))
  /\ running' = Running(running.cc, running.cc, Promised, Nothing)
  /\ broken' = Lost \cup (IF running.cc # 0 THEN {"none"} ELSE {})
  /\ UNCHANGED <<callers, kept>> /\ NoReturn

\* k = call_cc[get_cc()]: get_cc jumps into its cc, with the cc as the argument.
GetCc ==
  /\ InBody /\ Room
  /\ made' = Append(made, NewCont(running.cc))
  /\ kept' = Len(made')
  /\ Enter(made', Len(made'), 0, made'[Len(made')].owed)
  /\ broken' = Lost
  /\ UNCHANGED callers /\ NoReturn

\* MUTANT of Return: the parent continuation runs after cc
Return_ccFirst ==
  /\ InBody
  /\ Jump(made, running.cc, FALSE, 0, Promised)
  /\ UNCHANGED kept
\* return value: chain_conts(_pcc, cc)(value)
Return ==
  /\ InBody
  /\ IF running.pcc = 0
     THEN Jump(made, running.cc, FALSE, 0, Promised)
     ELSE Jump(made, running.pcc, TRUE, running.cc, Promised)
  /\ UNCHANGED kept

\* return g(), or return g(cc=k) with the continuation that was kept.
TailCall(cc, after) ==
  LET owed == running.rest \o after
      c == Chained(running.pcc, cc, owed)
  IN  /\ InBody /\ ChainFits
      /\ made' = c.made
      /\ running' = Running(c.cc, 0, Nothing, owed)
      /\ UNCHANGED <<callers, kept, broken>> /\ NoReturn

\* return k(value): a jump into a continuation, that this one's runs after.
Resume ==
  LET c == Chained(running.pcc, running.cc, Promised)
  IN  /\ InBody /\ kept # 0 /\ ChainFits
      /\ Jump(c.made, kept, TRUE, c.cc, Owed(kept) \o Promised)
      /\ UNCHANGED kept

\* k = cc, in a function that was called by call_cc[] or by a tail call.
Keep ==
  /\ InBody /\ running.cc # 0 /\ kept # running.cc
  /\ kept' = running.cc
  /\ UNCHANGED <<made, running, callers, broken>> /\ NoReturn

\* cc = k, or cc = identity: the continuation for the rest of this call.
SetCc(k) ==
  /\ InBody /\ running.cc # k
  /\ running' = Running(k, running.pcc, running.rest, Owed(k))
  /\ UNCHANGED <<made, callers, kept, broken>> /\ NoReturn

Next ==
  \/ Call \/ CallKept \/ CallCc \/ TopCallCc \/ CallNone \/ GetCc
  \/ Return \/ Resume \/ Keep
  \/ TailCall(running.cc, running.after)
  \/ kept # 0 /\ TailCall(kept, Owed(kept))
  \/ \E k \in {0, kept} : SetCc(k)

Spec == Init /\ [][Next]_cvars
------------------------------------------------------------------------------
TypeOK ==
  /\ made \in Seq(Made) /\ Len(made) <= MaxMade
  /\ \A k \in DOMAIN made : made[k].first < k /\ made[k].second < k
  /\ running.cc \in 0..Len(made) /\ running.pcc \in 0..Len(made)
  /\ kept \in 0..Len(made)
  /\ broken \subseteq {"sequence", "none", "chain", "unclaimed"}

\* A return runs what was promised next, and the call ends when nothing is: a function
\* with call_cc[] in it behaves like one function, whoever called it, and however
\* often its continuations are resumed (tailtools.py:449-477).  It is the promises up to
\* the first that is broken in one of the ways below.
RunsWhatIsDue == ran = IF due = Nothing THEN 0 ELSE due[1]

\* Left out of RunsWhatIsDue, since the code breaks these promises: a second call_cc[] in
\* a function that has a continuation to go to; call_cc[None] in one; a return through two
\* chains; and a normal call of a chain.
AllPromisesKept == broken = {}
==============================================================================
