------------------------------ MODULE Escapes ------------------------------
(***************************************************************************)
(* Jumps outward and sideways on the call stack, in one thread: catch,     *)
(* throw and call_ec (unpythonic/ec.py), jump and trampolined (tco.py),    *)
(* and the loops built on both (fploop.py).                                *)
(*                                                                         *)
(* User code runs on top of `stack` and calls, returns, raises, throws and *)
(* escapes as it likes; it lets escapes pass (they are BaseExceptions).    *)
(***************************************************************************)
EXTENDS Naturals, Sequences

CONSTANTS
  Tags,       \* the tags that user code catches and throws
  None,       \* no tag, or no tags
  Trampolined,  \* as a decorator; the others are the arguments of catch
  Inert,      \* the target of a jump to something that is not callable
  Uids,       \* what id(anchor) may be, in call_ec
  Catchers,   \* the arguments that user code gives catch
  Throws,     \* the arguments that user code gives throw, but for the value
  Functions,  \* the functions that are called: their decorators, outermost first
  Lengths,    \* the lengths of the iterables looped over
  MaxDepth,   \* bound: the height of the stack
  MaxEcs      \* bound: how often call_ec is called

Catcher == [tags : {None} \cup SUBSET (Tags \cup Uids), untagged : BOOLEAN]
Thrown == [tag : Tags \cup {None} \cup Uids, catchall : BOOLEAN]
Decorators(f) == {f[i] : i \in 1..Len(f)}

EscapesAssumption ==
  /\ None \notin Tags \cup Uids /\ Tags \cap Uids = {}
  /\ \A tags \in SUBSET (Tags \cup Uids) : tags # None
  /\ Catchers \subseteq Catcher /\ Throws \subseteq Thrown
  /\ \A f \in Functions : f \in Seq(Catchers \cup {Trampolined})
  /\ \A f \in Functions : \A i, j \in 1..Len(f) : f[i] = Trampolined /\ f[j] = Trampolined => i = j
  /\ Lengths \subseteq Nat /\ MaxDepth \in Nat /\ MaxEcs \in Nat

VARIABLES
  stack,  \* the active catch points, call_ecs and trampolines, innermost last
  ecs,    \* the escape continuations made so far: uid and ec_valid
  mode    \* what is going on at the top of the stack

evars == <<stack, ecs, mode>>

\* What a function returns: a jump, or any other value
Value == [jump |-> FALSE]
Jump(target) == [jump |-> TRUE, target |-> target]

Running(v) == [kind |-> "running", got |-> v]     \* user code, which has received v
Returning(v) == [kind |-> "returning", value |-> v]
Escaping(tag, catchall, ec) == [kind |-> "escaping", tag |-> tag, catchall |-> catchall, ec |-> ec]
Failing == [kind |-> "failing"]

\* `left`: for loops over an iterable, the elements that are left.  `inner`:
\* called by the frame below itself, not by the user code in it.
CatchFrame(c, inner) == [kind |-> "catch", tags |-> c.tags, untagged |-> c.untagged, inner |-> inner]
EcFrame(n) == [kind |-> "call_ec", ec |-> n, tags |-> {ecs'[n].uid}, untagged |-> FALSE, inner |-> FALSE]
TrampolineFrame(left, inner) == [kind |-> "trampoline", left |-> left, inner |-> inner]

Top == stack[Len(stack)]
Below == SubSeq(stack, 1, Len(stack) - 1)
Fits(n) == Len(stack) + n <= MaxDepth
Runs == mode.kind = "running"

------------------------------------------------------------------------------
\* catch.shouldcatch
ShouldCatch(f, e) ==
  \/ f.tags = None /\ e.catchall
  \/ f.untagged /\ e.tag = None
  \/ f.tags # None /\ e.tag # None /\ e.tag \in f.tags

\* MUTANT of Target: the trampoline is not stripped
Target_asIs(f) == f

\* _jump.__init__: the target without its trampoline, and without what is
\* around it, since functools.wraps copies the attribute _entrypoint.
Target(f) ==
  IF f = Inert \/ Trampolined \notin Decorators(f) THEN f
  ELSE LET i == CHOOSE i \in 1..Len(f) : f[i] = Trampolined IN SubSeq(f, i + 1, Len(f))

\* The frames of a call of f; the first is called by user code, or by the
\* trampoline below it.
FramesOf(f, inner) ==
  [i \in 1..Len(f) |-> IF f[i] = Trampolined THEN TrampolineFrame(0, inner \/ i > 1)
                                             ELSE CatchFrame(f[i], inner \/ i > 1)]

\* The topmost frame returns v, to the frame below or to the user code in it.
Pop(v) == /\ stack' = Below
          /\ mode' = IF Top.inner THEN Returning(v) ELSE Running(v)

\* MUTANT of Invalidated: one ec_valid for all calls of call_ec
Invalidated_all == IF Top.kind = "call_ec" THEN [i \in 1..Len(ecs) |-> [ecs[i] EXCEPT !.valid = FALSE]] ELSE ecs
\* MUTANT of Invalidated: ec_valid stays true
Invalidated_never == ecs
\* `finally: ec_valid = False`, if the topmost frame is a call_ec
Invalidated == IF Top.kind = "call_ec" THEN [ecs EXCEPT ![Top.ec].valid = FALSE] ELSE ecs

------------------------------------------------------------------------------
\* User code calls a function.
Call(f) ==
  /\ Runs /\ Fits(Len(f))
  /\ stack' = stack \o FramesOf(f, FALSE)
  /\ mode' = Running(Value)
  /\ UNCHANGED ecs

\* The identity of the anchor is that of no other anchor that is alive, which is
\* as long as its call_ec is active.
NewEc(u) ==
  /\ Len(ecs) < MaxEcs
  /\ \A i \in 1..Len(stack) : stack[i].kind = "call_ec" => ecs[stack[i].ec].uid # u
  /\ ecs' = Append(ecs, [uid |-> u, valid |-> TRUE])

CallEc(u) ==
  /\ Runs /\ Fits(1) /\ NewEc(u)
  /\ stack' = Append(stack, EcFrame(Len(ecs) + 1))
  /\ mode' = Running(Value)

\* looped, and looped_over: a trampoline around the body.  The first element is
\* taken before; over an empty iterable there is no loop.
Loop(n) ==
  /\ Runs /\ Fits(1)
  /\ stack' = IF n = 0 THEN stack ELSE Append(stack, TrampolineFrame(n - 1, FALSE))
  /\ mode' = Running(Value)
  /\ UNCHANGED ecs

\* breakably_looped, breakably_looped_over: the same in a call_ec, whose escape
\* continuation is brk
BreakableLoop(u, n) ==
  /\ Runs /\ Fits(2) /\ NewEc(u)
  /\ LET inside == Append(stack, EcFrame(Len(ecs) + 1))
     IN  IF n = 0 THEN stack' = inside /\ mode' = Returning(Value)
         ELSE stack' = Append(inside, TrampolineFrame(n - 1, TRUE)) /\ mode' = Running(Value)

\* User code calls the magic parameter `loop`, or `cnt`, of a surrounding loop,
\* which makes a jump to the body, or ends the loop after the last element.
CallLoop(k) ==
  /\ Runs /\ stack[k].kind = "trampoline"
  /\ stack' = [stack EXCEPT ![k].left = IF @ = 0 THEN 0 ELSE @ - 1]
  /\ mode' = Running(IF stack[k].left = 0 THEN Value ELSE Jump(<<>>))
  /\ UNCHANGED ecs

\* User code returns: something, a jump it makes, or what it has got.
Return(v) ==
  /\ Runs /\ stack # <<>>
  /\ mode' = Returning(v)
  /\ UNCHANGED <<stack, ecs>>

Throw(t) ==
  /\ Runs
  /\ mode' = Escaping(t.tag, t.catchall, 0)
  /\ UNCHANGED <<stack, ecs>>

\* User code calls an escape continuation, which it may have kept.
Invoke(n) ==
  /\ Runs
  /\ mode' = IF ecs[n].valid THEN Escaping(ecs[n].uid, FALSE, n) ELSE Failing
  /\ UNCHANGED <<stack, ecs>>

Fail == Runs /\ mode' = Failing /\ UNCHANGED <<stack, ecs>>

------------------------------------------------------------------------------
\* A catch point or a call_ec returns what its function returns.
Leave ==
  /\ mode.kind = "returning" /\ Top.kind # "trampoline"
  /\ Pop(mode.value)
  /\ ecs' = Invalidated

\* The trampoline claims a jump and calls its target, or returns the result.
Trampoline ==
  /\ mode.kind = "returning" /\ Top.kind = "trampoline"
  /\ IF ~ mode.value.jump THEN Pop(mode.value)
     ELSE LET target == Target(mode.value.target)
          IN  IF target = Inert THEN stack' = stack /\ mode' = Failing
              ELSE /\ Fits(Len(target))
                   /\ stack' = stack \o FramesOf(target, TRUE)
                   /\ mode' = Running(Value)
  /\ UNCHANGED ecs

\* An escape is caught, or passes.
Unwind ==
  /\ mode.kind = "escaping" /\ stack # <<>>
  /\ IF Top.kind # "trampoline" /\ ShouldCatch(Top, mode) THEN Pop(Value)
     ELSE stack' = Below /\ UNCHANGED mode
  /\ ecs' = Invalidated

\* Another exception passes; user code may catch it.
Propagate ==
  /\ mode.kind = "failing" /\ stack # <<>>
  /\ stack' = Below
  /\ mode' \in {Failing} \cup IF Top.inner THEN {} ELSE {Running(Value)}
  /\ ecs' = Invalidated

\* The program ends, or the exception has ended one line of a session.
Uncaught ==
  /\ mode.kind \in {"escaping", "failing"} /\ stack = <<>>
  /\ mode' = Running(Value)
  /\ UNCHANGED <<stack, ecs>>

Init == stack = <<>> /\ ecs = <<>> /\ mode = Running(Value)

UserCode ==
  \/ Fail
  \/ \E f \in Functions : Call(f)
  \/ \E u \in Uids : CallEc(u)
  \/ \E n \in Lengths : Loop(n) \/ \E u \in Uids : BreakableLoop(u, n)
  \/ \E k \in 1..Len(stack) : CallLoop(k)
  \/ \E v \in {Value} \cup {Jump(f) : f \in Functions \cup {Inert}} : Return(v)
  \/ Runs /\ Return(mode.got)
  \/ \E t \in Throws : Throw(t)
  \/ \E n \in 1..Len(ecs) : Invoke(n)

Next == UserCode \/ Leave \/ Trampoline \/ Unwind \/ Propagate \/ Uncaught

Spec == Init /\ [][Next]_evars
------------------------------------------------------------------------------
(***************************************************************************)
(* Properties                                                              *)
(***************************************************************************)
AnyValue == {Value} \cup {Jump(f) : f \in Functions \cup {Inert, <<>>}}
TypeOK ==
  /\ ecs \in Seq([uid : Uids, valid : BOOLEAN])
  /\ \A i \in 1..Len(stack) :
       CASE stack[i].kind = "catch" -> [tags |-> stack[i].tags, untagged |-> stack[i].untagged] \in Catchers
         [] stack[i].kind = "call_ec" -> ecs[stack[i].ec].valid
         [] stack[i].kind = "trampoline" -> stack[i].left \in Nat
  /\ \/ mode.kind = "running" /\ mode.got \in AnyValue
     \/ mode.kind = "returning" /\ mode.value \in AnyValue
     \/ mode.kind = "escaping" /\ [tag |-> mode.tag, catchall |-> mode.catchall] \in Thrown
     \/ mode.kind = "failing"

\* The table of ec.py:117-126: "x" or "t" in the row of the catch point and the
\* column of the throw.
Table(f, e) ==
  LET row == CASE f.tags = None /\ ~ f.untagged -> "a" [] f.tags = None /\ f.untagged -> "b"
               [] f.tags # None /\ ~ f.untagged -> "c" [] f.tags # None /\ f.untagged -> "d"
      column == CASE e.tag = None /\ ~ e.catchall -> 0 [] e.tag = None /\ e.catchall -> 1
                  [] e.tag # None /\ ~ e.catchall -> 2 [] e.tag # None /\ e.catchall -> 3
      tagged == row \in {"c", "d"} /\ column \in {2, 3} /\ e.tag \in f.tags
  IN  tagged \/ <<row, column>> \in {<<"a", 1>>, <<"a", 3>>, <<"b", 0>>, <<"b", 1>>, <<"b", 3>>, <<"d", 0>>, <<"d", 1>>}

\* An escape continuation that is not refused arrives at its own call_ec and
\* nowhere else ("it will always reach its intended destination", ec.py:220-224),
\* from any depth, also if it was kept; a throw goes by the table.
EscapesArrive ==
  [][mode.kind = "escaping" =>
       /\ mode.ec # 0 => \E k \in 1..Len(stack) : stack[k].kind = "call_ec" /\ stack[k].ec = mode.ec
       /\ stack # <<>> /\ mode'.kind # "escaping" => Top.kind # "trampoline"
       /\ stack # <<>> /\ Top.kind # "trampoline" =>
            (mode'.kind # "escaping" <=> IF mode.ec # 0 THEN Top.kind = "call_ec" /\ Top.ec = mode.ec
                                                       ELSE Table(Top, mode))]_evars

\* Tail calls do not pile up trampolines ("making sure this remains a
\* one-trampoline party", tco.py:57-60): none is called by another one.
OneTrampoline ==
  \A k, j \in 1..Len(stack) :
    /\ k < j /\ stack[k].kind = "trampoline" /\ stack[j].kind = "trampoline"
    => \E i \in k + 1..j : ~ stack[i].inner

\* "Mark function as exitable by throw" (ec.py:77): a function that catches is
\* called with its catch point, by a jump as well.
JumpsKeepCatchPoints ==
  [][mode.kind = "returning" /\ mode.value.jump /\ Top.kind = "trampoline" /\ mode'.kind = "running" =>
       \A c \in Decorators(mode.value.target) \ {Trampolined} :
         \E k \in Len(stack) + 1..Len(stack') : stack'[k] = CatchFrame(c, TRUE)]_evars
==============================================================================
