---------------------------- MODULE TestFixtures ----------------------------
(***************************************************************************)
(* The testing framework: sessions, testsets and catch_signals of          *)
(* unpythonic/test/fixtures.py, and the assertions behind test[] and its   *)
(* sisters in unpythonic/syntax/testingtools.py, in the main thread.       *)
(*                                                                         *)
(* `frames` is the nesting of these constructs, innermost last.  User code *)
(* runs in their bodies, may signal and raise anything, and may open       *)
(* further ones.  A signal that is being offered to the handlers is itself *)
(* a frame, `walk`; one step consults one handler.  The condition system   *)
(* is used as the module Conditions describes it.                          *)
(***************************************************************************)
EXTENDS Integers, Sequences, FiniteSets

CONSTANTS
  MaxDepth,  \* bound on the nesting
  MaxRuns    \* bound on the tests and warnings counted before user code goes on

TestFixturesAssumption == MaxDepth \in Nat /\ MaxRuns \in Nat

VARIABLES
  frames,    \* what is being executed
  nesting,   \* _threadlocals.nesting_level
  postprocs, \* _threadlocals.postproc_stack, its left end first
  barrier,   \* _threadlocals.catch_uncaught_signals, its left end first
  count,     \* the counters tests_run, tests_failed, tests_errored, tests_warned
  exc,       \* the exception being propagated, or None
  bad,       \* history: how often a test went wrong, a testset met a stray signal
             \* or was ended by an exception
  report,    \* history: the numbers the last testset has reported
  ending     \* history: terminate was called in the session being executed

vars == <<frames, nesting, postprocs, barrier, count, exc, bad, report, ending>>

Postprocs == {"none", "returns", "terminate"}
Forms == {"test", "test_signals", "test_raises"}
TestingConditions == {"failure", "error", "warning"}
Protocols == {"signal", "error", "cerror", "warn"}

None == [kind |-> "none", to |-> 0]
Zero == [run |-> 0, failed |-> 0, errored |-> 0, warned |-> 0, bad |-> 0]

\* arg: a testset's postproc, a barrier's state, a test's form, or the
\* condition that is signaled.  `at` of a walk: the frames whose handlers are
\* still to be consulted are those below it.  `start`: the counters at the
\* entry of a testset.
Frame(kind, arg, protocol, at) ==
  [kind |-> kind, arg |-> arg, protocol |-> protocol, at |-> at,
   start |-> IF kind = "testset" THEN [count EXCEPT !.bad = bad] ELSE Zero]

Top == frames[Len(frames)]
Below == SubSeq(frames, 1, Len(frames) - 1)

\* User code runs; a session whose testset has ended is about to end.
Body == exc = None /\ (frames # <<>> => Top.kind \notin {"walk", "session"})
InSession == \E i \in DOMAIN frames : frames[i].kind = "session"

\* _update of the counters
Count(run, failed, errored, warned) ==
  count' = [run |-> count.run + run, failed |-> count.failed + failed,
            errored |-> count.errored + errored, warned |-> count.warned + warned, bad |-> count.bad]

Raise(kind, to) == exc' = [kind |-> kind, to |-> to]

------------------------------------------------------------------------------
(* Entering and leaving the constructs *)

\* User code has something to do, within the bounds of the model.
Free(depth) == Body /\ Len(frames) + depth <= MaxDepth /\ count.run + count.warned < MaxRuns

\* A session brings a top-level testset with it.
EnterSession ==
  /\ Free(2)
  /\ IF nesting > 0
     THEN Raise("error", 0) /\ UNCHANGED <<frames, nesting>>
     ELSE /\ frames' = frames \o <<Frame("session", "none", "none", 0), Frame("testset", "none", "none", 0)>>
          /\ nesting' = nesting + 1
          /\ UNCHANGED exc
  /\ UNCHANGED <<postprocs, barrier, count, bad, report, ending>>

EnterTestset(p) ==
  /\ Free(1)
  /\ frames' = Append(frames, Frame("testset", p, "none", 0))
  /\ nesting' = nesting + 1
  /\ postprocs' = IF p = "none" THEN postprocs ELSE <<p>> \o postprocs
  /\ UNCHANGED <<barrier, count, exc, bad, report, ending>>

EnterCatchSignals(state) ==
  /\ Free(1)
  /\ frames' = Append(frames, Frame("barrier", state, "none", 0))
  /\ barrier' = <<state>> \o barrier
  /\ UNCHANGED <<nesting, postprocs, count, exc, bad, report, ending>>

EnterTest(form) ==
  /\ Free(1)
  /\ frames' = Append(frames, Frame("test", form, "none", 0))
  /\ UNCHANGED <<nesting, postprocs, barrier, count, exc, bad, report, ending>>

\* What a testset reports: the numbers since it was entered.
Report(f, c, b) ==
  [run |-> c.run - f.start.run, failed |-> c.failed - f.start.failed,
   errored |-> c.errored - f.start.errored, warned |-> c.warned - f.start.warned,
   bad |-> b - f.start.bad]

\* MUTANT of Finally: a restart that passes is not noticed
Finally_exceptionsOnly(f) ==
  /\ IF exc.kind = "restart" THEN UNCHANGED <<nesting, postprocs>>
     ELSE /\ nesting' = IF f.kind = "testset" THEN nesting - 1 ELSE nesting
          /\ postprocs' = IF f.kind = "testset" /\ f.arg # "none" THEN Tail(postprocs) ELSE postprocs
  /\ barrier' = IF f.kind = "barrier" THEN Tail(barrier) ELSE barrier
  /\ report' = IF f.kind = "testset" THEN Report(f, count', bad') ELSE report
  /\ ending' = IF f.kind = "session" THEN FALSE ELSE ending

\* MUTANT of Finally: a session takes back the level of its testset again
Finally_twice(f) ==
  /\ nesting' = IF f.kind \in {"testset", "session"} THEN nesting - 1 ELSE nesting
  /\ postprocs' = IF f.kind = "testset" /\ f.arg # "none" THEN Tail(postprocs) ELSE postprocs
  /\ barrier' = IF f.kind = "barrier" THEN Tail(barrier) ELSE barrier
  /\ report' = IF f.kind = "testset" THEN Report(f, count', bad') ELSE report
  /\ ending' = IF f.kind = "session" THEN FALSE ELSE ending

\* The `finally` of a construct, however it is left.
Finally(f) ==
  /\ nesting' = IF f.kind = "testset" THEN nesting - 1 ELSE nesting
  /\ postprocs' = IF f.kind = "testset" /\ f.arg # "none" THEN Tail(postprocs) ELSE postprocs
  /\ barrier' = IF f.kind = "barrier" THEN Tail(barrier) ELSE barrier
  /\ report' = IF f.kind = "testset" THEN Report(f, count', bad') ELSE report
  /\ ending' = IF f.kind = "session" THEN FALSE ELSE ending

Leave ==
  /\ exc = None /\ frames # <<>> /\ Top.kind \in {"session", "testset", "barrier"}
  /\ frames' = Below
  /\ UNCHANGED <<count, exc, bad>>
  /\ Finally(Top)

------------------------------------------------------------------------------
(* Signals *)

Walk(base, cond, protocol) == Append(base, Frame("walk", cond, protocol, Len(base) + 1))

\* User code outside the framework signals something.
Signal(protocol) ==
  /\ Free(1)
  /\ frames' = Walk(frames, "stray", protocol)
  /\ UNCHANGED <<nesting, postprocs, barrier, count, exc, bad, report, ending>>

EmitWarning ==
  /\ Free(1)
  /\ Count(0, 0, 0, 1)
  /\ frames' = Walk(frames, "warning", "cerror")
  /\ UNCHANGED <<nesting, postprocs, barrier, exc, bad, report, ending>>

Handlers == {i \in 1..(Top.at - 1) : frames[i].kind \in {"testset", "test"}}
Innermost == CHOOSE i \in Handlers : \A k \in Handlers : k <= i
GoOn == frames' = [frames EXCEPT ![Len(frames)].at = Innermost] /\ UNCHANGED exc

\* The handler of a test: a stray signal ends the test with the restart
\* _got_signal; with the barrier down, and for the framework's own
\* conditions, the next handler is asked.
Intercept ==
  IF Head(barrier) = "down" \/ Top.arg \in TestingConditions
  THEN GoOn
  ELSE frames' = Below /\ Raise("restart", Innermost)

\* MUTANT of Ignored: the barrier is for all signals
Ignored_all == Head(barrier) = "down"

\* With the barrier down a testset lets stray signals pass.
Ignored == Top.arg \notin TestingConditions /\ Head(barrier) = "down"

\* print_and_proceed, the handler of a testset: it counts a stray signal as
\* an error, calls the innermost postproc, and proceeds if the protocol has
\* a restart for that; if it has not, the next testset is asked as well.
\* (TestConfig.postproc, for when there is no postproc, is None as it is when
\* the module is loaded.)
PrintAndProceed ==
  IF Ignored THEN GoOn /\ UNCHANGED <<count, bad>>
  ELSE /\ IF Top.arg \in TestingConditions THEN UNCHANGED <<count, bad>>
          ELSE Count(1, 0, 1, 0) /\ bad' = bad + 1
       /\ IF postprocs # <<>> /\ Head(postprocs) = "terminate"
          THEN frames' = Below /\ Raise("exit", 0)
          ELSE IF Top.protocol \in {"cerror", "warn"} THEN frames' = Below /\ UNCHANGED exc
          ELSE GoOn

Handle ==
  /\ exc = None /\ frames # <<>> /\ Top.kind = "walk" /\ Handlers # {}
  /\ \/ frames[Innermost].kind = "test" /\ Intercept /\ UNCHANGED <<count, bad>>
     \/ frames[Innermost].kind = "testset" /\ PrintAndProceed
  /\ ending' = (ending \/ (exc'.kind = "exit" /\ InSession))
  /\ UNCHANGED <<nesting, postprocs, barrier, report>>

\* No handler is left: error and cerror raise, signal and warn return.
Unhandled ==
  /\ exc = None /\ frames # <<>> /\ Top.kind = "walk" /\ Handlers = {}
  /\ frames' = Below
  /\ IF Top.protocol \in {"error", "cerror"} THEN Raise("error", 0) ELSE UNCHANGED exc
  /\ UNCHANGED <<nesting, postprocs, barrier, count, bad, report, ending>>

------------------------------------------------------------------------------
(* Assertions *)

\* A test that went well leaves no trace but in the count; any other signals.
Passes == Count(1, 0, 0, 0) /\ frames' = Below /\ UNCHANGED bad
Fails == Count(1, 1, 0, 0) /\ frames' = Walk(Below, "failure", "cerror") /\ bad' = bad + 1
Errors == Count(1, 0, 1, 0) /\ frames' = Walk(Below, "error", "cerror") /\ bad' = bad + 1
Warns == Count(0, 0, 0, 1) /\ frames' = Walk(Below, "warning", "cerror") /\ UNCHANGED bad

\* The body of a test has come to its end; test[] has a value, or one of the
\* marks of fail[], error[] and warn[].
Complete ==
  /\ exc = None /\ frames # <<>> /\ Top.kind = "test"
  /\ \/ Top.arg = "test" /\ (Passes \/ Fails \/ Errors \/ Warns)
     \/ Top.arg # "test" /\ Fails
  /\ UNCHANGED <<nesting, postprocs, barrier, exc, report, ending>>

\* MUTANT of Observed: an unexpected exception is taken for an expected one
Observed_any ==
  \/ Top.arg \in {"test_signals", "test_raises"} /\ Passes
  \/ Top.arg = "test" /\ Count(1, 0, 0, 0) /\ bad' = bad + 1
                      /\ frames' = Walk(Below, "error", "cerror")

\* A signal or an exception has ended the test; an instance of the expected
\* type is what test_signals, or test_raises, is waiting for.
Observed ==
  \/ Errors
  \/ Top.arg = (IF exc.kind = "restart" THEN "test_signals" ELSE "test_raises") /\ Passes

------------------------------------------------------------------------------
(* Exceptions *)

RaiseError ==
  /\ Free(0) /\ Raise("error", 0)
  /\ UNCHANGED <<frames, nesting, postprocs, barrier, count, bad, report, ending>>

Terminate ==
  /\ Free(0) /\ Raise("exit", 0)
  /\ ending' = InSession
  /\ UNCHANGED <<frames, nesting, postprocs, barrier, count, bad, report>>

\* An exception leaves one construct.
Propagate ==
  /\ exc # None /\ frames # <<>>
  /\ \/ /\ Top.kind = "test" /\ (exc.kind = "restart" => exc.to = Len(frames))
        /\ exc' = None
        /\ Observed
        /\ UNCHANGED <<nesting, postprocs, barrier, report, ending>>
     \/ /\ Top.kind = "test" /\ exc.kind = "restart" /\ exc.to # Len(frames)
        /\ frames' = Below
        /\ UNCHANGED <<nesting, postprocs, barrier, count, exc, bad, report, ending>>
     \/ /\ Top.kind = "testset"
        /\ frames' = Below
        /\ exc' = IF exc.kind = "restart" THEN exc ELSE None
        /\ IF exc.kind = "error" THEN Count(1, 0, 1, 0) /\ bad' = bad + 1
           ELSE UNCHANGED <<count, bad>>
        /\ Finally(Top)
     \/ /\ Top.kind \in {"session", "barrier"}
        /\ frames' = Below
        /\ exc' = IF Top.kind = "session" /\ exc.kind = "exit" THEN None ELSE exc
        /\ UNCHANGED <<count, bad>>
        /\ Finally(Top)

\* An exception nobody catches ends the program; another one begins.
Uncaught ==
  /\ exc # None /\ frames = <<>>
  /\ exc' = None
  /\ UNCHANGED <<frames, nesting, postprocs, barrier, count, bad, report, ending>>

------------------------------------------------------------------------------
Init ==
  /\ frames = <<>> /\ nesting = 0 /\ postprocs = <<>> /\ barrier = <<"up">>
  /\ count = Zero /\ exc = None /\ bad = 0 /\ report = Zero /\ ending = FALSE

Next ==
  \/ EnterSession \/ Leave \/ Complete \/ Handle \/ Unhandled \/ Propagate \/ Uncaught
  \/ EmitWarning \/ RaiseError \/ Terminate
  \/ \E p \in Postprocs : EnterTestset(p)
  \/ \E state \in {"up", "down"} : EnterCatchSignals(state)
  \/ \E form \in Forms : EnterTest(form)
  \/ \E protocol \in Protocols : Signal(protocol)

Spec == Init /\ [][Next]_vars
------------------------------------------------------------------------------
(***************************************************************************)
(* Properties                                                              *)
(***************************************************************************)
Numbers == [run : Int, failed : Int, errored : Int, warned : Int, bad : Int]
Frames == [kind : {"session", "testset", "barrier", "test", "walk"},
           arg : {"none", "up", "down", "stray"} \cup Postprocs \cup Forms \cup TestingConditions,
           protocol : {"none"} \cup Protocols, at : Nat, start : Numbers]
TypeOK ==
  /\ nesting \in Nat
  /\ postprocs \in Seq(Postprocs) /\ barrier \in Seq({"up", "down"})
  /\ count \in Numbers /\ report \in Numbers /\ bad \in Nat /\ ending \in BOOLEAN
  /\ exc \in [kind : {"none", "error", "exit", "restart"}, to : 0..Len(frames)]
  /\ frames \in Seq(Frames)
  /\ \A i \in DOMAIN frames : frames[i].at <= i

\* The constructs of kind `kind` that are being executed and have a value.
Places(kind) == {i \in DOMAIN frames : frames[i].kind = kind /\ frames[i].arg # "none"}
Testsets == {i \in DOMAIN frames : frames[i].kind = "testset"}
\* A stack begins with their values, innermost first.
Shows(stack, places) ==
  \A i \in places : stack[Cardinality({k \in places : k >= i})] = frames[i].arg

\* The thread's nesting level, postprocs and signal barriers are those of the
\* constructs being executed, in whatever way others have been left: "When a
\* with catch_signals block exits, the previous state is restored".
BookkeepingMatchesNesting ==
  /\ Len(postprocs) = Cardinality(Places("testset")) /\ Shows(postprocs, Places("testset"))
  /\ Len(barrier) = Cardinality(Places("barrier")) + 1 /\ Shows(barrier, Places("barrier"))
  /\ barrier[Len(barrier)] = "up"
  /\ nesting = Cardinality(Testsets)

\* The failures and errors that a testset reports are together exactly as many
\* as the things that went wrong in its extent, at any depth: tests, exceptions
\* that ended a testset, and stray signals, once for each testset that met
\* them.  And they are never more than the tests (fixtures.py:449-458 asserts
\* and divides).
ReportsTellTheTruth ==
  /\ report.run >= report.failed + report.errored
  /\ report.failed >= 0 /\ report.errored >= 0 /\ report.warned >= 0
  /\ report.bad = report.failed + report.errored

\* A failing test is always heard by the innermost testset, with the barrier
\* up or down and through enclosing tests; only outside of all testsets does
\* it end in a ControlError (testingtools.py:750-758).
FailuresAreHeard ==
  frames # <<>> /\ Top.kind = "walk" /\ Top.arg \in TestingConditions =>
    \A i \in 1..(Len(frames) - 1) : frames[i].kind = "testset" => i < Top.at

\* "The session can be terminated early by calling terminate() at any point
\* inside the dynamic extent of `with session`. This causes the
\* `with session` to exit immediately." (fixtures.py:82-84)
TerminateEndsSession == ending => exc.kind = "exit" \/ Top.kind = "session"
==============================================================================
