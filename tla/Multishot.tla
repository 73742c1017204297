------------------------------ MODULE Multishot ------------------------------
(***************************************************************************)
(* Multi-shot generators and their iterators (unpythonic/syntax/multishot) *)
(* as the macro has expanded them.  User code makes iterators over one     *)
(* generator, forks and rewinds them, and advances each by next, send,     *)
(* throw or close.  The generator may delegate to another one once, by     *)
(* myield_from, whose iterator is an object of its own on the heap.        *)
(*                                                                         *)
(* A continuation is a value: where the body goes on, what it has bound,   *)
(* and the iterator it delegates to.  What an iterator should give is      *)
(* computed from the values it was sent, by walking through both bodies as *)
(* if they were one.                                                       *)
(***************************************************************************)
EXTENDS Naturals, Sequences, FiniteSets, SequencesExt

CONSTANTS
  Code,         \* the bodies "outer" and "inner": sequences of "yield", "bind" (var = myield), "from"
  Sendables,    \* values that are sent
  Exceptions,   \* exceptions that are thrown, or sent
  NoValue,      \* Python's None
  MaxIterators, \* bound: iterators that user code makes
  MaxObjects    \* bound: these, and those of delegations

VARIABLES
  its,      \* the iterators that exist, by number; user code has those that mine holds
  mine,
  agrees,   \* history: the last step gave what was due
  hist,     \* history: by iterator, the values it was sent so far
  over,     \* history: the iterators that have ended or were closed
  entangled \* history: those that were resumed after somebody else had advanced their delegate

mvars == <<its, mine, agrees, hist, over, entangled>>

MultishotAssumption ==
  /\ Code \in [{"outer", "inner"} -> Seq({"yield", "bind", "from"})]
  /\ Code["inner"] \in Seq({"yield", "bind"}) \ {<<>>}
  /\ \A p, q \in DOMAIN Code["outer"] : Code["outer"][p] = "from" /\ Code["outer"][q] = "from" => p = q

Yields(x) == [kind |-> "yields", value |-> x]
Stops(x) == [kind |-> "stops", value |-> x]
Raises(x) == [kind |-> "raises", value |-> x]

\* The body goes on after item at; inner is the delegate or 0, and then its
\* continuation when this one was captured.
Cont(at, locals, inner, then) == [at |-> at, locals |-> locals, inner |-> inner, then |-> then]
Start == Cont(0, <<>>, 0, <<>>)
Iterator(body, k) == [body |-> body, k |-> k, closed |-> FALSE]
Item(body, at) == IF at = 0 THEN "yield" ELSE Code[body][at]
\* Continuations of myield and myield[expr] come with their argument already given.
Partial(body, k) == k.inner = 0 /\ Item(body, k.at) = "yield"

Init ==
  /\ its = <<>> /\ mine = {} /\ hist = <<>> /\ over = {} /\ entangled = {}
  /\ agrees = TRUE

------------------------------------------------------------------------------
\* What a step of an iterator does to the heap h, and gives.  In fails is the body
\* that raises an exception of its own before its next myield.
Result(h, out, k) == [heap |-> h, out |-> out, k |-> k]

RECURSIVE Advance(_, _, _, _, _)
RECURSIVE Proceed(_, _, _, _, _)
\* The driver of myield_from: the delegate gives its value, fails, or ends, and then the
\* body goes on.
Drive(h, n, body, at, locals, mode, value, fails) ==
  LET a == Advance(h, n, mode, value, fails)
  IN  CASE a.out.kind = "yields" -> Result(a.heap, a.out, Cont(at, locals, n, a.heap[n].k))
        [] a.out.kind = "stops" -> Proceed(a.heap, body, at, Append(locals, a.out.value), fails)
        [] a.out.kind = "raises" -> Result(a.heap, a.out, Start)

\* A body runs from item at to its next myield.
Proceed(h, body, at, locals, fails) ==
  LET next == at + 1
  IN  CASE fails = body -> Result(h, Raises("own"), Start)
        [] fails # body /\ at = Len(Code[body]) -> Result(h, Stops(locals), Start)
        [] fails # body /\ at < Len(Code[body]) /\ Code[body][next] # "from" ->
             Result(h, Yields(<<body, next, locals>>), Cont(next, locals, 0, <<>>))
        [] OTHER ->
             Drive(Append(h, Iterator("inner", Start)), Len(h) + 1, body, next, locals, "send", NoValue, fails)

\* A continuation is called: a partial one drops what is sent, any other one raises
\* it when it is an exception.
Resume(h, body, k, mode, value, fails) ==
  LET thrown == mode = "throw" \/ (value \in Exceptions /\ ~ Partial(body, k))
      bound == IF Item(body, k.at) = "bind" THEN Append(k.locals, value) ELSE k.locals
  IN  CASE k.inner # 0 -> Drive(h, k.inner, body, k.at, k.locals, IF thrown THEN "throw" ELSE "send", value, fails)
        [] k.inner = 0 /\ thrown -> Result(h, Raises(value), Start)
        [] OTHER -> Proceed(h, body, k.at, bound, fails)

\* MUTANT of Advance: the continuation stays the old one
Advance_stays(h, i, mode, value, fails) ==
  LET r == Resume(h, h[i].body, h[i].k, mode, value, fails)
  IN  IF h[i].closed THEN [heap |-> h, out |-> Stops(NoValue)]
      ELSE [heap |-> [r.heap EXCEPT ![i].closed = r.out.kind = "stops"], out |-> r.out]
\* _advance: it ends by StopIteration only; after another exception it stays where it is.
Advance(h, i, mode, value, fails) ==
  LET r == Resume(h, h[i].body, h[i].k, mode, value, fails)
  IN  CASE h[i].closed -> [heap |-> h, out |-> Stops(NoValue)]
        [] ~ h[i].closed /\ r.out.kind = "yields" -> [heap |-> [r.heap EXCEPT ![i].k = r.k], out |-> r.out]
        [] OTHER -> [heap |-> [r.heap EXCEPT ![i].closed = r.out.kind = "stops"], out |-> r.out]

------------------------------------------------------------------------------
\* What is due, from the values that were sent.  Both bodies as one: the items with the
\* body they belong to.
Promised ==
  FlattenSeq([p \in DOMAIN Code["outer"] |->
    IF Code["outer"][p] = "from" THEN [q \in DOMAIN Code["inner"] |-> <<"inner", q>>]
                                 ELSE << <<"outer", p>> >>])
Sent(h, body, at) == h[1 + CHOOSE n \in DOMAIN Promised : Promised[n] = <<body, at>>]
Bound(h, body, at, Delegated) ==
  FlattenSeq([p \in 1..at |->
    CASE Code[body][p] = "yield" -> <<>>
      [] Code[body][p] = "bind" -> <<Sent(h, body, p)>>
      [] Code[body][p] = "from" -> <<Delegated>>])
InnerBound(h, at) == Bound(h, "inner", at, <<>>)
OuterBound(h, at) == Bound(h, "outer", at, InnerBound(h, Len(Code["inner"])))

Due(h) ==
  LET item == Promised[Len(h)]
  IN  IF Len(h) > Len(Promised) THEN Stops(OuterBound(h, Len(Code["outer"])))
      ELSE IF item[1] = "outer" THEN Yields(<<"outer", item[2], OuterBound(h, item[2] - 1)>>)
      ELSE Yields(<<"inner", item[2], InnerBound(h, item[2] - 1)>>)
\* The bodies that run between two items, and whether an exception comes out of a
\* partial continuation.
BodyAt(n) == IF n \in DOMAIN Promised THEN Promised[n][1] ELSE "outer"
DropsAt(n) == n = 0 \/ (BodyAt(n) = "outer" /\ Code["outer"][Promised[n][2]] = "yield")

Refused(i, mode, value) ==
  mode = "throw" \/ (value \in Exceptions /\ ~ DropsAt(Len(hist[i])))
Failing(i, fails) == fails \in {BodyAt(Len(hist[i])), BodyAt(Len(hist[i]) + 1)}
DueNow(i, mode, value, fails) ==
  IF i \in over THEN Stops(NoValue)
  ELSE IF Refused(i, mode, value) THEN Raises(value)
  ELSE IF Failing(i, fails) THEN Raises("own")
  ELSE Due(Append(hist[i], value))

\* The delegate of a continuation is not where it was when that was captured.
Moved(k) == k.inner # 0 /\ (its[k.inner].closed \/ its[k.inner].k # k.then)
Entangled(i) == IF Moved(its[i].k) /\ ~ its[i].closed THEN {i} ELSE {}
\* What is known of iterator i from now on is what is known of iterator j.
Like(set, i, j) == IF j \in set THEN set \cup {i} ELSE set \ {i}
Histories(h) == [i \in DOMAIN h |-> IF i \in DOMAIN hist THEN hist[i] ELSE <<>>]

------------------------------------------------------------------------------
RoomForOne == Len(its) < MaxObjects /\ Cardinality(mine) < MaxIterators

\* MultishotIterator(outer())
New ==
  /\ RoomForOne
  /\ its' = Append(its, Iterator("outer", Start)) /\ mine' = mine \cup {Len(its')}
  /\ hist' = Append(hist, <<>>)
  /\ UNCHANGED <<agrees, over, entangled>>

\* next, send and throw
Step(i, mode, value, fails) ==
  LET r == Advance(its, i, mode, value, fails)
      due == DueNow(i, mode, value, fails)
      h == Histories(r.heap)
  IN  /\ Len(r.heap) <= MaxObjects
      /\ its' = r.heap
      /\ agrees' = (i \in Entangled(i) \/ r.out = due)
      /\ hist' = IF due.kind = "raises" \/ i \in over THEN h ELSE [h EXCEPT ![i] = Append(@, value)]
      /\ over' = IF due.kind = "stops" THEN over \cup {i} ELSE over
      /\ entangled' = Entangled(i)
      /\ UNCHANGED mine

\* MUTANT of Close: the iterator stays open
Close_open(i) ==
  LET r == Resume(its, its[i].body, its[i].k, "throw", "GeneratorExit", "nobody")
  IN  /\ ~ its[i].closed
      /\ its' = r.heap
      /\ over' = over \cup {i} /\ entangled' = Entangled(i)
      /\ UNCHANGED <<mine, hist, agrees>>
\* GeneratorExit is thrown into the continuation, which must not reach another myield.
Close(i) ==
  LET r == Resume(its, its[i].body, its[i].k, "throw", "GeneratorExit", "nobody")
  IN  /\ ~ its[i].closed
      /\ its' = [r.heap EXCEPT ![i].closed = TRUE]
      /\ Len(its') <= MaxObjects
      /\ agrees' = (i \in Entangled(i) \/ r.out.kind # "yields")
      /\ hist' = Histories(its')
      /\ over' = over \cup {i} /\ entangled' = Entangled(i)
      /\ UNCHANGED mine

\* MUTANT of Copy: the copy of a closed iterator is open
Copy_open(i) ==
  /\ RoomForOne
  /\ its' = Append(its, Iterator("outer", its[i].k)) /\ mine' = mine \cup {Len(its')}
  /\ hist' = Append(hist, hist[i])
  /\ over' = Like(over, Len(its'), i)
  /\ UNCHANGED <<agrees, entangled>>
\* copy.copy: the fork shares the continuation.
Copy(i) ==
  /\ RoomForOne
  /\ its' = Append(its, its[i]) /\ mine' = mine \cup {Len(its')}
  /\ hist' = Append(hist, hist[i])
  /\ over' = Like(over, Len(its'), i)
  /\ UNCHANGED <<agrees, entangled>>

\* mi.k = other.k goes back, or forth, to where the other one is, and opens the iterator.
SetK(i, j) ==
  /\ ~ its[j].closed
  /\ its[i] # its[j]
  /\ its' = [its EXCEPT ![i].k = its[j].k, ![i].closed = FALSE]
  /\ hist' = [hist EXCEPT ![i] = hist[j]]
  /\ over' = over \ {i}
  /\ UNCHANGED <<mine, agrees, entangled>>

\* User code; a behaviour ends where a delegate was advanced by another one.
Next ==
  /\ entangled = {}
  /\ \/ New
     \/ \E i \in mine :
          \/ \E v \in Sendables \cup Exceptions, f \in {"nobody", "outer", "inner"} : Step(i, "send", v, f)
          \/ \E e \in Exceptions : Step(i, "throw", e, "nobody")
          \/ Close(i) \/ Copy(i)
          \/ \E j \in mine : SetK(i, j)

Spec == Init /\ [][Next]_mvars
------------------------------------------------------------------------------
TypeOK ==
  /\ mine \subseteq DOMAIN its /\ over \subseteq mine /\ entangled \subseteq mine
  /\ Len(hist) = Len(its) /\ Len(its) <= MaxObjects
  /\ \A i \in DOMAIN its :
       /\ its[i].body = "outer" <=> i \in mine
       /\ its[i].k.inner \in {0} \cup (DOMAIN its \ mine)
       /\ i \in mine \ entangled => (its[i].closed <=> i \in over)

\* Every iterator gives what the bodies would give for the values it was sent, as if it
\* were the only one, however it was forked and rewound ("branching execution into
\* independent timelines", doc/macros.md:1698); unless the delegate of a continuation has
\* been advanced since that was captured.
TimelinesAreIndependent == agrees

\* The documentation makes no exception for delegation.
AlwaysIndependent == entangled = {}
==============================================================================
