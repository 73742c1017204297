----------------------------- MODULE Conditions -----------------------------
(***************************************************************************)
(* The condition system of unpythonic/conditions.py in one thread: the     *)
(* dynamic environment (the thread's deques of restarts and of handlers),  *)
(* the protocols signal, error, cerror, warn and resignal, and the         *)
(* unwinding started by InvokeRestart.                                     *)
(*                                                                         *)
(* `frames` is the Python call stack, as far as it consists of constructs  *)
(* of the module, innermost last.  User code runs in the bodies of `with`  *)
(* blocks, in handlers and in restart functions, and may there do anything *)
(* the module offers.  What the library does between two pieces of user    *)
(* code is one step; unwinding takes one step per frame, since each frame  *)
(* of user code may catch what passes through it.                          *)
(***************************************************************************)
EXTENDS Naturals, Sequences

CONSTANTS
  Names,       \* restart names that user code binds and invokes
  Types,       \* condition types that user code signals
  ControlError,\* the condition type signaled by the system itself
  RestartSets, \* the sets of names a `with restarts` of user code may bind
  ClauseLists, \* the argument lists a `with handlers` of user code may have
  Contexts,    \* identities of bindings dictionaries
  MaxDepth     \* bound on the depth of the call stack

Conds == Types \cup {ControlError}
AllNames == Names \cup {"proceed", "muffle", "_proceed"}

(***************************************************************************)
(* One clause of `with handlers`: a type specification, as the set of the  *)
(* condition types that are subclasses of it, and a handler.  The handler  *)
(* is user code, or (resignal) the library's own _resignal_handler, which  *)
(* signals mapping[c], in order, for a condition of type c.                *)
(***************************************************************************)
Clause == [types : SUBSET Conds, resignals : BOOLEAN,
           mapping : [Conds -> Seq(Conds)]]

ASSUME ConditionsAssumption ==
  /\ RestartSets \subseteq SUBSET Names
  /\ ClauseLists \subseteq Seq(Clause)
  /\ MaxDepth \in Nat

VARIABLES
  frames,    \* the call stack
  restarts,  \* _stacks.restarts; its left end is the end of the sequence
  handlers,  \* _stacks.handlers, likewise
  exc,       \* the exception being propagated, if any
  held       \* a BoundRestart that user code has kept, if any

vars == <<frames, restarts, handlers, exc, held>>

(***************************************************************************)
(* Frames.  `env` is a history value: the two deques as they were when the *)
(* frame was entered.                                                      *)
(*   restarts   a `with restarts` of user code; its phase tells whether    *)
(*              the block or one of the restart functions runs             *)
(*   protocol   a `with restarts` inside cerror or warn; its phase is      *)
(*              "call" until it has made the call its body starts with     *)
(*   handlers   the block of a `with handlers`                             *)
(*   signal     the loop over the handlers: the clause reached (`at`),     *)
(*              whether the deque iterator is still valid (`live`), and,   *)
(*              as history, the clauses run so far                         *)
(*   handler    a handler: user code, or a _resignal_handler with the      *)
(*              conditions it still has to signal                          *)
(* A condition is an object: `inst` is its identity, the depth at which it *)
(* was first signaled.  `attribute` is the __protocol__ of the instance,   *)
(* the same in every frame of that instance; `again` is history: since     *)
(* this signal was made, the instance has been signaled once more.         *)
(***************************************************************************)
Bindings == [ctx : Contexts, names : SUBSET AllNames]
Env == Seq(Bindings) \X Seq(Seq(Clause))
Protocols == {"signal", "error", "cerror", "warn"}
Place == Nat \X Nat

RestartsFrame == [kind : {"restarts"}, phase : {"block", "restart"},
                  ctx : Contexts, names : SUBSET AllNames, env : Env]
ProtocolFrame == [kind : {"protocol"}, protocol : {"cerror", "warn"},
                  phase : {"call", "block"}, cond : Conds, inst : Nat,
                  ctx : Contexts, names : SUBSET AllNames, env : Env]
HandlersFrame == [kind : {"handlers"}, clauses : Seq(Clause), env : Env]
SignalFrame == [kind : {"signal"}, cond : Conds, protocol : Protocols,
                inst : Nat, attribute : Protocols, again : BOOLEAN,
                at : Place, live : BOOLEAN, ran : SUBSET Place, env : Env]
HandlerFrame == [kind : {"handler"}, user : BOOLEAN, todo : Seq(Conds), env : Env]
Frame == RestartsFrame \cup ProtocolFrame \cup HandlersFrame
           \cup SignalFrame \cup HandlerFrame

(***************************************************************************)
(* The propagating exception.  Of an InvokeRestart, `how` is history: the  *)
(* restart was looked up while its block ran ("fresh"), while one of the   *)
(* restart functions of its own frame ran ("rerun"), or it had been kept   *)
(* from an earlier find_restart ("kept").                                  *)
(***************************************************************************)
NoExc == [kind |-> "none"]
Exception == [kind |-> "exception"]
BoundRestart == [kind : {"invoke"}, name : AllNames, ctx : Contexts]
InvokeRestart == [kind : {"invoke"}, name : AllNames, ctx : Contexts,
                  how : {"fresh", "rerun", "kept"}]
Exc == {NoExc, Exception} \cup InvokeRestart
NotHeld == NoExc

Depth == Len(frames)
Top == frames[Depth]
Pop(s) == SubSeq(s, 1, Len(s) - 1)
EnvNow == <<restarts, handlers>>

BindsRestarts(f) == f.kind \in {"restarts", "protocol"}
RunsUserCode(f) == f.kind \in {"restarts", "handlers"}
                     \/ (f.kind = "handler" /\ f.user)

UserCode == exc.kind = "none" /\ (frames # <<>> => RunsUserCode(Top))
LibraryCode(kind) == exc.kind = "none" /\ frames # <<>> /\ Top.kind = kind

\* A dictionary lives as long as a frame, an exception or a variable refers
\* to it; a new one differs from every living one.
InUse(d) ==
  \/ \E k \in 1..Depth : BindsRestarts(frames[k]) /\ frames[k].ctx = d
  \/ exc.kind = "invoke" /\ exc.ctx = d
  \/ held.kind = "invoke" /\ held.ctx = d
NewContext == CHOOSE d \in Contexts : ~InUse(d)

\* A change of the handlers deque invalidates every iterator over it.
Invalidate(fs) ==
  [k \in 1..Len(fs) |-> IF fs[k].kind = "signal"
                        THEN [fs[k] EXCEPT !.live = FALSE] ELSE fs[k]]

------------------------------------------------------------------------------
(***************************************************************************)
(* The two stacks.  __enter__ puts the bindings at the left end of the     *)
(* deque, __exit__ removes whatever is there, on a normal exit as well as  *)
(* on an exceptional one.                                                  *)
(***************************************************************************)
\* MUTANT of EnterRestartStack: the position on the deque as the identity
EnterRestartStack_position(ns) ==
  restarts' = Append(restarts, [ctx |-> Len(restarts), names |-> ns])

EnterRestartStack(ns) == restarts' = Append(restarts, [ctx |-> NewContext, names |-> ns])

\* MUTANT of ExitStacks: pop() instead of popleft()
ExitStacks_wrongEnd ==
  /\ restarts' = IF BindsRestarts(Top) THEN Tail(restarts) ELSE restarts
  /\ handlers' = IF Top.kind = "handlers" THEN Tail(handlers) ELSE handlers
  /\ frames' = IF Top.kind = "handlers" THEN Invalidate(Pop(frames)) ELSE Pop(frames)

ExitStacks ==
  /\ restarts' = IF BindsRestarts(Top) THEN Pop(restarts) ELSE restarts
  /\ handlers' = IF Top.kind = "handlers" THEN Pop(handlers) ELSE handlers
  /\ frames' = IF Top.kind = "handlers" THEN Invalidate(Pop(frames)) ELSE Pop(frames)

\* with restarts(...): enter the block
EnterRestarts(ns) ==
  /\ UserCode
  /\ Depth < MaxDepth
  /\ \E d \in Contexts : ~InUse(d)
  /\ frames' = Append(frames, [kind |-> "restarts", phase |-> "block",
                               ctx |-> NewContext, names |-> ns, env |-> EnvNow])
  /\ EnterRestartStack(ns)
  /\ UNCHANGED <<handlers, exc, held>>

\* with handlers(...), with resignal(...), resignal_in(...): enter the block
EnterHandlers(cs) ==
  /\ UserCode
  /\ Depth < MaxDepth
  /\ frames' = Append(Invalidate(frames),
                      [kind |-> "handlers", clauses |-> cs, env |-> EnvNow])
  /\ handlers' = Append(handlers, cs)
  /\ UNCHANGED <<restarts, exc, held>>

\* User code leaves its frame normally: the block or the restart function
\* ends, or the handler returns, which delegates to the next outer handler.
Leave ==
  /\ UserCode
  /\ frames # <<>>
  /\ ExitStacks
  /\ UNCHANGED <<exc, held>>

------------------------------------------------------------------------------
(***************************************************************************)
(* Signaling                                                               *)
(***************************************************************************)
\* Dynamically innermost frame first, then the clauses in textual order
Before(p, q) == p[1] > q[1] \/ (p[1] = q[1] /\ p[2] < q[2])

\* The clauses of hs that match c, as (deque position, clause index)
Matching(hs, c) ==
  UNION {{<<i, j>> : j \in {j \in 1..Len(hs[i]) : c \in hs[i][j].types}} :
           i \in 1..Len(hs)}

\* The instances of type c that can be passed to a protocol now: a new one,
\* or one whose handlers are running.
NewInstance == Depth + 1
Instances(c) ==
  {NewInstance} \cup {frames[k].inst : k \in {k \in 1..Depth :
                       frames[k].kind = "signal" /\ frames[k].cond = c}}

\* _prepare_signal_instance: the attribute __protocol__ of instance i
\* becomes p, whoever signaled that instance before.
Prepared(fs, i, p) ==
  [k \in 1..Len(fs) |-> IF fs[k].kind = "signal" /\ fs[k].inst = i
                        THEN [fs[k] EXCEPT !.attribute = p, !.again = TRUE] ELSE fs[k]]

NewSignal(c, p, i) ==
  [kind |-> "signal", cond |-> c, protocol |-> p,
   inst |-> i, attribute |-> p, again |-> FALSE, at |-> <<Len(handlers) + 1, 0>>,
   live |-> TRUE, ran |-> {}, env |-> EnvNow]

NewProtocol(c, p, i, ns) ==
  [kind |-> "protocol", protocol |-> p, phase |-> "call", cond |-> c, inst |-> i,
   ctx |-> NewContext, names |-> ns, env |-> EnvNow]

\* A call of one of the protocols, from the frames fs: signal and error
\* start to look for handlers, cerror and warn first provide a restart.
Call(fs, c, p, i) ==
  /\ Depth < MaxDepth
  /\ IF p \in {"signal", "error"}
     THEN frames' = Append(Prepared(fs, i, p), NewSignal(c, p, i)) /\ UNCHANGED restarts
     ELSE LET ns == IF p = "cerror" THEN {"proceed"} ELSE {"muffle"}
          IN  /\ \E d \in Contexts : ~InUse(d)
              /\ frames' = Append(fs, NewProtocol(c, p, i, ns))
              /\ EnterRestartStack(ns)
  /\ UNCHANGED handlers

Signal(c, p) ==
  /\ UserCode
  /\ \E i \in Instances(c) : Call(frames, c, p, i)
  /\ UNCHANGED <<exc, held>>

\* cerror and warn go on: inside its restart `muffle`, warn provides a
\* restart `_proceed`; inside that, or inside `proceed`, it is time to signal.
ProtocolCall ==
  /\ LibraryCode("protocol") /\ Top.phase = "call"
  /\ Depth < MaxDepth
  /\ LET fs == [frames EXCEPT ![Depth].phase = "block"]
     IN  IF Top.names = {"muffle"}
         THEN /\ \E d \in Contexts : ~InUse(d)
              /\ frames' = Append(fs, NewProtocol(Top.cond, "warn", Top.inst, {"_proceed"}))
              /\ EnterRestartStack({"_proceed"})
         ELSE /\ frames' = Append(Prepared(fs, Top.inst, Top.protocol),
                                  NewSignal(Top.cond, Top.protocol, Top.inst))
              /\ UNCHANGED restarts
  /\ UNCHANGED <<handlers, exc, held>>

\* warn, after its inner block: the warning is emitted, which raises it if
\* the warning filters say so, and the block around it ends.
ProtocolReturn ==
  /\ LibraryCode("protocol") /\ Top.phase = "block"
  /\ \/ ExitStacks /\ UNCHANGED exc
     \/ Top.names = {"muffle"} /\ exc' = Exception /\ UNCHANGED <<frames, restarts, handlers>>
  /\ UNCHANGED held

\* The clauses the loop of signal has yet to reach
Remaining(f) == {p \in Matching(handlers, f.cond) : Before(f.at, p)}

\* MUTANT of NextClause: the deque is walked from its other end
NextClause_outermostFirst(f, p) ==
  /\ p \in Remaining(f)
  /\ \A q \in Remaining(f) : q = p \/ Before(q, p)
  /\ p[1] = f.at[1] \/ f.live

\* The deque iterator is asked for another element only when no further
\* clause of the current one matches.
NextClause(f, p) ==
  /\ p \in Remaining(f)
  /\ \A q \in Remaining(f) : q = p \/ Before(p, q)
  /\ p[1] = f.at[1] \/ f.live

RunHandler ==
  /\ LibraryCode("signal")
  /\ Depth < MaxDepth
  /\ \E p \in Remaining(Top) :
       LET clause == handlers[p[1]][p[2]]
       IN  /\ NextClause(Top, p)
           /\ frames' = Append([frames EXCEPT ![Depth].at = p,
                                              ![Depth].ran = @ \cup {p}],
                               [kind |-> "handler", user |-> ~clause.resignals,
                                todo |-> clause.mapping[Top.cond], env |-> EnvNow])
  /\ UNCHANGED <<restarts, handlers, exc, held>>

\* A handler has changed the deque: the iterator raises RuntimeError.
IteratorFails ==
  /\ LibraryCode("signal")
  /\ ~Top.live
  /\ \A p \in Remaining(Top) : p[1] # Top.at[1]
  /\ ExitStacks
  /\ exc' = Exception
  /\ UNCHANGED held

\* MUTANT of Unhandled: one handler that returns is taken for an answer
Unhandled_afterFirst ==
  /\ LibraryCode("signal")
  /\ Top.live
  /\ Remaining(Top) = {} \/ Top.ran # {}
  /\ ExitStacks
  /\ exc' = IF Top.protocol \in {"error", "cerror"} THEN Exception ELSE exc
  /\ UNCHANGED held

\* MUTANT of Unhandled: cerror forgets to raise
Unhandled_cerrorReturns ==
  /\ LibraryCode("signal")
  /\ Top.live
  /\ Remaining(Top) = {}
  /\ ExitStacks
  /\ exc' = IF Top.protocol = "error" THEN Exception ELSE exc
  /\ UNCHANGED held

\* No matching handler is left: signal returns, and so does warn's; error
\* and cerror raise ControlError.
Unhandled ==
  /\ LibraryCode("signal")
  /\ Top.live
  /\ Remaining(Top) = {}
  /\ ExitStacks
  /\ exc' = IF Top.protocol \in {"error", "cerror"} THEN Exception ELSE exc
  /\ UNCHANGED held

\* MUTANT of Resignal: always resignals with `signal`
Resignal_plainSignal ==
  /\ LibraryCode("handler") /\ ~Top.user
  /\ \/ /\ Top.todo # <<>>
        /\ \E i \in Instances(Head(Top.todo)) :
             Call([frames EXCEPT ![Depth].todo = Tail(@)], Head(Top.todo), "signal", i)
     \/ /\ Top.todo = <<>>
        /\ ExitStacks
  /\ UNCHANGED <<exc, held>>

\* _resignal_handler signals the conditions of its mapping one by one, each
\* with the __protocol__ that the instance it was called with has by now,
\* then returns.  An ApplicationExc may be an exact instance.
Resignal ==
  /\ LibraryCode("handler") /\ ~Top.user
  /\ \/ /\ Top.todo # <<>>
        /\ \E p \in Protocols, i \in Instances(Head(Top.todo)) :
             /\ p = frames[Depth - 1].attribute
             /\ Call([frames EXCEPT ![Depth].todo = Tail(@)], Head(Top.todo), p, i)
     \/ /\ Top.todo = <<>>
        /\ ExitStacks
  /\ UNCHANGED <<exc, held>>

------------------------------------------------------------------------------
(***************************************************************************)
(* Invoking restarts                                                       *)
(***************************************************************************)
IsBound(n) == \E i \in 1..Len(restarts) : n \in restarts[i].names

\* MUTANT of FindRestart: the outermost restart of that name wins
FindRestart_outermost(n, i) ==
  /\ n \in restarts[i].names
  /\ \A j \in 1..(i - 1) : n \notin restarts[j].names

\* find_restart: position i holds the most recently bound restart of that name
FindRestart(n, i) ==
  /\ n \in restarts[i].names
  /\ \A j \in (i + 1)..Len(restarts) : n \notin restarts[j].names

RestartAt(n, i) == [kind |-> "invoke", name |-> n, ctx |-> restarts[i].ctx]
Invoked(r, how) == [kind |-> "invoke", name |-> r.name, ctx |-> r.ctx, how |-> how]

RunsRestart(d) ==
  \E k \in 1..Depth :
    frames[k].kind = "restarts" /\ frames[k].phase = "restart" /\ frames[k].ctx = d

\* invoke("name"); without such a restart, error(ControlError(...))
Invoke(n) ==
  /\ UserCode
  /\ \/ /\ \E i \in 1..Len(restarts) :
             /\ FindRestart(n, i)
             /\ exc' = Invoked(RestartAt(n, i), IF RunsRestart(restarts[i].ctx)
                                               THEN "rerun" ELSE "fresh")
        /\ UNCHANGED <<frames, restarts, handlers>>
     \/ /\ ~IsBound(n)
        /\ Call(frames, ControlError, "error", NewInstance)
        /\ UNCHANGED exc
  /\ UNCHANGED held

\* User code keeps what find_restart returns, for instance None.
KeepRestart(n) ==
  /\ UserCode
  /\ \/ \E i \in 1..Len(restarts) : FindRestart(n, i) /\ held' = RestartAt(n, i)
     \/ ~IsBound(n) /\ held' = NotHeld
  /\ UNCHANGED <<frames, restarts, handlers, exc>>

\* invoke(restart)
InvokeKept ==
  /\ UserCode
  /\ held # NotHeld
  /\ exc' = Invoked(held, "kept")
  /\ UNCHANGED <<frames, restarts, handlers, held>>

------------------------------------------------------------------------------
(***************************************************************************)
(* Unwinding                                                               *)
(***************************************************************************)
\* MUTANT of IsOurs: the name decides, not the identity of the dictionary
IsOurs_byName(f) == exc.kind = "invoke" /\ BindsRestarts(f) /\ exc.name \in f.names

\* `exc.restart.context is bindings`
IsOurs(f) == exc.kind = "invoke" /\ BindsRestarts(f) /\ f.ctx = exc.ctx

\* The exception handler of a `with restarts` surrounds its block, not the
\* restart function it calls, which runs with the bindings still in place.
Catches(f) == IsOurs(f) /\ f.phase = "block"

\* The matching `with restarts` calls the restart function: of user code, or
\* the `lambda: None` of a protocol, which ends the block at once.
RunRestart ==
  /\ exc.kind # "none" /\ frames # <<>> /\ Catches(Top)
  /\ IF Top.kind = "restarts"
     THEN /\ frames' = [frames EXCEPT ![Depth].phase = "restart"]
          /\ UNCHANGED <<restarts, handlers>>
     ELSE ExitStacks
  /\ exc' = NoExc
  /\ UNCHANGED held

\* Every other frame is left, its bindings removed, the exception reraised.
Propagate ==
  /\ exc.kind # "none" /\ frames # <<>> /\ ~Catches(Top)
  /\ ExitStacks
  /\ UNCHANGED <<exc, held>>

\* User code raises an exception of its own, or catches one; InvokeRestart
\* is not an Exception.
Raise == UserCode /\ exc' = Exception /\ UNCHANGED <<frames, restarts, handlers, held>>

Catch ==
  /\ exc = Exception
  /\ frames # <<>> => RunsUserCode(Top)
  /\ exc' = NoExc
  /\ UNCHANGED <<frames, restarts, handlers, held>>

------------------------------------------------------------------------------
Init ==
  /\ frames = <<>>
  /\ restarts = <<>>
  /\ handlers = <<>>
  /\ exc = NoExc
  /\ held = NotHeld

Next ==
  \/ \E ns \in RestartSets : EnterRestarts(ns)
  \/ \E cs \in ClauseLists : EnterHandlers(cs)
  \/ Leave
  \/ \E c \in Types, p \in Protocols : Signal(c, p)
  \/ ProtocolCall
  \/ ProtocolReturn
  \/ RunHandler
  \/ IteratorFails
  \/ Unhandled
  \/ Resignal
  \/ \E n \in Names : Invoke(n) \/ KeepRestart(n)
  \/ InvokeKept
  \/ RunRestart
  \/ Propagate
  \/ Raise
  \/ Catch

Spec == Init /\ [][Next]_vars
------------------------------------------------------------------------------
(***************************************************************************)
(* Properties                                                              *)
(***************************************************************************)
TypeOK ==
  /\ frames \in Seq(Frame)
  /\ restarts \in Seq(Bindings)
  /\ handlers \in Seq(Seq(Clause))
  /\ exc \in Exc
  /\ held \in BoundRestart \cup {NotHeld}

\* The environment inside a frame: what it found, and its own bindings
EnvInside(f) ==
  <<IF BindsRestarts(f) THEN Append(f.env[1], [ctx |-> f.ctx, names |-> f.names])
                        ELSE f.env[1],
    IF f.kind = "handlers" THEN Append(f.env[2], f.clauses) ELSE f.env[2]>>
EnvAt(fs, k) == IF k = 0 THEN <<<<>>, <<>>>> ELSE EnvInside(fs[k])

\* At every moment the two deques hold exactly the bindings of the blocks
\* that are being executed, in their order (lines 434-442: the push and the
\* pop of _Stacked are balanced whatever happens in between).
EnvironmentMatchesStack ==
  /\ \A k \in 1..Depth : frames[k].env = EnvAt(frames, k - 1)
  /\ EnvNow = EnvAt(frames, Depth)

\* Leaving a frame in whatever way - at its end, by an exception, by a
\* restart of this frame or of an outer one - leaves the deques as they were
\* when it was entered.
ExtentRestored == [][Depth' < Depth => EnvNow' = Top.env]_vars

\* A restart invoked by its name is that of the innermost block that binds
\* the name (find_restart, line 547), and unwinding never passes that block:
\* it is still there, running its block, as long as the exception travels.
\* (Line 284 promises this for every invocation; see UnwindsToMatching.)
FreshInvocationArrives ==
  (exc.kind = "invoke" /\ exc.how = "fresh") =>
    \E k \in 1..Depth :
      /\ Catches(frames[k])
      /\ \A l \in 1..Depth : l > k /\ BindsRestarts(frames[l]) =>
                               exc.name \notin frames[l].names

\* An InvokeRestart ends only at the very block whose restart it names, also
\* when blocks of other dictionaries bind the same name, and also when the
\* BoundRestart was kept for longer than its block (line 691: identity of the
\* dictionary, not the name).
OnlyOwnerCatches ==
  [][(exc.kind = "invoke" /\ exc'.kind = "none") =>
       /\ BindsRestarts(Top) /\ Top.ctx = exc.ctx /\ exc.name \in Top.names
       /\ \/ Depth' = Depth /\ Top'.kind = "restarts" /\ Top'.phase = "restart"
          \/ Depth' = Depth - 1]_vars

\* While signal runs, the handlers it has run are exactly the matching ones
\* from the innermost up to the one it has reached, each once - the handlers
\* in force when it was called, whatever the handlers themselves did
\* (lines 116-119 and 521-530).
HandlersInOrder ==
  \A k \in 1..Depth : frames[k].kind = "signal" =>
    LET f == frames[k]
    IN  f.ran = {p \in Matching(f.env[2], f.cond) : p = f.at \/ Before(p, f.at)}

\* signal comes to its normal end only when every matching handler has run
\* and none has invoked a restart (line 134).
SignalConsultsAll ==
  [][(exc.kind = "none" /\ Depth' < Depth /\ Top.kind = "signal" /\ Top.live) =>
       Top.ran = Matching(Top.env[2], Top.cond)]_vars

\* While signal runs, the handlers that have run are those that come first;
\* when it returns, they are all that match (lines 116-119, 134 and 521-530).
HandlersAreConsulted == []HandlersInOrder /\ SignalConsultsAll

\* An error never goes unnoticed: a call of error or cerror - one of the
\* program, one of invoke on an unbound name, or one resignaled - hands
\* control back only through a restart; cerror returns to its caller only
\* when exactly its own `proceed` was invoked (lines 752-755 and 767).
ErrorsAreNotLost ==
  [][/\ (/\ exc.kind = "none" /\ Depth' < Depth
         /\ Top.kind = "signal" /\ Top.protocol \in {"error", "cerror"})
        => exc' # NoExc
     /\ (/\ Depth' < Depth /\ Top.kind = "protocol" /\ Top.protocol = "cerror"
         /\ exc' = NoExc)
        => (exc.kind = "invoke" /\ exc.ctx = Top.ctx)]_vars

\* A condition converted by resignal is signaled with the protocol of the
\* original signal (lines 903-904), whatever was signaled in between, unless
\* a handler has in the meantime signaled the original instance once more:
\* signal stores its protocol in the instance (line 240), from where the
\* _resignal_handler of the outer signal reads it (line 907).
ResignalKeepsProtocol ==
  \A k \in 1..(Depth - 1) :
    (frames[k].kind = "handler" /\ ~frames[k].user) =>
      /\ frames[k - 1].kind = "signal"
      /\ frames[k + 1].kind \in {"signal", "protocol"}
      /\ frames[k - 1].again \/ frames[k + 1].protocol = frames[k - 1].protocol

\* "it can automatically emit the new signal using the same protocol that was
\* used for the original signal (so that e.g. an `error` remains an `error`)"
\* (lines 161-163), without exception.
ErrorRemainsError ==
  \A k \in 1..(Depth - 1) :
    (frames[k].kind = "handler" /\ ~frames[k].user /\ frames[k - 1].protocol = "error") =>
      frames[k + 1].protocol = "error"

\* "Found it - now we are guaranteed to unwind only up to the matching `with
\* restarts`" (line 284): a restart found by its name is invoked at a block
\* of the stack that will catch the InvokeRestart.
UnwindsToMatching ==
  (exc.kind = "invoke" /\ exc.how \in {"fresh", "rerun"}) =>
    \E k \in 1..Depth : Catches(frames[k])
==============================================================================
