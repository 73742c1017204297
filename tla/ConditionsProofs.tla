-------------------------- MODULE ConditionsProofs --------------------------
(***************************************************************************)
(* What holds of the condition system for all names, condition types,      *)
(* handler lists and stack depths.                                         *)
(***************************************************************************)
EXTENDS Conditions, SequenceTheorems, TLAPS

\* What the kind of a frame says about its other fields
LEMMA FrameKinds ==
  ASSUME NEW f \in Frame
  PROVE  /\ f.kind = "restarts" => f \in RestartsFrame
         /\ f.kind = "protocol" => f \in ProtocolFrame
         /\ f.kind = "handlers" => f \in HandlersFrame
         /\ f.kind = "signal" => f \in SignalFrame
         /\ f.kind = "handler" => f \in HandlerFrame
         /\ f.kind \in {"restarts", "protocol", "handlers", "signal", "handler"}
         /\ f.env \in Env
  BY DEF Frame, RestartsFrame, ProtocolFrame, HandlersFrame, SignalFrame, HandlerFrame

\* Removing the last element of a nonempty sequence
LEMMA PopFacts ==
  ASSUME NEW S, NEW s \in Seq(S), s # <<>>
  PROVE  /\ Pop(s) \in Seq(S)
         /\ Len(Pop(s)) = Len(s) - 1
         /\ \A k \in 1..(Len(s) - 1) : Pop(s)[k] = s[k]
  <1>1. Len(s) \in Nat /\ Len(s) >= 1
    BY EmptySeq
  <1> DEFINE n == Len(s) - 1
  <1>2. n \in Int /\ \A k \in 1..n : s[k] \in S
    BY <1>1
  <1>3. /\ SubSeq(s, 1, n) \in Seq(S)
        /\ Len(SubSeq(s, 1, n)) = IF 1 <= n THEN n - 1 + 1 ELSE 0
        /\ \A i \in 1..(n - 1 + 1) : SubSeq(s, 1, n)[i] = s[1 + i - 1]
    <2> HIDE DEF n
    <2> QED BY <1>2, SubSeqProperties
  <1>4. \A k \in 1..n : 1 + k - 1 = k
    BY <1>1
  <1>5. n - 1 + 1 = n /\ (IF 1 <= n THEN n - 1 + 1 ELSE 0) = n
    <2>1. n \in Nat
      BY <1>1
    <2> HIDE DEF n
    <2>2. QED
      BY <2>1
  <1>6. \A k \in 1..n : SubSeq(s, 1, n)[k] = s[k]
    <2> HIDE DEF n
    <2> QED BY <1>3, <1>4, <1>5
  <1>7. QED
    BY <1>3, <1>5, <1>6 DEF Pop

\* Pop undoes Append
LEMMA PopAppend ==
  ASSUME NEW S, NEW s \in Seq(S), NEW e \in S
  PROVE  Pop(Append(s, e)) = s
  <1>1. Append(s, e) \in Seq(S) /\ Len(Append(s, e)) = Len(s) + 1
    OBVIOUS
  <1>2. Pop(Append(s, e)) \in Seq(S) /\ Len(Pop(Append(s, e))) = Len(s)
    BY <1>1 DEF Pop
  <1>3. \A k \in 1..Len(s) : Pop(Append(s, e))[k] = s[k]
    BY <1>1 DEF Pop
  <1>4. QED
    BY <1>2, <1>3, SeqEqual

\* Invalidating the iterators changes no more than `live` of signal frames.
LEMMA InvalidateFacts ==
  ASSUME NEW fs \in Seq(Frame)
  PROVE  /\ Invalidate(fs) \in Seq(Frame)
         /\ Len(Invalidate(fs)) = Len(fs)
         /\ \A k \in 1..Len(fs) :
              /\ Invalidate(fs)[k].env = fs[k].env
              /\ Invalidate(fs)[k].kind = fs[k].kind
              /\ fs[k].kind # "signal" => Invalidate(fs)[k] = fs[k]
  <1> DEFINE g == Invalidate(fs)
  <1>1. ASSUME NEW k \in 1..Len(fs)
        PROVE  /\ g[k] \in Frame
               /\ g[k].env = fs[k].env
               /\ g[k].kind = fs[k].kind
               /\ fs[k].kind # "signal" => g[k] = fs[k]
    <2>1. fs[k] \in Frame
      OBVIOUS
    <2>2. CASE fs[k].kind = "signal"
      <3>1. fs[k] \in SignalFrame
        BY <2>1, <2>2, FrameKinds
      <3>2. g[k] = [fs[k] EXCEPT !.live = FALSE]
        BY <2>2 DEF Invalidate
      <3>3. g[k] \in SignalFrame /\ g[k].env = fs[k].env /\ g[k].kind = fs[k].kind
        BY <3>1, <3>2 DEF SignalFrame
      <3>4. QED
        BY <3>3, <2>2 DEF Frame
    <2>3. CASE fs[k].kind # "signal"
      BY <2>1, <2>3 DEF Invalidate
    <2>4. QED
      BY <2>2, <2>3
  <1>2. DOMAIN g = 1..Len(fs) /\ Len(fs) \in Nat
    BY DEF Invalidate
  <1>3. g \in [1..Len(fs) -> Frame]
    BY <1>1, <1>2 DEF Invalidate
  <1>4. g \in Seq(Frame) /\ Len(g) = Len(fs)
    BY <1>2, <1>3
  <1>5. QED
    BY <1>1, <1>4

\* Storing the protocol in an instance changes no more than what the signal
\* frames of that instance know of it.
LEMMA PreparedFacts ==
  ASSUME NEW fs \in Seq(Frame), NEW i, NEW p \in Protocols
  PROVE  /\ Prepared(fs, i, p) \in Seq(Frame)
         /\ Len(Prepared(fs, i, p)) = Len(fs)
         /\ \A k \in 1..Len(fs) :
              /\ Prepared(fs, i, p)[k].env = fs[k].env
              /\ Prepared(fs, i, p)[k].kind = fs[k].kind
              /\ fs[k].kind # "signal" => Prepared(fs, i, p)[k] = fs[k]
  <1> DEFINE g == Prepared(fs, i, p)
  <1>1. ASSUME NEW k \in 1..Len(fs)
        PROVE  /\ g[k] \in Frame
               /\ g[k].env = fs[k].env
               /\ g[k].kind = fs[k].kind
               /\ fs[k].kind # "signal" => g[k] = fs[k]
    <2>1. fs[k] \in Frame
      OBVIOUS
    <2>2. CASE fs[k].kind = "signal" /\ fs[k].inst = i
      <3>1. fs[k] \in SignalFrame
        BY <2>1, <2>2, FrameKinds
      <3>2. g[k] = [fs[k] EXCEPT !.attribute = p, !.again = TRUE]
        BY <2>2 DEF Prepared
      <3>3. g[k] \in SignalFrame /\ g[k].env = fs[k].env /\ g[k].kind = fs[k].kind
        BY <3>1, <3>2 DEF SignalFrame
      <3>4. QED
        BY <3>3, <2>2 DEF Frame
    <2>3. CASE ~(fs[k].kind = "signal" /\ fs[k].inst = i)
      BY <2>1, <2>3 DEF Prepared
    <2>4. QED
      BY <2>2, <2>3
  <1>2. DOMAIN g = 1..Len(fs) /\ Len(fs) \in Nat
    BY DEF Prepared
  <1>3. g \in [1..Len(fs) -> Frame]
    BY <1>1, <1>2 DEF Prepared
  <1>4. g \in Seq(Frame) /\ Len(g) = Len(fs)
    BY <1>2, <1>3
  <1>5. QED
    BY <1>1, <1>4

------------------------------------------------------------------------------
(***************************************************************************)
(* The shapes of a step: it adds a frame, removes one, or does neither.    *)
(***************************************************************************)
\* Two frames that contribute the same to the environment
SameExtent(f, g) ==
  /\ f.kind = g.kind
  /\ f.env = g.env
  /\ BindsRestarts(g) => f.ctx = g.ctx /\ f.names = g.names
  /\ g.kind = "handlers" => f.clauses = g.clauses

Restyled(fs) ==
  /\ fs \in Seq(Frame)
  /\ Len(fs) = Depth
  /\ \A k \in 1..Depth : SameExtent(fs[k], frames[k])

Pushes(fs, f) ==
  /\ Restyled(fs)
  /\ f \in Frame
  /\ f.env = EnvNow
  /\ frames' = Append(fs, f)
  /\ EnvNow' = EnvInside(f)

Restyles == Restyled(frames') /\ UNCHANGED <<restarts, handlers>>

LEMMA SameExtentInside ==
  ASSUME NEW f, NEW g, SameExtent(f, g)
  PROVE  EnvInside(f) = EnvInside(g)
  BY DEF SameExtent, EnvInside, BindsRestarts

\* Sequences of frames with the same extents give the same environments.
LEMMA SameEnvAt ==
  ASSUME NEW fs, NEW gs, NEW k \in Nat, k > 0 => SameExtent(fs[k], gs[k])
  PROVE  EnvAt(fs, k) = EnvAt(gs, k)
  BY SameExtentInside DEF EnvAt

LEMMA RestyledByItself ==
  ASSUME TypeOK
  PROVE  Restyled(frames)
  BY DEF TypeOK, Restyled, SameExtent, Depth

LEMMA RestyledByInvalidate ==
  ASSUME TypeOK
  PROVE  Restyled(Invalidate(frames))
  <1>1. frames \in Seq(Frame)
    BY DEF TypeOK
  <1>2. QED
    BY <1>1, InvalidateFacts DEF Restyled, SameExtent, Depth, BindsRestarts

LEMMA RestyledByPrepared ==
  ASSUME NEW fs, Restyled(fs), NEW i, NEW p \in Protocols
  PROVE  Restyled(Prepared(fs, i, p))
  <1> DEFINE g == Prepared(fs, i, p)
  <1>1. fs \in Seq(Frame) /\ Len(fs) = Depth
    BY DEF Restyled
  <1>2. /\ g \in Seq(Frame) /\ Len(g) = Depth
        /\ \A k \in 1..Depth : /\ g[k].env = fs[k].env /\ g[k].kind = fs[k].kind
                               /\ fs[k].kind # "signal" => g[k] = fs[k]
    BY <1>1, PreparedFacts
  <1>3. Restyled(g)
    <2> HIDE DEF g
    <2>1. QED
      BY <1>2 DEF Restyled, SameExtent, BindsRestarts
  <1>4. QED
    BY <1>3

LEMMA RestyledAtTop ==
  ASSUME TypeOK, frames # <<>>, NEW f \in Frame, SameExtent(f, Top)
  PROVE  Restyled([frames EXCEPT ![Depth] = f])
  <1>1. frames \in Seq(Frame) /\ Depth \in 1..Len(frames)
    BY EmptySeq DEF TypeOK, Depth
  <1>2. QED
    BY <1>1, ExceptSeq DEF Restyled, SameExtent, Top, Depth

\* A pushed frame finds the environment in place and adds its own bindings.
LEMMA PushKeepsEnvironment ==
  ASSUME TypeOK, EnvironmentMatchesStack, NEW fs, NEW f, Pushes(fs, f)
  PROVE  EnvironmentMatchesStack' /\ Depth' = Depth + 1
  <1> DEFINE n == Depth
  <1>1. /\ n \in Nat
        /\ Depth' = n + 1
        /\ \A k \in 1..n : frames'[k] = fs[k]
        /\ frames'[n + 1] = f
    BY AppendProperties DEF TypeOK, Pushes, Restyled, Depth
  <1>2. ASSUME NEW k \in 0..n
        PROVE  EnvAt(frames', k) = EnvAt(frames, k)
    <2>1. k \in Nat /\ (k > 0 => SameExtent(frames'[k], frames[k]))
      BY <1>1 DEF Pushes, Restyled
    <2>2. QED
      BY <2>1, SameEnvAt
  <1>3. \A k \in 1..n : frames'[k].env = frames[k].env
    BY <1>1 DEF Pushes, Restyled, SameExtent
  <1>4. EnvAt(frames', n + 1) = EnvInside(f)
    BY <1>1 DEF EnvAt
  <1>5. \A k \in 1..n : frames[k].env = EnvAt(frames, k - 1)
    BY DEF EnvironmentMatchesStack
  <1>6. \A k \in 1..(n + 1) : frames'[k].env = EnvAt(frames', k - 1)
    <2>1. ASSUME NEW k \in 1..n
          PROVE  frames'[k].env = EnvAt(frames', k - 1)
      <3>1. EnvAt(frames', k - 1) = EnvAt(frames, k - 1)
        BY <1>1, <1>2
      <3>2. QED
        BY <3>1, <1>3, <1>5
    <2>2. frames'[n + 1].env = EnvAt(frames', n)
      <3>1. EnvNow = EnvAt(frames, n) /\ f.env = EnvNow
        BY DEF EnvironmentMatchesStack, Pushes
      <3>2. QED
        BY <3>1, <1>1, <1>2
    <2>3. QED
      BY <1>1, <2>1, <2>2
  <1>7. EnvNow' = EnvAt(frames', n + 1)
    BY <1>4 DEF Pushes
  <1>8. QED
    BY <1>1, <1>6, <1>7 DEF EnvironmentMatchesStack

LEMMA RestyleKeepsEnvironment ==
  ASSUME TypeOK, EnvironmentMatchesStack, Restyles
  PROVE  EnvironmentMatchesStack' /\ Depth' = Depth
  <1>1. Depth \in Nat /\ Depth' = Depth
    BY DEF TypeOK, Restyles, Restyled, Depth
  <1>2. ASSUME NEW k \in 0..Depth
        PROVE  EnvAt(frames', k) = EnvAt(frames, k)
    <2>1. k \in Nat /\ (k > 0 => SameExtent(frames'[k], frames[k]))
      BY <1>1 DEF Restyles, Restyled
    <2>2. QED
      BY <2>1, SameEnvAt
  <1>3. EnvNow' = EnvNow
    BY DEF Restyles, EnvNow
  <1>4. \A k \in 1..Depth : frames'[k].env = frames[k].env
    BY DEF Restyles, Restyled, SameExtent
  <1>5. QED
    BY <1>1, <1>2, <1>3, <1>4 DEF EnvironmentMatchesStack

\* ExitStacks, on the types: one frame fewer, what remains is as it was.
LEMMA ExitFacts ==
  ASSUME TypeOK, EnvironmentMatchesStack, frames # <<>>, ExitStacks
  PROVE  /\ frames' \in Seq(Frame)
         /\ Depth' = Depth - 1
         /\ \A k \in 1..(Depth - 1) : SameExtent(frames'[k], frames[k])
         /\ \A k \in 1..(Depth - 1) :
              frames[k].kind # "signal" => frames'[k] = frames[k]
         /\ EnvNow' = Top.env
  <1>1. frames \in Seq(Frame) /\ Depth \in Nat /\ Depth >= 1
    BY EmptySeq DEF TypeOK, Depth
  <1>2. /\ Pop(frames) \in Seq(Frame)
        /\ Len(Pop(frames)) = Depth - 1
        /\ \A k \in 1..(Depth - 1) : Pop(frames)[k] = frames[k]
    BY <1>1, PopFacts DEF Depth
  <1>3. /\ frames' \in Seq(Frame)
        /\ Len(frames') = Depth - 1
        /\ \A k \in 1..(Depth - 1) : SameExtent(frames'[k], frames[k])
        /\ \A k \in 1..(Depth - 1) :
             frames[k].kind # "signal" => frames'[k] = frames[k]
    <2>1. CASE Top.kind = "handlers"
      <3>1. frames' = Invalidate(Pop(frames))
        BY <2>1 DEF ExitStacks
      <3>2. /\ Invalidate(Pop(frames)) \in Seq(Frame)
            /\ Len(Invalidate(Pop(frames))) = Depth - 1
            /\ \A k \in 1..(Depth - 1) :
                 /\ Invalidate(Pop(frames))[k].env = Pop(frames)[k].env
                 /\ Invalidate(Pop(frames))[k].kind = Pop(frames)[k].kind
                 /\ Pop(frames)[k].kind # "signal" =>
                      Invalidate(Pop(frames))[k] = Pop(frames)[k]
        BY <1>2, InvalidateFacts
      <3>3. QED
        BY <1>2, <3>1, <3>2 DEF SameExtent, BindsRestarts
    <2>2. CASE Top.kind # "handlers"
      BY <1>2, <2>2 DEF ExitStacks, SameExtent
    <2>3. QED
      BY <2>1, <2>2
  <1>4. EnvNow = EnvInside(Top)
    BY <1>1 DEF EnvironmentMatchesStack, EnvAt, Top
  <1>5. Top \in Frame /\ Top.env \in Env
    BY <1>1, FrameKinds DEF Top, Depth
  <1>6. EnvNow' = Top.env
    <2>1. Top.env = <<Top.env[1], Top.env[2]>>
          /\ Top.env[1] \in Seq(Bindings) /\ Top.env[2] \in Seq(Seq(Clause))
      BY <1>5 DEF Env
    <2>2. CASE BindsRestarts(Top)
      <3>1. [ctx |-> Top.ctx, names |-> Top.names] \in Bindings
        BY <1>5, <2>2, FrameKinds DEF BindsRestarts, RestartsFrame, ProtocolFrame, Bindings
      <3>2. restarts = Append(Top.env[1], [ctx |-> Top.ctx, names |-> Top.names])
        BY <1>4, <2>2 DEF EnvNow, EnvInside
      <3>3. restarts' = Top.env[1]
        BY <2>1, <2>2, <3>1, <3>2, PopAppend DEF ExitStacks
      <3>4. handlers' = Top.env[2]
        BY <1>4, <2>2 DEF ExitStacks, EnvNow, EnvInside, BindsRestarts
      <3>5. QED
        BY <2>1, <3>3, <3>4 DEF EnvNow
    <2>3. CASE Top.kind = "handlers"
      <3>1. Top.clauses \in Seq(Clause)
        BY <1>5, <2>3, FrameKinds DEF HandlersFrame
      <3>2. handlers = Append(Top.env[2], Top.clauses)
        BY <1>4, <2>3 DEF EnvNow, EnvInside
      <3>3. handlers' = Top.env[2]
        BY <2>1, <2>3, <3>1, <3>2, PopAppend DEF ExitStacks
      <3>4. restarts' = Top.env[1]
        BY <1>4, <2>3 DEF ExitStacks, EnvNow, EnvInside, BindsRestarts
      <3>5. QED
        BY <2>1, <3>3, <3>4 DEF EnvNow
    <2>4. CASE ~BindsRestarts(Top) /\ Top.kind # "handlers"
      BY <1>4, <2>1, <2>4 DEF ExitStacks, EnvNow, EnvInside
    <2>5. QED
      BY <2>2, <2>3, <2>4
  <1>7. QED
    BY <1>3, <1>6 DEF Depth

LEMMA ExitKeepsEnvironment ==
  ASSUME TypeOK, EnvironmentMatchesStack, frames # <<>>, ExitStacks
  PROVE  EnvironmentMatchesStack'
  <1>1. Depth \in Nat /\ Depth >= 1
    BY EmptySeq DEF TypeOK, Depth
  <1>2. /\ Depth' = Depth - 1
        /\ \A k \in 1..(Depth - 1) : SameExtent(frames'[k], frames[k])
        /\ EnvNow' = Top.env
    BY ExitFacts
  <1> DEFINE n == Depth - 1
  <1>3. ASSUME NEW k \in 0..n
        PROVE  EnvAt(frames', k) = EnvAt(frames, k)
    <2>1. k \in Nat /\ (k > 0 => SameExtent(frames'[k], frames[k]))
      BY <1>1, <1>2
    <2>2. QED
      BY <2>1, SameEnvAt
  <1>4. \A k \in 1..n : frames'[k].env = frames[k].env
    BY <1>2 DEF SameExtent
  <1>5. EnvNow' = EnvAt(frames', n)
    <2>1. Top.env = EnvAt(frames, n)
      BY <1>1 DEF EnvironmentMatchesStack, Top
    <2>2. QED
      BY <1>1, <1>2, <1>3, <2>1
  <1>6. ASSUME NEW k \in 1..n
        PROVE  frames'[k].env = EnvAt(frames', k - 1)
    <2>1. EnvAt(frames', k - 1) = EnvAt(frames, k - 1)
      BY <1>1, <1>3
    <2>2. frames[k].env = EnvAt(frames, k - 1)
      BY <1>1 DEF EnvironmentMatchesStack
    <2>3. QED
      BY <1>4, <2>1, <2>2
  <1>7. QED
    BY <1>1, <1>2, <1>5, <1>6 DEF EnvironmentMatchesStack

------------------------------------------------------------------------------
(***************************************************************************)
(* Every step has one of the shapes, and keeps the types.                  *)
(***************************************************************************)
PopStep == frames # <<>> /\ ExitStacks
PushStep == \E fs, f : Pushes(fs, f)
StepShape == PushStep \/ PopStep \/ Restyles

LEMMA EnvNowType == TypeOK => EnvNow \in Env
  BY DEF TypeOK, EnvNow, Env

LEMMA TopType ==
  ASSUME TypeOK, frames # <<>>
  PROVE  Top \in Frame /\ Depth \in 1..Len(frames)
  BY EmptySeq DEF TypeOK, Top, Depth

LEMMA NewContextType ==
  ASSUME \E d \in Contexts : ~InUse(d)
  PROVE  NewContext \in Contexts /\ ~InUse(NewContext)
  BY DEF NewContext

\* A push keeps the types of the stack.
LEMMA PushType ==
  ASSUME NEW fs, NEW f, Pushes(fs, f)
  PROVE  frames' \in Seq(Frame)
  BY AppendProperties DEF Pushes, Restyled

\* So does an exit; the deques keep their types with it.
LEMMA PopType ==
  ASSUME TypeOK, EnvironmentMatchesStack, PopStep
  PROVE  /\ frames' \in Seq(Frame)
         /\ restarts' \in Seq(Bindings)
         /\ handlers' \in Seq(Seq(Clause))
  <1>1. frames' \in Seq(Frame) /\ EnvNow' = Top.env
    BY ExitFacts DEF PopStep
  <1>2. Top.env \in Env
    BY TopType, FrameKinds DEF PopStep
  <1>3. QED
    BY <1>1, <1>2 DEF EnvNow, Env

\* A call of a protocol pushes a signal frame or a protocol's restarts.
LEMMA CallShape ==
  ASSUME TypeOK, NEW fs, Restyled(fs), NEW c \in Conds, NEW p \in Protocols,
         NEW i \in Nat, Call(fs, c, p, i)
  PROVE  /\ PushStep
         /\ restarts' \in Seq(Bindings)
         /\ UNCHANGED handlers
  <1>1. EnvNow \in Env /\ Len(handlers) + 1 \in Nat
    BY EnvNowType DEF TypeOK
  <1>2. CASE p \in {"signal", "error"}
    <2>1. frames' = Append(Prepared(fs, i, p), NewSignal(c, p, i))
          /\ UNCHANGED <<restarts, handlers>>
      BY <1>2 DEF Call
    <2>2. NewSignal(c, p, i) \in SignalFrame
      BY <1>1 DEF NewSignal, SignalFrame, Place
    <2>3. EnvInside(NewSignal(c, p, i)) = EnvNow
      BY DEF NewSignal, EnvInside, BindsRestarts, EnvNow
    <2>4. Pushes(Prepared(fs, i, p), NewSignal(c, p, i))
      BY <2>1, <2>2, <2>3, RestyledByPrepared DEF Pushes, NewSignal, Frame, EnvNow
    <2>5. QED
      BY <2>1, <2>4 DEF PushStep, TypeOK
  <1>3. CASE p \in {"cerror", "warn"}
    <2> DEFINE ns == IF p = "cerror" THEN {"proceed"} ELSE {"muffle"}
    <2> DEFINE f == NewProtocol(c, p, i, ns)
    <2>1. /\ \E d \in Contexts : ~InUse(d)
          /\ frames' = Append(fs, f)
          /\ restarts' = Append(restarts, [ctx |-> NewContext, names |-> ns])
          /\ UNCHANGED handlers
      BY <1>3 DEF Call, EnterRestartStack
    <2>2. NewContext \in Contexts /\ ns \in SUBSET AllNames
      BY <2>1, NewContextType DEF AllNames
    <2>3. f \in ProtocolFrame /\ f.env = EnvNow
      BY <1>1, <1>3, <2>2 DEF NewProtocol, ProtocolFrame
    <2>4. EnvInside(f) = EnvNow'
      BY <2>1 DEF NewProtocol, EnvInside, BindsRestarts, EnvNow
    <2>5. Pushes(fs, f)
      BY <2>1, <2>3, <2>4 DEF Pushes, Frame
    <2>6. [ctx |-> NewContext, names |-> ns] \in Bindings
      BY <2>2 DEF Bindings
    <2>7. QED
      BY <2>1, <2>5, <2>6, AppendProperties DEF PushStep, TypeOK
  <1>4. QED
    BY <1>2, <1>3 DEF Protocols

LEMMA InstanceType ==
  ASSUME TypeOK, NEW c, NEW i \in Instances(c)
  PROVE  i \in Nat
  <1>1. Depth + 1 \in Nat /\ \A k \in 1..Depth : frames[k] \in Frame
    BY DEF TypeOK, Depth
  <1>2. \A k \in 1..Depth : frames[k].kind = "signal" => frames[k].inst \in Nat
    BY <1>1, FrameKinds DEF SignalFrame
  <1>3. QED
    BY <1>1, <1>2 DEF Instances, NewInstance

\* Changing the top frame within its kind keeps its extent.
LEMMA RestyleTop ==
  ASSUME TypeOK, frames # <<>>, NEW f,
         \/ Top.kind = "restarts" /\ f = [Top EXCEPT !.phase = "restart"]
         \/ Top.kind = "protocol" /\ f = [Top EXCEPT !.phase = "block"]
         \/ \E p \in Place : Top.kind = "signal"
              /\ f = [Top EXCEPT !.at = p, !.ran = Top.ran \cup {p}]
         \/ Top.kind = "handler" /\ Top.todo # <<>>
              /\ f = [Top EXCEPT !.todo = Tail(Top.todo)]
  PROVE  Restyled([frames EXCEPT ![Depth] = f])
  <1>1. Top \in Frame
    BY TopType
  <1>2. CASE Top.kind = "restarts" /\ f = [Top EXCEPT !.phase = "restart"]
    <2>1. Top \in RestartsFrame
      BY <1>1, <1>2, FrameKinds
    <2>2. f \in RestartsFrame /\ SameExtent(f, Top)
      BY <1>2, <2>1 DEF RestartsFrame, SameExtent, BindsRestarts
    <2>3. QED
      BY <2>2, RestyledAtTop DEF Frame
  <1>3. CASE Top.kind = "protocol" /\ f = [Top EXCEPT !.phase = "block"]
    <2>1. Top \in ProtocolFrame
      BY <1>1, <1>3, FrameKinds
    <2>2. f \in ProtocolFrame /\ SameExtent(f, Top)
      BY <1>3, <2>1 DEF ProtocolFrame, SameExtent, BindsRestarts
    <2>3. QED
      BY <2>2, RestyledAtTop DEF Frame
  <1>4. ASSUME NEW p \in Place, Top.kind = "signal",
               f = [Top EXCEPT !.at = p, !.ran = Top.ran \cup {p}]
        PROVE  Restyled([frames EXCEPT ![Depth] = f])
    <2>1. Top \in SignalFrame
      BY <1>1, <1>4, FrameKinds
    <2>2. f \in SignalFrame /\ SameExtent(f, Top)
      BY <1>4, <2>1 DEF SignalFrame, SameExtent, BindsRestarts
    <2>3. QED
      BY <2>2, RestyledAtTop DEF Frame
  <1>5. CASE Top.kind = "handler" /\ Top.todo # <<>>
               /\ f = [Top EXCEPT !.todo = Tail(Top.todo)]
    <2>1. Top \in HandlerFrame
      BY <1>1, <1>5, FrameKinds
    <2>2. Top.todo \in Seq(Conds) /\ Tail(Top.todo) \in Seq(Conds)
      BY <1>5, <2>1, HeadTailProperties DEF HandlerFrame
    <2>3. f \in HandlerFrame /\ SameExtent(f, Top)
      BY <1>5, <2>1, <2>2 DEF HandlerFrame, SameExtent, BindsRestarts
    <2>4. QED
      BY <2>3, RestyledAtTop DEF Frame
  <1>6. QED
    BY <1>2, <1>3, <1>4, <1>5

\* with restarts, with handlers
LEMMA EnterShape ==
  ASSUME TypeOK
  PROVE  /\ \A ns \in RestartSets : EnterRestarts(ns) => TypeOK' /\ PushStep
         /\ \A cs \in ClauseLists : EnterHandlers(cs) => TypeOK' /\ PushStep
  <1>1. EnvNow \in Env
    BY EnvNowType
  <1>2. ASSUME NEW ns \in RestartSets, EnterRestarts(ns)
        PROVE  TypeOK' /\ PushStep
    <2> DEFINE f == [kind |-> "restarts", phase |-> "block", ctx |-> NewContext,
                     names |-> ns, env |-> EnvNow]
    <2>1. NewContext \in Contexts /\ ns \in SUBSET AllNames
      BY <1>2, NewContextType, ConditionsAssumption DEF EnterRestarts, AllNames
    <2>2. f \in RestartsFrame /\ f.env = EnvNow
      BY <1>1, <2>1 DEF RestartsFrame
    <2>3. frames' = Append(frames, f)
          /\ restarts' = Append(restarts, [ctx |-> NewContext, names |-> ns])
          /\ UNCHANGED <<handlers, exc, held>>
      BY <1>2 DEF EnterRestarts, EnterRestartStack
    <2>4. EnvInside(f) = EnvNow'
      BY <2>3 DEF EnvInside, BindsRestarts, EnvNow
    <2>5. Pushes(frames, f)
      BY <2>2, <2>3, <2>4, RestyledByItself DEF Pushes, Frame
    <2>6. [ctx |-> NewContext, names |-> ns] \in Bindings
      BY <2>1 DEF Bindings
    <2>7. restarts' \in Seq(Bindings)
      BY <2>3, <2>6, AppendProperties DEF TypeOK
    <2>8. frames' \in Seq(Frame)
      BY <2>5, PushType
    <2>9. QED
      BY <2>3, <2>5, <2>7, <2>8 DEF TypeOK, PushStep
  <1>3. ASSUME NEW cs \in ClauseLists, EnterHandlers(cs)
        PROVE  TypeOK' /\ PushStep
    <2> DEFINE f == [kind |-> "handlers", clauses |-> cs, env |-> EnvNow]
    <2>1. cs \in Seq(Clause)
      BY ConditionsAssumption
    <2>2. f \in HandlersFrame /\ f.env = EnvNow
      BY <1>1, <2>1 DEF HandlersFrame
    <2>3. frames' = Append(Invalidate(frames), f)
          /\ handlers' = Append(handlers, cs)
          /\ UNCHANGED <<restarts, exc, held>>
      BY <1>3 DEF EnterHandlers
    <2>4. EnvInside(f) = EnvNow'
      BY <2>3 DEF EnvInside, BindsRestarts, EnvNow
    <2>5. Pushes(Invalidate(frames), f)
      BY <2>2, <2>3, <2>4, RestyledByInvalidate DEF Pushes, Frame
    <2>6. handlers' \in Seq(Seq(Clause))
      BY <2>1, <2>3, AppendProperties DEF TypeOK
    <2>7. frames' \in Seq(Frame)
      BY <2>5, PushType
    <2>8. QED
      BY <2>3, <2>5, <2>6, <2>7 DEF TypeOK, PushStep
  <1>4. QED
    BY <1>2, <1>3

\* The user's calls of the protocols, and those the protocols make
LEMMA CallsShape ==
  ASSUME TypeOK
  PROVE  /\ \A c \in Types, q \in Protocols : Signal(c, q) => TypeOK' /\ PushStep
         /\ ProtocolCall => TypeOK' /\ PushStep
  <1>1. EnvNow \in Env /\ Restyled(frames) /\ Len(handlers) + 1 \in Nat
    BY EnvNowType, RestyledByItself DEF TypeOK
  <1>2. ASSUME NEW c \in Types, NEW q \in Protocols, Signal(c, q)
        PROVE  TypeOK' /\ PushStep
    <2>1. PICK i \in Instances(c) : Call(frames, c, q, i) /\ UNCHANGED <<exc, held>>
      BY <1>2 DEF Signal
    <2>2. PushStep /\ restarts' \in Seq(Bindings) /\ UNCHANGED handlers
      <3>1. c \in Conds /\ i \in Nat
        BY InstanceType DEF Conds
      <3>2. QED
        BY <1>1, <2>1, <3>1, CallShape
    <2>3. frames' \in Seq(Frame)
      BY <2>2, PushType DEF PushStep
    <2>4. QED
      BY <2>1, <2>2, <2>3 DEF TypeOK
  <1>3. ASSUME ProtocolCall
        PROVE  TypeOK' /\ PushStep
    <2> DEFINE t == [Top EXCEPT !.phase = "block"]
               fs == [frames EXCEPT ![Depth] = t]
    <2>1. frames # <<>> /\ Top.kind = "protocol"
          /\ UNCHANGED <<handlers, exc, held>>
      BY <1>3 DEF ProtocolCall, LibraryCode
    <2>2. Top \in ProtocolFrame
      BY <2>1, TopType, FrameKinds
    <2>3. Restyled(fs)
      BY <2>1, RestyleTop
    <2>4. CASE Top.names = {"muffle"}
      <3> DEFINE ns == {"_proceed"}
                 f == NewProtocol(Top.cond, "warn", Top.inst, ns)
      <3>1. /\ \E d \in Contexts : ~InUse(d)
            /\ frames' = Append(fs, f)
            /\ restarts' = Append(restarts, [ctx |-> NewContext, names |-> ns])
        BY <1>3, <2>4 DEF ProtocolCall, EnterRestartStack, Top
      <3>2. /\ NewContext \in Contexts /\ ns \in SUBSET AllNames
            /\ Top.cond \in Conds /\ Top.inst \in Nat
        BY <2>2, <3>1, NewContextType DEF AllNames, ProtocolFrame
      <3>3. f \in ProtocolFrame /\ f.env = EnvNow
        BY <1>1, <3>2 DEF NewProtocol, ProtocolFrame
      <3>4. EnvInside(f) = EnvNow'
        BY <2>1, <3>1 DEF NewProtocol, EnvInside, BindsRestarts, EnvNow
      <3>5. Pushes(fs, f)
        BY <2>3, <3>1, <3>3, <3>4 DEF Pushes, Frame
      <3>6. [ctx |-> NewContext, names |-> ns] \in Bindings
        BY <3>2 DEF Bindings
      <3>7. restarts' \in Seq(Bindings)
        BY <3>1, <3>6, AppendProperties DEF TypeOK
      <3>8. frames' \in Seq(Frame)
        BY <3>5, PushType
      <3>9. QED
        BY <2>1, <3>5, <3>7, <3>8 DEF PushStep, TypeOK
    <2>5. CASE Top.names # {"muffle"}
      <3> DEFINE f == NewSignal(Top.cond, Top.protocol, Top.inst)
      <3>1. frames' = Append(Prepared(fs, Top.inst, Top.protocol), f) /\ UNCHANGED restarts
        BY <1>3, <2>5 DEF ProtocolCall, Top
      <3>2. f \in SignalFrame /\ f.env = EnvNow /\ Top.protocol \in Protocols
        BY <1>1, <2>2 DEF NewSignal, SignalFrame, ProtocolFrame, Place, Protocols
      <3>3. EnvInside(f) = EnvNow'
        BY <2>1, <3>1 DEF NewSignal, EnvInside, BindsRestarts, EnvNow
      <3>4. Pushes(Prepared(fs, Top.inst, Top.protocol), f)
        BY <2>3, <3>1, <3>2, <3>3, RestyledByPrepared DEF Pushes, Frame
      <3>5. frames' \in Seq(Frame)
        BY <3>4, PushType
      <3>6. QED
        BY <2>1, <3>1, <3>4, <3>5 DEF PushStep, TypeOK
    <2>6. QED
      BY <2>4, <2>5
  <1>4. QED
    BY <1>2, <1>3

\* The loop over the handlers, and resignal
LEMMA SignalShape ==
  ASSUME TypeOK, EnvironmentMatchesStack
  PROVE  /\ RunHandler => TypeOK' /\ PushStep
         /\ IteratorFails => TypeOK' /\ PopStep
         /\ Unhandled => TypeOK' /\ PopStep
         /\ Resignal => TypeOK' /\ (PushStep \/ PopStep)
  <1>1. EnvNow \in Env
    BY EnvNowType
  <1>2. ASSUME RunHandler
        PROVE  TypeOK' /\ PushStep
    <2>1. frames # <<>> /\ Top.kind = "signal"
          /\ UNCHANGED <<restarts, handlers, exc, held>>
      BY <1>2 DEF RunHandler, LibraryCode
    <2>2. Top \in SignalFrame
      BY <2>1, TopType, FrameKinds
    <2>3. PICK p \in Remaining(Top) :
            frames' = Append([frames EXCEPT ![Depth].at = p,
                                            ![Depth].ran = @ \cup {p}],
                        [kind |-> "handler",
                         user |-> ~handlers[p[1]][p[2]].resignals,
                         todo |-> handlers[p[1]][p[2]].mapping[Top.cond], env |-> EnvNow])
      BY <1>2 DEF RunHandler
    <2> DEFINE t == [Top EXCEPT !.at = p, !.ran = Top.ran \cup {p}]
               fs == [frames EXCEPT ![Depth] = t]
               cl == handlers[p[1]][p[2]]
               f == [kind |-> "handler", user |-> ~cl.resignals,
                     todo |-> cl.mapping[Top.cond], env |-> EnvNow]
    <2>4. PICK i \in 1..Len(handlers) :
            \E j \in 1..Len(handlers[i]) : p = <<i, j>>
      BY DEF Remaining, Matching
    <2>5. p \in Place /\ handlers[i] \in Seq(Clause) /\ cl \in Clause
      BY <2>4 DEF Place, TypeOK
    <2>6. f \in HandlerFrame /\ f.env = EnvNow
      BY <1>1, <2>2, <2>5 DEF HandlerFrame, SignalFrame, Clause
    <2>7. Restyled(fs)
      BY <2>1, <2>5, RestyleTop
    <2>8. frames' = Append(fs, f)
      BY <2>3 DEF Top
    <2>9. EnvInside(f) = EnvNow'
      BY <2>1 DEF EnvInside, BindsRestarts, EnvNow
    <2>10. Pushes(fs, f)
      BY <2>6, <2>7, <2>8, <2>9 DEF Pushes, Frame
    <2>11. frames' \in Seq(Frame)
      BY <2>10, PushType
    <2>12. QED
      BY <2>1, <2>10, <2>11 DEF PushStep, TypeOK
  <1>3. ASSUME IteratorFails
        PROVE  TypeOK' /\ PopStep
    <2>1. PopStep /\ exc' = Exception /\ UNCHANGED held
      BY <1>3 DEF IteratorFails, LibraryCode, PopStep
    <2>2. QED
      BY <2>1, PopType DEF TypeOK, Exc
  <1>4. ASSUME Unhandled
        PROVE  TypeOK' /\ PopStep
    <2>1. PopStep /\ exc' \in {exc, Exception} /\ UNCHANGED held
      BY <1>4 DEF Unhandled, LibraryCode, PopStep
    <2>2. QED
      BY <2>1, PopType DEF TypeOK, Exc
  <1>5. ASSUME Resignal
        PROVE  TypeOK' /\ (PushStep \/ PopStep)
    <2>1. frames # <<>> /\ Top.kind = "handler" /\ UNCHANGED <<exc, held>>
      BY <1>5 DEF Resignal, LibraryCode
    <2>2. Top \in HandlerFrame
      BY <2>1, TopType, FrameKinds
    <2>3. CASE Top.todo # <<>>
      <3> DEFINE t == [Top EXCEPT !.todo = Tail(Top.todo)]
                 fs == [frames EXCEPT ![Depth] = t]
      <3>1. PICK p \in Protocols, i \in Instances(Head(Top.todo)) :
              Call(fs, Head(Top.todo), p, i)
        BY <1>5, <2>3 DEF Resignal, Top
      <3>2. Restyled(fs) /\ i \in Nat
        BY <2>1, <2>3, RestyleTop, InstanceType
      <3>3. Head(Top.todo) \in Conds
        BY <2>2, <2>3, HeadTailProperties DEF HandlerFrame
      <3>4. PushStep /\ restarts' \in Seq(Bindings) /\ UNCHANGED handlers
        BY <3>1, <3>2, <3>3, CallShape
      <3>5. frames' \in Seq(Frame)
        BY <3>4, PushType DEF PushStep
      <3>6. QED
        BY <2>1, <3>4, <3>5 DEF TypeOK
    <2>4. CASE Top.todo = <<>>
      <3>1. PopStep
        BY <1>5, <2>1, <2>4 DEF Resignal, PopStep
      <3>2. QED
        BY <2>1, <3>1, PopType DEF TypeOK
    <2>5. QED
      BY <2>3, <2>4
  <1>6. QED
    BY <1>2, <1>3, <1>4, <1>5

\* The end of a block, of a restart function or of a handler, and of the
\* library's own blocks
LEMMA LeaveShape ==
  ASSUME TypeOK, EnvironmentMatchesStack
  PROVE  /\ Leave => TypeOK' /\ PopStep
         /\ ProtocolReturn => TypeOK' /\ (PopStep \/ Restyles)
  <1>1. Leave => TypeOK' /\ PopStep
    BY PopType DEF Leave, PopStep, TypeOK
  <1>2. ProtocolReturn /\ ExitStacks /\ UNCHANGED exc => TypeOK' /\ PopStep
    BY PopType DEF ProtocolReturn, LibraryCode, PopStep, TypeOK
  <1>3. UNCHANGED <<frames, restarts, handlers>> => Restyles
    BY RestyledByItself DEF Restyles
  <1>4. exc' = Exception /\ UNCHANGED <<frames, restarts, handlers, held>> => TypeOK'
    BY DEF TypeOK, Exc
  <1>5. QED
    BY <1>1, <1>2, <1>3, <1>4 DEF ProtocolReturn

\* Looking up, keeping and invoking restarts
LEMMA InvokeShape ==
  ASSUME TypeOK
  PROVE  /\ \A n \in Names : Invoke(n) => TypeOK' /\ (PushStep \/ Restyles)
         /\ \A n \in Names : KeepRestart(n) => TypeOK' /\ Restyles
         /\ InvokeKept => TypeOK' /\ Restyles
  <1>1. UNCHANGED <<frames, restarts, handlers>> => Restyles
    BY RestyledByItself DEF Restyles
  <1>2. ASSUME NEW n \in Names, NEW k \in 1..Len(restarts)
        PROVE  RestartAt(n, k) \in BoundRestart
    <2>1. restarts[k] \in Bindings
      BY DEF TypeOK
    <2>2. restarts[k].ctx \in Contexts /\ n \in AllNames
      BY <2>1 DEF Bindings, AllNames
    <2>3. QED
      BY <2>2 DEF RestartAt, BoundRestart
  <1>3. \A r \in BoundRestart, how \in {"fresh", "rerun", "kept"} :
          Invoked(r, how) \in Exc
    BY DEF Invoked, BoundRestart, Exc, InvokeRestart
  <1>4. ASSUME NEW n \in Names, Invoke(n)
        PROVE  TypeOK' /\ (PushStep \/ Restyles)
    <2>1. CASE IsBound(n)
      <3>1. \E k \in 1..Len(restarts), how \in {"fresh", "rerun", "kept"} :
              exc' = Invoked(RestartAt(n, k), how)
        BY <1>4, <2>1 DEF Invoke
      <3>2. UNCHANGED <<frames, restarts, handlers, held>>
        BY <1>4, <2>1 DEF Invoke
      <3>3. QED
        BY <1>1, <1>2, <1>3, <3>1, <3>2 DEF TypeOK
    <2>2. CASE ~IsBound(n)
      <3>1. Call(frames, ControlError, "error", NewInstance) /\ UNCHANGED <<exc, held>>
        BY <1>4, <2>2 DEF Invoke, IsBound, FindRestart
      <3>2. /\ ControlError \in Conds /\ "error" \in Protocols /\ Restyled(frames)
            /\ NewInstance \in Nat
        BY RestyledByItself DEF Conds, Protocols, NewInstance, TypeOK, Depth
      <3>3. PushStep /\ restarts' \in Seq(Bindings) /\ UNCHANGED handlers
        BY <3>1, <3>2, CallShape
      <3>4. frames' \in Seq(Frame)
        BY <3>3, PushType DEF PushStep
      <3>5. QED
        BY <3>1, <3>3, <3>4 DEF TypeOK
    <2>3. QED
      BY <2>1, <2>2
  <1>5. ASSUME NEW n \in Names, KeepRestart(n)
        PROVE  TypeOK' /\ Restyles
    <2>1. held' \in BoundRestart \cup {NotHeld}
      BY <1>2, <1>5 DEF KeepRestart
    <2>2. QED
      BY <1>1, <1>5, <2>1 DEF KeepRestart, TypeOK
  <1>6. ASSUME InvokeKept
        PROVE  TypeOK' /\ Restyles
    <2>1. held \in BoundRestart
      BY <1>6 DEF InvokeKept, TypeOK
    <2>2. exc' = Invoked(held, "kept") /\ exc' \in Exc
      BY <1>3, <1>6, <2>1 DEF InvokeKept
    <2>3. QED
      BY <1>1, <1>6, <2>2 DEF InvokeKept, TypeOK
  <1>7. QED
    BY <1>4, <1>5, <1>6

\* Unwinding, and the exceptions of user code
LEMMA UnwindShape ==
  ASSUME TypeOK, EnvironmentMatchesStack
  PROVE  /\ RunRestart => TypeOK' /\ (PopStep \/ Restyles)
         /\ Propagate => TypeOK' /\ PopStep
         /\ Raise => TypeOK' /\ Restyles
         /\ Catch => TypeOK' /\ Restyles
  <1>1. ASSUME RunRestart
        PROVE  TypeOK' /\ (PopStep \/ Restyles)
    <2>1. frames # <<>> /\ exc' = NoExc /\ UNCHANGED held
      BY <1>1 DEF RunRestart
    <2>2. CASE Top.kind = "restarts"
      <3> DEFINE t == [Top EXCEPT !.phase = "restart"]
      <3>1. frames' = [frames EXCEPT ![Depth] = t] /\ UNCHANGED <<restarts, handlers>>
        BY <1>1, <2>2 DEF RunRestart, Top
      <3>2. Restyled(frames')
        BY <2>1, <2>2, <3>1, RestyleTop
      <3>3. QED
        BY <2>1, <3>1, <3>2 DEF Restyles, Restyled, TypeOK, Exc
    <2>3. CASE Top.kind # "restarts"
      <3>1. PopStep
        BY <1>1, <2>1, <2>3 DEF RunRestart, PopStep
      <3>2. QED
        BY <2>1, <3>1, PopType DEF TypeOK, Exc
    <2>4. QED
      BY <2>2, <2>3
  <1>2. ASSUME Propagate
        PROVE  TypeOK' /\ PopStep
    <2>1. PopStep /\ UNCHANGED <<exc, held>>
      BY <1>2 DEF Propagate, PopStep
    <2>2. QED
      BY <2>1, PopType DEF TypeOK
  <1>3. UNCHANGED <<frames, restarts, handlers>> => Restyles
    BY RestyledByItself DEF Restyles
  <1>4. exc' \in {NoExc, Exception} /\ UNCHANGED <<frames, restarts, handlers, held>>
          => TypeOK'
    BY DEF TypeOK, Exc
  <1>5. QED
    BY <1>1, <1>2, <1>3, <1>4 DEF Raise, Catch

LEMMA NextShape ==
  ASSUME TypeOK, EnvironmentMatchesStack, [Next]_vars
  PROVE  TypeOK' /\ StepShape
  <1>1. CASE UNCHANGED vars
    BY <1>1, RestyledByItself DEF vars, TypeOK, StepShape, Restyles
  <1>2. CASE Next
    BY <1>2, EnterShape, CallsShape, SignalShape, LeaveShape, InvokeShape, UnwindShape
      DEF Next, StepShape
  <1>3. QED
    BY <1>1, <1>2

------------------------------------------------------------------------------
(***************************************************************************)
(* The dynamic environment                                                 *)
(***************************************************************************)
\* What every shape of a step does to the environment
LEMMA ShapeKeepsEnvironment ==
  ASSUME TypeOK, EnvironmentMatchesStack, StepShape
  PROVE  /\ EnvironmentMatchesStack'
         /\ Depth' < Depth => EnvNow' = Top.env
  <1>1. Depth \in Nat
    BY DEF TypeOK, Depth
  <1>2. CASE PushStep
    <2>1. EnvironmentMatchesStack' /\ Depth' = Depth + 1
      BY <1>2, PushKeepsEnvironment DEF PushStep
    <2>2. QED
      BY <1>1, <2>1
  <1>3. CASE PopStep
    BY <1>3, ExitFacts, ExitKeepsEnvironment DEF PopStep
  <1>4. CASE Restyles
    <2>1. EnvironmentMatchesStack' /\ Depth' = Depth
      BY <1>4, RestyleKeepsEnvironment
    <2>2. QED
      BY <1>1, <2>1
  <1>5. QED
    BY <1>2, <1>3, <1>4 DEF StepShape

\* The condition system's data stay well-formed, and at every moment the
\* two deques of the thread hold exactly the bindings of the `with` blocks
\* on its stack, in their order.
THEOREM EnvironmentDiscipline == Spec => [](TypeOK /\ EnvironmentMatchesStack)
  <1>1. Init => TypeOK /\ EnvironmentMatchesStack
    BY EmptySeq DEF Init, TypeOK, EnvironmentMatchesStack, EnvNow, EnvAt, Depth, Exc
  <1>2. TypeOK /\ EnvironmentMatchesStack /\ [Next]_vars
          => TypeOK' /\ EnvironmentMatchesStack'
    BY NextShape, ShapeKeepsEnvironment
  <1>3. QED
    BY <1>1, <1>2, PTL DEF Spec

\* However a frame is left, the deques are again what they were when it was
\* entered.
THEOREM DynamicExtent == Spec => ExtentRestored
  <1>1. TypeOK /\ EnvironmentMatchesStack /\ [Next]_vars
          => [Depth' < Depth => EnvNow' = Top.env]_vars
    BY NextShape, ShapeKeepsEnvironment
  <1>2. QED
    BY <1>1, EnvironmentDiscipline, PTL DEF Spec, ExtentRestored


\* The condition system's data stay well-formed.
THEOREM TypeCorrect == Spec => []TypeOK
  BY EnvironmentDiscipline, PTL

------------------------------------------------------------------------------
(***************************************************************************)
(* The inductive invariant.  Besides the types and the environment, it     *)
(* says what the dictionaries identify, and what may stand on what.        *)
(***************************************************************************)
\* No two blocks on the stack have the same bindings dictionary.
DictionariesDistinct ==
  \A j, k \in 1..Depth :
    (BindsRestarts(frames[j]) /\ BindsRestarts(frames[k])
       /\ frames[j].ctx = frames[k].ctx) => j = k

\* The bindings at each place of the deque are those of a block on the stack,
\* those of an inner block further to the left.
Position(f) == Len(f.env[1]) + 1
BindingsOnStack ==
  /\ \A i \in 1..Len(restarts) :
       \E k \in 1..Depth : BindsRestarts(frames[k]) /\ Position(frames[k]) = i
  /\ \A k \in 1..Depth : BindsRestarts(frames[k]) =>
       /\ Position(frames[k]) \in 1..Len(restarts)
       /\ restarts[Position(frames[k])] = [ctx |-> frames[k].ctx, names |-> frames[k].names]
  /\ \A j, k \in 1..Depth :
       (j < k /\ BindsRestarts(frames[j]) /\ BindsRestarts(frames[k])) =>
         Position(frames[j]) < Position(frames[k])

\* A restart that is being invoked, or has been kept, is one of the restarts
\* of its dictionary, as long as that is in place.
Refers(r) ==
  r.kind = "invoke" =>
    \A k \in 1..Depth :
      (BindsRestarts(frames[k]) /\ frames[k].ctx = r.ctx) => r.name \in frames[k].names
ReferencesBound == Refers(exc) /\ Refers(held)

\* Frame f may stand directly on frame g: on the restarts of a protocol, what
\* its block calls; a handler on the signal that runs it; on a
\* _resignal_handler, a call of a protocol.
StandsOn(f, g) ==
  /\ g.kind = "protocol" => g.phase = "block"
  /\ (g.kind = "protocol" /\ g.protocol = "cerror") =>
       f.kind = "signal" /\ f.protocol = "cerror"
  /\ f.kind = "handler" => g.kind = "signal"
  /\ (g.kind = "handler" /\ ~g.user) => f.kind \in {"signal", "protocol"}

\* cerror's block is one call, and does not come to a normal end.
CerrorWaits(f) ==
  (f.kind = "protocol" /\ f.protocol = "cerror") => f.phase = "call"
CerrorBinds(f) ==
  (f.kind = "protocol" /\ f.protocol = "cerror") => f.names # {"muffle"}

StackInOrder ==
  /\ frames # <<>> => frames[1].kind # "handler"
  /\ \A k \in 1..Depth : k + 1 <= Depth => StandsOn(frames[k + 1], frames[k])
  /\ \A k \in 1..Depth : CerrorBinds(frames[k])
  /\ (exc.kind = "none" /\ frames # <<>>) => CerrorWaits(Top)

\* The handlers run are the matching ones up to the one reached; and as long
\* as an instance has not been signaled again, it has the protocol of its
\* signal.
Consulted(f) ==
  f.kind = "signal" =>
    /\ f.ran = {p \in Matching(f.env[2], f.cond) : p = f.at \/ Before(p, f.at)}
    /\ f.again \/ f.attribute = f.protocol
AllConsulted == \A k \in 1..Depth : Consulted(frames[k])

\* What a _resignal_handler has called has the protocol of the signal below
\* it, unless the instance has been signaled again.
Resignaled(f, g) == g.again \/ f.protocol = g.protocol
AllResignaled ==
  \A k \in 1..Depth :
    (k > 1 /\ k + 1 <= Depth /\ frames[k].kind = "handler" /\ ~frames[k].user) =>
      Resignaled(frames[k + 1], frames[k - 1])

IInv ==
  /\ TypeOK
  /\ EnvironmentMatchesStack
  /\ DictionariesDistinct
  /\ BindingsOnStack
  /\ ReferencesBound
  /\ StackInOrder
  /\ AllConsulted
  /\ AllResignaled
  /\ FreshInvocationArrives

------------------------------------------------------------------------------
(***************************************************************************)
(* The steps once more, as to the order of the stack.                      *)
(***************************************************************************)
\* Below the top, only iterators are invalidated, and instances get another
\* protocol.
SameCall(f, g) ==
  \/ f = g
  \/ g.kind = "signal" /\ f = [g EXCEPT !.live = FALSE]
  \/ g.kind = "signal" /\ \E p \in Protocols : f = [g EXCEPT !.attribute = p, !.again = TRUE]

\* What the top frame keeps when it makes a call
SameRole(f, g) ==
  /\ f.kind = g.kind
  /\ g.kind \in {"protocol", "signal"} => f.protocol = g.protocol
  /\ g.kind = "handler" => f.user = g.user

\* What a frame is like when it is pushed
NewFrame(f) ==
  /\ BindsRestarts(f) => ~InUse(f.ctx)
  /\ CerrorBinds(f) /\ CerrorWaits(f)
  /\ Consulted(f)

Grows ==
  /\ exc.kind = "none" /\ UNCHANGED <<exc, held>>
  /\ Depth' = Depth + 1
  /\ \A k \in 1..(Depth - 1) : SameCall(frames'[k], frames[k])
  /\ frames = <<>> => frames'[1].kind # "handler"
  /\ frames # <<>> =>
       /\ SameRole(frames'[Depth], Top)
       /\ StandsOn(frames'[Depth + 1], frames'[Depth])
       /\ Consulted(Top) => Consulted(frames'[Depth])
       /\ (Top.kind = "handler" /\ ~Top.user) =>
            frames'[Depth + 1].protocol = frames[Depth - 1].attribute
  /\ NewFrame(frames'[Depth + 1])

Shrinks ==
  /\ frames # <<>>
  /\ Depth' = Depth - 1
  /\ \A k \in 1..(Depth - 1) : SameCall(frames'[k], frames[k])
  /\ (Top.kind = "signal" /\ Top.protocol = "cerror") => exc'.kind # "none"
  /\ exc'.kind = "invoke" => ~Catches(Top)
  /\ exc' \in {exc, NoExc, Exception} /\ UNCHANGED held

LEMMA SameCallFacts ==
  ASSUME NEW f, NEW g \in Frame, SameCall(f, g)
  PROVE  /\ f \in Frame
         /\ f.kind = g.kind /\ f.env = g.env
         /\ SameExtent(f, g) /\ SameRole(f, g)
         /\ g.kind # "signal" => f = g
         /\ Consulted(g) => Consulted(f)
         /\ g.kind = "signal" => (g.again => f.again)
  <1>1. CASE f = g
    BY <1>1 DEF SameExtent, SameRole, BindsRestarts
  <1>2. CASE g.kind = "signal" /\ f = [g EXCEPT !.live = FALSE]
    <2>1. g \in SignalFrame
      BY <1>2, FrameKinds
    <2>2. /\ f \in SignalFrame /\ f.kind = g.kind /\ f.env = g.env /\ f.protocol = g.protocol
          /\ f.at = g.at /\ f.ran = g.ran /\ f.cond = g.cond
          /\ f.again = g.again /\ f.attribute = g.attribute
      BY <1>2, <2>1 DEF SignalFrame
    <2>3. QED
      BY <1>2, <2>2 DEF SameExtent, SameRole, Consulted, BindsRestarts, Frame
  <1>3. ASSUME g.kind = "signal", NEW p \in Protocols,
               f = [g EXCEPT !.attribute = p, !.again = TRUE]
        PROVE  /\ f \in Frame
               /\ f.kind = g.kind /\ f.env = g.env
               /\ SameExtent(f, g) /\ SameRole(f, g)
               /\ Consulted(g) => Consulted(f)
               /\ f.again
    <2>1. g \in SignalFrame
      BY <1>3, FrameKinds
    <2>2. /\ f \in SignalFrame /\ f.kind = g.kind /\ f.env = g.env /\ f.protocol = g.protocol
          /\ f.at = g.at /\ f.ran = g.ran /\ f.cond = g.cond /\ f.again = TRUE
      BY <1>3, <2>1 DEF SignalFrame
    <2>3. QED
      BY <1>3, <2>2 DEF SameExtent, SameRole, Consulted, BindsRestarts, Frame
  <1>4. QED
    BY <1>1, <1>2, <1>3 DEF SameCall

\* What stands on a frame still does when the two keep their roles.
LEMMA StandsStill ==
  ASSUME NEW f, NEW f2, NEW g \in Frame, NEW g2,
         SameRole(f2, f), SameCall(g2, g), StandsOn(f, g)
  PROVE  StandsOn(f2, g2)
  <1>1. g2.kind = g.kind /\ (g.kind = "signal" => g2.protocol = g.protocol)
        /\ (g.kind # "signal" => g2 = g)
    BY SameCallFacts DEF SameRole
  <1>2. QED
    BY <1>1 DEF StandsOn, SameRole

\* A pushed stack, element by element
LEMMA AppendFacts ==
  ASSUME NEW fs \in Seq(Frame), NEW f \in Frame, Len(fs) = Depth,
         frames' = Append(fs, f), Depth \in Nat
  PROVE  /\ Depth' = Depth + 1
         /\ \A k \in 1..Depth : frames'[k] = fs[k]
         /\ frames'[Depth + 1] = f
  BY AppendProperties DEF Depth

\* Restyling the top frame leaves the others alone.
LEMMA TopReplaced ==
  ASSUME TypeOK, frames # <<>>, NEW f \in Frame
  PROVE  LET fs == [frames EXCEPT ![Depth] = f]
         IN  /\ fs \in Seq(Frame) /\ Len(fs) = Depth
             /\ fs[Depth] = f
             /\ \A k \in 1..(Depth - 1) : fs[k] = frames[k]
  <1>1. frames \in Seq(Frame) /\ Depth \in 1..Len(frames) /\ Depth = Len(frames)
    BY EmptySeq DEF TypeOK, Depth
  <1>2. QED
    BY <1>1, ExceptSeq

\* The places that Matching speaks of
LEMMA MatchingFacts ==
  ASSUME NEW hs \in Seq(Seq(Clause)), NEW c
  PROVE  \A p \in Matching(hs, c) :
           /\ p = <<p[1], p[2]>> /\ p[1] \in 1..Len(hs) /\ p[2] \in 1..Len(hs[p[1]])
           /\ p \in Place
  <1>1. \A i \in 1..Len(hs) : Len(hs[i]) \in Nat
    OBVIOUS
  <1>2. ASSUME NEW p \in Matching(hs, c)
        PROVE  \E i \in 1..Len(hs) : \E j \in 1..Len(hs[i]) : p = <<i, j>>
    BY DEF Matching
  <1>3. QED
    BY <1>1, <1>2 DEF Place

\* Where a loop over the handlers starts, nothing has been run.
LEMMA NothingBeforeTheStart ==
  ASSUME NEW hs \in Seq(Seq(Clause)), NEW c
  PROVE  {p \in Matching(hs, c) :
            p = <<Len(hs) + 1, 0>> \/ Before(p, <<Len(hs) + 1, 0>>)} = {}
  <1>1. Len(hs) \in Nat
    OBVIOUS
  <1>2. \A p \in Matching(hs, c) : p[1] \in 1..Len(hs)
    BY MatchingFacts
  <1>3. QED
    BY <1>1, <1>2 DEF Before

\* One handler further in the loop: what has been run are again the matching
\* clauses up to the one reached, since it was the next of them.
LEMMA OneHandlerFurther ==
  ASSUME NEW hs \in Seq(Seq(Clause)), NEW c, NEW at \in Place, NEW p \in Matching(hs, c),
         Before(at, p),
         \A q \in Matching(hs, c) : Before(at, q) => q = p \/ Before(p, q)
  PROVE  {q \in Matching(hs, c) : q = at \/ Before(q, at)} \cup {p}
           = {q \in Matching(hs, c) : q = p \/ Before(q, p)}
  <1>1. \A q \in Matching(hs, c) : q \in Place
    BY MatchingFacts
  <1>2. ASSUME NEW q \in Place, NEW r \in Place
        PROVE  /\ q = r \/ Before(q, r) \/ Before(r, q)
               /\ ~(Before(q, r) /\ Before(r, q))
               /\ \A s \in Place : Before(q, r) /\ Before(r, s) => Before(q, s)
    <2>1. /\ q = <<q[1], q[2]>> /\ q[1] \in Nat /\ q[2] \in Nat
          /\ r = <<r[1], r[2]>> /\ r[1] \in Nat /\ r[2] \in Nat
      BY DEF Place
    <2>2. q = r \/ Before(q, r) \/ Before(r, q)
      <3>1. CASE q[1] = r[1] /\ q[2] = r[2]
        BY <2>1, <3>1
      <3>2. CASE ~(q[1] = r[1] /\ q[2] = r[2])
        BY <2>1, <3>2 DEF Before
      <3>3. QED
        BY <3>1, <3>2
    <2>3. ~(Before(q, r) /\ Before(r, q))
      BY <2>1 DEF Before
    <2>4. ASSUME NEW s \in Place, Before(q, r), Before(r, s)
          PROVE  Before(q, s)
      <3>1. s[1] \in Nat /\ s[2] \in Nat
        BY DEF Place
      <3>2. QED
        BY <2>1, <2>4, <3>1 DEF Before
    <2>5. QED
      BY <2>2, <2>3, <2>4
  <1>3. ASSUME NEW q \in Matching(hs, c), q = at \/ Before(q, at)
        PROVE  Before(q, p)
    BY <1>1, <1>2, <1>3
  <1>4. ASSUME NEW q \in Matching(hs, c), Before(q, p), ~(q = at \/ Before(q, at))
        PROVE  FALSE
    <2>1. Before(at, q)
      BY <1>1, <1>2, <1>4
    <2>2. q = p \/ Before(p, q)
      BY <2>1
    <2>3. q \in Place /\ p \in Place
      BY <1>1
    <2>4. ~Before(p, p)
      BY <2>3, <1>2
    <2>5. QED
      BY <1>2, <1>4, <2>2, <2>3, <2>4
  <1>5. QED
    BY <1>3, <1>4

\* A push in general
LEMMA AppendGrows ==
  ASSUME Depth \in Nat, exc.kind = "none", UNCHANGED <<exc, held>>,
         NEW fs \in Seq(Frame), NEW f \in Frame,
         Len(fs) = Depth, frames' = Append(fs, f),
         \A k \in 1..(Depth - 1) : SameCall(fs[k], frames[k]),
         frames = <<>> => f.kind # "handler",
         frames # <<>> => /\ Depth \in 1..Depth
                          /\ SameRole(fs[Depth], Top)
                          /\ StandsOn(f, fs[Depth])
                          /\ Consulted(Top) => Consulted(fs[Depth])
                          /\ (Top.kind = "handler" /\ ~Top.user) =>
                               f.protocol = frames[Depth - 1].attribute,
         NewFrame(f)
  PROVE  Grows
  <1>1. /\ Depth' = Depth + 1
        /\ \A k \in 1..Depth : frames'[k] = fs[k]
        /\ frames'[Depth + 1] = f
    BY AppendFacts
  <1>2. \A k \in 1..(Depth - 1) : SameCall(frames'[k], frames[k])
    BY <1>1
  <1>3. frames = <<>> => frames'[1] = f
    BY <1>1, EmptySeq DEF Depth
  <1>4. QED
    BY <1>1, <1>2, <1>3 DEF Grows

\* What a protocol pushes first when it is called
LEMMA CallGrows ==
  ASSUME TypeOK, exc.kind = "none", UNCHANGED <<exc, held>>,
         NEW fs \in Seq(Frame), Len(fs) = Depth, NEW c \in Conds, NEW p \in Protocols,
         NEW i \in Nat,
         \A k \in 1..(Depth - 1) : fs[k] = frames[k],
         frames # <<>> => /\ SameRole(fs[Depth], Top)
                          /\ fs[Depth].kind \notin {"protocol", "signal"}
                          /\ (Top.kind = "handler" /\ ~Top.user) =>
                               p = frames[Depth - 1].attribute,
         Call(fs, c, p, i)
  PROVE  Grows
  <1>1. /\ Depth \in Nat /\ (frames # <<>> => Depth \in 1..Depth)
        /\ EnvNow \in Env /\ Len(handlers) + 1 \in Nat
        /\ handlers \in Seq(Seq(Clause))
    BY EnvNowType, EmptySeq DEF TypeOK, Depth
  <1>2. frames # <<>> => Consulted(fs[Depth])
    BY DEF Consulted
  <1>3. CASE p \in {"signal", "error"}
    <2> DEFINE f == NewSignal(c, p, i)
               g == Prepared(fs, i, p)
    <2>1. frames' = Append(g, f)
      BY <1>3 DEF Call
    <2>2. f \in Frame
      BY <1>1 DEF NewSignal, SignalFrame, Place, Frame
    <2>3. Consulted(f)
      BY <1>1, NothingBeforeTheStart DEF NewSignal, Consulted, EnvNow
    <2>4. NewFrame(f) /\ f.kind = "signal" /\ f.protocol = p
      BY <2>3 DEF NewFrame, NewSignal, BindsRestarts, CerrorBinds, CerrorWaits
    <2>5. /\ g \in Seq(Frame) /\ Len(g) = Depth
          /\ \A k \in 1..Depth : fs[k].kind # "signal" => g[k] = fs[k]
      BY PreparedFacts
    <2>6. \A k \in 1..(Depth - 1) : SameCall(g[k], frames[k])
      <3>1. ASSUME NEW k \in 1..(Depth - 1)
            PROVE  SameCall(g[k], frames[k])
        <4>1. k \in 1..Len(fs) /\ fs[k] = frames[k]
          BY <1>1
        <4>2. QED
          BY <4>1 DEF Prepared, SameCall
      <3>2. QED
        BY <3>1
    <2>7. frames # <<>> => g[Depth] = fs[Depth]
      BY <1>1, <2>5
    <2>8. frames # <<>> => StandsOn(f, g[Depth])
      BY <2>4, <2>7 DEF StandsOn
    <2> HIDE DEF f, g
    <2>9. QED
      BY <1>1, <1>2, <2>1, <2>2, <2>4, <2>5, <2>6, <2>7, <2>8, AppendGrows
  <1>4. CASE p \in {"cerror", "warn"}
    <2> DEFINE ns == IF p = "cerror" THEN {"proceed"} ELSE {"muffle"}
               f == NewProtocol(c, p, i, ns)
    <2>1. (\E d \in Contexts : ~InUse(d)) /\ frames' = Append(fs, f)
      BY <1>4 DEF Call
    <2>2. NewContext \in Contexts /\ ~InUse(NewContext) /\ ns \in SUBSET AllNames
      BY <2>1, NewContextType DEF AllNames
    <2>3. f \in Frame
      BY <1>1, <1>4, <2>2 DEF NewProtocol, ProtocolFrame, Frame
    <2>4. NewFrame(f) /\ f.kind = "protocol" /\ f.protocol = p
      BY <2>2 DEF NewFrame, NewProtocol, CerrorBinds, CerrorWaits, Consulted
    <2>5. frames # <<>> => StandsOn(f, fs[Depth])
      BY <2>4 DEF StandsOn
    <2>6. \A k \in 1..(Depth - 1) : SameCall(fs[k], frames[k])
      BY DEF SameCall
    <2> HIDE DEF f
    <2>7. QED
      BY <1>1, <1>2, <2>1, <2>3, <2>4, <2>5, <2>6, AppendGrows
  <1>5. QED
    BY <1>3, <1>4 DEF Protocols

\* A frame under a call of user code
LEMMA UserCodeAtTop ==
  ASSUME UserCode, frames # <<>>
  PROVE  /\ exc.kind = "none"
         /\ Top.kind \in {"restarts", "handlers", "handler"}
         /\ Top.kind = "handler" => Top.user
  BY DEF UserCode, RunsUserCode

\* The stack as it is, and with the iterators invalidated
LEMMA StackBelow ==
  ASSUME TypeOK, NEW fs, fs \in {frames, Invalidate(frames)}
  PROVE  /\ fs \in Seq(Frame) /\ Len(fs) = Depth
         /\ \A k \in 1..Depth : SameCall(fs[k], frames[k])
         /\ frames # <<>> => /\ Depth \in 1..Depth
                             /\ SameRole(fs[Depth], Top)
                             /\ Consulted(Top) => Consulted(fs[Depth])
                             /\ Top.kind # "signal" => fs[Depth] = Top
                             /\ fs[Depth].kind = Top.kind
  <1>1. frames \in Seq(Frame) /\ Depth = Len(frames)
    BY DEF TypeOK, Depth
  <1>2. fs \in Seq(Frame) /\ Len(fs) = Depth
    BY <1>1, InvalidateFacts
  <1>3. \A k \in 1..Depth : SameCall(fs[k], frames[k])
    BY <1>1 DEF Invalidate, SameCall
  <1>4. ASSUME frames # <<>>
        PROVE  /\ Depth \in 1..Depth
               /\ SameRole(fs[Depth], Top)
               /\ Consulted(Top) => Consulted(fs[Depth])
               /\ Top.kind # "signal" => fs[Depth] = Top
               /\ fs[Depth].kind = Top.kind
    <2>1. Top \in Frame /\ Depth \in 1..Depth
      BY <1>4, TopType DEF Depth
    <2>2. SameCall(fs[Depth], Top)
      BY <1>3, <2>1 DEF Top
    <2>3. QED
      BY <2>1, <2>2, SameCallFacts DEF SameRole
  <1>5. QED
    BY <1>2, <1>3, <1>4

\* User code enters a block, or calls a protocol.
LEMMA UserGrows ==
  ASSUME TypeOK
  PROVE  /\ \A ns \in RestartSets : EnterRestarts(ns) => Grows
         /\ \A cs \in ClauseLists : EnterHandlers(cs) => Grows
         /\ \A c \in Types, q \in Protocols : Signal(c, q) => Grows
         /\ \A n \in Names : Invoke(n) /\ ~IsBound(n) => Grows
  <1>1. EnvNow \in Env /\ Depth \in Nat
    BY EnvNowType DEF TypeOK, Depth
  <1>2. ASSUME UserCode, UNCHANGED <<exc, held>>, NEW fs \in {frames, Invalidate(frames)},
               NEW f \in Frame, f.kind \in {"restarts", "handlers"}, NewFrame(f),
               frames' = Append(fs, f)
        PROVE  Grows
    <2>1. /\ fs \in Seq(Frame) /\ Len(fs) = Depth
          /\ \A k \in 1..Depth : SameCall(fs[k], frames[k])
          /\ frames # <<>> => /\ Depth \in 1..Depth
                              /\ SameRole(fs[Depth], Top)
                              /\ Consulted(Top) => Consulted(fs[Depth])
                              /\ Top.kind # "signal" => fs[Depth] = Top
      BY StackBelow
    <2>2. frames # <<>> => StandsOn(f, fs[Depth])
      BY <1>2, <2>1, UserCodeAtTop DEF StandsOn
    <2>3. exc.kind = "none"
      BY <1>2 DEF UserCode
    <2>4. f.kind # "handler"
      BY <1>2
    <2>5. \A k \in 1..(Depth - 1) : SameCall(fs[k], frames[k])
      BY <1>1, <2>1
    <2>6. frames # <<>> => ~(Top.kind = "handler" /\ ~Top.user)
      BY <1>2, UserCodeAtTop
    <2>7. QED
      BY <1>1, <1>2, <2>1, <2>2, <2>3, <2>4, <2>5, <2>6, AppendGrows
  <1>3. ASSUME UserCode, UNCHANGED <<exc, held>>, NEW c \in Conds, NEW p \in Protocols,
               NEW i \in Nat, Call(frames, c, p, i)
        PROVE  Grows
    <2>1. frames \in Seq(Frame) /\ Len(frames) = Depth
      BY DEF TypeOK, Depth
    <2>2. frames # <<>> =>
            /\ SameRole(frames[Depth], Top)
            /\ frames[Depth].kind \notin {"protocol", "signal"}
            /\ ~(Top.kind = "handler" /\ ~Top.user)
      BY <1>3, UserCodeAtTop DEF SameRole, Top
    <2>3. exc.kind = "none"
      BY <1>3 DEF UserCode
    <2>4. QED
      BY <1>3, <2>1, <2>2, <2>3, CallGrows
  <1>4. ASSUME NEW ns \in RestartSets, EnterRestarts(ns)
        PROVE  Grows
    <2> DEFINE f == [kind |-> "restarts", phase |-> "block", ctx |-> NewContext,
                     names |-> ns, env |-> EnvNow]
    <2>1. NewContext \in Contexts /\ ~InUse(NewContext) /\ ns \in SUBSET AllNames
      BY <1>4, NewContextType, ConditionsAssumption DEF EnterRestarts, AllNames
    <2>2. f \in RestartsFrame
      BY <1>1, <2>1 DEF RestartsFrame
    <2>3. NewFrame(f)
      BY <2>1 DEF NewFrame, CerrorBinds, CerrorWaits, Consulted
    <2>4. f.kind \in {"restarts", "handlers"} /\ f \in Frame
      BY <2>2 DEF Frame
    <2>5. frames' = Append(frames, f) /\ UserCode /\ UNCHANGED <<exc, held>>
      BY <1>4 DEF EnterRestarts
    <2> HIDE DEF f
    <2>6. QED
      BY <1>2, <2>3, <2>4, <2>5
  <1>5. ASSUME NEW cs \in ClauseLists, EnterHandlers(cs)
        PROVE  Grows
    <2> DEFINE f == [kind |-> "handlers", clauses |-> cs, env |-> EnvNow]
    <2>1. cs \in Seq(Clause)
      BY ConditionsAssumption
    <2>2. f \in HandlersFrame
      BY <1>1, <2>1 DEF HandlersFrame
    <2>3. NewFrame(f)
      BY DEF NewFrame, CerrorBinds, CerrorWaits, Consulted, BindsRestarts
    <2>4. f.kind \in {"restarts", "handlers"} /\ f \in Frame
      BY <2>2 DEF Frame
    <2>5. frames' = Append(Invalidate(frames), f) /\ UserCode /\ UNCHANGED <<exc, held>>
      BY <1>5 DEF EnterHandlers
    <2> HIDE DEF f
    <2>6. QED
      BY <1>2, <2>3, <2>4, <2>5
  <1>6. \A c \in Types, q \in Protocols : Signal(c, q) => Grows
    BY <1>3, InstanceType DEF Signal, Conds
  <1>7. ASSUME NEW n \in Names, Invoke(n), ~IsBound(n)
        PROVE  Grows
    <2>1. Call(frames, ControlError, "error", NewInstance) /\ UserCode /\ UNCHANGED <<exc, held>>
      BY <1>7 DEF Invoke, IsBound, FindRestart
    <2>2. ControlError \in Conds /\ "error" \in Protocols /\ NewInstance \in Nat
      BY <1>1 DEF Conds, Protocols, NewInstance
    <2>3. QED
      BY <1>3, <2>1, <2>2
  <1>8. QED
    BY <1>4, <1>5, <1>6, <1>7

\* cerror and warn go on, the loop of signal calls a handler, and a
\* _resignal_handler signals.
LEMMA LibraryGrows ==
  ASSUME IInv
  PROVE  /\ ProtocolCall => Grows
         /\ RunHandler => Grows
         /\ Resignal /\ Top.todo # <<>> => Grows
  <1>1. /\ TypeOK /\ EnvNow \in Env /\ Depth \in Nat /\ Len(handlers) + 1 \in Nat
        /\ handlers \in Seq(Seq(Clause))
    BY EnvNowType DEF IInv, TypeOK, Depth
  <1>2. ASSUME NEW kind \in {"signal", "protocol"}, LibraryCode(kind),
               NEW t \in Frame, SameRole(t, Top),
               NEW f \in Frame, f.kind = "handler" => kind = "signal",
               frames' = Append([frames EXCEPT ![Depth] = t], f),
               UNCHANGED <<exc, held>>, StandsOn(f, t),
               Consulted(Top) => Consulted(t), NewFrame(f)
        PROVE  Grows
    <2> DEFINE fs == [frames EXCEPT ![Depth] = t]
    <2>1. frames # <<>> /\ exc.kind = "none" /\ Depth \in 1..Depth
      BY <1>1, <1>2, TopType DEF LibraryCode, Depth
    <2>2. /\ fs \in Seq(Frame) /\ Len(fs) = Depth /\ fs[Depth] = t
          /\ \A k \in 1..(Depth - 1) : fs[k] = frames[k]
      BY <1>1, <1>2, <2>1, TopReplaced
    <2>3. \A k \in 1..(Depth - 1) : SameCall(fs[k], frames[k])
      BY <2>2 DEF SameCall
    <2>4. frames' = Append(fs, f) /\ Top.kind # "handler"
      BY <1>2 DEF LibraryCode
    <2> HIDE DEF fs
    <2>5. QED
      BY <1>1, <1>2, <2>1, <2>2, <2>3, <2>4, AppendGrows
  <1>3. ASSUME ProtocolCall
        PROVE  Grows
    <2> DEFINE t == [Top EXCEPT !.phase = "block"]
    <2>1. frames # <<>> /\ LibraryCode("protocol") /\ Top.kind = "protocol"
          /\ UNCHANGED <<exc, held>>
      BY <1>3 DEF ProtocolCall, LibraryCode
    <2>2. Top \in ProtocolFrame
      BY <1>1, <2>1, TopType, FrameKinds
    <2>3. /\ t \in ProtocolFrame /\ t.kind = "protocol" /\ t.protocol = Top.protocol
          /\ t.phase = "block" /\ t.names = Top.names
      BY <2>1, <2>2 DEF ProtocolFrame
    <2>4. t \in Frame /\ SameRole(t, Top) /\ (Consulted(Top) => Consulted(t))
      BY <2>1, <2>3 DEF Frame, SameRole, Consulted
    <2>5. Top.protocol = "cerror" => Top.names # {"muffle"}
      <3>1. CerrorBinds(Top)
        BY <1>1, <2>1, TopType DEF IInv, StackInOrder, Top, Depth
      <3>2. QED
        BY <2>1, <3>1 DEF CerrorBinds
    <2>6. CASE Top.names = {"muffle"}
      <3> DEFINE f == NewProtocol(Top.cond, "warn", Top.inst, {"_proceed"})
      <3>1. (\E d \in Contexts : ~InUse(d)) /\ frames' = Append([frames EXCEPT ![Depth] = t], f)
        BY <1>3, <2>6 DEF ProtocolCall, Top
      <3>2. NewContext \in Contexts /\ ~InUse(NewContext) /\ {"_proceed"} \in SUBSET AllNames
            /\ Top.cond \in Conds /\ Top.inst \in Nat
        BY <2>2, <3>1, NewContextType DEF AllNames, ProtocolFrame
      <3>3. f \in ProtocolFrame
        BY <1>1, <3>2 DEF NewProtocol, ProtocolFrame
      <3>4. NewFrame(f) /\ f.kind = "protocol"
        BY <3>2 DEF NewFrame, NewProtocol, CerrorBinds, CerrorWaits, Consulted
      <3>5. StandsOn(f, t)
        BY <2>3, <2>5, <2>6, <3>4 DEF StandsOn
      <3>6. f \in Frame
        BY <3>3 DEF Frame
      <3> HIDE DEF f, t
      <3>7. QED
        BY <1>2, <2>1, <2>4, <3>1, <3>4, <3>5, <3>6
    <2>7. CASE Top.names # {"muffle"}
      <3> DEFINE f == NewSignal(Top.cond, Top.protocol, Top.inst)
                 fs == [frames EXCEPT ![Depth] = t]
                 g == Prepared(fs, Top.inst, Top.protocol)
      <3>1. frames' = Append(g, f)
        BY <1>3, <2>7 DEF ProtocolCall, Top
      <3>2. Top.cond \in Conds /\ Top.protocol \in Protocols /\ Top.inst \in Nat
        BY <2>2 DEF ProtocolFrame, Protocols
      <3>3. f \in SignalFrame
        BY <1>1, <3>2 DEF NewSignal, SignalFrame, Place
      <3>4. f.kind = "signal" /\ f.protocol = Top.protocol /\ f \in Frame
        BY <3>3 DEF NewSignal, Frame
      <3>5. NewFrame(f)
        <4>1. Consulted(f)
          BY <1>1, NothingBeforeTheStart DEF NewSignal, Consulted, EnvNow
        <4>2. QED
          BY <3>4, <4>1 DEF NewFrame, BindsRestarts, CerrorBinds, CerrorWaits
      <3>6. /\ fs \in Seq(Frame) /\ Len(fs) = Depth /\ fs[Depth] = t
            /\ \A k \in 1..(Depth - 1) : fs[k] = frames[k]
        BY <1>1, <2>1, <2>4, TopReplaced
      <3>7. Depth \in 1..Depth /\ exc.kind = "none"
        BY <1>1, <2>1, TopType DEF LibraryCode, Depth
      <3> HIDE DEF fs, f, t
      <3>8. /\ g \in Seq(Frame) /\ Len(g) = Depth
            /\ \A k \in 1..Depth : fs[k].kind # "signal" => g[k] = fs[k]
        BY <3>2, <3>6, PreparedFacts
      <3>9. g[Depth] = t
        BY <2>3, <3>6, <3>7, <3>8
      <3>10. \A k \in 1..(Depth - 1) : SameCall(g[k], frames[k])
        <4>1. ASSUME NEW k \in 1..(Depth - 1)
              PROVE  SameCall(g[k], frames[k])
          <5>1. k \in 1..Len(fs) /\ fs[k] = frames[k]
            BY <1>1, <3>6
          <5>2. QED
            BY <3>2, <5>1 DEF Prepared, SameCall
        <4>2. QED
          BY <4>1
      <3>11. StandsOn(f, t)
        BY <2>3, <3>4 DEF StandsOn
      <3> HIDE DEF g
      <3>12. QED
        BY <1>1, <2>1, <2>4, <3>1, <3>4, <3>5, <3>7, <3>8, <3>9, <3>10, <3>11, AppendGrows
    <2>8. QED
      BY <2>6, <2>7
  <1>4. ASSUME RunHandler
        PROVE  Grows
    <2>1. frames # <<>> /\ LibraryCode("signal") /\ Top.kind = "signal"
          /\ UNCHANGED <<exc, held>>
      BY <1>4 DEF RunHandler, LibraryCode
    <2>2. Top \in SignalFrame /\ Depth \in 1..Depth
      BY <1>1, <2>1, TopType, FrameKinds DEF Depth
    <2>3. PICK p \in Remaining(Top) :
            /\ NextClause(Top, p)
            /\ frames' = Append([frames EXCEPT ![Depth].at = p,
                                               ![Depth].ran = @ \cup {p}],
                           [kind |-> "handler",
                            user |-> ~handlers[p[1]][p[2]].resignals,
                            todo |-> handlers[p[1]][p[2]].mapping[Top.cond], env |-> EnvNow])
      BY <1>4 DEF RunHandler
    <2> DEFINE t == [Top EXCEPT !.at = p, !.ran = Top.ran \cup {p}]
               cl == handlers[p[1]][p[2]]
               f == [kind |-> "handler", user |-> ~cl.resignals,
                     todo |-> cl.mapping[Top.cond], env |-> EnvNow]
    <2>4. frames' = Append([frames EXCEPT ![Depth] = t], f)
      BY <2>3 DEF Top
    <2>5. p \in Matching(handlers, Top.cond) /\ Before(Top.at, p)
      BY DEF Remaining
    <2>6. p[1] \in 1..Len(handlers) /\ p[2] \in 1..Len(handlers[p[1]]) /\ p \in Place
      BY <1>1, <2>5, MatchingFacts
    <2>7. cl \in Clause
      BY <1>1, <2>6
    <2>8. f \in HandlerFrame
      BY <1>1, <2>2, <2>7 DEF HandlerFrame, SignalFrame, Clause
    <2>9. /\ t \in SignalFrame /\ t.kind = "signal" /\ t.protocol = Top.protocol
          /\ t.at = p /\ t.ran = Top.ran \cup {p} /\ t.cond = Top.cond /\ t.env = Top.env
          /\ t.again = Top.again /\ t.attribute = Top.attribute
      BY <2>1, <2>2, <2>6 DEF SignalFrame
    <2>10. handlers = Top.env[2]
      BY <1>1, <2>1, <2>2
        DEF IInv, EnvironmentMatchesStack, EnvAt, EnvInside, Top, EnvNow, BindsRestarts
    <2>11. Consulted(Top) => Consulted(t)
      <3>1. \A q \in Matching(handlers, Top.cond) : Before(Top.at, q) => q = p \/ Before(p, q)
        BY <2>3 DEF NextClause, Remaining
      <3>2. Top.at \in Place
        BY <2>2 DEF SignalFrame
      <3>3. {q \in Matching(handlers, Top.cond) : q = Top.at \/ Before(q, Top.at)} \cup {p}
              = {q \in Matching(handlers, Top.cond) : q = p \/ Before(q, p)}
        BY <1>1, <2>5, <3>1, <3>2, OneHandlerFurther
      <3>4. QED
        BY <2>1, <2>9, <2>10, <3>3 DEF Consulted
    <2>12. NewFrame(f) /\ StandsOn(f, t) /\ f \in Frame
      BY <2>8, <2>9 DEF NewFrame, StandsOn, BindsRestarts, CerrorBinds, CerrorWaits,
                        Consulted, Frame
    <2>13. SameRole(t, Top) /\ t \in Frame
      BY <2>1, <2>9 DEF SameRole, Frame
    <2> HIDE DEF f, t
    <2>14. QED
      BY <1>2, <2>1, <2>4, <2>11, <2>12, <2>13
  <1>5. ASSUME Resignal, Top.todo # <<>>
        PROVE  Grows
    <2> DEFINE t == [Top EXCEPT !.todo = Tail(Top.todo)]
               fs == [frames EXCEPT ![Depth] = t]
    <2>1. frames # <<>> /\ Top.kind = "handler" /\ ~Top.user
          /\ UNCHANGED <<exc, held>> /\ exc.kind = "none"
      BY <1>5 DEF Resignal, LibraryCode
    <2>2. Top \in HandlerFrame
      BY <1>1, <2>1, TopType, FrameKinds
    <2>3. PICK p \in Protocols, i \in Instances(Head(Top.todo)) :
            p = frames[Depth - 1].attribute /\ Call(fs, Head(Top.todo), p, i)
      BY <1>5 DEF Resignal, Top
    <2>4. Head(Top.todo) \in Conds /\ Tail(Top.todo) \in Seq(Conds) /\ i \in Nat
      BY <1>1, <1>5, <2>2, HeadTailProperties, InstanceType DEF HandlerFrame
    <2>5. t \in HandlerFrame /\ t.kind = "handler" /\ t.user = Top.user
      BY <2>1, <2>2, <2>4 DEF HandlerFrame
    <2>6. t \in Frame /\ SameRole(t, Top)
      BY <2>1, <2>5 DEF Frame, SameRole
    <2>7. /\ fs \in Seq(Frame) /\ Len(fs) = Depth /\ fs[Depth] = t
          /\ \A k \in 1..(Depth - 1) : fs[k] = frames[k]
      BY <1>1, <2>1, <2>6, TopReplaced
    <2> HIDE DEF fs, t
    <2>8. QED
      BY <1>1, <2>1, <2>3, <2>4, <2>5, <2>6, <2>7, CallGrows
  <1>6. QED
    BY <1>3, <1>4, <1>5

\* Every exit of a frame: a signal of cerror does not just end, and a restart
\* on its way does not pass its block.
LEMMA ExitShrinks ==
  ASSUME TypeOK, frames # <<>>, ExitStacks,
         (Top.kind = "signal" /\ Top.protocol = "cerror") => exc'.kind # "none",
         exc'.kind = "invoke" => ~Catches(Top),
         exc' \in {exc, NoExc, Exception}, UNCHANGED held
  PROVE  Shrinks
  <1>1. frames \in Seq(Frame) /\ Depth = Len(frames)
    BY DEF TypeOK, Depth
  <1>2. /\ Pop(frames) \in Seq(Frame)
        /\ Len(Pop(frames)) = Depth - 1
        /\ \A k \in 1..(Depth - 1) : Pop(frames)[k] = frames[k]
    BY <1>1, PopFacts
  <1>3. /\ Len(Invalidate(Pop(frames))) = Depth - 1
        /\ \A k \in 1..(Depth - 1) : SameCall(Invalidate(Pop(frames))[k], Pop(frames)[k])
    BY <1>2, InvalidateFacts DEF Invalidate, SameCall
  <1>4. Len(frames') = Depth - 1 /\ \A k \in 1..(Depth - 1) : SameCall(frames'[k], frames[k])
    <2>1. CASE Top.kind = "handlers"
      <3>1. frames' = Invalidate(Pop(frames))
        BY <2>1 DEF ExitStacks
      <3>2. QED
        BY <1>2, <1>3, <3>1
    <2>2. CASE Top.kind # "handlers"
      BY <1>2, <2>2 DEF ExitStacks, SameCall
    <2>3. QED
      BY <2>1, <2>2
  <1>5. QED
    BY <1>4 DEF Shrinks, Depth

LEMMA AllShrink ==
  ASSUME TypeOK
  PROVE  /\ Leave => Shrinks
         /\ ProtocolReturn /\ ExitStacks /\ UNCHANGED exc => Shrinks
         /\ IteratorFails => Shrinks
         /\ Unhandled => Shrinks
         /\ Resignal /\ Top.todo = <<>> => Shrinks
         /\ RunRestart /\ Top.kind # "restarts" => Shrinks
         /\ Propagate => Shrinks
  <1>1. Exception.kind = "exception" /\ NoExc.kind = "none"
    BY DEF Exception, NoExc
  <1>2. Leave => Shrinks
    BY ExitShrinks, UserCodeAtTop DEF Leave
  <1>3. ProtocolReturn /\ ExitStacks /\ UNCHANGED exc => Shrinks
    BY ExitShrinks DEF ProtocolReturn, LibraryCode
  <1>4. IteratorFails => Shrinks
    BY <1>1, ExitShrinks DEF IteratorFails, LibraryCode
  <1>5. Unhandled => Shrinks
    BY <1>1, ExitShrinks DEF Unhandled, LibraryCode
  <1>6. Resignal /\ Top.todo = <<>> => Shrinks
    BY ExitShrinks DEF Resignal, LibraryCode
  <1>7. RunRestart /\ Top.kind # "restarts" => Shrinks
    BY <1>1, ExitShrinks DEF RunRestart, Catches, IsOurs, BindsRestarts
  <1>8. Propagate => Shrinks
    BY ExitShrinks DEF Propagate
  <1>9. QED
    BY <1>2, <1>3, <1>4, <1>5, <1>6, <1>7, <1>8

\* The steps that leave the stack as it is; an exception that ends here was
\* caught by user code.
Stays ==
  /\ UNCHANGED <<frames, restarts, handlers>>
  /\ (exc.kind # "none" /\ exc'.kind = "none" /\ frames # <<>>) => RunsUserCode(Top)

\* The block of a `with restarts` becomes its restart function.
Reruns ==
  /\ frames # <<>> /\ Top.kind = "restarts"
  /\ frames' = [frames EXCEPT ![Depth] = [Top EXCEPT !.phase = "restart"]]
  /\ exc' = NoExc
  /\ UNCHANGED <<restarts, handlers, held>>

LEMMA StackSteps ==
  ASSUME IInv, [Next]_vars
  PROVE  Grows \/ Shrinks \/ Stays \/ Reruns
  <1>1. TypeOK
    BY DEF IInv
  <1>2. UNCHANGED vars => Stays
    BY DEF vars, Stays
  <1>3. ProtocolReturn => Shrinks \/ Stays
    BY <1>1, AllShrink DEF ProtocolReturn, LibraryCode, Stays
  <1>4. Resignal => Grows \/ Shrinks
    BY <1>1, AllShrink, LibraryGrows
  <1>5. \A n \in Names : Invoke(n) => Grows \/ Stays
    BY <1>1, UserGrows DEF Invoke, UserCode, Stays
  <1>6. \A n \in Names : KeepRestart(n) => Stays
    BY DEF KeepRestart, UserCode, Stays
  <1>7. InvokeKept => Stays
    BY DEF InvokeKept, UserCode, Stays
  <1>8. RunRestart => Shrinks \/ Reruns
    BY <1>1, AllShrink DEF RunRestart, Reruns, Top
  <1>9. Raise \/ Catch => Stays
    BY DEF Raise, Catch, UserCode, Stays
  <1>10. QED
    BY <1>1, <1>2, <1>3, <1>4, <1>5, <1>6, <1>7, <1>8, <1>9, AllShrink, LibraryGrows, UserGrows
      DEF Next

------------------------------------------------------------------------------
(***************************************************************************)
(* Preservation                                                            *)
(***************************************************************************)
\* What the shapes of a step say about the extents of the frames
LEMMA GrowthExtents ==
  ASSUME TypeOK, EnvironmentMatchesStack, StepShape, Grows
  PROVE  /\ Depth \in Nat /\ Depth' = Depth + 1
         /\ \A k \in 1..Depth : SameExtent(frames'[k], frames[k])
         /\ frames'[Depth + 1].env = EnvNow
         /\ EnvNow' = EnvInside(frames'[Depth + 1])
  <1>1. Depth \in Nat /\ Depth' = Depth + 1
    BY DEF TypeOK, Depth, Grows
  <1>2. ~PopStep
    BY <1>1, ExitFacts DEF PopStep
  <1>3. ~Restyles
    BY <1>1, RestyleKeepsEnvironment
  <1>4. PICK fs, f : Pushes(fs, f)
    BY <1>2, <1>3 DEF StepShape, PushStep
  <1>5. /\ \A k \in 1..Depth : frames'[k] = fs[k]
        /\ frames'[Depth + 1] = f
    BY <1>1, <1>4, AppendFacts DEF Pushes, Restyled
  <1>6. QED
    BY <1>1, <1>4, <1>5 DEF Pushes, Restyled

LEMMA ShrinkExtents ==
  ASSUME TypeOK, EnvironmentMatchesStack, StepShape, Shrinks
  PROVE  /\ Depth \in Nat /\ Depth >= 1 /\ Depth' = Depth - 1
         /\ \A k \in 1..(Depth - 1) : /\ SameExtent(frames'[k], frames[k])
                                      /\ SameRole(frames'[k], frames[k])
                                      /\ Consulted(frames[k]) => Consulted(frames'[k])
                                      /\ frames[k].kind # "signal" => frames'[k] = frames[k]
         /\ EnvNow = EnvInside(Top)
         /\ EnvNow' = Top.env
         /\ Top \in Frame
  <1>1. frames \in Seq(Frame) /\ Depth \in Nat /\ Depth >= 1 /\ Depth' = Depth - 1
    BY EmptySeq DEF TypeOK, Depth, Shrinks
  <1>2. ASSUME NEW k \in 1..(Depth - 1)
        PROVE  /\ SameExtent(frames'[k], frames[k])
               /\ SameRole(frames'[k], frames[k])
               /\ Consulted(frames[k]) => Consulted(frames'[k])
               /\ frames[k].kind # "signal" => frames'[k] = frames[k]
    <2>1. frames[k] \in Frame
      BY <1>1 DEF Depth
    <2>2. SameCall(frames'[k], frames[k])
      BY DEF Shrinks
    <2>3. QED
      BY <2>1, <2>2, SameCallFacts
  <1>3. EnvNow = EnvInside(Top)
    BY <1>1 DEF EnvironmentMatchesStack, EnvAt, Top
  <1>4. EnvNow' = Top.env
    BY <1>1, ShapeKeepsEnvironment
  <1>5. QED
    BY <1>1, <1>2, <1>3, <1>4, TopType DEF Shrinks

LEMMA RerunFacts ==
  ASSUME TypeOK, Reruns
  PROVE  /\ Depth' = Depth /\ Depth \in 1..Depth
         /\ \A k \in 1..(Depth - 1) : frames'[k] = frames[k]
         /\ Top \in Frame
         /\ frames'[Depth].kind = "restarts" /\ frames'[Depth].phase = "restart"
         /\ \A k \in 1..Depth : SameExtent(frames'[k], frames[k])
  <1>1. Top \in RestartsFrame /\ Depth \in 1..Depth
    BY TopType, FrameKinds DEF Reruns, Depth
  <1> DEFINE t == [Top EXCEPT !.phase = "restart"]
  <1>2. t \in RestartsFrame /\ t.kind = "restarts" /\ t.phase = "restart" /\ SameExtent(t, Top)
    BY <1>1 DEF RestartsFrame, SameExtent, BindsRestarts
  <1>3. t \in Frame /\ Top \in Frame /\ frames # <<>> /\ frames' = [frames EXCEPT ![Depth] = t]
    BY <1>1, <1>2 DEF Frame, Reruns
  <1>4. /\ Len(frames') = Depth /\ frames'[Depth] = t
        /\ \A k \in 1..(Depth - 1) : frames'[k] = frames[k]
    <2> HIDE DEF t
    <2>1. QED
      BY <1>3, TopReplaced
  <1>5. \A k \in 1..Depth : SameExtent(frames'[k], frames[k])
    <2>1. ASSUME NEW k \in 1..Depth
          PROVE  SameExtent(frames'[k], frames[k])
      <3>1. CASE k = Depth
        BY <1>2, <1>4, <3>1 DEF Top
      <3>2. CASE k # Depth
        BY <1>1, <1>4, <3>2 DEF SameExtent
      <3>3. QED
        BY <3>1, <3>2
    <2>2. QED
      BY <2>1
  <1>6. QED
    BY <1>1, <1>2, <1>3, <1>4, <1>5 DEF Depth

\* Frames with the same extent bind the same names at the same place.
LEMMA SameBindings ==
  ASSUME NEW f, NEW g, SameExtent(f, g)
  PROVE  /\ BindsRestarts(f) <=> BindsRestarts(g)
         /\ BindsRestarts(g) => f.ctx = g.ctx /\ f.names = g.names
         /\ Position(f) = Position(g)
  BY DEF SameExtent, BindsRestarts, Position

LEMMA PositionType ==
  ASSUME TypeOK, NEW k \in 1..Depth
  PROVE  Position(frames[k]) \in Nat
  <1>1. frames[k] \in Frame
    BY DEF TypeOK, Depth
  <1>2. frames[k].env \in Env
    BY <1>1, FrameKinds
  <1>3. QED
    BY <1>2 DEF Position, Env

\* A new dictionary differs from those in place; its bindings go to the left
\* end of the deque.
LEMMA GrowthKeepsDictionaries ==
  ASSUME IInv, StepShape, Grows
  PROVE  DictionariesDistinct' /\ BindingsOnStack'
  <1> DEFINE n == Depth
             new == frames'[n + 1]
  <1>1. /\ TypeOK /\ EnvironmentMatchesStack
        /\ DictionariesDistinct /\ BindingsOnStack
        /\ restarts \in Seq(Bindings) /\ Len(restarts) \in Nat
    BY DEF IInv, TypeOK
  <1>2. /\ n \in Nat /\ Depth' = n + 1
        /\ \A k \in 1..n : SameExtent(frames'[k], frames[k])
        /\ new.env = EnvNow
        /\ EnvNow' = EnvInside(new)
        /\ NewFrame(new)
    BY <1>1, GrowthExtents DEF Grows
  <1>3. \A k \in 1..n : /\ BindsRestarts(frames'[k]) <=> BindsRestarts(frames[k])
                        /\ BindsRestarts(frames[k]) => /\ frames'[k].ctx = frames[k].ctx
                                                       /\ frames'[k].names = frames[k].names
                        /\ Position(frames'[k]) = Position(frames[k])
    BY <1>2, SameBindings
  <1>4. BindsRestarts(new) =>
          \A k \in 1..n : BindsRestarts(frames[k]) => frames[k].ctx # new.ctx
    BY <1>2 DEF NewFrame, InUse
  <1>5. DictionariesDistinct'
    <2>1. ASSUME NEW j \in 1..(n + 1), NEW k \in 1..(n + 1),
                 BindsRestarts(frames'[j]), BindsRestarts(frames'[k]),
                 frames'[j].ctx = frames'[k].ctx
          PROVE  j = k
      <3>1. CASE j \in 1..n /\ k \in 1..n
        BY <1>1, <1>3, <2>1, <3>1 DEF DictionariesDistinct
      <3>2. CASE j = n + 1 /\ k \in 1..n
        BY <1>3, <1>4, <2>1, <3>2
      <3>3. CASE j \in 1..n /\ k = n + 1
        BY <1>3, <1>4, <2>1, <3>3
      <3>4. QED
        BY <1>2, <3>1, <3>2, <3>3
    <2>2. QED
      BY <1>2, <2>1 DEF DictionariesDistinct
  <1> DEFINE b == [ctx |-> new.ctx, names |-> new.names]
  <1>6. /\ Position(new) = Len(restarts) + 1
        /\ restarts' = IF BindsRestarts(new) THEN Append(restarts, b) ELSE restarts
    BY <1>2 DEF Position, EnvNow, EnvInside
  <1>7. /\ BindsRestarts(new) => Len(restarts') = Len(restarts) + 1
                                 /\ restarts'[Len(restarts) + 1] = b
        /\ ~BindsRestarts(new) => Len(restarts') = Len(restarts)
        /\ \A i \in 1..Len(restarts) : restarts'[i] = restarts[i]
    BY <1>1, <1>6
  <1> HIDE DEF b
  <1>8. ASSUME NEW i \in 1..Len(restarts')
        PROVE  \E k \in 1..(n + 1) : BindsRestarts(frames'[k]) /\ Position(frames'[k]) = i
    <2>1. CASE i \in 1..Len(restarts)
      <3>1. PICK k \in 1..n : BindsRestarts(frames[k]) /\ Position(frames[k]) = i
        BY <1>1, <2>1 DEF BindingsOnStack
      <3>2. QED
        BY <1>2, <1>3, <3>1
    <2>2. CASE BindsRestarts(new) /\ i = Len(restarts) + 1
      BY <1>2, <1>6, <2>2
    <2>3. QED
      BY <1>1, <1>7, <2>1, <2>2
  <1>9. ASSUME NEW k \in 1..(n + 1), BindsRestarts(frames'[k])
        PROVE  /\ Position(frames'[k]) \in 1..Len(restarts')
               /\ restarts'[Position(frames'[k])]
                    = [ctx |-> frames'[k].ctx, names |-> frames'[k].names]
    <2>1. CASE k \in 1..n
      <3>1. /\ Position(frames[k]) \in 1..Len(restarts)
            /\ restarts[Position(frames[k])] = [ctx |-> frames[k].ctx, names |-> frames[k].names]
        BY <1>1, <1>3, <1>9, <2>1 DEF BindingsOnStack
      <3>2. Len(restarts') >= Len(restarts) /\ Len(restarts') \in Nat
        BY <1>1, <1>7
      <3>3. QED
        BY <1>1, <1>3, <1>7, <1>9, <2>1, <3>1, <3>2
    <2>2. CASE k = n + 1
      BY <1>1, <1>6, <1>7, <1>9, <2>2 DEF b
    <2>3. QED
      BY <1>2, <2>1, <2>2
  <1>10. ASSUME NEW j \in 1..(n + 1), NEW k \in 1..(n + 1), j < k,
                BindsRestarts(frames'[j]), BindsRestarts(frames'[k])
         PROVE  Position(frames'[j]) < Position(frames'[k])
    <2>1. CASE k \in 1..n
      <3>1. j \in 1..n /\ BindsRestarts(frames[j]) /\ BindsRestarts(frames[k])
        BY <1>2, <1>3, <1>10, <2>1
      <3>2. Position(frames[j]) < Position(frames[k])
        BY <1>1, <1>10, <2>1, <3>1 DEF BindingsOnStack
      <3>3. QED
        BY <1>3, <2>1, <3>1, <3>2
    <2>2. CASE k = n + 1
      <3>1. j \in 1..n
        BY <1>2, <1>10, <2>2
      <3>2. Position(frames[j]) \in 1..Len(restarts)
        BY <1>1, <1>3, <1>10, <3>1 DEF BindingsOnStack
      <3>3. QED
        BY <1>1, <1>3, <1>6, <2>2, <3>1, <3>2
    <2>3. QED
      BY <1>2, <2>1, <2>2
  <1>11. QED
    BY <1>2, <1>5, <1>8, <1>9, <1>10 DEF BindingsOnStack

\* The bindings that are removed are those of the frame that is left.
LEMMA ShrinkKeepsDictionaries ==
  ASSUME IInv, StepShape, Shrinks
  PROVE  DictionariesDistinct' /\ BindingsOnStack'
  <1> DEFINE n == Depth
  <1>1. /\ TypeOK /\ EnvironmentMatchesStack
        /\ DictionariesDistinct /\ BindingsOnStack
        /\ restarts \in Seq(Bindings) /\ Len(restarts) \in Nat
    BY DEF IInv, TypeOK
  <1>2. /\ n \in Nat /\ n >= 1 /\ Depth' = n - 1
        /\ \A k \in 1..(n - 1) : SameExtent(frames'[k], frames[k])
        /\ EnvNow = EnvInside(Top) /\ EnvNow' = Top.env /\ Top \in Frame
    BY <1>1, ShrinkExtents
  <1>3. \A k \in 1..(n - 1) :
          /\ BindsRestarts(frames'[k]) <=> BindsRestarts(frames[k])
          /\ BindsRestarts(frames[k]) => /\ frames'[k].ctx = frames[k].ctx
                                         /\ frames'[k].names = frames[k].names
          /\ Position(frames'[k]) = Position(frames[k])
    BY <1>2, SameBindings
  <1>4. DictionariesDistinct'
    BY <1>1, <1>2, <1>3 DEF DictionariesDistinct
  <1>5. Top.env[1] \in Seq(Bindings) /\ restarts' = Top.env[1]
        /\ restarts = IF BindsRestarts(Top)
                      THEN Append(Top.env[1], [ctx |-> Top.ctx, names |-> Top.names])
                      ELSE Top.env[1]
    BY <1>2, FrameKinds DEF EnvNow, EnvInside, Env
  <1>6. /\ Len(restarts') \in Nat /\ Len(restarts') <= Len(restarts)
        /\ \A i \in 1..Len(restarts') : restarts'[i] = restarts[i]
        /\ BindsRestarts(Top) => Position(Top) = Len(restarts') + 1
    BY <1>1, <1>5 DEF Position
  <1>7. ~BindsRestarts(Top) => restarts' = restarts
    BY <1>5
  <1>8. ASSUME NEW k \in 1..(n - 1), BindsRestarts(frames[k])
        PROVE  Position(frames[k]) \in 1..Len(restarts')
    <2>1. k \in 1..n /\ Position(frames[k]) \in 1..Len(restarts)
      <3>1. k \in 1..n
        BY <1>2
      <3>2. QED
        BY <1>1, <1>8, <3>1 DEF BindingsOnStack
    <2>2. CASE BindsRestarts(Top)
      <3>1. Position(frames[k]) < Position(Top)
        BY <1>1, <1>2, <1>8, <2>1, <2>2 DEF BindingsOnStack, Top
      <3>2. QED
        BY <1>6, <2>1, <2>2, <3>1
    <2>3. CASE ~BindsRestarts(Top)
      BY <1>7, <2>1, <2>3
    <2>4. QED
      BY <2>2, <2>3
  <1>9. ASSUME NEW i \in 1..Len(restarts')
        PROVE  \E k \in 1..(n - 1) : BindsRestarts(frames'[k]) /\ Position(frames'[k]) = i
    <2>1. i \in 1..Len(restarts)
      BY <1>1, <1>6
    <2>2. PICK k \in 1..n : BindsRestarts(frames[k]) /\ Position(frames[k]) = i
      BY <1>1, <2>1 DEF BindingsOnStack
    <2>3. k # n
      BY <1>6, <2>2 DEF Top
    <2>4. k \in 1..(n - 1)
      BY <1>2, <2>3
    <2>5. QED
      BY <1>3, <2>2, <2>4
  <1>10. ASSUME NEW k \in 1..(n - 1), BindsRestarts(frames'[k])
         PROVE  /\ Position(frames'[k]) \in 1..Len(restarts')
                /\ restarts'[Position(frames'[k])]
                     = [ctx |-> frames'[k].ctx, names |-> frames'[k].names]
    <2>1. BindsRestarts(frames[k]) /\ k \in 1..n
      BY <1>2, <1>3, <1>10
    <2>2. restarts[Position(frames[k])] = [ctx |-> frames[k].ctx, names |-> frames[k].names]
      BY <1>1, <2>1 DEF BindingsOnStack
    <2>3. QED
      BY <1>3, <1>6, <1>8, <2>1, <2>2
  <1>11. \A j, k \in 1..(n - 1) :
           (j < k /\ BindsRestarts(frames'[j]) /\ BindsRestarts(frames'[k])) =>
             Position(frames'[j]) < Position(frames'[k])
    BY <1>1, <1>2, <1>3 DEF BindingsOnStack
  <1>12. QED
    BY <1>2, <1>4, <1>9, <1>10, <1>11 DEF BindingsOnStack

LEMMA StillKeepsDictionaries ==
  ASSUME IInv, Stays \/ Reruns
  PROVE  DictionariesDistinct' /\ BindingsOnStack'
  <1>1. TypeOK /\ DictionariesDistinct /\ BindingsOnStack
    BY DEF IInv
  <1>2. CASE Stays
    BY <1>1, <1>2 DEF Stays, DictionariesDistinct, BindingsOnStack, Depth
  <1>3. CASE Reruns
    <2>1. Depth' = Depth /\ \A k \in 1..Depth : SameExtent(frames'[k], frames[k])
      BY <1>1, <1>3, RerunFacts
    <2>2. \A k \in 1..Depth :
            /\ BindsRestarts(frames'[k]) <=> BindsRestarts(frames[k])
            /\ BindsRestarts(frames[k]) => /\ frames'[k].ctx = frames[k].ctx
                                           /\ frames'[k].names = frames[k].names
            /\ Position(frames'[k]) = Position(frames[k])
      BY <2>1, SameBindings
    <2>3. UNCHANGED restarts
      BY <1>3 DEF Reruns
    <2>4. DictionariesDistinct'
      BY <1>1, <2>1, <2>2 DEF DictionariesDistinct
    <2>5. BindingsOnStack'
      <3>1. \A i \in 1..Len(restarts) :
              \E k \in 1..Depth : BindsRestarts(frames'[k]) /\ Position(frames'[k]) = i
        BY <1>1, <2>2 DEF BindingsOnStack
      <3>2. \A k \in 1..Depth : BindsRestarts(frames'[k]) =>
              /\ Position(frames'[k]) \in 1..Len(restarts)
              /\ restarts[Position(frames'[k])]
                   = [ctx |-> frames'[k].ctx, names |-> frames'[k].names]
        BY <1>1, <2>2 DEF BindingsOnStack
      <3>3. \A j, k \in 1..Depth :
              (j < k /\ BindsRestarts(frames'[j]) /\ BindsRestarts(frames'[k])) =>
                Position(frames'[j]) < Position(frames'[k])
        BY <1>1, <2>2 DEF BindingsOnStack
      <3>4. QED
        BY <2>1, <2>3, <3>1, <3>2, <3>3 DEF BindingsOnStack
    <2>6. QED
      BY <2>4, <2>5
  <1>4. QED
    BY <1>2, <1>3

\* What find_restart returns is one of the restarts of its dictionary.
LEMMA FoundRestart ==
  ASSUME IInv, NEW n, NEW i \in 1..Len(restarts), FindRestart(n, i)
  PROVE  /\ Refers(RestartAt(n, i))
         /\ \E k \in 1..Depth :
              /\ BindsRestarts(frames[k]) /\ frames[k].ctx = restarts[i].ctx
              /\ \A l \in 1..Depth : l > k /\ BindsRestarts(frames[l]) => n \notin frames[l].names
  <1>1. /\ TypeOK /\ DictionariesDistinct /\ BindingsOnStack
        /\ Len(restarts) \in Nat /\ Depth \in Nat
    BY DEF IInv, TypeOK, Depth
  <1>2. PICK k \in 1..Depth : BindsRestarts(frames[k]) /\ Position(frames[k]) = i
    BY <1>1 DEF BindingsOnStack
  <1>3. restarts[i] = [ctx |-> frames[k].ctx, names |-> frames[k].names]
    BY <1>1, <1>2 DEF BindingsOnStack
  <1>4. n \in frames[k].names /\ frames[k].ctx = restarts[i].ctx
    BY <1>3 DEF FindRestart
  <1>5. Refers(RestartAt(n, i))
    <2>1. ASSUME NEW l \in 1..Depth, BindsRestarts(frames[l]), frames[l].ctx = restarts[i].ctx
          PROVE  n \in frames[l].names
      <3>1. l = k
        BY <1>1, <1>2, <1>4, <2>1 DEF DictionariesDistinct
      <3>2. QED
        BY <1>4, <3>1
    <2>2. QED
      BY <2>1 DEF Refers, RestartAt
  <1>6. ASSUME NEW l \in 1..Depth, l > k, BindsRestarts(frames[l])
        PROVE  n \notin frames[l].names
    <2>1. /\ Position(frames[l]) \in 1..Len(restarts)
          /\ restarts[Position(frames[l])] = [ctx |-> frames[l].ctx, names |-> frames[l].names]
      BY <1>1, <1>6 DEF BindingsOnStack
    <2>2. Position(frames[l]) > i
      BY <1>1, <1>2, <1>6, PositionType DEF BindingsOnStack
    <2>3. Position(frames[l]) \in (i + 1)..Len(restarts)
      BY <1>1, <2>1, <2>2
    <2>4. QED
      BY <2>1, <2>3 DEF FindRestart
  <1>7. QED
    BY <1>2, <1>4, <1>5, <1>6

\* Where a restart can come from that is being invoked or kept after a step
LEMMA ReferenceSteps ==
  ASSUME IInv, [Next]_vars, NEW r, r \in {exc', held'}, r.kind = "invoke"
  PROVE  \/ r \in {exc, held}
         \/ Stays /\ Refers(r)
  <1>1. /\ \A s, how : (s.kind = "invoke" /\ Refers(s)) => Refers(Invoked(s, how))
        /\ Refers(held)
        /\ \A n, i : RestartAt(n, i).kind = "invoke"
        /\ held # NotHeld => held.kind = "invoke"
    BY DEF Refers, Invoked, IInv, ReferencesBound, RestartAt, TypeOK, BoundRestart
  <1>2. Exception.kind # "invoke" /\ NoExc.kind # "invoke" /\ NotHeld.kind # "invoke"
    BY DEF Exception, NoExc, NotHeld
  <1>3. CASE \E n \in Names : Invoke(n) \/ KeepRestart(n)
    <2>1. PICK n \in Names : Invoke(n) \/ KeepRestart(n)
      BY <1>3
    <2>2. CASE Invoke(n) /\ IsBound(n)
      <3>1. Stays
        BY <2>2 DEF Invoke, UserCode, Stays
      <3>2. PICK i \in 1..Len(restarts), how \in {"fresh", "rerun"} :
              FindRestart(n, i) /\ exc' = Invoked(RestartAt(n, i), how)
        BY <2>2 DEF Invoke
      <3>3. QED
        BY <1>1, <2>2, <3>1, <3>2, FoundRestart DEF Invoke
    <2>3. CASE Invoke(n) /\ ~IsBound(n)
      BY <2>3 DEF Invoke, IsBound, FindRestart
    <2>4. CASE KeepRestart(n)
      <3>1. Stays /\ exc' = exc
        BY <2>4 DEF KeepRestart, UserCode, Stays
      <3>2. held' = NotHeld \/ \E i \in 1..Len(restarts) : FindRestart(n, i) /\ held' = RestartAt(n, i)
        BY <2>4 DEF KeepRestart
      <3>3. QED
        BY <1>2, <3>1, <3>2, FoundRestart
    <2>5. QED
      BY <2>1, <2>2, <2>3, <2>4
  <1>4. CASE InvokeKept
    <2>1. Stays /\ exc' = Invoked(held, "kept") /\ held' = held /\ held # NotHeld
      BY <1>4 DEF InvokeKept, UserCode, Stays
    <2>2. QED
      BY <1>1, <2>1
  <1>5. CASE RunHandler \/ ProtocolCall \/ Leave \/ Propagate
    BY <1>5 DEF RunHandler, ProtocolCall, Leave, Propagate
  <1>6. CASE ProtocolReturn \/ IteratorFails \/ Unhandled \/ Resignal
    BY <1>2, <1>6 DEF ProtocolReturn, IteratorFails, Unhandled, Resignal
  <1>7. CASE RunRestart \/ Raise \/ Catch
    BY <1>2, <1>7 DEF RunRestart, Raise, Catch
  <1>8. CASE \/ \E ns \in RestartSets : EnterRestarts(ns)
             \/ \E cs \in ClauseLists : EnterHandlers(cs)
             \/ \E c \in Types, p \in Protocols : Signal(c, p)
    BY <1>8 DEF EnterRestarts, EnterHandlers, Signal
  <1>9. CASE UNCHANGED vars
    BY <1>9 DEF vars
  <1>10. QED
    BY <1>3, <1>4, <1>5, <1>6, <1>7, <1>8, <1>9 DEF Next

\* A reference stays bound: a new dictionary is not one that is referred to.
LEMMA KeepsReferences ==
  ASSUME IInv, [Next]_vars, StepShape
  PROVE  ReferencesBound'
  <1>1. TypeOK /\ EnvironmentMatchesStack /\ Refers(exc) /\ Refers(held) /\ Depth \in Nat
    BY DEF IInv, ReferencesBound, TypeOK, Depth
  <1>2. ASSUME NEW r, r \in {exc', held'}, r.kind = "invoke", NEW k \in 1..Depth',
               BindsRestarts(frames'[k]), frames'[k].ctx = r.ctx
        PROVE  r.name \in frames'[k].names
    <2>1. r \in {exc, held} \/ (Stays /\ Refers(r))
      BY <1>2, ReferenceSteps
    <2>2. Refers(r)
      BY <1>1, <2>1
    <2>3. Grows \/ Shrinks \/ Stays \/ Reruns
      BY StackSteps
    <2>4. ASSUME k \in 1..Depth, SameExtent(frames'[k], frames[k])
          PROVE  r.name \in frames'[k].names
      BY <1>2, <2>2, <2>4, SameBindings DEF Refers
    <2>5. CASE Stays
      BY <1>2, <2>2, <2>5 DEF Stays, Refers, Depth
    <2>6. CASE Reruns
      BY <1>1, <1>2, <2>4, <2>6, RerunFacts
    <2>7. CASE Shrinks
      <3>1. k \in 1..(Depth - 1) /\ k \in 1..Depth
        BY <1>1, <1>2, <2>7 DEF Shrinks
      <3>2. SameExtent(frames'[k], frames[k])
        BY <1>1, <2>7, <3>1, ShrinkExtents
      <3>3. QED
        BY <2>4, <3>1, <3>2
    <2>8. CASE Grows
      <3>1. /\ Depth' = Depth + 1
            /\ \A l \in 1..Depth : SameExtent(frames'[l], frames[l])
            /\ NewFrame(frames'[Depth + 1])
        BY <1>1, <2>8, GrowthExtents DEF Grows
      <3>2. CASE k \in 1..Depth
        BY <2>4, <3>1, <3>2
      <3>3. CASE k = Depth + 1
        <4>1. ~InUse(r.ctx)
          BY <1>2, <3>1, <3>3 DEF NewFrame
        <4>2. r \in {exc, held}
          BY <1>2, <2>8 DEF Grows
        <4>3. QED
          BY <1>2, <4>1, <4>2 DEF InUse
      <3>4. QED
        BY <1>1, <1>2, <3>1, <3>2, <3>3
    <2>9. QED
      BY <2>3, <2>5, <2>6, <2>7, <2>8
  <1>3. QED
    BY <1>2 DEF ReferencesBound, Refers

\* The order of the stack
LEMMA GrowthKeepsOrder ==
  ASSUME IInv, StepShape, Grows
  PROVE  StackInOrder'
  <1> DEFINE n == Depth
             new == frames'[n + 1]
  <1>1. /\ TypeOK /\ EnvironmentMatchesStack /\ StackInOrder
        /\ frames \in Seq(Frame) /\ n = Len(frames)
    BY DEF IInv, TypeOK, Depth
  <1>2. /\ n \in Nat /\ Depth' = n + 1
        /\ \A k \in 1..n : SameExtent(frames'[k], frames[k])
        /\ NewFrame(new)
    BY <1>1, GrowthExtents DEF Grows
  <1>3. frames = <<>> <=> n = 0
    BY <1>1, EmptySeq
  <1>4. \A k \in 1..n : SameRole(frames'[k], frames[k])
    <2>1. ASSUME NEW k \in 1..n
          PROVE  SameRole(frames'[k], frames[k])
      <3>1. CASE k = n
        BY <1>3, <3>1 DEF Grows, Top
      <3>2. CASE k # n
        <4>1. k \in 1..(n - 1) /\ frames[k] \in Frame
          BY <1>1, <1>2, <3>2
        <4>2. QED
          BY <4>1, SameCallFacts DEF Grows
      <3>3. QED
        BY <3>1, <3>2
    <2>2. QED
      BY <2>1
  <1>5. frames'[1].kind # "handler"
    <2>1. CASE n = 0
      BY <1>3, <2>1 DEF Grows
    <2>2. CASE n # 0
      <3>1. 1 \in 1..n
        BY <1>2, <2>2
      <3>2. QED
        BY <1>1, <1>3, <1>4, <2>2, <3>1 DEF StackInOrder, SameRole
    <2>3. QED
      BY <2>1, <2>2
  <1>6. ASSUME NEW k \in 1..(n + 1), k + 1 <= n + 1
        PROVE  StandsOn(frames'[k + 1], frames'[k])
    <2>1. CASE k = n
      BY <1>2, <1>3, <1>6, <2>1 DEF Grows
    <2>2. CASE k # n
      <3>1. k \in 1..n /\ k + 1 \in 1..n /\ k \in 1..(n - 1) /\ k + 1 <= n /\ frames[k] \in Frame
        BY <1>1, <1>2, <1>6, <2>2
      <3>2. StandsOn(frames[k + 1], frames[k])
        BY <1>1, <3>1 DEF StackInOrder
      <3>3. SameCall(frames'[k], frames[k]) /\ SameRole(frames'[k + 1], frames[k + 1])
        BY <1>4, <3>1 DEF Grows
      <3>4. QED
        BY <3>1, <3>2, <3>3, StandsStill
    <2>3. QED
      BY <2>1, <2>2
  <1>7. \A k \in 1..n : CerrorBinds(frames'[k])
    <2>1. ASSUME NEW k \in 1..n
          PROVE  CerrorBinds(frames'[k])
      <3>1. CerrorBinds(frames[k])
        BY <1>1 DEF StackInOrder
      <3>2. SameRole(frames'[k], frames[k]) /\ SameExtent(frames'[k], frames[k])
        BY <1>2, <1>4
      <3>3. QED
        BY <3>1, <3>2, SameBindings DEF SameRole, CerrorBinds, BindsRestarts
    <2>2. QED
      BY <2>1
  <1>8. CerrorBinds(new) /\ CerrorWaits(new)
    BY <1>2 DEF NewFrame
  <1>9. \A k \in 1..(n + 1) : CerrorBinds(frames'[k])
    BY <1>2, <1>7, <1>8
  <1>10. Top' = new
    BY <1>2 DEF Top
  <1>11. QED
    BY <1>2, <1>5, <1>6, <1>8, <1>9, <1>10 DEF StackInOrder

LEMMA ShrinkKeepsOrder ==
  ASSUME IInv, StepShape, Shrinks
  PROVE  StackInOrder'
  <1> DEFINE n == Depth
  <1>1. /\ TypeOK /\ EnvironmentMatchesStack /\ StackInOrder
        /\ frames \in Seq(Frame) /\ n = Len(frames)
    BY DEF IInv, TypeOK, Depth
  <1>2. /\ n \in Nat /\ n >= 1 /\ Depth' = n - 1
        /\ \A k \in 1..(n - 1) : /\ SameExtent(frames'[k], frames[k])
                                 /\ SameRole(frames'[k], frames[k])
        /\ \A k \in 1..(n - 1) : SameCall(frames'[k], frames[k])
        /\ frames # <<>>
    BY <1>1, ShrinkExtents DEF Shrinks
  <1>3. frames' # <<>> => n - 1 \in 1..(n - 1) /\ 1 \in 1..(n - 1)
    <2>1. PopStep \/ PushStep \/ Restyles
      BY DEF StepShape
    <2>2. frames' \in Seq(Frame)
      BY <1>1, <2>1, PopType, PushType DEF PushStep, Restyles, Restyled
    <2>3. frames' # <<>> => Len(frames') >= 1
      BY <2>2, EmptySeq
    <2>4. QED
      BY <1>2, <2>3 DEF Depth
  <1>4. frames' # <<>> => frames'[1].kind # "handler"
    BY <1>1, <1>2, <1>3 DEF StackInOrder, SameRole
  <1>5. ASSUME NEW k \in 1..(n - 1), k + 1 <= n - 1
        PROVE  StandsOn(frames'[k + 1], frames'[k])
    <2>1. k + 1 \in 1..(n - 1) /\ frames[k] \in Frame /\ k \in 1..n /\ k + 1 <= n
      BY <1>1, <1>2, <1>5
    <2>2. StandsOn(frames[k + 1], frames[k])
      BY <1>1, <2>1 DEF StackInOrder
    <2>3. QED
      BY <1>2, <2>1, <2>2, StandsStill
  <1>6. \A k \in 1..(n - 1) : CerrorBinds(frames'[k])
    <2>1. ASSUME NEW k \in 1..(n - 1)
          PROVE  CerrorBinds(frames'[k])
      <3>1. CerrorBinds(frames[k])
        BY <1>1, <1>2 DEF StackInOrder
      <3>2. QED
        BY <1>2, <3>1, SameBindings DEF SameRole, CerrorBinds, BindsRestarts
    <2>2. QED
      BY <2>1
  <1>7. ASSUME exc'.kind = "none", frames' # <<>>
        PROVE  CerrorWaits(Top')
    <2>1. n - 1 \in 1..n /\ n - 1 + 1 = n /\ n - 1 \in 1..(n - 1)
      BY <1>2, <1>3, <1>7
    <2>2. StandsOn(Top, frames[n - 1])
      <3>1. StandsOn(frames[n - 1 + 1], frames[n - 1])
        BY <1>1, <2>1 DEF StackInOrder
      <3>2. QED
        BY <2>1, <3>1 DEF Top
    <2>3. ~(Top.kind = "signal" /\ Top.protocol = "cerror")
      BY <1>7 DEF Shrinks
    <2>4. ~(frames[n - 1].kind = "protocol" /\ frames[n - 1].protocol = "cerror")
      BY <2>2, <2>3 DEF StandsOn
    <2>5. Top' = frames'[n - 1]
      BY <1>2 DEF Top
    <2>6. SameRole(frames'[n - 1], frames[n - 1])
      BY <1>2, <2>1
    <2>7. QED
      BY <2>4, <2>5, <2>6 DEF SameRole, CerrorWaits
  <1>8. QED
    BY <1>2, <1>4, <1>5, <1>6, <1>7 DEF StackInOrder

LEMMA StillKeepsOrder ==
  ASSUME IInv, Stays \/ Reruns
  PROVE  StackInOrder'
  <1> DEFINE n == Depth
  <1>1. TypeOK /\ StackInOrder /\ n \in Nat
    BY DEF IInv, TypeOK, Depth
  <1>2. CASE Stays
    <2>1. UNCHANGED frames /\ Top' = Top /\ Depth' = Depth
      BY <1>2 DEF Stays, Top, Depth
    <2>2. RunsUserCode(Top) => CerrorWaits(Top)
      BY DEF RunsUserCode, CerrorWaits
    <2>3. QED
      BY <1>1, <1>2, <2>1, <2>2 DEF Stays, StackInOrder
  <1>3. CASE Reruns
    <2>1. /\ Depth' = n /\ n \in 1..n
          /\ \A k \in 1..(n - 1) : frames'[k] = frames[k]
          /\ frames'[n].kind = "restarts" /\ Top.kind = "restarts" /\ frames # <<>>
      BY <1>1, <1>3, RerunFacts DEF Reruns
    <2>2. frames'[1].kind # "handler"
      <3>1. CASE n = 1
        BY <2>1, <3>1
      <3>2. CASE n # 1
        BY <1>1, <2>1, <3>2 DEF StackInOrder
      <3>3. QED
        BY <3>1, <3>2
    <2>3. ASSUME NEW k \in 1..n, k + 1 <= n
          PROVE  StandsOn(frames'[k + 1], frames'[k])
      <3>1. StandsOn(frames[k + 1], frames[k]) /\ k \in 1..(n - 1)
        BY <1>1, <2>3 DEF StackInOrder
      <3>2. CASE k + 1 \in 1..(n - 1)
        BY <2>1, <3>1, <3>2
      <3>3. CASE k + 1 = n
        <4>1. frames'[k] = frames[k] /\ frames'[k + 1].kind = "restarts"
              /\ frames[k + 1].kind = "restarts"
          BY <2>1, <3>1, <3>3 DEF Top
        <4>2. QED
          BY <3>1, <4>1 DEF StandsOn
      <3>4. QED
        BY <1>1, <2>3, <3>2, <3>3
    <2>4. \A k \in 1..n : CerrorBinds(frames'[k])
      <3>1. CerrorBinds(frames'[n]) /\ \A k \in 1..(n - 1) : CerrorBinds(frames'[k])
        BY <1>1, <2>1 DEF StackInOrder, CerrorBinds
      <3>2. QED
        BY <2>1, <3>1
    <2>5. Top' = frames'[n] /\ CerrorWaits(frames'[n])
      BY <2>1 DEF Top, CerrorWaits
    <2>6. QED
      BY <2>1, <2>2, <2>3, <2>4, <2>5 DEF StackInOrder
  <1>4. QED
    BY <1>2, <1>3

\* The handlers run so far, and the protocols of the instances
LEMMA KeepsConsulted ==
  ASSUME IInv, [Next]_vars, StepShape
  PROVE  AllConsulted'
  <1>1. /\ TypeOK /\ EnvironmentMatchesStack
        /\ Depth \in Nat
        /\ \A k \in 1..Depth : Consulted(frames[k])
    BY DEF IInv, AllConsulted, TypeOK, Depth
  <1>2. ASSUME NEW k \in 1..Depth'
        PROVE  Consulted(frames'[k])
    <2>1. CASE Stays
      BY <1>1, <1>2, <2>1 DEF Stays, Depth
    <2>2. CASE Reruns
      <3>1. k \in 1..(Depth - 1) \/ k = Depth
        BY <1>1, <1>2, <2>2, RerunFacts
      <3>2. QED
        BY <1>1, <2>2, <3>1, RerunFacts DEF Consulted
    <2>3. CASE Shrinks
      <3>1. k \in 1..(Depth - 1) /\ k \in 1..Depth
        BY <1>1, <1>2, <2>3 DEF Shrinks
      <3>2. QED
        BY <1>1, <2>3, <3>1, ShrinkExtents
    <2>4. CASE Grows
      <3>1. Depth' = Depth + 1
        BY <2>4 DEF Grows
      <3>2. CASE k \in 1..(Depth - 1)
        <4>1. k \in 1..Depth /\ frames[k] \in Frame
          BY <1>1, <3>2 DEF TypeOK, Depth
        <4>2. QED
          BY <1>1, <2>4, <3>2, <4>1, SameCallFacts DEF Grows
      <3>3. CASE k = Depth
        <4>1. frames # <<>> /\ Consulted(Top)
          BY <1>1, <1>2, <3>3, EmptySeq DEF TypeOK, Depth, Top
        <4>2. QED
          BY <2>4, <3>3, <4>1 DEF Grows
      <3>4. CASE k = Depth + 1
        BY <2>4, <3>4 DEF Grows, NewFrame
      <3>5. QED
        BY <1>1, <1>2, <3>1, <3>2, <3>3, <3>4
    <2>5. QED
      BY <2>1, <2>2, <2>3, <2>4, StackSteps
  <1>3. QED
    BY <1>2 DEF AllConsulted

\* What a _resignal_handler has called: its protocol stays, and what is below
\* the handler changes only together with `again`.
LEMMA KeepsResignaled ==
  ASSUME IInv, [Next]_vars, StepShape
  PROVE  AllResignaled'
  <1> DEFINE n == Depth
  <1>1. /\ TypeOK /\ EnvironmentMatchesStack /\ StackInOrder /\ AllConsulted /\ AllResignaled
        /\ n \in Nat /\ frames \in Seq(Frame) /\ n = Len(frames)
        /\ \A k \in 1..n : frames[k] \in Frame
    BY DEF IInv, TypeOK, Depth
  <1>2. ASSUME NEW k \in 1..n, k > 1, frames[k].kind = "handler", ~frames[k].user
        PROVE  /\ frames[k - 1].kind = "signal" /\ Consulted(frames[k - 1])
               /\ k + 1 <= n => /\ frames[k + 1].kind \in {"signal", "protocol"}
                                /\ Resignaled(frames[k + 1], frames[k - 1])
    <2>1. k - 1 \in 1..n /\ k - 1 + 1 = k /\ k - 1 + 1 <= n
      BY <1>1, <1>2
    <2>2. StandsOn(frames[k], frames[k - 1])
      <3>1. StandsOn(frames[k - 1 + 1], frames[k - 1])
        BY <1>1, <2>1 DEF StackInOrder
      <3>2. QED
        BY <2>1, <3>1
    <2>3. k + 1 <= n => StandsOn(frames[k + 1], frames[k])
      BY <1>1 DEF StackInOrder
    <2>4. QED
      BY <1>1, <1>2, <2>1, <2>2, <2>3 DEF StandsOn, AllConsulted, AllResignaled
  <1>3. ASSUME NEW k \in 1..n, k > 1, k + 1 <= n, frames[k].kind = "handler", ~frames[k].user,
               SameCall(frames'[k - 1], frames[k - 1]),
               SameRole(frames'[k + 1], frames[k + 1])
        PROVE  Resignaled(frames'[k + 1], frames'[k - 1])
    <2>1. /\ frames[k - 1].kind = "signal" /\ frames[k + 1].kind \in {"signal", "protocol"}
          /\ Resignaled(frames[k + 1], frames[k - 1])
      BY <1>2, <1>3
    <2>2. frames[k - 1] \in Frame
      BY <1>1, <1>3
    <2>3. /\ frames'[k - 1].protocol = frames[k - 1].protocol
          /\ frames[k - 1].again => frames'[k - 1].again
          /\ frames'[k + 1].protocol = frames[k + 1].protocol
      BY <1>3, <2>1, <2>2, SameCallFacts DEF SameRole
    <2>4. QED
      BY <2>1, <2>3 DEF Resignaled
  <1>4. CASE Stays
    BY <1>1, <1>4 DEF Stays, AllResignaled, Depth
  <1>5. CASE Reruns
    <2>1. /\ Depth' = n /\ n \in 1..n
          /\ \A k \in 1..(n - 1) : frames'[k] = frames[k]
          /\ frames'[n].kind = "restarts" /\ Top.kind = "restarts"
      BY <1>1, <1>5, RerunFacts DEF Reruns
    <2>2. ASSUME NEW k \in 1..n, k > 1, k + 1 <= n,
                 frames'[k].kind = "handler", ~frames'[k].user
          PROVE  Resignaled(frames'[k + 1], frames'[k - 1])
      <3>1. k \in 1..(n - 1) /\ frames'[k] = frames[k]
        BY <1>1, <2>1, <2>2
      <3>2. k + 1 # n
        BY <1>2, <2>1, <2>2, <3>1 DEF Top
      <3>3. frames'[k + 1] = frames[k + 1] /\ frames'[k - 1] = frames[k - 1]
        BY <1>1, <2>1, <2>2, <3>2
      <3>4. QED
        BY <1>2, <2>2, <3>1, <3>3
    <2>3. QED
      BY <2>1, <2>2 DEF AllResignaled
  <1>6. CASE Shrinks
    <2>1. /\ Depth' = n - 1
          /\ \A k \in 1..(n - 1) : /\ SameCall(frames'[k], frames[k])
                                   /\ SameRole(frames'[k], frames[k])
                                   /\ frames[k].kind # "signal" => frames'[k] = frames[k]
      BY <1>1, <1>6, ShrinkExtents DEF Shrinks
    <2>2. ASSUME NEW k \in 1..(n - 1), k > 1, k + 1 <= n - 1,
                 frames'[k].kind = "handler", ~frames'[k].user
          PROVE  Resignaled(frames'[k + 1], frames'[k - 1])
      <3>1. k \in 1..n /\ k + 1 \in 1..(n - 1) /\ k - 1 \in 1..(n - 1) /\ k + 1 <= n
        BY <1>1, <2>2
      <3>2. frames[k].kind = "handler"
        BY <2>1, <2>2 DEF SameRole
      <3>3. frames'[k] = frames[k]
        BY <2>1, <3>2
      <3>4. QED
        BY <1>3, <2>1, <2>2, <3>1, <3>3
    <2>3. QED
      BY <2>1, <2>2 DEF AllResignaled
  <1>7. CASE Grows
    <2>1. /\ Depth' = n + 1
          /\ \A k \in 1..(n - 1) : SameCall(frames'[k], frames[k])
          /\ frames # <<>> =>
               /\ SameRole(frames'[n], Top)
               /\ StandsOn(frames'[n + 1], frames'[n])
               /\ (Top.kind = "handler" /\ ~Top.user) =>
                    frames'[n + 1].protocol = frames[n - 1].attribute
      BY <1>7 DEF Grows
    <2>2. ASSUME NEW k \in 1..(n + 1), k > 1, k + 1 <= n + 1,
                 frames'[k].kind = "handler", ~frames'[k].user
          PROVE  Resignaled(frames'[k + 1], frames'[k - 1])
      <3>1. k \in 1..n /\ k - 1 \in 1..(n - 1) /\ frames # <<>>
        BY <1>1, <2>2, EmptySeq
      <3>2. CASE k # n
        <4>1. k \in 1..(n - 1) /\ k + 1 <= n
          BY <1>1, <2>2, <3>1, <3>2
        <4>2. frames'[k] = frames[k]
          <5>1. SameCall(frames'[k], frames[k]) /\ frames[k] \in Frame
            BY <1>1, <2>1, <3>1, <4>1
          <5>2. frames'[k].kind = frames[k].kind
            BY <5>1, SameCallFacts
          <5>3. QED
            BY <2>2, <5>1, <5>2, SameCallFacts
        <4>3. SameRole(frames'[k + 1], frames[k + 1])
          <5>1. CASE k + 1 = n
            BY <2>1, <3>1, <5>1 DEF Top
          <5>2. CASE k + 1 # n
            <6>1. k + 1 \in 1..(n - 1) /\ frames[k + 1] \in Frame
              BY <1>1, <4>1, <5>2
            <6>2. QED
              BY <2>1, <6>1, SameCallFacts
          <5>3. QED
            BY <5>1, <5>2
        <4>4. QED
          BY <1>3, <2>1, <2>2, <3>1, <4>1, <4>2, <4>3
      <3>3. CASE k = n
        <4>1. Top.kind = "handler" /\ Top = frames[k] /\ frames'[k].kind = Top.kind
          BY <2>1, <2>2, <3>1, <3>3 DEF SameRole, Top
        <4>2. ~Top.user
          BY <2>1, <2>2, <3>1, <3>3, <4>1 DEF SameRole
        <4>3. frames'[n + 1].protocol = frames[n - 1].attribute
          BY <2>1, <3>1, <4>1, <4>2
        <4>4. frames[n - 1].kind = "signal" /\ Consulted(frames[n - 1])
          BY <1>2, <2>2, <3>1, <3>3, <4>1, <4>2
        <4>5. SameCall(frames'[n - 1], frames[n - 1]) /\ frames[n - 1] \in Frame
          BY <1>1, <2>1, <3>1, <3>3
        <4>6. /\ frames'[n - 1].protocol = frames[n - 1].protocol
              /\ frames[n - 1].again => frames'[n - 1].again
          BY <4>4, <4>5, SameCallFacts DEF SameRole
        <4>7. QED
          BY <3>3, <4>3, <4>4, <4>6 DEF Resignaled, Consulted
      <3>4. QED
        BY <3>2, <3>3
    <2>3. QED
      BY <2>1, <2>2 DEF AllResignaled
  <1>8. QED
    BY <1>4, <1>5, <1>6, <1>7, StackSteps

\* Unwinding stops at the latest at the block whose restart it is.
LEMMA KeepsFreshInvocation ==
  ASSUME IInv, [Next]_vars, StepShape
  PROVE  FreshInvocationArrives'
  <1>1. /\ TypeOK /\ EnvironmentMatchesStack /\ StackInOrder /\ FreshInvocationArrives
        /\ Depth \in Nat
    BY DEF IInv, TypeOK, Depth
  <1> SUFFICES ASSUME exc'.kind = "invoke", exc'.how = "fresh"
               PROVE  FreshInvocationArrives'
    BY DEF FreshInvocationArrives
  <1>2. CASE exc' = exc
    <2>1. PICK k \in 1..Depth :
            /\ Catches(frames[k])
            /\ \A l \in 1..Depth : l > k /\ BindsRestarts(frames[l]) =>
                                     exc.name \notin frames[l].names
      BY <1>1, <1>2 DEF FreshInvocationArrives
    <2>2. CASE Stays
      BY <1>2, <2>1, <2>2 DEF Stays, FreshInvocationArrives, Depth, Catches, IsOurs
    <2>3. CASE Shrinks
      <3>1. ~Catches(Top)
        BY <2>3 DEF Shrinks
      <3>2. k # Depth
        BY <2>1, <3>1 DEF Top
      <3>3. /\ Depth' = Depth - 1 /\ k \in 1..(Depth - 1)
            /\ \A l \in 1..(Depth - 1) : SameExtent(frames'[l], frames[l])
            /\ frames[k].kind # "signal" => frames'[k] = frames[k]
        BY <1>1, <2>3, <3>2, ShrinkExtents
      <3>4. Catches(frames[k])' /\ frames'[k] = frames[k]
        BY <1>2, <2>1, <3>3 DEF Catches, IsOurs, BindsRestarts
      <3>5. \A l \in 1..(Depth - 1) : l > k /\ BindsRestarts(frames'[l]) =>
                                        exc'.name \notin frames'[l].names
        BY <1>1, <1>2, <2>1, <3>3, SameBindings
      <3>6. QED
        BY <3>3, <3>4, <3>5 DEF FreshInvocationArrives
    <2>4. ~Grows /\ ~Reruns
      BY <1>2 DEF Grows, Reruns, NoExc
    <2>5. QED
      BY <2>2, <2>3, <2>4, StackSteps
  <1>3. CASE exc' # exc
    <2>1. exc' # NoExc /\ exc' # Exception
      BY DEF NoExc, Exception
    <2>2. PICK n \in Names, i \in 1..Len(restarts) :
            /\ UserCode
            /\ FindRestart(n, i) /\ exc' = Invoked(RestartAt(n, i), "fresh")
            /\ ~RunsRestart(restarts[i].ctx)
            /\ UNCHANGED <<frames, restarts>>
      <3>1. CASE \E n \in Names : Invoke(n)
        <4>1. PICK n \in Names : Invoke(n)
          BY <3>1
        <4>2. PICK i \in 1..Len(restarts) :
                /\ FindRestart(n, i)
                /\ exc' = Invoked(RestartAt(n, i), IF RunsRestart(restarts[i].ctx)
                                                  THEN "rerun" ELSE "fresh")
                /\ UNCHANGED <<frames, restarts>>
          BY <1>3, <4>1 DEF Invoke
        <4>3. ~RunsRestart(restarts[i].ctx)
          BY <4>2 DEF Invoked
        <4>4. QED
          BY <4>1, <4>2, <4>3 DEF Invoke
      <3>2. ~InvokeKept
        BY DEF InvokeKept, Invoked
      <3>3. ~(ProtocolReturn \/ IteratorFails \/ Unhandled \/ Resignal)
        BY <1>3, <2>1 DEF ProtocolReturn, IteratorFails, Unhandled, Resignal
      <3>4. ~(RunRestart \/ Raise \/ Catch \/ Propagate \/ Leave \/ UNCHANGED vars)
        BY <1>3, <2>1 DEF RunRestart, Raise, Catch, Propagate, Leave, vars
      <3>5. /\ ~(ProtocolCall \/ RunHandler)
            /\ \A c \in Types, p \in Protocols : ~Signal(c, p)
            /\ \A n \in Names : ~KeepRestart(n)
            /\ \A ns \in RestartSets : ~EnterRestarts(ns)
            /\ \A cs \in ClauseLists : ~EnterHandlers(cs)
        BY <1>3 DEF ProtocolCall, RunHandler, Signal, KeepRestart, EnterRestarts, EnterHandlers
      <3>6. QED
        BY <3>1, <3>2, <3>3, <3>4, <3>5 DEF Next
    <2>3. PICK k \in 1..Depth :
            /\ BindsRestarts(frames[k]) /\ frames[k].ctx = restarts[i].ctx
            /\ \A l \in 1..Depth : l > k /\ BindsRestarts(frames[l]) => n \notin frames[l].names
      BY <2>2, FoundRestart
    <2>4. /\ exc'.kind = "invoke" /\ exc'.name = n /\ exc'.ctx = restarts[i].ctx
          /\ frames' = frames /\ Depth' = Depth
      BY <2>2 DEF Invoked, RestartAt, Depth
    <2>5. frames[k].phase = "block"
      <3>1. frames[k] \in Frame
        BY <1>1 DEF TypeOK, Depth
      <3>2. CASE frames[k].kind = "restarts"
        <4>1. frames[k].phase # "restart"
          BY <2>2, <2>3, <3>2 DEF RunsRestart
        <4>2. frames[k] \in RestartsFrame
          BY <3>1, <3>2, FrameKinds
        <4>3. QED
          BY <4>1, <4>2 DEF RestartsFrame
      <3>3. CASE frames[k].kind = "protocol"
        <4>1. k # Depth
          <5>1. frames # <<>>
            BY <1>1, EmptySeq DEF Depth
          <5>2. Top.kind # "protocol"
            BY <2>2, <5>1 DEF UserCode, RunsUserCode
          <5>3. QED
            BY <3>3, <5>2 DEF Top
        <4>2. k + 1 <= Depth
          BY <1>1, <4>1
        <4>3. StandsOn(frames[k + 1], frames[k])
          BY <1>1, <4>2 DEF StackInOrder
        <4>4. QED
          BY <3>3, <4>3 DEF StandsOn
      <3>4. QED
        BY <2>3, <3>2, <3>3 DEF BindsRestarts
    <2>6. Catches(frames[k])'
      BY <2>3, <2>4, <2>5 DEF Catches, IsOurs, BindsRestarts
    <2>7. QED
      BY <2>3, <2>4, <2>6 DEF FreshInvocationArrives
  <1>4. QED
    BY <1>2, <1>3

\* The invariant is inductive.
LEMMA InvariantInit == Init => IInv
  <1>1. ASSUME Init
        PROVE  /\ frames = <<>> /\ restarts = <<>> /\ handlers = <<>>
               /\ exc = NoExc /\ held = NotHeld
               /\ Depth = 0 /\ Len(restarts) = 0
    BY <1>1, EmptySeq DEF Init, Depth
  <1>2. Init => TypeOK /\ EnvironmentMatchesStack
    BY EmptySeq DEF Init, TypeOK, EnvironmentMatchesStack, EnvNow, EnvAt, Depth, Exc
  <1>3. Init => DictionariesDistinct /\ BindingsOnStack
    BY <1>1 DEF DictionariesDistinct, BindingsOnStack
  <1>4. Init => ReferencesBound /\ FreshInvocationArrives
    BY <1>1 DEF ReferencesBound, Refers, FreshInvocationArrives, NoExc, NotHeld
  <1>5. Init => StackInOrder /\ AllConsulted /\ AllResignaled
    BY <1>1 DEF StackInOrder, AllConsulted, AllResignaled
  <1>6. QED
    BY <1>2, <1>3, <1>4, <1>5 DEF IInv

LEMMA InvariantNext == IInv /\ [Next]_vars => IInv'
  <1> SUFFICES ASSUME IInv, [Next]_vars
               PROVE  IInv'
    OBVIOUS
  <1>1. TypeOK' /\ StepShape /\ EnvironmentMatchesStack'
    BY NextShape, ShapeKeepsEnvironment DEF IInv
  <1>2. DictionariesDistinct' /\ BindingsOnStack'
    BY <1>1, StackSteps, GrowthKeepsDictionaries, ShrinkKeepsDictionaries,
       StillKeepsDictionaries
  <1>3. StackInOrder'
    BY <1>1, StackSteps, GrowthKeepsOrder, ShrinkKeepsOrder, StillKeepsOrder
  <1>4. ReferencesBound' /\ AllConsulted' /\ AllResignaled' /\ FreshInvocationArrives'
    BY <1>1, KeepsReferences, KeepsConsulted, KeepsResignaled, KeepsFreshInvocation
  <1>5. QED
    BY <1>1, <1>2, <1>3, <1>4 DEF IInv

LEMMA InvariantHolds == Spec => []IInv
  BY InvariantInit, InvariantNext, PTL DEF Spec

------------------------------------------------------------------------------
(***************************************************************************)
(* What follows                                                            *)
(***************************************************************************)
\* A restart invoked by its name is that of the innermost block that binds
\* it, and unwinding never passes that block.
THEOREM FreshInvocations == Spec => []FreshInvocationArrives
  <1>1. IInv => FreshInvocationArrives
    BY DEF IInv
  <1>2. QED
    BY <1>1, InvariantHolds, PTL

\* A condition that resignal converts is signaled with the protocol of the
\* original signal, unless the original instance was signaled once more in
\* between.
THEOREM ResignalFaithful == Spec => []ResignalKeepsProtocol
  <1>1. IInv => ResignalKeepsProtocol
    <2>1. ASSUME IInv, NEW k \in 1..(Depth - 1), frames[k].kind = "handler", ~frames[k].user
          PROVE  /\ frames[k - 1].kind = "signal"
                 /\ frames[k + 1].kind \in {"signal", "protocol"}
                 /\ frames[k - 1].again \/ frames[k + 1].protocol = frames[k - 1].protocol
      <3>1. Depth \in Nat /\ frames # <<>> /\ StackInOrder
        BY <2>1, EmptySeq DEF IInv, TypeOK, Depth
      <3>2. k + 1 \in 1..Depth /\ k \in 1..Depth /\ k # 1
        BY <2>1, <3>1 DEF StackInOrder
      <3>3. k - 1 \in 1..Depth /\ k - 1 + 1 = k /\ k - 1 + 1 <= Depth
        BY <3>1, <3>2
      <3>4. StandsOn(frames[k], frames[k - 1])
        <4>1. StandsOn(frames[k - 1 + 1], frames[k - 1])
          BY <3>1, <3>3 DEF StackInOrder
        <4>2. QED
          BY <3>3, <4>1
      <3>5. StandsOn(frames[k + 1], frames[k])
        BY <3>1, <3>2 DEF StackInOrder
      <3>6. Resignaled(frames[k + 1], frames[k - 1])
        BY <2>1, <3>1, <3>2 DEF IInv, AllResignaled
      <3>7. QED
        BY <2>1, <3>4, <3>5, <3>6 DEF StandsOn, Resignaled
    <2>2. QED
      BY <2>1 DEF ResignalKeepsProtocol
  <1>2. QED
    BY <1>1, InvariantHolds, PTL

\* An InvokeRestart ends only at the block whose dictionary it names, and
\* that block binds its name.
THEOREM OwnersCatch == Spec => OnlyOwnerCatches
  <1> DEFINE A == (exc.kind = "invoke" /\ exc'.kind = "none") =>
                    /\ BindsRestarts(Top) /\ Top.ctx = exc.ctx /\ exc.name \in Top.names
                    /\ \/ Depth' = Depth /\ Top'.kind = "restarts" /\ Top'.phase = "restart"
                       \/ Depth' = Depth - 1
  <1>1. ASSUME IInv, [Next]_vars, exc.kind = "invoke", exc'.kind = "none"
        PROVE  A
    <2>1. TypeOK /\ Refers(exc)
      BY <1>1 DEF IInv, ReferencesBound
    <2>2. RunRestart
      <3>1. exc' # exc /\ exc # Exception /\ exc.kind # "none"
        BY <1>1 DEF Exception
      <3>2. ~(Catch \/ Propagate \/ UNCHANGED vars)
        BY <3>1 DEF Catch, Propagate, vars
      <3>3. ~UserCode /\ \A kind : ~LibraryCode(kind)
        BY <3>1 DEF UserCode, LibraryCode
      <3>4. QED
        BY <1>1, <3>2, <3>3 DEF Next, EnterRestarts, EnterHandlers, Leave, Signal, ProtocolCall,
          ProtocolReturn, RunHandler, IteratorFails, Unhandled, Resignal, Invoke, KeepRestart,
          InvokeKept, Raise
    <2>3. frames # <<>> /\ BindsRestarts(Top) /\ Top.ctx = exc.ctx
      BY <2>2 DEF RunRestart, Catches, IsOurs
    <2>4. exc.name \in Top.names
      BY <1>1, <2>1, <2>3, TopType DEF Refers, Top, Depth
    <2>5. CASE Top.kind = "restarts"
      <3>1. Reruns
        BY <2>2, <2>3, <2>5 DEF RunRestart, Reruns, Top
      <3>2. Depth' = Depth /\ Depth \in 1..Len(frames)
        BY <2>1, <2>3, <3>1, RerunFacts, TopType
      <3>3. Top' = frames'[Depth]
        BY <3>2 DEF Top
      <3>4. QED
        BY <2>1, <2>3, <2>4, <3>1, <3>2, <3>3, RerunFacts
    <2>6. CASE Top.kind # "restarts"
      BY <2>1, <2>2, <2>3, <2>4, <2>6, AllShrink DEF Shrinks
    <2>7. QED
      BY <2>5, <2>6
  <1>2. IInv /\ [Next]_vars => [A]_vars
    BY <1>1
  <1>3. QED
    BY <1>2, InvariantHolds, PTL DEF Spec, OnlyOwnerCatches

\* While signal runs, the handlers that have run are the innermost matching
\* ones; when it returns, they are all that match.
THEOREM HandlersConsulted == Spec => HandlersAreConsulted
  <1> DEFINE A == (exc.kind = "none" /\ Depth' < Depth /\ Top.kind = "signal" /\ Top.live) =>
                    Top.ran = Matching(Top.env[2], Top.cond)
  <1>1. IInv => HandlersInOrder
    BY DEF IInv, AllConsulted, Consulted, HandlersInOrder
  <1>2. ASSUME IInv, [Next]_vars, exc.kind = "none", Depth' < Depth, Top.kind = "signal", Top.live
        PROVE  Top.ran = Matching(Top.env[2], Top.cond)
    <2>1. TypeOK /\ Depth \in Nat /\ EnvironmentMatchesStack
      BY <1>2 DEF IInv, TypeOK, Depth
    <2>2. Shrinks
      BY <1>2, <2>1, StackSteps, RerunFacts DEF Grows, Stays, Depth
    <2>3. frames # <<>> /\ ~Grows
      BY <2>1, <2>2 DEF Shrinks, Grows
    <2>4. Unhandled
      <3>1. ~UserCode /\ \A kind : LibraryCode(kind) => kind = "signal"
        BY <1>2, <2>3 DEF UserCode, RunsUserCode, LibraryCode
      <3>2. ~(IteratorFails \/ RunRestart \/ Propagate)
        BY <1>2 DEF IteratorFails, RunRestart, Propagate
      <3>3. ~(RunHandler \/ Catch \/ UNCHANGED vars)
        BY <1>2, <2>1, <2>3, LibraryGrows DEF Catch, Exception, vars, Depth
      <3>4. QED
        BY <1>2, <3>1, <3>2, <3>3 DEF Next, EnterRestarts, EnterHandlers, Leave, Signal,
          ProtocolCall, ProtocolReturn, Resignal, Invoke, KeepRestart, InvokeKept, Raise
    <2>5. Top \in SignalFrame /\ Depth \in 1..Depth
      BY <1>2, <2>1, <2>3, TopType, FrameKinds DEF Depth
    <2>6. handlers = Top.env[2] /\ Top.env[2] \in Seq(Seq(Clause)) /\ Top.at \in Place
      <3>1. EnvNow = EnvInside(Top)
        BY <2>1, <2>5 DEF EnvironmentMatchesStack, EnvAt, Top
      <3>2. QED
        BY <1>2, <2>1, <2>5, <3>1 DEF EnvInside, EnvNow, SignalFrame, Env, TypeOK
    <2>7. Top.ran = {p \in Matching(handlers, Top.cond) : p = Top.at \/ Before(p, Top.at)}
      BY <1>1, <1>2, <2>5, <2>6 DEF HandlersInOrder, Top
    <2>8. \A p \in Matching(handlers, Top.cond) : ~Before(Top.at, p)
      BY <2>4 DEF Unhandled, Remaining
    <2>9. \A p \in Matching(handlers, Top.cond) : p = Top.at \/ Before(p, Top.at)
      <3>1. ASSUME NEW p \in Matching(handlers, Top.cond)
            PROVE  p = Top.at \/ Before(p, Top.at)
        <4>1. p \in Place /\ ~Before(Top.at, p)
          BY <2>6, <2>8, MatchingFacts
        <4>2. /\ p = <<p[1], p[2]>> /\ p[1] \in Nat /\ p[2] \in Nat
              /\ Top.at = <<Top.at[1], Top.at[2]>> /\ Top.at[1] \in Nat /\ Top.at[2] \in Nat
          BY <2>6, <4>1 DEF Place
        <4>3. CASE p[1] = Top.at[1] /\ p[2] = Top.at[2]
          BY <4>2, <4>3
        <4>4. CASE ~(p[1] = Top.at[1] /\ p[2] = Top.at[2])
          BY <4>1, <4>2, <4>4 DEF Before
        <4>5. QED
          BY <4>3, <4>4
      <3>2. QED
        BY <3>1
    <2>10. QED
      BY <2>6, <2>7, <2>9
  <1>3. IInv /\ [Next]_vars => [A]_vars
    BY <1>2
  <1>4. QED
    BY <1>1, <1>3, InvariantHolds, PTL DEF Spec, HandlersAreConsulted, SignalConsultsAll

\* A call of error or cerror hands control back only through a restart, and
\* cerror returns only when its own `proceed` was invoked.
THEOREM ErrorsStay == Spec => ErrorsAreNotLost
  <1> DEFINE A == /\ (/\ exc.kind = "none" /\ Depth' < Depth
                      /\ Top.kind = "signal" /\ Top.protocol \in {"error", "cerror"})
                     => exc' # NoExc
                  /\ (/\ Depth' < Depth /\ Top.kind = "protocol" /\ Top.protocol = "cerror"
                      /\ exc' = NoExc)
                     => (exc.kind = "invoke" /\ exc.ctx = Top.ctx)
  <1>1. ASSUME IInv, [Next]_vars, Depth' < Depth
        PROVE  A
    <2>1. TypeOK /\ Depth \in Nat /\ StackInOrder
      BY <1>1 DEF IInv, TypeOK, Depth
    <2>2. Shrinks
      BY <1>1, <2>1, StackSteps, RerunFacts DEF Grows, Stays, Depth
    <2>3. frames # <<>> /\ ~Grows
      BY <2>1, <2>2 DEF Shrinks, Grows
    <2>4. ~(RunHandler \/ ProtocolCall \/ Catch \/ Raise \/ InvokeKept \/ UNCHANGED vars)
      BY <1>1, <2>1, <2>3, LibraryGrows DEF Catch, Raise, InvokeKept, vars, Depth
    <2>5. /\ \A ns \in RestartSets : ~EnterRestarts(ns)
          /\ \A cs \in ClauseLists : ~EnterHandlers(cs)
          /\ \A c \in Types, p \in Protocols : ~Signal(c, p)
          /\ \A n \in Names : ~Invoke(n) /\ ~KeepRestart(n)
      BY <1>1, <2>1, <2>3, UserGrows DEF Invoke, KeepRestart, Depth
    <2>6. \/ Leave \/ ProtocolReturn \/ IteratorFails \/ Unhandled \/ Resignal
          \/ RunRestart \/ Propagate
      BY <1>1, <2>4, <2>5 DEF Next
    <2>7. ASSUME exc.kind = "none", Top.kind = "signal", Top.protocol \in {"error", "cerror"}
          PROVE  exc' # NoExc
      <3>1. IteratorFails \/ Unhandled
        BY <2>3, <2>6, <2>7 DEF Leave, UserCode, RunsUserCode, ProtocolReturn, LibraryCode,
          Resignal, RunRestart, Propagate
      <3>2. QED
        BY <2>7, <3>1 DEF IteratorFails, Unhandled, Exception, NoExc
    <2>8. ASSUME Top.kind = "protocol", Top.protocol = "cerror", exc' = NoExc
          PROVE  exc.kind = "invoke" /\ exc.ctx = Top.ctx
      <3>1. exc.kind = "none" => Top.phase = "call"
        BY <2>1, <2>3, <2>8 DEF StackInOrder, CerrorWaits
      <3>2. ~(Leave \/ ProtocolReturn \/ IteratorFails \/ Unhandled \/ Resignal)
        BY <2>3, <2>8, <3>1 DEF Leave, UserCode, RunsUserCode, ProtocolReturn, LibraryCode,
          IteratorFails, Unhandled, Resignal
      <3>3. ~Propagate
        BY <2>8 DEF Propagate, NoExc
      <3>4. QED
        BY <2>6, <3>2, <3>3 DEF RunRestart, Catches, IsOurs
    <2>9. QED
      BY <2>7, <2>8
  <1>2. IInv /\ [Next]_vars => [A]_vars
    BY <1>1 DEF vars, Depth
  <1>3. QED
    BY <1>2, InvariantHolds, PTL DEF Spec, ErrorsAreNotLost

==============================================================================
