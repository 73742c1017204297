--------------------------- MODULE ExtentsProofs ---------------------------
(***************************************************************************)
(* What holds of the testing framework and of dynamic assignment for every *)
(* depth of nesting, number of tests, and all names and values.            *)
(***************************************************************************)
EXTENDS MCExtents, DynassignProofs, FiniteSetTheorems

------------------------------------------------------------------------------
(***************************************************************************)
(* Places in a sequence                                                    *)
(***************************************************************************)
\* A nonempty set of bounded natural numbers has a greatest element.
LEMMA GreatestElement ==
  ASSUME NEW n \in Nat, NEW S, S \subseteq 1..n, S # {}
  PROVE  \E m \in S : \A k \in S : k <= m
<1> DEFINE R == {ss \in Nat \X Nat : ss[1] < ss[2]}
           U == {n - k : k \in S}
<1>1. IsWellFoundedOn(R, Nat)
  BY NatLessThanWellFounded DEF OpToRel
<1>2. U \subseteq Nat /\ U # {}
  <2>1. ASSUME NEW k \in S
        PROVE  n - k \in Nat
    <3>1. k \in 1..n
      OBVIOUS
    <3>2. QED
      BY <3>1
  <2>2. QED
    BY <2>1
<1>3. PICK x \in U : \A y \in U : ~ (<<y, x>> \in R)
  <2> HIDE DEF R, U
  <2> QED BY <1>1, <1>2, WFMin
<1>4. PICK m \in S : x = n - m
  OBVIOUS
<1>5. ASSUME NEW k \in S
      PROVE  k <= m
  <2>1. n - k \in Nat /\ n - m \in Nat /\ n - k \in U
    BY <1>5
  <2>2. ~ (n - k < n - m)
    BY <1>3, <1>4, <2>1
  <2>3. QED
    BY <1>5, <2>2
<1> QED
  BY <1>5

\* The places of a set from i on, counted
RankIn(P, i) == Cardinality({k \in P : k >= i})

LEMMA RankFacts ==
  ASSUME NEW n \in Nat, NEW P, P \subseteq 1..n
  PROVE  /\ IsFiniteSet(P) /\ Cardinality(P) \in Nat
         /\ \A i \in P : RankIn(P, i) \in 1..Cardinality(P)
<1>1. IsFiniteSet(1..n)
  BY FS_Interval
<1>2. IsFiniteSet(P)
  BY <1>1, FS_Subset
<1>3. Cardinality(P) \in Nat
  BY <1>2, FS_CardinalityType
<1>4. ASSUME NEW i \in P
      PROVE  RankIn(P, i) \in 1..Cardinality(P)
  <2> DEFINE Q == {k \in P : k >= i}
  <2>1. Q \in SUBSET P /\ i \in Q
    BY <1>4
  <2>2. IsFiniteSet(Q) /\ Cardinality(Q) <= Cardinality(P)
    BY <1>2, <2>1, FS_Subset
  <2>3. Cardinality(Q) \in Nat /\ Cardinality(Q) # 0
    <3> HIDE DEF Q
    <3> QED BY <2>1, <2>2, FS_CardinalityType, FS_EmptySet
  <2>4. QED
    BY <1>3, <2>2, <2>3 DEF RankIn
<1> QED
  BY <1>2, <1>3, <1>4

\* A place is added above all others.
LEMMA RankAdded ==
  ASSUME NEW n \in Nat, NEW P, P \subseteq 1..n, NEW m \in Nat, m > n
  PROVE  /\ Cardinality(P \cup {m}) = Cardinality(P) + 1
         /\ RankIn(P \cup {m}, m) = 1
         /\ \A i \in P : RankIn(P \cup {m}, i) = RankIn(P, i) + 1
<1> \A k \in P : k \in 1..n /\ k < m
  OBVIOUS
<1>1. m \notin P /\ IsFiniteSet(P)
  <2>1. IsFiniteSet(P)
    BY RankFacts
  <2>2. QED
    BY <2>1
<1>2. Cardinality(P \cup {m}) = Cardinality(P) + 1
  BY <1>1, FS_AddElement
<1>3. RankIn(P \cup {m}, m) = 1
  <2>1. {k \in P \cup {m} : k >= m} = {m}
    <3>1. \A k \in P : ~ (k >= m)
      OBVIOUS
    <3>2. m >= m
      OBVIOUS
    <3>3. QED
      BY <3>1, <3>2
  <2>2. Cardinality({m}) = 1
    BY FS_Singleton
  <2>3. QED
    BY <2>1, <2>2 DEF RankIn
<1>4. ASSUME NEW i \in P
      PROVE  RankIn(P \cup {m}, i) = RankIn(P, i) + 1
  <2> DEFINE Q == {k \in P : k >= i}
  <2>1. {k \in P \cup {m} : k >= i} = Q \cup {m}
    BY <1>4
  <2>2. Q \in SUBSET P /\ m \notin Q
    BY <1>1
  <2>3. IsFiniteSet(Q)
    BY <1>1, <2>2, FS_Subset
  <2>4. Cardinality(Q \cup {m}) = Cardinality(Q) + 1
    <3> HIDE DEF Q
    <3> QED BY <2>2, <2>3, FS_AddElement
  <2>5. QED
    BY <2>1, <2>4 DEF RankIn
<1> QED
  BY <1>2, <1>3, <1>4

\* The stack s lists what the frames fs have at the places P, the last first.
Lists(s, P, fs) == \A i \in P : s[RankIn(P, i)] = fs[i].arg

\* The stack s grows by v, for a new place m above the places P, all of them up to n.
PushedAt(n, P, m, V, s, v, fs, gs) ==
  /\ n \in Nat /\ P \subseteq 1..n /\ m \in Nat /\ m > n
  /\ s \in Seq(V) /\ v \in V /\ Cardinality(P) <= Len(s)
  /\ Lists(s, P, fs) /\ gs[m].arg = v /\ \A i \in P : gs[i].arg = fs[i].arg

LEMMA Push ==
  ASSUME NEW n, NEW P, NEW m, NEW V, NEW s, NEW v, NEW fs, NEW gs, PushedAt(n, P, m, V, s, v, fs, gs)
  PROVE  /\ <<v>> \o s \in Seq(V) /\ Len(<<v>> \o s) = Len(s) + 1
         /\ Lists(<<v>> \o s, P \cup {m}, gs)
         /\ Cardinality(P \cup {m}) = Cardinality(P) + 1
<1> USE DEF PushedAt
<1> DEFINE t == <<v>> \o s
<1>1. t \in Seq(V) /\ Len(t) = Len(s) + 1 /\ t[1] = v /\ \A k \in 1..Len(s) : t[k + 1] = s[k]
  OBVIOUS
<1>2. \A i \in P : t[RankIn(P \cup {m}, i)] = gs[i].arg
  <2> SUFFICES ASSUME NEW i \in P PROVE t[RankIn(P \cup {m}, i)] = gs[i].arg
    OBVIOUS
  <2>1. RankIn(P, i) \in 1..Len(s)
    <3>1. Cardinality(P) \in Nat /\ RankIn(P, i) \in 1..Cardinality(P)
      BY RankFacts
    <3>2. Len(s) \in Nat /\ Cardinality(P) <= Len(s)
      OBVIOUS
    <3>3. QED
      BY <3>1, <3>2
  <2>2. RankIn(P \cup {m}, i) = RankIn(P, i) + 1
    BY RankAdded
  <2> HIDE DEF t
  <2>3. QED
    BY <1>1, <2>1, <2>2 DEF Lists
<1>3. t[RankIn(P \cup {m}, m)] = gs[m].arg
  <2> HIDE DEF t
  <2> QED BY <1>1, RankAdded
<1> QED
  BY <1>1, <1>2, <1>3, RankAdded DEF Lists

\* The stack s shrinks: the place m goes, and below are the places P, up to n.
PoppedAt(n, P, m, V, s, t, fs, gs) ==
  /\ n \in Nat /\ P \subseteq 1..n /\ m \in Nat /\ m > n
  /\ s \in Seq(V) /\ Cardinality(P \cup {m}) <= Len(s) /\ t = Tail(s)
  /\ Lists(s, P \cup {m}, fs) /\ \A i \in P : gs[i].arg = fs[i].arg

PoppedTo(P, V, s, t, gs) == t \in Seq(V) /\ Len(s) = Len(t) + 1 /\ Lists(t, P, gs)

LEMMA PopTop ==
  ASSUME NEW n, NEW P, NEW m, NEW V, NEW s, NEW t, NEW fs, NEW gs, PoppedAt(n, P, m, V, s, t, fs, gs)
  PROVE  PoppedTo(P, V, s, t, gs)
<1> USE DEF PoppedAt
<1>0. t = Tail(s)
  OBVIOUS
<1>1. Cardinality(P) \in Nat /\ Cardinality(P \cup {m}) = Cardinality(P) + 1
  BY RankFacts, RankAdded
<1>2. s # <<>>
  BY <1>1
<1>3. t \in Seq(V) /\ Len(t) = Len(s) - 1 /\ \A k \in 1..(Len(s) - 1) : t[k] = s[k + 1]
  BY <1>0, <1>2
<1>4. \A i \in P : t[RankIn(P, i)] = gs[i].arg
  <2> SUFFICES ASSUME NEW i \in P PROVE t[RankIn(P, i)] = gs[i].arg
    OBVIOUS
  <2>1. RankIn(P, i) \in 1..(Len(s) - 1)
    <3>1. RankIn(P, i) \in 1..Cardinality(P)
      BY RankFacts
    <3>2. Len(s) \in Nat /\ Cardinality(P) + 1 <= Len(s)
      BY <1>1
    <3>3. QED
      BY <1>1, <3>1, <3>2
  <2>2. RankIn(P \cup {m}, i) = RankIn(P, i) + 1
    BY RankAdded
  <2>3. QED
    BY <1>3, <2>1, <2>2 DEF Lists
<1>5. Lists(t, P, gs)
  BY <1>4 DEF Lists
<1>6. Len(s) = Len(t) + 1
  BY <1>3
<1> QED
  BY <1>3, <1>5, <1>6 DEF PoppedTo

------------------------------------------------------------------------------
(***************************************************************************)
(* The inductive invariant of the testing framework                        *)
(***************************************************************************)
\* The data, without the Boolean variable.
Data ==
  /\ nesting \in Nat /\ postprocs \in Seq(T!Postprocs) /\ barrier \in Seq({"up", "down"})
  /\ count \in T!Numbers /\ report \in T!Numbers /\ bad \in Nat
  /\ frames \in Seq(T!Frames)
  /\ \A i \in DOMAIN frames :
       /\ frames[i].at <= i
       /\ frames[i].kind = "barrier" => frames[i].arg # "none"

\* A signal is the innermost thing that goes on, and while it is offered to handlers
\* no exception is propagated.  The framework's own ones have a restart to proceed.
Walking == \A i \in DOMAIN frames : frames[i].kind = "walk" =>
  /\ i = Len(frames) /\ exc.kind = "none"
  /\ frames[i].arg \in T!TestingConditions => frames[i].protocol = "cerror"

\* A restart goes to a test that is being executed, one of the first n frames.
ArrivesIn(e, fs, n) ==
  /\ e \in [kind : {"none", "error", "exit", "restart"}, to : Nat]
  /\ IF e.kind = "restart" THEN e.to \in 1..n /\ fs[e.to].kind = "test" ELSE e.to = 0
Escaping == ArrivesIn(exc, frames, Len(frames))

\* Every test that goes wrong is counted once, as failed or as errored.
Square(c) == c.bad = c.failed + c.errored
UpTo(c, d) ==
  /\ c.failed <= d.failed /\ c.errored <= d.errored /\ c.warned <= d.warned
  /\ c.run - c.failed - c.errored <= d.run - d.failed - d.errored
Ledger ==
  /\ bad = count.failed + count.errored
  /\ UpTo(T!Zero, count)
  /\ \A i \in DOMAIN frames : frames[i].kind = "testset" =>
       Square(frames[i].start) /\ UpTo(frames[i].start, count)
  /\ UpTo(T!Zero, report) /\ Square(report)

ExtentsInv ==
  /\ Data /\ ending \in BOOLEAN /\ Walking /\ Escaping /\ Ledger
  /\ T!FailuresAreHeard /\ T!BookkeepingMatchesNesting

\* What the counters do in any step
CountsOn ==
  /\ count' \in T!Numbers /\ bad' \in Nat
  /\ UpTo(count, count')
  /\ bad' - bad = (count'.failed - count.failed) + (count'.errored - count.errored)

------------------------------------------------------------------------------
(***************************************************************************)
(* The kinds of steps                                                      *)
(***************************************************************************)
Unwalked == \A i \in DOMAIN frames : frames[i].kind # "walk"
SameNesting == UNCHANGED <<nesting, postprocs, barrier>>

\* An exception begins or ends, and no construct does.
Stays ==
  /\ frames' = frames /\ SameNesting /\ report' = report
  /\ Unwalked /\ ArrivesIn(exc', frames, Len(frames))

\* A construct begins, or a signal.
Opens(f) ==
  /\ Unwalked /\ exc.kind = "none" /\ exc' = exc /\ report' = report
  /\ f \in T!Frames /\ f.at <= Len(frames) + 1 /\ frames' = Append(frames, f)
  /\ f.kind = "walk" => /\ f.at = Len(frames) + 1
                        /\ f.arg \in T!TestingConditions => f.protocol = "cerror"
  /\ f.kind = "testset" => f.arg \in T!Postprocs /\ f.start = [count EXCEPT !.bad = bad]
  /\ f.kind = "barrier" => f.arg \in {"up", "down"}
  /\ nesting' = IF f.kind = "testset" THEN nesting + 1 ELSE nesting
  /\ postprocs' = IF f.kind = "testset" /\ f.arg # "none" THEN <<f.arg>> \o postprocs ELSE postprocs
  /\ barrier' = IF f.kind = "barrier" THEN <<f.arg>> \o barrier ELSE barrier

\* A session begins with its testset.
OpensTwo(f, g) ==
  /\ Unwalked /\ exc.kind = "none" /\ exc' = exc /\ report' = report
  /\ f \in T!Frames /\ g \in T!Frames /\ f.at = 0 /\ g.at = 0
  /\ frames' = Append(Append(frames, f), g)
  /\ f.kind = "session" /\ g.kind = "testset" /\ g.arg = "none"
  /\ g.start = [count EXCEPT !.bad = bad]
  /\ nesting' = nesting + 1 /\ UNCHANGED <<postprocs, barrier>>

\* A test ends with a signal, or a signal goes on to the next handler: of the
\* framework's own ones every testset below is still to be asked.
Turns(f) ==
  /\ frames # <<>> /\ T!Top.kind \in {"test", "walk"}
  /\ f \in T!Frames /\ f.kind = "walk" /\ f.at <= Len(frames)
  /\ f.arg \in T!TestingConditions =>
       /\ f.protocol = "cerror"
       /\ \A i \in 1..(Len(frames) - 1) : frames[i].kind = "testset" => i < f.at
  /\ frames' = Append(T!Below, f)
  /\ exc'.kind = "none" /\ exc'.to = 0 /\ exc' \in [kind : {"none"}, to : Nat]
  /\ SameNesting /\ report' = report

\* A construct, or a signal, ends.
Closes ==
  /\ frames # <<>> /\ frames' = T!Below
  /\ ArrivesIn(exc', frames, Len(frames) - 1)
  /\ T!Top.kind \in {"test", "walk"} => SameNesting /\ report' = report
  /\ T!Top.kind \notin {"test", "walk"} => T!Finally(T!Top)

\* A step of one of these kinds
Shaped ==
  \/ Stays \/ Closes
  \/ \E f \in T!Frames : Opens(f) \/ Turns(f)
  \/ \E f, g \in T!Frames : OpensTwo(f, g)

------------------------------------------------------------------------------
\* What is below the innermost construct
LEMMA BelowFacts ==
  ASSUME frames \in Seq(T!Frames), frames # <<>>
  PROVE  /\ Len(frames) \in Nat /\ Len(frames) >= 1
         /\ T!Below \in Seq(T!Frames) /\ Len(T!Below) = Len(frames) - 1
         /\ \A k \in 1..(Len(frames) - 1) : T!Below[k] = frames[k]
         /\ T!Top = frames[Len(frames)] /\ T!Top \in T!Frames
         /\ Len(frames) \in DOMAIN frames
<1>1. Len(frames) \in Nat /\ Len(frames) >= 1
  BY EmptySeq
<1>2. T!Below = Popped(frames)
  BY DEF T!Below, Popped
<1> QED
  BY <1>1, <1>2, PoppedFacts DEF T!Top

Kinds == {"session", "testset", "barrier", "test", "walk"}
Arguments == {"none", "up", "down", "stray"} \cup T!Postprocs \cup T!Forms \cup T!TestingConditions
LEMMA FrameType ==
  ASSUME NEW kind, kind \in Kinds, NEW arg, arg \in Arguments,
         NEW protocol, protocol \in {"none"} \cup T!Protocols, NEW at, at \in Nat,
         count \in T!Numbers, bad \in Nat
  PROVE  /\ T!Frame(kind, arg, protocol, at) \in T!Frames
         /\ T!Frame(kind, arg, protocol, at).kind = kind
         /\ T!Frame(kind, arg, protocol, at).arg = arg
         /\ T!Frame(kind, arg, protocol, at).protocol = protocol
         /\ T!Frame(kind, arg, protocol, at).at = at
         /\ kind = "testset" => T!Frame(kind, arg, protocol, at).start = [count EXCEPT !.bad = bad]
<1> DEFINE f == T!Frame(kind, arg, protocol, at)
<1>1. [count EXCEPT !.bad = bad] \in T!Numbers /\ T!Zero \in T!Numbers
  BY DEF T!Numbers, T!Zero
<1>2. f.start \in T!Numbers
  BY <1>1 DEF T!Frame
<1> QED
  BY <1>2 DEF T!Frame, T!Frames, Kinds, Arguments

\* The innermost handler that is still to be consulted
LEMMA InnermostFacts ==
  ASSUME frames \in Seq(T!Frames), frames # <<>>, T!Top.at <= Len(frames), T!Handlers # {}
  PROVE  /\ T!Innermost \in T!Handlers /\ T!Innermost \in 1..(Len(frames) - 1)
         /\ T!Innermost < T!Top.at /\ T!Top.at \in Nat
         /\ \A k \in T!Handlers : k <= T!Innermost
<1>1. Len(frames) \in Nat /\ T!Top.at \in Nat
  BY BelowFacts DEF T!Frames
<1>2. T!Handlers \subseteq 1..Len(frames) /\ T!Handlers \subseteq 1..(T!Top.at - 1)
  BY <1>1 DEF T!Handlers
<1>3. \E i \in T!Handlers : \A k \in T!Handlers : k <= i
  BY <1>1, <1>2, GreatestElement
<1>4. T!Innermost \in T!Handlers /\ \A k \in T!Handlers : k <= T!Innermost
  BY <1>3 DEF T!Innermost
<1> QED
  BY <1>1, <1>2, <1>4

------------------------------------------------------------------------------
(***************************************************************************)
(* Every step of the testing framework is of one of these kinds            *)
(***************************************************************************)
\* Only what is innermost can be a signal that is being offered.
LEMMA WalkOnTop ==
  ASSUME ExtentsInv
  PROVE  /\ \A k \in 1..(Len(frames) - 1) : frames[k].kind # "walk"
         /\ (frames = <<>> \/ T!Top.kind # "walk" \/ exc.kind # "none") => Unwalked
         /\ exc = T!None <=> exc.kind = "none"
<1>1. Len(frames) \in Nat /\ DOMAIN frames = 1..Len(frames)
  BY DEF ExtentsInv, Data
<1>2. \A k \in 1..(Len(frames) - 1) : frames[k].kind # "walk"
  <2>1. \A n \in Nat : \A k \in 1..(n - 1) : k \in 1..n /\ k # n
    OBVIOUS
  <2>2. \A k \in 1..(Len(frames) - 1) : k \in DOMAIN frames /\ k # Len(frames)
    BY <1>1, <2>1
  <2>3. QED
    BY <2>2 DEF ExtentsInv, Walking
<1>3. ASSUME frames = <<>> \/ T!Top.kind # "walk" \/ exc.kind # "none"
      PROVE  Unwalked
  <2>1. CASE frames = <<>>
    BY <2>1 DEF Unwalked
  <2>2. CASE T!Top.kind # "walk"
    BY <2>2 DEF Unwalked, T!Top, ExtentsInv, Walking
  <2>3. CASE exc.kind # "none"
    BY <2>3 DEF Unwalked, ExtentsInv, Walking
  <2>4. QED
    BY <1>3, <2>1, <2>2, <2>3
<1>4. exc = T!None <=> exc.kind = "none"
  BY DEF ExtentsInv, Escaping, ArrivesIn, T!None
<1> QED
  BY <1>2, <1>3, <1>4

LEMMA BodyFacts ==
  ASSUME ExtentsInv, T!Body
  PROVE  Unwalked /\ exc.kind = "none" /\ exc = T!None
BY WalkOnTop DEF T!Body, T!None

LEMMA EnterSessionShape ==
  ASSUME ExtentsInv, T!EnterSession
  PROVE  Shaped
<1>1. Unwalked /\ exc.kind = "none"
  BY BodyFacts DEF T!EnterSession, T!Free
<1>2. CASE nesting > 0
  <2>1. Stays
    BY <1>1, <1>2 DEF T!EnterSession, T!Raise, Stays, SameNesting, ArrivesIn
  <2>2. QED
    BY <2>1 DEF Shaped
<1>3. CASE ~ (nesting > 0)
  <2> DEFINE f == T!Frame("session", "none", "none", 0)
             g == T!Frame("testset", "none", "none", 0)
  <2>1. count \in T!Numbers /\ bad \in Nat /\ frames \in Seq(T!Frames)
    BY DEF ExtentsInv, Data
  <2>2. /\ f \in T!Frames /\ f.kind = "session" /\ f.at = 0
        /\ g \in T!Frames /\ g.kind = "testset" /\ g.at = 0 /\ g.arg = "none"
        /\ g.start = [count EXCEPT !.bad = bad]
    BY <2>1, FrameType DEF Kinds, Arguments
  <2>3. frames' = frames \o <<f, g>>
    BY <1>3 DEF T!EnterSession
  <2>4. frames' = Append(Append(frames, f), g)
    <3> HIDE DEF f, g
    <3> QED BY <2>1, <2>2, <2>3
  <2>5. OpensTwo(f, g)
    <3> HIDE DEF f, g
    <3> QED BY <1>1, <1>3, <2>2, <2>4 DEF T!EnterSession, OpensTwo
  <2>6. QED
    BY <2>2, <2>5 DEF Shaped
<1> QED
  BY <1>2, <1>3

LEMMA EnterTestsetShape ==
  ASSUME ExtentsInv, NEW p \in T!Postprocs, T!EnterTestset(p)
  PROVE  Shaped
<1> DEFINE f == T!Frame("testset", p, "none", 0)
<1>1. Unwalked /\ exc.kind = "none"
  BY BodyFacts DEF T!EnterTestset, T!Free
<1>2. count \in T!Numbers /\ bad \in Nat /\ Len(frames) \in Nat
  BY DEF ExtentsInv, Data
<1>3. /\ f \in T!Frames /\ f.kind = "testset" /\ f.at = 0 /\ f.arg = p
      /\ f.start = [count EXCEPT !.bad = bad]
  BY <1>2, FrameType DEF Kinds, Arguments
<1>4. frames' = Append(frames, f)
  BY DEF T!EnterTestset
<1>5. Opens(f)
  <2> HIDE DEF f
  <2> QED BY <1>1, <1>2, <1>3, <1>4 DEF T!EnterTestset, Opens
<1> QED
  BY <1>3, <1>5 DEF Shaped

LEMMA EnterCatchSignalsShape ==
  ASSUME ExtentsInv, NEW state \in {"up", "down"}, T!EnterCatchSignals(state)
  PROVE  Shaped
<1> DEFINE f == T!Frame("barrier", state, "none", 0)
<1>1. Unwalked /\ exc.kind = "none"
  BY BodyFacts DEF T!EnterCatchSignals, T!Free
<1>2. count \in T!Numbers /\ bad \in Nat /\ Len(frames) \in Nat
  BY DEF ExtentsInv, Data
<1>3. f \in T!Frames /\ f.kind = "barrier" /\ f.at = 0 /\ f.arg = state
  BY <1>2, FrameType DEF Kinds, Arguments
<1>4. frames' = Append(frames, f)
  BY DEF T!EnterCatchSignals
<1>5. Opens(f)
  <2> HIDE DEF f
  <2> QED BY <1>1, <1>2, <1>3, <1>4 DEF T!EnterCatchSignals, Opens
<1> QED
  BY <1>3, <1>5 DEF Shaped

LEMMA EnterTestShape ==
  ASSUME ExtentsInv, NEW form \in T!Forms, T!EnterTest(form)
  PROVE  Shaped
<1> DEFINE f == T!Frame("test", form, "none", 0)
<1>1. Unwalked /\ exc.kind = "none"
  BY BodyFacts DEF T!EnterTest, T!Free
<1>2. count \in T!Numbers /\ bad \in Nat /\ Len(frames) \in Nat
  BY DEF ExtentsInv, Data
<1>3. f \in T!Frames /\ f.kind = "test" /\ f.at = 0
  BY <1>2, FrameType DEF Kinds, Arguments
<1>4. frames' = Append(frames, f)
  BY DEF T!EnterTest
<1>5. Opens(f)
  <2> HIDE DEF f
  <2> QED BY <1>1, <1>2, <1>3, <1>4 DEF T!EnterTest, Opens
<1> QED
  BY <1>3, <1>5 DEF Shaped

LEMMA SignalShape ==
  ASSUME ExtentsInv, T!EmitWarning \/ \E protocol \in T!Protocols : T!Signal(protocol)
  PROVE  Shaped
<1>1. Unwalked /\ exc.kind = "none" /\ exc' = exc /\ report' = report /\ SameNesting
  BY BodyFacts DEF T!EmitWarning, T!Signal, T!Free, SameNesting
<1>2. count \in T!Numbers /\ bad \in Nat /\ Len(frames) \in Nat
  BY DEF ExtentsInv, Data
<1>3. \E arg \in {"stray", "warning"}, protocol \in T!Protocols :
        /\ arg = "warning" => protocol = "cerror"
        /\ frames' = Append(frames, T!Frame("walk", arg, protocol, Len(frames) + 1))
  BY DEF T!EmitWarning, T!Signal, T!Walk, T!Protocols
<1>4. PICK arg \in {"stray", "warning"}, protocol \in T!Protocols :
        /\ arg = "warning" => protocol = "cerror"
        /\ frames' = Append(frames, T!Frame("walk", arg, protocol, Len(frames) + 1))
  BY <1>3
<1> DEFINE f == T!Frame("walk", arg, protocol, Len(frames) + 1)
<1>5. arg \in Arguments /\ "walk" \in Kinds
  BY DEF T!TestingConditions, Arguments, Kinds
<1>6. /\ f \in T!Frames /\ f.kind = "walk" /\ f.at = Len(frames) + 1
      /\ f.arg = arg /\ f.protocol = protocol
  BY <1>2, <1>5, FrameType
<1>7. f.arg \in T!TestingConditions => f.protocol = "cerror"
  BY <1>4, <1>6 DEF T!TestingConditions
<1>8. Opens(f)
  <2> HIDE DEF f
  <2>1. frames' = Append(frames, f)
    BY <1>4 DEF f
  <2>2. QED
    BY <1>1, <1>2, <1>6, <1>7, <2>1 DEF Opens, SameNesting
<1> QED
  BY <1>6, <1>8 DEF Shaped

LEMMA StaysShape ==
  ASSUME ExtentsInv, T!RaiseError \/ T!Terminate \/ T!Uncaught
  PROVE  Shaped
<1>1. Unwalked
  <2>1. T!Body \/ frames = <<>>
    BY DEF T!RaiseError, T!Terminate, T!Uncaught, T!Free
  <2>2. QED
    BY <2>1, BodyFacts, WalkOnTop
<1>2. exc' \in {[kind |-> "error", to |-> 0], [kind |-> "exit", to |-> 0], T!None}
  BY DEF T!RaiseError, T!Terminate, T!Uncaught, T!Raise
<1>3. Stays
  BY <1>1, <1>2 DEF T!RaiseError, T!Terminate, T!Uncaught, Stays, SameNesting, ArrivesIn, T!None
<1> QED
  BY <1>3 DEF Shaped

LEMMA LeaveShape ==
  ASSUME ExtentsInv, T!Leave
  PROVE  Shaped
<1>1. frames \in Seq(T!Frames)
  BY DEF ExtentsInv, Data
<1>2. ArrivesIn(exc', frames, Len(frames) - 1)
  BY DEF T!Leave, ArrivesIn, T!None
<1>3. Closes
  BY <1>2 DEF Closes, T!Leave
<1> QED
  BY <1>3 DEF Shaped

\* A test ends with a signal of the framework.
LEMMA TestTurns ==
  ASSUME ExtentsInv, frames # <<>>, T!Top.kind = "test", exc' = T!None,
         NEW cond, cond \in T!TestingConditions, frames' = T!Walk(T!Below, cond, "cerror"),
         SameNesting, report' = report
  PROVE  Shaped
<1> DEFINE f == T!Frame("walk", cond, "cerror", Len(frames))
<1>1. count \in T!Numbers /\ bad \in Nat /\ frames \in Seq(T!Frames)
  BY DEF ExtentsInv, Data
<1>2. Len(frames) \in Nat /\ Len(T!Below) = Len(frames) - 1
  BY <1>1, BelowFacts
<1>3. cond \in Arguments /\ "walk" \in Kinds /\ "cerror" \in {"none"} \cup T!Protocols
  BY DEF Arguments, Kinds, T!Protocols
<1>4. /\ f \in T!Frames /\ f.kind = "walk" /\ f.at = Len(frames)
      /\ f.arg = cond /\ f.protocol = "cerror"
  BY <1>1, <1>2, <1>3, FrameType
<1>5. frames' = Append(T!Below, f)
  BY <1>2 DEF T!Walk
<1>6. Turns(f)
  <2> HIDE DEF f
  <2>1. \A i \in 1..(Len(frames) - 1) : i < f.at
    BY <1>2, <1>4
  <2>2. exc'.kind = "none" /\ exc'.to = 0 /\ exc' \in [kind : {"none"}, to : Nat]
    BY DEF T!None
  <2>3. f.at <= Len(frames)
    BY <1>2, <1>4
  <2>4. QED
    BY <1>4, <1>5, <2>1, <2>2, <2>3 DEF Turns
<1> QED
  BY <1>4, <1>6 DEF Shaped

LEMMA CompleteShape ==
  ASSUME ExtentsInv, T!Complete
  PROVE  Shaped
<1>1. frames # <<>> /\ T!Top.kind = "test" /\ exc = T!None /\ exc' = exc /\ SameNesting /\ report' = report
  BY DEF T!Complete, SameNesting
<1>2. CASE T!Passes
  <2>1. Closes
    BY <1>1, <1>2 DEF Closes, T!Passes, ArrivesIn, T!None
  <2>2. QED
    BY <2>1 DEF Shaped
<1>3. CASE T!Fails \/ T!Errors \/ T!Warns
  <2>1. \E cond \in T!TestingConditions : frames' = T!Walk(T!Below, cond, "cerror")
    BY <1>3 DEF T!Fails, T!Errors, T!Warns, T!TestingConditions
  <2>2. QED
    BY <1>1, <2>1, TestTurns
<1> QED
  BY <1>2, <1>3 DEF T!Complete

LEMMA UnhandledShape ==
  ASSUME ExtentsInv, T!Unhandled
  PROVE  Shaped
<1>1. exc' \in {T!None, [kind |-> "error", to |-> 0]}
  BY DEF T!Unhandled, T!Raise
<1>2. ArrivesIn(exc', frames, Len(frames) - 1)
  BY <1>1 DEF ArrivesIn, T!None
<1>3. Closes
  BY <1>2 DEF Closes, T!Unhandled, SameNesting
<1> QED
  BY <1>3 DEF Shaped

LEMMA PropagateShape ==
  ASSUME ExtentsInv, T!Propagate
  PROVE  Shaped
<1>1. exc # T!None /\ frames # <<>>
  BY DEF T!Propagate
<1>2. frames \in Seq(T!Frames)
  BY DEF ExtentsInv, Data
<1>3. Len(frames) \in Nat /\ Len(frames) >= 1 /\ T!Top = frames[Len(frames)]
  BY <1>1, <1>2, BelowFacts
<1>4. ArrivesIn(T!None, frames, Len(frames) - 1)
  BY DEF ArrivesIn, T!None
<1>5. ASSUME exc.kind # "restart" \/ exc.to # Len(frames)
      PROVE  ArrivesIn(exc, frames, Len(frames) - 1)
  BY <1>3, <1>5 DEF ExtentsInv, Escaping, ArrivesIn
<1>6. CASE /\ T!Top.kind = "test" /\ (exc.kind = "restart" => exc.to = Len(frames))
           /\ exc' = T!None
           /\ T!Observed
           /\ UNCHANGED <<nesting, postprocs, barrier, report, ending>>
  <2>1. CASE T!Errors
    BY <1>1, <1>6, <2>1, TestTurns DEF T!Errors, T!TestingConditions, SameNesting
  <2>2. CASE T!Passes
    <3>1. Closes
      BY <1>1, <1>4, <1>6, <2>2 DEF Closes, T!Passes, SameNesting
    <3>2. QED
      BY <3>1 DEF Shaped
  <2>3. QED
    BY <1>6, <2>1, <2>2 DEF T!Observed
<1>7. CASE /\ T!Top.kind = "test" /\ exc.kind = "restart" /\ exc.to # Len(frames)
           /\ frames' = T!Below
           /\ UNCHANGED <<nesting, postprocs, barrier, count, exc, bad, report, ending>>
  <2>1. Closes
    BY <1>1, <1>5, <1>7 DEF Closes, SameNesting
  <2>2. QED
    BY <2>1 DEF Shaped
<1>8. CASE T!Top.kind \in {"testset", "session", "barrier"}
  <2>1. exc.kind # "restart" \/ exc.to # Len(frames)
    BY <1>3, <1>8 DEF ExtentsInv, Escaping, ArrivesIn
  <2>2. exc' \in {exc, T!None} /\ frames' = T!Below /\ T!Finally(T!Top)
    BY <1>8 DEF T!Propagate
  <2>3. ArrivesIn(exc', frames, Len(frames) - 1)
    BY <1>4, <1>5, <2>1, <2>2
  <2>4. Closes
    BY <1>1, <1>8, <2>2, <2>3 DEF Closes
  <2>5. QED
    BY <2>4 DEF Shaped
<1> QED
  BY <1>6, <1>7, <1>8 DEF T!Propagate

\* A signal goes on to the next handler, that of a test, or one that does not count it.
LEMMA GoOnShape ==
  ASSUME ExtentsInv, frames # <<>>, T!Top.kind = "walk", T!Handlers # {}, exc = T!None,
         T!GoOn, SameNesting, report' = report,
         T!Top.arg \in T!TestingConditions => frames[T!Innermost].kind = "test"
  PROVE  Shaped
<1> DEFINE f == [T!Top EXCEPT !.at = T!Innermost]
           n == Len(frames)
<1>1. frames \in Seq(T!Frames)
  BY DEF ExtentsInv, Data
<1>2. /\ n \in Nat /\ n >= 1 /\ T!Top = frames[n] /\ T!Top \in T!Frames /\ n \in DOMAIN frames
      /\ T!Below \in Seq(T!Frames) /\ Len(T!Below) = n - 1
      /\ \A k \in 1..(n - 1) : T!Below[k] = frames[k]
  BY <1>1, BelowFacts
<1>3. T!Top.at <= n
  BY <1>2 DEF ExtentsInv, Data
<1>4. /\ T!Innermost \in T!Handlers /\ T!Innermost \in 1..(n - 1)
      /\ T!Innermost < T!Top.at /\ T!Top.at \in Nat
      /\ \A k \in T!Handlers : k <= T!Innermost
  BY <1>1, <1>3, InnermostFacts
<1>5. /\ f \in T!Frames /\ f.kind = "walk" /\ f.at = T!Innermost
      /\ f.arg = T!Top.arg /\ f.protocol = T!Top.protocol
  <2>1. \A t \in T!Frames, i \in Nat :
          LET g == [t EXCEPT !.at = i]
          IN  /\ g \in T!Frames /\ g.kind = t.kind /\ g.at = i
              /\ g.arg = t.arg /\ g.protocol = t.protocol
    BY DEF T!Frames
  <2>2. T!Innermost \in Nat
    BY <1>2, <1>4
  <2>3. QED
    BY <1>2, <2>1, <2>2
<1>6. frames' = Append(T!Below, f)
  <2>1. frames' = [frames EXCEPT ![n] = f]
    BY <1>2 DEF T!GoOn
  <2> HIDE DEF f, n
  <2>2. /\ frames' \in Seq(T!Frames) /\ Len(frames') = n
        /\ \A k \in 1..n : frames'[k] = IF k = n THEN f ELSE frames[k]
    BY <1>1, <1>2, <1>5, <2>1 DEF n
  <2>3. /\ Append(T!Below, f) \in Seq(T!Frames) /\ Len(Append(T!Below, f)) = n
        /\ \A k \in 1..n : Append(T!Below, f)[k] = IF k = n THEN f ELSE frames[k]
    BY <1>2, <1>5
  <2>4. QED
    BY <2>2, <2>3, SeqEqual
<1>7. ASSUME T!Top.arg \in T!TestingConditions
      PROVE  /\ f.protocol = "cerror"
             /\ \A i \in 1..(n - 1) : frames[i].kind = "testset" => i < f.at
  <2>1. T!Top.protocol = "cerror"
    BY <1>2, <1>7 DEF ExtentsInv, Walking
  <2>2. \A i \in 1..(n - 1) : frames[i].kind = "testset" => i < T!Top.at
    BY <1>7 DEF ExtentsInv, T!FailuresAreHeard
  <2>3. ASSUME NEW i \in 1..(n - 1), frames[i].kind = "testset"
        PROVE  i < f.at
    <3>1. i \in Nat /\ i >= 1 /\ i < T!Top.at
      BY <1>2, <2>2, <2>3
    <3>2. i \in T!Handlers
      BY <2>3, <3>1, <1>4 DEF T!Handlers
    <3>3. i <= T!Innermost /\ i # T!Innermost
      BY <1>4, <1>7, <2>3, <3>2
    <3>4. T!Innermost \in Nat /\ f.at = T!Innermost
      BY <1>4, <1>5
    <3> HIDE DEF f, n
    <3>5. QED
      BY <3>1, <3>3, <3>4
  <2>4. QED
    BY <1>5, <2>1, <2>3
<1>8. f.at <= n
  <2> HIDE DEF f
  <2> QED BY <1>2, <1>4, <1>5
<1>9. exc'.kind = "none" /\ exc'.to = 0 /\ exc' \in [kind : {"none"}, to : Nat]
  BY DEF T!GoOn, T!None
<1>10. Turns(f)
  <2> HIDE DEF f
  <2> QED BY <1>5, <1>6, <1>7, <1>8, <1>9 DEF Turns
<1> QED
  BY <1>5, <1>10 DEF Shaped

LEMMA HandleShape ==
  ASSUME ExtentsInv, T!Handle
  PROVE  Shaped
<1>1. /\ frames # <<>> /\ T!Top.kind = "walk" /\ T!Handlers # {} /\ exc = T!None
      /\ SameNesting /\ report' = report
  BY DEF T!Handle, SameNesting
<1>2. frames \in Seq(T!Frames)
  BY DEF ExtentsInv, Data
<1>3. /\ Len(frames) \in Nat /\ Len(frames) \in DOMAIN frames
      /\ T!Top = frames[Len(frames)]
  BY <1>1, <1>2, BelowFacts
<1>4. T!Top.at <= Len(frames)
  BY <1>3 DEF ExtentsInv, Data
<1>5. T!Innermost \in 1..(Len(frames) - 1)
  BY <1>1, <1>2, <1>4, InnermostFacts
<1>6. T!Top.arg \in T!TestingConditions => T!Top.protocol = "cerror"
  BY <1>1, <1>3 DEF ExtentsInv, Walking
<1>7. ASSUME frames' = T!Below, ArrivesIn(exc', frames, Len(frames) - 1)
      PROVE  Shaped
  <2>1. Closes
    BY <1>1, <1>7 DEF Closes
  <2>2. QED
    BY <2>1 DEF Shaped
<1>8. CASE frames[T!Innermost].kind = "test" /\ T!Intercept
  <2>1. CASE T!GoOn
    BY <1>1, <1>8, <2>1, GoOnShape
  <2>2. CASE frames' = T!Below /\ T!Raise("restart", T!Innermost)
    <3>1. exc' = [kind |-> "restart", to |-> T!Innermost] /\ T!Innermost \in Nat
      BY <2>2, <1>5 DEF T!Raise
    <3>2. ArrivesIn(exc', frames, Len(frames) - 1)
      BY <3>1, <1>5, <1>8 DEF ArrivesIn
    <3>3. QED
      BY <1>7, <2>2, <3>2
  <2>3. QED
    BY <1>8, <2>1, <2>2 DEF T!Intercept
<1>9. CASE T!PrintAndProceed
  <2>1. \/ T!GoOn /\ T!Top.arg \notin T!TestingConditions
        \/ frames' = T!Below /\ exc' \in {T!None, [kind |-> "exit", to |-> 0]}
    BY <1>1, <1>6, <1>9 DEF T!PrintAndProceed, T!Ignored, T!Raise
  <2>2. CASE T!GoOn /\ T!Top.arg \notin T!TestingConditions
    BY <1>1, <2>2, GoOnShape
  <2>3. CASE frames' = T!Below /\ exc' \in {T!None, [kind |-> "exit", to |-> 0]}
    <3>1. ArrivesIn(exc', frames, Len(frames) - 1)
      BY <2>3 DEF ArrivesIn, T!None
    <3>2. QED
      BY <1>7, <2>3, <3>1
  <2>4. QED
    BY <2>1, <2>2, <2>3
<1> QED
  BY <1>8, <1>9 DEF T!Handle

LEMMA NextShape ==
  ASSUME ExtentsInv, T!Next
  PROVE  Shaped
BY EnterSessionShape, LeaveShape, CompleteShape, HandleShape, UnhandledShape, PropagateShape,
  StaysShape, SignalShape, EnterTestsetShape, EnterCatchSignalsShape, EnterTestShape DEF T!Next

------------------------------------------------------------------------------
(***************************************************************************)
(* The counters                                                            *)
(***************************************************************************)
LEMMA CountEffect ==
  ASSUME Data, NEW run \in 0..1, NEW failed \in 0..run, NEW errored \in 0..(run - failed), NEW warned \in 0..1,
         T!Count(run, failed, errored, warned), bad' = bad + failed + errored
  PROVE  CountsOn
<1>1. /\ run \in Int /\ failed \in Int /\ errored \in Int /\ warned \in Int
      /\ run >= failed + errored /\ failed >= 0 /\ errored >= 0 /\ warned >= 0
  OBVIOUS
<1>2. count \in T!Numbers /\ bad \in Nat
  BY DEF Data
<1>3. /\ count' \in T!Numbers
      /\ count'.run = count.run + run /\ count'.failed = count.failed + failed
      /\ count'.errored = count.errored + errored /\ count'.warned = count.warned + warned
  BY <1>1, <1>2 DEF T!Count, T!Numbers
<1>4. /\ count.run \in Int /\ count.failed \in Int /\ count.errored \in Int /\ count.warned \in Int
  BY <1>2 DEF T!Numbers
<1> QED
  BY <1>1, <1>2, <1>3, <1>4 DEF CountsOn, UpTo

LEMMA CountsSame ==
  ASSUME Data, UNCHANGED <<count, bad>>
  PROVE  CountsOn
BY DEF Data, CountsOn, UpTo, T!Numbers

\* What a step does to the counters
LEMMA NextCounts ==
  ASSUME Data, T!Next
  PROVE  CountsOn
<1>1. ASSUME T!Passes \/ (T!Count(1, 0, 0, 0) /\ bad' = bad)
      PROVE  CountsOn
  BY <1>1, CountEffect DEF T!Passes, Data
<1>2. ASSUME T!Fails
      PROVE  CountsOn
  BY <1>2, CountEffect DEF T!Fails, Data
<1>3. ASSUME T!Count(1, 0, 1, 0), bad' = bad + 1
      PROVE  CountsOn
  BY <1>3, CountEffect DEF Data
<1>4. ASSUME T!Count(0, 0, 0, 1), bad' = bad
      PROVE  CountsOn
  BY <1>4, CountEffect DEF Data
<1>5. ASSUME T!Complete
      PROVE  CountsOn
  BY <1>1, <1>2, <1>3, <1>4, <1>5 DEF T!Complete, T!Errors, T!Warns
<1>6. ASSUME T!Handle
      PROVE  CountsOn
  BY <1>3, <1>6, CountsSame DEF T!Handle, T!PrintAndProceed
<1>7. ASSUME T!Propagate
      PROVE  CountsOn
  BY <1>1, <1>3, <1>7, CountsSame DEF T!Propagate, T!Observed, T!Errors
<1>8. ASSUME T!EmitWarning
      PROVE  CountsOn
  BY <1>4, <1>8 DEF T!EmitWarning
<1>9. CASE T!EnterSession \/ T!Leave \/ T!Unhandled \/ T!Uncaught \/ T!RaiseError \/ T!Terminate
  BY <1>9, CountsSame DEF T!EnterSession, T!Leave, T!Unhandled, T!Uncaught, T!RaiseError, T!Terminate
<1>10. CASE \/ \E p \in T!Postprocs : T!EnterTestset(p)
            \/ \E state \in {"up", "down"} : T!EnterCatchSignals(state)
            \/ \E form \in T!Forms : T!EnterTest(form)
            \/ \E protocol \in T!Protocols : T!Signal(protocol)
  BY <1>10, CountsSame DEF T!EnterTestset, T!EnterCatchSignals, T!EnterTest, T!Signal
<1> QED
  BY <1>5, <1>6, <1>7, <1>8, <1>9, <1>10 DEF T!Next

LEMMA NextEnding ==
  ASSUME ending \in BOOLEAN, T!Next
  PROVE  ending' \in BOOLEAN
BY DEF T!Next, T!EnterSession, T!Leave, T!Complete, T!Handle, T!Unhandled, T!Propagate, T!Uncaught,
  T!EmitWarning, T!RaiseError, T!Terminate, T!EnterTestset, T!EnterCatchSignals, T!EnterTest, T!Signal,
  T!Finally, T!InSession

------------------------------------------------------------------------------
(***************************************************************************)
(* The nesting after a step                                                *)
(***************************************************************************)
\* One more construct
LEMMA GrownFrames ==
  ASSUME frames \in Seq(T!Frames), NEW f \in T!Frames, frames' = Append(frames, f)
  PROVE  /\ Len(frames) \in Nat /\ frames' \in Seq(T!Frames) /\ Len(frames') = Len(frames) + 1
         /\ DOMAIN frames = 1..Len(frames) /\ DOMAIN frames' = 1..(Len(frames) + 1)
         /\ \A k \in 1..Len(frames) : frames'[k] = frames[k]
         /\ frames'[Len(frames) + 1] = f
OBVIOUS

\* One construct in the place of another
LEMMA TurnedFrames ==
  ASSUME frames \in Seq(T!Frames), frames # <<>>, NEW f \in T!Frames, frames' = Append(T!Below, f)
  PROVE  /\ Len(frames) \in Nat /\ Len(frames) >= 1
         /\ frames' \in Seq(T!Frames) /\ Len(frames') = Len(frames)
         /\ DOMAIN frames = 1..Len(frames) /\ DOMAIN frames' = 1..Len(frames)
         /\ \A k \in 1..(Len(frames) - 1) : frames'[k] = frames[k]
         /\ frames'[Len(frames)] = f
<1> DEFINE b == T!Below
           n == Len(frames) - 1
<1>1. Len(frames) \in Nat /\ Len(frames) >= 1 /\ n \in Nat /\ n + 1 = Len(frames) /\ DOMAIN frames = 1..Len(frames)
  BY BelowFacts
<1>2. b \in Seq(T!Frames) /\ Len(b) = n /\ \A k \in 1..n : b[k] = frames[k]
  BY BelowFacts
<1> HIDE DEF b
<1>3. frames' = Append(b, f)
  BY DEF b
<1>4. /\ frames' \in Seq(T!Frames) /\ Len(frames') = n + 1
      /\ \A k \in 1..n : frames'[k] = b[k]
      /\ frames'[n + 1] = f
  <2> HIDE DEF n
  <2> QED BY <1>1, <1>2, <1>3
<1>5. DOMAIN frames' = 1..Len(frames') /\ Len(frames') = Len(frames) /\ frames'[Len(frames)] = f
  <2> HIDE DEF n
  <2> QED BY <1>1, <1>4
<1>6. \A k \in 1..n : frames'[k] = frames[k]
  <2> HIDE DEF n
  <2> QED BY <1>1, <1>2, <1>4
<1> QED
  BY <1>1, <1>4, <1>5, <1>6

\* One construct less
LEMMA ShrunkFrames ==
  ASSUME frames \in Seq(T!Frames), frames # <<>>, frames' = T!Below
  PROVE  /\ Len(frames) \in Nat /\ Len(frames) >= 1
         /\ frames' \in Seq(T!Frames) /\ Len(frames') = Len(frames) - 1
         /\ DOMAIN frames = 1..Len(frames) /\ DOMAIN frames' = 1..(Len(frames) - 1)
         /\ \A k \in 1..(Len(frames) - 1) : frames'[k] = frames[k]
BY BelowFacts

\* The constructs that have a value, and the testsets, after such steps
LEMMA GrownPlaces ==
  ASSUME frames \in Seq(T!Frames), NEW f \in T!Frames, frames' = Append(frames, f), NEW kind
  PROVE  /\ T!Places(kind)' = T!Places(kind) \cup
              (IF f.kind = kind /\ f.arg # "none" THEN {Len(frames) + 1} ELSE {})
         /\ T!Testsets' = T!Testsets \cup (IF f.kind = "testset" THEN {Len(frames) + 1} ELSE {})
         /\ T!Places(kind) \subseteq 1..Len(frames) /\ T!Testsets \subseteq 1..Len(frames)
<1> DEFINE n == Len(frames)
<1>1. /\ n \in Nat /\ DOMAIN frames = 1..n /\ DOMAIN frames' = 1..(n + 1)
      /\ \A k \in 1..n : frames'[k] = frames[k]
      /\ frames'[n + 1] = f
  BY GrownFrames
<1> HIDE DEF n
<1>2. 1..(n + 1) = (1..n) \cup {n + 1} /\ n + 1 \notin 1..n
  BY <1>1
<1>3. T!Places(kind)' = {i \in DOMAIN frames' : frames'[i].kind = kind /\ frames'[i].arg # "none"}
  BY DEF T!Places
<1>4. T!Testsets' = {i \in DOMAIN frames' : frames'[i].kind = "testset"}
  BY DEF T!Testsets
<1>5. T!Places(kind)' = T!Places(kind) \cup (IF f.kind = kind /\ f.arg # "none" THEN {n + 1} ELSE {})
  BY <1>1, <1>2, <1>3 DEF T!Places
<1>6. T!Testsets' = T!Testsets \cup (IF f.kind = "testset" THEN {n + 1} ELSE {})
  BY <1>1, <1>2, <1>4 DEF T!Testsets
<1>7. T!Places(kind) \subseteq 1..n /\ T!Testsets \subseteq 1..n
  BY <1>1 DEF T!Places, T!Testsets
<1> QED
  BY <1>5, <1>6, <1>7 DEF n

LEMMA TurnedPlaces ==
  ASSUME frames \in Seq(T!Frames), frames # <<>>, NEW f \in T!Frames, frames' = Append(T!Below, f),
         f.kind = "walk", T!Top.kind \in {"test", "walk"}, NEW kind \in {"testset", "barrier"}
  PROVE  /\ T!Places(kind)' = T!Places(kind) /\ T!Testsets' = T!Testsets
         /\ T!Places(kind) \subseteq 1..(Len(frames) - 1)
<1> DEFINE n == Len(frames)
<1>1. /\ n \in Nat /\ n >= 1 /\ DOMAIN frames = 1..n /\ DOMAIN frames' = 1..n
      /\ \A k \in 1..(n - 1) : frames'[k] = frames[k]
      /\ frames'[n] = f
  BY TurnedFrames
<1>2. frames[n].kind \in {"test", "walk"}
  BY DEF T!Top
<1> HIDE DEF n
<1>3. 1..n = (1..(n - 1)) \cup {n}
  BY <1>1
<1>4. T!Places(kind)' = {i \in DOMAIN frames' : frames'[i].kind = kind /\ frames'[i].arg # "none"}
  BY DEF T!Places
<1>5. T!Testsets' = {i \in DOMAIN frames' : frames'[i].kind = "testset"}
  BY DEF T!Testsets
<1>6. T!Places(kind)' = T!Places(kind) /\ T!Places(kind) \subseteq 1..(n - 1)
  BY <1>1, <1>2, <1>3, <1>4 DEF T!Places
<1>7. T!Testsets' = T!Testsets
  BY <1>1, <1>2, <1>3, <1>5 DEF T!Testsets
<1> QED
  BY <1>6, <1>7 DEF n

LEMMA ShrunkPlaces ==
  ASSUME frames \in Seq(T!Frames), frames # <<>>, frames' = T!Below, NEW kind
  PROVE  /\ T!Places(kind) = T!Places(kind)' \cup
              (IF T!Top.kind = kind /\ T!Top.arg # "none" THEN {Len(frames)} ELSE {})
         /\ T!Testsets = T!Testsets' \cup (IF T!Top.kind = "testset" THEN {Len(frames)} ELSE {})
         /\ T!Places(kind)' \subseteq 1..(Len(frames) - 1) /\ T!Testsets' \subseteq 1..(Len(frames) - 1)
<1> DEFINE n == Len(frames)
<1>1. /\ n \in Nat /\ n >= 1 /\ DOMAIN frames = 1..n /\ DOMAIN frames' = 1..(n - 1)
      /\ \A k \in 1..(n - 1) : frames'[k] = frames[k]
  BY ShrunkFrames
<1>2. T!Top = frames[n]
  BY DEF T!Top
<1> HIDE DEF n
<1>3. 1..n = (1..(n - 1)) \cup {n} /\ n \notin 1..(n - 1)
  BY <1>1
<1>4. T!Places(kind)' = {i \in DOMAIN frames' : frames'[i].kind = kind /\ frames'[i].arg # "none"}
  BY DEF T!Places
<1>5. T!Testsets' = {i \in DOMAIN frames' : frames'[i].kind = "testset"}
  BY DEF T!Testsets
<1>6. T!Places(kind) = T!Places(kind)' \cup (IF T!Top.kind = kind /\ T!Top.arg # "none" THEN {n} ELSE {})
  BY <1>1, <1>2, <1>3, <1>4 DEF T!Places
<1>7. T!Testsets = T!Testsets' \cup (IF T!Top.kind = "testset" THEN {n} ELSE {})
  BY <1>1, <1>2, <1>3, <1>5 DEF T!Testsets
<1>8. T!Places(kind)' \subseteq 1..(n - 1) /\ T!Testsets' \subseteq 1..(n - 1)
  BY <1>1, <1>4, <1>5
<1> QED
  BY <1>6, <1>7, <1>8 DEF n

------------------------------------------------------------------------------
(***************************************************************************)
(* The bookkeeping after a step                                            *)
(***************************************************************************)
LEMMA OneCardinality == \A S : T!Cardinality(S) = Cardinality(S)
BY DEF T!Cardinality, Cardinality

LEMMA BookkeepingParts ==
  /\ T!BookkeepingMatchesNesting <=>
       /\ Len(postprocs) = Cardinality(T!Places("testset")) /\ Lists(postprocs, T!Places("testset"), frames)
       /\ Len(barrier) = Cardinality(T!Places("barrier")) + 1 /\ Lists(barrier, T!Places("barrier"), frames)
       /\ barrier[Len(barrier)] = "up"
       /\ nesting = Cardinality(T!Testsets)
  /\ T!BookkeepingMatchesNesting' <=>
       /\ Len(postprocs') = Cardinality(T!Places("testset")') /\ Lists(postprocs', T!Places("testset")', frames')
       /\ Len(barrier') = Cardinality(T!Places("barrier")') + 1 /\ Lists(barrier', T!Places("barrier")', frames')
       /\ barrier'[Len(barrier')] = "up"
       /\ nesting' = Cardinality(T!Testsets')
<1>1. \A k \in {"testset", "barrier"} :
        /\ T!Shows(postprocs, T!Places(k)) <=> Lists(postprocs, T!Places(k), frames)
        /\ T!Shows(barrier, T!Places(k)) <=> Lists(barrier, T!Places(k), frames)
  BY OneCardinality DEF T!Shows, Lists, RankIn
<1>2. /\ T!Shows(postprocs, T!Places("testset"))' <=> Lists(postprocs', T!Places("testset")', frames')
      /\ T!Shows(barrier, T!Places("barrier"))' <=> Lists(barrier', T!Places("barrier")', frames')
  BY OneCardinality DEF T!Shows, Lists, RankIn
<1>3. T!BookkeepingMatchesNesting' <=>
        /\ Len(postprocs') = Cardinality(T!Places("testset")') /\ T!Shows(postprocs, T!Places("testset"))'
        /\ Len(barrier') = Cardinality(T!Places("barrier")') + 1 /\ T!Shows(barrier, T!Places("barrier"))'
        /\ barrier'[Len(barrier')] = "up"
        /\ nesting' = Cardinality(T!Testsets')
  BY OneCardinality DEF T!BookkeepingMatchesNesting
<1>4. T!BookkeepingMatchesNesting <=>
        /\ Len(postprocs) = Cardinality(T!Places("testset")) /\ T!Shows(postprocs, T!Places("testset"))
        /\ Len(barrier) = Cardinality(T!Places("barrier")) + 1 /\ T!Shows(barrier, T!Places("barrier"))
        /\ barrier[Len(barrier)] = "up"
        /\ nesting = Cardinality(T!Testsets)
  BY OneCardinality DEF T!BookkeepingMatchesNesting
<1> QED
  BY <1>1, <1>2, <1>3, <1>4

\* What a step that keeps the stacks has to keep of the constructs
LEMMA BookkeepingSame ==
  ASSUME ExtentsInv, SameNesting, T!Testsets' = T!Testsets,
         T!Places("testset")' = T!Places("testset"), T!Places("barrier")' = T!Places("barrier"),
         \A i \in T!Places("testset") \cup T!Places("barrier") : frames'[i] = frames[i]
  PROVE  T!BookkeepingMatchesNesting'
<1>1. Lists(postprocs', T!Places("testset")', frames') /\ Lists(barrier', T!Places("barrier")', frames')
  BY BookkeepingParts DEF ExtentsInv, Lists, SameNesting
<1>2. T!BookkeepingMatchesNesting
  BY DEF ExtentsInv
<1> QED
  BY <1>1, <1>2, BookkeepingParts DEF SameNesting

\* What is below the upper end of the stack of barriers stays.
LEMMA BarrierEnd ==
  ASSUME NEW V, NEW b \in Seq(V), Len(b) >= 1, NEW v \in V
  PROVE  /\ (<<v>> \o b)[Len(<<v>> \o b)] = b[Len(b)]
         /\ Len(b) >= 2 => Tail(b)[Len(Tail(b))] = b[Len(b)]
<1>1. Len(<<v>> \o b) = Len(b) + 1 /\ (<<v>> \o b)[Len(b) + 1] = b[Len(b)]
  OBVIOUS
<1>2. ASSUME Len(b) >= 2
      PROVE  Tail(b)[Len(Tail(b))] = b[Len(b)]
  <2>1. b # <<>> /\ Len(Tail(b)) = Len(b) - 1
    BY <1>2
  <2>2. \A k \in 1..(Len(b) - 1) : Tail(b)[k] = b[k + 1]
    BY <2>1
  <2>3. Len(b) - 1 \in 1..(Len(b) - 1) /\ Len(b) - 1 + 1 = Len(b)
    BY <1>2
  <2>4. QED
    BY <2>1, <2>2, <2>3
<1> QED
  BY <1>1, <1>2

LEMMA StaysBookkeeping ==
  ASSUME ExtentsInv, Stays
  PROVE  T!BookkeepingMatchesNesting'
<1>1. T!Testsets' = T!Testsets /\ \A kind : T!Places(kind)' = T!Places(kind)
  BY DEF Stays, T!Testsets, T!Places
<1> QED
  BY <1>1, BookkeepingSame DEF Stays

LEMMA TurnsBookkeeping ==
  ASSUME ExtentsInv, NEW f \in T!Frames, Turns(f)
  PROVE  T!BookkeepingMatchesNesting'
<1>1. frames \in Seq(T!Frames)
  BY DEF ExtentsInv, Data
<1>2. \A kind \in {"testset", "barrier"} :
        /\ T!Places(kind)' = T!Places(kind) /\ T!Testsets' = T!Testsets
        /\ T!Places(kind) \subseteq 1..(Len(frames) - 1)
  BY <1>1, TurnedPlaces DEF Turns
<1>3. \A k \in 1..(Len(frames) - 1) : frames'[k] = frames[k]
  BY <1>1, TurnedFrames DEF Turns
<1> QED
  BY <1>2, <1>3, BookkeepingSame DEF Turns

\* A step by which only the stack of kind `kind` grows
Stacked(kind, extra, V, s) ==
  s \in Seq(V) /\ Len(s) = Cardinality(T!Places(kind)) + extra /\ Lists(s, T!Places(kind), frames)
Grown(f, kind, V, s, t) ==
  IF f.kind = kind /\ f.arg # "none" THEN f.arg \in V /\ t = <<f.arg>> \o s ELSE t = s

LEMMA StackGrows ==
  ASSUME frames \in Seq(T!Frames), NEW f \in T!Frames, frames' = Append(frames, f),
         NEW kind, NEW extra \in {0, 1}, NEW V, NEW s, NEW t,
         Stacked(kind, extra, V, s), Grown(f, kind, V, s, t)
  PROVE  /\ t \in Seq(V) /\ Len(t) = Cardinality(T!Places(kind)') + extra
         /\ Lists(t, T!Places(kind)', frames')
<1> USE DEF Stacked, Grown
<1> DEFINE P == T!Places(kind)
           n == Len(frames)
<1>1. /\ n \in Nat /\ \A k \in 1..n : frames'[k] = frames[k]
      /\ frames'[n + 1] = f
  BY GrownFrames
<1>2. P \subseteq 1..n /\ P' = P \cup (IF f.kind = kind /\ f.arg # "none" THEN {n + 1} ELSE {})
  BY GrownPlaces
<1>3. Cardinality(P) \in Nat
  BY <1>1, <1>2, RankFacts
<1>4. CASE f.kind = kind /\ f.arg # "none"
  <2>1. /\ <<f.arg>> \o s \in Seq(V) /\ Len(<<f.arg>> \o s) = Len(s) + 1
        /\ Lists(<<f.arg>> \o s, P \cup {n + 1}, frames')
        /\ Cardinality(P \cup {n + 1}) = Cardinality(P) + 1
    <3>1. Cardinality(P) <= Len(s) /\ n + 1 \in Nat /\ n + 1 > n
      BY <1>1, <1>3
    <3>2. \A i \in P : frames'[i].arg = frames[i].arg
      BY <1>1, <1>2
    <3>3. Lists(s, P, frames) /\ f.arg \in V
      BY <1>4
    <3> HIDE DEF P
    <3>4. P \subseteq 1..n /\ frames'[n + 1].arg = f.arg
      BY <1>1, <1>2
    <3> HIDE DEF n
    <3>5. PushedAt(n, P, n + 1, V, s, f.arg, frames, frames')
      BY <1>1, <3>1, <3>2, <3>3, <3>4 DEF PushedAt
    <3>6. QED
      BY ONLY <3>5, Push, Zenon
  <2>2. P' = P \cup {n + 1} /\ t = <<f.arg>> \o s
    BY <1>2, <1>4
  <2>3. Len(t) = Cardinality(P') + extra
    BY <1>3, <2>1, <2>2
  <2>4. QED
    BY <2>1, <2>2, <2>3
<1>5. CASE ~ (f.kind = kind /\ f.arg # "none")
  <2>1. P' = P /\ t = s
    BY <1>2, <1>5
  <2>2. \A i \in P : frames'[i] = frames[i]
    BY <1>1, <1>2
  <2>3. Lists(t, P', frames')
    BY <2>1, <2>2 DEF Lists
  <2>4. QED
    BY <2>1, <2>3
<1> QED
  BY <1>4, <1>5

\* A step by which the stack of kind `kind` shrinks, if at all
LEMMA StackShrinks ==
  ASSUME frames \in Seq(T!Frames), frames # <<>>, frames' = T!Below,
         NEW kind, NEW extra \in {0, 1}, NEW V, NEW s \in Seq(V), NEW t,
         Len(s) = Cardinality(T!Places(kind)) + extra, Lists(s, T!Places(kind), frames),
         t = IF T!Top.kind = kind /\ T!Top.arg # "none" THEN Tail(s) ELSE s
  PROVE  /\ t \in Seq(V) /\ Len(t) = Cardinality(T!Places(kind)') + extra
         /\ Lists(t, T!Places(kind)', frames')
<1> DEFINE n == Len(frames) - 1
           m == Len(frames)
<1>0. PICK P : P = T!Places(kind)'
  OBVIOUS
<1>1. /\ n \in Nat /\ m \in Nat /\ m > n /\ \A k \in 1..n : frames'[k] = frames[k]
  BY ShrunkFrames
<1>2. /\ P \subseteq 1..n
      /\ T!Places(kind) = P \cup (IF T!Top.kind = kind /\ T!Top.arg # "none" THEN {m} ELSE {})
  BY <1>0, ShrunkPlaces
<1>3. Cardinality(P) \in Nat
  BY <1>1, <1>2, RankFacts
<1>4. \A i \in P : frames'[i].arg = frames[i].arg
  BY <1>1, <1>2
<1>5. CASE T!Top.kind = kind /\ T!Top.arg # "none"
  <2>1. T!Places(kind) = P \cup {m} /\ t = Tail(s)
    BY <1>2, <1>5
  <2>2. Cardinality(P \cup {m}) = Cardinality(P) + 1
    <3> HIDE DEF n, m
    <3> QED BY <1>1, <1>2, RankAdded
  <2>3. t \in Seq(V) /\ Len(s) = Len(t) + 1 /\ Lists(t, P, frames')
    <3>1. Cardinality(P \cup {m}) <= Len(s) /\ Lists(s, P \cup {m}, frames)
      BY <1>3, <2>1, <2>2
    <3>2. P \subseteq 1..n
      BY <1>2
    <3> HIDE DEF n, m
    <3>3. PoppedAt(n, P, m, V, s, t, frames, frames')
      BY <1>1, <1>4, <2>1, <3>1, <3>2 DEF PoppedAt
    <3>4. PoppedTo(P, V, s, t, frames')
      BY ONLY <3>3, PopTop, Zenon
    <3>5. QED
      BY <3>4 DEF PoppedTo
  <2>4. Len(t) = Cardinality(P) + extra
    BY <1>3, <2>1, <2>2, <2>3
  <2>5. QED
    BY <1>0, <2>1, <2>3, <2>4
<1>6. CASE ~ (T!Top.kind = kind /\ T!Top.arg # "none")
  <2>1. T!Places(kind) = P /\ t = s
    BY <1>2, <1>6
  <2>2. Lists(t, P, frames')
    BY <1>4, <2>1 DEF Lists
  <2>3. QED
    BY <1>0, <2>1, <2>2
<1> QED
  BY <1>5, <1>6

LEMMA OpensBookkeeping ==
  ASSUME ExtentsInv, NEW f \in T!Frames, Opens(f)
  PROVE  /\ T!BookkeepingMatchesNesting'
         /\ postprocs' \in Seq(T!Postprocs) /\ barrier' \in Seq({"up", "down"})
<1>1. frames \in Seq(T!Frames) /\ frames' = Append(frames, f) /\ Len(frames) \in Nat
  BY DEF ExtentsInv, Data, Opens
<1>2. /\ postprocs \in Seq(T!Postprocs) /\ barrier \in Seq({"up", "down"})
      /\ Len(postprocs) = Cardinality(T!Places("testset")) /\ Lists(postprocs, T!Places("testset"), frames)
      /\ Len(barrier) = Cardinality(T!Places("barrier")) + 1 /\ Lists(barrier, T!Places("barrier"), frames)
      /\ barrier[Len(barrier)] = "up"
      /\ nesting = Cardinality(T!Testsets)
  BY BookkeepingParts DEF ExtentsInv, Data
<1>3. \A kind : T!Places(kind) \subseteq 1..Len(frames) /\ T!Testsets \subseteq 1..Len(frames)
  BY <1>1, GrownPlaces
<1>4. \A kind : Cardinality(T!Places(kind)) \in Nat /\ Cardinality(T!Testsets) \in Nat
  BY <1>1, <1>3, RankFacts
<1>5. /\ postprocs' \in Seq(T!Postprocs)
      /\ Len(postprocs') = Cardinality(T!Places("testset")') /\ Lists(postprocs', T!Places("testset")', frames')
  <2>1. Grown(f, "testset", T!Postprocs, postprocs, postprocs')
    BY DEF Opens, Grown
  <2>2. Stacked("testset", 0, T!Postprocs, postprocs)
    BY <1>2, <1>4 DEF Stacked
  <2>3. /\ postprocs' \in Seq(T!Postprocs)
        /\ Len(postprocs') = Cardinality(T!Places("testset")') + 0 /\ Lists(postprocs', T!Places("testset")', frames')
    BY ONLY <1>1, <2>1, <2>2, f \in T!Frames, StackGrows
  <2>4. Cardinality(T!Places("testset")') \in Nat
    <3>1. T!Places("testset")' \subseteq 1..(Len(frames) + 1)
      BY <1>1, <1>3, GrownPlaces
    <3>2. Len(frames) + 1 \in Nat
      BY <1>1
    <3>3. QED
      BY <3>1, <3>2, RankFacts
  <2>5. QED
    BY <2>3, <2>4
<1>6. /\ barrier' \in Seq({"up", "down"})
      /\ Len(barrier') = Cardinality(T!Places("barrier")') + 1 /\ Lists(barrier', T!Places("barrier")', frames')
  <2>1. Grown(f, "barrier", {"up", "down"}, barrier, barrier')
    BY DEF Opens, Grown
  <2>2. Stacked("barrier", 1, {"up", "down"}, barrier)
    BY <1>2 DEF Stacked
  <2>3. QED
    BY ONLY <1>1, <2>1, <2>2, f \in T!Frames, StackGrows
<1>7. barrier'[Len(barrier')] = "up"
  <2>1. Len(barrier) >= 1
    BY <1>2, <1>4
  <2>2. CASE f.kind = "barrier"
    BY <1>2, <2>1, <2>2, BarrierEnd DEF Opens
  <2>3. CASE f.kind # "barrier"
    BY <1>2, <2>3 DEF Opens
  <2>4. QED
    BY <2>2, <2>3
<1>8. nesting' = Cardinality(T!Testsets')
  <2>1. CASE f.kind = "testset"
    <3>1. T!Testsets' = T!Testsets \cup {Len(frames) + 1}
      BY <1>1, <2>1, GrownPlaces
    <3>2. Len(frames) + 1 \in Nat /\ Len(frames) + 1 > Len(frames)
      BY <1>1
    <3>3. Cardinality(T!Testsets') = Cardinality(T!Testsets) + 1
      BY <1>1, <1>3, <3>1, <3>2, RankAdded
    <3>4. QED
      BY <1>2, <2>1, <3>3 DEF Opens
  <2>2. CASE f.kind # "testset"
    <3>1. T!Testsets' = T!Testsets
      BY <1>1, <2>2, GrownPlaces
    <3>2. QED
      BY <1>2, <2>2, <3>1 DEF Opens
  <2>3. QED
    BY <2>1, <2>2
<1> QED
  BY <1>5, <1>6, <1>7, <1>8, BookkeepingParts

LEMMA OpensTwoBookkeeping ==
  ASSUME ExtentsInv, NEW f \in T!Frames, NEW g \in T!Frames, OpensTwo(f, g)
  PROVE  T!BookkeepingMatchesNesting'
<1> DEFINE n == Len(frames)
<1>1. frames \in Seq(T!Frames) /\ frames' = Append(Append(frames, f), g)
  BY DEF ExtentsInv, Data, OpensTwo
<1>2. /\ n \in Nat /\ DOMAIN frames = 1..n /\ DOMAIN frames' = 1..(n + 2)
      /\ \A k \in 1..n : frames'[k] = frames[k]
      /\ frames'[n + 1] = f /\ frames'[n + 2] = g
  BY <1>1
<1>3. /\ Len(postprocs) = Cardinality(T!Places("testset")) /\ Lists(postprocs, T!Places("testset"), frames)
      /\ Len(barrier) = Cardinality(T!Places("barrier")) + 1 /\ Lists(barrier, T!Places("barrier"), frames)
      /\ barrier[Len(barrier)] = "up"
      /\ nesting = Cardinality(T!Testsets)
  BY BookkeepingParts DEF ExtentsInv
<1>4. /\ f.kind = "session" /\ g.kind = "testset" /\ g.arg = "none"
      /\ nesting' = nesting + 1 /\ postprocs' = postprocs /\ barrier' = barrier
  BY DEF OpensTwo
<1> HIDE DEF n
<1>5. 1..(n + 2) = (1..n) \cup {n + 1, n + 2} /\ n + 2 \notin 1..n /\ n + 2 \in Nat /\ n + 2 > n
  BY <1>2
<1>6. ASSUME NEW kind \in {"testset", "barrier"}
      PROVE  T!Places(kind)' = T!Places(kind) /\ T!Places(kind) \subseteq 1..n
  <2>1. T!Places(kind)' = {i \in DOMAIN frames' : frames'[i].kind = kind /\ frames'[i].arg # "none"}
    BY DEF T!Places
  <2>2. QED
    BY <1>2, <1>4, <1>5, <2>1 DEF T!Places
<1>7. T!Testsets' = T!Testsets \cup {n + 2} /\ T!Testsets \subseteq 1..n
  <2>1. T!Testsets' = {i \in DOMAIN frames' : frames'[i].kind = "testset"}
    BY DEF T!Testsets
  <2>2. QED
    BY <1>2, <1>4, <1>5, <2>1 DEF T!Testsets
<1>8. Cardinality(T!Testsets') = Cardinality(T!Testsets) + 1
  BY <1>2, <1>5, <1>7, RankAdded
<1>9. Lists(postprocs', T!Places("testset")', frames') /\ Lists(barrier', T!Places("barrier")', frames')
  BY <1>2, <1>3, <1>4, <1>6 DEF Lists
<1> QED
  BY <1>3, <1>4, <1>6, <1>8, <1>9, BookkeepingParts

LEMMA ClosesBookkeeping ==
  ASSUME ExtentsInv, Closes
  PROVE  /\ T!BookkeepingMatchesNesting'
         /\ postprocs' \in Seq(T!Postprocs) /\ barrier' \in Seq({"up", "down"})
<1> DEFINE n == Len(frames) - 1
<1>1. frames \in Seq(T!Frames) /\ frames # <<>> /\ frames' = T!Below
  BY DEF ExtentsInv, Data, Closes
<1>2. /\ postprocs \in Seq(T!Postprocs) /\ barrier \in Seq({"up", "down"})
      /\ Len(postprocs) = Cardinality(T!Places("testset")) /\ Lists(postprocs, T!Places("testset"), frames)
      /\ Len(barrier) = Cardinality(T!Places("barrier")) + 1 /\ Lists(barrier, T!Places("barrier"), frames)
      /\ barrier[Len(barrier)] = "up"
      /\ nesting = Cardinality(T!Testsets)
  BY BookkeepingParts DEF ExtentsInv, Data
<1>3. n \in Nat /\ Len(frames) \in Nat /\ Len(frames) > n
  BY <1>1, ShrunkFrames
<1>4. \A kind : T!Places(kind)' \subseteq 1..n /\ T!Testsets' \subseteq 1..n
  BY <1>1, ShrunkPlaces
<1>5. \A kind : Cardinality(T!Places(kind)') \in Nat /\ Cardinality(T!Testsets') \in Nat
  <2> HIDE DEF n
  <2> QED BY <1>3, <1>4, RankFacts
<1>6. T!Top.kind = "barrier" => T!Top.arg # "none"
  BY <1>1, BelowFacts DEF ExtentsInv, Data
<1>7. /\ nesting' = IF T!Top.kind = "testset" THEN nesting - 1 ELSE nesting
      /\ postprocs' = IF T!Top.kind = "testset" /\ T!Top.arg # "none" THEN Tail(postprocs) ELSE postprocs
      /\ barrier' = IF T!Top.kind = "barrier" /\ T!Top.arg # "none" THEN Tail(barrier) ELSE barrier
  BY <1>6 DEF Closes, SameNesting, T!Finally
<1>8. Cardinality(T!Testsets) = Cardinality(T!Testsets') + (IF T!Top.kind = "testset" THEN 1 ELSE 0)
  <2>1. T!Testsets = T!Testsets' \cup (IF T!Top.kind = "testset" THEN {Len(frames)} ELSE {})
    BY <1>1, ShrunkPlaces
  <2>2. CASE T!Top.kind = "testset"
    <3>1. Cardinality(T!Testsets' \cup {Len(frames)}) = Cardinality(T!Testsets') + 1
      <4> HIDE DEF n
      <4> QED BY <1>3, <1>4, RankAdded
    <3>2. QED
      BY <2>1, <2>2, <3>1
  <2>3. CASE T!Top.kind # "testset"
    BY <1>5, <2>1, <2>3
  <2>4. QED
    BY <2>2, <2>3
<1>9. nesting' = Cardinality(T!Testsets')
  <2>1. Cardinality(T!Testsets') \in Nat
    BY <1>5
  <2>2. QED
    BY <1>2, <1>7, <1>8, <2>1
<1>10. \A kind : Cardinality(T!Places(kind)) \in Nat
  BY <1>1, GrownFrames, RankFacts DEF T!Places
<1>11. /\ postprocs' \in Seq(T!Postprocs)
       /\ Len(postprocs') = Cardinality(T!Places("testset")') /\ Lists(postprocs', T!Places("testset")', frames')
  <2>1. Len(postprocs) = Cardinality(T!Places("testset")) + 0
    BY <1>2, <1>10
  <2>2. /\ postprocs' \in Seq(T!Postprocs)
        /\ Len(postprocs') = Cardinality(T!Places("testset")') + 0 /\ Lists(postprocs', T!Places("testset")', frames')
    BY <1>1, <1>2, <1>7, <2>1, StackShrinks
  <2>3. QED
    BY <1>5, <2>2
<1>12. /\ barrier' \in Seq({"up", "down"})
       /\ Len(barrier') = Cardinality(T!Places("barrier")') + 1 /\ Lists(barrier', T!Places("barrier")', frames')
  BY <1>1, <1>2, <1>7, StackShrinks
<1>13. barrier'[Len(barrier')] = "up"
  <2>1. CASE barrier' = barrier
    BY <1>2, <2>1
  <2>2. CASE barrier' = Tail(barrier) /\ T!Top.kind = "barrier" /\ T!Top.arg # "none"
    <3>1. T!Places("barrier") = T!Places("barrier")' \cup {Len(frames)}
      BY <1>1, <2>2, ShrunkPlaces
    <3>2. Cardinality(T!Places("barrier")' \cup {Len(frames)}) = Cardinality(T!Places("barrier")') + 1
      <4> HIDE DEF n
      <4> QED BY <1>3, <1>4, RankAdded
    <3>3. Cardinality(T!Places("barrier")) = Cardinality(T!Places("barrier")') + 1
      BY <3>1, <3>2
    <3>4. Cardinality(T!Places("barrier")') \in Nat
      BY <1>5
    <3>5. Len(barrier) >= 2
      BY <1>2, <3>3, <3>4
    <3>6. Len(barrier) >= 1 /\ Tail(barrier)[Len(Tail(barrier))] = barrier[Len(barrier)]
      BY <1>2, <3>5, BarrierEnd
    <3>7. QED
      BY <1>2, <2>2, <3>6
  <2>3. QED
    BY <1>7, <2>1, <2>2
<1> QED
  BY <1>9, <1>11, <1>12, <1>13, BookkeepingParts

------------------------------------------------------------------------------
(***************************************************************************)
(* The frames after a step                                                 *)
(***************************************************************************)
\* A frame that a step puts at place i
Fresh(f, i) ==
  /\ f.at <= i
  /\ f.kind = "barrier" => f.arg # "none"
  /\ f.kind = "testset" => f.start = [count EXCEPT !.bad = bad]
  /\ f.kind = "walk" => /\ i = Len(frames') /\ exc'.kind = "none"
                        /\ f.arg \in T!TestingConditions => f.protocol = "cerror"

\* One that a step leaves where it is
Old(i) == i \in DOMAIN frames /\ frames'[i] = frames[i] /\ frames[i].kind # "walk"

FramesAfter ==
  /\ frames' \in Seq(T!Frames)
  /\ \A i \in DOMAIN frames' : Old(i) \/ Fresh(frames'[i], i)

LEMMA StaysFrames ==
  ASSUME ExtentsInv, Stays
  PROVE  FramesAfter
BY DEF ExtentsInv, Data, Stays, Unwalked, FramesAfter, Old

LEMMA OpensFrames ==
  ASSUME ExtentsInv, NEW f \in T!Frames, Opens(f)
  PROVE  FramesAfter
<1>1. frames \in Seq(T!Frames) /\ frames' = Append(frames, f)
  BY DEF ExtentsInv, Data, Opens
<1> DEFINE n == Len(frames)
<1>2. /\ n \in Nat /\ frames' \in Seq(T!Frames) /\ Len(frames') = n + 1
      /\ DOMAIN frames = 1..n /\ DOMAIN frames' = 1..(n + 1)
      /\ \A k \in 1..n : frames'[k] = frames[k]
      /\ frames'[n + 1] = f
  BY <1>1, GrownFrames
<1>3. Fresh(f, n + 1)
  <2>1. f.at <= n + 1 /\ (f.kind = "testset" => f.start = [count EXCEPT !.bad = bad])
    BY DEF Opens
  <2>2. f.kind = "barrier" => f.arg # "none"
    BY DEF Opens
  <2>3. exc'.kind = "none"
    BY DEF Opens
  <2>6. ASSUME f.kind = "walk", f.arg \in T!TestingConditions
        PROVE  f.protocol = "cerror"
    BY <2>6 DEF Opens
  <2>4. n + 1 = Len(frames')
    BY <1>2
  <2> HIDE DEF n
  <2>5. QED
    BY <2>1, <2>2, <2>3, <2>4, <2>6 DEF Fresh
<1>4. \A k \in 1..n : frames[k].kind # "walk"
  BY <1>2 DEF Opens, Unwalked
<1> HIDE DEF n
<1>5. \A i \in 1..(n + 1) : i \in 1..n \/ i = n + 1
  BY <1>2
<1> QED
  BY <1>2, <1>3, <1>4, <1>5 DEF FramesAfter, Old

LEMMA OpensTwoFrames ==
  ASSUME ExtentsInv, NEW f \in T!Frames, NEW g \in T!Frames, OpensTwo(f, g)
  PROVE  FramesAfter
<1>1. frames \in Seq(T!Frames) /\ frames' = Append(Append(frames, f), g)
  BY DEF ExtentsInv, Data, OpensTwo
<1> DEFINE n == Len(frames)
<1>2. /\ n \in Nat /\ frames' \in Seq(T!Frames) /\ Len(frames') = n + 2
      /\ DOMAIN frames = 1..n /\ DOMAIN frames' = 1..(n + 2)
      /\ \A k \in 1..n : frames'[k] = frames[k]
      /\ frames'[n + 1] = f /\ frames'[n + 2] = g
  BY <1>1
<1>3. Fresh(f, n + 1) /\ Fresh(g, n + 2)
  BY <1>2 DEF OpensTwo, Fresh
<1>4. \A k \in 1..n : frames[k].kind # "walk"
  BY <1>2 DEF OpensTwo, Unwalked
<1> HIDE DEF n
<1>5. \A i \in 1..(n + 2) : i \in 1..n \/ i = n + 1 \/ i = n + 2
  BY <1>2
<1> QED
  BY <1>2, <1>3, <1>4, <1>5 DEF FramesAfter, Old

LEMMA TurnsFrames ==
  ASSUME ExtentsInv, NEW f \in T!Frames, Turns(f)
  PROVE  FramesAfter
<1>1. frames \in Seq(T!Frames) /\ frames # <<>> /\ frames' = Append(T!Below, f)
  BY DEF ExtentsInv, Data, Turns
<1> DEFINE n == Len(frames)
<1>2. /\ n \in Nat /\ n >= 1 /\ frames' \in Seq(T!Frames) /\ Len(frames') = n
      /\ DOMAIN frames = 1..n /\ DOMAIN frames' = 1..n
      /\ \A k \in 1..(n - 1) : frames'[k] = frames[k]
      /\ frames'[n] = f
  BY <1>1, TurnedFrames
<1>3. Fresh(f, n)
  BY <1>2 DEF Turns, Fresh
<1>4. \A k \in 1..(n - 1) : frames[k].kind # "walk"
  BY WalkOnTop
<1> HIDE DEF n
<1>5. \A i \in 1..n : i \in 1..(n - 1) \/ i = n
  BY <1>2
<1>6. \A i \in 1..(n - 1) : i \in 1..n
  BY <1>2
<1> QED
  BY <1>2, <1>3, <1>4, <1>5, <1>6 DEF FramesAfter, Old

LEMMA ClosesFrames ==
  ASSUME ExtentsInv, Closes
  PROVE  FramesAfter
<1>1. frames \in Seq(T!Frames) /\ frames # <<>> /\ frames' = T!Below
  BY DEF ExtentsInv, Data, Closes
<1> DEFINE n == Len(frames)
<1>2. /\ n \in Nat /\ n >= 1 /\ frames' \in Seq(T!Frames) /\ Len(frames') = n - 1
      /\ DOMAIN frames = 1..n /\ DOMAIN frames' = 1..(n - 1)
      /\ \A k \in 1..(n - 1) : frames'[k] = frames[k]
  BY <1>1, ShrunkFrames
<1>3. \A k \in 1..(n - 1) : frames[k].kind # "walk"
  BY WalkOnTop
<1> HIDE DEF n
<1>4. \A i \in 1..(n - 1) : i \in 1..n
  BY <1>2
<1> QED
  BY <1>2, <1>3, <1>4 DEF FramesAfter, Old

LEMMA ShapedFrames ==
  ASSUME ExtentsInv, Shaped
  PROVE  FramesAfter
BY StaysFrames, OpensFrames, OpensTwoFrames, TurnsFrames, ClosesFrames DEF Shaped

------------------------------------------------------------------------------
(***************************************************************************)
(* The invariant after a step                                              *)
(***************************************************************************)
LEMMA WalkingStep ==
  ASSUME FramesAfter
  PROVE  Walking'
BY DEF FramesAfter, Old, Fresh, Walking

LEMMA EscapingStep ==
  ASSUME ExtentsInv, Shaped
  PROVE  Escaping'
<1>1. frames \in Seq(T!Frames)
  BY DEF ExtentsInv, Data
<1>2. CASE Stays
  BY <1>2 DEF Stays, Escaping, ArrivesIn
<1>3. ASSUME NEW f \in T!Frames, Opens(f) \/ Turns(f)
      PROVE  Escaping'
  BY <1>3 DEF Opens, Turns, Escaping, ArrivesIn, ExtentsInv
<1>4. ASSUME NEW f \in T!Frames, NEW g \in T!Frames, OpensTwo(f, g)
      PROVE  Escaping'
  BY <1>4 DEF OpensTwo, Escaping, ArrivesIn, ExtentsInv
<1>5. CASE Closes
  <2>1. /\ Len(frames') = Len(frames) - 1
        /\ \A k \in 1..(Len(frames) - 1) : frames'[k] = frames[k]
    BY <1>1, <1>5, ShrunkFrames DEF Closes
  <2>2. QED
    BY <1>5, <2>1 DEF Closes, Escaping, ArrivesIn
<1> QED
  BY <1>2, <1>3, <1>4, <1>5 DEF Shaped

LEMMA HeardStep ==
  ASSUME ExtentsInv, Shaped
  PROVE  T!FailuresAreHeard'
<1>1. frames \in Seq(T!Frames) /\ FramesAfter
  BY ShapedFrames DEF ExtentsInv, Data
<1>2. SUFFICES ASSUME frames' # <<>>, frames'[Len(frames')].kind = "walk",
                      frames'[Len(frames')].arg \in T!TestingConditions,
                      NEW i \in 1..(Len(frames') - 1), frames'[i].kind = "testset"
               PROVE  i < frames'[Len(frames')].at
  BY DEF T!FailuresAreHeard, T!Top
<1>3. Len(frames') \in Nat /\ Len(frames') \in DOMAIN frames' /\ i < Len(frames')
  BY <1>1, <1>2 DEF FramesAfter
<1>4. ~ Old(Len(frames'))
  BY <1>2 DEF Old
<1>5. CASE Stays
  BY <1>3, <1>4, <1>5, <1>2 DEF Stays, Unwalked, Old
<1>6. ASSUME NEW f \in T!Frames, Opens(f)
      PROVE  i < frames'[Len(frames')].at
  <2>1. Len(frames') = Len(frames) + 1 /\ frames'[Len(frames')] = f
    BY <1>1, <1>6, GrownFrames DEF Opens
  <2>2. f.kind = "walk"
    BY <1>2, <2>1
  <2>4. f.at = Len(frames) + 1
    BY <1>6, <2>2 DEF Opens
  <2>3. QED
    BY <1>3, <2>1, <2>4
<1>7. ASSUME NEW f \in T!Frames, Turns(f)
      PROVE  i < frames'[Len(frames')].at
  <2>1. /\ Len(frames') = Len(frames) /\ frames'[Len(frames')] = f
        /\ \A k \in 1..(Len(frames) - 1) : frames'[k] = frames[k]
    BY <1>1, <1>7, TurnedFrames DEF Turns
  <2>2. QED
    BY <1>2, <1>7, <2>1 DEF Turns
<1>8. ASSUME NEW f \in T!Frames, NEW g \in T!Frames, OpensTwo(f, g)
      PROVE  FALSE
  <2>1. frames' = Append(Append(frames, f), g)
    BY <1>8 DEF OpensTwo
  <2>2. frames'[Len(frames')] = g
    BY <1>1, <2>1
  <2>3. QED
    BY <1>2, <1>8, <2>2 DEF OpensTwo
<1>9. CASE Closes
  <2>1. /\ Len(frames') = Len(frames) - 1 /\ Len(frames) \in Nat
        /\ \A k \in 1..(Len(frames) - 1) : frames'[k] = frames[k]
    BY <1>1, <1>9, ShrunkFrames DEF Closes
  <2>2. Len(frames') \in 1..(Len(frames) - 1)
    BY <1>3, <2>1
  <2>3. QED
    BY <1>2, <2>1, <2>2, WalkOnTop
<1> QED
  BY <1>5, <1>6, <1>7, <1>8, <1>9 DEF Shaped

LEMMA UpToTransitive ==
  ASSUME NEW c \in T!Numbers, NEW d \in T!Numbers, NEW e \in T!Numbers, UpTo(c, d), UpTo(d, e)
  PROVE  UpTo(c, e)
<1>1. \A n \in {c, d, e} : n.run \in Int /\ n.failed \in Int /\ n.errored \in Int /\ n.warned \in Int
  BY DEF T!Numbers
<1> QED
  BY <1>1 DEF UpTo

LEMMA EntryCounts ==
  ASSUME count \in T!Numbers, bad \in Nat, bad = count.failed + count.errored
  PROVE  LET start == [count EXCEPT !.bad = bad]
         IN  start \in T!Numbers /\ Square(start) /\ UpTo(start, count)
<1> DEFINE start == [count EXCEPT !.bad = bad]
<1>1. /\ start \in T!Numbers /\ start.bad = bad
      /\ start.run = count.run /\ start.failed = count.failed
      /\ start.errored = count.errored /\ start.warned = count.warned
  BY DEF T!Numbers
<1>2. count.run \in Int /\ count.failed \in Int /\ count.errored \in Int /\ count.warned \in Int
  BY DEF T!Numbers
<1> HIDE DEF start
<1>3. Square(start)
  BY <1>1 DEF Square
<1>4. UpTo(start, count)
  BY <1>1, <1>2 DEF UpTo
<1> QED
  BY <1>1, <1>3, <1>4 DEF start

\* What a testset reports when it ends
LEMMA ReportFacts ==
  ASSUME NEW f, f.start \in T!Numbers, Square(f.start), NEW c \in T!Numbers, NEW b \in Nat,
         UpTo(f.start, c), b = c.failed + c.errored
  PROVE  T!Report(f, c, b) \in T!Numbers /\ UpTo(T!Zero, T!Report(f, c, b)) /\ Square(T!Report(f, c, b))
<1> DEFINE s == f.start
<1> DEFINE r == T!Report(f, c, b)
<1>1. \A n \in {c, s} : /\ n.run \in Int /\ n.failed \in Int /\ n.errored \in Int
                        /\ n.warned \in Int /\ n.bad \in Int
  BY DEF T!Numbers
<1>2. /\ r.run = c.run - s.run /\ r.failed = c.failed - s.failed
      /\ r.errored = c.errored - s.errored /\ r.warned = c.warned - s.warned /\ r.bad = b - s.bad
  BY DEF T!Report
<1>3. r \in T!Numbers
  BY <1>1 DEF T!Report, T!Numbers
<1>4. UpTo(s, c) /\ Square(s)
  OBVIOUS
<1> HIDE DEF s, r
<1>5. UpTo(T!Zero, r)
  BY <1>1, <1>2, <1>4 DEF UpTo, T!Zero
<1>6. Square(r)
  BY <1>1, <1>2, <1>4 DEF Square
<1> QED
  BY <1>3, <1>5, <1>6 DEF r

LEMMA LedgerStep ==
  ASSUME ExtentsInv, Shaped, CountsOn
  PROVE  Ledger' /\ report' \in T!Numbers
<1>1. /\ count \in T!Numbers /\ bad \in Nat /\ report \in T!Numbers
      /\ frames \in Seq(T!Frames) /\ bad = count.failed + count.errored
      /\ UpTo(T!Zero, count) /\ UpTo(T!Zero, report) /\ Square(report)
  BY DEF ExtentsInv, Data, Ledger
<1>2. /\ count' \in T!Numbers /\ bad' \in Nat /\ UpTo(count, count')
      /\ bad' - bad = (count'.failed - count.failed) + (count'.errored - count.errored)
  BY DEF CountsOn
<1>3. T!Zero \in T!Numbers
  BY DEF T!Zero, T!Numbers
<1>4. bad' = count'.failed + count'.errored
  <2>1. /\ count.failed \in Int /\ count.errored \in Int
        /\ count'.failed \in Int /\ count'.errored \in Int
    BY <1>1, <1>2 DEF T!Numbers
  <2>2. bad \in Int /\ bad' \in Int /\ bad = count.failed + count.errored
    BY <1>1, <1>2
  <2>3. bad' - bad = (count'.failed - count.failed) + (count'.errored - count.errored)
    BY <1>2
  <2>4. QED
    BY <2>1, <2>2, <2>3
<1>5. UpTo(T!Zero, count')
  BY <1>1, <1>2, <1>3, UpToTransitive
<1>6. \A i \in DOMAIN frames : frames[i].kind = "testset" =>
        frames[i].start \in T!Numbers /\ Square(frames[i].start) /\ UpTo(frames[i].start, count')
  <2> SUFFICES ASSUME NEW i \in DOMAIN frames, frames[i].kind = "testset"
               PROVE  /\ frames[i].start \in T!Numbers /\ Square(frames[i].start)
                      /\ UpTo(frames[i].start, count')
    OBVIOUS
  <2>1. frames[i].start \in T!Numbers
    <3>1. frames[i] \in T!Frames
      BY <1>1
    <3>2. QED
      BY <3>1 DEF T!Frames
  <2>2. Square(frames[i].start) /\ UpTo(frames[i].start, count)
    BY DEF ExtentsInv, Ledger
  <2>3. QED
    BY <1>1, <1>2, <2>1, <2>2, UpToTransitive
<1>7. \A i \in DOMAIN frames' : frames'[i].kind = "testset" =>
        Square(frames'[i].start) /\ UpTo(frames'[i].start, count')
  <2> SUFFICES ASSUME NEW i \in DOMAIN frames', frames'[i].kind = "testset"
               PROVE  Square(frames'[i].start) /\ UpTo(frames'[i].start, count')
    OBVIOUS
  <2>1. Old(i) \/ Fresh(frames'[i], i)
    BY ShapedFrames DEF FramesAfter
  <2>2. CASE Old(i)
    BY <1>6, <2>2 DEF Old
  <2>3. CASE Fresh(frames'[i], i)
    <3>1. frames'[i].start = [count EXCEPT !.bad = bad]
      BY <2>3 DEF Fresh
    <3>2. frames'[i].start \in T!Numbers /\ Square(frames'[i].start) /\ UpTo(frames'[i].start, count)
      BY <1>1, <3>1, EntryCounts
    <3>3. QED
      BY <1>1, <1>2, <3>2, UpToTransitive
  <2>4. QED
    BY <2>1, <2>2, <2>3
<1>8. report' \in T!Numbers /\ UpTo(T!Zero, report') /\ Square(report')
  <2>1. CASE report' = report
    BY <1>1, <2>1
  <2>2. CASE Closes /\ report' # report
    <3>1. /\ frames # <<>> /\ T!Finally(T!Top)
      BY <2>2 DEF Closes
    <3>2. T!Top.kind = "testset" /\ report' = T!Report(T!Top, count', bad')
      BY <2>2, <3>1 DEF T!Finally
    <3>3. T!Top = frames[Len(frames)] /\ Len(frames) \in DOMAIN frames
      BY <1>1, <3>1, BelowFacts
    <3>4. /\ T!Top.start \in T!Numbers /\ Square(T!Top.start) /\ UpTo(T!Top.start, count')
      BY <1>6, <3>2, <3>3
    <3>5. QED
      BY <1>2, <1>4, <3>2, <3>4, ReportFacts
  <2>3. QED
    BY <2>1, <2>2 DEF Shaped, Stays, Opens, OpensTwo, Turns
<1> QED
  BY <1>4, <1>5, <1>7, <1>8 DEF Ledger

LEMMA BookkeepingStep ==
  ASSUME ExtentsInv, Shaped
  PROVE  /\ T!BookkeepingMatchesNesting'
         /\ postprocs' \in Seq(T!Postprocs) /\ barrier' \in Seq({"up", "down"})
<1>1. postprocs \in Seq(T!Postprocs) /\ barrier \in Seq({"up", "down"})
  BY DEF ExtentsInv, Data
<1>2. CASE Stays
  BY <1>1, <1>2, StaysBookkeeping DEF Stays, SameNesting
<1>3. CASE Closes
  BY <1>3, ClosesBookkeeping
<1>4. ASSUME NEW f \in T!Frames, Opens(f)
      PROVE  /\ T!BookkeepingMatchesNesting'
             /\ postprocs' \in Seq(T!Postprocs) /\ barrier' \in Seq({"up", "down"})
  BY <1>4, OpensBookkeeping
<1>5. ASSUME NEW f \in T!Frames, Turns(f)
      PROVE  /\ T!BookkeepingMatchesNesting'
             /\ postprocs' \in Seq(T!Postprocs) /\ barrier' \in Seq({"up", "down"})
  BY <1>1, <1>5, TurnsBookkeeping DEF Turns, SameNesting
<1>6. ASSUME NEW f \in T!Frames, NEW g \in T!Frames, OpensTwo(f, g)
      PROVE  /\ T!BookkeepingMatchesNesting'
             /\ postprocs' \in Seq(T!Postprocs) /\ barrier' \in Seq({"up", "down"})
  BY <1>1, <1>6, OpensTwoBookkeeping DEF OpensTwo
<1> QED
  BY <1>2, <1>3, <1>4, <1>5, <1>6 DEF Shaped

LEMMA DataStep ==
  ASSUME ExtentsInv, Shaped, CountsOn
  PROVE  Data'
<1>1. count' \in T!Numbers /\ bad' \in Nat /\ report' \in T!Numbers
  BY LedgerStep DEF CountsOn
<1>2. postprocs' \in Seq(T!Postprocs) /\ barrier' \in Seq({"up", "down"})
  BY BookkeepingStep
<1>3. /\ frames' \in Seq(T!Frames)
      /\ \A i \in DOMAIN frames' : /\ frames'[i].at <= i
                                   /\ frames'[i].kind = "barrier" => frames'[i].arg # "none"
  <2>1. \A i \in DOMAIN frames : /\ frames[i].at <= i
                                 /\ frames[i].kind = "barrier" => frames[i].arg # "none"
    BY DEF ExtentsInv, Data
  <2>2. QED
    BY <2>1, ShapedFrames DEF FramesAfter, Old, Fresh
<1>4. nesting' \in Nat
  <2>1. nesting' = Cardinality(T!Testsets')
    BY BookkeepingStep, BookkeepingParts
  <2>2. Len(frames') \in Nat /\ DOMAIN frames' = 1..Len(frames')
    BY <1>3
  <2>3. T!Testsets' \subseteq 1..Len(frames')
    BY <2>2 DEF T!Testsets
  <2>4. Cardinality(T!Testsets') \in Nat
    BY <2>2, <2>3, RankFacts
  <2>5. QED
    BY <2>1, <2>4
<1> QED
  BY <1>1, <1>2, <1>3, <1>4 DEF Data

LEMMA StepKeepsExtentsInv ==
  ASSUME ExtentsInv, T!Next
  PROVE  ExtentsInv'
<1>1. Shaped /\ CountsOn /\ ending' \in BOOLEAN
  BY NextShape, NextCounts, NextEnding DEF ExtentsInv
<1>2. Data'
  BY <1>1, DataStep
<1>3. Walking'
  BY <1>1, ShapedFrames, WalkingStep
<1>4. Escaping' /\ T!FailuresAreHeard'
  BY <1>1, EscapingStep, HeardStep
<1>5. Ledger'
  BY <1>1, LedgerStep
<1>6. T!BookkeepingMatchesNesting'
  BY <1>1, BookkeepingStep
<1> QED
  BY <1>1, <1>2, <1>3, <1>4, <1>5, <1>6 DEF ExtentsInv

LEMMA StutterKeepsExtentsInv ==
  ASSUME ExtentsInv, UNCHANGED tvars
  PROVE  ExtentsInv'
<1>1. /\ frames' = frames /\ nesting' = nesting /\ postprocs' = postprocs /\ barrier' = barrier
      /\ count' = count /\ exc' = exc /\ bad' = bad /\ report' = report /\ ending' = ending
  BY DEF tvars
<1>2. Data' /\ ending' \in BOOLEAN
  BY <1>1 DEF ExtentsInv, Data
<1>3. Walking' /\ Escaping'
  BY <1>1 DEF ExtentsInv, Walking, Escaping, ArrivesIn
<1>4. Ledger'
  BY <1>1 DEF ExtentsInv, Ledger
<1>5. T!FailuresAreHeard'
  BY <1>1 DEF ExtentsInv, T!FailuresAreHeard, T!Top
<1>6. T!BookkeepingMatchesNesting'
  <2>1. /\ T!Testsets' = T!Testsets /\ T!Places("testset")' = T!Places("testset")
        /\ T!Places("barrier")' = T!Places("barrier")
    BY <1>1 DEF T!Testsets, T!Places
  <2>2. QED
    BY <1>1, <2>1, BookkeepingSame DEF SameNesting
<1> QED
  BY <1>2, <1>3, <1>4, <1>5, <1>6 DEF ExtentsInv

LEMMA InitExtentsInv ==
  ASSUME T!Init
  PROVE  ExtentsInv
<1>1. /\ frames = <<>> /\ nesting = 0 /\ postprocs = <<>> /\ barrier = <<"up">>
      /\ count = T!Zero /\ exc = T!None /\ bad = 0 /\ report = T!Zero /\ ending = FALSE
  BY DEF T!Init
<1>2. T!Zero \in T!Numbers /\ T!Zero.failed = 0 /\ T!Zero.errored = 0
  BY DEF T!Zero, T!Numbers
<1>3. Data
  BY <1>1, <1>2 DEF Data
<1>4. Walking /\ Escaping /\ T!FailuresAreHeard
  BY <1>1 DEF Walking, Escaping, ArrivesIn, T!None, T!FailuresAreHeard
<1>5. Ledger
  BY <1>1 DEF Ledger, UpTo, Square, T!Zero
<1>6. T!BookkeepingMatchesNesting
  <2>1. T!Testsets = {} /\ T!Places("testset") = {} /\ T!Places("barrier") = {}
    BY <1>1 DEF T!Testsets, T!Places
  <2>2. Cardinality({}) = 0
    BY FS_EmptySet
  <2>3. Len(postprocs) = 0 /\ Len(barrier) = 1 /\ barrier[Len(barrier)] = "up"
    BY <1>1
  <2>4. Lists(postprocs, {}, frames) /\ Lists(barrier, {}, frames)
    BY DEF Lists
  <2>5. Lists(postprocs, T!Places("testset"), frames) /\ Lists(barrier, T!Places("barrier"), frames)
    BY <2>1, <2>4
  <2>6. /\ Cardinality(T!Testsets) = 0 /\ Cardinality(T!Places("testset")) = 0
        /\ Cardinality(T!Places("barrier")) = 0 /\ nesting = 0
    BY <1>1, <2>1, <2>2
  <2>7. QED
    BY <2>3, <2>5, <2>6, BookkeepingParts
<1> QED
  BY <1>1, <1>3, <1>4, <1>5, <1>6 DEF ExtentsInv

------------------------------------------------------------------------------
(***************************************************************************)
(* The theorems                                                            *)
(***************************************************************************)
\* What is not a behaviour's subject stays as it is.
LEMMA Extents == MCSpec => [](IInv /\ ExtentsInv)
<1>1. MCInit => IInv /\ ExtentsInv
  BY InitIInv, InitExtentsInv, DynassignAssumption DEF MCInit
<1>2. IInv /\ ExtentsInv /\ [MCNext]_<<vars, tvars, subject>> => (IInv /\ ExtentsInv)'
  <2> SUFFICES ASSUME IInv, ExtentsInv, [MCNext]_<<vars, tvars, subject>>
               PROVE  IInv' /\ ExtentsInv'
    OBVIOUS
  <2>1. [Next]_vars
    BY DEF MCNext
  <2>2. IInv'
    BY <2>1, StepKeepsIInv, DynassignAssumption
  <2>3. CASE T!Next
    BY <2>2, <2>3, StepKeepsExtentsInv
  <2>4. CASE UNCHANGED tvars
    BY <2>2, <2>4, StutterKeepsExtentsInv
  <2>5. QED
    BY <2>3, <2>4 DEF MCNext
<1> QED
  BY <1>1, <1>2, PTL DEF MCSpec

\* However the constructs of the testing framework are left, by their end, an
\* exception, an escaping restart or terminate, the nesting level, the
\* postprocs and the signal barriers of the thread are those of the constructs
\* still being executed (the `finally` clauses of fixtures.py).
THEOREM Bookkeeping == MCSpec => []BookkeepingMatchesNesting
<1>1. ExtentsInv => BookkeepingMatchesNesting
  BY DEF ExtentsInv, BookkeepingMatchesNesting
<1> QED
  BY <1>1, Extents, PTL

\* A failing test is heard by the innermost testset, and what a testset
\* reports is what went wrong in it: its failures and errors are together
\* exactly as many as the tests that went wrong, the stray signals that
\* testsets met and the exceptions that ended one, within.
THEOREM FailuresReported == MCSpec => []FailuresAreReported
<1>1. ASSUME ExtentsInv
      PROVE  FailuresAreReported
  <2>1. T!FailuresAreHeard /\ UpTo(T!Zero, report) /\ Square(report) /\ report \in T!Numbers
    BY <1>1 DEF ExtentsInv, Ledger, Data
  <2>2. /\ report.run \in Int /\ report.failed \in Int /\ report.errored \in Int
        /\ report.warned \in Int /\ report.bad \in Int
    BY <2>1 DEF T!Numbers
  <2>3. T!ReportsTellTheTruth
    BY <2>1, <2>2 DEF T!ReportsTellTheTruth, UpTo, Square, T!Zero
  <2>4. QED
    BY <2>1, <2>3 DEF FailuresAreReported
<1> QED
  BY <1>1, Extents, PTL

\* Type correctness of both modules: a thread's stacks and scopes, the records
\* of the testing framework, and the frame that an exception is on its way to.
THEOREM ExtentsTypes == MCSpec => []MCTypeOK
<1>1. ASSUME IInv, ExtentsInv
      PROVE  MCTypeOK
  <2>1. TypeOK
    BY <1>1 DEF IInv
  <2>2. /\ Data /\ ending \in BOOLEAN /\ ArrivesIn(exc, frames, Len(frames))
        /\ Len(frames) \in Nat
    BY <1>1 DEF ExtentsInv, Escaping, Data
  <2>3. exc \in [kind : {"none", "error", "exit", "restart"}, to : 0..Len(frames)]
    <3>1. exc.to \in 0..Len(frames)
      BY <2>2 DEF ArrivesIn
    <3>2. QED
      BY <2>2, <3>1 DEF ArrivesIn
  <2>4. T!TypeOK
    BY <2>2, <2>3 DEF Data, T!TypeOK
  <2>5. QED
    BY <2>1, <2>4 DEF MCTypeOK
<1> QED
  BY <1>1, Extents, PTL
==============================================================================
