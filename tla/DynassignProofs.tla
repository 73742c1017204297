-------------------------- MODULE DynassignProofs --------------------------
(***************************************************************************)
(* What holds of the stacks of scopes for any number of threads, and all   *)
(* names, values, bindings, updates and bounds.                            *)
(***************************************************************************)
EXTENDS Dynassign, SequenceTheorems, WellFoundedInduction, TLAPS

Popped(q) == SubSeq(q, 1, Len(q) - 1)
Pushed(q, e) == Append(q, e)

\* Removing the last element of a nonempty sequence
LEMMA PoppedFacts ==
  ASSUME NEW S, NEW q \in Seq(S), q # <<>>
  PROVE  /\ Popped(q) \in Seq(S)
         /\ Len(Popped(q)) = Len(q) - 1
         /\ Len(q) - 1 \in Nat
         /\ \A k \in 1..(Len(q) - 1) : Popped(q)[k] = q[k]
  <1>1. Len(q) \in Nat /\ Len(q) >= 1
    BY EmptySeq
  <1> DEFINE n == Len(q) - 1
  <1>2. n \in Nat /\ \A k \in 1..n : q[k] \in S
    BY <1>1
  <1>3. /\ SubSeq(q, 1, n) \in Seq(S)
        /\ Len(SubSeq(q, 1, n)) = IF 1 <= n THEN n - 1 + 1 ELSE 0
        /\ \A i \in 1..(n - 1 + 1) : SubSeq(q, 1, n)[i] = q[1 + i - 1]
    <2> HIDE DEF n
    <2> QED BY <1>2, SubSeqProperties
  <1>4. n - 1 + 1 = n /\ (IF 1 <= n THEN n - 1 + 1 ELSE 0) = n
    <2> HIDE DEF n
    <2> QED BY <1>2
  <1>5. \A k \in 1..n : 1 + k - 1 = k
    BY <1>2
  <1>6. \A k \in 1..n : SubSeq(q, 1, n)[k] = q[k]
    <2> HIDE DEF n
    <2> QED BY <1>3, <1>4, <1>5
  <1>7. QED
    BY <1>2, <1>3, <1>4, <1>6 DEF Popped

LEMMA ConcatFacts ==
  ASSUME NEW S, NEW q \in Seq(S), NEW r \in Seq(S)
  PROVE  /\ q \o r \in Seq(S) /\ Len(q \o r) = Len(q) + Len(r)
         /\ Len(q) \in Nat /\ Len(r) \in Nat
         /\ \A k \in 1..(Len(q) + Len(r)) :
              (q \o r)[k] = IF k <= Len(q) THEN q[k] ELSE r[k - Len(q)]
  OBVIOUS

\* The last element of a concatenation is that of its second part.
LEMMA PoppedConcat ==
  ASSUME NEW S, NEW q \in Seq(S), NEW r \in Seq(S), r # <<>>
  PROVE  Popped(q \o r) = q \o Popped(r)
  <1> DEFINE c == q \o r
             f == Popped(r)
             g == Popped(c)
             n == Len(q)
             m == Len(r)
  <1>1. /\ c \in Seq(S) /\ Len(c) = n + m
        /\ n \in Nat /\ m \in Nat /\ m >= 1
        /\ \A k \in 1..(n + m) : c[k] = IF k <= n THEN q[k] ELSE r[k - n]
    BY EmptySeq, ConcatFacts
  <1>2. c # <<>>
    <2>1. Len(c) # 0
      <3> HIDE DEF c, n, m
      <3> QED BY <1>1
    <2>2. QED
      BY <2>1
  <1>3. /\ g \in Seq(S)
        /\ Len(g) = Len(c) - 1
        /\ \A k \in 1..(Len(c) - 1) : g[k] = c[k]
    <2> HIDE DEF c
    <2> QED BY <1>1, <1>2, PoppedFacts
  <1>4. f \in Seq(S) /\ Len(f) = m - 1 /\ \A k \in 1..(m - 1) : f[k] = r[k]
    BY PoppedFacts
  <1>5. /\ q \o f \in Seq(S) /\ Len(q \o f) = n + Len(f)
        /\ \A k \in 1..(n + Len(f)) : (q \o f)[k] = IF k <= n THEN q[k] ELSE f[k - n]
    <2>1. f \in Seq(S)
      BY <1>4
    <2> HIDE DEF f
    <2>2. QED
      BY <2>1, ConcatFacts
  <1> DEFINE h == q \o f
  <1>6. h \in Seq(S) /\ Len(h) = Len(g)
        /\ \A k \in 1..Len(g) : h[k] = IF k <= n THEN q[k] ELSE f[k - n]
    <2> HIDE DEF c, f, g, n, m
    <2> QED BY <1>1, <1>3, <1>4, <1>5
  <1>7. ASSUME NEW k \in 1..Len(g)
        PROVE  g[k] = h[k]
    <2> HIDE DEF c, f, g, h, n, m
    <2>1. k \in 1..(n + m) /\ g[k] = c[k] /\ (k > n => k - n \in 1..(m - 1))
      BY <1>1, <1>3
    <2>2. CASE k <= n
      BY <2>1, <2>2, <1>1, <1>6
    <2>3. CASE ~ (k <= n)
      <3>1. k > n
        BY <2>3, <1>1, <1>3
      <3>2. f[k - n] = r[k - n]
        BY <3>1, <2>1, <1>4
      <3>3. QED
        BY <3>2, <2>1, <2>3, <1>1, <1>6
    <2>4. QED
      BY <2>2, <2>3
  <1>8. g = h
    <2> HIDE DEF g, h
    <2> QED BY <1>3, <1>6, <1>7, SeqEqual
  <1>9. QED
    BY <1>8

LEMMA PushedConcat ==
  ASSUME NEW S, NEW q \in Seq(S), NEW r \in Seq(S), NEW e \in S
  PROVE  Pushed(q \o r, e) = q \o Pushed(r, e)
  <1>1. /\ Append(q \o r, e) \in Seq(S) /\ q \o Append(r, e) \in Seq(S)
        /\ Len(Append(q \o r, e)) = Len(q) + Len(r) + 1
        /\ Len(q \o Append(r, e)) = Len(q) + Len(r) + 1
        /\ Len(q) \in Nat /\ Len(r) \in Nat
    OBVIOUS
  <1>2. ASSUME NEW k \in 1..(Len(q) + Len(r) + 1)
        PROVE  Append(q \o r, e)[k] = (q \o Append(r, e))[k]
    <2>1. CASE k <= Len(q)
      BY <2>1, <1>1
    <2>2. CASE k > Len(q) /\ k <= Len(q) + Len(r)
      BY <2>2, <1>1
    <2>3. CASE k = Len(q) + Len(r) + 1
      BY <2>3, <1>1
    <2>4. QED
      BY <2>1, <2>2, <2>3, <1>1
  <1>3. Append(q \o r, e) = q \o Append(r, e)
    BY <1>1, <1>2, SeqEqual
  <1>4. QED
    BY <1>3 DEF Pushed

\* A sequence of identities remains one when scopes are added.
LEMMA SeqMonotone ==
  ASSUME NEW S, NEW T, S \subseteq T
  PROVE  Seq(S) \subseteq Seq(T)
  OBVIOUS

LEMMA ElementsOf ==
  ASSUME NEW S, NEW q \in Seq(S)
  PROVE  Elements(q) \subseteq S
  BY DEF Elements

LEMMA ElementsOfConcat ==
  ASSUME NEW S, NEW q \in Seq(S), NEW r \in Seq(S)
  PROVE  Elements(q \o r) = Elements(q) \cup Elements(r)
  <1>1. Len(q) \in Nat /\ Len(r) \in Nat /\ Len(q \o r) = Len(q) + Len(r)
    OBVIOUS
  <1>2. Elements(q \o r) \subseteq Elements(q) \cup Elements(r)
    <2> SUFFICES ASSUME NEW i \in 1..Len(q \o r)
                 PROVE  (q \o r)[i] \in Elements(q) \cup Elements(r)
      BY DEF Elements
    <2>1. CASE i <= Len(q)
      BY <2>1, <1>1 DEF Elements
    <2>2. CASE i > Len(q)
      <3>1. i - Len(q) \in 1..Len(r) /\ (q \o r)[i] = r[i - Len(q)]
        BY <2>2, <1>1
      <3>2. QED
        BY <3>1 DEF Elements
    <2>3. QED
      BY <2>1, <2>2, <1>1
  <1>3. Elements(q) \subseteq Elements(q \o r)
    <2> SUFFICES ASSUME NEW i \in 1..Len(q) PROVE q[i] \in Elements(q \o r)
      BY DEF Elements
    <2>1. i \in 1..Len(q \o r) /\ (q \o r)[i] = q[i]
      BY <1>1
    <2>2. QED
      BY <2>1 DEF Elements
  <1>4. Elements(r) \subseteq Elements(q \o r)
    <2> SUFFICES ASSUME NEW i \in 1..Len(r) PROVE r[i] \in Elements(q \o r)
      BY DEF Elements
    <2>1. i + Len(q) \in 1..Len(q \o r) /\ (q \o r)[i + Len(q)] = r[i]
      BY <1>1
    <2>2. QED
      BY <2>1 DEF Elements
  <1>5. QED
    BY <1>2, <1>3, <1>4

LEMMA ElementsFacts ==
  ASSUME NEW S, NEW q \in Seq(S), NEW e \in S
  PROVE  /\ Elements(Append(q, e)) = Elements(q) \cup {e}
         /\ q # <<>> => Elements(Popped(q)) \subseteq Elements(q)
  <1>1. Elements(Append(q, e)) = Elements(q) \cup {e}
    <2>1. /\ Len(q) \in Nat
          /\ Len(Append(q, e)) = Len(q) + 1 /\ Append(q, e)[Len(q) + 1] = e
      OBVIOUS
    <2>2. \A i \in 1..Len(q) : Append(q, e)[i] = q[i] /\ i \in 1..(Len(q) + 1)
      BY <2>1
    <2>3. \A i \in 1..(Len(q) + 1) : i \in 1..Len(q) \/ i = Len(q) + 1
      BY <2>1
    <2>4. Len(q) + 1 \in 1..(Len(q) + 1)
      BY <2>1
    <2>5. QED
      BY <2>1, <2>2, <2>3, <2>4 DEF Elements
  <1>2. ASSUME q # <<>> PROVE Elements(Popped(q)) \subseteq Elements(q)
    <2>1. \A i \in 1..(Len(q) - 1) : i \in 1..Len(q)
      OBVIOUS
    <2>2. QED
      BY <2>1, <1>2, PoppedFacts DEF Elements
  <1>3. QED
    BY <1>1, <1>2

------------------------------------------------------------------------------
(***************************************************************************)
(* Resolving a name and writing to what it resolves to                     *)
(***************************************************************************)
\* A nonempty set of positions has a largest member.
LEMMA LargestPosition ==
  ASSUME NEW n \in Nat, NEW P \in SUBSET (1..n), P # {}
  PROVE  \E i \in P : \A k \in P : k <= i
  <1> DEFINE T == {n - i : i \in P}
  <1>1. T \subseteq Nat /\ T # {}
    <2>1. \A i \in P : n - i \in Nat
      OBVIOUS
    <2>2. PICK i \in P : TRUE
      OBVIOUS
    <2>3. n - i \in T
      BY <2>2
    <2>4. QED
      BY <2>1, <2>3
  <1>2. PICK x \in T : \A y \in T : ~ (<<y, x>> \in OpToRel(<, Nat))
    BY <1>1, WFMin, NatLessThanWellFounded
  <1>3. \A y \in T : ~ (y < x)
    BY <1>1, <1>2 DEF OpToRel
  <1>4. PICK i \in P : x = n - i
    OBVIOUS
  <1>5. ASSUME NEW k \in P PROVE k <= i
    <2>1. ~ (n - k < n - i)
      BY <1>3, <1>4
    <2>2. QED
      BY <2>1
  <1>6. QED
    BY <1>5

LEMMA ResolveFacts ==
  ASSUME TypeOK, NEW q \in Seq(Identities), NEW n \in Names
  PROVE  /\ Resolve(q, n) \in Identities \cup {Global}
         /\ Value(q, n) \in Values \cup {Unbound}
         /\ LocalValue(q, n) \in Values \cup {Unbound}
  <1>1. Resolve(q, n) \in Identities \cup {Global}
    <2>1. CASE Binds(q, n) = {}
      BY <2>1 DEF Resolve
    <2>2. CASE Binds(q, n) # {}
      <3> DEFINE P == Binds(q, n)
      <3>1. P \in SUBSET (1..Len(q)) /\ Len(q) \in Nat
        BY DEF Binds
      <3>2. \E i \in P : \A k \in P : k <= i
        <4> HIDE DEF P
        <4> QED BY <2>2, <3>1, LargestPosition DEF P
      <3>3. (CHOOSE i \in P : \A k \in P : k <= i) \in 1..Len(q)
        <4> HIDE DEF P
        <4> QED BY <3>1, <3>2
      <3>4. QED
        BY <2>2, <3>3 DEF Resolve
    <2>3. QED
      BY <2>1, <2>2
  <1>2. \A s \in Identities \cup {Global} : Contents(s) \in Scope
    BY DEF TypeOK, Contents, Identities, Global
  <1>3. Value(q, n) \in Values \cup {Unbound}
    BY <1>1, <1>2 DEF Value, Scope
  <1>4. QED
    BY <1>1, <1>3 DEF LocalValue

LEMMA WriteFacts ==
  ASSUME TypeOK, NEW w \in Writes, Write(w[1], w[2], w[3])
  PROVE  scopes' \in Seq(Scope) /\ Len(scopes') = Len(scopes) /\ globals' \in Scope
  <1>1. w[1] \in Identities \cup {Global} /\ w[2] \in Names /\ w[3] \in Values
    BY DEF Writes
  <1>2. CASE w[1] = Global
    <2>1. globals' = [globals EXCEPT ![w[2]] = w[3]] /\ scopes' = scopes
      BY <1>2 DEF Write
    <2>2. QED
      BY <2>1, <1>1 DEF TypeOK, Scope
  <1>3. CASE w[1] # Global
    <2>1. scopes' = [scopes EXCEPT ![w[1]][w[2]] = w[3]] /\ globals' = globals
      BY <1>3 DEF Write
    <2>2. w[1] \in 1..Len(scopes) /\ scopes[w[1]] \in Scope
      BY <1>1, <1>3 DEF TypeOK, Identities
    <2>3. [scopes[w[1]] EXCEPT ![w[2]] = w[3]] \in Scope
      BY <2>2, <1>1 DEF Scope
    <2>4. scopes' = [scopes EXCEPT ![w[1]] = [scopes[w[1]] EXCEPT ![w[2]] = w[3]]]
      BY <2>1
    <2>5. QED
      BY <2>1, <2>2, <2>3, <2>4 DEF TypeOK
  <1>4. QED
    BY <1>2, <1>3

\* What a view shows is a sequence of scopes.
LEMMA MapsFacts ==
  ASSUME NEW S, NEW q \in Seq(S)
  PROVE  Maps(q) \in Seq(S \cup {Global})
  <1>1. [i \in 1..Len(q) |-> q[Len(q) + 1 - i]] \in Seq(S)
    <2>1. Len(q) \in Nat /\ \A i \in 1..Len(q) : q[Len(q) + 1 - i] \in S
      OBVIOUS
    <2>2. QED
      BY <2>1
  <1>2. QED
    BY <1>1 DEF Maps

------------------------------------------------------------------------------
(***************************************************************************)
(* The inductive invariant                                                 *)
(***************************************************************************)
\* A thread that has not used dyn has entered nothing.
NothingBeforeUse ==
  /\ Main \in using
  /\ \A t \in Threads \ using :
       /\ stack[t] = <<>> /\ blocks[t] = <<>>
       /\ inherited[t] = <<>> /\ views[t] = <<>>

\* No scope belongs to blocks of two threads.
BlocksOfOneThread ==
  \A t, u \in Threads : t # u => Elements(blocks[t]) \cap Elements(blocks[u]) = {}

IInv == TypeOK /\ StacksFollowBlocks /\ NothingBeforeUse /\ BlocksOfOneThread

LEMMA InitIInv ==
  ASSUME DynassignAssumption, Init
  PROVE  IInv
  <1>1. Empty \in Scope
    BY DEF Empty, Scope
  <1>2. TypeOK
    BY <1>1 DEF Init, TypeOK, Threads
  <1>3. StacksFollowBlocks
    BY DEF Init, StacksFollowBlocks
  <1>4. NothingBeforeUse /\ BlocksOfOneThread
    BY DEF Init, NothingBeforeUse, BlocksOfOneThread, Elements
  <1>5. QED
    BY <1>2, <1>3, <1>4 DEF IInv

\* A step that leaves the stacks alone, and writes what is in the scopes
Rewrites ==
  /\ UNCHANGED <<using, stack, blocks, views, inherited>>
  /\ scopes' \in Seq(Scope) /\ Len(scopes') = Len(scopes)
  /\ globals' \in Scope
  /\ updating' \in [Threads -> Seq(Writes)]
  /\ spawned' \in [Threads -> Scope \cup {NotSpawned}]

LEMMA RewritesKeepIInv ==
  ASSUME IInv, Rewrites
  PROVE  IInv'
  <1>1. Identities' = Identities /\ Writes' = Writes
    BY DEF Rewrites, Identities, Writes
  <1>2. TypeOK'
    BY <1>1 DEF Rewrites, TypeOK, IInv
  <1>3. StacksFollowBlocks'
    BY DEF Rewrites, StacksFollowBlocks, IInv, Maps
  <1>4. NothingBeforeUse'
    BY DEF Rewrites, NothingBeforeUse, IInv
  <1>5. BlocksOfOneThread'
    <2>1. blocks' = blocks
      BY DEF Rewrites
    <2>2. \A t \in Threads : Elements(blocks[t])' = Elements(blocks[t])
      BY <2>1 DEF Elements
    <2>3. QED
      BY <2>2 DEF BlocksOfOneThread, IInv
  <1>6. QED
    BY <1>2, <1>3, <1>4, <1>5 DEF IInv

\* The scopes of the blocks of thread t become b.  What is new in b is a scope
\* that did not exist before.
Restacks(t, b) ==
  /\ SetStack(t, inherited[t] \o b)
  /\ blocks' = [blocks EXCEPT ![t] = b]
  /\ UNCHANGED <<globals, using, inherited, updating, spawned>>
  /\ scopes' \in Seq(Scope) /\ Len(scopes') >= Len(scopes)
  /\ b \in Seq(Identities')
  /\ Elements(b) \subseteq Elements(blocks[t]) \cup (Identities' \ Identities)

LEMMA RestacksKeepsIInv ==
  ASSUME IInv, NEW t \in using, NEW b, Restacks(t, b)
  PROVE  IInv'
  <1> USE DEF IInv
  <1>t. t \in Threads
    BY DEF TypeOK
  <1>1. Identities \subseteq Identities' /\ Writes \subseteq Writes'
    <2>1. Len(scopes) \in Nat /\ Len(scopes') \in Nat /\ Len(scopes') >= Len(scopes)
      BY DEF TypeOK, Restacks
    <2>2. Identities \subseteq Identities'
      BY <2>1 DEF Identities
    <2>3. QED
      BY <2>2 DEF Writes
  <1> DEFINE I == Identities'
             q == inherited[t] \o b
             m == Maps(q)
  <1>2. q \in Seq(I)
    <2>1. inherited[t] \in Seq(I)
      BY <1>t, <1>1, SeqMonotone DEF TypeOK
    <2>2. b \in Seq(I)
      BY DEF Restacks
    <2> HIDE DEF I
    <2>3. QED
      BY <2>1, <2>2, ConcatFacts
  <1>3. m \in Seq(I \cup {Global})
    <2> HIDE DEF I, q
    <2> QED BY <1>2, MapsFacts
  <1>4. /\ stack' = [stack EXCEPT ![t] = q]
        /\ views' = [views EXCEPT ![t] = [i \in 1..Len(views[t]) |-> m]]
    BY DEF Restacks, SetStack
  <1>5. TypeOK'
    <2>1. stack' \in [Threads -> Seq(I)]
      <3>1. \A u \in Threads : stack[u] \in Seq(I)
        BY <1>1, SeqMonotone DEF TypeOK
      <3> HIDE DEF I, q
      <3>2. QED
        BY <3>1, <1>2, <1>4 DEF TypeOK
    <2>2. blocks' \in [Threads -> Seq(I)]
      <3>1. \A u \in Threads : blocks[u] \in Seq(I)
        BY <1>1, SeqMonotone DEF TypeOK
      <3>2. b \in Seq(I) /\ blocks' = [blocks EXCEPT ![t] = b]
        BY DEF Restacks
      <3> HIDE DEF I
      <3>3. QED
        BY <3>1, <3>2 DEF TypeOK
    <2>3. inherited' \in [Threads -> Seq(I)]
      BY <1>1, SeqMonotone DEF TypeOK, Restacks
    <2>4. views' \in [Threads -> Seq(Seq(I \cup {Global}))]
      <3>1. Identities \cup {Global} \subseteq I \cup {Global}
        BY <1>1
      <3>2. Seq(Identities \cup {Global}) \subseteq Seq(I \cup {Global})
        BY <3>1, SeqMonotone
      <3>3. Seq(Seq(Identities \cup {Global})) \subseteq Seq(Seq(I \cup {Global}))
        BY <3>2, SeqMonotone
      <3>4. \A u \in Threads : views[u] \in Seq(Seq(I \cup {Global}))
        BY <3>3 DEF TypeOK
      <3>5. Len(views[t]) \in Nat
        BY <1>t DEF TypeOK
      <3>6. [i \in 1..Len(views[t]) |-> m] \in Seq(Seq(I \cup {Global}))
        <4> HIDE DEF m, I
        <4> QED BY <3>5, <1>3
      <3> HIDE DEF m, I
      <3>7. QED
        BY <3>4, <3>6, <1>4 DEF TypeOK
    <2>5. updating' \in [Threads -> Seq(Writes')]
      BY <1>1, SeqMonotone DEF TypeOK, Restacks
    <2>6. /\ scopes' \in Seq(Scope) /\ globals' \in Scope /\ using' \subseteq Threads
          /\ spawned' \in [Threads -> Scope \cup {NotSpawned}]
      BY DEF TypeOK, Restacks
    <2>7. QED
      BY <2>1, <2>2, <2>3, <2>4, <2>5, <2>6 DEF TypeOK
  <1>6. StacksFollowBlocks'
    <2> SUFFICES ASSUME NEW u \in Threads
                 PROVE  /\ stack'[u] = inherited'[u] \o blocks'[u]
                        /\ \A i \in 1..Len(views'[u]) : views'[u][i] = Maps(stack'[u])
      BY DEF StacksFollowBlocks, Maps
    <2>1. CASE u = t
      <3>1. stack'[u] = q /\ views'[u] = [i \in 1..Len(views[t]) |-> m] /\ blocks'[u] = b
            /\ inherited'[u] = inherited[t]
        BY <1>4, <2>1 DEF Restacks, TypeOK
      <3>2. Len(views[t]) \in Nat
        BY <1>t DEF TypeOK
      <3>3. Len(views'[u]) = Len(views[t])
        <4> HIDE DEF m
        <4> QED BY <3>1, <3>2
      <3>4. \A i \in 1..Len(views'[u]) : views'[u][i] = m
        <4> HIDE DEF m
        <4> QED BY <3>1, <3>3
      <3>5. QED
        BY <3>1, <3>4
    <2>2. CASE u # t
      BY <2>2, <1>4 DEF StacksFollowBlocks, TypeOK, Restacks
    <2>3. QED
      BY <2>1, <2>2
  <1>7. NothingBeforeUse'
    <2> SUFFICES ASSUME NEW u \in Threads \ using
                 PROVE  /\ stack'[u] = <<>> /\ blocks'[u] = <<>>
                        /\ inherited'[u] = <<>> /\ views'[u] = <<>>
      BY DEF NothingBeforeUse, Restacks
    <2>1. u # t
      OBVIOUS
    <2>2. QED
      BY <2>1, <1>4 DEF NothingBeforeUse, Restacks, TypeOK
  <1>8. BlocksOfOneThread'
    <2>1. \A u \in Threads : Elements(blocks[u]) \subseteq Identities
      BY ElementsOf DEF TypeOK
    <2>2. \A u \in Threads :
            Elements(blocks'[u]) \subseteq
              IF u = t THEN Elements(blocks[t]) \cup (Identities' \ Identities) ELSE Elements(blocks[u])
      BY DEF Restacks, TypeOK
    <2>3. \A u, w \in Threads : u # w => Elements(blocks[u]) \cap Elements(blocks[w]) = {}
      BY DEF BlocksOfOneThread
    <2>4. \A u, w \in Threads : u # w => Elements(blocks'[u]) \cap Elements(blocks'[w]) = {}
      BY <2>1, <2>2, <2>3, <1>t
    <2>5. QED
      BY <2>4 DEF BlocksOfOneThread, Elements
  <1>9. QED
    BY <1>5, <1>6, <1>7, <1>8

------------------------------------------------------------------------------
(***************************************************************************)
(* The steps                                                               *)
(***************************************************************************)
LEMMA SpawnRewrites ==
  ASSUME IInv, DynassignAssumption, NEW t \in Threads, Spawn(t)
  PROVE  Rewrites
  <1>1. Main \in Threads /\ stack[Main] \in Seq(Identities)
    BY DEF Threads, IInv, TypeOK
  <1>2. [n \in Names |-> LocalValue(stack[Main], n)] \in Scope
    BY <1>1, ResolveFacts DEF IInv, Scope
  <1> DEFINE bound == [n \in Names |-> LocalValue(stack[Main], n)]
  <1>3. spawned' = [spawned EXCEPT ![t] = bound]
    BY DEF Spawn
  <1>4. spawned' \in [Threads -> Scope \cup {NotSpawned}]
    <2> HIDE DEF bound
    <2> QED BY <1>2, <1>3 DEF bound, IInv, TypeOK
  <1>5. QED
    BY <1>4 DEF Rewrites, Spawn, IInv, TypeOK

LEMMA WritersRewrite ==
  ASSUME IInv, NEW t \in Threads,
         \/ \E n \in Names, v \in Values : Assign(t, n, v)
         \/ ContinueUpdate(t)
  PROVE  Rewrites
  <1> USE DEF IInv
  <1>1. ASSUME NEW n \in Names, NEW v \in Values, Assign(t, n, v)
        PROVE  Rewrites
    <2> DEFINE w == <<Resolve(stack[t], n), n, v>>
    <2>1. stack[t] \in Seq(Identities)
      BY DEF TypeOK
    <2>2. w \in Writes
      BY <2>1, ResolveFacts DEF Writes
    <2>3. Write(w[1], w[2], w[3])
      BY <1>1 DEF Assign
    <2>4. scopes' \in Seq(Scope) /\ Len(scopes') = Len(scopes) /\ globals' \in Scope
      <3> HIDE DEF w
      <3> QED BY <2>2, <2>3, WriteFacts
    <2>5. QED
      BY <1>1, <2>4 DEF Assign, Rewrites, TypeOK
  <1>2. CASE ContinueUpdate(t)
    <2> DEFINE w == Head(updating[t])
    <2>1. updating[t] \in Seq(Writes) /\ updating[t] # <<>>
      BY <1>2 DEF TypeOK, ContinueUpdate
    <2>2. w \in Writes /\ Tail(updating[t]) \in Seq(Writes)
      BY <2>1
    <2>3. Write(w[1], w[2], w[3])
      BY <1>2 DEF ContinueUpdate
    <2>4. scopes' \in Seq(Scope) /\ Len(scopes') = Len(scopes) /\ globals' \in Scope
      <3> HIDE DEF w
      <3> QED BY <2>2, <2>3, WriteFacts
    <2>5. updating' \in [Threads -> Seq(Writes)]
      BY <1>2, <2>2 DEF ContinueUpdate, TypeOK
    <2>6. QED
      BY <1>2, <2>4, <2>5 DEF ContinueUpdate, Rewrites, TypeOK
  <1>3. QED
    BY <1>1, <1>2

LEMMA BeginUpdateRewrites ==
  ASSUME IInv, DynassignAssumption, NEW t \in Threads, NEW u \in Updates, BeginUpdate(t, u)
  PROVE  Rewrites
  <1> USE DEF IInv
  <1>1. stack[t] \in Seq(Identities)
    BY DEF TypeOK
  <1>2. u[1] \in Seq(Names) /\ u[2] \in [Names -> Values]
    BY DEF DynassignAssumption, Update
  <1> DEFINE ws == [i \in 1..Len(u[1]) |->
                      <<Resolve(stack[t], u[1][i]), u[1][i], u[2][u[1][i]]>>]
  <1>3. \A i \in 1..Len(u[1]) : ws[i] \in Writes
    BY <1>1, <1>2, ResolveFacts DEF Writes
  <1>4. ws \in Seq(Writes)
    <2>1. Len(u[1]) \in Nat
      BY <1>2
    <2>2. ws \in [1..Len(u[1]) -> Writes]
      BY <1>3
    <2> HIDE DEF ws
    <2>3. QED
      BY <2>1, <2>2
  <1>5. updating' = [updating EXCEPT ![t] = ws]
    BY DEF BeginUpdate
  <1>6. updating' \in [Threads -> Seq(Writes)]
    <2> HIDE DEF ws
    <2> QED BY <1>4, <1>5 DEF TypeOK
  <1>7. QED
    BY <1>6 DEF BeginUpdate, Rewrites, TypeOK

LEMMA MakeDynvarRewrites ==
  ASSUME IInv, DynassignAssumption, NEW t \in Threads, NEW d \in Defaults, MakeDynvar(t, d[1], d[2])
  PROVE  Rewrites
  <1>1. d[1] \in Names /\ d[2] \in Values
    BY DEF DynassignAssumption
  <1>2. globals' \in Scope
    BY <1>1 DEF MakeDynvar, IInv, TypeOK, Scope
  <1>3. QED
    BY <1>2 DEF MakeDynvar, Rewrites, IInv, TypeOK

LEMMA EnterLetRestacks ==
  ASSUME IInv, DynassignAssumption, NEW t \in Threads, NEW bindings \in Lets, EnterLet(t, bindings)
  PROVE  t \in using /\ Restacks(t, Append(blocks[t], Len(scopes) + 1))
  <1> USE DEF IInv
  <1>1. bindings \in Scope /\ Len(scopes) \in Nat /\ scopes \in Seq(Scope)
    BY DEF DynassignAssumption, TypeOK
  <1>2. scopes' \in Seq(Scope) /\ Len(scopes') = Len(scopes) + 1
    BY <1>1 DEF EnterLet
  <1> DEFINE d == Len(scopes) + 1
             I == Identities'
             b == Append(blocks[t], d)
  <1>3. d \in I /\ d \notin Identities /\ Identities \subseteq I
    BY <1>1, <1>2 DEF Identities
  <1>4. blocks[t] \in Seq(I) /\ inherited[t] \in Seq(I)
    BY <1>3, SeqMonotone DEF TypeOK
  <1>5. b \in Seq(I) /\ Elements(b) \subseteq Elements(blocks[t]) \cup (I \ Identities)
    <2> HIDE DEF I, d
    <2> QED BY <1>3, <1>4, ElementsFacts
  <1>6. Append(stack[t], d) = inherited[t] \o b
    <2>1. stack[t] = inherited[t] \o blocks[t]
      BY DEF StacksFollowBlocks
    <2>2. Pushed(inherited[t] \o blocks[t], d) = inherited[t] \o Pushed(blocks[t], d)
      <3>1. Identities \subseteq Nat /\ d \in Nat
        BY <1>1 DEF Identities
      <3>2. inherited[t] \in Seq(Nat) /\ blocks[t] \in Seq(Nat)
        BY <3>1, SeqMonotone DEF TypeOK
      <3>3. \A q, r \in Seq(Nat), e \in Nat : Pushed(q \o r, e) = q \o Pushed(r, e)
        BY PushedConcat
      <3>4. QED
        BY <3>1, <3>2, <3>3
    <2>3. QED
      BY <2>1, <2>2 DEF Pushed
  <1>7. /\ SetStack(t, inherited[t] \o b)
        /\ blocks' = [blocks EXCEPT ![t] = b]
    BY <1>6 DEF EnterLet
  <1>8. QED
    BY <1>1, <1>2, <1>5, <1>7 DEF Restacks, EnterLet, Ready

LEMMA ExitLetRestacks ==
  ASSUME IInv, NEW t \in Threads, ExitLet(t)
  PROVE  t \in using /\ Restacks(t, Popped(blocks[t]))
  <1> USE DEF IInv
  <1>1. /\ blocks[t] \in Seq(Identities) /\ blocks[t] # <<>>
        /\ inherited[t] \in Seq(Identities) /\ Identities' = Identities
        /\ Len(scopes) \in Nat
    BY DEF TypeOK, ExitLet, Identities
  <1> DEFINE b == Popped(blocks[t])
  <1>2. b \in Seq(Identities') /\ Elements(b) \subseteq Elements(blocks[t])
    BY <1>1, PoppedFacts, ElementsFacts
  <1>3. Popped(stack[t]) = inherited[t] \o b
    <2>1. stack[t] = inherited[t] \o blocks[t]
      BY DEF StacksFollowBlocks
    <2>2. QED
      BY <2>1, <1>1, PoppedConcat
  <1>4. SetStack(t, inherited[t] \o b)
    <2>1. SetStack(t, Popped(stack[t]))
      BY DEF ExitLet, Popped
    <2>2. QED
      BY <2>1, <1>3
  <1>5. blocks' = [blocks EXCEPT ![t] = b]
    BY DEF ExitLet, Popped
  <1>6. /\ UNCHANGED <<globals, using, inherited, updating, spawned>>
        /\ scopes' \in Seq(Scope) /\ Len(scopes') >= Len(scopes) /\ t \in using
    BY <1>1 DEF ExitLet, Ready, TypeOK
  <1> HIDE DEF b
  <1>7. Restacks(t, b)
    BY <1>2, <1>4, <1>5, <1>6 DEF Restacks
  <1>8. QED
    BY <1>6, <1>7 DEF b

LEMMA FirstUseKeepsIInv ==
  ASSUME IInv, DynassignAssumption, NEW t \in Threads, FirstUse(t)
  PROVE  IInv'
  <1> USE DEF IInv
  <1>1. Identities' = Identities /\ Writes' = Writes
    BY DEF FirstUse, Identities, Writes
  <1>2. Main \in Threads /\ stack[Main] \in Seq(Identities)
    BY DEF Threads, TypeOK
  <1>3. TypeOK'
    BY <1>1, <1>2 DEF TypeOK, FirstUse
  <1>4. StacksFollowBlocks'
    <2> SUFFICES ASSUME NEW u \in Threads
                 PROVE  /\ stack'[u] = inherited'[u] \o blocks'[u]
                        /\ \A i \in 1..Len(views'[u]) : views'[u][i] = Maps(stack'[u])
      BY DEF StacksFollowBlocks, Maps
    <2>1. CASE u = t
      <3>1. /\ stack'[u] = stack[Main] /\ inherited'[u] = stack[Main]
            /\ blocks'[u] = <<>> /\ views'[u] = <<>>
        BY <2>1 DEF FirstUse, TypeOK, NothingBeforeUse
      <3>2. stack[Main] \o <<>> = stack[Main]
        BY <1>2
      <3>3. QED
        BY <3>1, <3>2
    <2>2. CASE u # t
      BY <2>2 DEF FirstUse, StacksFollowBlocks, TypeOK
    <2>3. QED
      BY <2>1, <2>2
  <1>5. NothingBeforeUse'
    BY DEF FirstUse, NothingBeforeUse, TypeOK
  <1>6. BlocksOfOneThread'
    <2>1. blocks' = blocks
      BY DEF FirstUse
    <2>2. \A u \in Threads : Elements(blocks[u])' = Elements(blocks[u])
      BY <2>1 DEF Elements
    <2>3. QED
      BY <2>2 DEF BlocksOfOneThread
  <1>7. QED
    BY <1>3, <1>4, <1>5, <1>6

LEMMA CreateViewKeepsIInv ==
  ASSUME IInv, NEW t \in Threads, CreateView(t)
  PROVE  IInv'
  <1> USE DEF IInv
  <1>1. Identities' = Identities /\ Writes' = Writes
    BY DEF CreateView, Identities, Writes
  <1> DEFINE m == Maps(stack[t])
  <1>2. m \in Seq(Identities \cup {Global})
    BY MapsFacts DEF TypeOK
  <1>3. views' = [views EXCEPT ![t] = Append(views[t], m)]
    BY DEF CreateView
  <1>4. views[t] \in Seq(Seq(Identities \cup {Global}))
    BY DEF TypeOK
  <1>5. TypeOK'
    <2>1. views' \in [Threads -> Seq(Seq(Identities \cup {Global}))]
      <3> HIDE DEF m
      <3> QED BY <1>2, <1>3, <1>4 DEF TypeOK
    <2>2. QED
      BY <1>1, <2>1 DEF TypeOK, CreateView
  <1>6. StacksFollowBlocks'
    <2> SUFFICES ASSUME NEW u \in Threads
                 PROVE  /\ stack'[u] = inherited'[u] \o blocks'[u]
                        /\ \A i \in 1..Len(views'[u]) : views'[u][i] = Maps(stack'[u])
      BY DEF StacksFollowBlocks, Maps
    <2>1. stack' = stack /\ inherited' = inherited /\ blocks' = blocks
      BY DEF CreateView
    <2>2. CASE u = t
      <3>1. views'[u] = Append(views[t], m)
        BY <1>3, <2>2 DEF TypeOK
      <3>2. \A i \in 1..Len(views[t]) : views[t][i] = m
        BY <2>2 DEF StacksFollowBlocks
      <3>3. \A i \in 1..Len(views'[u]) : views'[u][i] = m
        <4> HIDE DEF m
        <4> QED BY <3>1, <3>2, <1>2, <1>4
      <3>4. QED
        BY <3>3, <2>1, <2>2 DEF StacksFollowBlocks
    <2>3. CASE u # t
      BY <2>1, <2>3, <1>3 DEF StacksFollowBlocks, TypeOK
    <2>4. QED
      BY <2>2, <2>3
  <1>7. NothingBeforeUse'
    BY <1>3 DEF CreateView, Ready, NothingBeforeUse, TypeOK
  <1>8. BlocksOfOneThread'
    <2>1. blocks' = blocks
      BY DEF CreateView
    <2>2. \A u \in Threads : Elements(blocks[u])' = Elements(blocks[u])
      BY <2>1 DEF Elements
    <2>3. QED
      BY <2>2 DEF BlocksOfOneThread
  <1>9. QED
    BY <1>5, <1>6, <1>7, <1>8

LEMMA StepKeepsIInv ==
  ASSUME IInv, DynassignAssumption, [Next]_vars
  PROVE  IInv'
  <1>1. ASSUME NEW t \in Threads, Step(t)
        PROVE  IInv'
    <2>1. CASE Spawn(t)
      BY <2>1, SpawnRewrites, RewritesKeepIInv
    <2>2. CASE FirstUse(t)
      BY <2>2, FirstUseKeepsIInv
    <2>3. CASE ExitLet(t)
      BY <2>3, ExitLetRestacks, RestacksKeepsIInv
    <2>4. CASE ContinueUpdate(t) \/ \E n \in Names, v \in Values : Assign(t, n, v)
      BY <2>4, WritersRewrite, RewritesKeepIInv
    <2>5. CASE CreateView(t)
      BY <2>5, CreateViewKeepsIInv
    <2>6. ASSUME NEW bindings \in Lets, EnterLet(t, bindings)
          PROVE  IInv'
      BY <2>6, EnterLetRestacks, RestacksKeepsIInv
    <2>7. ASSUME NEW u \in Updates, BeginUpdate(t, u)
          PROVE  IInv'
      BY <2>7, BeginUpdateRewrites, RewritesKeepIInv
    <2>8. ASSUME NEW d \in Defaults, MakeDynvar(t, d[1], d[2])
          PROVE  IInv'
      BY <2>8, MakeDynvarRewrites, RewritesKeepIInv
    <2>9. QED
      BY <1>1, <2>1, <2>2, <2>3, <2>4, <2>5, <2>6, <2>7, <2>8 DEF Step
  <1>2. CASE UNCHANGED vars
    <2>1. Rewrites
      BY <1>2 DEF vars, Rewrites, IInv, TypeOK
    <2>2. QED
      BY <2>1, RewritesKeepIInv
  <1>3. QED
    BY <1>1, <1>2 DEF Next

------------------------------------------------------------------------------
LEMMA Invariance == Spec => []IInv
  <1>1. Init => IInv
    BY InitIInv, DynassignAssumption
  <1>2. IInv /\ [Next]_vars => IInv'
    BY StepKeepsIInv, DynassignAssumption
  <1>3. QED
    BY <1>1, <1>2, PTL DEF Spec

\* In every reachable state the stack of each thread is what it has taken over
\* from the main thread, followed by the blocks it is executing, and all its
\* live views show that stack: _EnvBlock.__enter__ and __exit__ are bracketed,
\* and what has been copied is never popped.
THEOREM StacksDiscipline == Spec => []StacksFollowBlocks
  <1>1. IInv => StacksFollowBlocks
    BY DEF IInv
  <1>2. QED
    BY <1>1, Invariance, PTL

\* The scopes that two threads share are scopes that one of them has taken over
\* in _getstack: what a thread binds with dyn.let is its own.
THEOREM PrivateScopes == Spec => []OnlyInheritedIsShared
  <1>1. ASSUME IInv PROVE OnlyInheritedIsShared
    <2>1. \A t \in Threads : Elements(stack[t]) = Elements(inherited[t]) \cup Elements(blocks[t])
      <3> SUFFICES ASSUME NEW t \in Threads
                   PROVE  Elements(stack[t]) = Elements(inherited[t]) \cup Elements(blocks[t])
        OBVIOUS
      <3>1. /\ inherited[t] \in Seq(Identities) /\ blocks[t] \in Seq(Identities)
            /\ stack[t] = inherited[t] \o blocks[t]
        BY <1>1 DEF IInv, TypeOK, StacksFollowBlocks
      <3>2. QED
        BY <3>1, ElementsOfConcat
    <2>2. \A t, u \in Threads : t # u => Elements(blocks[t]) \cap Elements(blocks[u]) = {}
      BY <1>1 DEF IInv, BlocksOfOneThread
    <2>3. QED
      BY <2>1, <2>2 DEF OnlyInheritedIsShared
  <1>2. QED
    BY <1>1, Invariance, PTL

\* A thread that takes over the main thread's stack finds all or nothing of an
\* update of it: dyn.update holds the lock until its last write, and _getstack
\* waits for it.
THEOREM UpdatesAreWhole == Spec => WholeUpdates
  <1> DEFINE A == \A t \in Threads : t \notin using /\ t \in using' =>
                    \A i \in 1..Len(inherited'[t]) : \A k \in 1..Len(updating[Main]) :
                      updating[Main][k][1] # inherited'[t][i]
  <1>1. ASSUME Next, NEW t \in Threads, t \notin using, t \in using'
        PROVE  updating[Main] = <<>>
    <2>1. PICK u \in Threads : Step(u)
      BY <1>1 DEF Next
    <2>2. FirstUse(u)
      BY <1>1, <2>1 DEF Step, Spawn, EnterLet, ExitLet, Assign, BeginUpdate, ContinueUpdate,
        MakeDynvar, CreateView
    <2>3. QED
      BY <2>2 DEF FirstUse
  <1>2. Next => A
    BY <1>1, EmptySeq
  <1>3. [Next]_vars => [A]_vars
    BY <1>2
  <1>4. QED
    BY <1>3, PTL DEF Spec, WholeUpdates
==============================================================================
