--------------------------- MODULE MemoizeProofs ---------------------------
(***************************************************************************)
(* A memoized function is evaluated at most once for a key, and all calls  *)
(* get the one answer, for any number of threads, functions and keys: to   *)
(* its callers it is one table (MemoTable).                                *)
(* A memoized generator gives every instance its items in order, for any   *)
(* number of threads and items, when an instance is not shared and the     *)
(* generator has its items to itself.                                      *)
(***************************************************************************)
EXTENDS MCMemoization, SequenceTheorems, TLAPS

\* A thread holds the lock of each function it is computing, and of the one
\* whose memo it takes the second look at.
LocksHeld ==
  \A t \in Threads :
    /\ \A i \in 1..Len(comp[t]) : lock[FunctionOf[comp[t][i]]] = t
    /\ pc[t] = "check" => lock[FunctionOf[key[t]]] = t

\* The nested computations of a thread are of ever smaller keys: it never
\* comes back to a key it is computing.
Descending ==
  \A t \in Threads :
    /\ \A i, j \in 1..Len(comp[t]) : i < j => Rank[comp[t][j]] < Rank[comp[t][i]]
    /\ pc[t] \in {"lookup", "acquire", "check"} =>
         \A i \in 1..Len(comp[t]) : Rank[key[t]] < Rank[comp[t][i]]

\* What is being computed is not memoized.
NotYetMemoized ==
  \A t \in Threads : \A i \in 1..Len(comp[t]) : memo[comp[t][i]] = NotYet

\* An evaluation leaves its trace: the key is being computed, or memoized.
Begun == {k \in Keys : \E t \in Threads : \E i \in 1..Len(comp[t]) : comp[t][i] = k}
EvaluationsCounted ==
  \A k \in Keys : memo[k] = NotYet /\ k \notin Begun => evals[k] = 0

\* A thread reads a memo entry only when there is one.
ReadyToRead == \A t \in Threads : pc[t] = "read" => memo[key[t]] # NotYet

IInv == /\ TypeOK /\ LocksHeld /\ Descending /\ NotYetMemoized
        /\ EvaluationsCounted /\ ReadyToRead /\ ComputedOnce /\ AnswersAgree

\* The result of an evaluation is not the absence of one.
LEMMA ResultIsNotNotYet ==
  ASSUME NEW r \in Results
  PROVE  r # NotYet
  BY DEF Results, Kinds, NotYet

LEMMA InitInvariant == Init => IInv
<1> SUFFICES ASSUME Init PROVE IInv
  OBVIOUS
<1> USE MemoizeAssumption
<1>1. TypeOK
  BY DEF Init, TypeOK
<1>2. LocksHeld /\ Descending /\ NotYetMemoized
  BY DEF Init, LocksHeld, Descending, NotYetMemoized
<1>3. EvaluationsCounted /\ ReadyToRead /\ ComputedOnce /\ AnswersAgree
  BY DEF Init, EvaluationsCounted, ReadyToRead, ComputedOnce, AnswersAgree
<1> QED
  BY <1>1, <1>2, <1>3 DEF IInv

LEMMA CallInvariant ==
  ASSUME IInv, NEW t \in Threads, NEW k \in Keys, Call(t, k)
  PROVE  IInv'
<1> USE MemoizeAssumption
<1>1. TypeOK'
  BY DEF IInv, TypeOK, Call
<1>2. LocksHeld'
  BY DEF IInv, TypeOK, LocksHeld, Call
<1>3. Descending'
  <2>1. ASSUME NEW i \in 1..Len(comp[t])
        PROVE  Rank[k] < Rank[comp[t][i]]
    <3> DEFINE n == Len(comp[t])
    <3>1. comp[t] \in Seq(Keys) /\ n \in Nat /\ n >= 1
      BY DEF IInv, TypeOK
    <3>2. comp[t][n] \in Keys /\ comp[t][i] \in Keys
      BY <3>1
    <3>3. Rank[k] < Rank[comp[t][n]]
      BY <3>1, <3>2 DEF Call, Top
    <3>4. Rank[comp[t][n]] <= Rank[comp[t][i]]
      <4>1. CASE i = n
        BY <4>1, <3>2
      <4>2. CASE i < n
        <5>1. n \in 1..Len(comp[t]) /\ i \in 1..Len(comp[t])
          BY <3>1
        <5> HIDE DEF n
        <5>2. Rank[comp[t][n]] < Rank[comp[t][i]]
          BY <4>2, <5>1 DEF IInv, Descending
        <5> QED
          BY <5>2, <3>2
      <4> QED
        BY <4>1, <4>2, <3>1
    <3> QED
      BY <3>2, <3>3, <3>4
  <2> QED
    BY <2>1 DEF IInv, TypeOK, Descending, Call
<1>4. NotYetMemoized' /\ EvaluationsCounted' /\ ReadyToRead' /\ ComputedOnce' /\ AnswersAgree'
  BY DEF IInv, TypeOK, NotYetMemoized, EvaluationsCounted, Begun, ReadyToRead,
         ComputedOnce, AnswersAgree, Call
<1> QED
  BY <1>1, <1>2, <1>3, <1>4 DEF IInv

\* A call that returns the entry of the memo disturbs nothing.
LEMMA ReturnInvariant ==
  ASSUME IInv, NEW t \in Threads, memo[key[t]] # NotYet, Return(t)
  PROVE  IInv'
<1> USE MemoizeAssumption
<1>1. TypeOK'
  BY DEF IInv, TypeOK, Return
<1>2. LocksHeld' /\ Descending' /\ NotYetMemoized' /\ EvaluationsCounted' /\ ReadyToRead' /\ ComputedOnce'
  BY DEF IInv, TypeOK, LocksHeld, Descending, NotYetMemoized, EvaluationsCounted, Begun,
         ReadyToRead, ComputedOnce, Return
<1>3. AnswersAgree'
  BY DEF IInv, TypeOK, AnswersAgree, Return
<1> QED
  BY <1>1, <1>2, <1>3 DEF IInv

LEMMA LookupInvariant ==
  ASSUME IInv, NEW t \in Threads, Lookup(t)
  PROVE  IInv'
<1> USE MemoizeAssumption
<1>1. CASE memo[key[t]] # NotYet /\ Return(t)
  BY <1>1, ReturnInvariant
<1>2. CASE /\ memo[key[t]] = NotYet
           /\ pc' = [pc EXCEPT ![t] = "acquire"]
           /\ UNCHANGED <<memo, lock, comp, key, evals, returned>>
  <2>1. TypeOK'
    BY <1>2 DEF IInv, TypeOK
  <2>2. LocksHeld' /\ Descending'
    BY <1>2 DEF IInv, TypeOK, LocksHeld, Descending, Lookup
  <2>3. NotYetMemoized' /\ EvaluationsCounted' /\ ReadyToRead' /\ ComputedOnce' /\ AnswersAgree'
    BY <1>2 DEF IInv, TypeOK, NotYetMemoized, EvaluationsCounted, Begun, ReadyToRead,
                ComputedOnce, AnswersAgree
  <2> QED
    BY <2>1, <2>2, <2>3 DEF IInv
<1> QED
  BY <1>1, <1>2 DEF Lookup

LEMMA AcquireInvariant ==
  ASSUME IInv, NEW t \in Threads, Acquire(t)
  PROVE  IInv'
<1> USE MemoizeAssumption
<1>1. TypeOK'
  BY DEF IInv, TypeOK, Acquire
<1>2. LocksHeld'
  <2> SUFFICES ASSUME NEW u \in Threads
               PROVE  /\ \A i \in 1..Len(comp[u]) : lock'[FunctionOf[comp[u][i]]] = u
                      /\ pc'[u] = "check" => lock'[FunctionOf[key[u]]] = u
    BY DEF LocksHeld, Acquire
  <2>1. ASSUME NEW f \in Functions, lock[f] = u
        PROVE  lock'[f] = u
    BY <2>1 DEF IInv, TypeOK, Acquire
  <2>2. \A i \in 1..Len(comp[u]) : FunctionOf[comp[u][i]] \in Functions
    BY DEF IInv, TypeOK
  <2>3. FunctionOf[key[u]] \in Functions
    BY DEF IInv, TypeOK
  <2>4. u = t => lock'[FunctionOf[key[u]]] = u
    BY <2>3 DEF IInv, TypeOK, Acquire
  <2>5. u # t => pc'[u] = pc[u]
    BY DEF IInv, TypeOK, Acquire
  <2> QED
    BY <2>1, <2>2, <2>3, <2>4, <2>5 DEF IInv, LocksHeld
<1>3. Descending'
  BY DEF IInv, TypeOK, Descending, Acquire
<1>4. NotYetMemoized' /\ EvaluationsCounted' /\ ReadyToRead' /\ ComputedOnce' /\ AnswersAgree'
  BY DEF IInv, TypeOK, NotYetMemoized, EvaluationsCounted, Begun, ReadyToRead,
         ComputedOnce, AnswersAgree, Acquire
<1> QED
  BY <1>1, <1>2, <1>3, <1>4 DEF IInv

\* Leaving a lock leaves all the locks that are still needed in place.
LEMMA ReleaseKeeps ==
  ASSUME IInv, NEW t \in Threads, NEW f \in Functions, lock[f] = t,
         NEW keys \in SUBSET Keys, Release(t, f, keys)
  PROVE  /\ lock' \in [Functions -> Threads \cup {Nobody}]
         /\ \A g \in Functions : lock[g] # t => lock'[g] = lock[g]
         /\ \A k \in keys : lock[FunctionOf[k]] = t => lock'[FunctionOf[k]] = t
  BY MemoizeAssumption DEF Release, IInv, TypeOK

LEMMA CheckInvariant ==
  ASSUME IInv, NEW t \in Threads, Check(t)
  PROVE  IInv'
<1> USE MemoizeAssumption
<1> DEFINE k == key[t]
<1>1. k \in Keys /\ FunctionOf[k] \in Functions /\ lock[FunctionOf[k]] = t
  BY DEF IInv, TypeOK, LocksHeld, Check
<1>2. CASE /\ memo[k] = NotYet
           /\ comp' = [comp EXCEPT ![t] = Append(@, key[t])]
           /\ evals' = [evals EXCEPT ![key[t]] = @ + 1]
           /\ pc' = [pc EXCEPT ![t] = "user"]
           /\ UNCHANGED <<memo, lock, key, returned>>
  <2> DEFINE n == Len(comp[t])
  <2>1. /\ n \in Nat /\ comp[t] \in Seq(Keys) /\ Len(comp'[t]) = n + 1
        /\ comp'[t][n + 1] = k
        /\ \A i \in 1..n : comp'[t][i] = comp[t][i]
        /\ \A u \in Threads \ {t} : comp'[u] = comp[u]
    BY <1>1, <1>2 DEF IInv, TypeOK
  <2>2. TypeOK'
    BY <1>1, <1>2, <2>1 DEF IInv, TypeOK
  <2>3. k \notin Begun
    <3> SUFFICES ASSUME NEW u \in Threads, NEW i \in 1..Len(comp[u]), comp[u][i] = k
                 PROVE  FALSE
      BY DEF Begun
    <3>1. u = t
      BY <1>1 DEF IInv, LocksHeld
    <3>2. Rank[k] < Rank[comp[u][i]]
      BY <3>1 DEF IInv, Descending, Check
    <3> QED
      BY <3>2, <1>1
  <2>4. evals[k] = 0 /\ evals'[k] = 1
    BY <1>1, <1>2, <2>3 DEF IInv, TypeOK, EvaluationsCounted
  <2>5. LocksHeld'
    <3>1. \A i \in 1..n : lock[FunctionOf[comp[t][i]]] = t
      BY DEF IInv, LocksHeld
    <3> HIDE DEF n, k
    <3>2. ASSUME NEW i \in 1..(n + 1)
          PROVE  lock[FunctionOf[comp'[t][i]]] = t
      <4>1. CASE i = n + 1
        BY <4>1, <2>1, <1>1
      <4>2. CASE i # n + 1
        <5>1. i \in 1..n
          BY <4>2, <2>1
        <5> QED
          BY <5>1, <3>1, <2>1
      <4> QED
        BY <4>1, <4>2
    <3>3. \A u \in Threads \ {t} : /\ \A i \in 1..Len(comp[u]) : lock[FunctionOf[comp[u][i]]] = u
                                   /\ pc[u] = "check" => lock[FunctionOf[key[u]]] = u
      BY DEF IInv, LocksHeld
    <3>4. pc'[t] = "user" /\ \A u \in Threads \ {t} : pc'[u] = pc[u]
      BY <1>2 DEF IInv, TypeOK
    <3> SUFFICES ASSUME NEW u \in Threads
                 PROVE  /\ \A i \in 1..Len(comp'[u]) : lock[FunctionOf[comp'[u][i]]] = u
                        /\ pc'[u] = "check" => lock[FunctionOf[key[u]]] = u
      BY <1>2 DEF LocksHeld
    <3>5. CASE u = t
      BY <3>5, <2>1, <3>2, <3>4
    <3>6. CASE u # t
      BY <3>6, <2>1, <3>3, <3>4
    <3> QED
      BY <3>5, <3>6
  <2>6. Descending'
    <3>1. \A i \in 1..n : Rank[k] < Rank[comp[t][i]]
      BY DEF IInv, Descending, Check
    <3>2. \A i, j \in 1..n : i < j => Rank[comp[t][j]] < Rank[comp[t][i]]
      BY DEF IInv, Descending
    <3> HIDE DEF n, k
    <3>3. ASSUME NEW i \in 1..(n + 1), NEW j \in 1..(n + 1), i < j
          PROVE  Rank[comp'[t][j]] < Rank[comp'[t][i]]
      <4>1. n \in Nat /\ i \in 1..n /\ comp'[t][i] = comp[t][i]
        BY <3>3, <2>1
      <4>2. CASE j = n + 1
        BY <4>1, <4>2, <3>1, <2>1
      <4>3. CASE j # n + 1
        <5>1. j \in 1..n /\ comp'[t][j] = comp[t][j]
          BY <4>1, <4>3, <2>1
        <5> QED
          BY <4>1, <5>1, <3>2, <3>3
      <4> QED
        BY <4>2, <4>3
    <3>4. ASSUME NEW u \in Threads, u # t
          PROVE  /\ \A i, j \in 1..Len(comp[u]) : i < j => Rank[comp[u][j]] < Rank[comp[u][i]]
                 /\ pc[u] \in {"lookup", "acquire", "check"} =>
                      \A i \in 1..Len(comp[u]) : Rank[key[u]] < Rank[comp[u][i]]
      BY DEF IInv, Descending
    <3>5. pc'[t] = "user" /\ \A u \in Threads \ {t} : pc'[u] = pc[u]
      BY <1>2 DEF IInv, TypeOK
    <3> SUFFICES ASSUME NEW u \in Threads
                 PROVE  /\ \A i, j \in 1..Len(comp'[u]) : i < j => Rank[comp'[u][j]] < Rank[comp'[u][i]]
                        /\ pc'[u] \in {"lookup", "acquire", "check"} =>
                             \A i \in 1..Len(comp'[u]) : Rank[key[u]] < Rank[comp'[u][i]]
      BY <1>2 DEF Descending
    <3>6. CASE u = t
      BY <3>6, <2>1, <3>3, <3>5
    <3>7. CASE u # t
      BY <3>7, <2>1, <3>4, <3>5
    <3> QED
      BY <3>6, <3>7
  <2>7. NotYetMemoized'
    BY <1>2, <2>1 DEF IInv, NotYetMemoized
  <2>8. EvaluationsCounted'
    <3> SUFFICES ASSUME NEW m \in Keys, memo[m] = NotYet, m \notin Begun'
                 PROVE  evals'[m] = 0
      BY <1>2 DEF EvaluationsCounted
    <3>1. m # k
      BY <2>1 DEF Begun
    <3>2. m \notin Begun
      <4> SUFFICES ASSUME NEW u \in Threads, NEW i \in 1..Len(comp[u]), comp[u][i] = m
                   PROVE  m \in Begun'
        BY DEF Begun
      <4>1. i \in 1..Len(comp'[u]) /\ comp'[u][i] = m
        <5> HIDE DEF k
        <5>1. CASE u = t
          BY <5>1, <2>1
        <5>2. CASE u # t
          BY <5>2, <2>1
        <5> QED
          BY <5>1, <5>2
      <4> QED
        BY <4>1 DEF Begun
    <3>3. evals'[m] = evals[m]
      BY <3>1, <1>2, <1>1 DEF IInv, TypeOK
    <3> QED
      BY <3>2, <3>3 DEF IInv, EvaluationsCounted
  <2>9. ReadyToRead' /\ ComputedOnce' /\ AnswersAgree'
    BY <1>1, <1>2, <2>4 DEF IInv, TypeOK, ReadyToRead, ComputedOnce, AnswersAgree
  <2> QED
    BY <2>2, <2>5, <2>6, <2>7, <2>8, <2>9 DEF IInv
<1>3. CASE /\ memo[k] # NotYet
           /\ Release(t, FunctionOf[key[t]], Computing(t))
           /\ pc' = [pc EXCEPT ![t] = "read"]
           /\ UNCHANGED <<memo, comp, key, evals, returned>>
  <2>1. Computing(t) \subseteq Keys
    BY DEF Computing, IInv, TypeOK
  <2>2. /\ lock' \in [Functions -> Threads \cup {Nobody}]
        /\ \A g \in Functions : lock[g] # t => lock'[g] = lock[g]
        /\ \A m \in Computing(t) : lock[FunctionOf[m]] = t => lock'[FunctionOf[m]] = t
    BY <1>1, <1>3, <2>1, ReleaseKeeps
  <2>3. TypeOK'
    BY <1>3, <2>2 DEF IInv, TypeOK
  <2>4. LocksHeld'
    <3> SUFFICES ASSUME NEW u \in Threads
                 PROVE  /\ \A i \in 1..Len(comp[u]) : lock'[FunctionOf[comp[u][i]]] = u
                        /\ pc'[u] = "check" => lock'[FunctionOf[key[u]]] = u
      BY <1>3 DEF LocksHeld
    <3>1. /\ \A i \in 1..Len(comp[u]) : /\ FunctionOf[comp[u][i]] \in Functions
                                        /\ lock[FunctionOf[comp[u][i]]] = u
          /\ FunctionOf[key[u]] \in Functions
          /\ pc[u] = "check" => lock[FunctionOf[key[u]]] = u
      BY DEF IInv, TypeOK, LocksHeld
    <3>2. CASE u = t
      <4>1. \A i \in 1..Len(comp[t]) : comp[t][i] \in Computing(t)
        BY DEF Computing
      <4>2. pc'[t] = "read"
        BY <1>3 DEF IInv, TypeOK
      <4> QED
        BY <3>1, <3>2, <2>2, <4>1, <4>2
    <3>3. CASE u # t
      <4>1. pc'[u] = pc[u]
        BY <3>3, <1>3 DEF IInv, TypeOK
      <4>2. \A g \in Functions : lock[g] = u => lock'[g] = u
        BY <3>3, <2>2
      <4>3. \A i \in 1..Len(comp[u]) : lock'[FunctionOf[comp[u][i]]] = u
        BY <3>1, <4>2
      <4>4. pc'[u] = "check" => lock'[FunctionOf[key[u]]] = u
        BY <3>1, <4>1, <4>2
      <4> QED
        BY <4>3, <4>4
    <3> QED
      BY <3>2, <3>3
  <2>5. Descending' /\ NotYetMemoized' /\ EvaluationsCounted' /\ ReadyToRead' /\ ComputedOnce' /\ AnswersAgree'
    BY <1>3 DEF IInv, TypeOK, Descending, NotYetMemoized, EvaluationsCounted, Begun,
                ReadyToRead, ComputedOnce, AnswersAgree
  <2> QED
    BY <2>3, <2>4, <2>5 DEF IInv
<1> QED
  BY <1>2, <1>3 DEF Check

LEMMA FinishInvariant ==
  ASSUME IInv, NEW t \in Threads, NEW kind \in Kinds, Finish(t, kind)
  PROVE  IInv'
<1> USE MemoizeAssumption
<1> DEFINE n == Len(comp[t])
           k == comp[t][n]
           outer == SubSeq(comp[t], 1, n - 1)
           res == [kind |-> kind, eval |-> evals[k]]
           keys == {outer[i] : i \in 1..Len(outer)}
<1>1. /\ n \in Nat /\ n >= 1 /\ comp[t] \in Seq(Keys) /\ k \in Keys
      /\ FunctionOf[k] \in Functions /\ n \in 1..Len(comp[t])
  <2>1. comp[t] \in Seq(Keys) /\ comp[t] # <<>>
    BY DEF IInv, TypeOK, Finish
  <2>2. n \in Nat /\ n >= 1 /\ n \in 1..Len(comp[t])
    BY <2>1
  <2>3. k \in Keys
    BY <2>1, <2>2
  <2> QED
    BY <2>1, <2>2, <2>3
<1>2. /\ memo' = [memo EXCEPT ![k] = res] /\ comp' = [comp EXCEPT ![t] = outer]
      /\ Release(t, FunctionOf[k], keys)
      /\ key' = [key EXCEPT ![t] = k] /\ pc' = [pc EXCEPT ![t] = "read"]
      /\ UNCHANGED <<evals, returned>>
  BY DEF Finish, Top
<1>3. /\ outer \in Seq(Keys) /\ Len(outer) = n - 1
      /\ \A i \in 1..(n - 1) : outer[i] = comp[t][i] /\ i \in 1..Len(comp[t]) /\ i < n
  BY <1>1
<1>4. res \in Results /\ res # NotYet
  <2>1. res \in Results
    BY <1>1 DEF IInv, TypeOK, Results
  <2> QED
    BY <2>1, ResultIsNotNotYet
<1>5. lock[FunctionOf[k]] = t /\ memo[k] = NotYet
  BY <1>1 DEF IInv, LocksHeld, NotYetMemoized
<1>6. keys \subseteq Keys
  BY <1>3
<1>7. /\ lock' \in [Functions -> Threads \cup {Nobody}]
      /\ \A g \in Functions : lock[g] # t => lock'[g] = lock[g]
      /\ \A m \in keys : lock[FunctionOf[m]] = t => lock'[FunctionOf[m]] = t
  BY <1>1, <1>2, <1>5, <1>6, ReleaseKeeps
<1>8. \A i \in 1..(n - 1) : outer[i] \in keys
  BY <1>3
<1>9. /\ comp'[t] = outer /\ pc'[t] = "read" /\ key'[t] = k
      /\ \A u \in Threads \ {t} : comp'[u] = comp[u] /\ pc'[u] = pc[u] /\ key'[u] = key[u]
      /\ \A m \in Keys \ {k} : memo'[m] = memo[m]
      /\ memo'[k] = res
  BY <1>1, <1>2 DEF IInv, TypeOK
<1>10. \A u \in Threads : \A i \in 1..Len(comp[u]) : comp[u][i] \in Keys
  BY DEF IInv, TypeOK
<1>11. TypeOK'
  BY <1>1, <1>2, <1>3, <1>4, <1>7 DEF IInv, TypeOK
<1> HIDE DEF n, k, outer, res, keys
<1>12. LocksHeld'
  <2> SUFFICES ASSUME NEW u \in Threads
               PROVE  /\ \A i \in 1..Len(comp'[u]) : lock'[FunctionOf[comp'[u][i]]] = u
                      /\ pc'[u] = "check" => lock'[FunctionOf[key'[u]]] = u
    BY DEF LocksHeld
  <2>1. \A i \in 1..Len(comp[u]) : lock[FunctionOf[comp[u][i]]] = u
    BY DEF IInv, LocksHeld
  <2>2. CASE u = t
    <3> SUFFICES ASSUME NEW i \in 1..Len(outer) PROVE lock'[FunctionOf[outer[i]]] = t
      BY <2>2, <1>9
    <3>1. outer[i] = comp[t][i] /\ i \in 1..Len(comp[t]) /\ outer[i] \in keys
      BY <1>3, <1>8
    <3> QED
      BY <3>1, <2>1, <2>2, <1>7
  <2>3. CASE u # t
    <3>1. \A i \in 1..Len(comp[u]) : FunctionOf[comp[u][i]] \in Functions
      BY <1>10
    <3>2. FunctionOf[key[u]] \in Functions /\ (pc[u] = "check" => lock[FunctionOf[key[u]]] = u)
      BY DEF IInv, TypeOK, LocksHeld
    <3> QED
      BY <2>1, <2>3, <3>1, <3>2, <1>7, <1>9
  <2> QED
    BY <2>2, <2>3
<1>13. Descending'
  <2> SUFFICES ASSUME NEW u \in Threads
               PROVE  /\ \A i, j \in 1..Len(comp'[u]) : i < j => Rank[comp'[u][j]] < Rank[comp'[u][i]]
                      /\ pc'[u] \in {"lookup", "acquire", "check"} =>
                           \A i \in 1..Len(comp'[u]) : Rank[key'[u]] < Rank[comp'[u][i]]
    BY DEF Descending
  <2>1. /\ \A i, j \in 1..Len(comp[u]) : i < j => Rank[comp[u][j]] < Rank[comp[u][i]]
        /\ pc[u] \in {"lookup", "acquire", "check"} =>
             \A i \in 1..Len(comp[u]) : Rank[key[u]] < Rank[comp[u][i]]
    BY DEF IInv, Descending
  <2>2. CASE u = t
    <3>1. \A i \in 1..Len(outer) : outer[i] = comp[t][i] /\ i \in 1..Len(comp[t])
      BY <1>3
    <3> QED
      BY <2>1, <2>2, <3>1, <1>9
  <2>3. CASE u # t
    BY <2>1, <2>3, <1>9
  <2> QED
    BY <2>2, <2>3
\* No other place of a computation holds k: the lock keeps the others away,
\* the ranks the thread itself.
<1>14. ASSUME NEW u \in Threads, NEW i \in 1..Len(comp'[u])
       PROVE  comp'[u][i] # k /\ comp'[u][i] \in Keys /\ memo[comp'[u][i]] = NotYet
  <2>1. CASE u = t
    <3>1. /\ comp'[u][i] = comp[t][i] /\ i \in 1..Len(comp[t]) /\ i < n
          /\ comp'[u][i] \in Keys
      BY <2>1, <1>3, <1>9, <1>10
    <3>2. Rank[k] < Rank[comp[t][i]]
      BY <3>1, <1>1 DEF IInv, Descending, k
    <3> QED
      BY <3>1, <3>2, <1>1 DEF IInv, NotYetMemoized
  <2>2. CASE u # t
    <3>1. comp'[u][i] = comp[u][i] /\ i \in 1..Len(comp[u]) /\ comp'[u][i] \in Keys
      BY <2>2, <1>9, <1>10
    <3>2. lock[FunctionOf[comp[u][i]]] = u
      BY <3>1 DEF IInv, LocksHeld
    <3> QED
      BY <3>1, <3>2, <2>2, <1>5 DEF IInv, NotYetMemoized
  <2> QED
    BY <2>1, <2>2
<1>15. NotYetMemoized'
  BY <1>9, <1>14 DEF NotYetMemoized
<1>16. EvaluationsCounted'
  <2> SUFFICES ASSUME NEW m \in Keys, memo'[m] = NotYet, m \notin Begun'
               PROVE  evals[m] = 0
    BY <1>2 DEF EvaluationsCounted
  <2>1. m # k /\ memo[m] = NotYet
    BY <1>4, <1>9
  <2>2. m \notin Begun
    <3> SUFFICES ASSUME NEW u \in Threads, NEW i \in 1..Len(comp[u]), comp[u][i] = m
                 PROVE  m \in Begun'
      BY DEF Begun
    <3>1. i \in 1..Len(comp'[u]) /\ comp'[u][i] = m
      <4>1. CASE u = t
        <5>1. i # n
          BY <4>1, <2>1 DEF k
        <5>2. i \in 1..(n - 1)
          BY <4>1, <5>1, <1>1 DEF n
        <5> QED
          BY <4>1, <5>2, <1>3, <1>9
      <4>2. CASE u # t
        BY <4>2, <1>9
      <4> QED
        BY <4>1, <4>2
    <3> QED
      BY <3>1 DEF Begun
  <2> QED
    BY <2>1, <2>2 DEF IInv, EvaluationsCounted
<1>17. ReadyToRead'
  <2> SUFFICES ASSUME NEW u \in Threads, pc'[u] = "read" PROVE memo'[key'[u]] # NotYet
    BY DEF ReadyToRead
  <2>1. CASE u = t
    BY <2>1, <1>4, <1>9
  <2>2. CASE u # t
    <3>1. key'[u] = key[u] /\ key[u] \in Keys /\ memo[key[u]] # NotYet
      BY <2>2, <1>9 DEF IInv, TypeOK, ReadyToRead
    <3> QED
      BY <3>1, <1>5, <1>9
  <2> QED
    BY <2>1, <2>2
<1>18. ComputedOnce'
  BY <1>2 DEF IInv, ComputedOnce
<1>19. AnswersAgree'
  <2> SUFFICES ASSUME NEW r \in returned PROVE r[2] # NotYet /\ r[2] = memo'[r[1]]
    BY <1>2 DEF AnswersAgree
  <2>1. r[1] \in Keys /\ r[2] # NotYet /\ r[2] = memo[r[1]]
    BY DEF IInv, TypeOK, AnswersAgree
  <2> QED
    BY <2>1, <1>5, <1>9
<1> QED
  BY <1>11, <1>12, <1>13, <1>15, <1>16, <1>17, <1>18, <1>19 DEF IInv

LEMMA StepInvariant == IInv /\ [Next]_vars => IInv'
<1> SUFFICES ASSUME IInv, [Next]_vars PROVE IInv'
  OBVIOUS
<1>1. ASSUME NEW t \in Threads, Memoized(t)
      PROVE  IInv'
  <2>1. ASSUME Read(t) PROVE IInv'
    BY <2>1, ReturnInvariant DEF Read, IInv, ReadyToRead
  <2> QED
    BY <1>1, <2>1, LookupInvariant, AcquireInvariant, CheckInvariant, FinishInvariant DEF Memoized
<1>2. ASSUME NEW t \in Threads, NEW k \in Keys, Call(t, k)
      PROVE  IInv'
  BY <1>2, CallInvariant
<1>3. CASE UNCHANGED vars
  BY <1>3 DEF IInv, TypeOK, LocksHeld, Descending, NotYetMemoized, EvaluationsCounted, Begun,
              ReadyToRead, ComputedOnce, AnswersAgree, vars
<1> QED
  BY <1>1, <1>2, <1>3 DEF Next

\* Exactly one thread evaluates the function for a key, once: for any number
\* of threads, memoized functions that call each other, and keys.
THEOREM EvaluatedOnce == Spec => []ComputedOnce
<1>1. IInv => ComputedOnce
  BY DEF IInv
<1> QED
  BY InitInvariant, StepInvariant, <1>1, PTL DEF Spec

\* All calls with the same arguments return, or raise, the one memoized result.
THEOREM OneAnswer == Spec => []AnswersAgree
<1>1. IInv => AnswersAgree
  BY DEF IInv
<1> QED
  BY InitInvariant, StepInvariant, <1>1, PTL DEF Spec

\* The variables of a memoized function keep their types.
THEOREM TypeCorrect == Spec => []TypeOK
<1>1. IInv => TypeOK
  BY DEF IInv
<1> QED
  BY InitInvariant, StepInvariant, <1>1, PTL DEF Spec

------------------------------------------------------------------------------
(***************************************************************************)
(* One table: a memoized function implements MemoTable                     *)
(***************************************************************************)
\* What is put at the end of a sequence can be taken away again.
LEMMA PutAndTaken ==
  ASSUME NEW S, NEW q \in Seq(S), NEW e \in S
  PROVE  LET p == Append(q, e) IN
         /\ p \in Seq(S) /\ p # <<>> /\ p[Len(p)] = e
         /\ SubSeq(p, 1, Len(p) - 1) = q
<1> DEFINE p == Append(q, e)
<1>1. /\ p \in Seq(S) /\ p # <<>> /\ Len(q) \in Nat /\ Len(p) = Len(q) + 1 /\ p[Len(p)] = e
      /\ \A i \in 1..Len(q) : p[i] = q[i] /\ q[i] \in S
  BY AppendProperties
<1>2. SubSeq(p, 1, Len(q)) = q
  <2> DEFINE r == SubSeq(p, 1, Len(q))
  <2>1. /\ r \in Seq(S)
        /\ Len(r) = IF 1 <= Len(q) THEN Len(q) - 1 + 1 ELSE 0
        /\ \A i \in 1..Len(q) - 1 + 1 : r[i] = p[1 + i - 1]
    <3> HIDE DEF p
    <3> QED
      BY <1>1, SubSeqProperties
  <2> HIDE DEF p, r
  <2>2. Len(r) = Len(q) /\ \A i \in 1..Len(r) : r[i] = q[i]
    <3>1. Len(q) - 1 + 1 = Len(q) /\ Len(r) = Len(q) /\ \A i \in 1..Len(q) : 1 + i - 1 = i
      BY <1>1, <2>1
    <3> QED
      BY <1>1, <2>1, <3>1
  <2> QED
    BY <2>1, <2>2, SeqEqual DEF r
<1>3. Len(p) - 1 = Len(q)
  <2> HIDE DEF p
  <2> QED
    BY <1>1
<1> QED
  BY <1>1, <1>2, <1>3

\* What is taken away can be put back.
LEMMA TakenAndPut ==
  ASSUME NEW S, NEW q \in Seq(S), q # <<>>
  PROVE  Append(SubSeq(q, 1, Len(q) - 1), q[Len(q)]) = q
<1> DEFINE n == Len(q) - 1
           r == SubSeq(q, 1, n)
           p == Append(r, q[Len(q)])
<1>1. /\ n \in Nat /\ Len(q) = n + 1 /\ n + 1 \in 1..Len(q)
      /\ \A i \in 1..Len(q) : q[i] \in S
      /\ \A i \in 1..n : i \in 1..Len(q)
  BY EmptySeq
<1>2. /\ r \in Seq(S)
      /\ Len(r) = IF 1 <= n THEN n - 1 + 1 ELSE 0
      /\ \A i \in 1..n - 1 + 1 : r[i] = q[1 + i - 1]
  <2> HIDE DEF n
  <2> QED
    BY <1>1, SubSeqProperties
<1> HIDE DEF n, r
<1>3. Len(r) = n /\ \A i \in 1..n : r[i] = q[i]
  <2>1. n - 1 + 1 = n /\ (IF 1 <= n THEN n - 1 + 1 ELSE 0) = n /\ \A i \in 1..n : 1 + i - 1 = i
    BY <1>1
  <2> QED
    BY <1>2, <2>1
<1>4. q[Len(q)] \in S
  BY <1>1
<1>5. p \in Seq(S) /\ Len(p) = n + 1 /\ p[n + 1] = q[Len(q)] /\ \A i \in 1..n : p[i] = r[i]
  BY <1>2, <1>3, <1>4, AppendProperties
<1> HIDE DEF p
<1>6. \A i \in 1..Len(p) : p[i] = q[i]
  <2> SUFFICES ASSUME NEW i \in 1..(n + 1) PROVE p[i] = q[i]
    BY <1>5
  <2>1. CASE i = n + 1
    BY <2>1, <1>1, <1>5
  <2>2. CASE i \in 1..n
    BY <2>2, <1>3, <1>5
  <2> QED
    BY <2>1, <2>2, <1>1
<1>7. p = q
  BY <1>1, <1>5, <1>6, SeqEqual
<1> QED
  BY <1>7 DEF n, r, p

\* The calls that are open, by what a thread does.
LEMMA OpenCalls ==
  ASSUME IInv, NEW t \in Threads
  PROVE  /\ comp[t] \in Seq(Keys) /\ key[t] \in Keys
         /\ pc[t] = "user" => Open[t] = comp[t]
         /\ pc[t] # "user" => /\ Open[t] = Append(comp[t], key[t]) /\ Open[t] # <<>>
                              /\ Table!Innermost(t) = key[t]
                              /\ SubSeq(Open[t], 1, Len(Open[t]) - 1) = comp[t]
<1>1. comp[t] \in Seq(Keys) /\ key[t] \in Keys
  BY DEF IInv, TypeOK
<1> QED
  BY <1>1, PutAndTaken DEF Open, Table!Innermost

LEMMA Evaluates ==
  ASSUME NEW t \in Threads, NEW k \in Keys
  PROVE  <<t, k>> \in Evaluating <=> k \in Computing(t)
  BY DEF Evaluating

\* Only the thread that holds the lock of a function computes one of its keys, and
\* never the key it is looking at again.
LEMMA NobodyElse ==
  ASSUME IInv, NEW t \in Threads, pc[t] = "check", NEW u \in Threads
  PROVE  key[t] \notin Computing(u)
<1> USE MemoizeAssumption
<1> SUFFICES ASSUME NEW i \in 1..Len(comp[u]), comp[u][i] = key[t] PROVE FALSE
  BY DEF Computing
<1>1. lock[FunctionOf[key[t]]] = t /\ lock[FunctionOf[comp[u][i]]] = u
  BY DEF IInv, LocksHeld
<1>2. t = u
  BY <1>1
<1>3. Rank[key[t]] < Rank[comp[t][i]]
  BY <1>2 DEF IInv, Descending
<1>4. key[t] \in Keys /\ Rank[key[t]] \in Nat
  BY DEF IInv, TypeOK
<1> QED
  BY <1>2, <1>3, <1>4

LEMMA InitTable == Init => Table!Init
<1> SUFFICES ASSUME Init PROVE Table!Init
  OBVIOUS
<1>1. Open = [t \in Threads |-> <<>>]
  BY DEF Init, Open
<1>2. Evaluating = {}
  BY DEF Init, Evaluating, Computing
<1> QED
  BY <1>1, <1>2 DEF Init, Table!Init

\* A call opens.
LEMMA CallAsks ==
  ASSUME IInv, NEW t \in Threads, NEW k \in Keys, Call(t, k)
  PROVE  Table!Ask(t, k)
<1>1. pc[t] = "user" /\ Open[t] = comp[t] /\ comp[t] \in Seq(Keys)
  BY OpenCalls DEF Call
<1>2. Open' = [Open EXCEPT ![t] = Append(Open[t], k)]
  <2>1. /\ comp' = comp /\ pc'[t] # "user" /\ key'[t] = k
        /\ \A u \in Threads : u # t => pc'[u] = pc[u] /\ key'[u] = key[u]
    BY DEF Call, IInv, TypeOK
  <2> QED
    BY <1>1, <2>1 DEF Open
<1>3. UNCHANGED <<memo, Evaluating, returned>>
  BY DEF Call, Evaluating, Computing
<1>4. ASSUME Open[t] # <<>>
      PROVE  <<t, Table!Innermost(t)>> \in Evaluating /\ k \in Calls[Table!Innermost(t)]
  <2>1. Table!Innermost(t) = Top(t) /\ k \in Calls[Top(t)]
    BY <1>1, <1>4 DEF Table!Innermost, Top, Call
  <2>2. Len(comp[t]) \in 1..Len(comp[t])
    BY <1>1, <1>4, EmptySeq
  <2>3. Top(t) \in Keys /\ Top(t) \in Computing(t)
    BY <1>1, <2>2 DEF Top, Computing
  <2> QED
    BY <2>1, <2>3, Evaluates
<1> QED
  BY <1>2, <1>3, <1>4 DEF Table!Ask

\* A call is answered, with what the memo says at that moment.
LEMMA ReturnAnswers ==
  ASSUME IInv, NEW t \in Threads, pc[t] # "user", memo[key[t]] # NotYet, Return(t)
  PROVE  Table!Answer(t)
<1>1. /\ Open[t] # <<>> /\ Table!Innermost(t) = key[t]
      /\ SubSeq(Open[t], 1, Len(Open[t]) - 1) = comp[t]
  BY OpenCalls
<1>2. Open' = [Open EXCEPT ![t] = comp[t]]
  <2>1. /\ comp' = comp /\ key' = key /\ pc'[t] = "user"
        /\ \A u \in Threads : u # t => pc'[u] = pc[u]
    BY DEF Return, IInv, TypeOK
  <2> QED
    BY <2>1 DEF Open
<1>3. UNCHANGED <<memo, Evaluating>>
  BY DEF Return, Evaluating, Computing
<1> QED
  BY <1>1, <1>2, <1>3 DEF Table!Answer, Return

\* The way to the lock, and back from it when another thread was faster, is not seen.
LEMMA UnseenStep ==
  ASSUME IInv, NEW t \in Threads, pc[t] # "user", pc'[t] # "user",
         \A u \in Threads \ {t} : pc'[u] = pc[u],
         UNCHANGED <<memo, comp, key, returned>>
  PROVE  UNCHANGED Table!tvars
<1>1. Open' = Open
  BY DEF Open
<1>2. Evaluating' = Evaluating
  BY DEF Evaluating, Computing
<1> QED
  BY <1>1, <1>2 DEF Table!tvars

\* The thread that finds no result at its second look evaluates the key.
LEMMA CheckEvaluates ==
  ASSUME IInv, NEW t \in Threads, Check(t), memo[key[t]] = NotYet
  PROVE  Table!Evaluate(t)
<1> DEFINE k == key[t]
<1>1. /\ pc[t] = "check"
      /\ comp' = [comp EXCEPT ![t] = Append(@, key[t])]
      /\ pc' = [pc EXCEPT ![t] = "user"]
      /\ UNCHANGED <<memo, key, returned>>
  BY DEF Check
<1>2. /\ comp[t] \in Seq(Keys) /\ k \in Keys
      /\ Open[t] = Append(comp[t], k) /\ Open[t] # <<>> /\ Table!Innermost(t) = k
  BY <1>1, OpenCalls
<1>3. /\ comp'[t] = Append(comp[t], k) /\ pc'[t] = "user"
      /\ \A u \in Threads : u # t => comp'[u] = comp[u] /\ pc'[u] = pc[u]
  BY <1>1 DEF IInv, TypeOK
<1>4. Open' = Open
  BY <1>1, <1>2, <1>3 DEF Open
<1>5. \A u \in Threads : <<u, k>> \notin Evaluating
  BY <1>1, <1>2, NobodyElse, Evaluates
<1>6. Computing(t)' = Computing(t) \cup {k}
  <2> DEFINE n == Len(comp[t])
             q == comp'[t]
  <2>1. n \in Nat /\ Len(q) = n + 1 /\ q[n + 1] = k /\ \A i \in 1..n : q[i] = comp[t][i]
    BY <1>2, <1>3, AppendProperties
  <2>2. Computing(t)' = {q[i] : i \in 1..(n + 1)}
    BY <2>1 DEF Computing
  <2>3. Computing(t) = {comp[t][i] : i \in 1..n}
    BY DEF Computing
  <2> HIDE DEF n, q, k
  <2>4. 1..(n + 1) = 1..n \cup {n + 1}
    BY <2>1
  <2> QED
    BY <2>1, <2>2, <2>3, <2>4
<1>7. \A u \in Threads : u # t => Computing(u)' = Computing(u)
  BY <1>3 DEF Computing
<1>8. Evaluating' = Evaluating \cup {<<t, k>>}
  BY <1>2, <1>6, <1>7 DEF Evaluating
<1> QED
  BY <1>1, <1>2, <1>4, <1>5, <1>8 DEF Table!Evaluate

\* The function returns or raises: the result is written, and the call stays open until
\* it is read.
LEMMA FinishSettles ==
  ASSUME IInv, NEW t \in Threads, NEW kind \in Kinds, Finish(t, kind)
  PROVE  Table!Settle(t)
<1> USE MemoizeAssumption
<1> DEFINE k == Top(t)
           n == Len(comp[t])
           outer == SubSeq(comp[t], 1, n - 1)
<1>1. /\ pc[t] = "user" /\ comp[t] # <<>>
      /\ memo' = [memo EXCEPT ![k] = [kind |-> kind, eval |-> evals[k]]]
      /\ comp' = [comp EXCEPT ![t] = outer]
      /\ key' = [key EXCEPT ![t] = k]
      /\ pc' = [pc EXCEPT ![t] = "read"]
      /\ UNCHANGED <<evals, returned>>
  BY DEF Finish
<1>2. /\ comp[t] \in Seq(Keys) /\ n \in Nat \ {0} /\ n \in 1..n
      /\ \A i \in 1..n : comp[t][i] \in Keys
      /\ k = comp[t][n] /\ k \in Keys
  <2>1. comp[t] \in Seq(Keys)
    BY DEF IInv, TypeOK
  <2>2. n \in Nat \ {0} /\ n \in 1..n
    BY <2>1, <1>1, EmptySeq
  <2> QED
    BY <2>1, <2>2 DEF Top
<1>3. Open[t] = comp[t] /\ Open[t] # <<>> /\ Table!Innermost(t) = k
  BY <1>1, OpenCalls DEF Table!Innermost, Top
<1>4. Append(outer, k) = comp[t]
  BY <1>1, <1>2, TakenAndPut DEF Top
<1>5. /\ comp'[t] = outer /\ pc'[t] = "read" /\ key'[t] = k
      /\ \A u \in Threads : u # t => comp'[u] = comp[u] /\ pc'[u] = pc[u] /\ key'[u] = key[u]
  BY <1>1 DEF IInv, TypeOK
<1>6. Open' = Open
  <2> HIDE DEF k, outer, n
  <2> SUFFICES ASSUME NEW u \in Threads
               PROVE  IF pc'[u] = "user" THEN comp'[u] = Open[u]
                      ELSE Append(comp'[u], key'[u]) = Open[u]
    BY DEF Open
  <2>1. CASE u = t
    BY <2>1, <1>3, <1>4, <1>5
  <2>2. CASE u # t
    BY <2>2, <1>5 DEF Open
  <2> QED
    BY <2>1, <2>2
<1>7. memo[k] = NotYet /\ k \in Computing(t)
  BY <1>2 DEF IInv, NotYetMemoized, Computing
<1>8. memo'[k] \in Results /\ memo' = [memo EXCEPT ![k] = memo'[k]]
  <2>1. memo \in [Keys -> Results \cup {NotYet}] /\ evals[k] \in Nat
    BY <1>2 DEF IInv, TypeOK
  <2>2. [kind |-> kind, eval |-> evals[k]] \in Results
    BY <2>1 DEF Results
  <2> HIDE DEF k
  <2> QED
    BY <1>1, <1>2, <2>1, <2>2
<1>9. Computing(t)' = Computing(t) \ {k}
  <2>1. Len(outer) = n - 1 /\ \A i \in 1..(n - 1) : outer[i] = comp[t][i]
    BY <1>2
  <2>2. Computing(t)' = {outer[i] : i \in 1..(n - 1)}
    BY <1>5, <2>1 DEF Computing
  <2>3. Computing(t) = {comp[t][i] : i \in 1..n}
    BY DEF Computing
  <2>4. \A i \in 1..(n - 1) : i \in 1..n /\ Rank[comp[t][n]] < Rank[comp[t][i]]
    <3>1. \A i, j \in 1..n : i < j => Rank[comp[t][j]] < Rank[comp[t][i]]
      BY DEF IInv, Descending
    <3> HIDE DEF n
    <3> QED
      BY <1>2, <3>1
  <2>5. Rank[k] \in Nat
    BY <1>2
  <2> HIDE DEF outer, n, k
  <2>6. \A i \in 1..(n - 1) : comp[t][i] # k
    BY <1>2, <2>4, <2>5
  <2>7. 1..n = 1..(n - 1) \cup {n}
    BY <1>2
  <2> QED
    BY <1>2, <2>1, <2>2, <2>3, <2>6, <2>7
<1>10. \A u \in Threads : u # t => Computing(u)' = Computing(u)
  BY <1>5 DEF Computing
<1>11. Evaluating' = Evaluating \ {<<t, k>>}
  <2> HIDE DEF k
  <2> QED
    BY <1>2, <1>9, <1>10 DEF Evaluating
<1>12. <<t, k>> \in Evaluating
  BY <1>2, <1>7, Evaluates
<1> QED
  BY <1>1, <1>3, <1>6, <1>7, <1>8, <1>11, <1>12 DEF Table!Settle

\* Every step is one of the table, or is not seen.
LEMMA TableStep == IInv /\ [Next]_vars => [Table!Next]_(Table!tvars)
<1> SUFFICES ASSUME IInv, [Next]_vars PROVE Table!Next \/ UNCHANGED Table!tvars
  OBVIOUS
<1>0. pc \in [Threads -> {"user", "lookup", "acquire", "check", "read"}]
  BY DEF IInv, TypeOK
<1>1. ASSUME NEW t \in Threads, NEW k \in Keys, Call(t, k)
      PROVE  Table!Next
  BY <1>1, CallAsks DEF Table!Next
<1>2. ASSUME NEW t \in Threads, Lookup(t)
      PROVE  Table!Next \/ UNCHANGED Table!tvars
  <2>1. CASE memo[key[t]] # NotYet /\ Return(t)
    BY <1>2, <2>1, ReturnAnswers DEF Lookup, Table!Next
  <2>2. CASE pc' = [pc EXCEPT ![t] = "acquire"] /\ UNCHANGED <<memo, lock, comp, key, evals, returned>>
    <3>1. /\ pc[t] # "user" /\ pc'[t] # "user" /\ \A u \in Threads \ {t} : pc'[u] = pc[u]
          /\ UNCHANGED <<memo, comp, key, returned>>
      BY <1>0, <1>2, <2>2 DEF Lookup
    <3> QED
      BY <3>1, UnseenStep
  <2> QED
    BY <1>2, <2>1, <2>2 DEF Lookup
<1>3. ASSUME NEW t \in Threads, Acquire(t)
      PROVE  UNCHANGED Table!tvars
  <2>1. /\ pc[t] # "user" /\ pc'[t] # "user" /\ \A u \in Threads \ {t} : pc'[u] = pc[u]
        /\ UNCHANGED <<memo, comp, key, returned>>
    BY <1>0, <1>3 DEF Acquire
  <2> QED
    BY <2>1, UnseenStep
<1>4. ASSUME NEW t \in Threads, Check(t)
      PROVE  Table!Next \/ UNCHANGED Table!tvars
  <2>1. CASE memo[key[t]] = NotYet
    BY <1>4, <2>1, CheckEvaluates DEF Table!Next
  <2>2. CASE memo[key[t]] # NotYet
    <3>1. /\ pc[t] # "user" /\ pc'[t] # "user" /\ \A u \in Threads \ {t} : pc'[u] = pc[u]
          /\ UNCHANGED <<memo, comp, key, returned>>
      BY <1>0, <1>4, <2>2 DEF Check
    <3> QED
      BY <3>1, UnseenStep
  <2> QED
    BY <2>1, <2>2
<1>5. ASSUME NEW t \in Threads, NEW kind \in Kinds, Finish(t, kind)
      PROVE  Table!Next
  BY <1>5, FinishSettles DEF Table!Next
<1>6. ASSUME NEW t \in Threads, Read(t)
      PROVE  Table!Next
  <2>1. pc[t] = "read" /\ memo[key[t]] # NotYet
    BY <1>6 DEF Read, IInv, ReadyToRead
  <2> QED
    BY <1>6, <2>1, ReturnAnswers DEF Read, Table!Next
<1>7. CASE UNCHANGED vars
  <2>1. Open' = Open /\ Evaluating' = Evaluating
    BY <1>7 DEF vars, Open, Evaluating, Computing
  <2> QED
    BY <1>7, <2>1 DEF vars, Table!tvars
<1> QED
  BY <1>1, <1>2, <1>3, <1>4, <1>5, <1>6, <1>7 DEF Next, Memoized

\* To its callers a memoized function is one table: each of its calls is answered in one
\* step with the only result of its key, which one thread has evaluated while no other
\* did (fun.py:60-75).
THEOREM OneTable == Spec => ImplementsTable
  BY InitInvariant, StepInvariant, InitTable, TableStep, PTL DEF Spec, ImplementsTable, Table!Spec

------------------------------------------------------------------------------
(***************************************************************************)
(* Memoized generators                                                     *)
(***************************************************************************)
\* The entry of the memo that a thread reads
EntryOf(t) == instance[using[t]].entry
Reading(t) == gpc[t] \in {"acquire", "locked"}

GTypes ==
  /\ memos \in Nat /\ gmemo \in Seq(Seq(G!Results))
  /\ pulled \in Seq(Nat) /\ Len(pulled) = Len(gmemo)
  /\ owner \in Seq(Threads \cup {Nobody}) /\ Len(owner) = Len(gmemo)
  /\ ending \in {"stop", "fail"}
  /\ instance \in [Threads -> [entry : Nat, position : Nat]]
  /\ gpc \in [Threads -> {"idle", "create", "wrap", "acquire", "locked"}]
  /\ using \in [Threads -> Threads] /\ place \in [Threads -> Nat]
  /\ result \in [Threads -> G!Results] /\ got \in [Threads -> Seq(G!Results)]

\* What threads refer to is there.
EntriesExist ==
  /\ memos <= Len(gmemo)
  /\ \A t \in Threads :
       /\ instance[t].entry <= Len(gmemo)
       /\ instance[t].entry = 0 => instance[t] = G!NoInstance
       /\ gpc[t] = "wrap" => memos # 0
       /\ gpc[t] \in {"create", "wrap"} => instance[t] = G!NoInstance
       /\ Reading(t) => EntryOf(t) # 0

\* A thread in the locked region of an entry is the owner of its lock.
OwnersHold == \A t \in Threads : gpc[t] = "locked" => owner[EntryOf(t)] = t

\* A thread has taken an item from the generator of entry e and not memoized it yet.
Pulling(t, e) == gpc[t] = "locked" /\ EntryOf(t) = e /\ ~(place[t] < Len(gmemo[e]))
Taken(e) == \E t \in Threads : Pulling(t, e)

\* The memo of an entry holds what its generator has given, in order, and no more
\* than one further item has been taken.
MemoInOrder == \A e \in 1..Len(gmemo) : \A n \in 1..Len(gmemo[e]) : gmemo[e][n] = G!Yielded(n)
ItemsPulled ==
  \A e \in 1..Len(gmemo) :
    pulled[e] = IF Taken(e) THEN Len(gmemo[e]) + 1 ELSE Len(gmemo[e])
ResultsFound ==
  \A t \in Threads : gpc[t] = "locked" =>
    result[t] = IF place[t] < Len(gmemo[EntryOf(t)]) THEN gmemo[EntryOf(t)][place[t] + 1]
                ELSE G!Yielded(Len(gmemo[EntryOf(t)]) + 1)

\* A thread that has an instance of its own is where its results end.
PositionsOwn ==
  \A t \in Threads :
    /\ Reading(t) => using[t] = t /\ place[t] = instance[t].position
    /\ instance[t].position = Len(got[t])
    /\ instance[t].entry # 0 => instance[t].position <= Len(gmemo[instance[t].entry])
    /\ \A n \in 1..Len(got[t]) : got[t][n] = G!Yielded(n)

GInv == GTypes /\ EntriesExist /\ OwnersHold
GOrder == MemoInOrder /\ ItemsPulled /\ ResultsFound

LEMMA YieldedType ==
  ASSUME GTypes, NEW n \in Nat, n # 0
  PROVE  G!Yielded(n) \in G!Results
<1>1. Items \in Nat
  BY GMemoizeAssumption DEF G!GMemoizeAssumption
<1>2. ASSUME n <= Items
      PROVE  n \in 0..Items
  BY <1>1, <1>2
<1>3. 0 \in 0..Items
  BY <1>1
<1>4. ending \in {"stop", "fail"}
  BY DEF GTypes
<1> QED
  BY <1>2, <1>3, <1>4 DEF G!Yielded, G!Results, G!Kinds, G!Stop

LEMMA StopType == G!Stop \in G!Results
<1>1. 0 \in 0..Items
  BY GMemoizeAssumption DEF G!GMemoizeAssumption
<1> QED
  BY <1>1 DEF G!Stop, G!Results, G!Kinds

\* What a thread reads and takes when it has the lock
LEMMA FoundFacts ==
  ASSUME GInv, NEW t \in Threads, Reading(t)
  PROVE  /\ EntryOf(t) \in 1..Len(gmemo) /\ using[t] \in Threads /\ place[t] \in Nat
         /\ gmemo[EntryOf(t)] \in Seq(G!Results) /\ Len(gmemo[EntryOf(t)]) \in Nat
         /\ pulled[EntryOf(t)] \in Nat /\ owner[EntryOf(t)] \in Threads \cup {Nobody}
         /\ place[t] < Len(gmemo[EntryOf(t)]) =>
              /\ place[t] + 1 \in 1..Len(gmemo[EntryOf(t)])
              /\ gmemo[EntryOf(t)][place[t] + 1] \in G!Results
         /\ G!Asked(EntryOf(t)) \in Nat /\ G!Yielded(G!Asked(EntryOf(t)) + 1) \in G!Results
<1> DEFINE e == EntryOf(t)
<1>1. using[t] \in Threads /\ place[t] \in Nat /\ Len(gmemo) \in Nat
  BY DEF GInv, GTypes
<1>2. e \in 1..Len(gmemo)
  <2>1. instance[using[t]] \in [entry : Nat, position : Nat]
    BY <1>1 DEF GInv, GTypes
  <2>2. e # 0
    BY DEF GInv, EntriesExist
  <2>5. e <= Len(gmemo)
    BY <1>1 DEF GInv, EntriesExist, EntryOf
  <2>3. e \in Nat
    BY <2>1 DEF EntryOf
  <2> HIDE DEF e
  <2>4. QED
    BY <1>1, <2>2, <2>3, <2>5
<1>3. gmemo[e] \in Seq(G!Results) /\ pulled[e] \in Nat /\ owner[e] \in Threads \cup {Nobody}
  BY <1>2 DEF GInv, GTypes
<1>4. Len(gmemo[e]) \in Nat
  BY <1>3
<1>5. ASSUME place[t] < Len(gmemo[e])
      PROVE  place[t] + 1 \in 1..Len(gmemo[e]) /\ gmemo[e][place[t] + 1] \in G!Results
  <2>1. place[t] + 1 \in 1..Len(gmemo[e])
    BY <1>1, <1>4, <1>5
  <2> HIDE DEF e
  <2>2. QED
    BY <1>3, <2>1
<1>6. G!Asked(e) \in Nat
  <2>1. CASE OneIterator /\ Len(gmemo) = 2
    <3>0. Len(gmemo) = 2
      BY <2>1
    <3>1. \A k \in 1..Len(gmemo) : pulled[k] \in Nat
      BY DEF GInv, GTypes
    <3>3. pulled[1] \in Nat /\ pulled[2] \in Nat
      BY <3>0, <3>1
    <3>2. QED
      BY <2>1, <3>3 DEF G!Asked
  <2>2. CASE ~ (OneIterator /\ Len(gmemo) = 2)
    BY <1>3, <2>2 DEF G!Asked
  <2>3. QED
    BY <2>1, <2>2
<1>7. G!Yielded(G!Asked(e) + 1) \in G!Results
  <2>1. G!Asked(e) + 1 \in Nat /\ G!Asked(e) + 1 # 0
    BY <1>6
  <2>2. QED
    BY <2>1, YieldedType DEF GInv
<1> QED
  BY <1>1, <1>2, <1>3, <1>4, <1>5, <1>6, <1>7

LEMMA GInit ==
  ASSUME G!Init
  PROVE  GInv /\ GOrder /\ PositionsOwn
<1>1. /\ memos = 0 /\ gmemo = <<>> /\ pulled = <<>> /\ owner = <<>> /\ ending \in {"stop", "fail"}
      /\ instance = [t \in Threads |-> G!NoInstance] /\ gpc = [t \in Threads |-> "idle"]
      /\ using = [t \in Threads |-> t] /\ place = [t \in Threads |-> 0]
      /\ result = [t \in Threads |-> G!Stop] /\ got = [t \in Threads |-> <<>>]
  BY DEF G!Init
<1>2. GTypes
  BY <1>1, StopType DEF GTypes, G!NoInstance
<1>3. EntriesExist /\ OwnersHold
  BY <1>1 DEF EntriesExist, OwnersHold, Reading, G!NoInstance
<1>4. GOrder
  BY <1>1 DEF GOrder, MemoInOrder, ItemsPulled, ResultsFound
<1>5. PositionsOwn
  BY <1>1 DEF PositionsOwn, Reading, G!NoInstance
<1> QED
  BY <1>2, <1>3, <1>4, <1>5 DEF GInv

\* A result is given: the position of the instance moves on, and the result is
\* in the memo from now on.
LEMMA LeaveFacts ==
  ASSUME GInv, NEW t \in Threads, G!Leave(t)
  PROVE  /\ gpc[t] = "locked" /\ gpc' = [gpc EXCEPT ![t] = "idle"]
         /\ gmemo' \in Seq(Seq(G!Results)) /\ Len(gmemo') = Len(gmemo)
         /\ \A d \in 1..Len(gmemo) : d # EntryOf(t) => gmemo'[d] = gmemo[d]
         /\ gmemo'[EntryOf(t)] = IF place[t] < Len(gmemo[EntryOf(t)]) THEN gmemo[EntryOf(t)]
                                 ELSE Append(gmemo[EntryOf(t)], result[t])
         /\ instance' \in [Threads -> [entry : Nat, position : Nat]]
         /\ \A u \in Threads : instance'[u].entry = instance[u].entry
         /\ \A u \in Threads \ {using[t]} : instance'[u] = instance[u]
         /\ instance'[using[t]].position = instance[using[t]].position + 1
         /\ got' = [got EXCEPT ![using[t]] = Append(@, result[t])]
         /\ owner' = [owner EXCEPT ![EntryOf(t)] = Nobody]
         /\ UNCHANGED <<memos, pulled, ending, using, place, result>>
<1>1. gpc[t] = "locked" /\ Reading(t)
  BY DEF G!Leave, Reading
<1> DEFINE e == EntryOf(t)
<1> DEFINE i == using[t]
<1>2. /\ e \in 1..Len(gmemo) /\ gmemo[e] \in Seq(G!Results) /\ i \in Threads /\ result[t] \in G!Results
      /\ gmemo \in Seq(Seq(G!Results)) /\ instance \in [Threads -> [entry : Nat, position : Nat]]
  BY <1>1, FoundFacts DEF GInv, GTypes
<1>3. /\ gmemo' = IF place[t] < Len(gmemo[e]) THEN gmemo
                  ELSE [gmemo EXCEPT ![e] = Append(gmemo[e], result[t])]
      /\ instance' = [instance EXCEPT ![i].position = @ + 1]
      /\ gpc' = [gpc EXCEPT ![t] = "idle"] /\ owner' = [owner EXCEPT ![e] = Nobody]
      /\ got' = [got EXCEPT ![i] = Append(@, result[t])]
      /\ UNCHANGED <<memos, pulled, ending, using, place, result>>
  BY DEF G!Leave, EntryOf
<1>4. /\ gmemo' \in Seq(Seq(G!Results)) /\ Len(gmemo') = Len(gmemo)
      /\ \A d \in 1..Len(gmemo) : d # e => gmemo'[d] = gmemo[d]
      /\ gmemo'[e] = IF place[t] < Len(gmemo[e]) THEN gmemo[e] ELSE Append(gmemo[e], result[t])
  <2> HIDE DEF e
  <2>1. Append(gmemo[e], result[t]) \in Seq(G!Results)
    BY <1>2
  <2>2. QED
    BY <1>2, <1>3, <2>1
<1>5. /\ instance' \in [Threads -> [entry : Nat, position : Nat]]
      /\ \A u \in Threads : instance'[u].entry = instance[u].entry
      /\ \A u \in Threads \ {i} : instance'[u] = instance[u]
      /\ instance'[i].position = instance[i].position + 1
  <2> HIDE DEF i, e
  <2>1. instance[i] \in [entry : Nat, position : Nat]
    BY <1>2
  <2>2. [instance[i] EXCEPT !.position = @ + 1] \in [entry : Nat, position : Nat]
    BY <2>1
  <2>3. instance' = [instance EXCEPT ![i] = [instance[i] EXCEPT !.position = @ + 1]]
    BY <1>2, <1>3
  <2>4. QED
    BY <1>2, <2>1, <2>2, <2>3
<1> QED
  BY <1>1, <1>3, <1>4, <1>5

LEMMA GTypesStep ==
  ASSUME GInv, NEW t \in Threads, G!Step(t)
  PROVE  GTypes'
<1> USE DEF GInv, GTypes
<1>1. CASE G!Open(t)
  BY <1>1 DEF G!Open
<1>2. CASE G!Create(t)
  <2>1. gmemo' = Append(gmemo, <<>>) /\ pulled' = Append(pulled, 0) /\ owner' = Append(owner, Nobody)
    BY <1>2 DEF G!Create
  <2>2. gmemo' \in Seq(Seq(G!Results)) /\ Len(gmemo') = Len(gmemo) + 1
    BY <2>1
  <2>3. pulled' \in Seq(Nat) /\ Len(pulled') = Len(pulled) + 1
    BY <2>1
  <2>4. owner' \in Seq(Threads \cup {Nobody}) /\ Len(owner') = Len(owner) + 1
    BY <2>1
  <2>5. memos' \in Nat
    BY <1>2 DEF G!Create
  <2>6. gpc' \in [Threads -> {"idle", "create", "wrap", "acquire", "locked"}]
    BY <1>2 DEF G!Create
  <2>7. QED
    BY <1>2, <2>2, <2>3, <2>4, <2>5, <2>6 DEF G!Create
<1>3. CASE G!Wrap(t)
  BY <1>3 DEF G!Wrap
<1>4. ASSUME NEW i \in Threads, G!ReadPosition(t, i)
      PROVE  GTypes'
  BY <1>4 DEF G!ReadPosition
<1>5. CASE G!Acquire(t)
  <2> DEFINE e == EntryOf(t)
  <2>1. Reading(t)
    BY <1>5 DEF G!Acquire, Reading
  <2>2. /\ owner' = [owner EXCEPT ![e] = t] /\ gpc' = [gpc EXCEPT ![t] = "locked"] /\ G!Find(t, e)
        /\ UNCHANGED <<memos, gmemo, ending, instance, using, place, got>>
    BY <1>5 DEF G!Acquire, EntryOf
  <2>3. e \in 1..Len(gmemo) /\ pulled[e] \in Nat
    BY <2>1, FoundFacts
  <2>4. result' \in [Threads -> G!Results]
    BY <2>1, <2>2, FoundFacts DEF G!Find
  <2>5. pulled' \in Seq(Nat) /\ Len(pulled') = Len(pulled)
    <3>1. CASE pulled' = pulled
      BY <3>1
    <3>2. CASE pulled' = [pulled EXCEPT ![e] = pulled[e] + 1]
      <4> HIDE DEF e
      <4>1. pulled[e] + 1 \in Nat
        BY <2>3
      <4>2. QED
        BY <2>3, <3>2, <4>1
    <3>3. QED
      BY <2>2, <3>1, <3>2 DEF G!Find
  <2>6. owner' \in Seq(Threads \cup {Nobody}) /\ Len(owner') = Len(owner)
    <3> HIDE DEF e
    <3>1. QED
      BY <2>2, <2>3
  <2>7. QED
    BY <2>2, <2>4, <2>5, <2>6
<1>6. CASE G!Leave(t)
  <2> DEFINE e == EntryOf(t)
  <2> DEFINE i == using[t]
  <2>1. Reading(t)
    BY <1>6 DEF G!Leave, Reading
  <2>2. e \in 1..Len(gmemo) /\ i \in Threads /\ result[t] \in G!Results
    BY <2>1, FoundFacts
  <2>6. owner' = [owner EXCEPT ![e] = Nobody] /\ got' = [got EXCEPT ![i] = Append(@, result[t])]
    BY <1>6, LeaveFacts
  <2>7. /\ owner \in Seq(Threads \cup {Nobody}) /\ Len(owner) = Len(gmemo)
        /\ got \in [Threads -> Seq(G!Results)]
    OBVIOUS
  <2>3. owner' \in Seq(Threads \cup {Nobody}) /\ Len(owner') = Len(owner)
    <3> HIDE DEF e, GInv, GTypes
    <3>1. QED
      BY <2>2, <2>6, <2>7
  <2>4. got' \in [Threads -> Seq(G!Results)]
    <3> HIDE DEF i, GInv, GTypes
    <3>1. got[i] \in Seq(G!Results)
      BY <2>2, <2>7
    <3>2. Append(got[i], result[t]) \in Seq(G!Results)
      BY <2>2, <3>1
    <3>3. QED
      BY <2>2, <2>6, <2>7, <3>2
  <2>5. QED
    BY <1>6, <2>3, <2>4, LeaveFacts
<1> QED
  BY <1>1, <1>2, <1>3, <1>4, <1>5, <1>6 DEF G!Step

LEMMA EntriesStep ==
  ASSUME GInv, NEW t \in Threads, G!Step(t)
  PROVE  EntriesExist'
<1> SUFFICES ASSUME NEW u \in Threads
             PROVE  /\ memos' <= Len(gmemo')
                    /\ instance'[u].entry <= Len(gmemo')
                    /\ instance'[u].entry = 0 => instance'[u] = G!NoInstance
                    /\ gpc'[u] = "wrap" => memos' # 0
                    /\ gpc'[u] \in {"create", "wrap"} => instance'[u] = G!NoInstance
                    /\ Reading(u)' => EntryOf(u)' # 0
  BY DEF EntriesExist
<1> USE DEF Reading, EntryOf
<1>1. /\ memos \in Nat /\ Len(gmemo) \in Nat
      /\ instance \in [Threads -> [entry : Nat, position : Nat]]
      /\ gpc \in [Threads -> {"idle", "create", "wrap", "acquire", "locked"}]
      /\ using \in [Threads -> Threads]
  BY DEF GInv, GTypes
<1>2. /\ memos <= Len(gmemo)
      /\ \A v \in Threads :
           /\ instance[v].entry <= Len(gmemo)
           /\ instance[v].entry = 0 => instance[v] = G!NoInstance
           /\ gpc[v] = "wrap" => memos # 0
           /\ gpc[v] \in {"create", "wrap"} => instance[v] = G!NoInstance
           /\ gpc[v] \in {"acquire", "locked"} => instance[using[v]].entry # 0
  BY DEF GInv, EntriesExist
<1>3. CASE G!Open(t)
  BY <1>1, <1>2, <1>3 DEF G!Open
<1>4. CASE G!Create(t)
  <2>1. Len(gmemo') = Len(gmemo) + 1 /\ memos' = Len(gmemo) + 1
    BY <1>4 DEF G!Create, GInv, GTypes
  <2>2. gpc' = [gpc EXCEPT ![t] = "wrap"] /\ UNCHANGED <<instance, using>> /\ gpc[t] = "create"
    BY <1>4 DEF G!Create
  <2>3. memos' <= Len(gmemo') /\ memos' # 0 /\ instance'[u].entry <= Len(gmemo')
    <3>1. instance[u].entry \in Nat /\ instance[u].entry <= Len(gmemo)
      BY <1>1, <1>2
    <3>2. QED
      BY <1>1, <2>1, <2>2, <3>1
  <2>4. QED
    BY <1>1, <1>2, <2>2, <2>3
<1>5. CASE G!Wrap(t)
  <2>1. /\ gpc[t] = "wrap" /\ instance' = [instance EXCEPT ![t] = [entry |-> memos, position |-> 0]]
        /\ gpc' = [gpc EXCEPT ![t] = "idle"] /\ UNCHANGED <<memos, gmemo, using>>
    BY <1>5 DEF G!Wrap
  <2>2. memos # 0
    BY <1>2, <2>1
  <2>3. CASE u = t
    BY <1>1, <1>2, <2>1, <2>2, <2>3
  <2>4. CASE u # t
    <3>1. gpc'[u] \in {"acquire", "locked"} => instance'[using'[u]].entry # 0
      BY <1>1, <1>2, <2>1, <2>2, <2>4
    <3>2. QED
      BY <1>1, <1>2, <2>1, <2>4, <3>1
  <2>5. QED
    BY <2>3, <2>4
<1>6. ASSUME NEW i \in Threads, G!ReadPosition(t, i)
      PROVE  EntriesExist'
  <2>1. /\ instance[i] # G!NoInstance /\ using' = [using EXCEPT ![t] = i]
        /\ gpc' = [gpc EXCEPT ![t] = "acquire"] /\ UNCHANGED <<memos, gmemo, instance>>
    BY <1>6 DEF G!ReadPosition, G!Opened
  <2>2. instance[i].entry # 0
    BY <1>2, <2>1
  <2>3. QED
    BY <1>1, <1>2, <2>1, <2>2 DEF EntriesExist
<1>7. CASE G!Acquire(t)
  BY <1>1, <1>2, <1>7 DEF G!Acquire
<1>8. CASE G!Leave(t)
  <2>1. /\ gpc[t] = "locked" /\ gpc' = [gpc EXCEPT ![t] = "idle"] /\ Len(gmemo') = Len(gmemo)
        /\ \A v \in Threads : instance'[v].entry = instance[v].entry
        /\ \A v \in Threads \ {using[t]} : instance'[v] = instance[v]
        /\ UNCHANGED <<memos, using>>
    BY <1>8, LeaveFacts
  <2>2. instance[using[t]].entry # 0
    BY <1>2, <2>1
  <2>3. /\ instance'[u].entry = 0 => u # using[t]
        /\ gpc'[u] \in {"create", "wrap"} => u # using[t]
    BY <1>1, <1>2, <2>1, <2>2 DEF G!NoInstance
  <2>4. QED
    BY <1>1, <1>2, <2>1, <2>3
<1> QED
  BY <1>3, <1>4, <1>5, <1>6, <1>7, <1>8 DEF G!Step, EntriesExist

\* A step of a thread is of no concern to one that has the lock of an entry.
LEMMA OthersKept ==
  ASSUME GInv, NEW t \in Threads, G!Step(t), NEW u \in Threads, u # t
  PROVE  /\ gpc'[u] = gpc[u] /\ using'[u] = using[u]
         /\ gpc[u] = "locked" =>
              /\ EntryOf(u)' = EntryOf(u) /\ place'[u] = place[u] /\ result'[u] = result[u]
<1> USE DEF EntryOf
<1>1. /\ instance \in [Threads -> [entry : Nat, position : Nat]]
      /\ gpc \in [Threads -> {"idle", "create", "wrap", "acquire", "locked"}]
      /\ using \in [Threads -> Threads] /\ place \in [Threads -> Nat]
      /\ result \in [Threads -> G!Results]
  BY DEF GInv, GTypes
<1>2. CASE G!Open(t)
  BY <1>1, <1>2 DEF G!Open
<1>3. CASE G!Create(t)
  BY <1>1, <1>3 DEF G!Create
<1>4. CASE G!Wrap(t)
  <2>1. instance[t].entry = 0 /\ (gpc[u] = "locked" => instance[using[u]].entry # 0)
    BY <1>4 DEF G!Wrap, GInv, EntriesExist, Reading, G!NoInstance
  <2>2. QED
    BY <1>1, <1>4, <2>1 DEF G!Wrap
<1>5. ASSUME NEW i \in Threads, G!ReadPosition(t, i)
      PROVE  /\ gpc'[u] = gpc[u] /\ using'[u] = using[u]
             /\ gpc[u] = "locked" =>
                  /\ EntryOf(u)' = EntryOf(u) /\ place'[u] = place[u] /\ result'[u] = result[u]
  BY <1>1, <1>5 DEF G!ReadPosition
<1>6. CASE G!Acquire(t)
  BY <1>1, <1>6 DEF G!Acquire, G!Find
<1>7. CASE G!Leave(t)
  BY <1>1, <1>7, LeaveFacts
<1> QED
  BY <1>2, <1>3, <1>4, <1>5, <1>6, <1>7 DEF G!Step

\* Locks exclude each other.
LEMMA OneInside ==
  ASSUME OwnersHold, NEW t \in Threads, NEW u \in Threads, gpc[t] = "locked", gpc[u] = "locked",
         EntryOf(t) = EntryOf(u)
  PROVE  t = u
BY DEF OwnersHold

LEMMA OwnersStep ==
  ASSUME GInv, NEW t \in Threads, G!Step(t)
  PROVE  OwnersHold'
<1> SUFFICES ASSUME NEW u \in Threads, gpc'[u] = "locked"
             PROVE  owner'[EntryOf(u)'] = u
  BY DEF OwnersHold
<1>1. Nobody \notin Threads
  BY GMemoizeAssumption DEF G!GMemoizeAssumption
<1>2. /\ gpc \in [Threads -> {"idle", "create", "wrap", "acquire", "locked"}]
      /\ owner \in Seq(Threads \cup {Nobody}) /\ Len(owner) = Len(gmemo)
  BY DEF GInv, GTypes
<1>3. CASE u # t
  <2>1. gpc[u] = "locked" /\ EntryOf(u)' = EntryOf(u) /\ owner[EntryOf(u)] = u
    BY <1>3, OthersKept DEF GInv, OwnersHold
  <2>2. EntryOf(u) \in 1..Len(owner)
    BY <1>2, <2>1, FoundFacts DEF Reading
  <2>3. CASE UNCHANGED owner
    BY <2>1, <2>3
  <2>4. CASE G!Create(t)
    <3> DEFINE d == EntryOf(u)
    <3> HIDE DEF d
    <3>1. owner' = Append(owner, Nobody) /\ d \in 1..Len(owner)
      BY <2>2, <2>4 DEF G!Create, d
    <3>2. owner'[d] = owner[d]
      BY <1>2, <3>1
    <3>3. QED
      BY <2>1, <3>2 DEF d
  <2>5. CASE G!Acquire(t)
    <3>1. owner' = [owner EXCEPT ![EntryOf(t)] = t] /\ owner[EntryOf(t)] \in {t, Nobody}
      BY <2>5 DEF G!Acquire, EntryOf
    <3>2. EntryOf(u) # EntryOf(t)
      BY <1>1, <1>3, <2>1, <3>1
    <3>3. QED
      BY <1>2, <2>1, <2>2, <3>1, <3>2
  <2>6. CASE G!Leave(t)
    <3>1. owner' = [owner EXCEPT ![EntryOf(t)] = Nobody] /\ gpc[t] = "locked"
      BY <2>6, LeaveFacts
    <3>2. EntryOf(u) # EntryOf(t)
      BY <1>3, <2>1, <3>1, OneInside DEF GInv
    <3>3. QED
      BY <1>2, <2>1, <2>2, <3>1, <3>2
  <2>7. UNCHANGED owner \/ G!Create(t) \/ G!Acquire(t) \/ G!Leave(t)
    BY DEF G!Step, G!Open, G!Wrap, G!ReadPosition
  <2> QED
    BY <2>3, <2>4, <2>5, <2>6, <2>7
<1>4. CASE u = t
  <2>1. G!Acquire(t)
    BY <1>2, <1>4 DEF G!Step, G!Open, G!Create, G!Wrap, G!ReadPosition, G!Leave
  <2>2. /\ gpc[t] = "acquire" /\ owner' = [owner EXCEPT ![EntryOf(t)] = t]
        /\ EntryOf(t)' = EntryOf(t)
    BY <2>1 DEF G!Acquire, EntryOf
  <2>3. EntryOf(t) \in 1..Len(owner)
    BY <1>2, <2>2, FoundFacts DEF Reading
  <2>4. QED
    BY <1>2, <1>4, <2>2, <2>3
<1> QED
  BY <1>3, <1>4

LEMMA GInvStep ==
  ASSUME GInv, NEW t \in Threads, G!Step(t)
  PROVE  GInv'
BY GTypesStep, EntriesStep, OwnersStep DEF GInv

\* A thread that asks for an item takes it from the memo or from the generator.
LEMMA AcquireFacts ==
  ASSUME GInv, ~OneIterator, NEW t \in Threads, G!Acquire(t)
  PROVE  /\ gpc[t] = "acquire" /\ gpc'[t] = "locked" /\ EntryOf(t)' = EntryOf(t)
         /\ owner[EntryOf(t)] \in {t, Nobody} /\ UNCHANGED <<gmemo, ending, place>>
         /\ place[t] < Len(gmemo[EntryOf(t)]) =>
              pulled' = pulled /\ result'[t] = gmemo[EntryOf(t)][place[t] + 1]
         /\ ~(place[t] < Len(gmemo[EntryOf(t)])) =>
              /\ pulled' = [pulled EXCEPT ![EntryOf(t)] = pulled[EntryOf(t)] + 1]
              /\ result'[t] = G!Yielded(pulled[EntryOf(t)] + 1)
<1> DEFINE e == EntryOf(t)
<1>1. /\ gpc[t] = "acquire" /\ gpc' = [gpc EXCEPT ![t] = "locked"] /\ e' = e
      /\ owner[e] \in {t, Nobody} /\ UNCHANGED <<gmemo, ending, place>> /\ G!Find(t, e)
  BY DEF G!Acquire, EntryOf
<1>2. G!Asked(e) = pulled[e]
  BY DEF G!Asked
<1>3. result \in [Threads -> G!Results] /\ gpc \in [Threads -> {"idle", "create", "wrap", "acquire", "locked"}]
  BY DEF GInv, GTypes
<1> HIDE DEF e
<1>4. /\ place[t] < Len(gmemo[e]) => pulled' = pulled /\ result'[t] = gmemo[e][place[t] + 1]
      /\ ~(place[t] < Len(gmemo[e])) =>
           pulled' = [pulled EXCEPT ![e] = pulled[e] + 1] /\ result'[t] = G!Yielded(pulled[e] + 1)
  BY <1>1, <1>2, <1>3 DEF G!Find
<1> QED
  BY <1>1, <1>3, <1>4 DEF e

\* What a generator gives does not depend on when it is asked.
LEMMA YieldedKept ==
  ASSUME ending' = ending, NEW n
  PROVE  G!Yielded(n)' = G!Yielded(n)
BY DEF G!Yielded

\* The steps that do not concern the memo: opening an instance and reading its position
LEMMA QuietStep ==
  ASSUME GInv, GOrder, NEW t \in Threads, G!Step(t), ~G!Create(t), ~G!Acquire(t), ~G!Leave(t)
  PROVE  GOrder'
<1>1. /\ UNCHANGED <<gmemo, pulled, ending>> /\ gpc[t] # "locked" /\ gpc'[t] # "locked"
  BY DEF G!Step, G!Open, G!Wrap, G!ReadPosition, GInv, GTypes
<1>2. \A u \in Threads :
        /\ gpc'[u] = "locked" <=> gpc[u] = "locked"
        /\ gpc[u] = "locked" =>
             EntryOf(u)' = EntryOf(u) /\ place'[u] = place[u] /\ result'[u] = result[u]
  BY <1>1, OthersKept
<1>3. \A n : G!Yielded(n)' = G!Yielded(n)
  BY <1>1, YieldedKept
<1>4. MemoInOrder'
  BY <1>1, <1>3 DEF GOrder, MemoInOrder
<1>5. ItemsPulled'
  <2>1. \A u \in Threads : \A e : Pulling(u, e)' <=> Pulling(u, e)
    BY <1>1, <1>2 DEF Pulling
  <2>2. QED
    BY <1>1, <2>1 DEF GOrder, ItemsPulled, Taken
<1>6. ResultsFound'
  BY <1>1, <1>2, <1>3 DEF GOrder, ResultsFound
<1> QED
  BY <1>4, <1>5, <1>6 DEF GOrder

LEMMA CreateOrder ==
  ASSUME GInv, GOrder, NEW t \in Threads, G!Step(t), G!Create(t)
  PROVE  GOrder'
<1>1. /\ gpc[t] = "create" /\ gpc' = [gpc EXCEPT ![t] = "wrap"] /\ UNCHANGED ending
      /\ gmemo' = Append(gmemo, <<>>) /\ pulled' = Append(pulled, 0)
  BY DEF G!Create
<1>2. /\ gmemo \in Seq(Seq(G!Results)) /\ pulled \in Seq(Nat) /\ Len(pulled) = Len(gmemo)
      /\ gpc \in [Threads -> {"idle", "create", "wrap", "acquire", "locked"}]
  BY DEF GInv, GTypes
<1>3. /\ Len(gmemo') = Len(gmemo) + 1 /\ gmemo'[Len(gmemo) + 1] = <<>> /\ pulled'[Len(gmemo) + 1] = 0
      /\ \A e \in 1..Len(gmemo) : gmemo'[e] = gmemo[e] /\ pulled'[e] = pulled[e]
  BY <1>1, <1>2
<1>4. \A e \in 1..Len(gmemo') : e \in 1..Len(gmemo) \/ e = Len(gmemo) + 1
  BY <1>2, <1>3
<1>5. \A u \in Threads :
        /\ gpc'[u] = "locked" <=> gpc[u] = "locked"
        /\ gpc[u] = "locked" =>
             /\ EntryOf(u)' = EntryOf(u) /\ place'[u] = place[u] /\ result'[u] = result[u]
             /\ EntryOf(u) \in 1..Len(gmemo)
  BY <1>1, <1>2, OthersKept, FoundFacts DEF Reading
<1>6. \A n : G!Yielded(n)' = G!Yielded(n)
  BY <1>1, YieldedKept
<1>7. MemoInOrder'
  <2> SUFFICES ASSUME NEW e \in 1..Len(gmemo'), NEW n \in 1..Len(gmemo'[e])
               PROVE  gmemo'[e][n] = G!Yielded(n)'
    BY DEF MemoInOrder
  <2>1. e \in 1..Len(gmemo)
    BY <1>3, <1>4
  <2>2. QED
    BY <1>3, <1>6, <2>1 DEF GOrder, MemoInOrder
<1>8. ItemsPulled'
  <2> SUFFICES ASSUME NEW e \in 1..Len(gmemo')
               PROVE  pulled'[e] = IF Taken(e)' THEN Len(gmemo'[e]) + 1 ELSE Len(gmemo'[e])
    BY DEF ItemsPulled
  <2>1. CASE e \in 1..Len(gmemo)
    <3>1. Taken(e)' <=> Taken(e)
      BY <1>3, <1>5, <2>1 DEF Taken, Pulling
    <3>2. pulled[e] = IF Taken(e) THEN Len(gmemo[e]) + 1 ELSE Len(gmemo[e])
      BY <2>1 DEF GOrder, ItemsPulled
    <3>3. QED
      BY <1>3, <2>1, <3>1, <3>2
  <2>2. CASE e = Len(gmemo) + 1
    <3>1. ~Taken(e)'
      <4>1. Len(gmemo) \in Nat
        BY <1>2
      <4>2. \A u \in Threads : gpc'[u] = "locked" => EntryOf(u)' # e
        BY <1>5, <2>2, <4>1
      <4>3. QED
        BY <4>2 DEF Taken, Pulling
    <3>2. QED
      BY <1>3, <2>2, <3>1
  <2>3. QED
    BY <1>4, <2>1, <2>2
<1>9. ResultsFound'
  BY <1>3, <1>5, <1>6 DEF GOrder, ResultsFound
<1> QED
  BY <1>7, <1>8, <1>9 DEF GOrder

LEMMA AcquireOrder ==
  ASSUME GInv, GOrder, ~OneIterator, NEW t \in Threads, G!Step(t), G!Acquire(t)
  PROVE  GOrder'
<1> DEFINE e0 == EntryOf(t)
<1>1. /\ gpc[t] = "acquire" /\ gpc'[t] = "locked" /\ e0' = e0
      /\ owner[e0] \in {t, Nobody} /\ UNCHANGED <<gmemo, ending, place>>
      /\ place[t] < Len(gmemo[e0]) => pulled' = pulled /\ result'[t] = gmemo[e0][place[t] + 1]
      /\ ~(place[t] < Len(gmemo[e0])) =>
           pulled' = [pulled EXCEPT ![e0] = pulled[e0] + 1] /\ result'[t] = G!Yielded(pulled[e0] + 1)
  BY AcquireFacts
<1>2. /\ e0 \in 1..Len(gmemo) /\ place[t] \in Nat /\ Len(gmemo[e0]) \in Nat /\ pulled[e0] \in Nat
      /\ pulled \in Seq(Nat) /\ Len(pulled) = Len(gmemo)
  BY <1>1, FoundFacts DEF Reading, GInv, GTypes
<1>3. \A u \in Threads \ {t} :
        /\ gpc'[u] = gpc[u]
        /\ gpc[u] = "locked" =>
             EntryOf(u)' = EntryOf(u) /\ place'[u] = place[u] /\ result'[u] = result[u]
  BY OthersKept
<1>4. \A u \in Threads : gpc[u] = "locked" => EntryOf(u) # e0
  BY <1>1, GMemoizeAssumption DEF GInv, OwnersHold, G!GMemoizeAssumption
<1>5. \A n : G!Yielded(n)' = G!Yielded(n)
  BY <1>1, YieldedKept
<1>6. ~Taken(e0)
  BY <1>4 DEF Taken, Pulling
<1>7. pulled[e0] = Len(gmemo[e0])
  BY <1>2, <1>6 DEF GOrder, ItemsPulled
<1>8. MemoInOrder'
  BY <1>1, <1>5 DEF GOrder, MemoInOrder
<1>9. ItemsPulled'
  <2> SUFFICES ASSUME NEW e \in 1..Len(gmemo)
               PROVE  pulled'[e] = IF Taken(e)' THEN Len(gmemo[e]) + 1 ELSE Len(gmemo[e])
    BY <1>1 DEF ItemsPulled
  <2>1. CASE e # e0
    <3>1. Taken(e)' <=> Taken(e)
      BY <1>1, <1>3, <2>1 DEF Taken, Pulling
    <3>2. pulled'[e] = pulled[e]
      BY <1>1, <1>2, <2>1
    <3>3. pulled[e] = IF Taken(e) THEN Len(gmemo[e]) + 1 ELSE Len(gmemo[e])
      BY DEF GOrder, ItemsPulled
    <3>4. QED
      BY <3>1, <3>2, <3>3
  <2>2. CASE e = e0 /\ place[t] < Len(gmemo[e0])
    <3>1. ~Taken(e)'
      <4>1. ~Pulling(t, e)'
        BY <1>1, <2>2 DEF Pulling
      <4>2. \A u \in Threads \ {t} : ~Pulling(u, e)'
        BY <1>3, <1>4, <2>2 DEF Pulling
      <4>3. QED
        BY <4>1, <4>2 DEF Taken
    <3>2. pulled'[e] = Len(gmemo[e])
      BY <1>1, <1>7, <2>2
    <3>3. QED
      BY <1>2, <2>2, <3>1, <3>2
  <2>3. CASE e = e0 /\ ~(place[t] < Len(gmemo[e0]))
    <3>1. Pulling(t, e)'
      BY <1>1, <1>2, <2>3 DEF Pulling
    <3>2. Taken(e)'
      BY <3>1 DEF Taken
    <3>3. pulled'[e] = Len(gmemo[e]) + 1
      <4> HIDE DEF e0
      <4>1. QED
        BY <1>1, <1>2, <1>7, <2>3
    <3>4. QED
      BY <3>2, <3>3
  <2>4. QED
    BY <2>1, <2>2, <2>3
<1>10. ResultsFound'
  <2> SUFFICES ASSUME NEW u \in Threads, gpc'[u] = "locked"
               PROVE  result'[u] = IF place[u] < Len(gmemo[EntryOf(u)'])
                                   THEN gmemo[EntryOf(u)'][place[u] + 1]
                                   ELSE G!Yielded(Len(gmemo[EntryOf(u)']) + 1)
    BY <1>1, <1>5 DEF ResultsFound
  <2>1. CASE u = t
    BY <1>1, <1>7, <2>1
  <2>2. CASE u # t
    BY <1>3, <2>2 DEF GOrder, ResultsFound
  <2>3. QED
    BY <2>1, <2>2
<1> QED
  BY <1>8, <1>9, <1>10 DEF GOrder

LEMMA LeaveOrder ==
  ASSUME GInv, GOrder, NEW t \in Threads, G!Step(t), G!Leave(t)
  PROVE  GOrder'
<1> DEFINE e0 == EntryOf(t)
<1>1. /\ gpc[t] = "locked" /\ gpc' = [gpc EXCEPT ![t] = "idle"] /\ Len(gmemo') = Len(gmemo)
      /\ \A d \in 1..Len(gmemo) : d # e0 => gmemo'[d] = gmemo[d]
      /\ gmemo'[e0] = IF place[t] < Len(gmemo[e0]) THEN gmemo[e0] ELSE Append(gmemo[e0], result[t])
      /\ UNCHANGED <<pulled, ending, place, result>>
  BY LeaveFacts
<1>2. /\ e0 \in 1..Len(gmemo) /\ gmemo[e0] \in Seq(G!Results) /\ Len(gmemo[e0]) \in Nat
      /\ result[t] \in G!Results
      /\ gpc \in [Threads -> {"idle", "create", "wrap", "acquire", "locked"}]
  BY <1>1, FoundFacts DEF Reading, GInv, GTypes
<1>3. /\ gpc'[t] = "idle"
      /\ \A u \in Threads \ {t} :
           /\ gpc'[u] = gpc[u]
           /\ gpc[u] = "locked" =>
                EntryOf(u)' = EntryOf(u) /\ place'[u] = place[u] /\ result'[u] = result[u]
  BY <1>1, <1>2, OthersKept
<1>4. \A u \in Threads \ {t} : gpc[u] = "locked" => EntryOf(u) # e0 /\ EntryOf(u) \in 1..Len(gmemo)
  BY <1>1, OneInside, FoundFacts DEF GInv, Reading
<1>5. \A n : G!Yielded(n)' = G!Yielded(n)
  BY <1>1, YieldedKept
<1>6. ~(place[t] < Len(gmemo[e0])) => result[t] = G!Yielded(Len(gmemo[e0]) + 1)
  BY <1>1 DEF GOrder, ResultsFound
<1>7. MemoInOrder'
  <2> SUFFICES ASSUME NEW e \in 1..Len(gmemo), NEW n \in 1..Len(gmemo'[e])
               PROVE  gmemo'[e][n] = G!Yielded(n)
    BY <1>1, <1>5 DEF MemoInOrder
  <2>1. CASE gmemo'[e] = gmemo[e]
    BY <2>1 DEF GOrder, MemoInOrder
  <2>2. CASE e = e0 /\ ~(place[t] < Len(gmemo[e0]))
    <3>1. gmemo'[e] = Append(gmemo[e], result[t]) /\ gmemo[e] \in Seq(G!Results)
      BY <1>1, <1>2, <2>2
    <3>2. CASE n = Len(gmemo[e]) + 1
      BY <1>2, <1>6, <2>2, <3>1, <3>2
    <3>3. CASE n # Len(gmemo[e]) + 1
      <4>1. n \in 1..Len(gmemo[e]) /\ gmemo'[e][n] = gmemo[e][n]
        BY <1>2, <3>1, <3>3
      <4>2. QED
        BY <4>1 DEF GOrder, MemoInOrder
    <3>4. QED
      BY <3>2, <3>3
  <2>3. QED
    BY <1>1, <2>1, <2>2
<1>8. ItemsPulled'
  <2> SUFFICES ASSUME NEW e \in 1..Len(gmemo)
               PROVE  pulled[e] = IF Taken(e)' THEN Len(gmemo'[e]) + 1 ELSE Len(gmemo'[e])
    BY <1>1 DEF ItemsPulled
  <2>0. pulled[e] = IF Taken(e) THEN Len(gmemo[e]) + 1 ELSE Len(gmemo[e])
    BY DEF GOrder, ItemsPulled
  <2>1. CASE e # e0
    <3>1. Taken(e)' <=> Taken(e)
      BY <1>1, <1>3, <2>1 DEF Taken, Pulling
    <3>2. QED
      BY <1>1, <2>0, <2>1, <3>1
  <2>2. CASE e = e0
    <3>1. ~Taken(e)'
      BY <1>3, <1>4, <2>2 DEF Taken, Pulling
    <3>2. CASE place[t] < Len(gmemo[e0])
      <4>1. ~Taken(e)
        BY <1>4, <2>2, <3>2 DEF Taken, Pulling
      <4>2. QED
        BY <1>1, <2>0, <2>2, <3>1, <3>2, <4>1
    <3>3. CASE ~(place[t] < Len(gmemo[e0]))
      <4>1. Taken(e)
        BY <1>1, <2>2, <3>3 DEF Taken, Pulling
      <4>2. Len(gmemo'[e]) = Len(gmemo[e]) + 1
        BY <1>1, <1>2, <2>2, <3>3
      <4>3. QED
        BY <2>0, <3>1, <4>1, <4>2
    <3>4. QED
      BY <3>2, <3>3
  <2>3. QED
    BY <2>1, <2>2
<1>9. ResultsFound'
  <2> SUFFICES ASSUME NEW u \in Threads, gpc'[u] = "locked"
               PROVE  result'[u] = IF place'[u] < Len(gmemo'[EntryOf(u)'])
                                   THEN gmemo'[EntryOf(u)'][place'[u] + 1]
                                   ELSE G!Yielded(Len(gmemo'[EntryOf(u)']) + 1)
    BY <1>5 DEF ResultsFound
  <2>1. u # t /\ gpc[u] = "locked"
    BY <1>3
  <2>2. /\ EntryOf(u)' = EntryOf(u) /\ place'[u] = place[u] /\ result'[u] = result[u]
        /\ gmemo'[EntryOf(u)] = gmemo[EntryOf(u)]
    BY <1>1, <1>3, <1>4, <2>1
  <2>3. QED
    BY <2>1, <2>2 DEF GOrder, ResultsFound
<1> QED
  BY <1>7, <1>8, <1>9 DEF GOrder

LEMMA GOrderStep ==
  ASSUME GInv, GOrder, ~OneIterator, NEW t \in Threads, G!Step(t)
  PROVE  GOrder'
BY QuietStep, CreateOrder, AcquireOrder, LeaveOrder

\* What a thread finds is what the generator gives at the position it has read.
LEMMA ResultAtPlace ==
  ASSUME GInv, GOrder, PositionsOwn, NEW t \in Threads, gpc[t] = "locked"
  PROVE  /\ using[t] = t /\ instance[t].position = Len(got[t])
         /\ result[t] = G!Yielded(Len(got[t]) + 1)
         /\ place[t] = Len(got[t]) /\ place[t] <= Len(gmemo[EntryOf(t)])
<1> DEFINE e == EntryOf(t)
<1>1. /\ using[t] = t /\ place[t] = instance[t].position /\ instance[t].position = Len(got[t])
      /\ instance[t].entry # 0 => instance[t].position <= Len(gmemo[instance[t].entry])
  BY DEF PositionsOwn, Reading
<1>2. e = instance[t].entry /\ e \in 1..Len(gmemo) /\ place[t] \in Nat /\ Len(gmemo[e]) \in Nat
  BY <1>1, FoundFacts DEF Reading, EntryOf
<1>3. place[t] <= Len(gmemo[e])
  BY <1>1, <1>2
<1>4. result[t] = IF place[t] < Len(gmemo[e]) THEN gmemo[e][place[t] + 1] ELSE G!Yielded(Len(gmemo[e]) + 1)
  BY DEF GOrder, ResultsFound
<1>5. CASE place[t] < Len(gmemo[e])
  <2>1. place[t] + 1 \in 1..Len(gmemo[e])
    BY <1>2, <1>5
  <2>2. gmemo[e][place[t] + 1] = G!Yielded(place[t] + 1)
    BY <1>2, <2>1 DEF GOrder, MemoInOrder
  <2>3. QED
    BY <1>1, <1>3, <1>4, <1>5, <2>2
<1>6. CASE ~(place[t] < Len(gmemo[e]))
  <2>1. place[t] = Len(gmemo[e])
    BY <1>2, <1>3, <1>6
  <2>2. QED
    BY <1>1, <1>3, <1>4, <1>6, <2>1
<1> QED
  BY <1>5, <1>6

LEMMA PositionsStep ==
  ASSUME GInv, GOrder, PositionsOwn, ~Sharing, NEW t \in Threads, G!Step(t)
  PROVE  PositionsOwn'
<1> SUFFICES ASSUME NEW u \in Threads
             PROVE  /\ Reading(u)' => using'[u] = u /\ place'[u] = instance'[u].position
                    /\ instance'[u].position = Len(got'[u])
                    /\ instance'[u].entry # 0 => instance'[u].position <= Len(gmemo'[instance'[u].entry])
                    /\ \A n \in 1..Len(got'[u]) : got'[u][n] = G!Yielded(n)'
  BY DEF PositionsOwn
<1> USE DEF Reading
<1>1. /\ gmemo \in Seq(Seq(G!Results)) /\ Len(gmemo) \in Nat
      /\ instance \in [Threads -> [entry : Nat, position : Nat]]
      /\ gpc \in [Threads -> {"idle", "create", "wrap", "acquire", "locked"}]
      /\ using \in [Threads -> Threads] /\ place \in [Threads -> Nat]
      /\ got \in [Threads -> Seq(G!Results)]
  BY DEF GInv, GTypes
<1>2. /\ gpc[u] \in {"acquire", "locked"} => using[u] = u /\ place[u] = instance[u].position
      /\ instance[u].position = Len(got[u])
      /\ instance[u].entry # 0 => instance[u].position <= Len(gmemo[instance[u].entry])
      /\ \A n \in 1..Len(got[u]) : got[u][n] = G!Yielded(n)
      /\ instance[u].entry \in Nat /\ instance[u].entry <= Len(gmemo)
  BY <1>1 DEF PositionsOwn, GInv, EntriesExist
<1>3. \A n : G!Yielded(n)' = G!Yielded(n)
  <2>1. ending' = ending
    BY DEF G!Step, G!Open, G!Create, G!Wrap, G!ReadPosition, G!Acquire, G!Leave
  <2>2. QED
    BY <2>1, YieldedKept
<1>4. CASE G!Open(t)
  BY <1>1, <1>2, <1>3, <1>4 DEF G!Open
<1>5. CASE G!Create(t)
  <2>1. /\ gpc' = [gpc EXCEPT ![t] = "wrap"] /\ gmemo' = Append(gmemo, <<>>)
        /\ UNCHANGED <<instance, using, place, got>>
    BY <1>5 DEF G!Create
  <2>2. instance[u].entry # 0 => gmemo'[instance[u].entry] = gmemo[instance[u].entry]
    <3>1. instance[u].entry # 0 => instance[u].entry \in 1..Len(gmemo)
      BY <1>1, <1>2
    <3>2. QED
      BY <1>1, <2>1, <3>1
  <2>3. QED
    BY <1>1, <1>2, <1>3, <2>1, <2>2
<1>6. CASE G!Wrap(t)
  <2>1. /\ gpc[t] = "wrap" /\ instance' = [instance EXCEPT ![t] = [entry |-> memos, position |-> 0]]
        /\ gpc' = [gpc EXCEPT ![t] = "idle"] /\ UNCHANGED <<memos, gmemo, using, place, got>>
    BY <1>6 DEF G!Wrap
  <2>2. CASE u = t
    <3>1. instance[t].position = 0
      BY <2>1 DEF GInv, EntriesExist, G!NoInstance
    <3>2. memos \in 1..Len(gmemo)
      BY <1>1, <2>1 DEF GInv, GTypes, EntriesExist
    <3>3. gmemo[memos] \in Seq(G!Results)
      BY <1>1, <3>2
    <3>4. 0 <= Len(gmemo[memos])
      BY <3>3
    <3>5. QED
      BY <1>1, <1>2, <1>3, <2>1, <2>2, <3>1, <3>4
  <2>3. CASE u # t
    BY <1>1, <1>2, <1>3, <2>1, <2>3
  <2>4. QED
    BY <2>2, <2>3
<1>7. ASSUME NEW i \in Threads, G!ReadPosition(t, i)
      PROVE  PositionsOwn'
  <2>1. /\ i = t /\ using' = [using EXCEPT ![t] = i] /\ place' = [place EXCEPT ![t] = instance[i].position]
        /\ gpc' = [gpc EXCEPT ![t] = "acquire"] /\ UNCHANGED <<memos, gmemo, instance, got>>
    BY <1>7 DEF G!ReadPosition
  <2>2. QED
    BY <1>1, <1>3, <2>1 DEF PositionsOwn
<1>8. CASE G!Acquire(t)
  BY <1>1, <1>2, <1>3, <1>8 DEF G!Acquire
<1>9. CASE G!Leave(t)
  <2>1. /\ gpc[t] = "locked" /\ gpc' = [gpc EXCEPT ![t] = "idle"] /\ Len(gmemo') = Len(gmemo)
        /\ \A d \in 1..Len(gmemo) : d # EntryOf(t) => gmemo'[d] = gmemo[d]
        /\ gmemo'[EntryOf(t)] = IF place[t] < Len(gmemo[EntryOf(t)]) THEN gmemo[EntryOf(t)]
                                ELSE Append(gmemo[EntryOf(t)], result[t])
        /\ \A v \in Threads : instance'[v].entry = instance[v].entry
        /\ \A v \in Threads \ {using[t]} : instance'[v] = instance[v]
        /\ instance'[using[t]].position = instance[using[t]].position + 1
        /\ got' = [got EXCEPT ![using[t]] = Append(@, result[t])] /\ UNCHANGED <<using, place, result>>
    BY <1>9, LeaveFacts
  <2>2. /\ using[t] = t /\ instance[t].position = Len(got[t]) /\ result[t] = G!Yielded(Len(got[t]) + 1)
        /\ place[t] = Len(got[t]) /\ place[t] <= Len(gmemo[EntryOf(t)])
    BY <2>1, ResultAtPlace
  <2>3. /\ EntryOf(t) = instance[t].entry /\ EntryOf(t) \in 1..Len(gmemo) /\ result[t] \in G!Results
        /\ gmemo[EntryOf(t)] \in Seq(G!Results) /\ place[t] \in Nat
    BY <1>1, <2>1, <2>2, FoundFacts DEF EntryOf, GInv, GTypes
  <2>4. Len(gmemo'[EntryOf(t)]) = IF place[t] < Len(gmemo[EntryOf(t)]) THEN Len(gmemo[EntryOf(t)])
                                  ELSE Len(gmemo[EntryOf(t)]) + 1
    BY <2>1, <2>3
  <2>5. CASE u = t
    <3>1. instance'[t].position <= Len(gmemo'[EntryOf(t)])
      <4>1. Len(gmemo[EntryOf(t)]) \in Nat
        BY <2>3
      <4>2. instance'[t].position = place[t] + 1
        BY <2>1, <2>2
      <4>3. QED
        BY <2>2, <2>3, <2>4, <4>1, <4>2
    <3>2. got[t] \in Seq(G!Results) /\ got'[t] = Append(got[t], result[t])
      BY <1>1, <2>1, <2>2
    <3>3. Len(got'[t]) = Len(got[t]) + 1
      BY <2>3, <3>2
    <3>4. \A n \in 1..Len(got'[t]) : got'[t][n] = G!Yielded(n)
      <4> SUFFICES ASSUME NEW n \in 1..Len(got'[t])
                   PROVE  got'[t][n] = G!Yielded(n)
        OBVIOUS
      <4>1. CASE n = Len(got[t]) + 1
        BY <2>2, <2>3, <3>2, <4>1
      <4>2. CASE n # Len(got[t]) + 1
        <5>1. n \in 1..Len(got[t]) /\ got'[t][n] = got[t][n]
          BY <2>3, <3>2, <3>3, <4>2
        <5>2. QED
          BY <1>2, <2>5, <5>1
      <4>3. QED
        BY <4>1, <4>2
    <3>5. gpc'[t] = "idle"
      BY <1>1, <2>1
    <3>6. QED
      BY <1>3, <2>1, <2>2, <2>3, <2>5, <3>1, <3>3, <3>4, <3>5
  <2>6. CASE u # t
    <3>1. /\ instance'[u] = instance[u] /\ got'[u] = got[u] /\ gpc'[u] = gpc[u]
          /\ using'[u] = using[u] /\ place'[u] = place[u]
      BY <1>1, <2>1, <2>2, <2>6
    <3>2. instance[u].entry # 0 => Len(gmemo[instance[u].entry]) <= Len(gmemo'[instance[u].entry])
      <4>1. instance[u].entry # 0 => instance[u].entry \in 1..Len(gmemo)
        BY <1>1, <1>2
      <4>2. \A d \in 1..Len(gmemo) : Len(gmemo[d]) \in Nat
        BY <1>1
      <4>3. \A d \in 1..Len(gmemo) : Len(gmemo[d]) <= Len(gmemo'[d])
        <5> SUFFICES ASSUME NEW d \in 1..Len(gmemo) PROVE Len(gmemo[d]) <= Len(gmemo'[d])
          OBVIOUS
        <5>1. CASE d = EntryOf(t)
          BY <2>4, <4>2, <5>1
        <5>2. CASE d # EntryOf(t)
          BY <2>1, <4>2, <5>2
        <5>3. QED
          BY <5>1, <5>2
      <4>4. QED
        BY <4>1, <4>3
    <3>3. instance[u].entry # 0 => instance[u].position <= Len(gmemo'[instance[u].entry])
      <4>1. instance[u].entry # 0 => instance[u].entry \in 1..Len(gmemo)
        BY <1>1, <1>2
      <4>2. \A d \in 1..Len(gmemo) : Len(gmemo[d]) \in Nat /\ Len(gmemo'[d]) \in Nat
        <5>1. gmemo' \in Seq(Seq(G!Results))
          BY <1>9, LeaveFacts
        <5>2. \A d \in 1..Len(gmemo) : gmemo[d] \in Seq(G!Results) /\ gmemo'[d] \in Seq(G!Results)
          <6>1. \A d \in 1..Len(gmemo) : gmemo[d] \in Seq(G!Results)
            BY <1>1
          <6>2. \A d \in 1..Len(gmemo') : gmemo'[d] \in Seq(G!Results)
            BY <5>1
          <6>3. QED
            BY <2>1, <6>1, <6>2
        <5>3. QED
          BY <5>2
      <4>3. instance[u].position \in Nat
        BY <1>1
      <4>4. QED
        BY <1>2, <3>2, <4>1, <4>2, <4>3
    <3>4. QED
      BY <1>2, <1>3, <3>1, <3>3
  <2>7. QED
    BY <2>5, <2>6
<1> QED
  BY <1>4, <1>5, <1>6, <1>7, <1>8, <1>9 DEF G!Step, PositionsOwn

------------------------------------------------------------------------------
(***************************************************************************)
(* Functions and generators, each on their own                             *)
(***************************************************************************)
\* What is not the subject of a behaviour does not change.
LEMMA Unconcerned ==
  /\ IInv /\ UNCHANGED vars => IInv'
  /\ GInv /\ UNCHANGED gvars => GInv'
  /\ GOrder /\ UNCHANGED gvars => GOrder'
  /\ PositionsOwn /\ UNCHANGED gvars => PositionsOwn'
<1>1. IInv /\ UNCHANGED vars => IInv'
  BY StepInvariant
<1>2. ASSUME GInv, UNCHANGED gvars
      PROVE  GInv'
  BY <1>2 DEF GInv, GTypes, EntriesExist, OwnersHold, Reading, EntryOf, gvars
<1>3. ASSUME UNCHANGED gvars
      PROVE  \A n : G!Yielded(n)' = G!Yielded(n)
  BY <1>3, YieldedKept DEF gvars
<1>4. ASSUME GOrder, UNCHANGED gvars
      PROVE  GOrder'
  BY <1>3, <1>4 DEF GOrder, MemoInOrder, ItemsPulled, ResultsFound, Taken, Pulling, EntryOf, gvars
<1>5. ASSUME PositionsOwn, UNCHANGED gvars
      PROVE  PositionsOwn'
  BY <1>3, <1>5 DEF PositionsOwn, Reading, gvars
<1> QED
  BY <1>1, <1>2, <1>4, <1>5

LEMMA MCInvariant == MCSpec => [](IInv /\ GInv)
<1>1. MCInit => IInv /\ GInv
  BY InitInvariant, GInit DEF MCInit
<1>2. IInv /\ GInv /\ [MCNext]_<<vars, gvars, subject>> => IInv' /\ GInv'
  <2> SUFFICES ASSUME IInv, GInv, [MCNext]_<<vars, gvars, subject>>
               PROVE  IInv' /\ GInv'
    OBVIOUS
  <2>1. CASE Next /\ UNCHANGED gvars
    BY <2>1, StepInvariant, Unconcerned
  <2>2. CASE G!Next /\ UNCHANGED vars
    BY <2>2, GInvStep, Unconcerned DEF G!Next
  <2>3. CASE UNCHANGED vars /\ UNCHANGED gvars
    BY <2>3, Unconcerned
  <2> QED
    BY <2>1, <2>2, <2>3 DEF MCNext
<1> QED
  BY <1>1, <1>2, PTL DEF MCSpec

LEMMA OrderInvariant ==
  ASSUME ~OneIterator
  PROVE  MCSpec => []GOrder
<1>1. MCInit => GOrder
  BY GInit DEF MCInit
<1>2. GInv /\ GOrder /\ [MCNext]_<<vars, gvars, subject>> => GOrder'
  BY GOrderStep, Unconcerned DEF MCNext, G!Next
<1> QED
  BY MCInvariant, <1>1, <1>2, PTL DEF MCSpec

\* The variables of memoized functions and generators keep their types; in
\* particular, what an instance of a generator refers to is always there.
THEOREM MemoizationTypes == MCSpec => []MCTypeOK
<1>1. IInv /\ GInv => MCTypeOK
  <2> SUFFICES ASSUME IInv, GInv PROVE TypeOK /\ G!TypeOK
    BY DEF MCTypeOK
  <2>1. TypeOK
    BY DEF IInv
  <2>2. /\ memos \in Nat /\ gmemo \in Seq(Seq(G!Results)) /\ Len(gmemo) \in Nat
        /\ pulled \in Seq(Nat) /\ Len(pulled) = Len(gmemo)
        /\ owner \in Seq(Threads \cup {Nobody}) /\ Len(owner) = Len(gmemo)
        /\ instance \in [Threads -> [entry : Nat, position : Nat]]
        /\ memos <= Len(gmemo) /\ \A t \in Threads : instance[t].entry <= Len(gmemo)
    BY DEF GInv, GTypes, EntriesExist
  <2>3. memos \in 0..Len(gmemo)
    BY <2>2
  <2>4. pulled \in [G!Entries -> Nat] /\ owner \in [G!Entries -> Threads \cup {Nobody}]
    BY <2>2 DEF G!Entries
  <2>5. instance \in [Threads -> [entry : 0..Len(gmemo), position : Nat]]
    <3>1. \A t \in Threads : instance[t] \in [entry : 0..Len(gmemo), position : Nat]
      <4> SUFFICES ASSUME NEW t \in Threads
                   PROVE  instance[t] \in [entry : 0..Len(gmemo), position : Nat]
        OBVIOUS
      <4>1. instance[t] \in [entry : Nat, position : Nat] /\ instance[t].entry <= Len(gmemo)
        BY <2>2
      <4>2. instance[t].entry \in 0..Len(gmemo)
        BY <2>2, <4>1
      <4>3. QED
        BY <4>1, <4>2
    <3>2. QED
      BY <2>2, <3>1
  <2>6. QED
    BY <2>1, <2>2, <2>3, <2>4, <2>5 DEF G!TypeOK, GInv, GTypes
<1> QED
  BY MCInvariant, <1>1, PTL

\* The memo that all instances of a generator read is always the beginning of what
\* the generator gives, its end included, whoever asks and whoever shares an instance.
THEOREM MemoIsPrefix ==
  ASSUME ~OneIterator
  PROVE  MCSpec => []MemoInOrder
<1>1. GOrder => MemoInOrder
  BY DEF GOrder
<1> QED
  BY OrderInvariant, <1>1, PTL

\* Every instance of a memoized generator gives the items of the generator from the
\* first one on, none twice and none left out, when threads do not share an instance
\* and the generator does not share its source of items.
THEOREM ItemsArriveInOrder ==
  ASSUME ~OneIterator, ~Sharing
  PROVE  MCSpec => []ItemsInOrder
<1>1. MCInit => PositionsOwn
  BY GInit DEF MCInit
<1>2. GInv /\ GOrder /\ PositionsOwn /\ [MCNext]_<<vars, gvars, subject>> => PositionsOwn'
  BY PositionsStep, Unconcerned DEF MCNext, G!Next
<1>3. GInv /\ PositionsOwn => ItemsInOrder
  BY DEF ItemsInOrder, G!ItemsInOrder, PositionsOwn, GInv, GTypes
<1> QED
  BY MCInvariant, OrderInvariant, <1>1, <1>2, <1>3, PTL DEF MCSpec
==============================================================================
