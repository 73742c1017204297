------------------------------ MODULE GMemoize ------------------------------
(***************************************************************************)
(* The decorators gmemoize and imemoize of unpythonic/gmemo.py, for one    *)
(* set of arguments.  Each thread opens an instance of the memoized        *)
(* generator and asks it for items; all instances read one memo, which is  *)
(* extended from the underlying generator when an instance has read it to  *)
(* its end.                                                                *)
(*                                                                         *)
(* The generator does not use its own memo while it computes an item.      *)
(***************************************************************************)
EXTENDS Naturals, Sequences

CONSTANTS
  Threads,
  Items,        \* how many items the generator has
  OneIterator,  \* imemoize: its generators take the items from one iterator
  Sharing,      \* may a thread use the instance another one has opened?
  MaxNext,      \* bound: how often an instance is asked for an item
  Nobody        \* the owner of a free lock

GMemoizeAssumption ==
  /\ Items \in Nat /\ MaxNext \in Nat
  /\ OneIterator \in BOOLEAN /\ Sharing \in BOOLEAN
  /\ Nobody \notin Threads

VARIABLES
  memos,     \* the entry of the dictionary of memos; 0: there is none
  memo,      \* of each entry created: the results so far
  pulled,    \* of each entry: how often its generator has been advanced
  owner,     \* of each entry: the owner of its lock
  ending,    \* how the generator ends: by StopIteration or by another exception
  instance,  \* what each thread has opened: the entry and the position in it
  pc, using, j, result,  \* of each thread: what it does, on which instance, at
                         \* which position, and the result it has found
  got        \* history: the results instances have given, in that order

vars == <<memos, memo, pulled, owner, ending, instance, pc, using, j, result, got>>

Entries == 1..Len(memo)
Kinds == {"item", "stop", "fail"}
Results == [kind : Kinds, n : 0..Items]
Stop == [kind |-> "stop", n |-> 0]
NoInstance == [entry |-> 0, position |-> 0]
Opened == {i \in Threads : instance[i] # NoInstance}

\* What a generator gives when it is asked for the n-th time; one that has
\* ended raises StopIteration from then on.
Yielded(n) == IF n <= Items THEN [kind |-> "item", n |-> n]
              ELSE IF n = Items + 1 THEN [kind |-> ending, n |-> 0]
              ELSE Stop

\* How often the source of items of entry e has been asked.
Asked(e) == IF OneIterator /\ Len(memo) = 2 THEN pulled[1] + pulled[2] ELSE pulled[e]

------------------------------------------------------------------------------
\* `if k not in memos` and the statement below it are two steps.
Open(t) ==
  /\ pc[t] = "idle" /\ instance[t] = NoInstance
  /\ pc' = [pc EXCEPT ![t] = IF memos = 0 THEN "create" ELSE "wrap"]
  /\ UNCHANGED <<memos, memo, pulled, owner, ending, instance, using, j, result, got>>

Create(t) ==
  /\ pc[t] = "create"
  /\ memo' = Append(memo, <<>>)
  /\ pulled' = Append(pulled, 0)
  /\ owner' = Append(owner, Nobody)
  /\ memos' = Len(memo) + 1
  /\ pc' = [pc EXCEPT ![t] = "wrap"]
  /\ UNCHANGED <<ending, instance, using, j, result, got>>

\* return _MemoizedGenerator(*memos[k])
Wrap(t) ==
  /\ pc[t] = "wrap"
  /\ instance' = [instance EXCEPT ![t] = [entry |-> memos, position |-> 0]]
  /\ pc' = [pc EXCEPT ![t] = "idle"]
  /\ UNCHANGED <<memos, memo, pulled, owner, ending, using, j, result, got>>

\* The position is read before the lock is taken.
ReadPosition(t, i) ==
  /\ pc[t] = "idle" /\ i \in Opened
  /\ i = t \/ Sharing
  /\ Len(got[i]) < MaxNext
  /\ using' = [using EXCEPT ![t] = i]
  /\ j' = [j EXCEPT ![t] = instance[i].position]
  /\ pc' = [pc EXCEPT ![t] = "acquire"]
  /\ UNCHANGED <<memos, memo, pulled, owner, ending, instance, result, got>>

\* What the code under the lock finds first: a result in the memo, or the
\* next one of the generator.
Find(t, e) ==
  IF j[t] < Len(memo[e])
  THEN result' = [result EXCEPT ![t] = memo[e][j[t] + 1]] /\ UNCHANGED pulled
  ELSE /\ result' = [result EXCEPT ![t] = Yielded(Asked(e) + 1)]
       /\ pulled' = [pulled EXCEPT ![e] = @ + 1]

\* MUTANT of Acquire: the lock is not taken
Acquire_not(t) ==
  LET e == instance[using[t]].entry
  IN  /\ pc[t] = "acquire"
      /\ Find(t, e)
      /\ pc' = [pc EXCEPT ![t] = "locked"]
      /\ UNCHANGED <<memos, memo, owner, ending, instance, using, j, got>>

\* with self.lock, an RLock: its owner may take it again
Acquire(t) ==
  LET e == instance[using[t]].entry
  IN  /\ pc[t] = "acquire" /\ owner[e] \in {t, Nobody}
      /\ owner' = [owner EXCEPT ![e] = t]
      /\ Find(t, e)
      /\ pc' = [pc EXCEPT ![t] = "locked"]
      /\ UNCHANGED <<memos, memo, ending, instance, using, j, got>>

\* MUTANT of Leave: an exception passes the release of the lock
Leave_keepsLock(t) ==
  LET i == using[t]
      e == instance[i].entry
  IN  /\ pc[t] = "locked"
      /\ memo' = IF j[t] < Len(memo[e]) THEN memo
                 ELSE [memo EXCEPT ![e] = Append(@, result[t])]
      /\ instance' = [instance EXCEPT ![i].position = @ + 1]
      /\ got' = [got EXCEPT ![i] = Append(@, result[t])]
      /\ owner' = IF result[t].kind = "item" THEN [owner EXCEPT ![e] = Nobody] ELSE owner
      /\ pc' = [pc EXCEPT ![t] = "idle"]
      /\ UNCHANGED <<memos, pulled, ending, using, j, result>>

\* The result is memoized, an exception as well, StopIteration included; the
\* position moves on, the lock is left, and the result is returned or raised.
Leave(t) ==
  LET i == using[t]
      e == instance[i].entry
  IN  /\ pc[t] = "locked"
      /\ memo' = IF j[t] < Len(memo[e]) THEN memo
                 ELSE [memo EXCEPT ![e] = Append(@, result[t])]
      /\ instance' = [instance EXCEPT ![i].position = @ + 1]
      /\ got' = [got EXCEPT ![i] = Append(@, result[t])]
      /\ owner' = [owner EXCEPT ![e] = Nobody]
      /\ pc' = [pc EXCEPT ![t] = "idle"]
      /\ UNCHANGED <<memos, pulled, ending, using, j, result>>

------------------------------------------------------------------------------
Init ==
  /\ memos = 0 /\ memo = <<>> /\ pulled = <<>> /\ owner = <<>>
  /\ ending \in {"stop", "fail"}
  /\ instance = [t \in Threads |-> NoInstance]
  /\ pc = [t \in Threads |-> "idle"]
  /\ using = [t \in Threads |-> t]
  /\ j = [t \in Threads |-> 0]
  /\ result = [t \in Threads |-> Stop]
  /\ got = [t \in Threads |-> <<>>]

Step(t) == \/ Open(t) \/ Create(t) \/ Wrap(t) \/ Acquire(t) \/ Leave(t)
           \/ \E i \in Threads : ReadPosition(t, i)

Next == \E t \in Threads : Step(t)

\* The steps of a call are taken, and locks are handed out fairly; nobody has
\* to open an instance or ask for an item.
Fairness == \A t \in Threads : WF_vars(Create(t) \/ Wrap(t) \/ Leave(t)) /\ SF_vars(Acquire(t))

Spec == Init /\ [][Next]_vars /\ Fairness
------------------------------------------------------------------------------
(***************************************************************************)
(* Properties                                                              *)
(***************************************************************************)
TypeOK ==
  /\ memos \in 0..Len(memo)
  /\ memo \in Seq(Seq(Results))
  /\ pulled \in [Entries -> Nat]
  /\ owner \in [Entries -> Threads \cup {Nobody}]
  /\ ending \in {"stop", "fail"}
  /\ instance \in [Threads -> [entry : 0..Len(memo), position : Nat]]
  /\ pc \in [Threads -> {"idle", "create", "wrap", "acquire", "locked"}]
  /\ using \in [Threads -> Threads]
  /\ j \in [Threads -> Nat]
  /\ result \in [Threads -> Results]
  /\ got \in [Threads -> Seq(Results)]

\* Whatever the other threads do, an instance gives the items of the generator
\* from the first one on, none twice and none left out, and then what the
\* generator has ended with: calls to next are serialized and all instances
\* share one memoized sequence (gmemo.py:37-40, 65-68).
ItemsInOrder == \A i \in Threads : \A n \in DOMAIN got[i] : got[i][n] = Yielded(n)

\* A call to next always comes to its end: the lock of a sequence is free
\* again after a result and after an exception.
NextReturns == \A t \in Threads : (pc[t] = "acquire") ~> (pc[t] = "idle")
==============================================================================
