------------------------------ MODULE Updates ------------------------------
(***************************************************************************)
(* Functional and in-place updates of containers: fupdate (unpythonic/     *)
(* fup.py), which reads a ShadowedSequence, and mogrify (collections.py).  *)
(* An item that cannot be had stands for the exception that is raised.     *)
(***************************************************************************)
EXTENDS Integers, Sequences, SequencesExt

CONSTANTS
  Updatings,  \* calls of fupdate: the target, and pairs of an index or slice with what is put there
  Heaps       \* calls of mogrify: containers; the first one is the argument

VARIABLES updating, updated
uvars == <<updating, updated>>

Missing == -1
------------------------------------------------------------------------------
\* in_slice, index_in_slice and ShadowedSequence.  Places are counted from 0 here,
\* and absent components of a slice are <<>>.
Wrap(k, n) == IF k < 0 THEN k % n ELSE k
Valid(b, n) == b = <<>> \/ (-n <= b[1] /\ b[1] <= n)

\* _canonize_slice
Canonized(s, n) ==
  [start |-> IF s.start # <<>> THEN Wrap(s.start[1], n) ELSE IF s.step > 0 THEN 0 ELSE n - 1,
   stop |-> IF s.stop # <<>> THEN Wrap(s.stop[1], n) ELSE IF s.step > 0 THEN n ELSE -1,
   step |-> s.step]

InSlice(i, s, n) ==
  LET c == Canonized(s, n)
  IN  /\ IF c.step > 0 THEN c.start <= i /\ i < c.stop ELSE i <= c.start /\ c.stop < i
      /\ (i - c.start) % (IF c.step > 0 THEN c.step ELSE - c.step) = 0

IndexInSlice(i, s, n) ==
  LET c == Canonized(s, n) IN IF c.step > 0 THEN (i - c.start) \div c.step ELSE (c.start - i) \div (- c.step)

\* MUTANT of NextOf: items are not dropped, for the places that another shadow hides
NextOf_noDrop(shadow, i) == [item |-> IF shadow.count < Len(shadow.v) THEN shadow.v[shadow.count + 1] ELSE Missing,
                             count |-> shadow.count + 1]

\* The i-th item (from 0) of what is put: of a sequence, or of an iterator, of which
\* `count` items have been read, the later ones only if it is memoized
NextOf(shadow, i) ==
  LET there == i < Len(shadow.v)
  IN  CASE shadow.kind = "sequence" -> [item |-> IF there THEN shadow.v[i + 1] ELSE Missing, count |-> 0]
        [] shadow.kind # "sequence" /\ i < shadow.count ->
             [item |-> IF shadow.kind = "memoized" THEN shadow.v[i + 1] ELSE Missing, count |-> shadow.count]
        [] shadow.kind # "sequence" /\ i >= shadow.count ->
             [item |-> IF there THEN shadow.v[i + 1] ELSE Missing, count |-> IF there THEN i + 1 ELSE Len(shadow.v)]

RECURSIVE GetOne(_, _, _, _)
\* _getone: by the outermost shadow, or what is under it.  The j-th is the outermost.
GetOne(target, shadows, j, k) ==
  LET n == Len(target)
      shadow == shadows[j]
  IN  IF j = 0 THEN [item |-> target[k + 1], shadows |-> shadows]
      ELSE IF shadow.kind = "one"
      THEN IF ~ Valid(<<shadow.ix>>, n) THEN [item |-> Missing, shadows |-> shadows]
           ELSE IF Wrap(shadow.ix, n) = k THEN [item |-> shadow.v, shadows |-> shadows]
           ELSE GetOne(target, shadows, j - 1, k)
      ELSE IF ~ Valid(shadow.ix.start, n) \/ ~ Valid(shadow.ix.stop, n) THEN [item |-> Missing, shadows |-> shadows]
      ELSE IF InSlice(k, shadow.ix, n)
      THEN LET r == NextOf(shadow, IndexInSlice(k, shadow.ix, n))
           IN  [item |-> r.item, shadows |-> [shadows EXCEPT ![j].count = r.count]]
      ELSE GetOne(target, shadows, j - 1, k)

\* fupdate: a new sequence of the items of the shadowed one, read in order
Fupdate(target, shadows) ==
  FoldLeft(LAMBDA acc, k : IF acc.raised THEN acc
                           ELSE LET r == GetOne(target, acc.shadows, Len(shadows), k)
                                IN  [out |-> Append(acc.out, r.item), shadows |-> r.shadows, raised |-> r.item = Missing],
           [out |-> <<>>, shadows |-> shadows, raised |-> FALSE], [k \in 1..Len(target) |-> k - 1])
------------------------------------------------------------------------------
\* mogrify.  A container is mutable or not, and its items are atoms (numbers in a
\* sequence of one) or containers (places on the heap).
Atom(x) == [atom |-> <<x>>, at |-> 0]
Ref(i) == [atom |-> <<>>, at |-> i]
Func(x) == x + 10

RECURSIVE Mogrify(_, _)
\* MUTANT of Mogrify: immutable containers are passed through
Mogrify_mutables(h, x) ==
  IF x.atom # <<>> THEN [heap |-> h, x |-> Atom(Func(x.atom[1]))]
  ELSE LET mapped == FoldLeft(LAMBDA acc, item : LET r == Mogrify(acc.heap, item)
                                                 IN  [heap |-> r.heap, items |-> Append(acc.items, r.x)],
                              [heap |-> h, items |-> <<>>], h[x.at].items)
       IN  IF h[x.at].mutable THEN [heap |-> [mapped.heap EXCEPT ![x.at].items = mapped.items], x |-> x]
           ELSE [heap |-> mapped.heap, x |-> x]

\* doit: the items first; a mutable container is then emptied and filled with them,
\* and of an immutable one a new one is made
Mogrify(h, x) ==
  IF x.atom # <<>> THEN [heap |-> h, x |-> Atom(Func(x.atom[1]))]
  ELSE LET mapped == FoldLeft(LAMBDA acc, item : LET r == Mogrify(acc.heap, item)
                                                 IN  [heap |-> r.heap, items |-> Append(acc.items, r.x)],
                              [heap |-> h, items |-> <<>>], h[x.at].items)
       IN  IF h[x.at].mutable THEN [heap |-> [mapped.heap EXCEPT ![x.at].items = mapped.items], x |-> x]
           ELSE [heap |-> Append(mapped.heap, [mutable |-> FALSE, items |-> mapped.items]),
                 x |-> Ref(Len(mapped.heap) + 1)]
------------------------------------------------------------------------------
Init == updating \in Updatings \cup Heaps /\ updated = <<>>

CallFupdate ==
  /\ updating.f = "fupdate" /\ updated = <<>>
  /\ LET r == Fupdate(updating.target, updating.shadows) IN updated' = <<IF r.raised THEN <<Missing>> ELSE r.out>>
  /\ UNCHANGED updating
CallMogrify ==
  /\ updating.f = "mogrify" /\ updated = <<>>
  /\ updated' = <<Mogrify(updating.heap, Ref(1))>>
  /\ UNCHANGED updating

UpdatesStep == CallFupdate \/ CallMogrify
Spec == Init /\ [][UpdatesStep]_uvars
------------------------------------------------------------------------------
(***************************************************************************)
(* Properties                                                              *)
(***************************************************************************)
\* The places of range(n)[s], from 0, in order: as Python counts them
SliceOf(s, n) ==
  LET Clip(x, low, high) == IF x < low THEN low ELSE IF x > high THEN high ELSE x
      Bound(b, low, high, default) ==
        IF b = <<>> THEN default ELSE Clip(IF b[1] < 0 THEN b[1] + n ELSE b[1], low, high)
      start == IF s.step > 0 THEN Bound(s.start, 0, n, 0) ELSE Bound(s.start, -1, n - 1, n - 1)
      stop == IF s.step > 0 THEN Bound(s.stop, 0, n, n) ELSE Bound(s.stop, -1, n - 1, -1)
      in == {i \in 0..n - 1 : IF s.step > 0 THEN start <= i /\ i < stop /\ (i - start) % s.step = 0
                                            ELSE stop < i /\ i <= start /\ (start - i) % (- s.step) = 0}
  IN  SetToSortSeq(in, LAMBDA i, j : IF s.step > 0 THEN i < j ELSE i > j)

\* A negative step from one past the end: in_slice does not count as Python does
PastTheEnd(shadow, n) ==
  shadow.kind # "one" /\ shadow.ix.step < 0 /\ shadow.ix.start # <<>> /\ shadow.ix.start[1] = n

PutAt(shadow, n) == IF shadow.kind = "one" THEN <<Wrap(shadow.ix, n)>> ELSE SliceOf(shadow.ix, n)
RECURSIVE Put(_, _)
\* Assigning to each of the slices of a copy, in order; nothing is put where there is too little
Put(target, shadows) ==
  IF shadows = <<>> THEN target
  ELSE LET s == Head(shadows)
           places == PutAt(s, Len(target))
           At(k) == CHOOSE m \in 1..Len(places) : places[m] = k - 1
           put == [k \in 1..Len(target) |->
                     IF k - 1 \notin ToSet(places) THEN target[k]
                     ELSE IF s.kind = "one" THEN s.v
                     ELSE IF At(k) > Len(s.v) THEN Missing ELSE s.v[At(k)]]
       IN  Put(put, Tail(shadows))

\* fupdate gives what assigning to the slices one after the other would give, whichever
\* of the values are sequences and which are iterators that are read as it goes, also
\* where a later slice hides an earlier one; it raises only for what is too short, is
\* out of range, or is an iterator that is needed backwards (collections.py:822-857).
FupdateIsAssignment ==
  updating.f = "fupdate" /\ updated # <<>> =>
    LET n == Len(updating.target)
        wanted == Put(updating.target, updating.shadows)
        Hard(s) == \/ s.kind = "one" /\ ~ Valid(<<s.ix>>, n)
                   \/ s.kind # "one" /\ (~ Valid(s.ix.start, n) \/ ~ Valid(s.ix.stop, n))
                   \/ s.kind = "iterator" /\ s.ix.step < 0
    IN  (\A j \in 1..Len(updating.shadows) : ~ PastTheEnd(updating.shadows[j], n)) =>
          IF updated[1] = <<Missing>>
          THEN Missing \in ToSet(wanted) \/ \E j \in 1..Len(updating.shadows) : Hard(updating.shadows[j])
          ELSE updated[1] = wanted

\* The same for all slices fails (collections.py:886).
SlicesAreSlices ==
  updating.f = "fupdate" /\ updated # <<>> =>
    (updated[1] = <<Missing>> \/ updated[1] = Put(updating.target, updating.shadows))

RECURSIVE Tree(_, _), Mapped(_, _), Reached(_, _)
Tree(h, x) == IF x.atom # <<>> THEN x ELSE [j \in 1..Len(h[x.at].items) |-> Tree(h, h[x.at].items[j])]
Mapped(h, x) ==
  IF x.atom # <<>> THEN Atom(Func(x.atom[1])) ELSE [j \in 1..Len(h[x.at].items) |-> Mapped(h, h[x.at].items[j])]
\* The mutable containers that are come by, one after the other
Reached(h, x) ==
  IF x.atom # <<>> THEN <<>>
  ELSE (IF h[x.at].mutable THEN <<x.at>> ELSE <<>>)
       \o FlattenSeq([j \in 1..Len(h[x.at].items) |-> Reached(h, h[x.at].items[j])])

\* mogrify maps every atom, however containers are nested and shared; what is mutable
\* stays the same object, so that all who refer to it see it mapped, and nothing
\* immutable changes (collections.py:81-86).  Only a mutable container that is come by
\* twice has its atoms mapped twice.
MogrifyIsMap ==
  updating.f = "mogrify" /\ updated # <<>> =>
    LET r == updated[1]  reached == Reached(updating.heap, Ref(1)) IN
    /\ IsInjective(reached) => Tree(r.heap, r.x) = Mapped(updating.heap, Ref(1))
    /\ updating.heap[1].mutable <=> r.x = Ref(1)
    /\ \A i \in 1..Len(updating.heap) : ~ updating.heap[i].mutable => r.heap[i] = updating.heap[i]
==============================================================================
