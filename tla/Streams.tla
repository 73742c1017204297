------------------------------ MODULE Streams ------------------------------
(***************************************************************************)
(* Lazy iterators on a shared input: unpythonic/it.py, fold.py, and islice *)
(* of slicing.py.                                                          *)
(*                                                                         *)
(* An iterator is an object on a heap, which keeps where it is and refers  *)
(* to the iterators it reads.  A behaviour applies one function to input   *)
(* iterators, and then takes items from what it returned, in any order.    *)
(***************************************************************************)
EXTENDS Integers, Sequences, FiniteSets, SequencesExt

CONSTANTS
  Programs,  \* the functions that are applied, with their parameters but the iterables
  Sources,   \* the inputs: pairs of sequences of numbers, the second for functions of several iterables
  MaxItems   \* bound: the items taken from one iterator

VARIABLES
  program, source,
  heap,    \* the iterators
  value,   \* what the function returned besides iterators
  outs,    \* the iterators that the consumer has, as places on the heap
  got,     \* the items taken from each of them
  ended,   \* whether it has raised StopIteration
  orderly  \* history: whether the consumer has read in order

svars == <<program, source, heap, value, outs, got, ended, orderly>>

\* next() gives the heap afterwards, and a sequence of one item or none; a turn of
\* the loop in an iterator may also end with it having to go on
Yield(h, x) == [heap |-> h, item |-> <<x>>, again |-> FALSE]
Stop(h) == [heap |-> h, item |-> <<>>, again |-> FALSE]
Again(h) == [heap |-> h, item |-> <<>>, again |-> TRUE]
\* A function gives the heap afterwards, and the place of what it returns
New(h, object) == [heap |-> Append(h, object), at |-> Len(h) + 1]
At(h, i) == [heap |-> h, at |-> i]

Over(s) == [kind |-> "items", items |-> s, taken |-> 0]
Empty == Over(<<>>)
SumOf(xs) == FoldSeq(+, 0, xs)

------------------------------------------------------------------------------
\* next(), for each kind of iterator.  What is external are those of itertools.
RECURSIVE Next(_, _), Drain(_, _), DrainAll(_, _), ReadEach(_, _, _)

\* An item of each of several iterators, up to the first that stops or, if what is
\* missing is filled in with 0, of all of them
ReadOn(r, is, longest) ==
  IF r.item = <<>> /\ ~ longest THEN [heap |-> r.heap, items |-> <<>>, live |-> FALSE]
  ELSE LET rest == ReadEach(r.heap, is, longest)
       IN  [heap |-> rest.heap, items |-> (IF r.item = <<>> THEN <<0>> ELSE r.item) \o rest.items,
            live |-> r.item # <<>> \/ rest.live]
ReadEach(h, is, longest) ==
  IF is = <<>> THEN [heap |-> h, items |-> <<>>, live |-> FALSE]
  ELSE ReadOn(Next(h, Head(is)), Tail(is), longest)

\* At most n items of one
Pull(h, i, n) == ReadEach(h, [j \in 1..n |-> i], FALSE)

\* All items
DrainOn(r, i) ==
  IF r.item = <<>> THEN [heap |-> r.heap, items |-> <<>>]
  ELSE LET rest == Drain(r.heap, i) IN [heap |-> rest.heap, items |-> r.item \o rest.items]
Drain(h, i) == DrainOn(Next(h, i), i)

\* All items of each
DrainAllOn(r, is) == LET rest == DrainAll(r.heap, is) IN [heap |-> rest.heap, xss |-> <<r.items>> \o rest.xss]
DrainAll(h, is) == IF is = <<>> THEN [heap |-> h, xss |-> <<>>] ELSE DrainAllOn(Drain(h, Head(is)), Tail(is))

\* itertools.islice: skips up to `next`, and stops at `stop` (-1: none)
NextSliced(h, i) ==
  LET o == h[i]
      over == o.stop # -1 /\ o.next >= o.stop
      wanted == o.next - o.count + (IF over THEN 0 ELSE 1)
      r == Pull(h, o.of, wanted)
      after == o.next + o.step
  IN  IF over \/ Len(r.items) < wanted THEN Stop([r.heap EXCEPT ![i] = Empty])
      ELSE Yield([r.heap EXCEPT ![i].count = o.next + 1,
                               ![i].next = IF o.stop # -1 /\ after > o.stop THEN o.stop ELSE after], r.items[wanted])

\* In the following, r is what next() gives for the iterator that this one reads.
\* itertools.tee: an item comes from the buffer, or from the iterator that is shared
NextTee(h, i, r) ==
  LET tee == h[h[i].tee] IN
  IF h[i].seen < Len(tee.buffer)
  THEN Yield([h EXCEPT ![i].seen = @ + 1], tee.buffer[h[i].seen + 1])
  ELSE IF r.item = <<>> THEN Stop(r.heap)
  ELSE Yield([r.heap EXCEPT ![i].seen = @ + 1, ![h[i].tee].buffer = Append(@, r.item[1])], r.item[1])

NextFilter(h, i, r) ==
  IF r.item = <<>> THEN Stop(r.heap)
  ELSE IF (r.item[1] % 2 = 0) = h[i].keep THEN Yield(r.heap, r.item[1]) ELSE Again(r.heap)

\* itertools.chain
NextChain(h, i, r) ==
  IF h[i].parts = <<>> THEN Stop(h)
  ELSE IF r.item # <<>> THEN Yield(r.heap, r.item[1])
  ELSE Again([r.heap EXCEPT ![i].parts = Tail(@)])

\* zip, and zip_longest
NextZip(h, i) ==
  LET r == ReadEach(h, h[i].parts, h[i].kind = "zip_longest") IN
  IF Len(r.items) < Len(h[i].parts) \/ (h[i].kind = "zip_longest" /\ ~ r.live) THEN Stop(r.heap)
  ELSE Yield(r.heap, r.items)

\* map and starmap; the function adds its arguments
NextMap(r) == IF r.item = <<>> THEN Stop(r.heap) ELSE Yield(r.heap, SumOf(r.item[1]))

NextUniqify(h, i, r) ==
  IF r.item = <<>> THEN Stop(r.heap)
  ELSE IF r.item[1] \in h[i].seen THEN Again(r.heap)
  ELSE Yield([r.heap EXCEPT ![i].seen = @ \cup {r.item[1]}], r.item[1])

\* groupby gives a new group where the item is not that of the last one
NextUniq(h, i, r) ==
  IF r.item = <<>> THEN Stop(r.heap)
  ELSE IF {r.item[1]} = h[i].seen THEN Again(r.heap)
  ELSE Yield([r.heap EXCEPT ![i].seen = {r.item[1]}], r.item[1])

NextPad(h, i, r) ==
  IF r.item # <<>> THEN Yield([r.heap EXCEPT ![i].k = @ + 1], r.item[1])
  ELSE IF h[i].k < h[i].n THEN Yield([r.heap EXCEPT ![i].k = @ + 1], h[i].fill)
  ELSE Stop(r.heap)

\* butlastn holds n items back
NextButlast(h, i) ==
  LET r == Pull(h, h[i].of, IF h[i].started THEN 1 ELSE h[i].n + 1)
      q == h[i].q \o r.items
  IN  IF Len(q) < h[i].n + 1 THEN Stop([r.heap EXCEPT ![i] = Empty])
      ELSE Yield([r.heap EXCEPT ![i].q = Tail(q), ![i].started = TRUE], q[1])

\* MUTANT of NextWindow: the window is filled up again at once
NextWindow_eager(h, i, r) ==
  IF h[i].xs = <<>> THEN Stop(h)
  ELSE Yield([r.heap EXCEPT ![i].xs = IF r.item = <<>> THEN <<>> ELSE Tail(@) \o r.item, ![i].started = TRUE], h[i].xs)

\* windowed() of window
NextWindow(h, i, r) ==
  LET xs == Tail(h[i].xs) \o r.item
  IN  IF ~ h[i].started THEN Yield([h EXCEPT ![i].started = TRUE], h[i].xs)
      ELSE IF r.item = <<>> THEN Stop([r.heap EXCEPT ![i] = Empty])
      ELSE Yield([r.heap EXCEPT ![i].xs = xs], xs)

Slice(of, start, stop, step) ==
  [kind |-> "islice", of |-> of, next |-> start, stop |-> stop, step |-> step, count |-> 0]

\* scons
Scons(h, x, i) == LET one == New(h, Over(<<x>>)) IN New(one.heap, [kind |-> "chain", parts |-> <<one.at, i>>])

\* chunker() of chunked
NextChunk(h, i, r) ==
  LET chunk == Scons(r.heap, r.item[1], Len(h) + 1)      \* what Feed has put there
  IN  IF r.item = <<>> THEN Stop(r.heap) ELSE Yield(chunk.heap, [chunk |-> chunk.at])

\* within, with tol = 0: after two equal items the second one is the last
NextWithin(h, i, r) ==
  LET a == r.item[1][1]  b == r.item[1][2]
  IN  IF h[i].last # <<>> THEN Yield([h EXCEPT ![i] = Empty], h[i].last[1])
      ELSE IF r.item = <<>> THEN Stop(r.heap)
      ELSE Yield([r.heap EXCEPT ![i].last = IF a = b THEN <<b>> ELSE <<>>], a)

\* roundrobin() of interleave, again and again
NextInterleave(h, i, r) ==
  IF r.item = <<>> THEN Stop([r.heap EXCEPT ![i] = Empty])
  ELSE Yield([r.heap EXCEPT ![i].j = (@ % Len(h[i].parts)) + 1], r.item[1])

\* powerset: each new item alone, then joined to all the subsets before it
NextPowerset(h, i, r) ==
  LET t == [k \in 1..Len(h[i].bag) |-> h[i].bag[k] \o r.item]
  IN  IF h[i].todo # <<>>
      THEN Yield([h EXCEPT ![i].todo = Tail(@)], h[i].todo[1])
      ELSE IF r.item = <<>> THEN Stop(r.heap)
      ELSE Yield([r.heap EXCEPT ![i].todo = t, ![i].bag = @ \o <<r.item>> \o t], r.item)

\* scanl: proc(elt, ..., acc) is 2 * acc + the sum of the elements, or min and max
Proc(f, xs, acc) ==
  CASE f = "add" -> SumOf(xs) + 2 * acc
    [] f = "minmax" -> <<IF xs[1] < acc[1] THEN xs[1] ELSE acc[1], IF xs[1] > acc[2] THEN xs[1] ELSE acc[2]>>

NextScan(h, i, r) ==
  LET acc == Proc(h[i].proc, r.item[1], h[i].acc)
  IN  IF ~ h[i].started THEN Yield([h EXCEPT ![i].started = TRUE], h[i].acc)
      ELSE IF r.item = <<>> THEN Stop(r.heap)
      ELSE Yield([r.heap EXCEPT ![i].acc = acc], acc)

\* unfold and unfold1, with a process that counts down; iterate and iterate1
NextUnfold(h, i) ==
  IF h[i].state = 0 THEN Stop(h) ELSE Yield([h EXCEPT ![i].state = @ - 1], h[i].state)
NextIterate(h, i) == Yield([h EXCEPT ![i].x = 2 * @], h[i].x)

------------------------------------------------------------------------------
\* Iterators that others are made of, and the bodies of generator functions
Take(h, n, i) == New(h, Slice(i, 0, n, 1))
Butlastn(h, n, i) == New(h, [kind |-> "butlastn", of |-> i, n |-> n, q |-> <<>>, started |-> FALSE])
LastItems(n, s) == SubSeq(s, IF Len(s) > n THEN Len(s) - n + 1 ELSE 1, Len(s))

\* window takes its first items at once
Window(h, n, i) ==
  LET r == Pull(h, i, n)
  IN  New(r.heap, IF Len(r.items) < n THEN Empty ELSE [kind |-> "window", of |-> i, xs |-> r.items, started |-> FALSE])

ZipOf(h, is, longest) == New(h, [kind |-> IF longest THEN "zip_longest" ELSE "zip", parts |-> is])
Map(h, is, longest) == LET z == ZipOf(h, is, longest) IN New(z.heap, [kind |-> "map", of |-> z.at])
Scan(h, proc, init, i) == New(h, [kind |-> "scan", proc |-> proc, acc |-> init, of |-> i, started |-> FALSE])
Scanl(h, proc, init, is, longest) == LET z == ZipOf(h, is, longest) IN Scan(z.heap, proc, init, z.at)

\* reversed(tuple(iterable)) of what has been read
Reversed(d, k) == New(d.heap, Over(Reverse(d.xss[k])))
Inputs(h, o) ==
  LET Only(r) == [heap |-> r.heap, is |-> <<r.at>>] IN
  CASE o.f = "mapr" -> Only(Map(h, o.of, o.longest))
    [] o.f \in {"zipr", "scanr", "scanr1"} -> Only(ZipOf(h, o.of, o.longest))
    [] OTHER -> [heap |-> h, is |-> o.of]
Begun(d, o) ==
  LET back == Reversed(d, 1)
      both == New(back.heap, Over(Reverse(d.xss[2])))
  IN  CASE o.f = "lastn" -> New(d.heap, Over(LastItems(o.n, d.xss[1])))
        [] o.f = "rmap" -> Map(both.heap, <<back.at, both.at>>, o.longest)
        [] o.f = "rzip" -> ZipOf(both.heap, <<back.at, both.at>>, o.longest)
        [] o.f \in {"mapr", "zipr"} -> back
        [] o.f = "scanr" -> Scan(back.heap, "add", 0, back.at)
        \* init is _uselast: the last item of the input is where it starts
        [] o.f = "scanr1" -> IF d.xss[1] = <<>> THEN back
                             ELSE LET rest == Reversed([d EXCEPT !.xss = <<Front(d.xss[1])>>], 1)
                                  IN  Scan(rest.heap, "add", Last(d.xss[1])[1], rest.at)
\* within is a generator function, so that its window is made late
WithinOf(w) == New(w.heap, [kind |-> "within", of |-> w.at, last |-> <<>>])
BeginFrom(src, o) ==
  CASE o.f = "map_longest" -> Map(src.heap, o.of, o.longest)
    [] o.f = "within" -> WithinOf(Window(src.heap, 2, o.of[1]))
    [] OTHER -> Begun(DrainAll(src.heap, src.is), o)
Begin(h, o) == BeginFrom(Inputs(h, o), o)
Resumed(r, i) == Again([r.heap EXCEPT ![i] = r.heap[r.at]])

\* What an iterator reads; a chunker makes a new slice for each chunk
Feed(h, i) ==
  LET o == h[i] IN
  CASE o.kind = "tee" -> At(h, h[o.tee].of)
    [] o.kind = "chain" -> At(h, Head(o.parts))
    [] o.kind = "interleave" -> At(h, o.parts[o.j])
    [] o.kind = "chunked" -> Take(h, o.n, o.of)
    [] OTHER -> At(h, o.of)

Turn(h, i, r) ==
  LET o == h[i] IN
  CASE o.kind = "items" -> IF o.taken = Len(o.items) THEN Stop(h)
                           ELSE Yield([h EXCEPT ![i].taken = @ + 1], o.items[o.taken + 1])
    [] o.kind = "islice" -> NextSliced(h, i)
    [] o.kind = "tee" -> NextTee(h, i, r)
    [] o.kind = "filter" -> NextFilter(h, i, r)
    [] o.kind = "chain" -> NextChain(h, i, r)
    [] o.kind \in {"zip", "zip_longest"} -> NextZip(h, i)
    [] o.kind = "map" -> NextMap(r)
    [] o.kind = "uniqify" -> NextUniqify(h, i, r)
    [] o.kind = "uniq" -> NextUniq(h, i, r)
    [] o.kind = "pad" -> NextPad(h, i, r)
    [] o.kind = "butlastn" -> NextButlast(h, i)
    [] o.kind = "window" -> NextWindow(h, i, r)
    [] o.kind = "chunked" -> NextChunk(h, i, r)
    [] o.kind = "within" -> NextWithin(h, i, r)
    [] o.kind = "interleave" -> NextInterleave(h, i, r)
    [] o.kind = "powerset" -> NextPowerset(h, i, r)
    [] o.kind = "scan" -> NextScan(h, i, r)
    [] o.kind = "unfold" -> NextUnfold(h, i)
    [] o.kind = "iterate" -> NextIterate(h, i)
    \* a generator function whose body runs at the first next()
    [] o.kind = "generator" -> Resumed(Begin(h, o), i)

\* A loop that has to go on does so
Continue(turn, i) == IF turn.again THEN Next(turn.heap, i) ELSE turn
NextFed(h, i, feed) == Continue(Turn(h, i, Next(feed.heap, feed.at)), i)
Next(h, i) == NextFed(h, i, Feed(h, i))
------------------------------------------------------------------------------
\* The functions.  Each gives the heap afterwards and the place of an iterator.
Drop(h, n, i) == At(Pull(h, i, n).heap, i)
Rev(h, i) == Reversed(DrainAll(h, <<i>>), 1)

\* scanl1: without an init it takes the first item, at once; so does running_minmax
ScanFrom(r, i, proc, init) == IF r.item = <<>> THEN New(r.heap, Empty) ELSE Scanl(r.heap, proc, init, <<i>>, FALSE)
Scanl1Of(r, i) == ScanFrom(r, i, "add", r.item[1])
Scanl1(h, i) == Scanl1Of(Next(h, i), i)
RunningMinmaxOf(r, i) == ScanFrom(r, i, "minmax", <<r.item[1], r.item[1]>>)
RunningMinmax(h, i) == RunningMinmaxOf(Next(h, i), i)

\* MUTANT of SplitAt: take and drop share the iterator
SplitAt_noTee(h, n, i) ==
  LET first == Take(h, n, i) second == Drop(first.heap, n, i)
  IN  [heap |-> second.heap, outs |-> <<first.at, second.at>>]

Tee(h, i) ==
  LET tee == New(h, [kind |-> "buffer", of |-> i, buffer |-> <<>>])
      branch == [kind |-> "tee", tee |-> tee.at, seen |-> 0]
  IN  [heap |-> tee.heap \o <<branch, branch>>, left |-> tee.at + 1, right |-> tee.at + 2]

SplitAt(h, n, i) ==
  LET t == Tee(h, i) first == Take(t.heap, n, t.left) second == Drop(first.heap, n, t.right)
  IN  [heap |-> second.heap, outs |-> <<first.at, second.at>>]

Partition(h, i) ==
  LET t == Tee(h, i)
      odd == New(t.heap, [kind |-> "filter", keep |-> FALSE, of |-> t.left])
      even == New(odd.heap, [kind |-> "filter", keep |-> TRUE, of |-> t.right])
  IN  [heap |-> even.heap, outs |-> <<odd.at, even.at>>]

\* unpack: n items, and the iterator from the k-th one.  If k < n, the iterator is
\* tee'd after k items; if items are missing, the tail is empty.
UnpackWith(before, t, after, n, k, i) ==
  LET items == before.items \o (IF k < n /\ Len(before.items) = k THEN after.items ELSE <<>>)
      missing == [j \in 1..(IF n > Len(items) THEN n - Len(items) ELSE 0) |-> 0]
      tail == IF missing # <<>> THEN New(IF Len(before.items) = k THEN after.heap ELSE before.heap, Empty)
              ELSE IF k < n THEN At(after.heap, t.right) ELSE Drop(before.heap, k - n, i)
  IN  [heap |-> tail.heap, value |-> items \o missing, outs |-> <<tail.at>>]
UnpackTeed(before, t, n, k, i) == UnpackWith(before, t, Pull(t.heap, t.left, n - k), n, k, i)
UnpackFrom(before, n, k, i) == UnpackTeed(before, Tee(before.heap, i), n, k, i)
Unpack(h, n, k, i) == UnpackFrom(Pull(h, i, IF k < n THEN k ELSE n), n, k, i)

\* islice1.__getitem__ for a slice; `stop` is a sequence of one number or none.
\* With a negative start and a positive stop, the latter is adjusted by the number
\* of items dropped, and slicing.py:94 asserts that it does not become negative.
SliceOf(r, start, to, step) ==
  LET sliced == New(r.heap, Slice(r.at, start, to, step)) IN [heap |-> sliced.heap, outs |-> <<sliced.at>>]
SliceOfLast(counted, n, stop, step) ==
  LET dropped == IF Len(counted.items) > n THEN Len(counted.items) - n ELSE 0 IN
  IF stop < dropped THEN [heap |-> counted.heap, outs |-> <<>>]
  ELSE SliceOf(New(counted.heap, Over(LastItems(n, counted.items))), 0, stop - dropped, step)
Islice(h, start, stop, step, i) ==
  LET Is(P(_)) == stop # <<>> /\ P(stop[1])
      r == IF start < 0 THEN New(h, [kind |-> "generator", f |-> "lastn", n |-> -start, of |-> <<i>>, longest |-> FALSE])
           ELSE At(h, i)
      first == IF start < 0 THEN 0 ELSE start
  IN  IF start < 0 /\ Is(LAMBDA n : n > 0) THEN SliceOfLast(Drain(h, i), -start, stop[1], step)
      ELSE IF Is(LAMBDA n : n < 0) THEN SliceOf(Butlastn(r.heap, -stop[1], r.at), first, -1, step)
      ELSE SliceOf(r, first, IF stop = <<>> THEN -1 ELSE stop[1], step)

\* Functions that read at once.  `rest` is the iterator they were given.
Found(r, i, x) == [heap |-> r.heap, value |-> x, outs |-> <<i>>]
Nth(h, n, i) == LET r == Next(Pull(h, i, n).heap, i) IN Found(r, i, r.item)
LastOf(h, i) == LET r == Drain(h, i) IN Found(r, i, LastItems(1, r.items))

RECURSIVE Iindex(_, _, _, _), SkipSame(_, _, _)
\* iindex, and find of an item; -1 if there is none
Iindex(h, x, i, j) ==
  LET r == Next(h, i) IN
  IF r.item = <<>> THEN Found(r, i, <<-1>>)
  ELSE IF r.item[1] = x THEN Found(r, i, <<j>>) ELSE Iindex(r.heap, x, i, j + 1)

SkipSame(h, y, i) ==
  LET r == Next(h, i) IN IF r.item = <<y>> THEN SkipSame(r.heap, y, i) ELSE r

RECURSIVE InWhile(_, _, _, _)
\* x in takewhile(pred, it)
InWhile(h, x, up, i) ==
  LET r == Next(h, i) IN
  IF r.item = <<>> \/ (IF up THEN r.item[1] > x ELSE r.item[1] < x) THEN Found(r, i, <<FALSE>>)
  ELSE IF r.item[1] = x THEN Found(r, i, <<TRUE>>) ELSE InWhile(r.heap, x, up, i)

\* inn, for a monotonic iterable: the direction is that of the first difference
InnAfter(first, other, x, i) ==
  IF first.item = <<>> THEN Found(first, i, <<FALSE>>)
  ELSE IF first.item = <<x>> THEN Found(first, i, <<TRUE>>)
  ELSE IF other.item = <<>> THEN Found(other, i, <<FALSE>>)
  ELSE IF other.item = <<x>> THEN Found(other, i, <<TRUE>>)
  ELSE InWhile(other.heap, x, other.item[1] > first.item[1], i)
InnFrom(first, x, i) == InnAfter(first, SkipSame(first.heap, first.item[1], i), x, i)
Inn(h, x, i) == InnFrom(Next(h, i), x, i)

AllsameFrom(first, i) ==
  LET other == SkipSame(first.heap, first.item[1], i)
  IN  IF first.item = <<>> THEN Found(first, i, <<TRUE>>) ELSE Found(other, i, <<other.item = <<>>>>)
Allsame(h, i) == AllsameFrom(Next(h, i), i)

FoldedOf(r) == [heap |-> r.heap, value |-> LastItems(1, r.items), outs |-> <<>>]
FoldOf(scan) == FoldedOf(Drain(scan.heap, scan.at))

\* rscanl and rscanl1: each input is reversed first
RscanlOf(d, longest) ==
  LET a == Reversed(d, 1) b == New(a.heap, Over(Reverse(d.xss[2]))) IN Scanl(b.heap, "add", 0, <<a.at, b.at>>, longest)
Rscanl(h, is, longest) == RscanlOf(DrainAll(h, is), longest)
Rscanl1Of(a) == Scanl1(a.heap, a.at)
Rscanl1(h, i) == Rscanl1Of(Rev(h, i))

\* A program, applied to the iterators at 1 and 2
Apply(p, h) ==
  LET One(r) == [heap |-> r.heap, outs |-> <<r.at>>]
      Object(o) == One(New(h, o))
      Late(f, is) == [kind |-> "generator", f |-> f, of |-> is, longest |-> p.longest, n |-> 0]
      Folded(f, is) == FoldOf(New(h, Late(f, is)))
  IN  CASE p.f = "take" -> One(Take(h, p.n, 1))
        [] p.f = "drop" -> One(Drop(h, p.n, 1))
        [] p.f = "split_at" -> SplitAt(h, p.n, 1)
        [] p.f = "unpack" -> Unpack(h, p.n, p.k, 1)
        [] p.f = "butlastn" -> One(Butlastn(h, p.n, 1))
        [] p.f = "lastn" -> Object([Late("lastn", <<1>>) EXCEPT !.n = p.n])
        [] p.f = "nth" -> Nth(h, p.n, 1)
        [] p.f = "last" -> LastOf(h, 1)
        [] p.f = "scons" -> One(Scons(h, 0, 1))
        [] p.f = "pad" -> Object([kind |-> "pad", of |-> 1, n |-> p.n, fill |-> 0, k |-> 0])
        [] p.f = "window" -> One(Window(h, p.n, 1))
        [] p.f = "chunked" -> Object([kind |-> "chunked", of |-> 1, n |-> p.n])
        [] p.f = "within" -> Object(Late("within", <<1>>))
        [] p.f = "interleave" -> Object([kind |-> "interleave", parts |-> <<1, 2>>, j |-> 1])
        [] p.f = "uniqify" -> Object([kind |-> "uniqify", of |-> 1, seen |-> {}])
        [] p.f = "uniq" -> Object([kind |-> "uniq", of |-> 1, seen |-> {}])
        [] p.f = "partition" -> Partition(h, 1)
        [] p.f = "powerset" -> Object([kind |-> "powerset", of |-> 1, bag |-> <<>>, todo |-> <<>>])
        [] p.f = "iterate" -> Object([kind |-> "iterate", x |-> 1])
        [] p.f = "unfold" -> Object([kind |-> "unfold", state |-> p.n])
        [] p.f = "rev" -> One(Rev(h, 1))
        [] p.f = "map" -> One(Map(h, <<1, 2>>, FALSE))
        [] p.f \in {"map_longest", "rmap", "rzip", "mapr", "zipr", "scanr"} -> Object(Late(p.f, <<1, 2>>))
        [] p.f = "scanl" -> One(Scanl(h, "add", 0, <<1, 2>>, p.longest))
        [] p.f = "rscanl" -> One(Rscanl(h, <<1, 2>>, p.longest))
        [] p.f = "scanl1" -> One(Scanl1(h, 1))
        [] p.f = "rscanl1" -> One(Rscanl1(h, 1))
        [] p.f = "scanr1" -> Object(Late("scanr1", <<1>>))
        [] p.f = "foldl" -> FoldOf(Scanl(h, "add", 0, <<1, 2>>, p.longest))
        [] p.f = "foldr" -> Folded("scanr", <<1, 2>>)
        [] p.f = "reducel" -> FoldOf(Scanl1(h, 1))
        [] p.f = "rfoldl" -> FoldOf(Rscanl(h, <<1, 2>>, p.longest))
        [] p.f = "rreducel" -> FoldOf(Rscanl1(h, 1))
        [] p.f = "reducer" -> Folded("scanr1", <<1>>)
        [] p.f = "running_minmax" -> One(RunningMinmax(h, 1))
        [] p.f = "minmax" -> FoldOf(RunningMinmax(h, 1))
        [] p.f = "islice" -> Islice(h, p.start, p.stop, p.step, 1)
        [] p.f = "iindex" -> Iindex(h, p.n, 1, 0)
        [] p.f = "inn" -> Inn(h, p.n, 1)
        [] p.f = "allsame" -> Allsame(h, 1)
------------------------------------------------------------------------------
Init ==
  /\ program \in Programs /\ source \in Sources
  /\ \E r \in {Apply(program, <<Over(source[1]), Over(source[2])>>)} :
         /\ heap = r.heap /\ outs = r.outs
         /\ value = IF "value" \in DOMAIN r THEN r.value ELSE <<>>
         /\ got = [j \in 1..Len(outs) |-> <<>>] /\ ended = [j \in 1..Len(outs) |-> FALSE]
         /\ orderly = TRUE

\* The consumer calls next() on one of its iterators; what it gets may be another
\* one, a chunk.  To read in order is to read each chunk before the next.
Consume(j) ==
  LET r == Next(heap, outs[j])
      isChunk == r.item # <<>> /\ program.f = "chunked" /\ j = 1
  IN  /\ ~ ended[j] /\ Len(got[j]) < MaxItems
      /\ heap' = r.heap
      /\ outs' = IF isChunk THEN Append(outs, r.item[1].chunk) ELSE outs
      /\ got' = LET taken == [got EXCEPT ![j] = @ \o r.item] IN IF isChunk THEN Append(taken, <<>>) ELSE taken
      /\ ended' = LET now == [ended EXCEPT ![j] = r.item = <<>>] IN IF isChunk THEN Append(now, FALSE) ELSE now
      /\ orderly' = (orderly /\ (program.f = "chunked" =>
                       IF j = 1 THEN Len(outs) > 1 => Len(got[Len(outs)]) = program.n ELSE j = Len(outs)))
      /\ UNCHANGED <<program, source, value>>

ConsumeAny == \E j \in 1..Len(outs) : Consume(j)
Spec == Init /\ [][ConsumeAny]_svars
------------------------------------------------------------------------------
(***************************************************************************)
(* The plain definitions: what each function gives for whole sequences     *)
(***************************************************************************)
Up(x, y) == IF x > y THEN x ELSE y
Down(x, y) == IF x < y THEN x ELSE y
From(s, k) == SubSeq(s, k, Len(s))
Where(s, Test(_)) == LET js == SetToSortSeq({j \in 1..Len(s) : Test(j)}, <) IN [k \in 1..Len(js) |-> s[js[k]]]
Zipped(a, b, longest) ==
  [j \in 1..(IF longest THEN Up(Len(a), Len(b)) ELSE Down(Len(a), Len(b))) |->
     <<IF j > Len(a) THEN 0 ELSE a[j], IF j > Len(b) THEN 0 ELSE b[j]>>]
Sums(z) == [j \in 1..Len(z) |-> z[j][1] + z[j][2]]
\* The value after the first j steps of a scan with 2 * acc + x
Scanned(init, s, j) == 2 ^ j * init + SumOf([i \in 1..j |-> 2 ^ (j - i) * s[i]])
Scans(init, s) == [j \in 1..Len(s) + 1 |-> Scanned(init, s, j - 1)]
Scans1(s) == IF s = <<>> THEN <<>> ELSE Scans(s[1], Tail(s))
LeastMost(s) == IF s = <<>> THEN <<>> ELSE
  <<<<CHOOSE x \in Range(s) : \A y \in Range(s) : x <= y, CHOOSE x \in Range(s) : \A y \in Range(s) : x >= y>>>>
\* s[start:stop:step]
Sliced(s, start, stop, step) ==
  LET Place(n) == IF n < 0 THEN Up(Len(s) + n, 0) ELSE n
      to == IF stop = <<>> THEN Len(s) ELSE Place(stop[1])
  IN  Where(s, LAMBDA j : j > Place(start) /\ j <= to /\ (j - 1 - Place(start)) % step = 0)
FirstAt(s, Test(_)) == IF \E j \in 1..Len(s) : Test(j) THEN CHOOSE j \in 1..Len(s) : Test(j) /\ \A i \in 1..j - 1 : ~ Test(i)
                       ELSE Len(s) + 1

\* What the iterators should give, in all
Whole(p, a, b) ==
  CASE p.f = "take" -> <<SubSeq(a, 1, Down(p.n, Len(a)))>>
    [] p.f = "drop" -> <<From(a, p.n + 1)>>
    [] p.f = "split_at" -> <<SubSeq(a, 1, Down(p.n, Len(a))), From(a, p.n + 1)>>
    [] p.f = "unpack" -> <<IF Len(a) < p.n THEN <<>> ELSE From(a, p.k + 1)>>
    [] p.f = "butlastn" -> <<SubSeq(a, 1, Len(a) - p.n)>>
    [] p.f = "lastn" -> <<From(a, Up(Len(a) - p.n + 1, 1))>>
    [] p.f = "nth" -> <<From(a, p.n + 2)>>
    [] p.f = "scons" -> <<<<0>> \o a>>
    [] p.f = "pad" -> <<a \o [j \in 1..Up(p.n - Len(a), 0) |-> 0]>>
    [] p.f = "window" -> <<[j \in 1..Up(Len(a) - p.n + 1, 0) |-> SubSeq(a, j, j + p.n - 1)]>>
    [] p.f = "within" -> LET m == FirstAt(a, LAMBDA j : j > 1 /\ a[j] = a[j - 1])
                         IN  <<SubSeq(a, 1, IF m > Len(a) THEN Len(a) - 1 ELSE m)>>
    [] p.f = "interleave" -> <<[j \in 1..(IF Len(a) <= Len(b) THEN 2 * Len(a) ELSE 2 * Len(b) + 1) |->
                                  IF j % 2 = 1 THEN a[(j + 1) \div 2] ELSE b[j \div 2]]>>
    [] p.f = "uniqify" -> <<Where(a, LAMBDA j : \A i \in 1..j - 1 : a[i] # a[j])>>
    [] p.f = "uniq" -> <<Where(a, LAMBDA j : j = 1 \/ a[j - 1] # a[j])>>
    [] p.f = "partition" -> <<SelectSeq(a, LAMBDA x : x % 2 = 1), SelectSeq(a, LAMBDA x : x % 2 = 0)>>
    [] p.f = "powerset" -> <<[k \in 1..2 ^ Len(a) - 1 |-> Where(a, LAMBDA j : (k \div (2 ^ (j - 1))) % 2 = 1)]>>
    [] p.f = "iterate" -> <<[j \in 1..MaxItems |-> 2 ^ (j - 1)]>>
    [] p.f = "unfold" -> <<[j \in 1..p.n |-> p.n - j + 1]>>
    [] p.f = "rev" -> <<Reverse(a)>>
    [] p.f \in {"map", "map_longest"} -> <<Sums(Zipped(a, b, p.longest))>>
    [] p.f = "rmap" -> <<Sums(Zipped(Reverse(a), Reverse(b), p.longest))>>
    [] p.f = "rzip" -> <<Zipped(Reverse(a), Reverse(b), p.longest)>>
    [] p.f = "mapr" -> <<Reverse(Sums(Zipped(a, b, p.longest)))>>
    [] p.f = "zipr" -> <<Reverse(Zipped(a, b, p.longest))>>
    [] p.f = "scanl" -> <<Scans(0, Sums(Zipped(a, b, p.longest)))>>
    [] p.f = "scanr" -> <<Scans(0, Reverse(Sums(Zipped(a, b, p.longest))))>>
    [] p.f = "rscanl" -> <<Scans(0, Sums(Zipped(Reverse(a), Reverse(b), p.longest)))>>
    [] p.f = "scanl1" -> <<Scans1(a)>>
    [] p.f \in {"scanr1", "rscanl1"} -> <<Scans1(Reverse(a))>>
    [] p.f = "running_minmax" -> <<[j \in 1..Len(a) |-> LeastMost(SubSeq(a, 1, j))[1]]>>
    [] p.f = "islice" -> <<Sliced(a, p.start, p.stop, p.step)>>
    [] p.f = "iindex" -> <<From(a, FirstAt(a, LAMBDA j : a[j] = p.n) + 1)>>
    [] p.f = "allsame" -> <<From(a, FirstAt(a, LAMBDA j : a[j] # a[1]) + 1)>>
    [] OTHER -> <<>>

\* and what the function should return besides them.
Returned(p, a, b) ==
  LET Final(s) == IF s = <<>> THEN <<>> ELSE <<s[Len(s)]>> IN
  CASE p.f = "unpack" -> [j \in 1..p.n |-> IF j > Len(a) THEN 0 ELSE a[j]]
    [] p.f = "nth" -> IF p.n < Len(a) THEN <<a[p.n + 1]>> ELSE <<>>
    [] p.f = "last" -> Final(a)
    [] p.f = "foldl" -> Final(Scans(0, Sums(Zipped(a, b, p.longest))))
    [] p.f = "foldr" -> Final(Scans(0, Reverse(Sums(Zipped(a, b, p.longest)))))
    [] p.f = "reducel" -> Final(Scans1(a))
    [] p.f = "rfoldl" -> Final(Scans(0, Sums(Zipped(Reverse(a), Reverse(b), p.longest))))
    [] p.f \in {"reducer", "rreducel"} -> Final(Scans1(Reverse(a)))
    [] p.f = "minmax" -> LeastMost(a)
    [] p.f = "iindex" -> <<IF p.n \in Range(a) THEN FirstAt(a, LAMBDA j : a[j] = p.n) - 1 ELSE -1>>
    [] p.f = "inn" -> <<p.n \in Range(a)>>
    [] p.f = "allsame" -> <<Cardinality(Range(a)) <= 1>>
    [] OTHER -> <<>>

------------------------------------------------------------------------------
(***************************************************************************)
(* Properties                                                              *)
(***************************************************************************)
Monotonic(s) == (\A j \in 2..Len(s) : s[j - 1] <= s[j]) \/ (\A j \in 2..Len(s) : s[j - 1] >= s[j])

\* The function does what it says, for any way of reading it: the iterators give
\* the items of the plain definition in order, and end when these end, whichever
\* of them is read first (it.py:296-378, 592-616); chunks that are read one after
\* the other partition the input (it.py:742-776).
StreamsAgree ==
  LET p == program  whole == Whole(p, source[1], source[2]) IN
  /\ \A j \in DOMAIN whole \cap DOMAIN outs :
       /\ IsPrefix(got[j], whole[j])
       /\ ended[j] => got[j] = whole[j]
  /\ (p.f = "inn" => Monotonic(source[1])) => value = Returned(p, source[1], source[2])
  /\ p.f = "chunked" /\ orderly => \A j \in 2..Len(outs) :
       IsPrefix(got[j], SubSeq(source[1], (j - 2) * p.n + 1, Down((j - 1) * p.n, Len(source[1]))))

\* What a function takes when it is called, before anything is read
Eager(p) ==
  CASE p.f \in {"drop", "split_at", "window"} -> p.n
    [] p.f = "unpack" -> Up(p.n, p.k)
    [] p.f \in {"scanl1", "running_minmax"} -> 1
    [] OTHER -> 0

ReadsAll == {"lastn", "last", "nth", "rev", "rmap", "rzip", "mapr", "zipr", "scanr", "scanr1", "rscanl", "rscanl1",
             "foldl", "foldr", "reducel", "reducer", "rfoldl", "rreducel", "minmax", "islice", "iindex", "inn", "allsame", "chunked"}

\* Lazy functions read no more of the input than what was taken from them
\* depends on: with an input that ended there, they could not have given it.
NothingReadAhead ==
  program.f \notin ReadsAll /\ (\A j \in 1..Len(outs) : ~ ended[j]) =>
    LET a == source[1]  b == source[2]  read == heap[1].taken
    IN  read > Eager(program) =>
          \E j \in 1..Len(outs) : ~ IsPrefix(got[j], Whole(program, SubSeq(a, 1, read - 1), b)[j])

\* "Negative start, stop are supported" (slicing.py:30): it fails.
NegativeSlices == program.f = "islice" => outs # <<>>
==============================================================================
