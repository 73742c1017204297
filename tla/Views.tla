------------------------------- MODULE Views -------------------------------
(***************************************************************************)
(* Live views into a list, and views of views: roview and view of          *)
(* unpythonic/collections.py.  A view keeps its slice, and a cache of the  *)
(* places in the list that the slice stands for; the list may grow and     *)
(* shrink at any time.                                                     *)
(***************************************************************************)
EXTENDS Integers, Sequences, FiniteSets

CONSTANTS
  Entries,   \* what the list holds
  InitLists, \* the lists that are viewed
  Slices,    \* the slices that views are taken with; an absent component is <<>>
  MaxLen,    \* bound: length of the list
  MaxViews   \* bound: number of views

ViewsAssumption ==
  /\ MaxLen \in Nat /\ MaxViews \in Nat
  /\ InitLists \subseteq Seq(Entries) /\ \A l \in InitLists : Len(l) <= MaxLen
  /\ Slices \subseteq [start : Seq(Int), stop : Seq(Int), step : Int \ {0}]
  /\ \A s \in Slices : Len(s.start) <= 1 /\ Len(s.stop) <= 1

VARIABLES
  list,   \* the underlying list
  views   \* the views: what each one is a view of (0: the list), its slice, and its cache

vvars == <<list, views>>

All == [start |-> <<>>, stop |-> <<>>, step |-> 1]
NoLength == -1

\* range(n)[s]: the places, counted from 1, in order
Places(s, n) ==
  LET Clip(x, low, high) == IF x < low THEN low ELSE IF x > high THEN high ELSE x
      Place(x, low, high) == Clip(IF x < 0 THEN x + n ELSE x, low, high)
      Bound(b, low, high, default) == IF b = <<>> THEN default ELSE Place(b[1], low, high)
      forward == s.step > 0
      start == IF forward THEN Bound(s.start, 0, n, 0) ELSE Bound(s.start, -1, n - 1, n - 1)
      stop == IF forward THEN Bound(s.stop, 0, n, n) ELSE Bound(s.stop, -1, n - 1, -1)
      count == IF forward THEN (stop - start + s.step - 1) \div s.step
                          ELSE (start - stop - s.step - 1) \div (- s.step)
  IN  [k \in 1..(IF count > 0 THEN count ELSE 0) |-> start + (k - 1) * s.step + 1]

Sub(r, s) == LET ps == Places(s, Len(r)) IN [k \in 1..Len(ps) |-> r[ps[k]]]

------------------------------------------------------------------------------
\* _range, of each view when the list has n items: down to the list, and back up by
\* slicing ranges; no cache is used
Ranges(vs, n) ==
  LET range[v \in 0..Len(vs)] ==
        IF v = 0 THEN [k \in 1..n |-> k] ELSE Sub(range[vs[v].of], vs[v].slice)
  IN  range

\* MUTANT of Renewed: the cache is made once
Renewed_once(vs, v, inner) ==
  IF vs[v].seql # NoLength THEN inner
  ELSE [inner EXCEPT ![v].seql = IF vs[v].of = 0 THEN Len(list) ELSE Len(inner[vs[v].of].cache),
                     ![v].cache = Ranges(vs, Len(list))[v]]

\* The cache is renewed if the length of what is viewed has changed.
Renewed(vs, v, inner) ==
  LET seql == IF vs[v].of = 0 THEN Len(list) ELSE Len(inner[vs[v].of].cache)
  IN  IF seql = vs[v].seql THEN inner
      ELSE [inner EXCEPT ![v].seql = seql, ![v].cache = Ranges(vs, Len(list))[v]]

\* _update_cache, of each view: asking what is viewed for its length, if it is a view,
\* renews its own cache.
Refresh(vs) ==
  LET refreshed[v \in 0..Len(vs)] ==
        IF v = 0 THEN vs ELSE Renewed(vs, v, refreshed[vs[v].of])
  IN  refreshed

\* The items that a view gives: iteration, and each subscript in range
Elements(v) ==
  LET r == Refresh(views)[v][v].cache
  IN  [k \in 1..Len(r) |-> IF r[k] <= Len(list) THEN <<list[r[k]]>> ELSE <<"IndexError">>]
------------------------------------------------------------------------------
Init == list \in InitLists /\ views = <<>>

\* view(x, s), of the list or of a view
ViewOf(v, s) ==
  /\ Len(views) < MaxViews
  /\ views' = Append(views, [of |-> v, slice |-> s, seql |-> NoLength, cache |-> <<>>])
  /\ UNCHANGED list

\* v[s]: the whole of a view is the view itself; a view of all of something is bypassed
Subscript(v, s) == s # All /\ ViewOf(IF views[v].slice = All THEN views[v].of ELSE v, s)

\* Any reading of a view: iter, len, and a subscript
Read(v) == views' = Refresh(views)[v] /\ UNCHANGED list

\* v[k] = x; a place that is not there any more raises IndexError, which is a Read.
SetItem(v, k, x) ==
  LET vs == Refresh(views)[v] r == vs[v].cache
  IN  /\ k \in 1..Len(r) /\ r[k] <= Len(list)
      /\ list' = [list EXCEPT ![r[k]] = x] /\ views' = vs

\* v[s] = x broadcasts, up to the first place that is not there any more.
SetSlice(v, s, x) ==
  LET vs == Refresh(views)[v]
      r == Sub(vs[v].cache, s)
      written == {r[k] : k \in {m \in 1..Len(r) : \A i \in 1..m : r[i] <= Len(list)}}
  IN  list' = [j \in 1..Len(list) |-> IF j \in written THEN x ELSE list[j]] /\ views' = vs

\* reverse(): v[::-1] = its items
ReverseView(v) ==
  LET vs == Refresh(views)[v]
      r == vs[v].cache
      n == Len(r)
  IN  /\ \A k \in 1..n : r[k] <= Len(list)
      /\ list' = [j \in 1..Len(list) |->
           IF \E k \in 1..n : r[k] = j THEN list[r[n + 1 - CHOOSE k \in 1..n : r[k] = j]] ELSE list[j]]
      /\ views' = vs

\* The owner of the list changes its length: external
Grow(x) == Len(list) < MaxLen /\ list' \in {Append(list, x), <<x>> \o list} /\ UNCHANGED views
Shrink == list # <<>> /\ list' = Tail(list) /\ UNCHANGED views

ViewsStep ==
  \/ \E v \in 0..Len(views), s \in Slices : ViewOf(v, s)
  \/ \E v \in 1..Len(views), s \in Slices : Subscript(v, s)
  \/ \E v \in 1..Len(views) : Read(v) \/ ReverseView(v)
  \/ \E v \in 1..Len(views), k \in 1..MaxLen, x \in Entries : SetItem(v, k, x)
  \/ \E v \in 1..Len(views), s \in Slices, x \in Entries : SetSlice(v, s, x)
  \/ (\E x \in Entries : Grow(x)) \/ Shrink
Spec == Init /\ [][ViewsStep]_vvars
------------------------------------------------------------------------------
(***************************************************************************)
(* Properties                                                              *)
(***************************************************************************)
View == [of : 0..MaxViews, slice : Slices, seql : NoLength..MaxLen, cache : Seq(1..MaxLen)]
AreViews(vs) ==
  /\ vs \in Seq(View) /\ Len(vs) <= MaxViews
  /\ \A v \in 1..Len(vs) : vs[v].of < v /\ Len(vs[v].cache) <= MaxLen
TypeOK == list \in Seq(Entries) /\ Len(list) <= MaxLen /\ AreViews(views)

\* What a view is of, said without places: slices of what is viewed
Viewed(v) ==
  LET viewed[u \in 0..v] ==
        IF u = 0 THEN [k \in 1..Len(list) |-> <<list[k]>>] ELSE Sub(viewed[views[u].of], views[u].slice)
  IN  viewed[v]

\* Below them, no slice that is viewed is counted from the end, so that the length of
\* what they give tells where it is.
FromFront(s) == s.step > 0 /\ (s.start = <<>> \/ s.start[1] >= 0)
Anchored(vs) ==
  UNION {A \in SUBSET (0..Len(vs)) : \A v \in A \ {0} : FromFront(vs[v].slice) /\ vs[v].of \in A}

\* Views are live: whatever was done to the list, directly or through another view,
\* and whenever the caches were made, a view of the list gives the slice of the list
\* as it is now, and so does a view of a view that is counted from the front
\* (collections.py:594, "works also if the underlying sequence undergoes length changes").
ViewsAreLive == \A v \in 1..Len(views) : views[v].of \in Anchored(views) => Elements(v) = Viewed(v)

\* The same for all views, as the comment says it: it fails (collections.py:651-656).
AllViewsAreLive == \A v \in 1..Len(views) : Elements(v) = Viewed(v)
==============================================================================
