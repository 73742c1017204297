---------------------------- MODULE LinkedLists ----------------------------
(***************************************************************************)
(* Cons cells and linked lists (unpythonic/llist.py).  Cells are immutable *)
(* and need no identity: a structure is nil, an atom or a cell of two.     *)
(***************************************************************************)
EXTENDS Naturals, Sequences, SequencesExt

CONSTANT Structures  \* what the functions are called with: pairs of structures that are not atoms

VARIABLES structures, walked
wvars == <<structures, walked>>

Nil == <<>>
Atom(x) == <<x>>
Cell(a, d) == <<a, d>>
IsCons(c) == Len(c) = 2
Car(c) == c[1]
Cdr(c) == c[2]

\* What an iterator yields, and whether it ends with a TypeError
Items(xs) == [items |-> xs, raises |-> FALSE]
Raise == [items |-> <<>>, raises |-> TRUE]
After(x, rest) == [rest EXCEPT !.items = <<x>> \o @]
------------------------------------------------------------------------------
RECURSIVE TailsFrom(_)
\* The walkers of lists: successive tails, until one is nil or no cell
TailsFrom(cell) ==
  IF cell = Nil THEN Items(<<>>)
  ELSE After(cell, IF IsCons(Cdr(cell)) \/ Cdr(cell) = Nil THEN TailsFrom(Cdr(cell)) ELSE Raise)

\* An iterator over cells starts in a cell; nil is an iterator of its own.
TailIterator(head) == IF IsCons(head) THEN TailsFrom(head) ELSE Raise
ListIterator(head) ==
  LET tails == TailIterator(head) IN [tails EXCEPT !.items = [k \in 1..Len(@) |-> Car(@[k])]]
\* LinkedListOrCellIterator: the halves of a single cell count as its items.
Iter(head) ==
  IF head = Nil THEN Items(<<>>)
  ELSE IF IsCons(Cdr(head)) \/ Cdr(head) = Nil THEN ListIterator(head)
  ELSE Items(<<Car(head), Cdr(head)>>)

\* MUTANT of Pushed: the car waits below the cdr
Pushed_cdrFirst(cell) == SelectSeq(<<Cdr(cell), Car(cell)>>, IsCons)
\* The halves that are cells, as they lie on the stack: the car on top
Pushed(cell) == SelectSeq(<<Car(cell), Cdr(cell)>>, IsCons)

RECURSIVE WalkTree(_, _)
\* The walkers of trees, with a stack of their own; the first is popped.
WalkTree(stack, nils) ==
  IF stack = <<>> THEN <<>>
  ELSE LET cell == Head(stack)
           ends == (IF IsCons(Car(cell)) THEN <<>> ELSE <<Car(cell)>>)
                   \o (IF IsCons(Cdr(cell)) \/ (Cdr(cell) = Nil /\ ~ nils) THEN <<>> ELSE <<Cdr(cell)>>)
       IN  ends \o WalkTree(Pushed(cell) \o Tail(stack), nils)

BinaryTreeIterator(root) == WalkTree(<<root>>, TRUE)
JackOfAllTradesIterator(root) == WalkTree(<<root>>, FALSE)
------------------------------------------------------------------------------
\* lreverse, llist of a walk, and the fold of lappend
Lreverse(it) == IF it.raises THEN Raise ELSE Items(FoldLeft(LAMBDA acc, x : Cell(x, acc), Nil, it.items))
Structure(made) == made.items
\* rev(cell) is reversed(cell), which is an iterator over the reversed list.
ReversedIterator(head) ==
  LET data == Lreverse(Iter(head)) IN
  IF ~ IsCons(head) \/ data.raises THEN Raise ELSE ListIterator(Structure(data))
Llist(it) == Lreverse([it EXCEPT !.items = Reverse(@)])
LlistOfList(head) == Lreverse(IF IsCons(head) THEN ReversedIterator(head) ELSE Items(<<>>))
\* llist of reversed(head), of which some items have been taken: the data of the iterator
LlistOfReversed(head, taken) == Lreverse(Iter(head))
\* MUTANT of AppendTwo: folded from the left
AppendTwo_reversed(l1, l2) ==
  IF Iter(l1).raises THEN Raise ELSE Items(FoldLeft(LAMBDA acc, x : Cell(x, acc), l2, Iter(l1).items))
AppendTwo(l1, l2) ==
  IF Iter(l1).raises THEN Raise ELSE Items(FoldRight(LAMBDA x, acc : Cell(x, acc), Iter(l1).items, l2))
Lappend(l1, l2) ==
  LET last == AppendTwo(l2, Nil) IN IF last.raises THEN Raise ELSE AppendTwo(l1, Structure(last))

\* lzip: zip asks the first list before the second.
Lzip(l1, l2) ==
  LET a == Iter(l1)  b == Iter(l2)
      rows == IF Len(a.items) <= Len(b.items) THEN Len(a.items) ELSE Len(b.items)
      stuck == IF rows = Len(a.items) THEN a.raises ELSE b.raises
      row(k) == Cell(a.items[k], Cell(b.items[k], Nil))
  IN  IF stuck \/ (rows = Len(a.items) /\ a.raises) THEN Raise ELSE Llist(Items([k \in 1..rows |-> row(k)]))

RECURSIVE MemberAmong(_, _)
MemberAmong(x, tails) ==
  IF tails.items = <<>> THEN (IF tails.raises THEN Raise ELSE Items(<<>>))
  ELSE IF Car(Head(tails.items)) = x THEN Items(<<Head(tails.items)>>)
  ELSE MemberAmong(x, [tails EXCEPT !.items = Tail(@)])
Member(x, l) == MemberAmong(x, TailIterator(l))

RECURSIVE EqualCells(_, _), EqualItems(_, _)
\* all(a == b for a, b in zip_longest(ia, ib)); "raises" if a walk comes to its TypeError first
EqualItems(ia, ib) ==
  IF ia.items = <<>> /\ ia.raises THEN "raises"
  ELSE IF ib.items = <<>> /\ ib.raises THEN "raises"
  ELSE IF ia.items = <<>> \/ ib.items = <<>> THEN (IF ia.items = ib.items THEN "equal" ELSE "differ")
  ELSE IF EqualCells(Head(ia.items), Head(ib.items))
       THEN EqualItems([ia EXCEPT !.items = Tail(@)], [ib EXCEPT !.items = Tail(@)])
       ELSE "differ"
\* cons.__eq__: as lists if they are, else half by half
EqualCells(a, b) ==
  IF IsCons(a) /\ IsCons(b)
  THEN LET asLists == EqualItems(ListIterator(a), ListIterator(b)) IN
       \/ asLists = "equal"
       \/ asLists = "raises" /\ EqualCells(Car(a), Car(b)) /\ EqualCells(Cdr(a), Cdr(b))
  ELSE a = b
------------------------------------------------------------------------------
ListsInit == structures \in Structures /\ walked = <<>>

\* Everything is computed from a pair of structures.
Walk ==
  /\ walked = <<>>
  /\ LET a == structures[1]  b == structures[2] IN
     walked' = <<[lists |-> <<Iter(a), Iter(b)>>, again |-> LlistOfList(a),
                  reversed |-> Lreverse(Iter(a)), backwards |-> ReversedIterator(a),
                  appended |-> Lappend(a, b), zipped |-> Lzip(a, b),
                  tree |-> IF IsCons(a) THEN BinaryTreeIterator(a) ELSE <<>>,
                  jack |-> IF IsCons(a) THEN JackOfAllTradesIterator(a) ELSE <<>>,
                  equal |-> EqualCells(a, b)]>>
  /\ UNCHANGED structures
------------------------------------------------------------------------------
RECURSIVE EndsOf(_), IsList(_), Regular(_)
EndsOf(c) == IF IsCons(c) THEN EndsOf(Car(c)) \o EndsOf(Cdr(c)) ELSE <<c>>
IsList(c) == c = Nil \/ (IsCons(c) /\ IsList(Cdr(c)))
\* No cell has an end on the right of a cell
Regular(c) == IsCons(c) => (IsCons(Car(c)) => IsCons(Cdr(c))) /\ Regular(Car(c)) /\ Regular(Cdr(c))
AllOf(p) == [items |-> p, raises |-> FALSE]

\* Lists are rebuilt, reversed, joined and zipped as sequences are, although a walk
\* never looks ahead to see whether what it walks is a list; what is not a list
\* is refused by a TypeError, and nothing but a single cell passes as one
\* (llist.py:119-139, 372-375, 385-389).
ListsAreSequences ==
  walked # <<>> =>
    LET r == walked[1]  a == structures[1]  b == structures[2]
        ok == ~ r.lists[1].raises /\ ~ r.lists[2].raises
        x == r.lists[1].items  y == r.lists[2].items
        least == IF Len(x) <= Len(y) THEN Len(x) ELSE Len(y)
    IN  /\ IsList(a) => ~ r.lists[1].raises /\ Structure(r.again) = a
        /\ ~ r.lists[1].raises <=> IsList(a) \/ ~ IsCons(Cdr(a))
        /\ ~ r.lists[1].raises /\ a # Nil => r.backwards = AllOf(Reverse(x))
        /\ ok => /\ Iter(Structure(r.appended)) = AllOf(x \o y)
                 /\ Iter(Structure(r.zipped)) = AllOf([k \in 1..least |-> Cell(x[k], Cell(y[k], Nil))])
        /\ ~ ok => r.appended.raises
        /\ \A k \in 1..Len(x) : IsList(a) =>
             LET m == Member(x[k], a) IN
             ~ m.raises /\ Car(m.items[1]) = x[k] /\ \E j \in 0..k - 1 : Iter(m.items[1]).items = SubSeq(x, j + 1, Len(x))

\* Two structures are equal if they are built alike, however the comparison as lists
\* ends: by a difference, by the end of one of them, or in a cell that is no list
\* (llist.py:269-278).
EqualityIsStructural == walked # <<>> => (walked[1].equal <=> structures[1] = structures[2])

\* The walkers with a stack of their own visit every end once, from left to right,
\* where no end lies to the right of a cell (llist.py:159-226).
TreesAreWalkedInOrder ==
  walked # <<>> /\ IsCons(structures[1]) =>
    LET ends == EndsOf(structures[1])  tree == walked[1].tree  jack == walked[1].jack IN
    /\ \A e \in ToSet(ends) : Len(SelectSeq(tree, LAMBDA x : x = e)) = Len(SelectSeq(ends, LAMBDA x : x = e))
    /\ Len(tree) = Len(ends)
    /\ Regular(structures[1]) => tree = ends
    /\ SelectSeq(jack, LAMBDA x : x # Nil) = SelectSeq(tree, LAMBDA x : x # Nil)

\* The same for all trees fails: an end to the right of a cell comes before it.
AllTreesInOrder == walked # <<>> /\ IsCons(structures[1]) => walked[1].tree = EndsOf(structures[1])

\* llist of an iterator has the items that it still has (llist.py:372-375). For a reversed
\* list of which something has been taken it does not hold.
LlistTakesWhatIsLeft ==
  walked # <<>> /\ IsCons(structures[1]) /\ IsList(structures[1]) =>
    \A taken \in 0..Len(walked[1].backwards.items) :
      Iter(Structure(LlistOfReversed(structures[1], taken))).items
        = SubSeq(walked[1].backwards.items, taken + 1, Len(walked[1].backwards.items))
==============================================================================
