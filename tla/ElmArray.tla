------------------------------ MODULE ElmArray ------------------------------
(***************************************************************************)
(* Elm's Array, a relaxed radix balanced tree                              *)
(* (core/5.1.1/src/Native/Array.js).  The user interface builds one from   *)
(* the list of recordings and takes its first element.                     *)
(*                                                                         *)
(* A tree is a record: a leaf has height 0 and its elements in table; a    *)
(* node has its children in table and their accumulated sizes in lengths.  *)
(* Indexes are the code's, from 0; sequences start at 1, hence the + 1.    *)
(* Elements are natural numbers.  A read the code makes outside a table    *)
(* gives JavaScript's undefined, and using that as a tree throws.          *)
(***************************************************************************)
EXTENDS Integers, Sequences, SequencesExt

CONSTANTS
    M,    \* the size of a full table (32 in the code)
    E     \* the extra search steps append tolerates (2 in the code)

ASSUME ArrayAssumption == M \in Nat \ {0, 1} /\ E \in Nat

Leaf(elements) == [height |-> 0, table |-> elements, lengths |-> <<>>]
Node(h, children, lens) == [height |-> h, table |-> children, lengths |-> lens]
Empty == Leaf(<<>>)

\* What an operation that throws leaves, and what an empty slot of a table
\* holds.
Crash == [height |-> -1, table |-> <<>>, lengths |-> <<>>]
Hole == [height |-> -2, table |-> <<>>, lengths |-> <<>>]
Undefined == -1

\* JavaScript's s.slice(from, to) for 0 <= from and 0 <= to
JSSlice(s, from, to) == SubSeq(s, from + 1, Min({to, Len(s)}))

length(a) ==
    IF a.height = 0 THEN Len(a.table)
    ELSE IF a.lengths = <<>> THEN Undefined ELSE Last(a.lengths)

\* a.lengths[i - 1], or 0 in front of the first child
Before(a, i) == IF i > 0 THEN a.lengths[i] ELSE 0

\* A sum with undefined is NaN, which compares and adds as Undefined does here.
Plus(m, n) == IF Undefined \in {m, n} THEN Undefined ELSE m + n

\* The accumulated lengths of the children.
Accumulate(children) ==
    [i \in 1..Len(children) |->
        FoldLeft(LAMBDA sum, c : Plus(sum, length(c)), 0, SubSeq(children, 1, i))]

-----------------------------------------------------------------------------
(* Searching and updating *)

\* A guess from the radix, then forward through lengths; lengths[slot] <= i
\* is false past the end.
getSlot(i, a) ==
    CHOOSE s \in 0..(i + Len(a.table)) :
        /\ s >= i \div M^a.height
        /\ s >= Len(a.lengths) \/ a.lengths[s + 1] > i
        /\ \A r \in (i \div M^a.height)..(s - 1) : a.lengths[r + 1] <= i

\* The loop counts x down by itself: it takes a for a node of height x.
RECURSIVE UnsafeGetAt(_, _, _)
UnsafeGetAt(x, i, a) ==
    CASE x = 0 -> IF a.height = 0 /\ i < Len(a.table) THEN a.table[i + 1] ELSE Undefined
      [] x > 0 /\ a.height <= 0 -> Undefined
      [] OTHER ->
            LET slot == getSlot(i, [a EXCEPT !.height = x])
            IN  IF slot >= Len(a.table) THEN Undefined
                ELSE UnsafeGetAt(x - 1, i - Before(a, slot), a.table[slot + 1])

unsafeGet(i, a) == UnsafeGetAt(a.height, i, a)

\* get throws outside the array
get(i, a) == IF i < 0 \/ i >= length(a) THEN Undefined ELSE unsafeGet(i, a)

RECURSIVE unsafeSet(_, _, _)
unsafeSet(i, item, a) ==
    IF a.height = 0 THEN [a EXCEPT !.table[i + 1] = item]
    ELSE LET slot == getSlot(i, a)
         IN  [a EXCEPT !.table[slot + 1] = unsafeSet(i - Before(a, slot), item, @)]

set(i, item, a) == IF i < 0 \/ length(a) <= i THEN a ELSE unsafeSet(i, item, a)

-----------------------------------------------------------------------------
(* Building *)

\* Math.floor(Math.log(len) / Math.log(M)), exact for the powers of 32
Log(len) == CHOOSE h \in 0..len : M^h <= len /\ len < M^(h + 1)

RECURSIVE Build(_, _, _, _)
\* initialize_ and fromJSArray_ differ in how they fill a leaf: fill(from, to).
\* A function stands for both: f[i] is the element of index i.
Build(f, h, from, to) ==
    IF h = 0 THEN Leaf([i \in 1..((to - from) % (M + 1)) |-> f[from + i - 1]])
    ELSE LET width == M^h
             children == [i \in 1..((to - from + width - 1) \div width) |->
                            Build(f, h - 1, from + (i - 1) * width,
                                  Min({from + i * width, to}))]
         IN  Node(h, children, Accumulate(children))

initialize(len, f) == IF len <= 0 THEN Empty ELSE Build(f, Log(len), 0, len)

RECURSIVE fromJSArray_(_, _, _, _)
fromJSArray_(js, h, from, to) ==
    IF h = 0 THEN Leaf(JSSlice(js, from, to))
    ELSE LET width == M^h
             children == [i \in 1..((to - from + width - 1) \div width) |->
                            fromJSArray_(js, h - 1, from + (i - 1) * width,
                                         Min({from + i * width, to}))]
         IN  Node(h, children, Accumulate(children))

fromJSArray(js) ==
    IF js = <<>> THEN Empty ELSE fromJSArray_(js, Log(Len(js)), 0, Len(js))

\* Push a node into the row above it; a full row moves up and starts anew.
RECURSIVE fromListPush(_, _)
fromListPush(toPush, nodes) ==
    LET h == toPush.height
        new == Node(h + 1, <<>>, <<>>)
        Grown(row) == Node(h + 1, Append(row.table, toPush),
                           Append(row.lengths, length(toPush) + Before(row, Len(row.lengths))))
        Moved(rows) == IF Len(rows[h + 1].table) < M THEN rows
                       ELSE [fromListPush(rows[h + 1], rows) EXCEPT ![h + 1] = new]
        Held(rows) == [rows EXCEPT ![h + 1] = Grown(@)]
    IN  Moved(Held(IF Len(nodes) = h THEN Append(nodes, new) ELSE nodes))

\* The list cut into tables of M elements, the last one shorter.
Chunks(list) ==
    [i \in 1..((Len(list) + M - 1) \div M) |-> Leaf(JSSlice(list, (i - 1) * M, i * M))]

RECURSIVE FlushRows(_, _)
\* Push what is left in every row but the last into the row above.
FlushRows(h, nodes) ==
    IF h >= Len(nodes) - 1 THEN nodes
    ELSE FlushRows(h + 1, IF nodes[h + 1].table # <<>>
                          THEN fromListPush(nodes[h + 1], nodes) ELSE nodes)

fromList(list) ==
    IF list = <<>> THEN Empty
    ELSE LET rows == FoldLeft(LAMBDA nodes, leaf : fromListPush(leaf, nodes),
                              <<>>, Chunks(list))
             Unwrapped(head) ==
                 IF head.height > 0 /\ Len(head.table) = 1 THEN head.table[1] ELSE head
         IN  Unwrapped(Last(FlushRows(0, rows)))

RECURSIVE create(_, _)
create(item, h) ==
    IF h = 0 THEN Leaf(<<item>>) ELSE Node(h, <<create(item, h - 1)>>, <<1>>)

RECURSIVE parentise(_, _)
parentise(tree, h) ==
    IF h = tree.height THEN tree
    ELSE Node(h, <<parentise(tree, h - 1)>>, <<length(tree)>>)

siblise(a, b) == Node(a.height + 1, <<a, b>>, <<length(a), Plus(length(a), length(b))>>)

botRight(a) == Last(a.table)
botLeft(a) == Head(a.table)

\* Mutant of ReplaceLast: the length is left as it was.
ReplaceLastOnly(a, pushed) == [a EXCEPT !.table[Len(a.table)] = pushed]

\* The parent's table and lengths after its last child became pushed.
ReplaceLast(a, pushed) ==
    [a EXCEPT !.table[Len(a.table)] = pushed, !.lengths[Len(a.table)] = @ + 1]

RECURSIVE push_(_, _)
\* push_ gives null (here Hole) when there is no room at the right edge.
push_(item, a) ==
    IF a.height = 0
    THEN IF Len(a.table) < M THEN Leaf(Append(a.table, item)) ELSE Hole
    ELSE LET pushed == push_(item, botRight(a))
             last == Len(a.table)
         IN  CASE pushed # Hole -> ReplaceLast(a, pushed)
               [] pushed = Hole /\ last < M ->
                    Node(a.height, Append(a.table, create(item, a.height - 1)),
                         Append(a.lengths, Last(a.lengths) + 1))
               [] OTHER -> Hole

push(item, a) ==
    LET pushed == push_(item, a)
    IN  IF pushed # Hole THEN pushed ELSE siblise(a, create(item, a.height))

-----------------------------------------------------------------------------
(* Going through all elements *)

RECURSIVE toList_(_, _)
toList_(list, a) ==
    FoldRight(LAMBDA x, rest : IF a.height = 0 THEN <<x>> \o rest ELSE toList_(rest, x),
              a.table, list)

toList(a) == toList_(<<>>, a)

\* map keeps the shape and the lengths.
RECURSIVE map(_, _)
map(f, a) ==
    [a EXCEPT !.table = [i \in 1..Len(a.table) |->
        IF a.height = 0 THEN f[a.table[i]] ELSE map(f, a.table[i])]]

RECURSIVE indexedMap_(_, _, _)
indexedMap_(f, a, from) ==
    [a EXCEPT !.table = [i \in 1..Len(a.table) |->
        IF a.height = 0 THEN f[from + i - 1, a.table[i]]
        ELSE indexedMap_(f, a.table[i], from + Before(a, i - 1))]]

indexedMap(f, a) == indexedMap_(f, a, 0)

\* foldl and foldr of the function that puts an element in front of a list.
RECURSIVE foldlCons(_, _)
foldlCons(b, a) ==
    FoldLeft(LAMBDA acc, x : IF a.height = 0 THEN <<x>> \o acc ELSE foldlCons(acc, x),
             b, a.table)

RECURSIVE foldrCons(_, _)
foldrCons(b, a) ==
    FoldRight(LAMBDA x, acc : IF a.height = 0 THEN <<x>> \o acc ELSE foldrCons(acc, x),
              a.table, b)

\* toJSArray writes every element at the index the lengths give it.
RECURSIVE toJSArray_(_, _, _)
toJSArray_(js, i, a) ==
    FoldLeft(LAMBDA out, t :
                IF a.height = 0 THEN [out EXCEPT ![i + t] = a.table[t]]
                ELSE toJSArray_(out, i + Before(a, t - 1), a.table[t]),
             js, [t \in 1..Len(a.table) |-> t])

toJSArray(a) == toJSArray_([i \in 1..length(a) |-> Undefined], 0, a)
=============================================================================
