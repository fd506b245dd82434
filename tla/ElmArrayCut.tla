---------------------------- MODULE ElmArrayCut ----------------------------
(***************************************************************************)
(* Cutting and joining Elm arrays: slice, append and the rebalancing       *)
(* append does (core/5.1.1/src/Native/Array.js, from line 405).            *)
(***************************************************************************)
EXTENDS ElmArray

\* Array.prototype.slice(0, to) of a table, for any to
Upto(s, to) == IF to >= 0 THEN JSSlice(s, 0, to) ELSE SubSeq(s, 1, Len(s) + to)

RECURSIVE sliceRight(_, _)
sliceRight(to, a) ==
    CASE a = Crash -> Crash
      [] a # Crash /\ to = length(a) -> a
      [] a # Crash /\ to # length(a) /\ a.height = 0 -> Leaf(Upto(a.table, to))
      [] OTHER ->
            LET Kept(right) == SubSeq(a.table, 1, right)
                Lens(right) == SubSeq(a.lengths, 1, right)
                Cut(right, sliced) ==
                    CASE sliced = Crash -> Crash
                      [] sliced # Crash /\ right = 0 -> sliced
                      [] sliced # Crash /\ right > 0 /\ sliced.table # <<>> ->
                            Node(a.height, Append(Kept(right), sliced),
                                 Append(Lens(right), length(sliced) + Last(Lens(right))))
                      [] OTHER -> Node(a.height, Kept(right), Lens(right))
                At(right) == Cut(right, IF right >= Len(a.table) THEN Crash
                                        ELSE sliceRight(to - Before(a, right), a.table[right + 1]))
            IN  At(getSlot(to, a))

RECURSIVE sliceLeft(_, _)
sliceLeft(from, a) ==
    CASE a = Crash -> Crash
      [] a # Crash /\ from = 0 -> a
      [] a # Crash /\ from # 0 /\ a.height = 0 ->
            Leaf(SubSeq(a.table, from + 1, Len(a.table)))
      [] OTHER ->
            LET Rest(left, sliced) == <<sliced>> \o SubSeq(a.table, left + 2, Len(a.table))
                Cut(left, sliced) ==
                    CASE sliced = Crash -> Crash
                      [] sliced # Crash /\ left = Len(a.table) - 1 -> sliced
                      [] OTHER -> Node(a.height, Rest(left, sliced), Accumulate(Rest(left, sliced)))
                At(left) == Cut(left, IF left >= Len(a.table) THEN Crash
                                      ELSE sliceLeft(from - Before(a, left), a.table[left + 1]))
            IN  At(getSlot(from, a))

\* Mutant of slice: the left is cut first and to is not moved with it.
sliceLeftFirst(from, to, a) ==
    LET Wrap(i) == IF i < 0 THEN i + length(a) ELSE i
    IN  sliceRight(Wrap(to), sliceLeft(Wrap(from), a))

slice(from, to, a) ==
    LET Wrap(i) == IF i < 0 THEN i + length(a) ELSE i
    IN  sliceLeft(Wrap(from), sliceRight(Wrap(to), a))

-----------------------------------------------------------------------------
(* append *)

\* insertRight and insertLeft replace a child at the edge of a copied parent.
insertRight(parent, node) ==
    LET last == Len(parent.table)
    IN  [parent EXCEPT !.table[last] = node,
                       !.lengths[last] = Plus(length(node), Before(parent, last - 1))]

insertLeft(parent, node) ==
    IF node.table # <<>>
    THEN LET children == [parent.table EXCEPT ![1] = node]
         IN  Node(parent.height, children, Accumulate(children))
    ELSE Node(parent.height, Tail(parent.table),
              [i \in 1..(Len(parent.lengths) - 1) |->
                  parent.lengths[i + 1] - parent.lengths[1]])

Slots(a) == FoldLeft(LAMBDA sum, c : sum + Len(c.table), 0, a.table)

\* The slots that full tables would save.
calcToRemove(a, b) ==
    Len(a.table) + Len(b.table) - ((Slots(a) + Slots(b) - 1) \div M + 1)

\* get2 and set2 address two tables as one; set2 extends the second.
get2(a, b, index) == IF index < Len(a) THEN a[index + 1]
                     ELSE b[index - Len(a) + 1]

\* Two lists written at one index: <<first, second>>
set2(two, index, value) ==
    LET n == Len(two[1])
        Put(s, at) == [i \in 1..Max({at, Len(s)}) |-> IF i = at THEN value ELSE s[i]]
    IN  IF index < n THEN <<Put(two[1], index + 1), two[2]>>
        ELSE <<two[1], Put(two[2], index - n + 1)>>

\* Mutant of saveSlot: the length is the slot's own.
saveSlotApart(w, index, slot) ==
    [table |-> set2(w.table, index, slot),
     lengths |-> set2(w.lengths, index, length(slot))]

\* saveSlot looks up the length before index in the first node's lengths only.
saveSlot(w, index, slot) ==
    LET n == Len(w.lengths[1])
        before == IF index = 0 \/ index = n THEN 0
                  ELSE get2(w.lengths[1], w.lengths[1], index - 1)
    IN  [table |-> set2(w.table, index, slot),
         lengths |-> set2(w.lengths, index, Plus(before, length(slot)))]

\* The pulling loop of shuffle: read is the next slot of a and b, from the
\* entry in it, slot the table being filled, w what is written so far.  It
\* throws when it reads past both tables.
RECURSIVE Pull(_, _, _, _, _, _, _)
Pull(srcs, toRemove, read, write, from, slot, w) ==
    IF read - write - (IF slot.table # <<>> THEN 1 ELSE 0) >= toRemove
    THEN [throws |-> FALSE, read |-> read, write |-> write, slot |-> slot, w |-> w]
    ELSE IF read = Len(srcs) THEN [throws |-> TRUE]
    ELSE LET source == srcs[read + 1]
             to == Min({M - Len(slot.table), Len(source.table)})
             table == slot.table \o JSSlice(source.table, from, to)
             filled == IF slot.height = 0 THEN Leaf(table)
                       ELSE Node(slot.height, table, Accumulate(table))
             done == Len(source.table) <= to
             full == Len(table) = M
         IN  Pull(srcs, toRemove,
                  IF done THEN read + 1 ELSE read,
                  IF full THEN write + 1 ELSE write,
                  IF done THEN 0 ELSE from + to,
                  IF full THEN [slot EXCEPT !.table = <<>>, !.lengths = <<>>] ELSE filled,
                  IF full THEN saveSlot(w, write, filled) ELSE w)

\* What shuffle and append_ leave when they throw
Thrown == <<Crash, Crash>>

\* The first slot, from 1, that is not full: 0 if there is none, and the loop
\* that skips the full ones throws.
FirstOpen(srcs) ==
    LET open == {i \in 1..Len(srcs) : Len(srcs[i].table) % M # 0}
    IN  IF open = {} THEN 0 ELSE Min(open)

shuffle(a, b, toRemove) ==
    LET srcs == a.table \o b.table
        size == Min({M, Len(srcs) - toRemove})
        \* the full slots at the front are copied with the lengths they had
        skip == FirstOpen(srcs) - 1
        blank == [table |-> <<[i \in 1..size |-> Hole], <<>>>>,
                  lengths |-> <<[i \in 1..size |-> Undefined], <<>>>>]
        skipped == FoldLeft(LAMBDA w, r :
                      [table |-> set2(w.table, r, srcs[r + 1]),
                       lengths |-> set2(w.lengths, r, get2(a.lengths, b.lengths, r))],
                      blank, [k \in 1..skip |-> k - 1])
        empty == [height |-> a.height - 1, table |-> <<>>, lengths |-> <<>>]
        Rest(pulled) == (IF pulled.slot.table = <<>> THEN <<>> ELSE <<pulled.slot>>)
                        \o SubSeq(srcs, pulled.read + 1, Len(srcs))
        Copy(pulled, rest) ==
            FoldLeft(LAMBDA out, k : saveSlot(out, pulled.write + k - 1, rest[k]),
                     pulled.w, [k \in 1..Len(rest) |-> k])
        Nodes(w) == <<Node(a.height, w.table[1], w.lengths[1]),
                      Node(a.height, w.table[2], w.lengths[2])>>
        Finish(pulled) == IF pulled.throws THEN Thrown ELSE Nodes(Copy(pulled, Rest(pulled)))
    IN  IF FirstOpen(srcs) = 0 THEN Thrown
        ELSE Finish(Pull(srcs, toRemove, skip, skip, 0, empty, skipped))

Balanced(a, b) ==
    IF a.table = <<>> \/ b.table = <<>> \/ calcToRemove(a, b) <= E THEN <<a, b>>
    ELSE shuffle(a, b, calcToRemove(a, b))

\* append_ goes down the edges of the higher tree, or of both, where they meet.
Inner(a, b) == <<IF a.height >= b.height THEN botRight(a) ELSE a,
                 IF b.height >= a.height THEN botLeft(b) ELSE b>>

\* The two nodes it makes of a and b and of the pair c it gets from below
Outer(a, b, c) ==
    CASE a.height = b.height -> <<insertRight(a, c[2]), insertLeft(b, c[1])>>
      [] a.height > b.height -> <<insertRight(a, c[1]), parentise(c[2], c[2].height + 1)>>
      [] a.height < b.height ->
            LET left == IF c[1].table = <<>> THEN 1 ELSE 2
            IN  <<parentise(c[3 - left], c[3 - left].height + 1), insertLeft(b, c[left])>>

\* Two nodes of one height that hold a and b; one may be empty.
RECURSIVE append_(_, _)
append_(a, b) ==
    LET Lower(two) == append_(two[1], two[2])
        Level(two) == Balanced(two[1], two[2])
        Around(c) == IF c = Thrown THEN Thrown ELSE Level(Outer(a, b, c))
    IN  CASE a.height = 0 /\ b.height = 0 -> <<a, b>>
          [] a.height = 1 /\ b.height = 1 -> Balanced(a, b)
          [] OTHER -> Around(Lower(Inner(a, b)))

\* append's last part: crunch the two nodes, or rebalance and pair them.  For
\* the second, calcToRemove is given the arguments themselves and takes the
\* elements of a leaf for tables, which throws.
Crunched(a, b) ==
    IF a.height = 0 THEN Leaf(a.table \o b.table)
    ELSE Node(a.height, a.table \o b.table,
              a.lengths \o [i \in 1..Len(b.lengths) |-> Plus(b.lengths[i], length(a))])

Crunches(c) == Len(c[1].table) + Len(c[2].table) <= M

Paired(two) == IF two = Thrown THEN Crash ELSE siblise(two[1], two[2])

Joined(a, b, c) ==
    CASE c = Thrown -> Crash
      [] c # Thrown /\ Crunches(c) /\ c[1].table = <<>> -> c[2]
      [] c # Thrown /\ Crunches(c) /\ c[1].table # <<>> /\ c[2].table = <<>> -> c[1]
      [] c # Thrown /\ Crunches(c) /\ c[1].table # <<>> /\ c[2].table # <<>> ->
            Crunched(c[1], c[2])
      [] ~Crunches(c) /\ c[1].height > 0 /\ 0 \in {a.height, b.height} -> Crash
      [] OTHER -> Paired(IF c[1].height > 0 /\ calcToRemove(a, b) > E
                         THEN shuffle(c[1], c[2], calcToRemove(a, b)) ELSE c)

append(a, b) ==
    IF a.table = <<>> THEN b
    ELSE IF b.table = <<>> THEN a
    ELSE Joined(a, b, append_(a, b))
=============================================================================
