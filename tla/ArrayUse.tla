------------------------------ MODULE ArrayUse ------------------------------
(***************************************************************************)
(* Programs over Elm arrays: arrays that are built, changed, cut and       *)
(* joined by the operations of Array.elm, beside the sequences they stand  *)
(* for.                                                                    *)
(*                                                                         *)
(* The program works on one array and may put it aside for another, to     *)
(* join the two later.  append throws for some trees and gives a wrong     *)
(* array for others: Faults names the places of the code where that comes  *)
(* from.  It also writes into its arguments.  So a program goes on with    *)
(* the result alone, and only of an append without fault.  Arrays with     *)
(* more than one level of nodes (more than M * M elements) are not cut:    *)
(* slice does not keep their children of one height.                       *)
(***************************************************************************)
EXTENDS ElmArrayCut

CONSTANT Plans    \* bounds of a program, see Plan

VARIABLES
    arr,       \* the array the program works on: its tree and its elements
    kept,      \* the one it has put aside
    joined,    \* the last append: its result, the elements that should have,
               \* and its faults
    ops,       \* how many edits, cuts and joins there were
    plan       \* the bounds of this program

vars == <<arr, kept, joined, ops, plan>>

\* What a program may do at most: the lengths of new arrays, how long an array
\* may get by pushing, be when it is cut, or get at all, how many it puts
\* aside (0 or 1), and how many replacements and maps, slices and appends
\* there are, each and together.
Plan == [sizes : SUBSET Nat, push : Nat, cut : Nat, len : Nat, kept : {0, 1},
         edits : Nat, cuts : Nat, joins : Nat, ops : Nat]

ASSUME PlansAssumption == Plans \subseteq Plan

Array(tree, items) == [tree |-> tree, items |-> items]
None == Array(Empty, <<>>)
NotJoined == [tree |-> Empty, items |-> <<>>, faults |-> {}]

Init == arr = None /\ kept = None /\ joined = NotJoined
        /\ ops = [edits |-> 0, cuts |-> 0, joins |-> 0]
        /\ plan \in Plans

\* The elements of each new array are its own: block 0 for the first, 1 for
\* the one that is built after that is put aside, then one for each append.
\* 0 is what push and set put in.
Block(b, n) == [i \in 1..n |-> b * plan.len + i]
Top == plan.len * (plan.joins + 2)
Mirrored(x) == Top - x

-----------------------------------------------------------------------------
(* Building and changing *)

\* A new array, from a list, a JavaScript array or a function.
Start(tree, items) ==
    /\ arr = None
    /\ arr' = Array(tree, items)
    /\ UNCHANGED <<kept, joined, ops, plan>>

FromList(s) == Start(fromList(s), s)
FromJSArray(s) == Start(fromJSArray(s), s)
Initialize(s) == Start(initialize(Len(s), [i \in 0..(Len(s) - 1) |-> s[i + 1]]), s)

Push ==
    /\ Len(arr.items) < plan.push
    /\ arr' = Array(push(0, arr.tree), Append(arr.items, 0))
    /\ UNCHANGED <<kept, joined, ops, plan>>

\* The program puts its array aside for another.
Keep ==
    /\ plan.kept > 0 /\ arr # None /\ kept = None
    /\ kept' = arr
    /\ arr' = None
    /\ UNCHANGED <<joined, ops, plan>>

Count(kind) ==
    /\ ops[kind] < plan[kind] /\ ops.edits + ops.cuts + ops.joins < plan.ops
    /\ ops' = [ops EXCEPT ![kind] = @ + 1]
    /\ UNCHANGED plan

Change(tree, items) == arr' = Array(tree, items) /\ UNCHANGED <<kept, joined>>

Edit(tree, items) == Count("edits") /\ Change(tree, items)

Set(i) ==
    Edit(set(i, 0, arr.tree),
         IF i \in 0..(Len(arr.items) - 1) THEN [arr.items EXCEPT ![i + 1] = 0] ELSE arr.items)

Map ==
    Edit(map([x \in 0..Top |-> Mirrored(x)], arr.tree),
         [i \in 1..Len(arr.items) |-> Mirrored(arr.items[i])])

\* with a function that depends on the index
IndexedMap ==
    LET F(i, x) == IF i % 2 = 0 THEN x ELSE Mirrored(x)
    IN  Edit(indexedMap([i \in 0..plan.len, x \in 0..Top |-> F(i, x)], arr.tree),
             [i \in 1..Len(arr.items) |-> F(i - 1, arr.items[i])])

Cut(from, to, items) ==
    /\ arr.tree.height <= 1 /\ Len(arr.items) <= plan.cut
    /\ Count("cuts")
    /\ Change(slice(from, to, arr.tree), items)

Slice(from, to) ==
    /\ from < to /\ to <= Len(arr.items)
    /\ Cut(from, to, SubSeq(arr.items, from + 1, to))

\* slice 0 -1, Array.elm's way to take the last element off
Pop == Len(arr.items) > 1 /\ Cut(0, -1, Front(arr.items))

-----------------------------------------------------------------------------
(* Joining *)

\* The pairs of nodes that append_ weighs, from the edges' lower end up.
RECURSIVE Levels(_, _)
Levels(a, b) ==
    LET Lower(two) == Levels(two[1], two[2])
        Below(two) == append_(two[1], two[2])
    IN  CASE a.height = 0 /\ b.height = 0 -> {}
          [] a.height = 1 /\ b.height = 1 -> {<<a, b>>}
          [] OTHER -> Lower(Inner(a, b)) \cup {Outer(a, b, Below(Inner(a, b)))}

\* The calls of shuffle in append(a, b).
Shuffle(a, b, toRemove) == [a |-> a, b |-> b, toRemove |-> toRemove]
Shuffles(a, b) ==
    LET Weighed(two) == Shuffle(two[1], two[2], calcToRemove(two[1], two[2]))
        AtLast(c) == IF Crunches(c) \/ 0 \in {a.height, b.height} THEN {}
                     ELSE {Shuffle(c[1], c[2], calcToRemove(a, b))}
    IN  {s \in {Weighed(two) : two \in Levels(a, b)} \cup AtLast(append_(a, b)) :
            s.a.table # <<>> /\ s.b.table # <<>> /\ s.toRemove > E}

\* What goes wrong in append(a, b) without a throw:
\*   swapped   where the edges meet above the lowest nodes, the two halves go
\*             into each other's place (Array.js:572);
\*   emptied   shuffle put all into the first node, and the empty second one
\*             is made a child (Array.js:572, :581);
\*   copied    shuffle copies lengths of b into the first node (Array.js:723);
\*   saved     shuffle saves more than one slot in the second node, and adds
\*             the lengths of the first (Array.js:686).
Faults(a, b) ==
    {f \in {"swapped", "emptied", "copied", "saved"} :
        /\ a.table # <<>> /\ b.table # <<>>
        /\ \/ f = "swapped" /\ a.height > 1 /\ b.height > 1
           \/ /\ f = "emptied"
              /\ \E two \in Levels(a, b), side \in 1..2 :
                    two[side].height > 0 /\ \E n \in Range(two[side].table) : n.table = <<>>
           \/ /\ f = "copied"
              /\ \E s \in Shuffles(a, b) :
                    /\ Len(s.a.table) < M
                    /\ FirstOpen(s.a.table \o s.b.table) > Len(s.a.table) + 1
           \/ /\ f = "saved"
              /\ \E s \in Shuffles(a, b) :
                    Len(s.a.table) + Len(s.b.table) - s.toRemove > M + 1}

\* The program gives up both arguments.
Join(a, b) ==
    /\ Len(a.items) + Len(b.items) <= plan.len
    /\ joined' = [tree |-> append(a.tree, b.tree), items |-> a.items \o b.items,
                  faults |-> Faults(a.tree, b.tree)]
    /\ arr' = None
    /\ Count("joins")

\* append with a new array of s on either side, or with the one put aside
AppendTo(s) == Join(arr, Array(fromList(s), s)) /\ UNCHANGED kept
AppendFrom(s) == Join(Array(fromList(s), s), arr) /\ UNCHANGED kept
AppendKept == kept # None /\ Join(kept, arr) /\ kept' = None

Continue ==
    /\ joined # NotJoined /\ joined.tree # Crash /\ joined.faults = {}
    /\ arr' = Array(joined.tree, joined.items)
    /\ joined' = NotJoined
    /\ UNCHANGED <<kept, ops, plan>>

Next ==
    \/ /\ joined = NotJoined
       /\ \/ \E n \in plan.sizes : LET s == Block(IF kept = None THEN 0 ELSE 1, n)
                              IN  FromList(s) \/ FromJSArray(s) \/ Initialize(s)
          \/ Push
          \/ Keep
          \/ \E i \in -1..plan.len : Set(i)
          \/ Map
          \/ IndexedMap
          \/ \E from, to \in 0..plan.cut : Slice(from, to)
          \/ Pop
          \/ \E n \in plan.sizes : LET s == Block(ops.joins + 2, n) IN AppendTo(s) \/ AppendFrom(s)
          \/ AppendKept
    \/ Continue

Spec == Init /\ [][Next]_vars

-----------------------------------------------------------------------------
(* Properties *)

RECURSIVE WellFormedTree(_)
WellFormedTree(a) ==
    /\ Len(a.table) \in 1..M
    /\ a.height > 0 =>
          /\ a.lengths = Accumulate(a.table)
          /\ \A i \in 1..Len(a.table) :
                a.table[i].height = a.height - 1 /\ WellFormedTree(a.table[i])

\* After any sequence of operations, each by its own path through the tree,
\* the array is a balanced tree of tables of at most M entries whose lengths
\* are the accumulated sizes of the children, which every search by index
\* relies on (fromList, push, siblise, initialize, set, map, slice, and append
\* where it neither throws nor has one of the Faults).
WellFormed == arr = None \/ WellFormedTree(arr.tree)

\* The tree holds the elements: getSlot's guess by radix and forward search
\* finds by index what the traversals find, also in tables that are not full.
Holds(x) ==
    /\ length(x.tree) = Len(x.items)
    /\ \A i \in -1..Len(x.items) :
          get(i, x.tree) = IF i \in 0..(Len(x.items) - 1) THEN x.items[i + 1] ELSE Undefined
    /\ toList(x.tree) = x.items
    /\ toJSArray(x.tree) = x.items
    /\ foldlCons(<<>>, x.tree) = Reverse(x.items)
    /\ foldrCons(<<>>, x.tree) = x.items

\* Building, pushing, replacing, cutting, and joining by appends without
\* throw or fault leave an array that holds exactly the elements it should:
\* get, toList, toJSArray and the two folds agree with each other and with
\* the history.
IndexAgrees == Holds(arr)

SameElements(s, t) ==
    /\ Len(s) = Len(t)
    /\ \A x \in Range(t) :
          Len(SelectSeq(s, LAMBDA y : y = x)) = Len(SelectSeq(t, LAMBDA y : y = x))

\* An append that does not throw loses and repeats no element, even with the
\* Faults.  It keeps their order unless the edges meet above the lowest nodes,
\* and never does then if that is all (Array.js:572).  With no other fault,
\* whether append_ joins, shuffles or pairs the two trees, the result is well
\* formed, and get finds what the traversals find: the elements of both
\* arrays.  Copied lengths alone leave it too short (Array.js:723).
AppendAgrees ==
    LET result == toList(joined.tree)
    IN  joined # NotJoined /\ joined.tree # Crash =>
            /\ SameElements(result, joined.items)
            /\ "swapped" \notin joined.faults => result = joined.items
            /\ joined.faults = {"swapped"} => result # joined.items
            /\ joined.faults \subseteq {"swapped"} =>
                  WellFormedTree(joined.tree) /\ Holds(Array(joined.tree, result))
            /\ joined.faults = {"copied"} => length(joined.tree) < Len(joined.items)
=============================================================================
