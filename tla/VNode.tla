------------------------------- MODULE VNode -------------------------------
(***************************************************************************)
(* Virtual DOM nodes and their difference                                  *)
(* (virtual-dom/2.0.4/src/Native/VirtualDom.js, lines 1 to 1082).          *)
(*                                                                         *)
(* The facts of a node are one function from pairs <<category, name>>; the *)
(* code keeps the categories STYLE, EVENT, ATTR and ATTR_NS as objects     *)
(* inside the facts, and "PROP" here are the facts outside them.  A value  *)
(* is a string; an event's is <<options, decoder>>, a namespaced           *)
(* attribute's <<namespace, value>>.  A decoder is the sequence of         *)
(* functions mapped over it.                                               *)
(*                                                                         *)
(* Elm functions are pure, so a thunk carries the node its call gives.     *)
(* diffHelp gives the patches the code pushes.  An entry of the changes of *)
(* a keyed diff is named by its key, <<k, n>> being k with n POSTFIXes.    *)
(***************************************************************************)
EXTENDS Integers, Sequences, SequencesExt

CONSTANT
    Lifted    \* the nodes compiled code allocates once: equal means identical

Undefined == "undefined"
None == [tag |-> "none"]

-----------------------------------------------------------------------------
(* Facts *)

style(pairs) == [key |-> "STYLE", value |-> pairs]
property(key, value) == [key |-> "PROP", realKey |-> key, value |-> value]
attribute(key, value) == [key |-> "ATTR", realKey |-> key, value |-> value]
attributeNS(ns, key, value) ==
    [key |-> "ATTR_NS", realKey |-> key, value |-> <<ns, value>>]
on(name, options, decoder) ==
    [key |-> "EVENT", realKey |-> name, value |-> <<options, decoder>>]

\* Options with the same fields are the same; decoders are compared by
\* structure.
equalEvents(a, b) == a[1] = b[1] /\ a[2] = b[2]

mapProperty(func, fact) ==
    IF fact.key # "EVENT" THEN fact
    ELSE on(fact.realKey, fact.value[1], Append(fact.value[2], func))

Set(facts, key, value) ==
    [k \in DOMAIN facts \union {key} |-> IF k = key THEN value ELSE facts[k]]

\* The last value of a name wins, but class names are joined: a class value
\* is a sequence of names.
OrganizeFact(facts, entry) ==
    IF entry.key = "STYLE"
    THEN FoldLeft(LAMBDA f, pair : Set(f, <<"STYLE", pair[1]>>, pair[2]), facts, entry.value)
    ELSE LET key == <<entry.key, entry.realKey>> IN
         IF key = <<"PROP", "className">> /\ key \in DOMAIN facts
         THEN Set(facts, key, facts[key] \o entry.value)
         ELSE Set(facts, key, entry.value)

IsNamespace(entry) == entry.key = "PROP" /\ entry.realKey = "namespace"

organizeFacts(factList) ==
    LET named == SelectSeq(factList, IsNamespace)
    IN [facts |-> FoldLeft(OrganizeFact, <<>>, SelectSeq(factList, LAMBDA e : ~IsNamespace(e))),
        namespace |-> IF named = <<>> THEN Undefined ELSE Last(named).value]

-----------------------------------------------------------------------------
(* Nodes *)

descendantsCount(v) ==
    IF v.type \in {"node", "keyed-node", "tagger"} THEN v.descendantsCount ELSE 0

Descendants(kids) ==
    FoldLeft(LAMBDA n, kid : n + descendantsCount(kid), Len(kids), kids)

text(string) == [type |-> "text", text |-> string]

NodeHelp(type, tag, factList, keys, kids) ==
    LET organized == organizeFacts(factList) IN
    [type |-> type, tag |-> tag, namespace |-> organized.namespace,
     facts |-> organized.facts, children |-> kids, keys |-> keys,
     descendantsCount |-> Descendants(kids)]

node(tag, factList, kids) == NodeHelp("node", tag, factList, <<>>, kids)
keyedNode(tag, factList, keys, kids) == NodeHelp("keyed-node", tag, factList, keys, kids)

custom(factList, model, impl) ==
    [type |-> "custom", facts |-> organizeFacts(factList).facts, model |-> model, impl |-> impl]

map(tagger, sub) ==
    [type |-> "tagger", tagger |-> tagger, node |-> sub,
     descendantsCount |-> 1 + descendantsCount(sub)]

thunk(func, args, result) ==
    [type |-> "thunk", func |-> func, args |-> args, node |-> result]

lazy(fn, a, result) == thunk(fn, <<a>>, result)
lazy2(fn, a, b, result) == thunk(fn, <<a, b>>, result)
lazy3(fn, a, b, c, result) == thunk(fn, <<a, b, c>>, result)

\* The taggers of nested tagger nodes, outermost first, and what they wrap.
RECURSIVE Taggers(_)
Taggers(v) == IF v.type = "tagger" THEN <<v.tagger>> \o Taggers(v.node) ELSE <<>>

RECURSIVE Untagged(_)
Untagged(v) == IF v.type = "tagger" THEN Untagged(v.node) ELSE v

-----------------------------------------------------------------------------
(* Differences *)

\* domNode and eventNode are filled in by addDomNodes.
makePatch(type, index, data) ==
    [type |-> type, index |-> index, data |-> data, domNode |-> 0, eventNode |-> 0]

\* The non-string properties of the models are the Booleans.
IsString(value) == value \notin {"true", "false", "null"}

Removed(key, value) ==
    CASE key[1] = "PROP" /\ key[2] = "className" -> <<>>
      [] key[1] = "PROP" /\ key[2] # "className" -> IF IsString(value) THEN "" ELSE "null"
      [] key[1] = "STYLE" -> ""
      [] key[1] = "ATTR" -> Undefined
      [] key[1] = "EVENT" -> <<Undefined, <<>>>>
      [] key[1] = "ATTR_NS" -> <<value[1], Undefined>>

\* A property named value is always written again: the user may have changed
\* it.  The object that holds a namespaced attribute is always a new one.
Unchanged(key, a, b) ==
    IF key[1] = "EVENT" THEN equalEvents(a, b)
    ELSE a = b /\ key[2] # "value" /\ key[1] # "ATTR_NS"

diffFacts(a, b) ==
    LET removed == DOMAIN a \ DOMAIN b
        written == {k \in DOMAIN b : k \notin DOMAIN a \/ ~Unchanged(k, a[k], b[k])}
    IN [key \in removed \union written |->
            IF key \in removed THEN Removed(key, a[key]) ELSE b[key]]

PatchIf(condition, type, index, data) ==
    IF condition THEN <<makePatch(type, index, data)>> ELSE <<>>

\* External: a custom node's own diff and patch; its patch is the new model.
CustomDiff(a, b, index) == PatchIf(a.model # b.model, "p-custom", index, b.model)

RECURSIVE diffHelp(_, _, _)
RECURSIVE diffKeyed(_, _, _)

\* Every child starts one past the descendants of the children before it.
ChildIndex(kids, i, rootIndex) ==
    rootIndex + i + FoldLeft(LAMBDA n, kid : n + descendantsCount(kid), 0, SubSeq(kids, 1, i - 1))

diffChildren(a, b, rootIndex) ==
    LET aLen == Len(a.children)
        bLen == Len(b.children)
    IN PatchIf(aLen > bLen, "p-remove-last", rootIndex, aLen - bLen)
       \o PatchIf(aLen < bLen, "p-append", rootIndex, SubSeq(b.children, aLen + 1, bLen))
       \o FlattenSeq([i \in 1..Min({aLen, bLen}) |->
              diffHelp(a.children[i], b.children[i], ChildIndex(a.children, i, rootIndex))])

\* The taggers of a and b differ in number, or one by one; whatever is below
\* them is at the next index, however many they are.
diffTaggers(a, b, index) ==
    LET aTaggers == Taggers(a)
        bTaggers == Taggers(b)
    IN IF Len(aTaggers) # Len(bTaggers)
       THEN <<makePatch("p-redraw", index, b)>>
       ELSE PatchIf(aTaggers # bTaggers, "p-tagger", index, bTaggers)
            \o diffHelp(Untagged(a), Untagged(b), index + 1)

diffThunk(a, b, index) ==
    IF a.func = b.func /\ a.args = b.args THEN <<>>
    ELSE LET Below(subPatches) == PatchIf(subPatches # <<>>, "p-thunk", index, subPatches)
         IN Below(diffHelp(a.node, b.node, 0))

Redrawn(a, b) ==
    \/ a.type # b.type
    \/ a.type \in {"node", "keyed-node"} /\ (a.tag # b.tag \/ a.namespace # b.namespace)
    \/ a.type = "custom" /\ a.impl # b.impl

diffHelp(a, b, index) ==
    IF a = b /\ a \in Lifted THEN <<>>
    ELSE IF Redrawn(a, b) THEN <<makePatch("p-redraw", index, b)>>
    ELSE CASE b.type = "thunk" -> diffThunk(a, b, index)
           [] b.type = "tagger" -> diffTaggers(a, b, index)
           [] b.type = "text" -> PatchIf(a.text # b.text, "p-text", index, b.text)
           [] OTHER ->
                LET Facts(factsDiff) == PatchIf(DOMAIN factsDiff # {}, "p-facts", index, factsDiff)
                IN Facts(diffFacts(a.facts, b.facts))
                   \o CASE b.type = "node" -> diffChildren(a, b, index)
                        [] b.type = "keyed-node" -> diffKeyed(a, b, index)
                        [] b.type = "custom" -> CustomDiff(a, b, index)

diff(a, b) == diffHelp(a, b, 0)

-----------------------------------------------------------------------------
(* Keyed differences.  The state of the walk: patches, the local patches;  *)
(* changes, the entries; inserts and endInserts, each an index and a key.  *)

Entry(tag, vnode, index, data) == [tag |-> tag, vnode |-> vnode, index |-> index, data |-> data]

\* data of a 'remove' entry is the place of its patch among the local ones.
\* An index of -1 is undefined: an insert at the end.
RECURSIVE insertNode(_, _, _, _)
\* Mutant of insertNode: does not look for a child that was removed.
insertNodeNew(s, key, vnode, bIndex) ==
    LET list == IF bIndex = -1 THEN "endInserts" ELSE "inserts"
        listed == [s EXCEPT ![list] = Append(@, [index |-> bIndex, key |-> key])]
    IN IF key \notin DOMAIN s.changes
       THEN [listed EXCEPT !.changes = Set(@, key, Entry("insert", vnode, bIndex, 0))]
       ELSE insertNode(s, <<key[1], key[2] + 1>>, vnode, bIndex)

insertNode(s, key, vnode, bIndex) ==
    LET entry == IF key \in DOMAIN s.changes THEN s.changes[key] ELSE None
        list == IF bIndex = -1 THEN "endInserts" ELSE "inserts"
        listed == [s EXCEPT ![list] = Append(@, [index |-> bIndex, key |-> key])]
    IN CASE entry.tag = "none" ->
              [listed EXCEPT !.changes = Set(@, key, Entry("insert", vnode, bIndex, 0))]
         [] entry.tag = "remove" ->
              [listed EXCEPT
                 !.changes[key] = Entry("move", entry.vnode, bIndex, entry.data),
                 !.patches[entry.data].data =
                    [key |-> key, patches |-> diffHelp(entry.vnode, vnode, entry.index)]]
         [] OTHER -> insertNode(s, <<key[1], key[2] + 1>>, vnode, bIndex)

RECURSIVE removeNode(_, _, _, _)
removeNode(s, key, vnode, index) ==
    LET entry == IF key \in DOMAIN s.changes THEN s.changes[key] ELSE None
    IN CASE entry.tag = "none" ->
              [s EXCEPT
                 !.patches = Append(@, makePatch("p-remove", index, [key |-> <<"", 0>>, patches |-> <<>>])),
                 !.changes = Set(@, key, Entry("remove", vnode, index, Len(s.patches) + 1))]
         [] entry.tag = "insert" ->
              [s EXCEPT
                 !.changes[key].tag = "move",
                 !.patches = Append(@, makePatch("p-remove", index,
                     [key |-> key, patches |-> diffHelp(vnode, entry.vnode, index)]))]
         [] OTHER -> removeNode(s, <<key[1], key[2] + 1>>, vnode, index)

Diffed(s, aNode, bNode, index) == [s EXCEPT !.patches = @ \o diffHelp(aNode, bNode, index)]

\* One step of the loop that looks one child ahead; ai and bi are the code's
\* aIndex and bIndex, from 0.  It stops where no case applies.
RECURSIVE LookAhead(_, _, _, _, _, _)
LookAhead(s, a, b, ai, bi, index) ==
    LET aKey == a.keys[ai + 1]              aNextKey == a.keys[ai + 2]
        bKey == b.keys[bi + 1]              bNextKey == b.keys[bi + 2]
        aNode == a.children[ai + 1]         aNextNode == a.children[ai + 2]
        bNode == b.children[bi + 1]         bNextNode == b.children[bi + 2]
        aLook == ai + 1 < Len(a.keys)       bLook == bi + 1 < Len(b.keys)
        next == index + 1 + descendantsCount(aNode)
        after == next + 1 + descendantsCount(aNextNode)
        oldMatch == aLook /\ bKey = aNextKey
        newMatch == bLook /\ aKey = bNextKey
    IN CASE ai >= Len(a.keys) \/ bi >= Len(b.keys) -> [s |-> s, a |-> ai, b |-> bi, index |-> index]
         [] OTHER ->
       CASE aKey = bKey ->
              LookAhead(Diffed(s, aNode, bNode, index + 1), a, b, ai + 1, bi + 1, next)
         [] aKey # bKey /\ oldMatch /\ newMatch ->
              LookAhead(removeNode(insertNode(Diffed(s, aNode, bNextNode, index + 1), <<aKey, 0>>, bNode, bi),
                                   <<aKey, 0>>, aNextNode, next + 1),
                        a, b, ai + 2, bi + 2, after)
         [] aKey # bKey /\ newMatch /\ ~oldMatch ->
              LookAhead(Diffed(insertNode(s, <<bKey, 0>>, bNode, bi), aNode, bNextNode, index + 1),
                        a, b, ai + 1, bi + 2, next)
         [] aKey # bKey /\ oldMatch /\ ~newMatch ->
              LookAhead(Diffed(removeNode(s, <<aKey, 0>>, aNode, index + 1), aNextNode, bNode, next + 1),
                        a, b, ai + 2, bi + 1, after)
         [] aKey # bKey /\ ~oldMatch /\ ~newMatch /\ aLook /\ bLook /\ aNextKey = bNextKey ->
              LookAhead(Diffed(insertNode(removeNode(s, <<aKey, 0>>, aNode, index + 1), <<bKey, 0>>, bNode, bi),
                               aNextNode, bNextNode, next + 1),
                        a, b, ai + 2, bi + 2, after)
         [] OTHER -> [s |-> s, a |-> ai, b |-> bi, index |-> index]

\* The children the loop left are removed from a and inserted at the end.
RECURSIVE RemoveRest(_, _, _, _)
RemoveRest(s, a, ai, index) ==
    IF ai >= Len(a.keys) THEN s
    ELSE RemoveRest(removeNode(s, <<a.keys[ai + 1], 0>>, a.children[ai + 1], index + 1),
                    a, ai + 1, index + 1 + descendantsCount(a.children[ai + 1]))

diffKeyed(a, b, rootIndex) ==
    LET start == [patches |-> <<>>, changes |-> <<>>, inserts |-> <<>>, endInserts |-> <<>>]
        InsertRest(s, bi) ==
            FoldLeft(LAMBDA t, i : insertNode(t, <<b.keys[i], 0>>, b.children[i], -1),
                     s, [i \in 1..(Len(b.keys) - bi) |-> bi + i])
        Rest(ahead) == InsertRest(RemoveRest(ahead.s, a, ahead.a, ahead.index), ahead.b)
        Reorder(end) ==
            PatchIf(end.patches # <<>> \/ end.inserts # <<>> \/ end.endInserts # <<>>,
                    "p-reorder", rootIndex, end)
    IN Reorder(Rest(LookAhead(start, a, b, 0, 0, rootIndex)))

=============================================================================
