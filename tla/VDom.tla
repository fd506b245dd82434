-------------------------------- MODULE VDom --------------------------------
(***************************************************************************)
(* The real DOM under Elm: render and applyPatches                         *)
(* (virtual-dom/2.0.4/src/Native/VirtualDom.js, lines 288 to 524 and 1084  *)
(* to 1385).                                                               *)
(*                                                                         *)
(* The heap h holds the DOM nodes (h.dom) and the event nodes (h.ev) by    *)
(* number, 0 being undefined.  An operation gives the new heap; its thrown *)
(* says that the code threw.  A DOM node's style, properties and           *)
(* attributes are its facts, what it listens to its handlers, childNodes   *)
(* its kids and elm_event_node_ref its ref.                                *)
(***************************************************************************)
EXTENDS VNode, FiniteSets

Body == 1
AppEventNode == 1

Fresh(used) == CHOOSE n \in 1..(Cardinality(used) + 1) :
                  n \notin used /\ \A k \in 1..(n - 1) : k \in used

AddNode(h, n) == LET id == Fresh(DOMAIN h.dom) IN
    [id |-> id, h |-> [h EXCEPT !.dom = Set(@, id, n)]]

AddEventNode(h, tagger, parent) == LET id == Fresh(DOMAIN h.ev) IN
    [id |-> id, h |-> [h EXCEPT !.ev = Set(@, id, [tagger |-> tagger, parent |-> parent])]]

Throw(h) == [h EXCEPT !.thrown = TRUE]

NewDomNode(tag, namespace, txt) ==
    [tag |-> tag, namespace |-> namespace, text |-> txt, facts |-> <<>>,
     handlers |-> <<>>, kids |-> <<>>, ref |-> 0]

Without(f, key) == [k \in DOMAIN f \ {key} |-> f[k]]

parentNode(h, d) ==
    LET parents == {p \in DOMAIN h.dom : \E i \in DOMAIN h.dom[p].kids : h.dom[p].kids[i] = d}
    IN IF parents = {} THEN 0 ELSE CHOOSE p \in parents : TRUE

Detach(h, d) ==
    LET p == parentNode(h, d) IN
    IF p = 0 THEN h
    ELSE [h EXCEPT !.dom[p].kids = SelectSeq(@, LAMBDA k : k # d)]

\* removeChild throws when there is no parent to call it on.
RemoveChild(h, d) == IF parentNode(h, d) = 0 THEN Throw(h) ELSE Detach(h, d)

appendChild(h, p, d) == [Detach(h, d) EXCEPT !.dom[p].kids = Append(@, d)]

\* p.insertBefore(d, p.childNodes[i]): past the end it appends.
insertBefore(h, p, d, i) ==
    [Detach(h, d) EXCEPT !.dom[p].kids = InsertAt(@, IF i > Len(@) THEN Len(@) + 1 ELSE i + 1, d)]

-----------------------------------------------------------------------------
(* Facts *)

\* A handler keeps the event node it was made with; only its info changes.
applyEvent(n, e, name, value) ==
    CASE value[1] = Undefined -> [n EXCEPT !.handlers = Without(@, name)]
      [] value[1] # Undefined /\ name \notin DOMAIN n.handlers ->
            [n EXCEPT !.handlers = Set(@, name, [info |-> value, eventNode |-> e])]
      [] value[1] # Undefined /\ name \in DOMAIN n.handlers ->
            [n EXCEPT !.handlers[name].info = value]

\* Attributes with a namespace are kept apart by it.
applyFact(n, e, key, value) ==
    CASE key[1] \in {"PROP", "STYLE"} -> [n EXCEPT !.facts = Set(@, key, value)]
      [] key[1] = "ATTR" ->
            [n EXCEPT !.facts = IF value = Undefined THEN Without(@, key) ELSE Set(@, key, value)]
      [] key[1] = "ATTR_NS" -> LET k == <<key[1], key[2], value[1]>> IN
            [n EXCEPT !.facts = IF value[2] = Undefined THEN Without(@, k) ELSE Set(@, k, value[2])]
      [] key[1] = "EVENT" -> applyEvent(n, e, key[2], value)

applyFacts(h, d, e, facts) ==
    [h EXCEPT !.dom[d] =
        FoldLeft(LAMBDA n, key : applyFact(n, e, key, facts[key]), @, SetToSeq(DOMAIN facts))]

\* The functions a message goes through when d's handler for an event runs:
\* those mapped over the decoder, then every tagger from the inside out.
RECURSIVE TaggedBy(_, _)
TaggedBy(h, e) == IF e = 0 THEN <<>> ELSE Reverse(h.ev[e].tagger) \o TaggedBy(h, h.ev[e].parent)

eventHandler(h, d, name) ==
    LET handler == h.dom[d].handlers[name]
    IN [options |-> handler.info[1], message |-> handler.info[2] \o TaggedBy(h, handler.eventNode)]

-----------------------------------------------------------------------------
(* Rendering *)

\* External: what a custom node's implementation draws for a model.
CustomDraws(vNode) == NewDomNode(vNode.impl, Undefined, vNode.model)

RECURSIVE render(_, _, _)

Element(h, n, vNode, e) ==
    LET Made(new) == [new EXCEPT !.h = applyFacts(@, new.id, e, vNode.facts)] IN Made(AddNode(h, n))

AppendRendered(h, d, vNodes, e) ==
    LET Appended(r) == appendChild(r.h, d, r.id)
    IN FoldLeft(LAMBDA g, v : Appended(render(g, v, e)), h, vNodes)

render(h, vNode, e) ==
    CASE vNode.type = "thunk" -> render(h, vNode.node, e)
      [] vNode.type = "tagger" ->
            LET Root(r, sub) == [r EXCEPT !.h.dom[r.id].ref = sub]
                Under(sub) == Root(render(sub.h, Untagged(vNode), sub.id), sub.id)
            IN Under(AddEventNode(h, Taggers(vNode), e))
      [] vNode.type = "text" -> AddNode(h, NewDomNode("#text", Undefined, vNode.text))
      [] vNode.type = "custom" -> Element(h, CustomDraws(vNode), vNode, e)
      [] vNode.type \in {"node", "keyed-node"} ->
            LET Filled(r) == [r EXCEPT !.h = AppendRendered(@, r.id, vNode.children, e)]
            IN Filled(Element(h, NewDomNode(vNode.tag, vNode.namespace, ""), vNode, e))

-----------------------------------------------------------------------------
(* Finding the DOM node of every patch.  The walk gives the patches and    *)
(* the number of the first one it did not reach; a throw reaches none.     *)

RECURSIVE addDomNodesHelp(_, _, _, _, _, _, _, _)
RECURSIVE AddChildren(_, _, _, _, _, _, _, _, _)

addDomNodes(h, d, vNode, patches, e) ==
    addDomNodesHelp(h, d, vNode, patches, 1, 0, descendantsCount(vNode), e).patches

Placed(h, d, vNode, patch, low, high, e) ==
    LET here == [patch EXCEPT !.domNode = d, !.eventNode = e]
    IN CASE patch.type = "p-thunk" ->
              [patch EXCEPT !.data = addDomNodes(h, d, vNode.node, @, e)]
         [] patch.type \in {"p-reorder", "p-remove"} /\ patch.data.patches # <<>> ->
              [here EXCEPT !.data.patches = addDomNodesHelp(h, d, vNode, @, 1, low, high, e).patches]
         [] OTHER -> here

PastHigh(patches, i, high) == i > Len(patches) \/ patches[i].index > high

\* Mutant of addDomNodesHelp: below a tagger, keeps the event node above it.
addDomNodesAbove(h, d, vNode, patches, i, low, high, e) ==
    IF patches[i].index = low
    THEN LET Here(placed) == IF PastHigh(placed, i + 1, high) THEN [patches |-> placed, i |-> i + 1]
                             ELSE addDomNodesHelp(h, d, vNode, placed, i + 1, low, high, e)
         IN Here([patches EXCEPT ![i] = Placed(h, d, vNode, @, low, high, e)])
    ELSE CASE d # 0 /\ vNode.type = "tagger" ->
                addDomNodesHelp(h, d, Untagged(vNode), patches, i, low + 1, high, e)
           [] d # 0 /\ vNode.type \in {"node", "keyed-node"} ->
                AddChildren(h, d, vNode, patches, i, 1, low, high, e)
           [] OTHER -> [patches |-> patches, i |-> Len(patches) + 1]

addDomNodesHelp(h, d, vNode, patches, i, low, high, e) ==
    IF patches[i].index = low
    THEN LET Here(placed) == IF PastHigh(placed, i + 1, high) THEN [patches |-> placed, i |-> i + 1]
                             ELSE addDomNodesHelp(h, d, vNode, placed, i + 1, low, high, e)
         IN Here([patches EXCEPT ![i] = Placed(h, d, vNode, @, low, high, e)])
    ELSE CASE d # 0 /\ vNode.type = "tagger" ->
                addDomNodesHelp(h, d, Untagged(vNode), patches, i, low + 1, high, h.dom[d].ref)
           [] d # 0 /\ vNode.type \in {"node", "keyed-node"} ->
                AddChildren(h, d, vNode, patches, i, 1, low, high, e)
           [] OTHER -> [patches |-> patches, i |-> Len(patches) + 1]

AddChildren(h, d, vNode, patches, i, j, low, high, e) ==
    IF j > Len(vNode.children) THEN [patches |-> patches, i |-> i]
    ELSE LET nextLow == low + 1 + descendantsCount(vNode.children[j])
             childNode == IF j <= Len(h.dom[d].kids) THEN h.dom[d].kids[j] ELSE 0
             After(r) == IF PastHigh(r.patches, r.i, high) THEN r
                         ELSE AddChildren(h, d, vNode, r.patches, r.i, j + 1, nextLow, high, e)
         IN IF low + 1 > patches[i].index \/ patches[i].index > nextLow
            THEN AddChildren(h, d, vNode, patches, i, j + 1, nextLow, high, e)
            ELSE After(addDomNodesHelp(h, childNode, vNode.children[j], patches, i, low + 1, nextLow, e))

-----------------------------------------------------------------------------
(* Applying patches.  root is the root after them; moved gives the node of *)
(* every entry that a 'p-remove' among them took out to be moved.          *)

RECURSIVE applyPatchesHelp(_, _, _, _)

applyPatchRedraw(h, d, vNode, e) ==
    LET p == parentNode(h, d)
        Referred(r) == IF r.h.dom[r.id].ref # 0 THEN r.h
                       ELSE [r.h EXCEPT !.dom[r.id].ref = h.dom[d].ref]
        Replaced(g, new) ==
            IF p = 0 THEN g
            ELSE [g EXCEPT !.dom[p].kids = [i \in DOMAIN @ |-> IF @[i] = d THEN new ELSE @[i]]]
        Drawn(r) == [node |-> r.id, moved |-> <<>>, h |-> Replaced(Referred(r), r.id)]
    IN Drawn(render(h, vNode, e))

applyPatchTagger(h, d, tagger, e) ==
    IF h.dom[d].ref # 0 THEN [h EXCEPT !.ev[h.dom[d].ref].tagger = tagger]
    ELSE LET made == AddEventNode(h, tagger, e) IN [made.h EXCEPT !.dom[d].ref = made.id]

\* A node that is inserted at the end has already left for the fragment.
applyPatchRemove(h, d, data, changes) ==
    LET key == data.key
        Moved(r) == [h |-> r.h, node |-> d, moved |-> Set(<<>>, key, r.root)]
    IN IF key = <<"", 0>> THEN [h |-> RemoveChild(h, d), node |-> d, moved |-> <<>>]
       ELSE Moved(applyPatchesHelp(IF changes[key].index = -1 THEN h ELSE RemoveChild(h, d),
                                   d, data.patches, <<>>))

\* The node an entry stands for: one that moves, or a new one.
EntryNode(h, entry, moving, e) ==
    IF entry.tag = "move" THEN [h |-> h, id |-> moving] ELSE render(h, entry.vnode, e)

applyPatchReorder(h, d, patch) ==
    LET data == patch.data
        Moving(key) == LET ps == {i \in DOMAIN data.patches :
                                     data.patches[i].type = "p-remove" /\ data.patches[i].data.key = key}
                       IN data.patches[CHOOSE i \in ps : TRUE].domNode
        Drawn(g, insert, moving) == EntryNode(g, data.changes[insert.key], moving, patch.eventNode)
        Appended(r, frag) == appendChild(r.h, frag, r.id)
        \* the fragment is filled first, the removals follow
        Ended(frag) ==
            [id |-> frag.id,
             r |-> applyPatchesHelp(
                      FoldLeft(LAMBDA g, insert :
                                  Appended(Drawn(g, insert, Moving(insert.key)), frag.id),
                               frag.h, data.endInserts),
                      d, data.patches, data.changes)]
        Put(r, root, index) == insertBefore(r.h, root, r.id, index)
        Inserted(removed) ==
            FoldLeft(LAMBDA g, insert :
                        Put(Drawn(g, insert, removed.moved[insert.key]), removed.root, insert.index),
                     removed.h, data.inserts)
        Whole(g, root, frag) ==
            [node |-> root, moved |-> <<>>,
             h |-> FoldLeft(LAMBDA f, k : appendChild(f, root, k), g, g.dom[frag].kids)]
        Rejoined(ended) == Whole(Inserted(ended.r), ended.r.root, ended.id)
    IN Rejoined(Ended(AddNode(h, NewDomNode("#fragment", Undefined, ""))))

applyPatch(h, patch, changes) ==
    LET d == patch.domNode
        On(g) == [h |-> g, node |-> d, moved |-> <<>>]
    IN CASE patch.type = "p-thunk" ->
              LET Thunk(r) == [h |-> r.h, node |-> r.root, moved |-> <<>>]
              IN Thunk(applyPatchesHelp(h, d, patch.data, <<>>))
         [] patch.type # "p-thunk" /\ d = 0 -> On(Throw(h))
         [] OTHER ->
       CASE patch.type = "p-redraw" -> applyPatchRedraw(h, d, patch.data, patch.eventNode)
         [] patch.type = "p-facts" -> On(applyFacts(h, d, patch.eventNode, patch.data))
         [] patch.type = "p-text" -> On([h EXCEPT !.dom[d].text = patch.data])
         [] patch.type = "p-custom" -> On([h EXCEPT !.dom[d].text = patch.data])
         [] patch.type = "p-tagger" -> On(applyPatchTagger(h, d, patch.data, patch.eventNode))
         [] patch.type = "p-remove-last" ->
              On([h EXCEPT !.dom[d].kids = SubSeq(@, 1, Len(@) - patch.data)])
         [] patch.type = "p-append" -> On(AppendRendered(h, d, patch.data, patch.eventNode))
         [] patch.type = "p-remove" -> applyPatchRemove(h, d, patch.data, changes)
         [] patch.type = "p-reorder" -> applyPatchReorder(h, d, patch)

applyPatchesHelp(h, root, patches, changes) ==
    LET Applied(s, patch, r) ==
            [h |-> r.h,
             root |-> IF patch.domNode = s.root THEN r.node ELSE s.root,
             moved |-> [k \in DOMAIN s.moved \union DOMAIN r.moved |->
                           IF k \in DOMAIN r.moved THEN r.moved[k] ELSE s.moved[k]]]
    IN FoldLeft(LAMBDA s, patch : Applied(s, patch, applyPatch(s.h, patch, changes)),
                [h |-> h, root |-> root, moved |-> <<>>], patches)

applyPatches(h, root, vNode, patches, e) ==
    IF patches = <<>> THEN [h |-> h, root |-> root, moved |-> <<>>]
    ELSE applyPatchesHelp(h, root, addDomNodes(h, root, vNode, patches, e), <<>>)

-----------------------------------------------------------------------------
(* What is on the page: a tree of what a reader and the program can tell   *)
(* apart, but for elements of the tag Foreign, which others put there.  A  *)
(* property or style that was emptied is one that was never set.           *)

Foreign == "asciinema-player"

Emptied(key, value) ==
    \/ key = <<"PROP", "className">> /\ value = <<>>
    \/ key # <<"PROP", "className">> /\ key[1] \in {"PROP", "STYLE"} /\ value \in {"", "null"}

RECURSIVE Shown(_, _)
Shown(h, d) ==
    LET n == h.dom[d] IN
    [tag |-> n.tag, namespace |-> n.namespace, text |-> n.text,
     facts |-> [k \in {key \in DOMAIN n.facts : ~Emptied(key, n.facts[key])} |-> n.facts[k]],
     handlers |-> [name \in DOMAIN n.handlers |-> eventHandler(h, d, name)],
     kids |-> LET own == SelectSeq(n.kids, LAMBDA k : h.dom[k].tag # Foreign)
              IN [i \in DOMAIN own |-> Shown(h, own[i])]]

RECURSIVE Below(_, _)
Below(h, d) == {d} \union UNION {Below(h, h.dom[d].kids[i]) : i \in DOMAIN h.dom[d].kids}

RECURSIVE Parents(_, _)
Parents(h, e) == IF e = 0 THEN {} ELSE {e} \union Parents(h, h.ev[e].parent)

\* What can still be reached from the page and from the program's root.
Live(h, root) ==
    LET doms == Below(h, Body) \union Below(h, root)
        refs == UNION {{h.dom[d].ref} \union
                       {h.dom[d].handlers[k].eventNode : k \in DOMAIN h.dom[d].handlers} : d \in doms}
        evs == Parents(h, AppEventNode) \union UNION {Parents(h, e) : e \in refs}
    IN [h EXCEPT !.dom = [d \in doms |-> h.dom[d]], !.ev = [e \in evs |-> h.ev[e]]]

\* A page with an empty body and the event node of the program.
NewPage == [dom |-> <<NewDomNode("body", Undefined, "")>>,
            ev |-> <<[tagger |-> <<"app">>, parent |-> 0]>>, thrown |-> FALSE]

Rendered(vNode) ==
    LET Page(r) == Shown(r.h, r.id) IN Page(render(NewPage, vNode, AppEventNode))

=============================================================================
