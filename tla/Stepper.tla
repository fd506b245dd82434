------------------------------ MODULE Stepper ------------------------------
(***************************************************************************)
(* A program's page: normalRenderer, and the page that makeStepper draws   *)
(* (virtual-dom/2.0.4/src/Native/VirtualDom.js, lines 1521 to 1585).       *)
(*                                                                         *)
(* Module Frames says when a frame draws which model.  A user may type     *)
(* into an element that has a value in between.                            *)
(***************************************************************************)
EXTENDS VDom, Frames

VARIABLES
    h,            \* the page
    domNode,      \* the root of the program on it
    typed         \* the user changed a value since the last draw

pageVars == <<h, domNode, typed>>
vars == <<frameVars, pageVars>>

TypeOK ==
    /\ {currNode.type, nextModel.type} \subseteq
          {"text", "node", "keyed-node", "custom", "tagger", "thunk"}
    /\ Body \in DOMAIN h.dom /\ domNode \in DOMAIN h.dom
    /\ typed \in BOOLEAN

\* normalRenderer: draws the first model below the body.
normalRenderer(view) ==
    LET Page(r) == [h |-> appendChild(r.h, Body, r.id), root |-> r.id]
    IN Page(render(NewPage, view, AppEventNode))

Init ==
    /\ FramesInit
    /\ h = normalRenderer(currNode).h
    /\ domNode = normalRenderer(currNode).root
    /\ typed = FALSE

\* A frame with a model to draw patches the page from the node last drawn.
DrawPage ==
    /\ Draw
    /\ \E r \in {applyPatches(h, domNode, currNode, diff(currNode, nextModel), AppEventNode)} :
          /\ h' = Live(r.h, r.root)
          /\ domNode' = r.root
    /\ typed' = FALSE

updateIfNeeded == DrawPage \/ (Idle /\ UNCHANGED pageVars)

\* External: the user changes the value of an element that the view gives one.
Type(d) ==
    /\ <<"PROP", "value">> \in DOMAIN h.dom[d].facts
    /\ h.dom[d].facts[<<"PROP", "value">>] # ""
    /\ h' = [h EXCEPT !.dom[d].facts[<<"PROP", "value">>] = "typed"]
    /\ typed' = TRUE
    /\ UNCHANGED <<frameVars, domNode>>

Next ==
    \/ NewModel /\ UNCHANGED pageVars
    \/ updateIfNeeded
    \/ \E d \in Below(h, Body) : Type(d)

Spec == Init /\ [][Next]_vars /\ WF_state(Callback)

-----------------------------------------------------------------------------

\* What is below the body is what a fresh render of the node last drawn would
\* put there - tags, text, facts, and for every event the functions its
\* message goes through - unless the user typed since; and no patch ever
\* threw.  Draws go from one view to the next by diff, addDomNodes and
\* applyPatches only, on a root that is a node of the page (TypeOK).
PageAgrees ==
    /\ TypeOK /\ ~h.thrown
    /\ typed \/ Shown(h, Body).kids = <<Rendered(currNode)>>

\* diffHelp redraws a as b.
RECURSIVE IsRedrawn(_, _)
IsRedrawn(a, b) ==
    \/ Redrawn(a, b)
    \/ a.type = "thunk" /\ b.type = "thunk" /\ IsRedrawn(a.node, b.node)
    \/ /\ a.type = "tagger" /\ b.type = "tagger"
       /\ Len(Taggers(a)) # Len(Taggers(b)) \/ IsRedrawn(Untagged(a), Untagged(b))

\* A child of a keyed node whose key stays keeps its DOM node, wherever the
\* key moves to, and with it focus, scroll position and whatever else the
\* browser keeps there; unless its own tag changed, or its key is not unique.
KeepsNodes ==
    [][ /\ currNode.type = "keyed-node" /\ currNode'.type = "keyed-node"
        /\ ~Redrawn(currNode, currNode')
        => \A i \in DOMAIN currNode.keys, j \in DOMAIN currNode'.keys :
             /\ currNode.keys[i] = currNode'.keys[j]
             /\ IsInjective(currNode.keys) /\ IsInjective(currNode'.keys)
             /\ ~IsRedrawn(currNode.children[i], currNode'.children[j])
             => h'.dom[domNode'].kids[j] = h.dom[domNode].kids[i] ]_vars

=============================================================================
