------------------------------- MODULE Viewer -------------------------------
(***************************************************************************)
(* kubecast's user interface (ui/src): the program of module CastList over *)
(* the renderer of module Stepper, the page of index.html and a user.      *)
(***************************************************************************)
EXTENDS Stepper, CastList

VARIABLE
    sel        \* the option the select shows, 0 if it is empty

viewerVars == <<vars, listVars, sel>>

Unquoted(word) ==
    IF \E i \in File : word = toString(Files[i])
    THEN Files[CHOOSE i \in File : word = toString(Files[i])]
    ELSE word

-----------------------------------------------------------------------------
(* View.elm *)

class(name) == property("className", <<name>>)

castOption(cast, labels) ==
    node("option", <<property("value", toString(cast))>>, <<text(labels)>>)

\* List.map2 stops at the end of the shorter list.
map2(a, b) == [i \in DOMAIN a \intersect DOMAIN b |-> castOption(a[i], b[i])]

Container == "asciinema-player-container"

Page(m, player) ==
    node("div", <<class("container")>>, <<
        node("div", <<class("row")>>, <<
            node("h2", <<class("text-center")>>, <<text("Terminal Sessions")>>),
            node("select", <<on("input", "default", <<"DisplayCast">>)>>, map2(m.casts, m.labels))>>),
        node("div", <<class("row")>>, <<
            node("div", <<property("id", Container), class("container")>>, player)>>)>>)

\* Mutant of view: names the cast where the player is put.
viewNames(m) == Page(m, <<text(m.cast)>>)

view(m) == Page(m, <<>>)

\* The renderer's first view; ListCasts and DisplayCast give it the others.
InitialProgram == {[views |-> {view(initialModel)}, bound |-> 0]}

\* The main process: update, and the renderer's stepper in between.
Update ==
    /\ update
    /\ stepper(view(model'))
    /\ UNCHANGED <<models, pageVars, sel>>

-----------------------------------------------------------------------------
(* The page *)

Tagged(tag) == {d \in DOMAIN h.dom : h.dom[d].tag = tag}
IsContainer(d) == <<"PROP", "id">> \in DOMAIN h.dom[d].facts /\ h.dom[d].facts[<<"PROP", "id">>] = Container
Select == CHOOSE d \in Tagged("select") : TRUE
Options == h.dom[Select].kids
Value(d) == h.dom[d].facts[<<"PROP", "value">>]

\* The function index.html subscribes: the container gets a new player.  The
\* quotes of the word become those of the attribute.
displayCast ==
    /\ Display
    /\ LET made == AddNode(h, NewDomNode(Foreign, Undefined, Unquoted(Head(out))))
           container == CHOOSE d \in DOMAIN h.dom : IsContainer(d)
       IN h' = Live([made.h EXCEPT !.dom[container].kids = <<made.id>>], domNode)
    /\ UNCHANGED <<frameVars, domNode, typed, sel>>

\* A frame.  External: a select that shows no option shows its first one.
Frame ==
    /\ updateIfNeeded
    /\ sel' = IF sel \in ToSet(Options') THEN sel
              ELSE IF Options' = <<>> THEN 0 ELSE Options'[1]
    /\ UNCHANGED listVars

\* External: the user picks another option, and the handler of the select
\* sends the message it has for the option's value.
Pick(d) ==
    /\ d # sel
    /\ sel' = d
    /\ Choose(eventHandler(h, Select, "input").message[1], Value(d))
    /\ UNCHANGED vars

ViewerInit == Init /\ ListInit /\ sel = 0

ViewerNext ==
    \/ Update
    \/ displayCast
    \/ Frame
    \/ \E i \in DOMAIN Options : Pick(Options[i])
    \/ /\ Hash \/ (\E i \in File : Session(i)) \/ listHandler
       /\ UNCHANGED <<vars, sel>>

\* A step of Frame and of Update, told by what it does.
FrameCallback == Callback /\ UNCHANGED mail
Handled == mail # <<>> /\ Len(out) < MaxOut /\ mail' = Tail(mail)

\* Processes with mail run, the browser calls frames back, and listHandler
\* writes its list again and again while the connection lasts.
ViewerSpec ==
    /\ ViewerInit /\ [][ViewerNext]_viewerVars
    /\ WF_state(FrameCallback) /\ WF_mail(Handled) /\ WF_out(out # <<>> /\ out' = Tail(out))
    /\ WF_mail(listHandler)

-----------------------------------------------------------------------------

Drawn == currNode = view(model)
Players == Tagged(Foreign)
Playing == {h.dom[d].text : d \in Players}

ViewerTypeOK ==
    /\ Cardinality(Tagged("select")) = 1
    /\ Cardinality({d \in DOMAIN h.dom : IsContainer(d)}) = 1
    /\ sel \in {0} \union ToSet(Options)

\* The page is what the program's views ask for (PageAgrees), one select with
\* an option for each recording (ViewerTypeOK), and every option on it shows
\* the labels of the recording it names, or none, whatever was drawn before;
\* the player is the one that displayCast was asked for last: no draw touches
\* it.
OffersPaired ==
    /\ PageAgrees /\ ViewerTypeOK
    /\ \A k \in DOMAIN Options : \E i \in File :
         /\ Value(Options[k]) = toString(Files[i])
         /\ h.dom[h.dom[Options[k]].kids[1]].text \in {Labels[i], ""}
    /\ played # "" => Playing = {Unquoted(played)}

\* As long as every list began with the one before it, the select shows the
\* recording that plays, whatever was picked while a list or a frame was on
\* its way.  update keeps the cast and not the position: after a recording
\* that sorts before it, the select shows another.
ShowsPlaying ==
    grew /\ Drawn /\ mail = <<>> /\ out = <<>> /\ sel # 0
      => Playing = {Unquoted(Value(sel))}

\* A recording with labels is eventually offered to the user.
LabelledIsOffered ==
    \A i \in File : dir[i] = "labelled"
      ~> \E k \in DOMAIN Options : Value(Options[k]) = toString(Files[i])

=============================================================================
