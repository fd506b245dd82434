----------------------------- MODULE MCStepper -----------------------------
(* Views for TLC. *)
EXTENDS Stepper

\* One keyed child of each kind: a bare text, a node whose tag changes with
\* the version, nested nodes, a tagged subtree with a handler.
Child(key, version) ==
    CASE key = "A" -> text(version)
      [] key = "B" -> node(version, <<>>, <<text("b")>>)
      [] key = "C" -> node("li", <<>>, <<node("b", <<>>, <<text("c")>>), text(version)>>)
      [] key = "D" -> map("tag", node("li", <<on("click", "default", <<version>>)>>, <<text("d")>>))

Keyed(keys, version) ==
    keyedNode("ul", <<>>, keys, [i \in DOMAIN keys |-> Child(keys[i], version)])

KeyLists ==
    UNION {[1..l -> {"A", "B", "C", "D"}] : l \in 0..3} \union
    {keys \in [1..4 -> {"A", "B", "C", "D"}] : IsInjective(keys)}

KeyedViews == {Keyed(keys, version) : keys \in KeyLists, version \in {"v", "w"}}

\* A page with one changing part between a text and a button: the indexes of
\* what follows depend on the descendants of the part.
Around(parts) ==
    {node("div", <<>>, <<text("head"), part,
                         node("button", <<on("click", "default", <<"go">>)>>, <<text(part.type)>>)>>)
        : part \in parts}

Input(facts) == node("input", facts, <<>>)

\* Every kind of fact, set, changed and removed, one joined with another.
FactViews == Around({
    Input(<<>>),
    Input(<<property("value", "v"), property("checked", "true")>>),
    Input(<<property("className", <<"one">>), property("value", "v"), property("className", <<"two">>)>>),
    Input(<<style(<<<<"color", "red">>, <<"width", "1">>>>), property("className", <<"one">>)>>),
    Input(<<style(<<<<"color", "blue">>>>), attribute("a", "1")>>),
    Input(<<attribute("a", "2"), attributeNS("xlink", "href", "1")>>),
    Input(<<on("input", "default", <<"in">>), attributeNS("xlink", "href", "2")>>),
    Input(<<mapProperty("wrap", on("input", "default", <<"in">>)),
            mapProperty("wrap", attribute("a", "1"))>>),
    Input(<<on("input", "stop", <<"in">>), property("namespace", "svg")>>)})

Button(msg) == node("button", <<on("click", "default", <<msg>>)>>, <<text("b")>>)

Static == node("p", <<>>, <<text("static")>>)
LiftedStatic == {Static}

\* Every kind of node, with taggers and thunks around each other.
NodeViews == Around({
    text("one"), text("two"), Static,
    custom(<<>>, "m1", "markdown"), custom(<<attribute("a", "1")>>, "m2", "markdown"),
    custom(<<>>, "m1", "chart"),
    map("t", Button("x")), map("u", Button("y")), map("t", map("u", Button("x"))),
    map("u", map("t", node("p", <<>>, <<>>))),
    map("t", node("p", <<>>, <<Static, Button("z")>>)),
    lazy("f", "1", Button("x")), lazy("f", "2", node("p", <<>>, <<Button("x")>>)),
    lazy2("g", "1", "2", map("t", Button("y"))), lazy2("g", "1", "3", map("u", Static)),
    lazy3("k", "1", "2", "3", Button("y")),
    map("t", lazy("f", "1", Button("x"))), map("t", lazy("f", "2", node("p", <<>>, <<Button("x")>>)))})

\* With these the root itself is redrawn.
PageViews == FactViews \union NodeViews \union {text("bye"), map("t", Button("bye"))}

\* One model after another of each kind of page: two more, so that one may
\* come while another waits for its frame, where the views are few enough.
MCPrograms == {[views |-> PageViews, bound |-> 2], [views |-> KeyedViews, bound |-> 1]}

=============================================================================
