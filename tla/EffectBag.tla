----------------------------- MODULE EffectBag -----------------------------
(***************************************************************************)
(* Commands and subscriptions as bags, and their way to the managers       *)
(* (core/5.1.1/src/Native/Platform.js, lines 244 to 358).                  *)
(*                                                                         *)
(* An effect is the value of a leaf with the functions that will be        *)
(* applied to what comes of it, the first one first.                       *)
(***************************************************************************)
EXTENDS Integers, Sequences, SequencesExt

CONSTANTS
    Managers,    \* the homes of effects
    Ports        \* the managers among them that are outgoing ports

leaf(home, value) == [type |-> "leaf", home |-> home, value |-> value]
batch(list) == [type |-> "node", branches |-> list]
map(tagger, bag) == [type |-> "map", tagger |-> tagger, tree |-> bag]

NoEffects == [cmds |-> <<>>, subs |-> <<>>]

\* taggers lists the mapped functions from the inside out.  A command of an
\* outgoing port makes no message, so its map drops them (outgoingPortMap);
\* others, incomingPortMap among them, apply them.
toEffect(isCmd, home, taggers, value) ==
    [value |-> value, taggers |-> IF isCmd /\ home \in Ports THEN <<>> ELSE taggers]

\* Lists are built from the front.
insert(isCmd, newEffect, effects) ==
    IF isCmd THEN [effects EXCEPT !.cmds = <<newEffect>> \o @]
    ELSE [effects EXCEPT !.subs = <<newEffect>> \o @]

RECURSIVE gatherEffects(_, _, _, _)
gatherEffects(isCmd, bag, effectsDict, taggers) ==
    CASE bag.type = "leaf" ->
           [effectsDict EXCEPT ![bag.home] = insert(isCmd, toEffect(isCmd, bag.home, taggers, bag.value), @)]
      [] bag.type = "node" ->
           FoldLeft(LAMBDA dict, b : gatherEffects(isCmd, b, dict, taggers), effectsDict, bag.branches)
      [] bag.type = "map" -> gatherEffects(isCmd, bag.tree, effectsDict, <<bag.tagger>> \o taggers)

\* What dispatchEffects sends to each manager, one without effects included.
EffectsOf(cmdBag, subBag) ==
    gatherEffects(FALSE, subBag,
        gatherEffects(TRUE, cmdBag, [home \in Managers |-> NoEffects], <<>>), <<>>)

-----------------------------------------------------------------------------
(* For reference: the leaves of a bag from left to right, each under the   *)
(* functions mapped over it, the outermost last.                           *)

RECURSIVE Leaves(_)
Leaves(bag) ==
    CASE bag.type = "leaf" -> <<[home |-> bag.home, value |-> bag.value, taggers |-> <<>>]>>
      [] bag.type = "node" -> FlattenSeq([i \in DOMAIN bag.branches |-> Leaves(bag.branches[i])])
      [] bag.type = "map" ->
           LET inside == Leaves(bag.tree)
           IN [i \in DOMAIN inside |-> [inside[i] EXCEPT !.taggers = Append(@, bag.tagger)]]

\* A manager's subscriptions, in no particular order.
SubscriptionsOf(bag, home) ==
    LET ls == Leaves(bag)
    IN {[value |-> ls[i].value, taggers |-> ls[i].taggers] : i \in {j \in DOMAIN ls : ls[j].home = home}}

=============================================================================
