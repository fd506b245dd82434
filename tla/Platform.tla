------------------------------ MODULE Platform ------------------------------
(***************************************************************************)
(* An Elm program, its effect managers and its ports                       *)
(* (core/5.1.1/src/Native/Platform.js).                                    *)
(*                                                                         *)
(* Every process is a loop around its mailbox (spawnLoop), one step of the *)
(* model per message; which process runs next is left open, so every order *)
(* of the Scheduler is covered.  There are an outgoing port "out", an      *)
(* incoming port "in" and a manager "fx" that passes its commands to       *)
(* itself and then to the program.  The callbacks of the outgoing port are *)
(* called one by one, and what a callback does to the port is a step of    *)
(* its own while no process runs.                                          *)
(*                                                                         *)
(* The model of the program is its subscription bag; update is any         *)
(* function.  What gatherEffects makes of bags is module EffectBag's.      *)
(***************************************************************************)
EXTENDS Integers, Sequences

CONSTANTS
    Values,        \* what commands and subscriptions carry, Elm functions included
    Effects(_, _), \* the effects of every manager in two bags
    Subscriptions(_, _),  \* those a bag has for a manager, for reference
    Callbacks,     \* JavaScript functions that may listen to the port "out"
    Display,       \* the one that the page subscribes at the start, for good
    CmdBags(_),    \* the commands an update may give, by its number
    SubBags,       \* the subscriptions of a model
    MaxUpdates,    \* bound: messages the program handles
    MaxSends,      \* bound: values sent into the port "in"
    MaxChanges     \* bound: changes to the subscribers of the port "out"

Managers == {"out", "in", "fx"}

\* A command or a subscription, and the functions mapped over it.
Effect == [value : Values, taggers : Seq(Values)]
Fx == [cmds : Seq(Effect), subs : Seq(Effect)]

ASSUME PlatformAssumption ==
    /\ MaxUpdates \in Nat /\ MaxSends \in Nat /\ MaxChanges \in Nat
    /\ Display \in Callbacks

\* gatherEffects leaves no subscription out and adds none.
ASSUME EffectsAssumption ==
    \A n \in 0..MaxUpdates : \A cmdBag \in CmdBags(n), subBag \in SubBags :
      LET fx == Effects(cmdBag, subBag)
      IN  /\ fx \in [Managers -> Fx]
          /\ {fx["in"].subs[i] : i \in DOMAIN fx["in"].subs} = Subscriptions(subBag, "in")

VARIABLES
    mail,       \* the mailbox of every process
    started,    \* initApp has run
    model,      \* the program's model
    updates,    \* messages handled
    subs,       \* the port "out": its subscribers,
    loop,       \*   and its loop over them while it calls them
    port,       \* the port "in"
    sent,       \* values sent into the port "in"
    handled,    \* those of them that reached the program
    issued,     \* the values for the port "out", a list for every dispatch
    called,     \* the values Display got, a list for every onEffects
    changes     \* subscriptions and unsubscriptions so far

vars == <<mail, started, model, updates, subs, loop, port, sent, handled, issued, called, changes>>

Messages == {msg \in [ctor : {"fx", "self"}, cmds : Seq(Effect), subs : Seq(Effect)] :
               msg.ctor = "self" => Len(msg.cmds) = 1}
Posts == [home : {"in", "fx"}, value : Values \union Nat, taggers : Seq(Values)]
Callers == [cmds : Seq(Effect), subs : Seq(Callbacks), i : Nat, same : BOOLEAN]

TypeOK ==
    /\ DOMAIN mail = {"main"} \union Managers
    /\ mail["main"] \in Seq(Posts) /\ \A home \in Managers : mail[home] \in Seq(Messages)
    /\ started \in BOOLEAN
    /\ model \in SubBags
    /\ updates \in 0..MaxUpdates
    /\ subs \in Seq(Callbacks)
    /\ loop \in Callers
    /\ port \in [post : BOOLEAN, sentBeforeInit : Seq(Nat), subs : Seq(Effect)]
    /\ port.post => port.sentBeforeInit = <<>>

NotCalling == [cmds |-> <<>>, subs |-> <<>>, i |-> 0, same |-> FALSE]

\* initialize spawns the main process and the managers; their code runs from
\* a timer, after the script that called initialize has subscribed Display,
\* and possibly another callback before it.
Init ==
    /\ mail = [p \in {"main"} \union Managers |-> <<>>]
    /\ started = FALSE
    /\ model \in SubBags
    /\ updates = 0
    /\ subs \in {<<Display>>} \union {<<c, Display>> : c \in Callbacks \ {Display}}
    /\ loop = NotCalling
    /\ port = [post |-> FALSE, sentBeforeInit |-> <<>>, subs |-> <<>>]
    /\ sent = <<>> /\ handled = <<>> /\ issued = <<>> /\ called = <<>>
    /\ changes = 0

Calling == loop.cmds # <<>>

\* JavaScript of the page runs between two steps of the scheduler, or in a
\* callback that the port has called.
ScriptRuns == Calling => loop.i > 0

Send(box, p, msg) == [box EXCEPT ![p] = Append(@, msg)]

FxMsg(fx) == [ctor |-> "fx", cmds |-> fx.cmds, subs |-> fx.subs]

ValuesOf(effects) == [i \in DOMAIN effects |-> effects[i].value]

\* sendToSelf for each effect in turn
sendToSelf(box, home, effects) ==
    [box EXCEPT ![home] = @ \o [i \in DOMAIN effects |->
                                  [ctor |-> "self", cmds |-> <<effects[i]>>, subs |-> <<>>]]]

sendToApp(box, home, effect) ==
    Send(box, "main", [home |-> home, value |-> effect.value, taggers |-> effect.taggers])

dispatchEffects(box, cmdBag, subBag) ==
    LET fx == Effects(cmdBag, subBag)
    IN [p \in DOMAIN box |-> IF p = "main" THEN box[p] ELSE Append(box[p], FxMsg(fx[p]))]

\* Mutant of Run: asks the old model for its subscriptions.
RunLate(box, cmdBag, subBag) ==
    /\ model' = subBag
    /\ mail' = dispatchEffects(box, cmdBag, model)
    /\ issued' = Append(issued, ValuesOf(Effects(cmdBag, subBag)["out"].cmds))

\* The new model and what it leads to; box is the mail without the message.
Run(box, cmdBag, subBag) ==
    /\ model' = subBag
    /\ mail' = dispatchEffects(box, cmdBag, subBag)
    /\ issued' = Append(issued, ValuesOf(Effects(cmdBag, subBag)["out"].cmds))

initApp ==
    /\ ~Calling /\ ~started
    /\ started' = TRUE
    /\ \E cmdBag \in CmdBags(0) : Run(mail, cmdBag, model)
    /\ UNCHANGED <<updates, subs, loop, port, sent, handled, called, changes>>

\* The main process handles a message; the loop starts after init.
onMessage ==
    /\ ~Calling /\ started /\ mail["main"] # <<>> /\ updates < MaxUpdates
    /\ updates' = updates + 1
    /\ LET msg == Head(mail["main"]) IN
       handled' = IF msg.home = "in" THEN Append(handled, msg.value) ELSE handled
    /\ \E cmdBag \in CmdBags(updates + 1), subBag \in SubBags :
          Run([mail EXCEPT !["main"] = Tail(@)], cmdBag, subBag)
    /\ UNCHANGED <<started, subs, loop, port, sent, called, changes>>

-----------------------------------------------------------------------------
(* The outgoing port *)

\* onEffects takes the first command; the subscribers are those of now.
outOnEffects ==
    /\ ~Calling /\ mail["out"] # <<>>
    /\ mail' = [mail EXCEPT !["out"] = Tail(@)]
    /\ LET cmds == Head(mail["out"]).cmds IN
       loop' = IF cmds = <<>> THEN NotCalling
               ELSE [cmds |-> cmds, subs |-> subs, i |-> 0, same |-> TRUE]
    /\ called' = Append(called, <<>>)
    /\ UNCHANGED <<started, model, updates, subs, port, sent, handled, issued, changes>>

\* The array the loop goes through: subs itself, or what it was before an
\* unsubscription put a copy in its place.
currentSubs == IF loop.same THEN subs ELSE loop.subs

CallNext ==
    /\ Calling /\ loop.i < Len(currentSubs)
    /\ called' = IF currentSubs[loop.i + 1] # Display THEN called
                 ELSE [called EXCEPT ![Len(called)] = Append(@, Head(loop.cmds).value)]
    /\ loop' = [loop EXCEPT !.i = @ + 1]
    /\ UNCHANGED <<mail, started, model, updates, subs, port, sent, handled, issued, changes>>

\* Mutant of NextCommand: looks for one callback more.
NextCommandLate ==
    /\ Calling /\ loop.i > Len(currentSubs)
    /\ loop' = IF Len(loop.cmds) = 1 THEN NotCalling
               ELSE [cmds |-> Tail(loop.cmds), subs |-> subs, i |-> 0, same |-> TRUE]
    /\ UNCHANGED <<mail, started, model, updates, subs, port, sent, handled, issued, called, changes>>

NextCommand ==
    /\ Calling /\ loop.i >= Len(currentSubs)
    /\ loop' = IF Len(loop.cmds) = 1 THEN NotCalling
               ELSE [cmds |-> Tail(loop.cmds), subs |-> subs, i |-> 0, same |-> TRUE]
    /\ UNCHANGED <<mail, started, model, updates, subs, port, sent, handled, issued, called, changes>>

\* JavaScript subscribes, from a callback or at any other time: an array the
\* loop goes through grows under it.
subscribe(c) ==
    /\ ScriptRuns /\ changes < MaxChanges /\ c # Display
    /\ subs' = Append(subs, c)
    /\ changes' = changes + 1
    /\ UNCHANGED <<loop, mail, started, model, updates, port, sent, handled, issued, called>>

\* Takes the first c out of subs, if there is one.
Splice(c) ==
    \/ subs' = subs /\ \A i \in DOMAIN subs : subs[i] # c
    \/ \E index \in DOMAIN subs :
         /\ subs[index] = c /\ \A i \in 1..(index - 1) : subs[i] # c
         /\ subs' = [i \in 1..(Len(subs) - 1) |-> IF i < index THEN subs[i] ELSE subs[i + 1]]

\* Mutant of unsubscribe: takes the callback out of the array itself.
unsubscribeInPlace(c) ==
    /\ ScriptRuns /\ changes < MaxChanges /\ c # Display
    /\ Splice(c)
    /\ changes' = changes + 1
    /\ UNCHANGED <<loop, mail, started, model, updates, port, sent, handled, issued, called>>

\* An unsubscription works on a copy.
unsubscribe(c) ==
    /\ ScriptRuns /\ changes < MaxChanges /\ c # Display
    /\ Splice(c)
    /\ loop' = IF Calling THEN [loop EXCEPT !.subs = currentSubs, !.same = FALSE] ELSE loop
    /\ changes' = changes + 1
    /\ UNCHANGED <<mail, started, model, updates, port, sent, handled, issued, called>>

-----------------------------------------------------------------------------
(* The incoming port *)

\* postInitSend for each value in turn: it goes to the program once for every
\* subscription, through the subscription's function and those mapped over it.
postInitSend(box, values, subList) ==
    LET many == Len(subList)
        Msg(value, sub) == [home |-> "in", value |-> value, taggers |-> <<sub.value>> \o sub.taggers]
    IN [box EXCEPT !["main"] = @ \o [i \in 1..(Len(values) * many) |->
                                       Msg(values[1 + ((i - 1) \div many)], subList[1 + ((i - 1) % many)])]]

\* Mutant of inOnEffects: forgets what was sent before.
inOnEffectsLate ==
    /\ ~Calling /\ mail["in"] # <<>>
    /\ mail' = [mail EXCEPT !["in"] = Tail(@)]
    /\ port' = [post |-> TRUE, sentBeforeInit |-> <<>>, subs |-> Head(mail["in"]).subs]
    /\ UNCHANGED <<started, model, updates, subs, loop, sent, handled, issued, called, changes>>

\* The first effects release what was sent before them.
inOnEffects ==
    /\ ~Calling /\ mail["in"] # <<>>
    /\ LET subList == Head(mail["in"]).subs
           rest == [mail EXCEPT !["in"] = Tail(@)]
       IN /\ mail' = postInitSend(rest, port.sentBeforeInit, subList)
          /\ port' = [post |-> TRUE, sentBeforeInit |-> <<>>, subs |-> subList]
    /\ UNCHANGED <<started, model, updates, subs, loop, sent, handled, issued, called, changes>>

\* JavaScript sends a value that the port's decoder takes.
send ==
    /\ ScriptRuns /\ Len(sent) < MaxSends
    /\ LET value == Len(sent) + 1 IN
       /\ sent' = Append(sent, value)
       /\ IF port.post
          THEN mail' = postInitSend(mail, <<value>>, port.subs) /\ port' = port
          ELSE port' = [port EXCEPT !.sentBeforeInit = Append(@, value)] /\ mail' = mail
    /\ UNCHANGED <<started, model, updates, subs, loop, handled, issued, called, changes>>

-----------------------------------------------------------------------------
(* Another manager *)

\* makeManager's onMessage.  External: what this manager does with effects is
\* to send every command to itself, and then to the program.
fxOnMessage ==
    /\ ~Calling /\ mail["fx"] # <<>>
    /\ LET msg == Head(mail["fx"])
           rest == [mail EXCEPT !["fx"] = Tail(@)]
       IN mail' = IF msg.ctor = "self" THEN sendToApp(rest, "fx", msg.cmds[1])
                  ELSE sendToSelf(rest, "fx", msg.cmds)
    /\ UNCHANGED <<started, model, updates, subs, loop, port, sent, handled, issued, called, changes>>

Loops == initApp \/ onMessage \/ outOnEffects \/ CallNext \/ NextCommand \/ inOnEffects \/ fxOnMessage

Next ==
    \/ Loops
    \/ send
    \/ \E c \in Callbacks : subscribe(c) \/ unsubscribe(c)

\* The scheduler runs every process that has mail; a loop over callbacks
\* ends.
Spec ==
    /\ Init /\ [][Next]_vars
    /\ WF_vars(initApp) /\ WF_vars(onMessage) /\ WF_vars(inOnEffects) /\ WF_vars(fxOnMessage)
    /\ WF_vars(outOnEffects) /\ WF_vars(CallNext) /\ WF_vars(NextCommand)

-----------------------------------------------------------------------------

\* The callback that the page subscribes before the program runs is called
\* with every command of the port, once, in the order of the updates, the
\* commands of init included - whatever other callbacks subscribe or
\* unsubscribe while they are called: all dispatches but the last, which are
\* in the mail, have led to its calls, but for what the loop has left.
DisplayGetsAll ==
    LET past == Len(issued) - Len(mail["out"])
        left == IF \E i \in 1..loop.i : currentSubs[i] = Display THEN Tail(loop.cmds) ELSE loop.cmds
    IN  /\ Len(called) = past
        /\ \A k \in 1..past : issued[k] = called[k] \o (IF k = past THEN ValuesOf(left) ELSE <<>>)
        /\ \A k \in DOMAIN mail["out"] : issued[past + k] = ValuesOf(mail["out"][k].cmds)

\* Programs that listen to the port once, whatever their model.
OneListener ==
    \A n \in 0..MaxUpdates : \A cmdBag \in CmdBags(n), subBag \in SubBags :
      Len(Effects(cmdBag, subBag)["in"].subs) = 1

Arriving == {k \in DOMAIN mail["main"] : mail["main"][k].home = "in"}

\* Every value sent into the port reaches the program once and in order, those
\* sent before the program ran included, although subscriptions change; and
\* nothing that was released stays behind for a second time (TypeOK).
SentInOrder ==
    LET early == port.sentBeforeInit
        released == Len(sent) - Len(early)
        Val(k) == mail["main"][k].value
    IN  /\ TypeOK
        /\ Len(handled) <= released
        /\ \A i \in DOMAIN handled : handled[i] = sent[i]
        /\ \A j, k \in Arriving : j < k => Val(j) < Val(k)
        /\ {Val(k) : k \in Arriving} = {sent[i] : i \in (Len(handled) + 1)..released}
        /\ \A i \in DOMAIN early : early[i] = sent[released + i]

\* What the incoming port listens for, once it has handled its mail, are the
\* subscriptions of the current model with all functions mapped over them,
\* the innermost first.
SubsFollowModel ==
    started =>
      LET box == mail["in"]
          subList == IF box = <<>> THEN port.subs ELSE box[Len(box)].subs
      IN {subList[i] : i \in DOMAIN subList} = Subscriptions(model, "in")

\* A value sent into the port is handled, unless the program is at its bound.
SentIsHandled ==
    \A n \in 1..MaxSends : Len(sent) = n ~> Len(handled) >= n \/ updates = MaxUpdates

=============================================================================
