--------------------------- MODULE PlatformProofs ---------------------------
(***************************************************************************)
(* The main process, the managers and the ports of an Elm program, for any *)
(* program, any callbacks and any number of updates and sends.             *)
(***************************************************************************)
EXTENDS Platform, SequenceTheorems, TLAPS

Procs == {"main", "out", "in", "fx"}

Typed(box) ==
  /\ DOMAIN box = Procs /\ box = [p \in Procs |-> box[p]]
  /\ box["main"] \in Seq(Posts)
  /\ \A home \in Managers : box[home] \in Seq(Messages)

Types == TypeOK /\ Typed(mail)

LEMMA TypedMail == ASSUME TypeOK, mail = [p \in DOMAIN mail |-> mail[p]] PROVE Types
BY DEF TypeOK, Types, Typed, Procs, Managers

(* The effects of two bags, as messages for the managers.                  *)
LEMMA EffectsType ==
  ASSUME NEW n \in 0..MaxUpdates, NEW cmdBag \in CmdBags(n), NEW subBag \in SubBags
  PROVE  LET fx == Effects(cmdBag, subBag)
         IN  /\ \A home \in Managers : /\ fx[home].cmds \in Seq(Effect) /\ fx[home].subs \in Seq(Effect)
                                       /\ FxMsg(fx[home]) \in Messages
                                       /\ FxMsg(fx[home]).cmds = fx[home].cmds
                                       /\ FxMsg(fx[home]).subs = fx[home].subs
             /\ {fx["in"].subs[i] : i \in DOMAIN fx["in"].subs} = Subscriptions(subBag, "in")
<1> DEFINE fx == Effects(cmdBag, subBag)
<1>1. /\ fx \in [Managers -> Fx]
      /\ {fx["in"].subs[i] : i \in DOMAIN fx["in"].subs} = Subscriptions(subBag, "in")
  BY EffectsAssumption
<1> HIDE DEF fx
<1>2. \A home \in Managers : fx[home].cmds \in Seq(Effect) /\ fx[home].subs \in Seq(Effect)
  BY <1>1 DEF Fx
<1>3. QED
  BY <1>1, <1>2 DEF FxMsg, Messages, fx

LEMMA DispatchType ==
  ASSUME NEW n \in 0..MaxUpdates, NEW cmdBag \in CmdBags(n), NEW subBag \in SubBags,
         NEW box, Typed(box)
  PROVE  LET new == dispatchEffects(box, cmdBag, subBag)
         IN  /\ Typed(new) /\ new["main"] = box["main"]
             /\ \A home \in Managers :
                  new[home] = Append(box[home], FxMsg(Effects(cmdBag, subBag)[home]))
<1> DEFINE fx == Effects(cmdBag, subBag)
           new == dispatchEffects(box, cmdBag, subBag)
<1>1. \A home \in Managers : FxMsg(fx[home]) \in Messages
  BY EffectsType
<1>2. new = [p \in Procs |-> IF p = "main" THEN box[p] ELSE Append(box[p], FxMsg(fx[p]))]
  BY DEF dispatchEffects, Typed
<1> HIDE DEF new, fx
<1>3. new["main"] = box["main"] /\ DOMAIN new = Procs /\ new = [p \in Procs |-> new[p]]
  BY <1>2 DEF Procs
<1>4. \A home \in Managers : new[home] = Append(box[home], FxMsg(fx[home]))
  BY <1>2 DEF Procs, Managers
<1>5. ASSUME NEW home \in Managers PROVE new[home] \in Seq(Messages)
  <2>1. box[home] \in Seq(Messages)
    BY DEF Typed
  <2>2. FxMsg(fx[home]) \in Messages
    BY <1>1
  <2>3. Append(box[home], FxMsg(fx[home])) \in Seq(Messages)
    BY <2>1, <2>2
  <2>4. QED
    BY <1>4, <2>3
<1>6. QED
  BY <1>3, <1>4, <1>5 DEF Typed, new, fx

(* The mail without the first message of p, and with more messages for p.  *)
Takes(box, p, rest) == rest = [box EXCEPT ![p] = Tail(@)]
Gives(box, p, more, new) == new = [box EXCEPT ![p] = @ \o more]

(* Without its first message a mailbox is typed as before.                 *)
LEMMA TakenType ==
  ASSUME NEW box, Typed(box), NEW p \in Procs, box[p] # <<>>, NEW rest, Takes(box, p, rest)
  PROVE  Typed(rest) /\ rest[p] = Tail(box[p]) /\ \A q \in Procs \ {p} : rest[q] = box[q]
<1>1. DOMAIN rest = Procs /\ rest = [q \in Procs |-> rest[q]] /\ rest[p] = Tail(box[p])
  BY DEF Typed, Takes
<1>2. \A q \in Procs \ {p} : rest[q] = box[q]
  BY DEF Typed, Takes
<1>3. rest["main"] \in Seq(Posts)
  <2>1. box["main"] \in Seq(Posts) /\ "main" \in Procs
    BY DEF Typed, Procs
  <2>2. p = "main" => Tail(box[p]) \in Seq(Posts)
    BY <2>1
  <2>3. QED
    BY <1>1, <1>2, <2>1, <2>2
<1>4. \A home \in Managers : rest[home] \in Seq(Messages)
  <2> SUFFICES ASSUME NEW home \in Managers PROVE rest[home] \in Seq(Messages)
    OBVIOUS
  <2>1. box[home] \in Seq(Messages) /\ home \in Procs /\ home # "main"
    BY DEF Typed, Procs, Managers
  <2>2. QED
    BY <1>1, <1>2, <2>1
<1>5. QED
  BY <1>1, <1>2, <1>3, <1>4 DEF Typed

(* The program, or a manager, gets more messages.                          *)
LEMMA ProgramGets ==
  ASSUME NEW box, Typed(box), NEW more \in Seq(Posts), NEW new, Gives(box, "main", more, new)
  PROVE  Typed(new) /\ new["main"] = box["main"] \o more /\ \A home \in Managers : new[home] = box[home]
<1>1. /\ DOMAIN new = Procs /\ new = [q \in Procs |-> new[q]] /\ new["main"] = box["main"] \o more
      /\ \A home \in Managers : new[home] = box[home]
  BY DEF Typed, Procs, Managers, Gives
<1>2. box["main"] \in Seq(Posts) /\ \A home \in Managers : box[home] \in Seq(Messages)
  BY DEF Typed
<1>3. box["main"] \o more \in Seq(Posts)
  BY <1>2
<1>4. QED
  BY <1>1, <1>2, <1>3 DEF Typed

LEMMA ManagerGets ==
  ASSUME NEW box, Typed(box), NEW home \in Managers, NEW more \in Seq(Messages),
         NEW new, Gives(box, home, more, new)
  PROVE  Typed(new) /\ \A p \in Procs \ {home} : new[p] = box[p]
<1>1. /\ DOMAIN new = Procs /\ new = [q \in Procs |-> new[q]] /\ new[home] = box[home] \o more
      /\ \A p \in Procs \ {home} : new[p] = box[p]
  BY DEF Typed, Procs, Managers, Gives
<1>2. /\ box["main"] \in Seq(Posts) /\ \A h \in Managers : box[h] \in Seq(Messages)
      /\ Managers \subseteq Procs /\ "main" \in Procs \ {home}
  BY DEF Typed, Procs, Managers
<1>3. box[home] \o more \in Seq(Messages)
  BY <1>2
<1>4. QED
  BY <1>1, <1>2, <1>3 DEF Typed

(* Message i of values that go to subscriptions one after the other.       *)
LEMMA Product ==
  ASSUME NEW n \in Nat, NEW m \in Nat, NEW i \in 1..(n * m)
  PROVE  m > 0 /\ (i - 1) \div m \in 0..(n - 1) /\ (i - 1) % m \in 0..(m - 1)
<1>1. n * m \in Nat /\ i - 1 \in Nat /\ i - 1 < n * m
  OBVIOUS
<1>2. m > 0
  BY <1>1
<1> DEFINE q == (i - 1) \div m
           r == (i - 1) % m
<1>3. q \in Int /\ r \in 0..(m - 1) /\ i - 1 = m * q + r
  BY <1>1, <1>2
<1> HIDE DEF q, r
<1>4. q >= 0
  <2> SUFFICES ASSUME q <= -1 PROVE FALSE
    BY <1>3
  <2>1. m * q <= m * (-1)
    BY <1>2, <1>3
  <2>2. QED
    BY <1>1, <1>3, <2>1
<1>5. q <= n - 1
  <2> SUFFICES ASSUME q >= n PROVE FALSE
    BY <1>3
  <2>1. m * q >= m * n
    BY <1>2, <1>3
  <2>2. QED
    BY <1>1, <1>3, <2>1
<1>6. QED
  BY <1>2, <1>3, <1>4, <1>5 DEF q, r

(* What goes to the program when values go to subscriptions.               *)
Released(values, subList) ==
  LET many == Len(subList)
      Msg(value, sub) == [home |-> "in", value |-> value, taggers |-> <<sub.value>> \o sub.taggers]
  IN  [i \in 1..(Len(values) * many) |->
         Msg(values[1 + ((i - 1) \div many)], subList[1 + ((i - 1) % many)])]

LEMMA ReleasedType ==
  ASSUME NEW values \in Seq(Nat), NEW subList \in Seq(Effect)
  PROVE  /\ Released(values, subList) \in Seq(Posts)
         /\ \A box, new : new = postInitSend(box, values, subList)
                           => Gives(box, "main", Released(values, subList), new)
<1> DEFINE n == Len(values)
           many == Len(subList)
           Msg(value, sub) == [home |-> "in", value |-> value, taggers |-> <<sub.value>> \o sub.taggers]
<1>1. n \in Nat /\ many \in Nat
  OBVIOUS
<1>2. ASSUME NEW value \in Nat, NEW sub \in Effect PROVE Msg(value, sub) \in Posts
  <2>1. sub.value \in Values /\ sub.taggers \in Seq(Values)
    BY DEF Effect
  <2>2. <<sub.value>> \o sub.taggers \in Seq(Values)
    BY <2>1
  <2>3. QED
    BY <2>2 DEF Posts
<1> HIDE DEF Msg
<1>3. ASSUME NEW i \in 1..(n * many)
      PROVE  Msg(values[1 + ((i - 1) \div many)], subList[1 + ((i - 1) % many)]) \in Posts
  <2> DEFINE q == (i - 1) \div many
             r == (i - 1) % many
  <2>0. q \in 0..(n - 1) /\ r \in 0..(many - 1)
    <3> HIDE DEF n, many
    <3>1. QED
      BY <1>1, Product
  <2> HIDE DEF q, r
  <2>1. 1 + q \in 1..n /\ 1 + r \in 1..many
    BY <1>1, <2>0
  <2> USE DEF q, r
  <2>2. values[1 + ((i - 1) \div many)] \in Nat /\ subList[1 + ((i - 1) % many)] \in Effect
    BY <2>1
  <2>3. QED
    BY <1>2, <2>2
<1> DEFINE N == n * many
           M(i) == Msg(values[1 + ((i - 1) \div many)], subList[1 + ((i - 1) % many)])
<1>4. N \in Nat /\ \A i \in 1..N : M(i) \in Posts
  BY <1>1, <1>3
<1>5. Released(values, subList) = [i \in 1..N |-> M(i)]
  BY DEF Released, Msg
<1> HIDE DEF N, M
<1>6. Released(values, subList) \in Seq(Posts)
  BY <1>4, <1>5
<1>7. QED
  BY <1>6 DEF postInitSend, Released, Gives

-----------------------------------------------------------------------------
(* What the steps do to the mail *)

LEMMA RunMail ==
  ASSUME Types, NEW n \in 0..MaxUpdates, NEW cmdBag \in CmdBags(n), NEW subBag \in SubBags,
         NEW box, Typed(box), Run(box, cmdBag, subBag)
  PROVE  /\ Typed(mail') /\ mail'["main"] = box["main"] /\ model' = subBag /\ model' \in SubBags
         /\ \A home \in Managers : mail'[home] = Append(box[home], FxMsg(Effects(cmdBag, subBag)[home]))
         /\ issued' = Append(issued, ValuesOf(Effects(cmdBag, subBag)["out"].cmds))
BY DispatchType DEF Run

LEMMA TypesInit == Init => Types
<1> SUFFICES ASSUME Init PROVE Types
  OBVIOUS
<1>1. mail = [p \in Procs |-> <<>>]
  BY DEF Init, Procs, Managers
<1>2. Typed(mail)
  BY <1>1 DEF Typed, Procs, Managers
<1>3. loop \in Callers /\ updates \in 0..MaxUpdates
  BY PlatformAssumption DEF Init, NotCalling, Callers
<1>4. subs \in Seq(Callbacks)
  <2>1. CASE subs = <<Display>>
    BY <2>1, PlatformAssumption
  <2>2. ASSUME NEW c \in Callbacks, subs = <<c, Display>> PROVE subs \in Seq(Callbacks)
    BY <2>2, PlatformAssumption
  <2>3. QED
    BY <2>1, <2>2 DEF Init
<1>5. port \in [post : BOOLEAN, sentBeforeInit : Seq(Nat), subs : Seq(Effect)] /\ port.sentBeforeInit = <<>>
  BY DEF Init
<1>6. QED
  BY <1>1, <1>2, <1>3, <1>4, <1>5 DEF Types, TypeOK, Typed, Init, Procs, Managers

(* The managers get the effects fx of an update.                           *)
Dispatched(fx) ==
  /\ \A home \in Managers :
       /\ fx[home].cmds \in Seq(Effect) /\ fx[home].subs \in Seq(Effect)
       /\ FxMsg(fx[home]) \in Messages
       /\ FxMsg(fx[home]).cmds = fx[home].cmds /\ FxMsg(fx[home]).subs = fx[home].subs
       /\ mail'[home] = Append(mail[home], FxMsg(fx[home]))
  /\ issued' = Append(issued, ValuesOf(fx["out"].cmds))
  /\ {fx["in"].subs[i] : i \in DOMAIN fx["in"].subs} = Subscriptions(model', "in")
  /\ OneListener => Len(fx["in"].subs) = 1

(* A step of the main process.                                             *)
LEMMA UpdateMail ==
  ASSUME Types, initApp \/ onMessage
  PROVE  /\ ~Calling /\ started' = TRUE /\ updates' \in 0..MaxUpdates
         /\ Typed(mail') /\ model' \in SubBags
         /\ UNCHANGED <<subs, loop, port, sent, called, changes>>
         /\ \E fx : Dispatched(fx)
         /\ \/ mail'["main"] = mail["main"] /\ handled' = handled
            \/ /\ mail["main"] # <<>> /\ mail'["main"] = Tail(mail["main"])
               /\ handled' = IF Head(mail["main"]).home = "in"
                             THEN Append(handled, Head(mail["main"]).value) ELSE handled
<1>0. MaxUpdates \in Nat /\ updates \in 0..MaxUpdates /\ model \in SubBags /\ Typed(mail)
  BY PlatformAssumption DEF Types, TypeOK
<1>1. ASSUME NEW n \in 0..MaxUpdates, NEW cmdBag \in CmdBags(n), NEW subBag \in SubBags,
             NEW box, Typed(box), Run(box, cmdBag, subBag), \A home \in Managers : box[home] = mail[home]
      PROVE  /\ Typed(mail') /\ model' \in SubBags /\ mail'["main"] = box["main"]
             /\ \E fx : Dispatched(fx)
  <2> DEFINE fx == Effects(cmdBag, subBag)
  <2>1. /\ Typed(mail') /\ mail'["main"] = box["main"] /\ model' = subBag /\ model' \in SubBags
        /\ \A home \in Managers : mail'[home] = Append(box[home], FxMsg(fx[home]))
        /\ issued' = Append(issued, ValuesOf(fx["out"].cmds))
    BY <1>1, RunMail
  <2>2. /\ \A home \in Managers : /\ fx[home].cmds \in Seq(Effect) /\ fx[home].subs \in Seq(Effect)
                                   /\ FxMsg(fx[home]) \in Messages
                                   /\ FxMsg(fx[home]).cmds = fx[home].cmds
                                   /\ FxMsg(fx[home]).subs = fx[home].subs
        /\ {fx["in"].subs[i] : i \in DOMAIN fx["in"].subs} = Subscriptions(subBag, "in")
    BY EffectsType
  <2>3. OneListener => Len(fx["in"].subs) = 1
    BY DEF OneListener
  <2> HIDE DEF fx
  <2>4. Dispatched(fx)
    BY <1>1, <2>1, <2>2, <2>3 DEF Dispatched
  <2>5. QED
    BY <2>1, <2>4
<1>2. CASE initApp
  <2>1. PICK cmdBag \in CmdBags(0) : Run(mail, cmdBag, model)
    BY <1>2 DEF initApp
  <2>2. 0 \in 0..MaxUpdates
    BY <1>0
  <2>3. /\ ~Calling /\ started' = TRUE
        /\ UNCHANGED <<updates, subs, loop, port, sent, handled, called, changes>>
    BY <1>2 DEF initApp
  <2>4. QED
    BY <1>0, <1>1, <2>1, <2>2, <2>3
<1>3. CASE onMessage
  <2> DEFINE box == [mail EXCEPT !["main"] = Tail(@)]
  <2>1. /\ ~Calling /\ started /\ mail["main"] # <<>> /\ updates < MaxUpdates /\ updates' = updates + 1
        /\ handled' = IF Head(mail["main"]).home = "in"
                      THEN Append(handled, Head(mail["main"]).value) ELSE handled
        /\ UNCHANGED <<started, subs, loop, port, sent, called, changes>>
        /\ \E cmdBag \in CmdBags(updates + 1), subBag \in SubBags : Run(box, cmdBag, subBag)
    BY <1>3 DEF onMessage
  <2>2. Typed(box) /\ box["main"] = Tail(mail["main"]) /\ \A home \in Managers : box[home] = mail[home]
    <3>1. "main" \in Procs /\ Managers \subseteq Procs \ {"main"}
      BY DEF Procs, Managers
    <3>2. Takes(mail, "main", box)
      BY DEF Takes
    <3> HIDE DEF box
    <3>3. QED
      BY <1>0, <2>1, <3>1, <3>2, TakenType
  <2> HIDE DEF box
  <2>3. PICK cmdBag \in CmdBags(updates + 1), subBag \in SubBags : Run(box, cmdBag, subBag)
    BY <2>1
  <2>4. updates + 1 \in 0..MaxUpdates
    BY <1>0, <2>1
  <2>5. started = TRUE
    BY <2>1 DEF Types, TypeOK
  <2>6. Typed(mail') /\ model' \in SubBags /\ mail'["main"] = box["main"] /\ \E fx : Dispatched(fx)
    BY <1>1, <2>2, <2>3, <2>4
  <2>7. updates' \in 0..MaxUpdates /\ started' = TRUE
    BY <2>1, <2>4, <2>5
  <2>8. QED
    BY <2>1, <2>2, <2>6, <2>7
<1>4. QED
  BY <1>2, <1>3

(* A message of a manager is of its two lists.                             *)
LEMMA FirstMessage ==
  ASSUME Types, NEW home \in Managers, mail[home] # <<>>
  PROVE  /\ Head(mail[home]) = mail[home][1] /\ Head(mail[home]) \in Messages
         /\ Head(mail[home]).cmds \in Seq(Effect) /\ Head(mail[home]).subs \in Seq(Effect)
<1>1. mail[home] \in Seq(Messages)
  BY DEF Types, Typed
<1>2. Head(mail[home]) = mail[home][1] /\ Head(mail[home]) \in Messages
  BY <1>1
<1>3. QED
  BY <1>2 DEF Messages

LEMMA OutMail ==
  ASSUME Types, outOnEffects
  PROVE  /\ Typed(mail') /\ mail'["out"] = Tail(mail["out"])
         /\ \A p \in Procs \ {"out"} : mail'[p] = mail[p]
<1>1. Typed(mail) /\ mail["out"] # <<>> /\ Takes(mail, "out", mail') /\ "out" \in Procs
  BY DEF Types, outOnEffects, Procs, Takes
<1>2. QED
  BY <1>1, TakenType

LEMMA InMail ==
  ASSUME Types, inOnEffects
  PROVE  LET subList == Head(mail["in"]).subs
         IN  /\ Typed(mail') /\ mail'["in"] = Tail(mail["in"]) /\ mail["in"] # <<>>
             /\ mail'["main"] = mail["main"] \o Released(port.sentBeforeInit, subList)
             /\ \A p \in Procs \ {"in", "main"} : mail'[p] = mail[p]
             /\ port' = [post |-> TRUE, sentBeforeInit |-> <<>>, subs |-> subList] /\ subList \in Seq(Effect)
             /\ Released(port.sentBeforeInit, subList) \in Seq(Posts)
<1> DEFINE subList == Head(mail["in"]).subs
           rest == [mail EXCEPT !["in"] = Tail(@)]
           early == port.sentBeforeInit
<1>1. Typed(mail) /\ mail["in"] # <<>> /\ {"in", "main"} \subseteq Procs /\ early \in Seq(Nat)
  BY DEF Types, TypeOK, inOnEffects, Procs
<1>2. subList \in Seq(Effect)
  BY <1>1, FirstMessage DEF Managers
<1>3. /\ mail' = postInitSend(rest, early, subList)
      /\ port' = [post |-> TRUE, sentBeforeInit |-> <<>>, subs |-> subList]
  BY DEF inOnEffects
<1>4. Typed(rest) /\ rest["in"] = Tail(mail["in"]) /\ \A p \in Procs \ {"in"} : rest[p] = mail[p]
  <2>1. Takes(mail, "in", rest)
    BY DEF Takes
  <2> HIDE DEF rest
  <2>2. QED
    BY <1>1, <2>1, TakenType
<1> HIDE DEF subList, rest, early
<1>5. Released(early, subList) \in Seq(Posts) /\ Gives(rest, "main", Released(early, subList), mail')
  BY <1>1, <1>2, <1>3, ReleasedType DEF Gives
<1>6. /\ Typed(mail') /\ mail'["main"] = rest["main"] \o Released(early, subList)
      /\ \A home \in Managers : mail'[home] = rest[home]
  BY <1>4, <1>5, ProgramGets
<1>7. /\ rest["main"] = mail["main"] /\ mail'["in"] = Tail(mail["in"])
      /\ \A p \in Procs \ {"in", "main"} : mail'[p] = mail[p]
  BY <1>4, <1>6 DEF Procs, Managers
<1>8. QED
  BY <1>1, <1>2, <1>3, <1>4, <1>5, <1>6, <1>7 DEF subList, early

LEMMA SendMail ==
  ASSUME Types, send, Len(sent) \in Nat
  PROVE  LET value == Len(sent) + 1
         IN  /\ Typed(mail') /\ \A home \in Managers : mail'[home] = mail[home]
             /\ \/ /\ port.post /\ port' = port
                   /\ mail'["main"] = mail["main"] \o Released(<<value>>, port.subs)
                   /\ Released(<<value>>, port.subs) \in Seq(Posts)
                \/ /\ ~port.post /\ port' = [port EXCEPT !.sentBeforeInit = Append(@, value)]
                   /\ mail'["main"] = mail["main"]
<1> DEFINE value == Len(sent) + 1
<1>1. Typed(mail) /\ "main" \in Procs /\ port.subs \in Seq(Effect) /\ <<value>> \in Seq(Nat)
  BY DEF Types, TypeOK, Procs
<1>2. CASE port.post
  <2>1. mail' = postInitSend(mail, <<value>>, port.subs) /\ port' = port
    BY <1>2 DEF send
  <2> HIDE DEF value
  <2>2. /\ Released(<<value>>, port.subs) \in Seq(Posts)
        /\ Gives(mail, "main", Released(<<value>>, port.subs), mail')
    BY <1>1, <2>1, ReleasedType DEF Gives
  <2>3. /\ Typed(mail') /\ mail'["main"] = mail["main"] \o Released(<<value>>, port.subs)
        /\ \A home \in Managers : mail'[home] = mail[home]
    BY <1>1, <2>2, ProgramGets
  <2>4. QED
    BY <1>2, <2>1, <2>2, <2>3 DEF value
<1>3. CASE ~port.post
  BY <1>1, <1>3 DEF send
<1>4. QED
  BY <1>2, <1>3

LEMMA FxMail ==
  ASSUME Types, fxOnMessage
  PROVE  /\ Typed(mail') /\ mail'["out"] = mail["out"] /\ mail'["in"] = mail["in"]
         /\ \/ mail'["main"] = mail["main"]
            \/ \E post \in Posts : post.home = "fx" /\ mail'["main"] = Append(mail["main"], post)
<1> DEFINE msg == Head(mail["fx"])
           rest == [mail EXCEPT !["fx"] = Tail(@)]
<1>1. Typed(mail) /\ mail["fx"] # <<>> /\ {"fx", "main"} \subseteq Procs /\ "fx" \in Managers
  BY DEF Types, fxOnMessage, Procs, Managers
<1>2. msg \in Messages /\ msg.cmds \in Seq(Effect)
  BY <1>1, FirstMessage
<1>3. mail' = IF msg.ctor = "self" THEN sendToApp(rest, "fx", msg.cmds[1])
              ELSE sendToSelf(rest, "fx", msg.cmds)
  BY DEF fxOnMessage
<1>4. Typed(rest) /\ \A p \in Procs \ {"fx"} : rest[p] = mail[p]
  <2>1. Takes(mail, "fx", rest)
    BY DEF Takes
  <2> HIDE DEF rest
  <2>2. QED
    BY <1>1, <2>1, TakenType
<1> HIDE DEF msg, rest
<1>5. CASE msg.ctor = "self"
  <2> DEFINE post == [home |-> "fx", value |-> msg.cmds[1].value, taggers |-> msg.cmds[1].taggers]
  <2>1. mail' = [rest EXCEPT !["main"] = Append(@, post)]
    BY <1>3, <1>5 DEF sendToApp, Send
  <2>2. post \in Posts
    <3>1. Len(msg.cmds) = 1
      BY <1>2, <1>5 DEF Messages
    <3>2. msg.cmds[1] \in Effect
      BY <1>2, <3>1
    <3>3. QED
      BY <3>2 DEF Posts, Effect
  <2>3. rest["main"] \in Seq(Posts)
    BY <1>4 DEF Typed
  <2> HIDE DEF post
  <2>4. Append(rest["main"], post) = rest["main"] \o <<post>> /\ <<post>> \in Seq(Posts)
    BY <2>2, <2>3
  <2>5. Gives(rest, "main", <<post>>, mail')
    BY <2>1, <2>4 DEF Gives
  <2>6. Typed(mail') /\ mail'["main"] = rest["main"] \o <<post>> /\ \A home \in Managers : mail'[home] = rest[home]
    BY <1>4, <2>4, <2>5, ProgramGets
  <2>7. mail'["main"] = Append(mail["main"], post) /\ post.home = "fx"
    BY <1>4, <2>4, <2>6 DEF Procs, post
  <2>8. QED
    BY <1>4, <2>2, <2>6, <2>7 DEF Procs, Managers
<1>6. CASE msg.ctor # "self"
  <2> DEFINE more == [i \in DOMAIN msg.cmds |-> [ctor |-> "self", cmds |-> <<msg.cmds[i]>>, subs |-> <<>>]]
  <2>1. Gives(rest, "fx", more, mail')
    BY <1>3, <1>6 DEF sendToSelf, Gives
  <2>2. more \in Seq(Messages)
    <3> DEFINE Self(i) == [ctor |-> "self", cmds |-> <<msg.cmds[i]>>, subs |-> <<>>]
    <3>1. ASSUME NEW i \in DOMAIN msg.cmds PROVE Self(i) \in Messages
      <4>1. msg.cmds[i] \in Effect
        BY <1>2
      <4>2. <<msg.cmds[i]>> \in Seq(Effect) /\ Len(<<msg.cmds[i]>>) = 1 /\ <<>> \in Seq(Effect)
        BY <4>1
      <4>3. QED
        BY <4>2 DEF Messages
    <3>2. more = [i \in 1..Len(msg.cmds) |-> Self(i)] /\ Len(msg.cmds) \in Nat /\ DOMAIN msg.cmds = 1..Len(msg.cmds)
      BY <1>2
    <3> HIDE DEF Self, more
    <3>3. QED
      BY <3>1, <3>2
  <2> HIDE DEF more
  <2>3. Typed(mail') /\ \A p \in Procs \ {"fx"} : mail'[p] = rest[p]
    BY <1>1, <1>4, <2>1, <2>2, ManagerGets
  <2>4. QED
    BY <1>4, <2>3 DEF Procs
<1>7. QED
  BY <1>5, <1>6

-----------------------------------------------------------------------------
(* The outgoing port *)

Listens(list) ==
  /\ \E i \in DOMAIN list : list[i] = Display
  /\ \A i, j \in DOMAIN list : list[i] = Display /\ list[j] = Display => i = j

(* Display listens, once, in the array the port has and in the one its     *)
(* loop goes through.                                                      *)
CallInv ==
  /\ Types /\ sent \in Seq(Nat)
  /\ Listens(subs)
  /\ Calling => loop.i \in 0..Len(currentSubs) /\ Listens(currentSubs)
  /\ ~Calling => loop = NotCalling

(* The types of everything but the mail and the port's two lists.          *)
LEMMA TypesFrom ==
  ASSUME Types, Typed(mail'), started' \in BOOLEAN, model' \in SubBags, updates' \in 0..MaxUpdates,
         subs' \in Seq(Callbacks), loop' \in Callers,
         port' \in [post : BOOLEAN, sentBeforeInit : Seq(Nat), subs : Seq(Effect)],
         port'.post => port'.sentBeforeInit = <<>>
  PROVE  Types'
BY DEF Types, TypeOK, Typed, Procs, Managers

LEMMA SubscribeListens ==
  ASSUME NEW list \in Seq(Callbacks), NEW c \in Callbacks, c # Display, Listens(list)
  PROVE  /\ Append(list, c) \in Seq(Callbacks) /\ Listens(Append(list, c))
         /\ Len(Append(list, c)) = Len(list) + 1
         /\ \A i \in 1..Len(list) : Append(list, c)[i] = list[i]
<1> DEFINE new == Append(list, c)
<1>1. /\ new \in Seq(Callbacks) /\ Len(new) = Len(list) + 1 /\ Len(list) \in Nat
      /\ DOMAIN list = 1..Len(list) /\ DOMAIN new = 1..(Len(list) + 1)
      /\ \A i \in 1..Len(list) : new[i] = list[i]
      /\ new[Len(list) + 1] = c
  OBVIOUS
<1> HIDE DEF new
<1>2. \A i \in DOMAIN new : i \in DOMAIN list \/ i = Len(list) + 1
  BY <1>1
<1>3. \A i \in DOMAIN list : i \in DOMAIN new
  BY <1>1
<1>4. \E i \in DOMAIN new : new[i] = Display
  BY <1>1, <1>3 DEF Listens
<1>5. ASSUME NEW i \in DOMAIN new, NEW j \in DOMAIN new, new[i] = Display, new[j] = Display PROVE i = j
  <2>1. i \in DOMAIN list /\ j \in DOMAIN list
    BY <1>1, <1>2, <1>5
  <2>2. QED
    BY <1>1, <1>5, <2>1 DEF Listens
<1>6. QED
  BY <1>1, <1>4, <1>5 DEF Listens, new

LEMMA SpliceListens ==
  ASSUME subs \in Seq(Callbacks), Listens(subs), NEW c \in Callbacks, c # Display, Splice(c)
  PROVE  subs' \in Seq(Callbacks) /\ Listens(subs')
<1>1. CASE subs' = subs
  BY <1>1 DEF Listens
<1>2. ASSUME NEW index \in DOMAIN subs, subs[index] = c,
             subs' = [i \in 1..(Len(subs) - 1) |-> IF i < index THEN subs[i] ELSE subs[i + 1]]
      PROVE  subs' \in Seq(Callbacks) /\ Listens(subs')
  <2> DEFINE n == Len(subs)
             Old(i) == IF i < index THEN i ELSE i + 1
  <2>1. n \in Nat /\ n > 0 /\ DOMAIN subs = 1..n /\ index \in 1..n
    BY <1>2
  <2>2. \A i \in 1..(n - 1) : Old(i) \in 1..n /\ subs'[i] = subs[Old(i)]
    BY <1>2, <2>1
  <2>3. \A i, j \in 1..(n - 1) : Old(i) = Old(j) => i = j
    BY <2>1
  <2>4. \A k \in 1..n : k # index => \E i \in 1..(n - 1) : Old(i) = k
    <3>1. ASSUME NEW k \in 1..n, k < index PROVE k \in 1..(n - 1) /\ Old(k) = k
      BY <2>1, <3>1
    <3>2. ASSUME NEW k \in 1..n, k > index PROVE k - 1 \in 1..(n - 1) /\ Old(k - 1) = k
      BY <2>1, <3>2
    <3>3. \A k \in 1..n : k < index \/ k = index \/ k > index
      BY <2>1
    <3>4. QED
      BY <3>1, <3>2, <3>3
  <2>5. DOMAIN subs' = 1..(n - 1) /\ n - 1 \in Nat
    BY <1>2, <2>1
  <2>6. \A k \in 1..n : subs[k] \in Callbacks
    BY <2>1
  <2> HIDE DEF n, Old
  <2>7. subs' \in [1..(n - 1) -> Callbacks]
    BY <1>2, <2>2, <2>5, <2>6 DEF n
  <2>8. subs' \in Seq(Callbacks)
    BY <2>5, <2>7
  <2>9. PICK k \in 1..n : subs[k] = Display
    BY <2>1 DEF Listens
  <2>10. k # index
    BY <1>2, <2>9
  <2>11. \E i \in 1..(n - 1) : subs'[i] = Display
    BY <2>2, <2>4, <2>9, <2>10
  <2>12. ASSUME NEW i \in 1..(n - 1), NEW j \in 1..(n - 1), subs'[i] = Display, subs'[j] = Display PROVE i = j
    <3>1. subs[Old(i)] = Display /\ subs[Old(j)] = Display /\ Old(i) \in 1..n /\ Old(j) \in 1..n
      BY <2>2, <2>12
    <3>2. Old(i) = Old(j)
      BY <2>1, <3>1 DEF Listens
    <3>3. QED
      BY <2>3, <3>2
  <2>13. QED
    BY <2>5, <2>8, <2>11, <2>12 DEF Listens
<1>3. QED
  BY <1>1, <1>2 DEF Splice

LEMMA CallInit == Init => CallInv
<1> SUFFICES ASSUME Init PROVE CallInv
  OBVIOUS
<1>1. Types /\ sent \in Seq(Nat)
  BY TypesInit DEF Init
<1>2. loop = NotCalling /\ ~Calling
  BY DEF Init, NotCalling, Calling
<1>3. Listens(subs)
  <2>1. CASE subs = <<Display>>
    BY <2>1 DEF Listens
  <2>2. ASSUME NEW c \in Callbacks \ {Display}, subs = <<c, Display>> PROVE Listens(subs)
    <3>1. DOMAIN subs = 1..2 /\ subs[1] = c /\ subs[2] = Display
      BY <2>2
    <3>2. QED
      BY <2>2, <3>1 DEF Listens
  <2>3. QED
    BY <2>1, <2>2 DEF Init
<1>4. QED
  BY <1>1, <1>2, <1>3 DEF CallInv

(* A list without its first element.                                       *)
LEMMA Rest ==
  ASSUME NEW S, NEW list \in Seq(S), list # <<>>
  PROVE  /\ Tail(list) \in Seq(S) /\ Head(list) \in S /\ Len(list) \in Nat /\ Len(list) > 0
         /\ Head(list) = list[1] /\ Len(Tail(list)) = Len(list) - 1
         /\ \A i \in 1..(Len(list) - 1) : Tail(list)[i] = list[i + 1]
         /\ Len(list) = 1 <=> Tail(list) = <<>>
<1>1. /\ Tail(list) \in Seq(S) /\ Head(list) \in S /\ Len(list) \in Nat /\ Len(list) > 0
      /\ Head(list) = list[1] /\ Len(Tail(list)) = Len(list) - 1
      /\ \A i \in 1..(Len(list) - 1) : Tail(list)[i] = list[i + 1]
  OBVIOUS
<1> DEFINE rest == Tail(list)
<1>2. rest \in Seq(S) /\ Len(rest) = Len(list) - 1
  BY <1>1
<1> HIDE DEF rest
<1>3. Len(rest) = 0 <=> rest = <<>>
  BY <1>2, EmptySeq
<1>4. Len(list) = 1 <=> rest = <<>>
  BY <1>1, <1>2, <1>3
<1>5. QED
  BY <1>1, <1>4 DEF rest

(* Steps that leave the outgoing port alone.                               *)
LEMMA CallQuiet ==
  ASSUME CallInv, Types', sent' \in Seq(Nat), UNCHANGED <<subs, loop>>
  PROVE  CallInv'
<1>1. currentSubs' = currentSubs /\ Calling' = Calling
  BY DEF currentSubs, Calling
<1>2. QED
  BY <1>1 DEF CallInv, Listens

LEMMA UpdateCalls ==
  ASSUME CallInv, initApp \/ onMessage
  PROVE  CallInv'
<1>1. Types /\ sent \in Seq(Nat)
  BY DEF CallInv
<1>2. /\ started' = TRUE /\ updates' \in 0..MaxUpdates /\ Typed(mail') /\ model' \in SubBags
      /\ UNCHANGED <<subs, loop, port, sent>>
  BY <1>1, UpdateMail
<1>3. Types'
  BY <1>1, <1>2, TypesFrom DEF Types, TypeOK
<1>4. QED
  BY <1>1, <1>2, <1>3, CallQuiet

LEMMA OutCalls ==
  ASSUME CallInv, outOnEffects
  PROVE  CallInv' /\ loop'.i = 0 /\ loop'.cmds = Head(mail["out"]).cmds
<1> DEFINE cmds == Head(mail["out"]).cmds
<1>1. Types /\ sent \in Seq(Nat) /\ Typed(mail') /\ mail["out"] # <<>>
  BY OutMail DEF CallInv, outOnEffects
<1>2. cmds \in Seq(Effect)
  BY <1>1, FirstMessage DEF Managers
<1>3. /\ loop' = IF cmds = <<>> THEN NotCalling ELSE [cmds |-> cmds, subs |-> subs, i |-> 0, same |-> TRUE]
      /\ UNCHANGED <<started, model, updates, subs, port, sent>>
  BY DEF outOnEffects
<1> HIDE DEF cmds
<1>4. subs \in Seq(Callbacks)
  BY <1>1 DEF Types, TypeOK
<1>5. loop' \in Callers /\ loop'.i = 0 /\ loop'.cmds = cmds /\ (cmds # <<>> => loop'.same)
  BY <1>2, <1>3, <1>4 DEF Callers, NotCalling
<1>6. Types'
  BY <1>1, <1>3, <1>5, TypesFrom DEF Types, TypeOK
<1>7. CASE cmds = <<>>
  BY <1>1, <1>3, <1>5, <1>6, <1>7 DEF CallInv, Calling, Listens, cmds
<1>8. CASE cmds # <<>>
  <2>1. currentSubs' = subs /\ Calling'
    BY <1>3, <1>5, <1>8 DEF currentSubs, Calling
  <2>2. loop'.i \in 0..Len(subs)
    BY <1>4, <1>5
  <2>3. QED
    BY <1>1, <1>3, <1>5, <1>6, <2>1, <2>2 DEF CallInv, Listens, cmds
<1>9. QED
  BY <1>7, <1>8

LEMMA CallNextCalls ==
  ASSUME CallInv, CallNext
  PROVE  /\ CallInv' /\ currentSubs' = currentSubs /\ loop'.i = loop.i + 1 /\ loop'.cmds = loop.cmds
         /\ loop.i + 1 \in DOMAIN currentSubs
<1>1. Types /\ sent \in Seq(Nat) /\ Calling /\ loop.i < Len(currentSubs) /\ loop \in Callers
  BY DEF CallInv, CallNext, Types, TypeOK
<1>2. currentSubs \in Seq(Callbacks) /\ loop.i \in Nat
  BY <1>1 DEF currentSubs, Callers, Types, TypeOK
<1>3. loop' = [loop EXCEPT !.i = @ + 1] /\ UNCHANGED <<mail, started, model, updates, subs, port, sent>>
  BY DEF CallNext
<1>4. /\ loop' \in Callers /\ loop'.i = loop.i + 1 /\ loop'.cmds = loop.cmds
      /\ loop'.subs = loop.subs /\ loop'.same = loop.same
  <2>1. \A l \in Callers : LET new == [l EXCEPT !.i = @ + 1]
                            IN  /\ new.i = l.i + 1 /\ new.cmds = l.cmds /\ new.subs = l.subs /\ new.same = l.same
                                /\ new = [cmds |-> l.cmds, subs |-> l.subs, i |-> l.i + 1, same |-> l.same]
    BY DEF Callers
  <2>2. \A l \in Callers : l.i + 1 \in Nat /\ l.cmds \in Seq(Effect) /\ l.subs \in Seq(Callbacks) /\ l.same \in BOOLEAN
    BY DEF Callers
  <2>3. \A l \in Callers : [l EXCEPT !.i = @ + 1] \in Callers
    BY <2>1, <2>2 DEF Callers
  <2>4. QED
    BY <1>1, <1>3, <2>1, <2>3
<1>5. Typed(mail')
  BY <1>1, <1>3 DEF Types
<1>6. Types'
  BY <1>1, <1>3, <1>4, <1>5, TypesFrom DEF Types, TypeOK
<1>7. currentSubs' = currentSubs /\ Calling'
  BY <1>1, <1>3, <1>4 DEF currentSubs, Calling
<1>8. loop.i + 1 \in 1..Len(currentSubs) /\ Len(currentSubs) \in Nat /\ DOMAIN currentSubs = 1..Len(currentSubs)
  BY <1>1, <1>2
<1>9. loop'.i \in 0..Len(currentSubs)
  BY <1>4, <1>8
<1>10. CallInv'
  BY <1>1, <1>3, <1>6, <1>7, <1>9 DEF CallInv, Listens
<1>11. QED
  BY <1>4, <1>7, <1>8, <1>10

LEMMA NextCommandCalls ==
  ASSUME CallInv, NextCommand
  PROVE  /\ CallInv' /\ loop'.i = 0 /\ loop'.cmds = Tail(loop.cmds)
         /\ \E i \in 1..loop.i : currentSubs[i] = Display
<1>1. Types /\ sent \in Seq(Nat) /\ Calling /\ loop.i >= Len(currentSubs) /\ loop \in Callers
  BY DEF CallInv, NextCommand, Types, TypeOK
<1>2. /\ currentSubs \in Seq(Callbacks) /\ loop.i \in Nat /\ loop.cmds \in Seq(Effect) /\ loop.cmds # <<>>
      /\ subs \in Seq(Callbacks)
  BY <1>1 DEF currentSubs, Callers, Types, TypeOK, Calling
<1>3. /\ loop' = IF Len(loop.cmds) = 1 THEN NotCalling
                 ELSE [cmds |-> Tail(loop.cmds), subs |-> subs, i |-> 0, same |-> TRUE]
      /\ UNCHANGED <<mail, started, model, updates, subs, port, sent>>
  BY DEF NextCommand
<1> DEFINE rest == Tail(loop.cmds)
<1>4. rest \in Seq(Effect) /\ (Len(loop.cmds) = 1 <=> rest = <<>>)
  BY <1>2, Rest
<1>5. /\ loop' \in Callers /\ loop'.i = 0 /\ loop'.cmds = rest
      /\ rest # <<>> => loop'.same
  <2>1. CASE rest = <<>>
    <3>1. loop' = NotCalling
      BY <1>3, <1>4, <2>1
    <3> HIDE DEF rest
    <3>2. NotCalling \in Callers /\ NotCalling.i = 0 /\ NotCalling.cmds = <<>>
      BY DEF NotCalling, Callers
    <3>3. QED
      BY <2>1, <3>1, <3>2
  <2>2. CASE rest # <<>>
    <3>1. loop' = [cmds |-> rest, subs |-> subs, i |-> 0, same |-> TRUE]
      BY <1>3, <1>4, <2>2
    <3> HIDE DEF rest
    <3>2. QED
      BY <1>2, <1>4, <2>2, <3>1 DEF Callers
  <2>3. QED
    BY <2>1, <2>2
<1>6. Typed(mail')
  BY <1>1, <1>3 DEF Types
<1>7. Types'
  BY <1>1, <1>3, <1>5, <1>6, TypesFrom DEF Types, TypeOK
<1>8. CallInv'
  <2>1. CASE Tail(loop.cmds) = <<>>
    BY <1>1, <1>3, <1>4, <1>5, <1>7, <2>1 DEF CallInv, Calling, Listens
  <2>2. CASE Tail(loop.cmds) # <<>>
    <3>1. currentSubs' = subs /\ Calling'
      BY <1>3, <1>5, <2>2 DEF currentSubs, Calling
    <3>2. loop'.i \in 0..Len(subs)
      BY <1>2, <1>5
    <3>3. QED
      BY <1>1, <1>3, <1>7, <3>1, <3>2 DEF CallInv, Listens
  <2>3. QED
    BY <2>1, <2>2
<1>9. PICK i \in DOMAIN currentSubs : currentSubs[i] = Display
  BY <1>1 DEF CallInv, Listens
<1>10. i \in 1..loop.i
  BY <1>1, <1>2, <1>9
<1>11. QED
  BY <1>5, <1>8, <1>9, <1>10

LEMMA ScriptCalls ==
  ASSUME CallInv, NEW c \in Callbacks, subscribe(c) \/ unsubscribe(c)
  PROVE  /\ CallInv' /\ loop'.i = loop.i /\ loop'.cmds = loop.cmds
         /\ \A i \in 1..loop.i : currentSubs'[i] = currentSubs[i]
<1>1. /\ Types /\ sent \in Seq(Nat) /\ loop \in Callers /\ subs \in Seq(Callbacks) /\ Listens(subs)
      /\ c # Display /\ UNCHANGED <<mail, started, model, updates, port, sent>>
  BY DEF CallInv, Types, TypeOK, subscribe, unsubscribe
<1>2. Typed(mail')
  BY <1>1 DEF Types
<1>3. currentSubs \in Seq(Callbacks)
  BY <1>1 DEF currentSubs, Callers
<1>4. CASE subscribe(c)
  <2>1. subs' = Append(subs, c) /\ loop' = loop
    BY <1>4 DEF subscribe
  <2>2. /\ subs' \in Seq(Callbacks) /\ Listens(subs') /\ Len(subs') = Len(subs) + 1 /\ Len(subs) \in Nat
        /\ \A i \in 1..Len(subs) : subs'[i] = subs[i]
    BY <1>1, <2>1, SubscribeListens
  <2>3. Types'
    BY <1>1, <1>2, <2>1, <2>2, TypesFrom DEF Types, TypeOK
  <2>4. CASE Calling /\ loop.same
    <3>1. currentSubs = subs /\ currentSubs' = subs' /\ Calling' /\ loop.i \in 0..Len(subs)
      BY <2>1, <2>4 DEF currentSubs, Calling, CallInv
    <3>2. loop.i \in 0..Len(subs')
      BY <2>2, <3>1
    <3>3. \A i \in 1..loop.i : subs'[i] = subs[i]
      BY <2>2, <3>1
    <3>4. QED
      BY <1>1, <2>1, <2>2, <2>3, <3>1, <3>2, <3>3 DEF CallInv, Listens
  <2>5. CASE Calling /\ ~loop.same
    <3>1. currentSubs' = currentSubs /\ Calling'
      BY <2>1, <2>5 DEF currentSubs, Calling
    <3>2. QED
      BY <1>1, <2>1, <2>2, <2>3, <2>5, <3>1 DEF CallInv, Listens
  <2>6. CASE ~Calling
    <3>1. loop.i = 0 /\ 1..0 = {} /\ ~Calling' /\ loop = NotCalling
      BY <2>1, <2>6 DEF CallInv, NotCalling, Calling
    <3>2. QED
      BY <1>1, <2>1, <2>2, <2>3, <3>1 DEF CallInv, Listens
  <2>7. QED
    BY <2>4, <2>5, <2>6
<1>5. CASE unsubscribe(c)
  <2>1. Splice(c) /\ loop' = IF Calling THEN [loop EXCEPT !.subs = currentSubs, !.same = FALSE] ELSE loop
    BY <1>5 DEF unsubscribe
  <2>2. subs' \in Seq(Callbacks) /\ Listens(subs')
    BY <1>1, <2>1, SpliceListens
  <2>3. loop' \in Callers /\ loop'.i = loop.i /\ loop'.cmds = loop.cmds
    BY <1>1, <1>3, <2>1 DEF Callers
  <2>4. Types'
    BY <1>1, <1>2, <2>2, <2>3, TypesFrom DEF Types, TypeOK
  <2>5. CASE Calling
    <3>1. loop'.subs = currentSubs /\ ~loop'.same
      BY <1>1, <2>1, <2>5 DEF Callers
    <3>2. currentSubs' = currentSubs /\ Calling'
      BY <2>3, <2>5, <3>1 DEF currentSubs, Calling
    <3>3. QED
      BY <1>1, <2>2, <2>3, <2>4, <2>5, <3>2 DEF CallInv, Listens
  <2>6. CASE ~Calling
    <3>1. loop.i = 0 /\ 1..0 = {} /\ ~Calling' /\ loop' = NotCalling
      BY <2>1, <2>6 DEF CallInv, NotCalling, Calling
    <3>2. QED
      BY <1>1, <2>2, <2>3, <2>4, <3>1 DEF CallInv, Listens
  <2>7. QED
    BY <2>5, <2>6
<1>6. QED
  BY <1>4, <1>5

LEMMA InCalls ==
  ASSUME CallInv, inOnEffects
  PROVE  CallInv'
<1>1. Types /\ sent \in Seq(Nat) /\ UNCHANGED <<started, model, updates, subs, loop, sent>>
  BY DEF CallInv, inOnEffects
<1>2. /\ Typed(mail') /\ Head(mail["in"]).subs \in Seq(Effect)
      /\ port' = [post |-> TRUE, sentBeforeInit |-> <<>>, subs |-> Head(mail["in"]).subs]
  BY <1>1, InMail
<1>3. Types'
  BY <1>1, <1>2, TypesFrom DEF Types, TypeOK
<1>4. QED
  BY <1>1, <1>3, CallQuiet

LEMMA PortRecord ==
  ASSUME NEW S, NEW T, NEW p \in [post : BOOLEAN, sentBeforeInit : S, subs : T], NEW v
  PROVE  [p EXCEPT !.sentBeforeInit = Append(@, v)]
           = [post |-> p.post, sentBeforeInit |-> Append(p.sentBeforeInit, v), subs |-> p.subs]
OBVIOUS

LEMMA SendCalls ==
  ASSUME CallInv, send
  PROVE  CallInv'
<1>1. /\ Types /\ sent \in Seq(Nat) /\ UNCHANGED <<started, model, updates, subs, loop>>
      /\ sent' = Append(sent, Len(sent) + 1)
  BY DEF CallInv, send
<1>2. Len(sent) \in Nat /\ sent' \in Seq(Nat)
  BY <1>1
<1> DEFINE later == [port EXCEPT !.sentBeforeInit = Append(@, Len(sent) + 1)]
<1>3. Typed(mail')
  BY <1>1, <1>2, SendMail
<1>31. port' = port \/ (~port.post /\ port' = later)
  BY DEF send
<1>4. port \in [post : BOOLEAN, sentBeforeInit : Seq(Nat), subs : Seq(Effect)] /\ (port.post => port.sentBeforeInit = <<>>)
  BY <1>1 DEF Types, TypeOK
<1>5. /\ port' \in [post : BOOLEAN, sentBeforeInit : Seq(Nat), subs : Seq(Effect)]
      /\ port'.post => port'.sentBeforeInit = <<>>
  <2>1. port.sentBeforeInit \in Seq(Nat) /\ Len(sent) + 1 \in Nat
    BY <1>2, <1>4
  <2>2. Append(port.sentBeforeInit, Len(sent) + 1) \in Seq(Nat)
    BY <2>1
  <2>3. later = [post |-> port.post, sentBeforeInit |-> Append(port.sentBeforeInit, Len(sent) + 1), subs |-> port.subs]
    BY <1>4, PortRecord
  <2> HIDE DEF later
  <2>4. later \in [post : BOOLEAN, sentBeforeInit : Seq(Nat), subs : Seq(Effect)] /\ later.post = port.post
    BY <1>4, <2>2, <2>3
  <2>5. QED
    BY <1>31, <1>4, <2>4
<1>6. Types'
  BY <1>1, <1>3, <1>5, TypesFrom DEF Types, TypeOK
<1>7. QED
  BY <1>1, <1>2, <1>6, CallQuiet

LEMMA FxCalls ==
  ASSUME CallInv, fxOnMessage
  PROVE  CallInv'
<1>1. Types /\ sent \in Seq(Nat) /\ UNCHANGED <<started, model, updates, subs, loop, port, sent>>
  BY DEF CallInv, fxOnMessage
<1>2. Typed(mail')
  BY <1>1, FxMail
<1>3. Types'
  BY <1>1, <1>2, TypesFrom DEF Types, TypeOK
<1>4. QED
  BY <1>1, <1>3, CallQuiet

LEMMA UpTo == \A n \in Nat : \A k \in 1..(n + 1) : k = n + 1 \/ k \in 1..n
OBVIOUS

LEMMA NextUp == \A n, m \in Nat : \A k \in 1..(m - 1) : k + 1 \in 1..m /\ (n + 1) + k = n + (k + 1)
OBVIOUS

LEMMA SeqOf == ASSUME NEW S, NEW n \in Nat, NEW f \in [1..n -> S] PROVE f \in Seq(S) /\ Len(f) = n
OBVIOUS

(* The values of a list of commands.                                       *)
LEMMA ValuesType ==
  ASSUME NEW effects \in Seq(Effect)
  PROVE  /\ ValuesOf(effects) \in Seq(Values) /\ Len(ValuesOf(effects)) = Len(effects)
         /\ \A i \in 1..Len(effects) : ValuesOf(effects)[i] = effects[i].value
<1>0. Len(effects) \in Nat /\ DOMAIN effects = 1..Len(effects) /\ \A i \in 1..Len(effects) : effects[i] \in Effect
  OBVIOUS
<1>1. Len(effects) \in Nat /\ \A i \in 1..Len(effects) : effects[i].value \in Values
  BY <1>0 DEF Effect
<1>2. ValuesOf(effects) = [i \in 1..Len(effects) |-> effects[i].value]
  BY <1>0 DEF ValuesOf
<1>3. QED
  BY <1>1, <1>2

LEMMA NoValues == ValuesOf(<<>>) = <<>>
<1>1. <<>> \in Seq(Effect) /\ Len(<<>>) = 0
  OBVIOUS
<1>2. ValuesOf(<<>>) \in Seq(Values) /\ Len(ValuesOf(<<>>)) = 0
  BY <1>1, ValuesType
<1>3. QED
  BY <1>2, EmptySeq

LEMMA FirstValue ==
  ASSUME NEW effects \in Seq(Effect), effects # <<>>
  PROVE  /\ ValuesOf(effects) = <<Head(effects).value>> \o ValuesOf(Tail(effects))
         /\ Head(effects).value \in Values /\ ValuesOf(Tail(effects)) \in Seq(Values)
<1> DEFINE rest == Tail(effects)
           n == Len(effects)
           v == Head(effects).value
<1>1. /\ rest \in Seq(Effect) /\ Head(effects) \in Effect /\ n \in Nat /\ n > 0
      /\ Head(effects) = effects[1] /\ Len(rest) = n - 1
      /\ \A i \in 1..(n - 1) : rest[i] = effects[i + 1]
  BY Rest
<1>2. v \in Values /\ v = effects[1].value
  BY <1>1 DEF Effect
<1> DEFINE a == ValuesOf(effects)
           b == ValuesOf(rest)
<1>3. a \in Seq(Values) /\ Len(a) = n /\ \A i \in 1..n : a[i] = effects[i].value
  BY ValuesType
<1>4. b \in Seq(Values) /\ Len(b) = n - 1 /\ \A i \in 1..(n - 1) : b[i] = rest[i].value
  <2> HIDE DEF rest
  <2>1. QED
    BY <1>1, ValuesType
<1> HIDE DEF a, b, n, v, rest
<1>5. /\ <<v>> \o b \in Seq(Values) /\ Len(<<v>> \o b) = n /\ (<<v>> \o b)[1] = v
      /\ \A i \in 2..n : (<<v>> \o b)[i] = b[i - 1]
  BY <1>1, <1>2, <1>4
<1>6. \A i \in 2..n : i - 1 \in 1..(n - 1) /\ (i - 1) + 1 = i /\ i \in 1..n
  BY <1>1
<1>7. \A i \in 2..n : (<<v>> \o b)[i] = a[i]
  <2> SUFFICES ASSUME NEW i \in 2..n PROVE (<<v>> \o b)[i] = a[i]
    OBVIOUS
  <2>1. i - 1 \in 1..(n - 1) /\ (i - 1) + 1 = i /\ i \in 1..n
    BY <1>6
  <2>2. b[i - 1] = rest[i - 1].value /\ rest[i - 1] = effects[(i - 1) + 1]
    BY <1>1, <1>4, <2>1
  <2>3. (<<v>> \o b)[i] = b[i - 1] /\ a[i] = effects[i].value
    BY <1>3, <1>5, <2>1
  <2>4. QED
    BY <2>1, <2>2, <2>3
<1>8. \A i \in 1..n : (<<v>> \o b)[i] = a[i]
  <2>1. \A i \in 1..n : i = 1 \/ i \in 2..n
    BY <1>1
  <2>2. a[1] = v
    BY <1>1, <1>2, <1>3
  <2>3. QED
    BY <1>5, <1>7, <2>1, <2>2
<1>9. a = <<v>> \o b
  BY <1>1, <1>3, <1>5, <1>8, SeqEqual
<1>10. QED
  BY <1>2, <1>4, <1>9 DEF a, b, v, rest

(* The dispatches iss have led to the calls cal, but for lv of the last    *)
(* one and the messages in box.                                            *)
Agree(iss, cal, lv, box) ==
  /\ Len(cal) = Len(iss) - Len(box)
  /\ \A k \in 1..Len(cal) : iss[k] = cal[k] \o (IF k = Len(cal) THEN lv ELSE <<>>)
  /\ \A k \in DOMAIN box : iss[Len(cal) + k] = ValuesOf(box[k].cmds)

LEMMA AgreeDispatch ==
  ASSUME NEW iss \in Seq(Seq(Values)), NEW cal \in Seq(Seq(Values)), NEW lv \in Seq(Values),
         NEW box \in Seq(Messages), NEW msg \in Messages, Agree(iss, cal, lv, box)
  PROVE  Agree(Append(iss, ValuesOf(msg.cmds)), cal, lv, Append(box, msg))
<1> DEFINE v == ValuesOf(msg.cmds)
           i2 == Append(iss, v)
           b2 == Append(box, msg)
<1>1. /\ Len(iss) \in Nat /\ Len(cal) \in Nat /\ Len(box) \in Nat
      /\ Len(cal) = Len(iss) - Len(box) /\ DOMAIN box = 1..Len(box)
  BY DEF Agree
<1>2. v \in Seq(Values)
  BY ValuesType DEF Messages
<1> HIDE DEF v
<1>3. Len(i2) = Len(iss) + 1 /\ i2[Len(iss) + 1] = v /\ \A k \in 1..Len(iss) : i2[k] = iss[k]
  BY <1>2
<1>4. /\ Len(b2) = Len(box) + 1 /\ b2[Len(box) + 1] = msg /\ \A k \in 1..Len(box) : b2[k] = box[k]
      /\ DOMAIN b2 = 1..(Len(box) + 1)
  OBVIOUS
<1> HIDE DEF i2, b2
<1>5. Len(cal) = Len(i2) - Len(b2)
  BY <1>1, <1>3, <1>4
<1>6. \A k \in 1..Len(cal) : i2[k] = cal[k] \o (IF k = Len(cal) THEN lv ELSE <<>>)
  <2>1. \A k \in 1..Len(cal) : k \in 1..Len(iss)
    BY <1>1
  <2>2. \A k \in 1..Len(cal) : iss[k] = cal[k] \o (IF k = Len(cal) THEN lv ELSE <<>>)
    BY DEF Agree
  <2>3. QED
    BY <1>3, <2>1, <2>2
<1>7. ASSUME NEW k \in DOMAIN b2 PROVE i2[Len(cal) + k] = ValuesOf(b2[k].cmds)
  <2>1. CASE k \in 1..Len(box)
    <3>1. Len(cal) + k \in 1..Len(iss)
      BY <1>1, <2>1
    <3>2. QED
      BY <1>1, <1>3, <1>4, <2>1, <3>1 DEF Agree
  <2>2. CASE k = Len(box) + 1
    <3>1. Len(cal) + k = Len(iss) + 1
      BY <1>1, <2>2
    <3>2. QED
      BY <1>3, <1>4, <2>2, <3>1 DEF v
  <2>3. QED
    BY <1>1, <1>4, <2>1, <2>2
<1>8. QED
  BY <1>5, <1>6, <1>7 DEF Agree, i2, b2, v

LEMMA AgreeTaken ==
  ASSUME NEW iss \in Seq(Seq(Values)), NEW cal \in Seq(Seq(Values)),
         NEW box \in Seq(Messages), box # <<>>, Agree(iss, cal, <<>>, box)
  PROVE  Agree(iss, Append(cal, <<>>), ValuesOf(Head(box).cmds), Tail(box))
<1> DEFINE v == ValuesOf(Head(box).cmds)
           c2 == Append(cal, <<>>)
           b2 == Tail(box)
           n == Len(cal)
<1>1. /\ Len(iss) \in Nat /\ n \in Nat /\ Len(box) \in Nat
      /\ n = Len(iss) - Len(box) /\ DOMAIN box = 1..Len(box)
  BY DEF Agree
<1>2. /\ Len(box) > 0 /\ Head(box) = box[1] /\ Head(box) \in Messages /\ b2 \in Seq(Messages)
      /\ Len(b2) = Len(box) - 1 /\ \A k \in 1..(Len(box) - 1) : b2[k] = box[k + 1]
  BY Rest
<1>3. v \in Seq(Values)
  BY <1>2, ValuesType DEF Messages
<1>4. <<>> \in Seq(Values) /\ c2 \in Seq(Seq(Values))
  OBVIOUS
<1>5. c2[n + 1] = <<>>
  OBVIOUS
<1>51. Len(c2) = n + 1
  OBVIOUS
<1>52. \A k \in 1..n : c2[k] = cal[k]
  OBVIOUS
<1>6. DOMAIN b2 = 1..Len(b2)
  BY <1>2
<1>7. iss[n + 1] = v
  <2>1. 1 \in DOMAIN box
    BY <1>1, <1>2
  <2>2. QED
    BY <1>2, <2>1 DEF Agree
<1> HIDE DEF v, c2, b2
<1>8. \A k \in 1..n : iss[k] = cal[k] \o <<>>
  BY DEF Agree
<1> HIDE DEF n
<1>9. Len(c2) = Len(iss) - Len(b2)
  BY <1>1, <1>2, <1>51
<1>10. ASSUME NEW k \in 1..Len(c2) PROVE iss[k] = c2[k] \o (IF k = Len(c2) THEN v ELSE <<>>)
  <2>1. CASE k = n + 1
    <3>1. c2[k] = <<>> /\ k = Len(c2) /\ iss[k] = v
      BY <1>5, <1>51, <1>7, <2>1
    <3>2. <<>> \o v = v
      BY <1>3, ConcatEmptySeq
    <3>3. QED
      BY <3>1, <3>2
  <2>2. CASE k \in 1..n
    <3>1. k # n + 1
      BY <1>1, <2>2
    <3>2. k # Len(c2) /\ c2[k] = cal[k] /\ iss[k] = cal[k] \o <<>>
      BY <1>51, <1>52, <1>8, <2>2, <3>1
    <3>3. QED
      BY <3>2
  <2>3. k \in 1..(n + 1)
    BY <1>51
  <2>4. k = n + 1 \/ k \in 1..n
    BY <1>1, <2>3, UpTo
  <2>5. QED
    BY <2>1, <2>2, <2>4
<1>11. ASSUME NEW k \in DOMAIN b2 PROVE iss[Len(c2) + k] = ValuesOf(b2[k].cmds)
  <2>1. k + 1 \in DOMAIN box /\ k \in 1..(Len(box) - 1) /\ Len(c2) + k = n + (k + 1)
    <3> DEFINE m == Len(box)
    <3>1. m \in Nat /\ m > 0 /\ n \in Nat /\ DOMAIN box = 1..m /\ k \in 1..(m - 1) /\ Len(c2) = n + 1
      BY <1>1, <1>2, <1>51, <1>6
    <3> HIDE DEF m
    <3>2. k + 1 \in 1..m /\ (n + 1) + k = n + (k + 1)
      BY <3>1, NextUp
    <3>3. QED
      BY <3>1, <3>2 DEF m
  <2>2. iss[n + (k + 1)] = ValuesOf(box[k + 1].cmds)
    BY <2>1 DEF Agree, n
  <2>3. QED
    BY <1>2, <2>1, <2>2
<1>12. QED
  BY <1>9, <1>10, <1>11 DEF Agree, v, c2, b2

LEMMA AgreeCalled ==
  ASSUME NEW iss \in Seq(Seq(Values)), NEW cal \in Seq(Seq(Values)), NEW lv \in Seq(Values), NEW v \in Values,
         NEW box \in Seq(Messages), cal # <<>>, Agree(iss, cal, <<v>> \o lv, box)
  PROVE  LET c2 == [cal EXCEPT ![Len(cal)] = Append(@, v)]
         IN  c2 \in Seq(Seq(Values)) /\ c2 # <<>> /\ Agree(iss, c2, lv, box)
<1> DEFINE n == Len(cal)
           last == Append(cal[n], v)
           c2 == [cal EXCEPT ![n] = last]
<1>1. n \in Nat /\ n > 0 /\ DOMAIN cal = 1..n /\ n \in 1..n /\ \A k \in 1..n : cal[k] \in Seq(Values)
  BY EmptySeq
<1>2. cal[n] \in Seq(Values)
  BY <1>1
<1>3. last \in Seq(Values) /\ last \o lv = cal[n] \o (<<v>> \o lv)
  <2> DEFINE s == cal[n]
  <2>1. s \in Seq(Values)
    BY <1>2
  <2> HIDE DEF s
  <2>2. <<v>> \in Seq(Values) /\ Append(s, v) = s \o <<v>>
    BY <2>1
  <2>3. (s \o <<v>>) \o lv = s \o (<<v>> \o lv)
    BY <2>1, <2>2, ConcatAssociative
  <2>4. Append(s, v) \in Seq(Values)
    BY <2>1
  <2>5. QED
    BY <2>2, <2>3, <2>4 DEF s
<1> HIDE DEF last
<1>4. c2 = [k \in 1..n |-> IF k = n THEN last ELSE cal[k]]
  BY <1>1
<1>41. c2[n] = last /\ \A k \in 1..n : k # n => c2[k] = cal[k]
  BY <1>1, <1>4
<1> HIDE DEF c2
<1>5. c2 \in Seq(Seq(Values)) /\ Len(c2) = n
  <2>1. \A k \in 1..n : c2[k] \in Seq(Values)
    BY <1>1, <1>3, <1>41
  <2>2. c2 \in [1..n -> Seq(Values)]
    BY <1>4, <2>1
  <2>3. n \in Nat
    BY <1>1
  <2> HIDE DEF n
  <2>4. QED
    BY <2>2, <2>3, SeqOf
<1>6. c2 # <<>>
  BY <1>1, <1>5, EmptySeq
<1>7. ASSUME NEW k \in 1..n PROVE iss[k] = c2[k] \o (IF k = n THEN lv ELSE <<>>)
  <2>1. iss[k] = cal[k] \o (IF k = n THEN <<v>> \o lv ELSE <<>>)
    BY DEF Agree, n
  <2>2. CASE k = n
    BY <1>3, <1>41, <2>1, <2>2
  <2>3. CASE k # n
    BY <1>41, <2>1, <2>3
  <2>4. QED
    BY <2>2, <2>3
<1>8. n = Len(iss) - Len(box) /\ \A k \in DOMAIN box : iss[n + k] = ValuesOf(box[k].cmds)
  BY DEF Agree, n
<1>9. Agree(iss, c2, lv, box)
  BY <1>5, <1>7, <1>8 DEF Agree
<1>10. QED
  BY <1>5, <1>6, <1>9 DEF c2, last, n

Left == IF \E i \in 1..loop.i : currentSubs[i] = Display THEN Tail(loop.cmds) ELSE loop.cmds

(* Display gets every command, with what the induction needs: the call in  *)
(* progress has its list.                                                  *)
DisplayInv ==
  /\ CallInv
  /\ issued \in Seq(Seq(Values)) /\ called \in Seq(Seq(Values))
  /\ Calling => called # <<>>
  /\ Agree(issued, called, ValuesOf(Left), mail["out"])

LEMMA DisplayType ==
  ASSUME DisplayInv
  PROVE  /\ loop.cmds \in Seq(Effect) /\ Left \in Seq(Effect) /\ ValuesOf(Left) \in Seq(Values)
         /\ mail["out"] \in Seq(Messages) /\ currentSubs \in Seq(Callbacks)
<1>1. Types /\ loop.cmds \in Seq(Effect) /\ loop.i \in Nat /\ currentSubs \in Seq(Callbacks)
  BY DEF DisplayInv, CallInv, Types, TypeOK, Callers, currentSubs
<1>2. mail["out"] \in Seq(Messages)
  BY <1>1 DEF Types, Typed, Managers
<1>3. Left \in Seq(Effect)
  <2>1. CASE ~Calling
    <3>1. loop.i = 0 /\ 1..0 = {} /\ loop.cmds = <<>>
      BY <2>1 DEF DisplayInv, CallInv, NotCalling, Calling
    <3>2. Left = loop.cmds
      BY <3>1 DEF Left
    <3>3. QED
      BY <1>1, <3>2
  <2>2. CASE Calling
    <3>1. Tail(loop.cmds) \in Seq(Effect)
      BY <1>1, <2>2, Rest DEF Calling
    <3>2. QED
      BY <1>1, <3>1 DEF Left
  <2>3. QED
    BY <2>1, <2>2
<1>4. QED
  BY <1>1, <1>2, <1>3, ValuesType

LEMMA DisplayGets == DisplayInv => DisplayGetsAll
<1> SUFFICES ASSUME DisplayInv PROVE DisplayGetsAll
  OBVIOUS
<1>1. Agree(issued, called, ValuesOf(Left), mail["out"])
  BY DEF DisplayInv
<1>2. QED
  BY <1>1 DEF Agree, DisplayGetsAll, Left

LEMMA NothingLeft == ASSUME CallInv, ~Calling PROVE ValuesOf(Left) = <<>>
<1>1. loop.i = 0 /\ 1..0 = {} /\ loop.cmds = <<>>
  BY DEF CallInv, NotCalling, Calling
<1>2. Left = <<>>
  BY <1>1 DEF Left
<1>3. QED
  BY <1>2, NoValues

LEMMA DisplayInit == Init => DisplayInv
<1> SUFFICES ASSUME Init PROVE DisplayInv
  OBVIOUS
<1>1. CallInv /\ ~Calling /\ Types
  BY CallInit DEF Init, Calling, NotCalling, CallInv
<1>2. issued = <<>> /\ called = <<>> /\ mail["out"] = <<>>
  BY DEF Init, Managers
<1>3. Agree(<<>>, <<>>, ValuesOf(Left), <<>>)
  BY DEF Agree
<1>4. QED
  BY <1>1, <1>2, <1>3 DEF DisplayInv

LEMMA AgreeNext ==
  ASSUME NEW iss, NEW cal, NEW lv, NEW box, Agree(iss, cal, lv, box),
         issued' = iss, called' = cal, ValuesOf(Left') = lv, mail'["out"] = box
  PROVE  Agree(issued, called, ValuesOf(Left), mail["out"])'
<1>1. Agree(issued', called', ValuesOf(Left'), mail'["out"])
  OBVIOUS
<1>2. QED
  BY <1>1 DEF Agree, ValuesOf

(* Steps that leave the outgoing port and its mail alone.                  *)
LEMMA DisplayQuiet ==
  ASSUME DisplayInv, CallInv', UNCHANGED <<subs, loop, issued, called>>, mail'["out"] = mail["out"]
  PROVE  DisplayInv'
<1>1. currentSubs' = currentSubs /\ Calling' = Calling
  BY DEF currentSubs, Calling
<1>2. Left' = Left
  BY <1>1 DEF Left
<1>3. Agree(issued, called, ValuesOf(Left), mail["out"])'
  BY <1>2, AgreeNext DEF DisplayInv
<1>4. QED
  BY <1>1, <1>3 DEF DisplayInv

LEMMA UpdateDisplays ==
  ASSUME DisplayInv, initApp \/ onMessage
  PROVE  DisplayInv'
<1>1. CallInv /\ CallInv' /\ Types
  BY UpdateCalls DEF DisplayInv, CallInv
<1>2. UNCHANGED <<subs, loop, called>> /\ \E fx : Dispatched(fx)
  BY <1>1, UpdateMail
<1>3. PICK fx : Dispatched(fx)
  BY <1>2
<1> DEFINE msg == FxMsg(fx["out"])
<1>4. /\ msg \in Messages /\ msg.cmds = fx["out"].cmds /\ mail'["out"] = Append(mail["out"], msg)
      /\ issued' = Append(issued, ValuesOf(fx["out"].cmds)) /\ fx["out"].cmds \in Seq(Effect)
  BY <1>3 DEF Dispatched, Managers
<1> HIDE DEF msg
<1>5. currentSubs' = currentSubs /\ Calling' = Calling
  BY <1>2 DEF currentSubs, Calling
<1>6. Left' = Left
  BY <1>2, <1>5 DEF Left
<1>7. ValuesOf(Left) \in Seq(Values) /\ mail["out"] \in Seq(Messages)
  BY DisplayType
<1>8. /\ issued \in Seq(Seq(Values)) /\ called \in Seq(Seq(Values)) /\ (Calling => called # <<>>)
      /\ Agree(issued, called, ValuesOf(Left), mail["out"])
  BY DEF DisplayInv
<1>9. issued' = Append(issued, ValuesOf(msg.cmds))
  BY <1>4
<1>10. Agree(Append(issued, ValuesOf(msg.cmds)), called, ValuesOf(Left), Append(mail["out"], msg))
  BY <1>4, <1>7, <1>8, AgreeDispatch
<1>11. Agree(issued, called, ValuesOf(Left), mail["out"])'
  BY <1>2, <1>4, <1>6, <1>9, <1>10, AgreeNext
<1>12. issued' \in Seq(Seq(Values))
  <2>1. ValuesOf(fx["out"].cmds) \in Seq(Values)
    BY <1>4, ValuesType
  <2>2. QED
    BY <1>4, <1>8, <2>1
<1>13. QED
  BY <1>1, <1>2, <1>5, <1>8, <1>11, <1>12 DEF DisplayInv

LEMMA OutDisplays ==
  ASSUME DisplayInv, outOnEffects
  PROVE  DisplayInv'
<1>1. /\ CallInv /\ CallInv' /\ Types /\ ~Calling /\ mail["out"] # <<>>
      /\ loop'.i = 0 /\ loop'.cmds = Head(mail["out"]).cmds
  BY OutCalls DEF DisplayInv, CallInv, outOnEffects
<1>2. mail'["out"] = Tail(mail["out"])
  BY <1>1, OutMail
<1>3. called' = Append(called, <<>>) /\ issued' = issued
  BY DEF outOnEffects
<1>4. Left' = Head(mail["out"]).cmds
  <2>1. 1..0 = {}
    OBVIOUS
  <2>2. QED
    BY <1>1, <2>1 DEF Left
<1>5. mail["out"] \in Seq(Messages)
  BY DisplayType
<1>6. /\ issued \in Seq(Seq(Values)) /\ called \in Seq(Seq(Values))
      /\ Agree(issued, called, <<>>, mail["out"])
  BY <1>1, NothingLeft DEF DisplayInv
<1>7. Agree(issued, Append(called, <<>>), ValuesOf(Head(mail["out"]).cmds), Tail(mail["out"]))
  BY <1>1, <1>5, <1>6, AgreeTaken
<1>8. Agree(issued, called, ValuesOf(Left), mail["out"])'
  BY <1>2, <1>3, <1>4, <1>7, AgreeNext
<1>9. called' \in Seq(Seq(Values)) /\ called' # <<>>
  <2>1. <<>> \in Seq(Values)
    OBVIOUS
  <2>2. \A s \in Seq(Seq(Values)), t \in Seq(Values) : Append(s, t) \in Seq(Seq(Values)) /\ Append(s, t) # <<>>
    BY AppendProperties
  <2>3. QED
    BY <1>3, <1>6, <2>1, <2>2
<1>10. QED
  BY <1>1, <1>3, <1>6, <1>8, <1>9 DEF DisplayInv

LEMMA CallNextDisplays ==
  ASSUME DisplayInv, CallNext
  PROVE  DisplayInv'
<1> DEFINE i == loop.i
           v == Head(loop.cmds).value
<1>1. /\ CallInv' /\ currentSubs' = currentSubs /\ loop'.i = i + 1 /\ loop'.cmds = loop.cmds
      /\ i + 1 \in DOMAIN currentSubs /\ Calling /\ Listens(currentSubs)
  BY CallNextCalls DEF DisplayInv, CallInv, CallNext
<1>2. i \in Nat /\ currentSubs \in Seq(Callbacks) /\ loop.cmds \in Seq(Effect) /\ loop.cmds # <<>>
  BY <1>1, DisplayType DEF DisplayInv, CallInv, Types, TypeOK, Callers, Calling
<1>3. /\ called' = IF currentSubs[i + 1] # Display THEN called
                   ELSE [called EXCEPT ![Len(called)] = Append(@, v)]
      /\ issued' = issued /\ mail' = mail
  BY DEF CallNext
<1>4. Calling'
  BY <1>1 DEF Calling
<1>5. /\ issued \in Seq(Seq(Values)) /\ called \in Seq(Seq(Values)) /\ called # <<>>
      /\ Agree(issued, called, ValuesOf(Left), mail["out"])
  BY <1>1 DEF DisplayInv
<1>6. Left' = IF \E k \in 1..(i + 1) : currentSubs[k] = Display THEN Tail(loop.cmds) ELSE loop.cmds
  BY <1>1 DEF Left
<1>7. \A k \in 1..(i + 1) : k = i + 1 \/ k \in 1..i
  BY <1>2, UpTo
<1>71. \A k \in 1..i : k \in 1..(i + 1) /\ k # i + 1
  BY <1>2
<1> HIDE DEF i, v
<1>8. CASE currentSubs[i + 1] # Display
  <2>1. Left' = Left
    BY <1>6, <1>7, <1>71, <1>8 DEF Left, i
  <2>2. called' = called
    BY <1>3, <1>8
  <2>3. Agree(issued, called, ValuesOf(Left), mail["out"])'
    BY <1>3, <1>5, <2>1, <2>2, AgreeNext
  <2>4. QED
    BY <1>1, <1>3, <1>5, <2>2, <2>3 DEF DisplayInv
<1>9. CASE currentSubs[i + 1] = Display
  <2>1. i + 1 \in 1..(i + 1)
    BY <1>2
  <2>2. Left' = Tail(loop.cmds)
    BY <1>6, <1>9, <2>1
  <2>3. \A k \in 1..i : k \in DOMAIN currentSubs
    BY <1>1, <1>2
  <2>4. \A k \in 1..i : currentSubs[k] # Display
    BY <1>1, <1>9, <1>71, <2>3 DEF Listens
  <2>5. Left = loop.cmds
    BY <2>4 DEF Left, i
  <2>6. ValuesOf(Left) = <<v>> \o ValuesOf(Tail(loop.cmds)) /\ v \in Values /\ ValuesOf(Tail(loop.cmds)) \in Seq(Values)
    BY <1>2, <2>5, FirstValue DEF v
  <2>7. mail["out"] \in Seq(Messages)
    BY DisplayType
  <2> DEFINE c2 == [called EXCEPT ![Len(called)] = Append(@, v)]
             lv == ValuesOf(Tail(loop.cmds))
  <2>8. c2 \in Seq(Seq(Values)) /\ c2 # <<>> /\ Agree(issued, c2, lv, mail["out"])
    <3>1. lv \in Seq(Values) /\ v \in Values /\ Agree(issued, called, <<v>> \o lv, mail["out"])
      BY <1>5, <2>6
    <3> HIDE DEF lv
    <3>2. QED
      BY <1>5, <2>7, <3>1, AgreeCalled
  <2>9. called' = c2
    BY <1>3, <1>9
  <2>10. ValuesOf(Left') = lv
    BY <2>2
  <2> HIDE DEF c2, lv
  <2>11. Agree(issued, called, ValuesOf(Left), mail["out"])'
    BY <1>3, <2>8, <2>9, <2>10, AgreeNext
  <2>12. QED
    BY <1>1, <1>3, <1>5, <2>8, <2>9, <2>11 DEF DisplayInv
<1>10. QED
  BY <1>8, <1>9

LEMMA NextCommandDisplays ==
  ASSUME DisplayInv, NextCommand
  PROVE  DisplayInv'
<1>1. /\ CallInv' /\ loop'.i = 0 /\ loop'.cmds = Tail(loop.cmds) /\ Calling
      /\ \E i \in 1..loop.i : currentSubs[i] = Display
  BY NextCommandCalls DEF DisplayInv, NextCommand
<1>2. UNCHANGED <<mail, issued, called>>
  BY DEF NextCommand
<1>3. Left' = Left
  <2>1. 1..0 = {}
    OBVIOUS
  <2>2. QED
    BY <1>1, <2>1 DEF Left
<1>4. Agree(issued, called, ValuesOf(Left), mail["out"])'
  BY <1>2, <1>3, AgreeNext DEF DisplayInv
<1>5. QED
  BY <1>1, <1>2, <1>3, <1>4 DEF DisplayInv

LEMMA ScriptDisplays ==
  ASSUME DisplayInv, NEW c \in Callbacks, subscribe(c) \/ unsubscribe(c)
  PROVE  DisplayInv'
<1>1. /\ CallInv' /\ loop'.i = loop.i /\ loop'.cmds = loop.cmds
      /\ \A i \in 1..loop.i : currentSubs'[i] = currentSubs[i]
  BY ScriptCalls DEF DisplayInv
<1>2. UNCHANGED <<mail, issued, called>>
  BY DEF subscribe, unsubscribe
<1>3. Left' = Left /\ Calling' = Calling
  BY <1>1 DEF Left, Calling
<1>4. Agree(issued, called, ValuesOf(Left), mail["out"])'
  BY <1>2, <1>3, AgreeNext DEF DisplayInv
<1>5. QED
  BY <1>1, <1>2, <1>3, <1>4 DEF DisplayInv

LEMMA DisplayNext == DisplayInv /\ [Next]_vars => DisplayInv'
<1> SUFFICES ASSUME DisplayInv, [Next]_vars PROVE DisplayInv'
  OBVIOUS
<1>0. CallInv /\ Types /\ sent \in Seq(Nat)
  BY DEF DisplayInv, CallInv
<1>1. CASE initApp \/ onMessage
  BY <1>1, UpdateDisplays
<1>2. CASE outOnEffects
  BY <1>2, OutDisplays
<1>3. CASE CallNext
  BY <1>3, CallNextDisplays
<1>4. CASE NextCommand
  BY <1>4, NextCommandDisplays
<1>5. CASE inOnEffects
  <2>1. CallInv' /\ mail'["out"] = mail["out"]
    BY <1>0, <1>5, InCalls, InMail DEF Procs
  <2>2. UNCHANGED <<subs, loop, issued, called>>
    BY <1>5 DEF inOnEffects
  <2>3. QED
    BY <2>1, <2>2, DisplayQuiet
<1>6. CASE fxOnMessage
  <2>1. CallInv' /\ mail'["out"] = mail["out"]
    BY <1>0, <1>6, FxCalls, FxMail
  <2>2. UNCHANGED <<subs, loop, issued, called>>
    BY <1>6 DEF fxOnMessage
  <2>3. QED
    BY <2>1, <2>2, DisplayQuiet
<1>7. CASE send
  <2>1. Len(sent) \in Nat
    BY <1>0
  <2>2. CallInv' /\ mail'["out"] = mail["out"]
    BY <1>0, <1>7, <2>1, SendCalls, SendMail DEF Managers
  <2>3. UNCHANGED <<subs, loop, issued, called>>
    BY <1>7 DEF send
  <2>4. QED
    BY <2>2, <2>3, DisplayQuiet
<1>8. ASSUME NEW c \in Callbacks, subscribe(c) \/ unsubscribe(c) PROVE DisplayInv'
  BY <1>8, ScriptDisplays
<1>9. CASE UNCHANGED vars
  <2>1. UNCHANGED <<subs, loop, issued, called, mail, started, model, updates, port, sent>>
    BY <1>9 DEF vars
  <2>2. Types'
    BY <1>0, <2>1 DEF Types, TypeOK, Typed
  <2>3. CallInv'
    BY <1>0, <2>1, <2>2, CallQuiet
  <2>4. QED
    BY <2>1, <2>3, DisplayQuiet
<1>10. QED
  BY <1>1, <1>2, <1>3, <1>4, <1>5, <1>6, <1>7, <1>8, <1>9 DEF Next, Loops

(* The callback that the page subscribes before the program runs gets      *)
(* every command of the outgoing port once and in the order of the         *)
(* updates, whatever the program dispatches and whichever other callbacks  *)
(* come and go while the port calls them.                                  *)
THEOREM DisplayGetsEverything == Spec => []DisplayGetsAll
<1>1. Init => DisplayInv
  BY DisplayInit
<1>2. DisplayInv /\ [Next]_vars => DisplayInv'
  BY DisplayNext
<1>3. DisplayInv => DisplayGetsAll
  BY DisplayGets
<1>4. QED
  BY <1>1, <1>2, <1>3, PTL DEF Spec

-----------------------------------------------------------------------------
(* The incoming port *)

Newest == IF mail["in"] = <<>> THEN port.subs ELSE mail["in"][Len(mail["in"])].subs
Follows == started => {Newest[i] : i \in DOMAIN Newest} = Subscriptions(model, "in")

FollowInv == CallInv /\ Follows

LEMMA FollowsModel == Follows <=> SubsFollowModel
BY DEF Follows, Newest, SubsFollowModel

LEMMA LastAppended ==
  ASSUME NEW S, NEW list \in Seq(S), NEW e \in S
  PROVE  Append(list, e) # <<>> /\ Append(list, e)[Len(Append(list, e))] = e
BY AppendProperties

LEMMA LastOfRest ==
  ASSUME NEW S, NEW list \in Seq(S), list # <<>>, Tail(list) # <<>>
  PROVE  Tail(list)[Len(Tail(list))] = list[Len(list)]
<1> DEFINE n == Len(list)
<1>1. /\ n \in Nat /\ n > 0 /\ Len(Tail(list)) = n - 1
      /\ \A i \in 1..(n - 1) : Tail(list)[i] = list[i + 1]
      /\ (n = 1 <=> Tail(list) = <<>>)
  BY Rest
<1> HIDE DEF n
<1>2. n - 1 \in 1..(n - 1) /\ (n - 1) + 1 = n
  BY <1>1
<1>3. Tail(list)[n - 1] = list[n]
  BY <1>1, <1>2
<1>4. QED
  BY <1>1, <1>3 DEF n

(* Steps that leave what the incoming port listens for alone.              *)
LEMMA FollowQuiet ==
  ASSUME Follows, mail'["in"] = mail["in"], port'.subs = port.subs, UNCHANGED <<started, model>>
  PROVE  Follows'
BY DEF Follows, Newest

LEMMA UpdateFollows ==
  ASSUME CallInv, initApp \/ onMessage
  PROVE  Follows'
<1>1. Types /\ Typed(mail)
  BY DEF CallInv, Types
<1>2. PICK fx : Dispatched(fx)
  BY <1>1, UpdateMail
<1> DEFINE msg == FxMsg(fx["in"])
<1>3. /\ msg \in Messages /\ msg.subs = fx["in"].subs /\ mail'["in"] = Append(mail["in"], msg)
      /\ {fx["in"].subs[i] : i \in DOMAIN fx["in"].subs} = Subscriptions(model', "in")
  BY <1>2 DEF Dispatched, Managers
<1> HIDE DEF msg
<1>4. mail["in"] \in Seq(Messages)
  BY <1>1 DEF Typed, Managers
<1>5. mail'["in"] # <<>> /\ mail'["in"][Len(mail'["in"])] = msg
  BY <1>3, <1>4, LastAppended
<1>6. Newest' = fx["in"].subs
  BY <1>3, <1>5 DEF Newest
<1>7. QED
  BY <1>3, <1>6 DEF Follows

LEMMA InFollows ==
  ASSUME CallInv, Follows, inOnEffects
  PROVE  Follows'
<1>1. Types /\ Typed(mail) /\ UNCHANGED <<started, model>>
  BY DEF CallInv, Types, inOnEffects
<1> DEFINE box == mail["in"]
<1>2. /\ mail'["in"] = Tail(box) /\ box # <<>>
      /\ port' = [post |-> TRUE, sentBeforeInit |-> <<>>, subs |-> Head(box).subs]
  BY <1>1, InMail
<1>3. box \in Seq(Messages)
  BY <1>1 DEF Typed, Managers
<1>31. Newest = box[Len(box)].subs
  BY <1>2 DEF Newest
<1>32. Newest' = IF Tail(box) = <<>> THEN Head(box).subs ELSE Tail(box)[Len(Tail(box))].subs
  BY <1>2 DEF Newest
<1> HIDE DEF box
<1>4. Newest' = Newest
  <2>1. CASE Tail(box) = <<>>
    <3>1. Head(box) = box[1] /\ Len(box) = 1
      BY <1>2, <1>3, <2>1, Rest
    <3>2. QED
      BY <1>31, <1>32, <2>1, <3>1
  <2>2. CASE Tail(box) # <<>>
    BY <1>2, <1>3, <1>31, <1>32, <2>2, LastOfRest
  <2>3. QED
    BY <2>1, <2>2
<1>5. QED
  BY <1>1, <1>4 DEF Follows

LEMMA SendFollows ==
  ASSUME CallInv, Follows, send
  PROVE  Follows'
<1>1. Types /\ sent \in Seq(Nat) /\ UNCHANGED <<started, model>>
  BY DEF CallInv, send
<1>2. Len(sent) \in Nat
  BY <1>1
<1>3. mail'["in"] = mail["in"]
  BY <1>1, <1>2, SendMail DEF Managers
<1>4. port \in [post : BOOLEAN, sentBeforeInit : Seq(Nat), subs : Seq(Effect)]
  BY <1>1 DEF Types, TypeOK
<1>5. port' = port \/ port' = [port EXCEPT !.sentBeforeInit = Append(@, Len(sent) + 1)]
  BY DEF send
<1>6. port'.subs = port.subs
  BY <1>4, <1>5
<1>7. QED
  BY <1>1, <1>3, <1>6, FollowQuiet

LEMMA CallNextStep == CallInv /\ [Next]_vars => CallInv'
<1> SUFFICES ASSUME CallInv, [Next]_vars PROVE CallInv'
  OBVIOUS
<1>1. ASSUME UNCHANGED vars PROVE CallInv'
  <2>1. UNCHANGED <<subs, loop, mail, started, model, updates, port, sent>>
    BY <1>1 DEF vars
  <2>2. Types' /\ sent' \in Seq(Nat)
    BY <2>1 DEF CallInv, Types, TypeOK, Typed
  <2>3. QED
    BY <2>1, <2>2, CallQuiet
<1>2. QED
  BY <1>1, UpdateCalls, OutCalls, CallNextCalls, NextCommandCalls, InCalls, FxCalls, SendCalls, ScriptCalls
     DEF Next, Loops

LEMMA FollowNext == FollowInv /\ [Next]_vars => FollowInv'
<1> SUFFICES ASSUME FollowInv, [Next]_vars PROVE FollowInv'
  OBVIOUS
<1>0. CallInv /\ Follows /\ Types
  BY DEF FollowInv, CallInv
<1>1. CallInv'
  BY <1>0, CallNextStep
<1>2. CASE initApp \/ onMessage
  BY <1>0, <1>1, <1>2, UpdateFollows DEF FollowInv
<1>3. CASE inOnEffects
  BY <1>0, <1>1, <1>3, InFollows DEF FollowInv
<1>4. CASE send
  BY <1>0, <1>1, <1>4, SendFollows DEF FollowInv
<1>5. CASE outOnEffects
  <2>1. mail'["in"] = mail["in"] /\ UNCHANGED <<port, started, model>>
    BY <1>0, <1>5, OutMail DEF outOnEffects, Procs
  <2>2. QED
    BY <1>0, <1>1, <2>1, FollowQuiet DEF FollowInv
<1>6. CASE fxOnMessage
  <2>1. mail'["in"] = mail["in"] /\ UNCHANGED <<port, started, model>>
    BY <1>0, <1>6, FxMail DEF fxOnMessage
  <2>2. QED
    BY <1>0, <1>1, <2>1, FollowQuiet DEF FollowInv
<1>7. ASSUME CallNext \/ NextCommand \/ (\E c \in Callbacks : subscribe(c) \/ unsubscribe(c)) \/ UNCHANGED vars
      PROVE  FollowInv'
  <2>1. UNCHANGED <<mail, port, started, model>>
    BY <1>7 DEF CallNext, NextCommand, subscribe, unsubscribe, vars
  <2>2. QED
    BY <1>0, <1>1, <2>1, FollowQuiet DEF FollowInv
<1>8. QED
  BY <1>2, <1>3, <1>4, <1>5, <1>6, <1>7 DEF Next, Loops

(* Whatever updates do to the model, what the incoming port listens for    *)
(* once it has handled its mail are the subscriptions of the current model *)
(* (dispatchEffects and the port's onEffects).                             *)
THEOREM PortFollowsModel == Spec => []SubsFollowModel
<1>1. Init => FollowInv
  BY CallInit DEF Init, FollowInv, Follows
<1>2. FollowInv /\ [Next]_vars => FollowInv'
  BY FollowNext
<1>3. FollowInv => SubsFollowModel
  BY FollowsModel DEF FollowInv
<1>4. QED
  BY <1>1, <1>2, <1>3, PTL DEF Spec

-----------------------------------------------------------------------------
(* The values sent into the incoming port *)

Ins(box) == {k \in DOMAIN box : box[k].home = "in"}

(* The values h + 1 to r are on their way to the program, in order.        *)
InOrder(box, h, r) ==
  /\ h <= r
  /\ \A j, k \in Ins(box) : j < k => box[j].value < box[k].value
  /\ {box[k].value : k \in Ins(box)} = (h + 1)..r

LEMMA PostedOther ==
  ASSUME NEW box \in Seq(Posts), NEW post \in Posts, post.home # "in",
         NEW h \in Nat, NEW r \in Nat, InOrder(box, h, r)
  PROVE  InOrder(Append(box, post), h, r)
<1> DEFINE new == Append(box, post)
           n == Len(box)
<1>1. /\ n \in Nat /\ DOMAIN box = 1..n /\ DOMAIN new = 1..(n + 1)
      /\ new[n + 1] = post /\ \A k \in 1..n : new[k] = box[k]
  OBVIOUS
<1> HIDE DEF new, n
<1>2. \A k \in 1..(n + 1) : k = n + 1 \/ k \in 1..n
  BY <1>1, UpTo
<1>3. \A k \in 1..n : k \in 1..(n + 1)
  BY <1>1
<1>4. Ins(new) = Ins(box) /\ \A k \in Ins(box) : new[k] = box[k]
  BY <1>1, <1>2, <1>3 DEF Ins
<1>5. {new[k].value : k \in Ins(new)} = {box[k].value : k \in Ins(box)}
  BY <1>4
<1>6. \A j, k \in Ins(new) : j < k => new[j].value < new[k].value
  <2>1. \A j, k \in Ins(box) : j < k => box[j].value < box[k].value
    BY DEF InOrder
  <2>2. QED
    BY <1>4, <2>1
<1>7. InOrder(new, h, r)
  BY <1>5, <1>6 DEF InOrder
<1>8. QED
  BY <1>7 DEF new

LEMMA PostedIns ==
  ASSUME NEW box \in Seq(Posts), NEW more \in Seq(Posts),
         NEW h \in Nat, NEW r \in Nat, InOrder(box, h, r),
         \A i \in 1..Len(more) : more[i].home = "in" /\ more[i].value = r + i
  PROVE  InOrder(box \o more, h, r + Len(more))
<1> DEFINE new == box \o more
           n == Len(box)
           m == Len(more)
<1>1. /\ n \in Nat /\ m \in Nat /\ DOMAIN box = 1..n /\ DOMAIN new = 1..(n + m)
      /\ \A k \in 1..n : new[k] = box[k]
  OBVIOUS
<1>2. \A k \in (n + 1)..(n + m) : new[k] = more[k - n]
  OBVIOUS
<1>3. \A i \in 1..m : more[i].home = "in" /\ more[i].value = r + i
  OBVIOUS
<1> HIDE DEF new, n, m
<1>4. ASSUME NEW k \in (n + 1)..(n + m)
      PROVE  /\ k \in Ins(new) /\ new[k].value = r + (k - n) /\ k \in Int /\ k > n
             /\ new[k].value \in (r + 1)..(r + m)
  <2>1. k - n \in 1..m /\ k \in 1..(n + m) /\ k \in Int /\ k > n
    BY <1>1
  <2>2. new[k].home = "in" /\ new[k].value = r + (k - n)
    BY <1>2, <1>3, <2>1
  <2>3. r + (k - n) \in (r + 1)..(r + m)
    BY <1>1, <2>1
  <2>4. QED
    BY <1>1, <2>1, <2>2, <2>3 DEF Ins
<1>5. ASSUME NEW k \in Ins(box)
      PROVE  k \in Ins(new) /\ k \in 1..n /\ new[k] = box[k] /\ box[k].value \in (h + 1)..r
  <2>1. k \in 1..n /\ k \in 1..(n + m)
    BY <1>1 DEF Ins
  <2>2. QED
    BY <1>1, <2>1 DEF Ins, InOrder
<1>6. \A k \in Ins(new) : k \in Ins(box) \/ k \in (n + 1)..(n + m)
  <2>1. \A k \in 1..(n + m) : k \in 1..n \/ k \in (n + 1)..(n + m)
    BY <1>1
  <2>2. QED
    BY <1>1, <2>1 DEF Ins
<1>7. ASSUME NEW j \in Ins(new), NEW k \in Ins(new), j < k PROVE new[j].value < new[k].value
  <2>1. CASE j \in Ins(box) /\ k \in Ins(box)
    <3>1. box[j].value < box[k].value
      BY <1>7, <2>1 DEF InOrder
    <3>2. QED
      BY <1>5, <2>1, <3>1
  <2>2. CASE j \in Ins(box) /\ k \in (n + 1)..(n + m)
    <3>1. new[j].value \in (h + 1)..r /\ new[k].value \in (r + 1)..(r + m)
      BY <1>4, <1>5, <2>2
    <3>2. QED
      BY <1>1, <3>1
  <2>3. CASE j \in (n + 1)..(n + m) /\ k \in Ins(box)
    <3>1. j > n /\ k \in 1..n /\ j \in Int
      BY <1>4, <1>5, <2>3
    <3>2. QED
      BY <1>1, <1>7, <3>1
  <2>4. CASE j \in (n + 1)..(n + m) /\ k \in (n + 1)..(n + m)
    <3>1. new[j].value = r + (j - n) /\ new[k].value = r + (k - n) /\ j \in Int /\ k \in Int
      BY <1>4, <2>4
    <3>2. QED
      BY <1>1, <1>7, <3>1
  <2>5. QED
    BY <1>6, <2>1, <2>2, <2>3, <2>4
<1>8. {new[k].value : k \in Ins(new)} = (h + 1)..(r + m)
  <2>0. h <= r /\ {box[k].value : k \in Ins(box)} = (h + 1)..r
    BY DEF InOrder
  <2>1. ASSUME NEW k \in Ins(new) PROVE new[k].value \in (h + 1)..(r + m)
    <3>1. new[k].value \in (h + 1)..r \/ new[k].value \in (r + 1)..(r + m)
      BY <1>4, <1>5, <1>6
    <3>2. QED
      BY <1>1, <2>0, <3>1
  <2>2. ASSUME NEW v \in (h + 1)..(r + m) PROVE \E k \in Ins(new) : new[k].value = v
    <3>1. CASE v \in (h + 1)..r
      <4>1. PICK k \in Ins(box) : box[k].value = v
        BY <2>0, <3>1
      <4>2. QED
        BY <1>5, <4>1
    <3>2. CASE v \in (r + 1)..(r + m)
      <4> DEFINE k == n + (v - r)
      <4>1. k \in (n + 1)..(n + m) /\ r + (k - n) = v
        BY <1>1, <3>2
      <4> HIDE DEF k
      <4>2. QED
        BY <1>4, <4>1
    <3>3. v \in (h + 1)..r \/ v \in (r + 1)..(r + m)
      BY <1>1, <2>0
    <3>4. QED
      BY <3>1, <3>2, <3>3
  <2>3. QED
    BY <2>1, <2>2
<1>9. h <= r + m
  BY <1>1 DEF InOrder
<1>10. QED
  BY <1>7, <1>8, <1>9 DEF InOrder, new, m

(* The mailbox without its first message.                                  *)
LEMMA MovedIns ==
  ASSUME NEW box \in Seq(Posts), box # <<>>, NEW h \in Nat, NEW r \in Nat, InOrder(box, h, r)
  PROVE  LET new == Tail(box)
         IN  /\ \A j, k \in Ins(new) : j < k => new[j].value < new[k].value
             /\ {new[k].value : k \in Ins(new)} = {box[k].value : k \in Ins(box) \ {1}}
             /\ Head(box) = box[1] /\ 1 \in DOMAIN box /\ \A k \in Ins(box) : k \in Nat /\ k >= 1
<1> DEFINE new == Tail(box)
           n == Len(box)
<1>1. /\ n \in Nat /\ n > 0 /\ Len(new) = n - 1 /\ new \in Seq(Posts) /\ Head(box) = box[1]
      /\ \A k \in 1..(n - 1) : new[k] = box[k + 1]
  BY Rest
<1>2. DOMAIN box = 1..n
  OBVIOUS
<1> HIDE DEF new, n
<1>3. DOMAIN new = 1..(n - 1)
  BY <1>1
<1>4. ASSUME NEW k \in Ins(new) PROVE k + 1 \in Ins(box) \ {1} /\ new[k] = box[k + 1] /\ k \in Nat
  <2>1. k \in 1..(n - 1)
    BY <1>3 DEF Ins
  <2>2. k + 1 \in 1..n /\ k + 1 # 1 /\ k \in Nat
    BY <1>1, <2>1
  <2>3. QED
    BY <1>1, <1>2, <2>1, <2>2 DEF Ins
<1>5. ASSUME NEW k \in Ins(box) \ {1} PROVE k - 1 \in Ins(new) /\ new[k - 1] = box[k]
  <2>1. k \in 1..n /\ k # 1 /\ box[k].home = "in"
    BY <1>2 DEF Ins
  <2>2. k - 1 \in 1..(n - 1) /\ (k - 1) + 1 = k
    BY <1>1, <2>1
  <2>3. new[k - 1] = box[k]
    BY <1>1, <2>2
  <2>4. QED
    BY <1>3, <2>1, <2>2, <2>3 DEF Ins
<1>6. ASSUME NEW j \in Ins(new), NEW k \in Ins(new), j < k PROVE new[j].value < new[k].value
  <2>1. j + 1 \in Ins(box) /\ k + 1 \in Ins(box) /\ j \in Nat /\ k \in Nat /\ new[j] = box[j + 1] /\ new[k] = box[k + 1]
    BY <1>4
  <2>2. j + 1 < k + 1
    BY <1>6, <2>1
  <2>3. box[j + 1].value < box[k + 1].value
    BY <2>1, <2>2 DEF InOrder
  <2>4. QED
    BY <2>1, <2>3
<1>7. {new[k].value : k \in Ins(new)} = {box[k].value : k \in Ins(box) \ {1}}
  <2>1. ASSUME NEW k \in Ins(new) PROVE new[k].value \in {box[i].value : i \in Ins(box) \ {1}}
    BY <1>4
  <2>2. ASSUME NEW k \in Ins(box) \ {1} PROVE box[k].value \in {new[i].value : i \in Ins(new)}
    BY <1>5
  <2>3. QED
    BY <2>1, <2>2
<1>8. 1 \in DOMAIN box /\ \A k \in Ins(box) : k \in Nat /\ k >= 1
  <2>1. 1 \in 1..n /\ \A k \in 1..n : k \in Nat /\ k >= 1
    BY <1>1
  <2>2. QED
    BY <1>2, <2>1 DEF Ins
<1>9. QED
  BY <1>1, <1>6, <1>7, <1>8 DEF new

LEMMA TakenOther ==
  ASSUME NEW box \in Seq(Posts), box # <<>>, Head(box).home # "in",
         NEW h \in Nat, NEW r \in Nat, InOrder(box, h, r)
  PROVE  InOrder(Tail(box), h, r)
<1> DEFINE new == Tail(box)
<1>1. /\ \A j, k \in Ins(new) : j < k => new[j].value < new[k].value
      /\ {new[k].value : k \in Ins(new)} = {box[k].value : k \in Ins(box) \ {1}}
      /\ Head(box) = box[1]
  BY MovedIns
<1> HIDE DEF new
<1>2. Ins(box) \ {1} = Ins(box)
  BY <1>1 DEF Ins
<1>3. {new[k].value : k \in Ins(new)} = {box[k].value : k \in Ins(box)}
  BY <1>1, <1>2
<1>4. QED
  BY <1>1, <1>3 DEF InOrder, new

LEMMA TakenIn ==
  ASSUME NEW box \in Seq(Posts), box # <<>>, Head(box).home = "in",
         NEW h \in Nat, NEW r \in Nat, InOrder(box, h, r)
  PROVE  Head(box).value = h + 1 /\ InOrder(Tail(box), h + 1, r)
<1> DEFINE new == Tail(box)
<1>1. /\ \A j, k \in Ins(new) : j < k => new[j].value < new[k].value
      /\ {new[k].value : k \in Ins(new)} = {box[k].value : k \in Ins(box) \ {1}}
      /\ Head(box) = box[1] /\ 1 \in DOMAIN box /\ \A k \in Ins(box) : k \in Nat /\ k >= 1
  BY MovedIns
<1> HIDE DEF new
<1>2. 1 \in Ins(box)
  BY <1>1 DEF Ins
<1>3. {box[k].value : k \in Ins(box)} = (h + 1)..r /\ \A j, k \in Ins(box) : j < k => box[j].value < box[k].value
  BY DEF InOrder
<1>4. box[1].value \in (h + 1)..r
  BY <1>2, <1>3
<1>5. h + 1 \in (h + 1)..r /\ h + 1 <= r
  BY <1>4
<1>6. PICK k \in Ins(box) : box[k].value = h + 1
  BY <1>3, <1>5
<1>7. k = 1
  <2> SUFFICES ASSUME k # 1 PROVE FALSE
    OBVIOUS
  <2>1. 1 < k
    BY <1>1
  <2>2. box[1].value < h + 1
    BY <1>2, <1>3, <1>6, <2>1
  <2>3. QED
    BY <1>4, <2>2
<1>8. box[1].value = h + 1
  BY <1>6, <1>7
<1>9. {box[j].value : j \in Ins(box) \ {1}} = ((h + 1) + 1)..r
  <2>1. ASSUME NEW j \in Ins(box) \ {1} PROVE box[j].value \in ((h + 1) + 1)..r
    <3>1. 1 < j
      BY <1>1
    <3>2. h + 1 < box[j].value /\ box[j].value \in (h + 1)..r
      BY <1>2, <1>3, <1>8, <3>1
    <3>3. QED
      BY <3>2
  <2>2. ASSUME NEW v \in ((h + 1) + 1)..r PROVE \E j \in Ins(box) \ {1} : box[j].value = v
    <3>1. v \in (h + 1)..r /\ v # h + 1
      OBVIOUS
    <3>2. PICK j \in Ins(box) : box[j].value = v
      BY <1>3, <3>1
    <3>3. QED
      BY <1>8, <3>1, <3>2
  <2>3. QED
    BY <2>1, <2>2
<1>10. QED
  BY <1>1, <1>5, <1>8, <1>9 DEF InOrder, new

(* With one subscription every value goes to the program once.             *)
LEMMA ReleasedOnce ==
  ASSUME NEW values \in Seq(Nat), NEW subList \in Seq(Effect), Len(subList) = 1
  PROVE  LET more == Released(values, subList)
         IN  /\ more \in Seq(Posts) /\ Len(more) = Len(values)
             /\ \A i \in 1..Len(values) : more[i].home = "in" /\ more[i].value = values[i]
<1> DEFINE n == Len(values)
           more == Released(values, subList)
           Msg(value, sub) == [home |-> "in", value |-> value, taggers |-> <<sub.value>> \o sub.taggers]
<1>1. more \in Seq(Posts)
  BY ReleasedType
<1>2. n \in Nat /\ n * 1 = n
  OBVIOUS
<1>3. more = [i \in 1..n |-> Msg(values[1 + ((i - 1) \div 1)], subList[1 + ((i - 1) % 1)])]
  BY <1>2 DEF Released
<1>4. \A i \in 1..n : 1 + ((i - 1) \div 1) = i
  BY <1>2
<1>5. \A value, sub : Msg(value, sub).home = "in" /\ Msg(value, sub).value = value
  OBVIOUS
<1> HIDE DEF more, n, Msg
<1>6. \A i \in 1..n : more[i] = Msg(values[1 + ((i - 1) \div 1)], subList[1 + ((i - 1) % 1)])
  BY <1>3
<1>7. \A i \in 1..n : more[i].home = "in" /\ more[i].value = values[i]
  BY <1>4, <1>5, <1>6
<1>8. DOMAIN more = 1..n
  BY <1>3
<1>9. Len(more) = n
  BY <1>1, <1>2, <1>8, LenProperties
<1>10. QED
  BY <1>1, <1>7, <1>9 DEF more, n

released == Len(sent) - Len(port.sentBeforeInit)

(* The port has one subscription once it has any, so has all its mail.     *)
Listened ==
  /\ \A k \in DOMAIN mail["in"] : Len(mail["in"][k].subs) = 1
  /\ port.post => Len(port.subs) = 1

Counted ==
  /\ \A i \in 1..Len(sent) : sent[i] = i
  /\ handled \in Seq(Nat) /\ \A i \in 1..Len(handled) : handled[i] = i
  /\ Len(port.sentBeforeInit) <= Len(sent)
  /\ \A i \in 1..Len(port.sentBeforeInit) : port.sentBeforeInit[i] = released + i

SentInv == CallInv /\ Listened /\ Counted /\ InOrder(mail["main"], Len(handled), released)

LEMMA SentType ==
  ASSUME SentInv
  PROVE  /\ Types /\ sent \in Seq(Nat) /\ Len(sent) \in Nat /\ port.sentBeforeInit \in Seq(Nat)
         /\ released \in Nat /\ handled \in Seq(Nat) /\ Len(handled) \in Nat
         /\ mail["main"] \in Seq(Posts) /\ mail["in"] \in Seq(Messages)
         /\ port \in [post : BOOLEAN, sentBeforeInit : Seq(Nat), subs : Seq(Effect)]
<1>1. /\ Types /\ sent \in Seq(Nat) /\ handled \in Seq(Nat)
      /\ port \in [post : BOOLEAN, sentBeforeInit : Seq(Nat), subs : Seq(Effect)]
  BY DEF SentInv, CallInv, Types, TypeOK, Counted
<1>2. mail["main"] \in Seq(Posts) /\ mail["in"] \in Seq(Messages)
  BY <1>1 DEF Types, Typed, Managers
<1>3. port.sentBeforeInit \in Seq(Nat)
  BY <1>1
<1>4. Len(sent) \in Nat /\ Len(handled) \in Nat /\ Len(port.sentBeforeInit) \in Nat
  BY <1>1, <1>3
<1>5. released \in Nat
  BY <1>4 DEF released, SentInv, Counted
<1>6. QED
  BY <1>1, <1>2, <1>3, <1>4, <1>5

LEMMA SentOrdered == SentInv => SentInOrder
<1> SUFFICES ASSUME SentInv PROVE SentInOrder
  OBVIOUS
<1> DEFINE early == port.sentBeforeInit
           h == Len(handled)
           r == released
           n == Len(sent)
<1>1. /\ TypeOK /\ sent \in Seq(Nat) /\ n \in Nat /\ early \in Seq(Nat) /\ r \in Nat
      /\ handled \in Seq(Nat) /\ h \in Nat /\ Len(early) \in Nat
  BY SentType DEF Types
<1>2. /\ \A i \in 1..n : sent[i] = i
      /\ \A i \in 1..h : handled[i] = i
      /\ \A i \in 1..Len(early) : early[i] = r + i
      /\ InOrder(mail["main"], h, r)
  BY DEF SentInv, Counted
<1>3. r = n - Len(early)
  BY DEF released
<1>4. DOMAIN handled = 1..h /\ DOMAIN early = 1..Len(early)
  BY <1>1
<1> HIDE DEF early, h, r, n
<1>5. h <= r /\ r <= n
  BY <1>1, <1>2, <1>3 DEF InOrder
<1>6. \A i \in 1..h : handled[i] = sent[i]
  <2>1. \A i \in 1..h : i \in 1..n
    BY <1>1, <1>5
  <2>2. QED
    BY <1>2, <2>1
<1>7. \A i \in 1..Len(early) : early[i] = sent[r + i]
  <2>1. \A i \in 1..Len(early) : r + i \in 1..n
    BY <1>1, <1>3
  <2>2. QED
    BY <1>2, <2>1
<1>8. {sent[i] : i \in (h + 1)..r} = (h + 1)..r
  <2>1. \A i \in (h + 1)..r : i \in 1..n
    BY <1>1, <1>5
  <2>2. \A i \in (h + 1)..r : sent[i] = i
    BY <1>2, <2>1
  <2>3. QED
    BY <2>2
<1>9. Arriving = Ins(mail["main"])
  BY DEF Arriving, Ins
<1>10. /\ \A j, k \in Arriving : j < k => mail["main"][j].value < mail["main"][k].value
       /\ {mail["main"][k].value : k \in Arriving} = {sent[i] : i \in (h + 1)..r}
  BY <1>2, <1>8, <1>9 DEF InOrder
<1>11. r = n - Len(early) /\ \A i \in DOMAIN handled : handled[i] = sent[i]
  BY <1>3, <1>4, <1>6
<1>12. \A i \in DOMAIN early : early[i] = sent[r + i]
  BY <1>4, <1>7
<1>13. QED
  BY <1>1, <1>5, <1>10, <1>11, <1>12 DEF SentInOrder, early, h, n, r, released

LEMMA SentInit == Init => SentInv
<1> SUFFICES ASSUME Init PROVE SentInv
  OBVIOUS
<1>1. CallInv
  BY CallInit
<1>2. /\ mail["in"] = <<>> /\ mail["main"] = <<>> /\ ~port.post /\ port.sentBeforeInit = <<>>
      /\ sent = <<>> /\ handled = <<>>
  BY DEF Init, Managers
<1>3. released = 0 /\ Len(handled) = 0 /\ Len(port.sentBeforeInit) = 0 /\ Len(sent) = 0
  BY <1>2 DEF released
<1>4. Listened
  BY <1>2 DEF Listened
<1>5. Counted
  BY <1>2, <1>3 DEF Counted
<1>6. InOrder(mail["main"], Len(handled), released)
  <2>1. Ins(<<>>) = {} /\ (0 + 1)..0 = {} /\ 0 <= 0
    BY DEF Ins
  <2>2. InOrder(<<>>, 0, 0)
    BY <2>1 DEF InOrder
  <2>3. QED
    BY <1>2, <1>3, <2>2
<1>7. QED
  BY <1>1, <1>4, <1>5, <1>6 DEF SentInv

LEMMA InOrderNext ==
  ASSUME NEW box, NEW h, NEW r, InOrder(box, h, r),
         mail'["main"] = box, Len(handled') = h, released' = r
  PROVE  InOrder(mail["main"], Len(handled), released)'
<1>1. InOrder(mail'["main"], Len(handled'), released')
  OBVIOUS
<1>2. QED
  BY <1>1 DEF InOrder, Ins

(* Steps that leave the incoming port and its mail alone.                  *)
LEMMA SentQuiet ==
  ASSUME SentInv, CallInv', UNCHANGED <<port, sent, handled>>,
         mail'["in"] = mail["in"], mail'["main"] = mail["main"]
  PROVE  SentInv'
<1>1. released' = released
  BY DEF released
<1>2. Listened' /\ Counted'
  BY <1>1 DEF SentInv, Listened, Counted
<1>3. InOrder(mail["main"], Len(handled), released)'
  BY <1>1, InOrderNext DEF SentInv
<1>4. QED
  BY <1>2, <1>3 DEF SentInv

LEMMA UpdateSent ==
  ASSUME OneListener, SentInv, initApp \/ onMessage
  PROVE  SentInv'
<1> DEFINE box == mail["main"]
           h == Len(handled)
           r == released
<1>1. /\ CallInv /\ Types /\ handled \in Seq(Nat) /\ h \in Nat /\ r \in Nat
      /\ box \in Seq(Posts) /\ mail["in"] \in Seq(Messages)
  BY SentType DEF SentInv
<1>2. /\ UNCHANGED <<port, sent>> /\ \E fx : Dispatched(fx)
      /\ \/ mail'["main"] = box /\ handled' = handled
         \/ /\ box # <<>> /\ mail'["main"] = Tail(box)
            /\ handled' = IF Head(box).home = "in" THEN Append(handled, Head(box).value) ELSE handled
  BY <1>1, UpdateMail
<1>3. CallInv'
  BY <1>1, UpdateCalls
<1>4. released' = r
  BY <1>2 DEF released
<1>5. Listened'
  <2>1. PICK fx : Dispatched(fx)
    BY <1>2
  <2> DEFINE msg == FxMsg(fx["in"])
             old == mail["in"]
  <2>2. msg \in Messages /\ Len(msg.subs) = 1 /\ mail'["in"] = Append(old, msg)
    BY <2>1 DEF Dispatched, Managers
  <2>3. \A k \in DOMAIN old : Len(old[k].subs) = 1
    BY DEF SentInv, Listened
  <2> HIDE DEF msg, old
  <2>4. /\ old \in Seq(Messages) /\ DOMAIN old = 1..Len(old) /\ Len(old) \in Nat
    BY <1>1 DEF old
  <2>5. /\ DOMAIN Append(old, msg) = 1..(Len(old) + 1) /\ Append(old, msg)[Len(old) + 1] = msg
        /\ \A k \in 1..Len(old) : Append(old, msg)[k] = old[k]
    BY <2>2, <2>4
  <2>6. \A k \in 1..(Len(old) + 1) : Len(Append(old, msg)[k].subs) = 1
    BY <2>2, <2>3, <2>4, <2>5, UpTo
  <2>7. QED
    BY <1>2, <2>2, <2>5, <2>6 DEF Listened, SentInv
<1>6. InOrder(box, h, r) /\ \A i \in 1..h : handled[i] = i
  BY DEF SentInv, Counted
<1>7. CASE mail'["main"] = box /\ handled' = handled
  <2>1. InOrder(mail["main"], Len(handled), released)'
    BY <1>4, <1>6, <1>7, InOrderNext
  <2>2. Counted'
    BY <1>2, <1>4, <1>7 DEF SentInv, Counted
  <2>3. QED
    BY <1>3, <1>5, <2>1, <2>2 DEF SentInv
<1>8. CASE box # <<>> /\ mail'["main"] = Tail(box) /\ Head(box).home # "in"
  <2>1. handled' = handled
    BY <1>2, <1>8
  <2>2. InOrder(Tail(box), h, r)
    BY <1>1, <1>6, <1>8, TakenOther
  <2>3. InOrder(mail["main"], Len(handled), released)'
    BY <1>4, <1>8, <2>1, <2>2, InOrderNext
  <2>4. Counted'
    BY <1>2, <1>4, <2>1 DEF SentInv, Counted
  <2>5. QED
    BY <1>3, <1>5, <2>3, <2>4 DEF SentInv
<1>9. CASE box # <<>> /\ mail'["main"] = Tail(box) /\ Head(box).home = "in" /\ handled' = Append(handled, Head(box).value)
  <2>1. Head(box).value = h + 1 /\ InOrder(Tail(box), h + 1, r)
    BY <1>1, <1>6, <1>9, TakenIn
  <2>2. handled' = Append(handled, h + 1) /\ h + 1 \in Nat
    BY <1>1, <1>9, <2>1
  <2>3. handled' \in Seq(Nat) /\ Len(handled') = h + 1 /\ handled'[h + 1] = h + 1 /\ \A i \in 1..h : handled'[i] = handled[i]
    BY <1>1, <2>2, AppendProperties
  <2> HIDE DEF h
  <2>4. \A i \in 1..(h + 1) : handled'[i] = i
    BY <1>1, <1>6, <2>3, UpTo
  <2>5. InOrder(mail["main"], Len(handled), released)'
    BY <1>4, <1>9, <2>1, <2>3, InOrderNext
  <2>6. Counted'
    BY <1>2, <1>4, <2>3, <2>4 DEF SentInv, Counted
  <2>7. QED
    BY <1>3, <1>5, <2>5, <2>6 DEF SentInv
<1>10. QED
  BY <1>2, <1>7, <1>8, <1>9

LEMMA InSent ==
  ASSUME SentInv, inOnEffects
  PROVE  SentInv'
<1> DEFINE box == mail["main"]
           h == Len(handled)
           r == released
           early == port.sentBeforeInit
           old == mail["in"]
           subList == Head(old).subs
           more == Released(early, subList)
<1>1. /\ CallInv /\ Types /\ handled \in Seq(Nat) /\ h \in Nat /\ r \in Nat /\ early \in Seq(Nat)
      /\ box \in Seq(Posts) /\ old \in Seq(Messages) /\ sent \in Seq(Nat) /\ Len(sent) \in Nat
  BY SentType DEF SentInv
<1>2. /\ mail'["in"] = Tail(old) /\ old # <<>> /\ mail'["main"] = box \o more
      /\ port' = [post |-> TRUE, sentBeforeInit |-> <<>>, subs |-> subList] /\ subList \in Seq(Effect)
  BY <1>1, InMail
<1>3. UNCHANGED <<sent, handled>> /\ CallInv'
  BY <1>1, InCalls DEF inOnEffects
<1>4. /\ \A k \in DOMAIN old : Len(old[k].subs) = 1
      /\ InOrder(box, h, r) /\ \A i \in 1..Len(early) : early[i] = r + i
      /\ \A i \in 1..Len(sent) : sent[i] = i
      /\ \A i \in 1..h : handled[i] = i
  BY DEF SentInv, Listened, Counted
<1>5. r = Len(sent) - Len(early)
  BY DEF released
<1> HIDE DEF box, h, r, early, old
<1>6. /\ Head(old) = old[1] /\ Len(Tail(old)) = Len(old) - 1 /\ Tail(old) \in Seq(Messages)
      /\ \A i \in 1..(Len(old) - 1) : Tail(old)[i] = old[i + 1]
      /\ Len(old) \in Nat /\ Len(old) > 0
  BY <1>1, <1>2, Rest
<1>7. DOMAIN old = 1..Len(old) /\ DOMAIN Tail(old) = 1..(Len(old) - 1)
  BY <1>1, <1>6, LenProperties
<1>8. Len(subList) = 1
  <2>1. 1 \in DOMAIN old
    BY <1>6, <1>7
  <2>2. QED
    BY <1>4, <1>6, <2>1
<1> HIDE DEF subList
<1>9. Listened'
  <2>1. ASSUME NEW k \in DOMAIN Tail(old) PROVE Len(Tail(old)[k].subs) = 1
    <3>1. k \in 1..(Len(old) - 1)
      BY <1>7
    <3>2. k + 1 \in DOMAIN old
      BY <1>6, <1>7, <3>1, NextUp
    <3>3. QED
      BY <1>4, <1>6, <3>1, <3>2
  <2>2. port'.subs = subList
    BY <1>2
  <2>3. QED
    BY <1>2, <1>8, <2>1, <2>2 DEF Listened
<1>10. /\ more \in Seq(Posts) /\ Len(more) = Len(early)
       /\ \A i \in 1..Len(early) : more[i].home = "in" /\ more[i].value = early[i]
  BY <1>1, <1>2, <1>8, ReleasedOnce
<1> HIDE DEF more
<1>11. InOrder(box \o more, h, r + Len(more))
  <2>1. \A i \in 1..Len(more) : more[i].home = "in" /\ more[i].value = r + i
    BY <1>4, <1>10
  <2>2. QED
    BY <1>1, <1>4, <1>10, <2>1, PostedIns
<1>12. port'.sentBeforeInit = <<>> /\ Len(<<>>) = 0
  BY <1>2
<1>13. released' = Len(sent) /\ r + Len(more) = Len(sent)
  <2>1. Len(early) \in Nat
    BY <1>1
  <2>2. r + Len(more) = Len(sent)
    BY <1>1, <1>5, <1>10, <2>1
  <2>3. released' = Len(sent)
    BY <1>1, <1>3, <1>12 DEF released
  <2>4. QED
    BY <2>2, <2>3
<1>14. InOrder(mail["main"], Len(handled), released)'
  BY <1>2, <1>3, <1>11, <1>13, InOrderNext DEF h
<1>15. Counted'
  <2>1. handled' \in Seq(Nat) /\ \A i \in 1..Len(handled') : handled'[i] = i
    BY <1>1, <1>3, <1>4 DEF h
  <2>2. \A i \in 1..Len(sent') : sent'[i] = i
    BY <1>3, <1>4
  <2>3. Len(port'.sentBeforeInit) <= Len(sent') /\ 1..Len(port'.sentBeforeInit) = {}
    BY <1>1, <1>3, <1>12
  <2>4. QED
    BY <2>1, <2>2, <2>3 DEF Counted
<1>16. QED
  BY <1>3, <1>9, <1>14, <1>15 DEF SentInv

LEMMA SendSent ==
  ASSUME SentInv, send
  PROVE  SentInv'
<1> DEFINE box == mail["main"]
           h == Len(handled)
           r == released
           early == port.sentBeforeInit
           n == Len(sent)
           value == n + 1
<1>1. /\ CallInv /\ Types /\ handled \in Seq(Nat) /\ h \in Nat /\ r \in Nat /\ early \in Seq(Nat)
      /\ box \in Seq(Posts) /\ sent \in Seq(Nat) /\ n \in Nat
      /\ port \in [post : BOOLEAN, sentBeforeInit : Seq(Nat), subs : Seq(Effect)]
  BY SentType DEF SentInv
<1>2. /\ mail'["in"] = mail["in"]
      /\ \/ /\ port.post /\ port' = port
            /\ mail'["main"] = box \o Released(<<value>>, port.subs)
         \/ /\ ~port.post /\ port' = [port EXCEPT !.sentBeforeInit = Append(@, value)]
            /\ mail'["main"] = box
  BY <1>1, SendMail DEF Managers
<1>3. handled' = handled /\ CallInv' /\ sent' = Append(sent, value)
  BY <1>1, SendCalls DEF send
<1>4. /\ \A k \in DOMAIN mail["in"] : Len(mail["in"][k].subs) = 1
      /\ port.post => Len(port.subs) = 1
      /\ InOrder(box, h, r) /\ \A i \in 1..Len(early) : early[i] = r + i
      /\ \A i \in 1..n : sent[i] = i
      /\ \A i \in 1..h : handled[i] = i
      /\ Len(early) <= n
  BY DEF SentInv, Listened, Counted
<1>5. r = n - Len(early)
  BY DEF released
<1>6. value \in Nat /\ sent' \in Seq(Nat) /\ Len(sent') = n + 1 /\ sent'[n + 1] = value /\ \A i \in 1..n : sent'[i] = sent[i]
  BY <1>1, <1>3, AppendProperties
<1> HIDE DEF box, h, r, early, n
<1>7. \A i \in 1..Len(sent') : sent'[i] = i
  BY <1>1, <1>4, <1>6, UpTo
<1>8. handled' \in Seq(Nat) /\ \A i \in 1..Len(handled') : handled'[i] = i
  BY <1>1, <1>3, <1>4 DEF h
<1>9. Len(early) \in Nat
  BY <1>1
<1>10. CASE port.post
  <2> DEFINE more == Released(<<value>>, port.subs)
  <2>1. port' = port /\ mail'["main"] = box \o more
    BY <1>2, <1>10
  <2>2. early = <<>> /\ Len(early) = 0
    BY <1>1, <1>10 DEF early, Types, TypeOK
  <2>3. r = n
    BY <1>1, <1>5, <2>2
  <2> HIDE DEF value
  <2>4. <<value>> \in Seq(Nat) /\ Len(<<value>>) = 1 /\ <<value>>[1] = value /\ port.subs \in Seq(Effect)
    <3>1. value \in Nat /\ port.subs \in Seq(Effect)
      BY <1>1, <1>6
    <3>2. \A x \in Nat : <<x>> \in Seq(Nat) /\ Len(<<x>>) = 1 /\ <<x>>[1] = x
      OBVIOUS
    <3>3. QED
      BY <3>1, <3>2
  <2>5. more \in Seq(Posts) /\ Len(more) = 1 /\ \A i \in 1..1 : more[i].home = "in" /\ more[i].value = <<value>>[i]
    <3> DEFINE list == <<value>>
    <3>1. list \in Seq(Nat) /\ Len(list) = 1 /\ port.subs \in Seq(Effect) /\ Len(port.subs) = 1
      BY <1>4, <1>10, <2>4
    <3> HIDE DEF list
    <3>2. /\ Released(list, port.subs) \in Seq(Posts) /\ Len(Released(list, port.subs)) = Len(list)
          /\ \A i \in 1..Len(list) : /\ Released(list, port.subs)[i].home = "in"
                                     /\ Released(list, port.subs)[i].value = list[i]
      BY <3>1, ReleasedOnce
    <3>3. QED
      BY <3>1, <3>2 DEF list
  <2> HIDE DEF more
  <2>6. \A i \in 1..Len(more) : more[i].home = "in" /\ more[i].value = r + i
    <3>1. \A i \in 1..1 : i = 1
      OBVIOUS
    <3>2. value = r + 1
      BY <2>3 DEF value
    <3>3. QED
      BY <2>4, <2>5, <3>1, <3>2
  <2>7. InOrder(box \o more, h, r + 1)
    BY <1>1, <1>4, <2>5, <2>6, PostedIns
  <2>8. released' = r + 1
    BY <1>1, <1>6, <2>1, <2>2, <2>3 DEF released, early
  <2>9. InOrder(mail["main"], Len(handled), released)'
    BY <1>3, <2>1, <2>7, <2>8, InOrderNext DEF h
  <2>10. port'.sentBeforeInit = <<>> /\ Len(port'.sentBeforeInit) = 0
    BY <2>1, <2>2 DEF early
  <2>11. 1..0 = {} /\ 0 <= n + 1
    BY <1>1
  <2>12. Counted'
    BY <1>6, <1>7, <1>8, <2>10, <2>11 DEF Counted
  <2>13. Listened'
    BY <1>2, <1>4, <2>1 DEF Listened
  <2>14. QED
    BY <1>3, <2>9, <2>12, <2>13 DEF SentInv
<1>11. CASE ~port.post
  <2>1. port' = [post |-> port.post, sentBeforeInit |-> Append(early, value), subs |-> port.subs] /\ mail'["main"] = box
    BY <1>1, <1>2, <1>11, PortRecord DEF early
  <2> DEFINE later == Append(early, value)
             m == Len(early)
  <2>2. later \in Seq(Nat) /\ Len(later) = m + 1 /\ later[m + 1] = value /\ \A i \in 1..m : later[i] = early[i]
    BY <1>1, <1>6, AppendProperties
  <2>3. port'.sentBeforeInit = later /\ ~port'.post
    BY <1>11, <2>1
  <2> HIDE DEF later, m
  <2>4. m \in Nat /\ r = n - m /\ m <= n
    BY <1>4, <1>5, <1>9 DEF m
  <2>5. released' = r
    <3>1. released' = (n + 1) - (m + 1)
      BY <1>6, <2>2, <2>3 DEF released
    <3>2. QED
      BY <1>1, <2>4, <3>1
  <2>6. \A i \in 1..(m + 1) : later[i] = r + i
    <3>1. r + (m + 1) = n + 1
      BY <1>1, <2>4
    <3>2. \A i \in 1..m : early[i] = r + i
      BY <1>4 DEF m
    <3>3. QED
      BY <2>2, <2>4, <3>1, <3>2, UpTo
  <2>7. InOrder(mail["main"], Len(handled), released)'
    BY <1>3, <1>4, <2>1, <2>5, InOrderNext DEF h
  <2>8. m + 1 <= n + 1
    BY <1>1, <2>4
  <2>9. Counted'
    BY <1>6, <1>7, <1>8, <2>2, <2>3, <2>5, <2>6, <2>8 DEF Counted
  <2>10. Listened'
    BY <1>2, <1>4, <2>3 DEF Listened
  <2>11. QED
    BY <1>3, <2>7, <2>9, <2>10 DEF SentInv
<1>12. QED
  BY <1>10, <1>11

LEMMA FxSent ==
  ASSUME SentInv, fxOnMessage
  PROVE  SentInv'
<1>1. /\ CallInv /\ Types /\ Len(handled) \in Nat /\ released \in Nat /\ mail["main"] \in Seq(Posts)
      /\ InOrder(mail["main"], Len(handled), released)
  BY SentType DEF SentInv
<1>2. CallInv' /\ UNCHANGED <<port, sent, handled>>
  BY <1>1, FxCalls DEF fxOnMessage
<1>3. /\ mail'["in"] = mail["in"]
      /\ \/ mail'["main"] = mail["main"]
         \/ \E post \in Posts : post.home = "fx" /\ mail'["main"] = Append(mail["main"], post)
  BY <1>1, FxMail
<1>4. CASE mail'["main"] = mail["main"]
  BY <1>2, <1>3, <1>4, SentQuiet
<1>5. ASSUME NEW post \in Posts, post.home = "fx", mail'["main"] = Append(mail["main"], post) PROVE SentInv'
  <2>1. post.home # "in"
    BY <1>5
  <2>2. InOrder(Append(mail["main"], post), Len(handled), released)
    BY <1>1, <2>1, PostedOther
  <2>3. released' = released
    BY <1>2 DEF released
  <2>4. InOrder(mail["main"], Len(handled), released)'
    BY <1>2, <1>5, <2>2, <2>3, InOrderNext
  <2>5. Listened' /\ Counted'
    BY <1>2, <1>3, <2>3 DEF SentInv, Listened, Counted
  <2>6. QED
    BY <1>2, <2>4, <2>5 DEF SentInv
<1>6. QED
  BY <1>3, <1>4, <1>5

LEMMA SentNext ==
  ASSUME OneListener, SentInv, [Next]_vars
  PROVE  SentInv'
<1>0. CallInv /\ Types /\ CallInv'
  BY CallNextStep DEF SentInv, CallInv
<1>1. CASE initApp \/ onMessage
  BY <1>1, UpdateSent
<1>2. CASE inOnEffects
  BY <1>2, InSent
<1>3. CASE send
  BY <1>3, SendSent
<1>4. CASE fxOnMessage
  BY <1>4, FxSent
<1>5. CASE outOnEffects
  <2>1. /\ mail'["in"] = mail["in"] /\ mail'["main"] = mail["main"] /\ UNCHANGED <<port, sent, handled>>
    BY <1>0, <1>5, OutMail DEF outOnEffects, Procs
  <2>2. QED
    BY <1>0, <2>1, SentQuiet
<1>6. ASSUME CallNext \/ NextCommand \/ (\E c \in Callbacks : subscribe(c) \/ unsubscribe(c)) \/ UNCHANGED vars
      PROVE  SentInv'
  <2>1. UNCHANGED <<mail, port, sent, handled>>
    BY <1>6 DEF CallNext, NextCommand, subscribe, unsubscribe, vars
  <2>2. QED
    BY <1>0, <2>1, SentQuiet
<1>7. QED
  BY <1>1, <1>2, <1>3, <1>4, <1>5, <1>6 DEF Next, Loops

(* For a program that listens to the incoming port once, whatever its      *)
(* model: every value that JavaScript sends, before the program runs or    *)
(* after, is on its way to the program or has been handled, once and in    *)
(* the order of sending (preInitSend, the first onEffects, postInitSend).  *)
THEOREM SentArrivesInOrder == OneListener => (Spec => []SentInOrder)
<1> SUFFICES ASSUME OneListener PROVE Spec => []SentInOrder
  OBVIOUS
<1>1. Init => SentInv
  BY SentInit
<1>2. SentInv /\ [Next]_vars => SentInv'
  BY SentNext
<1>3. SentInv => SentInOrder
  BY SentOrdered
<1>4. QED
  BY <1>1, <1>2, <1>3, PTL DEF Spec
=============================================================================
