-------------------------- MODULE WebSocketManager --------------------------
(***************************************************************************)
(* The effect manager that keeps the websocket of the user interface open  *)
(* (websocket/1.0.2/src/WebSocket.elm and Native/WebSocket.js).            *)
(*                                                                         *)
(* The program listens to one URL for as long as it runs, as kubecast's    *)
(* does, and may send; so the branches of onEffects that close connections *)
(* and the native close are left out.  Events of sockets start processes   *)
(* whose only work is a message to the manager, and the scheduler runs     *)
(* them in order: mail holds these messages and those of dispatchEffects.  *)
(***************************************************************************)
EXTENDS Integers, Sequences, SequencesExt

CONSTANTS
    MaxSockets,     \* bound: sockets opened
    MaxMessages,    \* bound: messages from the server
    MaxSends        \* bound: messages from the program

ASSUME BoundAssumption == MaxSockets \in Nat /\ MaxMessages \in Nat /\ MaxSends \in Nat

VARIABLES
    connection,   \* sockets[name] of the manager: none, Opening or Connected
    queue,        \* queues[name], the newest message first
    subscribed,   \* subs[name] is set
    attempts,     \* the backoffs of the attempts that are not at WS.open yet
    socket,       \* the sockets, each connecting, open or closed
    mail,         \* messages for the manager
    arrived,      \* messages that sockets delivered to the page
    received,     \* messages the program was sent
    given,        \* messages the program has sent
    written       \* those of them a socket that was open has taken

vars == <<connection, queue, subscribed, attempts, socket, mail, arrived, received, given, written>>

None == [tag |-> "none", n |-> 0]
Opening(n) == [tag |-> "opening", n |-> n]
Connected(id) == [tag |-> "connected", n |-> id]

\* Messages to the manager; n is a socket or a message.
Msg(ctor, n) == [ctor |-> ctor, n |-> n]
fx(n) == Msg("fx", n)
Receive(str) == Msg("Receive", str)
Die == Msg("Die", 0)
GoodOpen(id) == Msg("GoodOpen", id)
BadOpen == Msg("BadOpen", 0)

TypeOK ==
    /\ connection.tag \in {"none", "opening", "connected"}
    /\ queue \in Seq(1..MaxSends)
    /\ subscribed \in BOOLEAN
    /\ attempts \in Seq(Nat)
    /\ socket \in Seq({"connecting", "open", "closed"})
    /\ connection.tag = "connected" => connection.n \in DOMAIN socket

\* The program starts: its first effects carry the subscription.
Init ==
    /\ connection = None
    /\ queue = <<>>
    /\ subscribed = FALSE
    /\ attempts = <<>>
    /\ socket = <<>>
    /\ mail = <<fx(0)>>
    /\ arrived = <<>> /\ received = <<>> /\ given = <<>> /\ written = <<>>

\* The program's update sends a message: its effects go to the manager.
Update ==
    /\ Len(given) < MaxSends
    /\ given' = Append(given, Len(given) + 1)
    /\ mail' = Append(mail, fx(Len(given) + 1))
    /\ UNCHANGED <<connection, queue, subscribed, attempts, socket, arrived, received, written>>

-----------------------------------------------------------------------------
(* Opening *)

\* attemptOpen spawns a process that first waits for after(backoff).
attemptOpen(backoff) ==
    /\ attempts' = Append(attempts, backoff)
    /\ connection' = Opening(backoff)

\* The wait is over: WS.open makes a socket, or the constructor throws (the
\* socket that never was counts as closed).
Open(i) ==
    /\ Len(socket) < MaxSockets
    /\ attempts' = RemoveAt(attempts, i)
    /\ socket' = Append(socket, "connecting")
    /\ UNCHANGED <<connection, queue, subscribed, mail, arrived, received, given, written>>

OpenThrows(i) ==
    /\ Len(socket) < MaxSockets
    /\ attempts' = RemoveAt(attempts, i)
    /\ socket' = Append(socket, "closed")
    /\ mail' = Append(mail, BadOpen)
    /\ UNCHANGED <<connection, queue, subscribed, arrived, received, given, written>>

-----------------------------------------------------------------------------
(* Events of sockets *)

OnOpen(id) ==
    /\ socket[id] = "connecting"
    /\ socket' = [socket EXCEPT ![id] = "open"]
    /\ mail' = Append(mail, GoodOpen(id))
    /\ UNCHANGED <<connection, queue, subscribed, attempts, arrived, received, given, written>>

\* Mutant of OnMessage: what the event starts runs before what waits.
OnMessageFirst(id) ==
    /\ socket[id] = "open" /\ Len(arrived) < MaxMessages
    /\ arrived' = Append(arrived, Len(arrived) + 1)
    /\ mail' = <<Receive(Len(arrived) + 1)>> \o mail
    /\ UNCHANGED <<connection, queue, subscribed, attempts, socket, received, given, written>>

OnMessage(id) ==
    /\ socket[id] = "open" /\ Len(arrived) < MaxMessages
    /\ arrived' = Append(arrived, Len(arrived) + 1)
    /\ mail' = Append(mail, Receive(Len(arrived) + 1))
    /\ UNCHANGED <<connection, queue, subscribed, attempts, socket, received, given, written>>

\* A close event ends a connection, and also an attempt the server refused.
\* A socket stops taking messages before its event: effects that are ahead of
\* Die in the mail meet a socket that is closed.
OnClose(id) ==
    /\ socket[id] \in {"connecting", "open"}
    /\ socket' = [socket EXCEPT ![id] = "closed"]
    /\ mail' = Append(mail, Die)
    /\ UNCHANGED <<connection, queue, subscribed, attempts, arrived, received, given, written>>

-----------------------------------------------------------------------------
(* The manager handles its mail *)

\* WS.send: a socket that is not open takes nothing, and the answer NotOpen
\* is dropped.
WSSend(id, msgs) == written' = IF socket[id] = "open" THEN written \o msgs ELSE written

\* Effects: commands are sent or queued, then the subscription gets a
\* connection if it has none.
onEffects ==
    LET cmd == Head(mail).n IN
    /\ mail # <<>> /\ Head(mail).ctor = "fx"
    /\ mail' = Tail(mail)
    /\ subscribed' = TRUE
    /\ IF cmd > 0 /\ connection.tag = "connected"
       THEN WSSend(connection.n, <<cmd>>) /\ queue' = queue
       ELSE queue' = (IF cmd > 0 THEN <<cmd>> ELSE <<>>) \o queue /\ written' = written
    /\ IF connection.tag = "none" THEN attemptOpen(0) ELSE UNCHANGED <<attempts, connection>>
    /\ UNCHANGED <<socket, arrived, received, given>>

Handles(ctor) == mail # <<>> /\ Head(mail).ctor = ctor /\ mail' = Tail(mail)

onReceive ==
    /\ Handles("Receive")
    /\ received' = IF subscribed THEN Append(received, Head(mail).n) ELSE received
    /\ UNCHANGED <<connection, queue, subscribed, attempts, socket, arrived, given, written>>

\* Mutant of onDie: leaves an attempt in progress alone.
onDieOpening ==
    /\ Handles("Die")
    /\ IF connection.tag = "connected" THEN attemptOpen(0) ELSE UNCHANGED <<attempts, connection>>
    /\ UNCHANGED <<queue, subscribed, socket, arrived, received, given, written>>

\* A connection that is gone is opened again at once.
onDie ==
    /\ Handles("Die")
    /\ IF connection.tag # "none" THEN attemptOpen(0) ELSE UNCHANGED <<attempts, connection>>
    /\ UNCHANGED <<queue, subscribed, socket, arrived, received, given, written>>

\* Mutant of onGoodOpen: sends the queue in the order it is kept in.
onGoodOpenNewest ==
    /\ Handles("GoodOpen")
    /\ connection' = Connected(Head(mail).n)
    /\ WSSend(Head(mail).n, queue)
    /\ queue' = <<>>
    /\ UNCHANGED <<subscribed, attempts, socket, arrived, received, given>>

\* foldl puts the oldest message of the queue first.
onGoodOpen ==
    /\ Handles("GoodOpen")
    /\ connection' = Connected(Head(mail).n)
    /\ WSSend(Head(mail).n, Reverse(queue))
    /\ queue' = <<>>
    /\ UNCHANGED <<subscribed, attempts, socket, arrived, received, given>>

onBadOpen ==
    /\ Handles("BadOpen")
    /\ IF connection.tag = "opening" THEN attemptOpen(connection.n + 1)
       ELSE UNCHANGED <<attempts, connection>>
    /\ UNCHANGED <<queue, subscribed, socket, arrived, received, given, written>>

onSelfMsg == onReceive \/ onDie \/ onGoodOpen \/ onBadOpen

Manager == onEffects \/ onSelfMsg

\* Mutant of Start: a wait that was doubled twice never ends.
StartEarly == \E i \in DOMAIN attempts : attempts[i] < 2 /\ (Open(i) \/ OpenThrows(i))

\* The sleep of after(backoff) ends, however long.
Start == \E i \in DOMAIN attempts : Open(i) \/ OpenThrows(i)

Next ==
    \/ Update
    \/ Start
    \/ \E id \in DOMAIN socket : OnOpen(id) \/ OnMessage(id) \/ OnClose(id)
    \/ Manager

\* The scheduler runs processes that have mail and timers that are due; the
\* network and the server promise nothing.
Spec == Init /\ [][Next]_vars /\ WF_vars(Manager) /\ WF_vars(Start)

-----------------------------------------------------------------------------

LiveSockets == {id \in DOMAIN socket : socket[id] # "closed"}
Endings == {i \in DOMAIN mail : mail[i].ctor \in {"Die", "BadOpen"}}

\* From the first effects on there is exactly one of: a socket that is
\* connecting or open, an attempt that waits, or word on its way that the
\* last one ended.  So the list is never received twice over two sockets,
\* and the page never ends up without anyone trying.  The connection the
\* manager has down is a socket there was (TypeOK).
OneConnection ==
    /\ TypeOK
    /\ subscribed =>
         \/ attempts = <<>> /\ Endings = {} /\ \E id \in LiveSockets : LiveSockets = {id}
         \/ LiveSockets = {} /\ Endings = {} /\ Len(attempts) = 1
         \/ LiveSockets = {} /\ attempts = <<>> /\ \E i \in Endings : Endings = {i}

Receives == {k \in DOMAIN mail : mail[k].ctor = "Receive"}

\* Messages of the server reach the program once and in the order in which
\* they arrived, across reconnections: the program was sent what arrived
\* first, and all the rest is in the mail, in order.
ReceivedInOrder ==
    /\ Len(received) <= Len(arrived)
    /\ \A i \in DOMAIN received : received[i] = arrived[i]
    /\ \A j, k \in Receives : j < k => mail[j].n < mail[k].n
    /\ {mail[k].n : k \in Receives} = {arrived[i] : i \in Len(received) + 1 .. Len(arrived)}

\* Whatever the program sends goes out in order: what sockets have taken has
\* no later message before an earlier one, whether it was queued or not.
WrittenInOrder == \A i, j \in DOMAIN written : i < j => written[i] < written[j]

\* The manager never stops trying: again and again there is a socket that
\* connects or is open (until the bound on sockets).
KeepsTrying == []<>(LiveSockets # {} \/ Len(socket) = MaxSockets)

=============================================================================
