-------------------------- MODULE WebSocketProofs --------------------------
(***************************************************************************)
(* What the websocket manager keeps, for any number of sockets and of      *)
(* messages in both directions.                                            *)
(***************************************************************************)
EXTENDS WebSocketManager, TLAPS

Message == [ctor : {"fx", "Receive", "Die", "GoodOpen", "BadOpen"}, n : Nat]

\* The types of everything the manager's steps read.
Types ==
  /\ connection \in [tag : {"none", "opening", "connected"}, n : Nat]
  /\ queue \in Seq(1..MaxSends)
  /\ subscribed \in BOOLEAN
  /\ attempts \in Seq(Nat)
  /\ socket \in Seq({"connecting", "open", "closed"})
  /\ mail \in Seq(Message)
  /\ arrived \in Seq(Nat) /\ given \in Seq(Nat) /\ Len(given) <= MaxSends
  /\ \A i \in DOMAIN mail : mail[i].ctor = "fx" => mail[i].n <= Len(given)

\* What the manager has down as its connection.
Down ==
  /\ connection.tag = "connected" => connection.n \in DOMAIN socket
  /\ subscribed <=> connection.tag # "none"
  /\ ~subscribed => /\ attempts = <<>> /\ socket = <<>>
                    /\ \A i \in DOMAIN mail : mail[i].ctor = "fx"
  /\ attempts # <<>> => connection.tag = "opening"
  /\ \A i \in DOMAIN mail : mail[i].ctor = "BadOpen" => connection.tag = "opening"

\* A socket that was announced is open, or its end is announced too, later.
Announced ==
  \A i \in DOMAIN mail : mail[i].ctor = "GoodOpen" =>
    /\ mail[i].n \in DOMAIN socket
    /\ \/ socket[mail[i].n] = "open"
       \/ \E j \in DOMAIN mail : j > i /\ mail[j].ctor = "Die"

OneLive == \E id \in LiveSockets : LiveSockets = {id}
OneEnding == \E i \in Endings : Endings = {i}

Single ==
  \/ attempts = <<>> /\ Endings = {} /\ OneLive
  \/ LiveSockets = {} /\ Endings = {} /\ Len(attempts) = 1
  \/ LiveSockets = {} /\ attempts = <<>> /\ OneEnding

ConnInv == Types /\ Down /\ Announced /\ (subscribed => Single)

-----------------------------------------------------------------------------
(* Mail *)

(* A message that is posted to the manager is the last one of its mail.    *)
LEMMA Posted ==
  ASSUME Types, NEW msg \in Message, mail' = Append(mail, msg)
  PROVE  /\ mail' \in Seq(Message)
         /\ DOMAIN mail' = 1..(Len(mail) + 1) /\ DOMAIN mail = 1..Len(mail)
         /\ Len(mail) \in Nat
         /\ \A i \in DOMAIN mail : mail'[i] = mail[i]
         /\ mail'[Len(mail) + 1] = msg
  BY DEF Types

(* The manager takes the first message of its mail.                        *)
LEMMA Taken ==
  ASSUME Types, mail # <<>>, mail' = Tail(mail)
  PROVE  /\ mail' \in Seq(Message)
         /\ DOMAIN mail' = 1..(Len(mail) - 1) /\ DOMAIN mail = 1..Len(mail)
         /\ Len(mail) \in Nat \ {0}
         /\ \A i \in DOMAIN mail' : i + 1 \in DOMAIN mail /\ mail'[i] = mail[i + 1]
         /\ Head(mail) = mail[1] /\ Head(mail) \in Message /\ 1 \in DOMAIN mail
  BY DEF Types

(* Posting the end of something, or something else.                        *)
LEMMA EndingPosted ==
  ASSUME Types, NEW msg \in Message, mail' = Append(mail, msg)
  PROVE  /\ msg.ctor \notin {"Die", "BadOpen"} => Endings' = Endings
         /\ msg.ctor \in {"Die", "BadOpen"} /\ Endings = {} => OneEnding'
<1>1. ASSUME msg.ctor \notin {"Die", "BadOpen"} PROVE Endings' = Endings
  BY <1>1, Posted DEF Endings
<1>2. ASSUME msg.ctor \in {"Die", "BadOpen"}, Endings = {} PROVE OneEnding'
  <2>1. Endings' = {Len(mail) + 1}
    BY <1>2, Posted DEF Endings
  <2>2. QED
    BY <2>1 DEF OneEnding
<1>3. QED
  BY <1>1, <1>2

(* Taking the end of something, or something else.                         *)
LEMMA EndingTaken ==
  ASSUME Types, mail # <<>>, mail' = Tail(mail)
  PROVE  /\ Endings = {} => Endings' = {}
         /\ Head(mail).ctor \notin {"Die", "BadOpen"} /\ OneEnding => OneEnding'
         /\ Head(mail).ctor \in {"Die", "BadOpen"} => 1 \in Endings
         /\ Head(mail).ctor \in {"Die", "BadOpen"} /\ OneEnding => Endings' = {}
<1>1. Endings = {} => Endings' = {}
  BY Taken DEF Endings
<1>2. Head(mail).ctor \in {"Die", "BadOpen"} => 1 \in Endings
  BY Taken DEF Endings
<1>3. ASSUME Head(mail).ctor \in {"Die", "BadOpen"}, OneEnding PROVE Endings' = {}
  <2>1. Endings = {1}
    BY <1>2, <1>3 DEF OneEnding
  <2>2. QED
    BY <2>1, Taken DEF Endings
<1>4. ASSUME Head(mail).ctor \notin {"Die", "BadOpen"}, OneEnding PROVE OneEnding'
  <2>1. PICK i \in Endings : Endings = {i}
    BY <1>4 DEF OneEnding
  <2>2. i \in DOMAIN mail /\ i # 1
    BY <1>4, Taken DEF Endings
  <2>3. i - 1 \in DOMAIN mail' /\ mail'[i - 1] = mail[i]
    BY <2>2, Taken
  <2>4. \A k \in Endings' : k + 1 \in Endings
    BY Taken DEF Endings
  <2>5. Endings' \subseteq Int
    BY Taken DEF Endings
  <2>6. \A k \in Endings' : k = i - 1
    BY <2>1, <2>2, <2>4, <2>5, Taken
  <2>7. i - 1 \in Endings'
    BY <2>3 DEF Endings
  <2>8. Endings' = {i - 1}
    BY <2>6, <2>7
  <2>9. QED
    BY <2>7, <2>8 DEF OneEnding
<1>5. QED
  BY <1>1, <1>2, <1>3, <1>4

(* A message that was announced stays so when more mail is posted: only    *)
(* with the news of its end may a socket close.                            *)
LEMMA AnnouncedPosted ==
  ASSUME Types, Announced, NEW msg \in Message, mail' = Append(mail, msg),
         \A id \in DOMAIN socket :
           /\ id \in DOMAIN socket'
           /\ socket[id] = "open" => socket'[id] = "open" \/ msg.ctor = "Die",
         msg.ctor = "GoodOpen" => msg.n \in DOMAIN socket' /\ socket'[msg.n] = "open"
  PROVE  Announced'
<1> SUFFICES ASSUME NEW i \in DOMAIN mail', mail'[i].ctor = "GoodOpen"
             PROVE  /\ mail'[i].n \in DOMAIN socket'
                    /\ \/ socket'[mail'[i].n] = "open"
                       \/ \E j \in DOMAIN mail' : j > i /\ mail'[j].ctor = "Die"
  BY DEF Announced
<1>1. CASE i = Len(mail) + 1
  BY <1>1, Posted
<1>2. CASE i # Len(mail) + 1
  <2>1. i \in DOMAIN mail /\ mail'[i] = mail[i] /\ i < Len(mail) + 1
    BY <1>2, Posted
  <2>2. mail[i].n \in DOMAIN socket
    BY <2>1 DEF Announced
  <2>3. CASE socket[mail[i].n] = "open"
    <3>1. CASE msg.ctor = "Die"
      <4>1. Len(mail) + 1 \in DOMAIN mail' /\ mail'[Len(mail) + 1].ctor = "Die"
        BY <3>1, Posted
      <4>2. QED
        BY <2>1, <2>2, <4>1
    <3>2. QED
      BY <2>1, <2>2, <2>3, <3>1
  <2>4. CASE \E j \in DOMAIN mail : j > i /\ mail[j].ctor = "Die"
    BY <2>1, <2>2, <2>4, Posted
  <2>5. QED
    BY <2>1, <2>3, <2>4 DEF Announced
<1>3. QED
  BY <1>1, <1>2

(* The end of a socket is never taken before its announcement.             *)
LEMMA AnnouncedTaken ==
  ASSUME Types, Announced, mail # <<>>, mail' = Tail(mail), UNCHANGED socket
  PROVE  Announced'
<1> SUFFICES ASSUME NEW i \in DOMAIN mail', mail'[i].ctor = "GoodOpen"
             PROVE  /\ mail'[i].n \in DOMAIN socket
                    /\ \/ socket[mail'[i].n] = "open"
                       \/ \E j \in DOMAIN mail' : j > i /\ mail'[j].ctor = "Die"
  BY DEF Announced
<1>1. i + 1 \in DOMAIN mail /\ mail'[i] = mail[i + 1] /\ i \in Nat
  BY Taken
<1>2. /\ mail[i + 1].n \in DOMAIN socket
      /\ \/ socket[mail[i + 1].n] = "open"
         \/ \E j \in DOMAIN mail : j > i + 1 /\ mail[j].ctor = "Die"
  BY <1>1 DEF Announced
<1>3. ASSUME NEW j \in DOMAIN mail, j > i + 1, mail[j].ctor = "Die"
      PROVE  \E k \in DOMAIN mail' : k > i /\ mail'[k].ctor = "Die"
  <2>1. j - 1 \in DOMAIN mail' /\ j - 1 > i
    BY <1>1, <1>3, Taken
  <2>2. mail'[j - 1] = mail[j]
    BY <1>3, <2>1, Taken
  <2>3. QED
    BY <1>3, <2>1, <2>2
<1>4. QED
  BY <1>1, <1>2, <1>3

-----------------------------------------------------------------------------
(* Steps *)

(* Mail that is no news of the connection leaves it as it is.              *)
LEMMA QuietPosted ==
  ASSUME ConnInv, NEW msg \in Message, mail' = Append(mail, msg),
         msg.ctor \in {"fx", "Receive"}, msg.ctor = "Receive" => subscribed,
         msg.ctor = "fx" => msg.n <= Len(given'),
         given' \in Seq(Nat), Len(given) <= Len(given'), Len(given') <= MaxSends,
         arrived' \in Seq(Nat),
         UNCHANGED <<connection, queue, subscribed, attempts, socket>>
  PROVE  ConnInv'
<1>1. Types'
  <2>1. \A i \in DOMAIN mail' : mail'[i].ctor = "fx" => mail'[i].n <= Len(given')
    <3>1. Len(given) \in Nat /\ Len(given') \in Nat
      BY DEF ConnInv, Types
    <3>2. ASSUME NEW i \in DOMAIN mail, mail[i].ctor = "fx" PROVE mail[i].n <= Len(given')
      <4>1. mail[i] \in Message
        BY DEF ConnInv, Types
      <4>2. mail[i].n <= Len(given) /\ mail[i].n \in Nat
        BY <3>2, <4>1 DEF ConnInv, Types, Message
      <4>3. QED
        BY <3>1, <4>2
    <3>3. QED
      BY <3>2, Posted DEF ConnInv
  <2>2. QED
    BY <2>1, Posted DEF ConnInv, Types
<1>2. Down'
  BY Posted DEF ConnInv, Down
<1>3. Announced'
  BY AnnouncedPosted DEF ConnInv
<1>4. subscribed' => Single'
  BY EndingPosted DEF ConnInv, Single, OneLive, OneEnding, LiveSockets
<1>5. QED
  BY <1>1, <1>2, <1>3, <1>4 DEF ConnInv

(* Taking mail keeps the types of what does not change.                    *)
LEMMA TypesTaken ==
  ASSUME Types, mail # <<>>, mail' = Tail(mail), UNCHANGED <<socket, arrived, given>>,
         connection' \in [tag : {"none", "opening", "connected"}, n : Nat],
         queue' \in Seq(1..MaxSends), subscribed' \in BOOLEAN, attempts' \in Seq(Nat)
  PROVE  Types'
<1>1. \A i \in DOMAIN mail' : mail'[i].ctor = "fx" => mail'[i].n <= Len(given)
  BY Taken DEF Types
<1>2. QED
  BY <1>1, Taken DEF Types

(* News of an end starts the next attempt.                                 *)
LEMMA Reopened ==
  ASSUME ConnInv, mail # <<>>, mail' = Tail(mail), Head(mail).ctor \in {"Die", "BadOpen"},
         NEW backoff \in Nat, attemptOpen(backoff),
         UNCHANGED <<queue, subscribed, socket, arrived, given>>
  PROVE  ConnInv'
<1>1. subscribed
  BY Taken DEF ConnInv, Down
<1>2. LiveSockets = {} /\ attempts = <<>> /\ Endings' = {}
  BY <1>1, EndingTaken DEF ConnInv, Single
<1>3. attempts' = <<backoff>> /\ connection' = Opening(backoff)
  BY <1>2 DEF attemptOpen
<1>4. Types'
  BY <1>3, TypesTaken DEF ConnInv, Types, Opening
<1>5. Down'
  BY <1>1, <1>3 DEF Down, Opening, ConnInv
<1>6. Announced'
  BY AnnouncedTaken DEF ConnInv
<1>7. Single'
  BY <1>2, <1>3 DEF Single, LiveSockets
<1>8. QED
  BY <1>4, <1>5, <1>6, <1>7 DEF ConnInv

(* The attempt that waits becomes a socket, or nothing and news of it.     *)
LEMMA Attempted ==
  ASSUME ConnInv, NEW i \in DOMAIN attempts, attempts' = RemoveAt(attempts, i)
  PROVE  /\ subscribed /\ connection.tag = "opening"
         /\ attempts' = <<>> /\ LiveSockets = {} /\ Endings = {}
<1>1. attempts # <<>> /\ subscribed /\ connection.tag = "opening"
  BY DEF ConnInv, Types, Down
<1>2. LiveSockets = {} /\ Endings = {} /\ Len(attempts) = 1
  BY <1>1 DEF ConnInv, Single
<1>3. i = 1
  BY <1>2 DEF ConnInv, Types
<1>4. attempts' = SubSeq(attempts, 1, 0) \o SubSeq(attempts, 2, 1)
  BY <1>2, <1>3 DEF RemoveAt
<1>5. attempts' = <<>>
  BY <1>4 DEF ConnInv, Types
<1>6. QED
  BY <1>1, <1>2, <1>5

LEMMA OpenKeeps ==
  ASSUME ConnInv, NEW i \in DOMAIN attempts, Open(i)
  PROVE  ConnInv'
<1>1. /\ subscribed /\ connection.tag = "opening"
      /\ attempts' = <<>> /\ LiveSockets = {} /\ Endings = {}
  BY Attempted DEF Open
<1>2. /\ DOMAIN socket = 1..Len(socket) /\ Len(socket) \in Nat
      /\ DOMAIN socket' = 1..(Len(socket) + 1)
      /\ socket'[Len(socket) + 1] = "connecting"
      /\ \A id \in DOMAIN socket : socket'[id] = socket[id]
      /\ socket' \in Seq({"connecting", "open", "closed"})
  BY DEF Open, ConnInv, Types
<1>3. Types'
  BY <1>1, <1>2 DEF Open, ConnInv, Types
<1>4. Down'
  BY <1>1, <1>2 DEF Open, ConnInv, Down
<1>5. Announced'
  BY <1>2 DEF Open, ConnInv, Announced
<1>6. LiveSockets' = {Len(socket) + 1}
  BY <1>1, <1>2 DEF LiveSockets
<1>7. Single'
  BY <1>1, <1>6 DEF Single, OneLive, Endings, Open
<1>8. QED
  BY <1>3, <1>4, <1>5, <1>7 DEF ConnInv

LEMMA OpenThrowsKeeps ==
  ASSUME ConnInv, NEW i \in DOMAIN attempts, OpenThrows(i)
  PROVE  ConnInv'
<1>1. /\ subscribed /\ connection.tag = "opening"
      /\ attempts' = <<>> /\ LiveSockets = {} /\ Endings = {}
  BY Attempted DEF OpenThrows
<1>2. /\ DOMAIN socket = 1..Len(socket) /\ Len(socket) \in Nat
      /\ DOMAIN socket' = 1..(Len(socket) + 1)
      /\ socket'[Len(socket) + 1] = "closed"
      /\ \A id \in DOMAIN socket : socket'[id] = socket[id]
      /\ socket' \in Seq({"connecting", "open", "closed"})
  BY DEF OpenThrows, ConnInv, Types
<1>3. BadOpen \in Message /\ BadOpen.ctor = "BadOpen" /\ mail' = Append(mail, BadOpen) /\ Types
  BY DEF OpenThrows, BadOpen, Msg, Message, ConnInv
<1>4. Types'
  BY <1>1, <1>2, <1>3, Posted DEF OpenThrows, Types
<1>5. Down'
  BY <1>1, <1>2, <1>3 DEF OpenThrows, ConnInv, Down
<1>6. Announced'
  BY <1>2, <1>3, AnnouncedPosted DEF ConnInv
<1>7. LiveSockets' = {}
  BY <1>1, <1>2 DEF LiveSockets
<1>8. Single'
  BY <1>1, <1>3, <1>7, EndingPosted DEF Single
<1>9. QED
  BY <1>4, <1>5, <1>6, <1>8 DEF ConnInv

(* A socket that is not closed is the only one.                            *)
LEMMA Live ==
  ASSUME ConnInv, NEW id \in DOMAIN socket, socket[id] # "closed"
  PROVE  subscribed /\ LiveSockets = {id} /\ attempts = <<>> /\ Endings = {}
<1>1. socket # <<>> /\ id \in LiveSockets
  BY DEF ConnInv, Types, LiveSockets
<1>2. subscribed
  BY <1>1 DEF ConnInv, Down
<1>3. QED
  BY <1>1, <1>2 DEF ConnInv, Single, OneLive

LEMMA OnOpenKeeps ==
  ASSUME ConnInv, NEW id \in DOMAIN socket, OnOpen(id)
  PROVE  ConnInv'
<1>1. subscribed /\ LiveSockets = {id} /\ attempts = <<>> /\ Endings = {}
  BY Live DEF OnOpen
<1>2. /\ DOMAIN socket' = DOMAIN socket /\ socket'[id] = "open"
      /\ \A k \in DOMAIN socket : k # id => socket'[k] = socket[k]
      /\ socket' \in Seq({"connecting", "open", "closed"})
  BY DEF OnOpen, ConnInv, Types
<1>3. /\ GoodOpen(id) \in Message /\ GoodOpen(id).ctor = "GoodOpen" /\ GoodOpen(id).n = id
      /\ mail' = Append(mail, GoodOpen(id)) /\ Types
  BY DEF OnOpen, GoodOpen, Msg, Message, ConnInv, Types
<1>4. Types'
  BY <1>2, <1>3, Posted DEF OnOpen, Types
<1>5. Down'
  BY <1>1, <1>2, <1>3, Posted DEF OnOpen, ConnInv, Down
<1>6. \A k \in DOMAIN socket : /\ k \in DOMAIN socket'
                               /\ socket[k] = "open" => socket'[k] = "open"
  BY <1>2
<1>7. Announced'
  BY <1>2, <1>3, <1>6, AnnouncedPosted DEF ConnInv
<1>8. LiveSockets' = {id}
  BY <1>1, <1>2 DEF LiveSockets
<1>9. Endings' = Endings
  BY <1>3, EndingPosted
<1>10. Single'
  BY <1>1, <1>8, <1>9 DEF Single, OneLive, OnOpen
<1>11. QED
  BY <1>4, <1>5, <1>7, <1>10 DEF ConnInv

LEMMA OnCloseKeeps ==
  ASSUME ConnInv, NEW id \in DOMAIN socket, OnClose(id)
  PROVE  ConnInv'
<1>1. subscribed /\ LiveSockets = {id} /\ attempts = <<>> /\ Endings = {}
  BY Live DEF OnClose
<1>2. /\ DOMAIN socket' = DOMAIN socket /\ socket'[id] = "closed"
      /\ \A k \in DOMAIN socket : k # id => socket'[k] = socket[k]
      /\ socket' \in Seq({"connecting", "open", "closed"})
  BY DEF OnClose, ConnInv, Types
<1>3. Die \in Message /\ Die.ctor = "Die" /\ mail' = Append(mail, Die) /\ Types
  BY DEF OnClose, Die, Msg, Message, ConnInv
<1>4. Types'
  BY <1>2, <1>3, Posted DEF OnClose, Types
<1>5. Down'
  BY <1>1, <1>2, <1>3, Posted DEF OnClose, ConnInv, Down
<1>6. Announced'
  BY <1>2, <1>3, AnnouncedPosted DEF ConnInv
<1>7. LiveSockets' = {}
  BY <1>1, <1>2 DEF LiveSockets
<1>8. OneEnding'
  BY <1>1, <1>3, EndingPosted
<1>9. Single'
  BY <1>1, <1>7, <1>8 DEF Single, OnClose
<1>10. QED
  BY <1>4, <1>5, <1>6, <1>9 DEF ConnInv

(* A message that says nothing of the connection is taken.                 *)
LEMMA QuietTaken ==
  ASSUME ConnInv, mail # <<>>, mail' = Tail(mail), Head(mail).ctor \in {"fx", "Receive"},
         subscribed, queue' \in Seq(1..MaxSends),
         UNCHANGED <<connection, subscribed, attempts, socket, arrived, given>>
  PROVE  ConnInv'
<1>1. Types'
  BY TypesTaken DEF ConnInv, Types
<1>2. Down'
  BY Taken DEF ConnInv, Down
<1>3. Announced'
  BY AnnouncedTaken DEF ConnInv
<1>4. LiveSockets' = LiveSockets
  BY DEF LiveSockets
<1>5. Single
  BY DEF ConnInv
<1>6. /\ Endings = {} => Endings' = {}
      /\ OneEnding => OneEnding'
  BY EndingTaken DEF ConnInv
<1>7. OneLive => OneLive'
  BY <1>4 DEF OneLive
<1>8. Single'
  BY <1>4, <1>5, <1>6, <1>7 DEF Single
<1>9. QED
  BY <1>1, <1>2, <1>3, <1>8 DEF ConnInv

LEMMA onEffectsKeeps ==
  ASSUME ConnInv, onEffects
  PROVE  ConnInv'
<1> DEFINE cmd == Head(mail).n
<1>1. mail # <<>> /\ Head(mail).ctor = "fx" /\ mail' = Tail(mail)
  BY DEF onEffects
<1>2. cmd \in Nat /\ cmd <= MaxSends
  <2>1. mail[1] \in Message /\ mail[1] = Head(mail) /\ 1 \in DOMAIN mail
    BY <1>1, Taken DEF ConnInv
  <2>2. cmd \in Nat /\ cmd <= Len(given)
    BY <1>1, <2>1 DEF Message, ConnInv, Types
  <2>3. Len(given) \in Nat /\ Len(given) <= MaxSends
    BY DEF ConnInv, Types
  <2>4. QED
    BY <2>2, <2>3, BoundAssumption
<1>3. queue' \in Seq(1..MaxSends)
  <2>1. cmd > 0 => <<cmd>> \in Seq(1..MaxSends)
    BY <1>2, BoundAssumption
  <2>2. queue \in Seq(1..MaxSends) /\ <<>> \in Seq(1..MaxSends)
    BY DEF ConnInv, Types
  <2>3. queue' = queue \/ queue' = <<>> \o queue \/ (cmd > 0 /\ queue' = <<cmd>> \o queue)
    BY DEF onEffects
  <2> HIDE DEF cmd
  <2>4. \A s, t \in Seq(1..MaxSends) : s \o t \in Seq(1..MaxSends)
    OBVIOUS
  <2>5. CASE cmd > 0 /\ queue' = <<cmd>> \o queue
    BY <2>1, <2>2, <2>4, <2>5
  <2>6. QED
    BY <2>2, <2>3, <2>4, <2>5
<1>4. CASE connection.tag = "none"
  <2>1. /\ ~subscribed /\ attempts = <<>> /\ socket = <<>>
        /\ \A i \in DOMAIN mail : mail[i].ctor = "fx"
    BY <1>4 DEF ConnInv, Down
  <2>2. attempts' = <<0>> /\ connection' = Opening(0) /\ subscribed' = TRUE /\ socket' = <<>>
    BY <1>4, <2>1 DEF onEffects, attemptOpen
  <2>3. Types'
    BY <1>1, <1>3, <2>2, TypesTaken DEF ConnInv, Types, Opening, onEffects
  <2>4. Down'
    BY <2>2 DEF Down, Opening
  <2>5. \A i \in DOMAIN mail' : mail'[i].ctor = "fx"
    BY <1>1, <2>1, Taken DEF ConnInv
  <2>6. Announced'
    BY <2>5 DEF Announced
  <2>7. Endings' = {}
    BY <2>5 DEF Endings
  <2>8. LiveSockets' = {}
    BY <2>2 DEF LiveSockets
  <2>9. Single'
    BY <2>2, <2>7, <2>8 DEF Single
  <2>10. QED
    BY <2>3, <2>4, <2>6, <2>9 DEF ConnInv
<1>5. CASE connection.tag # "none"
  <2>1. subscribed
    BY <1>5 DEF ConnInv, Down
  <2>2. UNCHANGED <<connection, subscribed, attempts, socket, arrived, given>>
    BY <1>5, <2>1 DEF onEffects, ConnInv, Types
  <2>3. QED
    BY <1>1, <1>3, <2>1, <2>2, QuietTaken
<1>6. QED
  BY <1>4, <1>5

LEMMA onGoodOpenKeeps ==
  ASSUME ConnInv, onGoodOpen
  PROVE  ConnInv'
<1> DEFINE id == Head(mail).n
<1>1. mail # <<>> /\ Head(mail).ctor = "GoodOpen" /\ mail' = Tail(mail)
  BY DEF onGoodOpen, Handles
<1>2. mail[1].ctor = "GoodOpen" /\ mail[1] = Head(mail) /\ 1 \in DOMAIN mail /\ mail[1] \in Message
  BY <1>1, Taken DEF ConnInv
<1>3. /\ subscribed /\ id \in DOMAIN socket /\ id \in Nat
      /\ socket[id] = "open" \/ \E j \in DOMAIN mail : j > 1 /\ mail[j].ctor = "Die"
  BY <1>2 DEF ConnInv, Down, Announced, Message
<1>4. attempts = <<>> /\ \A i \in DOMAIN mail : mail[i].ctor # "BadOpen"
  <2>1. CASE socket[id] = "open"
    BY <1>3, <2>1, Live DEF Endings
  <2>2. CASE \E j \in DOMAIN mail : j > 1 /\ mail[j].ctor = "Die"
    <3>1. PICK j \in DOMAIN mail : mail[j].ctor = "Die"
      BY <2>2
    <3>2. j \in Endings
      BY <3>1 DEF Endings
    <3>3. attempts = <<>> /\ Endings = {j}
      BY <1>3, <3>2 DEF ConnInv, Single, OneEnding
    <3>4. QED
      BY <3>1, <3>3 DEF Endings
  <2>3. QED
    BY <1>3, <2>1, <2>2
<1>5. /\ connection' = [tag |-> "connected", n |-> id] /\ queue' = <<>>
      /\ UNCHANGED <<subscribed, attempts, socket, arrived, given>>
  BY DEF onGoodOpen, Connected
<1>6. Types'
  BY <1>1, <1>3, <1>5, TypesTaken DEF ConnInv, Types
<1>7. \A i \in DOMAIN mail' : mail'[i].ctor # "BadOpen"
  BY <1>1, <1>4, Taken DEF ConnInv
<1>8. Down'
  BY <1>3, <1>4, <1>5, <1>7 DEF Down
<1>9. Announced'
  BY <1>1, <1>5, AnnouncedTaken DEF ConnInv
<1>10. /\ Endings = {} => Endings' = {}
       /\ OneEnding => OneEnding'
  BY <1>1, EndingTaken DEF ConnInv
<1>11. LiveSockets' = LiveSockets /\ Single
  BY <1>3, <1>5 DEF LiveSockets, ConnInv
<1>12. Single'
  BY <1>4, <1>5, <1>10, <1>11 DEF Single, OneLive
<1>13. QED
  BY <1>6, <1>8, <1>9, <1>12 DEF ConnInv

LEMMA onSelfMsgKeeps ==
  ASSUME ConnInv, onSelfMsg
  PROVE  ConnInv'
<1>1. CASE onReceive
  <2>1. mail # <<>> /\ Head(mail).ctor = "Receive" /\ mail' = Tail(mail)
    BY <1>1 DEF onReceive, Handles
  <2>2. subscribed
    BY <2>1, Taken DEF ConnInv, Down
  <2>3. QED
    BY <1>1, <2>1, <2>2, QuietTaken DEF onReceive, ConnInv, Types
<1>2. CASE onDie
  <2>1. mail # <<>> /\ Head(mail).ctor = "Die" /\ mail' = Tail(mail)
    BY <1>2 DEF onDie, Handles
  <2>2. connection.tag # "none"
    BY <2>1, Taken DEF ConnInv, Down
  <2>3. attemptOpen(0) /\ UNCHANGED <<queue, subscribed, socket, arrived, given>>
    BY <1>2, <2>2 DEF onDie
  <2>4. QED
    BY <2>1, <2>3, Reopened
<1>3. CASE onBadOpen
  <2>1. mail # <<>> /\ Head(mail).ctor = "BadOpen" /\ mail' = Tail(mail)
    BY <1>3 DEF onBadOpen, Handles
  <2>2. connection.tag = "opening" /\ connection.n + 1 \in Nat
    BY <2>1, Taken DEF ConnInv, Down, Types
  <2>3. attemptOpen(connection.n + 1) /\ UNCHANGED <<queue, subscribed, socket, arrived, given>>
    BY <1>3, <2>2 DEF onBadOpen
  <2>4. QED
    BY <2>1, <2>2, <2>3, Reopened
<1>4. CASE onGoodOpen
  BY <1>4, onGoodOpenKeeps
<1>5. QED
  BY <1>1, <1>2, <1>3, <1>4 DEF onSelfMsg

LEMMA ConnNext ==
  ASSUME ConnInv, [Next]_vars
  PROVE  ConnInv'
<1>1. CASE Update
  <2>1. /\ fx(Len(given) + 1) \in Message /\ fx(Len(given) + 1).ctor = "fx"
        /\ fx(Len(given) + 1).n = Len(given) + 1
    BY DEF fx, Msg, Message, ConnInv, Types
  <2>2. /\ given' \in Seq(Nat) /\ Len(given') = Len(given) + 1 /\ Len(given) \in Nat
        /\ Len(given') <= MaxSends
    BY <1>1, BoundAssumption DEF Update, ConnInv, Types
  <2>3. QED
    BY <1>1, <2>1, <2>2, QuietPosted DEF Update, ConnInv, Types
<1>2. ASSUME NEW id \in DOMAIN socket, OnMessage(id) PROVE ConnInv'
  <2>1. /\ Receive(Len(arrived) + 1) \in Message /\ Receive(Len(arrived) + 1).ctor = "Receive"
        /\ arrived' \in Seq(Nat)
    BY <1>2 DEF OnMessage, Receive, Msg, Message, ConnInv, Types
  <2>2. subscribed
    BY <1>2, Live DEF OnMessage
  <2>3. given' \in Seq(Nat) /\ Len(given) <= Len(given') /\ Len(given') <= MaxSends
    BY <1>2 DEF OnMessage, ConnInv, Types
  <2>4. QED
    BY <1>2, <2>1, <2>2, <2>3, QuietPosted DEF OnMessage
<1>3. CASE UNCHANGED vars
  BY <1>3 DEF vars, ConnInv, Types, Down, Announced, Single, OneLive, OneEnding, LiveSockets, Endings
<1>4. CASE Start
  BY <1>4, OpenKeeps, OpenThrowsKeeps DEF Start
<1>5. QED
  BY <1>1, <1>2, <1>3, <1>4, OnOpenKeeps, OnCloseKeeps, onEffectsKeeps, onSelfMsgKeeps
     DEF Next, Manager

LEMMA ConnInit == Init => ConnInv
<1> SUFFICES ASSUME Init PROVE ConnInv
  OBVIOUS
<1>1. mail = <<fx(0)>> /\ fx(0) = [ctor |-> "fx", n |-> 0]
  BY DEF Init, fx, Msg
<1>2. Types
  <2>1. fx(0) \in Message /\ mail \in Seq(Message) /\ DOMAIN mail = {1} /\ mail[1] = fx(0)
    BY <1>1 DEF Message
  <2>2. \A i \in DOMAIN mail : mail[i].n <= Len(given)
    BY <1>1, <2>1 DEF Init
  <2>3. given \in Seq(Nat) /\ arrived \in Seq(Nat) /\ Len(given) <= MaxSends
    BY BoundAssumption DEF Init
  <2>4. connection \in [tag : {"none", "opening", "connected"}, n : Nat] /\ subscribed \in BOOLEAN
    BY DEF Init, None
  <2>5. /\ queue \in Seq(1..MaxSends) /\ attempts \in Seq(Nat)
        /\ socket \in Seq({"connecting", "open", "closed"})
    BY DEF Init
  <2>6. QED
    BY <2>1, <2>2, <2>3, <2>4, <2>5 DEF Types
<1>3. Down
  BY <1>1 DEF Init, Down, None
<1>4. Announced
  BY <1>1 DEF Announced
<1>5. QED
  BY <1>2, <1>3, <1>4 DEF ConnInv, Init

(* From the first effects on there is exactly one socket, attempt or news  *)
(* of an end, over any number of sockets that open, fail, throw and close  *)
(* at any time (onEffects, onSelfMsg, attemptOpen and the native open).    *)
THEOREM AlwaysOneConnection == Spec => []OneConnection
<1>1. ConnInv => OneConnection
  BY DEF ConnInv, Types, Down, OneConnection, TypeOK, Single, OneLive, OneEnding
<1>2. QED
  BY <1>1, ConnInit, ConnNext, PTL DEF Spec

-----------------------------------------------------------------------------
(***************************************************************************)
(* What the program sends.  A message is in the mail, in the queue or      *)
(* written, and what is further on its way is older.                       *)
(***************************************************************************)

Rising(s) == \A i, j \in DOMAIN s : i < j => s[i] < s[j]
Falling(s) == \A i, j \in DOMAIN s : i < j => s[j] < s[i]
AllBelow(s, n) == \A i \in DOMAIN s : s[i] < n

\* The effects in the mail that carry a message.
Carries(k) == mail[k].ctor = "fx" /\ mail[k].n > 0

MailLater ==
  \A k \in DOMAIN mail : Carries(k) =>
    /\ AllBelow(written, mail[k].n) /\ AllBelow(queue, mail[k].n)
    /\ \A l \in DOMAIN mail : Carries(l) /\ k < l => mail[k].n < mail[l].n

SendInv ==
  /\ written \in Seq(Nat)
  /\ connection.tag = "connected" => queue = <<>>
  /\ Rising(written) /\ Falling(queue)
  /\ \A j \in DOMAIN queue : AllBelow(written, queue[j])
  /\ AllBelow(written, Len(given) + 1) /\ AllBelow(queue, Len(given) + 1)
  /\ MailLater

(* A concatenation of rising sequences.                                    *)
LEMMA RisingConcat ==
  ASSUME NEW s \in Seq(Nat), NEW t \in Seq(Nat), Rising(s), Rising(t),
         \A j \in DOMAIN t : AllBelow(s, t[j])
  PROVE  /\ s \o t \in Seq(Nat) /\ Rising(s \o t)
         /\ \A n \in Nat : AllBelow(s, n) /\ AllBelow(t, n) => AllBelow(s \o t, n)
<1> DEFINE u == s \o t
<1>1. /\ u \in Seq(Nat) /\ Len(u) = Len(s) + Len(t) /\ Len(s) \in Nat /\ Len(t) \in Nat
      /\ \A i \in 1..Len(u) : u[i] = IF i <= Len(s) THEN s[i] ELSE t[i - Len(s)]
  OBVIOUS
<1>2. DOMAIN u = 1..Len(u) /\ DOMAIN s = 1..Len(s) /\ DOMAIN t = 1..Len(t)
  OBVIOUS
<1> HIDE DEF u
<1>3. \A i \in DOMAIN u : \/ i \in DOMAIN s /\ u[i] = s[i]
                          \/ i - Len(s) \in DOMAIN t /\ u[i] = t[i - Len(s)] /\ i > Len(s)
  BY <1>1, <1>2
<1>4. ASSUME NEW i \in DOMAIN u, NEW j \in DOMAIN u, i < j PROVE u[i] < u[j]
  <2>1. CASE j \in DOMAIN s
    BY <1>1, <1>2, <1>4, <2>1 DEF Rising
  <2>2. CASE j \notin DOMAIN s /\ i \in DOMAIN s
    BY <1>1, <1>2, <1>3, <1>4, <2>2 DEF AllBelow
  <2>3. CASE i \notin DOMAIN s
    <3>1. i - Len(s) \in DOMAIN t /\ u[i] = t[i - Len(s)] /\ i > Len(s)
      BY <1>3, <2>3
    <3>2. j \notin DOMAIN s /\ i - Len(s) < j - Len(s)
      BY <1>1, <1>2, <1>4, <3>1
    <3>3. j - Len(s) \in DOMAIN t /\ u[j] = t[j - Len(s)]
      BY <1>3, <3>2
    <3>4. QED
      BY <3>1, <3>2, <3>3 DEF Rising
  <2>4. QED
    BY <2>1, <2>2, <2>3
<1>5. Rising(u)
  BY <1>4 DEF Rising
<1>6. \A n \in Nat : AllBelow(s, n) /\ AllBelow(t, n) => AllBelow(u, n)
  BY <1>3 DEF AllBelow
<1>7. QED
  BY <1>1, <1>5, <1>6 DEF u

(* The queue, newest first, is written oldest first.                       *)
LEMMA RisingReverse ==
  ASSUME NEW S, S \subseteq Nat, NEW q \in Seq(S), Falling(q)
  PROVE  /\ Reverse(q) \in Seq(Nat) /\ Rising(Reverse(q))
         /\ \A i \in DOMAIN Reverse(q) : \E j \in DOMAIN q : Reverse(q)[i] = q[j]
<1> DEFINE r == Reverse(q)
<1>1. /\ Len(q) \in Nat /\ DOMAIN q = 1..Len(q) /\ DOMAIN r = 1..Len(q)
      /\ \A i \in DOMAIN r : r[i] = q[(Len(q) - i) + 1] /\ (Len(q) - i) + 1 \in DOMAIN q
  BY DEF Reverse
<1>2. \A j \in DOMAIN q : q[j] \in Nat
  <2>1. \A j \in 1..Len(q) : q[j] \in S
    OBVIOUS
  <2>2. QED
    BY <1>1, <2>1
<1>3. r \in Seq(Nat)
  BY <1>1, <1>2 DEF Reverse
<1> HIDE DEF r
<1>4. ASSUME NEW i \in DOMAIN r, NEW j \in DOMAIN r, i < j PROVE r[i] < r[j]
  <2>1. (Len(q) - j) + 1 < (Len(q) - i) + 1
    BY <1>1, <1>4
  <2>2. QED
    BY <1>1, <2>1 DEF Falling
<1>5. QED
  BY <1>1, <1>3, <1>4 DEF Rising, r

LEMMA MailPosted ==
  ASSUME Types, MailLater, NEW msg \in Message, mail' = Append(mail, msg),
         UNCHANGED <<written, queue>>,
         msg.ctor = "fx" => /\ AllBelow(written, msg.n) /\ AllBelow(queue, msg.n)
                            /\ \A k \in DOMAIN mail : Carries(k) => mail[k].n < msg.n
  PROVE  MailLater'
<1>1. \A k \in DOMAIN mail' : k \notin DOMAIN mail => k = Len(mail) + 1
  BY Posted
<1>2. \A k \in DOMAIN mail : k < Len(mail) + 1
  BY Posted
<1>3. ASSUME NEW k \in DOMAIN mail', Carries(k)'
      PROVE  AllBelow(written, mail'[k].n) /\ AllBelow(queue, mail'[k].n)
  <2>1. CASE k \in DOMAIN mail
    BY <1>3, <2>1, Posted DEF MailLater, Carries
  <2>2. CASE k = Len(mail) + 1
    BY <1>3, <2>2, Posted DEF Carries
  <2>3. QED
    BY <1>1, <2>1, <2>2
<1>4. ASSUME NEW k \in DOMAIN mail', Carries(k)', NEW l \in DOMAIN mail', Carries(l)', k < l
      PROVE  mail'[k].n < mail'[l].n
  <2>1. k \in DOMAIN mail /\ mail'[k] = mail[k]
    BY <1>4, Posted
  <2>2. CASE l \in DOMAIN mail
    BY <1>4, <2>1, <2>2, Posted DEF MailLater, Carries
  <2>3. CASE l = Len(mail) + 1
    BY <1>4, <2>1, <2>3, Posted DEF Carries
  <2>4. QED
    BY <1>1, <2>2, <2>3
<1>5. QED
  BY <1>3, <1>4 DEF MailLater

LEMMA MailTaken ==
  ASSUME Types, MailLater, mail # <<>>, mail' = Tail(mail),
         \A k \in DOMAIN mail : k > 1 /\ Carries(k) =>
           AllBelow(written', mail[k].n) /\ AllBelow(queue', mail[k].n)
  PROVE  MailLater'
<1>1. ASSUME NEW k \in DOMAIN mail', Carries(k)'
      PROVE  k + 1 \in DOMAIN mail /\ k + 1 > 1 /\ k \in Nat /\ mail'[k] = mail[k + 1] /\ Carries(k + 1)
  BY <1>1, Taken DEF Carries
<1>2. ASSUME NEW k \in DOMAIN mail', Carries(k)'
      PROVE  AllBelow(written', mail'[k].n) /\ AllBelow(queue', mail'[k].n)
  BY <1>1, <1>2
<1>3. ASSUME NEW k \in DOMAIN mail', Carries(k)', NEW l \in DOMAIN mail', Carries(l)', k < l
      PROVE  mail'[k].n < mail'[l].n
  <2>1. k + 1 < l + 1
    BY <1>1, <1>3
  <2>2. QED
    BY <1>1, <1>3, <2>1 DEF MailLater
<1>4. QED
  BY <1>2, <1>3 DEF MailLater

(* Mail without a message of the program changes nothing about these.      *)
LEMMA SendsQuiet ==
  ASSUME Types, SendInv, UNCHANGED <<written, queue, given>>,
         connection'.tag = "connected" => connection.tag = "connected",
         \/ UNCHANGED mail
         \/ \E msg \in Message : msg.ctor # "fx" /\ mail' = Append(mail, msg)
         \/ mail # <<>> /\ mail' = Tail(mail)
  PROVE  SendInv'
<1>1. MailLater'
  <2>1. CASE UNCHANGED mail
    BY <2>1 DEF SendInv, MailLater, Carries
  <2>2. CASE \E msg \in Message : msg.ctor # "fx" /\ mail' = Append(mail, msg)
    BY <2>2, MailPosted DEF SendInv
  <2>3. CASE mail # <<>> /\ mail' = Tail(mail)
    <3>1. \A k \in DOMAIN mail : k > 1 /\ Carries(k) =>
            AllBelow(written', mail[k].n) /\ AllBelow(queue', mail[k].n)
      BY DEF SendInv, MailLater
    <3>2. QED
      BY <2>3, <3>1, MailTaken DEF SendInv
  <2>4. QED
    BY <2>1, <2>2, <2>3
<1>2. QED
  BY <1>1 DEF SendInv

(* What is below a bound is below a greater one.                           *)
LEMMA BelowMore ==
  ASSUME NEW s \in Seq(Nat), NEW m \in Nat, NEW n \in Nat, AllBelow(s, m), m <= n
  PROVE  AllBelow(s, n)
<1>1. \A i \in DOMAIN s : s[i] \in Nat
  OBVIOUS
<1>2. QED
  BY <1>1 DEF AllBelow

(* A sequence over some natural numbers is one of natural numbers.         *)
LEMMA OfNats ==
  ASSUME NEW S, S \subseteq Nat, NEW q \in Seq(S)
  PROVE  q \in Seq(Nat)
<1>1. Len(q) \in Nat /\ DOMAIN q = 1..Len(q) /\ q = [i \in 1..Len(q) |-> q[i]]
  OBVIOUS
<1>2. \A i \in 1..Len(q) : q[i] \in S
  OBVIOUS
<1>3. \A i \in 1..Len(q) : q[i] \in Nat
  BY <1>2
<1>4. QED
  BY <1>1, <1>3

LEMMA QueueOfNats ==
  ASSUME Types
  PROVE  queue \in Seq(Nat)
<1>1. 1..MaxSends \subseteq Nat
  BY BoundAssumption
<1>2. queue \in Seq(1..MaxSends)
  BY DEF Types
<1>3. QED
  BY <1>1, <1>2, OfNats

LEMMA UpdateSends ==
  ASSUME Types, SendInv, Update
  PROVE  SendInv'
<1> DEFINE n == Len(given) + 1
<1>1. Len(given) \in Nat /\ n \in Nat /\ Len(given') = n
  BY DEF Types, Update
<1>2. fx(n) \in Message /\ fx(n).ctor = "fx" /\ fx(n).n = n
  BY <1>1 DEF fx, Msg, Message
<1>3. \A k \in DOMAIN mail : Carries(k) => mail[k].n < n
  <2>1. ASSUME NEW k \in DOMAIN mail, Carries(k) PROVE mail[k].n < n
    <3>1. mail[k] \in Message
      BY DEF Types
    <3>2. mail[k].n \in Nat /\ mail[k].n <= Len(given)
      BY <2>1, <3>1 DEF Types, Message, Carries
    <3>3. QED
      BY <1>1, <3>2
  <2>2. QED
    BY <2>1
<1>4. AllBelow(written, n) /\ AllBelow(queue, n)
  BY DEF SendInv
<1>5. mail' = Append(mail, fx(n)) /\ UNCHANGED <<connection, queue, written>>
  BY DEF Update
<1> HIDE DEF n
<1>6. MailLater'
  BY <1>2, <1>3, <1>4, <1>5, MailPosted DEF SendInv
<1>7. AllBelow(written, n + 1) /\ AllBelow(queue, n + 1)
  BY <1>1, <1>4, BelowMore, QueueOfNats DEF SendInv
<1>8. QED
  BY <1>1, <1>5, <1>6, <1>7 DEF SendInv

LEMMA onEffectsSends ==
  ASSUME Types, SendInv, onEffects
  PROVE  SendInv'
<1> DEFINE cmd == Head(mail).n
<1>1. /\ mail # <<>> /\ Head(mail).ctor = "fx" /\ mail' = Tail(mail)
      /\ connection'.tag = "connected" => connection.tag = "connected"
      /\ UNCHANGED given
  BY DEF onEffects, attemptOpen, Opening
<1>2. /\ mail[1] \in Message /\ mail[1] = Head(mail) /\ 1 \in DOMAIN mail
      /\ cmd \in Nat /\ cmd <= Len(given) /\ Len(given) \in Nat
  <2>1. mail[1] \in Message /\ mail[1] = Head(mail) /\ 1 \in DOMAIN mail
    BY <1>1, Taken
  <2>2. QED
    BY <1>1, <2>1 DEF Types, Message
<1>3. \A k \in DOMAIN mail : k > 1 /\ Carries(k) =>
        AllBelow(written, mail[k].n) /\ AllBelow(queue, mail[k].n)
  BY DEF SendInv, MailLater
<1>4. CASE cmd = 0
  <2>1. queue' = queue /\ written' = written
    BY <1>4, QueueOfNats DEF onEffects
  <2>2. QED
    BY <1>1, <2>1, SendsQuiet
<1>5. CASE cmd > 0
  <2>1. Carries(1) /\ AllBelow(written, cmd) /\ AllBelow(queue, cmd)
    BY <1>1, <1>2, <1>5 DEF SendInv, MailLater, Carries
  <2>2. \A k \in DOMAIN mail : k > 1 /\ Carries(k) => cmd < mail[k].n
    BY <1>2, <2>1 DEF SendInv, MailLater
  <2>3. CASE connection.tag = "connected"
    <3>1. queue = <<>> /\ queue' = <<>> /\ written' \in {written, written \o <<cmd>>}
      BY <1>5, <2>3 DEF onEffects, WSSend, SendInv
    <3>2. CASE written' = written
      BY <1>1, <3>1, <3>2, SendsQuiet
    <3>3. CASE written' = written \o <<cmd>>
      <4> HIDE DEF cmd
      <4>1. <<cmd>> \in Seq(Nat) /\ DOMAIN <<cmd>> = {1} /\ <<cmd>>[1] = cmd /\ Rising(<<cmd>>)
        BY <1>2 DEF Rising
      <4>2. \A j \in DOMAIN <<cmd>> : AllBelow(written, <<cmd>>[j])
        BY <2>1, <4>1
      <4>3. written \in Seq(Nat) /\ Rising(written)
        BY DEF SendInv
      <4>4. /\ written' \in Seq(Nat) /\ Rising(written')
            /\ \A n \in Nat : AllBelow(written, n) /\ AllBelow(<<cmd>>, n) => AllBelow(written', n)
        BY <3>3, <4>1, <4>2, <4>3, RisingConcat
      <4>5. \A n \in Nat : cmd < n => AllBelow(<<cmd>>, n)
        BY <4>1 DEF AllBelow
      <4>6. AllBelow(written', Len(given) + 1)
        BY <1>2, <4>4, <4>5 DEF SendInv
      <4>7. ASSUME NEW k \in DOMAIN mail, k > 1, Carries(k)
            PROVE  AllBelow(written', mail[k].n) /\ AllBelow(queue', mail[k].n)
        <5>1. mail[k] \in Message
          BY DEF Types
        <5>2. mail[k].n \in Nat /\ cmd < mail[k].n /\ AllBelow(written, mail[k].n)
          BY <1>3, <2>2, <4>7, <5>1 DEF Message
        <5>3. AllBelow(written', mail[k].n)
          BY <4>4, <4>5, <5>2
        <5>4. QED
          BY <3>1, <5>3 DEF AllBelow
      <4>8. MailLater'
        BY <1>1, <4>7, MailTaken DEF SendInv
      <4>9. QED
        BY <1>1, <3>1, <4>4, <4>6, <4>8 DEF SendInv, Falling, AllBelow
    <3>4. QED
      BY <3>1, <3>2, <3>3
  <2>4. CASE connection.tag # "connected"
    <3>1. written' = written /\ queue' = <<cmd>> \o queue /\ connection'.tag # "connected"
      BY <1>1, <1>5, <2>4 DEF onEffects
    <3> HIDE DEF cmd
    <3>2. /\ DOMAIN queue = 1..Len(queue) /\ Len(queue) \in Nat /\ DOMAIN queue' = 1..(Len(queue) + 1)
          /\ queue'[1] = cmd /\ \A i \in DOMAIN queue' : i # 1 => i - 1 \in DOMAIN queue /\ queue'[i] = queue[i - 1]
      BY <3>1, <1>2, QueueOfNats
    <3>3. Falling(queue')
      <4>1. ASSUME NEW i \in DOMAIN queue', NEW j \in DOMAIN queue', i < j PROVE queue'[j] < queue'[i]
        <5>1. j # 1 /\ j - 1 \in DOMAIN queue /\ queue'[j] = queue[j - 1]
          BY <3>2, <4>1
        <5>2. CASE i = 1
          BY <2>1, <3>2, <5>1, <5>2 DEF AllBelow
        <5>3. CASE i # 1
          <6>1. i - 1 \in DOMAIN queue /\ queue'[i] = queue[i - 1] /\ i - 1 < j - 1
            BY <3>2, <4>1, <5>3
          <6>2. QED
            BY <5>1, <6>1 DEF SendInv, Falling
        <5>4. QED
          BY <5>2, <5>3
      <4>2. QED
        BY <4>1 DEF Falling
    <3>4. \A j \in DOMAIN queue' : AllBelow(written, queue'[j])
      BY <2>1, <3>2 DEF SendInv
    <3>5. \A n \in Nat : cmd < n /\ AllBelow(queue, n) => AllBelow(queue', n)
      BY <3>2 DEF AllBelow
    <3>6. AllBelow(queue', Len(given) + 1)
      BY <1>2, <3>5 DEF SendInv
    <3>7. ASSUME NEW k \in DOMAIN mail, k > 1, Carries(k)
          PROVE  AllBelow(written', mail[k].n) /\ AllBelow(queue', mail[k].n)
      <4>1. mail[k] \in Message
        BY DEF Types
      <4>2. mail[k].n \in Nat /\ cmd < mail[k].n
        BY <2>2, <3>7, <4>1 DEF Message
      <4>3. QED
        BY <1>3, <3>1, <3>5, <3>7, <4>2
    <3>8. MailLater'
      BY <1>1, <3>7, MailTaken DEF SendInv
    <3>9. QED
      BY <1>1, <3>1, <3>3, <3>4, <3>6, <3>8 DEF SendInv
  <2>5. QED
    BY <2>3, <2>4
<1>6. QED
  BY <1>2, <1>4, <1>5

LEMMA onGoodOpenSends ==
  ASSUME Types, SendInv, onGoodOpen
  PROVE  SendInv'
<1>1. /\ mail # <<>> /\ mail' = Tail(mail) /\ queue' = <<>> /\ UNCHANGED given
      /\ written' \in {written, written \o Reverse(queue)}
  BY DEF onGoodOpen, Handles, WSSend
<1>2. queue \in Seq(Nat) /\ Falling(queue) /\ Rising(written) /\ written \in Seq(Nat)
  BY QueueOfNats DEF SendInv
<1>3. /\ Reverse(queue) \in Seq(Nat) /\ Rising(Reverse(queue))
      /\ \A i \in DOMAIN Reverse(queue) : \E j \in DOMAIN queue : Reverse(queue)[i] = queue[j]
  BY <1>2, RisingReverse
<1>4. \A j \in DOMAIN Reverse(queue) : AllBelow(written, Reverse(queue)[j])
  BY <1>3 DEF SendInv
<1>5. \A n \in Nat : AllBelow(queue, n) => AllBelow(Reverse(queue), n)
  BY <1>3 DEF AllBelow
<1>6. /\ written' \in Seq(Nat) /\ Rising(written')
      /\ \A n \in Nat : AllBelow(written, n) /\ AllBelow(queue, n) => AllBelow(written', n)
  BY <1>1, <1>2, <1>3, <1>4, <1>5, RisingConcat
<1>7. ASSUME NEW k \in DOMAIN mail, k > 1, Carries(k)
      PROVE  AllBelow(written', mail[k].n) /\ AllBelow(queue', mail[k].n)
  <2>1. mail[k] \in Message
    BY DEF Types
  <2>2. mail[k].n \in Nat /\ AllBelow(written, mail[k].n) /\ AllBelow(queue, mail[k].n)
    BY <1>7, <2>1 DEF Message, SendInv, MailLater
  <2>3. AllBelow(written', mail[k].n)
    BY <1>6, <2>2
  <2>4. QED
    BY <1>1, <2>3 DEF AllBelow
<1>8. MailLater'
  BY <1>1, <1>7, MailTaken DEF SendInv
<1>9. Len(given) + 1 \in Nat
  BY DEF Types
<1>10. AllBelow(written', Len(given') + 1)
  BY <1>1, <1>6, <1>9 DEF SendInv
<1>11. Falling(queue') /\ AllBelow(queue', Len(given') + 1)
  BY <1>1 DEF Falling, AllBelow
<1>12. \A j \in DOMAIN queue' : AllBelow(written', queue'[j])
  BY <1>1
<1>13. QED
  BY <1>1, <1>6, <1>8, <1>10, <1>11, <1>12 DEF SendInv

LEMMA SendNext ==
  ASSUME ConnInv, SendInv, [Next]_vars
  PROVE  SendInv'
<1>1. Types
  BY DEF ConnInv
<1>2. CASE Update
  BY <1>1, <1>2, UpdateSends
<1>3. CASE onEffects
  BY <1>1, <1>3, onEffectsSends
<1>4. CASE onGoodOpen
  BY <1>1, <1>4, onGoodOpenSends
<1>5. CASE onReceive \/ onDie \/ onBadOpen
  BY <1>1, <1>5, SendsQuiet DEF onReceive, onDie, onBadOpen, Handles, attemptOpen, Opening
<1>6. CASE Start
  <2>1. BadOpen \in Message /\ BadOpen.ctor # "fx"
    BY DEF BadOpen, Msg, Message
  <2>2. QED
    BY <1>1, <1>6, <2>1, SendsQuiet DEF Start, Open, OpenThrows
<1>7. ASSUME NEW id \in DOMAIN socket, OnOpen(id) \/ OnMessage(id) \/ OnClose(id)
      PROVE  SendInv'
  <2>1. /\ GoodOpen(id) \in Message /\ GoodOpen(id).ctor # "fx"
        /\ Receive(Len(arrived) + 1) \in Message /\ Receive(Len(arrived) + 1).ctor # "fx"
        /\ Die \in Message /\ Die.ctor # "fx"
    BY <1>1 DEF GoodOpen, Receive, Die, Msg, Message, Types
  <2>2. QED
    BY <1>1, <1>7, <2>1, SendsQuiet DEF OnOpen, OnMessage, OnClose
<1>8. CASE UNCHANGED vars
  BY <1>1, <1>8, SendsQuiet DEF vars
<1>9. QED
  BY <1>2, <1>3, <1>4, <1>5, <1>6, <1>7, <1>8 DEF Next, Manager, onSelfMsg

(* What sockets take of the program's messages they take in the order it   *)
(* sent them: those queued while there was no connection, those sent while *)
(* there was one, and across any number of reconnections (onEffects,       *)
(* onSelfMsg's GoodOpen and the native send).                              *)
THEOREM SendsStayInOrder == Spec => []WrittenInOrder
<1>1. Init => SendInv
  <2> SUFFICES ASSUME Init PROVE SendInv
    OBVIOUS
  <2>1. DOMAIN mail = {1} /\ mail[1].n = 0
    BY DEF Init, fx, Msg
  <2>2. MailLater
    BY <2>1 DEF MailLater, Carries
  <2>3. QED
    BY <2>2 DEF Init, SendInv, None, Rising, Falling, AllBelow
<1>2. SendInv => WrittenInOrder
  BY DEF SendInv, Rising, WrittenInOrder
<1>3. QED
  BY <1>1, <1>2, ConnInit, ConnNext, SendNext, PTL DEF Spec

-----------------------------------------------------------------------------
(***************************************************************************)
(* What the server sends.                                                  *)
(***************************************************************************)
ReceiveInv ==
  /\ received \in Seq(Nat)
  /\ \A i \in DOMAIN arrived : arrived[i] = i
  /\ ReceivedInOrder

(* As messages are numbered as they arrive, those that wait are the ones   *)
(* from Len(received) + 1 on.                                              *)
LEMMA WaitingNumbers ==
  ASSUME Types, received \in Seq(Nat), \A i \in DOMAIN arrived : arrived[i] = i
  PROVE  {arrived[i] : i \in Len(received) + 1 .. Len(arrived)} = Len(received) + 1 .. Len(arrived)
<1>1. Len(received) \in Nat /\ Len(arrived) \in Nat /\ DOMAIN arrived = 1..Len(arrived)
  BY DEF Types
<1>2. \A i \in Len(received) + 1 .. Len(arrived) : arrived[i] = i
  BY <1>1
<1>3. QED
  BY <1>2

(* Mail of another kind comes in.                                          *)
LEMMA ReceivesPosted ==
  ASSUME Types, ReceiveInv, NEW msg \in Message, msg.ctor # "Receive", mail' = Append(mail, msg),
         UNCHANGED <<arrived, received>>
  PROVE  ReceiveInv'
<1>1. Receives' = Receives /\ \A k \in Receives : mail'[k] = mail[k]
  BY Posted DEF Receives
<1>2. {mail'[k].n : k \in Receives'} = {mail[k].n : k \in Receives}
  BY <1>1
<1>3. QED
  BY <1>1, <1>2 DEF ReceiveInv, ReceivedInOrder

(* The manager takes its first mail: the messages that wait move up.       *)
LEMMA ReceivesMove ==
  ASSUME Types, ReceiveInv, mail # <<>>, mail' = Tail(mail)
  PROVE  /\ Receives' = {k \in DOMAIN mail' : k + 1 \in Receives}
         /\ \A j, k \in Receives' : j < k => mail'[j].n < mail'[k].n
         /\ {mail'[k].n : k \in Receives'} = {mail[k].n : k \in Receives \ {1}}
<1>1. /\ DOMAIN mail' = 1..(Len(mail) - 1) /\ DOMAIN mail = 1..Len(mail) /\ Len(mail) \in Nat \ {0}
      /\ \A i \in DOMAIN mail' : i + 1 \in DOMAIN mail /\ mail'[i] = mail[i + 1]
  BY Taken
<1>2. Receives' = {k \in DOMAIN mail' : k + 1 \in Receives}
  BY <1>1 DEF Receives
<1>3. ASSUME NEW j \in Receives', NEW k \in Receives', j < k PROVE mail'[j].n < mail'[k].n
  <2>1. j \in Int /\ k \in Int /\ j + 1 < k + 1 /\ j + 1 \in Receives /\ k + 1 \in Receives
    BY <1>1, <1>2, <1>3
  <2>2. mail[j + 1].n < mail[k + 1].n
    BY <2>1 DEF ReceiveInv, ReceivedInOrder
  <2>3. QED
    BY <1>1, <1>2, <2>2
<1>4. ASSUME NEW k \in Receives \ {1} PROVE k - 1 \in Receives' /\ mail'[k - 1] = mail[k]
  <2>1. k \in 2..Len(mail)
    BY <1>1 DEF Receives
  <2>2. k - 1 \in DOMAIN mail' /\ (k - 1) + 1 = k
    BY <1>1, <2>1
  <2>3. QED
    BY <1>1, <1>2, <2>2
<1>5. ASSUME NEW k \in Receives' PROVE k + 1 \in Receives \ {1} /\ mail'[k] = mail[k + 1]
  BY <1>1, <1>2
<1>6. {mail'[k].n : k \in Receives'} = {mail[k].n : k \in Receives \ {1}}
  <2>1. ASSUME NEW k \in Receives' PROVE mail'[k].n \in {mail[i].n : i \in Receives \ {1}}
    BY <1>5
  <2>2. ASSUME NEW k \in Receives \ {1} PROVE mail[k].n \in {mail'[i].n : i \in Receives'}
    BY <1>4
  <2>3. QED
    BY <2>1, <2>2
<1>7. QED
  BY <1>2, <1>3, <1>6

LEMMA ReceivesTaken ==
  ASSUME Types, ReceiveInv, mail # <<>>, Head(mail).ctor # "Receive", mail' = Tail(mail),
         UNCHANGED <<arrived, received>>
  PROVE  ReceiveInv'
<1>1. 1 \notin Receives
  BY Taken DEF Receives
<1>2. {mail[k].n : k \in Receives \ {1}} = {mail[k].n : k \in Receives}
  BY <1>1
<1>3. QED
  BY <1>2, ReceivesMove DEF ReceiveInv, ReceivedInOrder

(* The manager passes on the first message that waits: it is the next one. *)
LEMMA onReceiveKeeps ==
  ASSUME ConnInv, ReceiveInv, onReceive
  PROVE  ReceiveInv'
<1> DEFINE n == Len(received)
           m == Len(arrived)
           x == mail[1].n
           N == {mail[k].n : k \in Receives}
<1>1. /\ mail # <<>> /\ Head(mail).ctor = "Receive" /\ mail' = Tail(mail) /\ UNCHANGED arrived
      /\ received' = IF subscribed THEN Append(received, Head(mail).n) ELSE received
  BY DEF onReceive, Handles
<1>2. Types /\ subscribed /\ 1 \in Receives /\ Head(mail).n = x
  BY <1>1, Taken DEF ConnInv, Down, Receives
<1>3. /\ n \in Nat /\ m \in Nat /\ received \in Seq(Nat) /\ DOMAIN received = 1..n /\ DOMAIN arrived = 1..m
      /\ n <= m
  BY <1>2 DEF ReceiveInv, ReceivedInOrder, Types
<1>4. N = n + 1 .. m
  BY <1>2, WaitingNumbers DEF ReceiveInv, ReceivedInOrder
<1>5. ASSUME NEW k \in Receives \ {1} PROVE x < mail[k].n /\ mail[k].n \in n + 1 .. m
  <2>1. 1 < k
    BY <1>2 DEF Receives, Types
  <2>2. QED
    BY <1>2, <1>4, <2>1 DEF ReceiveInv, ReceivedInOrder
<1>6. x \in n + 1 .. m
  BY <1>2, <1>4
<1>7. x = n + 1
  <2>1. n + 1 \in N
    <3>1. n + 1 \in n + 1 .. m
      <4> HIDE DEF n, m, x
      <4>1. QED
        BY <1>3, <1>6
    <3>2. QED
      BY <1>4, <3>1
  <2>2. PICK k \in Receives : mail[k].n = n + 1
    BY <2>1
  <2> HIDE DEF x, n, m
  <2>3. QED
    BY <1>3, <1>5, <1>6, <2>2 DEF x
<1>8. /\ received' \in Seq(Nat) /\ Len(received') = n + 1 /\ DOMAIN received' = 1..(n + 1)
      /\ received'[n + 1] = x /\ \A i \in 1..n : received'[i] = received[i]
  <2>1. received' = Append(received, x) /\ x \in Nat
    BY <1>1, <1>2, <1>3, <1>7
  <2> HIDE DEF x
  <2>2. QED
    BY <1>3, <2>1
<1>9. \A i \in DOMAIN received' : received'[i] = arrived[i]
  BY <1>3, <1>6, <1>7, <1>8 DEF ReceiveInv, ReceivedInOrder
<1>10. {mail[k].n : k \in Receives \ {1}} = n + 2 .. m
  <2>1. ASSUME NEW k \in Receives \ {1} PROVE mail[k].n \in n + 2 .. m
    <3> HIDE DEF n, m, x
    <3>1. QED
      BY <1>3, <1>5, <1>7
  <2>2. ASSUME NEW i \in n + 2 .. m PROVE \E k \in Receives \ {1} : mail[k].n = i
    <3>1. i \in N /\ i # x
      BY <1>3, <1>4, <1>7
    <3>2. QED
      BY <3>1
  <2>3. QED
    BY <2>1, <2>2
<1>11. /\ \A j, k \in Receives' : j < k => mail'[j].n < mail'[k].n
       /\ {mail'[k].n : k \in Receives'} = n + 2 .. m
  BY <1>1, <1>2, <1>10, ReceivesMove
<1>12. Types'
  BY ConnNext DEF ConnInv, Next, Manager, onSelfMsg
<1>13. {arrived'[i] : i \in Len(received') + 1 .. Len(arrived')} = n + 2 .. m
  <2>1. (n + 1) + 1 = n + 2
    BY <1>3
  <2>2. \A i \in n + 2 .. m : arrived[i] = i
    BY <1>3 DEF ReceiveInv
  <2> HIDE DEF n, m
  <2>3. {arrived[i] : i \in n + 2 .. m} = n + 2 .. m
    BY <2>2
  <2>4. QED
    BY <1>1, <1>8, <2>1, <2>3 DEF m
<1>14. Len(received') <= Len(arrived') /\ \A i \in DOMAIN arrived' : arrived'[i] = i
  BY <1>1, <1>3, <1>6, <1>7, <1>8 DEF ReceiveInv
<1>15. QED
  BY <1>1, <1>8, <1>9, <1>11, <1>13, <1>14 DEF ReceiveInv, ReceivedInOrder

(* A message arrives: it is the last one that waits.                       *)
LEMMA OnMessageKeeps ==
  ASSUME Types, ReceiveInv, NEW id \in DOMAIN socket, OnMessage(id)
  PROVE  ReceiveInv'
<1> DEFINE n == Len(received)
           m == Len(arrived)
           msg == Receive(m + 1)
           L == Len(mail) + 1
<1>1. /\ mail' = Append(mail, msg) /\ arrived' = Append(arrived, m + 1) /\ UNCHANGED received
  BY DEF OnMessage
<1>2. n \in Nat /\ m \in Nat /\ n <= m /\ DOMAIN arrived = 1..m /\ DOMAIN received = 1..n
  BY DEF ReceiveInv, ReceivedInOrder, Types
<1>3. msg \in Message /\ msg.ctor = "Receive" /\ msg.n = m + 1
  BY <1>2 DEF Receive, Msg, Message
<1> HIDE DEF msg
<1>4. /\ DOMAIN mail' = 1..L /\ DOMAIN mail = 1..(L - 1) /\ L \in Nat
      /\ \A i \in DOMAIN mail : mail'[i] = mail[i]
      /\ mail'[L] = msg
  BY <1>1, <1>3, Posted
<1>5. /\ Len(arrived') = m + 1 /\ DOMAIN arrived' = 1..(m + 1) /\ arrived'[m + 1] = m + 1
      /\ \A i \in 1..m : arrived'[i] = arrived[i]
  BY <1>1, <1>2 DEF Types
<1> HIDE DEF L, n, m
<1>6. Receives' = Receives \union {L} /\ L \notin Receives /\ \A k \in Receives : k < L /\ mail'[k] = mail[k]
  <2>1. \A k \in 1..L : k \in 1..(L - 1) \/ k = L
    BY <1>4
  <2>2. L \in 1..L /\ L \notin 1..(L - 1) /\ \A k \in 1..(L - 1) : k < L /\ k \in 1..L
    BY <1>4 DEF L, Types
  <2>3. Receives' = Receives \union {L}
    BY <1>3, <1>4, <2>1, <2>2 DEF Receives
  <2>4. QED
    BY <1>4, <2>2, <2>3 DEF Receives
<1>7. {mail[k].n : k \in Receives} = n + 1 .. m
  BY WaitingNumbers DEF ReceiveInv, ReceivedInOrder, n, m
<1>8. ASSUME NEW j \in Receives', NEW k \in Receives', j < k PROVE mail'[j].n < mail'[k].n
  <2>1. CASE k \in Receives
    <3>1. j \in Receives
      BY <1>4, <1>6, <1>8, <2>1 DEF Receives
    <3>2. QED
      BY <1>6, <1>8, <2>1, <3>1 DEF ReceiveInv, ReceivedInOrder
  <2>2. CASE k = L
    <3>1. j \in Receives
      BY <1>4, <1>6, <1>8, <2>2
    <3>2. mail[j].n \in n + 1 .. m
      BY <1>7, <3>1
    <3>3. QED
      <4>1. mail'[k].n = m + 1 /\ mail'[j].n = mail[j].n
        BY <1>3, <1>4, <1>6, <2>2, <3>1
      <4>2. QED
        BY <1>2, <3>2, <4>1
  <2>3. QED
    BY <1>6, <2>1, <2>2
<1>9. {mail'[k].n : k \in Receives'} = n + 1 .. m + 1
  <2>1. ASSUME NEW k \in Receives' PROVE mail'[k].n \in n + 1 .. m + 1
    <3>1. CASE k \in Receives
      <4>1. mail'[k].n \in n + 1 .. m
        BY <1>6, <1>7, <3>1
      <4>2. QED
        BY <1>2, <4>1
    <3>2. CASE k = L
      BY <1>2, <1>3, <1>4, <3>2
    <3>3. QED
      BY <1>6, <3>1, <3>2
  <2>2. ASSUME NEW i \in n + 1 .. m + 1 PROVE \E k \in Receives' : mail'[k].n = i
    <3>1. CASE i \in n + 1 .. m
      <4>1. PICK k \in Receives : mail[k].n = i
        BY <1>7, <3>1
      <4>2. QED
        BY <1>6, <4>1
    <3>2. CASE i = m + 1
      BY <1>3, <1>4, <1>6, <3>2
    <3>3. QED
      BY <1>2, <3>1, <3>2
  <2>3. QED
    BY <2>1, <2>2
<1>10. {arrived'[i] : i \in Len(received') + 1 .. Len(arrived')} = n + 1 .. m + 1
  <2>1. \A i \in n + 1 .. m + 1 : arrived'[i] = i
    BY <1>2, <1>5 DEF ReceiveInv
  <2>2. {arrived'[i] : i \in n + 1 .. m + 1} = n + 1 .. m + 1
    BY <2>1
  <2>3. QED
    BY <1>1, <1>5, <2>2 DEF n
<1>11. /\ received' \in Seq(Nat) /\ \A i \in DOMAIN arrived' : arrived'[i] = i
       /\ Len(received') <= Len(arrived') /\ \A i \in DOMAIN received' : received'[i] = arrived'[i]
  BY <1>1, <1>2, <1>5 DEF ReceiveInv, ReceivedInOrder, n, m
<1>12. QED
  BY <1>8, <1>9, <1>10, <1>11 DEF ReceiveInv, ReceivedInOrder

LEMMA ReceiveNext ==
  ASSUME ConnInv, ReceiveInv, [Next]_vars
  PROVE  ReceiveInv'
<1>1. Types
  BY DEF ConnInv
<1>0. ASSUME UNCHANGED <<mail, arrived, received>> PROVE ReceiveInv'
  <2>1. Receives' = Receives
    BY <1>0 DEF Receives
  <2>2. {mail'[k].n : k \in Receives'} = {mail[k].n : k \in Receives}
    BY <1>0, <2>1
  <2>3. {arrived'[i] : i \in Len(received') + 1 .. Len(arrived')} = {arrived[i] : i \in Len(received) + 1 .. Len(arrived)}
    BY <1>0
  <2>4. QED
    BY <1>0, <2>1, <2>2, <2>3 DEF ReceiveInv, ReceivedInOrder
<1>2. CASE Update
  <2>1. fx(Len(given) + 1) \in Message /\ fx(Len(given) + 1).ctor # "Receive"
    BY <1>1 DEF fx, Msg, Message, Types
  <2>2. QED
    BY <1>1, <1>2, <2>1, ReceivesPosted DEF Update
<1>3. ASSUME NEW i \in DOMAIN attempts, Open(i) \/ OpenThrows(i) PROVE ReceiveInv'
  <2>1. BadOpen \in Message /\ BadOpen.ctor # "Receive"
    BY DEF BadOpen, Msg, Message
  <2>2. CASE OpenThrows(i)
    BY <1>1, <2>1, <2>2, ReceivesPosted DEF OpenThrows
  <2>3. CASE Open(i)
    <3>1. UNCHANGED <<mail, arrived, received>>
      BY <2>3 DEF Open
    <3>2. QED
      BY <1>0, <3>1
  <2>4. QED
    BY <1>3, <2>2, <2>3
<1>4. ASSUME NEW id \in DOMAIN socket, OnOpen(id) \/ OnClose(id) PROVE ReceiveInv'
  <2>1. /\ GoodOpen(id) \in Message /\ GoodOpen(id).ctor # "Receive"
        /\ Die \in Message /\ Die.ctor # "Receive"
    BY <1>1 DEF GoodOpen, Die, Msg, Message, Types
  <2>2. QED
    BY <1>1, <1>4, <2>1, ReceivesPosted DEF OnOpen, OnClose
<1>5. CASE onEffects
  BY <1>1, <1>5, ReceivesTaken DEF onEffects
<1>6. CASE onDie \/ onGoodOpen \/ onBadOpen
  BY <1>1, <1>6, ReceivesTaken DEF onDie, onGoodOpen, onBadOpen, Handles
<1>7. CASE UNCHANGED vars
  <2>1. UNCHANGED <<mail, arrived, received>>
    BY <1>7 DEF vars
  <2>2. QED
    BY <1>0, <2>1
<1>8. QED
  BY <1>1, <1>2, <1>3, <1>4, <1>5, <1>6, <1>7, onReceiveKeeps, OnMessageKeeps
  DEF Next, Start, Manager, onSelfMsg

(* The program is sent every message of the server at most once, in the    *)
(* order of arrival and without a gap, and what it was not sent yet waits  *)
(* in order: however often sockets die, and whatever else is in the mail.  *)
THEOREM ReceivesStayInOrder == Spec => []ReceivedInOrder
<1>1. Init => ReceiveInv
  <2> SUFFICES ASSUME Init PROVE ReceiveInv
    OBVIOUS
  <2>1. DOMAIN mail = {1} /\ mail[1].ctor = "fx" /\ arrived = <<>> /\ received = <<>>
    BY DEF Init, fx, Msg
  <2>2. Receives = {}
    BY <2>1 DEF Receives
  <2>3. QED
    BY <2>1, <2>2 DEF ReceiveInv, ReceivedInOrder
<1>2. ReceiveInv => ReceivedInOrder
  BY DEF ReceiveInv
<1>3. QED
  BY <1>1, <1>2, ConnInit, ConnNext, ReceiveNext, PTL DEF Spec
=============================================================================
