---------------------------- MODULE ServerProofs ----------------------------
(***************************************************************************)
(* What upload and list handlers keep together, for any number of hosts,   *)
(* connections, browsers, sessions, writes, failures and exits.            *)
(*                                                                         *)
(* A step of the server is a step of the uploads, an exit that a list      *)
(* handler takes, or a step that leaves the directory alone.  The first is *)
(* what module UploadProofs is about; this module adds the others and what *)
(* list handlers keep.                                                     *)
(***************************************************************************)
EXTENDS Server, UploadProofs, WellFoundedInduction

(* What a step of the server is to the uploads.                            *)
LEMMA ServerStep ==
  ASSUME [ServerNext]_serverVars
  PROVE  \/ [Next]_vars
         \/ /\ Fatal("noLabels") \/ Fatal("ioError")
            /\ UNCHANGED dirVars
            /\ faults' \in {faults, faults + 1}
<1>1. ASSUME NEW c \in Conns, UploadAction(c) \/ (Environment(c) /\ UNCHANGED listVars)
      PROVE  Next
  BY <1>1 DEF UploadAction, Next
<1>2. ASSUME NEW v \in Viewers, ListAction(v)
      PROVE  \/ UNCHANGED vars
             \/ /\ Fatal("noLabels") \/ Fatal("ioError")
                /\ UNCHANGED dirVars
                /\ faults' \in {faults, faults + 1}
  <2>1. CASE Glob(v) \/ ListOne(v) \/ Send(v) \/ SendFails(v)
    BY <1>2, <2>1 DEF ListAction, UploadersFollow, Exits, Glob, ListOne, Send, SendFails, vars,
       procVars
  <2>2. CASE MissingLabels(v) \/ ReadLabelsFails(v)
    BY <1>2, <2>2 DEF ListAction, UploadersFollow, Exits, MissingLabels, ReadLabelsFails, Exit,
       Fault, Fatal
  <2>3. QED
    BY <1>2, <2>1, <2>2 DEF ListAction, ListStep
<1>3. ASSUME NEW v \in Viewers, ListEnvironment(v) /\ UNCHANGED uploadVars
      PROVE  UNCHANGED vars
  BY <1>3 DEF ListEnvironment, Connect, Leave, vars
<1>4. CASE (Kill /\ ViewersFollow) \/ RebootAction
  BY <1>4 DEF RebootAction, Next
<1>5. CASE UNCHANGED serverVars
  BY <1>5 DEF serverVars
<1>6. QED
  BY <1>1, <1>2, <1>3, <1>4, <1>5 DEF ServerNext

(* The uploads keep their invariants in the composition.                   *)
LEMMA UploadsKeep ==
  ASSUME TypeAndShape, LabelsInv, [ServerNext]_serverVars
  PROVE  TypeAndShape' /\ LabelsInv' /\ labelFiles \subseteq labelFiles'
<1>1. CASE [Next]_vars
  <2>1. TypeAndShape' /\ LabelsInv'
    BY <1>1, TypeNext, LabelsNextInv DEF TypeAndShape
  <2>2. labelFiles \subseteq labelFiles'
    BY <1>1 DEF Next, vars, Step, Environment, Kill, Reboot, Restart, Accept, Deliver, Close, Break,
       Read, ReadEOF, ReadError, StatLabels, CreateLabels, WriteLabels, WriteLabelsFails, StatCast,
       CreateCast, WriteHeader, WriteHeaderFails, OpenAppend, ReadHeader, BadHeader, AppendEvent,
       AppendFails, OpenFails, dirVars
  <2>3. QED
    BY <2>1, <2>2
<1>2. CASE /\ Fatal("noLabels") \/ Fatal("ioError")
           /\ UNCHANGED dirVars
           /\ faults' \in {faults, faults + 1}
  <2>1. PICK why \in {"noLabels", "ioError"} : Fatal(why)
    BY <1>2
  <2>2. DataPathTypeOK'
    BY <1>2, <2>1 DEF Fatal, Exit, TypeAndShape, TypeOK, DataPathTypeOK, dirVars, ExitReasons
  <2>3. TypeAndShape'
    BY <1>2, <2>1, <2>2, TypeFatal DEF dirVars
  <2>4. LabelsInv'
    BY <1>2, <2>1 DEF LabelsInv, LabelsBeforeCast, Fatal, DropAll, dirVars
  <2>5. QED
    BY <1>2, <2>3, <2>4 DEF dirVars
<1>3. QED
  BY <1>1, <1>2, ServerStep

-----------------------------------------------------------------------------
(***************************************************************************)
(* The list handlers.                                                      *)
(***************************************************************************)

(* A handler at a file has files left to list.                             *)
ListShape == \A v \in Viewers : lpc[v] = "label" => todo[v] # {}

ListInv == ListTypeOK /\ ListShape /\ ListerFindsLabels

(* Hashes are numbers: the first of some exists.                           *)
LEMMA CurrentType ==
  ASSUME ListTypeOK, NEW v \in Viewers, todo[v] # {}
  PROVE  Current(v) \in todo[v] /\ Current(v) \in Hashes
<1> DEFINE R == OpToRel(<, Nat)
<1>1. todo[v] \subseteq Nat /\ todo[v] \subseteq Hashes
  BY CastFileAssumption DEF ListTypeOK
<1>2. IsWellFoundedOn(R, Nat)
  BY NatLessThanWellFounded
<1>3. \A x, y \in Nat : <<y, x>> \notin R => x <= y
  BY DEF OpToRel
<1> HIDE DEF R
<1>4. PICK h \in todo[v] : \A g \in todo[v] : <<g, h>> \notin R
  BY <1>1, <1>2, WFMin
<1>5. \E x \in todo[v] : \A g \in todo[v] : x <= g
  BY <1>1, <1>3, <1>4
<1>6. QED
  BY <1>1, <1>5 DEF Current

LEMMA ListInvInit == ListInit => ListInv
<1> SUFFICES ASSUME ListInit PROVE ListInv
  OBVIOUS
<1>1. NoLabels \in [Hashes -> Lines] /\ <<>> \in Seq(Hashes \X Lines)
  BY DEF NoLabels, Lines
<1>2. ListTypeOK
  BY <1>1 DEF ListInit, ListTypeOK
<1>3. QED
  BY <1>2 DEF ListInit, ListInv, ListShape, ListerFindsLabels

(* An exit of the process, or the end of a connection, leaves a handler    *)
(* with nothing.                                                           *)
LEMMA DropKeeps ==
  ASSUME ListInv, DropViewers
  PROVE  ListInv'
<1>1. NoLabels \in [Hashes -> Lines] /\ <<>> \in Seq(Hashes \X Lines)
  BY DEF NoLabels, Lines
<1>2. ListTypeOK'
  <2>1. message' \in [Viewers -> Seq(Hashes \X Lines)] /\ shown' \in [Viewers -> Seq(Hashes \X Lines)]
    BY <1>1 DEF DropViewers, ListInv, ListTypeOK
  <2>2. QED
    BY <1>1, <2>1 DEF DropViewers, ListInv, ListTypeOK
<1>3. QED
  BY <1>2 DEF DropViewers, ListInv, ListShape, ListerFindsLabels

(* A round of the loop over the files takes one cast from the list.        *)
LEMMA ListOneKeeps ==
  ASSUME TypeAndShape, ListInv, labelFiles' = labelFiles, NEW v \in Viewers, ListOne(v)
  PROVE  ListInv'
<1> DEFINE h == Current(v)
           l == LabelsFor(v, h)
<1>1. h \in todo[v] /\ h \in Hashes
  BY CurrentType DEF ListOne, ListInv, ListShape
<1>2. labelData[h] \in Lines /\ cache[v][h] \in Lines
  BY <1>1 DEF TypeAndShape, TypeOK, DataPathTypeOK, ListInv, ListTypeOK, Lines
<1>3. l \in Lines
  BY <1>2 DEF LabelsFor
<1>4. /\ cache' = [cache EXCEPT ![v][h] = l]
      /\ message' = [message EXCEPT ![v] = Append(@, <<h, l>>)]
      /\ todo' = [todo EXCEPT ![v] = @ \ {h}]
      /\ lpc' = [lpc EXCEPT ![v] = IF todo[v] = {h} THEN "send" ELSE "label"]
      /\ UNCHANGED <<view, shown>>
  BY DEF ListOne
<1> HIDE DEF h, l
<1>5. <<h, l>> \in Hashes \X Lines
  BY <1>1, <1>3
<1> DEFINE P == Hashes \X Lines
<1> HIDE DEF P
<1>6. message \in [Viewers -> Seq(P)] /\ <<h, l>> \in P
  BY <1>5 DEF ListInv, ListTypeOK, P
<1>7. Append(message[v], <<h, l>>) \in Seq(P)
  BY <1>6
<1>8. message' \in [Viewers -> Seq(P)]
  BY <1>4, <1>6, <1>7
<1>9. cache' \in [Viewers -> [Hashes -> Lines]]
  BY <1>1, <1>3, <1>4 DEF ListInv, ListTypeOK
<1>10. ListTypeOK'
  BY <1>4, <1>8, <1>9 DEF ListInv, ListTypeOK, P
<1>11. ListShape' /\ ListerFindsLabels'
  BY <1>1, <1>4 DEF ListInv, ListTypeOK, ListShape, ListerFindsLabels
<1>12. QED
  BY <1>10, <1>11 DEF ListInv

(* The other steps of list handlers and browsers.                          *)
LEMMA ListStepKeeps ==
  ASSUME TypeAndShape, LabelsBeforeCast, ListInv, NEW v \in Viewers,
         ListStep(v) \/ ListEnvironment(v)
  PROVE  ListInv'
<1>1. CASE ListOne(v)
  BY <1>1, ListOneKeeps DEF ListOne, dirVars
<1>2. CASE MissingLabels(v) \/ ReadLabelsFails(v)
  BY <1>2, DropKeeps DEF MissingLabels, ReadLabelsFails
<1>3. CASE Connect(v) \/ Leave(v)
  BY <1>3 DEF Connect, Leave, ListInv, ListTypeOK, ListShape, ListerFindsLabels, dirVars
<1>4. CASE Glob(v)
  <2>1. message' \in [Viewers -> Seq(Hashes \X Lines)]
    BY <1>4 DEF Glob, ListInv, ListTypeOK
  <2>2. ListTypeOK'
    BY <1>4, <2>1 DEF Glob, ListInv, ListTypeOK, TypeAndShape, TypeOK, DataPathTypeOK
  <2>3. ListShape' /\ ListerFindsLabels'
    BY <1>4 DEF Glob, ListInv, ListTypeOK, ListShape, ListerFindsLabels, LabelsBeforeCast, dirVars
  <2>4. QED
    BY <2>2, <2>3 DEF ListInv
<1>5. CASE Send(v)
  <2>1. shown' \in [Viewers -> Seq(Hashes \X Lines)]
    BY <1>5 DEF Send, ListInv, ListTypeOK
  <2>2. QED
    BY <1>5, <2>1 DEF Send, ListInv, ListTypeOK, ListShape, ListerFindsLabels, dirVars
<1>6. CASE SendFails(v)
  <2>1. NoLabels \in [Hashes -> Lines]
    BY DEF NoLabels, Lines
  <2>2. message' \in [Viewers -> Seq(Hashes \X Lines)]
    BY <1>6 DEF SendFails, ListInv, ListTypeOK
  <2>3. QED
    BY <1>6, <2>1, <2>2 DEF SendFails, ListInv, ListTypeOK, ListShape, ListerFindsLabels, dirVars
<1>7. QED
  BY <1>1, <1>2, <1>3, <1>4, <1>5, <1>6 DEF ListStep, ListEnvironment

LEMMA ListInvNext ==
  ASSUME TypeAndShape, LabelsInv, ListInv, [ServerNext]_serverVars
  PROVE  ListInv'
<1>1. labelFiles \subseteq labelFiles'
  BY UploadsKeep
<1>2. CASE UNCHANGED listVars
  BY <1>1, <1>2 DEF listVars, ListInv, ListTypeOK, ListShape, ListerFindsLabels
<1>3. CASE DropViewers
  BY <1>3, DropKeeps
<1>4. ASSUME NEW v \in Viewers, ListStep(v) \/ ListEnvironment(v) PROVE ListInv'
  BY <1>4, ListStepKeeps DEF LabelsInv
<1>5. QED
  BY <1>2, <1>3, <1>4 DEF ServerNext, serverVars, UploadAction, ViewersFollow, ListAction, RebootAction

-----------------------------------------------------------------------------
ServerInv == TypeAndShape /\ LabelsInv /\ ListInv

LEMMA ServerInvariant == ServerSpec => []ServerInv
<1>1. ServerInit => ServerInv
  <2>1. Init => LabelsInv
    BY DEF Init, DataPathInit, LabelsInv, LabelsBeforeCast
  <2>2. QED
    BY <2>1, TypeInit, ListInvInit DEF ServerInit, ServerInv
<1>2. ServerInv /\ [ServerNext]_serverVars => ServerInv'
  BY UploadsKeep, ListInvNext DEF ServerInv
<1>3. QED
  BY <1>1, <1>2, PTL DEF ServerSpec

(* Every variable of uploads and list handlers keeps its type, also across *)
(* the exits that either kind of handler takes for both.                   *)
THEOREM ServerTypeCorrect == ServerSpec => []ServerTypeOK
<1>1. ServerInv => ServerTypeOK
  BY DEF ServerInv, TypeAndShape, ListInv, ServerTypeOK
<1>2. QED
  BY <1>1, ServerInvariant, PTL

(* listHandler never meets a cast without a labels file, the case in which *)
(* it takes the server down, however many uploads and browsers there are   *)
(* and whatever happens between its Glob and its open.                     *)
THEOREM ListersFindLabels == ServerSpec => []ListerFindsLabels
<1>1. ServerInv => ListerFindsLabels
  BY DEF ServerInv, ListInv
<1>2. QED
  BY <1>1, ServerInvariant, PTL

-----------------------------------------------------------------------------
(***************************************************************************)
(* What a browser is shown.                                                *)
(***************************************************************************)

(* What is listed, as a sequence l of casts with their labels, are files,  *)
(* and labels are those of the cache.                                      *)
Listed(v, l) ==
  \A i \in DOMAIN l : l[i][1] \in castFiles /\ l[i][2] \in {<<>>, cache[v][l[i][1]]}

(* What was shown is, with its labels, in the next message already, or is  *)
(* among the files that are still to be listed.                            *)
Covered(v) ==
  \A i \in DOMAIN shown[v] :
    \/ shown[v][i][1] \in todo[v]
    \/ \E j \in DOMAIN message[v] : /\ message[v][j][1] = shown[v][i][1]
                                   /\ shown[v][i][2] \in {<<>>, message[v][j][2]}

GrowInv ==
  \A v \in Viewers :
    /\ view[v] = "idle" => lpc[v] = "none" /\ shown[v] = <<>>
    /\ view[v] = "open" => Listed(v, shown[v])
    /\ view[v] = "open" /\ lpc[v] \in {"label", "send"} =>
         /\ Listed(v, message[v])
         /\ Covered(v)
         /\ todo[v] \subseteq castFiles
         /\ lpc[v] = "send" => todo[v] = {}

LEMMA CastFilesGrow ==
  ASSUME [ServerNext]_serverVars
  PROVE  castFiles \subseteq castFiles'
<1>1. CASE [Next]_vars
  BY <1>1 DEF Next, vars, Step, Environment, Kill, Reboot, Restart, Accept, Deliver, Close, Break,
     Read, ReadEOF, ReadError, StatLabels, CreateLabels, WriteLabels, WriteLabelsFails, StatCast,
     CreateCast, WriteHeader, WriteHeaderFails, OpenAppend, ReadHeader, BadHeader, AppendEvent,
     AppendFails, OpenFails, dirVars
<1>2. CASE UNCHANGED dirVars
  BY <1>2 DEF dirVars
<1>3. QED
  BY <1>1, <1>2, ServerStep

(* A round of the loop: the labels that were shown are those that go into  *)
(* the message, because they are in the cache.                             *)
LEMMA GrowListOne ==
  ASSUME TypeAndShape, ListInv, GrowInv, UNCHANGED castFiles, NEW v \in Viewers, ListOne(v)
  PROVE  GrowInv'
<1> DEFINE h == Current(v)
           l == LabelsFor(v, h)
           n == Len(message[v])
<1>1. h \in todo[v] /\ h \in Hashes
  BY CurrentType DEF ListOne, ListInv, ListShape
<1>2. /\ lpc[v] = "label"
      /\ cache' = [cache EXCEPT ![v][h] = l]
      /\ message' = [message EXCEPT ![v] = Append(@, <<h, l>>)]
      /\ todo' = [todo EXCEPT ![v] = @ \ {h}]
      /\ lpc' = [lpc EXCEPT ![v] = IF todo[v] = {h} THEN "send" ELSE "label"]
      /\ UNCHANGED <<view, shown>>
  BY DEF ListOne
<1>3. l = cache[v][h] \/ cache[v][h] = <<>>
  BY DEF LabelsFor
<1> HIDE DEF h, l
<1>4. ASSUME NEW u \in Viewers, u # v
      PROVE  /\ cache'[u] = cache[u] /\ message'[u] = message[u] /\ todo'[u] = todo[u]
             /\ lpc'[u] = lpc[u]
  BY <1>2, <1>4 DEF ListInv, ListTypeOK
<1>5. /\ cache'[v][h] = l /\ \A g \in Hashes \ {h} : cache'[v][g] = cache[v][g]
      /\ todo'[v] = todo[v] \ {h} /\ lpc'[v] = IF todo[v] = {h} THEN "send" ELSE "label"
  BY <1>1, <1>2 DEF ListInv, ListTypeOK
<1>6. message[v] \in Seq(Hashes \X Lines) /\ message'[v] = Append(message[v], <<h, l>>)
  BY <1>2 DEF ListInv, ListTypeOK
<1>7. /\ n \in Nat /\ DOMAIN message[v] = 1..n /\ DOMAIN message'[v] = 1..(n + 1)
      /\ message'[v][n + 1] = <<h, l>> /\ \A j \in 1..n : message'[v][j] = message[v][j]
  BY <1>6
<1> HIDE DEF n
<1>8. CASE view[v] # "open"
  BY <1>2, <1>4, <1>8 DEF GrowInv, Listed, Covered
<1>9. CASE view[v] = "open"
  <2>1. ASSUME NEW g \in castFiles, NEW x \in {<<>>, cache[v][g]} PROVE x \in {<<>>, cache'[v][g]}
    <3>1. g \in Hashes
      BY DEF TypeAndShape, TypeOK, DataPathTypeOK
    <3>2. QED
      BY <1>3, <1>5, <2>1, <3>1
  <2>2. Listed(v, shown[v]) /\ Listed(v, message[v]) /\ Covered(v) /\ todo[v] \subseteq castFiles
    BY <1>2, <1>9 DEF GrowInv
  <2>3. Listed(v, shown[v])'
    BY <1>2, <2>1, <2>2 DEF Listed
  <2>4. Listed(v, message[v])'
    <3>1. ASSUME NEW j \in 1..n
          PROVE  message'[v][j][1] \in castFiles /\ message'[v][j][2] \in {<<>>, cache'[v][message'[v][j][1]]}
      BY <1>7, <2>1, <2>2, <3>1 DEF Listed
    <3>2. <<h, l>>[1] \in castFiles /\ <<h, l>>[2] \in {<<>>, cache'[v][<<h, l>>[1]]}
      BY <1>1, <1>5, <2>2
    <3>3. ASSUME NEW j \in DOMAIN message'[v]
          PROVE  message'[v][j][1] \in castFiles /\ message'[v][j][2] \in {<<>>, cache'[v][message'[v][j][1]]}
      BY <1>7, <3>1, <3>2
    <3>4. QED
      BY <3>3 DEF Listed
  <2>5. Covered(v)'
    <3>1. ASSUME NEW i \in DOMAIN shown[v]
          PROVE  \/ shown[v][i][1] \in todo'[v]
                 \/ \E j \in DOMAIN message'[v] : /\ message'[v][j][1] = shown[v][i][1]
                                                 /\ shown[v][i][2] \in {<<>>, message'[v][j][2]}
      <4>1. CASE shown[v][i][1] = h
        <5>1. shown[v][i][2] \in {<<>>, l}
          BY <1>3, <2>2, <4>1 DEF Listed
        <5>2. n + 1 \in DOMAIN message'[v] /\ message'[v][n + 1][1] = h /\ message'[v][n + 1][2] = l
          BY <1>7
        <5>3. QED
          BY <4>1, <5>1, <5>2
      <4>2. CASE shown[v][i][1] # h
        <5>1. CASE shown[v][i][1] \in todo[v]
          BY <1>5, <4>2, <5>1
        <5>2. CASE \E j \in DOMAIN message[v] : /\ message[v][j][1] = shown[v][i][1]
                                              /\ shown[v][i][2] \in {<<>>, message[v][j][2]}
          BY <1>7, <5>2
        <5>3. QED
          BY <2>2, <5>1, <5>2 DEF Covered
      <4>3. QED
        BY <4>1, <4>2
    <3>2. QED
      BY <1>2, <3>1 DEF Covered
  <2>6. todo'[v] \subseteq castFiles /\ (lpc'[v] = "send" => todo'[v] = {})
    BY <1>5, <2>2
  <2>7. QED
    BY <1>2, <1>4, <1>9, <2>3, <2>4, <2>5, <2>6 DEF GrowInv, Listed, Covered
<1>10. QED
  BY <1>8, <1>9

LEMMA GrowStep ==
  ASSUME TypeAndShape, ListInv, GrowInv, NEW v \in Viewers, UNCHANGED castFiles,
         ListStep(v) \/ ListEnvironment(v)
  PROVE  GrowInv'
<1> USE DEF ListInv, ListTypeOK, GrowInv, Listed, Covered
<1>1. CASE Glob(v)
  BY <1>1 DEF Glob
<1>2. CASE Send(v)
  BY <1>2 DEF Send
<1>3. CASE SendFails(v)
  BY <1>3 DEF SendFails
<1>4. CASE Connect(v)
  BY <1>4 DEF Connect
<1>5. CASE Leave(v)
  BY <1>5 DEF Leave
<1>6. CASE MissingLabels(v) \/ ReadLabelsFails(v)
  BY <1>6 DEF MissingLabels, ReadLabelsFails, DropViewers
<1>7. QED
  BY <1>1, <1>2, <1>3, <1>4, <1>5, <1>6, GrowListOne DEF ListStep, ListEnvironment

LEMMA GrowNext ==
  ASSUME ServerInv, GrowInv, [ServerNext]_serverVars
  PROVE  GrowInv'
<1>1. castFiles \subseteq castFiles'
  BY CastFilesGrow
<1>2. CASE UNCHANGED listVars
  BY <1>1, <1>2 DEF listVars, GrowInv, Listed, Covered
<1>3. CASE DropViewers
  BY <1>3 DEF DropViewers, GrowInv
<1>4. ASSUME NEW v \in Viewers, ListAction(v) \/ ListEnvironment(v)
      PROVE  GrowInv'
  <2>1. UNCHANGED castFiles
    BY <1>4 DEF ListAction, ListStep, ListEnvironment, Glob, ListOne, Send, SendFails, MissingLabels,
       ReadLabelsFails, Connect, Leave, dirVars
  <2>2. QED
    BY <1>4, <2>1, GrowStep DEF ServerInv, ListAction
<1>5. QED
  BY <1>2, <1>3, <1>4 DEF ServerNext, serverVars, UploadAction, ViewersFollow, RebootAction

(* A browser that stays never loses a recording from its list, nor labels  *)
(* it was shown, whatever uploads, failures and other browsers do between  *)
(* two messages of its handler.                                            *)
THEOREM ListsOnlyGrow == ServerSpec => ListOnlyGrows
<1> DEFINE Grows == \A v \in Viewers : \A i \in DOMAIN shown[v] : \E j \in DOMAIN shown'[v] :
                      /\ shown'[v][j][1] = shown[v][i][1]
                      /\ shown[v][i][2] \in {<<>>, shown'[v][j][2]}
<1>1. ServerInit => GrowInv
  BY DEF ServerInit, ListInit, GrowInv
<1>2. ServerInv /\ GrowInv /\ [ServerNext]_serverVars => GrowInv'
  BY GrowNext
<1>3. ServerInv /\ GrowInv /\ [ServerNext]_serverVars => [Grows]_shown
  <2> SUFFICES ASSUME ServerInv, GrowInv, [ServerNext]_serverVars, shown' # shown
               PROVE  Grows
    OBVIOUS
  <2>1. PICK v \in Viewers : Send(v)
    BY DEF ServerNext, serverVars, listVars, UploadAction, ViewersFollow, DropViewers, ListAction,
       ListStep, ListEnvironment, Glob, ListOne, SendFails, MissingLabels, ReadLabelsFails, Connect,
       Leave, RebootAction
  <2>2. view[v] = "open" /\ lpc[v] = "send" /\ shown' = [shown EXCEPT ![v] = message[v]]
    BY <2>1 DEF Send
  <2>3. Covered(v) /\ todo[v] = {}
    BY <2>2 DEF GrowInv
  <2>4. shown'[v] = message[v] /\ \A u \in Viewers \ {v} : shown'[u] = shown[u]
    BY <2>2 DEF ServerInv, ListInv, ListTypeOK
  <2>5. ASSUME NEW u \in Viewers, NEW i \in DOMAIN shown[u]
        PROVE  \E j \in DOMAIN shown'[u] : /\ shown'[u][j][1] = shown[u][i][1]
                                           /\ shown[u][i][2] \in {<<>>, shown'[u][j][2]}
    <3>1. CASE u = v
      BY <2>3, <2>4, <3>1 DEF Covered
    <3>2. CASE u # v
      BY <2>4, <3>2
    <3>3. QED
      BY <3>1, <3>2
  <2>6. QED
    BY <2>5
<1>4. QED
  BY <1>1, <1>2, <1>3, ServerInvariant, PTL DEF ServerSpec, ListOnlyGrows

-----------------------------------------------------------------------------
(***************************************************************************)
(* The cache of labels.                                                    *)
(***************************************************************************)

(* Writes of one session come from one host: its name is part of the key   *)
(* that is hashed.  Sessions of two hosts whose keys collide do write      *)
(* different labels to one file.                                           *)
OneHostPerHash == \A u, w \in Writes : HashOf[u] = HashOf[w] => NodeOf[u] = NodeOf[w]

(* A labels file is empty or says what every handler of the session would  *)
(* write, until a write falls short.                                       *)
LabelsAgree ==
  \A h \in Hashes : labelData[h] # <<>> =>
    \A w \in Writes : HashOf[w] = h => labelData[h] = Labels(w)

CacheInv == (faults = 0 => LabelsAgree) /\ CacheIsCurrent

(* Writing the labels again, or for the first time, leaves just them.      *)
LEMMA WriteAgain ==
  ASSUME NEW f, NEW data \in Seq(LabelCell), f = <<>> \/ f = data
  PROVE  WriteAt(f, 0, data) = data
<1>1. Len(data) \in Nat /\ DOMAIN data = 1..Len(data) /\ Len(f) \in Nat /\ Len(f) <= Len(data)
  OBVIOUS
<1>2. WriteAt(f, 0, data) = [i \in 1..Len(data) |-> data[i]]
  BY <1>1 DEF WriteAt
<1>3. [i \in 1..Len(data) |-> data[i]] = data
  BY <1>1
<1>4. QED
  BY <1>2, <1>3

(* Failures are counted; without one, only WriteLabels changes labels.     *)
LEMMA LabelsChange ==
  ASSUME TypeAndShape, [ServerNext]_serverVars, faults' = 0
  PROVE  /\ faults = 0
         /\ labelData' = labelData \/ \E c \in Conns : WriteLabels(c)
<1>1. faults \in Nat
  BY DEF TypeAndShape, TypeOK, DataPathTypeOK
<1>2. ~Fault
  BY <1>1 DEF Fault
<1>3. CASE [Next]_vars
  BY <1>2, <1>3 DEF Next, vars, Step, Environment, Kill, Reboot, Restart, Accept, Deliver, Close,
     Break, Read, ReadEOF, ReadError, StatLabels, CreateLabels, WriteLabels, WriteLabelsFails,
     StatCast, CreateCast, WriteHeader, WriteHeaderFails, OpenAppend, ReadHeader, BadHeader,
     AppendEvent, AppendFails, OpenFails, dirVars, procVars
<1>4. CASE UNCHANGED dirVars /\ faults' \in {faults, faults + 1}
  BY <1>1, <1>4 DEF dirVars
<1>5. QED
  BY <1>3, <1>4, ServerStep

(* Labels that are there do not change any more.                           *)
LEMMA LabelsStay ==
  ASSUME OneHostPerHash, TypeAndShape, LabelsAgree, [ServerNext]_serverVars, faults' = 0
  PROVE  /\ LabelsAgree'
         /\ \A h \in Hashes : labelData[h] # <<>> => labelData'[h] = labelData[h]
<1>1. CASE labelData' = labelData
  BY <1>1 DEF LabelsAgree
<1>2. ASSUME NEW c \in Conns, WriteLabels(c)
      PROVE  /\ LabelsAgree'
             /\ \A h \in Hashes : labelData[h] # <<>> => labelData'[h] = labelData[h]
  <2> DEFINE w == cur[c]
             g == HashOf[cur[c]]
  <2>1. w \in Writes /\ g \in Hashes
    BY <1>2, CurrentHash DEF WriteLabels, FileCalls, TypeAndShape
  <2>2. labelData[g] = <<>> \/ labelData[g] = Labels(w)
    BY <2>1 DEF LabelsAgree
  <2>3. WriteAt(labelData[g], 0, Labels(w)) = Labels(w)
    BY <2>1, <2>2, LabelsType, WriteAgain
  <2>4. labelData'[g] = Labels(w) /\ \A h \in Hashes \ {g} : labelData'[h] = labelData[h]
    BY <1>2, <2>1, <2>3 DEF WriteLabels, TypeAndShape, TypeOK, DataPathTypeOK
  <2>5. \A u \in Writes : HashOf[u] = g => Labels(u) = Labels(w)
    BY <2>1 DEF OneHostPerHash, Labels
  <2> HIDE DEF w, g
  <2>6. QED
    BY <2>2, <2>4, <2>5 DEF LabelsAgree
<1>3. QED
  BY <1>1, <1>2, LabelsChange

(* A list handler's cache has what was in it, what is in the file, or      *)
(* nothing.                                                                *)
LEMMA CacheChange ==
  ASSUME ListInv, [ServerNext]_serverVars, NEW v \in Viewers, NEW h \in Hashes
  PROVE  cache'[v][h] \in {cache[v][h], labelData[h], <<>>}
<1>1. CASE UNCHANGED listVars
  BY <1>1 DEF listVars
<1>2. CASE DropViewers
  BY <1>2 DEF DropViewers, NoLabels
<1>3. ASSUME NEW u \in Viewers, ListOne(u) PROVE cache'[v][h] \in {cache[v][h], labelData[h], <<>>}
  <2>1. cache' = [cache EXCEPT ![u][Current(u)] = LabelsFor(u, Current(u))]
    BY <1>3 DEF ListOne
  <2>2. cache \in [Viewers -> [Hashes -> Lines]]
    BY DEF ListInv, ListTypeOK
  <2>3. QED
    BY <2>1, <2>2 DEF LabelsFor
<1>4. ASSUME NEW u \in Viewers, SendFails(u) PROVE cache'[v][h] \in {cache[v][h], labelData[h], <<>>}
  BY <1>4 DEF SendFails, NoLabels, ListInv, ListTypeOK
<1>5. ASSUME NEW u \in Viewers,
             \/ Glob(u) \/ Send(u) \/ MissingLabels(u) \/ ReadLabelsFails(u) \/ ListEnvironment(u)
      PROVE  cache' = cache \/ DropViewers
  BY <1>5 DEF Glob, Send, MissingLabels, ReadLabelsFails, ListEnvironment, Connect, Leave
<1>6. QED
  BY <1>1, <1>2, <1>3, <1>4, <1>5 DEF ServerNext, serverVars, UploadAction, ViewersFollow,
     ListAction, ListStep, RebootAction

(* As long as no file operation failed and the keys of no two hosts        *)
(* collide, what a list handler has cached is what the labels file says:   *)
(* one that was caught between its creation and its first write is read    *)
(* again, and a second handler that writes it again changes nothing.       *)
THEOREM CachesAreCurrent ==
  ASSUME OneHostPerHash
  PROVE  ServerSpec => []CacheIsCurrent
<1>1. ServerInit => CacheInv
  BY DEF ServerInit, Init, DataPathInit, ListInit, NoLabels, CacheInv, LabelsAgree, CacheIsCurrent
<1>2. ServerInv /\ CacheInv /\ [ServerNext]_serverVars => CacheInv'
  <2> SUFFICES ASSUME ServerInv, CacheInv, [ServerNext]_serverVars, faults' = 0
               PROVE  LabelsAgree' /\ CacheIsCurrent'
    BY DEF CacheInv, CacheIsCurrent
  <2>1. faults = 0 /\ LabelsAgree
    BY LabelsChange DEF ServerInv, CacheInv
  <2>2. /\ LabelsAgree'
        /\ \A h \in Hashes : labelData[h] # <<>> => labelData'[h] = labelData[h]
    BY <2>1, LabelsStay DEF ServerInv
  <2>3. ASSUME NEW v \in Viewers, NEW h \in Hashes, cache'[v][h] # <<>>
        PROVE  cache'[v][h] = labelData'[h]
    <3>1. cache'[v][h] \in {cache[v][h], labelData[h], <<>>}
      BY CacheChange DEF ServerInv
    <3>2. cache[v][h] # <<>> => cache[v][h] = labelData[h]
      BY <2>1 DEF CacheInv, CacheIsCurrent
    <3>3. QED
      BY <2>2, <2>3, <3>1, <3>2
  <2>4. QED
    BY <2>2, <2>3 DEF CacheIsCurrent
<1>3. CacheInv => CacheIsCurrent
  BY DEF CacheInv
<1>4. QED
  BY <1>1, <1>2, <1>3, ServerInvariant, PTL DEF ServerSpec

-----------------------------------------------------------------------------
(***************************************************************************)
(* The recordings, beside list handlers.                                   *)
(***************************************************************************)

(* An exit that a list handler takes is to the recordings like a kill.     *)
LEMMA RecordingsKeep ==
  ASSUME CastInv, OrderInv, [ServerNext]_serverVars
  PROVE  CastInv' /\ OrderInv'
<1>1. TypeAndShape
  BY DEF CastInv, TypeAndShape
<1>2. CASE [Next]_vars
  BY <1>1, <1>2, CastNext, OrderNext
<1>3. CASE /\ Fatal("noLabels") \/ Fatal("ioError")
           /\ UNCHANGED dirVars
           /\ faults' \in {faults, faults + 1}
  <2>1. PICK why \in {"noLabels", "ioError"} : Fatal(why)
    BY <1>3
  <2>2. DataPathTypeOK'
    BY <1>1, <1>3, <2>1 DEF Fatal, Exit, TypeAndShape, TypeOK, DataPathTypeOK, dirVars, ExitReasons
  <2>3. TypeAndShape'
    BY <1>1, <1>3, <2>1, <2>2, TypeFatal DEF dirVars
  <2>4. ASSUME NEW h \in Hashes \ contended' PROVE Session(h)'
    <3>1. h \in Hashes \ contended /\ Recorded(h)'
      BY <1>3, <2>1, <2>4 DEF CastInv, Session, Recorded, Fatal, histVars, dirVars
    <3>2. QED
      BY <1>1, <2>1, <3>1, SessionExit
  <2>5. ExitHasCause'
    BY <2>1 DEF ExitHasCause, Fatal, Exit
  <2>6. OrderInv'
    BY <1>1, <2>1, OrderQuiet DEF Fatal, DropAll, TypeAndShape, TypeOK, histVars
  <2>7. QED
    BY <2>3, <2>4, <2>5, <2>6 DEF CastInv, TypeAndShape
<1>4. QED
  BY <1>2, <1>3, ServerStep

(* What the uploads promise of cast files holds of the whole server, with  *)
(* list handlers that may take it down at any step: recorded events stay   *)
(* whole, under the header they are relative to, and in order.             *)
THEOREM ServerKeepsRecordings == ServerSpec => [](AckedIntact /\ HeaderAgrees /\ RecordedInOrder)
<1>1. Init => CastInv
  BY CastInit
<1>2. CastInv /\ OrderInv /\ [ServerNext]_serverVars => CastInv' /\ OrderInv'
  BY RecordingsKeep
<1>3. CastInv /\ OrderInv => AckedIntact /\ HeaderAgrees /\ RecordedInOrder
  BY OrderImplies DEF CastInv, Session, Recorded, AckedIntact, HeaderAgrees
<1>4. QED
  BY <1>1, <1>2, <1>3, OrderInit, PTL DEF ServerSpec, ServerInit
=============================================================================
