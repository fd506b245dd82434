------------------------------- MODULE Server -------------------------------
(***************************************************************************)
(* The server process: upload handlers that create and extend the files of *)
(* dataPath and list handlers that read it, interleaved, ended together by *)
(* an exit of the process.                                                 *)
(***************************************************************************)
EXTENDS Upload, Listing

serverVars == <<vars, listVars>>

(* An exit taken by one kind of handler ends the other kind too.           *)
Exits == status = "up" /\ status' # "up"

ViewersFollow   == IF Exits THEN DropViewers ELSE UNCHANGED listVars
UploadersFollow == IF Exits THEN DropAll /\ UNCHANGED <<sent, histVars>>
                            ELSE UNCHANGED uploadVars

UploadAction(c) == Step(c) /\ ViewersFollow
ListAction(v)   == ListStep(v) /\ UploadersFollow
RebootAction    == Reboot /\ UNCHANGED listVars

ServerInit == Init /\ ListInit

ServerNext ==
  \/ \E c \in Conns : UploadAction(c) \/ (Environment(c) /\ UNCHANGED listVars)
  \/ \E v \in Viewers : ListAction(v) \/ (ListEnvironment(v) /\ UNCHANGED uploadVars)
  \/ Kill /\ ViewersFollow
  \/ RebootAction

ServerSpec == ServerInit /\ [][ServerNext]_serverVars

(* Go schedules every handler; the deployment restarts the server.         *)
ServerFairness ==
  /\ WF_serverVars(RebootAction)
  /\ \A c \in Conns : WF_serverVars(UploadAction(c))
  /\ \A v \in Viewers : WF_serverVars(ListAction(v))

FairServerSpec == ServerSpec /\ ServerFairness

-----------------------------------------------------------------------------
ServerTypeOK == TypeOK /\ ListTypeOK

(* No list handler meets a cast without a labels file, the case in which   *)
(* listHandler takes the server down: whatever uploads do between its Glob *)
(* and its open, and across restarts.                                      *)
ListerFindsLabels ==
  \A v \in Viewers : todo[v] \subseteq labelFiles

(* As long as no write fell short, the labels a list handler has cached    *)
(* are all the lines of the file as it is now: listHandler never caches a  *)
(* labels file it caught between its creation and its first write.         *)
CacheIsCurrent ==
  faults = 0 =>
    \A v \in Viewers, h \in Hashes :
      cache[v][h] # <<>> => cache[v][h] = labelData[h]

(* From one message of listHandler to the next a browser loses no          *)
(* recording, and the labels it was shown for one stay as they were: what  *)
(* other handlers do to the files reaches it as additions only.            *)
ListOnlyGrows ==
  [][\A v \in Viewers : \A i \in DOMAIN shown[v] : \E j \in DOMAIN shown'[v] :
       /\ shown'[v][j][1] = shown[v][i][1]
       /\ shown[v][i][2] \in {<<>>, shown'[v][j][2]}]_shown

(* A recording is eventually on the list of every browser that stays, with *)
(* its labels, unless the server exits or a file operation fails.  After a *)
(* restart too, except for a session whose labels file was created and not *)
(* yet written when the server exited: no handler writes it again.         *)
RecordingIsListed ==
  \A v \in Viewers, h \in Hashes :
    (acked[h] # <<>> /\ lpc[v] # "none")
      ~> \/ \E i \in DOMAIN shown[v] : shown[v][i][1] = h /\ shown[v][i][2] # <<>>
         \/ view[v] = "gone"
         \/ faults > 0
         \/ exits > 0 /\ labelData[h] = <<>>
=============================================================================
