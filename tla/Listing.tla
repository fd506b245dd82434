------------------------------- MODULE Listing -------------------------------
(***************************************************************************)
(* The listing path of the server (cmd/server, listHandler): one handler   *)
(* per browser connection, a loop that lists the cast files, pairs each    *)
(* with its labels, writes the list to the websocket and sleeps.  Labels   *)
(* are read once per connection and cached.                                *)
(*                                                                         *)
(* The module describes the handlers over whatever directory they find;    *)
(* module Server composes it with the uploads that fill the directory.     *)
(***************************************************************************)
EXTENDS DataPath

CONSTANT Viewers   \* websocket connections to /list, one handler each

VARIABLES
  view,     \* view[v]: "idle", "open", or "gone" (the browser left)
  lpc,      \* lpc[v]: where the handler of v is
  todo,     \* todo[v]: the rest of the slice files that Glob returned
  message,  \* message[v]: the message built so far, a <<hash, labels>> a file
  cache,    \* cache[v]: its map labels; a hash that is not in it has <<>>
  shown     \* shown[v]: the last message the browser received

listVars == <<view, lpc, todo, message, cache, shown>>

NoLabels == [h \in Hashes |-> <<>>]

Lines == Seq(LabelCell)

ListTypeOK ==
  /\ view \in [Viewers -> {"idle", "open", "gone"}]
  /\ lpc \in [Viewers -> {"none", "glob", "label", "send"}]
  /\ todo \in [Viewers -> SUBSET Hashes]
  /\ message \in [Viewers -> Seq(Hashes \X Lines)]
  /\ cache \in [Viewers -> [Hashes -> Lines]]
  /\ shown \in [Viewers -> Seq(Hashes \X Lines)]

ListInit ==
  /\ view = [v \in Viewers |-> "idle"]
  /\ lpc = [v \in Viewers |-> "none"]
  /\ todo = [v \in Viewers |-> {}]
  /\ message = [v \in Viewers |-> <<>>]
  /\ cache = [v \in Viewers |-> NoLabels]
  /\ shown = [v \in Viewers |-> <<>>]

(* A browser connects: the handler starts with an empty cache.             *)
Connect(v) ==
  /\ status = "up"
  /\ view[v] = "idle"
  /\ view' = [view EXCEPT ![v] = "open"]
  /\ lpc' = [lpc EXCEPT ![v] = "glob"]
  /\ UNCHANGED <<todo, message, cache, shown, dirVars, procVars>>

(* The browser goes away; the handler notices when it next writes.         *)
Leave(v) ==
  /\ view[v] = "open"
  /\ view' = [view EXCEPT ![v] = "gone"]
  /\ UNCHANGED <<lpc, todo, message, cache, shown, dirVars, procVars>>

(* Mutant: only the recordings that are not cached yet are listed.         *)
GlobNew(v) ==
  LET new == {h \in castFiles : cache[v][h] = <<>>}
  IN  /\ lpc[v] = "glob"
      /\ todo' = [todo EXCEPT ![v] = new]
      /\ message' = [message EXCEPT ![v] = <<>>]
      /\ lpc' = [lpc EXCEPT ![v] = IF new = {} THEN "send" ELSE "label"]
      /\ UNCHANGED <<view, cache, shown, dirVars, procVars>>

(* filepath.Glob: the cast files there are, in order.  Its only error, a   *)
(* malformed pattern, cannot occur, and every name is a hash:        *)
(* uploadHandler makes no other.                                           *)
Glob(v) ==
  /\ lpc[v] = "glob"
  /\ todo' = [todo EXCEPT ![v] = castFiles]
  /\ message' = [message EXCEPT ![v] = <<>>]
  /\ lpc' = [lpc EXCEPT ![v] = IF castFiles = {} THEN "send" ELSE "label"]
  /\ UNCHANGED <<view, cache, shown, dirVars, procVars>>

(* The file the loop is at: the first of those that are left.              *)
Current(v) == CHOOSE h \in todo[v] : \A g \in todo[v] : h <= g

(* Mutant: labels are looked up in the cache only.                         *)
LabelsCached(v, h) == cache[v][h]

(* The labels of h as v knows them: those in the cache, or else every line *)
(* of the labels file.                                                     *)
LabelsFor(v, h) == IF cache[v][h] # <<>> THEN cache[v][h] ELSE labelData[h]

(* One round of the loop over the files: the labels are read unless they   *)
(* are cached, and a labels file with a line in it enters the cache.       *)
ListOne(v) ==
  /\ lpc[v] = "label"
  /\ LET h == Current(v)
     IN  /\ cache[v][h] # <<>> \/ h \in labelFiles
         /\ cache' = [cache EXCEPT ![v][h] = LabelsFor(v, h)]
         /\ message' = [message EXCEPT ![v] = Append(@, <<h, LabelsFor(v, h)>>)]
         /\ todo' = [todo EXCEPT ![v] = @ \ {h}]
         /\ lpc' = [lpc EXCEPT ![v] = IF todo[v] = {h} THEN "send" ELSE "label"]
  /\ UNCHANGED <<view, shown, dirVars, procVars>>

(* ws.Write succeeds; then a second's sleep.  A write to a browser that    *)
(* has just left may still succeed, and nobody sees it.                    *)
Send(v) ==
  /\ lpc[v] = "send"
  /\ shown' = IF view[v] = "open" THEN [shown EXCEPT ![v] = message[v]] ELSE shown
  /\ lpc' = [lpc EXCEPT ![v] = "glob"]
  /\ UNCHANGED <<view, todo, message, cache, dirVars, procVars>>

(* ws.Write fails, or falls short: the handler returns.                    *)
SendFails(v) ==
  /\ lpc[v] = "send"
  /\ view[v] = "gone"
  /\ lpc' = [lpc EXCEPT ![v] = "none"]
  /\ todo' = [todo EXCEPT ![v] = {}]
  /\ message' = [message EXCEPT ![v] = <<>>]
  /\ cache' = [cache EXCEPT ![v] = NoLabels]
  /\ UNCHANGED <<view, shown, dirVars, procVars>>

(* The process exits: every list handler is gone with its cache.           *)
DropViewers ==
  /\ view' = [v \in Viewers |-> IF view[v] = "idle" THEN "idle" ELSE "gone"]
  /\ lpc' = [v \in Viewers |-> "none"]
  /\ todo' = [v \in Viewers |-> {}]
  /\ message' = [v \in Viewers |-> <<>>]
  /\ cache' = [v \in Viewers |-> NoLabels]
  /\ UNCHANGED shown

(* The labels file of a listed cast cannot be opened: glog.Fatalf.         *)
MissingLabels(v) ==
  /\ lpc[v] = "label"
  /\ cache[v][Current(v)] = <<>>
  /\ Current(v) \notin labelFiles
  /\ Exit("noLabels")
  /\ DropViewers
  /\ UNCHANGED <<faults, dirVars>>

(* The labels file cannot be opened or read for any other reason.          *)
ReadLabelsFails(v) ==
  /\ lpc[v] = "label"
  /\ cache[v][Current(v)] = <<>>
  /\ Fault
  /\ Exit("ioError")
  /\ DropViewers
  /\ UNCHANGED dirVars

ListStep(v) ==
  \/ Glob(v) \/ ListOne(v) \/ Send(v) \/ SendFails(v)
  \/ MissingLabels(v) \/ ReadLabelsFails(v)

ListEnvironment(v) == Connect(v) \/ Leave(v)
=============================================================================
