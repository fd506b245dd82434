------------------------------ MODULE DataPath ------------------------------
(***************************************************************************)
(* The state every handler of the server shares: the directory dataPath    *)
(* and the server process itself.  The directory outlives the process (in  *)
(* deploy/kubernetes it is an emptyDir volume), so an exit of the process  *)
(* loses the handlers and keeps the files.                                 *)
(***************************************************************************)
EXTENDS CastFile

CONSTANTS
  MaxExits,   \* bound: the process is killed from outside only below this many exits
  MaxFaults   \* bound: how many file operations may fail

ASSUME DataPathAssumption == MaxExits \in Nat /\ MaxFaults \in Nat

VARIABLES
  labelFiles,  \* hashes h for which h.cast.labels exists
  labelData,   \* labelData[h]: its lines
  castFiles,   \* hashes h for which h.cast exists
  castData,    \* castData[h]: its cells
  status,      \* "up", or why the server process exited last
  exits,       \* how many times it exited
  faults       \* how many file operations failed

dirVars  == <<labelFiles, labelData, castFiles, castData>>
procVars == <<status, exits, faults>>

ExitReasons == {"killed", "connError", "ioError", "badHeader", "noLabels"}

DataPathTypeOK ==
  /\ labelFiles \subseteq Hashes
  /\ labelData \in [Hashes -> Seq(LabelCell)]
  /\ castFiles \subseteq Hashes
  /\ castData \in [Hashes -> Seq(Cell)]
  /\ status \in ExitReasons \union {"up"}
  /\ exits \in Nat
  /\ faults \in Nat

DataPathInit ==
  /\ labelFiles = {}
  /\ labelData = [h \in Hashes |-> <<>>]
  /\ castFiles = {}
  /\ castData = [h \in Hashes |-> <<>>]
  /\ status = "up"
  /\ exits = 0
  /\ faults = 0

(***************************************************************************)
(* glog.Fatalf, or the end of the process from outside.  The exit is one   *)
(* step: what other handlers still do while glog flushes is what they do   *)
(* before it.                                                              *)
(***************************************************************************)
Exit(why) ==
  /\ status = "up"
  /\ status' = why
  /\ exits' = exits + 1

Restart ==
  /\ status # "up"
  /\ status' = "up"
  /\ UNCHANGED <<exits, faults, dirVars>>

(***************************************************************************)
(* One file operation fails with an error.                                 *)
(***************************************************************************)
Fault ==
  /\ faults < MaxFaults
  /\ faults' = faults + 1
=============================================================================
