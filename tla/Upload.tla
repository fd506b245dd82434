------------------------------- MODULE Upload -------------------------------
(***************************************************************************)
(* The upload path of the server (cmd/server, uploadHandler): one handler  *)
(* goroutine per websocket connection, each a loop that reads a TtyWrite   *)
(* and brings the files of its session up to date.  Handlers interleave    *)
(* at every system call, share the directory dataPath, and all end when    *)
(* any of them calls glog.Fatalf.                                          *)
(*                                                                         *)
(* The environment is the set of clients: each host dials one connection   *)
(* after another, sends its writes in order on the newest one, and the     *)
(* older ones end at any later time, cleanly or with an error, after what  *)
(* was sent on them has been read.                                         *)
(***************************************************************************)
EXTENDS DataPath

CONSTANTS
  Conns,     \* upload connections, one handler each
  ConnNode   \* ConnNode[c]: the host whose client dials c

ASSUME UploadAssumption == ConnNode \in [Conns -> Nodes]

VARIABLES
  conn,        \* conn[c]: "idle", "open", "eof", "broken" or "done"
  inbox,       \* inbox[c]: records received on c and not yet read
  sent,        \* the writes handed to some connection so far
  held,        \* the connections the clients hold: one per host, the newest
  pc,          \* pc[c]: the system call the handler of c makes next
  cur,         \* cur[c]: its variable ttyWrite
  files,       \* files[c]: its map from hash to open file
  timestamps,  \* timestamps[c]: its map from hash to header timestamp
  acked,       \* history: acked[h], the events asciinema.Append returned nil for
  contended,   \* history: hashes two handlers had open at the same time
  overlapped   \* history: hosts that had two handlers running at the same time

connVars    == <<conn, inbox, sent, held>>
handlerVars == <<pc, cur, files, timestamps>>
histVars    == <<acked, contended, overlapped>>
uploadVars  == <<connVars, handlerVars, histVars>>
vars        == <<dirVars, procVars, uploadVars>>

(***************************************************************************)
(* An open file is its mode and, when it was not opened with O_APPEND, its *)
(* own offset.  A hash that is not in the map files has a closed handle;   *)
(* one that is not in the map timestamps has NoTimestamp.                  *)
(***************************************************************************)
Handle      == [mode : {"closed", "rdwr", "append"}, off : Nat]
Closed      == [mode |-> "closed", off |-> 0]
NoTimestamp == -1

FileCalls == {"statLabels", "createLabels", "writeLabels", "statCast",
              "createCast", "writeHeader", "openAppend", "readHeader", "append"}

Running == FileCalls \union {"read"}

TypeOK ==
  /\ DataPathTypeOK
  /\ conn \in [Conns -> {"idle", "open", "eof", "broken", "done"}]
  /\ inbox \in [Conns -> Seq(Writes)]
  /\ sent \subseteq Writes
  /\ held \subseteq Conns
  /\ pc \in [Conns -> Running \union {"none"}]
  /\ cur \in [Conns -> Writes \union {NoWrite}]
  /\ \A c \in Conns :
       /\ pc[c] \in FileCalls => cur[c] \in Writes
       /\ pc[c] = "append" => timestamps[c][HashOf[cur[c]]] \in Seconds
  /\ files \in [Conns -> [Hashes -> Handle]]
  /\ timestamps \in [Conns -> [Hashes -> Seconds \union {NoTimestamp}]]
  /\ acked \in [Hashes -> Seq([write : Writes, base : Seconds, off : Nat])]
  /\ contended \subseteq Hashes
  /\ overlapped \subseteq Nodes

NoFiles      == [h \in Hashes |-> Closed]
NoTimestamps == [h \in Hashes |-> NoTimestamp]

Init ==
  /\ DataPathInit
  /\ conn = [c \in Conns |-> "idle"]
  /\ inbox = [c \in Conns |-> <<>>]
  /\ sent = {}
  /\ held = {}
  /\ pc = [c \in Conns |-> "none"]
  /\ cur = [c \in Conns |-> NoWrite]
  /\ files = [c \in Conns |-> NoFiles]
  /\ timestamps = [c \in Conns |-> NoTimestamps]
  /\ acked = [h \in Hashes |-> <<>>]
  /\ contended = {}
  /\ overlapped = {}

-----------------------------------------------------------------------------
(***************************************************************************)
(* The clients and the network.                                            *)
(***************************************************************************)

(* The client of a host dials, after a failed write or after a restart of  *)
(* its own, giving up the connection it held, which the server may not     *)
(* know yet; the server starts a handler with two empty maps.              *)
Accept(c) ==
  /\ status = "up"
  /\ conn[c] = "idle"
  /\ conn' = [conn EXCEPT ![c] = "open"]
  /\ pc' = [pc EXCEPT ![c] = "read"]
  /\ held' = {d \in held : ConnNode[d] # ConnNode[c]} \union {c}
  /\ overlapped' = IF \E d \in Conns : /\ ConnNode[d] = ConnNode[c]
                                       /\ pc[d] \in Running
                   THEN overlapped \union {ConnNode[c]} ELSE overlapped
  /\ UNCHANGED <<inbox, sent, cur, files, timestamps, acked, contended,
                 dirVars, procVars>>

(* Mutant: the client resends, on its next connection, a write it has      *)
(* already gone past.                                                      *)
DeliverRetried(c, w) ==
  /\ c \in held
  /\ conn[c] = "open"
  /\ NodeOf[w] = ConnNode[c]
  /\ w \notin sent
  /\ inbox' = [inbox EXCEPT ![c] = Append(@, w)]
  /\ sent' = sent \union {w}
  /\ UNCHANGED <<conn, held, handlerVars, histVars, dirVars, procVars>>

(* binary.Write on the connection the client holds: a later write than any *)
(* it sent before.  A write it failed to send it never sends again.        *)
Deliver(c, w) ==
  /\ c \in held
  /\ conn[c] = "open"
  /\ NodeOf[w] = ConnNode[c]
  /\ \A v \in sent : NodeOf[v] = NodeOf[w] => v < w
  /\ inbox' = [inbox EXCEPT ![c] = Append(@, w)]
  /\ sent' = sent \union {w}
  /\ UNCHANGED <<conn, held, handlerVars, histVars, dirVars, procVars>>

(* The connection ends between two records.                                *)
Close(c) ==
  /\ conn[c] = "open"
  /\ conn' = [conn EXCEPT ![c] = "eof"]
  /\ held' = held \ {c}
  /\ UNCHANGED <<inbox, sent, handlerVars, histVars, dirVars, procVars>>

(* It ends inside a record, or is reset, or times out.                     *)
Break(c) ==
  /\ conn[c] = "open"
  /\ conn' = [conn EXCEPT ![c] = "broken"]
  /\ held' = held \ {c}
  /\ UNCHANGED <<inbox, sent, handlerVars, histVars, dirVars, procVars>>

-----------------------------------------------------------------------------
(***************************************************************************)
(* The handler.                                                            *)
(***************************************************************************)
Goto(c, l) == pc' = [pc EXCEPT ![c] = l]

(* The handler returns: the deferred Closes run and the connection ends.   *)
Return(c) ==
  /\ conn' = [conn EXCEPT ![c] = "done"]
  /\ held' = held \ {c}
  /\ inbox' = [inbox EXCEPT ![c] = <<>>]
  /\ pc' = [pc EXCEPT ![c] = "none"]
  /\ cur' = [cur EXCEPT ![c] = NoWrite]
  /\ files' = [files EXCEPT ![c] = NoFiles]
  /\ timestamps' = [timestamps EXCEPT ![c] = NoTimestamps]

(* The process exits: every handler and every connection is gone.          *)
DropAll ==
  /\ conn' = [c \in Conns |-> IF conn[c] = "idle" THEN "idle" ELSE "done"]
  /\ held' = {}
  /\ inbox' = [c \in Conns |-> <<>>]
  /\ pc' = [c \in Conns |-> "none"]
  /\ cur' = [c \in Conns |-> NoWrite]
  /\ files' = [c \in Conns |-> NoFiles]
  /\ timestamps' = [c \in Conns |-> NoTimestamps]

Fatal(why) ==
  /\ Exit(why)
  /\ DropAll
  /\ UNCHANGED <<sent, histVars>>

(* Mutant: the timestamp of a file that was there is taken for known.      *)
OpenNextUnread(c, h) == "append"

(* Where the handler goes once it has an open file for hash h, and once    *)
(* the labels file of h exists.                                            *)
OpenNext(c, h)   == IF timestamps[c][h] = NoTimestamp THEN "readHeader" ELSE "append"
LabelsNext(c, h) == IF files[c][h].mode = "closed" THEN "statCast" ELSE OpenNext(c, h)

(* binary.Read returns a record.                                           *)
Read(c) ==
  /\ pc[c] = "read"
  /\ inbox[c] # <<>>
  /\ cur' = [cur EXCEPT ![c] = Head(inbox[c])]
  /\ inbox' = [inbox EXCEPT ![c] = Tail(@)]
  /\ Goto(c, "statLabels")
  /\ UNCHANGED <<conn, sent, held, files, timestamps, histVars, dirVars, procVars>>

(* Mutant: the handler returns on the end of the connection before it has  *)
(* read what arrived on it.                                                *)
ReadEOFEarly(c) ==
  /\ pc[c] = "read"
  /\ conn[c] = "eof"
  /\ Return(c)
  /\ UNCHANGED <<sent, histVars, dirVars, procVars>>

(* Mutant: the loop goes on after io.EOF.                                  *)
ReadEOFIgnored(c) ==
  /\ pc[c] = "read"
  /\ inbox[c] = <<>>
  /\ conn[c] = "eof"
  /\ UNCHANGED vars

(* binary.Read returns io.EOF.                                             *)
ReadEOF(c) ==
  /\ pc[c] = "read"
  /\ inbox[c] = <<>>
  /\ conn[c] = "eof"
  /\ Return(c)
  /\ UNCHANGED <<sent, histVars, dirVars, procVars>>

(* binary.Read returns any other error: the whole server goes down.        *)
ReadError(c) ==
  /\ pc[c] = "read"
  /\ inbox[c] = <<>>
  /\ conn[c] = "broken"
  /\ Fatal("connError")
  /\ UNCHANGED <<faults, dirVars>>

(* Mutant: a missing labels file is left for later.                        *)
StatLabelsOnly(c) ==
  /\ pc[c] = "statLabels"
  /\ Goto(c, LabelsNext(c, HashOf[cur[c]]))
  /\ UNCHANGED <<connVars, cur, files, timestamps, histVars, dirVars, procVars>>

(* os.Stat of the labels file.                                             *)
StatLabels(c) ==
  /\ pc[c] = "statLabels"
  /\ LET h == HashOf[cur[c]]
     IN  Goto(c, IF h \in labelFiles THEN LabelsNext(c, h) ELSE "createLabels")
  /\ UNCHANGED <<connVars, cur, files, timestamps, histVars, dirVars, procVars>>

(* os.OpenFile of the labels file, created if it is still not there.       *)
CreateLabels(c) ==
  /\ pc[c] = "createLabels"
  /\ labelFiles' = labelFiles \union {HashOf[cur[c]]}
  /\ Goto(c, "writeLabels")
  /\ UNCHANGED <<connVars, cur, files, timestamps, histVars,
                 labelData, castFiles, castData, procVars>>

(* Mutant: the labels file is opened with O_APPEND.                        *)
WriteLabelsAtEnd(c) ==
  /\ pc[c] = "writeLabels"
  /\ LET h == HashOf[cur[c]]
     IN  /\ labelData' = [labelData EXCEPT ![h] = WriteAt(@, Len(@), Labels(cur[c]))]
         /\ Goto(c, LabelsNext(c, h))
  /\ UNCHANGED <<connVars, cur, files, timestamps, histVars,
                 labelFiles, castFiles, castData, procVars>>

(* The label lines, written from the start of the file.                    *)
WriteLabels(c) ==
  /\ pc[c] = "writeLabels"
  /\ LET h == HashOf[cur[c]]
     IN  /\ labelData' = [labelData EXCEPT ![h] = WriteAt(@, 0, Labels(cur[c]))]
         /\ Goto(c, LabelsNext(c, h))
  /\ UNCHANGED <<connVars, cur, files, timestamps, histVars,
                 labelFiles, castFiles, castData, procVars>>

(* The write fails: the handler returns and leaves what it wrote.          *)
WriteLabelsFails(c) ==
  /\ pc[c] = "writeLabels"
  /\ Fault
  /\ LET h == HashOf[cur[c]]
     IN  \E part \in ShortWrites(Labels(cur[c])) :
           labelData' = [labelData EXCEPT ![h] = WriteAt(@, 0, part)]
  /\ Return(c)
  /\ UNCHANGED <<sent, histVars, labelFiles, castFiles, castData, status, exits>>

(* The handler c has the cast file of h open or is about to open it.       *)
Holds(c, h) ==
  \/ files[c][h].mode # "closed"
  \/ pc[c] \in {"createCast", "openAppend"} /\ HashOf[cur[c]] = h

(* os.Stat of the cast file of a hash that is not in the map files.        *)
StatCast(c) ==
  /\ pc[c] = "statCast"
  /\ LET h == HashOf[cur[c]]
     IN  /\ Goto(c, IF h \in castFiles THEN "openAppend" ELSE "createCast")
         /\ contended' = IF \E d \in Conns \ {c} : Holds(d, h)
                         THEN contended \union {h} ELSE contended
  /\ UNCHANGED <<connVars, cur, files, timestamps, acked, overlapped, dirVars, procVars>>

(* A write moves the offset of the handle it was made through.             *)
MovedTo(f, n) == [mode |-> f.mode, off |-> n]

(* os.OpenFile(O_CREATE|O_RDWR): without O_APPEND, and not exclusive.      *)
CreateCast(c) ==
  /\ pc[c] = "createCast"
  /\ LET h == HashOf[cur[c]]
     IN  /\ castFiles' = castFiles \union {h}
         /\ files' = [files EXCEPT ![c][h] = [mode |-> "rdwr", off |-> 0]]
  /\ Goto(c, "writeHeader")
  /\ UNCHANGED <<connVars, cur, timestamps, histVars,
                 labelFiles, labelData, castData, procVars>>

(* asciinema.Init: the header, with the write's whole seconds.             *)
WriteHeader(c) ==
  /\ pc[c] = "writeHeader"
  /\ LET h == HashOf[cur[c]]
         s == SecondsOf[cur[c]]
         f == files[c][h]
     IN  /\ castData' = [castData EXCEPT ![h] = WriteAt(@, f.off, Header(s))]
         /\ files' = [files EXCEPT ![c][h] = MovedTo(f, f.off + Len(Header(s)))]
         /\ timestamps' = [timestamps EXCEPT ![c][h] = s]
  /\ Goto(c, "append")
  /\ UNCHANGED <<connVars, cur, histVars, labelFiles, labelData, castFiles, procVars>>

WriteHeaderFails(c) ==
  /\ pc[c] = "writeHeader"
  /\ Fault
  /\ LET h == HashOf[cur[c]]
     IN  \E part \in ShortWrites(Header(SecondsOf[cur[c]])) :
           castData' = [castData EXCEPT ![h] = WriteAt(@, files[c][h].off, part)]
  /\ Fatal("ioError")
  /\ UNCHANGED <<labelFiles, labelData, castFiles>>

(* os.OpenFile(O_APPEND|O_RDWR) of a cast file that was there.             *)
OpenAppend(c) ==
  /\ pc[c] = "openAppend"
  /\ LET h == HashOf[cur[c]]
     IN  /\ files' = [files EXCEPT ![c][h] = [mode |-> "append", off |-> 0]]
         /\ Goto(c, OpenNext(c, h))
  /\ UNCHANGED <<connVars, cur, timestamps, histVars, dirVars, procVars>>

(* Mutant: the timestamp of the current write is used instead of the one   *)
(* in the file.                                                            *)
ReadHeaderFromWrite(c) ==
  /\ pc[c] = "readHeader"
  /\ LET h == HashOf[cur[c]]
     IN  /\ \E s \in Seconds : HeaderIs(castData[h], s)
         /\ timestamps' = [timestamps EXCEPT ![c][h] = SecondsOf[cur[c]]]
  /\ Goto(c, "append")
  /\ UNCHANGED <<connVars, cur, files, histVars, dirVars, procVars>>

(* The first line of the cast file is read for the header's timestamp.     *)
ReadHeader(c) ==
  /\ pc[c] = "readHeader"
  /\ LET h == HashOf[cur[c]]
     IN  \E s \in Seconds :
           /\ HeaderIs(castData[h], s)
           /\ timestamps' = [timestamps EXCEPT ![c][h] = s]
  /\ Goto(c, "append")
  /\ UNCHANGED <<connVars, cur, files, histVars, dirVars, procVars>>

(* json.Unmarshal rejects the first line: the whole server goes down.      *)
BadHeader(c) ==
  /\ pc[c] = "readHeader"
  /\ \A s \in Seconds : ~HeaderIs(castData[HashOf[cur[c]]], s)
  /\ Fatal("badHeader")
  /\ UNCHANGED <<faults, dirVars>>

(* Mutant: a file that was there is opened without O_APPEND.               *)
PositionFromStart(c, h) == files[c][h].off

(* Where a write through the handle of h lands.                            *)
Position(c, h) ==
  IF files[c][h].mode = "append" THEN Len(castData[h]) ELSE files[c][h].off

(* asciinema.Append: one event line, relative to the cached timestamp.     *)
AppendEvent(c) ==
  /\ pc[c] = "append"
  /\ LET w    == cur[c]
         h    == HashOf[w]
         s    == timestamps[c][h]
         off  == Position(c, h)
     IN  /\ castData' = [castData EXCEPT ![h] = WriteAt(@, off, Event(w, s))]
         /\ files' = [files EXCEPT ![c][h] = MovedTo(@, off + EntrySize[w])]
         /\ acked' = [acked EXCEPT ![h] =
                        Append(@, [write |-> w, base |-> s, off |-> off])]
  /\ Goto(c, "read")
  /\ UNCHANGED <<connVars, cur, timestamps, contended, overlapped,
                 labelFiles, labelData, castFiles, procVars>>

AppendFails(c) ==
  /\ pc[c] = "append"
  /\ Fault
  /\ LET w == cur[c]
         h == HashOf[w]
     IN  \E part \in ShortWrites(Event(w, timestamps[c][h])) :
           castData' = [castData EXCEPT ![h] = WriteAt(@, Position(c, h), part)]
  /\ Fatal("ioError")
  /\ UNCHANGED <<labelFiles, labelData, castFiles>>

(* Any other file operation of the handler fails: glog.Fatalf.             *)
OpenFails(c) ==
  /\ pc[c] \in FileCalls \ {"writeLabels", "writeHeader", "append"}
  /\ Fault
  /\ Fatal("ioError")
  /\ UNCHANGED dirVars

(* The process is killed from outside.                                     *)
Kill ==
  /\ exits < MaxExits
  /\ Fatal("killed")
  /\ UNCHANGED <<faults, dirVars>>

-----------------------------------------------------------------------------
Step(c) ==
  \/ Read(c) \/ ReadEOF(c) \/ ReadError(c)
  \/ StatLabels(c) \/ CreateLabels(c) \/ WriteLabels(c) \/ WriteLabelsFails(c)
  \/ StatCast(c) \/ CreateCast(c) \/ WriteHeader(c) \/ WriteHeaderFails(c)
  \/ OpenAppend(c) \/ ReadHeader(c) \/ BadHeader(c)
  \/ AppendEvent(c) \/ AppendFails(c) \/ OpenFails(c)

Environment(c) ==
  \/ Accept(c) \/ Close(c) \/ Break(c)
  \/ \E w \in Writes : Deliver(c, w)

Reboot == Restart /\ UNCHANGED uploadVars

Next ==
  \/ \E c \in Conns : Step(c) \/ Environment(c)
  \/ Kill
  \/ Reboot

Spec == Init /\ [][Next]_vars

(***************************************************************************)
(* Go schedules every runnable goroutine, so every handler keeps going;    *)
(* the deployment restarts a server that exited.  Clients and the network  *)
(* promise nothing.                                                        *)
(***************************************************************************)
Fairness == WF_vars(Reboot) /\ \A c \in Conns : WF_vars(Step(c))

FairSpec == Spec /\ Fairness

-----------------------------------------------------------------------------
(***************************************************************************)
(* Properties.                                                             *)
(***************************************************************************)

(* A cast file is never visible before its labels file: uploadHandler      *)
(* creates the labels first, and listHandler exits the server on a cast    *)
(* whose labels it cannot open.                                            *)
LabelsBeforeCast == castFiles \subseteq labelFiles

(* Every event asciinema.Append reported as written stays whole where it   *)
(* was written, through reconnections, failed writes and restarts, in      *)
(* every file that no two handlers had open at once.                       *)
AckedIntact ==
  \A h \in Hashes \ contended : \A i \in DOMAIN acked[h] :
    EventAt(castData[h], acked[h][i].off, acked[h][i].write, acked[h][i].base)

(* The timestamp a handler subtracts, whether it wrote the header or read  *)
(* it back after a reconnection, is the one in the file: every event of an *)
(* uncontended file is relative to the header a player will read.          *)
HeaderAgrees ==
  \A h \in Hashes \ contended : \A i \in DOMAIN acked[h] :
    HeaderIs(castData[h], acked[h][i].base)

(* In an uncontended file the events of a host stand in the order its      *)
(* client sent them, as long as that host never had two handlers at once.  *)
RecordedInOrder ==
  \A h \in Hashes \ contended : \A i, j \in DOMAIN acked[h] :
    LET a == acked[h][i]
        b == acked[h][j]
    IN  i < j => /\ a.off + EntrySize[a.write] <= b.off
                 /\ NodeOf[a.write] = NodeOf[b.write] /\ NodeOf[a.write] \notin overlapped
                      => a.write < b.write

(* The server takes itself down over an unreadable header only after two   *)
(* handlers shared a file or after an earlier exit: its own files are      *)
(* otherwise readable to it.                                               *)
ExitHasCause == status = "badHeader" => contended # {} \/ exits > 1

(* A record received on a connection is recorded, unless the server exits  *)
(* first or a file operation failed.                                       *)
SentIsRecorded ==
  \A c \in Conns, w \in Writes :
    (\E i \in DOMAIN inbox[c] : inbox[c][i] = w)
      ~> \/ \E i \in DOMAIN acked[HashOf[w]] : acked[HashOf[w]][i].write = w
         \/ status # "up"
         \/ faults > 0

(* A connection that ended is eventually let go of, with its handler.      *)
EndedConnIsReleased ==
  \A c \in Conns : conn[c] \in {"eof", "broken"} ~> conn[c] = "done"

-----------------------------------------------------------------------------
(***************************************************************************)
(* The inductive invariant behind the properties of the cast files.        *)
(***************************************************************************)

(* Handles and program counters fit the files they refer to.               *)
Shape ==
  /\ \A c \in Conns :
       /\ conn[c] = "idle" => pc[c] = "none"
       /\ pc[c] = "none" => files[c] = NoFiles /\ timestamps[c] = NoTimestamps
       /\ pc[c] = "writeHeader" => files[c][HashOf[cur[c]]].mode = "rdwr"
       /\ pc[c] \in {"readHeader", "append"} => files[c][HashOf[cur[c]]].mode # "closed"
       /\ pc[c] = "openAppend" => HashOf[cur[c]] \in castFiles
       /\ \A h \in Hashes : /\ files[c][h].mode # "closed" => h \in castFiles
                            /\ files[c][h].off <= Len(castData[h])
  /\ \A h \in Hashes \ castFiles : castData[h] = <<>>

(* Whoever holds the file of h is alone, writes at its end, and knows its  *)
(* header; a file about to be created is not there, one whose header is    *)
(* about to be written is empty.                                           *)
Exclusive(h) ==
  /\ \A c, d \in Conns : Holds(c, h) /\ Holds(d, h) => c = d
  /\ \A c \in Conns :
       /\ files[c][h].mode = "rdwr" => files[c][h].off = Len(castData[h])
       /\ pc[c] = "createCast" /\ HashOf[cur[c]] = h => h \notin castFiles
       /\ pc[c] = "writeHeader" /\ HashOf[cur[c]] = h => castData[h] = <<>>
       /\ timestamps[c][h] # NoTimestamp => HeaderIs(castData[h], timestamps[c][h])

(* Every recorded event of h is whole, relative to the header, and ends    *)
(* before the next one begins.                                             *)
Recorded(h) ==
  \A i \in DOMAIN acked[h] :
    /\ EventAt(castData[h], acked[h][i].off, acked[h][i].write, acked[h][i].base)
    /\ HeaderIs(castData[h], acked[h][i].base)
    /\ \A j \in DOMAIN acked[h] :
         i < j => acked[h][i].off + EntrySize[acked[h][i].write] <= acked[h][j].off

(* Before the first exit only a file that is being created has no header.  *)
Readable(h) ==
  exits = 0 /\ h \in castFiles =>
    \/ \E c \in Conns : pc[c] = "writeHeader" /\ HashOf[cur[c]] = h
    \/ \E s \in Seconds : HeaderIs(castData[h], s)

Session(h) == Exclusive(h) /\ Recorded(h) /\ Readable(h)

CastInv ==
  /\ TypeOK
  /\ Shape
  /\ \A h \in Hashes \ contended : Session(h)
  /\ ExitHasCause

(* A handler past its check of the labels file finds that file there.      *)
LabelsInv ==
  /\ LabelsBeforeCast
  /\ \A c \in Conns : pc[c] \in {"writeLabels", "statCast", "createCast"}
                        => HashOf[cur[c]] \in labelFiles

-----------------------------------------------------------------------------
(***************************************************************************)
(* What README.md says of the recordings; the code does not keep it.       *)
(***************************************************************************)

(* README.md: kubecast "allows operators to see exactly what was typed     *)
(* during any shell session".  No event the server recorded is ever lost   *)
(* from its cast file, whoever else writes to that file.                   *)
AckedNeverLost ==
  \A h \in Hashes : \A i \in DOMAIN acked[h] :
    EventAt(castData[h], acked[h][i].off, acked[h][i].write, acked[h][i].base)

(* README.md: sessions are "streamed to a central server in the asciicast  *)
(* format so that they can be played back".  Every cast file that is not   *)
(* just being created begins with a header.                                *)
CastHasHeader ==
  \A h \in castFiles :
    \/ \E c \in Conns : pc[c] = "writeHeader" /\ HashOf[cur[c]] = h
    \/ \E s \in Seconds : HeaderIs(castData[h], s)
=============================================================================
