------------------------------ MODULE CastFile ------------------------------
(***************************************************************************)
(* The bytes of a .cast file and of its .cast.labels companion, and the    *)
(* writes pkg/asciinema and cmd/server make to them.                       *)
(*                                                                         *)
(* A file is a sequence of cells.  A cell stands for a run of bytes that   *)
(* one write put down: part i of the JSON header with a given timestamp,   *)
(* part i of the event line of one TtyWrite, or one label line.  The       *)
(* number of cells of a header or an event is a constant function, so that *)
(* writes of different lengths overwrite each other partially, as they do  *)
(* in the real file.                                                       *)
(***************************************************************************)
EXTENDS Integers, Sequences

CONSTANTS
  Nodes,       \* the hosts a client runs on
  Writes,      \* TtyWrite records, numbered in the order their client sends them
  Hashes,      \* values of hash(): one .cast file each, ordered as Glob lists them
  Seconds,     \* whole seconds of the kernel clock a TtyWrite may carry
  NodeOf,      \* NodeOf[w]: the host whose client sends w
  HashOf,      \* HashOf[w]: hash(Hostname, Inode, MountNamespaceInum)
  SecondsOf,   \* SecondsOf[w]: ttyWrite.Timestamp / 1000000000
  HeaderSize,  \* HeaderSize[s]: cells of a header whose timestamp is s
  EntrySize,   \* EntrySize[w]: cells of the event line of w
  NoWrite      \* the write component of a cell that is not part of an event

ASSUME CastFileAssumption ==
  /\ Writes \subseteq Nat
  /\ Hashes \subseteq Nat
  /\ Seconds \subseteq Nat
  /\ NodeOf \in [Writes -> Nodes]
  /\ HashOf \in [Writes -> Hashes]
  /\ SecondsOf \in [Writes -> Seconds]
  /\ HeaderSize \in [Seconds -> Nat \ {0}]
  /\ EntrySize \in [Writes -> Nat \ {0}]
  /\ NoWrite \notin Writes

(***************************************************************************)
(* Cells.                                                                  *)
(***************************************************************************)
Cell == [kind : {"header", "event"}, base : Seconds,
         write : Writes \union {NoWrite}, part : Nat]

LabelCell == [owner : Nodes, part : Nat]

HeaderCell(s, i) ==
  [kind |-> "header", base |-> s, write |-> NoWrite, part |-> i]

EventCell(w, s, i) ==
  [kind |-> "event", base |-> s, write |-> w, part |-> i]

(***************************************************************************)
(* The header asciinema.Init marshals: one JSON object, no newline.        *)
(***************************************************************************)
Header(s) == [i \in 1..HeaderSize[s] |-> HeaderCell(s, i)]

(***************************************************************************)
(* The event asciinema.Append marshals for w: a newline, then the JSON     *)
(* array whose first member is w's time relative to the timestamp s.       *)
(* Part 1 is the part that begins with the newline.                        *)
(***************************************************************************)
Event(w, s) == [i \in 1..EntrySize[w] |-> EventCell(w, s, i)]

(***************************************************************************)
(* The label lines written for a session: namespace, pod, container and    *)
(* hostname, each stripped of everything but [a-zA-Z0-9-], one a line.     *)
(***************************************************************************)
LabelLines == 4

Labels(w) == [i \in 1..LabelLines |-> [owner |-> NodeOf[w], part |-> i]]

(***************************************************************************)
(* write(2) of data at offset off of file f.  Bytes of f outside           *)
(* off+1 .. off+Len(data) stay; the file grows when data reaches past its  *)
(* end.  A handle opened with O_APPEND writes at off = Len(f).             *)
(***************************************************************************)
WriteAt(f, off, data) ==
  LET end == off + Len(data)
  IN  [i \in 1..(IF end > Len(f) THEN end ELSE Len(f)) |->
         IF off < i /\ i <= end THEN data[i - off] ELSE f[i]]

(***************************************************************************)
(* A failing write leaves a proper prefix of its data behind.              *)
(***************************************************************************)
ShortWrites(data) == {SubSeq(data, 1, k) : k \in 0..(Len(data) - 1)}

(* Mutant: the whole file has to be the header, as when it is parsed in    *)
(* one piece instead of line by line.                                      *)
HeaderIsAll(f, s) ==
  /\ Len(f) = HeaderSize[s]
  /\ \A i \in 1..HeaderSize[s] : f[i] = HeaderCell(s, i)

(***************************************************************************)
(* The first line of f, everything before the first newline, is the JSON   *)
(* header with timestamp s: what json.Unmarshal of scanner.Text() accepts. *)
(***************************************************************************)
HeaderIs(f, s) ==
  /\ Len(f) >= HeaderSize[s]
  /\ \A i \in 1..HeaderSize[s] : f[i] = HeaderCell(s, i)
  /\ Len(f) > HeaderSize[s] => /\ f[HeaderSize[s] + 1].kind = "event"
                               /\ f[HeaderSize[s] + 1].part = 1

(***************************************************************************)
(* The event line of w, relative to s, stands whole right after offset     *)
(* off of f.                                                               *)
(***************************************************************************)
EventAt(f, off, w, s) ==
  /\ off + EntrySize[w] <= Len(f)
  /\ \A i \in 1..EntrySize[w] : f[off + i] = EventCell(w, s, i)
=============================================================================
