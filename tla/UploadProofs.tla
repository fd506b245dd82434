---------------------------- MODULE UploadProofs ----------------------------
(***************************************************************************)
(* What the upload handlers keep, for any number of hosts, connections,    *)
(* sessions, writes, failures and exits.                                   *)
(***************************************************************************)
EXTENDS Upload, TLAPS

(***************************************************************************)
(* What the operators of CastFile return and preserve.                     *)
(***************************************************************************)

(* A write that starts inside a file, or at its end, leaves a file: no     *)
(* hole, and at least as long as before.                                   *)
LEMMA WriteAtType ==
  ASSUME NEW S, NEW f \in Seq(S), NEW data \in Seq(S), NEW off \in Nat, off <= Len(f)
  PROVE  /\ WriteAt(f, off, data) \in Seq(S)
         /\ Len(WriteAt(f, off, data)) =
              IF off + Len(data) > Len(f) THEN off + Len(data) ELSE Len(f)
<1> DEFINE n == IF off + Len(data) > Len(f) THEN off + Len(data) ELSE Len(f)
<1>1. n \in Nat /\ n >= Len(f)
  OBVIOUS
<1>2. WriteAt(f, off, data) \in [1..n -> S]
  BY <1>1 DEF WriteAt
<1>3. QED
  BY <1>1, <1>2

(* A write at the end of a file keeps every cell of it and adds its data   *)
(* after them.                                                             *)
LEMMA WriteAtEnd ==
  ASSUME NEW f \in Seq(Cell), NEW data \in Seq(Cell)
  PROVE  /\ WriteAt(f, Len(f), data) \in Seq(Cell)
         /\ Len(WriteAt(f, Len(f), data)) = Len(f) + Len(data)
         /\ \A i \in 1..Len(f) : WriteAt(f, Len(f), data)[i] = f[i]
         /\ \A i \in 1..Len(data) : WriteAt(f, Len(f), data)[Len(f) + i] = data[i]
<1>1. /\ WriteAt(f, Len(f), data) \in Seq(Cell)
      /\ Len(WriteAt(f, Len(f), data)) = Len(f) + Len(data)
  BY WriteAtType
<1>2. QED
  BY <1>1 DEF WriteAt

(* The header is a sequence of HeaderSize cells.                           *)
LEMMA HeaderType ==
  ASSUME NEW s \in Seconds
  PROVE  /\ Header(s) \in Seq(Cell)
         /\ Len(Header(s)) = HeaderSize[s]
         /\ HeaderSize[s] \in Nat \ {0}
         /\ \A i \in 1..HeaderSize[s] : Header(s)[i] = HeaderCell(s, i)
<1>1. HeaderSize[s] \in Nat \ {0}
  BY CastFileAssumption
<1>2. Header(s) \in [1..HeaderSize[s] -> Cell]
  BY <1>1 DEF Header, HeaderCell, Cell
<1>3. QED
  BY <1>1, <1>2 DEF Header

(* The event line is a sequence of EntrySize cells.                        *)
LEMMA EventType ==
  ASSUME NEW w \in Writes, NEW s \in Seconds
  PROVE  /\ Event(w, s) \in Seq(Cell)
         /\ Len(Event(w, s)) = EntrySize[w]
         /\ EntrySize[w] \in Nat \ {0}
         /\ \A i \in 1..EntrySize[w] : Event(w, s)[i] = EventCell(w, s, i)
<1>1. EntrySize[w] \in Nat \ {0}
  BY CastFileAssumption
<1>2. Event(w, s) \in [1..EntrySize[w] -> Cell]
  BY <1>1 DEF Event, EventCell, Cell
<1>3. QED
  BY <1>1, <1>2 DEF Event

(* What a failing write leaves is a sequence of its first cells.           *)
LEMMA ShortWriteType ==
  ASSUME NEW S, NEW data \in Seq(S), NEW p \in ShortWrites(data)
  PROVE  /\ p \in Seq(S)
         /\ Len(p) <= Len(data)
         /\ \A i \in 1..Len(p) : p[i] = data[i]
<1>1. PICK k \in 0..(Len(data) - 1) : p = SubSeq(data, 1, k)
  BY DEF ShortWrites
<1>2. QED
  BY <1>1

(* A header stays the first line when cells that begin with a newline are  *)
(* written behind everything there is.                                     *)
LEMMA HeaderSurvivesAppend ==
  ASSUME NEW f \in Seq(Cell), NEW data \in Seq(Cell), NEW s \in Seconds,
         HeaderIs(f, s),
         data # <<>> => data[1].kind = "event" /\ data[1].part = 1
  PROVE  HeaderIs(WriteAt(f, Len(f), data), s)
<1> DEFINE g == WriteAt(f, Len(f), data)
<1>1. HeaderSize[s] \in Nat \ {0}
  BY CastFileAssumption
<1>2. /\ g \in Seq(Cell)
      /\ Len(g) = Len(f) + Len(data)
      /\ \A i \in 1..Len(f) : g[i] = f[i]
      /\ \A i \in 1..Len(data) : g[Len(f) + i] = data[i]
  BY WriteAtEnd
<1> HIDE DEF g
<1>3. Len(g) >= HeaderSize[s] /\ \A i \in 1..HeaderSize[s] : g[i] = HeaderCell(s, i)
  BY <1>1, <1>2 DEF HeaderIs
<1>4. ASSUME Len(g) > HeaderSize[s]
      PROVE  g[HeaderSize[s] + 1].kind = "event" /\ g[HeaderSize[s] + 1].part = 1
  <2>1. CASE Len(f) > HeaderSize[s]
    <3>1. HeaderSize[s] + 1 \in 1..Len(f)
      BY <1>1, <2>1
    <3>2. g[HeaderSize[s] + 1] = f[HeaderSize[s] + 1]
      BY <1>2, <3>1
    <3>3. QED
      BY <2>1, <3>2 DEF HeaderIs
  <2>2. CASE Len(f) = HeaderSize[s]
    <3>1. 1 \in 1..Len(data) /\ data # <<>>
      BY <1>1, <1>2, <1>4, <2>2
    <3>2. g[Len(f) + 1] = data[1]
      BY <1>2, <3>1
    <3>3. QED
      BY <2>2, <3>1, <3>2
  <2>3. QED
    BY <1>1, <2>1, <2>2 DEF HeaderIs
<1>5. QED
  BY <1>3, <1>4 DEF HeaderIs, g

(* So does an event line.                                                  *)
LEMMA EventSurvivesAppend ==
  ASSUME NEW f \in Seq(Cell), NEW data \in Seq(Cell), NEW off \in Nat,
         NEW w \in Writes, NEW s \in Seconds, EventAt(f, off, w, s)
  PROVE  EventAt(WriteAt(f, Len(f), data), off, w, s)
<1>1. EntrySize[w] \in Nat \ {0}
  BY CastFileAssumption
<1> DEFINE g == WriteAt(f, Len(f), data)
<1>2. g \in Seq(Cell) /\ Len(g) = Len(f) + Len(data) /\ \A i \in 1..Len(f) : g[i] = f[i]
  BY WriteAtEnd
<1> HIDE DEF g
<1>3. off + EntrySize[w] <= Len(g)
  BY <1>1, <1>2 DEF EventAt
<1>4. ASSUME NEW i \in 1..EntrySize[w]
      PROVE  g[off + i] = EventCell(w, s, i)
  <2>1. off + i \in 1..Len(f)
    BY <1>1 DEF EventAt
  <2>2. g[off + i] = f[off + i]
    BY <1>2, <2>1
  <2>3. QED
    BY <2>2 DEF EventAt
<1>5. QED
  BY <1>3, <1>4 DEF EventAt, g

(* A file holds at most one header.                                        *)
LEMMA HeaderUnique ==
  ASSUME NEW f \in Seq(Cell), NEW s \in Seconds, NEW t \in Seconds,
         HeaderIs(f, s), HeaderIs(f, t)
  PROVE  s = t
<1>1. HeaderSize[s] \in Nat \ {0} /\ HeaderSize[t] \in Nat \ {0}
  BY CastFileAssumption
<1>2. f[1] = HeaderCell(s, 1) /\ f[1] = HeaderCell(t, 1)
  BY <1>1 DEF HeaderIs
<1>3. QED
  BY <1>2 DEF HeaderCell

-----------------------------------------------------------------------------
(***************************************************************************)
(* Types, labels and files.                                                *)
(***************************************************************************)

(* A handler at a file call works on a write, whose session has a file.    *)
LEMMA CurrentHash ==
  ASSUME TypeOK, NEW c \in Conns, pc[c] \in FileCalls
  PROVE  cur[c] \in Writes /\ HashOf[cur[c]] \in Hashes /\ SecondsOf[cur[c]] \in Seconds
BY CastFileAssumption DEF TypeOK

(* The label lines of a write, and what a failing write leaves of them.    *)
LEMMA LabelsType ==
  ASSUME NEW w \in Writes
  PROVE  Labels(w) \in Seq(LabelCell)
<1>1. NodeOf[w] \in Nodes
  BY CastFileAssumption
<1>2. LabelLines \in Nat
  BY DEF LabelLines
<1>3. Labels(w) \in [1..LabelLines -> LabelCell]
  BY <1>1, <1>2 DEF Labels, LabelCell
<1>4. QED
  BY <1>2, <1>3

-----------------------------------------------------------------------------
(***************************************************************************)
(* Types and shape.                                                        *)
(***************************************************************************)

TypeAndShape == TypeOK /\ Shape

LEMMA TypeInit == Init => TypeAndShape
<1> SUFFICES ASSUME Init PROVE TypeAndShape
  OBVIOUS
<1>1. DataPathTypeOK
  BY DEF Init, DataPathInit, DataPathTypeOK, ExitReasons
<1>2. NoFiles \in [Hashes -> Handle] /\ NoTimestamps \in [Hashes -> Seconds \union {NoTimestamp}]
  BY DEF NoFiles, NoTimestamps, Handle, Closed, NoTimestamp
<1>3. TypeOK
  BY <1>1, <1>2 DEF Init, TypeOK, Running, FileCalls
<1>4. Shape
  BY DEF Init, DataPathInit, Shape, NoFiles, Closed
<1>5. QED
  BY <1>3, <1>4 DEF TypeAndShape

(* The clients and the network touch neither handlers nor files, but for a *)
(* handler that starts.                                                    *)
LEMMA TypeEnvironment ==
  ASSUME TypeAndShape, NEW c \in Conns, Environment(c)
  PROVE  TypeAndShape'
<1> USE UploadAssumption DEF TypeAndShape
<1>1. CASE Accept(c)
  <2>1. TypeOK'
    BY <1>1 DEF Accept, TypeOK, DataPathTypeOK, Running, FileCalls, dirVars, procVars
  <2>2. Shape'
    BY <1>1 DEF Accept, TypeOK, Shape, dirVars
  <2>3. QED
    BY <2>1, <2>2
<1>2. ASSUME NEW w \in Writes, Deliver(c, w)
      PROVE  TypeAndShape'
  <2>1. TypeOK'
    <3>1. inbox' \in [Conns -> Seq(Writes)]
      BY <1>2 DEF Deliver, TypeOK
    <3>2. QED
      BY <1>2, <3>1 DEF Deliver, TypeOK, DataPathTypeOK, handlerVars, histVars, dirVars,
         procVars
  <2>2. Shape'
    BY <1>2 DEF Deliver, Shape, handlerVars, dirVars
  <2>3. QED
    BY <2>1, <2>2
<1>3. CASE Close(c) \/ Break(c)
  <2>1. TypeOK'
    BY <1>3 DEF Close, Break, TypeOK, DataPathTypeOK, handlerVars, histVars, dirVars,
       procVars
  <2>2. Shape'
    BY <1>3 DEF Close, Break, TypeOK, Shape, handlerVars, dirVars
  <2>3. QED
    BY <2>1, <2>2
<1>4. QED
  BY <1>1, <1>2, <1>3 DEF Environment

(* A handler that returns, and a process that exits, leave nothing open.   *)
LEMMA TypeReturn ==
  ASSUME TypeAndShape, NEW c \in Conns, Return(c), DataPathTypeOK',
         UNCHANGED <<sent, histVars, castFiles, castData>>
  PROVE  TypeAndShape'
<1>1. NoFiles \in [Hashes -> Handle] /\ NoTimestamps \in [Hashes -> Seconds \union {NoTimestamp}]
  BY DEF NoFiles, NoTimestamps, Handle, Closed, NoTimestamp
<1>2. TypeOK'
  <2>1. inbox' \in [Conns -> Seq(Writes)] /\ timestamps' \in [Conns -> [Hashes -> Seconds \union {NoTimestamp}]]
    BY <1>1 DEF TypeAndShape, TypeOK, Return
  <2>2. QED
    BY <1>1, <2>1 DEF TypeAndShape, TypeOK, Return, histVars, Running, FileCalls
<1>3. \A h \in Hashes : NoFiles[h].mode = "closed" /\ NoFiles[h].off = 0 /\ Len(castData[h]) >= 0
  BY DEF NoFiles, Closed, TypeAndShape, TypeOK, DataPathTypeOK
<1>4. Shape'
  BY <1>3 DEF TypeAndShape, TypeOK, Shape, Return
<1>5. QED
  BY <1>2, <1>4 DEF TypeAndShape

LEMMA TypeFatal ==
  ASSUME TypeAndShape, NEW why, Fatal(why), DataPathTypeOK', castFiles' = castFiles,
         \A h \in Hashes \ castFiles : castData'[h] = castData[h]
  PROVE  TypeAndShape'
<1>1. NoFiles \in [Hashes -> Handle] /\ NoTimestamps \in [Hashes -> Seconds \union {NoTimestamp}]
  BY DEF NoFiles, NoTimestamps, Handle, Closed, NoTimestamp
<1>2. TypeOK'
  <2>1. inbox' \in [Conns -> Seq(Writes)] /\ timestamps' \in [Conns -> [Hashes -> Seconds \union {NoTimestamp}]]
    BY <1>1 DEF Fatal, DropAll
  <2>2. QED
    BY <1>1, <2>1 DEF TypeAndShape, TypeOK, Fatal, DropAll, histVars, Running, FileCalls
<1>3. \A h \in Hashes : NoFiles[h].mode = "closed" /\ NoFiles[h].off = 0 /\ Len(castData'[h]) >= 0
  BY DEF NoFiles, Closed, DataPathTypeOK
<1>4. Shape'
  BY <1>3 DEF TypeAndShape, Shape, Fatal, DropAll
<1>5. QED
  BY <1>2, <1>4 DEF TypeAndShape

(* The steps of a handler that leave the cast files alone.                 *)
LEMMA TypeQuietStep ==
  ASSUME TypeAndShape, NEW c \in Conns,
         \/ Read(c) \/ StatLabels(c) \/ CreateLabels(c) \/ WriteLabels(c)
         \/ StatCast(c) \/ ReadHeader(c)
  PROVE  TypeAndShape'
<1> USE DEF TypeAndShape
<1>1. CASE Read(c)
  <2>1. Head(inbox[c]) \in Writes /\ Tail(inbox[c]) \in Seq(Writes)
    BY <1>1 DEF Read, TypeOK
  <2>2. TypeOK'
    BY <1>1, <2>1 DEF Read, Goto, TypeOK, DataPathTypeOK, histVars, dirVars, procVars,
       Running, FileCalls
  <2>3. Shape'
    BY <1>1 DEF Read, Goto, TypeOK, Shape, dirVars
  <2>4. QED
    BY <2>2, <2>3
<1> DEFINE h == HashOf[cur[c]]
<1>2. ASSUME pc[c] \in FileCalls
      PROVE  /\ h \in Hashes
             /\ LabelsNext(c, h) \in {"statCast", "readHeader", "append"}
             /\ LabelsNext(c, h) # "statCast" => files[c][h].mode # "closed"
             /\ LabelsNext(c, h) = "append" => timestamps[c][h] \in Seconds
  <2>1. h \in Hashes
    BY <1>2, CurrentHash
  <2>2. timestamps[c][h] \in Seconds \union {NoTimestamp}
    BY <2>1 DEF TypeOK
  <2>3. QED
    BY <2>1, <2>2 DEF LabelsNext, OpenNext
<1>3. CASE StatLabels(c)
  <2>1. TypeOK'
    BY <1>2, <1>3 DEF StatLabels, Goto, TypeOK, DataPathTypeOK, connVars, histVars,
       dirVars, procVars, Running, FileCalls
  <2>2. Shape'
    BY <1>2, <1>3 DEF StatLabels, Goto, TypeOK, Shape, connVars, dirVars, FileCalls
  <2>3. QED
    BY <2>1, <2>2
<1>4. CASE CreateLabels(c)
  <2>1. TypeOK'
    BY <1>2, <1>4 DEF CreateLabels, Goto, TypeOK, DataPathTypeOK, connVars, histVars,
       procVars, Running, FileCalls
  <2>2. Shape'
    BY <1>2, <1>4 DEF CreateLabels, Goto, TypeOK, Shape, connVars, FileCalls
  <2>3. QED
    BY <2>1, <2>2
<1>5. CASE WriteLabels(c)
  <2>1. h \in Hashes /\ cur[c] \in Writes
    BY <1>5, CurrentHash DEF WriteLabels, FileCalls
  <2>2. WriteAt(labelData[h], 0, Labels(cur[c])) \in Seq(LabelCell)
    BY <2>1, LabelsType, WriteAtType DEF TypeOK, DataPathTypeOK
  <2>3. labelData' \in [Hashes -> Seq(LabelCell)]
    BY <1>5, <2>1, <2>2 DEF WriteLabels, TypeOK, DataPathTypeOK
  <2>4. TypeOK'
    BY <1>2, <1>5, <2>1, <2>3 DEF WriteLabels, Goto, TypeOK, DataPathTypeOK, connVars,
       histVars, procVars, Running, FileCalls
  <2>5. Shape'
    BY <1>2, <1>5 DEF WriteLabels, Goto, TypeOK, Shape, connVars, FileCalls
  <2>6. QED
    BY <2>4, <2>5
<1>6. CASE StatCast(c)
  <2>1. TypeOK'
    BY <1>2, <1>6 DEF StatCast, Goto, TypeOK, DataPathTypeOK, connVars, dirVars,
       procVars, Running, FileCalls
  <2>2. Shape'
    BY <1>2, <1>6 DEF StatCast, Goto, TypeOK, Shape, connVars, dirVars, FileCalls
  <2>3. QED
    BY <2>1, <2>2
<1>7. CASE ReadHeader(c)
  <2>1. TypeOK'
    <3>1. h \in Hashes
      BY <1>2, <1>7 DEF ReadHeader, FileCalls
    <3>2. PICK s \in Seconds : timestamps' = [timestamps EXCEPT ![c][h] = s]
      BY <1>7 DEF ReadHeader
    <3>3. /\ timestamps' \in [Conns -> [Hashes -> Seconds \union {NoTimestamp}]]
          /\ timestamps'[c][h] \in Seconds
          /\ \A d \in Conns \ {c} : timestamps'[d] = timestamps[d]
      BY <3>1, <3>2 DEF TypeOK
    <3>4. QED
      BY <1>7, <3>1, <3>3 DEF ReadHeader, Goto, TypeOK, DataPathTypeOK, connVars,
         histVars, dirVars, procVars, Running, FileCalls
  <2>2. Shape'
    BY <1>2, <1>7 DEF ReadHeader, Goto, TypeOK, Shape, connVars, dirVars, FileCalls
  <2>3. QED
    BY <2>1, <2>2
<1>8. QED
  BY <1>1, <1>3, <1>4, <1>5, <1>6, <1>7

(* A write to a cast file inside or at the end of it keeps every handle    *)
(* inside its file.                                                        *)
LEMMA CastWriteType ==
  ASSUME TypeAndShape, NEW h \in Hashes, NEW off \in Nat, off <= Len(castData[h]),
         NEW data \in Seq(Cell),
         castData' = [castData EXCEPT ![h] = WriteAt(@, off, data)]
  PROVE  /\ castData' \in [Hashes -> Seq(Cell)]
         /\ \A g \in Hashes : Len(castData[g]) <= Len(castData'[g])
         /\ \A g \in Hashes \ {h} : castData'[g] = castData[g]
         /\ castData'[h] = WriteAt(castData[h], off, data)
         /\ off + Len(data) <= Len(castData'[h])
<1>1. castData \in [Hashes -> Seq(Cell)]
  BY DEF TypeAndShape, TypeOK, DataPathTypeOK
<1>2. WriteAt(castData[h], off, data) \in Seq(Cell)
  BY <1>1, WriteAtType
<1>3. /\ Len(castData[h]) <= Len(WriteAt(castData[h], off, data))
      /\ off + Len(data) <= Len(WriteAt(castData[h], off, data))
  BY <1>1, WriteAtType
<1>4. QED
  BY <1>1, <1>2, <1>3

(* Where the next event of a handler lands is inside the file.             *)
LEMMA PositionType ==
  ASSUME TypeAndShape, NEW c \in Conns, NEW h \in Hashes
  PROVE  Position(c, h) \in Nat /\ Position(c, h) <= Len(castData[h])
BY DEF TypeAndShape, TypeOK, DataPathTypeOK, Shape, Position, Handle

(* The steps of a handler that open, create or extend a cast file.         *)
LEMMA TypeCastStep ==
  ASSUME TypeAndShape, NEW c \in Conns,
         CreateCast(c) \/ WriteHeader(c) \/ OpenAppend(c) \/ AppendEvent(c)
  PROVE  TypeAndShape'
<1> DEFINE h == HashOf[cur[c]]
<1>1. h \in Hashes /\ cur[c] \in Writes /\ SecondsOf[cur[c]] \in Seconds
  BY CurrentHash DEF TypeAndShape, CreateCast, WriteHeader, OpenAppend, AppendEvent,
     FileCalls
<1> HIDE DEF h
<1>2. CASE CreateCast(c)
  <2>1. /\ files' \in [Conns -> [Hashes -> Handle]]
        /\ files'[c][h] = [mode |-> "rdwr", off |-> 0]
        /\ \A d \in Conns, g \in Hashes : d # c \/ g # h => files'[d][g] = files[d][g]
    BY <1>1, <1>2 DEF CreateCast, TypeAndShape, TypeOK, Handle, h
  <2>2. TypeOK'
    BY <1>1, <1>2, <2>1 DEF CreateCast, Goto, TypeAndShape, TypeOK, DataPathTypeOK,
       connVars, histVars, procVars, Running, FileCalls, h
  <2>3. Shape'
    BY <1>1, <1>2, <2>1 DEF CreateCast, Goto, TypeAndShape, TypeOK, DataPathTypeOK,
       Shape, connVars, FileCalls, h
  <2>4. QED
    BY <2>2, <2>3 DEF TypeAndShape
<1>3. CASE OpenAppend(c)
  <2>1. /\ files' \in [Conns -> [Hashes -> Handle]]
        /\ files'[c][h] = [mode |-> "append", off |-> 0]
        /\ \A d \in Conns, g \in Hashes : d # c \/ g # h => files'[d][g] = files[d][g]
    BY <1>1, <1>3 DEF OpenAppend, TypeAndShape, TypeOK, Handle, h
  <2>2. timestamps[c][h] \in Seconds \union {NoTimestamp}
    BY <1>1 DEF TypeAndShape, TypeOK
  <2>3. TypeOK'
    BY <1>1, <1>3, <2>1, <2>2 DEF OpenAppend, OpenNext, Goto, TypeAndShape, TypeOK,
       DataPathTypeOK, connVars, histVars, dirVars, procVars, Running, FileCalls, h
  <2>4. Shape'
    BY <1>1, <1>3, <2>1 DEF OpenAppend, OpenNext, Goto, TypeAndShape, TypeOK,
       DataPathTypeOK, Shape, connVars, dirVars, FileCalls, h
  <2>5. QED
    BY <2>3, <2>4 DEF TypeAndShape
<1>4. CASE WriteHeader(c)
  <2> DEFINE s == SecondsOf[cur[c]]
             off == files[c][h].off
  <2>1. off \in Nat /\ off <= Len(castData[h]) /\ files[c][h].mode = "rdwr" /\ h \in castFiles
    BY <1>1, <1>4 DEF WriteHeader, TypeAndShape, TypeOK, Shape, Handle, h
  <2>2. castData' = [castData EXCEPT ![h] = WriteAt(@, off, Header(s))]
    BY <1>4 DEF WriteHeader, h
  <2>3. Header(s) \in Seq(Cell) /\ Len(Header(s)) \in Nat
    BY <1>1, HeaderType
  <2> HIDE DEF s, off
  <2>4. /\ castData' \in [Hashes -> Seq(Cell)]
        /\ \A g \in Hashes : Len(castData[g]) <= Len(castData'[g])
        /\ \A g \in Hashes \ {h} : castData'[g] = castData[g]
        /\ off + Len(Header(s)) <= Len(castData'[h])
    BY <1>1, <2>1, <2>2, <2>3, CastWriteType
  <2>5. /\ files' \in [Conns -> [Hashes -> Handle]]
        /\ files'[c][h].off = off + Len(Header(s))
        /\ files'[c][h].mode = files[c][h].mode
        /\ \A d \in Conns, g \in Hashes : d # c \/ g # h => files'[d][g] = files[d][g]
    <3>1. files' = [files EXCEPT ![c][h] = MovedTo(files[c][h], off + Len(Header(s)))]
      BY <1>4 DEF WriteHeader, h, s, off
    <3>2. files \in [Conns -> [Hashes -> Handle]]
      BY DEF TypeAndShape, TypeOK
    <3>3. MovedTo(files[c][h], off + Len(Header(s))) \in Handle
      BY <1>1, <2>1, <2>3, <3>2 DEF Handle, MovedTo
    <3>4. files' \in [Conns -> [Hashes -> Handle]] /\ files'[c][h] = MovedTo(files[c][h], off + Len(Header(s)))
      BY <1>1, <3>1, <3>2, <3>3
    <3>5. QED
      BY <1>1, <3>1, <3>2, <3>4 DEF MovedTo
  <2>6. /\ timestamps' \in [Conns -> [Hashes -> Seconds \union {NoTimestamp}]]
        /\ timestamps'[c][h] \in Seconds
        /\ \A d \in Conns \ {c} : timestamps'[d] = timestamps[d]
    BY <1>1, <1>4 DEF WriteHeader, TypeAndShape, TypeOK, h
  <2>7. TypeOK'
    <3>1. DataPathTypeOK'
      BY <1>4, <2>4 DEF WriteHeader, TypeAndShape, TypeOK, DataPathTypeOK, procVars
    <3>2. pc' \in [Conns -> Running \union {"none"}] /\ \A d \in Conns : pc'[d] = IF d = c THEN "append" ELSE pc[d]
      BY <1>4 DEF WriteHeader, Goto, TypeAndShape, TypeOK, Running, FileCalls
    <3>3. \A d \in Conns : /\ pc'[d] \in FileCalls => cur'[d] \in Writes
                           /\ pc'[d] = "append" => timestamps'[d][HashOf[cur'[d]]] \in Seconds
      BY <1>1, <1>4, <2>6, <3>2 DEF WriteHeader, TypeAndShape, TypeOK, h
    <3>4. QED
      BY <1>4, <2>5, <2>6, <3>1, <3>2, <3>3 DEF WriteHeader, TypeAndShape, TypeOK,
         connVars, histVars
  <2>8. Shape'
    <3>1. ASSUME NEW d \in Conns, NEW g \in Hashes
          PROVE  /\ files'[d][g].mode # "closed" => g \in castFiles'
                 /\ files'[d][g].off <= Len(castData'[g])
                 /\ files'[d][g].mode = files[d][g].mode
      <4>1. CASE d = c /\ g = h
        BY <1>4, <2>1, <2>4, <2>5, <4>1 DEF WriteHeader
      <4>2. CASE d # c \/ g # h
        <5>1. files'[d][g] = files[d][g] /\ Len(castData[g]) <= Len(castData'[g]) /\ castFiles' = castFiles
          BY <1>4, <2>4, <2>5, <4>2 DEF WriteHeader
        <5>2. files[d][g].off \in Nat /\ Len(castData[g]) \in Nat /\ Len(castData'[g]) \in Nat
          BY <2>4 DEF TypeAndShape, TypeOK, DataPathTypeOK, Handle
        <5>3. QED
          BY <5>1, <5>2 DEF TypeAndShape, Shape
      <4>3. QED
        BY <4>1, <4>2
    <3>2. \A g \in Hashes \ castFiles' : castData'[g] = <<>>
      BY <1>4, <2>1, <2>4 DEF WriteHeader, TypeAndShape, Shape
    <3>3. \A d \in Conns : pc'[d] = "none" => files'[d] = NoFiles /\ timestamps'[d] = NoTimestamps
      BY <1>4, <2>6 DEF WriteHeader, Goto, TypeAndShape, TypeOK, Shape
    <3>4. \A d \in Conns : pc'[d] \in FileCalls => HashOf[cur'[d]] \in Hashes
      BY <2>7, CastFileAssumption DEF TypeOK
    <3>5. \A d \in Conns : pc'[d] = IF d = c THEN "append" ELSE pc[d]
      BY <1>4 DEF WriteHeader, Goto, TypeAndShape, TypeOK
    <3>6. ASSUME NEW d \in Conns
          PROVE  /\ conn'[d] = "idle" => pc'[d] = "none"
                 /\ pc'[d] = "writeHeader" => files'[d][HashOf[cur'[d]]].mode = "rdwr"
                 /\ pc'[d] \in {"readHeader", "append"} => files'[d][HashOf[cur'[d]]].mode # "closed"
                 /\ pc'[d] = "openAppend" => HashOf[cur'[d]] \in castFiles'
      <4>1. conn' = conn /\ cur' = cur /\ castFiles' = castFiles
        BY <1>4 DEF WriteHeader, connVars
      <4>2. CASE d = c
        BY <1>1, <1>4, <2>1, <3>1, <3>5, <4>1, <4>2 DEF WriteHeader, TypeAndShape, Shape, h
      <4>3. CASE d # c
        <5>1. pc'[d] = pc[d]
          BY <3>5, <4>3
        <5>2. pc[d] \in {"writeHeader", "readHeader", "append"} =>
                files'[d][HashOf[cur[d]]].mode = files[d][HashOf[cur[d]]].mode
          BY <3>1, <3>4, <4>1, <5>1 DEF FileCalls
        <5>3. QED
          BY <4>1, <5>1, <5>2 DEF TypeAndShape, Shape
      <4>4. QED
        BY <4>2, <4>3
    <3>7. QED
      BY <3>1, <3>2, <3>3, <3>6 DEF Shape
  <2>9. QED
    BY <2>7, <2>8 DEF TypeAndShape
<1>5. CASE AppendEvent(c)
  <2> DEFINE s == timestamps[c][h]
             off == Position(c, h)
             e == [write |-> cur[c], base |-> s, off |-> off]
  <2>1. off \in Nat /\ off <= Len(castData[h]) /\ files[c][h].mode # "closed" /\ h \in castFiles
    BY <1>1, <1>5, PositionType DEF AppendEvent, TypeAndShape, Shape, h
  <2>2. castData' = [castData EXCEPT ![h] = WriteAt(@, off, Event(cur[c], s))]
    BY <1>5 DEF AppendEvent, h
  <2>3. s \in Seconds
    BY <1>5 DEF AppendEvent, TypeAndShape, TypeOK, h
  <2>4. Event(cur[c], s) \in Seq(Cell) /\ Len(Event(cur[c], s)) = EntrySize[cur[c]] /\ EntrySize[cur[c]] \in Nat
    BY <1>1, <2>3, EventType
  <2>5. files' = [files EXCEPT ![c][h] = MovedTo(files[c][h], off + EntrySize[cur[c]])] /\ acked' = [acked EXCEPT ![h] = Append(@, e)]
    BY <1>5 DEF AppendEvent, h
  <2> HIDE DEF s, off
  <2>6. /\ castData' \in [Hashes -> Seq(Cell)]
        /\ \A g \in Hashes : Len(castData[g]) <= Len(castData'[g])
        /\ \A g \in Hashes \ {h} : castData'[g] = castData[g]
        /\ off + EntrySize[cur[c]] <= Len(castData'[h])
    BY <1>1, <2>1, <2>2, <2>4, CastWriteType
  <2>7. /\ files' \in [Conns -> [Hashes -> Handle]]
        /\ files'[c][h].off = off + EntrySize[cur[c]]
        /\ files'[c][h].mode = files[c][h].mode
        /\ \A d \in Conns, g \in Hashes : d # c \/ g # h => files'[d][g] = files[d][g]
    <3>1. files \in [Conns -> [Hashes -> Handle]]
      BY DEF TypeAndShape, TypeOK
    <3>2. MovedTo(files[c][h], off + EntrySize[cur[c]]) \in Handle
      BY <1>1, <2>1, <2>4, <3>1 DEF Handle, MovedTo
    <3>3. files' \in [Conns -> [Hashes -> Handle]] /\ files'[c][h] = MovedTo(files[c][h], off + EntrySize[cur[c]])
      BY <1>1, <2>5, <3>1, <3>2
    <3>4. QED
      BY <1>1, <2>5, <3>1, <3>3 DEF MovedTo
  <2>8. acked' \in [Hashes -> Seq([write : Writes, base : Seconds, off : Nat])]
    <3> DEFINE R == [write : Writes, base : Seconds, off : Nat]
    <3>1. e \in R
      BY <1>1, <2>1, <2>3
    <3>2. acked \in [Hashes -> Seq(R)]
      BY DEF TypeAndShape, TypeOK
    <3> HIDE DEF e, R
    <3>3. Append(acked[h], e) \in Seq(R)
      BY <1>1, <3>1, <3>2
    <3>4. acked' \in [Hashes -> Seq(R)]
      BY <1>1, <2>5, <3>2, <3>3
    <3>5. QED
      BY <3>4 DEF R
  <2>9. TypeOK'
    BY <1>1, <1>5, <2>6, <2>7, <2>8 DEF AppendEvent, Goto, TypeAndShape, TypeOK,
       DataPathTypeOK, connVars, procVars, Running, FileCalls
  <2>10. Shape'
    <3>1. ASSUME NEW d \in Conns, NEW g \in Hashes
          PROVE  /\ files'[d][g].mode # "closed" => g \in castFiles'
                 /\ files'[d][g].off <= Len(castData'[g])
                 /\ files'[d][g].mode = files[d][g].mode
      <4>1. CASE d = c /\ g = h
        BY <1>5, <2>1, <2>6, <2>7, <4>1 DEF AppendEvent
      <4>2. CASE d # c \/ g # h
        <5>1. files'[d][g] = files[d][g] /\ Len(castData[g]) <= Len(castData'[g]) /\ castFiles' = castFiles
          BY <1>5, <2>6, <2>7, <4>2 DEF AppendEvent
        <5>2. files[d][g].off \in Nat /\ Len(castData[g]) \in Nat /\ Len(castData'[g]) \in Nat
          BY <2>6 DEF TypeAndShape, TypeOK, DataPathTypeOK, Handle
        <5>3. QED
          BY <5>1, <5>2 DEF TypeAndShape, Shape
      <4>3. QED
        BY <4>1, <4>2
    <3>2. \A g \in Hashes \ castFiles' : castData'[g] = <<>>
      BY <1>5, <2>1, <2>6 DEF AppendEvent, TypeAndShape, Shape
    <3>3. \A d \in Conns : pc'[d] = IF d = c THEN "read" ELSE pc[d]
      BY <1>5 DEF AppendEvent, Goto, TypeAndShape, TypeOK
    <3>4. \A d \in Conns : pc'[d] = "none" => files'[d] = NoFiles /\ timestamps'[d] = NoTimestamps
      BY <1>5, <2>5, <3>3 DEF AppendEvent, TypeAndShape, TypeOK, Shape
    <3>5. \A d \in Conns : pc'[d] \in FileCalls => HashOf[cur'[d]] \in Hashes
      BY <2>9, CastFileAssumption DEF TypeOK
    <3>6. ASSUME NEW d \in Conns
          PROVE  /\ conn'[d] = "idle" => pc'[d] = "none"
                 /\ pc'[d] = "writeHeader" => files'[d][HashOf[cur'[d]]].mode = "rdwr"
                 /\ pc'[d] \in {"readHeader", "append"} => files'[d][HashOf[cur'[d]]].mode # "closed"
                 /\ pc'[d] = "openAppend" => HashOf[cur'[d]] \in castFiles'
      <4>1. conn' = conn /\ cur' = cur /\ castFiles' = castFiles
        BY <1>5 DEF AppendEvent, connVars
      <4>2. CASE d = c
        BY <1>5, <3>3, <4>1, <4>2 DEF AppendEvent, TypeAndShape, Shape
      <4>3. CASE d # c
        <5>1. pc'[d] = pc[d]
          BY <3>3, <4>3
        <5>2. pc[d] \in {"writeHeader", "readHeader", "append"} =>
                files'[d][HashOf[cur[d]]].mode = files[d][HashOf[cur[d]]].mode
          BY <3>1, <3>5, <4>1, <5>1 DEF FileCalls
        <5>3. QED
          BY <4>1, <5>1, <5>2 DEF TypeAndShape, Shape
      <4>4. QED
        BY <4>2, <4>3
    <3>7. QED
      BY <3>1, <3>2, <3>4, <3>6 DEF Shape
  <2>11. QED
    BY <2>9, <2>10 DEF TypeAndShape
<1>6. QED
  BY <1>2, <1>3, <1>4, <1>5

(* The steps with which a handler returns.                                 *)
LEMMA TypeReturnStep ==
  ASSUME TypeAndShape, NEW c \in Conns, ReadEOF(c) \/ WriteLabelsFails(c)
  PROVE  TypeAndShape'
<1>1. CASE ReadEOF(c)
  <2>1. DataPathTypeOK'
    BY <1>1 DEF ReadEOF, TypeAndShape, TypeOK, DataPathTypeOK, dirVars, procVars
  <2>2. QED
    BY <1>1, <2>1, TypeReturn DEF ReadEOF, dirVars
<1>2. CASE WriteLabelsFails(c)
  <2> DEFINE h == HashOf[cur[c]]
  <2>1. h \in Hashes /\ cur[c] \in Writes
    BY <1>2, CurrentHash DEF WriteLabelsFails, FileCalls, TypeAndShape
  <2>2. PICK part \in ShortWrites(Labels(cur[c])) :
          labelData' = [labelData EXCEPT ![h] = WriteAt(@, 0, part)]
    BY <1>2 DEF WriteLabelsFails
  <2>3. part \in Seq(LabelCell)
    BY <2>1, LabelsType, ShortWriteType
  <2>4. labelData \in [Hashes -> Seq(LabelCell)]
    BY DEF TypeAndShape, TypeOK, DataPathTypeOK
  <2>5. WriteAt(labelData[h], 0, part) \in Seq(LabelCell)
    <3>1. labelData[h] \in Seq(LabelCell) /\ 0 <= Len(labelData[h])
      BY <2>1, <2>4
    <3>2. QED
      BY <2>3, <3>1, WriteAtType
  <2>6. labelData' \in [Hashes -> Seq(LabelCell)]
    BY <2>1, <2>2, <2>4, <2>5
  <2>7. DataPathTypeOK'
    BY <1>2, <2>6 DEF WriteLabelsFails, Fault, TypeAndShape, TypeOK, DataPathTypeOK
  <2>8. QED
    BY <1>2, <2>7, TypeReturn DEF WriteLabelsFails
<1>3. QED
  BY <1>1, <1>2

(* The steps with which the process exits.  A short write to a cast file   *)
(* goes to a file that exists.                                             *)
LEMMA TypeExitStep ==
  ASSUME TypeAndShape,
         \/ Kill
         \/ \E c \in Conns : \/ ReadError(c) \/ WriteHeaderFails(c) \/ BadHeader(c)
                            \/ AppendFails(c) \/ OpenFails(c)
  PROVE  TypeAndShape'
<1>1. ASSUME Kill \/ \E c \in Conns : ReadError(c) \/ BadHeader(c) \/ OpenFails(c)
      PROVE  TypeAndShape'
  <2>1. PICK why \in ExitReasons : Fatal(why)
    BY <1>1 DEF Kill, ReadError, BadHeader, OpenFails, ExitReasons
  <2>2. UNCHANGED dirVars /\ faults' \in Nat
    BY <1>1 DEF Kill, ReadError, BadHeader, OpenFails, Fault, TypeAndShape, TypeOK,
       DataPathTypeOK
  <2>3. DataPathTypeOK'
    BY <2>1, <2>2 DEF Fatal, Exit, TypeAndShape, TypeOK, DataPathTypeOK, dirVars
  <2>4. QED
    BY <2>1, <2>2, <2>3, TypeFatal DEF dirVars
<1>2. ASSUME NEW c \in Conns, WriteHeaderFails(c) \/ AppendFails(c)
      PROVE  TypeAndShape'
  <2> DEFINE h == HashOf[cur[c]]
  <2>1. h \in Hashes /\ cur[c] \in Writes /\ SecondsOf[cur[c]] \in Seconds
    BY <1>2, CurrentHash DEF WriteHeaderFails, AppendFails, FileCalls, TypeAndShape
  <2>2. files[c][h].mode # "closed" /\ h \in castFiles
    BY <1>2, <2>1 DEF WriteHeaderFails, AppendFails, TypeAndShape, Shape
  <2>3. PICK off \in Nat, part \in Seq(Cell) :
          /\ off <= Len(castData[h])
          /\ castData' = [castData EXCEPT ![h] = WriteAt(@, off, part)]
    <3>1. CASE WriteHeaderFails(c)
      <4>1. PICK part \in ShortWrites(Header(SecondsOf[cur[c]])) :
              castData' = [castData EXCEPT ![h] = WriteAt(@, files[c][h].off, part)]
        BY <3>1 DEF WriteHeaderFails
      <4>2. part \in Seq(Cell)
        BY <2>1, HeaderType, ShortWriteType
      <4>3. files[c][h].off \in Nat /\ files[c][h].off <= Len(castData[h])
        BY <2>1 DEF TypeAndShape, TypeOK, Shape, Handle
      <4>4. QED
        BY <4>1, <4>2, <4>3
    <3>2. CASE AppendFails(c)
      <4>1. PICK part \in ShortWrites(Event(cur[c], timestamps[c][h])) :
              castData' = [castData EXCEPT ![h] = WriteAt(@, Position(c, h), part)]
        BY <3>2 DEF AppendFails
      <4>2. timestamps[c][h] \in Seconds
        BY <3>2 DEF AppendFails, TypeAndShape, TypeOK
      <4>3. part \in Seq(Cell)
        BY <2>1, <4>2, EventType, ShortWriteType
      <4>4. Position(c, h) \in Nat /\ Position(c, h) <= Len(castData[h])
        BY <2>1, PositionType
      <4>5. QED
        BY <4>1, <4>3, <4>4
    <3>3. QED
      BY <1>2, <3>1, <3>2
  <2>4. /\ castData' \in [Hashes -> Seq(Cell)]
        /\ \A g \in Hashes \ {h} : castData'[g] = castData[g]
    BY <2>1, <2>3, CastWriteType
  <2>5. Fatal("ioError") /\ castFiles' = castFiles
    BY <1>2 DEF WriteHeaderFails, AppendFails
  <2>6. DataPathTypeOK'
    BY <1>2, <2>4, <2>5 DEF WriteHeaderFails, AppendFails, Fault, Fatal, Exit,
       ExitReasons, TypeAndShape, TypeOK, DataPathTypeOK
  <2>7. QED
    BY <2>2, <2>4, <2>5, <2>6, TypeFatal
<1>3. QED
  BY <1>1, <1>2

LEMMA TypeNext == TypeAndShape /\ [Next]_vars => TypeAndShape'
<1> SUFFICES ASSUME TypeAndShape, [Next]_vars PROVE TypeAndShape'
  OBVIOUS
<1>1. ASSUME NEW c \in Conns, Step(c) PROVE TypeAndShape'
  BY <1>1, TypeQuietStep, TypeCastStep, TypeReturnStep, TypeExitStep DEF Step
<1>2. ASSUME NEW c \in Conns, Environment(c) PROVE TypeAndShape'
  BY <1>2, TypeEnvironment
<1>3. CASE Kill
  BY <1>3, TypeExitStep
<1>4. CASE Reboot
  BY <1>4 DEF Reboot, Restart, TypeAndShape, TypeOK, DataPathTypeOK, Shape, uploadVars,
     connVars, handlerVars, histVars, dirVars
<1>5. CASE UNCHANGED vars
  BY <1>5 DEF TypeAndShape, TypeOK, DataPathTypeOK, Shape, vars, uploadVars, connVars,
     handlerVars, histVars, dirVars, procVars
<1>6. QED
  BY <1>1, <1>2, <1>3, <1>4, <1>5 DEF Next

(* Every variable keeps its type, and a handler that is about to append    *)
(* knows a header timestamp: uploadHandler never reaches asciinema.Append  *)
(* with a hash that is missing from its map timestamps.                    *)
THEOREM TypeCorrect == Spec => []TypeOK
<1>1. Spec => []TypeAndShape
  BY TypeInit, TypeNext, PTL DEF Spec
<1>2. TypeAndShape => TypeOK
  BY DEF TypeAndShape
<1>3. QED
  BY <1>1, <1>2, PTL

-----------------------------------------------------------------------------
(***************************************************************************)
(* The labels file comes first.                                            *)
(***************************************************************************)

LEMMA LabelsNextInv ==
  ASSUME TypeOK, LabelsInv, [Next]_vars
  PROVE  LabelsInv'
<1> USE DEF LabelsInv, LabelsBeforeCast
<1>1. ASSUME NEW c \in Conns, Environment(c) PROVE LabelsInv'
  BY <1>1 DEF Environment, Accept, Deliver, Close, Break, TypeOK, handlerVars, dirVars
<1>2. ASSUME NEW c \in Conns, Step(c) PROVE LabelsInv'
  <2> DEFINE h == HashOf[cur[c]]
  <2>1. LabelsNext(c, h) \in {"statCast", "readHeader", "append"}
    BY DEF LabelsNext, OpenNext
  <2>2. CASE Read(c)
    BY <2>2 DEF Read, Goto, TypeOK, dirVars
  <2>3. CASE StatLabels(c)
    BY <2>1, <2>3 DEF StatLabels, Goto, TypeOK, dirVars
  <2>4. CASE CreateLabels(c)
    BY <2>4 DEF CreateLabels, Goto, TypeOK
  <2>5. CASE WriteLabels(c)
    BY <2>1, <2>5 DEF WriteLabels, Goto, TypeOK
  <2>6. CASE StatCast(c)
    BY <2>6 DEF StatCast, Goto, TypeOK, dirVars
  <2>7. CASE CreateCast(c)
    BY <2>7 DEF CreateCast, Goto, TypeOK
  <2>8. CASE WriteHeader(c) \/ AppendEvent(c)
    BY <2>8 DEF WriteHeader, AppendEvent, Goto, TypeOK
  <2>9. CASE OpenAppend(c) \/ ReadHeader(c)
    BY <2>9 DEF OpenAppend, OpenNext, ReadHeader, Goto, TypeOK, dirVars
  <2>10. CASE ReadEOF(c) \/ WriteLabelsFails(c)
    BY <2>10 DEF ReadEOF, WriteLabelsFails, Return, TypeOK, dirVars
  <2>11. CASE ReadError(c) \/ WriteHeaderFails(c) \/ BadHeader(c) \/ AppendFails(c) \/ OpenFails(c)
    BY <2>11 DEF ReadError, WriteHeaderFails, BadHeader, AppendFails, OpenFails, Fatal,
       DropAll, dirVars
  <2>12. QED
    BY <1>2, <2>2, <2>3, <2>4, <2>5, <2>6, <2>7, <2>8, <2>9, <2>10, <2>11 DEF Step
<1>3. CASE Kill
  BY <1>3 DEF Kill, Fatal, DropAll, dirVars
<1>4. CASE Reboot \/ UNCHANGED vars
  BY <1>4 DEF Reboot, Restart, vars, uploadVars, handlerVars, dirVars
<1>5. QED
  BY <1>1, <1>2, <1>3, <1>4 DEF Next

(* However handlers interleave, fail or are killed, a cast file is never   *)
(* there without its labels file: listHandler, which exits the server on   *)
(* such a file, cannot meet one that uploadHandler made.                   *)
THEOREM LabelsComeFirst == Spec => []LabelsBeforeCast
<1>1. Init => LabelsInv
  BY DEF Init, DataPathInit, LabelsInv, LabelsBeforeCast
<1>2. TypeOK /\ LabelsInv /\ [Next]_vars => LabelsInv'
  BY LabelsNextInv
<1>3. Spec => []TypeOK
  BY TypeCorrect
<1>4. LabelsInv => LabelsBeforeCast
  BY DEF LabelsInv
<1>5. QED
  BY <1>1, <1>2, <1>3, <1>4, PTL DEF Spec

-----------------------------------------------------------------------------
(***************************************************************************)
(* The recordings no two handlers share.                                   *)
(***************************************************************************)

(* Steps that touch no handler, and steps of c that touch no cast file and *)
(* neither begin nor end the creation of one, keep every session.          *)
LEMMA SessionUntouched ==
  ASSUME NEW h \in Hashes, Session(h),
         UNCHANGED <<castFiles, castData, handlerVars, acked, exits>>
  PROVE  Session(h)'
BY DEF Session, Exclusive, Recorded, Readable, Holds, handlerVars

LEMMA SessionQuiet ==
  ASSUME NEW h \in Hashes, Session(h), NEW c \in Conns,
         UNCHANGED <<castFiles, castData, files, timestamps, acked, exits>>,
         \A d \in Conns \ {c} : pc'[d] = pc[d] /\ cur'[d] = cur[d],
         pc[c] # "writeHeader", pc'[c] \notin {"createCast", "openAppend", "writeHeader"}
  PROVE  Session(h)'
<1>1. \A d \in Conns : Holds(d, h)' => Holds(d, h)
  BY DEF Holds
<1>2. Exclusive(h)'
  BY <1>1 DEF Session, Exclusive
<1>3. Recorded(h)'
  BY DEF Session, Recorded
<1>4. Readable(h)'
  BY DEF Session, Readable
<1>5. QED
  BY <1>2, <1>3, <1>4 DEF Session

(* A handler that returns lets go of its files.                            *)
LEMMA SessionReturn ==
  ASSUME TypeAndShape, NEW h \in Hashes, Session(h), NEW c \in Conns,
         Return(c), pc[c] # "writeHeader",
         UNCHANGED <<castFiles, castData, acked, exits>>
  PROVE  Session(h)'
<1>1. /\ files'[c][h].mode = "closed" /\ timestamps'[c][h] = NoTimestamp /\ pc'[c] = "none"
      /\ \A d \in Conns \ {c} : /\ files'[d] = files[d] /\ timestamps'[d] = timestamps[d]
                               /\ pc'[d] = pc[d] /\ cur'[d] = cur[d]
  BY DEF Return, NoFiles, Closed, NoTimestamps, TypeAndShape, TypeOK
<1>2. \A d \in Conns : Holds(d, h)' => Holds(d, h)
  BY <1>1 DEF Holds
<1>3. Exclusive(h)'
  BY <1>1, <1>2 DEF Session, Exclusive
<1>4. Recorded(h)'
  BY DEF Session, Recorded
<1>5. Readable(h)'
  BY <1>1 DEF Session, Readable
<1>6. QED
  BY <1>3, <1>4, <1>5 DEF Session

(* An exit lets go of every file and keeps the recorded events if the last *)
(* write did.                                                              *)
LEMMA SessionExit ==
  ASSUME TypeAndShape, NEW h \in Hashes, NEW why, Fatal(why), Recorded(h)'
  PROVE  Session(h)'
<1>1. \A c \in Conns : /\ files'[c][h].mode = "closed" /\ timestamps'[c][h] = NoTimestamp
                       /\ pc'[c] = "none"
  BY DEF Fatal, DropAll, NoFiles, Closed, NoTimestamps
<1>2. Exclusive(h)'
  BY <1>1 DEF Exclusive, Holds
<1>3. exits' # 0
  BY DEF Fatal, Exit, TypeAndShape, TypeOK, DataPathTypeOK
<1>4. Readable(h)'
  BY <1>3 DEF Readable
<1>5. QED
  BY <1>2, <1>4 DEF Session

(* What asciinema.Append returned nil for is a write, the timestamp it was *)
(* made relative to and where it landed.                                   *)
LEMMA AckedType ==
  ASSUME TypeAndShape, NEW h \in Hashes, NEW i \in DOMAIN acked[h]
  PROVE  /\ acked[h][i].write \in Writes
         /\ acked[h][i].base \in Seconds
         /\ acked[h][i].off \in Nat
         /\ EntrySize[acked[h][i].write] \in Nat \ {0}
<1> DEFINE R == [write : Writes, base : Seconds, off : Nat]
<1>1. acked[h] \in Seq(R)
  BY DEF TypeAndShape, TypeOK
<1> HIDE DEF R
<1>2. acked[h][i] \in R
  BY <1>1
<1>3. QED
  BY <1>2, CastFileAssumption DEF R

(* A write behind everything there is, of nothing or of something that     *)
(* begins with a newline, keeps what was recorded.                         *)
LEMMA RecordedSurvivesAppend ==
  ASSUME TypeAndShape, NEW h \in Hashes, Recorded(h), NEW data \in Seq(Cell),
         data # <<>> => data[1].kind = "event" /\ data[1].part = 1,
         castData'[h] = WriteAt(castData[h], Len(castData[h]), data)
  PROVE  \A i \in DOMAIN acked[h] :
           /\ EventAt(castData'[h], acked[h][i].off, acked[h][i].write, acked[h][i].base)
           /\ HeaderIs(castData'[h], acked[h][i].base)
<1> TAKE i \in DOMAIN acked[h]
<1>1. acked[h][i].write \in Writes /\ acked[h][i].base \in Seconds /\ acked[h][i].off \in Nat
  BY AckedType
<1>2. castData[h] \in Seq(Cell)
  BY DEF TypeAndShape, TypeOK, DataPathTypeOK
<1>3. QED
  BY <1>1, <1>2, HeaderSurvivesAppend, EventSurvivesAppend DEF Recorded

(* Nothing is recorded in an empty file, and no handler knows a header     *)
(* for it.                                                                 *)
LEMMA NothingInEmptyFile ==
  ASSUME TypeAndShape, NEW h \in Hashes, castData[h] = <<>>
  PROVE  /\ Recorded(h) => acked[h] = <<>>
         /\ \A s \in Seconds : ~HeaderIs(castData[h], s)
<1>1. ASSUME Recorded(h) PROVE acked[h] = <<>>
  <2>1. ASSUME NEW i \in DOMAIN acked[h] PROVE FALSE
    <3>1. acked[h][i].off \in Nat /\ EntrySize[acked[h][i].write] \in Nat \ {0}
      BY AckedType
    <3>2. acked[h][i].off + EntrySize[acked[h][i].write] <= 0
      BY <1>1 DEF Recorded, EventAt
    <3>3. QED
      BY <3>1, <3>2
  <2> DEFINE R == [write : Writes, base : Seconds, off : Nat]
  <2>2. acked[h] \in Seq(R)
    BY DEF TypeAndShape, TypeOK
  <2> HIDE DEF R
  <2>3. Len(acked[h]) \in Nat /\ DOMAIN acked[h] = 1..Len(acked[h])
    BY <2>2
  <2>4. Len(acked[h]) # 0 => 1 \in DOMAIN acked[h]
    BY <2>3
  <2>5. Len(acked[h]) = 0
    BY <2>1, <2>4
  <2>6. QED
    BY <2>2, <2>5
<1>2. \A s \in Seconds : ~HeaderIs(castData[h], s)
  BY CastFileAssumption DEF HeaderIs
<1>3. QED
  BY <1>1, <1>2

(* The handler that is past its stat of a file nobody else holds writes at *)
(* the end of it.                                                          *)
LEMMA AppendsAtEnd ==
  ASSUME TypeAndShape, NEW c \in Conns, pc[c] = "append",
         Exclusive(HashOf[cur[c]])
  PROVE  /\ Position(c, HashOf[cur[c]]) = Len(castData[HashOf[cur[c]]])
         /\ HeaderIs(castData[HashOf[cur[c]]], timestamps[c][HashOf[cur[c]]])
<1> DEFINE h == HashOf[cur[c]]
<1>1. h \in Hashes
  BY CurrentHash DEF FileCalls, TypeAndShape
<1>2. files[c][h] \in Handle /\ files[c][h].mode # "closed"
  BY <1>1 DEF TypeAndShape, TypeOK, Shape
<1>3. Position(c, h) = Len(castData[h])
  BY <1>2 DEF Position, Exclusive, Handle
<1>4. timestamps[c][h] \in Seconds
  BY DEF TypeAndShape, TypeOK
<1>5. timestamps[c][h] # NoTimestamp
  BY <1>4, CastFileAssumption DEF NoTimestamp
<1>6. QED
  BY <1>3, <1>5 DEF Exclusive

(* Steps of a handler that touch no cast file.                             *)
LEMMA SessionStepQuiet ==
  ASSUME TypeAndShape, NEW h \in Hashes, Session(h), NEW c \in Conns,
         Read(c) \/ StatLabels(c) \/ CreateLabels(c) \/ WriteLabels(c)
  PROVE  Session(h)'
<1>1. UNCHANGED <<castFiles, castData, files, timestamps, acked, exits>>
  BY DEF Read, StatLabels, CreateLabels, WriteLabels, histVars, dirVars, procVars
<1>2. LabelsNext(c, HashOf[cur[c]]) \in {"statCast", "readHeader", "append"}
  BY DEF LabelsNext, OpenNext
<1>3. pc[c] # "writeHeader" /\ pc'[c] \notin {"createCast", "openAppend", "writeHeader"}
  BY <1>2 DEF Read, StatLabels, CreateLabels, WriteLabels, Goto, TypeAndShape, TypeOK
<1>4. \A d \in Conns \ {c} : pc'[d] = pc[d] /\ cur'[d] = cur[d]
  BY DEF Read, StatLabels, CreateLabels, WriteLabels, Goto, TypeAndShape, TypeOK
<1>5. QED
  BY <1>1, <1>3, <1>4, SessionQuiet

(* os.Stat of the cast file: whoever goes on to open it is alone, or the   *)
(* file counts as contended.                                               *)
LEMMA SessionStatCast ==
  ASSUME TypeAndShape, NEW h \in Hashes \ contended', Session(h), NEW c \in Conns,
         StatCast(c)
  PROVE  Session(h)'
<1>1. UNCHANGED <<castFiles, castData, files, timestamps, acked, exits, cur>>
  BY DEF StatCast, dirVars, procVars
<1>2. /\ pc[c] = "statCast"
      /\ pc'[c] = IF HashOf[cur[c]] \in castFiles THEN "openAppend" ELSE "createCast"
      /\ \A d \in Conns \ {c} : pc'[d] = pc[d]
  BY DEF StatCast, Goto, TypeAndShape, TypeOK
<1>3. HashOf[cur[c]] = h => \A d \in Conns \ {c} : ~Holds(d, h)
  BY DEF StatCast
<1>4. \A d \in Conns \ {c} : Holds(d, h)' <=> Holds(d, h)
  BY <1>1, <1>2 DEF Holds
<1>5. HashOf[cur[c]] # h => (Holds(c, h)' <=> Holds(c, h))
  BY <1>1, <1>2 DEF Holds
<1>6. \A a, b \in Conns : Holds(a, h)' /\ Holds(b, h)' => a = b
  BY <1>3, <1>4, <1>5 DEF Session, Exclusive
<1>7. Exclusive(h)'
  BY <1>1, <1>2, <1>6 DEF Session, Exclusive
<1>8. Recorded(h)'
  BY <1>1 DEF Session, Recorded
<1>9. Readable(h)'
  BY <1>1, <1>2 DEF Session, Readable
<1>10. QED
  BY <1>7, <1>8, <1>9 DEF Session

(* A file is created only if it is still not there.                        *)
LEMMA SessionCreateCast ==
  ASSUME TypeAndShape, NEW h \in Hashes, Session(h), NEW c \in Conns, CreateCast(c)
  PROVE  Session(h)'
<1> DEFINE k == HashOf[cur[c]]
<1>1. UNCHANGED <<castData, timestamps, acked, exits, cur>> /\ castFiles' = castFiles \union {k}
  BY DEF CreateCast, histVars, procVars
<1>2. /\ pc[c] = "createCast" /\ pc'[c] = "writeHeader"
      /\ \A d \in Conns \ {c} : pc'[d] = pc[d]
  BY DEF CreateCast, Goto, TypeAndShape, TypeOK
<1>3. k \in Hashes
  BY <1>2, CurrentHash DEF FileCalls, TypeAndShape
<1>4. /\ files'[c][k] = [mode |-> "rdwr", off |-> 0]
      /\ \A d \in Conns, g \in Hashes : d # c \/ g # k => files'[d][g] = files[d][g]
  BY <1>3 DEF CreateCast, TypeAndShape, TypeOK
<1>5. \A d \in Conns : Holds(d, h)' => Holds(d, h)
  BY <1>1, <1>2, <1>4 DEF Holds
<1>6. k = h => castData[h] = <<>> /\ Holds(c, h)
  BY <1>2 DEF Session, Exclusive, TypeAndShape, Shape, Holds
<1>7. ASSUME NEW d \in Conns
      PROVE  /\ files'[d][h].mode = "rdwr" => files'[d][h].off = Len(castData'[h])
             /\ pc'[d] = "createCast" /\ HashOf[cur'[d]] = h => h \notin castFiles'
             /\ pc'[d] = "writeHeader" /\ HashOf[cur'[d]] = h => castData'[h] = <<>>
             /\ timestamps'[d][h] # NoTimestamp => HeaderIs(castData'[h], timestamps'[d][h])
  <2>1. files'[d][h].mode = "rdwr" => files'[d][h].off = Len(castData'[h])
    BY <1>1, <1>4, <1>6 DEF Session, Exclusive
  <2>2. pc'[d] = "createCast" /\ HashOf[cur'[d]] = h => h \notin castFiles'
    BY <1>1, <1>2, <1>6 DEF Session, Exclusive, Holds
  <2>3. pc'[d] = "writeHeader" /\ HashOf[cur'[d]] = h => castData'[h] = <<>>
    BY <1>1, <1>2, <1>6 DEF Session, Exclusive
  <2>4. QED
    BY <1>1, <2>1, <2>2, <2>3 DEF Session, Exclusive
<1>8. Exclusive(h)'
  BY <1>5, <1>7 DEF Session, Exclusive
<1>9. Recorded(h)'
  BY <1>1 DEF Session, Recorded
<1>10. Readable(h)'
  BY <1>1, <1>2 DEF Session, Readable
<1>11. QED
  BY <1>8, <1>9, <1>10 DEF Session

(* Opening a file that was there, and reading its header, changes no file. *)
LEMMA SessionOpen ==
  ASSUME TypeAndShape, NEW h \in Hashes, Session(h), NEW c \in Conns,
         OpenAppend(c) \/ ReadHeader(c)
  PROVE  Session(h)'
<1> DEFINE k == HashOf[cur[c]]
<1>1. UNCHANGED <<castFiles, castData, acked, exits, cur>>
  BY DEF OpenAppend, ReadHeader, histVars, dirVars, procVars
<1>2. /\ pc[c] \in {"openAppend", "readHeader"} /\ pc'[c] \in {"readHeader", "append"}
      /\ \A d \in Conns \ {c} : pc'[d] = pc[d]
  BY DEF OpenAppend, OpenNext, ReadHeader, Goto, TypeAndShape, TypeOK
<1>3. k \in Hashes
  BY <1>2, CurrentHash DEF FileCalls, TypeAndShape
<1>4. \A d \in Conns : \/ files'[d][h] = files[d][h]
                       \/ d = c /\ k = h /\ pc[c] = "openAppend" /\ files'[d][h].mode = "append"
  BY <1>3 DEF OpenAppend, ReadHeader, TypeAndShape, TypeOK
<1>5. \A d \in Conns : \/ timestamps'[d][h] = timestamps[d][h]
                       \/ HeaderIs(castData[h], timestamps'[d][h])
  <2>1. CASE OpenAppend(c)
    BY <2>1 DEF OpenAppend
  <2>2. CASE ReadHeader(c)
    <3>1. PICK s \in Seconds : HeaderIs(castData[k], s) /\ timestamps' = [timestamps EXCEPT ![c][k] = s]
      BY <2>2 DEF ReadHeader
    <3>2. timestamps'[c][k] = s /\ \A d \in Conns : d # c \/ h # k => timestamps'[d][h] = timestamps[d][h]
      BY <1>3, <3>1 DEF TypeAndShape, TypeOK
    <3>3. QED
      BY <3>1, <3>2
  <2>3. QED
    BY <2>1, <2>2
<1>6. \A d \in Conns : Holds(d, h)' => Holds(d, h)
  BY <1>1, <1>2, <1>4 DEF Holds
<1>7. Exclusive(h)'
  BY <1>1, <1>2, <1>4, <1>5, <1>6 DEF Session, Exclusive
<1>8. Recorded(h)'
  BY <1>1 DEF Session, Recorded
<1>9. Readable(h)'
  BY <1>1, <1>2 DEF Session, Readable
<1>10. QED
  BY <1>7, <1>8, <1>9 DEF Session

(* asciinema.Init finds the file it created empty.                         *)
LEMMA SessionWriteHeader ==
  ASSUME TypeAndShape, NEW h \in Hashes, Session(h), NEW c \in Conns, WriteHeader(c)
  PROVE  Session(h)'
<1> DEFINE k == HashOf[cur[c]]
           s == SecondsOf[cur[c]]
           new == WriteAt(castData[k], files[c][k].off, Header(s))
<1>1. UNCHANGED <<castFiles, acked, exits, cur>>
  BY DEF WriteHeader, histVars, procVars
<1>2. /\ pc[c] = "writeHeader" /\ pc'[c] = "append"
      /\ \A d \in Conns \ {c} : pc'[d] = pc[d]
  BY DEF WriteHeader, Goto, TypeAndShape, TypeOK
<1>3. k \in Hashes /\ s \in Seconds
  BY <1>2, CurrentHash DEF FileCalls, TypeAndShape
<1>4. /\ castData'[k] = new
      /\ \A g \in Hashes \ {k} : castData'[g] = castData[g]
      /\ files'[c][k] = MovedTo(files[c][k], files[c][k].off + Len(Header(s)))
      /\ timestamps'[c][k] = s
  BY <1>3 DEF WriteHeader, TypeAndShape, TypeOK, DataPathTypeOK
<1>5. \A d \in Conns, g \in Hashes :
        d # c \/ g # k => files'[d][g] = files[d][g] /\ timestamps'[d][g] = timestamps[d][g]
  BY <1>3 DEF WriteHeader, TypeAndShape, TypeOK
<1>6. CASE k # h
  <2>1. /\ castData'[h] = castData[h]
        /\ \A d \in Conns : files'[d][h] = files[d][h] /\ timestamps'[d][h] = timestamps[d][h]
    BY <1>4, <1>5, <1>6
  <2>2. \A d \in Conns : Holds(d, h)' <=> Holds(d, h)
    BY <1>1, <1>2, <2>1 DEF Holds
  <2>3. Exclusive(h)'
    BY <1>1, <1>2, <2>1, <2>2 DEF Session, Exclusive
  <2>4. Recorded(h)'
    BY <1>1, <2>1 DEF Session, Recorded
  <2>5. Readable(h)'
    BY <1>1, <1>2, <1>6, <2>1 DEF Session, Readable
  <2>6. QED
    BY <2>3, <2>4, <2>5 DEF Session
<1>7. CASE k = h
  <2>1. castData[h] = <<>> /\ files[c][h].mode = "rdwr"
    BY <1>2, <1>3, <1>7 DEF Session, Exclusive, TypeAndShape, Shape
  <2>2. files[c][h].off = 0 /\ Holds(c, h)
    BY <1>7, <2>1 DEF Session, Exclusive, Holds
  <2>3. new = WriteAt(castData[h], Len(castData[h]), Header(s)) /\ castData[h] \in Seq(Cell)
    BY <1>7, <2>1, <2>2 DEF TypeAndShape, TypeOK, DataPathTypeOK
  <2>4. /\ Len(castData'[h]) = HeaderSize[s]
        /\ \A i \in 1..HeaderSize[s] : castData'[h][i] = HeaderCell(s, i)
    <3>1. /\ Header(s) \in Seq(Cell) /\ Len(Header(s)) = HeaderSize[s] /\ HeaderSize[s] \in Nat
          /\ \A i \in 1..HeaderSize[s] : Header(s)[i] = HeaderCell(s, i)
      BY <1>3, HeaderType
    <3> HIDE DEF new, s
    <3>2. /\ Len(new) = Len(castData[h]) + Len(Header(s))
          /\ \A i \in 1..Len(Header(s)) : new[Len(castData[h]) + i] = Header(s)[i]
      BY <2>3, <3>1, WriteAtEnd
    <3>3. Len(castData[h]) = 0
      BY <2>1
    <3>4. Len(new) = HeaderSize[s]
      BY <3>1, <3>2, <3>3
    <3>5. ASSUME NEW i \in 1..HeaderSize[s] PROVE new[i] = HeaderCell(s, i)
      <4>1. Len(castData[h]) + i = i
        BY <3>3
      <4>2. QED
        BY <3>1, <3>2, <4>1
    <3>6. QED
      BY <1>4, <1>7, <3>4, <3>5
  <2>5. HeaderIs(castData'[h], s)
    BY <1>3, <2>4, CastFileAssumption DEF HeaderIs
  <2>6. \A d \in Conns \ {c} : timestamps'[d][h] = NoTimestamp
    <3>1. \A d \in Conns \ {c} : timestamps'[d][h] = timestamps[d][h] /\ timestamps[d][h] \in Seconds \union {NoTimestamp}
      BY <1>5 DEF TypeAndShape, TypeOK
    <3>2. QED
      BY <2>1, <3>1, NothingInEmptyFile DEF Session, Exclusive
  <2>7. \A d \in Conns \ {c} : ~Holds(d, h) /\ files'[d][h] = files[d][h]
    BY <1>5, <2>2 DEF Session, Exclusive
  <2>8. files'[c][h].mode = "rdwr" /\ files'[c][h].off = Len(castData'[h])
    BY <1>3, <1>4, <1>7, <2>1, <2>2, <2>4, HeaderType DEF MovedTo
  <2>9. \A d \in Conns \ {c} : ~Holds(d, h)'
    BY <1>1, <1>2, <2>7 DEF Holds
  <2>10. Exclusive(h)'
    <3>1. \A d \in Conns \ {c} : /\ files'[d][h].mode = "closed"
                                /\ ~(pc'[d] = "createCast" /\ HashOf[cur'[d]] = h)
                                /\ ~(pc'[d] = "writeHeader" /\ HashOf[cur'[d]] = h)
      BY <1>1, <1>2, <1>3, <2>7 DEF Holds, TypeAndShape, Shape
    <3>2. QED
      BY <1>2, <1>4, <1>7, <2>5, <2>6, <2>8, <2>9, <3>1 DEF Exclusive
  <2>11. Recorded(h)'
    <3>1. acked'[h] = <<>>
      BY <1>1, <2>1, NothingInEmptyFile DEF Session
    <3>2. QED
      BY <3>1 DEF Recorded
  <2>12. Readable(h)'
    BY <1>3, <2>5 DEF Readable
  <2>13. QED
    BY <2>10, <2>11, <2>12 DEF Session
<1>8. QED
  BY <1>6, <1>7

(* asciinema.Append adds one event behind everything recorded before it.   *)
LEMMA SessionAppendEvent ==
  ASSUME TypeAndShape, NEW h \in Hashes, Session(h), NEW c \in Conns, AppendEvent(c)
  PROVE  Session(h)'
<1> DEFINE w == cur[c]
           k == HashOf[w]
           s == timestamps[c][k]
           off == Position(c, k)
           e == [write |-> w, base |-> s, off |-> off]
<1>1. UNCHANGED <<castFiles, timestamps, exits, cur>>
  BY DEF AppendEvent, procVars
<1>2. /\ pc[c] = "append" /\ pc'[c] = "read"
      /\ \A d \in Conns \ {c} : pc'[d] = pc[d]
  BY DEF AppendEvent, Goto, TypeAndShape, TypeOK
<1>3. k \in Hashes /\ w \in Writes /\ s \in Seconds
  BY <1>2, CurrentHash DEF FileCalls, TypeAndShape, TypeOK
<1>4. /\ castData'[k] = WriteAt(castData[k], off, Event(w, s))
      /\ \A g \in Hashes \ {k} : castData'[g] = castData[g] /\ acked'[g] = acked[g]
      /\ acked'[k] = Append(acked[k], e)
  BY <1>3 DEF AppendEvent, TypeAndShape, TypeOK, DataPathTypeOK
<1>5. /\ files'[c][k] = MovedTo(files[c][k], off + EntrySize[w])
      /\ \A d \in Conns, g \in Hashes : d # c \/ g # k => files'[d][g] = files[d][g]
  BY <1>3 DEF AppendEvent, TypeAndShape, TypeOK
<1> HIDE DEF off, e, s
<1>6. CASE k # h
  <2>1. /\ castData'[h] = castData[h] /\ acked'[h] = acked[h]
        /\ \A d \in Conns : files'[d][h] = files[d][h]
    BY <1>4, <1>5, <1>6
  <2>2. \A d \in Conns : Holds(d, h)' <=> Holds(d, h)
    BY <1>1, <1>2, <2>1 DEF Holds
  <2>3. Exclusive(h)'
    BY <1>1, <1>2, <2>1, <2>2 DEF Session, Exclusive
  <2>4. Recorded(h)'
    BY <2>1 DEF Session, Recorded
  <2>5. Readable(h)'
    BY <1>1, <1>2, <2>1 DEF Session, Readable
  <2>6. QED
    BY <2>3, <2>4, <2>5 DEF Session
<1>7. CASE k = h
  <2> DEFINE f == castData[h]
             g == castData'[h]
             data == Event(w, s)
  <2>1. off = Len(f) /\ HeaderIs(f, s)
    BY <1>2, <1>7, AppendsAtEnd DEF Session, off, s
  <2>2. /\ data \in Seq(Cell) /\ Len(data) = EntrySize[w] /\ EntrySize[w] \in Nat \ {0}
        /\ \A i \in 1..EntrySize[w] : data[i] = EventCell(w, s, i)
    BY <1>3, EventType
  <2>3. data[1].kind = "event" /\ data[1].part = 1
    <3>1. 1 \in 1..EntrySize[w]
      BY <2>2
    <3>2. data[1] = EventCell(w, s, 1)
      BY <2>2, <3>1
    <3>3. QED
      BY <3>2 DEF EventCell
  <2>4. f \in Seq(Cell) /\ g = WriteAt(f, Len(f), data)
    BY <1>4, <1>7, <2>1 DEF TypeAndShape, TypeOK, DataPathTypeOK
  <2> HIDE DEF data
  <2>5. Len(g) = Len(f) + EntrySize[w] /\ \A i \in 1..EntrySize[w] : g[Len(f) + i] = data[i]
    <3>1. /\ Len(WriteAt(f, Len(f), data)) = Len(f) + Len(data)
          /\ \A i \in 1..Len(data) : WriteAt(f, Len(f), data)[Len(f) + i] = data[i]
      BY <2>2, <2>4, WriteAtEnd
    <3>2. QED
      BY <2>2, <2>4, <3>1
  <2>6. \A t \in Seconds : HeaderIs(f, t) => HeaderIs(g, t)
    BY <2>2, <2>3, <2>4, HeaderSurvivesAppend
  <2>7. EventAt(g, off, w, s)
    BY <2>1, <2>2, <2>5 DEF EventAt
  <2>8. files[c][h].mode # "closed" /\ Holds(c, h)
    BY <1>2, <1>3, <1>7 DEF TypeAndShape, Shape, Holds
  <2>9. \A d \in Conns \ {c} : ~Holds(d, h) /\ files'[d][h] = files[d][h]
    BY <1>5, <2>8 DEF Session, Exclusive
  <2>10. files'[c][h].off = Len(g)
    BY <1>5, <1>7, <2>1, <2>5 DEF MovedTo
  <2>11. Exclusive(h)'
    <3>1. \A d \in Conns \ {c} : /\ ~Holds(d, h)'
                                /\ files'[d][h].mode = "closed"
                                /\ ~(pc'[d] = "createCast" /\ HashOf[cur'[d]] = h)
                                /\ ~(pc'[d] = "writeHeader" /\ HashOf[cur'[d]] = h)
      BY <1>1, <1>2, <1>3, <2>9 DEF Holds, TypeAndShape, Shape
    <3>2. \A d \in Conns : timestamps'[d][h] # NoTimestamp => HeaderIs(g, timestamps'[d][h])
      <4>1. \A d \in Conns : timestamps[d][h] \in Seconds \union {NoTimestamp}
        BY DEF TypeAndShape, TypeOK
      <4>2. QED
        BY <1>1, <2>6, <4>1 DEF Session, Exclusive
    <3>3. QED
      BY <1>2, <2>10, <3>1, <3>2 DEF Exclusive
  <2>12. Recorded(h)'
    <3>1. Recorded(h)
      BY DEF Session
    <3>2. \A i \in DOMAIN acked[h] :
            /\ EventAt(g, acked[h][i].off, acked[h][i].write, acked[h][i].base)
            /\ HeaderIs(g, acked[h][i].base)
      BY <2>2, <2>3, <2>4, <3>1, RecordedSurvivesAppend
    <3>3. \A i \in DOMAIN acked[h] : acked[h][i].off + EntrySize[acked[h][i].write] <= off
      BY <2>1, <3>1 DEF Recorded, EventAt
    <3>4. EventAt(g, e.off, e.write, e.base) /\ HeaderIs(g, e.base) /\ e.off = off
      BY <1>3, <2>1, <2>6, <2>7 DEF e
    <3>5. PICK n \in Nat : /\ DOMAIN acked[h] = 1..n
                           /\ DOMAIN acked'[h] = 1..(n + 1)
                           /\ acked'[h][n + 1] = e
                           /\ \A i \in 1..n : acked'[h][i] = acked[h][i]
      <4> DEFINE R == [write : Writes, base : Seconds, off : Nat]
      <4>1. acked[h] \in Seq(R)
        BY DEF TypeAndShape, TypeOK
      <4>2. off \in Nat
        BY <2>1, <2>4
      <4>3. e \in R
        BY <1>3, <4>2 DEF e
      <4> HIDE DEF R
      <4> DEFINE m == Len(acked[h])
      <4>4. m \in Nat /\ DOMAIN acked[h] = 1..m
        BY <4>1
      <4>5. acked'[h] = Append(acked[h], e)
        BY <1>4, <1>7
      <4>6. Len(acked'[h]) = m + 1 /\ acked'[h] \in Seq(R)
        BY <4>1, <4>3, <4>5
      <4>7. DOMAIN acked'[h] = 1..(m + 1)
        BY <4>6
      <4>8. acked'[h][m + 1] = e /\ \A i \in 1..m : acked'[h][i] = acked[h][i]
        BY <4>1, <4>3, <4>4, <4>5
      <4>9. QED
        BY <4>4, <4>7, <4>8
    <3> HIDE DEF g
    <3>6. SUFFICES ASSUME NEW i \in DOMAIN acked'[h]
                   PROVE  /\ EventAt(g, acked'[h][i].off, acked'[h][i].write, acked'[h][i].base)
                          /\ HeaderIs(g, acked'[h][i].base)
                          /\ \A j \in DOMAIN acked'[h] :
                               i < j => acked'[h][i].off + EntrySize[acked'[h][i].write] <= acked'[h][j].off
      BY DEF Recorded, g
    <3>7. CASE i = n + 1
      BY <3>4, <3>5, <3>7
    <3>8. CASE i \in 1..n
      <4>1. acked'[h][i] = acked[h][i] /\ i \in DOMAIN acked[h]
        BY <3>5, <3>8
      <4>2. ASSUME NEW j \in DOMAIN acked'[h], i < j
            PROVE  acked'[h][i].off + EntrySize[acked'[h][i].write] <= acked'[h][j].off
        <5>1. CASE j = n + 1
          BY <3>3, <3>4, <3>5, <4>1, <5>1
        <5>2. CASE j \in 1..n
          BY <3>1, <3>5, <4>1, <4>2, <5>2 DEF Recorded
        <5>3. QED
          BY <3>5, <5>1, <5>2
      <4>3. QED
        BY <3>2, <4>1, <4>2
    <3>9. QED
      BY <3>5, <3>7, <3>8
  <2>13. Readable(h)'
    BY <1>3, <2>1, <2>6 DEF Readable
  <2>14. QED
    BY <2>11, <2>12, <2>13 DEF Session
<1>8. QED
  BY <1>6, <1>7

(* The process exits, perhaps in the middle of a write: a short header     *)
(* goes to an empty file, a short event behind everything recorded.        *)
LEMMA SessionExitStep ==
  ASSUME TypeAndShape, NEW h \in Hashes, Session(h),
         \/ Kill
         \/ \E c \in Conns : \/ ReadError(c) \/ WriteHeaderFails(c) \/ BadHeader(c)
                            \/ AppendFails(c) \/ OpenFails(c)
  PROVE  Session(h)'
<1>1. PICK why : Fatal(why)
  BY DEF Kill, ReadError, WriteHeaderFails, BadHeader, AppendFails, OpenFails
<1>2. acked' = acked
  BY <1>1 DEF Fatal, histVars
<1>3. CASE castData'[h] = castData[h]
  <2>1. Recorded(h)'
    BY <1>2, <1>3 DEF Session, Recorded
  <2>2. QED
    BY <1>1, <2>1, SessionExit
<1>4. CASE castData'[h] # castData[h]
  <2>1. PICK c \in Conns : WriteHeaderFails(c) \/ AppendFails(c)
    BY <1>4 DEF Kill, ReadError, BadHeader, OpenFails, dirVars
  <2>2. cur[c] \in Writes /\ HashOf[cur[c]] \in Hashes
    BY <2>1, CurrentHash DEF WriteHeaderFails, AppendFails, FileCalls, TypeAndShape
  <2>3. HashOf[cur[c]] = h
    BY <1>4, <2>1, <2>2 DEF WriteHeaderFails, AppendFails, TypeAndShape, TypeOK,
       DataPathTypeOK
  <2>4. CASE WriteHeaderFails(c)
    <3>1. castData[h] = <<>>
      BY <2>3, <2>4 DEF WriteHeaderFails, Session, Exclusive
    <3>2. acked'[h] = <<>>
      BY <1>2, <3>1, NothingInEmptyFile DEF Session
    <3>3. Recorded(h)'
      BY <3>2 DEF Recorded
    <3>4. QED
      BY <1>1, <3>3, SessionExit
  <2>5. CASE AppendFails(c)
    <3> DEFINE s == timestamps[c][h]
    <3>1. Position(c, h) = Len(castData[h]) /\ s \in Seconds
      BY <2>3, <2>5, AppendsAtEnd DEF AppendFails, Session, TypeAndShape, TypeOK
    <3>2. PICK part \in ShortWrites(Event(cur[c], s)) :
            castData' = [castData EXCEPT ![h] = WriteAt(@, Position(c, h), part)]
      BY <2>3, <2>5 DEF AppendFails
    <3>3. castData'[h] = WriteAt(castData[h], Len(castData[h]), part)
      BY <3>1, <3>2 DEF TypeAndShape, TypeOK, DataPathTypeOK
    <3> HIDE DEF s
    <3>4. /\ Event(cur[c], s) \in Seq(Cell) /\ EntrySize[cur[c]] \in Nat \ {0}
          /\ \A i \in 1..EntrySize[cur[c]] : Event(cur[c], s)[i] = EventCell(cur[c], s, i)
      BY <2>2, <3>1, EventType
    <3>5. part \in Seq(Cell) /\ \A i \in 1..Len(part) : part[i] = Event(cur[c], s)[i]
      BY <3>4, ShortWriteType
    <3>6. part # <<>> => part[1].kind = "event" /\ part[1].part = 1
      <4>1. Event(cur[c], s)[1] = EventCell(cur[c], s, 1)
        BY <3>4
      <4>2. part # <<>> => part[1] = Event(cur[c], s)[1]
        BY <3>5
      <4>3. QED
        BY <4>1, <4>2 DEF EventCell
    <3>7. Recorded(h)
      BY DEF Session
    <3>8. \A i \in DOMAIN acked[h] :
            /\ EventAt(castData'[h], acked[h][i].off, acked[h][i].write, acked[h][i].base)
            /\ HeaderIs(castData'[h], acked[h][i].base)
      BY <3>3, <3>5, <3>6, <3>7, RecordedSurvivesAppend
    <3>9. Recorded(h)'
      BY <1>2, <3>7, <3>8 DEF Recorded
    <3>10. QED
      BY <1>1, <3>9, SessionExit
  <2>6. QED
    BY <2>1, <2>4, <2>5
<1>5. QED
  BY <1>3, <1>4

(* Every step keeps every uncontended session.                             *)
LEMMA SessionNext ==
  ASSUME TypeAndShape, \A h \in Hashes \ contended : Session(h), [Next]_vars
  PROVE  \A h \in Hashes \ contended' : Session(h)'
<1>1. contended \subseteq contended'
  BY DEF Next, Step, Environment, Kill, Reboot, Restart, Accept, Deliver, Close, Break,
     Read, ReadEOF, ReadError,
         StatLabels, CreateLabels, WriteLabels, WriteLabelsFails, StatCast, CreateCast, WriteHeader,
         WriteHeaderFails, OpenAppend, ReadHeader, BadHeader, AppendEvent, AppendFails, OpenFails,
         Fatal, histVars, uploadVars, vars
<1>2. SUFFICES ASSUME NEW h \in Hashes \ contended', Session(h) PROVE Session(h)'
  BY <1>1
<1>3. ASSUME NEW c \in Conns, Step(c) PROVE Session(h)'
  <2>1. CASE Read(c) \/ StatLabels(c) \/ CreateLabels(c) \/ WriteLabels(c)
    BY <1>2, <2>1, SessionStepQuiet
  <2>2. CASE ReadEOF(c) \/ WriteLabelsFails(c)
    <3>1. Return(c) /\ pc[c] # "writeHeader" /\ UNCHANGED <<castFiles, castData, acked, exits>>
      BY <2>2 DEF ReadEOF, WriteLabelsFails, histVars, dirVars, procVars
    <3>2. QED
      BY <1>2, <3>1, SessionReturn
  <2>3. CASE StatCast(c)
    BY <1>2, <2>3, SessionStatCast
  <2>4. CASE CreateCast(c)
    BY <1>2, <2>4, SessionCreateCast
  <2>5. CASE WriteHeader(c)
    BY <1>2, <2>5, SessionWriteHeader
  <2>6. CASE OpenAppend(c) \/ ReadHeader(c)
    BY <1>2, <2>6, SessionOpen
  <2>7. CASE AppendEvent(c)
    BY <1>2, <2>7, SessionAppendEvent
  <2>8. CASE ReadError(c) \/ WriteHeaderFails(c) \/ BadHeader(c) \/ AppendFails(c) \/ OpenFails(c)
    BY <1>2, <2>8, SessionExitStep
  <2>9. QED
    BY <1>3, <2>1, <2>2, <2>3, <2>4, <2>5, <2>6, <2>7, <2>8 DEF Step
<1>4. ASSUME NEW c \in Conns, Accept(c) PROVE Session(h)'
  <2>1. /\ UNCHANGED <<castFiles, castData, files, timestamps, acked, exits>>
        /\ \A d \in Conns \ {c} : pc'[d] = pc[d] /\ cur'[d] = cur[d]
    BY <1>4 DEF Accept, dirVars, procVars, TypeAndShape, TypeOK
  <2>2. pc[c] # "writeHeader" /\ pc'[c] \notin {"createCast", "openAppend", "writeHeader"}
    BY <1>4 DEF Accept, TypeAndShape, TypeOK, Shape
  <2>3. QED
    BY <1>2, <2>1, <2>2, SessionQuiet
<1>5. ASSUME \/ \E c \in Conns : Close(c) \/ Break(c) \/ \E w \in Writes : Deliver(c, w)
             \/ Reboot \/ UNCHANGED vars
      PROVE  Session(h)'
  <2>1. UNCHANGED <<castFiles, castData, handlerVars, acked, exits>>
    BY <1>5 DEF Close, Break, Deliver, Reboot, Restart, vars, uploadVars, histVars,
       dirVars, procVars
  <2>2. QED
    BY <1>2, <2>1, SessionUntouched
<1>6. CASE Kill
  BY <1>2, <1>6, SessionExitStep
<1>7. QED
  BY <1>3, <1>4, <1>5, <1>6 DEF Next, Environment

(* The exit over an unreadable header, if it is the first exit, needs a    *)
(* file that two handlers had open.                                        *)
LEMMA BadHeaderNeedsContention ==
  ASSUME CastInv, NEW c \in Conns, BadHeader(c), exits = 0
  PROVE  contended # {}
<1> DEFINE h == HashOf[cur[c]]
<1> SUFFICES ASSUME contended = {} PROVE FALSE
  OBVIOUS
<1>1. pc[c] = "readHeader" /\ \A s \in Seconds : ~HeaderIs(castData[h], s)
  BY DEF BadHeader
<1>2. h \in Hashes
  BY <1>1, CurrentHash DEF FileCalls, CastInv
<1>3. files[c][h].mode # "closed" /\ h \in castFiles
  BY <1>1, <1>2 DEF CastInv, Shape
<1>4. Session(h)
  BY <1>2 DEF CastInv
<1>5. PICK d \in Conns : pc[d] = "writeHeader" /\ HashOf[cur[d]] = h
  BY <1>1, <1>3, <1>4 DEF Session, Readable
<1>6. files[d][h].mode = "rdwr"
  BY <1>5 DEF CastInv, Shape
<1>7. d = c
  BY <1>3, <1>4, <1>6 DEF Session, Exclusive, Holds
<1>8. QED
  BY <1>1, <1>5, <1>7

LEMMA ExitHasCauseNext ==
  ASSUME CastInv, [Next]_vars
  PROVE  ExitHasCause'
<1>1. exits \in Nat
  BY DEF CastInv, TypeOK, DataPathTypeOK
<1>2. ASSUME NEW c \in Conns, BadHeader(c) PROVE ExitHasCause'
  <2>1. contended' = contended /\ exits' = exits + 1
    BY <1>2 DEF BadHeader, Fatal, Exit, histVars
  <2>2. contended # {} \/ exits > 0
    BY <1>1, <1>2, BadHeaderNeedsContention
  <2>3. QED
    BY <1>1, <2>1, <2>2 DEF ExitHasCause
<1>3. ASSUME NEW c \in Conns, StatCast(c) PROVE ExitHasCause'
  BY <1>3 DEF StatCast, procVars, CastInv, ExitHasCause
<1>4. ASSUME NEW c \in Conns, ReadError(c) \/ WriteHeaderFails(c) \/ AppendFails(c) \/ OpenFails(c)
      PROVE  ExitHasCause'
  BY <1>4 DEF ReadError, WriteHeaderFails, AppendFails, OpenFails, Fatal, Exit, ExitHasCause
<1>5. CASE Kill \/ Reboot
  BY <1>5 DEF Kill, Fatal, Exit, Reboot, Restart, ExitHasCause
<1>6. ASSUME UNCHANGED <<status, exits, contended>> PROVE ExitHasCause'
  BY <1>6 DEF CastInv, ExitHasCause
<1>7. ASSUME NEW c \in Conns, Step(c)
      PROVE  \/ BadHeader(c) \/ StatCast(c) \/ ReadError(c) \/ WriteHeaderFails(c)
             \/ AppendFails(c) \/ OpenFails(c) \/ UNCHANGED <<status, exits, contended>>
  BY <1>7 DEF Step, Read, ReadEOF, StatLabels, CreateLabels, WriteLabels, WriteLabelsFails,
         CreateCast, WriteHeader, OpenAppend, ReadHeader, AppendEvent, histVars, procVars
<1>8. ASSUME NEW c \in Conns, Environment(c)
      PROVE  UNCHANGED <<status, exits, contended>>
  BY <1>8 DEF Environment, Accept, Deliver, Close, Break, histVars, procVars
<1>9. CASE UNCHANGED vars
  BY <1>6, <1>9 DEF vars, uploadVars, histVars, procVars
<1>10. QED
  BY <1>2, <1>3, <1>4, <1>5, <1>6, <1>7, <1>8, <1>9 DEF Next

LEMMA CastInit == Init => CastInv
<1> SUFFICES ASSUME Init PROVE CastInv
  OBVIOUS
<1>1. TypeAndShape
  BY TypeInit
<1>2. \A h \in Hashes : /\ castData[h] = <<>> /\ acked[h] = <<>> /\ h \notin castFiles
                       /\ \A c \in Conns : /\ files[c][h].mode = "closed" /\ pc[c] = "none"
                                            /\ timestamps[c][h] = NoTimestamp
  BY DEF Init, DataPathInit, NoFiles, Closed, NoTimestamps
<1>3. \A h \in Hashes : Session(h)
  BY <1>2 DEF Session, Exclusive, Holds, Recorded, Readable
<1>4. ExitHasCause
  BY DEF Init, DataPathInit, ExitHasCause
<1>5. QED
  BY <1>1, <1>3, <1>4 DEF CastInv, TypeAndShape

LEMMA CastNext ==
  ASSUME CastInv, [Next]_vars
  PROVE  CastInv'
<1>1. TypeAndShape
  BY DEF CastInv, TypeAndShape
<1>2. TypeAndShape'
  BY <1>1, TypeNext
<1>3. \A h \in Hashes \ contended' : Session(h)'
  BY <1>1, SessionNext DEF CastInv
<1>4. ExitHasCause'
  BY ExitHasCauseNext
<1>5. QED
  BY <1>2, <1>3, <1>4 DEF CastInv, TypeAndShape

(* The inductive invariant.                                                *)
THEOREM CastInvariant == Spec => []CastInv
<1>1. Init => CastInv
  BY CastInit
<1>2. CastInv /\ [Next]_vars => CastInv'
  BY CastNext
<1>3. QED
  BY <1>1, <1>2, PTL DEF Spec

(* What asciinema.Append reported as written stays whole where it was      *)
(* written, in every file that no two handlers had open at once, whatever  *)
(* the number of reconnections, failed writes, kills and restarts.         *)
THEOREM AckedStayIntact == Spec => []AckedIntact
<1>1. CastInv => AckedIntact
  BY DEF CastInv, Session, Recorded, AckedIntact
<1>2. QED
  BY <1>1, CastInvariant, PTL

(* Every event of such a file is relative to the timestamp in the file's   *)
(* header, also when another connection, or another run of the server,     *)
(* wrote that header.                                                      *)
THEOREM HeaderAgreement == Spec => []HeaderAgrees
<1>1. CastInv => HeaderAgrees
  BY DEF CastInv, Session, Recorded, HeaderAgrees
<1>2. QED
  BY <1>1, CastInvariant, PTL

(* The first exit of a server is never over a header it wrote itself to a  *)
(* file that it did not let two handlers share.                            *)
THEOREM BadHeaderHasCause == Spec => []ExitHasCause
<1>1. CastInv => ExitHasCause
  BY DEF CastInv
<1>2. QED
  BY <1>1, CastInvariant, PTL

-----------------------------------------------------------------------------
(***************************************************************************)
(* The order of the recorded events.                                       *)
(***************************************************************************)

(* A record on its way stays later than everything of its host that is     *)
(* ahead of it: what is recorded, then the write the handler works on,     *)
(* then its inbox.  A host that was never seen with two handlers has one.  *)

(* The records a handler has before it belong to its host, were sent, and  *)
(* are in the order of the host's clock.                                   *)
Queued(c) ==
  /\ pc[c] = "none" => inbox[c] = <<>> /\ conn[c] # "open"
  /\ pc[c] \in FileCalls => cur[c] \in sent /\ NodeOf[cur[c]] = ConnNode[c]
  /\ \A i \in DOMAIN inbox[c] :
       /\ inbox[c][i] \in sent
       /\ NodeOf[inbox[c][i]] = ConnNode[c]
       /\ pc[c] \in FileCalls => cur[c] < inbox[c][i]
       /\ \A j \in DOMAIN inbox[c] : i < j => inbox[c][i] < inbox[c][j]

(* What is recorded of a host is earlier than what its one handler has     *)
(* before it.                                                              *)
Behind(w) ==
  /\ w \in sent
  /\ \A c \in Conns :
       pc[c] # "none" /\ ConnNode[c] = NodeOf[w] /\ NodeOf[w] \notin overlapped =>
         /\ pc[c] \in FileCalls => w < cur[c]
         /\ \A i \in DOMAIN inbox[c] : w < inbox[c][i]

OneHandler ==
  \A c, d \in Conns :
    pc[c] # "none" /\ pc[d] # "none" /\ ConnNode[c] = ConnNode[d]
      => c = d \/ ConnNode[c] \in overlapped

InOrder(h) ==
  \A i, j \in DOMAIN acked[h] :
    LET a == acked[h][i].write
        b == acked[h][j].write
    IN  i < j /\ NodeOf[a] = NodeOf[b] /\ NodeOf[a] \notin overlapped => a < b

OrderInv ==
  /\ \A c \in Conns : Queued(c)
  /\ OneHandler
  /\ \A h \in Hashes : \A i \in DOMAIN acked[h] : Behind(acked[h][i].write)
  /\ \A h \in Hashes : InOrder(h)

LEMMA OrderInit == Init => OrderInv
BY DEF Init, OrderInv, Queued, OneHandler, InOrder, FileCalls

(* A step that ends handlers, or moves one to another call for the same    *)
(* write, disturbs nothing.                                                *)
LEMMA OrderQuiet ==
  ASSUME OrderInv, TypeOK,
         UNCHANGED <<sent, acked, overlapped>>,
         \A c \in Conns :
           \/ pc'[c] = "none" /\ inbox'[c] = <<>> /\ conn'[c] # "open"
           \/ /\ pc[c] # "none" /\ pc'[c] # "none" /\ inbox'[c] = inbox[c]
              /\ pc'[c] \in FileCalls => pc[c] \in FileCalls /\ cur'[c] = cur[c]
           \/ /\ pc'[c] = pc[c] /\ inbox'[c] = inbox[c] /\ cur'[c] = cur[c]
              /\ conn'[c] = "open" => conn[c] = "open"
  PROVE  OrderInv'
<1>1. ASSUME NEW c \in Conns PROVE Queued(c)'
  BY <1>1 DEF OrderInv, Queued, FileCalls
<1>2. \A c \in Conns : pc'[c] # "none" => pc[c] # "none"
  OBVIOUS
<1>3. OneHandler'
  BY <1>2 DEF OrderInv, OneHandler
<1>4. ASSUME NEW h \in Hashes, NEW i \in DOMAIN acked[h] PROVE Behind(acked[h][i].write)'
  <2> DEFINE w == acked[h][i].write
  <2>1. Behind(w)
    BY DEF OrderInv
  <2>2. ASSUME NEW c \in Conns, pc'[c] # "none", ConnNode[c] = NodeOf[w], NodeOf[w] \notin overlapped
        PROVE  /\ pc'[c] \in FileCalls => w < cur'[c]
               /\ \A k \in DOMAIN inbox'[c] : w < inbox'[c][k]
    BY <1>2, <2>1, <2>2 DEF Behind, FileCalls
  <2>3. QED
    BY <2>1, <2>2 DEF Behind
<1>5. \A h \in Hashes : InOrder(h)'
  BY DEF OrderInv, InOrder
<1>6. QED
  BY <1>1, <1>3, <1>4, <1>5 DEF OrderInv

(* A host dials: its new handler has nothing before it yet.                *)
LEMMA OrderAccept ==
  ASSUME OrderInv, TypeAndShape, NEW c \in Conns, Accept(c)
  PROVE  OrderInv'
<1>1. /\ pc[c] = "none" /\ inbox[c] = <<>>
      /\ pc'[c] = "read" /\ \A d \in Conns \ {c} : pc'[d] = pc[d]
      /\ UNCHANGED <<inbox, cur, sent, acked>>
      /\ \A d \in Conns \ {c} : conn'[d] = conn[d]
      /\ overlapped \subseteq overlapped'
      /\ \A d \in Conns : ConnNode[d] = ConnNode[c] /\ pc[d] # "none"
                            => ConnNode[c] \in overlapped'
  BY DEF Accept, TypeAndShape, TypeOK, Shape, OrderInv, Queued
<1>2. ASSUME NEW d \in Conns PROVE Queued(d)'
  BY <1>1, <1>2 DEF OrderInv, Queued, FileCalls
<1>3. OneHandler'
  BY <1>1 DEF OrderInv, OneHandler
<1>4. ASSUME NEW h \in Hashes, NEW i \in DOMAIN acked[h] PROVE Behind(acked[h][i].write)'
  BY <1>1, <1>4 DEF OrderInv, Behind, FileCalls
<1>5. ASSUME NEW h \in Hashes PROVE InOrder(h)'
  BY <1>1, <1>5 DEF OrderInv, InOrder
<1>6. QED
  BY <1>1, <1>2, <1>3, <1>4, <1>5 DEF OrderInv

(* The client sends a write: it is later than all it sent before.          *)
LEMMA OrderDeliver ==
  ASSUME OrderInv, TypeAndShape, NEW c \in Conns, NEW w \in Writes, Deliver(c, w)
  PROVE  OrderInv'
<1>1. /\ NodeOf[w] = ConnNode[c]
      /\ \A v \in sent : NodeOf[v] = ConnNode[c] => v < w
      /\ sent' = sent \union {w}
      /\ UNCHANGED <<conn, pc, cur, acked, overlapped>>
  BY DEF Deliver, handlerVars, histVars
<1>2. inbox[c] \in Seq(Writes) /\ inbox'[c] = Append(inbox[c], w)
  BY DEF Deliver, TypeAndShape, TypeOK
<1>3. \A d \in Conns \ {c} : inbox'[d] = inbox[d]
  BY DEF Deliver, TypeAndShape, TypeOK
<1>4. /\ DOMAIN inbox'[c] = 1..(Len(inbox[c]) + 1)
      /\ DOMAIN inbox[c] = 1..Len(inbox[c]) /\ Len(inbox[c]) \in Nat
      /\ inbox'[c][Len(inbox[c]) + 1] = w
      /\ \A i \in DOMAIN inbox[c] : inbox'[c][i] = inbox[c][i]
  BY <1>2
<1>5. pc[c] # "none"
  BY DEF Deliver, OrderInv, Queued
<1>6. ASSUME NEW d \in Conns PROVE Queued(d)'
  <2>1. CASE d # c
    BY <1>1, <1>3, <2>1 DEF OrderInv, Queued
  <2>2. CASE d = c
    <3>1. Queued(c) /\ pc'[c] # "none"
      BY <1>1, <1>5 DEF OrderInv
    <3>2. pc'[c] \in FileCalls => cur'[c] \in sent' /\ NodeOf[cur'[c]] = ConnNode[c] /\ cur'[c] < w
      BY <1>1, <3>1 DEF Queued
    <3>3. ASSUME NEW i \in DOMAIN inbox'[c]
          PROVE  /\ inbox'[c][i] \in sent'
                 /\ NodeOf[inbox'[c][i]] = ConnNode[c]
                 /\ pc'[c] \in FileCalls => cur'[c] < inbox'[c][i]
                 /\ \A j \in DOMAIN inbox'[c] : i < j => inbox'[c][i] < inbox'[c][j]
      <4>1. CASE i \in DOMAIN inbox[c]
        <5>1. inbox[c][i] < w
          BY <1>1, <3>1, <4>1 DEF Queued
        <5>2. QED
          BY <1>1, <1>4, <3>1, <4>1, <5>1 DEF Queued
      <4>2. CASE i = Len(inbox[c]) + 1
        BY <1>1, <1>4, <3>2, <4>2
      <4>3. QED
        BY <1>4, <4>1, <4>2
    <3>4. QED
      BY <2>2, <3>1, <3>2, <3>3 DEF Queued
  <2>3. QED
    BY <2>1, <2>2
<1>7. OneHandler'
  BY <1>1 DEF OrderInv, OneHandler
<1>8. ASSUME NEW h \in Hashes, NEW i \in DOMAIN acked[h] PROVE Behind(acked[h][i].write)'
  <2> DEFINE a == acked[h][i].write
  <2> HIDE DEF a
  <2>1. Behind(a)
    BY DEF OrderInv, a
  <2>2. ASSUME NEW d \in Conns, pc[d] # "none", ConnNode[d] = NodeOf[a], NodeOf[a] \notin overlapped
        PROVE  \A k \in DOMAIN inbox'[d] : a < inbox'[d][k]
    <3>1. CASE d # c
      BY <1>3, <2>1, <2>2, <3>1 DEF Behind
    <3>2. CASE d = c
      BY <1>1, <1>4, <2>1, <2>2, <3>2 DEF Behind
    <3>3. QED
      BY <3>1, <3>2
  <2>3. Behind(a)'
    BY <1>1, <2>1, <2>2 DEF Behind, a
  <2>4. QED
    BY <1>1, <2>3 DEF a
<1>9. \A h \in Hashes : InOrder(h)'
  BY <1>1 DEF OrderInv, InOrder
<1>10. QED
  BY <1>1, <1>6, <1>7, <1>8, <1>9 DEF OrderInv

(* The handler takes the next record of its inbox.                         *)
LEMMA OrderRead ==
  ASSUME OrderInv, TypeAndShape, NEW c \in Conns, Read(c)
  PROVE  OrderInv'
<1>1. /\ pc[c] = "read" /\ pc'[c] = "statLabels"
      /\ cur'[c] = Head(inbox[c]) /\ inbox'[c] = Tail(inbox[c])
      /\ \A d \in Conns \ {c} : pc'[d] = pc[d] /\ cur'[d] = cur[d] /\ inbox'[d] = inbox[d]
      /\ UNCHANGED <<conn, sent, acked, overlapped>>
  BY DEF Read, Goto, TypeAndShape, TypeOK, histVars
<1>2. inbox[c] \in Seq(Writes) /\ inbox[c] # <<>>
  BY DEF Read, TypeAndShape, TypeOK
<1>3. /\ 1 \in DOMAIN inbox[c] /\ cur'[c] = inbox[c][1]
      /\ \A i \in DOMAIN inbox'[c] :
           i \in Nat /\ 1 < i + 1 /\ i + 1 \in DOMAIN inbox[c] /\ inbox'[c][i] = inbox[c][i + 1]
  BY <1>1, <1>2
<1>4. ASSUME NEW d \in Conns PROVE Queued(d)'
  <2>1. CASE d # c
    BY <1>1, <2>1 DEF OrderInv, Queued
  <2>2. CASE d = c
    <3>1. Queued(c)
      BY DEF OrderInv
    <3>2. cur'[c] \in sent /\ NodeOf[cur'[c]] = ConnNode[c]
      BY <1>3, <3>1 DEF Queued
    <3>3. ASSUME NEW i \in DOMAIN inbox'[c]
          PROVE  /\ inbox'[c][i] \in sent
                 /\ NodeOf[inbox'[c][i]] = ConnNode[c]
                 /\ cur'[c] < inbox'[c][i]
                 /\ \A j \in DOMAIN inbox'[c] : i < j => inbox'[c][i] < inbox'[c][j]
      <4>1. i \in Nat /\ 1 < i + 1 /\ i + 1 \in DOMAIN inbox[c] /\ inbox'[c][i] = inbox[c][i + 1]
        BY <1>3, <3>3
      <4>2. \A j \in DOMAIN inbox'[c] : i < j => i + 1 < j + 1
        BY <1>3, <4>1
      <4>3. QED
        BY <1>3, <3>1, <4>1, <4>2 DEF Queued
    <3>4. QED
      BY <1>1, <2>2, <3>2, <3>3 DEF Queued
  <2>3. QED
    BY <2>1, <2>2
<1>5. OneHandler'
  BY <1>1 DEF OrderInv, OneHandler
<1>6. ASSUME NEW h \in Hashes, NEW i \in DOMAIN acked[h] PROVE Behind(acked[h][i].write)'
  <2> DEFINE a == acked[h][i].write
  <2> HIDE DEF a
  <2>1. Behind(a)
    BY DEF OrderInv, a
  <2>2. ASSUME NEW d \in Conns, pc'[d] # "none", ConnNode[d] = NodeOf[a], NodeOf[a] \notin overlapped
        PROVE  /\ pc'[d] \in FileCalls => a < cur'[d]
               /\ \A k \in DOMAIN inbox'[d] : a < inbox'[d][k]
    <3>1. CASE d # c
      BY <1>1, <2>1, <2>2, <3>1 DEF Behind
    <3>2. CASE d = c
      BY <1>1, <1>3, <2>1, <2>2, <3>2 DEF Behind
    <3>3. QED
      BY <3>1, <3>2
  <2>3. Behind(a)'
    BY <1>1, <2>1, <2>2 DEF Behind, a
  <2>4. QED
    BY <1>1, <2>3 DEF a
<1>7. \A h \in Hashes : InOrder(h)'
  BY <1>1 DEF OrderInv, InOrder
<1>8. QED
  BY <1>1, <1>4, <1>5, <1>6, <1>7 DEF OrderInv

(* asciinema.Append records the write the handler works on: it is later    *)
(* than all that is recorded of its host, and earlier than what is left.   *)
LEMMA OrderAppend ==
  ASSUME OrderInv, TypeAndShape, NEW c \in Conns, AppendEvent(c)
  PROVE  OrderInv'
<1> DEFINE w == cur[c]
           g == HashOf[cur[c]]
           n == Len(acked[g])
<1>1. w \in Writes /\ g \in Hashes
  BY CurrentHash DEF AppendEvent, FileCalls, TypeAndShape
<1>2. PICK e : e.write = w /\ acked' = [acked EXCEPT ![g] = Append(@, e)]
  BY DEF AppendEvent
<1>3. /\ pc[c] = "append" /\ pc'[c] = "read" /\ \A d \in Conns \ {c} : pc'[d] = pc[d]
      /\ UNCHANGED <<conn, inbox, cur, sent, overlapped>>
  BY DEF AppendEvent, Goto, TypeAndShape, TypeOK, connVars
<1>4. n \in Nat /\ DOMAIN acked[g] = 1..n
  BY <1>1 DEF TypeAndShape, TypeOK
<1>5. acked'[g] = Append(acked[g], e) /\ \A h \in Hashes \ {g} : acked'[h] = acked[h]
  BY <1>1, <1>2 DEF TypeAndShape, TypeOK
<1>6. /\ DOMAIN acked'[g] = 1..(n + 1) /\ acked'[g][n + 1] = e
      /\ \A i \in 1..n : acked'[g][i] = acked[g][i]
  BY <1>1, <1>4, <1>5 DEF TypeAndShape, TypeOK
<1> HIDE DEF w, g, n
<1>0. PICK u : u = w
  OBVIOUS
<1>7. Queued(c) /\ w \in sent /\ NodeOf[w] = ConnNode[c]
  BY <1>3 DEF OrderInv, Queued, FileCalls, w
<1>8. ASSUME NEW d \in Conns PROVE Queued(d)'
  BY <1>3, <1>8 DEF OrderInv, Queued, FileCalls
<1>9. OneHandler'
  BY <1>3 DEF OrderInv, OneHandler
<1>10. ASSUME NEW v, Behind(v) PROVE Behind(v)'
  BY <1>3, <1>10 DEF Behind, FileCalls
<1>11. Behind(u)'
  <2>1. ASSUME NEW d \in Conns, pc'[d] # "none", ConnNode[d] = NodeOf[w], NodeOf[w] \notin overlapped
        PROVE  d = c
    BY <1>3, <1>7, <2>1 DEF OrderInv, OneHandler
  <2>2. \A i \in DOMAIN inbox[c] : w < inbox[c][i]
    BY <1>3, <1>7 DEF Queued, FileCalls, w
  <2>3. QED
    BY <1>0, <1>3, <1>7, <2>1, <2>2 DEF Behind, FileCalls
<1>12. ASSUME NEW h \in Hashes, NEW i \in DOMAIN acked'[h] PROVE Behind(acked[h][i].write)'
  <2>1. PICK v : v = acked'[h][i].write /\ Behind(v)'
    <3>1. CASE h = g /\ i = n + 1
      BY <1>0, <1>2, <1>6, <1>11, <3>1
    <3>2. CASE ~(h = g /\ i = n + 1)
      <4>1. i \in DOMAIN acked[h] /\ acked'[h][i] = acked[h][i]
        BY <1>4, <1>5, <1>6, <1>12, <3>2
      <4>2. Behind(acked[h][i].write)
        BY <4>1 DEF OrderInv
      <4>3. QED
        BY <1>10, <4>1, <4>2
    <3>3. QED
      BY <3>1, <3>2
  <2>2. QED
    BY <2>1 DEF Behind
<1>13. ASSUME NEW h \in Hashes PROVE InOrder(h)'
  <2>1. CASE h # g
    BY <1>3, <1>5, <2>1 DEF OrderInv, InOrder
  <2>2. CASE h = g
    <3>1. ASSUME NEW i \in 1..n, NodeOf[acked[g][i].write] = NodeOf[w], NodeOf[w] \notin overlapped
          PROVE  acked[g][i].write < w
      BY <1>1, <1>3, <1>4, <1>7, <3>1 DEF OrderInv, Behind, FileCalls, w
    <3>2. QED
      BY <1>1, <1>2, <1>3, <1>4, <1>6, <2>2, <3>1 DEF OrderInv, InOrder
  <2>3. QED
    BY <2>1, <2>2
<1>14. QED
  BY <1>8, <1>9, <1>12, <1>13 DEF OrderInv

LEMMA OrderNext ==
  ASSUME OrderInv, TypeAndShape, [Next]_vars
  PROVE  OrderInv'
<1>1. ASSUME NEW c \in Conns, Environment(c) PROVE OrderInv'
  <2>1. CASE Close(c) \/ Break(c)
    BY <2>1, OrderQuiet DEF Close, Break, TypeAndShape, TypeOK, handlerVars, histVars
  <2>2. QED
    BY <1>1, <2>1, OrderAccept, OrderDeliver DEF Environment
<1>2. ASSUME NEW c \in Conns, Step(c) PROVE OrderInv'
  <2>1. CASE ReadEOF(c) \/ WriteLabelsFails(c)
    BY <2>1, OrderQuiet DEF ReadEOF, WriteLabelsFails, Return, TypeAndShape, TypeOK, histVars
  <2>2. CASE ReadError(c) \/ WriteHeaderFails(c) \/ BadHeader(c) \/ AppendFails(c) \/ OpenFails(c)
    BY <2>2, OrderQuiet DEF ReadError, WriteHeaderFails, BadHeader, AppendFails, OpenFails,
       Fatal, DropAll, TypeAndShape, TypeOK, histVars
  <2>3. CASE \/ StatLabels(c) \/ CreateLabels(c) \/ WriteLabels(c) \/ StatCast(c)
             \/ CreateCast(c) \/ WriteHeader(c) \/ OpenAppend(c) \/ ReadHeader(c)
    <3>1. LabelsNext(c, HashOf[cur[c]]) # "none" /\ OpenNext(c, HashOf[cur[c]]) # "none"
      BY DEF LabelsNext, OpenNext
    <3>2. /\ pc[c] \in FileCalls /\ pc'[c] # "none"
          /\ \A d \in Conns \ {c} : pc'[d] = pc[d]
          /\ UNCHANGED <<conn, inbox, sent, cur, acked, overlapped>>
      BY <2>3, <3>1 DEF StatLabels, CreateLabels, WriteLabels, StatCast, CreateCast, WriteHeader,
         OpenAppend, ReadHeader, Goto, FileCalls, TypeAndShape, TypeOK, connVars, histVars
    <3>3. pc[c] # "none"
      BY <3>2 DEF FileCalls
    <3>4. QED
      BY <3>2, <3>3, OrderQuiet DEF TypeAndShape
  <2>4. QED
    BY <1>2, <2>1, <2>2, <2>3, OrderRead, OrderAppend DEF Step
<1>3. CASE Kill
  BY <1>3, OrderQuiet DEF Kill, Fatal, DropAll, TypeAndShape, TypeOK, histVars
<1>4. CASE Reboot \/ UNCHANGED vars
  BY <1>4, OrderQuiet DEF Reboot, vars, uploadVars, connVars, handlerVars, histVars, TypeAndShape
<1>5. QED
  BY <1>1, <1>2, <1>3, <1>4 DEF Next

LEMMA OrderImplies == CastInv /\ OrderInv => RecordedInOrder
BY DEF CastInv, OrderInv, Session, Recorded, InOrder, RecordedInOrder

(* In a cast file that no two handlers had open at once every event ends   *)
(* before the next begins, and the events of a host that never had two     *)
(* handlers running stand in the order in which its client sent them,      *)
(* whatever it dialled, lost or left behind in between.                    *)
THEOREM RecordingOrder == Spec => []RecordedInOrder
<1>1. OrderInv /\ TypeAndShape /\ [Next]_vars => OrderInv'
  BY OrderNext
<1>2. CastInv => TypeAndShape
  BY DEF CastInv, TypeAndShape
<1>3. QED
  BY <1>1, <1>2, OrderInit, OrderImplies, CastInvariant, PTL DEF Spec

=============================================================================
