--------------------------- MODULE RefinementProofs ---------------------------
(***************************************************************************)
(* The upload handlers, alone and beside list handlers, implement          *)
(* SessionLog, for any number of hosts, connections, sessions and writes.  *)
(***************************************************************************)
EXTENDS ServerProofs, UploadRefinement, FiniteSetTheorems

(***************************************************************************)
(* Whole event lines and their ranks.                                      *)
(***************************************************************************)
LEMMA StartsType ==
  ASSUME NEW f \in Seq(Cell)
  PROVE  /\ IsFiniteSet(Starts(f)) /\ Cardinality(Starts(f)) \in Nat
         /\ Starts(f) \subseteq 1..Len(f)
<1>1. Starts(f) \subseteq 1..Len(f) /\ Len(f) \in Nat
  BY DEF Starts
<1>2. IsFiniteSet(1..Len(f))
  BY <1>1, FS_Interval
<1>3. IsFiniteSet(Starts(f))
  BY <1>1, <1>2, FS_Subset
<1>4. QED
  BY <1>1, <1>3, FS_CardinalityType

(* A whole event begins with its first part and belongs to a write.        *)
LEMMA StartIsFirst ==
  ASSUME NEW f \in Seq(Cell), NEW i \in Starts(f)
  PROVE  /\ i \in 1..Len(f) /\ f[i].write \in Writes /\ f[i].base \in Seconds /\ f[i].part = 1
         /\ EventAt(f, i - 1, f[i].write, f[i].base)
<1>1. i \in 1..Len(f) /\ Len(f) \in Nat /\ f[i] \in Cell
  BY DEF Starts
<1>2. f[i].write \in Writes /\ EventAt(f, i - 1, f[i].write, f[i].base)
  BY DEF Starts
<1>3. EntrySize[f[i].write] \in Nat \ {0} /\ i - 1 + 1 = i
  BY <1>1, <1>2, CastFileAssumption
<1>4. f[i] = EventCell(f[i].write, f[i].base, 1)
  BY <1>2, <1>3 DEF EventAt
<1>5. f[i].part = 1
  BY <1>4 DEF EventCell
<1>6. QED
  BY <1>1, <1>2, <1>5 DEF Cell

(* A file whose cells are all of a header holds no event.                  *)
LEMMA NoStarts ==
  ASSUME NEW f \in Seq(Cell), \A i \in 1..Len(f) : f[i].write = NoWrite
  PROVE  Starts(f) = {}
BY CastFileAssumption DEF Starts

(* Writing the first k parts of an event at the end of a file makes one    *)
(* more whole event when k is all of them, and none otherwise.             *)
LEMMA StartsOfAppend ==
  ASSUME NEW f \in Seq(Cell), NEW w \in Writes, NEW s \in Seconds, NEW data \in Seq(Cell),
         Len(data) <= EntrySize[w],
         \A i \in 1..Len(data) : data[i] = EventCell(w, s, i)
  PROVE  LET g == WriteAt(f, Len(f), data)
         IN  /\ g \in Seq(Cell)
             /\ \A i \in 1..Len(f) : g[i] = f[i]
             /\ Len(data) < EntrySize[w] => Starts(g) = Starts(f)
             /\ Len(data) = EntrySize[w] => /\ Starts(g) = Starts(f) \union {Len(f) + 1}
                                            /\ g[Len(f) + 1].write = w
<1> DEFINE g == WriteAt(f, Len(f), data)
           n == Len(f)
           k == Len(data)
<1>1. /\ g \in Seq(Cell) /\ Len(g) = n + k
      /\ \A i \in 1..n : g[i] = f[i]
      /\ \A i \in 1..k : g[n + i] = data[i]
  BY WriteAtEnd
<1>2. EntrySize \in [Writes -> Nat \ {0}] /\ n \in Nat /\ k \in Nat
  BY CastFileAssumption
<1> HIDE DEF g, n, k
<1>3. \A i \in 1..k : g[n + i] = EventCell(w, s, i)
  BY <1>1 DEF k
<1>4. ASSUME NEW i \in Starts(f) PROVE i \in Starts(g)
  <2>1. i \in 1..n /\ f[i].write \in Writes /\ EventAt(f, i - 1, f[i].write, f[i].base)
    BY StartIsFirst DEF n
  <2>2. EventAt(g, i - 1, f[i].write, f[i].base)
    <3> DEFINE z == EntrySize[f[i].write]
    <3>1. z \in Nat \ {0}
      BY <1>2, <2>1
    <3>2. i - 1 + z <= n /\ \A j \in 1..z : f[i - 1 + j] = EventCell(f[i].write, f[i].base, j)
      BY <2>1 DEF EventAt, n
    <3> HIDE DEF z
    <3>3. i - 1 + z <= n + k /\ \A j \in 1..z : i - 1 + j \in 1..n
      BY <1>2, <2>1, <3>1, <3>2
    <3>4. QED
      BY <1>1, <3>2, <3>3 DEF EventAt, z
  <2>3. i \in DOMAIN g /\ g[i] = f[i]
    BY <1>1, <1>2, <2>1
  <2>4. QED
    BY <2>1, <2>2, <2>3 DEF Starts
<1>5. ASSUME NEW i \in Starts(g), i <= n PROVE i \in Starts(f)
  <2> DEFINE u == g[i].write
             z == EntrySize[u]
  <2>1. i \in 1..n /\ u \in Writes /\ EventAt(g, i - 1, u, g[i].base)
    BY <1>1, <1>2, <1>5, StartIsFirst
  <2>2. z \in Nat \ {0}
    BY <1>2, <2>1
  <2>3. g[i] = f[i]
    BY <1>1, <2>1
  <2> HIDE DEF u, z
  <2>4. i - 1 + z <= n + k /\ \A j \in 1..z : g[i - 1 + j] = EventCell(u, g[i].base, j)
    BY <1>1, <2>1 DEF EventAt, z
  <2>5. i - 1 + z <= n
    <3> SUFFICES ASSUME i - 1 + z > n PROVE FALSE
      BY <1>2, <2>1, <2>2
    <3> DEFINE j == n + 1 - (i - 1)
    <3>1. j \in 1..z /\ j > 1 /\ i - 1 + j = n + 1 /\ 1 \in 1..k
      BY <1>2, <2>1, <2>2, <2>4
    <3>2. g[n + 1] = EventCell(u, g[i].base, j)
      BY <2>4, <3>1
    <3>3. g[n + 1] = EventCell(w, s, 1)
      BY <1>3, <3>1
    <3> HIDE DEF j
    <3>4. j = 1
      BY <3>2, <3>3 DEF EventCell
    <3>5. QED
      BY <3>1, <3>4
  <2>6. EventAt(f, i - 1, u, g[i].base)
    <3>1. \A j \in 1..z : i - 1 + j \in 1..n
      BY <1>2, <2>1, <2>2, <2>5
    <3>2. QED
      BY <1>1, <2>4, <2>5, <3>1 DEF EventAt, n, z
  <2>7. QED
    BY <2>1, <2>3, <2>6 DEF Starts, n, u
<1>6. ASSUME NEW i \in Starts(g), i > n PROVE i = n + 1 /\ k = EntrySize[w]
  <2>1. /\ i \in 1..(n + k) /\ g[i].part = 1 /\ EventAt(g, i - 1, g[i].write, g[i].base)
    BY <1>1, StartIsFirst
  <2>2. PICK j \in 1..k : i = n + j
    <3>1. i - n \in 1..k /\ i = n + (i - n)
      BY <1>2, <1>6, <2>1
    <3>2. QED
      BY <3>1
  <2>3. j = 1 /\ g[i].write = w
    <3>1. g[i] = EventCell(w, s, j)
      BY <1>3, <2>2
    <3>2. QED
      BY <2>1, <3>1 DEF EventCell
  <2>4. i - 1 + EntrySize[w] <= n + k
    BY <1>1, <2>1, <2>3 DEF EventAt
  <2>5. QED
    BY <1>2, <2>2, <2>3, <2>4 DEF k
<1>7. ASSUME k = EntrySize[w] PROVE n + 1 \in Starts(g) /\ g[n + 1].write = w
  <2>1. 1 \in 1..k /\ n + 1 \in DOMAIN g /\ n = (n + 1) - 1
    BY <1>1, <1>2, <1>7
  <2>2. g[n + 1] = EventCell(w, s, 1)
    BY <1>3, <2>1
  <2>3. EventAt(g, n, w, s)
    BY <1>1, <1>2, <1>3, <1>7 DEF EventAt
  <2>4. g[n + 1].write = w /\ g[n + 1].base = s
    BY <2>2 DEF EventCell
  <2>5. QED
    BY <2>1, <2>3, <2>4 DEF Starts
<1>8. Starts(g) \subseteq 1..(n + k) /\ Starts(f) \subseteq 1..n
  BY <1>1, StartsType DEF n
<1>9. k < EntrySize[w] => Starts(g) = Starts(f)
  <2>1. ASSUME k < EntrySize[w], NEW i \in Starts(g) PROVE i \in Starts(f)
    <3>1. i \in Nat /\ k # EntrySize[w]
      BY <1>2, <1>8, <2>1
    <3>2. i <= n
      BY <1>2, <1>6, <3>1
    <3>3. QED
      BY <1>5, <3>2
  <2>2. QED
    BY <1>4, <2>1
<1>10. k = EntrySize[w] => Starts(g) = Starts(f) \union {n + 1}
  BY <1>2, <1>4, <1>5, <1>6, <1>7, <1>8
<1>11. QED
  BY <1>1, <1>7, <1>9, <1>10 DEF g, n, k

(* Every rank up to the number of starts is taken.                         *)
Filled(S) == \A k \in 1..Cardinality(S) : Ranked(k, S) # {}

(* A start above all others takes the next rank and leaves theirs alone.   *)
LEMMA RankOfNext ==
  ASSUME NEW S \in SUBSET Nat, IsFiniteSet(S), NEW n \in Nat, \A i \in S : i < n
  PROVE  LET T == S \union {n}
         IN  /\ Cardinality(S) \in Nat /\ Cardinality(T) = Cardinality(S) + 1
             /\ \A k \in 1..Cardinality(S) : Ranked(k, T) = Ranked(k, S)
             /\ Ranked(Cardinality(S) + 1, T) = {n}
<1> DEFINE T == S \union {n}
           m == Cardinality(S)
<1>1. m \in Nat /\ Cardinality(T) = m + 1
  BY FS_AddElement, FS_CardinalityType
<1>2. ASSUME NEW i \in S PROVE Rank(i, T) = Rank(i, S) /\ Rank(i, S) \in 0..m
  <2>1. {j \in T : j <= i} = {j \in S : j <= i}
    OBVIOUS
  <2>2. {j \in S : j <= i} \in SUBSET S
    OBVIOUS
  <2>3. Cardinality({j \in S : j <= i}) <= m /\ IsFiniteSet({j \in S : j <= i})
    BY <2>2, FS_Subset
  <2>4. Cardinality({j \in S : j <= i}) \in Nat
    BY <2>3, FS_CardinalityType
  <2>5. QED
    BY <1>1, <2>1, <2>3, <2>4 DEF Rank
<1>3. Rank(n, T) = m + 1
  <2>1. \A j \in T : j <= n
    OBVIOUS
  <2>2. {j \in T : j <= n} = T
    BY <2>1
  <2>3. QED
    BY <1>1, <2>2 DEF Rank
<1>4. n \in T /\ n \notin S /\ \A i \in T : i \in S \/ i = n
  OBVIOUS
<1>5. \A i \in S : i \in T
  OBVIOUS
<1> HIDE DEF m, T
<1>6. ASSUME NEW k \in 1..m PROVE Ranked(k, T) = Ranked(k, S)
  <2>1. k # m + 1
    BY <1>1
  <2>2. \A i \in T : Rank(i, T) = k => i \in S
    BY <1>3, <1>4, <2>1
  <2>3. \A i \in S : Rank(i, T) = Rank(i, S)
    BY <1>2
  <2>4. QED
    BY <1>5, <2>2, <2>3 DEF Ranked
<1>7. Ranked(m + 1, T) = {n}
  <2>1. ASSUME NEW i \in S PROVE Rank(i, T) # m + 1
    BY <1>1, <1>2
  <2>2. QED
    BY <1>3, <1>4, <2>1 DEF Ranked
<1>8. QED
  BY <1>1, <1>6, <1>7 DEF m, T

(* The files f and g can be replayed to the same writes.                   *)
LEMMA ReplayKept ==
  ASSUME NEW f, NEW g, Filled(Starts(f)), Starts(g) = Starts(f), \A i \in Starts(f) : g[i] = f[i]
  PROVE  Replay(g) = Replay(f) /\ Filled(Starts(g))
<1> DEFINE S == Starts(f)
<1>1. ASSUME NEW k \in 1..Cardinality(S)
      PROVE  g[CHOOSE i \in Ranked(k, S) : TRUE] = f[CHOOSE i \in Ranked(k, S) : TRUE]
  BY <1>1 DEF Filled, Ranked
<1> HIDE DEF S
<1>2. QED
  BY <1>1 DEF Replay, S

(* A whole event behind all others is one more write at the end.           *)
LEMMA ReplayGrows ==
  ASSUME NEW f \in Seq(Cell), NEW g, Filled(Starts(f)), \A i \in 1..Len(f) : g[i] = f[i],
         Starts(g) = Starts(f) \union {Len(f) + 1}
  PROVE  Replay(g) = Append(Replay(f), g[Len(f) + 1].write) /\ Filled(Starts(g))
<1> DEFINE S == Starts(f)
           T == Starts(g)
           n == Len(f) + 1
           m == Cardinality(S)
           w == g[n].write
           At(k) == CHOOSE i \in Ranked(k, S) : TRUE
           AtNow(k) == CHOOSE i \in Ranked(k, T) : TRUE
<1>1. S \in SUBSET Nat /\ IsFiniteSet(S) /\ n \in Nat /\ \A i \in S : i < n /\ i \in 1..Len(f)
  BY StartsType
<1>2. /\ m \in Nat /\ Cardinality(T) = m + 1
      /\ \A k \in 1..m : Ranked(k, T) = Ranked(k, S)
      /\ Ranked(m + 1, T) = {n}
  <2>1. T = S \union {n}
    OBVIOUS
  <2> HIDE DEF S, T, n
  <2>2. QED
    BY <1>1, <2>1, RankOfNext
<1>3. ASSUME NEW k \in 1..m PROVE At(k) \in S
  BY <1>3 DEF Filled, Ranked
<1>4. Replay(f) = [k \in 1..m |-> f[At(k)].write]
  BY DEF Replay
<1>5. Replay(g) = [k \in 1..(m + 1) |-> g[AtNow(k)].write]
  BY <1>2 DEF Replay
<1> HIDE DEF S, T, n, m, w, At, AtNow
<1>6. Len(Replay(f)) = m /\ DOMAIN Replay(f) = 1..m
  BY <1>2, <1>4
<1>7. Append(Replay(f), w) = [k \in 1..(m + 1) |-> IF k \in 1..m THEN f[At(k)].write ELSE w]
  <2>1. Append(Replay(f), w) = [k \in 1..(m + 1) |-> IF k = m + 1 THEN w ELSE Replay(f)[k]]
    BY <1>2, <1>4, <1>6
  <2>2. QED
    BY <1>2, <1>4, <2>1
<1>8. ASSUME NEW k \in 1..(m + 1)
      PROVE  g[AtNow(k)].write = IF k \in 1..m THEN f[At(k)].write ELSE w
  <2>1. CASE k \in 1..m
    <3>1. AtNow(k) = At(k)
      BY <1>2, <2>1 DEF At, AtNow
    <3>2. At(k) \in 1..Len(f)
      BY <1>1, <1>3, <2>1
    <3>3. QED
      BY <2>1, <3>1, <3>2
  <2>2. CASE k = m + 1
    <3>1. AtNow(k) = n
      BY <1>2, <2>2 DEF AtNow
    <3>2. QED
      BY <1>2, <2>2, <3>1 DEF w
  <2>3. QED
    BY <1>2, <2>1, <2>2
<1>9. Replay(g) = Append(Replay(f), w)
  BY <1>5, <1>7, <1>8
<1>10. Filled(T)
  BY <1>2 DEF Filled, S, m
<1>11. QED
  BY <1>9, <1>10 DEF w, T, n

-----------------------------------------------------------------------------
(***************************************************************************)
(* No write is recorded twice.                                             *)
(***************************************************************************)

(* The records before the handler of c: the one it works on, and those it  *)
(* has not read yet.                                                       *)
Ahead(c) ==
  {inbox[c][i] : i \in DOMAIN inbox[c]} \union (IF pc[c] \in FileCalls THEN {cur[c]} ELSE {})

(* No two handlers have the same record before them, and no cell of a file *)
(* is of a record that some handler still has before it.                   *)
OnceInv ==
  /\ \A c, d \in Conns : c # d => Ahead(c) \intersect Ahead(d) = {}
  /\ \A h \in Hashes : \A i \in DOMAIN castData[h] :
       castData[h][i].write # NoWrite =>
         castData[h][i].write \in sent /\ \A c \in Conns : castData[h][i].write \notin Ahead(c)

LEMMA OnceInit == Init => OnceInv
BY DEF Init, DataPathInit, OnceInv, Ahead, FileCalls

(* Where handlers lose records and no cast file changes, nothing is lost.  *)
LEMMA OnceQuiet ==
  ASSUME OnceInv, UNCHANGED castData, sent \subseteq sent', \A c \in Conns : Ahead(c)' \subseteq Ahead(c)
  PROVE  OnceInv'
<1>1. ASSUME NEW c \in Conns, NEW d \in Conns, c # d PROVE Ahead(c)' \intersect Ahead(d)' = {}
  BY <1>1 DEF OnceInv
<1>2. QED
  BY <1>1 DEF OnceInv

(* A write goes to a cast file: its cells are those of the record the      *)
(* handler of c works on, or of no record at all, and no handler has that  *)
(* record before it afterwards.                                            *)
LEMMA OnceWrite ==
  ASSUME OnceInv, TypeAndShape, OrderInv, NEW c \in Conns, pc[c] \in FileCalls,
         NEW h \in Hashes, NEW off \in Nat, off <= Len(castData[h]), NEW data \in Seq(Cell),
         castData' = [castData EXCEPT ![h] = WriteAt(@, off, data)],
         \A i \in 1..Len(data) : \/ data[i].write = NoWrite
                                 \/ data[i].write = cur[c] /\ \A d \in Conns : cur[c] \notin Ahead(d)',
         UNCHANGED sent, \A d \in Conns : Ahead(d)' \subseteq Ahead(d)
  PROVE  OnceInv'
<1>1. /\ castData' \in [Hashes -> Seq(Cell)]
      /\ \A g \in Hashes \ {h} : castData'[g] = castData[g]
      /\ castData'[h] = WriteAt(castData[h], off, data)
  BY CastWriteType
<1>2. cur[c] \in sent
  BY DEF OrderInv, Queued
<1>3. ASSUME NEW g \in Hashes, NEW i \in DOMAIN castData'[g], castData'[g][i].write # NoWrite
      PROVE  castData'[g][i].write \in sent' /\ \A d \in Conns : castData'[g][i].write \notin Ahead(d)'
  <2>1. CASE i \in DOMAIN castData[g] /\ castData'[g][i] = castData[g][i]
    BY <1>3, <2>1 DEF OnceInv
  <2>2. CASE ~(i \in DOMAIN castData[g] /\ castData'[g][i] = castData[g][i])
    <3>1. g = h
      BY <1>1, <1>3, <2>2
    <3>2. /\ Len(castData[h]) \in Nat /\ Len(data) \in Nat /\ DOMAIN castData[h] = 1..Len(castData[h])
          /\ DOMAIN data = 1..Len(data)
      BY DEF TypeAndShape, TypeOK, DataPathTypeOK
    <3>3. PICK k \in 1..Len(data) : castData'[h][i] = data[k]
      <4>1. /\ i \in Nat /\ off < i /\ i <= off + Len(data)
            /\ castData'[h][i] = data[i - off]
        BY <1>1, <1>3, <2>2, <3>1, <3>2 DEF WriteAt
      <4>2. QED
        BY <3>2, <4>1
    <3>4. QED
      BY <1>2, <1>3, <3>1, <3>3
  <2>3. QED
    BY <2>1, <2>2
<1>4. ASSUME NEW a \in Conns, NEW b \in Conns, a # b PROVE Ahead(a)' \intersect Ahead(b)' = {}
  BY <1>4 DEF OnceInv
<1>5. QED
  BY <1>3, <1>4 DEF OnceInv

(* Only a record that comes in is new to a handler.                        *)
LEMMA AheadShrinks ==
  ASSUME TypeAndShape,
         \/ \E c \in Conns : Step(c) \/ Accept(c) \/ Close(c) \/ Break(c)
         \/ Kill \/ Reboot \/ UNCHANGED vars \/ (\E why : Fatal(why)),
         NEW d \in Conns
  PROVE  Ahead(d)' \subseteq Ahead(d)
<1>1. ASSUME NEW why, Fatal(why) PROVE Ahead(d)' \subseteq Ahead(d)
  BY <1>1 DEF Fatal, DropAll, Ahead, FileCalls
<1>2. CASE Reboot \/ UNCHANGED vars
  BY <1>2 DEF Reboot, vars, uploadVars, connVars, handlerVars, Ahead
<1>3. ASSUME NEW c \in Conns, Accept(c) \/ Close(c) \/ Break(c) PROVE Ahead(d)' \subseteq Ahead(d)
  BY <1>3 DEF Accept, Close, Break, handlerVars, Ahead, TypeAndShape, TypeOK, FileCalls
<1>4. ASSUME NEW c \in Conns, ReadEOF(c) \/ WriteLabelsFails(c) PROVE Ahead(d)' \subseteq Ahead(d)
  <2>1. Return(c)
    BY <1>4 DEF ReadEOF, WriteLabelsFails
  <2>2. CASE d = c
    <3>1. pc'[d] \notin FileCalls /\ DOMAIN inbox'[d] = {}
      BY <2>1, <2>2 DEF Return, TypeAndShape, TypeOK, FileCalls
    <3>2. QED
      BY <3>1 DEF Ahead
  <2>3. CASE d # c
    BY <2>1, <2>3 DEF Return, Ahead, TypeAndShape, TypeOK
  <2>4. QED
    BY <2>2, <2>3
<1>5. ASSUME NEW c \in Conns,
             \/ StatLabels(c) \/ CreateLabels(c) \/ WriteLabels(c) \/ StatCast(c) \/ CreateCast(c)
             \/ WriteHeader(c) \/ OpenAppend(c) \/ ReadHeader(c) \/ AppendEvent(c)
      PROVE  Ahead(d)' \subseteq Ahead(d)
  <2>1. /\ pc[c] \in FileCalls /\ pc' = [pc EXCEPT ![c] = pc'[c]]
        /\ UNCHANGED <<inbox, cur>>
    BY <1>5 DEF StatLabels, CreateLabels, WriteLabels, StatCast, CreateCast, WriteHeader, OpenAppend,
       ReadHeader, AppendEvent, Goto, FileCalls, TypeAndShape, TypeOK, connVars
  <2>2. QED
    BY <2>1 DEF Ahead, TypeAndShape, TypeOK
<1>6. ASSUME NEW c \in Conns, Read(c) PROVE Ahead(d)' \subseteq Ahead(d)
  <2>1. CASE d # c
    BY <1>6, <2>1 DEF Read, Goto, Ahead, TypeAndShape, TypeOK
  <2>2. CASE d = c
    <3>1. /\ inbox[c] \in Seq(Writes) /\ inbox[c] # <<>>
          /\ cur'[c] = Head(inbox[c]) /\ inbox'[c] = Tail(inbox[c])
      BY <1>6 DEF Read, TypeAndShape, TypeOK
    <3>2. /\ 1 \in DOMAIN inbox[c] /\ cur'[c] = inbox[c][1]
          /\ \A i \in DOMAIN inbox'[c] : i + 1 \in DOMAIN inbox[c] /\ inbox'[c][i] = inbox[c][i + 1]
      BY <3>1
    <3>3. QED
      BY <2>2, <3>2 DEF Ahead
  <2>3. QED
    BY <2>1, <2>2
<1>7. ASSUME NEW c \in Conns,
             ReadError(c) \/ WriteHeaderFails(c) \/ BadHeader(c) \/ AppendFails(c) \/ OpenFails(c)
      PROVE  Ahead(d)' \subseteq Ahead(d)
  BY <1>1, <1>7 DEF ReadError, WriteHeaderFails, BadHeader, AppendFails, OpenFails
<1>8. CASE Kill
  BY <1>1, <1>8 DEF Kill
<1>9. QED
  BY <1>1, <1>2, <1>3, <1>4, <1>5, <1>6, <1>7, <1>8 DEF Step

(* A record that comes in is one that no handler and no file has.          *)
LEMMA OnceDeliver ==
  ASSUME OnceInv, TypeAndShape, OrderInv, NEW c \in Conns, NEW w \in Writes, Deliver(c, w)
  PROVE  OnceInv'
<1>1. w \notin sent
  BY CastFileAssumption DEF Deliver
<1>2. \A d \in Conns : Ahead(d) \subseteq sent
  BY DEF OrderInv, Queued, Ahead
<1>3. /\ UNCHANGED castData /\ sent' = sent \union {w}
      /\ \A d \in Conns \ {c} : Ahead(d)' = Ahead(d)
  BY DEF Deliver, handlerVars, dirVars, Ahead, TypeAndShape, TypeOK
<1>4. Ahead(c)' \subseteq Ahead(c) \union {w}
  <2>1. inbox[c] \in Seq(Writes) /\ inbox'[c] = Append(inbox[c], w) /\ UNCHANGED <<pc, cur>>
    BY DEF Deliver, handlerVars, TypeAndShape, TypeOK
  <2>2. \A i \in DOMAIN inbox'[c] : inbox'[c][i] = w \/ (i \in DOMAIN inbox[c] /\ inbox'[c][i] = inbox[c][i])
    BY <2>1
  <2>3. QED
    BY <2>1, <2>2 DEF Ahead
<1>5. ASSUME NEW a \in Conns, NEW b \in Conns, a # b PROVE Ahead(a)' \intersect Ahead(b)' = {}
  <2>1. Ahead(a) \intersect Ahead(b) = {}
    BY <1>5 DEF OnceInv
  <2>2. QED
    BY <1>1, <1>2, <1>3, <1>4, <1>5, <2>1
<1>6. ASSUME NEW h \in Hashes, NEW i \in DOMAIN castData[h], castData[h][i].write # NoWrite
      PROVE  castData[h][i].write \in sent' /\ \A d \in Conns : castData[h][i].write \notin Ahead(d)'
  BY <1>1, <1>3, <1>4, <1>6 DEF OnceInv
<1>7. QED
  BY <1>3, <1>5, <1>6 DEF OnceInv

(* The steps of a handler that write to a cast file.                       *)
LEMMA OnceCastStep ==
  ASSUME OnceInv, TypeAndShape, OrderInv, NEW c \in Conns,
         WriteHeader(c) \/ WriteHeaderFails(c) \/ AppendEvent(c) \/ AppendFails(c)
  PROVE  OnceInv'
<1> DEFINE w == cur[c]
           h == HashOf[cur[c]]
<1>1. pc[c] \in FileCalls /\ w \in Writes /\ h \in Hashes /\ SecondsOf[w] \in Seconds
  BY CurrentHash DEF WriteHeader, WriteHeaderFails, AppendEvent, AppendFails, FileCalls, TypeAndShape
<1>2. \A d \in Conns : Ahead(d)' \subseteq Ahead(d)
  BY AheadShrinks DEF Step
<1>3. UNCHANGED sent
  BY DEF WriteHeader, WriteHeaderFails, AppendEvent, AppendFails, Fatal, connVars
<1>4. files[c][h].off \in Nat /\ files[c][h].off <= Len(castData[h])
  BY <1>1 DEF TypeAndShape, TypeOK, Shape, Handle
<1>5. ASSUME WriteHeader(c) \/ WriteHeaderFails(c) PROVE OnceInv'
  <2>1. PICK data \in Seq(Cell) :
          /\ castData' = [castData EXCEPT ![h] = WriteAt(@, files[c][h].off, data)]
          /\ \A i \in 1..Len(data) : data[i].write = NoWrite
    <3> DEFINE s == SecondsOf[w]
    <3>1. /\ Header(s) \in Seq(Cell) /\ Len(Header(s)) \in Nat
          /\ \A i \in 1..Len(Header(s)) : Header(s)[i].write = NoWrite
      <4>1. s \in Seconds
        BY <1>1
      <4> HIDE DEF s
      <4>2. /\ Header(s) \in Seq(Cell) /\ Len(Header(s)) = HeaderSize[s] /\ HeaderSize[s] \in Nat
            /\ \A i \in 1..HeaderSize[s] : Header(s)[i] = HeaderCell(s, i)
        BY <4>1, HeaderType
      <4>3. \A i : HeaderCell(s, i).write = NoWrite
        BY DEF HeaderCell
      <4>4. QED
        BY <4>2, <4>3
    <3>2. CASE WriteHeader(c)
      BY <3>1, <3>2 DEF WriteHeader
    <3>3. CASE WriteHeaderFails(c)
      <4>1. PICK part \in ShortWrites(Header(s)) :
              castData' = [castData EXCEPT ![h] = WriteAt(@, files[c][h].off, part)]
        BY <3>3 DEF WriteHeaderFails
      <4>2. /\ part \in Seq(Cell) /\ Len(part) <= Len(Header(s)) /\ Len(part) \in Nat
            /\ \A i \in 1..Len(part) : part[i] = Header(s)[i]
        BY <3>1, ShortWriteType
      <4>3. QED
        <5>1. \A i \in 1..Len(part) : i \in 1..Len(Header(s))
          BY <3>1, <4>2
        <5>2. QED
          BY <3>1, <4>1, <4>2, <5>1
    <3>4. QED
      BY <1>5, <3>2, <3>3
  <2> DEFINE off == files[c][h].off
  <2>2. off \in Nat /\ off <= Len(castData[h]) /\ castData' = [castData EXCEPT ![h] = WriteAt(@, off, data)]
    BY <1>4, <2>1
  <2>3. \A i \in 1..Len(data) : \/ data[i].write = NoWrite
                                \/ data[i].write = cur[c] /\ \A d \in Conns : cur[c] \notin Ahead(d)'
    BY <2>1
  <2> HIDE DEF h, off
  <2>4. QED
    BY <1>1, <1>2, <1>3, <2>2, <2>3, OnceWrite
<1>6. ASSUME AppendEvent(c) \/ AppendFails(c) PROVE OnceInv'
  <2>1. pc[c] = "append" /\ timestamps[c][h] \in Seconds
    BY <1>6 DEF AppendEvent, AppendFails, TypeAndShape, TypeOK
  <2>2. \A d \in Conns : w \notin Ahead(d)'
    <3>1. CASE AppendFails(c)
      BY <3>1 DEF AppendFails, Fatal, DropAll, Ahead, FileCalls
    <3>2. CASE AppendEvent(c)
      <4>1. pc'[c] = "read" /\ UNCHANGED <<inbox, cur>>
        BY <3>2 DEF AppendEvent, Goto, connVars, TypeAndShape, TypeOK
      <4>2. \A i \in DOMAIN inbox[c] : w < inbox[c][i]
        BY <1>1 DEF OrderInv, Queued
      <4>3. w \notin Ahead(c)'
        <5>1. \A i \in DOMAIN inbox[c] : inbox[c][i] # w
          <6>1. w \in Nat
            BY <1>1, CastFileAssumption
          <6> HIDE DEF w
          <6>2. QED
            BY <4>2, <6>1
        <5>2. pc'[c] \notin FileCalls
          BY <4>1 DEF FileCalls
        <5>3. QED
          BY <4>1, <5>1, <5>2 DEF Ahead
      <4>4. \A d \in Conns \ {c} : w \notin Ahead(d)'
        BY <1>1, <1>2 DEF OnceInv, Ahead
      <4>5. QED
        BY <4>3, <4>4
    <3>3. QED
      BY <1>6, <3>1, <3>2
  <2>3. PICK data \in Seq(Cell) :
          /\ castData' = [castData EXCEPT ![h] = WriteAt(@, Position(c, h), data)]
          /\ \A i \in 1..Len(data) : data[i].write = w
    <3> DEFINE s == timestamps[c][h]
    <3>1. /\ Event(w, s) \in Seq(Cell) /\ Len(Event(w, s)) \in Nat
          /\ \A i \in 1..Len(Event(w, s)) : Event(w, s)[i].write = w
      <4>1. s \in Seconds /\ w \in Writes
        BY <1>1, <2>1
      <4> HIDE DEF s, w
      <4>2. /\ Event(w, s) \in Seq(Cell) /\ Len(Event(w, s)) = EntrySize[w] /\ EntrySize[w] \in Nat
            /\ \A i \in 1..EntrySize[w] : Event(w, s)[i] = EventCell(w, s, i)
        BY <4>1, EventType
      <4>3. \A i : EventCell(w, s, i).write = w
        BY DEF EventCell
      <4>4. QED
        BY <4>2, <4>3
    <3>2. CASE AppendEvent(c)
      BY <3>1, <3>2 DEF AppendEvent
    <3>3. CASE AppendFails(c)
      <4>1. PICK part \in ShortWrites(Event(w, s)) :
              castData' = [castData EXCEPT ![h] = WriteAt(@, Position(c, h), part)]
        BY <3>3 DEF AppendFails
      <4>2. /\ part \in Seq(Cell) /\ Len(part) <= Len(Event(w, s)) /\ Len(part) \in Nat
            /\ \A i \in 1..Len(part) : part[i] = Event(w, s)[i]
        BY <3>1, ShortWriteType
      <4>3. QED
        <5>1. \A i \in 1..Len(part) : i \in 1..Len(Event(w, s))
          BY <3>1, <4>2
        <5>2. QED
          BY <3>1, <4>1, <4>2, <5>1
    <3>4. QED
      BY <1>6, <3>2, <3>3
  <2>4. Position(c, h) \in Nat /\ Position(c, h) <= Len(castData[h])
    BY <1>1, PositionType
  <2>5. QED
    BY <1>1, <1>2, <1>3, <2>2, <2>3, <2>4, OnceWrite
<1>7. QED
  BY <1>5, <1>6

LEMMA OnceNext ==
  ASSUME OnceInv, TypeAndShape, OrderInv, [Next]_vars \/ (\E why : Fatal(why) /\ UNCHANGED dirVars)
  PROVE  OnceInv'
<1>1. ASSUME NEW why, Fatal(why), UNCHANGED castData PROVE OnceInv'
  BY <1>1, AheadShrinks, OnceQuiet DEF Fatal
<1>2. ASSUME NEW c \in Conns, Step(c) PROVE OnceInv'
  <2>1. CASE ReadError(c) \/ BadHeader(c) \/ OpenFails(c)
    BY <1>1, <2>1 DEF ReadError, BadHeader, OpenFails, dirVars
  <2>2. CASE \/ Read(c) \/ ReadEOF(c) \/ StatLabels(c) \/ CreateLabels(c) \/ WriteLabels(c)
             \/ WriteLabelsFails(c) \/ StatCast(c) \/ CreateCast(c) \/ OpenAppend(c) \/ ReadHeader(c)
    <3>1. UNCHANGED castData /\ sent \subseteq sent'
      BY <2>2 DEF Read, ReadEOF, StatLabels, CreateLabels, WriteLabels, WriteLabelsFails, StatCast,
         CreateCast, OpenAppend, ReadHeader, dirVars, connVars
    <3>2. QED
      BY <1>2, <3>1, AheadShrinks, OnceQuiet
  <2>3. QED
    BY <1>2, <2>1, <2>2, OnceCastStep DEF Step
<1>3. ASSUME NEW c \in Conns, Environment(c) PROVE OnceInv'
  <2>1. CASE Accept(c) \/ Close(c) \/ Break(c)
    <3>1. UNCHANGED castData /\ sent \subseteq sent'
      BY <2>1 DEF Accept, Close, Break, dirVars
    <3>2. QED
      BY <2>1, <3>1, AheadShrinks, OnceQuiet
  <2>2. QED
    BY <1>3, <2>1, OnceDeliver DEF Environment
<1>4. CASE Kill
  BY <1>1, <1>4 DEF Kill, dirVars
<1>5. CASE Reboot \/ UNCHANGED vars
  <2>1. UNCHANGED castData /\ sent \subseteq sent'
    BY <1>5 DEF Reboot, Restart, vars, uploadVars, connVars, dirVars
  <2>2. QED
    BY <1>5, <2>1, AheadShrinks, OnceQuiet
<1>6. QED
  BY <1>1, <1>2, <1>3, <1>4, <1>5 DEF Next, dirVars

-----------------------------------------------------------------------------
(***************************************************************************)
(* Every step is one of SessionLog, or none.                               *)
(***************************************************************************)

(* What a step does to the cast file of a hash no two handlers share: its  *)
(* whole events stay as they are, or one is added behind all of the file   *)
(* by asciinema.Append.                                                    *)
Stays(h) ==
  /\ Starts(castData'[h]) = Starts(castData[h])
  /\ \A i \in Starts(castData[h]) : castData'[h][i] = castData[h][i]

Grows(h, w) ==
  /\ \A i \in 1..Len(castData[h]) : castData'[h][i] = castData[h][i]
  /\ Starts(castData'[h]) = Starts(castData[h]) \union {Len(castData[h]) + 1}
  /\ castData'[h][Len(castData[h]) + 1].write = w

LEMMA HeaderStays ==
  ASSUME CastInv, NEW c \in Conns, WriteHeader(c) \/ WriteHeaderFails(c),
         NEW h \in Hashes \ contended
  PROVE  Stays(h)
<1> DEFINE g == HashOf[cur[c]]
           s == SecondsOf[cur[c]]
<1>1. TypeAndShape /\ g \in Hashes /\ s \in Seconds /\ pc[c] = "writeHeader"
  BY CurrentHash DEF CastInv, TypeAndShape, WriteHeader, WriteHeaderFails, FileCalls
<1>2. files[c][g].off \in Nat /\ files[c][g].off <= Len(castData[g]) /\ castData \in [Hashes -> Seq(Cell)]
  BY <1>1 DEF TypeAndShape, TypeOK, DataPathTypeOK, Shape, Handle
<1>3. /\ Header(s) \in Seq(Cell) /\ Len(Header(s)) \in Nat
      /\ \A i \in 1..Len(Header(s)) : Header(s)[i].write = NoWrite
  <2> HIDE DEF s
  <2>1. /\ Header(s) \in Seq(Cell) /\ Len(Header(s)) = HeaderSize[s] /\ HeaderSize[s] \in Nat
        /\ \A i \in 1..HeaderSize[s] : Header(s)[i] = HeaderCell(s, i)
    BY <1>1, HeaderType
  <2>2. \A i : HeaderCell(s, i).write = NoWrite
    BY DEF HeaderCell
  <2>3. QED
    BY <2>1, <2>2
<1>4. PICK data \in Seq(Cell) :
        /\ castData' = [castData EXCEPT ![g] = WriteAt(@, files[c][g].off, data)]
        /\ \A i \in 1..Len(data) : data[i].write = NoWrite
  <2>1. CASE WriteHeader(c)
    BY <1>3, <2>1 DEF WriteHeader
  <2>2. CASE WriteHeaderFails(c)
    <3>1. PICK part \in ShortWrites(Header(s)) :
            castData' = [castData EXCEPT ![g] = WriteAt(@, files[c][g].off, part)]
      BY <2>2 DEF WriteHeaderFails
    <3>2. /\ part \in Seq(Cell) /\ Len(part) <= Len(Header(s)) /\ Len(part) \in Nat
          /\ \A i \in 1..Len(part) : part[i] = Header(s)[i]
      BY <1>3, ShortWriteType
    <3>3. \A i \in 1..Len(part) : i \in 1..Len(Header(s))
      BY <1>3, <3>2
    <3>4. QED
      BY <1>3, <3>1, <3>2, <3>3
  <2>3. QED
    BY <2>1, <2>2
<1> HIDE DEF g, s
<1>5. CASE h # g
  BY <1>2, <1>4, <1>5 DEF Stays
<1>6. CASE h = g
  <2>1. castData[h] = <<>>
    BY <1>1, <1>6 DEF CastInv, Session, Exclusive, g
  <2>2. files[c][g].off = 0 /\ castData'[h] = WriteAt(<<>>, 0, data)
    BY <1>1, <1>2, <1>4, <1>6, <2>1
  <2>3. /\ castData'[h] \in Seq(Cell) /\ Len(castData'[h]) = Len(data)
        /\ \A i \in 1..Len(data) : castData'[h][i] = data[i]
    <3>1. WriteAt(<<>>, 0, data) = [i \in 1..Len(data) |-> data[i]]
      BY DEF WriteAt
    <3>2. [i \in 1..Len(data) |-> data[i]] = data
      OBVIOUS
    <3>3. QED
      BY <2>2, <3>1, <3>2
  <2>4. Starts(castData'[h]) = {}
    BY <1>4, <2>3, NoStarts
  <2>5. Starts(castData[h]) = {}
    BY <2>1 DEF Starts
  <2>6. QED
    BY <2>4, <2>5 DEF Stays
<1>7. QED
  BY <1>5, <1>6

LEMMA AppendStaysOrGrows ==
  ASSUME CastInv, NEW c \in Conns, AppendEvent(c) \/ AppendFails(c), NEW h \in Hashes \ contended
  PROVE  /\ AppendEvent(c) /\ h = HashOf[cur[c]] => Grows(h, cur[c])
         /\ AppendFails(c) \/ h # HashOf[cur[c]] => Stays(h)
<1> DEFINE w == cur[c]
           g == HashOf[cur[c]]
           s == timestamps[c][g]
           off == Position(c, g)
<1>1. /\ TypeAndShape /\ w \in Writes /\ g \in Hashes /\ pc[c] = "append" /\ s \in Seconds
      /\ castData \in [Hashes -> Seq(Cell)]
  BY CurrentHash DEF CastInv, TypeAndShape, TypeOK, DataPathTypeOK, AppendEvent, AppendFails, FileCalls
<1>2. /\ Event(w, s) \in Seq(Cell) /\ Len(Event(w, s)) = EntrySize[w] /\ EntrySize[w] \in Nat
      /\ \A i \in 1..EntrySize[w] : Event(w, s)[i] = EventCell(w, s, i)
  BY <1>1, EventType
<1>3. PICK data \in Seq(Cell) :
        /\ castData' = [castData EXCEPT ![g] = WriteAt(@, off, data)]
        /\ \A i \in 1..Len(data) : data[i] = EventCell(w, s, i)
        /\ Len(data) <= EntrySize[w]
        /\ IF AppendEvent(c) THEN Len(data) = EntrySize[w] ELSE Len(data) < EntrySize[w]
  <2>1. CASE AppendEvent(c)
    <3>1. castData' = [castData EXCEPT ![g] = WriteAt(@, off, Event(w, s))]
      BY <2>1 DEF AppendEvent
    <3> DEFINE e == Event(w, s)
    <3>2. /\ e \in Seq(Cell) /\ \A i \in 1..Len(e) : e[i] = EventCell(w, s, i)
          /\ Len(e) <= EntrySize[w] /\ Len(e) = EntrySize[w]
          /\ castData' = [castData EXCEPT ![g] = WriteAt(@, off, e)]
      BY <1>2, <3>1
    <3> HIDE DEF w, g, s, off, e
    <3>3. QED
      BY <2>1, <3>2
  <2>2. CASE ~AppendEvent(c)
    <3>1. PICK part \in ShortWrites(Event(w, s)) :
            castData' = [castData EXCEPT ![g] = WriteAt(@, off, part)]
      BY <2>2 DEF AppendFails
    <3>2. PICK k \in 0..(EntrySize[w] - 1) : part = SubSeq(Event(w, s), 1, k)
      BY <1>2 DEF ShortWrites
    <3>3. /\ part \in Seq(Cell) /\ Len(part) = k
          /\ \A i \in 1..k : part[i] = Event(w, s)[i]
      <4> HIDE DEF w, s
      <4>1. QED
        BY <1>2, <3>2
    <3>4. \A i \in 1..k : part[i] = EventCell(w, s, i)
      BY <1>2, <3>3
    <3>5. QED
      <4>1. k < EntrySize[w] /\ k <= EntrySize[w]
        BY <1>2
      <4> HIDE DEF w, g, s, off
      <4>2. QED
        BY <2>2, <3>1, <3>3, <3>4, <4>1
  <2>3. QED
    BY <2>1, <2>2
<1>4. ~(AppendEvent(c) /\ AppendFails(c))
  BY <1>1 DEF AppendEvent, AppendFails, Goto, Fatal, DropAll, TypeAndShape, TypeOK
<1>5. CASE h # g
  <2>1. castData'[h] = castData[h]
    BY <1>1, <1>3, <1>5
  <2>2. QED
    BY <1>5, <2>1 DEF Stays
<1>6. CASE h = g
  <2>1. off = Len(castData[g])
    BY <1>1, <1>6, AppendsAtEnd DEF CastInv, Session
  <2>2. castData'[g] = WriteAt(castData[g], Len(castData[g]), data)
    BY <1>1, <1>3, <2>1
  <2> HIDE DEF w, g, s, off
  <2>3. /\ \A i \in 1..Len(castData[g]) : castData'[g][i] = castData[g][i]
        /\ Len(data) < EntrySize[w] => Starts(castData'[g]) = Starts(castData[g])
        /\ Len(data) = EntrySize[w] =>
             /\ Starts(castData'[g]) = Starts(castData[g]) \union {Len(castData[g]) + 1}
             /\ castData'[g][Len(castData[g]) + 1].write = w
    BY <1>1, <1>3, <2>2, StartsOfAppend
  <2>4. Starts(castData[g]) \subseteq 1..Len(castData[g])
    BY <1>1, StartsType
  <2>5. AppendEvent(c) => Grows(g, w)
    BY <1>3, <2>3 DEF Grows
  <2>6. ~AppendEvent(c) => Stays(g)
    BY <1>3, <2>3, <2>4 DEF Stays
  <2>7. QED
    BY <1>4, <1>6, <2>5, <2>6 DEF g, w
<1>7. QED
  BY <1>5, <1>6

(* Only the four writes to a cast file change one.                         *)
LEMMA WhatAStepDoes ==
  ASSUME CastInv, [Next]_vars \/ (\E why : Fatal(why) /\ UNCHANGED dirVars)
  PROVE  \/ \E c \in Conns : /\ AppendEvent(c) /\ cur[c] \in Writes
                             /\ UNCHANGED contended
                             /\ \A h \in Hashes \ contended :
                                  IF h = HashOf[cur[c]] THEN Grows(h, cur[c]) ELSE Stays(h)
         \/ /\ contended' = contended \/ \E h \in Hashes : contended' = contended \union {h}
            /\ \A h \in Hashes \ contended : Stays(h)
<1> DEFINE Quiet == UNCHANGED <<castData, contended>>
           Write(c) == WriteHeader(c) \/ WriteHeaderFails(c) \/ AppendEvent(c) \/ AppendFails(c)
<1>1. ASSUME UNCHANGED castData, NEW h \in Hashes PROVE Stays(h)
  BY <1>1 DEF Stays
<1>2. ASSUME NEW why, Fatal(why), UNCHANGED dirVars PROVE Quiet
  BY <1>2 DEF Fatal, histVars, dirVars
<1>3. ASSUME NEW c \in Conns, Environment(c) PROVE Quiet
  BY <1>3 DEF Environment, Accept, Deliver, Close, Break, histVars, dirVars
<1>4. ASSUME Kill \/ Reboot \/ UNCHANGED vars PROVE Quiet
  <2>1. CASE Kill
    BY <1>2, <2>1 DEF Kill
  <2>2. CASE Reboot \/ UNCHANGED vars
    BY <2>2 DEF Reboot, Restart, vars, uploadVars, histVars, dirVars
  <2>3. QED
    BY <1>4, <2>1, <2>2
<1>5. ASSUME NEW c \in Conns, Step(c), ~Write(c), ~StatCast(c) PROVE Quiet
  <2>1. CASE ReadError(c) \/ BadHeader(c) \/ OpenFails(c)
    BY <1>2, <2>1 DEF ReadError, BadHeader, OpenFails
  <2>2. CASE \/ Read(c) \/ ReadEOF(c) \/ StatLabels(c) \/ CreateLabels(c) \/ WriteLabels(c)
             \/ WriteLabelsFails(c) \/ CreateCast(c) \/ OpenAppend(c) \/ ReadHeader(c)
    BY <2>2 DEF Read, ReadEOF, StatLabels, CreateLabels, WriteLabels, WriteLabelsFails,
       CreateCast, OpenAppend, ReadHeader, histVars, dirVars
  <2>3. QED
    BY <1>5, <2>1, <2>2 DEF Step
<1>6. ASSUME NEW c \in Conns, StatCast(c)
      PROVE  UNCHANGED castData /\ (contended' = contended \/ \E h \in Hashes : contended' = contended \union {h})
  <2>1. HashOf[cur[c]] \in Hashes
    BY <1>6, CurrentHash DEF StatCast, FileCalls, CastInv
  <2>2. QED
    BY <1>6, <2>1 DEF StatCast, dirVars
<1>7. ASSUME NEW c \in Conns, Write(c) PROVE UNCHANGED contended
  BY <1>7 DEF WriteHeader, WriteHeaderFails, AppendEvent, AppendFails, Fatal, histVars
<1>8. ASSUME NEW c \in Conns, AppendEvent(c) PROVE cur[c] \in Writes
  BY <1>8, CurrentHash DEF AppendEvent, FileCalls, CastInv
<1>9. ASSUME NEW c \in Conns, AppendEvent(c), NEW h \in Hashes \ contended
      PROVE  IF h = HashOf[cur[c]] THEN Grows(h, cur[c]) ELSE Stays(h)
  BY <1>9, AppendStaysOrGrows
<1>10. ASSUME NEW c \in Conns, WriteHeader(c) \/ WriteHeaderFails(c) \/ AppendFails(c),
              NEW h \in Hashes \ contended
       PROVE  Stays(h)
  BY <1>10, HeaderStays, AppendStaysOrGrows
<1>11. CASE Quiet
  BY <1>1, <1>11
<1>12. ASSUME NEW c \in Conns, StatCast(c)
       PROVE  /\ contended' = contended \/ \E h \in Hashes : contended' = contended \union {h}
              /\ \A h \in Hashes \ contended : Stays(h)
  BY <1>1, <1>6, <1>12
<1> HIDE DEF Quiet
<1>13. QED
  BY <1>2, <1>3, <1>4, <1>5, <1>7, <1>8, <1>9, <1>10, <1>11, <1>12 DEF Next

(* The ranks of the whole events of every file are filled.                 *)
RanksInv == \A h \in Hashes \ contended : Filled(Starts(castData[h]))

LEMMA RanksInit == Init => RanksInv
<1> SUFFICES ASSUME Init, NEW h \in Hashes PROVE Filled(Starts(castData[h]))
  BY DEF RanksInv
<1>1. Starts(castData[h]) = {}
  BY DEF Init, DataPathInit, Starts
<1>2. QED
  BY <1>1, FS_EmptySet DEF Filled

LogInv == CastInv /\ OrderInv /\ OnceInv /\ RanksInv

(* The step that appends an event records its write, which is in no file;  *)
(* the one that opens a file someone else has open shares it; every other  *)
(* leaves what can be replayed as it is.                                   *)
LEMMA LogStep ==
  ASSUME LogInv, [Next]_vars \/ (\E why : Fatal(why) /\ UNCHANGED dirVars)
  PROVE  RanksInv' /\ [Log!Next]_(Log!logVars)
<1>0. castData \in [Hashes -> Seq(Cell)] /\ contended \subseteq Hashes
  BY DEF LogInv, CastInv, TypeOK, DataPathTypeOK
<1>1. ASSUME NEW h \in Hashes \ contended, Stays(h)
      PROVE  Replay(castData'[h]) = Replay(castData[h]) /\ Filled(Starts(castData'[h]))
  BY <1>1, ReplayKept DEF LogInv, RanksInv, Stays
<1>2. ASSUME NEW h \in Hashes \ contended, NEW w, Grows(h, w)
      PROVE  Replay(castData'[h]) = Append(Replay(castData[h]), w) /\ Filled(Starts(castData'[h]))
  BY <1>0, <1>2, ReplayGrows DEF LogInv, RanksInv, Grows
<1>3. ASSUME NEW c \in Conns, AppendEvent(c), cur[c] \in Writes, UNCHANGED contended,
             \A h \in Hashes \ contended : IF h = HashOf[cur[c]] THEN Grows(h, cur[c]) ELSE Stays(h)
      PROVE  RanksInv' /\ [Log!Next]_(Log!logVars)
  <2> DEFINE w == cur[c]
             g == HashOf[cur[c]]
  <2>1. g \in Hashes
    BY <1>3, CastFileAssumption
  <2>2. RanksInv'
    BY <1>1, <1>2, <1>3 DEF RanksInv
  <2>3. \A h \in Hashes \ contended : h # g => Replay(castData'[h]) = Replay(castData[h])
    BY <1>1, <1>3
  <2>4. CASE g \in contended
    <3>1. Replayed' = Replayed
      BY <1>3, <2>3, <2>4 DEF Replayed
    <3>2. QED
      BY <1>3, <2>2, <3>1 DEF Log!logVars
  <2>5. CASE g \notin contended
    <3>1. Replay(castData'[g]) = Append(Replay(castData[g]), w)
      BY <1>2, <1>3, <2>1, <2>5
    <3>2. Replayed' = [Replayed EXCEPT ![g] = Append(@, w)]
      BY <1>3, <2>1, <2>3, <2>5, <3>1 DEF Replayed
    <3>3. ASSUME NEW i \in DOMAIN Replay(castData[g]) PROVE Replay(castData[g])[i] # w
      <4> DEFINE f == castData[g]
                 a == CHOOSE j \in Ranked(i, Starts(f)) : TRUE
      <4>1. Replay(f)[i] = f[a].write /\ i \in 1..Cardinality(Starts(f))
        BY <3>3 DEF Replay
      <4>2. a \in Starts(f)
        BY <2>1, <2>5, <4>1 DEF LogInv, RanksInv, Filled, Ranked
      <4>3. f \in Seq(Cell)
        BY <1>0, <2>1
      <4> HIDE DEF a
      <4>4. a \in DOMAIN f /\ f[a].write \in Writes
        BY <4>2 DEF Starts
      <4>5. f[a].write # NoWrite
        BY <4>4, CastFileAssumption
      <4>6. f[a].write \notin Ahead(c)
        BY <2>1, <4>4, <4>5 DEF LogInv, OnceInv
      <4>7. w \in Ahead(c)
        BY <1>3 DEF AppendEvent, Ahead, FileCalls
      <4>8. QED
        BY <4>1, <4>6, <4>7
    <3>4. Replayed[g] = Replay(castData[g])
      BY <2>1, <2>5 DEF Replayed
    <3>5. Log!Record(w)
      BY <1>3, <2>5, <3>2, <3>3, <3>4 DEF Log!Record
    <3>6. QED
      BY <1>3, <2>2, <3>5 DEF Log!Next
  <2>6. QED
    BY <2>4, <2>5
<1>4. ASSUME \A h \in Hashes \ contended : Stays(h),
             contended' = contended \/ \E h \in Hashes : contended' = contended \union {h}
      PROVE  RanksInv' /\ [Log!Next]_(Log!logVars)
  <2>1. \A h \in Hashes \ contended : Replay(castData'[h]) = Replay(castData[h])
    BY <1>1, <1>4
  <2>2. RanksInv'
    BY <1>1, <1>4 DEF RanksInv
  <2>3. CASE contended' = contended
    <3>1. Replayed' = Replayed
      BY <2>1, <2>3 DEF Replayed
    <3>2. QED
      BY <2>2, <2>3, <3>1 DEF Log!logVars
  <2>4. ASSUME NEW h \in Hashes, contended' = contended \union {h}
        PROVE  Log!Share(h)
    <3>1. Replayed' = [Replayed EXCEPT ![h] = <<>>]
      BY <2>1, <2>4 DEF Replayed
    <3>2. QED
      BY <2>4, <3>1 DEF Log!Share
  <2>5. QED
    BY <1>4, <2>2, <2>3, <2>4 DEF Log!Next
<1>5. QED
  BY <1>3, <1>4, WhatAStepDoes DEF LogInv

LEMMA LogInit == Init => LogInv /\ Log!Init
<1>1. Init => Log!Init
  <2> SUFFICES ASSUME Init PROVE Replayed = [h \in Hashes |-> <<>>] /\ contended = {}
    BY DEF Log!Init
  <2>1. ASSUME NEW h \in Hashes PROVE Replay(castData[h]) = <<>>
    <3>1. Starts(castData[h]) = {}
      BY DEF Init, DataPathInit, Starts
    <3>2. QED
      BY <3>1, FS_EmptySet DEF Replay
  <2>2. QED
    BY <2>1 DEF Init, Replayed
<1>2. QED
  BY <1>1, CastInit, OrderInit, OnceInit, RanksInit DEF LogInv

(* Whatever the handlers of any number of connections do, whichever writes *)
(* fall short and however often the server exits, the whole events of the  *)
(* uncontended cast files are a SessionLog: the only change a step makes   *)
(* to them is one write of that session, never seen before, at the end.    *)
THEOREM UploadImplementsLog == Spec => ImplementsLog
<1>1. LogInv /\ [Next]_vars => LogInv' /\ [Log!Next]_(Log!logVars)
  <2> SUFFICES ASSUME LogInv, [Next]_vars PROVE LogInv' /\ [Log!Next]_(Log!logVars)
    OBVIOUS
  <2>1. TypeAndShape
    BY DEF LogInv, CastInv, TypeAndShape
  <2>2. CastInv' /\ OrderInv' /\ OnceInv'
    BY <2>1, CastNext, OrderNext, OnceNext DEF LogInv
  <2>3. QED
    BY <2>2, LogStep DEF LogInv
<1>2. QED
  BY <1>1, LogInit, PTL DEF Spec, ImplementsLog, Log!Spec

(* The same beside any number of list handlers, any of which may end the   *)
(* process between two steps of an upload.                                 *)
THEOREM ServerImplementsLog == ServerSpec => ImplementsLog
<1>1. LogInv /\ [ServerNext]_serverVars => LogInv' /\ [Log!Next]_(Log!logVars)
  <2> SUFFICES ASSUME LogInv, [ServerNext]_serverVars PROVE LogInv' /\ [Log!Next]_(Log!logVars)
    OBVIOUS
  <2>1. TypeAndShape
    BY DEF LogInv, CastInv, TypeAndShape
  <2>2. [Next]_vars \/ (\E why : Fatal(why) /\ UNCHANGED dirVars)
    BY ServerStep
  <2>3. CastInv' /\ OrderInv'
    BY RecordingsKeep DEF LogInv
  <2>4. OnceInv'
    BY <2>1, <2>2, OnceNext DEF LogInv
  <2>5. QED
    BY <2>2, <2>3, <2>4, LogStep DEF LogInv
<1>2. QED
  BY <1>1, LogInit, PTL DEF ServerSpec, ServerInit, ImplementsLog, Log!Spec
=============================================================================
