---------------------------- MODULE CaptureProofs ----------------------------
(***************************************************************************)
(* The order of terminal writes on their way to a connection, and what     *)
(* becomes of each of them, for any ring size and any number of            *)
(* processors, writes and broken connections.                              *)
(***************************************************************************)
EXTENDS Capture, FiniteSetTheorems, TLAPS

Samples == [type : {"sample"}, t : Nat]
Records == Samples \union [type : {"lost"}, n : Nat]

\* The sets the stages of the path are sequences of.
Stages ==
  /\ clock \in Nat /\ rbLost \in Nat
  /\ ring \in Seq(Records)
  /\ incoming \in Seq(Samples) /\ record \in Seq(Samples) /\ put \in Seq(Samples)

Rising(s) == \A i, j \in DOMAIN s : i < j => s[i].t < s[j].t
Below(s, t) == \A i \in DOMAIN s : s[i].t < t

\* What is later on the path is older.
RingLater ==
  \A k \in DOMAIN ring : ring[k].type = "sample" =>
    /\ Below(put, ring[k].t) /\ Below(record, ring[k].t) /\ Below(incoming, ring[k].t)
    /\ ring[k].t <= clock
    /\ \A l \in DOMAIN ring : ring[l].type = "sample" /\ k < l => ring[k].t < ring[l].t

Behind ==
  /\ Rising(put) /\ Rising(record) /\ Rising(incoming)
  /\ \A i \in DOMAIN record : Below(put, record[i].t)
  /\ \A i \in DOMAIN incoming : Below(put, incoming[i].t) /\ Below(record, incoming[i].t)
  /\ Below(put, clock + 1) /\ Below(record, clock + 1) /\ Below(incoming, clock + 1)

PathInv == Stages /\ Behind /\ RingLater

-----------------------------------------------------------------------------
(* Sequences of samples *)

(* Sorting samples whose times rise gives such samples, and no others.     *)
LEMMA SortedRises ==
  ASSUME NEW s \in Seq(Samples), Rising(s)
  PROVE  /\ Sorted(s) \in Seq(Samples) /\ Rising(Sorted(s))
         /\ \A i \in DOMAIN Sorted(s) : \E j \in DOMAIN s : Sorted(s)[i] = s[j]
         /\ \A j \in DOMAIN s : \E i \in DOMAIN Sorted(s) : Sorted(s)[i] = s[j]
<1> DEFINE D == DOMAIN s
           places == Injection(D, D)
           Put(p) == [i \in D |-> s[p[i]]]
           InOrder(r) == \A i, j \in D : i < j => r[i].t <= r[j].t
<1>1. D = 1..Len(s) /\ Len(s) \in Nat /\ \A i \in D : s[i] \in Samples /\ s[i].t \in Nat
  <2>1. D = 1..Len(s) /\ Len(s) \in Nat /\ \A i \in D : s[i] \in Samples
    OBVIOUS
  <2>2. QED
    BY <2>1 DEF Samples
<1>2. Put([i \in D |-> i]) \in {Put(p) : p \in places} /\ InOrder(Put([i \in D |-> i]))
  <2>1. [i \in D |-> i] \in places
    BY DEF Injection, IsInjective
  <2>2. InOrder(Put([i \in D |-> i]))
    BY <1>1 DEF Rising
  <2>3. QED
    BY <2>1, <2>2
<1>3. Sorted(s) \in {Put(p) : p \in places} /\ InOrder(Sorted(s))
  <2>1. Sorted(s) = CHOOSE r \in {Put(p) : p \in places} : InOrder(r)
    BY DEF Sorted
  <2> HIDE DEF InOrder, places, Put
  <2>2. QED
    BY <1>2, <2>1
<1>4. PICK p \in places : Sorted(s) = Put(p)
  BY <1>3
<1>5. /\ p \in [D -> D] /\ DOMAIN Sorted(s) = D
      /\ \A i \in D : Sorted(s)[i] = s[p[i]] /\ p[i] \in D
      /\ \A i, j \in D : i # j => p[i] # p[j]
  BY <1>4 DEF Injection, IsInjective
<1>6. Sorted(s) \in Seq(Samples)
  BY <1>1, <1>4, <1>5
<1>7. ASSUME NEW i \in D, NEW j \in D, i < j PROVE Sorted(s)[i].t < Sorted(s)[j].t
  <2>1. s[p[i]].t <= s[p[j]].t
    BY <1>3, <1>5, <1>7
  <2>2. p[i] \in D /\ p[j] \in D /\ p[i] # p[j]
    BY <1>1, <1>5, <1>7
  <2>3. s[p[i]].t \in Nat /\ s[p[j]].t \in Nat /\ s[p[i]].t # s[p[j]].t
    BY <1>1, <2>2 DEF Rising
  <2>4. QED
    BY <1>5, <2>1, <2>3
<1>8. \A j \in D : \E i \in D : p[i] = j
  <2>1. IsFiniteSet(D)
    BY <1>1, FS_Interval
  <2>2. p \in Surjection(D, D)
    BY <1>4, <2>1, FS_Injection
  <2>3. QED
    BY <2>2 DEF Surjection
<1>9. QED
  BY <1>5, <1>6, <1>7, <1>8 DEF Rising

(* What is below a time is below a later one.                              *)
LEMMA BelowMore ==
  ASSUME NEW s \in Seq(Samples), NEW m \in Nat, NEW n \in Nat, Below(s, m), m <= n
  PROVE  Below(s, n)
<1>1. \A i \in DOMAIN s : s[i] \in Samples
  OBVIOUS
<1>2. \A i \in DOMAIN s : s[i].t \in Nat
  BY <1>1 DEF Samples
<1>3. QED
  BY <1>2 DEF Below

(* A sequence with a later one after it.                                   *)
LEMMA RisingConcat ==
  ASSUME NEW s \in Seq(Samples), NEW u \in Seq(Samples), Rising(s), Rising(u),
         \A j \in DOMAIN u : Below(s, u[j].t)
  PROVE  /\ s \o u \in Seq(Samples) /\ Rising(s \o u)
         /\ \A n \in Nat : Below(s, n) /\ Below(u, n) => Below(s \o u, n)
<1> DEFINE v == s \o u
<1>1. /\ v \in Seq(Samples) /\ Len(v) = Len(s) + Len(u) /\ Len(s) \in Nat /\ Len(u) \in Nat
      /\ \A i \in 1..Len(v) : v[i] = IF i <= Len(s) THEN s[i] ELSE u[i - Len(s)]
  OBVIOUS
<1>2. DOMAIN v = 1..Len(v) /\ DOMAIN s = 1..Len(s) /\ DOMAIN u = 1..Len(u)
  OBVIOUS
<1> HIDE DEF v
<1>3. \A i \in DOMAIN v : \/ i \in DOMAIN s /\ v[i] = s[i]
                          \/ i - Len(s) \in DOMAIN u /\ v[i] = u[i - Len(s)] /\ i > Len(s)
  BY <1>1, <1>2
<1>4. ASSUME NEW i \in DOMAIN v, NEW j \in DOMAIN v, i < j PROVE v[i].t < v[j].t
  <2>1. CASE j \in DOMAIN s
    BY <1>1, <1>2, <1>4, <2>1 DEF Rising
  <2>2. CASE j \notin DOMAIN s /\ i \in DOMAIN s
    BY <1>1, <1>2, <1>3, <1>4, <2>2 DEF Below
  <2>3. CASE i \notin DOMAIN s
    <3>1. i - Len(s) \in DOMAIN u /\ v[i] = u[i - Len(s)] /\ i > Len(s)
      BY <1>3, <2>3
    <3>2. j \notin DOMAIN s /\ i - Len(s) < j - Len(s)
      BY <1>1, <1>2, <1>4, <3>1
    <3>3. j - Len(s) \in DOMAIN u /\ v[j] = u[j - Len(s)]
      BY <1>3, <3>2
    <3>4. QED
      BY <3>1, <3>2, <3>3 DEF Rising
  <2>4. QED
    BY <2>1, <2>2, <2>3
<1>5. Rising(v)
  BY <1>4 DEF Rising
<1>6. \A n \in Nat : Below(s, n) /\ Below(u, n) => Below(v, n)
  BY <1>3 DEF Below
<1>7. QED
  BY <1>1, <1>5, <1>6 DEF v

(* One sample.                                                             *)
LEMMA OneSample ==
  ASSUME NEW x \in Samples
  PROVE  /\ <<x>> \in Seq(Samples) /\ Rising(<<x>>) /\ DOMAIN <<x>> = {1} /\ <<x>>[1] = x
         /\ \A n \in Nat : x.t < n => Below(<<x>>, n)
  BY DEF Rising, Below

-----------------------------------------------------------------------------
(* Steps *)

(* The stages before the ring change; nothing in them reaches the times of *)
(* what is left in the ring.                                               *)
LEMMA RingKept ==
  ASSUME RingLater, UNCHANGED <<ring, clock>>,
         \A k \in DOMAIN ring : ring[k].type = "sample" =>
           Below(put', ring[k].t) /\ Below(record', ring[k].t) /\ Below(incoming', ring[k].t)
  PROVE  RingLater'
  BY DEF RingLater

LEMMA RingTaken ==
  ASSUME Stages, RingLater, ring # <<>>, ring' = Tail(ring), UNCHANGED clock,
         \A k \in DOMAIN ring : ring[k].type = "sample" /\ k > 1 =>
           Below(put', ring[k].t) /\ Below(record', ring[k].t) /\ Below(incoming', ring[k].t)
  PROVE  ring' \in Seq(Records) /\ RingLater'
<1>1. /\ ring' \in Seq(Records)
      /\ \A k \in DOMAIN ring' : k + 1 \in DOMAIN ring /\ k + 1 > 1 /\ k \in Nat /\ ring'[k] = ring[k + 1]
  BY DEF Stages
<1>2. ASSUME NEW k \in DOMAIN ring', ring'[k].type = "sample"
      PROVE  /\ Below(put', ring'[k].t) /\ Below(record', ring'[k].t) /\ Below(incoming', ring'[k].t)
             /\ ring'[k].t <= clock
  BY <1>1, <1>2 DEF RingLater
<1>3. ASSUME NEW k \in DOMAIN ring', ring'[k].type = "sample",
             NEW l \in DOMAIN ring', ring'[l].type = "sample", k < l
      PROVE  ring'[k].t < ring'[l].t
  <2>1. k + 1 < l + 1
    BY <1>1, <1>3
  <2>2. QED
    BY <1>1, <1>3, <2>1 DEF RingLater
<1>4. QED
  BY <1>1, <1>2, <1>3 DEF RingLater

(* The probe's sample is younger than everything on the path.              *)
LEMMA ProbeKeeps ==
  ASSUME PathInv, NEW cpu \in Cpus, kprobe__tty_write(cpu)
  PROVE  PathInv'
<1> DEFINE sample == Sample(clock + 1)
<1>1. clock \in Nat /\ clock' = clock + 1 /\ UNCHANGED <<incoming, record, put>>
  BY DEF kprobe__tty_write, poller, sender, PathInv, Stages
<1>2. sample \in Records /\ sample.type = "sample" /\ sample.t = clock + 1
  BY <1>1 DEF Sample, Samples, Records
<1>3. Below(put, clock + 1) /\ Below(record, clock + 1) /\ Below(incoming, clock + 1)
  BY DEF PathInv, Behind
<1>4. Behind'
  <2>1. Below(put, clock + 2) /\ Below(record, clock + 2) /\ Below(incoming, clock + 2)
    BY <1>1, <1>3, BelowMore DEF PathInv, Stages
  <2>2. clock' + 1 = clock + 2
    BY <1>1
  <2>3. QED
    BY <1>1, <2>1, <2>2 DEF PathInv, Behind
<1>5. CASE UNCHANGED ring
  <2>1. rbLost' \in Nat
    BY DEF kprobe__tty_write, Output, PathInv, Stages
  <2>2. ASSUME NEW k \in DOMAIN ring, ring[k].type = "sample" PROVE ring[k].t <= clock'
    <3>1. ring[k] \in Records
      BY DEF PathInv, Stages
    <3>2. ring[k].t \in Nat
      BY <2>2, <3>1 DEF Records, Samples
    <3>3. ring[k].t <= clock
      BY <2>2 DEF PathInv, RingLater
    <3>4. QED
      BY <1>1, <3>2, <3>3
  <2>3. RingLater'
    BY <1>1, <1>5, <2>2 DEF PathInv, RingLater
  <2>4. QED
    BY <1>1, <1>4, <1>5, <2>1, <2>3 DEF PathInv, Stages
<1>6. ASSUME NEW records \in {<<Lost(rbLost), sample>>, <<sample>>},
             ring' = ring \o records, rbLost' = 0
      PROVE  PathInv'
  <2>1. Lost(rbLost) \in Records /\ Lost(rbLost).type = "lost"
    BY DEF PathInv, Stages, Records, Lost
  <2> HIDE DEF sample
  <2>2. /\ records \in Seq(Records) /\ DOMAIN records = 1..Len(records) /\ Len(records) \in Nat
        /\ \A i \in DOMAIN records : records[i].type = "sample" => records[i].t = clock + 1 /\ i = Len(records)
    <3>1. CASE records = <<sample>>
      <4>1. records \in Seq(Records) /\ DOMAIN records = 1..1 /\ Len(records) = 1 /\ records[1] = sample
        BY <1>2, <3>1
      <4>2. QED
        BY <1>2, <4>1
    <3>2. CASE records = <<Lost(rbLost), sample>>
      <4>1. /\ records \in Seq(Records) /\ DOMAIN records = 1..2 /\ Len(records) = 2
            /\ records[1] = Lost(rbLost) /\ records[2] = sample
        BY <1>2, <2>1, <3>2
      <4>2. QED
        BY <1>2, <2>1, <4>1
    <3>3. QED
      BY <1>6, <3>1, <3>2
  <2>3. /\ ring \in Seq(Records) /\ Len(ring) \in Nat /\ DOMAIN ring = 1..Len(ring)
        /\ \A k \in DOMAIN ring : ring[k] \in Records
    BY DEF PathInv, Stages
  <2>4. /\ ring' \in Seq(Records) /\ DOMAIN ring' = 1..(Len(ring) + Len(records))
        /\ \A k \in DOMAIN ring' : ring'[k] = IF k <= Len(ring) THEN ring[k] ELSE records[k - Len(ring)]
    BY <1>6, <2>2, <2>3
  <2>5. \A k \in DOMAIN ring : ring[k].type = "sample" =>
          /\ Below(put, ring[k].t) /\ Below(record, ring[k].t) /\ Below(incoming, ring[k].t)
          /\ ring[k].t \in Nat /\ ring[k].t <= clock
    BY <2>3 DEF PathInv, RingLater, Records, Samples
  <2>6. \A k \in DOMAIN ring' : ring'[k].type = "sample" =>
          \/ k \in DOMAIN ring /\ ring'[k] = ring[k]
          \/ k = Len(ring) + Len(records) /\ ring'[k].t = clock + 1
    <3>1. ASSUME NEW k \in DOMAIN ring', ring'[k].type = "sample", k > Len(ring)
          PROVE  k = Len(ring) + Len(records) /\ ring'[k].t = clock + 1
      <4>1. k - Len(ring) \in DOMAIN records /\ ring'[k] = records[k - Len(ring)]
        BY <2>2, <2>3, <2>4, <3>1
      <4>2. k - Len(ring) = Len(records) /\ ring'[k].t = clock + 1
        BY <2>2, <3>1, <4>1
      <4>3. QED
        BY <2>2, <2>3, <2>4, <4>2
    <3>2. \A k \in DOMAIN ring' : k <= Len(ring) => k \in DOMAIN ring /\ ring'[k] = ring[k]
      BY <2>2, <2>3, <2>4
    <3>3. \A k \in DOMAIN ring' : k <= Len(ring) \/ k > Len(ring)
      BY <2>2, <2>3, <2>4
    <3>4. QED
      BY <3>1, <3>2, <3>3
  <2>7. RingLater'
    <3>1. ASSUME NEW k \in DOMAIN ring', ring'[k].type = "sample"
          PROVE  /\ Below(put, ring'[k].t) /\ Below(record, ring'[k].t) /\ Below(incoming, ring'[k].t)
                 /\ ring'[k].t <= clock + 1
      <4>1. CASE k \in DOMAIN ring /\ ring'[k] = ring[k]
        BY <1>1, <2>5, <3>1, <4>1
      <4>2. CASE ring'[k].t = clock + 1
        BY <1>1, <1>3, <4>2
      <4>3. QED
        BY <2>6, <3>1, <4>1, <4>2
    <3>2. ASSUME NEW k \in DOMAIN ring', ring'[k].type = "sample",
                 NEW l \in DOMAIN ring', ring'[l].type = "sample", k < l
          PROVE  ring'[k].t < ring'[l].t
      <4>1. k \in DOMAIN ring /\ ring'[k] = ring[k]
        BY <2>2, <2>3, <2>4, <2>6, <3>2
      <4>2. CASE l \in DOMAIN ring /\ ring'[l] = ring[l]
        BY <3>2, <4>1, <4>2 DEF PathInv, RingLater
      <4>3. CASE ring'[l].t = clock + 1
        BY <1>1, <2>5, <3>2, <4>1, <4>3
      <4>4. QED
        BY <2>6, <3>2, <4>2, <4>3
    <3>3. QED
      BY <1>1, <3>1, <3>2 DEF RingLater
  <2>8. QED
    BY <1>1, <1>4, <1>6, <2>4, <2>7 DEF PathInv, Stages
<1>7. \/ UNCHANGED ring
      \/ \E records \in {<<Lost(rbLost), sample>>, <<sample>>} : ring' = ring \o records /\ rbLost' = 0
  BY DEF kprobe__tty_write, Output
<1>8. QED
  BY <1>5, <1>6, <1>7

(* A harvest moves the oldest sample of the ring behind what it has read,  *)
(* and sorting leaves the order of what it has read.                       *)
LEMMA ReadSampleKeeps ==
  ASSUME PathInv, ReadSample
  PROVE  PathInv'
<1> DEFINE x == Head(ring)
           kept == Append(incoming, x)
<1>1. /\ ring # <<>> /\ x.type = "sample" /\ ring' = Tail(ring)
      /\ incoming' \in {kept, Sorted(kept)}
      /\ UNCHANGED <<clock, rbLost, record, put>>
  BY DEF ReadSample, sender
<1>2. 1 \in DOMAIN ring /\ x = ring[1] /\ x \in Records /\ clock \in Nat
  BY <1>1 DEF PathInv, Stages
<1>3. x \in Samples /\ x.t \in Nat
  BY <1>1, <1>2 DEF Records, Samples
<1>4. /\ Below(put, x.t) /\ Below(record, x.t) /\ Below(incoming, x.t) /\ x.t <= clock
      /\ \A k \in DOMAIN ring : ring[k].type = "sample" /\ k > 1 => x.t < ring[k].t
  BY <1>1, <1>2 DEF PathInv, RingLater
<1>5. incoming \in Seq(Samples) /\ Rising(incoming) /\ kept = incoming \o <<x>>
  BY <1>3 DEF PathInv, Stages, Behind
<1> HIDE DEF x, kept
<1>6. /\ <<x>> \in Seq(Samples) /\ Rising(<<x>>)
      /\ \A j \in DOMAIN <<x>> : Below(incoming, <<x>>[j].t)
  BY <1>3, <1>4, OneSample
<1>7. /\ kept \in Seq(Samples) /\ Rising(kept)
      /\ \A n \in Nat : Below(incoming, n) /\ Below(<<x>>, n) => Below(kept, n)
  BY <1>5, <1>6, RisingConcat
<1>8. \A i \in DOMAIN kept : (\E j \in DOMAIN incoming : kept[i] = incoming[j]) \/ kept[i] = x
  BY <1>3, <1>5
<1>9. /\ incoming' \in Seq(Samples) /\ Rising(incoming')
      /\ \A i \in DOMAIN incoming' : \E j \in DOMAIN kept : incoming'[i] = kept[j]
  BY <1>1, <1>7, SortedRises
<1>10. \A i \in DOMAIN incoming' : Below(put, incoming'[i].t) /\ Below(record, incoming'[i].t)
  BY <1>4, <1>8, <1>9 DEF PathInv, Behind
<1>11. \A n \in Nat : Below(incoming, n) /\ x.t < n => Below(incoming', n)
  <2>1. ASSUME NEW n \in Nat, Below(incoming, n), x.t < n PROVE Below(incoming', n)
    <3>1. Below(kept, n)
      BY <1>3, <1>7, <2>1, OneSample
    <3>2. QED
      BY <1>9, <3>1 DEF Below
  <2>2. QED
    BY <2>1
<1>12. Below(incoming', clock + 1)
  BY <1>2, <1>3, <1>4, <1>11 DEF PathInv, Behind
<1>13. Behind'
  BY <1>1, <1>9, <1>10, <1>12 DEF PathInv, Behind
<1>14. ASSUME NEW k \in DOMAIN ring, ring[k].type = "sample", k > 1
       PROVE  Below(put', ring[k].t) /\ Below(record', ring[k].t) /\ Below(incoming', ring[k].t)
  <2>1. ring[k] \in Records
    BY DEF PathInv, Stages
  <2>2. ring[k].t \in Nat
    BY <1>14, <2>1 DEF Records, Samples
  <2>3. Below(put, ring[k].t) /\ Below(record, ring[k].t) /\ Below(incoming, ring[k].t) /\ x.t < ring[k].t
    BY <1>4, <1>14 DEF PathInv, RingLater
  <2>4. QED
    BY <1>1, <1>11, <2>2, <2>3
<1>15. ring' \in Seq(Records) /\ RingLater'
  BY <1>1, <1>14, RingTaken DEF PathInv
<1>16. QED
  BY <1>1, <1>9, <1>13, <1>15 DEF PathInv, Stages

LEMMA ReadLostKeeps ==
  ASSUME PathInv, ReadLost
  PROVE  PathInv'
<1>1. ring # <<>> /\ ring' = Tail(ring) /\ UNCHANGED <<clock, rbLost, incoming, record, put>>
  BY DEF ReadLost, sender
<1>2. \A k \in DOMAIN ring : ring[k].type = "sample" /\ k > 1 =>
        Below(put', ring[k].t) /\ Below(record', ring[k].t) /\ Below(incoming', ring[k].t)
  BY <1>1 DEF PathInv, RingLater
<1>3. ring' \in Seq(Records) /\ RingLater'
  BY <1>1, <1>2, RingTaken DEF PathInv
<1>4. QED
  BY <1>1, <1>3 DEF PathInv, Stages, Behind

LEMMA ReadNothingKeeps ==
  ASSUME PathInv, ReadNothing
  PROVE  PathInv'
<1>1. incoming' = Sorted(incoming) /\ UNCHANGED <<clock, ring, rbLost, record, put>>
  BY DEF ReadNothing, kernel, sender
<1>2. /\ incoming' \in Seq(Samples) /\ Rising(incoming')
      /\ \A i \in DOMAIN incoming' : \E j \in DOMAIN incoming : incoming'[i] = incoming[j]
  BY <1>1, SortedRises DEF PathInv, Stages, Behind
<1>3. \A n : Below(incoming, n) => Below(incoming', n)
  BY <1>2 DEF Below
<1>4. Behind'
  BY <1>1, <1>2, <1>3 DEF PathInv, Behind
<1>5. RingLater'
  BY <1>1, <1>3, RingKept DEF PathInv, RingLater
<1>6. QED
  BY <1>1, <1>2, <1>4, <1>5 DEF PathInv, Stages

LEMMA RecordToClientKeeps ==
  ASSUME PathInv, RecordToClient
  PROVE  PathInv'
<1> DEFINE x == incoming[1]
<1>1. /\ incoming # <<>> /\ incoming' = Tail(incoming) /\ record' = <<x>>
      /\ UNCHANGED <<clock, ring, rbLost, put>>
  BY DEF RecordToClient, Ready, kernel
<1>2. incoming \in Seq(Samples) /\ clock \in Nat
  BY DEF PathInv, Stages
<1>3. 1 \in DOMAIN incoming /\ x \in Samples
  BY <1>1, <1>2
<1>4. x.t \in Nat
  BY <1>3 DEF Samples
<1>5. /\ incoming' \in Seq(Samples)
      /\ \A i \in DOMAIN incoming' : /\ i + 1 \in DOMAIN incoming /\ i \in Nat /\ 1 < i + 1
                                     /\ incoming'[i] = incoming[i + 1]
  BY <1>1, <1>2
<1>6. Rising(incoming')
  <2>1. \A i, j \in DOMAIN incoming' : i < j => i + 1 < j + 1
    BY <1>5
  <2>2. QED
    BY <1>5, <2>1 DEF PathInv, Behind, Rising
<1>7. \A n : Below(incoming, n) => Below(incoming', n) /\ x.t < n
  BY <1>3, <1>5 DEF Below
<1> HIDE DEF x
<1>8. /\ record' \in Seq(Samples) /\ Rising(record') /\ DOMAIN record' = {1} /\ record'[1] = x
      /\ \A n \in Nat : x.t < n => Below(record', n)
  BY <1>1, <1>3, OneSample
<1>9. \A i \in DOMAIN record' : Below(put', record'[i].t)
  BY <1>1, <1>3, <1>8 DEF PathInv, Behind, x
<1>10. ASSUME NEW i \in DOMAIN incoming' PROVE Below(put', incoming'[i].t) /\ Below(record', incoming'[i].t)
  <2>0. incoming'[i] \in Samples
    BY <1>5
  <2>1. incoming'[i].t \in Nat
    BY <2>0 DEF Samples
  <2>2. x.t < incoming'[i].t
    BY <1>3, <1>5 DEF PathInv, Behind, Rising, x
  <2>3. QED
    BY <1>1, <1>5, <1>8, <2>1, <2>2 DEF PathInv, Behind
<1>11. Behind'
  BY <1>1, <1>2, <1>6, <1>7, <1>8, <1>9, <1>10 DEF PathInv, Behind
<1>12. ASSUME NEW k \in DOMAIN ring, ring[k].type = "sample"
       PROVE  Below(put', ring[k].t) /\ Below(record', ring[k].t) /\ Below(incoming', ring[k].t)
  <2>1. ring[k] \in Records
    BY DEF PathInv, Stages
  <2>2. ring[k].t \in Nat
    BY <1>12, <2>1 DEF Records, Samples
  <2>3. QED
    BY <1>1, <1>7, <1>8, <1>12, <2>2 DEF PathInv, RingLater
<1>13. RingLater'
  BY <1>1, <1>12, RingKept DEF PathInv
<1>14. QED
  BY <1>1, <1>5, <1>8, <1>11, <1>13 DEF PathInv, Stages

LEMMA WriteKeeps ==
  ASSUME PathInv, Write
  PROVE  PathInv'
<1>1. /\ put' = put \o record /\ record' = <<>>
      /\ UNCHANGED <<clock, ring, rbLost, incoming>>
  BY DEF Write, kernel, poller
<1>2. /\ put' \in Seq(Samples) /\ Rising(put')
      /\ \A n \in Nat : Below(put, n) /\ Below(record, n) => Below(put', n)
  BY <1>1, RisingConcat DEF PathInv, Stages, Behind
<1>3. record' \in Seq(Samples) /\ Rising(record') /\ \A n : Below(record', n)
  BY <1>1 DEF Rising, Below
<1>4. \A i \in DOMAIN incoming : incoming[i] \in Samples
  BY DEF PathInv, Stages
<1>5. \A i \in DOMAIN incoming : incoming[i].t \in Nat
  BY <1>4 DEF Samples
<1>6. \A i \in DOMAIN incoming' : Below(put', incoming'[i].t)
  BY <1>1, <1>2, <1>5 DEF PathInv, Behind
<1>7. clock + 1 \in Nat
  BY DEF PathInv, Stages
<1>8. Behind'
  BY <1>1, <1>2, <1>3, <1>6, <1>7 DEF PathInv, Behind
<1>9. ASSUME NEW k \in DOMAIN ring, ring[k].type = "sample"
      PROVE  Below(put', ring[k].t) /\ Below(record', ring[k].t) /\ Below(incoming', ring[k].t)
  <2>1. ring[k] \in Records
    BY DEF PathInv, Stages
  <2>2. ring[k].t \in Nat
    BY <1>9, <2>1 DEF Records, Samples
  <2>3. QED
    BY <1>1, <1>2, <1>3, <1>9, <2>2 DEF PathInv, RingLater
<1>10. RingLater'
  BY <1>1, <1>9, RingKept DEF PathInv
<1>11. QED
  BY <1>1, <1>2, <1>3, <1>8, <1>10 DEF PathInv, Stages

LEMMA WriteFailsKeeps ==
  ASSUME PathInv, WriteFails
  PROVE  PathInv'
<1>1. record' = <<>> /\ UNCHANGED <<clock, ring, rbLost, incoming, put>>
  BY DEF WriteFails, kernel, poller
<1>2. record' \in Seq(Samples) /\ Rising(record') /\ \A n : Below(record', n)
  BY <1>1 DEF Rising, Below
<1>3. Behind'
  BY <1>1, <1>2 DEF PathInv, Behind
<1>4. RingLater'
  BY <1>1, <1>2, RingKept DEF PathInv, RingLater
<1>5. QED
  BY <1>1, <1>2, <1>3, <1>4 DEF PathInv, Stages

LEMMA PathNext ==
  ASSUME PathInv, [Next]_vars
  PROVE  PathInv'
<1>1. ASSUME UNCHANGED <<clock, ring, rbLost, incoming, record, put>> PROVE PathInv'
  BY <1>1 DEF PathInv, Stages, Behind, RingLater
<1>2. CASE Poll \/ LostToClient \/ HoldBack \/ AllSent
  BY <1>1, <1>2 DEF Poll, LostToClient, HoldBack, AllSent, kernel, sender
<1>3. CASE Dial \/ Break
  BY <1>1, <1>3 DEF Dial, Break, kernel, poller
<1>4. CASE UNCHANGED vars
  BY <1>1, <1>4 DEF vars, kernel, poller, sender
<1>5. QED
  BY <1>2, <1>3, <1>4, ProbeKeeps, ReadSampleKeeps, ReadLostKeeps, ReadNothingKeeps,
     RecordToClientKeeps, WriteKeeps, WriteFailsKeeps DEF Next, Goroutine

(* Connections take terminal writes in the order in which they were made,  *)
(* whatever harvests are cut short, samples held back, writes lost and     *)
(* connections broken (bpf_tty.c, PollStart and the client's main).        *)
THEOREM WritesStayInOrder == Spec => []SentInOrder
<1>1. Init => PathInv
  <2> SUFFICES ASSUME Init PROVE PathInv
    OBVIOUS
  <2>1. Stages
    BY DEF Init, Stages
  <2>2. Behind
    BY DEF Init, Behind, Rising, Below
  <2>3. RingLater
    BY DEF Init, RingLater
  <2>4. QED
    BY <2>1, <2>2, <2>3 DEF PathInv
<1>2. PathInv => SentInOrder
  BY DEF PathInv, Behind, Rising, SentInOrder
<1>3. QED
  BY <1>1, <1>2, PathNext, PTL DEF Spec

-----------------------------------------------------------------------------
(* The times of records *)

Distinct(s) ==
  \A i, j \in DOMAIN s : i # j /\ s[i].type = "sample" /\ s[j].type = "sample" => s[i].t # s[j].t

LEMMA SamplesAreRecords ==
  ASSUME NEW s \in Seq(Samples)
  PROVE  /\ s \in Seq(Records) /\ \A i \in DOMAIN s : s[i].type = "sample" /\ s[i].t \in Nat
         /\ Times(s) = {s[i].t : i \in DOMAIN s}
<1>1. \A i \in DOMAIN s : s[i] \in Samples
  OBVIOUS
<1>2. \A i \in DOMAIN s : s[i].type = "sample" /\ s[i].t \in Nat /\ s[i] \in Records
  BY <1>1 DEF Samples, Records
<1>3. s \in Seq(Records)
  BY <1>2
<1>4. QED
  BY <1>2, <1>3 DEF Times

LEMMA TimesConcat ==
  ASSUME NEW s \in Seq(Records), NEW u \in Seq(Records)
  PROVE  /\ s \o u \in Seq(Records) /\ Times(s \o u) = Times(s) \union Times(u)
         /\ Distinct(s) /\ Distinct(u) /\ Times(s) \intersect Times(u) = {} => Distinct(s \o u)
<1> DEFINE v == s \o u
<1>1. /\ v \in Seq(Records) /\ Len(s) \in Nat /\ Len(u) \in Nat /\ DOMAIN v = 1..(Len(s) + Len(u))
      /\ DOMAIN s = 1..Len(s) /\ DOMAIN u = 1..Len(u)
      /\ \A i \in DOMAIN v : v[i] = IF i <= Len(s) THEN s[i] ELSE u[i - Len(s)]
  OBVIOUS
<1> HIDE DEF v
<1>2. \A i \in DOMAIN v : \/ i \in DOMAIN s /\ v[i] = s[i]
                          \/ i - Len(s) \in DOMAIN u /\ v[i] = u[i - Len(s)] /\ i > Len(s)
  BY <1>1
<1>3. /\ \A i \in DOMAIN s : i \in DOMAIN v /\ v[i] = s[i]
      /\ \A i \in DOMAIN u : i + Len(s) \in DOMAIN v /\ v[i + Len(s)] = u[i]
  <2>1. \A i \in DOMAIN s : i \in DOMAIN v /\ v[i] = s[i]
    BY <1>1
  <2>2. ASSUME NEW i \in DOMAIN u PROVE i + Len(s) \in DOMAIN v /\ v[i + Len(s)] = u[i]
    <3>1. i + Len(s) \in DOMAIN v /\ ~(i + Len(s) <= Len(s)) /\ (i + Len(s)) - Len(s) = i
      BY <1>1
    <3>2. QED
      BY <1>1, <3>1
  <2>3. QED
    BY <2>1, <2>2
<1>4. Times(v) \subseteq Times(s) \union Times(u)
  BY <1>2 DEF Times
<1>5. Times(s) \union Times(u) \subseteq Times(v)
  BY <1>3 DEF Times
<1>6. ASSUME Distinct(s), Distinct(u), Times(s) \intersect Times(u) = {},
             NEW i \in DOMAIN v, NEW j \in DOMAIN v, i # j, v[i].type = "sample", v[j].type = "sample"
      PROVE  v[i].t # v[j].t
  <2>1. CASE i \in DOMAIN s /\ v[i] = s[i] /\ j \in DOMAIN s /\ v[j] = s[j]
    BY <1>6, <2>1 DEF Distinct
  <2>2. CASE /\ i - Len(s) \in DOMAIN u /\ v[i] = u[i - Len(s)]
             /\ j - Len(s) \in DOMAIN u /\ v[j] = u[j - Len(s)]
    <3>1. i - Len(s) # j - Len(s)
      BY <1>1, <1>6
    <3>2. QED
      BY <1>6, <2>2, <3>1 DEF Distinct
  <2>3. CASE i \in DOMAIN s /\ v[i] = s[i] /\ j - Len(s) \in DOMAIN u /\ v[j] = u[j - Len(s)]
    <3>1. v[i].t \in Times(s) /\ v[j].t \in Times(u)
      BY <1>6, <2>3 DEF Times
    <3>2. QED
      BY <1>6, <3>1
  <2>4. CASE j \in DOMAIN s /\ v[j] = s[j] /\ i - Len(s) \in DOMAIN u /\ v[i] = u[i - Len(s)]
    <3>1. v[j].t \in Times(s) /\ v[i].t \in Times(u)
      BY <1>6, <2>4 DEF Times
    <3>2. QED
      BY <1>6, <3>1
  <2>5. QED
    BY <1>2, <1>6, <2>1, <2>2, <2>3, <2>4
<1>7. QED
  BY <1>1, <1>4, <1>5, <1>6 DEF v, Distinct

(* The first record of a sequence, and the others.                         *)
LEMMA TimesTail ==
  ASSUME NEW s \in Seq(Records), s # <<>>
  PROVE  /\ Tail(s) \in Seq(Records) /\ Head(s) \in Records /\ Head(s) = s[1]
         /\ Head(s).type = "sample" => Times(s) = {Head(s).t} \union Times(Tail(s))
         /\ Head(s).type = "lost" => Times(s) = Times(Tail(s))
<1> DEFINE x == Head(s)
<1>1. /\ Tail(s) \in Seq(Records) /\ x \in Records /\ x = s[1] /\ <<x>> \in Seq(Records)
      /\ s = <<x>> \o Tail(s) /\ DOMAIN <<x>> = {1} /\ <<x>>[1] = x
  OBVIOUS
<1>2. Times(s) = Times(<<x>>) \union Times(Tail(s))
  <2> HIDE DEF x
  <2>1. QED
    BY <1>1, TimesConcat
<1>3. /\ x.type = "sample" => Times(<<x>>) = {x.t}
      /\ x.type = "lost" => Times(<<x>>) = {}
  BY <1>1 DEF Times
<1>4. QED
  BY <1>1, <1>2, <1>3

(* Sorting loses no sample.                                                *)
LEMMA SortedKeeps ==
  ASSUME NEW s \in Seq(Samples), Rising(s)
  PROVE  Times(Sorted(s)) = Times(s)
<1>1. /\ Sorted(s) \in Seq(Samples)
      /\ \A i \in DOMAIN Sorted(s) : \E j \in DOMAIN s : Sorted(s)[i] = s[j]
      /\ \A j \in DOMAIN s : \E i \in DOMAIN Sorted(s) : Sorted(s)[i] = s[j]
  BY SortedRises
<1>2. Times(Sorted(s)) = {Sorted(s)[i].t : i \in DOMAIN Sorted(s)} /\ Times(s) = {s[i].t : i \in DOMAIN s}
  BY <1>1, SamplesAreRecords
<1>3. QED
  BY <1>1, <1>2

(* What is below the times of others has none of them.                     *)
LEMMA BelowApart ==
  ASSUME NEW s \in Seq(Samples), NEW u \in Seq(Records),
         \A k \in DOMAIN u : u[k].type = "sample" => Below(s, u[k].t)
  PROVE  Times(s) \intersect Times(u) = {}
<1> SUFFICES ASSUME NEW t \in Times(s), t \in Times(u) PROVE FALSE
  OBVIOUS
<1>1. PICK i \in DOMAIN s : s[i].t = t
  BY DEF Times
<1>2. PICK k \in DOMAIN u : u[k].type = "sample" /\ u[k].t = t
  BY DEF Times
<1>3. s[i].t \in Nat
  BY SamplesAreRecords
<1>4. QED
  BY <1>1, <1>2, <1>3 DEF Below

LEMMA RisingDistinct ==
  ASSUME NEW s \in Seq(Samples), Rising(s)
  PROVE  Distinct(s)
<1>1. \A i \in DOMAIN s : s[i].t \in Nat /\ i \in Nat
  BY SamplesAreRecords
<1>2. QED
  BY <1>1 DEF Rising, Distinct

-----------------------------------------------------------------------------
(* Where every write is *)

Stays == UNION {Times(put), Times(record), Times(incoming), Times(ring)}
Gone == UNION {dropped, missed, unseen}

\* Every write is on the path or gone, in one way.
PlaceInv ==
  /\ Stays \union Gone = 1..clock
  /\ Stays \intersect Gone = {}
  /\ dropped \intersect (missed \union unseen) = {} /\ missed \intersect unseen = {}

\* A count of lost writes is reported before the next is read.
CountInv ==
  /\ harvest \in [before : Nat, any : BOOLEAN, lost : Nat] /\ reported \in Nat
  /\ pc # "lost" => harvest.lost = 0
  /\ \E account \in [0..Len(ring) -> 0..clock] : Account(account)

AccountInv == PathInv /\ TypeOK /\ PlaceInv /\ CountInv

(* The probe's write is in the ring, or missed, or unseen.                 *)
LEMMA ProbePlaces ==
  ASSUME PathInv, PlaceInv, NEW cpu \in Cpus, kprobe__tty_write(cpu)
  PROVE  PlaceInv'
<1> DEFINE now == clock + 1
           x == Sample(now)
<1>1. clock \in Nat /\ clock' = now /\ UNCHANGED <<incoming, record, put, dropped>>
  BY DEF kprobe__tty_write, poller, sender, PathInv, Stages
<1>2. 1..clock' = (1..clock) \union {now} /\ now \notin 1..clock
  BY <1>1
<1>3. x \in Records /\ x.type = "sample" /\ x.t = now
  BY <1>1 DEF Sample, Samples, Records
<1>4. \/ Times(ring') = Times(ring) \union {now} /\ UNCHANGED <<missed, unseen>>
      \/ ring' = ring /\ missed' = missed \union {now} /\ UNCHANGED unseen
      \/ ring' = ring /\ unseen' = unseen \union {now} /\ UNCHANGED missed
  <2>1. ASSUME NEW records \in {<<Lost(rbLost), x>>, <<x>>}, ring' = ring \o records
        PROVE  Times(ring') = Times(ring) \union {now}
    <3>1. Lost(rbLost) \in Records /\ Lost(rbLost).type = "lost"
      BY DEF PathInv, Stages, Records, Lost
    <3> HIDE DEF x
    <3>2. records \in Seq(Records) /\ Times(records) = {now}
      <4>1. CASE records = <<x>>
        <5>1. records \in Seq(Records) /\ DOMAIN records = {1} /\ records[1] = x
          BY <1>3, <4>1
        <5>2. QED
          BY <1>3, <5>1 DEF Times
      <4>2. CASE records = <<Lost(rbLost), x>>
        <5>1. /\ records \in Seq(Records) /\ DOMAIN records = {1, 2}
              /\ records[1] = Lost(rbLost) /\ records[2] = x
          BY <1>3, <3>1, <4>2
        <5>2. QED
          BY <1>3, <3>1, <5>1 DEF Times
      <4>3. QED
        BY <2>1, <4>1, <4>2
    <3>3. QED
      BY <2>1, <3>2, TimesConcat DEF PathInv, Stages
  <2>2. \/ /\ \E records \in {<<Lost(rbLost), x>>, <<x>>} : ring' = ring \o records
           /\ UNCHANGED <<missed, unseen>>
        \/ ring' = ring /\ missed' = missed \union {x.t} /\ UNCHANGED unseen
        \/ ring' = ring /\ unseen' = unseen \union {x.t} /\ UNCHANGED missed
    BY DEF kprobe__tty_write, Output
  <2>3. QED
    BY <1>3, <2>1, <2>2
<1>5. QED
  BY <1>1, <1>2, <1>4 DEF PlaceInv, Stays, Gone

(* The steps of the goroutine and the client leave every write where it    *)
(* was on the path, or move it along.                                      *)
LEMMA PathMoves ==
  ASSUME PlaceInv, Stays' = Stays, UNCHANGED <<clock, dropped, missed, unseen>>
  PROVE  PlaceInv'
  BY DEF PlaceInv, Gone

LEMMA ReadSamplePlaces ==
  ASSUME PathInv, PlaceInv, ReadSample
  PROVE  PlaceInv'
<1> DEFINE x == Head(ring)
           kept == Append(incoming, x)
<1>1. /\ ring # <<>> /\ x.type = "sample" /\ ring' = Tail(ring)
      /\ incoming' \in {kept, Sorted(kept)}
      /\ UNCHANGED <<clock, record, put, dropped, missed, unseen>>
  BY DEF ReadSample, sender
<1>2. /\ ring \in Seq(Records) /\ incoming \in Seq(Samples) /\ incoming \in Seq(Records)
      /\ Rising(incoming) /\ 1 \in DOMAIN ring /\ x = ring[1]
  BY <1>1, SamplesAreRecords DEF PathInv, Stages, Behind
<1>3. x \in Records /\ Times(ring) = {x.t} \union Times(ring')
  BY <1>1, <1>2, TimesTail
<1>4. x \in Samples
  BY <1>1, <1>3 DEF Records
<1>5. kept = incoming \o <<x>>
  BY <1>2, <1>4
<1>6. Below(incoming, x.t)
  BY <1>1, <1>2 DEF PathInv, RingLater
<1> HIDE DEF x, kept
<1>7. /\ <<x>> \in Seq(Samples) /\ Rising(<<x>>) /\ DOMAIN <<x>> = {1} /\ <<x>>[1] = x
      /\ \A j \in DOMAIN <<x>> : Below(incoming, <<x>>[j].t)
  BY <1>4, <1>6, OneSample
<1>8. <<x>> \in Seq(Records) /\ Times(<<x>>) = {x.t}
  BY <1>7, SamplesAreRecords
<1>9. kept \in Seq(Samples) /\ Rising(kept)
  BY <1>2, <1>5, <1>7, RisingConcat
<1>10. Times(kept) = Times(incoming) \union {x.t}
  <2>1. Times(incoming \o <<x>>) = Times(incoming) \union Times(<<x>>)
    BY <1>2, <1>8, TimesConcat
  <2>2. QED
    BY <1>5, <1>8, <2>1
<1>11. Times(incoming') = Times(incoming) \union {x.t}
  BY <1>1, <1>9, <1>10, SortedKeeps
<1>12. Stays' = Stays
  BY <1>1, <1>3, <1>11 DEF Stays
<1>13. QED
  BY <1>1, <1>12, PathMoves

LEMMA WriteFailsPlaces ==
  ASSUME PathInv, TypeOK, PlaceInv, WriteFails
  PROVE  PlaceInv'
<1> DEFINE x == record[1]
<1>1. /\ client = "write" /\ dropped' = dropped \union {x.t} /\ record' = <<>>
      /\ UNCHANGED <<clock, ring, incoming, put, missed, unseen>>
  BY DEF WriteFails, kernel, poller
<1>2. /\ record \in Seq(Samples) /\ Len(record) = 1 /\ put \in Seq(Samples)
      /\ incoming \in Seq(Samples) /\ ring \in Seq(Records)
  BY <1>1 DEF PathInv, Stages, TypeOK
<1>3. DOMAIN record = {1} /\ record \in Seq(Records) /\ incoming \in Seq(Records)
      /\ Times(record) = {record[i].t : i \in DOMAIN record}
  BY <1>2, SamplesAreRecords
<1>4. Times(record) = {x.t} /\ Times(record') = {}
  BY <1>1, <1>3 DEF Times
<1>5. Times(put) \intersect Times(record) = {}
  BY <1>2, <1>3, BelowApart DEF PathInv, Behind
<1>6. Times(record) \intersect Times(incoming) = {}
  BY <1>2, <1>3, BelowApart DEF PathInv, Behind
<1>7. Times(record) \intersect Times(ring) = {}
  BY <1>2, <1>3, BelowApart DEF PathInv, RingLater
<1>8. Stays = Stays' \union {x.t} /\ x.t \notin Stays'
  <2>1. Stays' = UNION {Times(put), {}, Times(incoming), Times(ring)}
    BY <1>1, <1>4 DEF Stays
  <2>2. QED
    BY <1>4, <1>5, <1>6, <1>7, <2>1 DEF Stays
<1>9. x.t \notin Gone
  BY <1>8 DEF PlaceInv
<1>10. Gone' = Gone \union {x.t}
  BY <1>1 DEF Gone
<1> HIDE DEF x
<1>11. QED
  BY <1>1, <1>8, <1>9, <1>10 DEF PlaceInv, Gone

LEMMA PlaceNext ==
  ASSUME PathInv, TypeOK, PlaceInv, [Next]_vars
  PROVE  PlaceInv'
<1>1. ASSUME UNCHANGED <<clock, ring, incoming, record, put, dropped, missed, unseen>> PROVE PlaceInv'
  BY <1>1 DEF PlaceInv, Stays, Gone
<1>2. CASE Poll \/ LostToClient \/ HoldBack \/ AllSent
  BY <1>1, <1>2 DEF Poll, LostToClient, HoldBack, AllSent, kernel, sender
<1>3. CASE Dial \/ Break
  BY <1>1, <1>3 DEF Dial, Break, kernel, poller
<1>4. CASE UNCHANGED vars
  BY <1>1, <1>4 DEF vars, kernel, poller, sender
<1>5. CASE ReadLost
  <2>1. /\ ring # <<>> /\ Head(ring).type = "lost" /\ ring' = Tail(ring)
        /\ UNCHANGED <<clock, incoming, record, put, dropped, missed, unseen>>
    BY <1>5 DEF ReadLost, sender
  <2>2. Times(ring') = Times(ring)
    BY <2>1, TimesTail DEF PathInv, Stages
  <2>3. QED
    BY <2>1, <2>2, PathMoves DEF Stays
<1>6. CASE ReadNothing
  <2>1. incoming' = Sorted(incoming) /\ UNCHANGED <<clock, ring, record, put, dropped, missed, unseen>>
    BY <1>6 DEF ReadNothing, kernel, sender
  <2>2. Times(incoming') = Times(incoming)
    BY <2>1, SortedKeeps DEF PathInv, Stages, Behind
  <2>3. QED
    BY <2>1, <2>2, PathMoves DEF Stays
<1>7. CASE RecordToClient
  <2>1. /\ client = "select" /\ incoming # <<>> /\ incoming' = Tail(incoming) /\ record' = <<incoming[1]>>
        /\ UNCHANGED <<clock, ring, put, dropped, missed, unseen>>
    BY <1>7 DEF RecordToClient, Ready, kernel
  <2>2. incoming \in Seq(Samples) /\ incoming \in Seq(Records) /\ Len(record) = 0 /\ record \in Seq(Samples)
    BY <2>1, SamplesAreRecords DEF PathInv, Stages, TypeOK
  <2>3. incoming[1].type = "sample" /\ incoming[1] = Head(incoming)
    BY <2>1, <2>2, SamplesAreRecords
  <2>4. Times(incoming) = {incoming[1].t} \union Times(incoming')
    BY <2>1, <2>2, <2>3, TimesTail
  <2>5. Times(record) = {}
    BY <2>2 DEF Times
  <2>6. DOMAIN record' = {1} /\ record'[1] = incoming[1]
    BY <2>1
  <2>7. Times(record') = {incoming[1].t}
    BY <2>3, <2>6 DEF Times
  <2>8. QED
    BY <2>1, <2>4, <2>5, <2>7, PathMoves DEF Stays
<1>8. CASE Write
  <2>1. /\ put' = put \o record /\ record' = <<>>
        /\ UNCHANGED <<clock, ring, incoming, dropped, missed, unseen>>
    BY <1>8 DEF Write, kernel, poller
  <2>2. put \in Seq(Records) /\ record \in Seq(Records)
    BY SamplesAreRecords DEF PathInv, Stages
  <2>3. Times(put') = Times(put) \union Times(record) /\ Times(record') = {}
    <3>1. Times(put') = Times(put) \union Times(record)
      BY <2>1, <2>2, TimesConcat
    <3>2. Times(record') = {}
      BY <2>1 DEF Times
    <3>3. QED
      BY <3>1, <3>2
  <2>4. QED
    BY <2>1, <2>3, PathMoves DEF Stays
<1>9. QED
  BY <1>2, <1>3, <1>4, <1>5, <1>6, <1>7, <1>8, ProbePlaces, ReadSamplePlaces, WriteFailsPlaces
  DEF Next, Goroutine

-----------------------------------------------------------------------------
(* What is reported of lost writes *)

(* There are as many missed writes as there are, at most, writes.          *)
LEMMA MissedCount ==
  ASSUME PathInv, PlaceInv
  PROVE  /\ IsFiniteSet(missed) /\ Cardinality(missed) \in 0..clock
         /\ clock + 1 \notin missed /\ Cardinality(missed \union {clock + 1}) = Cardinality(missed) + 1
<1>1. clock \in Nat /\ missed \in SUBSET (1..clock)
  BY DEF PathInv, Stages, PlaceInv, Gone
<1>2. IsFiniteSet(1..clock) /\ Cardinality(1..clock) = clock
  BY <1>1, FS_Interval
<1>3. IsFiniteSet(missed) /\ Cardinality(missed) <= clock
  BY <1>1, <1>2, FS_Subset
<1>4. Cardinality(missed) \in Nat
  BY <1>3, FS_CardinalityType
<1>5. clock + 1 \notin missed
  BY <1>1
<1>6. QED
  BY <1>1, <1>3, <1>4, <1>5, FS_AddElement

LEMMA ProbeCounts ==
  ASSUME PathInv, PlaceInv, CountInv, NEW cpu \in Cpus, kprobe__tty_write(cpu)
  PROVE  CountInv'
<1> DEFINE x == Sample(clock + 1)
           Lasts(r, k) == IF r[k].type = "lost" THEN r[k].n ELSE 0
<1>1. /\ clock \in Nat /\ clock' = clock + 1 /\ UNCHANGED <<pc, harvest, reported>>
      /\ ring \in Seq(Records) /\ Len(ring) \in Nat /\ DOMAIN ring = 1..Len(ring) /\ rbLost \in Nat
  BY DEF kprobe__tty_write, poller, sender, PathInv, Stages
<1>2. PICK account \in [0..Len(ring) -> 0..clock] : Account(account)
  BY DEF CountInv
<1>3. Cardinality(missed) \in 0..clock /\ Cardinality(missed \union {clock + 1}) = Cardinality(missed) + 1
  BY MissedCount
<1>4. /\ account[0] = reported + harvest.lost
      /\ \A k \in 1..Len(ring) : account[k] = account[k - 1] + Lasts(ring, k)
      /\ account[Len(ring)] + rbLost = Cardinality(missed)
  BY <1>1, <1>2 DEF Account
<1>5. ASSUME NEW more \in [0..Len(ring') -> 0..clock'], Account(more)' PROVE CountInv'
  BY <1>1, <1>5 DEF CountInv
<1>6. CASE UNCHANGED ring
  <2>1. account \in [0..Len(ring') -> 0..clock']
    BY <1>1, <1>2, <1>6
  <2>2. account[Len(ring)] + rbLost' = Cardinality(missed')
    <3>1. CASE UNCHANGED <<rbLost, missed>>
      BY <1>4, <3>1
    <3>2. CASE rbLost' = rbLost + 1 /\ missed' = missed \union {clock + 1}
      <4>1. account[Len(ring)] \in Nat
        BY <1>1, <1>2
      <4>2. QED
        BY <1>1, <1>3, <1>4, <3>2, <4>1
    <3>3. UNCHANGED <<rbLost, missed>> \/ (rbLost' = rbLost + 1 /\ missed' = missed \union {clock + 1})
                                       \/ ring' # ring
      <4>1. ASSUME NEW records \in {<<Lost(rbLost), x>>, <<x>>}, ring' = ring \o records PROVE ring' # ring
        <5>1. records \in Seq(Records) /\ Len(records) > 0
          <6>1. x \in Records /\ Lost(rbLost) \in Records
            BY <1>1 DEF Sample, Lost, Samples, Records
          <6> HIDE DEF x
          <6>2. CASE records = <<x>>
            BY <6>1, <6>2
          <6>3. CASE records = <<Lost(rbLost), x>>
            BY <6>1, <6>3
          <6>4. QED
            BY <4>1, <6>2, <6>3
        <5>2. Len(ring') > Len(ring)
          BY <1>1, <4>1, <5>1
        <5>3. QED
          BY <1>1, <5>2
      <4>2. QED
        BY <4>1 DEF kprobe__tty_write, Output, Sample
    <3>4. QED
      BY <1>6, <3>1, <3>2, <3>3
  <2>3. QED
    BY <1>1, <1>4, <1>5, <1>6, <2>1, <2>2 DEF Account
<1>7. CASE ring' = Append(ring, x) /\ rbLost = 0 /\ rbLost' = 0 /\ UNCHANGED missed
  <2> DEFINE last == Len(ring) + 1
  <2>0. PICK more : more = [k \in 0..last |-> IF k = last THEN account[Len(ring)] ELSE account[k]]
    OBVIOUS
  <2>1. /\ Len(ring') = last /\ DOMAIN ring' = 1..last /\ ring'[last] = x
        /\ \A k \in 1..Len(ring) : ring'[k] = ring[k]
    BY <1>1, <1>7
  <2>2. more \in [0..Len(ring') -> 0..clock']
    BY <1>1, <1>2, <2>0, <2>1
  <2>3. ASSUME NEW k \in DOMAIN ring' PROVE more[k] = more[k - 1] + Lasts(ring', k)
    <3>1. CASE k = last
      <4>1. Lasts(ring', k) = 0
        BY <2>1, <3>1 DEF Sample
      <4>2. QED
        BY <1>1, <1>2, <2>0, <3>1, <4>1
    <3>2. CASE k \in 1..Len(ring)
      <4>1. Lasts(ring', k) = Lasts(ring, k)
        BY <2>1, <3>2
      <4>2. more[k] = account[k] /\ more[k - 1] = account[k - 1]
        BY <1>1, <2>0, <3>2
      <4>3. QED
        BY <1>4, <3>2, <4>1, <4>2
    <3>3. QED
      BY <1>1, <2>1, <3>1, <3>2
  <2>4. more[0] = account[0] /\ more[Len(ring')] = account[Len(ring)]
    BY <1>1, <2>0, <2>1
  <2>5. Account(more)'
    BY <1>1, <1>4, <1>7, <2>3, <2>4 DEF Account
  <2>6. QED
    BY <1>5, <2>2, <2>5
<1>8. CASE ring' = ring \o <<Lost(rbLost), x>> /\ rbLost' = 0 /\ UNCHANGED missed
  <2> DEFINE last == Len(ring) + 2
  <2>0. PICK more : more = [k \in 0..last |-> IF k > Len(ring) THEN account[Len(ring)] + rbLost ELSE account[k]]
    OBVIOUS
  <2>1. /\ Len(ring') = last /\ DOMAIN ring' = 1..last
        /\ ring'[last] = x /\ ring'[last - 1] = Lost(rbLost)
        /\ \A k \in 1..Len(ring) : ring'[k] = ring[k]
    <3>1. x \in Records /\ Lost(rbLost) \in Records
      BY <1>1 DEF Sample, Lost, Samples, Records
    <3> HIDE DEF x
    <3>2. QED
      BY <1>1, <1>8, <3>1
  <2>2. more \in [0..Len(ring') -> 0..clock']
    BY <1>1, <1>2, <1>3, <1>4, <2>0, <2>1
  <2>3. ASSUME NEW k \in DOMAIN ring' PROVE more[k] = more[k - 1] + Lasts(ring', k)
    <3>1. CASE k = last
      <4>1. Lasts(ring', k) = 0
        BY <2>1, <3>1 DEF Sample
      <4>2. more[k] = account[Len(ring)] + rbLost /\ more[k - 1] = account[Len(ring)] + rbLost
        BY <1>1, <2>0, <3>1
      <4>3. account[Len(ring)] \in 0..clock
        BY <1>1, <1>2
      <4>4. QED
        BY <1>1, <4>1, <4>2, <4>3
    <3>2. CASE k = last - 1
      <4>1. Lasts(ring', k) = rbLost
        BY <2>1, <3>2 DEF Lost
      <4>2. more[k] = account[Len(ring)] + rbLost /\ more[k - 1] = account[Len(ring)]
        BY <1>1, <2>0, <3>2
      <4>3. QED
        BY <4>1, <4>2
    <3>3. CASE k \in 1..Len(ring)
      <4>1. Lasts(ring', k) = Lasts(ring, k)
        BY <2>1, <3>3
      <4>2. more[k] = account[k] /\ more[k - 1] = account[k - 1]
        BY <1>1, <2>0, <3>3
      <4>3. QED
        BY <1>4, <3>3, <4>1, <4>2
    <3>4. QED
      BY <1>1, <2>1, <3>1, <3>2, <3>3
  <2>4. more[0] = account[0] /\ more[Len(ring')] = account[Len(ring)] + rbLost
    BY <1>1, <2>0, <2>1
  <2>5. more[Len(ring')] + rbLost' = Cardinality(missed')
    BY <1>1, <1>3, <1>4, <1>8, <2>4
  <2>6. Account(more)'
    BY <1>1, <1>4, <2>3, <2>4, <2>5 DEF Account
  <2>7. QED
    BY <1>5, <2>2, <2>6
<1>9. \/ UNCHANGED ring
      \/ /\ ring' = ring \o <<x>> /\ rbLost = 0 /\ rbLost' = 0 /\ UNCHANGED missed
      \/ /\ ring' = ring \o <<Lost(rbLost), x>> /\ rbLost' = 0 /\ UNCHANGED missed
  <2> DEFINE records == IF rbLost > 0 THEN <<Lost(rbLost), x>> ELSE <<x>>
  <2>1. UNCHANGED ring \/ (ring' = ring \o records /\ rbLost' = 0 /\ UNCHANGED missed)
    BY DEF kprobe__tty_write, Output
  <2> HIDE DEF x
  <2>2. CASE rbLost > 0
    BY <2>1, <2>2
  <2>3. CASE rbLost = 0
    BY <2>1, <2>3
  <2>4. QED
    BY <1>1, <2>2, <2>3
<1>10. ring \o <<x>> = Append(ring, x)
  <2>1. x \in Records
    BY <1>1 DEF Sample, Samples, Records
  <2> HIDE DEF x
  <2>2. QED
    BY <1>1, <2>1
<1>11. QED
  BY <1>6, <1>7, <1>8, <1>9, <1>10

(* A count that is read leaves the ring for the goroutine, and a sample    *)
(* that is read leaves the counts.                                         *)
LEMMA ReadCounts ==
  ASSUME PathInv, CountInv, ReadSample \/ ReadLost
  PROVE  CountInv'
<1> DEFINE n == IF ring[1].type = "lost" THEN ring[1].n ELSE 0
<1>1. /\ pc = "harvest" /\ ring # <<>> /\ ring' = Tail(ring) /\ UNCHANGED <<clock, rbLost, missed, reported>>
      /\ ring \in Seq(Records) /\ harvest \in [before : Nat, any : BOOLEAN, lost : Nat]
      /\ harvest.lost = 0 /\ reported \in Nat
  BY DEF ReadSample, ReadLost, sender, PathInv, Stages, CountInv
<1>2. /\ Len(ring) \in Nat /\ Len(ring) > 0 /\ DOMAIN ring = 1..Len(ring) /\ ring[1] = Head(ring)
      /\ Len(ring') = Len(ring) - 1 /\ DOMAIN ring' = 1..(Len(ring) - 1) /\ ring[1] \in Records
      /\ \A k \in DOMAIN ring' : ring'[k] = ring[k + 1]
  BY <1>1
<1>3. /\ harvest' \in [before : Nat, any : BOOLEAN, lost : Nat] /\ harvest'.lost = n /\ n \in Nat
      /\ pc' # "lost" => harvest'.lost = 0
  <2>1. CASE ReadSample
    BY <1>1, <1>2, <2>1 DEF ReadSample
  <2>2. CASE ReadLost
    <3>1. ring[1].type = "lost" /\ harvest' = [harvest EXCEPT !.lost = ring[1].n] /\ pc' = "lost"
      BY <1>2, <2>2 DEF ReadLost
    <3>2. ring[1].n \in Nat
      BY <1>2, <3>1 DEF Records, Samples
    <3>3. QED
      BY <1>1, <3>1, <3>2
  <2>3. QED
    BY <2>1, <2>2
<1>4. PICK account \in [0..Len(ring) -> 0..clock] : Account(account)
  BY DEF CountInv
<1>5. PICK less : less = [k \in 0..(Len(ring) - 1) |-> account[k + 1]]
  OBVIOUS
<1>6. less \in [0..Len(ring') -> 0..clock']
  BY <1>1, <1>2, <1>4, <1>5
<1>7. less[0] = reported' + harvest'.lost
  <2>1. account[1] = account[0] + n /\ account[0] = reported + 0
    BY <1>1, <1>2, <1>4 DEF Account
  <2>2. QED
    BY <1>1, <1>2, <1>3, <1>5, <2>1
<1>8. ASSUME NEW k \in DOMAIN ring'
      PROVE  less[k] = less[k - 1] + IF ring'[k].type = "lost" THEN ring'[k].n ELSE 0
  <2>1. k + 1 \in DOMAIN ring /\ k \in 0..(Len(ring) - 1) /\ k - 1 \in 0..(Len(ring) - 1) /\ (k + 1) - 1 = (k - 1) + 1
    BY <1>2
  <2>2. account[k + 1] = account[(k + 1) - 1] + IF ring[k + 1].type = "lost" THEN ring[k + 1].n ELSE 0
    BY <1>4, <2>1 DEF Account
  <2>3. less[k] = account[k + 1] /\ less[k - 1] = account[(k - 1) + 1]
    BY <1>5, <2>1
  <2>4. QED
    BY <1>2, <2>1, <2>2, <2>3
<1>9. less[Len(ring')] + rbLost' = Cardinality(missed')
  <2>1. less[Len(ring) - 1] = account[Len(ring)]
    BY <1>2, <1>5
  <2>2. QED
    BY <1>1, <1>2, <1>4, <2>1 DEF Account
<1>10. QED
  BY <1>1, <1>3, <1>6, <1>7, <1>8, <1>9 DEF CountInv, Account

LEMMA CountNext ==
  ASSUME PathInv, PlaceInv, CountInv, [Next]_vars
  PROVE  CountInv'
<1>1. ASSUME UNCHANGED <<clock, ring, rbLost, missed>>,
             harvest' \in [before : Nat, any : BOOLEAN, lost : Nat], reported' \in Nat,
             pc' # "lost" => harvest'.lost = 0,
             reported' + harvest'.lost = reported + harvest.lost
      PROVE  CountInv'
  BY <1>1 DEF CountInv, Account
<1>2. /\ clock \in Nat /\ harvest \in [before : Nat, any : BOOLEAN, lost : Nat] /\ reported \in Nat
      /\ pc # "lost" => harvest.lost = 0
  BY DEF PathInv, Stages, CountInv
<1>3. CASE Poll \/ AllSent
  <2>1. /\ UNCHANGED <<clock, ring, rbLost, missed, reported>> /\ pc # "lost" /\ pc' # "lost"
        /\ harvest' = harvest \/ harvest' = [before |-> clock, any |-> FALSE, lost |-> 0]
    BY <1>3 DEF Poll, AllSent, NewHarvest, kernel, sender
  <2>2. harvest' \in [before : Nat, any : BOOLEAN, lost : Nat] /\ harvest'.lost = 0 /\ harvest.lost = 0
    <3>1. CASE harvest' = harvest
      BY <1>2, <2>1, <3>1
    <3>2. CASE harvest' = [before |-> clock, any |-> FALSE, lost |-> 0]
      BY <1>2, <2>1, <3>2
    <3>3. QED
      BY <2>1, <3>1, <3>2
  <2>3. QED
    BY <1>1, <1>2, <2>1, <2>2
<1>4. CASE LostToClient
  BY <1>1, <1>2, <1>4 DEF LostToClient, kernel
<1>5. CASE HoldBack \/ ReadNothing
  BY <1>1, <1>2, <1>5 DEF HoldBack, ReadNothing, kernel, sender
<1>6. CASE RecordToClient \/ Dial \/ Break \/ Write \/ WriteFails \/ UNCHANGED vars
  BY <1>1, <1>2, <1>6 DEF RecordToClient, Dial, Break, Write, WriteFails, vars, kernel, poller, sender
<1>7. QED
  BY <1>3, <1>4, <1>5, <1>6, ProbeCounts, ReadCounts DEF Next, Goroutine

-----------------------------------------------------------------------------
(* Types *)

LEMMA TypeNext ==
  ASSUME PathInv, TypeOK, [Next]_vars
  PROVE  TypeOK'
<1> USE CaptureAssumption
<1>1. CASE \E cpu \in Cpus : kprobe__tty_write(cpu)
  <2>1. PICK cpu \in Cpus : kprobe__tty_write(cpu)
    BY <1>1
  <2>2. clock' \in 0..MaxWrites
    BY <2>1 DEF kprobe__tty_write, TypeOK
  <2>3. Len(ring') <= RingSize
    <3> DEFINE x == Sample(clock + 1)
               records == IF rbLost > 0 THEN <<Lost(rbLost), x>> ELSE <<x>>
    <3>1. UNCHANGED ring \/ (ring' = ring \o records /\ Len(ring) + Len(records) <= RingSize)
      BY <2>1 DEF kprobe__tty_write, Output
    <3>2. x \in Records /\ Lost(rbLost) \in Records /\ ring \in Seq(Records)
      BY DEF PathInv, Stages, Sample, Lost, Samples, Records
    <3> HIDE DEF x
    <3>3. records \in Seq(Records)
      BY <3>2
    <3> HIDE DEF records
    <3>4. Len(ring \o records) = Len(ring) + Len(records)
      BY <3>2, <3>3
    <3>5. QED
      BY <3>1, <3>4 DEF TypeOK
  <2>4. QED
    BY <2>1, <2>2, <2>3 DEF TypeOK, kprobe__tty_write, poller, sender
<1>2. CASE ReadSample \/ ReadLost
  <2>1. ring # <<>> /\ ring' = Tail(ring) /\ ring \in Seq(Records)
    BY <1>2 DEF ReadSample, ReadLost, PathInv, Stages
  <2>2. Len(ring') <= RingSize
    BY <2>1 DEF TypeOK
  <2>3. QED
    BY <1>2, <2>2 DEF TypeOK, ReadSample, ReadLost, sender
<1>3. CASE Poll \/ ReadNothing \/ LostToClient \/ HoldBack \/ AllSent
  BY <1>3 DEF Poll, ReadNothing, LostToClient, HoldBack, AllSent, NewHarvest, TypeOK, kernel, sender
<1>4. CASE RecordToClient
  <2>1. Len(record') = 1
    BY <1>4 DEF RecordToClient
  <2>2. QED
    BY <1>4, <2>1 DEF RecordToClient, TypeOK, kernel
<1>5. CASE Dial \/ Break
  BY <1>5 DEF Dial, Break, TypeOK, kernel, poller
<1>6. CASE Write \/ WriteFails
  <2>1. Len(record') = 0
    BY <1>6 DEF Write, WriteFails
  <2>2. QED
    BY <1>6, <2>1 DEF Write, WriteFails, TypeOK, kernel, poller
<1>7. CASE UNCHANGED vars
  BY <1>7 DEF vars, kernel, poller, sender, TypeOK
<1>8. QED
  BY <1>1, <1>2, <1>3, <1>4, <1>5, <1>6, <1>7 DEF Next, Goroutine

-----------------------------------------------------------------------------

(* No time is twice on the path, and the path has the times of its stages. *)
LEMMA PathTimes ==
  ASSUME PathInv
  PROVE  Distinct(Path) /\ Times(Path) = Stays
<1>1. /\ put \in Seq(Samples) /\ record \in Seq(Samples) /\ incoming \in Seq(Samples) /\ ring \in Seq(Records)
      /\ put \in Seq(Records) /\ record \in Seq(Records) /\ incoming \in Seq(Records)
  BY SamplesAreRecords DEF PathInv, Stages
<1>2. Distinct(put) /\ Distinct(record) /\ Distinct(incoming)
  BY <1>1, RisingDistinct DEF PathInv, Behind
<1>3. Distinct(ring)
  <2>1. \A k \in DOMAIN ring : ring[k] \in Records /\ k \in Nat
    BY <1>1
  <2>2. \A k \in DOMAIN ring : ring[k].type = "sample" => ring[k].t \in Nat
    BY <2>1 DEF Records, Samples
  <2>3. QED
    BY <2>1, <2>2 DEF PathInv, RingLater, Distinct
<1>4. Times(put) \intersect Times(record) = {}
  BY <1>1, BelowApart DEF PathInv, Behind
<1>5. Times(put) \intersect Times(incoming) = {} /\ Times(record) \intersect Times(incoming) = {}
  BY <1>1, BelowApart DEF PathInv, Behind
<1>6. /\ Times(put) \intersect Times(ring) = {} /\ Times(record) \intersect Times(ring) = {}
      /\ Times(incoming) \intersect Times(ring) = {}
  BY <1>1, BelowApart DEF PathInv, RingLater
<1>7. /\ put \o record \in Seq(Records) /\ Distinct(put \o record)
      /\ Times(put \o record) = Times(put) \union Times(record)
  BY <1>1, <1>2, <1>4, TimesConcat
<1> DEFINE u == put \o record
<1> HIDE DEF u
<1>8. u \in Seq(Records) /\ Distinct(u) /\ Times(u) = Times(put) \union Times(record)
  BY <1>7 DEF u
<1>9. Times(u) \intersect Times(incoming) = {}
  BY <1>5, <1>8
<1>10. /\ u \o incoming \in Seq(Records) /\ Distinct(u \o incoming)
       /\ Times(u \o incoming) = Times(u) \union Times(incoming)
  BY <1>1, <1>2, <1>8, <1>9, TimesConcat
<1> DEFINE v == u \o incoming
<1> HIDE DEF v
<1>11. v \in Seq(Records) /\ Distinct(v) /\ Times(v) = UNION {Times(put), Times(record), Times(incoming)}
  <2>1. v \in Seq(Records) /\ Distinct(v) /\ Times(v) = Times(u) \union Times(incoming)
    BY <1>10 DEF v
  <2>2. QED
    BY <1>8, <2>1
<1>12. Times(v) \intersect Times(ring) = {}
  BY <1>6, <1>11
<1>13. Distinct(v \o ring) /\ Times(v \o ring) = Times(v) \union Times(ring)
  BY <1>1, <1>3, <1>11, <1>12, TimesConcat
<1>14. Path = v \o ring
  BY DEF Path, u, v
<1>15. QED
  BY <1>11, <1>13, <1>14 DEF Stays

(* Every terminal write is in exactly one place on its way from the kernel *)
(* to a connection, or it is the record a broken connection cost, or the   *)
(* kernel refused it; and the counts of lost writes add up to what the     *)
(* ring had no room for (bpf_tty.c, PollStart and the client's main).      *)
THEOREM WritesAreAccounted == Spec => []Accounted
<1>1. Init => AccountInv
  <2> SUFFICES ASSUME Init PROVE AccountInv
    OBVIOUS
  <2>1. Stages /\ RingLater
    BY DEF Init, Stages, RingLater
  <2>2. Behind
    BY DEF Init, Behind, Rising, Below
  <2>3. TypeOK
    BY CaptureAssumption DEF Init, TypeOK
  <2>4. PlaceInv
    <3>1. Times(<<>>) = {}
      BY DEF Times
    <3>2. QED
      BY <3>1 DEF Init, PlaceInv, Stays, Gone
  <2>5. CountInv
    <3>1. PICK account : account = [k \in 0..0 |-> 0]
      OBVIOUS
    <3>2. /\ account \in [0..Len(ring) -> 0..clock] /\ account[0] = 0 /\ account[Len(ring)] = 0
          /\ DOMAIN ring = {}
      BY <3>1 DEF Init
    <3>3. Cardinality(missed) = 0
      BY FS_EmptySet DEF Init
    <3>4. Account(account)
      BY <3>2, <3>3 DEF Init, Account
    <3>5. QED
      BY <3>2, <3>4 DEF Init, CountInv
  <2>6. QED
    BY <2>1, <2>2, <2>3, <2>4, <2>5 DEF PathInv, AccountInv
<1>2. AccountInv /\ [Next]_vars => AccountInv'
  BY PathNext, TypeNext, PlaceNext, CountNext DEF AccountInv
<1>3. AccountInv => Accounted
  <2> SUFFICES ASSUME AccountInv PROVE Accounted
    OBVIOUS
  <2>1. Distinct(Path) /\ Times(Path) = Stays
    BY PathTimes DEF AccountInv
  <2>2. UNION {Times(Path), dropped, missed, unseen} = Stays \union Gone
    BY <2>1 DEF Gone
  <2>3. QED
    BY <2>1, <2>2 DEF AccountInv, PlaceInv, CountInv, Gone, Distinct, Accounted
<1>4. QED
  BY <1>1, <1>2, <1>3, PTL DEF Spec
=============================================================================
