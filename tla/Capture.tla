------------------------------- MODULE Capture -------------------------------
(***************************************************************************)
(* The path of a terminal write from the kernel to a connection: the probe *)
(* (bpf/bpf_tty.c), the perf ring and the goroutine that empties it        *)
(* (vendor/github.com/iovisor/gobpf/elf/perf.go), and the client           *)
(* (cmd/client/main.go).                                                   *)
(*                                                                         *)
(* The probe asks for the ring of CPU 0, so there is one ring with         *)
(* something in it.  A write is known by the time at which the probe ran.  *)
(* Both channels have no buffer: a send is one step with the select of the *)
(* client.                                                                 *)
(***************************************************************************)
EXTENDS Integers, Sequences, SequencesExt, FiniteSets

CONSTANTS
    Cpus,         \* processors, 0 among them
    RingSize,     \* records that fit into the ring
    MaxWrites,    \* bound: terminal writes
    MaxBreaks     \* bound: connections that break

ASSUME CaptureAssumption == 0 \in Cpus /\ {RingSize, MaxWrites, MaxBreaks} \subseteq Nat

VARIABLES
    clock,      \* the time
    ring,       \* records of the perf ring, samples and counts of lost ones
    rbLost,     \* writes the ring had no room for, not in a record yet
    pc,         \* where the polling goroutine is: poll, harvest, lost, send
    harvest,    \* its beforeHarvest, whether harvestCount > 0, and lost.Lost
    incoming,   \* records it has read and not sent
    client,     \* where the client is: dial, select, write
    record,     \* the record the client writes, <<>> or <<sample>>
    link,       \* its connection: none, up or broken
    breaks,     \* connections that broke
    put,        \* records a connection took, in order
    dropped,    \* records whose write failed
    missed,     \* writes the ring had no room for
    unseen,     \* writes the kernel refused to put into the ring
    reported    \* how many lost writes the client was told of

kernel == <<clock, ring, rbLost, missed, unseen>>
poller == <<pc, harvest, incoming>>
sender == <<client, record, link, breaks, put, dropped, reported>>
vars == <<kernel, poller, sender>>

Sample(t) == [type |-> "sample", t |-> t]
Lost(n) == [type |-> "lost", n |-> n]

Init ==
    /\ clock = 0 /\ ring = <<>> /\ rbLost = 0 /\ missed = {} /\ unseen = {}
    /\ pc = "poll" /\ harvest = [before |-> 0, any |-> FALSE, lost |-> 0] /\ incoming = <<>>
    /\ client = "dial" /\ record = <<>> /\ link = "none" /\ breaks = 0
    /\ put = <<>> /\ dropped = {} /\ reported = 0

-----------------------------------------------------------------------------
(* The probe *)

\* External: the kernel's perf_event_output.  Lost writes are counted in a
\* record before the next sample, and both must fit.
Output(cpu, sample) ==
    LET records == IF rbLost > 0 THEN <<Lost(rbLost), sample>> ELSE <<sample>> IN
    \/ /\ cpu # 0
       /\ unseen' = unseen \union {sample.t}
       /\ UNCHANGED <<ring, rbLost, missed>>
    \/ /\ cpu = 0 /\ Len(ring) + Len(records) <= RingSize
       /\ ring' = ring \o records
       /\ rbLost' = 0
       /\ UNCHANGED <<missed, unseen>>
    \/ /\ cpu = 0 /\ Len(ring) + Len(records) > RingSize
       /\ rbLost' = rbLost + 1
       /\ missed' = missed \union {sample.t}
       /\ UNCHANGED <<ring, unseen>>

kprobe__tty_write(cpu) ==
    /\ clock < MaxWrites
    /\ clock' = clock + 1
    /\ Output(cpu, Sample(clock + 1))
    /\ UNCHANGED <<poller, sender>>

-----------------------------------------------------------------------------
(* PollStart's goroutine *)

NewHarvest == harvest' = [before |-> clock, any |-> FALSE, lost |-> 0]

\* perfEventPoll returns, at the latest after its timeout.
Poll ==
    /\ pc = "poll"
    /\ pc' = "harvest" /\ NewHarvest
    /\ UNCHANGED <<incoming, kernel, sender>>

\* sort.Sort, on the way from the rings to the channel.
Sorted(records) ==
    LET at == DOMAIN records
    IN CHOOSE s \in {[i \in at |-> records[p[i]]] : p \in Injection(at, at)} :
          \A i, j \in at : i < j => s[i].t <= s[j].t

\* Mutant of ReadSample: leaves the loop before it keeps the sample.
ReadSampleLate ==
    /\ pc = "harvest" /\ ring # <<>> /\ Head(ring).type = "sample"
    /\ ring' = Tail(ring)
    /\ incoming' = IF Head(ring).t > harvest.before THEN incoming ELSE Append(incoming, Head(ring))
    /\ harvest' = [harvest EXCEPT !.any = TRUE]
    /\ pc' = IF Head(ring).t > harvest.before THEN "send" ELSE "harvest"
    /\ UNCHANGED <<clock, rbLost, missed, unseen, sender>>

\* A sample of after the beginning of the harvest is the last one read.
ReadSample ==
    /\ pc = "harvest" /\ ring # <<>> /\ Head(ring).type = "sample"
    /\ ring' = Tail(ring)
    /\ incoming' = LET kept == Append(incoming, Head(ring))
                   IN IF Head(ring).t > harvest.before THEN Sorted(kept) ELSE kept
    /\ harvest' = [harvest EXCEPT !.any = TRUE]
    /\ pc' = IF Head(ring).t > harvest.before THEN "send" ELSE "harvest"
    /\ UNCHANGED <<clock, rbLost, missed, unseen, sender>>

ReadLost ==
    /\ pc = "harvest" /\ ring # <<>> /\ Head(ring).type = "lost"
    /\ ring' = Tail(ring)
    /\ harvest' = [harvest EXCEPT !.lost = Head(ring).n]
    /\ pc' = "lost"
    /\ UNCHANGED <<clock, rbLost, missed, unseen, incoming, sender>>

ReadNothing ==
    /\ pc = "harvest" /\ ring = <<>>
    /\ pc' = "send"
    /\ incoming' = Sorted(incoming)
    /\ UNCHANGED <<harvest, kernel, sender>>

\* The client takes a count of lost writes and logs it.
LostToClient ==
    /\ pc = "lost" /\ client = "select"
    /\ reported' = reported + harvest.lost
    /\ harvest' = [harvest EXCEPT !.lost = 0]
    /\ pc' = "harvest"
    /\ UNCHANGED <<incoming, client, record, link, breaks, put, dropped, kernel>>

Ready == incoming # <<>> /\ incoming[1].t <= harvest.before

\* The client takes a record.
RecordToClient ==
    /\ pc = "send" /\ Ready /\ client = "select"
    /\ record' = <<incoming[1]>>
    /\ incoming' = Tail(incoming)
    /\ client' = "write"
    /\ UNCHANGED <<pc, harvest, link, breaks, put, dropped, reported, kernel>>

\* Mutant of HoldBack: tries again within the same harvest.
HoldBackSpins ==
    /\ pc = "send" /\ incoming # <<>> /\ ~Ready
    /\ UNCHANGED vars

\* The first record is younger than the harvest: it waits for the next one.
HoldBack ==
    /\ pc = "send" /\ incoming # <<>> /\ ~Ready
    /\ pc' = "poll"
    /\ UNCHANGED <<harvest, incoming, kernel, sender>>

\* Everything is sent: harvests until one brings nothing.
AllSent ==
    /\ pc = "send" /\ incoming = <<>>
    /\ IF harvest.any THEN pc' = "harvest" /\ NewHarvest ELSE pc' = "poll" /\ harvest' = harvest
    /\ UNCHANGED <<incoming, kernel, sender>>

Goroutine ==
    \/ Poll \/ ReadSample \/ ReadLost \/ ReadNothing
    \/ LostToClient \/ RecordToClient \/ HoldBack \/ AllSent

-----------------------------------------------------------------------------
(* The client *)

Dial ==
    /\ client = "dial"
    /\ client' = "select" /\ link' = "up"
    /\ UNCHANGED <<record, breaks, put, dropped, reported, kernel, poller>>

\* A connection takes a record, also one that is already broken.
Write ==
    /\ client = "write"
    /\ put' = put \o record
    /\ record' = <<>> /\ client' = "select"
    /\ UNCHANGED <<link, breaks, dropped, reported, kernel, poller>>

\* Mutant of WriteFails: puts the record back for the next connection.
WriteFailsAgain ==
    /\ client = "write" /\ link = "broken"
    /\ incoming' = incoming \o record
    /\ record' = <<>> /\ client' = "dial" /\ link' = "none"
    /\ UNCHANGED <<breaks, put, dropped, reported, pc, harvest, kernel>>

\* A write fails: the record is gone, and the client dials again.
WriteFails ==
    /\ client = "write" /\ link = "broken"
    /\ dropped' = dropped \union {record[1].t}
    /\ record' = <<>> /\ client' = "dial" /\ link' = "none"
    /\ UNCHANGED <<breaks, put, reported, kernel, poller>>

\* External: the connection breaks; the client learns of it when it writes.
Break ==
    /\ link = "up" /\ breaks < MaxBreaks
    /\ link' = "broken" /\ breaks' = breaks + 1
    /\ UNCHANGED <<client, record, put, dropped, reported, kernel, poller>>

Next ==
    \/ \E cpu \in Cpus : kprobe__tty_write(cpu)
    \/ Goroutine
    \/ Dial \/ Write \/ WriteFails \/ Break

\* Go runs its goroutines; every dial that is repeated succeeds in the end.
Spec ==
    /\ Init /\ [][Next]_vars
    /\ WF_vars(Goroutine) /\ WF_vars(Write \/ WriteFails) /\ WF_vars(Dial)

-----------------------------------------------------------------------------

Times(records) == {records[i].t : i \in {k \in DOMAIN records : records[k].type = "sample"}}

\* Where a write can be that nothing became of yet, oldest first.
Path == put \o record \o incoming \o ring

TypeOK ==
    /\ clock \in 0..MaxWrites
    /\ pc \in {"poll", "harvest", "lost", "send"}
    /\ client \in {"dial", "select", "write"}
    /\ Len(record) = IF client = "write" THEN 1 ELSE 0
    /\ link = "none" <=> client = "dial"
    /\ Len(ring) <= RingSize

\* The goroutine and the client report lost writes as they empty the ring:
\* account[k] is how many they have reported after record k.
Account(account) ==
    /\ account[0] = reported + harvest.lost
    /\ \A k \in DOMAIN ring :
         account[k] = account[k - 1] + IF ring[k].type = "lost" THEN ring[k].n ELSE 0
    /\ account[Len(ring)] + rbLost = Cardinality(missed)

\* Every terminal write is in exactly one place - the ring, the goroutine,
\* the client, a connection, the one record of a write that failed - or it
\* found the ring full, or another processor made it; and the counts of lost
\* writes on their way add up.  Nothing is lost without a trace between the
\* ring and a connection, and nothing is sent twice.  The ring never holds
\* more than it can, and the client writes over a connection only (TypeOK).
Accounted ==
    /\ TypeOK
    /\ \A i, j \in DOMAIN Path :
         i # j /\ Path[i].type = "sample" /\ Path[j].type = "sample" => Path[i].t # Path[j].t
    /\ UNION {Times(Path), dropped, missed, unseen} = 1..clock
    /\ Times(Path) \intersect UNION {dropped, missed, unseen} = {}
    /\ dropped \intersect (missed \union unseen) = {} /\ missed \intersect unseen = {}
    /\ \E account \in [0..Len(ring) -> 0..clock] : Account(account)

\* Connections take the writes in the order in which they were made, however
\* harvests, breaks and dials interleave with them.
SentInOrder == \A i, j \in DOMAIN put : i < j => put[i].t < put[j].t

\* A write that is in the ring or held back is sent, or is the one record
\* that a broken connection costs.
CapturedIsSent ==
    \A t \in 1..MaxWrites :
      t \in Times(ring) \union Times(incoming) ~> t \in Times(put) \union dropped

=============================================================================
