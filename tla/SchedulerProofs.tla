--------------------------- MODULE SchedulerProofs ---------------------------
(***************************************************************************)
(* The scheduler of the Elm runtime, for every program that uses it as the *)
(* effect managers do (Disciplined), and for any MAX_STEPS.                *)
(***************************************************************************)
EXTENDS Scheduler, NaturalsInduction, WellFoundedInduction, SequenceTheorems, TLAPS

Has(queue, p) == \E i \in DOMAIN queue : queue[i] = p
Once(queue, p) == \A i, j \in DOMAIN queue : queue[i] = p /\ queue[j] = p => i = j

\* work() is running or called for, as long as there is something to do.
LoopInv ==
  /\ working <=> (inWork \/ workTimers > 0)
  /\ workTimers + (IF inWork THEN 1 ELSE 0) <= 1
  /\ workQueue # <<>> => working
  /\ current # 0 => inWork /\ Root(current) # NoTask

\* A process step() could advance is queued or being stepped.
Wakes(p) == Runnable(p) => Has(workQueue, p) \/ current = p

\* A process that gets no messages is in one place: once in the queue, or
\* being stepped, or asleep.
InOnePlace(p) ==
  sent[p] = <<>> =>
    /\ Once(workQueue, p)
    /\ current = p \/ Asleep(p) => ~Has(workQueue, p)
    /\ ~(current = p /\ Asleep(p))

Timed(p) ==
  /\ armed[p] = IF Asleep(p) THEN 1 ELSE 0
  /\ Asleep(p) => sent[p] = <<>>

\* A process that is not spawned yet.
Fresh(p) ==
  p >= nextPid => /\ Root(p) = NoTask /\ sent[p] = <<>> /\ handled[p] = <<>>
                  /\ ~Has(workQueue, p) /\ p \notin killed

ProcInv(p) ==
  /\ Wakes(p) /\ InOnePlace(p) /\ Timed(p) /\ Fresh(p)
  /\ sent[p] = handled[p] \o proc[p].mailbox
  /\ p \in killed => Root(p) = NoTask

SchedInv == TypeOK /\ LoopInv /\ \A p \in Pid : ProcInv(p)

-----------------------------------------------------------------------------
(* The queue *)

LEMMA QueueAppend ==
  ASSUME NEW q \in Seq(Pid), NEW x \in Pid
  PROVE  /\ q \o <<x>> \in Seq(Pid) /\ q \o <<x>> # <<>>
         /\ \A p : Has(q \o <<x>>, p) <=> Has(q, p) \/ p = x
         /\ \A p : Once(q, p) /\ (p = x => ~Has(q, p)) => Once(q \o <<x>>, p)
<1> DEFINE r == q \o <<x>>
           n == Len(q)
<1>1. /\ r \in Seq(Pid) /\ Len(r) = n + 1 /\ n \in Nat /\ DOMAIN q = 1..n /\ DOMAIN r = 1..(n + 1)
      /\ r[n + 1] = x /\ \A i \in DOMAIN q : r[i] = q[i]
  OBVIOUS
<1>2. r # <<>>
  BY <1>1
<1> HIDE DEF r, n
<1>3. \A i \in DOMAIN r : i \in DOMAIN q \/ i = n + 1
  BY <1>1
<1>4. \A i \in DOMAIN q : i \in DOMAIN r
  BY <1>1
<1>5. n + 1 \in DOMAIN r
  BY <1>1
<1>6. \A p : Has(r, p) <=> Has(q, p) \/ p = x
  BY <1>1, <1>3, <1>4, <1>5 DEF Has
<1>7. ASSUME NEW p, Once(q, p), p = x => ~Has(q, p) PROVE Once(r, p)
  BY <1>1, <1>3, <1>7 DEF Once, Has
<1>8. QED
  BY <1>1, <1>2, <1>6, <1>7 DEF r

LEMMA QueueTail ==
  ASSUME NEW q \in Seq(Pid), q # <<>>
  PROVE  /\ Tail(q) \in Seq(Pid) /\ Head(q) \in Pid
         /\ \A p : Has(q, p) <=> Has(Tail(q), p) \/ p = Head(q)
         /\ \A p : Once(q, p) => Once(Tail(q), p) /\ (p = Head(q) => ~Has(Tail(q), p))
<1> DEFINE r == Tail(q)
           n == Len(q)
<1>1. /\ r \in Seq(Pid) /\ n \in Nat /\ n > 0 /\ DOMAIN q = 1..n /\ DOMAIN r = 1..(n - 1)
      /\ \A i \in DOMAIN r : r[i] = q[i + 1]
      /\ Head(q) = q[1] /\ Head(q) \in Pid
  OBVIOUS
<1> HIDE DEF r, n
<1>2. \A i \in DOMAIN r : i + 1 \in DOMAIN q /\ i + 1 # 1 /\ i \in Nat
  BY <1>1
<1>3. 1 \in DOMAIN q
  BY <1>1
<1>4. \A i \in DOMAIN q : i = 1 \/ (i - 1 \in DOMAIN r /\ r[i - 1] = q[i])
  BY <1>1
<1>5. \A p : Has(q, p) <=> Has(r, p) \/ p = Head(q)
  BY <1>1, <1>2, <1>3, <1>4 DEF Has
<1>6. ASSUME NEW p, Once(q, p) PROVE Once(r, p)
  <2>1. ASSUME NEW i \in DOMAIN r, NEW j \in DOMAIN r, r[i] = p, r[j] = p PROVE i = j
    <3>1. i + 1 = j + 1
      BY <1>1, <1>2, <1>6, <2>1 DEF Once
    <3>2. QED
      BY <1>2, <3>1
  <2>2. QED
    BY <2>1 DEF Once
<1>7. ASSUME NEW p, Once(q, p), p = Head(q) PROVE ~Has(r, p)
  BY <1>1, <1>2, <1>3, <1>7 DEF Once, Has
<1>8. QED
  BY <1>1, <1>5, <1>6, <1>7 DEF r

-----------------------------------------------------------------------------
(* Tasks and processes *)

LEMMA TaskFacts ==
  /\ NoTask \notin Tasks /\ NoTask \notin Entered
  /\ \A t \in Tasks : t.ctor = "nativeBinding" => t.op \in Operations /\ t.cancel = FALSE
  /\ \A t \in Tasks : t.ctor = "nativeBinding" => t = [ctor |-> "nativeBinding", op |-> t.op, cancel |-> FALSE]
  /\ \A t \in Tasks : t.ctor \in {"succeed", "fail"} => t.value \in Values
  /\ \A t \in Tasks : t.ctor \in {"andThen", "onError"} => t.callback \in Callbacks /\ t.task \in Tasks
  /\ \A t \in Tasks : t.ctor = "receive" => t.callback \in Callbacks
  /\ \A t \in Entered : t.ctor = "nativeBinding" /\ t.op \in Operations /\ t.cancel = TRUE
<1>1. NoTask \notin Tasks /\ NoTask \notin Entered
  BY ProgramAssumption
<1>2. ASSUME NEW t \in Tasks, t.ctor = "nativeBinding"
      PROVE  t.op \in Operations /\ t.cancel = FALSE /\ t = [ctor |-> "nativeBinding", op |-> t.op, cancel |-> FALSE]
  <2>1. t \in [ctor : {"nativeBinding"}, op : Operations, cancel : {FALSE}]
    BY <1>2, ProgramAssumption
  <2>2. QED
    BY <2>1
<1>3. ASSUME NEW t \in Tasks, t.ctor \in {"succeed", "fail"} PROVE t.value \in Values
  BY <1>3, ProgramAssumption
<1>4. ASSUME NEW t \in Tasks, t.ctor \in {"andThen", "onError"} PROVE t.callback \in Callbacks /\ t.task \in Tasks
  BY <1>4, ProgramAssumption
<1>5. ASSUME NEW t \in Tasks, t.ctor = "receive" PROVE t.callback \in Callbacks
  BY <1>5, ProgramAssumption
<1>6. \A t \in Entered : t.ctor = "nativeBinding" /\ t.op \in Operations /\ t.cancel = TRUE
  BY DEF Entered
<1>7. QED
  BY <1>1, <1>2, <1>3, <1>4, <1>5, <1>6

LEMMA ProcFacts ==
  ASSUME TypeOK, NEW p \in Pid
  PROVE  /\ proc[p] \in Process /\ Root(p) \in Tasks \cup {NoTask} \cup Entered
         /\ proc[p].root = Root(p) /\ proc[p].stack \in Seq(Frames) /\ proc[p].mailbox \in Seq(Values)
         /\ proc[p] = [root |-> Root(p), stack |-> proc[p].stack, mailbox |-> proc[p].mailbox]
         /\ Asleep(p) <=> Root(p) \in Entered
         /\ ~Asleep(p) <=> Root(p) \in Tasks \cup {NoTask}
<1>1. /\ proc[p] \in Process
      /\ proc[p].root = Root(p) /\ Root(p) \in Tasks \cup {NoTask} \cup Entered
      /\ proc[p].stack \in Seq(Frames) /\ proc[p].mailbox \in Seq(Values)
      /\ proc[p] = [root |-> Root(p), stack |-> proc[p].stack, mailbox |-> proc[p].mailbox]
  BY DEF TypeOK, Process, Root
<1>2. Asleep(p) <=> Root(p) \in Entered
  BY <1>1, TaskFacts DEF Asleep
<1>3. Root(p) \in Entered => Root(p) \notin Tasks \cup {NoTask}
  BY TaskFacts
<1>4. QED
  BY <1>1, <1>2, <1>3

(* What a process waits for depends on its own state only.                 *)
LEMMA SameProcess ==
  ASSUME NEW p, proc'[p] = proc[p]
  PROVE  (Runnable(p)' <=> Runnable(p)) /\ (Asleep(p)' <=> Asleep(p)) /\ Root(p)' = Root(p)
  BY DEF Runnable, Asleep, Root

LEMMA NullWaits ==
  ASSUME NEW p, Root(p) = NoTask
  PROVE  ~Runnable(p) /\ ~Asleep(p)
  BY DEF Runnable, Asleep

LEMMA TaskAwake ==
  ASSUME NEW p, Root(p) \in Tasks
  PROVE  ~Asleep(p) /\ Root(p) # NoTask
  BY TaskFacts DEF Asleep

(* Popping frames leaves a stack.                                          *)
LEMMA UnwindType ==
  ASSUME NEW stack \in Seq(Frames), NEW ctor
  PROVE  Unwind(stack, ctor) \in Seq(Frames) /\ Unwind(<<>>, ctor) = <<>>
<1> DEFINE wanted == {i \in 1..Len(stack) : stack[i].ctor = ctor}
           top == CHOOSE i \in wanted : \A j \in wanted : i <= j
<1>1. Unwind(<<>>, ctor) = <<>>
  BY DEF Unwind
<1>2. CASE wanted = {}
  BY <1>1, <1>2 DEF Unwind
<1>3. CASE wanted # {}
  <2>1. wanted \subseteq Nat
    OBVIOUS
  <2> HIDE DEF wanted
  <2> DEFINE R == OpToRel(<, Nat)
  <2>0. \A i, j \in Nat : j < i => <<j, i>> \in R
    BY DEF OpToRel
  <2>a. IsWellFoundedOn(R, Nat)
    BY NatLessThanWellFounded
  <2> HIDE DEF R
  <2>2. PICK i \in wanted : \A j \in wanted : <<j, i>> \notin R
    BY <1>3, <2>1, <2>a, WFMin
  <2>3. ASSUME NEW j \in wanted PROVE i <= j
    <3>1. i \in Nat /\ j \in Nat
      BY <2>1, <2>2
    <3>2. ~(j < i)
      BY <2>0, <2>2, <3>1
    <3>3. QED
      BY <3>1, <3>2
  <2>4. top \in wanted
    BY <2>2, <2>3
  <2>5. top \in 1..Len(stack)
    BY <2>4 DEF wanted
  <2> HIDE DEF top
  <2>6. SubSeq(stack, top, Len(stack)) \in Seq(Frames)
    BY <2>5
  <2>7. QED
    BY <1>1, <1>3, <2>6 DEF Unwind, wanted, top
<1>4. QED
  BY <1>2, <1>3

-----------------------------------------------------------------------------
(* Steps of step() that concern one process *)

(* The process step() is working on has a task that is not entered.        *)
LEMMA CurrentFacts ==
  ASSUME SchedInv, current # 0
  PROVE  /\ current \in Pid /\ inWork /\ Root(current) \in Tasks /\ ~Asleep(current)
         /\ current < nextPid /\ current \notin killed /\ armed[current] = 0
         /\ proc[current].stack \in Seq(Frames) /\ proc[current].mailbox \in Seq(Values)
         /\ sent[current] = handled[current] \o proc[current].mailbox
         /\ handled[current] \in Seq(Values)
<1>1. current \in Pid /\ inWork /\ Root(current) # NoTask /\ nextPid \in Nat /\ current \in Nat
  BY DEF SchedInv, TypeOK, LoopInv, Pid
<1>2. ProcInv(current)
  BY <1>1 DEF SchedInv
<1>3. ~Asleep(current) /\ armed[current] = 0
  BY <1>2 DEF ProcInv, InOnePlace, Timed
<1>4. Root(current) \in Tasks /\ proc[current].stack \in Seq(Frames) /\ proc[current].mailbox \in Seq(Values)
  BY <1>1, <1>3, ProcFacts DEF SchedInv
<1>5. current < nextPid /\ current \notin killed
  BY <1>1, <1>2 DEF ProcInv, Fresh
<1>6. QED
  BY <1>1, <1>2, <1>3, <1>4, <1>5 DEF SchedInv, ProcInv, TypeOK

(* A process a step does not concern.                                      *)
LEMMA OtherKept ==
  ASSUME NEW p \in Pid, ProcInv(p), current # p, current' # p,
         proc'[p] = proc[p], armed'[p] = armed[p], sent'[p] = sent[p], handled'[p] = handled[p],
         p \in killed' => p \in killed, p >= nextPid' => p >= nextPid,
         Has(workQueue', p) <=> Has(workQueue, p),
         Once(workQueue, p) => Once(workQueue', p)
  PROVE  ProcInv(p)'
<1>1. (Runnable(p)' <=> Runnable(p)) /\ (Asleep(p)' <=> Asleep(p)) /\ Root(p)' = Root(p)
  BY SameProcess
<1>2. Wakes(p)'
  BY <1>1 DEF ProcInv, Wakes
<1>3. InOnePlace(p)'
  BY <1>1 DEF ProcInv, InOnePlace
<1>4. Timed(p)'
  BY <1>1 DEF ProcInv, Timed
<1>5. Fresh(p)'
  BY <1>1 DEF ProcInv, Fresh
<1>6. QED
  BY <1>1, <1>2, <1>3, <1>4, <1>5 DEF ProcInv

(* The process that is stepped gets a new task, stack and mailbox, and     *)
(* step() goes on with it or leaves it when there is nothing to do for it. *)
LEMMA OwnStep ==
  ASSUME SchedInv, current # 0, numSteps < MaxSteps, numSteps' = numSteps + 1,
         UNCHANGED <<nextPid, workQueue, working, workTimers, inWork, armed, sent, killed>>,
         proc' \in [Pid -> Process], handled' \in [Pid -> Seq(Values)],
         \A p \in Pid : p # current => proc'[p] = proc[p] /\ handled'[p] = handled[p],
         proc'[current].root \in Tasks,
         sent[current] = handled'[current] \o proc'[current].mailbox,
         \/ current' = current
         \/ current' = 0 /\ \A p \in Pid : p = current => ~Runnable(p)'
  PROVE  SchedInv'
<1>0. PICK c \in Pid : c = current
  BY CurrentFacts
<1>1. c < nextPid /\ c \notin killed /\ inWork /\ ~Asleep(c) /\ armed[c] = 0
  BY <1>0, CurrentFacts
<1>2. nextPid \in Nat /\ c \in Nat /\ c # 0 /\ numSteps \in Nat /\ MaxSteps \in Nat
  BY SchedulerAssumption DEF SchedInv, TypeOK, Pid
<1>3. Root(c)' \in Tasks /\ sent[c] = handled'[c] \o proc'[c].mailbox
  BY <1>0 DEF Root
<1>4. ~Asleep(c)' /\ Root(c)' # NoTask
  BY <1>3, TaskFacts DEF Asleep
<1>5. current' = c \/ (current' = 0 /\ ~Runnable(c)')
  BY <1>0
<1>6. TypeOK'
  BY <1>0, <1>2, <1>5 DEF SchedInv, TypeOK
<1>7. LoopInv'
  <2>1. current' # 0 => Root(current)' # NoTask
    BY <1>4, <1>5
  <2>2. QED
    BY <1>1, <2>1 DEF SchedInv, LoopInv
<1>8. ASSUME NEW p \in Pid, p # c PROVE ProcInv(p)'
  <2>1. ProcInv(p) /\ current # p /\ current' # p
    BY <1>0, <1>5, <1>8 DEF SchedInv, Pid
  <2>2. QED
    BY <1>0, <1>8, <2>1, OtherKept
<1>9. ProcInv(c)'
  <2>1. ProcInv(c)
    BY DEF SchedInv
  <2>2. Wakes(c)'
    BY <1>5 DEF Wakes
  <2>3. InOnePlace(c)'
    BY <1>0, <1>4, <2>1 DEF ProcInv, InOnePlace
  <2>4. Timed(c)' /\ Fresh(c)'
    BY <1>1, <1>2, <1>4 DEF Timed, Fresh
  <2>5. QED
    BY <1>1, <1>3, <2>2, <2>3, <2>4 DEF ProcInv
<1>10. QED
  BY <1>6, <1>7, <1>8, <1>9 DEF SchedInv

LEMMA ResultKeeps ==
  ASSUME SchedInv, NEW ctor, NEW frame, StepResult(ctor, frame),
         <<ctor, frame>> \in {<<"succeed", "andThen">>, <<"fail", "onError">>}
  PROVE  SchedInv'
<1> DEFINE c == current
           rest == Unwind(proc[c].stack, frame)
<1>1. /\ current # 0 /\ numSteps < MaxSteps /\ Root(c).ctor = ctor
      /\ UNCHANGED <<nextPid, workQueue, working, armed, sent, killed, handled, workTimers, inWork>>
      /\ numSteps' = numSteps + 1
  BY DEF StepResult, Stepping, history, StepBreaks, StepContinues
<1>2. /\ c \in Pid /\ Root(c) \in Tasks /\ sent[c] = handled[c] \o proc[c].mailbox
      /\ proc[c].stack \in Seq(Frames) /\ proc[c].mailbox \in Seq(Values) /\ handled \in [Pid -> Seq(Values)]
      /\ proc \in [Pid -> Process]
  BY <1>1, CurrentFacts DEF SchedInv, TypeOK
<1>3. rest \in Seq(Frames) /\ Unwind(<<>>, frame) = <<>>
  BY <1>2, UnwindType
<1>4. CASE rest = <<>>
  <2>1. proc' = [proc EXCEPT ![c].stack = <<>>] /\ current' = 0
    BY <1>4 DEF StepResult, StepBreaks
  <2>2. /\ proc' \in [Pid -> Process] /\ \A p \in Pid : p # c => proc'[p] = proc[p]
        /\ proc'[c].root = Root(c) /\ proc'[c].stack = <<>> /\ proc'[c].mailbox = proc[c].mailbox
    <3>1. proc' = [proc EXCEPT ![c].stack = rest] /\ rest \in Seq(Frames)
      BY <1>3, <1>4, <2>1
    <3> HIDE DEF rest
    <3>2. /\ proc' \in [Pid -> Process] /\ \A p \in Pid : p # c => proc'[p] = proc[p]
          /\ proc'[c].root = Root(c) /\ proc'[c].stack = rest /\ proc'[c].mailbox = proc[c].mailbox
      BY <1>2, <3>1 DEF Process, Root
    <3>3. QED
      BY <1>4, <3>2
  <2>3. ASSUME NEW p \in Pid, p = current PROVE ~Runnable(p)'
    <3>1. proc'[p].root.ctor = ctor /\ Unwind(proc'[p].stack, frame) = <<>>
      BY <1>1, <1>3, <2>2, <2>3
    <3>2. QED
      BY <3>1 DEF Runnable, Root
  <2>4. QED
    BY <1>1, <1>2, <2>1, <2>2, <2>3, OwnStep
<1>5. CASE rest # <<>>
  <2> DEFINE r == Apply(rest[1].callback, Root(c).value)
  <2>1. /\ proc' = [proc EXCEPT ![c].root = Apply(rest[1].callback, @.value), ![c].stack = Tail(rest)]
        /\ UNCHANGED current
    BY <1>5 DEF StepResult, StepContinues
  <2>2. rest[1] \in Frames /\ Tail(rest) \in Seq(Frames)
    BY <1>3, <1>5
  <2>3. rest[1].callback \in Callbacks /\ Root(c).value \in Values
    <3>1. Root(c).value \in Values
      BY <1>1, <1>2, TaskFacts
    <3>2. QED
      BY <2>2, <3>1 DEF Frames
  <2>4. r \in Tasks
    BY <2>3, ProgramAssumption
  <2> HIDE DEF rest
  <2>5. proc' = [proc EXCEPT ![c].root = r, ![c].stack = Tail(rest)]
    BY <1>2, <2>1 DEF Root
  <2> HIDE DEF r
  <2>6. /\ proc' \in [Pid -> Process] /\ \A p \in Pid : p # c => proc'[p] = proc[p]
        /\ proc'[c].root = r /\ proc'[c].mailbox = proc[c].mailbox
    BY <1>2, <2>2, <2>4, <2>5 DEF Process
  <2>7. QED
    BY <1>1, <1>2, <2>1, <2>4, <2>6, OwnStep
<1>6. QED
  BY <1>4, <1>5

LEMMA PushKeeps ==
  ASSUME SchedInv, NEW ctor \in {"andThen", "onError"}, StepPush(ctor)
  PROVE  SchedInv'
<1> DEFINE c == current
           frame == [ctor |-> ctor, callback |-> Root(c).callback]
           r == Root(c).task
           s == <<frame>> \o proc[c].stack
<1>1. /\ current # 0 /\ numSteps < MaxSteps /\ Root(c).ctor = ctor
      /\ UNCHANGED <<nextPid, workQueue, working, armed, sent, killed, handled, workTimers, inWork, current>>
      /\ numSteps' = numSteps + 1
      /\ proc' = [proc EXCEPT ![c].root = @.task, ![c].stack = <<frame>> \o @]
  BY DEF StepPush, Stepping, history, StepContinues
<1>2. /\ c \in Pid /\ Root(c) \in Tasks /\ sent[c] = handled[c] \o proc[c].mailbox
      /\ proc[c].stack \in Seq(Frames) /\ proc[c].mailbox \in Seq(Values) /\ handled \in [Pid -> Seq(Values)]
      /\ proc \in [Pid -> Process]
  BY <1>1, CurrentFacts DEF SchedInv, TypeOK
<1>3. Root(c).callback \in Callbacks /\ r \in Tasks
  BY <1>1, <1>2, TaskFacts
<1>4. frame \in Frames
  BY <1>3 DEF Frames
<1> HIDE DEF frame
<1>5. s \in Seq(Frames)
  BY <1>2, <1>4
<1>6. proc' = [proc EXCEPT ![c].root = r, ![c].stack = s]
  BY <1>1, <1>2 DEF Root
<1> HIDE DEF r, s
<1>7. /\ proc' \in [Pid -> Process] /\ \A p \in Pid : p # c => proc'[p] = proc[p]
      /\ proc'[c].root = r /\ proc'[c].mailbox = proc[c].mailbox
  BY <1>2, <1>3, <1>5, <1>6 DEF Process
<1>8. QED
  BY <1>1, <1>2, <1>3, <1>7, OwnStep

LEMMA ReceiveKeeps ==
  ASSUME SchedInv, StepReceive
  PROVE  SchedInv'
<1> DEFINE c == current
           mailbox == proc[c].mailbox
<1>1. /\ current # 0 /\ numSteps < MaxSteps /\ Root(c).ctor = "receive"
      /\ UNCHANGED <<nextPid, workQueue, working, armed, sent, killed, workTimers, inWork>>
      /\ numSteps' = numSteps + 1
  BY DEF StepReceive, Stepping, history, StepContinues, StepBreaks
<1>2. /\ c \in Pid /\ Root(c) \in Tasks /\ sent[c] = handled[c] \o mailbox
      /\ mailbox \in Seq(Values) /\ handled \in [Pid -> Seq(Values)] /\ handled[c] \in Seq(Values)
      /\ proc \in [Pid -> Process]
  BY <1>1, CurrentFacts DEF SchedInv, TypeOK
<1>3. CASE mailbox = <<>>
  <2>1. UNCHANGED <<proc, handled>> /\ current' = 0
    BY <1>3 DEF StepReceive, StepBreaks
  <2>2. ASSUME NEW p \in Pid, p = current PROVE ~Runnable(p)'
    <3>1. proc'[p].root.ctor = "receive" /\ proc'[p].mailbox = <<>>
      BY <1>1, <1>3, <2>1, <2>2 DEF Root
    <3>2. QED
      BY <3>1 DEF Runnable, Root
  <2>3. QED
    BY <1>1, <1>2, <2>1, <2>2, OwnStep DEF Root
<1>4. CASE mailbox # <<>>
  <2> DEFINE v == Head(mailbox)
             r == Apply(Root(c).callback, v)
             h == Append(handled[c], v)
             m == Tail(mailbox)
  <2>1. /\ proc' = [proc EXCEPT ![c].root = Apply(@.callback, v), ![c].mailbox = Tail(@)]
        /\ handled' = [handled EXCEPT ![c] = Append(@, v)]
        /\ UNCHANGED current
    BY <1>4 DEF StepReceive, StepContinues
  <2>2. v \in Values /\ m \in Seq(Values) /\ mailbox = <<v>> \o m
    BY <1>2, <1>4
  <2>3. proc' = [proc EXCEPT ![c].root = r, ![c].mailbox = m] /\ handled' = [handled EXCEPT ![c] = h]
    BY <1>2, <2>1 DEF Root
  <2>4. r \in Tasks
    <3>1. Root(c).callback \in Callbacks
      BY <1>1, <1>2, TaskFacts
    <3>2. QED
      BY <2>2, <3>1, ProgramAssumption
  <2> HIDE DEF v, r, m
  <2>5. h \in Seq(Values) /\ h \o m = handled[c] \o (<<v>> \o m)
    BY <1>2, <2>2
  <2>6. h \o m = sent[c]
    BY <1>2, <2>2, <2>5
  <2> HIDE DEF h, mailbox
  <2>7. /\ proc' \in [Pid -> Process] /\ \A p \in Pid : p # c => proc'[p] = proc[p]
        /\ proc'[c].root = r /\ proc'[c].mailbox = m
    BY <1>2, <2>2, <2>3, <2>4 DEF Process
  <2>8. /\ handled' \in [Pid -> Seq(Values)] /\ \A p \in Pid : p # c => handled'[p] = handled[p]
        /\ handled'[c] = h
    BY <1>2, <2>3, <2>5
  <2>9. QED
    BY <1>1, <2>1, <2>4, <2>6, <2>7, <2>8, OwnStep
<1>5. QED
  BY <1>3, <1>4

-----------------------------------------------------------------------------
(* Steps of step() that put the process back into the queue *)

LEMMA PreemptedKeeps ==
  ASSUME SchedInv, StepPreempted
  PROVE  SchedInv'
<1>0. PICK c \in Pid : c = current
  BY CurrentFacts DEF StepPreempted
<1>1. /\ workQueue' = workQueue \o <<c>> /\ working' = TRUE /\ current' = 0
      /\ UNCHANGED <<proc, nextPid, workTimers, inWork, numSteps, armed, sent, handled, killed>>
  BY <1>0 DEF StepPreempted, Enqueue, history
<1>2. c < nextPid /\ inWork /\ ~Asleep(c) /\ armed[c] = 0 /\ nextPid \in Nat /\ c \in Nat /\ c # 0
  BY <1>0, CurrentFacts DEF StepPreempted, SchedInv, TypeOK, Pid
<1>3. /\ workQueue' \in Seq(Pid) /\ workQueue' # <<>>
      /\ \A p : Has(workQueue', p) <=> Has(workQueue, p) \/ p = c
      /\ \A p : Once(workQueue, p) /\ (p = c => ~Has(workQueue, p)) => Once(workQueue', p)
  BY <1>1, QueueAppend DEF SchedInv, TypeOK
<1>4. TypeOK' /\ LoopInv'
  BY <1>1, <1>2, <1>3 DEF SchedInv, TypeOK, LoopInv
<1>5. ASSUME NEW p \in Pid, p # c PROVE ProcInv(p)'
  <2>1. ProcInv(p) /\ current # p /\ current' # p
    BY <1>0, <1>1, <1>5 DEF SchedInv, Pid
  <2>2. QED
    BY <1>1, <1>3, <1>5, <2>1, OtherKept
<1>6. ProcInv(c)'
  <2>1. ProcInv(c) /\ ~Asleep(c)' /\ Root(c)' = Root(c)
    BY <1>1, <1>2, SameProcess DEF SchedInv
  <2>2. Wakes(c)' /\ Timed(c)' /\ Fresh(c)'
    BY <1>1, <1>2, <1>3, <2>1 DEF Wakes, Timed, Fresh
  <2>3. InOnePlace(c)'
    BY <1>0, <1>1, <1>2, <1>3, <2>1 DEF ProcInv, InOnePlace
  <2>4. QED
    BY <1>1, <2>1, <2>2, <2>3 DEF ProcInv
<1>7. QED
  BY <1>4, <1>5, <1>6 DEF SchedInv

LEMMA SleepKeeps ==
  ASSUME SchedInv, Disciplined, StepSleep
  PROVE  SchedInv'
<1>0. PICK c \in Pid : c = current
  BY CurrentFacts DEF StepSleep, SteppingBinding, Stepping
<1>1. /\ current' = 0 /\ current # 0 /\ numSteps < MaxSteps /\ numSteps' = numSteps + 1
      /\ proc' = [proc EXCEPT ![c].root.cancel = TRUE] /\ armed' = [armed EXCEPT ![c] = @ + 1]
      /\ Root(c).ctor = "nativeBinding"
      /\ UNCHANGED <<nextPid, workQueue, working, workTimers, inWork, sent, handled, killed>>
  BY <1>0 DEF StepSleep, SteppingBinding, Stepping, StepBreaks, history
<1>2. /\ c < nextPid /\ inWork /\ Root(c) \in Tasks /\ c \notin killed /\ armed[c] = 0
      /\ nextPid \in Nat /\ c \in Nat /\ c # 0 /\ numSteps \in Nat /\ MaxSteps \in Nat
  <2>1. c < nextPid /\ inWork /\ Root(c) \in Tasks /\ c \notin killed /\ armed[c] = 0
    BY <1>0, <1>1, CurrentFacts
  <2>2. nextPid \in Nat /\ c \in Nat /\ c # 0 /\ numSteps \in Nat /\ MaxSteps \in Nat
    BY SchedulerAssumption DEF SchedInv, TypeOK, Pid
  <2>3. QED
    BY <2>1, <2>2
<1>3. sent[c] = <<>>
  BY <1>0 DEF Disciplined, StepSleep
<1>4. /\ proc' \in [Pid -> Process] /\ \A p \in Pid : p # c => proc'[p] = proc[p]
      /\ proc'[c].root \in Entered /\ proc'[c].mailbox = proc[c].mailbox
  <2> DEFINE r == [Root(c) EXCEPT !.cancel = TRUE]
  <2>1. Root(c) = [ctor |-> "nativeBinding", op |-> Root(c).op, cancel |-> FALSE] /\ Root(c).op \in Operations
    BY <1>1, <1>2, TaskFacts
  <2>2. r \in Entered
    <3>1. PICK op \in Operations : Root(c) = [ctor |-> "nativeBinding", op |-> op, cancel |-> FALSE]
      BY <2>1
    <3>2. r = [[ctor |-> "nativeBinding", op |-> op, cancel |-> FALSE] EXCEPT !.cancel = TRUE]
      BY <3>1
    <3> HIDE DEF r
    <3>3. r = [ctor |-> "nativeBinding", op |-> op, cancel |-> TRUE]
      BY <3>2
    <3>4. QED
      BY <3>3 DEF Entered
  <2>3. proc \in [Pid -> Process]
    BY DEF SchedInv, TypeOK
  <2>4. proc' = [proc EXCEPT ![c].root = r]
    BY <1>1, <2>3 DEF Root
  <2> HIDE DEF r
  <2>5. QED
    BY <2>2, <2>3, <2>4 DEF Process
<1>5. Asleep(c)' /\ ~Runnable(c)' /\ Root(c)' # NoTask
  <2>1. Root(c)' \in Entered
    BY <1>4 DEF Root
  <2>2. Root(c)' # NoTask /\ Root(c)'.ctor = "nativeBinding" /\ Root(c)'.cancel = TRUE
    BY <2>1, TaskFacts
  <2>3. QED
    BY <2>2 DEF Asleep, Runnable
<1>6. armed' \in [Pid -> Nat] /\ armed'[c] = 1 /\ \A p \in Pid : p # c => armed'[p] = armed[p]
  BY <1>1, <1>2 DEF SchedInv, TypeOK
<1>7. TypeOK' /\ LoopInv'
  BY <1>1, <1>2, <1>4, <1>6 DEF SchedInv, TypeOK, LoopInv
<1>8. ASSUME NEW p \in Pid, p # c PROVE ProcInv(p)'
  <2>1. ProcInv(p) /\ current # p /\ current' # p
    BY <1>0, <1>1, <1>8 DEF SchedInv, Pid
  <2>2. QED
    BY <1>1, <1>4, <1>6, <1>8, <2>1, OtherKept
<1>9. ProcInv(c)'
  <2>1. ProcInv(c)
    BY DEF SchedInv
  <2>2. Wakes(c)' /\ Timed(c)' /\ Fresh(c)'
    BY <1>1, <1>2, <1>3, <1>5, <1>6 DEF Wakes, Timed, Fresh
  <2>3. InOnePlace(c)'
    BY <1>0, <1>1, <1>2, <1>3, <2>1 DEF ProcInv, InOnePlace
  <2>4. QED
    BY <1>1, <1>2, <1>4, <2>1, <2>2, <2>3 DEF ProcInv
<1>10. QED
  BY <1>7, <1>8, <1>9 DEF SchedInv

(* The results the scheduler gives to its own bindings are tasks.          *)
LEMMA SucceedIsTask ==
  ASSUME NEW v \in Pid \cup {Unit}
  PROVE  Succeed(v) \in Tasks
  BY ProgramAssumption

LEMMA QueueTwo ==
  ASSUME NEW q \in Seq(Pid), NEW x \in Pid, NEW y \in Pid
  PROVE  /\ q \o <<x, y>> \in Seq(Pid) /\ q \o <<x, y>> # <<>>
         /\ \A p : Has(q \o <<x, y>>, p) <=> Has(q, p) \/ p = x \/ p = y
         /\ \A p : Once(q, p) /\ (p \in {x, y} => ~Has(q, p) /\ x # y) => Once(q \o <<x, y>>, p)
<1> DEFINE r == q \o <<x>>
<1>1. q \o <<x, y>> = r \o <<y>>
  <2>1. <<x, y>> = <<x>> \o <<y>>
    <3>1. <<x, y>> = Append(<<x>>, y)
      OBVIOUS
    <3>2. Append(<<x>>, y) = <<x>> \o <<y>>
      OBVIOUS
    <3>3. QED
      BY <3>1, <3>2
  <2>2. <<x>> \in Seq(Pid) /\ <<y>> \in Seq(Pid)
    OBVIOUS
  <2>3. QED
    BY <2>1, <2>2, ConcatAssociative
<1>2. /\ r \in Seq(Pid) /\ \A p : Has(r, p) <=> Has(q, p) \/ p = x
      /\ \A p : Once(q, p) /\ (p = x => ~Has(q, p)) => Once(r, p)
  BY QueueAppend
<1> HIDE DEF r
<1>3. /\ r \o <<y>> \in Seq(Pid) /\ r \o <<y>> # <<>>
      /\ \A p : Has(r \o <<y>>, p) <=> Has(r, p) \/ p = y
      /\ \A p : Once(r, p) /\ (p = y => ~Has(r, p)) => Once(r \o <<y>>, p)
  BY <1>2, QueueAppend
<1> DEFINE u == r \o <<y>>
<1> HIDE DEF u
<1>4. /\ u \in Seq(Pid) /\ u # <<>>
      /\ \A p : Has(u, p) <=> Has(r, p) \/ p = y
      /\ \A p : Once(r, p) /\ (p = y => ~Has(r, p)) => Once(u, p)
  BY <1>3 DEF u
<1>5. ASSUME NEW p, Once(q, p), p \in {x, y} => ~Has(q, p) /\ x # y PROVE Once(u, p)
  <2>1. Once(r, p)
    BY <1>2, <1>5
  <2>2. p = y => ~Has(r, p)
    BY <1>2, <1>5
  <2>3. QED
    BY <1>4, <2>1, <2>2
<1>6. q \o <<x, y>> = u
  BY <1>1 DEF u
<1>7. \A p : Has(u, p) <=> Has(q, p) \/ p = x \/ p = y
  BY <1>2, <1>4
<1>8. QED
  BY <1>4, <1>5, <1>6, <1>7

(* The process of a call that is answered at once, as it is queued again.  *)
LEMMA AnsweredKept ==
  ASSUME SchedInv, current # 0, NEW c \in Pid, c = current, current' = 0, nextPid' \in Nat, c < nextPid',
         armed'[c] = armed[c], c \in killed' => c \in killed, sent'[c] = <<>> => sent[c] = <<>>,
         proc'[c].root \in Tasks, sent'[c] = handled'[c] \o proc'[c].mailbox,
         Has(workQueue', c), sent'[c] = <<>> /\ Once(workQueue, c) /\ ~Has(workQueue, c) => Once(workQueue', c)
  PROVE  ProcInv(c)'
<1>0. ~Asleep(c) /\ armed[c] = 0 /\ c \notin killed
  BY CurrentFacts
<1>1. ProcInv(c) /\ ~Asleep(c) /\ armed[c] = 0 /\ c \notin killed /\ c \in Nat /\ c # 0
  BY <1>0 DEF SchedInv, Pid
<1>2. ~Asleep(c)'
  BY TaskFacts DEF Asleep, Root
<1>3. Wakes(c)' /\ Timed(c)'
  BY <1>1, <1>2 DEF Wakes, Timed
<1>4. Fresh(c)'
  BY <1>1 DEF Fresh
<1>5. InOnePlace(c)'
  BY <1>1, <1>2 DEF ProcInv, InOnePlace
<1>6. QED
  BY <1>1, <1>3, <1>4, <1>5 DEF ProcInv

LEMMA SpawnKeeps ==
  ASSUME SchedInv, StepSpawn
  PROVE  SchedInv'
<1>0. PICK c \in Pid : c = current
  BY CurrentFacts DEF StepSpawn, SteppingBinding, Stepping
<1>n. PICK n \in Pid : n = nextPid
  BY SchedulerAssumption DEF StepSpawn, SchedInv, TypeOK, Pid
<1> DEFINE task == Root(c).op.task
<1>1. /\ current # 0 /\ current' = 0 /\ numSteps < MaxSteps /\ numSteps' = numSteps + 1
      /\ n <= MaxProcs /\ nextPid' = n + 1
      /\ proc' = [proc EXCEPT ![n] = NewProcess(task), ![c].root = Succeed(n)]
      /\ workQueue' = workQueue \o <<n, c>> /\ working' = TRUE
      /\ Root(c).ctor = "nativeBinding" /\ Root(c).op.kind = "spawn"
      /\ UNCHANGED <<workTimers, inWork, armed, sent, handled, killed>>
  BY <1>0, <1>n DEF StepSpawn, SteppingBinding, Stepping, StepBreaks, Enqueue, history
<1>2. /\ c < n /\ inWork /\ Root(c) \in Tasks /\ c \notin killed /\ armed[c] = 0
      /\ sent[c] = handled[c] \o proc[c].mailbox
  BY <1>0, <1>n, <1>1, CurrentFacts
<1>3. n \in Nat /\ n # 0 /\ c \in Nat /\ c # 0 /\ numSteps \in Nat /\ MaxSteps \in Nat /\ MaxProcs \in Nat
  <2>1. n \in Nat /\ n # 0 /\ c \in Nat /\ c # 0
    BY DEF Pid
  <2>2. numSteps \in Nat /\ MaxSteps \in Nat /\ MaxProcs \in Nat
    BY SchedulerAssumption DEF SchedInv, TypeOK
  <2>3. QED
    BY <2>1, <2>2
<1>4. task \in Tasks
  <2>1. Root(c).op \in Operations
    BY <1>1, <1>2, TaskFacts
  <2>2. QED
    BY <1>1, <2>1 DEF Operations
<1>5. Succeed(n) \in Tasks
  BY <1>3, SucceedIsTask
<1> HIDE DEF task
<1>6. /\ proc' \in [Pid -> Process] /\ \A p \in Pid : p # c /\ p # n => proc'[p] = proc[p]
      /\ proc'[c].root = Succeed(n) /\ proc'[c].mailbox = proc[c].mailbox
      /\ proc'[n].root = task /\ proc'[n].mailbox = <<>>
  <2>1. proc \in [Pid -> Process]
    BY DEF SchedInv, TypeOK
  <2>2. NewProcess(task) \in Process /\ NewProcess(task).root = task /\ NewProcess(task).mailbox = <<>>
    <3>1. <<>> \in Seq(Frames) /\ <<>> \in Seq(Values)
      OBVIOUS
    <3>2. QED
      BY <1>4, <3>1 DEF NewProcess, Process
  <2>3. c # n
    BY <1>2, <1>3
  <2>4. QED
    BY <1>1, <1>3, <1>5, <2>1, <2>2, <2>3 DEF Process
<1>7. /\ workQueue' \in Seq(Pid) /\ workQueue' # <<>>
      /\ \A p : Has(workQueue', p) <=> Has(workQueue, p) \/ p = n \/ p = c
      /\ \A p : Once(workQueue, p) /\ (p \in {n, c} => ~Has(workQueue, p) /\ n # c) => Once(workQueue', p)
  BY <1>1, <1>3, QueueTwo DEF SchedInv, TypeOK
<1>8. TypeOK' /\ LoopInv'
  <2>1. nextPid' \in 1..(MaxProcs + 1) /\ numSteps' \in 0..MaxSteps
    BY <1>1, <1>3
  <2>2. QED
    BY <1>1, <1>2, <1>3, <1>6, <1>7, <2>1 DEF SchedInv, TypeOK, LoopInv
<1>9. ASSUME NEW p \in Pid, p # c, p # n PROVE ProcInv(p)'
  <2>1. ProcInv(p) /\ current # p /\ current' # p /\ (p >= nextPid' => p >= nextPid)
    BY <1>0, <1>n, <1>1, <1>3, <1>9 DEF SchedInv, Pid
  <2>2. QED
    BY <1>1, <1>6, <1>7, <1>9, <2>1, OtherKept
<1>10. ProcInv(c)'
  <2>1. nextPid' \in Nat /\ c < nextPid' /\ n # c
    BY <1>1, <1>2, <1>3
  <2>2. QED
    BY <1>0, <1>1, <1>2, <1>5, <1>6, <1>7, <2>1, AnsweredKept
<1>11. ProcInv(n)'
  <2>1. ProcInv(n)
    BY DEF SchedInv
  <2>2. /\ Root(n) = NoTask /\ sent[n] = <<>> /\ handled[n] = <<>> /\ ~Has(workQueue, n) /\ n \notin killed
        /\ Once(workQueue, n) /\ armed[n] = 0
    <3>1. n >= nextPid
      BY <1>n, <1>3
    <3>2. /\ Root(n) = NoTask /\ sent[n] = <<>> /\ handled[n] = <<>> /\ ~Has(workQueue, n) /\ n \notin killed
      BY <2>1, <3>1 DEF ProcInv, Fresh
    <3>3. Once(workQueue, n)
      BY <2>1, <3>2 DEF ProcInv, InOnePlace
    <3>4. armed[n] = 0
      BY <2>1, <3>2, NullWaits DEF ProcInv, Timed
    <3>5. QED
      BY <3>2, <3>3, <3>4
  <2>3. ~Asleep(n)'
    BY <1>4, <1>6, TaskFacts DEF Asleep, Root
  <2>4. Has(workQueue', n) /\ Once(workQueue', n) /\ current' # n
    <3>1. n # c
      BY <1>2, <1>3
    <3>2. QED
      BY <1>1, <1>3, <1>7, <2>2, <3>1
  <2>5. nextPid' > n
    BY <1>1, <1>3
  <2>6. sent'[n] = handled'[n] \o proc'[n].mailbox
    BY <1>1, <1>6, <2>2
  <2>7. QED
    BY <1>1, <1>3, <2>2, <2>3, <2>4, <2>5, <2>6 DEF ProcInv, Wakes, InOnePlace, Timed, Fresh
<1>12. QED
  BY <1>8, <1>9, <1>10, <1>11 DEF SchedInv

LEMMA AppendConcat ==
  ASSUME NEW a \in Seq(Values), NEW b \in Seq(Values), NEW msg \in Values
  PROVE  /\ Append(a, msg) \in Seq(Values) /\ Append(a, msg) # <<>>
         /\ Append(a \o b, msg) = a \o Append(b, msg)
<1>1. <<msg>> \in Seq(Values) /\ a \o b \in Seq(Values)
  OBVIOUS
<1>2. Append(a \o b, msg) = (a \o b) \o <<msg>> /\ Append(b, msg) = b \o <<msg>>
  BY <1>1
<1>3. Append(a, msg) \in Seq(Values) /\ Len(Append(a, msg)) = Len(a) + 1 /\ Len(a) \in Nat
  OBVIOUS
<1>4. Append(a, msg) # <<>>
  BY AppendProperties
<1>5. QED
  BY <1>1, <1>2, <1>3, <1>4, ConcatAssociative

(* A process that is sent a message while another one, or none, is         *)
(* stepped.                                                                *)
LEMMA MailedKept ==
  ASSUME SchedInv, NEW q \in Pid, q < nextPid, ~Asleep(q), NEW msg \in Values,
         UNCHANGED <<nextPid, killed>>, armed'[q] = armed[q], handled'[q] = handled[q],
         proc'[q].root = proc[q].root, proc'[q].mailbox = Append(proc[q].mailbox, msg),
         sent'[q] = Append(sent[q], msg), Has(workQueue', q)
  PROVE  ProcInv(q)'
<1>1. /\ ProcInv(q) /\ q \in Nat /\ nextPid \in Nat /\ proc[q].mailbox \in Seq(Values)
      /\ handled[q] \in Seq(Values) /\ sent[q] \in Seq(Values)
  <2>1. proc[q].mailbox \in Seq(Values)
    BY ProcFacts DEF SchedInv
  <2>2. QED
    BY <2>1 DEF SchedInv, TypeOK, Pid
<1>2. ~Asleep(q)' /\ Root(q)' = Root(q)
  BY DEF Asleep, Root
<1>3. sent'[q] # <<>> /\ sent'[q] = handled'[q] \o proc'[q].mailbox
  <2>1. sent[q] = handled[q] \o proc[q].mailbox
    BY <1>1 DEF ProcInv
  <2>2. Append(handled[q] \o proc[q].mailbox, msg) = handled[q] \o Append(proc[q].mailbox, msg)
    BY <1>1, AppendConcat
  <2>3. Append(sent[q], msg) # <<>>
    BY <1>1, AppendConcat
  <2>4. QED
    BY <2>1, <2>2, <2>3
<1>4. armed[q] = 0 /\ (q \in killed => Root(q) = NoTask)
  BY <1>1 DEF ProcInv, Timed
<1>5. QED
  <2>1. Wakes(q)' /\ InOnePlace(q)'
    BY <1>3 DEF Wakes, InOnePlace
  <2>2. Timed(q)'
    BY <1>2, <1>4 DEF Timed
  <2>3. Fresh(q)'
    BY <1>1 DEF Fresh
  <2>4. q \in killed' => Root(q)' = NoTask
    BY <1>2, <1>4
  <2>5. QED
    BY <1>3, <2>1, <2>2, <2>3, <2>4 DEF ProcInv

LEMMA SendKeeps ==
  ASSUME SchedInv, Disciplined, StepSend
  PROVE  SchedInv'
<1>0. PICK c \in Pid : c = current
  BY CurrentFacts DEF StepSend, SteppingBinding, Stepping
<1>q. PICK q \in Pid : q = Root(c).op.to /\ q < nextPid /\ ~Asleep(q)
  <2>1. Root(c).op.to \in 1..(nextPid - 1) /\ ~Asleep(Root(c).op.to)
    BY <1>0 DEF StepSend, Disciplined
  <2>2. nextPid \in 1..(MaxProcs + 1) /\ MaxProcs \in Nat
    BY SchedulerAssumption DEF SchedInv, TypeOK
  <2>3. QED
    BY <2>1, <2>2 DEF Pid
<1>m. PICK msg \in Values : msg = Root(c).op.msg
  <2>1. Root(c) \in Tasks /\ Root(c).ctor = "nativeBinding" /\ Root(c).op.kind = "send"
    BY <1>0, CurrentFacts DEF StepSend, SteppingBinding, Stepping
  <2>2. Root(c).op \in Operations
    BY <2>1, TaskFacts
  <2>3. QED
    BY <2>1, <2>2 DEF Operations
<1>1. /\ current # 0 /\ current' = 0 /\ numSteps < MaxSteps /\ numSteps' = numSteps + 1
      /\ proc' = [proc EXCEPT ![q].mailbox = Append(@, msg), ![c].root = Succeed(Unit)]
      /\ sent' = [sent EXCEPT ![q] = Append(@, msg)]
      /\ workQueue' = workQueue \o <<q, c>> /\ working' = TRUE
      /\ UNCHANGED <<nextPid, workTimers, inWork, armed, handled, killed>>
  BY <1>0, <1>q, <1>m DEF StepSend, SteppingBinding, Stepping, StepBreaks, Enqueue
<1>2. c < nextPid /\ inWork /\ sent[c] = handled[c] \o proc[c].mailbox
  BY <1>0, <1>1, CurrentFacts
<1>3. c \in Nat /\ c # 0 /\ numSteps \in Nat /\ MaxSteps \in Nat /\ nextPid \in Nat
  <2>1. c \in Nat /\ c # 0
    BY DEF Pid
  <2>2. QED
    BY <2>1, SchedulerAssumption DEF SchedInv, TypeOK
<1>4. Succeed(Unit) \in Tasks
  BY SucceedIsTask
<1>5. /\ sent \in [Pid -> Seq(Values)] /\ handled \in [Pid -> Seq(Values)] /\ proc \in [Pid -> Process]
      /\ Append(proc[q].mailbox, msg) \in Seq(Values) /\ Append(sent[q], msg) \in Seq(Values)
      /\ Append(sent[q], msg) # <<>>
  <2>1. proc[q].mailbox \in Seq(Values) /\ sent[q] \in Seq(Values)
    BY ProcFacts DEF SchedInv, TypeOK
  <2>2. QED
    BY <2>1, AppendConcat DEF SchedInv, TypeOK
<1>6. /\ proc' \in [Pid -> Process] /\ \A p \in Pid : p # c /\ p # q => proc'[p] = proc[p]
      /\ proc'[c].root = Succeed(Unit) /\ (c # q => proc'[c].mailbox = proc[c].mailbox)
      /\ proc'[q].mailbox = Append(proc[q].mailbox, msg) /\ (c # q => proc'[q].root = proc[q].root)
  <2> DEFINE mid == [proc EXCEPT ![q].mailbox = Append(@, msg)]
  <2>1. /\ mid \in [Pid -> Process] /\ \A p \in Pid : p # q => mid[p] = proc[p]
        /\ mid[q].root = proc[q].root /\ mid[q].mailbox = Append(proc[q].mailbox, msg)
    BY <1>5 DEF Process
  <2>2. proc' = [mid EXCEPT ![c].root = Succeed(Unit)]
    BY <1>1
  <2> HIDE DEF mid
  <2>3. /\ proc' \in [Pid -> Process] /\ \A p \in Pid : p # c => proc'[p] = mid[p]
        /\ proc'[c].root = Succeed(Unit) /\ proc'[c].mailbox = mid[c].mailbox
    BY <1>4, <2>1, <2>2 DEF Process
  <2>4. QED
    BY <2>1, <2>3
<1>7. /\ sent' \in [Pid -> Seq(Values)] /\ \A p \in Pid : p # q => sent'[p] = sent[p]
      /\ sent'[q] = Append(sent[q], msg)
  BY <1>1, <1>5
<1>8. /\ workQueue' \in Seq(Pid) /\ workQueue' # <<>>
      /\ \A p : Has(workQueue', p) <=> Has(workQueue, p) \/ p = q \/ p = c
      /\ \A p : Once(workQueue, p) /\ (p \in {q, c} => ~Has(workQueue, p) /\ q # c) => Once(workQueue', p)
  BY <1>1, QueueTwo DEF SchedInv, TypeOK
<1>9. TypeOK' /\ LoopInv'
  <2>1. numSteps' \in 0..MaxSteps
    BY <1>1, <1>3
  <2>2. QED
    BY <1>1, <1>2, <1>6, <1>7, <1>8, <2>1 DEF SchedInv, TypeOK, LoopInv
<1>10. ASSUME NEW p \in Pid, p # c, p # q PROVE ProcInv(p)'
  <2>1. ProcInv(p) /\ current # p /\ current' # p
    BY <1>0, <1>1, <1>10 DEF SchedInv, Pid
  <2>2. QED
    BY <1>1, <1>6, <1>7, <1>8, <1>10, <2>1, OtherKept
<1>11. ProcInv(c)'
  <2>1. sent'[c] = handled'[c] \o proc'[c].mailbox
    <3>1. CASE c = q
      <4>1. Append(handled[c] \o proc[c].mailbox, msg) = handled[c] \o Append(proc[c].mailbox, msg)
        <5>1. handled[c] \in Seq(Values) /\ proc[c].mailbox \in Seq(Values)
          BY <1>5, ProcFacts DEF SchedInv
        <5>2. QED
          BY <5>1, AppendConcat
      <4>2. QED
        BY <1>1, <1>2, <1>6, <1>7, <3>1, <4>1
    <3>2. CASE c # q
      BY <1>1, <1>2, <1>6, <1>7, <3>2
    <3>3. QED
      BY <3>1, <3>2
  <2>2. sent'[c] = <<>> => c # q /\ sent[c] = <<>>
    BY <1>5, <1>7
  <2>3. sent'[c] = <<>> /\ Once(workQueue, c) /\ ~Has(workQueue, c) => Once(workQueue', c)
    BY <1>8, <2>2
  <2>4. QED
    BY <1>0, <1>1, <1>2, <1>3, <1>4, <1>6, <1>8, <2>1, <2>2, <2>3, AnsweredKept
<1>12. CASE q # c
  <2>1. ProcInv(q)'
    BY <1>q, <1>1, <1>6, <1>7, <1>8, <1>12, MailedKept
  <2>2. QED
    BY <1>9, <1>10, <1>11, <2>1 DEF SchedInv
<1>13. CASE q = c
  BY <1>9, <1>10, <1>11, <1>13 DEF SchedInv
<1>14. QED
  BY <1>12, <1>13

LEMMA KillKeeps ==
  ASSUME SchedInv, Disciplined, StepKill
  PROVE  SchedInv'
<1>0. PICK c \in Pid : c = current
  BY CurrentFacts DEF StepKill, SteppingBinding, Stepping
<1>t. PICK t \in Pid : t = Root(c).op.target /\ t < nextPid /\ t # c /\ Root(t) # NoTask
  <2>1. /\ Root(c).op.target \in 1..(nextPid - 1) /\ Root(c).op.target # c
        /\ Root(Root(c).op.target) # NoTask
    BY <1>0 DEF StepKill, Disciplined
  <2>2. nextPid \in 1..(MaxProcs + 1) /\ MaxProcs \in Nat
    BY SchedulerAssumption DEF SchedInv, TypeOK
  <2>3. QED
    BY <2>1, <2>2 DEF Pid
<1>1. /\ current # 0 /\ current' = 0 /\ numSteps < MaxSteps /\ numSteps' = numSteps + 1
      /\ armed' = IF Asleep(t) THEN [armed EXCEPT ![t] = @ - 1] ELSE armed
      /\ proc' = [proc EXCEPT ![t].root = NoTask, ![c].root = Succeed(Unit)]
      /\ killed' = killed \cup {t}
      /\ workQueue' = workQueue \o <<c>> /\ working' = TRUE
      /\ UNCHANGED <<nextPid, workTimers, inWork, sent, handled>>
  BY <1>0, <1>t DEF StepKill, SteppingBinding, Stepping, StepBreaks, Enqueue, Asleep
<1>2. /\ c < nextPid /\ inWork /\ sent[c] = handled[c] \o proc[c].mailbox /\ c \notin killed
  BY <1>0, <1>1, CurrentFacts
<1>3. c \in Nat /\ c # 0 /\ numSteps \in Nat /\ MaxSteps \in Nat /\ nextPid \in Nat /\ t \in Nat /\ t # 0
  <2>1. c \in Nat /\ c # 0 /\ t \in Nat /\ t # 0
    BY DEF Pid
  <2>2. QED
    BY <2>1, SchedulerAssumption DEF SchedInv, TypeOK
<1>4. Succeed(Unit) \in Tasks
  BY SucceedIsTask
<1>5. /\ proc' \in [Pid -> Process] /\ \A p \in Pid : p # c /\ p # t => proc'[p] = proc[p]
      /\ proc'[c].root = Succeed(Unit) /\ proc'[c].mailbox = proc[c].mailbox
      /\ proc'[t].root = NoTask /\ proc'[t].mailbox = proc[t].mailbox
  <2> DEFINE mid == [proc EXCEPT ![t].root = NoTask]
  <2>0. proc \in [Pid -> Process]
    BY DEF SchedInv, TypeOK
  <2>1. /\ mid \in [Pid -> Process] /\ \A p \in Pid : p # t => mid[p] = proc[p]
        /\ mid[t].root = NoTask /\ mid[t].mailbox = proc[t].mailbox
    BY <2>0 DEF Process
  <2>2. proc' = [mid EXCEPT ![c].root = Succeed(Unit)]
    BY <1>1
  <2> HIDE DEF mid
  <2>3. /\ proc' \in [Pid -> Process] /\ \A p \in Pid : p # c => proc'[p] = mid[p]
        /\ proc'[c].root = Succeed(Unit) /\ proc'[c].mailbox = mid[c].mailbox
    BY <1>4, <2>1, <2>2 DEF Process
  <2>4. QED
    BY <1>t, <2>1, <2>3
<1>6. armed' \in [Pid -> Nat] /\ armed'[t] = 0 /\ \A p \in Pid : p # t => armed'[p] = armed[p]
  <2>1. armed \in [Pid -> Nat] /\ armed[t] = IF Asleep(t) THEN 1 ELSE 0
    BY DEF SchedInv, TypeOK, ProcInv, Timed
  <2>2. CASE Asleep(t)
    BY <1>1, <2>1, <2>2
  <2>3. CASE ~Asleep(t)
    BY <1>1, <2>1, <2>3
  <2>4. QED
    BY <2>2, <2>3
<1>7. /\ workQueue' \in Seq(Pid) /\ workQueue' # <<>>
      /\ \A p : Has(workQueue', p) <=> Has(workQueue, p) \/ p = c
      /\ \A p : Once(workQueue, p) /\ (p = c => ~Has(workQueue, p)) => Once(workQueue', p)
  BY <1>1, QueueAppend DEF SchedInv, TypeOK
<1>8. TypeOK' /\ LoopInv'
  <2>1. numSteps' \in 0..MaxSteps
    BY <1>1, <1>3
  <2>2. QED
    BY <1>1, <1>2, <1>5, <1>6, <1>7, <2>1 DEF SchedInv, TypeOK, LoopInv
<1>9. ASSUME NEW p \in Pid, p # c, p # t PROVE ProcInv(p)'
  <2>1. ProcInv(p) /\ current # p /\ current' # p
    BY <1>0, <1>1, <1>9 DEF SchedInv, Pid
  <2>2. QED
    BY <1>1, <1>5, <1>6, <1>7, <1>9, <2>1, OtherKept
<1>10. ProcInv(c)'
  <2>1. armed'[c] = armed[c] /\ (c \in killed' => c \in killed) /\ nextPid' \in Nat /\ c < nextPid'
    BY <1>t, <1>1, <1>2, <1>3, <1>6
  <2>2. sent'[c] = sent[c] /\ sent'[c] = handled'[c] \o proc'[c].mailbox /\ proc'[c].root \in Tasks
    BY <1>1, <1>2, <1>4, <1>5
  <2>3. QED
    BY <1>0, <1>1, <1>7, <2>1, <2>2, AnsweredKept
<1>11. ProcInv(t)'
  <2>1. ProcInv(t) /\ Root(t)' = NoTask
    BY <1>5 DEF SchedInv, Root
  <2>2. ~Runnable(t)' /\ ~Asleep(t)'
    BY <2>1 DEF Runnable, Asleep
  <2>3. InOnePlace(t)'
    BY <1>t, <1>1, <1>3, <1>7, <2>1, <2>2 DEF ProcInv, InOnePlace
  <2>4. Wakes(t)' /\ Timed(t)' /\ Fresh(t)'
    BY <1>t, <1>1, <1>3, <1>6, <2>2 DEF Wakes, Timed, Fresh
  <2>5. QED
    BY <1>1, <1>5, <2>1, <2>3, <2>4 DEF ProcInv
<1>12. QED
  BY <1>8, <1>9, <1>10, <1>11 DEF SchedInv

-----------------------------------------------------------------------------
(* work() and the browser *)

LEMMA ShiftKeeps ==
  ASSUME SchedInv, WorkShift
  PROVE  SchedInv'
<1>h. PICK h \in Pid : h = Head(workQueue)
  BY QueueTail DEF SchedInv, TypeOK, WorkShift
<1>1. /\ inWork /\ current = 0 /\ workQueue # <<>> /\ workQueue' = Tail(workQueue)
      /\ current' = IF Root(h) = NoTask THEN 0 ELSE h
      /\ UNCHANGED <<proc, nextPid, working, workTimers, inWork, numSteps, armed, sent, handled, killed>>
  BY <1>h DEF WorkShift, history
<1>2. /\ workQueue' \in Seq(Pid)
      /\ \A p : Has(workQueue, p) <=> Has(workQueue', p) \/ p = h
      /\ \A p : Once(workQueue, p) => Once(workQueue', p) /\ (p = h => ~Has(workQueue', p))
  BY <1>h, <1>1, QueueTail DEF SchedInv, TypeOK
<1>3. h \in Nat /\ h # 0 /\ nextPid \in Nat
  <2>1. h \in Nat /\ h # 0
    BY DEF Pid
  <2>2. QED
    BY <2>1 DEF SchedInv, TypeOK
<1>4. \A p \in Pid : (Runnable(p)' <=> Runnable(p)) /\ (Asleep(p)' <=> Asleep(p)) /\ Root(p)' = Root(p)
  BY <1>1, SameProcess
<1>5. TypeOK'
  BY <1>1, <1>2 DEF SchedInv, TypeOK
<1>6. LoopInv'
  <2>1. current' # 0 => Root(current)' # NoTask
    <3>1. current' # 0 => current' = h /\ Root(h) # NoTask
      BY <1>1
    <3>2. QED
      BY <1>4, <3>1
  <2>2. QED
    BY <1>1, <2>1 DEF SchedInv, LoopInv
<1>7. ASSUME NEW p \in Pid, p # h PROVE ProcInv(p)'
  <2>1. ProcInv(p) /\ current # p /\ current' # p
    BY <1>1, <1>7 DEF SchedInv, Pid
  <2>2. QED
    BY <1>1, <1>2, <1>7, <2>1, OtherKept
<1>8. ProcInv(h)'
  <2>1. ProcInv(h) /\ Has(workQueue, h)
    BY <1>2 DEF SchedInv
  <2>2. ~Asleep(h)
    BY <2>1 DEF ProcInv, InOnePlace, Timed
  <2>3. Wakes(h)'
    BY <1>1, <1>4, NullWaits DEF Wakes
  <2>4. InOnePlace(h)'
    BY <1>1, <1>2, <1>4, <2>1, <2>2 DEF ProcInv, InOnePlace
  <2>5. Timed(h)'
    BY <1>1, <1>4, <2>1 DEF ProcInv, Timed
  <2>6. Fresh(h)'
    BY <1>1, <2>1 DEF ProcInv, Fresh
  <2>7. QED
    BY <1>1, <1>4, <2>1, <2>3, <2>4, <2>5, <2>6 DEF ProcInv
<1>9. QED
  BY <1>5, <1>6, <1>7, <1>8 DEF SchedInv

LEMMA LoopKeeps ==
  ASSUME SchedInv, WorkStart \/ WorkIdle \/ WorkYield \/ UNCHANGED vars
  PROVE  SchedInv'
<1>1. UNCHANGED <<proc, nextPid, workQueue, current, armed, sent, handled, killed>>
  BY DEF WorkStart, WorkIdle, WorkYield, vars, loopVars, history
<1>2. TypeOK' /\ LoopInv'
  <2>0. MaxSteps \in Nat
    BY SchedulerAssumption
  <2>1. CASE WorkStart
    BY <1>1, <2>0, <2>1 DEF SchedInv, TypeOK, LoopInv, WorkStart, Root
  <2>2. CASE WorkIdle
    <3>1. workTimers = 0 /\ workQueue = <<>> /\ current = 0
      BY <2>2 DEF SchedInv, TypeOK, LoopInv, WorkIdle
    <3>2. working' = FALSE /\ inWork' = FALSE /\ UNCHANGED <<workTimers, numSteps>>
      BY <2>2 DEF WorkIdle
    <3>3. LoopInv'
      BY <1>1, <3>1, <3>2 DEF LoopInv
    <3>4. QED
      BY <1>1, <3>2, <3>3 DEF SchedInv, TypeOK
  <2>3. CASE WorkYield
    <3>1. workTimers = 0 /\ working /\ current = 0
      BY <2>3 DEF SchedInv, TypeOK, LoopInv, WorkYield
    <3>2. workTimers' = 1 /\ inWork' = FALSE /\ UNCHANGED <<working, numSteps>>
      BY <2>3, <3>1 DEF WorkYield
    <3>3. LoopInv'
      BY <1>1, <3>1, <3>2 DEF LoopInv
    <3>4. QED
      BY <1>1, <3>2, <3>3 DEF SchedInv, TypeOK
  <2>4. CASE UNCHANGED vars
    BY <1>1, <2>4 DEF SchedInv, TypeOK, LoopInv, vars, loopVars, Root
  <2>5. QED
    BY <2>1, <2>2, <2>3, <2>4
<1>3. ASSUME NEW p \in Pid PROVE ProcInv(p)'
  <2>1. ProcInv(p)
    BY DEF SchedInv
  <2>2. (Runnable(p)' <=> Runnable(p)) /\ (Asleep(p)' <=> Asleep(p)) /\ Root(p)' = Root(p)
    BY <1>1, SameProcess
  <2>3. QED
    BY <1>1, <2>1, <2>2 DEF ProcInv, Wakes, InOnePlace, Timed, Fresh
<1>4. QED
  BY <1>2, <1>3 DEF SchedInv

(* A call of enqueue from outside work(): the loop is running or called    *)
(* for afterwards, and once.                                               *)
LEMMA WakeKeeps ==
  ASSUME SchedInv, ~inWork, WakeWorker, working' = TRUE, UNCHANGED <<inWork, current>>
  PROVE  LoopInv' /\ workTimers' \in Nat /\ current = 0
<1>1. current = 0 /\ workTimers \in Nat /\ working \in BOOLEAN
  BY DEF SchedInv, TypeOK, LoopInv
<1>2. workTimers' = 1
  BY <1>1 DEF WakeWorker, SchedInv, LoopInv
<1>3. QED
  BY <1>1, <1>2 DEF LoopInv

LEMMA TimerKeeps ==
  ASSUME SchedInv, NEW t \in Pid, TimerFires(t)
  PROVE  SchedInv'
<1>1. /\ ~inWork /\ armed[t] > 0 /\ armed' = [armed EXCEPT ![t] = @ - 1]
      /\ proc' = [proc EXCEPT ![t].root = Succeed(Unit)]
      /\ workQueue' = workQueue \o <<t>> /\ working' = TRUE /\ WakeWorker
      /\ UNCHANGED <<nextPid, inWork, current, numSteps, sent, handled, killed>>
  BY DEF TimerFires, Enqueue, history
<1>2. LoopInv' /\ workTimers' \in Nat /\ current = 0
  BY <1>1, WakeKeeps
<1>3. /\ ProcInv(t) /\ Asleep(t) /\ armed[t] = 1 /\ sent[t] = <<>> /\ ~Has(workQueue, t) /\ Once(workQueue, t)
      /\ Root(t) # NoTask /\ t \in Nat /\ t # 0
  <2>1. ProcInv(t) /\ t \in Nat /\ t # 0
    BY DEF SchedInv, Pid
  <2>2. Asleep(t) /\ armed[t] = 1 /\ sent[t] = <<>>
    BY <1>1, <2>1 DEF ProcInv, Timed
  <2>3. QED
    BY <2>1, <2>2, NullWaits DEF ProcInv, InOnePlace
<1>4. Succeed(Unit) \in Tasks
  BY SucceedIsTask
<1>5. /\ proc' \in [Pid -> Process] /\ \A p \in Pid : p # t => proc'[p] = proc[p]
      /\ proc'[t].root = Succeed(Unit) /\ proc'[t].mailbox = proc[t].mailbox
  BY <1>1, <1>4 DEF SchedInv, TypeOK, Process
<1>6. armed' \in [Pid -> Nat] /\ armed'[t] = 0 /\ \A p \in Pid : p # t => armed'[p] = armed[p]
  BY <1>1, <1>3 DEF SchedInv, TypeOK
<1>7. /\ workQueue' \in Seq(Pid)
      /\ \A p : Has(workQueue', p) <=> Has(workQueue, p) \/ p = t
      /\ \A p : Once(workQueue, p) /\ (p = t => ~Has(workQueue, p)) => Once(workQueue', p)
  BY <1>1, QueueAppend DEF SchedInv, TypeOK
<1>8. TypeOK'
  BY <1>1, <1>2, <1>5, <1>6, <1>7 DEF SchedInv, TypeOK
<1>9. ASSUME NEW p \in Pid, p # t PROVE ProcInv(p)'
  <2>1. ProcInv(p) /\ current # p /\ current' # p
    BY <1>1, <1>2 DEF SchedInv, Pid
  <2>2. QED
    BY <1>1, <1>5, <1>6, <1>7, <1>9, <2>1, OtherKept
<1>10. ProcInv(t)'
  <2>1. ~Asleep(t)' /\ Root(t)' # NoTask
    BY <1>4, <1>5, TaskFacts DEF Asleep, Root
  <2>2. Has(workQueue', t) /\ Once(workQueue', t) /\ current' # t
    BY <1>1, <1>2, <1>3, <1>7
  <2>3. t \notin killed /\ ~(t >= nextPid)
    BY <1>3 DEF ProcInv, Fresh
  <2>4. sent'[t] = handled'[t] \o proc'[t].mailbox
    BY <1>1, <1>3, <1>5 DEF ProcInv
  <2>5. QED
    BY <1>1, <1>6, <2>1, <2>2, <2>3, <2>4 DEF ProcInv, Wakes, InOnePlace, Timed, Fresh
<1>11. QED
  BY <1>2, <1>8, <1>9, <1>10 DEF SchedInv

LEMMA ExternalKeeps ==
  ASSUME SchedInv, Disciplined, NEW e \in External, ExternalSend(e[1], e[2])
  PROVE  SchedInv'
<1>q. PICK q \in Pid, msg \in Values : q = e[1] /\ msg = e[2]
  BY ProgramAssumption
<1>1. /\ ~inWork /\ proc' = [proc EXCEPT ![q].mailbox = Append(@, msg)]
      /\ sent' = [sent EXCEPT ![q] = Append(@, msg)]
      /\ workQueue' = workQueue \o <<q>> /\ working' = TRUE /\ WakeWorker
      /\ UNCHANGED <<nextPid, inWork, current, numSteps, armed, handled, killed>>
  BY <1>q DEF ExternalSend, Enqueue
<1>2. LoopInv' /\ workTimers' \in Nat /\ current = 0
  BY <1>1, WakeKeeps
<1>3. q < nextPid /\ ~Asleep(q)
  BY <1>q, <1>1 DEF Disciplined
<1>4. Append(proc[q].mailbox, msg) \in Seq(Values) /\ Append(sent[q], msg) \in Seq(Values)
  <2>1. proc[q].mailbox \in Seq(Values) /\ sent[q] \in Seq(Values)
    BY ProcFacts DEF SchedInv, TypeOK
  <2>2. QED
    BY <2>1, AppendConcat
<1>5. /\ proc' \in [Pid -> Process] /\ \A p \in Pid : p # q => proc'[p] = proc[p]
      /\ proc'[q].root = proc[q].root /\ proc'[q].mailbox = Append(proc[q].mailbox, msg)
  BY <1>1, <1>4 DEF SchedInv, TypeOK, Process
<1>6. /\ sent' \in [Pid -> Seq(Values)] /\ \A p \in Pid : p # q => sent'[p] = sent[p]
      /\ sent'[q] = Append(sent[q], msg)
  BY <1>1, <1>4 DEF SchedInv, TypeOK
<1>7. /\ workQueue' \in Seq(Pid)
      /\ \A p : Has(workQueue', p) <=> Has(workQueue, p) \/ p = q
      /\ \A p : Once(workQueue, p) /\ (p = q => ~Has(workQueue, p)) => Once(workQueue', p)
  BY <1>1, QueueAppend DEF SchedInv, TypeOK
<1>8. TypeOK'
  BY <1>1, <1>2, <1>5, <1>6, <1>7 DEF SchedInv, TypeOK
<1>9. ASSUME NEW p \in Pid, p # q PROVE ProcInv(p)'
  <2>1. ProcInv(p) /\ current # p /\ current' # p
    BY <1>1, <1>2 DEF SchedInv, Pid
  <2>2. QED
    BY <1>1, <1>5, <1>6, <1>7, <1>9, <2>1, OtherKept
<1>10. ProcInv(q)'
  BY <1>1, <1>3, <1>5, <1>6, <1>7, MailedKept
<1>11. QED
  BY <1>2, <1>8, <1>9, <1>10 DEF SchedInv

LEMMA SchedNext ==
  ASSUME SchedInv, Disciplined, [Next]_vars
  PROVE  SchedInv'
<1>1. CASE StepSucceed \/ StepFail
  BY <1>1, ResultKeeps DEF StepSucceed, StepFail
<1>2. CASE StepAndThen \/ StepOnError
  BY <1>2, PushKeeps DEF StepAndThen, StepOnError
<1>3. CASE StepReceive \/ StepSpawn \/ StepSend \/ StepKill \/ StepSleep \/ StepPreempted
  BY <1>3, ReceiveKeeps, SpawnKeeps, SendKeeps, KillKeeps, SleepKeeps, PreemptedKeeps
<1>4. CASE Work \/ UNCHANGED vars
  BY <1>4, ShiftKeeps, LoopKeeps DEF Work
<1>5. CASE \E p \in Pid : TimerFires(p)
  BY <1>5, TimerKeeps
<1>6. CASE \E e \in External : ExternalSend(e[1], e[2])
  BY <1>6, ExternalKeeps
<1>7. QED
  BY <1>1, <1>2, <1>3, <1>4, <1>5, <1>6 DEF Next, Step

LEMMA SchedInit ==
  ASSUME Init
  PROVE  SchedInv
<1> DEFINE n == Len(InitTasks)
<1>1. n \in Nat /\ n >= 1 /\ n <= MaxProcs /\ MaxProcs \in Nat /\ MaxSteps \in Nat
  BY SchedulerAssumption
<1>2. /\ DOMAIN workQueue = 1..n /\ workQueue \in Seq(Pid)
      /\ \A i \in 1..n : workQueue[i] = i
  <2>1. workQueue = [i \in 1..n |-> i]
    BY DEF Init
  <2> HIDE DEF n
  <2>2. QED
    BY <1>1, <2>1 DEF Pid
<1>3. \A p : Once(workQueue, p)
  BY <1>2 DEF Once
<1>4. \A p \in Pid : Has(workQueue, p) <=> p <= n
  <2>1. \A p \in Pid : p <= n => p \in 1..n
    BY <1>1 DEF Pid
  <2>2. QED
    BY <1>1, <1>2, <2>1 DEF Has
<1>5. \A i \in 1..n : InitTasks[i] \in Tasks
  BY ProgramAssumption
<1>6. \A p \in Pid : proc[p] = NewProcess(IF p <= n THEN InitTasks[p] ELSE NoTask)
  BY DEF Init, Unspawned
<1>7. \A p \in Pid : /\ Root(p) \in Tasks \cup {NoTask} /\ proc[p].mailbox = <<>>
                     /\ p > n => Root(p) = NoTask
  <2>1. \A p \in Pid : p <= n => InitTasks[p] \in Tasks
    BY <1>1, <1>5 DEF Pid
  <2>2. \A p \in Pid : p \in Nat
    BY DEF Pid
  <2> HIDE DEF n
  <2>3. QED
    <3>1. ASSUME NEW p \in Pid
          PROVE  Root(p) \in Tasks \cup {NoTask} /\ proc[p].mailbox = <<>> /\ (p > n => Root(p) = NoTask)
      <4>1. CASE p <= n
        <5>1. proc[p] = [root |-> InitTasks[p], stack |-> <<>>, mailbox |-> <<>>]
          BY <1>6, <4>1 DEF NewProcess
        <5>2. QED
          BY <1>1, <2>1, <2>2, <4>1, <5>1 DEF Root
      <4>2. CASE p > n
        <5>1. proc[p] = [root |-> NoTask, stack |-> <<>>, mailbox |-> <<>>]
          <6>1. ~(p <= n)
            BY <1>1, <2>2, <4>2
          <6>2. QED
            BY <1>6, <6>1 DEF NewProcess
        <5>2. QED
          BY <5>1 DEF Root
      <4>3. QED
        BY <1>1, <2>2, <4>1, <4>2
    <3>2. QED
      BY <3>1
<1>8. proc \in [Pid -> Process]
  <2>1. proc = [p \in Pid |-> proc[p]]
    BY DEF Init
  <2>2. ASSUME NEW p \in Pid PROVE proc[p] \in Process
    <3>1. <<>> \in Seq(Frames) /\ <<>> \in Seq(Values)
      OBVIOUS
    <3>2. PICK r : proc[p] = [root |-> r, stack |-> <<>>, mailbox |-> <<>>]
      BY <1>6 DEF NewProcess
    <3>3. r \in Tasks \cup {NoTask}
      BY <1>7, <3>2 DEF Root
    <3>4. QED
      BY <3>1, <3>2, <3>3 DEF Process
  <2>3. QED
    BY <2>1, <2>2
<1>9. TypeOK
  <2>1. <<>> \in Seq(Values)
    OBVIOUS
  <2>2. armed \in [Pid -> Nat] /\ sent \in [Pid -> Seq(Values)] /\ handled \in [Pid -> Seq(Values)]
    BY <2>1 DEF Init
  <2>3. QED
    <3>1. nextPid = n + 1
      BY DEF Init
    <3>2. nextPid \in 1..(MaxProcs + 1) /\ 0 \in 0..MaxSteps
      BY <1>1, <3>1
    <3> HIDE DEF n
    <3>3. QED
      BY <1>2, <1>8, <2>2, <3>2 DEF Init, TypeOK
<1>10. LoopInv
  BY DEF Init, LoopInv
<1>11. ASSUME NEW p \in Pid PROVE ProcInv(p)
  <2>1. sent[p] = <<>> /\ handled[p] = <<>> /\ armed[p] = 0 /\ current # p /\ p \notin killed /\ p \in Nat
    BY DEF Init, Pid
  <2>2. ~Asleep(p)
    BY <1>7, TaskFacts DEF Asleep
  <2>3. Wakes(p)
    BY <1>1, <1>4, <1>7, <2>1, NullWaits DEF Wakes
  <2>4. InOnePlace(p) /\ Timed(p)
    BY <1>3, <2>1, <2>2 DEF InOnePlace, Timed
  <2>5. Fresh(p)
    <3>1. nextPid = n + 1
      BY DEF Init
    <3>2. QED
      BY <1>1, <1>4, <1>7, <2>1, <3>1 DEF Fresh
  <2>6. sent[p] = handled[p] \o proc[p].mailbox
    BY <1>7, <2>1
  <2>7. QED
    BY <2>1, <2>3, <2>4, <2>5, <2>6 DEF ProcInv
<1>12. QED
  BY <1>9, <1>10, <1>11 DEF SchedInv

-----------------------------------------------------------------------------

(* work() runs or is called for, once, as long as a process is queued, and *)
(* every process step() could advance is queued (Scheduler.js: enqueue,    *)
(* step and work), whatever the program does within Disciplined.           *)
THEOREM NoWakeupIsLost == Spec /\ []Disciplined => []NoLostWakeup
<1>1. SchedInv /\ Disciplined => NoLostWakeup
  <2> SUFFICES ASSUME SchedInv, Disciplined PROVE NoLostWakeup
    OBVIOUS
  <2>1. TypeOK
    BY DEF SchedInv
  <2>2. ASSUME NEW p \in Pid PROVE armed[p] <= 1
    <3>1. armed[p] = 1 \/ armed[p] = 0
      BY DEF SchedInv, ProcInv, Timed
    <3>2. QED
      BY <3>1
  <2>3. \A p \in Pid : Has(workQueue, p) => Queued(p)
    BY <2>1 DEF TypeOK, Has, Queued
  <2>4. \A p \in Pid : Runnable(p) => Queued(p) \/ current = p
    BY <2>3 DEF SchedInv, ProcInv, Wakes
  <2>5. QED
    BY <2>1, <2>2, <2>4 DEF SchedInv, LoopInv, NoLostWakeup
<1>2. QED
  BY <1>1, SchedInit, SchedNext, PTL DEF Spec

(* A process gets its messages in the order they were sent, each once      *)
(* (rawSend and _Task_receive of Scheduler.js).                            *)
THEOREM MailStaysInOrder == Spec /\ []Disciplined => []MailInOrder
<1>1. SchedInv => MailInOrder
  BY DEF SchedInv, ProcInv, MailInOrder
<1>2. QED
  BY <1>1, SchedInit, SchedNext, PTL DEF Spec

(* No timer and no copy in the queue revives a killed process (kill and    *)
(* work of Scheduler.js).                                                  *)
THEOREM KillIsFinal == Spec /\ []Disciplined => KilledStaysDead
<1>1. SchedInv /\ SchedInv' /\ [Next]_vars => [DeadStay]_vars
  <2> SUFFICES ASSUME SchedInv, SchedInv', [Next]_vars, NEW p \in Pid, p \in killed
               PROVE  proc'[p].root = NoTask /\ current' # p
    BY DEF DeadStay
  <2>1. p \in killed'
    BY DEF Next, Step, Work, StepSucceed, StepFail, StepResult, StepAndThen, StepOnError, StepPush,
           StepReceive, StepSpawn, StepSend, StepKill, StepSleep, StepPreempted,
           WorkStart, WorkShift, WorkIdle, WorkYield, TimerFires, ExternalSend, history, vars
  <2>2. Root(p)' = NoTask
    BY <2>1 DEF SchedInv, ProcInv
  <2>3. p # 0
    BY DEF Pid
  <2>4. current' # 0 => Root(current)' # NoTask
    BY DEF SchedInv, LoopInv
  <2>5. QED
    BY <2>2, <2>3, <2>4 DEF Root
<1>2. QED
  BY <1>1, SchedInit, SchedNext, PTL DEF Spec, KilledStaysDead
=============================================================================
