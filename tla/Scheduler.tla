------------------------------ MODULE Scheduler ------------------------------
(***************************************************************************)
(* The process scheduler of the Elm runtime the user interface runs on     *)
(* (core/5.1.1/src/Native/Scheduler.js).  Processes are stepped by work(), *)
(* a JavaScript macrotask: browser events and timers never interleave with *)
(* it, so they are enabled only while inWork is FALSE.                     *)
(*                                                                         *)
(* Elm functions are data here: a callback k applied to a value v is the   *)
(* task Apply(k, v).  A task is an object of its own: two processes never  *)
(* share one (a shared native binding would share its cancel field).       *)
(***************************************************************************)
EXTENDS Naturals, Sequences, FiniteSets

CONSTANTS
    MaxSteps,      \* MAX_STEPS, the steps one run of work() may take
    MaxProcs,      \* bound: processes ever spawned
    MaxExternal,   \* bound: messages sent by browser events
    Values,        \* what tasks result in and what messages are
    Callbacks,     \* the Elm functions of the program
    Tasks,         \* the tasks it makes
    Apply(_, _),   \* what an Elm callback returns
    InitTasks,     \* the tasks rawSpawn'ed before the first work()
    External,      \* <<process, message>> pairs browser events may rawSend
    NoTask         \* JavaScript's null in process.root

Pid == 1..MaxProcs

VARIABLES
    proc,        \* process -> its root, stack and mailbox
    nextPid,     \* the guid the next process gets
    workQueue,
    working,
    workTimers,  \* calls of work handed to setTimeout and not yet made
    inWork,      \* work() is on the JavaScript stack
    current,     \* the process step() is working on, 0 between two calls
    numSteps,
    armed,       \* process -> timers of its sleeps that have not fired
    externals,   \* browser messages so far
    sent,        \* history: process -> every message pushed to its mailbox
    handled,     \* history: process -> every message its callbacks got
    killed       \* history: the processes kill was applied to

loopVars == <<workTimers, inWork, current, numSteps>>
history == <<sent, handled, killed>>
vars == <<proc, nextPid, workQueue, working, loopVars, armed, externals, history>>

-----------------------------------------------------------------------------
(* Tasks *)

Unit == 0
Succeed(v) == [ctor |-> "succeed", value |-> v]
Fail(e) == [ctor |-> "fail", value |-> e]
AndThen(k, task) == [ctor |-> "andThen", callback |-> k, task |-> task]
OnError(k, task) == [ctor |-> "onError", callback |-> k, task |-> task]
Receive(k) == [ctor |-> "receive", callback |-> k]

\* The bindings the scheduler itself offers.  spawn, send and kill call back
\* before they return; sleep calls back from a timer and can be cancelled.
Binding(op) == [ctor |-> "nativeBinding", op |-> op, cancel |-> FALSE]
Spawn(task) == Binding([kind |-> "spawn", task |-> task])
Send(p, msg) == Binding([kind |-> "send", to |-> p, msg |-> msg])
Kill(p) == Binding([kind |-> "kill", target |-> p])
Sleep == Binding([kind |-> "sleep"])

NewProcess(task) == [root |-> task, stack |-> <<>>, mailbox |-> <<>>]
Unspawned == NewProcess(NoTask)

Operations ==
    [kind : {"spawn"}, task : Tasks] \cup [kind : {"send"}, to : Values, msg : Values]
      \cup [kind : {"kill"}, target : Values] \cup [kind : {"sleep"}]
Entered == [ctor : {"nativeBinding"}, op : Operations, cancel : {TRUE}]
Frames == [ctor : {"andThen", "onError"}, callback : Callbacks]
Process == [root : Tasks \cup {NoTask} \cup Entered, stack : Seq(Frames), mailbox : Seq(Values)]

ASSUME SchedulerAssumption ==
    /\ MaxSteps \in Nat \ {0}
    /\ MaxProcs \in Nat
    /\ MaxExternal \in Nat
    /\ Len(InitTasks) \in 1..MaxProcs

\* The program is made of tasks, and no task has run before it is given to a
\* process: null and a cancel field are the scheduler's alone.
ASSUME ProgramAssumption ==
    /\ Pid \cup {Unit} \subseteq Values
    /\ NoTask \notin Tasks \cup Entered
    /\ \A task \in Tasks :
         \/ task \in [ctor : {"succeed", "fail"}, value : Values]
         \/ task \in [ctor : {"andThen", "onError"}, callback : Callbacks, task : Tasks]
         \/ task \in [ctor : {"receive"}, callback : Callbacks]
         \/ task \in [ctor : {"nativeBinding"}, op : Operations, cancel : {FALSE}]
    /\ \A v \in Values : Succeed(v) \in Tasks
    /\ \A k \in Callbacks, v \in Values : Apply(k, v) \in Tasks
    /\ InitTasks \in Seq(Tasks)
    /\ External \subseteq Pid \X Values

-----------------------------------------------------------------------------
(* The work queue *)

\* enqueue for each process of ps in turn
Enqueue(ps) ==
    /\ workQueue' = workQueue \o ps
    /\ working' = TRUE

\* the setTimeout of enqueue, for a caller outside work()
WakeWorker == workTimers' = IF working THEN workTimers ELSE workTimers + 1

\* step() returns after a break: the process left the loop with steps to spare
StepBreaks ==
    /\ current' = 0
    /\ numSteps' = numSteps + 1
    /\ UNCHANGED <<workTimers, inWork>>

\* step() takes its loop once more
StepContinues ==
    /\ numSteps' = numSteps + 1
    /\ UNCHANGED <<workTimers, inWork, current>>

\* an exception leaves step() and work(): nothing resets working
WorkThrows ==
    /\ inWork' = FALSE
    /\ current' = 0
    /\ UNCHANGED <<workTimers, numSteps>>

Root(p) == proc[p].root

Stepping(ctor) ==
    /\ current # 0
    /\ numSteps < MaxSteps
    /\ Root(current).ctor = ctor

-----------------------------------------------------------------------------
(* step(): one action per branch of its loop *)

\* The stack with the frames of the other kind popped off its top.
Unwind(stack, ctor) ==
    LET wanted == {i \in 1..Len(stack) : stack[i].ctor = ctor}
    IN  IF wanted = {} THEN <<>>
        ELSE LET top == CHOOSE i \in wanted : \A j \in wanted : i <= j
             IN  SubSeq(stack, top, Len(stack))

\* _Task_succeed and _Task_fail differ in the frames they skip.
StepResult(ctor, frame) ==
    /\ Stepping(ctor)
    /\ LET rest == Unwind(proc[current].stack, frame)
       IN  IF rest = <<>>
           THEN /\ proc' = [proc EXCEPT ![current].stack = <<>>]
                /\ StepBreaks
           ELSE /\ proc' = [proc EXCEPT
                      ![current].root = Apply(rest[1].callback, @.value),
                      ![current].stack = Tail(rest)]
                /\ StepContinues
    /\ UNCHANGED <<nextPid, workQueue, working, armed, externals, history>>

StepSucceed == StepResult("succeed", "andThen")
StepFail == StepResult("fail", "onError")

\* _Task_andThen and _Task_onError push a frame.
StepPush(ctor) ==
    /\ Stepping(ctor)
    /\ proc' = [proc EXCEPT
          ![current].root = @.task,
          ![current].stack = <<[ctor |-> ctor,
                                callback |-> Root(current).callback]>> \o @]
    /\ StepContinues
    /\ UNCHANGED <<nextPid, workQueue, working, armed, externals, history>>

StepAndThen == StepPush("andThen")
StepOnError == StepPush("onError")

\* Mutant of StepReceive: the mailbox is popped at its other end.
StepReceiveLast ==
    /\ Stepping("receive")
    /\ LET mailbox == proc[current].mailbox
       IN  IF mailbox = <<>>
           THEN StepBreaks /\ UNCHANGED <<proc, handled>>
           ELSE /\ proc' = [proc EXCEPT
                      ![current].root = Apply(@.callback, mailbox[Len(mailbox)]),
                      ![current].mailbox = SubSeq(@, 1, Len(@) - 1)]
                /\ handled' = [handled EXCEPT
                      ![current] = Append(@, mailbox[Len(mailbox)])]
                /\ StepContinues
    /\ UNCHANGED <<nextPid, workQueue, working, armed, externals, sent, killed>>

StepReceive ==
    /\ Stepping("receive")
    /\ LET mailbox == proc[current].mailbox
       IN  IF mailbox = <<>>
           THEN StepBreaks /\ UNCHANGED <<proc, handled>>
           ELSE /\ proc' = [proc EXCEPT
                      ![current].root = Apply(@.callback, Head(mailbox)),
                      ![current].mailbox = Tail(@)]
                /\ handled' = [handled EXCEPT ![current] = Append(@, Head(mailbox))]
                /\ StepContinues
    /\ UNCHANGED <<nextPid, workQueue, working, armed, externals, sent, killed>>

SteppingBinding(kind) ==
    Stepping("nativeBinding") /\ Root(current).op.kind = kind

StepSpawn ==
    /\ SteppingBinding("spawn")
    /\ nextPid <= MaxProcs
    /\ proc' = [proc EXCEPT ![nextPid] = NewProcess(Root(current).op.task),
                            ![current].root = Succeed(nextPid)]
    /\ nextPid' = nextPid + 1
    /\ Enqueue(<<nextPid, current>>)
    /\ StepBreaks
    /\ UNCHANGED <<armed, externals, history>>

\* Mutant of StepSend: the receiver of a message is not enqueued.
StepSendQuiet ==
    /\ SteppingBinding("send")
    /\ LET op == Root(current).op
       IN  /\ proc' = [proc EXCEPT ![op.to].mailbox = Append(@, op.msg),
                                   ![current].root = Succeed(Unit)]
           /\ sent' = [sent EXCEPT ![op.to] = Append(@, op.msg)]
           /\ Enqueue(<<current>>)
    /\ StepBreaks
    /\ UNCHANGED <<nextPid, armed, externals, handled, killed>>

\* rawSend, then the callback: the receiver is queued before the sender
StepSend ==
    /\ SteppingBinding("send")
    /\ LET op == Root(current).op
       IN  /\ proc' = [proc EXCEPT ![op.to].mailbox = Append(@, op.msg),
                                   ![current].root = Succeed(Unit)]
           /\ sent' = [sent EXCEPT ![op.to] = Append(@, op.msg)]
           /\ Enqueue(<<op.to, current>>)
    /\ StepBreaks
    /\ UNCHANGED <<nextPid, armed, externals, handled, killed>>

\* Mutant of StepKill: root.cancel is not called.
StepKillOnly ==
    /\ SteppingBinding("kill")
    /\ LET target == Root(current).op.target
       IN  IF Root(target) = NoTask
           THEN WorkThrows /\ UNCHANGED <<proc, workQueue, working, killed>>
           ELSE /\ proc' = [proc EXCEPT ![target].root = NoTask,
                                        ![current].root = Succeed(Unit)]
                /\ killed' = killed \cup {target}
                /\ Enqueue(<<current>>)
                /\ StepBreaks
    /\ UNCHANGED <<nextPid, externals, sent, handled, armed>>

\* kill: a sleeping target's timer is cleared and its root becomes null; a
\* target whose root is null already makes root.ctor throw.
StepKill ==
    /\ SteppingBinding("kill")
    /\ LET target == Root(current).op.target
           root == Root(target)
       IN  IF root = NoTask
           THEN WorkThrows /\ UNCHANGED <<proc, workQueue, working, armed, killed>>
           ELSE /\ armed' = IF root.ctor = "nativeBinding" /\ root.cancel
                            THEN [armed EXCEPT ![target] = @ - 1]
                            ELSE armed
                /\ proc' = [proc EXCEPT ![target].root = NoTask,
                                        ![current].root = Succeed(Unit)]
                /\ killed' = killed \cup {target}
                /\ Enqueue(<<current>>)
                /\ StepBreaks
    /\ UNCHANGED <<nextPid, externals, sent, handled>>

\* sleep: setTimeout, and its clearTimeout is kept as root.cancel
StepSleep ==
    /\ SteppingBinding("sleep")
    /\ proc' = [proc EXCEPT ![current].root.cancel = TRUE]
    /\ armed' = [armed EXCEPT ![current] = @ + 1]
    /\ StepBreaks
    /\ UNCHANGED <<nextPid, workQueue, working, externals, history>>

\* Mutant of StepPreempted: a long process goes back to the front of the queue.
StepPreemptedFirst ==
    /\ current # 0
    /\ numSteps >= MaxSteps
    /\ workQueue' = <<current>> \o workQueue
    /\ working' = TRUE
    /\ current' = 0
    /\ UNCHANGED <<proc, nextPid, workTimers, inWork, numSteps, armed,
                   externals, history>>

\* MAX_STEPS taken in the middle of a process: back to the end of the queue
StepPreempted ==
    /\ current # 0
    /\ numSteps >= MaxSteps
    /\ Enqueue(<<current>>)
    /\ current' = 0
    /\ UNCHANGED <<proc, nextPid, workTimers, inWork, numSteps, armed,
                   externals, history>>

-----------------------------------------------------------------------------
(* work() *)

WorkStart ==
    /\ ~inWork
    /\ workTimers > 0
    /\ workTimers' = workTimers - 1
    /\ inWork' = TRUE
    /\ numSteps' = 0
    /\ UNCHANGED <<proc, nextPid, workQueue, working, current, armed,
                   externals, history>>

\* workQueue.shift(); a killed process is passed over
WorkShift ==
    /\ inWork
    /\ current = 0
    /\ numSteps < MaxSteps
    /\ workQueue # <<>>
    /\ workQueue' = Tail(workQueue)
    /\ current' = IF Root(Head(workQueue)) = NoTask THEN 0 ELSE Head(workQueue)
    /\ UNCHANGED <<proc, nextPid, working, workTimers, inWork, numSteps, armed,
                   externals, history>>

\* the queue is empty
WorkIdle ==
    /\ inWork
    /\ current = 0
    /\ numSteps < MaxSteps
    /\ workQueue = <<>>
    /\ working' = FALSE
    /\ inWork' = FALSE
    /\ UNCHANGED <<proc, nextPid, workQueue, workTimers, current, numSteps,
                   armed, externals, history>>

\* the steps are used up: the browser gets its turn, then work() again
WorkYield ==
    /\ inWork
    /\ current = 0
    /\ numSteps >= MaxSteps
    /\ workTimers' = workTimers + 1
    /\ inWork' = FALSE
    /\ UNCHANGED <<proc, nextPid, workQueue, working, current, numSteps, armed,
                   externals, history>>

-----------------------------------------------------------------------------
(* Browser callbacks *)

\* the timer of a sleep calls the callback step() gave to the binding
TimerFires(p) ==
    /\ ~inWork
    /\ armed[p] > 0
    /\ armed' = [armed EXCEPT ![p] = @ - 1]
    /\ proc' = [proc EXCEPT ![p].root = Succeed(Unit)]
    /\ Enqueue(<<p>>)
    /\ WakeWorker
    /\ UNCHANGED <<nextPid, inWork, current, numSteps, externals, history>>

\* a browser event handler calls rawSend
ExternalSend(p, msg) ==
    /\ ~inWork
    /\ externals < MaxExternal
    /\ externals' = externals + 1
    /\ proc' = [proc EXCEPT ![p].mailbox = Append(@, msg)]
    /\ sent' = [sent EXCEPT ![p] = Append(@, msg)]
    /\ Enqueue(<<p>>)
    /\ WakeWorker
    /\ UNCHANGED <<nextPid, inWork, current, numSteps, armed, handled, killed>>

-----------------------------------------------------------------------------
\* The initial processes have been rawSpawn'ed and wait for the first work().
Init ==
    /\ proc = [p \in Pid |-> IF p <= Len(InitTasks) THEN NewProcess(InitTasks[p])
                             ELSE Unspawned]
    /\ nextPid = Len(InitTasks) + 1
    /\ workQueue = [i \in 1..Len(InitTasks) |-> i]
    /\ working = TRUE
    /\ workTimers = 1
    /\ inWork = FALSE
    /\ current = 0
    /\ numSteps = 0
    /\ armed = [p \in Pid |-> 0]
    /\ externals = 0
    /\ sent = [p \in Pid |-> <<>>]
    /\ handled = [p \in Pid |-> <<>>]
    /\ killed = {}

Step ==
    \/ StepSucceed \/ StepFail \/ StepAndThen \/ StepOnError
    \/ StepReceive \/ StepSpawn \/ StepSend \/ StepKill \/ StepSleep
    \/ StepPreempted

Work == WorkStart \/ WorkShift \/ WorkIdle \/ WorkYield

Next ==
    \/ Step
    \/ Work
    \/ \E p \in Pid : TimerFires(p)
    \/ \E e \in External : ExternalSend(e[1], e[2])

Spec == Init /\ [][Next]_vars

\* The browser runs a macrotask to its end and makes the calls of its timers.
Fairness ==
    /\ WF_vars(Step \/ Work)
    /\ \A p \in Pid : WF_vars(TimerFires(p))

FairSpec == Spec /\ Fairness

-----------------------------------------------------------------------------
(* Properties *)

Queued(p) == \E i \in 1..Len(workQueue) : workQueue[i] = p

\* step() could do something for p: it is neither null, nor waiting for a
\* message or for a timer, nor at its end.
Runnable(p) ==
    LET root == Root(p)
    IN  /\ root # NoTask
        /\ CASE root.ctor = "receive" -> proc[p].mailbox # <<>>
             [] root.ctor = "nativeBinding" -> ~root.cancel
             [] root.ctor = "succeed" -> Unwind(proc[p].stack, "andThen") # <<>>
             [] root.ctor = "fail" -> Unwind(proc[p].stack, "onError") # <<>>
             [] OTHER -> TRUE

\* A binding that waits for its callback.
Asleep(p) == Root(p) # NoTask /\ Root(p).ctor = "nativeBinding" /\ Root(p).cancel

\* The state of the scheduler is well formed.
TypeOK ==
    /\ nextPid \in 1..(MaxProcs + 1)
    /\ workQueue \in Seq(Pid)
    /\ working \in BOOLEAN /\ inWork \in BOOLEAN
    /\ workTimers \in Nat
    /\ current \in Pid \cup {0}
    /\ numSteps \in 0..MaxSteps
    /\ proc \in [Pid -> Process]
    /\ armed \in [Pid -> Nat]
    /\ sent \in [Pid -> Seq(Values)] /\ handled \in [Pid -> Seq(Values)]
    /\ killed \subseteq Pid

\* How the effect managers use the scheduler: they send to processes they
\* have, and never to one that sleeps (those that have a router wait in
\* receive; Process.sleep is for spawned ones, WebSocket.elm:316-333); and
\* they kill another process, once (WebSocket.elm:344, Navigation.elm:420).
Disciplined ==
    /\ SteppingBinding("send") =>
         Root(current).op.to \in 1..(nextPid - 1) /\ ~Asleep(Root(current).op.to)
    /\ \A e \in External : e[1] < nextPid /\ (~inWork => ~Asleep(e[1]))
    /\ SteppingBinding("sleep") => sent[current] = <<>>
    /\ SteppingBinding("kill") =>
         LET target == Root(current).op.target
         IN  target \in 1..(nextPid - 1) /\ target # current /\ Root(target) # NoTask

\* No wake-up is lost and no second work() runs: queued processes have work()
\* running or exactly one call of it pending (Scheduler.js: working, enqueue,
\* the two exits of work), and every process that step() could advance is
\* queued or being stepped.  A binding that waits for its callback is not
\* entered a second time: a sleeping process has one timer; and step() keeps
\* to MAX_STEPS (TypeOK).  The program is one the runtime is meant for.
NoLostWakeup ==
    /\ TypeOK /\ Disciplined
    /\ \A p \in Pid : armed[p] <= 1
    /\ working <=> (inWork \/ workTimers > 0)
    /\ workTimers + (IF inWork THEN 1 ELSE 0) <= 1
    /\ workQueue # <<>> => working
    /\ \A p \in Pid : Runnable(p) => Queued(p) \/ current = p

\* Messages reach the callbacks of a process in the order they were sent,
\* each once, whatever the processes do in between (rawSend, _Task_receive).
MailInOrder ==
    \A p \in Pid : sent[p] = handled[p] \o proc[p].mailbox

DeadStay == \A p \in Pid : p \in killed => proc'[p].root = NoTask /\ current' # p

\* A killed process never runs again: neither a timer of its sleep nor a copy
\* of it left in the queue revives it (kill, root.cancel, the test in work).
KilledStaysDead == [][DeadStay]_vars

\* A process that waits for messages while it has some is given the next one
\* or is killed, although another process never stops: MAX_STEPS sends a long
\* process to the end of the queue and lets the browser in between.
MailIsHandled ==
    \A p \in Pid :
        (Root(p).ctor = "receive" /\ proc[p].mailbox # <<>>) ~>
            Root(p).ctor # "receive"
=============================================================================
