----------------------------- MODULE MCScheduler -----------------------------
(***************************************************************************)
(* A program for Scheduler: process 1 is a loop like spawnLoop's           *)
(* (Platform.js:226-241) that starts and stops a sleeping child, fails and *)
(* recovers, and sends to process 2, a loop that can be told to spin.      *)
(* The state of the first loop is the child it started, 0 for none.        *)
(***************************************************************************)
EXTENDS Scheduler

CONSTANTS start, stop, ping, fail, woke, pong, spin, error   \* messages

MCNoTask == [ctor |-> "null"]

\* a callback is a name and the value its closure captured
K(name, captured) == <<name, captured>>
Keep(child) == K("keep", child)
Spinning == AndThen(K("spin", 0), Succeed(Unit))
Child == AndThen(K("wake", 0), Sleep)

\* process 1 on a message, with the child it has
Handle(child, msg) ==
    CASE msg = start /\ child = 0 -> Spawn(Child)
      [] msg = stop /\ child # 0 -> AndThen(Keep(0), Kill(child))
      [] msg = ping -> AndThen(Keep(child), Send(2, pong))
      [] msg = fail -> OnError(Keep(child), AndThen(K("spin", 0), Fail(error)))
      [] msg = woke -> Succeed(0)
      [] OTHER -> Succeed(child)

MCApply(k, v) ==
    CASE k[1] = "main" -> AndThen(k, Receive(K("handle", v)))
      [] k[1] = "handle" -> Handle(k[2], v)
      [] k[1] = "server" -> AndThen(k, Receive(K("serve", 0)))
      [] k[1] = "serve" -> IF v = spin THEN Spinning ELSE Succeed(Unit)
      [] k[1] = "spin" -> Spinning
      [] k[1] = "wake" -> Send(1, woke)
      [] k[1] = "keep" -> Succeed(k[2])

MCInitTasks == <<AndThen(K("main", 0), Succeed(0)),
                 AndThen(K("server", 0), Succeed(Unit))>>

MCValues == Pid \cup {Unit, start, stop, ping, fail, woke, pong, spin, error}
MCCallbacks == {"main", "handle", "server", "serve", "spin", "wake", "keep"} \X MCValues

Parts(tasks) == {t.task : t \in {u \in tasks : u.ctor \in {"andThen", "onError"}}}
Made == {MCApply(k, v) : k \in MCCallbacks, v \in MCValues} \cup {Succeed(v) : v \in MCValues}
          \cup {MCInitTasks[i] : i \in DOMAIN MCInitTasks} \cup {Child}
MCTasks == Made \cup Parts(Made) \cup Parts(Parts(Made))

MCExternal == ({1} \X {start, stop, ping, fail}) \cup {<<2, spin>>}
=============================================================================
