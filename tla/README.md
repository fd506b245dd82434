# kubecast in TLA+

kubecast records what is written to the terminals of a cluster. On every host a
kernel probe hands each tty write to a client process, the client sends it over
a websocket to one server, the server groups the writes into sessions and keeps
a recording (`.cast`, asciicast v2) and a file of labels (`.cast.labels`) for
each, and a web page, an Elm program, lists and plays the recordings.

These modules follow a write all the way: from the probe to a connection
(`Capture`), from a connection into files (`Upload`), from files to a list
(`Listing`, `Server`), from a list to the page (`Viewer`), and under the page the
Elm runtime that is kept in the repository (`Scheduler`, `Platform`,
`WebSocketManager`, `VNode`, `VDom`, `Stepper`, `ElmArray`). Properties are
model-checked with TLC on small instances; the safety properties of the capture
path, the server and the websocket manager are also proved with TLAPS for every
instance.

## Inventory

| Part | State | Operations | What is hard about it |
|---|---|---|---|
| kernel probe, `bpf/bpf_tty.c` | a perf ring | `kprobe__tty_write`: copy 256 bytes, clamp the count, take the time, output | several CPUs, a full ring, the result of the output is ignored |
| package `kubecast` and gobpf's `PollStart` | the perf map; the records read and not sent | poll, harvest, sort, send; count lost events | writes go on during a harvest; the channels have no buffer |
| client, `cmd/client` | one connection | dial until it works, send each record, drop the record whose send fails and dial again, log lost events | the ring fills while it dials; the old connection may still be draining when the new one is up |
| upload path, `uploadHandler` | per connection: the maps `files` and `timestamps`; shared: the directory | read a record, make the labels file, make or open the cast file, learn the header's timestamp, append | handlers share files without locks; any error but `io.EOF` ends the process |
| package `asciinema` | none | `Init` writes the header, `Append` one event line | short writes; bytes written at a stale offset |
| listing path, `listHandler` | per browser: the map `labels` | list the casts, read labels that are not cached, send, sleep | the directory changes under it; a missing labels file ends the process |
| server process | the directory `dataPath` | start, `/healthz`, `glog.Fatalf` | the directory outlives the process, so half-made files stay |
| user interface, `ui/src` | `cast`, `casts`, `labels`; the select; the player | `ListCasts`, `DisplayCast`, `OnLocationChange`, `displayCast` of the page | a selection over a list that is replaced every second; a node the page changes under the renderer |
| websocket manager (Elm) | sockets, queues, subscriptions | `onEffects`, `onSelfMsg`, native `open` and `send` | reconnecting while events of the old socket are on their way |
| programs, managers, ports (Elm) | mailboxes, subscribers of ports | `initialize`, `dispatchEffects`, the loops, ports | start-up order; callbacks that change the list they are called from |
| scheduler (Elm) | processes, `workQueue`, `working` | `rawSpawn`, `rawSend`, `step`, `work`, `kill`, timers | lost wake-ups, killed processes that come back |
| virtual DOM (Elm) | the DOM, event nodes, `makeStepper`'s state | `render`, `diff`, `addDomNodes`, `applyPatches`, frames | indexes into an old tree; moved keyed children; taggers |
| arrays (Elm) | trees of tables of at most M entries | build, push, set, map, slice, append | radix search in tables that are not full; rebalancing |

Everything flows in one direction: probe to goroutine over the ring, goroutine to
client over two channels, client to server over a websocket (one handler goroutine
per connection), server to browser over another websocket and through the files,
which a web server in the same pod serves. All handlers share the directory and
the life of the process. In the browser the websocket manager hands lists to the
program, the program hands views to the renderer and recordings to the port
`displayCast`, and the page puts a player into the rendered tree.

What makes the parts correct, in short: a captured write is accounted for and
keeps its place; what was recorded stays recorded and can be read; events are
relative to the header that is in the file and in the order they were sent; a
reader of the directory never finds it in a state that ends the server; what
arrives is recorded and what is recorded is listed; the page offers what is
listed, under its own labels, and plays what it says it plays. `PROJECT.json`
lists the hazards behind these at their lines.

## Modules

| Module | Models | EXTENDS |
|---|---|---|
| `Capture` | the probe, the ring, `PollStart`'s goroutine and the client's loop | |
| `CastFile` | the contents of the two files; `asciinema.Init` (`Header`), `asciinema.Append` (`Event`), the labels (`Labels`), write(2) (`WriteAt`), reading the header back (`HeaderIs`) | |
| `DataPath` | the directory and the process: files, `status`, `Exit`, `Restart`, `Fault` | `CastFile` |
| `Upload` | `uploadHandler` for any number of connections, and the clients and the network as its environment | `DataPath` |
| `Listing` | `listHandler` for any number of browsers over whatever directory it finds | `DataPath` |
| `Server` | both kinds of handlers in one process | `Upload`, `Listing` |
| `SessionLog` | what a reader may rely on: append-only logs, one per session hash | |
| `UploadRefinement` | the refinement mapping from cast files to `SessionLog` | `Upload` |
| `VNode` | virtual nodes, facts, `diff` with its keyed case | |
| `VDom` | the DOM and the event nodes; `render`, `addDomNodes`, `applyPatches` | `VNode` |
| `Frames` | `makeStepper`: models and frames, and which model a frame draws | |
| `Stepper` | `normalRenderer` and what `makeStepper`'s draws do to the page | `VDom`, `Frames` |
| `CastList` | `Main.elm`, `Update.elm` and `Helpers.elm`: the program of the user interface, its messages and commands, and the lists the server sends | |
| `Viewer` | `View.elm` and the page: the program over the renderer, with a user | `Stepper`, `CastList` |
| `EffectBag` | bags of commands and subscriptions, and what `gatherEffects` makes of them | |
| `Platform` | `initialize`, `dispatchEffects`, the loops of main process and managers, outgoing and incoming ports; what `gatherEffects` makes of bags is a parameter | |
| `Scheduler` | `Scheduler.js`: every branch of `step` and `work`, timers, browser events | |
| `WebSocketManager` | `WebSocket.elm` and the native sockets under it | |
| `ElmArray`, `ElmArrayCut` | `Array.js` as operators: building, reading, changing; cutting and joining | |
| `ArrayUse` | programs over arrays, beside the sequences they stand for | `ElmArrayCut` |
| `UploadProofs`, `ServerProofs`, `RefinementProofs`, `CaptureProofs`, `WebSocketProofs`, `SchedulerProofs`, `PlatformProofs`, `ViewerProofs` | the proofs | |
| `MCUpload`, `MCServer`, `MCViewer`, `MCStepper`, `MCPlatform`, `MCScheduler`, `MCArray` | the instances for TLC | |

How the modules stand to each other. `Server` and `Viewer` are compositions.
Elsewhere a module takes over what another one establishes: `Upload`'s clients
send in order because of `Capture!SentInOrder`; `CastList`'s server shows the lists
`Listing` can show (a session's labels may be missing, recordings only appear); its
mail and its port are handled once and in order because of
`WebSocketManager!ReceivedInOrder` and `Platform!DisplayGetsAll`; the loops of
`Platform` run in any order, which includes every order of `Scheduler`.

### Capture

A write is the time at which the probe ran, and `Output` is what the kernel does
with it: put it into the ring, count it as lost when the ring is full, or refuse
it on a CPU other than the one the probe asks for. The goroutine's steps are the
places at which it reads the ring or offers something to the client; a send on a
channel without a buffer is one step with the client's `select`. A sample younger
than the harvest is read, and it and what sorts behind it wait for the next
harvest. A broken connection may still take records before a write fails; the
record whose write fails is dropped. `put`, `dropped`, `missed`, `unseen` and
`reported` are the history the properties are about.

### Files

A file is a sequence of cells, and a cell is the run of bytes one write put down
at one place: part *i* of a header with timestamp *s*, part *i* of the event of
write *w* relative to *s*, or one label line. Headers and events have constant
but different numbers of cells, so a write at a stale offset overwrites others
partially, as it does in the real file. `WriteAt(f, off, data)` is write(2).
`HeaderIs(f, s)` is what `json.Unmarshal` of the first line accepts: all cells of
the header, followed by the end of the file or by a cell that begins with a
newline, which only the first part of an event does. A failing write leaves a
proper prefix of its data (`ShortWrites`).

### Upload

`pc[c]` names the system call the handler of connection `c` makes next, so two
handlers interleave at every one: `read`, `statLabels`, `createLabels`,
`writeLabels`, `statCast`, `createCast`, `writeHeader`, `openAppend`,
`readHeader`, `append`. `files[c]` and `timestamps[c]` are the handler's two maps;
a handle is its mode and offset, `rdwr` for line 203 (no `O_APPEND`) and `append`
for line 221. Each call has an action for its success and, where the code tells
them apart, one for its failure: a short write of the labels makes the handler
return (line 185), every other failure is `glog.Fatalf`, which drops every
handler of the process and keeps the files.

The environment does what `cmd/client` and a network can do. A client holds the
newest connection it dialled; it sends writes in order, never one it has gone
past (line 92: a record whose send failed is dropped). The older connection keeps
what it has received and ends at any later time, cleanly (`Close`) or not (`Break`:
inside a record, reset, or timed out). `Kill` is the end of the process from
outside, `Reboot` the restart by the deployment on the same volume.

Three history variables serve the properties: `acked[h]`, the events for which
`asciinema.Append` returned nil, with the offset and the timestamp used;
`contended`, the hashes two handlers had open or were opening at the same time;
`overlapped`, the hosts that had two handlers running at the same time.

### Listing and Server

`listHandler` is `Glob`, one `ListOne` per file, `Send`. Reading a labels file is
one step (it is four short lines, one read(2)); the directory may change between
any two steps. A labels file without a line in it does not enter the cache,
because Go's `append` then never runs (line 103). In `Server` an exit by either
kind of handler takes the other kind with it.

### Viewer and the renderer

A virtual node is a record as in the code; facts are one function from a category
and a name to a value. Because Elm functions are pure, a lazy node carries the node
its call would give. `diffHelp` gives the patches the code pushes, with the same
indexes; `addDomNodes` finds their DOM nodes by counting descendants, and
`applyPatches` changes a heap of DOM nodes and event nodes, in which an operation the
browser would refuse sets `thrown`. `Frames` has `makeStepper`'s three states and the
frames the browser owes, without a page; `Stepper` adds the page a frame draws and a
user who types into inputs.

`CastList` is the program without its page: a list message is the sequence of its
lines, `trim` takes the empty ones at the end (the first line is a name), and
`oddElements` and `evenElements` part the rest. The user's choice is any of the
options' values. `Viewer` puts the page on top: `update` is followed by `stepper` with
the new view, a choice is the value of an option that is on the page, and the port's
callback gets what `Display` takes from it. `toString` puts names between quotes, which
`Value` of an option keeps and `displayCast` turns into those of the attribute.
The page's callback replaces what is inside the container the renderer drew. The
select keeps the DOM option it shows, as browsers do, and shows the first one if
that option goes away.

### Elm runtime

In `Scheduler` an Elm function is a name, `Apply(k, v)` the task it returns; the
actions are the branches of `step` and `work`, and browser events come only
between two macrotasks. The program is given by constants (`Values`, `Callbacks`,
`Tasks`, `Apply`, `InitTasks`, `External`), of which `ProgramAssumption` says only that
they fit together. `Disciplined` says how a program uses the scheduler, and is part of
what `NoLostWakeup` checks of `MCScheduler`'s: it sends to processes that exist and do
not sleep, a process that got messages does not sleep, and it kills another process,
once. The effect managers do so: what sleeps is a process they spawn for it, which has
no router (WebSocket.elm:316-333), and what they kill they had down and forget
(WebSocket.elm:344, Navigation.elm:420). A program that sent to a sleeping process
would have `step` enter its binding a second time; one that killed twice would throw
out of `work()` (below). `Platform` has one step per message of a loop, and one per
callback of a port, so that callbacks can subscribe and unsubscribe in between. The
effects of two bags and the subscriptions in one are constants of it
(`Effects`, `Subscriptions`). `MCPlatform` gives them `EffectBag`'s operators: `EffectsOf` is
the code's `gatherEffects`, `SubscriptionsOf` a plain listing of a bag's leaves.
`EffectsAssumption` says that they have the same subscriptions, each under the functions
mapped over it in the order of their application, and TLC evaluates it for every bag of
the instance.
`WebSocketManager` has one program listening to one URL for as long as it runs, as
kubecast's does; sockets open, deliver, close and throw at any time. `ElmArray` and
`ElmArrayCut` are recursive operators on trees, with `M` entries in a table
(32 in the code) and `E` extra search steps (2). An operation that throws gives
`Crash`, `shuffle` and `append_` a pair of them (`Thrown`); a sum with undefined, NaN in
the code, stays `Undefined` (`Plus`). `append_` is taken apart into `Inner`, the pair it
calls itself with, and `Outer`, the two nodes it makes of what comes back and balances.
In `ArrayUse` a program has an array it works on and one it put aside; the two share
nothing, and an append uses up its arguments. `Faults(a, b)` says, from the pairs
`append` weighs and the shuffles it calls, which of the four faults below an append has.

## Runs

| Run | Instance | Shows |
|---|---|---|
| `capture` | a ring of two records, two CPUs, six writes, three broken connections, with fairness | `Accounted`, `SentInOrder`, `CapturedIsSent` |
| `reconnect` | one host, one session, three writes, two connections, one failing file operation, a kill, with fairness | `TypeOK`, `LabelsBeforeCast`, `AckedIntact`, `HeaderAgrees`, `RecordedInOrder`, `ExitHasCause`, `SentIsRecorded`, `EndedConnIsReleased` |
| `listing` | one host, two sessions, three writes, two connections, one browser, a failing operation, a kill | `ListerFindsLabels`, `CacheIsCurrent`, `ListOnlyGrows` |
| `listing_live` | one session of two writes, two connections, one browser, a failing operation, a kill, with fairness | `RecordingIsListed`, `ImplementsLog` |
| `overwrite` | one host, one session, two connections, no failure | `AckedNeverLost` is violated |
| `headerless` | two hosts, three connections, no failing file operation, no kill | `CastHasHeader` is violated |
| `viewer` | three recordings that appear in any order, one of which may lack labels, with fairness | `OffersPaired`, `Paired`, `PlaysCast`, `ShowsPlaying`, `LabelledIsOffered` |
| `websocket` | five sockets, three messages each way, with fairness | `OneConnection`, `ReceivedInOrder`, `WrittenInOrder`, `KeepsTrying` |
| `platform` | an outgoing and an incoming port and another manager, two updates, two values sent in, one change of callbacks, with fairness | `DisplayGetsAll`, `SentInOrder`, `SubsFollowModel`, `SentIsHandled` |
| `scheduler` | two message loops, a sleeping child, a process that never stops, three browser events, with fairness | `NoLostWakeup`, `MailInOrder`, `KilledStaysDead`, `MailIsHandled` |
| `vdom` | two draws among 29 views with every kind of node and fact around each other; one draw between any two keyed lists of at most three children or of four different ones; with fairness | `PageAgrees`, `OneFrame`, `KeepsNodes`, `DrawsLatest` |
| `array` | tables of three entries, `E` = 0; ten elements and two operations besides building and pushing; nine elements and four; two arrays of up to ten elements (three levels), a slice and an append; two of up to 16 and two appends | `WellFormed`, `IndexAgrees`, `AppendAgrees` |

What the properties say, in the modules' comments in full: `Accounted` that every
terminal write is in exactly one place and the counts of lost ones add up; `Paired`
that the program's labels stand where their recordings do; `OffersPaired` that the page
is the one its views ask for (`PageAgrees`), that options show their own recording's
labels and that no draw touches the player; `PlaysCast` that the port's last value is
the program's cast, and `ShowsPlaying` that, while lists only grow at their end, the
select shows what plays; `OneConnection` that there is always exactly one socket,
attempt or news of an end; `NoLostWakeup` that a process which could run is queued and the queue is being
worked on; `PageAgrees` that after any draw the page is what a fresh render would
give, events included; `KeepsNodes` that a keyed child keeps its DOM node when it
moves; `Holds` (in `IndexAgrees` and `AppendAgrees`) that an array by index, by
traversal and by its history is the same. `WellFormed` and `IndexAgrees` are about arrays
whose appends neither threw nor had one of the four `Faults` (below). `AppendAgrees` says
how far the faults reach: an append that does not throw never loses or repeats an
element; it keeps their order unless both trees have more than one level of nodes, and
does not keep it if that is its only fault; and it is right in every respect if it has none.

The bounds. *Capture*: a ring of two is the smallest in which a count of lost writes
and a sample both fit, and six writes fill it twice; each of three breaks can cost a
record. *Server*: two connections of one host are what every hazard of the upload
path needs: a creator and a late opener, or two creators. Three writes let each of
the two write and one of them write again. Headers with timestamps 9 and 10 have one
and two cells and events one or two, so headers and events of different length
land on each other. `MaxExits` bounds kills only; exits that the code takes by
itself are never cut off. `MaxFaults` bounds failing file operations. In `listing`
the session that is created second sorts first, so the list grows at its front.
*Viewer*: with three recordings one can appear before, between and after the others;
labels are missing for the middle one (`Bare`), which lets it be the last of the list
(`trim` then takes its line) or not. One list and one choice at a time wait in the
mail, and one value for the port. *WebSocket*: five sockets are two failures, a
connection that is lost and two more. *Scheduler*: `MaxSteps` is smaller than a
message's handling takes, so that `work()` is cut off inside it. *Array*: trees of
tables of three entries reach three levels with ten elements, where radix guesses,
forward search and siblings all happen; arrays of up to seven elements are cut.
`MCArray`'s two arrays join with `E` = 0, with which 23 elements are enough for a
rebalancing that fills two slots of a second node; with the code's 32 and 2 that takes
thousands. So the run takes every branch of `append_`, on trees of each height against
each other, and has `shuffle` throw at each of its two places or leave no, one or two
slots in the second node. It needs the faults `swapped`, `copied` and `saved`: without
any of them among `Faults`, TLC finds `AppendAgrees` violated. With `E` = 0
an empty node is always rebalanced away or ends in a throw, so `emptied` does no harm: it
takes `E` = 1 and, in `LongArrays`, lists of 8 and 13 elements and a slice besides, and
then is needed as well. The three properties were checked to hold with these values too;
that instance is not among the runs.

Deadlock is checked in `capture` and `viewer`. Elsewhere the system may stop once the
connections are used up and the writes or messages sent.

Fairness. Every handler is a goroutine that Go keeps scheduling, so each
`Step(c)` and each `ListAction(v)` is weakly fair, and so are the polling goroutine
and the client's loop; that a dial which is repeated for ever succeeds is the
assumption `CapturedIsSent` needs. A container that exited is restarted by its
deployment, so `Reboot` is fair. In the browser a macrotask runs to its end, timers
fire, frames that were asked for are called and processes with mail run. `viewer`
also assumes that the server goes on sending lists, which is `listHandler`'s loop.
Nothing else is assumed of clients, browsers, users or the network.

### What the violations show

* `overwrite`: README.md, line 5, says operators "see exactly what was typed
  during any shell session". The handler that created a cast file writes through
  a handle without `O_APPEND`. If the client reconnects while that handler still
  has a record to write, the new handler opens the file, appends, and the old
  one then writes at its own offset, over the event the new one recorded.
* `headerless`: README.md, line 5, says recordings are in the asciicast format
  "so that they can be played back". A connection that ends in any way but
  `io.EOF` exits the whole server. If another handler has just created its cast
  file and not yet written the header, the file stays without one for good: it
  cannot be played, and the next write of its session exits the server again.

The passing properties say how far that reaches: everything holds for files that
were never contended, and the server stumbles over its own header only after an
earlier exit or over a contended file.

## What the models make visible

Behaviour that the properties are stated around, because it is what the code does.

* `bpf_tty.c:89` passes flags 0, the ring of CPU 0, and ignores the result: the kernel
  refuses the output on another CPU. `Accounted` keeps these writes apart (`unseen`).
* `bpf_tty.c:77` reads 256 bytes whatever was written; longer writes lose their end.
* `main.go:153`: the key has no filesystem identifier and no separators, and its hash 32
  bits, so two terminals can share a recording. `HashOf` is any function, so every
  property of the uploads covers it; `CachesAreCurrent` needs one host per hash.
* `main.go:173`: a kill between the creation of a labels file and its first write,
  while another handler of the session records, leaves that recording without labels
  for good (`RecordingIsListed` excepts it).
* `asciinema.go:46`: times count from the boot of the host, so after a reboot the
  events of a session with the same key can come before its header's time.
* `Update.elm:17` and `View.elm:21`: if the last recording of the list has no labels,
  `trim` takes its empty line, and `List.map2` gives the recording no option; with a
  later recording after it, it has an option without text.
* `Update.elm:18`: options are patched in place, so when a recording appears that sorts
  before the one that plays, the select shows another. `ShowsPlaying` is about lists
  that grow at their end (`grew`).
* `WebSocket.elm:261`: a socket that was refused ends with its close event, as one that
  was open does, so it is tried again at once; the backoff of line 77 is for
  constructors that throw only.
* `WebSocket.elm:202`: a message sent after a socket has closed and before the manager
  knows is dropped, not queued as line 78 says; `WrittenInOrder` is about those that
  were taken. kubecast's page never sends.
* `Array.js:503`: `append` is wrong for many arrays, against `Array.elm:234`, "Append two
  arrays to a new one". kubecast's page only builds arrays and reads their first
  element, so none of it reaches the page. The examples are for the code's 32 and 2.
  * Wrong order (`swapped`): where the edges of the trees meet in nodes above the lowest,
    `:572-573` puts the right half into the left tree and the left half into the right
    one. Two arrays of 1100 elements come out as the first's first 1024, the second's
    first 1024, the first's last 76, the second's last 76.
  * Too short (`copied`): if all tables of the first node are full, `shuffle` goes on
    to copy full tables of the second, with lengths (`:723`) that do not count the first.
    A list of 32 joined with tables of 32, six times 20, and 1 has the length 153 for
    185 elements.
  * Wrong lengths (`saved`): `saveSlot` (`:686`) looks up the length before a slot of the
    second node in the first. Tables of 6 x 20 and 26 x 32 behind a full node, joined with
    3 x 32, 5 and 28 x 32, have the length 2976 for 2973 elements.
  * No length (`emptied`): if a rebalancing leaves nothing for the second node, `:581`
    (or `:572`) makes the empty node a child, where `:590` would drop it. Seven tables
    of 20 behind a full node joined with seven of 20 have the length NaN.
  * A throw: `:546` counts the slots of the arguments, not of the two nodes `append`
    has by then. If one argument is a leaf, `calcToRemove` takes its elements for tables
    and throws (1024 elements and one); else `shuffle` may be asked to remove what was
    removed already and read past both nodes (`:720`, `:735`).
  * Written arguments: two arrays that fit into one table or node are crunched into the
    first argument (`:530`), and the lengths of the second are changed (`:536`); one that
    is joined with itself so has its lengths changed while they are read.

  `ArrayUse` stops after a throw or a fault, goes on with the result alone and joins
  arrays that share nothing.
* `Array.js:454`: slices of arrays with more than one level of nodes leave children of
  different heights, so `ArrayUse` cuts arrays of one level only.
* `Scheduler.js:105`: killing a process that was killed before reads `root.ctor` of null;
  the exception leaves `work()` with `working` set, after which nothing runs any more.
  `MCScheduler`'s program kills a child once.
* `VirtualDom.js:1110`: patches inside a lazy node at the root have no DOM node down
  for the patch itself, so a redraw there is not reported to `makeStepper`; and a lazy
  node between two `map`s (`:316`) leaves its DOM node with one event node for two.
  Likewise a keyed child that is a lazy node, moves and is redrawn into another
  element (`:1260`, `:1301`) is inserted at its new place as the DOM node it was.
  `MCStepper`'s views have none of the three; kubecast's has no lazy node.

## Proofs

| Module | Theorem | States |
|---|---|---|
| `UploadProofs` | `TypeCorrect` | `Spec => []TypeOK` |
| | `LabelsComeFirst` | `Spec => []LabelsBeforeCast` |
| | `CastInvariant` | `Spec => []CastInv` |
| | `AckedStayIntact` | `Spec => []AckedIntact` |
| | `HeaderAgreement` | `Spec => []HeaderAgrees` |
| | `BadHeaderHasCause` | `Spec => []ExitHasCause` |
| | `RecordingOrder` | `Spec => []RecordedInOrder` |
| `ServerProofs` | `ServerTypeCorrect` | `ServerSpec => []ServerTypeOK` |
| | `ListersFindLabels` | `ServerSpec => []ListerFindsLabels` |
| | `ListsOnlyGrow` | `ServerSpec => ListOnlyGrows` |
| | `CachesAreCurrent` | `ServerSpec => []CacheIsCurrent`, if hosts do not share hashes |
| | `ServerKeepsRecordings` | `ServerSpec => [](AckedIntact /\ HeaderAgrees /\ RecordedInOrder)` |
| `RefinementProofs` | `UploadImplementsLog` | `Spec => ImplementsLog`, the whole of `SessionLog!Spec` |
| | `ServerImplementsLog` | `ServerSpec => ImplementsLog` |
| `CaptureProofs` | `WritesStayInOrder` | `Spec => []SentInOrder` |
| | `WritesAreAccounted` | `Spec => []Accounted` |
| `WebSocketProofs` | `AlwaysOneConnection` | `Spec => []OneConnection` |
| | `SendsStayInOrder` | `Spec => []WrittenInOrder` |
| | `ReceivesStayInOrder` | `Spec => []ReceivedInOrder` |
| `SchedulerProofs` | `NoWakeupIsLost` | `Spec /\ []Disciplined => []NoLostWakeup` |
| | `MailStaysInOrder` | `Spec /\ []Disciplined => []MailInOrder` |
| | `KillIsFinal` | `Spec /\ []Disciplined => KilledStaysDead` |
| `PlatformProofs` | `DisplayGetsEverything` | `Spec => []DisplayGetsAll` |
| | `PortFollowsModel` | `Spec => []SubsFollowModel` |
| | `SentArrivesInOrder` | `Spec => []SentInOrder`, if the program listens to the port once (`OneListener`) |
| `ViewerProofs` | `FramesAreOne` | `FramesSpec => []OneFrame` |
| | `ListsStayPaired` | `ListSpec => []Paired` |
| | `DisplayFollowsModel` | `ListSpec => []PlaysCast` |

They hold for any sets of hosts, writes, hashes, connections and browsers, any sizes
of headers, events and of the ring, any program of the scheduler or with ports, any
callbacks, any views, any files and labels, and any bounds. The
assumptions are `CastFileAssumption` (writes, hashes and seconds are natural numbers,
the maps are total, headers and events are not empty), `CaptureAssumption`,
`BoundAssumption`, `SchedulerAssumption`, `ProgramAssumption`, `PlatformAssumption`,
`EffectsAssumption`, `ListAssumption`, and the types of the bounds and of `ConnNode`; TLC
evaluates them in the runs, and `OneListener` in `platform`.

*Recordings.* `AckedIntact` is not inductive: to know that the next append damages
nothing one has to know that it lands at the end of the file, which for a handle
without `O_APPEND` is so only if nobody else has written since. `CastInv` adds

* `Shape`: handles refer to files that exist and offsets are inside them, so that
  a write never leaves a hole, and a file that does not exist has no contents;
* `Exclusive(h)` for every uncontended `h`: at most one handler has the file open
  or is about to open it; the offset of a `rdwr` handle is the length of the file;
  a file about to be created does not exist; one whose header is about to be
  written is empty; a timestamp in the map is the one in the header;
* `Recorded(h)`: every recorded event is whole, the header is the one it is
  relative to, and it ends before the next one begins;
* `Readable(h)`: before the first exit, a file without a header is one that is
  being created.

`StatCast` is the step that starts a holding, and the step at which a file becomes
contended; that is what makes `Exclusive` inductive. The proof goes action by
action (`SessionCreateCast`, `SessionWriteHeader`, `SessionAppendEvent`, ...) with the
lemmas on `CastFile`'s operators on what a write at the end of a file keeps.
`LabelsBeforeCast` needs `LabelsInv`: a handler past its check of the labels file
finds that file there.

*Order of recordings.* `OrderInv` orders a host's writes along their way: recorded
ones before the one its handler works on, that one before the handler's inbox, and
the inbox in itself; and a host that never had two handlers has at most one.

*Server.* A step of the composition is a step of the uploads, an exit by a list
handler, or leaves the directory alone (`ServerStep`), so the invariants above carry
over. `ListInv` adds that the files a lister still has to read are there, `GrowInv`
that what a browser was shown is covered by the message being made and the files left
to read, and `CacheInv` that a labels file, once it has lines, has those every handler
of the session would write.

*Refinement.* A log is the sequence of the writes whose events stand whole in the
file: entry *k* is the write of the start of rank *k*, the one with *k* starts up to and
including it (`Starts`, `Ranked`). Two facts beyond `CastInv` and `OrderInv` are
needed. `RanksInv`: the ranks of the starts of a file are 1 to their number, each
once, so that every entry of the log has a start; adding the last start keeps it.
`OnceInv`: no record is ahead of two handlers, and none that is in a file is ahead of any,
so that an append is of a write the log does not have. `LogStep` then has three cases:
the append of a whole event is `SessionLog`'s append; a step that makes a file contended
is its step to a shared log; every other step, exits and short writes included, stutters.

*Capture.* `PathInv`: each stage of the path (connections, client, goroutine, ring)
is in order, everything in a stage is older than everything in the stage before it,
and all of it is older than the clock. Sorting a sequence that is in order keeps it.
`AccountInv` adds where each write is (`PlaceInv`) and the counts (`CountInv`): there is
a running sum over the ring, `Account`, which starts with what was reported and ends,
with the ring's own counter added, at the number of missed writes. A probe extends that
sum at its end, a read of the ring shifts it; so nothing has to be computed by recursion.

*WebSocket.* `ConnInv` relates what the manager has down to what there is (`Down`): it
is `Opening` while an attempt waits or a failed one is in the mail; a socket announced
in the mail is open or its end follows (`Announced`); and there is one of the three
(`Single`). `SendInv`: what was written is older than what is queued, which is older
than what is in the mail; the queue is newest first and empty while connected.
`ReceiveInv`: messages are numbered as they arrive, and those in the mail are in place of
the ones from `Len(received) + 1` on, each once and in order; a step of the manager
takes the first, any other event in the mail leaves them.

*Scheduler.* `SchedInv` is `TypeOK`, `LoopInv` (`working` says whether `work()` runs or is
called for, and it is one of the two when there is something in the queue) and, for each
process, `ProcInv`: one that `step` could advance is queued or being stepped (`Wakes`);
one that never got a message is in one place, once in the queue or being stepped or
asleep (`InOnePlace`), which is why a sleep is not entered twice; it has a timer exactly
while it is asleep (`Timed`); one that is not spawned is nowhere (`Fresh`); its messages
are those handled and those in its mailbox; and a killed one has no root. `InOnePlace`
cannot be had for processes that get messages: each send enqueues its receiver again,
and `_Task_receive` of a process with an empty mailbox is what makes the copies
harmless. That is where `Disciplined` is needed. TLC checks it with the invariant.

*Platform.* `DisplayInv` follows a command from `dispatchEffects` to the page's callback.
`Agree` says that the dispatches but the last, which are in the port's mail, have led to
lists of calls, the newest of them short of what the loop has left. What is left depends on
whether the loop is past `Display` in the array it goes through, and callbacks change the
port's array while they are called; `CallInv` therefore has that `Display` is once in both
arrays (`Listens`), and that they are the same array until an unsubscription makes a copy.
A subscription then only adds behind the loop, and an unsubscription leaves it the array it
has. `FollowInv`: the last effects in the incoming port's mail, or those it holds when
there are none, are the current model's; every step that changes the model sends new ones.
`SentInv` counts: values are numbered as they are sent; those handled, those in the main
process's mail (`InOrder`) and those kept back before the start are three consecutive
stretches of the numbers. The port starts to post with the effects that release what was
kept back, which is why nothing overtakes it. A program that listened twice would get
every value twice, and one that did not listen none, hence `OneListener`.

*Viewer.* `OneFrame` is inductive: what is not drawn is pending, and there is a callback
in every state but `NO_REQUEST`. `ListInv` adds to `Paired` and `PlaysCast` that every
list message on its way has two lines for each file of an ascending list (`IsList`).
`trimSplit` leaves some of its first lines (`Trimmed`; that there is a last line that is not
empty is by well-foundedness), the halves of which are names and labels of the same files
up to the last (`PrefixPaired`), one label short where `trim` took it. For `PlaysCast` every
result of `update` either leaves cast and port alone or ends the port's values with its
cast (`Sends`). The theorems are about the program, whatever the user may choose; `Viewer`
restricts the choice to the options on the page.

Only model-checked: everything about liveness and fairness, which is out of the
prover's reach (`SentIsRecorded`, `EndedConnIsReleased`, `RecordingIsListed`,
`CapturedIsSent`, `KeepsTrying`, `SentIsHandled`, `MailIsHandled`, `DrawsLatest`,
`LabelledIsOffered`); what `gatherEffects` computes, for the bags of `MCPlatform`; and
what has to do with the page or the arrays (`PageAgrees`, `KeepsNodes`, `OffersPaired`,
`ShowsPlaying`, `WellFormed`, `IndexAgrees`, `AppendAgrees`), whose operators are
recursive over trees: that a patched page is a fresh one, or that a cut and joined array
has the elements it should, is an induction over data.

## Not modelled

* The number of open descriptors. `OpenFails` lets any open fail.
* The text and the relative time inside an event; the text the probe copies and the
  pointers it follows to inode and namespace; the text of labels.
* Reads that tear: a header or labels file is read in one step.
* Files in `dataPath` that the server did not make; `listHandler` would exit over a
  name that is not a number (line 89).
* `main` of the server and `/healthz`, which keep no state; the set-up of the BPF
  module, which succeeds or ends the client; `PollStop`, which nobody calls; `refresh`
  of `cmd/client`, whose calls are commented out.
* Of the Elm runtime: the checks of flags and port names at start-up, which fail
  before anything runs; the debugger, which is not in kubecast's build; the closing of
  websockets, which a program with a constant subscription never reaches; JSON, strings,
  HTTP and the other pure conversions; navigation beyond the message that a changed
  address sends.
* The asciinema player and `ui/dist`, minified third-party code and the compiler's
  output: in `Viewer` a player is an element of the page with a source. Build files and
  the deployment, but for the restart over the same volume.
