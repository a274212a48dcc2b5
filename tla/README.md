# A specification of fanboard

fanboard is the firmware of a HomeKit ceiling-fan controller: a CC32xx
microcontroller with Wi-Fi runs FreeRTOS, the HomeKit ADK (not in this
repository) on a platform layer that is (`src/port/HomeKitADK/PAL/CC32xxSF`), and
an application (`src/app`) that talks to the fan's own controller over a serial
line and replaces its firmware over HTTP.

This directory holds TLA+ modules translated from that code, configurations with
which TLC checks them on small instances, theorems that TLAPS checks for every
value of the constants, and `PROJECT.json`, which relates each definition to the
lines it stands for, each property to a bug that would break it, and each hazard
of the code to the properties aimed at it.

PAL stands for `src/port/HomeKitADK/PAL/CC32xxSF` below.

## 1. Inventory

### Tasks and how they interact

Four kinds of threads share the device:

- the **main task** (`src/app/Main.c`) brings everything up and then stays in the
  run loop; the ADK, the accessory and the platform layer run in its callbacks;
- the **UART task** (`src/app/UART.c`) and its **interrupt handler** `ReadCallback`;
- the **HTTP task** (`src/app/HTTPServer.c`, `src/app/OTA.c`), which serves one
  request of the network processor at a time;
- the network processor's own callbacks (`src/app/NWPEvent.c`).

They meet in: datagrams to the run loop's loopback socket
(`HAPPlatformRunLoopScheduleCallback`, `RequestStop`), FreeRTOS queues (UART
messages, HTTP requests), task notifications (handler to UART task, network to
main task, main task to HTTP task), the syslog mutex, `vTaskSuspend`, and the
variables of the clock, which nothing guards.

### Components

| Component | State | Operations | What is hard | What makes it correct |
|---|---|---|---|---|
| Run loop (`PAL/HAPPlatformRunLoop.c`, `HAPPlatformFileHandle.h`) | ring of file handles, cursor, sorted timers, loopback buffer, state | register / update / deregister handles, register / deregister timers, schedule callback, request stop, run | callbacks change ring and timers while they are walked; datagrams lost; unsigned time | ring and cursor sound; each reported event handed over once or dropped for a reason; timers in order and when due; callbacks taken whole; a stop ends the run |
| Clock (`PAL/HAPPlatformClock.c`) | previousNow | get current | read by all tasks, unguarded; a jump backwards is fatal | a jump is found only where a task was overtaken between its read and its comparison |
| TCP streams (`PAL/HAPPlatformTCPStreamManager.c`) | listener, table of streams, their sockets and handles | open / close listener, accept, close, update interests, read, write | callbacks close the streams they are called for; table full; sockets that may block | table, handles and sockets match; the listener waits while there is room, and stops when the table fills; the main task does not wait in a call of a socket it was told about |
| UART link (`src/app/UART.c`) | two queues, read in progress, byte count, buffer, notification, init flags | send, read, wait, time out and resend, process; the interrupt handler | handler between any two steps; late answers; damaged bytes | one chain of initialization messages; messages whole; receiver finds its way back |
| Firmware update (`src/app/OTA.c`, `PAL/HAPPlatformOTA.c`, part of `Main.c`) | parser and part, receive file, offset, boot info, image state, who is suspended | receive, the parser's callbacks, create, write block, close, abort, reset, commit | power cuts; short writes; parts that arrive in pieces; stopping the other tasks; images that do not work | runs alone; a part taken for what its headers declare; blocks where they belong; always a working image to go back to |
| Log and syslog (`PAL/HAPPlatformLog.c`, `PAL/HAPPlatformSyslog.c`, `PAL/HAPPlatformAbort.c`) | RTT's buffer, syslog's buffer, mutex and socket | capture of an entry, fatal error; initialize, capture, suspend, resume | entries of several tasks at once; the mutex held by a task that is suspended, or not there yet | what is printed is sent in order and at most once, and lost only where RTT has no room or a send fails; nobody waits for the mutex for ever |
| Key-value store (`PAL/HAPPlatformKeyValueStore.c`) | files | get, set, remove, enumerate, purge | power cuts, failed calls, deletion during enumeration | a map with atomic updates |
| HTTP server (`src/app/HTTPServer.c`) | queue of requests | enqueue, serve | queue full | every request's buffers freed once |
| Accessory (`src/app/App.c`) | fan and light state | reads, writes, state reports | accessory's and fan's state diverge | what HomeKit sees is what the fan does |
| Service discovery (`PAL/HAPPlatformServiceDiscovery.c`) | one registered service and its name | register, update TXT, stop | renaming after a conflict | later calls name the service that exists |
| Network events (`src/app/NWPEvent.c`) | connection flags, main task's notification | event handlers | notifications overwrite each other | the main task comes up |
| Tokens, setup, hardware authentication, attribute database, board | constants or values of the store | - | - | - |

The hazards of this code, each at the line where it bites, are in `PROJECT.json`
under `hazards`.

## 2. Modules

    FileHandles  <--implements--  RunLoop <--- RunLoopProofs <--- RunLoopPromiseProofs
         |                           ^
         | INSTANCE                  | EXTENDS
    TCPStreamManager             MCRunLoop
         ^---------- TCPStreamProofs

    OTAFile <--EXTENDS-- FirmwareUpdate        <--- FirmwareUpdateProofs
    KeyValueMap <--implements-- KeyValueStore  <--- KeyValueStoreProofs
    UARTLink                                   <--- UARTLinkProofs
    Startup                                    <--- StartupProofs
    Logging                                    <--- LoggingProofs

- **FileHandles** - what `HAPPlatformFileHandle.h` promises the users of file
  handles: a registration is live from `Register` to `Deregister`; a select
  reports events of live registrations; each is handed over once, to the
  registration it was asked for while it is live and interested, while no other
  callback runs, or is dropped for want of interest or of a callback. `running` tells
  a hand-over from a drop.
- **RunLoop** - `HAPPlatformRunLoop.c`: one action for each call of its interface
  and one for each step of `HAPPlatformRunLoopRun`. `pc` tells where the main task
  is; in a location that ends in `Callback` the interface may be called, so that a
  callback is any sequence of calls. The ring is modelled as it is in memory, by
  `next` and `prev` of nodes, because what can go wrong is in the links.
- **TCPStreamManager** - `HAPPlatformTCPStreamManager.c`, built on `FileHandles`
  rather than on `RunLoop`: it needs what the run loop promises, and `RunLoop` is
  shown to keep it. Sockets block unless they were told not to: `told` says of what a
  callback was told, `blocked` that the main task waits inside a call, and `mishaps`
  which of two things the code does not reckon with have happened (a connection that is
  withdrawn between select and accept, an option that cannot be set). `openedFull` is a
  history variable: the listener was opened when the table was full, and no stream has
  closed since.
- **UARTLink** - the UART task, its interrupt handler, the line and the fan's
  controller. The task's loop is split where the handler can run between two
  assignments both touch (`pc`: send, read, clear, start, wait, cancel, status, process; the
  three statements of `UART.c:361-363` are three actions).
- **OTAFile** - the receive file: `HAPPlatformOTACreate`, `WriteBlock`, `Close`,
  `Abort`, the part of `OTAPutCallback` that calls them, and the callbacks of the
  multipart parser. A header's name and value each come whole or cut in two, at
  any place; a part's header callbacks are one step, since no other task runs
  meanwhile. That step is put together of one operator for each callback, applied
  to one piece after the other.
- **FirmwareUpdate** - extends it to the whole update: main task, UART task, syslog
  mutex, HTTP task, reset, power cuts, the watchdog timer, the commit of the image.
- **KeyValueMap** - the promise of the key-value store: a map. `Get` returns as much of a
  value as fits, and a `Set` may report success and change nothing, but only in a step in
  which the file system fails.
- **KeyValueStore** - `HAPPlatformKeyValueStore.c`, call by call over the file
  system; an enumeration reads the list of files in chunks while its callback
  deletes them. A chunk is a set of slots, gone through in ascending order.
- **Startup** - `Main.c` until the run loop runs, `NWPEvent.c` and `HTTPServer.c`: the
  main task, the host driver task that calls the handlers of the network processor's
  events, and the HTTP task with its queue. `Runs(task)` is FreeRTOS's rule: only a
  ready task of the highest priority steps. What the HTTP task does with an image once
  the main task has let it is in `FirmwareUpdate`.
- **Logging** - `HAPPlatformClock.c`, `HAPPlatformLog.c` and `HAPPlatformSyslog.c`: the main,
  UART and HTTP tasks make entries, step by step, under FreeRTOS's preemptive scheduling
  (with the mutex's priority inheritance), while the main task initializes syslog, leaves
  the run loop and suspends tasks for an update.
- **MCRunLoop, MCTCPStreamManager, MCKeyValueStore** - definitions for TLC.

### What is abstracted, and how

- *Bytes.* A loopback datagram is one token for its header and one for each byte
  of context; a header is never cut (receive sizes are those of whole datagrams
  and the buffer is empty between them, which `LoopbackFraming` checks), but a
  context is cut where the buffer is full. A UART message is its real
  number of bytes, of which only the segment they belong to is kept. The bytes of
  an image are their indices; a stored value is its length, and what is read of it is cut to
  the length of the buffer.
- *Memory.* `Handles` and `TimerIds` are the addresses the heap may return; a freed
  address may be returned again, at once. `Null` in `next` means that the address
  is not allocated.
- *The log.* Prints are numbered; RTT's buffer has room for `BufferSize` of them and skips
  what does not fit, since it is external code. The host driver task logs too and is left
  out, as are reads of the clock that are not for an entry. The counter itself is right:
  the vote of three reads in `HAPPlatformClock.c` is left out, and the overflow it checks
  for, after 2^63 ms, cannot happen to a counter of 48 bits.
- *An upload.* A client's headers fit the buffers of the network processor, and each part
  has a `Content-Disposition`. What the header buffers hold of earlier parts is left
  out: no name the code compares with begins another.
- *The ADK* answers each event of a stream with one call of accept, read or write.
- *Failures of the operating system* are choices: select interrupted or failed, no
  socket, no room in the heap, accept failed, each call of the file system failed (the one that
  closes a file included), a write cut short, a datagram lost, a send to syslog failed.
- *External code* - the file system, the boot loader's watchdog, the fan - is
  modelled from how `src/` uses it and marked external in `PROJECT.json`. A file
  opened fail-safe keeps its old content until it is closed; power lost while it is
  open brings the old content back, or leaves a new file broken. A close that fails leaves the
  file open, or does what a power cut does.
- *Fatal errors* end in a location from which the main task does not return.

## 3. Runs

| Run | Distinct states | Shows |
|---|---|---|
| `RunLoopFiles` | 443,421 | ring and cursor stay sound while callbacks change handles during a pass; `RunLoop` implements `FileHandles` |
| `RunLoopTimers` | 144,036 | timers in order, when due, none forgotten; loopback callbacks framed; a stop that arrives ends the run |
| `TCPStreams` | 231,649 | table, sockets and handles match; the listener waits while there is room; callbacks find their stream; the main task waits in a socket's call only after a mishap |
| `UARTLink` | 813,486 | one initialization chain, messages whole, queue bound, initialization completes, receiver recovers |
| `UARTBadCRC` | violation | finding 1 |
| `FirmwareUpdate` | 638,665 | an update runs alone, takes parts for what they are declared, stores blocks in place, ends, and leaves a way back |
| `FirmwareUpdateSyslog` | violation | finding 2 |
| `FirmwareUpdateCount` | violation | finding 3 |
| `KeyValueStore` | 534,731 | the store implements `KeyValueMap`; a purge ends; no more files left open than calls failed |
| `KeyValueStoreGet` | violation | finding 4 |
| `Startup` | 76,084 | the main task comes up, sockets come after the network modules, requests find their queue and are freed once |
| `Logging` | 64,162 | time jumps backwards only for a task that was overtaken; prints are sent in order and at most once, and lost only where RTT has no room or a send fails; no entry waits for the mutex for ever |

Each takes less than about three minutes with two workers.

### Bounds and why they are enough

- **RunLoopFiles**: three handles, one of them the loopback's, two descriptors, one
  kind of event, a loopback buffer without contexts. Two user handles are the
  smallest number at which a callback can remove the handle under the cursor and
  another one, before it or after it, and register a new one at the same address;
  every pass begins from any ring reached that way. Handles, descriptors and timers
  are only compared, so symmetry is sound for the invariants and the refinement,
  which is a safety property. `KeepsFileHandlePromises` is `Promised!Spec`: the
  ring maps to the set of live handles, the marks `isAwaitingEvents` and `fdset`
  together to the events not yet handed over, and `pc` to whether a callback runs.
- **RunLoopTimers**: three timers, deadlines 0 to 2, contexts of up to one byte, one
  datagram in the socket; no symmetry, because of liveness.
  `ExpiredReregistration` is `FALSE`: a timer callback does not register timers that
  are already due. Without that bound `ProcessExpiredTimers` need not return; the
  hazard is listed and no property covers it. The safety properties are proved for
  both values.
- **TCPStreams**: a table of two streams and the listener, with as many handles and
  descriptors, so that the table fills, also before the listener is opened again, and both
  are reused. Each kind of mishap happens at most once.
- **UARTLink**: an initialization of two messages out of nine (a step from one to the
  next is the same for all), queues of three, one request lost, one segment damaged,
  one race of timeout and answer, one button press or command, stray sizes on both
  sides of the limit. The code's queues hold ten. Within these bounds a queue never
  holds more than three, so that three behave as ten do, and no message is dropped for
  want of room; what happens when other tasks fill the queue is a hazard no property
  covers.
- **FirmwareUpdate**: three images, one of which does not come up, three bytes in
  chunks of at most two, one retry of a write, two failures, two uploads, one power
  cut, with and without remote logging; a signature of two pieces; three parts (image,
  signature, another), each at most once, with headers whole or cut in two.
- **KeyValueStore**: two domains, one with two keys; three slots, listed two at a
  time; two failures, so that a call can fail after a close that failed; one power cut.
- **Startup**: three requests and a queue of one (the code's holds ten): one waits for the
  main task, one fills the queue, one is turned away. Four changes of the network's state:
  connected, address, lost and connected again. Two events that wait for the host driver
  task, besides the one of its start.
- **Logging**: all three tasks, three entries in all, two milliseconds (0 and 1), which
  are enough for each task to be overtaken by each that can, for two tasks to wait for a
  third, and for an entry of each phase. RTT's buffer has room for three prints, so that
  it holds those of two entries and skips others.

`CHECK_DEADLOCK FALSE` stands where the program may really stop: the run loop after a
fatal error, the TCP streams after `HAPPlatformTCPStreamManagerRelease`, the device
with its main and UART tasks suspended when the HTTP task is left without an update, and
in `Startup` a device that nothing happens to any more, or with a fatal error, and in
`Logging` one that has halted, has a fatal error or no entries left.
The runs of `UARTLink` and `KeyValueStore` check for deadlock.

### Fairness

- **RunLoop**: weak fairness of the loop's steps. The main task has nothing to block
  it but select, which returns when a descriptor is ready or the timeout elapses;
  callbacks return. Other tasks, time and interruptions need not happen.
- **UARTLink**: the task and the handler run (priorities do not starve them: the
  handler is an interrupt, the task blocks only in its wait), 10 s pass, bytes
  arrive, and the fan deals with each request, by answering or by losing it; how
  many it loses is bounded.
- **FirmwareUpdate**: main, HTTP and UART tasks run unless they wait or are suspended,
  and a watchdog timer that runs expires. Nothing is assumed of power cuts, clients
  or remote logging.
- **KeyValueStore**: a call that was begun goes on.
- **Startup**: a task that may run does, and ticks come. For the host driver task this is
  strong fairness: while the main task polls, the host driver task may run only while the
  main task sleeps, for a tick at a time, which is long enough for some of these times.
  Nothing is assumed of the network and of clients.
- **Logging**: each task that may run does, the 20 ms of the mutex's timeout pass, and the
  network processor takes what it is given, or the send fails. Tasks need not make entries.

### Properties that hold under a condition

- `OneInitChain` and `MessagesAreWhole` hold while no timeout raced an answer and
  nothing was damaged. With a race, a request is sent twice and answered twice, so
  that the chain doubles; and the read left over from before the timeout can finish
  between the reset of `rxTotalBytes` and the new `UART_read` (`UART.c:361-363`),
  which leaves the count wrong for the message that follows. `ReceiverRecovers` says
  that the receiver gets over it and has no such condition.
- `InitCompletes` needs every request answered or no button pressed: an unsolicited
  message that comes after a lost request is taken for its answer, and the request
  is not sent again.
- `UpdateEnds` is about an update whose request to stop reached the run loop, in a
  build without remote logging. `RequestStop` before the run loop's socket exists is
  lost, and with remote logging see finding 2.
- `FilesClosed` counts: a file that cannot be read, written or closed stays open in the
  code, so that no more files are open than calls of the file system have failed, but for
  the one that is being written. Calls for such a file fail, which `KeyValueMap` allows.
- `KeepsStorePromises` says of a `Set` that reports success that its value is stored, but
  for a step in which the file system fails: the failure of the close is ignored, which
  section 5 describes.
- `ListenerWaitsWhileThereIsRoom` has an exception for a listener that was opened when the
  table was full (`openedFull`): `HAPPlatformTCPStreamManagerOpenListener`
  (`HAPPlatformTCPStreamManager.c:184-303`) does not look at the table, and the listener waits
  for connections nobody can accept until a stream closes.
- `SentInOrder` has two: what RTT's buffer has no room for, and what a send that fails
  should have sent, since `HAPPlatformSyslog.c:82` has emptied RTT's buffer and line 83 ignores
  the result.
- `TimersFirstComeFirstServed` is about requested deadlines greater than 0.
  Those with a deadline of 0 fire in the reverse order: see section 5.
- `MainTaskBlocksOnlyByMishap` names what must have gone wrong before the main task waits
  inside a call: the client of an accept has gone since select, or a socket could not be
  made non-blocking, which is
  only logged (`HAPPlatformTCPStreamManager.c:86`).
- `EntriesEnd` is about executions in which the device is not halted and no task has a
  fatal error. Both happen in the model: a task may be overtaken (`FaultMeansOvertaken`),
  and an entry made between opening syslog's socket and creating its mutex, or after the
  mutex could not be created, takes a semaphore that is `NULL`.
- `MainStarts` needs a network that does not stay down and no fatal error. A notification
  that replaces another does no harm: the host driver task, which sends both, has a lower
  priority than the main task, which therefore takes the first before the second is sent,
  and a network that comes back sends another. `QueueIsThere` rests on the priority of the
  HTTP task. The comment at `Main.c:45` says that the host driver task "must have the
  highest priority in the system", and line 46 gives it the lowest. The properties of
  `Startup` do not tell the two apart: TLC finds all of them true with the highest as well.
- `BuffersMatchRequests` says of requests that were turned away that their memory is kept:
  `HTTPRequestHandler` (`HTTPServer.c:131-145`) frees nothing when no endpoint matches or
  the queue is full. No document promises otherwise, so that this is not among the
  findings. A PUT without `Content-Type` is freed and never answered (`OTA.c:163-164`).

## 4. What is proved

Every safety invariant and every action property that a passing run checks, and both
refinements, are theorems: TLAPS proves them for every value of the constants that the
named assumptions allow, which TLC evaluates on every run.

| Module | Assumptions | Theorem | States |
|---|---|---|---|
| `RunLoopProofs` | `NodesAssumption`, `BoundsAssumption`: distinct nodes and descriptors; natural bounds | `TypeCorrect` | `Spec => []TypeOK` |
| | | `RingAlwaysWhole` | `Spec => []RingWhole` |
| | | `TimersAlwaysSorted` | `Spec => []TimersSorted` |
| | | `TimersAlwaysFirstComeFirstServed` | `Spec => []TimersFirstComeFirstServed` |
| | | `EarliestAlwaysFires` | `Spec => EarliestFiresWhenDue` |
| | | `LoopbackAlwaysFramed` | `Spec => []LoopbackFraming` |
| `RunLoopPromiseProofs` | the same | `FileHandlePromisesKept` | `Spec => KeepsFileHandlePromises` (a refinement) |
| `TCPStreamProofs` | `StreamsAssumption`: a table of at least one; values that stand for none are none of the others | `TypeCorrect` | `Spec => []TypeOK` |
| | | `TableMatchesRegistrations` | `Spec => []StreamsMatchRegistrations` |
| | | `ListenerFollowsTheTable` | `Spec => []ListenerWaitsWhileThereIsRoom` |
| | | `BlockedOnlyByMishap` | `Spec => []MainTaskBlocksOnlyByMishap` |
| | | `CallbacksFindTheirs` | `Spec => CallbacksFindTheirStream` |
| `UARTLinkProofs` | `UARTAssumption`: up to nine stages, a queue of at least one | `TypeCorrect` | `Spec => []TypeOK` |
| | | `ReceivedAlwaysFit` | `Spec => []ReceivedMessagesFit` |
| | | `OnlyWholeMessages` | `Spec => []MessagesAreWhole` |
| | | `AlwaysOneInitChain` | `Spec => []OneInitChain` |
| `FirmwareUpdateProofs` | `OTAFileAssumption`, `FirmwareUpdateAssumption`: the first image works; images and chunks of at least one byte; natural bounds | `TypeCorrect` | `Spec => []TypeOK` |
| | | `NothingElseRuns` | `Spec => []UpdatesAlone` |
| | | `CommittedWorks` | `Spec => []CommittedImageWorks` |
| | | `WatchdogAlwaysGuards` | `Spec => []WatchdogGuards` |
| | | `BlocksStored` | `Spec => []BlockStored` |
| | | `PartsTaken` | `Spec => []PartTakenAsDeclared` |
| `KeyValueStoreProofs` | `KeyValueStoreAssumption`: names are pairs of numbers; chunks and values of at least one; natural bounds | `TypeCorrect` | `Spec => []TypeOK` |
| | | `FilesAlwaysClosed` | `Spec => []FilesClosed` |
| | | `StoreKeepsPromises` | `Spec => KeepsStorePromises` (a refinement) |
| `StartupProofs` | `StartupAssumption`: a queue of at least one; natural bounds | `TypeCorrect` | `Spec => []TypeOK` |
| | | `PostedToAQueue` | `Spec => QueueIsThere` |
| | | `SocketsCannotComeEarly` | `Spec => SocketsAfterInitialization` |
| | | `BuffersAlwaysMatch` | `Spec => []BuffersMatchRequests` |
| `LoggingProofs` | `LoggingAssumption`: a buffer of natural size; natural bounds | `TypeCorrect` | `Spec => []TypeOK` |
| | | `FaultAlwaysMeansOvertaken` | `Spec => []FaultMeansOvertaken` |
| | | `AlwaysSentInOrder` | `Spec => []SentInOrder` |

Two of them meet: `FileHandlePromisesKept` shows that the run loop keeps `FileHandles`,
and the theorems of `TCPStreamProofs` use nothing of the run loop but `FileHandles`.

### The arguments

**Run loop.**

- *Types* are proved in groups, since no group needs another's but the ring's:
  `HandlesTyped`, `ControlTyped`, `RingTyped`, `TimersTyped`, and the buffer's part.
- *The ring.* `RingWhole` is not inductive: `RunLoopCreate` and `RunLoopRelease` link
  and unlink the loopback handle, and unlinking is sound only for a live one.
  `RingInv` adds `RingTyped` and `LoopbackLive` (the loopback handle is live exactly
  while the socket exists). Two lemmas carry it: linking before the sentinel and
  unlinking any live handle keep the ring one cycle and the cursor on it. That there
  is no second cycle is said by sets: every non-empty set of live handles has a
  member whose successor is outside; a set that would violate it after a step gives,
  with the handle of the step taken out or put in, one that violated it before.
- *Timers.* `TimerInv` adds to sortedness that a stored deadline is the requested one
  or 1 for a request of 0 (`DeadlinesKept`), that `registeredBefore` relates the
  timers of the list, and `now <= clock`. Lemmas say what inserting at the insertion
  point and removing do to a sorted list. Why
  `TimersFirstComeFirstServed` asks for `requested > 0` is told in section 3.
- `EarliestFiresWhenDue` follows from `TimerInv`: only `FireExpiredTimer` sets
  `expiredTimer`, it takes the head, the list is sorted, and `now <= clock`.
- *Framing.* `FramingInv` says that every datagram is a header and exactly its context
  and that the buffer holds, by location, nothing, one such datagram, or the context
  of the callback being invoked.
- *The promise.* The mapping takes an event as reported and not yet handed over when the
  handle's mark and the set of descriptors say so. `PromiseInv` says what that rests on: a
  handle off the ring holds nothing; descriptors are distinct and the loopback's is the
  loopback handle's; nothing is marked before a select returned; and (`PassInv`) the
  handles between the sentinel and the cursor wait for nothing any more, as a set that
  `prev` leads out of only at the sentinel. So when the cursor is back at the
  sentinel, all live handles have been passed, and the next select finds none left over.
  A lemma shows that linking and unlinking during a callback keep such a set. Each action
  is then one step of `FileHandles`, or none.

**TCP streams.** `TableInv` adds to the three invariants of the table that descriptors of
live handles are distinct and that a handle is registered with its stream's own interests
and a callback. `SocketsInv` follows a connection from readable descriptor to report to
`told`: what a callback was told of is there unless a withdrawal is among the mishaps,
and no socket but the listener's blocks unless an option failed. `OpenedWhileFull` says that
the table is full as long as the listener counts as opened so: a stream is accepted only
with room, so that one that takes the last place finds the listener waiting because of that
room, and one that closes makes it wait in any case.
`CallbacksFindTheirStream` is an action property that follows from `TableInv`.

**UART link.**

- `Turn` counts who may still add to the queue of received messages before the task empties
  it: a read in progress can add one, and so can the read that this turn has yet to begin.
  With both to come the queue is empty, with one of them it holds at most one.
- *Whole messages* rests on `CalmInv`, which holds while nothing was damaged and no
  timeout raced an answer. `ReaderInv` says where task and handler are with each other,
  `ReadInv` that count and buffer fit the read in progress, and `StreamInv` that what is in
  the ring and on the line are whole segments, each followed by the one that comes after
  it (`Chained`, `Line`), and that the read in progress is for the segment that comes
  first (`Reads`). Bytes join at the end of the ring (`SegmentArrives`), segments at the
  end of the line (`MessageSent`), and a read takes a whole segment (`SegmentRead`).
- *One chain.* `ChainInv` says that there is a place and an index, `OnlyAt(p, k)`, such
  that nowhere else there is an initialization message: queued, with the fan, on the line,
  in the ring, in the handler's buffer, or received. Each step moves it or loses it.
  What could add one is the task that sends its message again. `SentAlone` says that
  while it may, none waits to be sent, and when it does there is none at all: a timeout that
  races nothing finds the line silent, and then the ring is empty and nothing is being
  received (`NothingAtTimeout`), which takes `CalmInv`. `Moved` says
  once what it means to go from the front of one place to the end of another.

**Firmware update.**

- `TransferInv` places the block: its bytes lie within what was received, and the file's
  offset is where the block's next byte belongs, however its writes were cut.
- `ParserInv` says that between two calls no header name is half received, and that the part
  is taken for what its headers say. Headers come cut in two at any place: `InTwo` and the
  lemmas on pieces show that the buffers put them together.
- `UpdateInOrder` is the hand-over: the main task suspends the UART task, then
  notifies and suspends itself; the file is open only after that.
- `ImagesKept` says why there is a way back: what is committed works; an image is pending or
  a file received only with a boot info file, unless the image is the one that came up;
  hence who runs without having come up runs under the watchdog timer. All of it
  holds again at every power cut.

**Key-value store.** `StoreInv` says that no two files have the same name (`FilesInv`);
that a file is open because it is being written, and that else no more are open than calls
have failed (`FilesClosed`): each step opens at most one, and only if it writes it or
fails; that `Set` has its file open until it is done (`SetInv`); and that the files of the
domain that is purged and still there lie beyond the chunk being gone through, or in it
(`PurgeInv`), which is why deleting files while they are listed forgets none. The abstract
map gives a name the value of its file; a file that is open for writing still has its old
one, or none, and keeps it when it cannot be closed.

**Start-up.** `QueueInv` ties the HTTP task's place to its queue; with the priorities,
`QueueIsThere` follows. `SequenceInv` adds that an address comes before the requests it
lets in among the events that wait (`AddressFirst`), and that whoever may go on to open a
socket knows of an address whose handler has run (`ToldOfAddress`). `BuffersMatchRequests`
needs `OnePlace`: no request is in two places.

**Logging.**

- *The mutex.* `MutexInv` says who holds it: who reads the buffer or sends, and else only
  the HTTP task, from `TakeSyslog` to the end of an update. It makes `SentInOrder`
  inductive, since no two tasks send at once: each step appends a new number to what is kept,
  moves it on, or takes out of it what is lost. And it shows that a task that reads the
  clock inherits no priority, unless it is the HTTP task, which has the highest.
- *The clock.* Hence (`RunningTaskIsHighest`) a task that stores its time has a higher
  priority than all that are ready, those among them that have read the clock and not
  compared. `ClockInv` adds to `FaultMeansOvertaken` that no such task is suspended, and
  that all times are of the past.

### Only model-checked

- Liveness: `StopEndsTheRun`, `DueTimersFire`, `InitCompletes`, `ReceiverRecovers`,
  `UpdateEnds`, `PurgeEnds`, `MainStarts`, `EntriesEnd`. The prover treats neither fairness nor
  `ENABLED` here.
- The four properties of the findings, which are false.

Induction over data and `RECURSIVE` operators are out of the prover's reach; no module
uses the latter. In particular a string of a header is cut into two pieces and not into
any number, in the model as in the proof.

## 5. Findings

1. **A bad CRC is not rejected** (`src/app/UART.c:281`). The handler posts the message and
   overwrites its own notification; the task's case for it is never reached. Run
   `UARTBadCRC`.
2. **The update can hang** (`src/app/Main.c:355`). In a build with `HAP_LOG_REMOTE` the UART
   task can be suspended inside `HAPPlatformSyslogCapture`; the HTTP task then waits for
   the mutex for ever. Run `FirmwareUpdateSyslog`.
3. **`HAPPlatformOTAWriteBlock` returns its last write only**
   (`PAL/HAPPlatformOTA.c:321`), against `HAPPlatformOTA+Init.h:117`; after a write that was
   cut short the file's offset is wrong. Run `FirmwareUpdateCount`. The signature keeps
   such a file from being used.
4. **`HAPPlatformKeyValueStoreGet` reports the buffer's capacity**
   (`PAL/HAPPlatformKeyValueStore.c:127`), against its comment at line 75. Run
   `KeyValueStoreGet`. `HAPPlatformMFiTokenAuthLoad` takes that for a token that does not
   fit, and loads none. Also, line 93 allows `numBytes` to be `NULL` and line 127 writes
   through it; `HAPPlatformMFiTokenAuthIsProvisioned` passes `NULL`.
Two more divergences have no run. The models do what the code does, and the properties
that are true leave room for them:

- **`HAPPlatformKeyValueStoreSet` reports success for a value it did not store**
  (`PAL/HAPPlatformKeyValueStore.c:179`), against its comment at lines 141-142: the result of
  `sl_FsClose`, which is the call that stores the value, is ignored. `KeyValueMap` has the
  step `SetFailsUnnoticed` for it.
- **Timers with the deadline 0 fire in reverse** (`PAL/HAPPlatformRunLoop.c:327`).
  `HAPPlatformTimerRegister` stores a deadline of 0 as 1 (line 316) but places it as 0, before
  timers of deadline 0 or 1 that were registered earlier, and against the comment at lines
  328-329. `TimersFirstComeFirstServed` leaves such timers out.

## 6. Not modelled, and why

- The ADK itself and all other libraries: not in the repository.
- `CloseOutput` of TCP streams changes nothing but how later writes end, which is open
  in the model. The multipart parser is external; its callbacks are modelled.
- Service discovery: three calls of the network processor's mDNS service around one
  record. What they do is up to that service, which `src/` does not show. What can be seen
  of the code: `HAPPlatformServiceDiscovery.c:205` updates the records of the bare name, and
  not of the service name that line 112 registered.
- Accessory: its handlers write one structure on the main task. Nothing saves it, and
  nothing calls the functions that would send it to the fan, so that there is no
  agreement between the two to state. Loading it, which may be fatal, is in `Startup`.
- Software token authentication: two calls of the key-value store; see finding 4.
- The messages of the log and their formatting, `HAPPlatformLogPOSIXError` (an entry like
  others), and the enabled types, fixed when the firmware is built.
- `otaContext` left open by an earlier update: after one update the device resets, or its
  main task stays suspended, so that a second update in one start waits for ever; the
  branch for a file that is already open is not reached.
- Short writes to the key-value store: whether they happen to files that small is up to
  the file system.
- Authentication coprocessor, setup codes, attribute database, board, C library stubs,
  configuration of libraries: tables, wrappers and register protocols without shared
  state.

## 7. Plan

Order so far: run loop first, since all else on the main task runs in it; then what
uses its promises (TCP streams); then the components with their own concurrency (UART)
and with crashes (update, store); then start-up, which lets the others begin; then
what all tasks share (clock, log, syslog).

What is left of the code is told in section 6. The next work is proofs:

- what the liveness properties rest on and needs no fairness, as safety properties: that the
  UART task never waits without a read in progress or a notification, that each chunk
  of a purge begins after the one before, that no task waits for the mutex while its
  holder is suspended in a build without remote logging;
- for `RunLoop`, that a pass visits each handle once: the set `Passed` only grows between two
  selects, save for handles that are deregistered.
