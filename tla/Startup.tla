------------------------------ MODULE Startup ------------------------------
(***************************************************************************)
(* Main.c, NWPEvent.c and HTTPServer.c: how the device comes up.  The main *)
(* task creates the host driver task and starts the network processor,     *)
(* waits for an address, initializes the platform and enters the run loop. *)
(* The host driver task hands the network processor's events to the        *)
(* handlers of NWPEvent.c, which notify the main task and pass requests to *)
(* the HTTP task's queue.                                                  *)
(*                                                                         *)
(* There is one core and FreeRTOS preempts: of the tasks that are ready    *)
(* only those of the highest priority run.  A fatal error is a loop        *)
(* without end, at the priority of its task.  The UART task can only delay *)
(* the others here, and is left out.                                       *)
(***************************************************************************)
EXTENDS Naturals, Sequences

CONSTANTS
  Requests,    \* requests that clients send
  QueueDepth,  \* kHTTP_QueueDepth
  MaxChanges,  \* bound: changes of the network's state
  MaxEvents    \* bound: events that wait for the host driver task

ASSUME StartupAssumption == QueueDepth \in Nat \ {0} /\ MaxChanges \in Nat /\ MaxEvents \in Nat

VARIABLES
  main, host, http,  \* where each task is
  notification,      \* the main task's pending notification, or "none"
  interfaces,        \* InitializeNetworkModules was called
  httpQueue,         \* the queue of requests, or NoQueue
  serving,           \* the request the HTTP task has received, or NoRequest
  buffers,           \* requests that hold memory of the heap
  response,          \* what became of each request
  stopRequested,     \* a request to stop waits in the run loop's socket
  link,              \* state of the network, as the network processor has it
  events,            \* events it has for the host driver task
  changes            \* how much of MaxChanges is used

taskVars == <<main, host, http>>
requestVars == <<httpQueue, serving, buffers, response>>
nwpVars == <<link, events, changes>>
vars == <<taskVars, notification, interfaces, requestVars, stopRequested, nwpVars>>

NoRequest == [kind |-> "no request"]
NoQueue == <<NoRequest>>

\* "put" and "badPut" are for /ota, the latter without a Content-Type; "get"
\* is for /ota as well; "other" is for no endpoint.
Kinds == {"put", "badPut", "get", "other"}
Event(name) == [name |-> name]
RequestEvent(r, kind) == [name |-> "request", request |-> r, kind |-> kind]
Events ==
  {Event(name) : name \in {"started", "Connected", "Disconnected", "IPAcquired", "fatal", "logged"}}
    \cup {RequestEvent(r, kind) : r \in Requests, kind \in Kinds}

Init ==
  /\ main = "create"
  /\ host = "none"
  /\ http = "start"
  /\ notification = "none"
  /\ interfaces = FALSE
  /\ httpQueue = NoQueue
  /\ serving = NoRequest
  /\ buffers = {}
  /\ response = [r \in Requests |-> "none"]
  /\ stopRequested = FALSE
  /\ link = "off"
  /\ events = <<>>
  /\ changes = 0

-----------------------------------------------------------------------------
(* The scheduler *)

\* Mutant: the HTTP task has the lowest priority.
LowHTTPPriority == [host |-> 1, main |-> 2, http |-> 0]

\* Above tskIDLE_PRIORITY; the UART task has 3.
Priority == [host |-> 1, main |-> 2, http |-> 4]

Ready(task) ==
  CASE task = "main" -> \/ main \in {"create", "poll", "start", "init", "server", "fatal"}
                        \/ main = "wait" /\ notification # "none"
                        \/ main = "loop" /\ stopRequested
    [] task = "host" -> \/ host \in {"start", "notify", "fatal"}
                        \/ host = "idle" /\ events # <<>>
    [] task = "http" -> \/ http \in {"start", "serve", "free", "fatal"}
                        \/ http = "receive" /\ httpQueue # <<>>

Runs(task) ==
  Ready(task) /\ \A other \in DOMAIN Priority : Ready(other) => Priority[other] <= Priority[task]

-----------------------------------------------------------------------------
(* The main task *)

\* MainTask does not get further than a step that fails.
MainGoesTo(next) == main' \in {next, "fatal"}

CreateHostTask ==
  /\ Runs("main") /\ main = "create"
  /\ \/ main' = "poll" /\ host' = "start"
     \/ main' = "fatal" /\ UNCHANGED host
  /\ UNCHANGED <<http, notification, interfaces, requestVars, stopRequested, nwpVars>>

\* Mutant: the main task does not sleep while it waits for the host driver.
BusyWait == "poll"

\* vTaskDelay(1)
Delay == "delay"

\* The host driver task has started when it is not ready any more.
PollHostTask ==
  /\ Runs("main") /\ main = "poll"
  /\ main' = IF Ready("host") THEN Delay ELSE "start"
  /\ UNCHANGED <<host, http, notification, interfaces, requestVars, stopRequested, nwpVars>>

\* sl_Start blocks until the network processor tells that it has started.
StartNWP ==
  /\ Runs("main") /\ main = "start"
  /\ main' = "starting"
  /\ link' = "down"
  /\ events' = Append(events, Event("started"))
  /\ UNCHANGED <<host, http, notification, interfaces, requestVars, stopRequested, changes>>

\* A notification other than that of an address is taken and forgotten.
TakeNotification ==
  /\ Runs("main") /\ main = "wait"
  /\ main' = IF notification = "IPAcquired" THEN "init" ELSE "wait"
  /\ notification' = "none"
  /\ UNCHANGED <<host, http, interfaces, requestVars, stopRequested, nwpVars>>

\* Creating the run loop, which opens a socket, comes last.
PlatformInitialize ==
  /\ Runs("main") /\ main = "init"
  /\ MainGoesTo("server")
  /\ UNCHANGED <<host, http, notification, interfaces, requestVars, stopRequested, nwpVars>>

\* LoadAccessoryState: the state in the key-value store may be unreadable.
LoadAccessoryState == MainGoesTo("loop")

\* AppCreate and AppAccessoryServerStart.
StartServer ==
  /\ Runs("main") /\ main = "server"
  /\ LoadAccessoryState
  /\ UNCHANGED <<host, http, notification, interfaces, requestVars, stopRequested, nwpVars>>

\* The run loop ends, and the main task notifies the HTTP task.
LeaveLoop ==
  /\ Runs("main") /\ main = "loop"
  /\ main' = "suspended"
  /\ http' = IF http = "await" THEN "update" ELSE http
  /\ stopRequested' = FALSE
  /\ UNCHANGED <<host, notification, interfaces, requestVars, nwpVars>>

MainStep ==
  \/ CreateHostTask \/ PollHostTask \/ StartNWP \/ TakeNotification
  \/ PlatformInitialize \/ StartServer \/ LeaveLoop

-----------------------------------------------------------------------------
(* The host driver task and the handlers it calls *)

HostTaskStarts ==
  /\ Runs("host") /\ host = "start"
  /\ host' = "idle"
  /\ UNCHANGED <<main, http, notification, interfaces, requestVars, stopRequested, nwpVars>>

Handles(name) ==
  /\ Runs("host") /\ host = "idle"
  /\ events # <<>> /\ Head(events).name = name
  /\ events' = Tail(events)

\* sl_Start returns.
HandleStarted ==
  /\ Handles("started")
  /\ MainGoesTo("wait")
  /\ UNCHANGED <<host, http, notification, interfaces, requestVars, stopRequested, link, changes>>

\* SimpleLinkWlanEventHandler: a notification replaces one that is pending.
HandleWlan(name) ==
  /\ Handles(name)
  /\ notification' = name
  /\ UNCHANGED <<taskVars, interfaces, requestVars, stopRequested, link, changes>>

\* Mutant: the main task is notified before the modules are initialized.
NotifyFirst ==
  /\ Handles("IPAcquired")
  /\ host' = "initialize"
  /\ notification' = "IPAcquired"
  /\ UNCHANGED <<main, http, interfaces, requestVars, stopRequested, link, changes>>

\* SimpleLinkNetAppEventHandler: each address has the modules initialized,
\* and then the main task notified.
HandleIPAcquired ==
  /\ Handles("IPAcquired")
  /\ interfaces' = TRUE
  /\ host' = "notify"
  /\ UNCHANGED <<main, http, notification, requestVars, stopRequested, link, changes>>

NotifyIPAcquired ==
  /\ Runs("host") /\ host = "notify"
  /\ notification' = "IPAcquired"
  /\ host' = "idle"
  /\ UNCHANGED <<main, http, interfaces, requestVars, stopRequested, nwpVars>>

\* SimpleLinkFatalErrorEventHandler
HandleFatal ==
  /\ Handles("fatal")
  /\ host' = "fatal"
  /\ UNCHANGED <<main, http, notification, interfaces, requestVars, stopRequested, link, changes>>

\* Events that are only logged, among them those of sockets and of the device.
HandleLogged ==
  /\ Handles("logged")
  /\ UNCHANGED <<taskVars, notification, interfaces, requestVars, stopRequested, link, changes>>

\* ParseHeaders, and the payload
Copied(r) == buffers \cup {r}

\* Mutant: the queue takes one request more.
HasRoomForOneMore == httpQueue # NoQueue /\ Len(httpQueue) <= QueueDepth

HasRoom == httpQueue # NoQueue /\ Len(httpQueue) < QueueDepth

HasEndpoint(e) == e.kind # "other"

\* HTTPRequestHandler copies what it is given to the heap first.  Of a request
\* that is for no endpoint, or finds the queue full, nobody frees the copy.
\* It may post to a queue that is not there: QueueIsThere says it does not.
HandleRequest ==
  /\ Handles("request")
  /\ LET e == Head(events)
         Answer(status) == response' = [response EXCEPT ![e.request] = status]
     IN /\ buffers' = Copied(e.request)
        /\ \/ ~HasEndpoint(e) /\ Answer("noEndpoint") /\ UNCHANGED httpQueue
           \/ /\ HasEndpoint(e) /\ HasRoom
              /\ Answer("pending")
              /\ httpQueue' = Append(httpQueue, [request |-> e.request, kind |-> e.kind])
           \/ HasEndpoint(e) /\ ~HasRoom /\ Answer("503") /\ UNCHANGED httpQueue
  /\ UNCHANGED <<taskVars, notification, interfaces, serving, stopRequested, link, changes>>

HostStep ==
  \/ HostTaskStarts \/ HandleStarted
  \/ \E name \in {"Connected", "Disconnected"} : HandleWlan(name)
  \/ HandleIPAcquired \/ NotifyIPAcquired \/ HandleFatal \/ HandleLogged \/ HandleRequest

-----------------------------------------------------------------------------
(* The HTTP task *)

CreateQueue ==
  /\ Runs("http") /\ http = "start"
  /\ \/ http' = "receive" /\ httpQueue' = <<>>
     \/ http' = "fatal" /\ UNCHANGED httpQueue
  /\ UNCHANGED <<main, host, notification, interfaces, serving, buffers, response,
                 stopRequested, nwpVars>>

ReceiveRequest ==
  /\ Runs("http") /\ http = "receive"
  /\ serving' = Head(httpQueue)
  /\ httpQueue' = Tail(httpQueue)
  /\ http' = "serve"
  /\ UNCHANGED <<main, host, notification, interfaces, buffers, response, stopRequested, nwpVars>>

\* OTAGetCallback
ServeGet ==
  /\ Runs("http") /\ http = "serve" /\ serving.kind = "get"
  /\ response' = [response EXCEPT ![serving.request] = "204"]
  /\ http' = "free"
  /\ UNCHANGED <<main, host, notification, interfaces, httpQueue, serving, buffers,
                 stopRequested, nwpVars>>

\* OTAPutCallback returns without a response.
ServeBadPut ==
  /\ Runs("http") /\ http = "serve" /\ serving.kind = "badPut"
  /\ http' = "free"
  /\ UNCHANGED <<main, host, notification, interfaces, requestVars, stopRequested, nwpVars>>

\* OTAPutCallback asks the run loop to stop, through a socket of its own,
\* and waits for the main task.  What comes then is in FirmwareUpdate.
ServePut ==
  /\ Runs("http") /\ http = "serve" /\ serving.kind = "put"
  /\ stopRequested' = (main \in {"server", "loop"})
  /\ http' = "await"
  /\ UNCHANGED <<main, host, notification, interfaces, requestVars, nwpVars>>

\* Mutant: the memory is kept.
NotFreed(r) == buffers

\* HTTPRequestFree
Freed(r) == buffers \ {r}

FreeRequest ==
  /\ Runs("http") /\ http = "free"
  /\ buffers' = Freed(serving.request)
  /\ serving' = NoRequest
  /\ http' = "receive"
  /\ UNCHANGED <<main, host, notification, interfaces, httpQueue, response, stopRequested, nwpVars>>

HTTPStep == CreateQueue \/ ReceiveRequest \/ ServeGet \/ ServeBadPut \/ ServePut \/ FreeRequest

-----------------------------------------------------------------------------
(* The network processor, and time *)

DelayEnds ==
  /\ main = "delay"
  /\ main' = "poll"
  /\ UNCHANGED <<host, http, notification, interfaces, requestVars, stopRequested, nwpVars>>

Emits(e) ==
  /\ link # "off" /\ Len(events) < MaxEvents
  /\ events' = Append(events, e)
  /\ UNCHANGED <<taskVars, notification, interfaces, stopRequested>>

\* It connects, gets one address or two, loses the connection.
Connects == link = "down" /\ link' = "connected" /\ Emits(Event("Connected"))
GetsAddress == link \in {"connected", "ip"} /\ link' = "ip" /\ Emits(Event("IPAcquired"))
Disconnects == link \in {"connected", "ip"} /\ link' = "down" /\ Emits(Event("Disconnected"))
Aborts == link' = link /\ Emits(Event("fatal"))
Logs == link' = link /\ Emits(Event("logged"))
LinkChanges ==
  /\ changes < MaxChanges
  /\ changes' = changes + 1
  /\ Connects \/ GetsAddress \/ Disconnects \/ Aborts \/ Logs
  /\ UNCHANGED requestVars

ReceiveHTTP(r, kind) ==
  /\ link = "ip"
  /\ response[r] = "none"
  /\ response' = [response EXCEPT ![r] = "sent"]
  /\ Emits(RequestEvent(r, kind))
  /\ UNCHANGED <<httpQueue, serving, buffers, link, changes>>

-----------------------------------------------------------------------------
Next ==
  \/ MainStep
  \/ HostStep
  \/ HTTPStep
  \/ DelayEnds
  \/ LinkChanges
  \/ \E r \in Requests, kind \in Kinds : ReceiveHTTP(r, kind)

Spec == Init /\ [][Next]_vars

\* The scheduler runs a task that may run, and ticks.  The host driver task may
\* run whenever the main task sleeps, and some of these times it gets to.
FairSpec == Spec /\ WF_vars(MainStep) /\ SF_vars(HostStep) /\ WF_vars(HTTPStep) /\ WF_vars(DelayEnds)

-----------------------------------------------------------------------------
(* Properties *)

TypeOK ==
  /\ main \in {"create", "poll", "delay", "start", "starting", "wait", "init", "server", "loop",
               "suspended", "fatal"}
  /\ host \in {"none", "start", "idle", "notify", "fatal"}
  /\ http \in {"start", "receive", "serve", "free", "await", "update", "fatal"}
  /\ notification \in {"none", "Connected", "Disconnected", "IPAcquired"}
  /\ interfaces \in BOOLEAN
  /\ \/ httpQueue = NoQueue
     \/ httpQueue \in Seq([request : Requests, kind : Kinds]) /\ Len(httpQueue) <= QueueDepth
  /\ serving = NoRequest \/ serving \in [request : Requests, kind : Kinds]
  /\ buffers \subseteq Requests
  /\ response \in [Requests -> {"none", "sent", "pending", "noEndpoint", "503", "204"}]
  /\ stopRequested \in BOOLEAN
  /\ link \in {"off", "down", "connected", "ip"}
  /\ events \in Seq(Events)
  /\ changes \in 0..MaxChanges

\* HTTPRequestHandler posts to a queue that the HTTP task creates, and nobody
\* makes it wait: that the queue is there is up to the tasks' priorities.
QueueIsThere == [][HandleRequest => httpQueue # NoQueue]_vars

\* Neither the main task nor the HTTP task opens a socket before the handler
\* of the first address has initialized the network modules.
SocketsAfterInitialization == [][PlatformInitialize \/ ServePut => interfaces]_vars

\* The memory held is that of the requests queued or being served, which is
\* not freed under them, and of those turned away, and no other: a request
\* that was served holds none.
Live ==
  LET Queued == IF httpQueue = NoQueue THEN {} ELSE {httpQueue[i] : i \in DOMAIN httpQueue}
  IN  {q.request : q \in (Queued \cup {serving}) \ {NoRequest}}
BuffersMatchRequests ==
  buffers = Live \cup {r \in Requests : response[r] \in {"noEndpoint", "503"}}

\* Though notifications replace each other and the main task watches a task
\* of lower priority start: unless the network stays down or a task runs into
\* a fatal error, the main task gets as far as the platform's initialization.
MainStarts ==
  <>[](link \in {"off", "ip"} /\ "fatal" \notin {main, host, http})
    => <>(main \in {"init", "server", "loop"})
=============================================================================
