---------------------------- MODULE StartupProofs ----------------------------
(***************************************************************************)
(* Theorems about Startup, for any requests, queue and number of changes.  *)
(*                                                                         *)
(* No lock and no test in the code keeps a request from the queue before   *)
(* it is created, or the run loop's socket from being opened before the    *)
(* network modules are initialized: the tasks' priorities and the order in *)
(* which events are handled do.  Both orders are told by SequenceInv.      *)
(***************************************************************************)
EXTENDS Startup, TLAPS

(* Sequences *)

LEMMA Appended ==
  ASSUME NEW S, NEW s \in Seq(S), NEW x \in S
  PROVE  /\ Append(s, x) \in Seq(S)
         /\ Len(s) \in Nat /\ DOMAIN s = 1..Len(s)
         /\ Len(Append(s, x)) = Len(s) + 1
         /\ DOMAIN Append(s, x) = 1..(Len(s) + 1)
         /\ \A i \in 1..Len(s) : Append(s, x)[i] = s[i]
         /\ Append(s, x)[Len(s) + 1] = x
OBVIOUS

LEMMA Shifted ==
  ASSUME NEW S, NEW s \in Seq(S), s # <<>>
  PROVE  /\ Tail(s) \in Seq(S)
         /\ Len(s) \in Nat \ {0} /\ DOMAIN s = 1..Len(s)
         /\ Len(Tail(s)) = Len(s) - 1
         /\ DOMAIN Tail(s) = 1..(Len(s) - 1)
         /\ \A i \in 1..(Len(s) - 1) : Tail(s)[i] = s[i + 1]
         /\ Head(s) = s[1] /\ s[1] \in S
OBVIOUS

LEMMA Element == ASSUME NEW S, NEW s \in Seq(S), NEW i \in 1..Len(s) PROVE s[i] \in S
OBVIOUS

-----------------------------------------------------------------------------
(* Types *)

RequestEvents == {RequestEvent(r, kind) : r \in Requests, kind \in Kinds}
Entries == [request : Requests, kind : Kinds]

LEMMA EventFacts ==
  ASSUME NEW e \in Events
  PROVE  /\ e.name \in {"started", "Connected", "Disconnected", "IPAcquired", "fatal", "logged",
                        "request"}
         /\ e.name = "request" => e.request \in Requests /\ e.kind \in Kinds
BY DEF Events, Event, RequestEvent

LEMMA EntryFacts == NoRequest \notin Entries
BY DEF NoRequest, Entries, Kinds

\* A queue of requests is never mistaken for the queue that is not there.
LEMMA QueueFacts == ASSUME NEW q \in Seq(Entries) PROVE q # NoQueue
<1>1. NoQueue[1] = NoRequest /\ Len(NoQueue) = 1
  BY DEF NoQueue
<1>2. ASSUME q = NoQueue PROVE FALSE
  <2>1. Len(q) = 1 /\ q[1] = NoRequest
    BY <1>1, <1>2
  <2>2. q[1] \in Entries
    BY <2>1, Element
  <2> QED BY <2>1, <2>2, EntryFacts
<1> QED BY <1>2

LEMMA HandledEvent ==
  ASSUME TypeOK, NEW name, Handles(name)
  PROVE  /\ events # <<>> /\ Head(events) \in Events /\ Head(events).name = name
         /\ Head(events) = events[1]
         /\ events' = Tail(events) /\ events' \in Seq(Events)
         /\ Runs("host") /\ host = "idle"
<1>1. events # <<>> /\ events \in Seq(Events) /\ events' = Tail(events)
      /\ Head(events).name = name /\ Runs("host") /\ host = "idle"
  BY DEF TypeOK, Handles
<1> QED BY <1>1, Shifted

\* A task of lower priority than the HTTP task runs only while that waits.
LEMMA HostRuns == Runs("host") => http \notin {"start", "serve", "free", "fatal"}
<1>1. DOMAIN Priority = {"host", "main", "http"} /\ Priority["http"] = 4 /\ Priority["host"] = 1
  BY DEF Priority
<1>2. Runs("host") => ~Ready("http")
  BY <1>1 DEF Runs
<1>3. Ready("http") <=> \/ http \in {"start", "serve", "free", "fatal"}
                        \/ http = "receive" /\ httpQueue # <<>>
  BY Zenon DEF Ready
<1> QED BY <1>2, <1>3

LEMMA TypeStep == TypeOK /\ [Next]_vars => TypeOK'
<1> SUFFICES ASSUME TypeOK, [Next]_vars PROVE TypeOK'
  OBVIOUS
<1> USE StartupAssumption
<1> USE DEF TypeOK, taskVars, requestVars, nwpVars
<1>1. CASE CreateHostTask
  BY <1>1 DEF CreateHostTask
<1>2. CASE PollHostTask
  BY <1>2 DEF PollHostTask, Delay
<1>3. CASE StartNWP
  <2>1. Event("started") \in Events
    BY DEF Events
  <2>2. events' \in Seq(Events)
    BY <1>3, <2>1, Appended DEF StartNWP
  <2> QED BY <1>3, <2>2 DEF StartNWP
<1>4. CASE TakeNotification
  BY <1>4 DEF TakeNotification
<1>5. CASE PlatformInitialize
  BY <1>5 DEF PlatformInitialize, MainGoesTo
<1>6. CASE StartServer
  BY <1>6 DEF StartServer, LoadAccessoryState, MainGoesTo
<1>7. CASE LeaveLoop
  BY <1>7 DEF LeaveLoop
<1>8. CASE HostTaskStarts
  BY <1>8 DEF HostTaskStarts
<1>9. CASE HandleStarted
  <2>1. events' \in Seq(Events)
    BY <1>9, HandledEvent DEF HandleStarted
  <2> QED BY <1>9, <2>1 DEF HandleStarted, MainGoesTo
<1>10. ASSUME NEW name \in {"Connected", "Disconnected"}, HandleWlan(name) PROVE TypeOK'
  <2>1. events' \in Seq(Events)
    BY <1>10, HandledEvent DEF HandleWlan
  <2> QED BY <1>10, <2>1 DEF HandleWlan
<1>11. CASE HandleIPAcquired
  <2>1. events' \in Seq(Events)
    BY <1>11, HandledEvent DEF HandleIPAcquired
  <2> QED BY <1>11, <2>1 DEF HandleIPAcquired
<1>12. CASE NotifyIPAcquired
  BY <1>12 DEF NotifyIPAcquired
<1>13. CASE HandleFatal
  <2>1. events' \in Seq(Events)
    BY <1>13, HandledEvent DEF HandleFatal
  <2> QED BY <1>13, <2>1 DEF HandleFatal
<1>14. CASE HandleLogged
  <2>1. events' \in Seq(Events)
    BY <1>14, HandledEvent DEF HandleLogged
  <2> QED BY <1>14, <2>1 DEF HandleLogged
<1>15. CASE HandleRequest
  <2> DEFINE e == Head(events)
  <2>1. events' \in Seq(Events) /\ e \in Events /\ e.name = "request"
    BY <1>15, HandledEvent DEF HandleRequest
  <2>2. e.request \in Requests /\ e.kind \in Kinds
    BY <2>1, EventFacts
  <2>3. buffers' = buffers \cup {e.request}
    BY <1>15 DEF HandleRequest, Copied
  <2>4. \E status \in {"noEndpoint", "pending", "503"} :
          response' = [response EXCEPT ![e.request] = status]
    BY <1>15 DEF HandleRequest
  <2>5. response' \in [Requests -> {"none", "sent", "pending", "noEndpoint", "503", "204"}]
    BY <2>4
  <2>6. \/ UNCHANGED httpQueue
        \/ /\ HasRoom
           /\ httpQueue' = Append(httpQueue, [request |-> e.request, kind |-> e.kind])
    BY <1>15 DEF HandleRequest
  <2>7. CASE UNCHANGED httpQueue
    BY <1>15, <2>1, <2>2, <2>3, <2>5, <2>7 DEF HandleRequest
  <2>8. CASE /\ HasRoom
             /\ httpQueue' = Append(httpQueue, [request |-> e.request, kind |-> e.kind])
    <3>1. httpQueue \in Seq(Entries) /\ Len(httpQueue) < QueueDepth
      BY <2>8 DEF HasRoom, Entries
    <3>2. [request |-> e.request, kind |-> e.kind] \in Entries
      BY <2>2 DEF Entries
    <3>3. httpQueue' \in Seq(Entries) /\ Len(httpQueue') <= QueueDepth
      BY <2>8, <3>1, <3>2, Appended
    <3> QED BY <1>15, <2>1, <2>2, <2>3, <2>5, <3>3 DEF HandleRequest, Entries
  <2> QED BY <2>6, <2>7, <2>8
<1>16. CASE CreateQueue
  <2>1. httpQueue' = httpQueue \/ httpQueue' = <<>>
    BY <1>16 DEF CreateQueue
  <2>2. <<>> \in Seq(Entries) /\ Len(<<>>) <= QueueDepth
    OBVIOUS
  <2>3. \/ httpQueue' = NoQueue
        \/ httpQueue' \in Seq([request : Requests, kind : Kinds]) /\ Len(httpQueue') <= QueueDepth
    BY <2>1, <2>2 DEF Entries
  <2> QED BY <1>16, <2>3 DEF CreateQueue
<1>17. CASE ReceiveRequest
  <2>1. httpQueue # <<>>
    BY <1>17 DEF ReceiveRequest, Runs, Ready
  <2>2. CASE httpQueue = NoQueue
    <3>1. serving' = NoRequest /\ httpQueue' = <<>>
      BY <1>17, <2>2 DEF ReceiveRequest, NoQueue
    <3>2. httpQueue' \in Seq(Entries) /\ Len(httpQueue') <= QueueDepth
      BY <3>1
    <3> QED BY <1>17, <3>1, <3>2 DEF ReceiveRequest, Entries
  <2>3. CASE httpQueue \in Seq(Entries) /\ Len(httpQueue) <= QueueDepth
    <3>1. httpQueue' \in Seq(Entries) /\ Len(httpQueue') <= QueueDepth /\ serving' \in Entries
      BY <1>17, <2>1, <2>3, Shifted DEF ReceiveRequest
    <3> QED BY <1>17, <3>1 DEF ReceiveRequest, Entries
  <2>4. \/ httpQueue = NoQueue
        \/ httpQueue \in Seq(Entries) /\ Len(httpQueue) <= QueueDepth
    BY DEF Entries
  <2> QED BY <2>2, <2>3, <2>4
<1>18. CASE ServeGet
  <2>1. response' \in [Requests -> {"none", "sent", "pending", "noEndpoint", "503", "204"}]
    BY <1>18 DEF ServeGet
  <2> QED BY <1>18, <2>1 DEF ServeGet
<1>19. CASE ServeBadPut
  BY <1>19 DEF ServeBadPut
<1>20. CASE ServePut
  BY <1>20 DEF ServePut
<1>21. CASE FreeRequest
  BY <1>21 DEF FreeRequest, Freed
<1>22. CASE DelayEnds
  BY <1>22 DEF DelayEnds
<1>23. CASE LinkChanges
  <2>1. PICK e \in Events : Emits(e) /\ link' \in {"off", "down", "connected", "ip"}
    <3>1. \A name \in {"Connected", "Disconnected", "IPAcquired", "fatal", "logged"} :
             Event(name) \in Events
      BY DEF Events
    <3> QED BY <1>23, <3>1 DEF LinkChanges, Connects, GetsAddress, Disconnects, Aborts, Logs
  <2>2. events' \in Seq(Events)
    BY <2>1, Appended DEF Emits
  <2>3. changes' \in 0..MaxChanges
    BY <1>23 DEF LinkChanges
  <2> QED BY <1>23, <2>1, <2>2, <2>3 DEF LinkChanges, Emits
<1>24. ASSUME NEW r \in Requests, NEW kind \in Kinds, ReceiveHTTP(r, kind) PROVE TypeOK'
  <2>1. RequestEvent(r, kind) \in Events
    BY DEF Events
  <2>2. events' \in Seq(Events)
    BY <1>24, <2>1, Appended DEF ReceiveHTTP, Emits
  <2> QED BY <1>24, <2>2 DEF ReceiveHTTP, Emits
<1>25. CASE UNCHANGED vars
  BY <1>25 DEF vars
<1> QED
  BY <1>1, <1>2, <1>3, <1>4, <1>5, <1>6, <1>7, <1>8, <1>9, <1>10, <1>11, <1>12, <1>13,
     <1>14, <1>15, <1>16, <1>17, <1>18, <1>19, <1>20, <1>21, <1>22, <1>23, <1>24, <1>25
  DEF Next, MainStep, HostStep, HTTPStep

\* Every variable keeps its type: the tasks are where Main.c, NWPEvent.c and
\* HTTPServer.c take them, and the queue never holds more than its depth.
THEOREM TypeCorrect == Spec => []TypeOK
<1>1. Init => TypeOK
  <2>1. <<>> \in Seq(Events) /\ 0 \in 0..MaxChanges
    BY StartupAssumption
  <2> QED BY <2>1 DEF Init, TypeOK
<1> QED BY <1>1, TypeStep, PTL DEF Spec

-----------------------------------------------------------------------------
(* The queue is there *)

\* The HTTP task's place tells whether it has created the queue, and whether
\* it has a request.
QueueInv ==
  /\ http \in {"start", "fatal"} <=> httpQueue = NoQueue
  /\ http \in {"serve", "free", "await", "update"} <=> serving # NoRequest

Waiting == IF httpQueue = NoQueue THEN <<>> ELSE httpQueue

LEMMA WaitingFacts ==
  ASSUME TypeOK
  PROVE  /\ Waiting \in Seq(Entries)
         /\ httpQueue = NoQueue => Waiting = <<>>
         /\ httpQueue # NoQueue => Waiting = httpQueue
<1>1. httpQueue = NoQueue \/ httpQueue \in Seq(Entries)
  BY DEF TypeOK, Entries
<1>2. <<>> \in Seq(Entries)
  OBVIOUS
<1> QED BY <1>1, <1>2 DEF Waiting

\* What HTTPRequestHandler does with a request.
LEMMA RequestHandled ==
  ASSUME TypeOK, QueueInv, HandleRequest
  PROVE  LET e == Head(events) IN
         /\ e \in Events /\ e.name = "request" /\ e.request \in Requests /\ e.kind \in Kinds
         /\ http \notin {"start", "serve", "free", "fatal"}
         /\ httpQueue # NoQueue
         /\ UNCHANGED <<http, serving>>
         /\ buffers' = buffers \cup {e.request}
         /\ \/ /\ httpQueue' = httpQueue /\ Waiting' = Waiting
               /\ \E status \in {"noEndpoint", "503"} :
                    response' = [response EXCEPT ![e.request] = status]
            \/ \E q \in Entries :
                 /\ q.request = e.request
                 /\ httpQueue' = Append(httpQueue, q) /\ httpQueue' # NoQueue
                 /\ Waiting' = Append(Waiting, q)
                 /\ response' = [response EXCEPT ![e.request] = "pending"]
<1> DEFINE e == Head(events)
           q == [request |-> e.request, kind |-> e.kind]
<1>1. e \in Events /\ e.name = "request" /\ Runs("host")
  BY HandledEvent DEF HandleRequest
<1>2. e.request \in Requests /\ e.kind \in Kinds
  BY <1>1, EventFacts
<1>3. http \notin {"start", "serve", "free", "fatal"}
  BY <1>1, HostRuns
<1>4. httpQueue # NoQueue
  BY <1>3 DEF QueueInv
<1>5. UNCHANGED <<http, serving>> /\ buffers' = buffers \cup {e.request}
  BY DEF HandleRequest, Copied, taskVars
<1>6. httpQueue \in Seq(Entries) /\ Waiting = httpQueue
  BY <1>4, WaitingFacts
<1>7. q \in Entries /\ q.request = e.request
  BY <1>2 DEF Entries
<1>8. CASE /\ httpQueue' = httpQueue
           /\ \E status \in {"noEndpoint", "503"} :
                 response' = [response EXCEPT ![e.request] = status]
  <2>1. Waiting' = Waiting
    BY <1>8 DEF Waiting
  <2> QED BY <1>1, <1>2, <1>3, <1>4, <1>5, <1>8, <2>1
<1>9. CASE /\ httpQueue' = Append(httpQueue, q)
           /\ response' = [response EXCEPT ![e.request] = "pending"]
  <2>1. httpQueue' \in Seq(Entries)
    BY <1>6, <1>7, <1>9, Appended
  <2>2. httpQueue' # NoQueue
    BY <2>1, QueueFacts
  <2>3. Waiting' = Append(Waiting, q)
    BY <1>6, <1>9, <2>2 DEF Waiting
  <2> QED BY <1>1, <1>2, <1>3, <1>4, <1>5, <1>7, <1>9, <2>2, <2>3
<1>10. \/ /\ httpQueue' = httpQueue
          /\ \E status \in {"noEndpoint", "503"} :
                response' = [response EXCEPT ![e.request] = status]
       \/ /\ httpQueue' = Append(httpQueue, q)
          /\ response' = [response EXCEPT ![e.request] = "pending"]
  BY DEF HandleRequest
<1> QED BY <1>8, <1>9, <1>10

\* The HTTP task receives a request.
LEMMA RequestReceived ==
  ASSUME TypeOK, QueueInv, ReceiveRequest
  PROVE  /\ http = "receive" /\ http' = "serve" /\ serving = NoRequest
         /\ Waiting # <<>> /\ serving' = Head(Waiting) /\ serving' \in Entries
         /\ httpQueue # NoQueue /\ httpQueue' # NoQueue
         /\ Waiting' = Tail(Waiting)
<1>1. http = "receive" /\ httpQueue # <<>> /\ http' = "serve"
      /\ serving' = Head(httpQueue) /\ httpQueue' = Tail(httpQueue)
  BY DEF ReceiveRequest, Runs, Ready
<1>2. httpQueue # NoQueue /\ serving = NoRequest
  BY <1>1 DEF QueueInv
<1>3. httpQueue \in Seq(Entries) /\ Waiting = httpQueue
  BY <1>2, WaitingFacts
<1>4. httpQueue' \in Seq(Entries) /\ serving' \in Entries
  BY <1>1, <1>3, Shifted
<1>5. httpQueue' # NoQueue
  BY <1>4, QueueFacts
<1>6. Waiting' = Tail(Waiting)
  BY <1>1, <1>3, <1>5 DEF Waiting
<1> QED BY <1>1, <1>2, <1>3, <1>4, <1>5, <1>6

LEMMA QueueCreated ==
  ASSUME TypeOK, QueueInv, CreateQueue
  PROVE  /\ http = "start" /\ httpQueue = NoQueue /\ UNCHANGED serving
         /\ Waiting = <<>> /\ Waiting' = <<>>
         /\ \/ http' = "receive" /\ httpQueue' # NoQueue
            \/ http' = "fatal" /\ httpQueue' = NoQueue
<1>1. /\ http = "start" /\ UNCHANGED serving
      /\ \/ http' = "receive" /\ httpQueue' = <<>>
         \/ http' = "fatal" /\ httpQueue' = httpQueue
  BY DEF CreateQueue
<1>2. httpQueue = NoQueue
  BY <1>1 DEF QueueInv
<1>3. <<>> # NoQueue
  <2>1. <<>> \in Seq(Entries)
    OBVIOUS
  <2> QED BY <2>1, QueueFacts
<1> QED BY <1>1, <1>2, <1>3 DEF Waiting

\* All other steps leave the HTTP task, its queue and its request alone.
LEMMA QueueFrame ==
  ASSUME [Next]_vars
  PROVE  \/ LeaveLoop \/ HandleRequest \/ HTTPStep
         \/ UNCHANGED <<http, httpQueue, serving>>
BY DEF Next, vars, taskVars, requestVars, MainStep, HostStep, CreateHostTask, PollHostTask,
       StartNWP, TakeNotification, PlatformInitialize, StartServer, HostTaskStarts, HandleStarted,
       HandleWlan, HandleIPAcquired, NotifyIPAcquired, HandleFatal, HandleLogged, DelayEnds,
       LinkChanges, Connects, GetsAddress, Disconnects, Aborts, Logs, Emits, ReceiveHTTP

LEMMA QueueStep == TypeOK /\ QueueInv /\ [Next]_vars => QueueInv'
<1> SUFFICES ASSUME TypeOK, QueueInv, [Next]_vars PROVE QueueInv'
  OBVIOUS
<1>1. CASE LeaveLoop
  BY <1>1 DEF LeaveLoop, QueueInv, requestVars
<1>2. CASE HandleRequest
  BY <1>2, RequestHandled DEF QueueInv
<1>3. CASE CreateQueue
  BY <1>3, QueueCreated DEF QueueInv
<1>4. CASE ReceiveRequest
  BY <1>4, RequestReceived, EntryFacts DEF QueueInv
<1>5. CASE ServeGet \/ ServeBadPut \/ ServePut
  BY <1>5 DEF ServeGet, ServeBadPut, ServePut, QueueInv, requestVars
<1>6. CASE FreeRequest
  BY <1>6 DEF FreeRequest, QueueInv
<1>7. CASE UNCHANGED <<http, httpQueue, serving>>
  BY <1>7 DEF QueueInv
<1> QED BY <1>1, <1>2, <1>3, <1>4, <1>5, <1>6, <1>7, QueueFrame DEF HTTPStep

LEMMA QueueAlways == Spec => [](TypeOK /\ QueueInv)
<1>1. Init => QueueInv
  BY DEF Init, QueueInv
<1> QED BY <1>1, QueueStep, TypeStep, TypeCorrect, PTL DEF Spec

\* The host driver task has the lowest priority of all: it gets to handle a
\* request only when the HTTP task waits, which it does not before it has
\* created the queue that HTTPRequestHandler posts to.
THEOREM PostedToAQueue == Spec => QueueIsThere
<1>1. TypeOK /\ QueueInv => (HandleRequest => httpQueue # NoQueue)
  BY RequestHandled
<1> QED BY <1>1, QueueAlways, PTL DEF QueueIsThere

-----------------------------------------------------------------------------
(* The network modules are initialized first *)

IsAddress(e) == e.name = "IPAcquired"
IsRequest(e) == e.name = "request"

\* An address comes before the requests it lets in, and events are handled in
\* the order they come.
AddressFirst ==
  \/ interfaces
  \/ /\ link = "ip" => \E j \in DOMAIN events : IsAddress(events[j])
     /\ \A i \in DOMAIN events :
          IsRequest(events[i]) => \E j \in 1..(i - 1) : IsAddress(events[j])

\* Whoever may go on to open a socket knows of an address that was handled.
ToldOfAddress ==
  (\/ notification = "IPAcquired"
   \/ host = "notify"
   \/ main \in {"init", "server", "loop", "suspended"}
   \/ Waiting # <<>>
   \/ serving # NoRequest) => interfaces

SequenceInv == QueueInv /\ AddressFirst /\ ToldOfAddress

\* What a step does to the events.
LEMMA EventsFrame ==
  ASSUME TypeOK, [Next]_vars
  PROVE  \/ UNCHANGED <<events, interfaces, link>>
         \/ \E e \in Events :
              /\ events' = Append(events, e) /\ UNCHANGED interfaces
              /\ IsRequest(e) => link = "ip"
              /\ link' = "ip" => link = "ip" \/ IsAddress(e)
         \/ /\ events # <<>> /\ events' = Tail(events) /\ UNCHANGED link
            /\ interfaces' \/ (UNCHANGED interfaces /\ ~IsAddress(events[1]))
<1> DEFINE appends == \E e \in Events :
             /\ events' = Append(events, e) /\ UNCHANGED interfaces
             /\ IsRequest(e) => link = "ip"
             /\ link' = "ip" => link = "ip" \/ IsAddress(e)
           handles == /\ events # <<>> /\ events' = Tail(events) /\ UNCHANGED link
                      /\ interfaces' \/ (UNCHANGED interfaces /\ ~IsAddress(events[1]))
<1> USE DEF taskVars, requestVars, nwpVars
<1>1. ASSUME NEW name \in {"started", "Connected", "Disconnected", "IPAcquired", "fatal", "logged"}
      PROVE  Event(name) \in Events /\ Event(name).name = name
  BY DEF Events, Event
<1>2. CASE StartNWP
  <2>1. events' = Append(events, Event("started")) /\ UNCHANGED interfaces /\ link' = "down"
    BY <1>2 DEF StartNWP
  <2>2. appends
    BY <2>1, <1>1 DEF IsRequest
  <2> QED BY <2>2
<1>3. CASE LinkChanges
  <2>1. PICK name \in {"Connected", "Disconnected", "IPAcquired", "fatal", "logged"} :
          /\ Emits(Event(name))
          /\ link' = "ip" => link = "ip" \/ name = "IPAcquired"
    BY <1>3 DEF LinkChanges, Connects, GetsAddress, Disconnects, Aborts, Logs
  <2>2. events' = Append(events, Event(name)) /\ UNCHANGED interfaces
    BY <2>1 DEF Emits
  <2>3. appends
    BY <2>1, <2>2, <1>1 DEF IsRequest, IsAddress
  <2> QED BY <2>3
<1>4. ASSUME NEW r \in Requests, NEW kind \in Kinds, ReceiveHTTP(r, kind) PROVE appends
  <2>1. /\ events' = Append(events, RequestEvent(r, kind)) /\ UNCHANGED <<interfaces, link>>
        /\ link = "ip"
    BY <1>4 DEF ReceiveHTTP, Emits
  <2>2. RequestEvent(r, kind) \in Events
    BY DEF Events
  <2> QED BY <2>1, <2>2
<1>5. CASE HandleIPAcquired
  <2>1. interfaces' /\ UNCHANGED link /\ Handles("IPAcquired")
    BY <1>5 DEF HandleIPAcquired
  <2> QED BY <2>1, HandledEvent
<1>6. ASSUME NEW name, name # "IPAcquired", Handles(name), UNCHANGED <<interfaces, link>>
      PROVE  handles
  <2>1. events # <<>> /\ events' = Tail(events) /\ events[1].name = name
    BY <1>6, HandledEvent
  <2> QED BY <1>6, <2>1 DEF IsAddress
<1>7. CASE HandleStarted
  BY <1>6, <1>7 DEF HandleStarted
<1>8. CASE \E name \in {"Connected", "Disconnected"} : HandleWlan(name)
  BY <1>6, <1>8 DEF HandleWlan
<1>9. CASE HandleFatal
  BY <1>6, <1>9 DEF HandleFatal
<1>10. CASE HandleLogged
  BY <1>6, <1>10 DEF HandleLogged
<1>11. CASE HandleRequest
  BY <1>6, <1>11 DEF HandleRequest
<1>12. CASE \/ CreateHostTask \/ PollHostTask \/ TakeNotification \/ PlatformInitialize
            \/ StartServer \/ LeaveLoop \/ HostTaskStarts \/ NotifyIPAcquired \/ HTTPStep
            \/ DelayEnds \/ UNCHANGED vars
  BY <1>12 DEF CreateHostTask, PollHostTask, TakeNotification, PlatformInitialize, StartServer,
       LeaveLoop, HostTaskStarts, NotifyIPAcquired, HTTPStep, CreateQueue, ReceiveRequest,
       ServeGet, ServeBadPut, ServePut, FreeRequest, DelayEnds, vars
<1> QED
  BY <1>2, <1>3, <1>4, <1>5, <1>7, <1>8, <1>9, <1>10, <1>11, <1>12
  DEF Next, MainStep, HostStep

LEMMA AddressStep == TypeOK /\ AddressFirst /\ [Next]_vars => AddressFirst'
<1> SUFFICES ASSUME TypeOK, AddressFirst, [Next]_vars, interfaces' # TRUE PROVE AddressFirst'
  BY DEF AddressFirst
<1>1. events \in Seq(Events) /\ interfaces \in BOOLEAN
  BY DEF TypeOK
<1>2. CASE UNCHANGED <<events, interfaces, link>>
  BY <1>2 DEF AddressFirst
<1>3. ASSUME NEW e \in Events, events' = Append(events, e), UNCHANGED interfaces,
             IsRequest(e) => link = "ip", link' = "ip" => link = "ip" \/ IsAddress(e)
      PROVE  AddressFirst'
  <2> DEFINE n == Len(events)
  <2>1. /\ n \in Nat /\ DOMAIN events = 1..n /\ DOMAIN events' = 1..(n + 1)
        /\ \A i \in 1..n : events'[i] = events[i]
        /\ events'[n + 1] = e
    BY <1>1, <1>3, Appended
  <2>first. /\ link = "ip" => \E j \in 1..n : IsAddress(events[j])
        /\ \A i \in 1..n : IsRequest(events[i]) => \E j \in 1..(i - 1) : IsAddress(events[j])
    <3>1. ~interfaces /\ DOMAIN events = 1..n
      BY <1>1, <1>3, <2>1
    <3> QED BY <3>1 DEF AddressFirst
  <2>2. ASSUME link' = "ip" PROVE \E j \in 1..(n + 1) : IsAddress(events'[j])
    <3>1. CASE link = "ip"
      <4>1. PICK j \in 1..n : IsAddress(events[j])
        BY <2>first, <3>1
      <4>2. IsAddress(events'[j]) /\ j \in 1..(n + 1)
        BY <2>1, <4>1
      <4> QED BY <4>2
    <3>2. CASE IsAddress(e)
      BY <2>1, <3>2
    <3> QED BY <1>3, <2>2, <3>1, <3>2
  <2>3. ASSUME NEW i \in 1..(n + 1), IsRequest(events'[i])
        PROVE  \E j \in 1..(i - 1) : IsAddress(events'[j])
    <3>1. CASE i \in 1..n
      <4>1. PICK j \in 1..(i - 1) : IsAddress(events[j])
        BY <2>1, <2>3, <2>first, <3>1
      <4>2. j \in 1..n
        BY <2>1, <3>1
      <4> QED BY <2>1, <4>1, <4>2
    <3>2. CASE i = n + 1
      <4>1. link = "ip"
        BY <1>3, <2>1, <2>3, <3>2 DEF IsRequest
      <4>2. PICK j \in 1..n : IsAddress(events[j])
        BY <1>1, <1>3, <2>1, <4>1 DEF AddressFirst
      <4> QED BY <2>1, <3>2, <4>2 DEF IsAddress
    <3> QED BY <2>1, <3>1, <3>2
  <2> QED BY <2>1, <2>2, <2>3 DEF AddressFirst
<1>4. ASSUME events # <<>>, events' = Tail(events), UNCHANGED <<interfaces, link>>,
             ~IsAddress(events[1])
      PROVE  AddressFirst'
  <2> DEFINE n == Len(events)
  <2>1. /\ n \in Nat \ {0} /\ DOMAIN events = 1..n /\ DOMAIN events' = 1..(n - 1)
        /\ \A i \in 1..(n - 1) : events'[i] = events[i + 1]
    BY <1>1, <1>4, Shifted
  <2>first. /\ link = "ip" => \E j \in 1..n : IsAddress(events[j])
        /\ \A i \in 1..n : IsRequest(events[i]) => \E j \in 1..(i - 1) : IsAddress(events[j])
    <3>1. ~interfaces /\ DOMAIN events = 1..n
      BY <1>1, <1>4, <2>1
    <3> QED BY <3>1 DEF AddressFirst
  <2>2. ASSUME link' = "ip" PROVE \E j \in 1..(n - 1) : IsAddress(events'[j])
    <3>1. PICK j \in 1..n : IsAddress(events[j])
      BY <1>1, <1>4, <2>1, <2>2 DEF AddressFirst
    <3>2. j # 1 /\ j - 1 \in 1..(n - 1) /\ (j - 1) + 1 = j
      BY <1>4, <2>1, <3>1
    <3> QED BY <2>1, <3>1, <3>2 DEF IsAddress
  <2>3. ASSUME NEW i \in 1..(n - 1), IsRequest(events'[i])
        PROVE  \E j \in 1..(i - 1) : IsAddress(events'[j])
    <3>1. IsRequest(events[i + 1]) /\ i + 1 \in 1..n
      BY <2>1, <2>3 DEF IsRequest
    <3>2. PICK j \in 1..i : IsAddress(events[j])
      <4>1. \E j \in 1..((i + 1) - 1) : IsAddress(events[j])
        BY <2>first, <3>1
      <4> QED BY <4>1
    <3>3. j # 1 /\ j - 1 \in 1..(i - 1) /\ j - 1 \in 1..(n - 1) /\ (j - 1) + 1 = j
      BY <1>4, <2>1, <3>2
    <3> QED BY <2>1, <3>2, <3>3 DEF IsAddress
  <2> QED BY <2>1, <2>2, <2>3 DEF AddressFirst
<1> QED BY <1>1, <1>2, <1>3, <1>4, EventsFrame

LEMMA ToldStep ==
  TypeOK /\ QueueInv /\ AddressFirst /\ ToldOfAddress /\ [Next]_vars => ToldOfAddress'
<1> SUFFICES ASSUME TypeOK, QueueInv, AddressFirst, ToldOfAddress, [Next]_vars
             PROVE  ToldOfAddress'
  OBVIOUS
<1>1. interfaces => interfaces'
  BY EventsFrame
<1>2. CASE interfaces
  BY <1>1, <1>2 DEF ToldOfAddress
<1>3. CASE HandleIPAcquired
  BY <1>3 DEF HandleIPAcquired, ToldOfAddress
<1>4. CASE HandleRequest
  <2>1. events # <<>> /\ events \in Seq(Events) /\ IsRequest(events[1])
    BY <1>4, HandledEvent DEF HandleRequest, IsRequest, TypeOK
  <2>2. 1 \in DOMAIN events /\ \A j \in 1..(1 - 1) : FALSE
    BY <2>1, Shifted
  <2>3. interfaces
    BY <2>1, <2>2 DEF AddressFirst
  <2> QED BY <1>2, <2>3
<1> SUFFICES ASSUME ~interfaces, ~HandleIPAcquired, ~HandleRequest PROVE ToldOfAddress'
  BY <1>2, <1>3, <1>4
<1>5. /\ notification # "IPAcquired" /\ host # "notify" /\ Waiting = <<>> /\ serving = NoRequest
      /\ main \notin {"init", "server", "loop", "suspended"}
  BY DEF ToldOfAddress
<1>6. Waiting' = <<>> /\ serving' = NoRequest
  <2>1. CASE CreateQueue
    BY <1>5, <2>1, QueueCreated
  <2>2. CASE ReceiveRequest
    BY <1>5, <2>2, RequestReceived
  <2>3. CASE ServeGet \/ ServeBadPut \/ ServePut \/ FreeRequest
    BY <1>5, <2>3 DEF ServeGet, ServeBadPut, ServePut, FreeRequest, QueueInv
  <2>4. CASE LeaveLoop
    BY <1>5, <2>4 DEF LeaveLoop
  <2>5. CASE UNCHANGED <<http, httpQueue, serving>>
    BY <1>5, <2>5 DEF Waiting
  <2> QED BY <2>1, <2>2, <2>3, <2>4, <2>5, QueueFrame DEF HTTPStep
<1>7. notification' # "IPAcquired" /\ host' # "notify"
  BY <1>5 DEF Next, vars, taskVars, nwpVars, MainStep, HostStep, HTTPStep, CreateHostTask,
       PollHostTask, StartNWP, TakeNotification, PlatformInitialize, StartServer, LeaveLoop,
       HostTaskStarts, HandleStarted, HandleWlan, NotifyIPAcquired, HandleFatal, HandleLogged,
       CreateQueue, ReceiveRequest, ServeGet, ServeBadPut, ServePut, FreeRequest, DelayEnds,
       LinkChanges, Connects, GetsAddress, Disconnects, Aborts, Logs, Emits, ReceiveHTTP
<1>8. main' \notin {"init", "server", "loop", "suspended"}
  BY <1>5 DEF Next, vars, taskVars, nwpVars, MainStep, HostStep, HTTPStep, CreateHostTask,
       PollHostTask, Delay, StartNWP, TakeNotification, PlatformInitialize, StartServer, LeaveLoop,
       HostTaskStarts, HandleStarted, MainGoesTo, HandleWlan, NotifyIPAcquired, HandleFatal,
       HandleLogged, CreateQueue, ReceiveRequest, ServeGet, ServeBadPut, ServePut, FreeRequest,
       DelayEnds, LinkChanges, Connects, GetsAddress, Disconnects, Aborts, Logs, Emits, ReceiveHTTP
<1> QED BY <1>6, <1>7, <1>8 DEF ToldOfAddress

LEMMA SequenceAlways == Spec => [](TypeOK /\ SequenceInv)
<1>1. Init => AddressFirst
  BY DEF Init, AddressFirst
<1>2. Init => ToldOfAddress
  BY DEF Init, ToldOfAddress, Waiting
<1> QED BY <1>1, <1>2, AddressStep, ToldStep, QueueAlways, PTL DEF Spec, SequenceInv

\* The main task gets to the platform's initialization, and the HTTP task to
\* asking the run loop to stop, only when the handler of an address has
\* initialized the network modules.
THEOREM SocketsCannotComeEarly == Spec => SocketsAfterInitialization
<1>1. TypeOK /\ SequenceInv => (PlatformInitialize \/ ServePut => interfaces)
  BY DEF SequenceInv, QueueInv, ToldOfAddress, PlatformInitialize, ServePut
<1> QED BY <1>1, SequenceAlways, PTL DEF SocketsAfterInitialization

-----------------------------------------------------------------------------
(* Memory of requests *)

\* Each request is in one place: with the network processor, in the queue,
\* or with the HTTP task.
OnePlace ==
  /\ \A i \in DOMAIN events :
       IsRequest(events[i]) =>
         /\ response[events[i].request] = "sent"
         /\ \A j \in DOMAIN events :
              IsRequest(events[j]) /\ i # j => events[i].request # events[j].request
  /\ \A i \in DOMAIN Waiting :
       /\ response[Waiting[i].request] = "pending"
       /\ \A j \in DOMAIN Waiting : i # j => Waiting[i].request # Waiting[j].request
       /\ serving # NoRequest => Waiting[i].request # serving.request
  /\ serving # NoRequest => response[serving.request] \in {"pending", "204"}

TurnedAway == {r \in Requests : response[r] \in {"noEndpoint", "503"}}
Served == IF serving = NoRequest THEN {} ELSE {serving.request}
Queued == {Waiting[i].request : i \in DOMAIN Waiting}
MemoryInv == buffers = Queued \cup Served \cup TurnedAway

LEMMA LiveFacts == ASSUME TypeOK PROVE Live = Queued \cup Served
<1> DEFINE queue == IF httpQueue = NoQueue THEN {} ELSE {httpQueue[i] : i \in DOMAIN httpQueue}
<1>1. queue = {Waiting[i] : i \in DOMAIN Waiting}
  <2>1. DOMAIN <<>> = {}
    OBVIOUS
  <2> QED BY <2>1 DEF Waiting
<1>2. \A i \in DOMAIN Waiting : Waiting[i] # NoRequest
  <2>1. Waiting \in Seq(Entries)
    BY WaitingFacts
  <2>2. \A i \in DOMAIN Waiting : Waiting[i] \in Entries
    BY <2>1
  <2> QED BY <2>2, EntryFacts
<1>3. Live = {q.request : q \in (queue \cup {serving}) \ {NoRequest}}
  BY DEF Live
<1> HIDE DEF queue
<1>4. (queue \cup {serving}) \ {NoRequest} =
        queue \cup (IF serving = NoRequest THEN {} ELSE {serving})
  BY <1>1, <1>2
<1> QED BY <1>1, <1>3, <1>4 DEF Queued, Served

\* What a step does to the requests.
LEMMA RequestFrame ==
  ASSUME TypeOK, QueueInv, [Next]_vars
  PROVE  \/ HandleRequest \/ HTTPStep
         \/ \E r \in Requests, kind \in Kinds : ReceiveHTTP(r, kind)
         \/ /\ UNCHANGED requestVars
            /\ \/ UNCHANGED events
               \/ \E e \in Events : ~IsRequest(e) /\ events' = Append(events, e)
               \/ events # <<>> /\ events' = Tail(events)
<1> DEFINE appends == \E e \in Events : ~IsRequest(e) /\ events' = Append(events, e)
           handles == events # <<>> /\ events' = Tail(events)
<1> USE DEF taskVars, nwpVars
<1>1. ASSUME NEW name \in {"started", "Connected", "Disconnected", "IPAcquired", "fatal", "logged"}
      PROVE  Event(name) \in Events /\ ~IsRequest(Event(name))
  BY DEF Events, Event, IsRequest
<1>2. CASE StartNWP
  <2>1. events' = Append(events, Event("started")) /\ UNCHANGED requestVars
    BY <1>2 DEF StartNWP
  <2> QED BY <2>1, <1>1
<1>3. CASE LinkChanges
  <2>1. PICK name \in {"Connected", "Disconnected", "IPAcquired", "fatal", "logged"} :
          Emits(Event(name)) /\ UNCHANGED requestVars
    BY <1>3 DEF LinkChanges, Connects, GetsAddress, Disconnects, Aborts, Logs
  <2>2. events' = Append(events, Event(name))
    BY <2>1 DEF Emits
  <2> QED BY <2>1, <2>2, <1>1
<1>4. CASE \/ HandleStarted \/ (\E name \in {"Connected", "Disconnected"} : HandleWlan(name))
           \/ HandleIPAcquired \/ HandleFatal \/ HandleLogged
  BY <1>4 DEF HandleStarted, HandleWlan, HandleIPAcquired, HandleFatal, HandleLogged, Handles
<1>5. CASE \/ CreateHostTask \/ PollHostTask \/ TakeNotification \/ PlatformInitialize
           \/ StartServer \/ LeaveLoop \/ HostTaskStarts \/ NotifyIPAcquired
           \/ DelayEnds \/ UNCHANGED vars
  BY <1>5 DEF CreateHostTask, PollHostTask, TakeNotification, PlatformInitialize, StartServer,
       LeaveLoop, HostTaskStarts, NotifyIPAcquired, DelayEnds, vars
<1> QED BY <1>2, <1>3, <1>4, <1>5 DEF Next, MainStep, HostStep

LEMMA MemoryStep ==
  TypeOK /\ QueueInv /\ OnePlace /\ MemoryInv /\ [Next]_vars => OnePlace' /\ MemoryInv'
<1> SUFFICES ASSUME TypeOK, QueueInv, OnePlace, MemoryInv, [Next]_vars
             PROVE  OnePlace' /\ MemoryInv'
  OBVIOUS
<1> DEFINE n == Len(events)
           w == Len(Waiting)
<1>types. /\ events \in Seq(Events) /\ Waiting \in Seq(Entries)
          /\ n \in Nat /\ DOMAIN events = 1..n /\ w \in Nat /\ DOMAIN Waiting = 1..w
          /\ response \in [Requests -> {"none", "sent", "pending", "noEndpoint", "503", "204"}]
          /\ serving = NoRequest \/ serving \in Entries
  <2>1. Waiting \in Seq(Entries)
    BY WaitingFacts
  <2> QED BY <2>1 DEF TypeOK, Entries
<1>requests. /\ \A i \in 1..n : IsRequest(events[i]) => events[i].request \in Requests
             /\ \A i \in 1..w : Waiting[i].request \in Requests
             /\ serving # NoRequest => serving.request \in Requests
  <2>1. \A i \in 1..n : events[i] \in Events
    BY <1>types
  <2>2. \A i \in 1..w : Waiting[i] \in Entries
    BY <1>types
  <2> QED BY <1>types, <2>1, <2>2, EventFacts DEF IsRequest, Entries
<1>handled. ASSUME events # <<>>, events' = Tail(events)
            PROVE  /\ n \in Nat \ {0} /\ DOMAIN events' = 1..(n - 1)
                   /\ \A i \in 1..(n - 1) : events'[i] = events[i + 1] /\ i + 1 \in 1..n
  BY <1>types, <1>handled, Shifted
<1>1. CASE UNCHANGED <<requestVars, events>>
  BY <1>1 DEF requestVars, OnePlace, MemoryInv, Queued, Served, TurnedAway, Waiting
<1>2. ASSUME UNCHANGED requestVars, NEW e \in Events, ~IsRequest(e), events' = Append(events, e)
      PROVE  OnePlace' /\ MemoryInv'
  <2>1. /\ DOMAIN events' = 1..(n + 1) /\ events'[n + 1] = e
        /\ \A i \in 1..n : events'[i] = events[i]
    BY <1>types, <1>2, Appended
  <2>2. UNCHANGED <<response, serving, buffers, Waiting>>
    BY <1>2 DEF requestVars, Waiting
  <2>3. \A i \in 1..(n + 1) : IsRequest(events'[i]) => i \in 1..n /\ events'[i] = events[i]
    BY <1>types, <1>2, <2>1 DEF IsRequest
  <2>4. OnePlace'
    BY <1>types, <2>1, <2>2, <2>3 DEF OnePlace, IsRequest
  <2> QED BY <2>2, <2>4 DEF MemoryInv, Queued, Served, TurnedAway
<1>3. CASE UNCHANGED requestVars /\ events # <<>> /\ events' = Tail(events)
  <2>1. UNCHANGED <<response, serving, buffers, Waiting>>
    BY <1>3 DEF requestVars, Waiting
  <2>2. OnePlace'
    BY <1>types, <1>3, <1>handled, <2>1 DEF OnePlace, IsRequest
  <2> QED BY <2>1, <2>2 DEF MemoryInv, Queued, Served, TurnedAway
<1>4. ASSUME NEW r \in Requests, NEW kind \in Kinds, ReceiveHTTP(r, kind)
      PROVE  OnePlace' /\ MemoryInv'
  <2> DEFINE e == RequestEvent(r, kind)
  <2>1. e \in Events /\ IsRequest(e) /\ e.request = r
    BY DEF Events, RequestEvent, IsRequest
  <2>2. /\ response[r] = "none" /\ response' = [response EXCEPT ![r] = "sent"]
        /\ events' = Append(events, e) /\ UNCHANGED <<httpQueue, serving, buffers>>
    BY <1>4 DEF ReceiveHTTP, Emits
  <2>3. UNCHANGED Waiting
    BY <2>2 DEF Waiting
  <2>4. /\ DOMAIN events' = 1..(n + 1) /\ events'[n + 1] = e
        /\ \A i \in 1..n : events'[i] = events[i]
    BY <1>types, <2>1, <2>2, Appended
  <2>5. /\ response'[r] = "sent" /\ \A o \in Requests \ {r} : response'[o] = response[o]
    BY <1>types, <2>2
  <2>6. \A i \in 1..n : IsRequest(events[i]) =>
          events[i].request \in Requests \ {r} /\ response'[events[i].request] = "sent"
    BY <1>types, <1>requests, <2>2, <2>5 DEF OnePlace
  <2>7. \A i \in 1..w : Waiting[i].request # r
    BY <1>types, <2>2 DEF OnePlace
  <2>8. serving # NoRequest => serving.request # r
    BY <2>2 DEF OnePlace
  <2>9. \A i \in 1..(n + 1) : IsRequest(events'[i]) =>
          /\ response'[events'[i].request] = "sent"
          /\ \A j \in 1..(n + 1) :
               IsRequest(events'[j]) /\ i # j => events'[i].request # events'[j].request
    BY <1>types, <2>1, <2>4, <2>5, <2>6 DEF OnePlace, IsRequest
  <2>10. OnePlace'
    <3>1. \A i \in 1..w : response'[Waiting[i].request] = response[Waiting[i].request]
      BY <1>requests, <2>5, <2>7
    <3>2. serving # NoRequest => response'[serving.request] = response[serving.request]
      BY <1>requests, <2>5, <2>8
    <3> QED BY <1>types, <2>2, <2>3, <2>4, <2>9, <3>1, <3>2 DEF OnePlace
  <2>11. TurnedAway' = TurnedAway
    BY <2>2, <2>5 DEF TurnedAway
  <2>12. Queued' = Queued /\ Served' = Served
    BY <2>2, <2>3 DEF Queued, Served
  <2> QED BY <2>2, <2>10, <2>11, <2>12 DEF MemoryInv
<1>5. CASE HandleRequest
  <2> DEFINE e == Head(events)
             r == e.request
  <2>1. events # <<>> /\ events' = Tail(events) /\ events[1] = e
    BY <1>5, HandledEvent DEF HandleRequest
  <2>2. /\ r \in Requests /\ IsRequest(events[1]) /\ UNCHANGED serving
        /\ buffers' = buffers \cup {r} /\ httpQueue # NoQueue
    BY <1>5, <2>1, RequestHandled DEF IsRequest
  <2> HIDE DEF e
  <2>3. /\ 1 \in 1..n /\ response[r] = "sent"
        /\ \A i \in 2..n : IsRequest(events[i]) => events[i].request # r
    <3>1. 1 \in 1..n /\ r = events[1].request
      BY <1>handled, <2>1
    <3>2. /\ response[r] = "sent"
          /\ \A j \in 1..n : IsRequest(events[j]) /\ 1 # j => r # events[j].request
      BY <1>types, <2>2, <3>1 DEF OnePlace
    <3>3. \A i \in 2..n : i \in 1..n /\ 1 # i
      BY <1>types
    <3> QED BY <3>1, <3>2, <3>3
  <2>4. (\A i \in 1..w : Waiting[i].request # r) /\ (serving # NoRequest => serving.request # r)
    BY <1>types, <2>3 DEF OnePlace
  <2>5. ASSUME NEW status \in {"pending", "noEndpoint", "503"},
               response' = [response EXCEPT ![r] = status]
        PROVE  /\ response'[r] = status
               /\ \A o \in Requests \ {r} : response'[o] = response[o]
               /\ \A i \in 1..w : response'[Waiting[i].request] = response[Waiting[i].request]
               /\ serving # NoRequest => response'[serving.request] = response[serving.request]
               /\ \A i \in 1..(n - 1) : IsRequest(events'[i]) =>
                    /\ response'[events'[i].request] = "sent"
                    /\ \A j \in 1..(n - 1) :
                         IsRequest(events'[j]) /\ i # j => events'[i].request # events'[j].request
    <3>1. response'[r] = status /\ \A o \in Requests \ {r} : response'[o] = response[o]
      BY <1>types, <2>2, <2>5
    <3>2. \A i \in 1..(n - 1) : IsRequest(events'[i]) =>
            /\ i + 1 \in 2..n /\ IsRequest(events[i + 1]) /\ events'[i] = events[i + 1]
            /\ events[i + 1].request \in Requests \ {r}
      BY <1>types, <1>requests, <1>handled, <2>1, <2>3 DEF IsRequest
    <3>3. \A i \in 1..(n - 1) : IsRequest(events'[i]) => response'[events'[i].request] = "sent"
      BY <1>types, <1>handled, <2>1, <3>1, <3>2 DEF OnePlace
    <3>4. ASSUME NEW i \in 1..(n - 1), NEW j \in 1..(n - 1),
                 IsRequest(events'[i]), IsRequest(events'[j]), i # j
          PROVE  events'[i].request # events'[j].request
      <4>1. /\ i + 1 \in 1..n /\ j + 1 \in 1..n /\ i + 1 # j + 1
            /\ IsRequest(events[i + 1]) /\ IsRequest(events[j + 1])
        BY <1>types, <1>handled, <2>1, <3>2, <3>4
      <4> QED BY <1>types, <3>2, <3>4, <4>1 DEF OnePlace
    <3> QED BY <1>requests, <2>4, <3>1, <3>3, <3>4
  <2>6. DOMAIN events' = 1..(n - 1)
    BY <1>handled, <2>1
  <2>7. ASSUME UNCHANGED Waiting, NEW status \in {"noEndpoint", "503"},
               response' = [response EXCEPT ![r] = status]
        PROVE  OnePlace' /\ MemoryInv'
    <3>after. /\ response'[r] = status
              /\ \A o \in Requests \ {r} : response'[o] = response[o]
              /\ \A i \in 1..w : response'[Waiting[i].request] = response[Waiting[i].request]
              /\ serving # NoRequest => response'[serving.request] = response[serving.request]
              /\ \A i \in 1..(n - 1) : IsRequest(events'[i]) =>
                   /\ response'[events'[i].request] = "sent"
                   /\ \A j \in 1..(n - 1) :
                        IsRequest(events'[j]) /\ i # j => events'[i].request # events'[j].request
      BY <2>5, <2>7
    <3>1. OnePlace'
      <4>1. \A i \in DOMAIN events' : IsRequest(events'[i]) =>
              /\ response'[events'[i].request] = "sent"
              /\ \A j \in DOMAIN events' :
                   IsRequest(events'[j]) /\ i # j => events'[i].request # events'[j].request
        BY <2>6, <3>after
      <4>2. \A i \in DOMAIN Waiting :
              /\ response'[Waiting[i].request] = "pending"
              /\ \A j \in DOMAIN Waiting : i # j => Waiting[i].request # Waiting[j].request
              /\ serving # NoRequest => Waiting[i].request # serving.request
        BY <1>types, <3>after DEF OnePlace
      <4>3. serving # NoRequest => response'[serving.request] \in {"pending", "204"}
        BY <3>after DEF OnePlace
      <4>4. Waiting' = Waiting /\ serving' = serving
        BY <2>2, <2>7
      <4> QED BY <4>1, <4>2, <4>3, <4>4 DEF OnePlace, IsRequest
    <3>2. TurnedAway' = TurnedAway \cup {r}
      BY <2>2, <2>3, <2>7, <3>after DEF TurnedAway
    <3>3. Queued' = Queued /\ Served' = Served
      BY <2>2, <2>7 DEF Queued, Served
    <3> QED BY <2>2, <3>1, <3>2, <3>3 DEF MemoryInv
  <2>8. ASSUME NEW q \in Entries, q.request = r, Waiting' = Append(Waiting, q),
               response' = [response EXCEPT ![r] = "pending"]
        PROVE  OnePlace' /\ MemoryInv'
    <3>after. /\ response'[r] = "pending"
              /\ \A o \in Requests \ {r} : response'[o] = response[o]
              /\ \A i \in 1..w : response'[Waiting[i].request] = response[Waiting[i].request]
              /\ serving # NoRequest => response'[serving.request] = response[serving.request]
              /\ \A i \in 1..(n - 1) : IsRequest(events'[i]) =>
                   /\ response'[events'[i].request] = "sent"
                   /\ \A j \in 1..(n - 1) :
                        IsRequest(events'[j]) /\ i # j => events'[i].request # events'[j].request
      BY <2>5, <2>8
    <3>1. /\ DOMAIN Waiting' = 1..(w + 1) /\ Waiting'[w + 1] = q
          /\ \A i \in 1..w : Waiting'[i] = Waiting[i]
      BY <1>types, <2>8, Appended
    <3>2. \A i \in 1..(w + 1) :
            /\ response'[Waiting'[i].request] = "pending"
            /\ serving # NoRequest => Waiting'[i].request # serving.request
      <4>1. ASSUME NEW i \in 1..w
            PROVE  /\ response'[Waiting'[i].request] = "pending"
                   /\ serving # NoRequest => Waiting'[i].request # serving.request
        <5>1. /\ response[Waiting[i].request] = "pending"
              /\ serving # NoRequest => Waiting[i].request # serving.request
          BY <1>types DEF OnePlace
        <5> QED BY <3>1, <3>after, <5>1
      <4>2. /\ response'[Waiting'[w + 1].request] = "pending"
            /\ serving # NoRequest => Waiting'[w + 1].request # serving.request
        BY <2>4, <2>8, <3>1, <3>after
      <4> QED BY <1>types, <4>1, <4>2
    <3>3. \A i, j \in 1..(w + 1) : i # j => Waiting'[i].request # Waiting'[j].request
      BY <1>types, <2>4, <2>8, <3>1 DEF OnePlace
    <3>4. serving' # NoRequest => response'[serving'.request] \in {"pending", "204"}
      BY <2>2, <3>after DEF OnePlace
    <3>5. OnePlace'
      <4>1. \A i \in DOMAIN events' : IsRequest(events'[i]) =>
              /\ response'[events'[i].request] = "sent"
              /\ \A j \in DOMAIN events' :
                   IsRequest(events'[j]) /\ i # j => events'[i].request # events'[j].request
        BY <2>6, <3>after
      <4>2. \A i \in DOMAIN Waiting' :
              /\ response'[Waiting'[i].request] = "pending"
              /\ \A j \in DOMAIN Waiting' : i # j => Waiting'[i].request # Waiting'[j].request
              /\ serving' # NoRequest => Waiting'[i].request # serving'.request
        <5>1. DOMAIN Waiting' = 1..(w + 1) /\ serving' = serving
          BY <2>2, <3>1
        <5> QED BY <3>2, <3>3, <5>1
      <4> QED BY <3>4, <4>1, <4>2 DEF OnePlace, IsRequest
    <3>6. TurnedAway' = TurnedAway
      BY <2>3, <3>after DEF TurnedAway
    <3>7. Queued' = Queued \cup {r} /\ Served' = Served
      BY <1>types, <2>2, <2>8, <3>1 DEF Queued, Served
    <3> QED BY <2>2, <3>5, <3>6, <3>7 DEF MemoryInv
  <2> QED BY <1>5, <2>7, <2>8, RequestHandled DEF e
<1>6. CASE CreateQueue
  <2>1. UNCHANGED <<Waiting, serving, response, buffers, events>>
    BY <1>6, QueueCreated DEF CreateQueue, nwpVars
  <2> QED BY <2>1 DEF OnePlace, MemoryInv, Queued, Served, TurnedAway
<1>7. CASE ReceiveRequest
  <2>1. /\ serving = NoRequest /\ serving' = Waiting[1] /\ serving' \in Entries
        /\ Waiting # <<>> /\ Waiting' = Tail(Waiting)
    BY <1>7, <1>types, RequestReceived, Shifted
  <2>2. UNCHANGED <<response, buffers, events>>
    BY <1>7 DEF ReceiveRequest, nwpVars
  <2>3. /\ w \in Nat \ {0} /\ DOMAIN Waiting' = 1..(w - 1)
        /\ \A i \in 1..(w - 1) : Waiting'[i] = Waiting[i + 1] /\ i + 1 \in 2..w
    BY <1>types, <2>1, Shifted
  <2>4. response[serving'.request] = "pending"
    BY <1>types, <2>1, <2>3 DEF OnePlace
  <2>5. \A i \in 1..(w - 1) : response'[Waiting'[i].request] = "pending"
    BY <1>types, <2>2, <2>3 DEF OnePlace
  <2>6. \A i \in 1..(w - 1) : Waiting'[i].request # serving'.request
    BY <1>types, <2>1, <2>3 DEF OnePlace
  <2>7. ASSUME NEW i \in 1..(w - 1), NEW j \in 1..(w - 1), i # j
        PROVE  Waiting'[i].request # Waiting'[j].request
    <3>1. i + 1 \in 1..w /\ j + 1 \in 1..w /\ i + 1 # j + 1
      BY <1>types, <2>7
    <3>2. Waiting[i + 1].request # Waiting[j + 1].request
      BY <1>types, <3>1 DEF OnePlace
    <3> QED BY <2>3, <3>2
  <2>8. OnePlace'
    BY <2>2, <2>3, <2>4, <2>5, <2>6, <2>7 DEF OnePlace
  <2>9. Queued \cup Served = Queued' \cup Served'
    <3>1. Served = {} /\ Served' = {Waiting[1].request}
      BY <2>1, EntryFacts DEF Served
    <3>2. Queued' \cup {Waiting[1].request} \subseteq Queued
      <4>1. Waiting[1].request \in Queued
        BY <1>types, <2>3 DEF Queued
      <4>2. ASSUME NEW i \in 1..(w - 1) PROVE Waiting'[i].request \in Queued
        <5>1. Waiting'[i] = Waiting[i + 1] /\ i + 1 \in 1..w
          BY <2>3, <1>types
        <5> QED BY <1>types, <5>1 DEF Queued
      <4> QED BY <2>3, <4>1, <4>2 DEF Queued
    <3>3. ASSUME NEW i \in 1..w PROVE Waiting[i].request \in Queued' \cup {Waiting[1].request}
      <4>1. CASE i = 1
        BY <4>1
      <4>2. CASE i # 1
        <5>1. i - 1 \in 1..(w - 1) /\ (i - 1) + 1 = i
          BY <1>types, <4>2
        <5>2. Waiting'[i - 1].request = Waiting[i].request
          BY <2>3, <5>1
        <5> QED BY <2>3, <5>1, <5>2 DEF Queued
      <4> QED BY <4>1, <4>2
    <3> QED BY <1>types, <3>1, <3>2, <3>3 DEF Queued
  <2> QED BY <2>2, <2>8, <2>9 DEF MemoryInv, TurnedAway
<1>8. CASE ServeGet
  <2> DEFINE r == serving.request
  <2>1. /\ serving # NoRequest /\ UNCHANGED <<httpQueue, serving, buffers, events>>
        /\ response' = [response EXCEPT ![r] = "204"]
    BY <1>8 DEF ServeGet, QueueInv, nwpVars
  <2>2. UNCHANGED Waiting
    BY <2>1 DEF Waiting
  <2>3. /\ r \in Requests /\ response'[r] = "204" /\ response[r] \in {"pending", "204"}
        /\ \A o \in Requests \ {r} : response'[o] = response[o]
    BY <1>types, <1>requests, <2>1 DEF OnePlace
  <2>4. \A i \in 1..n : IsRequest(events[i]) => response'[events[i].request] = "sent"
    BY <1>types, <1>requests, <2>3 DEF OnePlace
  <2>5. \A i \in 1..w : response'[Waiting[i].request] = "pending"
    BY <1>types, <1>requests, <2>1, <2>3 DEF OnePlace
  <2>6. OnePlace'
    BY <1>types, <2>1, <2>2, <2>3, <2>4, <2>5 DEF OnePlace
  <2>7. TurnedAway' = TurnedAway
    BY <2>3 DEF TurnedAway
  <2> QED BY <2>1, <2>2, <2>6, <2>7 DEF MemoryInv, Queued, Served
<1>9. CASE ServeBadPut \/ ServePut
  <2>1. UNCHANGED <<requestVars, events>>
    BY <1>9 DEF ServeBadPut, ServePut, nwpVars
  <2> QED BY <1>1, <2>1
<1>10. CASE FreeRequest
  <2>1. /\ serving # NoRequest /\ serving' = NoRequest /\ buffers' = buffers \ {serving.request}
        /\ UNCHANGED <<httpQueue, response, events>>
    BY <1>10 DEF FreeRequest, Freed, QueueInv, nwpVars
  <2>2. UNCHANGED Waiting
    BY <2>1 DEF Waiting
  <2>3. OnePlace'
    BY <2>1, <2>2 DEF OnePlace
  <2>4. serving.request \notin Queued \cup TurnedAway
    BY <2>1 DEF OnePlace, Queued, TurnedAway
  <2>5. Served = {serving.request} /\ Served' = {} /\ Queued' = Queued /\ TurnedAway' = TurnedAway
    BY <2>1, <2>2 DEF Served, Queued, TurnedAway
  <2> QED BY <2>1, <2>3, <2>4, <2>5 DEF MemoryInv
<1> QED
  BY <1>1, <1>2, <1>3, <1>4, <1>5, <1>6, <1>7, <1>8, <1>9, <1>10, RequestFrame DEF HTTPStep

\* Nothing is freed twice, or while somebody has a pointer to it: the memory
\* held is always that of the requests queued or being served, and of those
\* turned away, which nobody ever frees.
THEOREM BuffersAlwaysMatch == Spec => []BuffersMatchRequests
<1>1. Init => OnePlace /\ MemoryInv
  BY DEF Init, OnePlace, MemoryInv, Queued, Served, TurnedAway, Waiting
<1>2. TypeOK /\ MemoryInv => BuffersMatchRequests
  BY LiveFacts DEF MemoryInv, BuffersMatchRequests, TurnedAway
<1> QED BY <1>1, <1>2, MemoryStep, QueueAlways, PTL DEF Spec
=============================================================================
