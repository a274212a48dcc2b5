-------------------------- MODULE TCPStreamManager --------------------------
(***************************************************************************)
(* HAPPlatformTCPStreamManager.c: a fixed table of TCP streams and one     *)
(* listener, each with a socket and a file handle of the run loop.  The    *)
(* run loop is here what FileHandles promises of it.                       *)
(*                                                                         *)
(* Everything runs on the main task, from callbacks of the run loop, which *)
(* select calls when a socket is ready; until the callback comes a client  *)
(* may have withdrawn its connection.  A socket call that has to wait, on  *)
(* a socket that is not nonblocking, blocks the main task.  The library    *)
(* answers an event with one call of Accept, Read or Write; CloseOutput    *)
(* shows only in how its sends end, which is open here.  A failure to open *)
(* or register is fatal.                                                   *)
(***************************************************************************)
EXTENDS Integers, FiniteSets

CONSTANTS
  Handles,       \* addresses of file handles
  Fds,           \* socket descriptors
  NoFd,          \* the descriptor -1
  NoHandle,      \* the file handle 0
  Listener,      \* the context of the listener's file handle
  maxTCPStreams  \* size of the table of streams

Slots == 1..maxTCPStreams
Kinds == {"read", "write"}

ASSUME StreamsAssumption ==
  /\ maxTCPStreams \in Nat \ {0}
  /\ NoFd \notin Fds
  /\ NoHandle \notin Handles
  /\ Listener \notin Slots

VARIABLES
  live, fileDescriptor, interests, callback, reported, running,  \* FileHandles
  context,       \* the context each file handle is registered with
  sockets,       \* descriptors of the open sockets
  listener,      \* tcpStreamListener
  tcpStreams,    \* the table; a free entry has descriptor -1
  numTCPStreams,
  released,      \* whether tcpStreams was freed
  openedFull,    \* history: the listener was opened with a full table, still so
  readable,      \* sockets with bytes, or the listener's with a connection
  blocking,      \* sockets that were not made nonblocking
  told,          \* the calls that the running callback was told can be served
  blocked,       \* the call the main task is blocked in, or NoCall
  mishaps        \* history: which of the two kinds of bad luck there were

handleVars == <<live, fileDescriptor, interests, callback, reported, running, context>>
streamVars == <<sockets, listener, tcpStreams, numTCPStreams, released, openedFull>>
socketVars == <<readable, blocking, told, blocked, mishaps>>
vars == <<handleVars, streamVars, socketVars>>

NoCall == <<NoFd, "none">>
Mishaps == {"withdrawn connection", "failed setsockopt"}

FH == INSTANCE FileHandles

ClosedListener == [fileDescriptor |-> NoFd, fileHandle |-> NoHandle]
ClosedStream == [fileDescriptor |-> NoFd, fileHandle |-> NoHandle,
                 interests |-> {}, callback |-> FALSE]

IsListenerOpen == listener # ClosedListener
Open == {i \in Slots : tcpStreams[i].fileDescriptor # NoFd}

Init ==
  /\ FH!Init
  /\ context = [h \in Handles |-> Listener]
  /\ sockets = {}
  /\ listener = ClosedListener
  /\ tcpStreams = [i \in Slots |-> ClosedStream]
  /\ numTCPStreams = 0
  /\ released = FALSE
  /\ openedFull = FALSE
  /\ readable = {} /\ blocking = {}
  /\ told = {} /\ blocked = NoCall
  /\ mishaps = {}

MainRuns == ~released /\ blocked = NoCall

\* Nothing is left of a socket that was closed.
SocketGone(fd) ==
  /\ readable' = readable \ {fd}
  /\ blocking' = blocking \ {fd}
  /\ told' = {c \in told : c[1] # fd}
  /\ UNCHANGED <<blocked, mishaps>>

-----------------------------------------------------------------------------
(* The listener *)

\* Whatever the table holds, the listener waits for connections.  Nobody
\* makes its socket nonblocking.
OpenListener(h, fd) ==
  /\ MainRuns
  /\ ~IsListenerOpen
  /\ fd \in Fds \ sockets
  /\ FH!FileHandleRegister(h, fd, {"read"}, TRUE)
  /\ context' = [context EXCEPT ![h] = Listener]
  /\ sockets' = sockets \cup {fd}
  /\ listener' = [fileDescriptor |-> fd, fileHandle |-> h]
  /\ openedFull' = (numTCPStreams = maxTCPStreams)
  /\ blocking' = blocking \cup {fd}
  /\ UNCHANGED <<tcpStreams, numTCPStreams, released, readable, told, blocked, mishaps>>

CloseListener ==
  /\ MainRuns
  /\ IsListenerOpen
  /\ FH!FileHandleDeregister(listener.fileHandle)
  /\ sockets' = sockets \ {listener.fileDescriptor}
  /\ listener' = ClosedListener
  /\ openedFull' = FALSE
  /\ SocketGone(listener.fileDescriptor)
  /\ UNCHANGED <<context, tcpStreams, numTCPStreams, released>>

-----------------------------------------------------------------------------
(* Streams *)

FirstFree(i) == i \in Slots \ Open /\ \A j \in 1..(i - 1) : j \in Open

\* The call was announced, and is not held up by another that blocks.
Calls(call) == call \in told /\ blocked \in {NoCall, call}

Answered(call) == told' = told \ {call} /\ blocked' = NoCall

\* It has to wait, on a socket that lets it.
Blocks(call) ==
  /\ call[1] \in blocking
  /\ blocked' = call
  /\ UNCHANGED <<handleVars, streamVars, readable, blocking, told, mishaps>>

ConnectionWaiting == <<listener.fileDescriptor, "read">>

\* Mutant: the socket of a stream is left blocking.
StayBlocking(fd) == blocking' = blocking \cup {fd} /\ UNCHANGED mishaps

\* That the option cannot be set is logged.
SetNonblocking(fd) ==
  \/ UNCHANGED <<blocking, mishaps>>
  \/ /\ "failed setsockopt" \notin mishaps
     /\ mishaps' = mishaps \cup {"failed setsockopt"}
     /\ blocking' = blocking \cup {fd}

\* The stream's handle is registered with no interests; the last free slot
\* taken, the listener stops waiting for connections.
AcceptTCPStream(i, h, fd) ==
  /\ ~released
  /\ IsListenerOpen
  /\ Calls(ConnectionWaiting)
  /\ numTCPStreams # maxTCPStreams
  /\ listener.fileDescriptor \in readable
  /\ FirstFree(i)
  /\ fd \in Fds \ sockets
  /\ h \in Handles \ live
  /\ live' = live \cup {h}
  /\ fileDescriptor' = [fileDescriptor EXCEPT ![h] = fd]
  /\ callback' = [callback EXCEPT ![h] = TRUE]
  /\ context' = [context EXCEPT ![h] = i]
  /\ sockets' = sockets \cup {fd}
  /\ tcpStreams' = [tcpStreams EXCEPT ![i].fileDescriptor = fd, ![i].fileHandle = h]
  /\ numTCPStreams' = numTCPStreams + 1
  /\ interests' = [interests EXCEPT ![h] = {},
       ![listener.fileHandle] = IF maxTCPStreams - numTCPStreams' = 0 THEN {} ELSE @]
  /\ readable' \in {readable, readable \ {listener.fileDescriptor}}
  /\ SetNonblocking(fd)
  /\ Answered(ConnectionWaiting)
  /\ UNCHANGED <<reported, running, listener, released, openedFull>>

\* The table is full, or accept fails.
AcceptFails ==
  /\ MainRuns
  /\ Calls(ConnectionWaiting)
  /\ Answered(ConnectionWaiting)
  /\ UNCHANGED <<handleVars, streamVars, readable, blocking, mishaps>>

\* The connection is gone, and the table has room for the next.
AcceptBlocks ==
  /\ MainRuns
  /\ Calls(ConnectionWaiting)
  /\ numTCPStreams # maxTCPStreams
  /\ listener.fileDescriptor \notin readable
  /\ Blocks(ConnectionWaiting)

\* Mutant: the table is looked at before the stream is taken off the count.
LateResume == IsListenerOpen /\ maxTCPStreams - numTCPStreams = 1

\* One slot is free again: the listener waits for connections again.
Resume == IsListenerOpen /\ maxTCPStreams - (numTCPStreams - 1) = 1

\* Mutant: events reported to a handle outlive it.
StaleReport(h) ==
  /\ live' = live \ {h}
  /\ fileDescriptor' = [fileDescriptor EXCEPT ![h] = NoFd]
  /\ callback' = [callback EXCEPT ![h] = FALSE]
  /\ UNCHANGED reported

\* Mutant: the handle is left registered when its stream closes.
LeakHandle(h) == UNCHANGED <<live, fileDescriptor, callback, reported>>

DeregisterHandle(h) ==
  /\ live' = live \ {h}
  /\ fileDescriptor' = [fileDescriptor EXCEPT ![h] = NoFd]
  /\ callback' = [callback EXCEPT ![h] = FALSE]
  /\ reported' = reported \ FH!ReportedTo(h)

Close(i) ==
  LET h == tcpStreams[i].fileHandle IN
  /\ MainRuns
  /\ i \in Open
  /\ DeregisterHandle(h)
  /\ sockets' = sockets \ {tcpStreams[i].fileDescriptor}
  /\ tcpStreams' = [tcpStreams EXCEPT ![i] = ClosedStream]
  /\ numTCPStreams' = numTCPStreams - 1
  /\ openedFull' = FALSE
  /\ SocketGone(tcpStreams[i].fileDescriptor)
  /\ interests' = [g \in Handles |->
       IF g = h THEN {} ELSE IF g = listener.fileHandle /\ Resume THEN {"read"} ELSE interests[g]]
  /\ UNCHANGED <<running, context, listener, released>>

\* Mutant: the stream remembers no callback.
NoCallback(kinds, hasCallback) == FALSE

StreamCallback(kinds, hasCallback) == hasCallback

\* Callers give a callback with any interest.
UpdateInterests(i, kinds, hasCallback) ==
  /\ MainRuns
  /\ i \in Open
  /\ kinds # {} => hasCallback
  /\ tcpStreams' = [tcpStreams EXCEPT ![i].interests = kinds,
                                      ![i].callback = StreamCallback(kinds, hasCallback)]
  /\ FH!FileHandleUpdateInterests(tcpStreams[i].fileHandle, kinds, TRUE)
  /\ UNCHANGED <<context, sockets, listener, numTCPStreams, released, openedFull, socketVars>>

\* Bytes are read, all or some; or there are none, or recv fails.
Read(i) ==
  LET fd == tcpStreams[i].fileDescriptor
      call == <<fd, "read">>
  IN /\ ~released
     /\ Calls(call)
     /\ \/ /\ fd \in readable \/ fd \notin blocking
           /\ readable' \in {readable, readable \ {fd}}
           /\ Answered(call)
           /\ UNCHANGED <<handleVars, streamVars, blocking, mishaps>>
        \/ blocked = NoCall /\ fd \notin readable /\ Blocks(call)

\* send blocks when the space is less than what it is given.
Write(i) ==
  LET call == <<tcpStreams[i].fileDescriptor, "write">>
  IN /\ ~released
     /\ Calls(call)
     /\ \/ /\ Answered(call)
           /\ UNCHANGED <<handleVars, streamVars, readable, blocking, mishaps>>
        \/ blocked = NoCall /\ Blocks(call)

-----------------------------------------------------------------------------
(* Events, and the end *)

\* The run loop selects and hands over events until it is left, after which
\* the table is freed, whatever streams are open.
Select ==
  /\ MainRuns
  /\ FH!Select
  /\ \A e \in reported' : e[2] = "read" => fileDescriptor[e[1]] \in readable
  /\ UNCHANGED <<context, streamVars, socketVars>>

Drop(h) == MainRuns /\ FH!Drop(h) /\ UNCHANGED <<context, streamVars, socketVars>>

Tells(fd, events) ==
  /\ told' = {fd} \X events
  /\ UNCHANGED <<readable, blocking, blocked, mishaps>>

ListenerFileHandleCallback(h, events) ==
  /\ MainRuns
  /\ context[h] = Listener
  /\ FH!Dispatch(h, events)
  /\ Tells(listener.fileDescriptor, events)
  /\ UNCHANGED <<context, streamVars>>

StreamFileHandleCallback(h, events) ==
  LET s == tcpStreams[context[h]] IN
  /\ MainRuns
  /\ context[h] # Listener
  /\ FH!Dispatch(h, events)
  /\ Tells(s.fileDescriptor, s.interests \cap events)
  /\ UNCHANGED <<context, streamVars>>

CallbackReturns ==
  /\ MainRuns
  /\ FH!CallbackReturns
  /\ told' = {}
  /\ UNCHANGED <<context, streamVars, readable, blocking, blocked, mishaps>>

Release ==
  /\ MainRuns
  /\ ~running
  /\ released' = TRUE
  /\ UNCHANGED <<handleVars, sockets, listener, tcpStreams, numTCPStreams, openedFull, socketVars>>

-----------------------------------------------------------------------------
(* The network: a client connects, sends, or withdraws *)

SocketBecomesReadable(fd) ==
  /\ fd \in sockets \ readable
  /\ readable' = readable \cup {fd}
  /\ UNCHANGED <<handleVars, streamVars, blocking, told, blocked, mishaps>>

ClientWithdraws ==
  /\ "withdrawn connection" \notin mishaps
  /\ listener.fileDescriptor \in readable
  /\ mishaps' = mishaps \cup {"withdrawn connection"}
  /\ readable' = readable \ {listener.fileDescriptor}
  /\ UNCHANGED <<handleVars, streamVars, blocking, told, blocked>>

Next ==
  \/ \E h \in Handles, fd \in Fds :
       OpenListener(h, fd) \/ \E i \in Slots : AcceptTCPStream(i, h, fd)
  \/ CloseListener
  \/ \E i \in Slots :
       \/ Close(i) \/ Read(i) \/ Write(i)
       \/ \E kinds \in SUBSET Kinds, cb \in BOOLEAN : UpdateInterests(i, kinds, cb)
  \/ AcceptFails \/ AcceptBlocks
  \/ Select
  \/ \E h \in Handles :
       \/ Drop(h)
       \/ \E events \in SUBSET Kinds :
            ListenerFileHandleCallback(h, events) \/ StreamFileHandleCallback(h, events)
  \/ CallbackReturns
  \/ Release
  \/ \E fd \in Fds : SocketBecomesReadable(fd)
  \/ ClientWithdraws

Spec == Init /\ [][Next]_vars

-----------------------------------------------------------------------------
(* Properties *)

TypeOK ==
  /\ live \subseteq Handles
  /\ fileDescriptor \in [Handles -> Fds \cup {NoFd}]
  /\ interests \in [Handles -> SUBSET Kinds]
  /\ callback \in [Handles -> BOOLEAN]
  /\ reported \subseteq live \X Kinds
  /\ running \in BOOLEAN
  /\ context \in [Handles -> Slots \cup {Listener}]
  /\ sockets \subseteq Fds
  /\ listener \in [fileDescriptor : Fds \cup {NoFd}, fileHandle : Handles \cup {NoHandle}]
  /\ tcpStreams \in [Slots -> [fileDescriptor : Fds \cup {NoFd},
                               fileHandle : Handles \cup {NoHandle},
                               interests : SUBSET Kinds, callback : BOOLEAN]]
  /\ numTCPStreams \in 0..maxTCPStreams
  /\ released \in BOOLEAN
  /\ openedFull \in BOOLEAN
  /\ readable \subseteq sockets /\ blocking \subseteq sockets
  /\ told \subseteq sockets \X Kinds
  /\ blocked \in told \cup {NoCall}
  /\ mishaps \subseteq Mishaps

\* A handle and the table entry (or the listener) it belongs to agree.
Owns(owner, h) ==
  /\ owner.fileHandle = h
  /\ owner.fileDescriptor = fileDescriptor[h]
  /\ owner.fileDescriptor \in sockets

\* Table, registrations and sockets match one to one: an open stream or
\* listener has a live handle that leads back to it, every live handle
\* belongs to one, the count is right, and no socket is left open.
StreamsMatchRegistrations ==
  /\ numTCPStreams = Cardinality(Open)
  /\ \A i \in Open : tcpStreams[i].fileHandle \in live /\ context[tcpStreams[i].fileHandle] = i
  /\ IsListenerOpen => listener.fileHandle \in live /\ context[listener.fileHandle] = Listener
  /\ \A h \in live :
       IF context[h] = Listener THEN Owns(listener, h) ELSE Owns(tcpStreams[context[h]], h)
  /\ \A fd \in sockets : \E h \in live : fileDescriptor[h] = fd

\* An open listener waits for connections while the table has a free entry,
\* and with none left only when it was opened with none, from then until a
\* stream closes: it is never deaf with room left, and woken by connections
\* that nobody can accept only after an opening that did not look.
ListenerWaitsWhileThereIsRoom ==
  IsListenerOpen =>
    interests[listener.fileHandle] =
      IF numTCPStreams < maxTCPStreams \/ openedFull THEN {"read"} ELSE {}

\* The main task, which serves everything else, is blocked in accept only
\* because a client withdrew between select and accept (the listener's socket
\* is blocking, though AcceptTCPStream reckons with EAGAIN), and in recv or
\* send only because SetNonblocking failed, which is ignored.
MainTaskBlocksOnlyByMishap ==
  blocked # NoCall =>
    IF blocked = ConnectionWaiting THEN "withdrawn connection" \in mishaps
                                   ELSE "failed setsockopt" \in mishaps

\* The assertions of the two file handle callbacks: what an event is handed
\* to is open, has this handle, and wants the event.
CallbacksFindTheirStream ==
  [][\A h \in Handles, events \in SUBSET Kinds :
       /\ ListenerFileHandleCallback(h, events) =>
            listener.fileHandle = h /\ listener.fileDescriptor # NoFd /\ "read" \in events
       /\ StreamFileHandleCallback(h, events) =>
            LET s == tcpStreams[context[h]] IN
            /\ s.fileHandle = h
            /\ s.fileDescriptor # NoFd
            /\ events \cap s.interests # {}
            /\ s.callback]_vars
=============================================================================
