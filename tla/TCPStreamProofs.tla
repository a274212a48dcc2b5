-------------------------- MODULE TCPStreamProofs --------------------------
(***************************************************************************)
(* Theorems about TCPStreamManager, for every size of the table and every  *)
(* set of handles and descriptors, over what FileHandles promises.         *)
(***************************************************************************)
EXTENDS TCPStreamManager, FiniteSetTheorems, TLAPS

(***************************************************************************)
(* Table, sockets and registrations.                                       *)
(***************************************************************************)

TableTyped ==
  /\ live \subseteq Handles
  /\ fileDescriptor \in [Handles -> Fds \cup {NoFd}]
  /\ interests \in [Handles -> SUBSET Kinds]
  /\ callback \in [Handles -> BOOLEAN]
  /\ reported \subseteq live \X Kinds
  /\ running \in BOOLEAN
  /\ context \in [Handles -> Slots \cup {Listener}]
  /\ sockets \subseteq Fds
  /\ listener \in [fileDescriptor : Fds \cup {NoFd}, fileHandle : Handles \cup {NoHandle}]
  /\ tcpStreams \in [Slots -> [fileDescriptor : Fds \cup {NoFd},
                               fileHandle : Handles \cup {NoHandle},
                               interests : SUBSET Kinds, callback : BOOLEAN]]
  /\ numTCPStreams \in 0..maxTCPStreams
  /\ released \in BOOLEAN
  /\ openedFull \in BOOLEAN

\* No two live handles have the same descriptor.
DescriptorsDistinct ==
  \A g, h \in live : fileDescriptor[g] = fileDescriptor[h] => g = h

\* A stream's handle is registered with the stream's own interests, and with
\* a callback; the stream has one as well when it has interests.
RegisteredAsAsked ==
  \A i \in Slots :
    IF i \in Open
    THEN /\ interests[tcpStreams[i].fileHandle] = tcpStreams[i].interests
         /\ tcpStreams[i].interests # {} => tcpStreams[i].callback
    ELSE tcpStreams[i] = ClosedStream

\* The table stays full as long as the listener counts as opened so.
OpenedWhileFull == openedFull => numTCPStreams = maxTCPStreams

TableInv ==
  /\ TableTyped
  /\ StreamsMatchRegistrations
  /\ DescriptorsDistinct
  /\ RegisteredAsAsked
  /\ OpenedWhileFull
  /\ ListenerWaitsWhileThereIsRoom

\* What the invariant says of one open stream.
LEMMA OpenStream ==
  ASSUME TableInv, NEW i \in Open
  PROVE  /\ i \in Slots /\ i # Listener
         /\ tcpStreams[i].fileHandle \in live /\ tcpStreams[i].fileHandle \in Handles
         /\ context[tcpStreams[i].fileHandle] = i
         /\ fileDescriptor[tcpStreams[i].fileHandle] = tcpStreams[i].fileDescriptor
         /\ tcpStreams[i].fileDescriptor \in sockets
         /\ tcpStreams[i].fileDescriptor \in Fds
         /\ \A j \in Open \ {i} : /\ tcpStreams[j].fileHandle # tcpStreams[i].fileHandle
                                  /\ tcpStreams[j].fileDescriptor # tcpStreams[i].fileDescriptor
<1>1. \A j \in Open :
        /\ j \in Slots /\ j # Listener
        /\ tcpStreams[j].fileHandle \in live /\ tcpStreams[j].fileHandle \in Handles
        /\ context[tcpStreams[j].fileHandle] = j
        /\ fileDescriptor[tcpStreams[j].fileHandle] = tcpStreams[j].fileDescriptor
        /\ tcpStreams[j].fileDescriptor \in sockets
        /\ tcpStreams[j].fileDescriptor \in Fds
  BY StreamsAssumption DEF TableInv, TableTyped, StreamsMatchRegistrations, Owns, Open
<1>2. \A j \in Open : tcpStreams[j].fileHandle = tcpStreams[i].fileHandle => j = i
  BY <1>1
<1>3. \A j \in Open : tcpStreams[j].fileDescriptor = tcpStreams[i].fileDescriptor => j = i
  BY <1>1, <1>2 DEF TableInv, DescriptorsDistinct
<1> QED BY <1>1, <1>2, <1>3

\* And of the listener, whose socket and handle are no stream's.
LEMMA OpenListenerIsRegistered ==
  ASSUME TableInv, IsListenerOpen
  PROVE  /\ listener.fileHandle \in live /\ listener.fileHandle \in Handles
         /\ context[listener.fileHandle] = Listener
         /\ fileDescriptor[listener.fileHandle] = listener.fileDescriptor
         /\ listener.fileDescriptor \in sockets
         /\ listener.fileDescriptor \in Fds
         /\ \A j \in Open : /\ tcpStreams[j].fileHandle # listener.fileHandle
                            /\ tcpStreams[j].fileDescriptor # listener.fileDescriptor
<1>1. /\ listener.fileHandle \in live /\ listener.fileHandle \in Handles
      /\ context[listener.fileHandle] = Listener
      /\ fileDescriptor[listener.fileHandle] = listener.fileDescriptor
      /\ listener.fileDescriptor \in sockets
      /\ listener.fileDescriptor \in Fds
  BY DEF TableInv, TableTyped, StreamsMatchRegistrations, Owns
<1>2. ASSUME NEW j \in Open
      PROVE  /\ tcpStreams[j].fileHandle # listener.fileHandle
             /\ tcpStreams[j].fileDescriptor # listener.fileDescriptor
  <2>1. tcpStreams[j].fileHandle # listener.fileHandle
    BY <1>1, OpenStream
  <2> QED BY <2>1, <1>1, OpenStream DEF TableInv, DescriptorsDistinct
<1> QED BY <1>1, <1>2

\* Each live handle belongs to an open stream or to the open listener.
LEMMA LiveHandleIsOwned ==
  ASSUME TableInv, NEW h \in live
  PROVE  IF context[h] = Listener
         THEN /\ IsListenerOpen /\ listener.fileHandle = h
              /\ listener.fileDescriptor = fileDescriptor[h]
         ELSE /\ context[h] \in Open /\ tcpStreams[context[h]].fileHandle = h
              /\ tcpStreams[context[h]].fileDescriptor = fileDescriptor[h]
<1> h \in Handles /\ NoFd \notin sockets
  BY StreamsAssumption DEF TableInv, TableTyped
<1>1. CASE context[h] = Listener
  BY <1>1 DEF TableInv, StreamsMatchRegistrations, Owns, IsListenerOpen, ClosedListener
<1>2. CASE context[h] # Listener
  BY <1>2 DEF TableInv, TableTyped, StreamsMatchRegistrations, Owns, Open
<1> QED BY <1>1, <1>2

LEMMA OpenIsFinite == IsFiniteSet(Open) /\ Cardinality(Open) \in Nat
<1>1. IsFiniteSet(Slots)
  BY StreamsAssumption, FS_Interval DEF Slots
<1>2. IsFiniteSet(Open)
  BY <1>1, FS_Subset DEF Open
<1> QED BY <1>2, FS_CardinalityType

LEMMA TableInit == Init => TableInv
<1> SUFFICES ASSUME Init PROVE TableInv
  OBVIOUS
<1>1. Open = {} /\ ~IsListenerOpen /\ live = {}
  BY DEF Init, FH!Init, Open, ClosedStream, IsListenerOpen
<1>2. TableTyped
  <2>1. /\ listener \in [fileDescriptor : Fds \cup {NoFd}, fileHandle : Handles \cup {NoHandle}]
        /\ tcpStreams \in [Slots -> [fileDescriptor : Fds \cup {NoFd},
                                    fileHandle : Handles \cup {NoHandle},
                                    interests : SUBSET Kinds, callback : BOOLEAN]]
    BY DEF Init, ClosedListener, ClosedStream
  <2>2. numTCPStreams \in 0..maxTCPStreams
    BY StreamsAssumption DEF Init
  <2> QED BY <2>1, <2>2 DEF Init, FH!Init, TableTyped
<1>3. StreamsMatchRegistrations
  BY <1>1, FS_EmptySet DEF Init, StreamsMatchRegistrations
<1> QED
  BY <1>1, <1>2, <1>3
  DEF Init, TableInv, DescriptorsDistinct, RegisteredAsAsked, OpenedWhileFull,
      ListenerWaitsWhileThereIsRoom, Open

LEMMA OpenListenerKeepsTable ==
  ASSUME TableInv, NEW h \in Handles, NEW fd \in Fds, OpenListener(h, fd)
  PROVE  TableInv'
<1>1. /\ live' = live \cup {h} /\ h \notin live
      /\ sockets' = sockets \cup {fd} /\ fd \notin sockets
      /\ tcpStreams' = tcpStreams /\ numTCPStreams' = numTCPStreams
      /\ Open' = Open /\ ~IsListenerOpen /\ openedFull' = (numTCPStreams = maxTCPStreams)
      /\ listener' = [fileDescriptor |-> fd, fileHandle |-> h]
      /\ \A g \in Handles : /\ fileDescriptor'[g] = IF g = h THEN fd ELSE fileDescriptor[g]
                            /\ interests'[g] = IF g = h THEN {"read"} ELSE interests[g]
                            /\ context'[g] = IF g = h THEN Listener ELSE context[g]
  BY DEF TableInv, OpenListener, FH!FileHandleRegister, TableTyped, Open
<1>2. IsListenerOpen'
  BY <1>1, StreamsAssumption DEF IsListenerOpen, ClosedListener
<1>3. TableTyped'
  BY DEF TableInv, OpenListener, FH!FileHandleRegister, TableTyped, Kinds
<1>4. \A g \in live : /\ g # h /\ g \in Handles /\ context[g] # Listener
                      /\ fileDescriptor[g] \in sockets
  BY <1>1, LiveHandleIsOwned, OpenStream DEF TableInv, TableTyped
<1>5. StreamsMatchRegistrations'
  <2>1. ASSUME NEW i \in Open
        PROVE  tcpStreams[i].fileHandle \in live' /\ context'[tcpStreams[i].fileHandle] = i
    BY <1>1, <1>4, OpenStream
  <2>2. ASSUME NEW g \in live'
        PROVE  IF context'[g] = Listener THEN Owns(listener, g)'
                                         ELSE Owns(tcpStreams[context[g]], g)'
    <3>1. CASE g = h
      BY <1>1, <3>1 DEF Owns
    <3>2. CASE g # h
      BY <1>1, <1>4, <3>2, LiveHandleIsOwned DEF Owns
    <3> QED BY <3>1, <3>2
  <2>3. \A d \in sockets' : \E g \in live' : fileDescriptor'[g] = d
    BY <1>1, <1>4 DEF TableInv, TableTyped, StreamsMatchRegistrations
  <2> QED BY <1>1, <2>1, <2>2, <2>3 DEF TableInv, StreamsMatchRegistrations
<1>6. DescriptorsDistinct'
  BY <1>1, <1>4 DEF TableInv, DescriptorsDistinct
<1>7. RegisteredAsAsked'
  BY <1>1, <1>4, OpenStream DEF TableInv, RegisteredAsAsked
<1>8. OpenedWhileFull' /\ ListenerWaitsWhileThereIsRoom'
  <2>1. numTCPStreams < maxTCPStreams \/ numTCPStreams = maxTCPStreams
    BY StreamsAssumption DEF TableInv, TableTyped
  <2> QED BY <1>1, <2>1 DEF OpenedWhileFull, ListenerWaitsWhileThereIsRoom
<1> QED BY <1>3, <1>5, <1>6, <1>7, <1>8 DEF TableInv

LEMMA CloseListenerKeepsTable ==
  ASSUME TableInv, CloseListener
  PROVE  TableInv'
<1> DEFINE h == listener.fileHandle
<1>1. /\ live' = live \ {h} /\ h \in live
      /\ sockets' = sockets \ {listener.fileDescriptor}
      /\ tcpStreams' = tcpStreams /\ numTCPStreams' = numTCPStreams
      /\ Open' = Open /\ context' = context /\ IsListenerOpen
      /\ \A g \in Handles \ {h} : /\ fileDescriptor'[g] = fileDescriptor[g]
                                  /\ interests'[g] = interests[g]
  BY DEF TableInv, CloseListener, FH!FileHandleDeregister, FH!ReportedTo, TableTyped, Open
<1>2. ~IsListenerOpen'
  BY DEF CloseListener, FH!FileHandleDeregister, FH!ReportedTo, IsListenerOpen, ClosedListener
<1>3. TableTyped'
  BY StreamsAssumption
  DEF TableInv, CloseListener, FH!FileHandleDeregister, FH!ReportedTo, TableTyped, ClosedListener
<1>4. \A g \in live' : /\ g \in Handles /\ g \in live /\ g # h /\ context[g] # Listener
                       /\ fileDescriptor[g] # listener.fileDescriptor
                       /\ fileDescriptor[g] \in sockets
  BY <1>1, LiveHandleIsOwned, OpenListenerIsRegistered, OpenStream DEF TableInv, TableTyped
<1>5. StreamsMatchRegistrations'
  <2>1. ASSUME NEW i \in Open
        PROVE  tcpStreams[i].fileHandle \in live' /\ context'[tcpStreams[i].fileHandle] = i
    BY <1>1, OpenStream, OpenListenerIsRegistered
  <2>2. ASSUME NEW g \in live'
        PROVE  context'[g] # Listener /\ Owns(tcpStreams[context[g]], g)'
    BY <1>1, <1>4, LiveHandleIsOwned DEF Owns
  <2>3. ASSUME NEW d \in sockets' PROVE \E g \in live' : fileDescriptor'[g] = d
    BY <1>1, OpenListenerIsRegistered DEF TableInv, StreamsMatchRegistrations, TableTyped
  <2> QED BY <1>1, <1>2, <2>1, <2>2, <2>3 DEF TableInv, StreamsMatchRegistrations
<1>6. DescriptorsDistinct'
  BY <1>1, <1>4 DEF TableInv, DescriptorsDistinct
<1>7. RegisteredAsAsked'
  BY <1>1, OpenStream, OpenListenerIsRegistered DEF TableInv, RegisteredAsAsked
<1>8. OpenedWhileFull' /\ ListenerWaitsWhileThereIsRoom'
  BY <1>2 DEF CloseListener, OpenedWhileFull, ListenerWaitsWhileThereIsRoom
<1> QED BY <1>3, <1>5, <1>6, <1>7, <1>8 DEF TableInv

LEMMA AcceptKeepsTable ==
  ASSUME TableInv, NEW i \in Slots, NEW h \in Handles, NEW fd \in Fds, AcceptTCPStream(i, h, fd)
  PROVE  TableInv'
<1> DEFINE lh == listener.fileHandle
<1>1. /\ live' = live \cup {h} /\ h \notin live
      /\ sockets' = sockets \cup {fd} /\ fd \notin sockets
      /\ i \notin Open /\ i # Listener
      /\ \A j \in Slots \ {i} : tcpStreams'[j] = tcpStreams[j]
      /\ tcpStreams[i] = ClosedStream
      /\ tcpStreams'[i] = [ClosedStream EXCEPT !.fileDescriptor = fd, !.fileHandle = h]
      /\ listener' = listener /\ IsListenerOpen /\ openedFull' = openedFull /\ ~openedFull
      /\ \A g \in Handles : /\ fileDescriptor'[g] = IF g = h THEN fd ELSE fileDescriptor[g]
                            /\ context'[g] = IF g = h THEN i ELSE context[g]
  BY StreamsAssumption
  DEF TableInv, AcceptTCPStream, TableTyped, FirstFree, RegisteredAsAsked, OpenedWhileFull
<1>2. /\ tcpStreams'[i].fileDescriptor = fd /\ tcpStreams'[i].fileHandle = h
      /\ tcpStreams'[i].interests = {}
      /\ Open' = Open \cup {i}
  <2>1. /\ tcpStreams'[i].fileDescriptor = fd /\ tcpStreams'[i].fileHandle = h
        /\ tcpStreams'[i].interests = {}
    BY <1>1 DEF ClosedStream
  <2>2. fd # NoFd
    BY StreamsAssumption
  <2>3. \A j \in Slots : tcpStreams'[j].fileDescriptor # NoFd <=> j \in Open \cup {i}
    BY <1>1, <2>1, <2>2 DEF Open
  <2>4. Open' = {j \in Slots : tcpStreams'[j].fileDescriptor # NoFd}
    BY DEF Open
  <2>5. Open \subseteq Slots
    BY DEF Open
  <2> QED BY <2>1, <2>3, <2>4, <2>5
<1>3. /\ numTCPStreams < maxTCPStreams /\ numTCPStreams' = numTCPStreams + 1
      /\ numTCPStreams \in Nat /\ maxTCPStreams \in Nat
  <2>1. /\ numTCPStreams # maxTCPStreams /\ numTCPStreams' = numTCPStreams + 1
        /\ numTCPStreams \in 0..maxTCPStreams
    BY DEF TableInv, AcceptTCPStream, TableTyped
  <2> QED BY <2>1, StreamsAssumption
<1>4. \A g \in Handles :
        interests'[g] = IF g = lh THEN IF numTCPStreams' < maxTCPStreams THEN {"read"} ELSE {}
                        ELSE IF g = h THEN {} ELSE interests[g]
  <2>1. \A g \in Handles :
          interests'[g] = IF g = lh
                          THEN IF maxTCPStreams - numTCPStreams' = 0 THEN {} ELSE interests[g]
                          ELSE IF g = h THEN {} ELSE interests[g]
    BY <1>1, OpenListenerIsRegistered DEF TableInv, TableTyped, AcceptTCPStream
  <2>2. interests[lh] = {"read"}
    BY <1>1, <1>3 DEF TableInv, ListenerWaitsWhileThereIsRoom
  <2>3. maxTCPStreams - numTCPStreams' = 0 <=> ~(numTCPStreams' < maxTCPStreams)
    BY <1>3
  <2> QED BY <2>1, <2>2, <2>3
<1>5. TableTyped'
  <2>1. tcpStreams' \in [Slots -> [fileDescriptor : Fds \cup {NoFd},
                                   fileHandle : Handles \cup {NoHandle},
                                   interests : SUBSET Kinds, callback : BOOLEAN]]
    <3>1. tcpStreams'[i] = [fileDescriptor |-> fd, fileHandle |-> h,
                            interests |-> {}, callback |-> FALSE]
      BY <1>1 DEF ClosedStream
    <3>2. tcpStreams' = [j \in Slots |-> tcpStreams'[j]]
      BY DEF TableInv, TableTyped, AcceptTCPStream
    <3>3. tcpStreams'[i] \in [fileDescriptor : Fds \cup {NoFd},
                              fileHandle : Handles \cup {NoHandle},
                              interests : SUBSET Kinds, callback : BOOLEAN]
      BY <3>1
    <3> QED BY <1>1, <3>2, <3>3 DEF TableInv, TableTyped
  <2>2. interests' \in [Handles -> SUBSET Kinds]
    BY DEF TableInv, TableTyped, AcceptTCPStream
  <2> QED BY <1>1, <1>3, <2>1, <2>2 DEF TableInv, TableTyped, AcceptTCPStream
<1>6. \A g \in live : g # h /\ g \in Handles /\ fileDescriptor[g] \in sockets
  BY <1>1, LiveHandleIsOwned, OpenStream, OpenListenerIsRegistered DEF TableInv, TableTyped
<1>7. StreamsMatchRegistrations'
  <2>1. numTCPStreams' = Cardinality(Open')
    BY <1>1, <1>2, <1>3, OpenIsFinite, FS_AddElement DEF TableInv, StreamsMatchRegistrations
  <2>2. ASSUME NEW j \in Open'
        PROVE  tcpStreams'[j].fileHandle \in live' /\ context'[tcpStreams'[j].fileHandle] = j
    <3>1. CASE j = i
      BY <1>1, <1>2, <3>1
    <3>2. CASE j # i
      BY <1>1, <1>2, <1>6, <3>2, OpenStream
    <3> QED BY <3>1, <3>2
  <2>3. listener.fileHandle \in live' /\ context'[listener.fileHandle] = Listener
    BY <1>1, <1>6, OpenListenerIsRegistered
  <2>4. ASSUME NEW g \in live'
        PROVE  IF context'[g] = Listener THEN Owns(listener, g)'
                                         ELSE Owns(tcpStreams[context[g]], g)'
    <3>1. CASE g = h
      BY <1>1, <1>2, <3>1 DEF Owns
    <3>2. CASE g # h
      <4>1. g \in live /\ context'[g] = context[g] /\ fileDescriptor'[g] = fileDescriptor[g]
        BY <1>1, <1>6, <3>2
      <4>2. context[g] \in Open => tcpStreams'[context[g]] = tcpStreams[context[g]]
        BY <1>1 DEF Open
      <4> QED BY <1>1, <1>6, <4>1, <4>2, LiveHandleIsOwned DEF Owns
    <3> QED BY <3>1, <3>2
  <2>5. \A d \in sockets' : \E g \in live' : fileDescriptor'[g] = d
    BY <1>1, <1>6 DEF TableInv, StreamsMatchRegistrations
  <2> QED BY <1>1, <2>1, <2>2, <2>3, <2>4, <2>5 DEF StreamsMatchRegistrations
<1>8. DescriptorsDistinct'
  BY <1>1, <1>6 DEF TableInv, DescriptorsDistinct
<1>9. RegisteredAsAsked'
  <2>1. ASSUME NEW j \in Slots, j # i
        PROVE  IF j \in Open'
               THEN /\ interests'[tcpStreams'[j].fileHandle] = tcpStreams'[j].interests
                    /\ tcpStreams'[j].interests # {} => tcpStreams'[j].callback
               ELSE tcpStreams'[j] = ClosedStream
    BY <1>1, <1>2, <1>4, <1>6, <2>1, OpenStream, OpenListenerIsRegistered
    DEF TableInv, RegisteredAsAsked
  <2>2. h # lh
    BY <1>1, OpenListenerIsRegistered
  <2> QED BY <1>2, <1>4, <2>1, <2>2 DEF TableInv, RegisteredAsAsked
<1>10. OpenedWhileFull' /\ ListenerWaitsWhileThereIsRoom'
  BY <1>1, <1>4, OpenListenerIsRegistered
  DEF TableInv, OpenedWhileFull, ListenerWaitsWhileThereIsRoom
<1> QED BY <1>5, <1>7, <1>8, <1>9, <1>10 DEF TableInv

LEMMA CloseKeepsTable ==
  ASSUME TableInv, NEW i \in Slots, Close(i)
  PROVE  TableInv'
<1> DEFINE h == tcpStreams[i].fileHandle
<1>1. /\ i \in Open
      /\ live' = live \ {h} /\ h \in live /\ h \in Handles
      /\ sockets' = sockets \ {tcpStreams[i].fileDescriptor}
      /\ tcpStreams'[i] = ClosedStream
      /\ \A j \in Slots \ {i} : tcpStreams'[j] = tcpStreams[j]
      /\ context' = context /\ listener' = listener /\ IsListenerOpen' = IsListenerOpen
      /\ openedFull' = FALSE
      /\ \A g \in Handles \ {h} : fileDescriptor'[g] = fileDescriptor[g]
  BY OpenStream DEF TableInv, Close, DeregisterHandle, FH!ReportedTo, TableTyped, IsListenerOpen
<1>2. Open' = Open \ {i}
  BY <1>1 DEF Open, ClosedStream
<1>3. /\ numTCPStreams' = Cardinality(Open')
      /\ numTCPStreams' \in Nat /\ numTCPStreams = numTCPStreams' + 1
      /\ numTCPStreams <= maxTCPStreams /\ maxTCPStreams \in Nat
  <2>1. numTCPStreams = Cardinality(Open) /\ numTCPStreams' = numTCPStreams - 1
    BY DEF TableInv, StreamsMatchRegistrations, Close
  <2>2. /\ Cardinality(Open') = Cardinality(Open) - 1
        /\ Cardinality(Open') \in Nat /\ Cardinality(Open) \in Nat
    BY <1>1, <1>2, OpenIsFinite, FS_RemoveElement, FS_CardinalityType
  <2>3. numTCPStreams \in 0..maxTCPStreams /\ maxTCPStreams \in Nat
    BY StreamsAssumption DEF TableInv, TableTyped
  <2> QED BY <2>1, <2>2, <2>3
<1>4. IsListenerOpen =>
        /\ listener.fileHandle # h
        /\ interests'[listener.fileHandle] = {"read"}
        /\ \A g \in Handles \ {h, listener.fileHandle} : interests'[g] = interests[g]
  <2>1. \/ ~IsListenerOpen
        \/ interests[listener.fileHandle] = {"read"}
        \/ maxTCPStreams - (numTCPStreams - 1) = 1
    BY <1>3 DEF TableInv, ListenerWaitsWhileThereIsRoom
  <2> QED
    BY <1>1, <2>1, OpenListenerIsRegistered DEF TableInv, TableTyped, Close, Resume
<1>5. ~IsListenerOpen => \A g \in Handles \ {h} : interests'[g] = interests[g]
  BY <1>1 DEF Close, Resume
<1>6. TableTyped'
  <2>1. tcpStreams' \in [Slots -> [fileDescriptor : Fds \cup {NoFd},
                                   fileHandle : Handles \cup {NoHandle},
                                   interests : SUBSET Kinds, callback : BOOLEAN]]
    BY DEF TableInv, TableTyped, Close, ClosedStream
  <2>2. interests' \in [Handles -> SUBSET Kinds]
    BY DEF TableInv, TableTyped, Close, Kinds
  <2>3. /\ live' \subseteq Handles
        /\ fileDescriptor' \in [Handles -> Fds \cup {NoFd}]
        /\ callback' \in [Handles -> BOOLEAN]
        /\ reported' \subseteq live' \X Kinds
    BY <1>1 DEF TableInv, TableTyped, Close, DeregisterHandle, FH!ReportedTo
  <2>4. /\ running' \in BOOLEAN /\ released' \in BOOLEAN /\ openedFull' \in BOOLEAN
        /\ context' \in [Handles -> Slots \cup {Listener}]
        /\ sockets' \subseteq Fds
    BY <1>1 DEF TableInv, TableTyped, Close
  <2>5. numTCPStreams' \in 0..maxTCPStreams
    BY <1>3
  <2> QED BY <1>1, <2>1, <2>2, <2>3, <2>4, <2>5 DEF TableInv, TableTyped
<1>7. \A g \in live' : /\ g \in live /\ g # h /\ g \in Handles
                       /\ fileDescriptor[g] # tcpStreams[i].fileDescriptor
                       /\ context[g] # i
  BY <1>1, LiveHandleIsOwned, OpenStream DEF TableInv, TableTyped, DescriptorsDistinct
<1>8. StreamsMatchRegistrations'
  <2>1. ASSUME NEW j \in Open'
        PROVE  tcpStreams'[j].fileHandle \in live' /\ context'[tcpStreams'[j].fileHandle] = j
    BY <1>1, <1>2, OpenStream
  <2>2. IsListenerOpen' =>
          listener'.fileHandle \in live' /\ context'[listener'.fileHandle] = Listener
    BY <1>1, <1>4, OpenListenerIsRegistered
  <2>3. ASSUME NEW g \in live'
        PROVE  IF context'[g] = Listener THEN Owns(listener, g)'
                                         ELSE Owns(tcpStreams[context[g]], g)'
    <3>1. fileDescriptor'[g] = fileDescriptor[g] /\ fileDescriptor[g] \in sockets'
      BY <1>1, <1>7, LiveHandleIsOwned, OpenStream, OpenListenerIsRegistered
    <3>2. context[g] \in Open => tcpStreams'[context[g]] = tcpStreams[context[g]]
      BY <1>1, <1>7 DEF Open
    <3> QED BY <1>1, <1>7, <3>1, <3>2, LiveHandleIsOwned DEF Owns
  <2>4. ASSUME NEW d \in sockets' PROVE \E g \in live' : fileDescriptor'[g] = d
    <3>1. PICK g \in live : fileDescriptor[g] = d
      BY <1>1 DEF TableInv, StreamsMatchRegistrations
    <3>2. g # h
      BY <1>1, <3>1, OpenStream
    <3> QED BY <1>1, <3>1, <3>2 DEF TableInv, TableTyped
  <2> QED BY <1>3, <2>1, <2>2, <2>3, <2>4 DEF StreamsMatchRegistrations
<1>9. DescriptorsDistinct'
  BY <1>1, <1>7 DEF TableInv, DescriptorsDistinct
<1>10. RegisteredAsAsked'
  <2> SUFFICES ASSUME NEW j \in Slots
               PROVE  IF j \in Open'
                      THEN /\ interests'[tcpStreams'[j].fileHandle] = tcpStreams'[j].interests
                           /\ tcpStreams'[j].interests # {} => tcpStreams'[j].callback
                      ELSE tcpStreams'[j] = ClosedStream
    BY DEF TableInv, RegisteredAsAsked
  <2>1. CASE j = i
    BY <1>1, <1>2, <2>1
  <2>2. CASE j # i /\ j \in Open
    <3>1. tcpStreams[j].fileHandle \in Handles \ {h}
      BY <1>1, <2>2, OpenStream
    <3>2. IsListenerOpen => tcpStreams[j].fileHandle # listener.fileHandle
      BY <2>2, OpenListenerIsRegistered
    <3> QED BY <1>1, <1>2, <1>4, <1>5, <2>2, <3>1, <3>2 DEF TableInv, RegisteredAsAsked
  <2>3. CASE j # i /\ j \notin Open
    BY <1>1, <1>2, <2>3 DEF TableInv, RegisteredAsAsked
  <2> QED BY <2>1, <2>2, <2>3
<1>11. OpenedWhileFull' /\ ListenerWaitsWhileThereIsRoom'
  <2>1. numTCPStreams' < maxTCPStreams
    BY <1>3
  <2> QED BY <1>1, <1>4, <2>1 DEF OpenedWhileFull, ListenerWaitsWhileThereIsRoom
<1> QED BY <1>6, <1>8, <1>9, <1>10, <1>11 DEF TableInv

LEMMA UpdateInterestsKeepsTable ==
  ASSUME TableInv, NEW i \in Slots, NEW kinds \in SUBSET Kinds, NEW hasCallback \in BOOLEAN,
         UpdateInterests(i, kinds, hasCallback)
  PROVE  TableInv'
<1> DEFINE h == tcpStreams[i].fileHandle
<1>1. /\ i \in Open /\ h \in Handles
      /\ live' = live /\ sockets' = sockets /\ context' = context /\ listener' = listener
      /\ fileDescriptor' = fileDescriptor /\ numTCPStreams' = numTCPStreams
      /\ IsListenerOpen' = IsListenerOpen /\ openedFull' = openedFull
      /\ \A g \in Handles : interests'[g] = IF g = h THEN kinds ELSE interests[g]
      /\ \A j \in Slots : /\ tcpStreams'[j].fileDescriptor = tcpStreams[j].fileDescriptor
                          /\ tcpStreams'[j].fileHandle = tcpStreams[j].fileHandle
                          /\ j # i => tcpStreams'[j] = tcpStreams[j]
      /\ tcpStreams'[i].interests = kinds
      /\ kinds # {} => tcpStreams'[i].callback
  BY OpenStream
  DEF TableInv, UpdateInterests, StreamCallback, FH!FileHandleUpdateInterests, TableTyped,
      IsListenerOpen
<1>2. Open' = Open
  BY <1>1 DEF Open
<1>3. TableTyped'
  <2>1. tcpStreams'[i] = [tcpStreams[i] EXCEPT !.interests = kinds,
                                               !.callback = hasCallback]
    BY DEF TableInv, TableTyped, UpdateInterests, StreamCallback
  <2>2. tcpStreams'[i] \in [fileDescriptor : Fds \cup {NoFd},
                            fileHandle : Handles \cup {NoHandle},
                            interests : SUBSET Kinds, callback : BOOLEAN]
    BY <2>1 DEF TableInv, TableTyped
  <2>3. tcpStreams' = [j \in Slots |-> tcpStreams'[j]]
    BY DEF TableInv, TableTyped, UpdateInterests
  <2>4. tcpStreams' \in [Slots -> [fileDescriptor : Fds \cup {NoFd},
                                   fileHandle : Handles \cup {NoHandle},
                                   interests : SUBSET Kinds, callback : BOOLEAN]]
    BY <1>1, <2>2, <2>3 DEF TableInv, TableTyped
  <2>5. interests' \in [Handles -> SUBSET Kinds] /\ callback' \in [Handles -> BOOLEAN]
    BY DEF TableInv, TableTyped, UpdateInterests, FH!FileHandleUpdateInterests
  <2>6. UNCHANGED <<reported, running, released>>
    BY DEF UpdateInterests, FH!FileHandleUpdateInterests
  <2> QED BY <1>1, <2>4, <2>5, <2>6 DEF TableInv, TableTyped
<1>4. StreamsMatchRegistrations'
  <2>1. ASSUME NEW g \in live
        PROVE  IF context[g] = Listener THEN Owns(listener, g)'
                                        ELSE Owns(tcpStreams[context[g]], g)'
    BY <1>1, LiveHandleIsOwned, OpenStream, OpenListenerIsRegistered DEF Owns
  <2>2. ASSUME NEW j \in Open
        PROVE  tcpStreams'[j].fileHandle \in live /\ context[tcpStreams'[j].fileHandle] = j
    BY <1>1, OpenStream
  <2> QED BY <1>1, <1>2, <2>1, <2>2 DEF TableInv, StreamsMatchRegistrations
<1>5. DescriptorsDistinct'
  BY <1>1 DEF TableInv, DescriptorsDistinct
<1>6. RegisteredAsAsked'
  BY <1>1, <1>2, OpenStream DEF TableInv, RegisteredAsAsked
<1>7. OpenedWhileFull' /\ ListenerWaitsWhileThereIsRoom'
  BY <1>1, OpenListenerIsRegistered DEF TableInv, OpenedWhileFull, ListenerWaitsWhileThereIsRoom
<1> QED BY <1>3, <1>4, <1>5, <1>6, <1>7 DEF TableInv

\* Events change what is reported and whether a callback runs, no more.
LEMMA EventKeepsTable ==
  ASSUME TableInv, reported' \subseteq live \X Kinds, running' \in BOOLEAN,
         released' \in BOOLEAN,
         UNCHANGED <<live, fileDescriptor, interests, callback, context, sockets, listener,
                     tcpStreams, numTCPStreams, openedFull>>
  PROVE  TableInv'
<1>1. Open' = Open /\ IsListenerOpen' = IsListenerOpen
  BY DEF Open, IsListenerOpen
<1> QED
  BY <1>1 DEF TableInv, TableTyped, StreamsMatchRegistrations, DescriptorsDistinct,
              RegisteredAsAsked, OpenedWhileFull, ListenerWaitsWhileThereIsRoom, Owns

LEMMA TableStep == TableInv /\ [Next]_vars => TableInv'
<1> SUFFICES ASSUME TableInv, [Next]_vars PROVE TableInv'
  OBVIOUS
<1>typed. reported \subseteq live \X Kinds /\ running \in BOOLEAN /\ released \in BOOLEAN
  BY DEF TableInv, TableTyped
<1> USE DEF handleVars, streamVars
<1>1. CASE \E h \in Handles, fd \in Fds :
             OpenListener(h, fd) \/ \E i \in Slots : AcceptTCPStream(i, h, fd)
  BY <1>1, OpenListenerKeepsTable, AcceptKeepsTable
<1>2. CASE CloseListener
  BY <1>2, CloseListenerKeepsTable
<1>3. ASSUME NEW i \in Slots, Close(i) PROVE TableInv'
  BY <1>3, CloseKeepsTable
<1>4. ASSUME NEW i \in Slots, Read(i) PROVE TableInv'
  BY <1>4, <1>typed, EventKeepsTable DEF Read, Blocks
<1>5. ASSUME NEW i \in Slots, Write(i) PROVE TableInv'
  BY <1>5, <1>typed, EventKeepsTable DEF Write, Blocks
<1>6. ASSUME NEW i \in Slots, NEW kinds \in SUBSET Kinds, NEW cb \in BOOLEAN,
             UpdateInterests(i, kinds, cb)
      PROVE  TableInv'
  BY <1>6, UpdateInterestsKeepsTable
<1>7. CASE AcceptFails
  BY <1>7, <1>typed, EventKeepsTable DEF AcceptFails
<1>8. CASE AcceptBlocks
  BY <1>8, <1>typed, EventKeepsTable DEF AcceptBlocks, Blocks
<1>9. CASE Select
  BY <1>9, <1>typed, EventKeepsTable DEF Select, FH!Select
<1>10. ASSUME NEW h \in Handles, Drop(h) PROVE TableInv'
  BY <1>10, <1>typed, EventKeepsTable DEF Drop, FH!Drop
<1>11. ASSUME NEW h \in Handles, NEW events \in SUBSET Kinds,
              ListenerFileHandleCallback(h, events) \/ StreamFileHandleCallback(h, events)
       PROVE  TableInv'
  BY <1>11, <1>typed, EventKeepsTable
  DEF ListenerFileHandleCallback, StreamFileHandleCallback, FH!Dispatch
<1>12. CASE CallbackReturns
  BY <1>12, <1>typed, EventKeepsTable DEF CallbackReturns, FH!CallbackReturns
<1>13. CASE Release
  BY <1>13, <1>typed, EventKeepsTable DEF Release
<1>14. ASSUME NEW fd \in Fds, SocketBecomesReadable(fd) PROVE TableInv'
  BY <1>14, <1>typed, EventKeepsTable DEF SocketBecomesReadable
<1>15. CASE ClientWithdraws
  BY <1>15, <1>typed, EventKeepsTable DEF ClientWithdraws
<1>16. CASE UNCHANGED vars
  BY <1>16, <1>typed, EventKeepsTable DEF vars
<1> QED
  BY <1>1, <1>2, <1>3, <1>4, <1>5, <1>6, <1>7, <1>8, <1>9, <1>10, <1>11, <1>12, <1>13, <1>14,
     <1>15, <1>16
  DEF Next

(***************************************************************************)
(* Sockets, and what the main task blocks in.                              *)
(***************************************************************************)

SocketsTyped ==
  /\ readable \subseteq sockets /\ blocking \subseteq sockets
  /\ told \subseteq sockets \X Kinds
  /\ blocked \in told \cup {NoCall}
  /\ mishaps \subseteq Mishaps

\* Nothing was announced to a callback that does not run.
ToldToACallback == ~running => told = {}

\* Any other socket was to be made nonblocking.
OnlyTheListenerBlocks ==
  \A fd \in blocking : fd = listener.fileDescriptor \/ "failed setsockopt" \in mishaps

\* The events of the listener were all taken from those reported to it.
ListenerToldOnce ==
  \A k \in Kinds : <<listener.fileDescriptor, k>> \in told =>
                     \A j \in Kinds : <<listener.fileHandle, j>> \notin reported

\* A connection reported, and then announced, is there until it is accepted
\* or withdrawn.
ReportedConnectionIsThere ==
  <<listener.fileHandle, "read">> \in reported /\ IsListenerOpen =>
    listener.fileDescriptor \in readable \/ "withdrawn connection" \in mishaps

AnnouncedConnectionIsThere ==
  ConnectionWaiting \in told =>
    listener.fileDescriptor \in readable \/ "withdrawn connection" \in mishaps

SocketsInv ==
  /\ SocketsTyped
  /\ ToldToACallback
  /\ OnlyTheListenerBlocks
  /\ ListenerToldOnce
  /\ ReportedConnectionIsThere
  /\ AnnouncedConnectionIsThere
  /\ MainTaskBlocksOnlyByMishap

\* A socket of a call that was announced is open, and whose it is.
LEMMA CallsOwner ==
  ASSUME TableInv, SocketsTyped, NEW k, NEW fd, <<fd, k>> \in told
  PROVE  /\ fd \in sockets /\ fd # NoFd /\ k \in Kinds
         /\ fd = listener.fileDescriptor => IsListenerOpen
         /\ \A i \in Slots : fd = tcpStreams[i].fileDescriptor =>
                               i \in Open /\ fd # listener.fileDescriptor
<1>1. fd \in sockets /\ k \in Kinds
  BY DEF SocketsTyped
<1>2. fd # NoFd
  BY <1>1, StreamsAssumption DEF TableInv, TableTyped
<1>3. ~IsListenerOpen => listener.fileDescriptor = NoFd
  BY DEF IsListenerOpen, ClosedListener
<1>4. \A i \in Slots : fd = tcpStreams[i].fileDescriptor => i \in Open
  BY <1>2 DEF Open
<1> QED BY <1>1, <1>2, <1>3, <1>4, OpenListenerIsRegistered

LEMMA SocketsInit == Init => SocketsInv
BY DEF Init, FH!Init, SocketsInv, SocketsTyped, ToldToACallback, OnlyTheListenerBlocks,
       ListenerToldOnce, ReportedConnectionIsThere, AnnouncedConnectionIsThere,
       MainTaskBlocksOnlyByMishap

\* Registrations that change, and events that are dropped, leave it all.
LEMMA OthersKeepSockets ==
  ASSUME SocketsInv, reported' \subseteq reported, running' = running,
         UNCHANGED <<sockets, listener, socketVars>>
  PROVE  SocketsInv'
BY DEF socketVars, SocketsInv, SocketsTyped, ToldToACallback, OnlyTheListenerBlocks,
       ListenerToldOnce, ReportedConnectionIsThere, AnnouncedConnectionIsThere,
       MainTaskBlocksOnlyByMishap, ConnectionWaiting, IsListenerOpen

LEMMA OpenListenerKeepsSockets ==
  ASSUME TableInv, SocketsInv, NEW h \in Handles, NEW fd \in Fds, OpenListener(h, fd)
  PROVE  SocketsInv'
<1>1. /\ ~IsListenerOpen /\ h \notin live
      /\ sockets' = sockets \cup {fd} /\ fd \notin sockets
      /\ blocking' = blocking \cup {fd} /\ blocked = NoCall
      /\ listener'.fileDescriptor = fd /\ listener'.fileHandle = h
      /\ UNCHANGED <<reported, running, readable, told, blocked, mishaps>>
  BY DEF OpenListener, FH!FileHandleRegister, MainRuns
<1>2. \A k : <<fd, k>> \notin told
  BY <1>1 DEF SocketsInv, SocketsTyped
<1>3. \A k : <<h, k>> \notin reported
  BY <1>1 DEF TableInv, TableTyped
<1>4. listener.fileDescriptor \notin sockets
  BY <1>1, StreamsAssumption DEF TableInv, TableTyped, IsListenerOpen, ClosedListener
<1>5. SocketsTyped' /\ ToldToACallback'
  BY <1>1 DEF SocketsInv, SocketsTyped, ToldToACallback
<1>6. OnlyTheListenerBlocks'
  BY <1>1, <1>4 DEF SocketsInv, SocketsTyped, OnlyTheListenerBlocks
<1>7. ListenerToldOnce' /\ AnnouncedConnectionIsThere' /\ ReportedConnectionIsThere'
  BY <1>1, <1>2, <1>3
  DEF ListenerToldOnce, AnnouncedConnectionIsThere, ReportedConnectionIsThere, ConnectionWaiting
<1>8. MainTaskBlocksOnlyByMishap'
  BY <1>1 DEF MainTaskBlocksOnlyByMishap
<1> QED BY <1>5, <1>6, <1>7, <1>8 DEF SocketsInv

LEMMA CloseListenerKeepsSockets ==
  ASSUME TableInv, SocketsInv, CloseListener
  PROVE  SocketsInv'
<1>1. /\ sockets' = sockets \ {listener.fileDescriptor}
      /\ readable' = readable \ {listener.fileDescriptor}
      /\ blocking' = blocking \ {listener.fileDescriptor}
      /\ told' = {c \in told : c[1] # listener.fileDescriptor}
      /\ blocked = NoCall /\ listener'.fileDescriptor = NoFd /\ ~IsListenerOpen'
      /\ UNCHANGED <<running, blocked, mishaps>>
  BY DEF CloseListener, FH!FileHandleDeregister, MainRuns, SocketGone, ClosedListener,
         IsListenerOpen
<1>2. SocketsTyped'
  BY <1>1 DEF SocketsInv, SocketsTyped
<1>3. \A k : <<NoFd, k>> \notin told'
  BY <1>1, CallsOwner DEF SocketsInv
<1>4. ToldToACallback' /\ OnlyTheListenerBlocks'
  BY <1>1 DEF SocketsInv, ToldToACallback, OnlyTheListenerBlocks
<1>5. ListenerToldOnce' /\ AnnouncedConnectionIsThere' /\ ReportedConnectionIsThere'
  BY <1>1, <1>3
  DEF ListenerToldOnce, AnnouncedConnectionIsThere, ReportedConnectionIsThere, ConnectionWaiting
<1>6. MainTaskBlocksOnlyByMishap'
  BY <1>1 DEF MainTaskBlocksOnlyByMishap
<1> QED BY <1>2, <1>4, <1>5, <1>6 DEF SocketsInv

LEMMA CloseKeepsSockets ==
  ASSUME TableInv, SocketsInv, NEW i \in Slots, Close(i)
  PROVE  SocketsInv'
<1> DEFINE fd == tcpStreams[i].fileDescriptor
<1>1. /\ sockets' = sockets \ {fd} /\ readable' = readable \ {fd}
      /\ blocking' = blocking \ {fd}
      /\ told' = {c \in told : c[1] # fd}
      /\ blocked = NoCall /\ reported' \subseteq reported /\ i \in Open
      /\ UNCHANGED <<listener, running, blocked, mishaps>>
  BY DEF Close, DeregisterHandle, MainRuns, SocketGone
<1>2. SocketsTyped'
  BY <1>1 DEF SocketsInv, SocketsTyped
<1>3. IsListenerOpen => fd # listener.fileDescriptor
  BY <1>1, OpenListenerIsRegistered
<1>4. ToldToACallback' /\ OnlyTheListenerBlocks' /\ ListenerToldOnce'
  BY <1>1 DEF SocketsInv, ToldToACallback, OnlyTheListenerBlocks, ListenerToldOnce
<1>5. ReportedConnectionIsThere'
  BY <1>1, <1>3 DEF SocketsInv, ReportedConnectionIsThere, IsListenerOpen
<1>6. AnnouncedConnectionIsThere'
  BY <1>1, <1>3, CallsOwner DEF SocketsInv, AnnouncedConnectionIsThere, ConnectionWaiting
<1>7. MainTaskBlocksOnlyByMishap'
  BY <1>1 DEF MainTaskBlocksOnlyByMishap
<1> QED BY <1>2, <1>4, <1>5, <1>6, <1>7 DEF SocketsInv

LEMMA AcceptKeepsSockets ==
  ASSUME TableInv, SocketsInv, NEW i \in Slots, NEW h \in Handles, NEW fd \in Fds,
         AcceptTCPStream(i, h, fd)
  PROVE  SocketsInv'
<1>1. /\ sockets' = sockets \cup {fd} /\ readable' \subseteq readable
      /\ told' = told \ {ConnectionWaiting} /\ blocked' = NoCall
      /\ ConnectionWaiting \in told
      /\ UNCHANGED <<reported, running, listener>>
  BY DEF AcceptTCPStream, Calls, Answered
<1>2. /\ mishaps \subseteq mishaps' /\ mishaps' \subseteq Mishaps
      /\ blocking' \subseteq blocking \cup {fd}
      /\ fd \in blocking' => fd \in blocking \/ "failed setsockopt" \in mishaps'
  BY DEF AcceptTCPStream, SetNonblocking, SocketsInv, SocketsTyped, Mishaps
<1>3. SocketsTyped' /\ ToldToACallback'
  BY <1>1, <1>2 DEF SocketsInv, SocketsTyped, ToldToACallback
<1>4. OnlyTheListenerBlocks'
  BY <1>1, <1>2 DEF SocketsInv, OnlyTheListenerBlocks
<1>5. ListenerToldOnce'
  BY <1>1 DEF SocketsInv, ListenerToldOnce
<1>6. \A k \in Kinds : <<listener.fileHandle, k>> \notin reported
  BY <1>1 DEF SocketsInv, ListenerToldOnce, ConnectionWaiting, Kinds
<1>7. ReportedConnectionIsThere' /\ AnnouncedConnectionIsThere'
  BY <1>1, <1>6
  DEF ReportedConnectionIsThere, AnnouncedConnectionIsThere, ConnectionWaiting, Kinds
<1>8. MainTaskBlocksOnlyByMishap'
  BY <1>1 DEF MainTaskBlocksOnlyByMishap, NoCall
<1> QED BY <1>3, <1>4, <1>5, <1>7, <1>8 DEF SocketsInv

\* Of a call that is answered, at most bytes are taken from its socket, and
\* a stream's socket is not the listener's.
LEMMA AnswerKeepsSockets ==
  ASSUME TableInv, SocketsInv, NEW call \in told, Answered(call),
         readable' \subseteq readable,
         IsListenerOpen /\ listener.fileDescriptor \in readable =>
           listener.fileDescriptor \in readable',
         UNCHANGED <<handleVars, streamVars, blocking, mishaps>>
  PROVE  SocketsInv'
<1>1. /\ told' = told \ {call} /\ blocked' = NoCall
      /\ UNCHANGED <<reported, running, sockets, listener>>
  BY DEF Answered, handleVars, streamVars
<1>2. SocketsTyped' /\ ToldToACallback' /\ OnlyTheListenerBlocks' /\ ListenerToldOnce'
  BY <1>1
  DEF SocketsInv, SocketsTyped, ToldToACallback, OnlyTheListenerBlocks, ListenerToldOnce
<1>3. ReportedConnectionIsThere'
  BY <1>1 DEF SocketsInv, ReportedConnectionIsThere, IsListenerOpen
<1>4. AnnouncedConnectionIsThere'
  BY <1>1, CallsOwner DEF SocketsInv, AnnouncedConnectionIsThere, ConnectionWaiting
<1>5. MainTaskBlocksOnlyByMishap'
  BY <1>1 DEF MainTaskBlocksOnlyByMishap
<1> QED BY <1>2, <1>3, <1>4, <1>5 DEF SocketsInv

\* The main task blocks in a call on the listener's socket after a connection
\* was withdrawn, on another after setsockopt failed.
LEMMA BlockingKeepsSockets ==
  ASSUME TableInv, SocketsInv, NEW call \in told, Blocks(call),
         IF call = ConnectionWaiting THEN listener.fileDescriptor \notin readable
                                     ELSE call[1] # listener.fileDescriptor
  PROVE  SocketsInv'
<1>1. /\ blocked' = call /\ call[1] \in blocking
      /\ UNCHANGED <<reported, running, sockets, listener, readable, blocking, told, mishaps>>
  BY DEF Blocks, handleVars, streamVars
<1>2. SocketsTyped' /\ ToldToACallback' /\ OnlyTheListenerBlocks' /\ ListenerToldOnce'
  BY <1>1
  DEF SocketsInv, SocketsTyped, ToldToACallback, OnlyTheListenerBlocks, ListenerToldOnce
<1>3. ReportedConnectionIsThere' /\ AnnouncedConnectionIsThere'
  BY <1>1 DEF SocketsInv, ReportedConnectionIsThere, AnnouncedConnectionIsThere, IsListenerOpen,
              ConnectionWaiting
<1>4. MainTaskBlocksOnlyByMishap'
  <2>1. CASE call = ConnectionWaiting
    BY <1>1, <2>1 DEF SocketsInv, AnnouncedConnectionIsThere, MainTaskBlocksOnlyByMishap,
                      ConnectionWaiting
  <2>2. CASE call # ConnectionWaiting
    BY <1>1, <2>2 DEF SocketsInv, OnlyTheListenerBlocks, MainTaskBlocksOnlyByMishap,
                      ConnectionWaiting
  <2> QED BY <2>1, <2>2
<1> QED BY <1>2, <1>3, <1>4 DEF SocketsInv

LEMMA CallKeepsSockets ==
  ASSUME TableInv, SocketsInv,
         AcceptFails \/ AcceptBlocks \/ \E i \in Slots : Read(i) \/ Write(i)
  PROVE  SocketsInv'
<1>1. CASE AcceptFails
  BY <1>1, AnswerKeepsSockets DEF AcceptFails, Calls
<1>2. CASE AcceptBlocks
  BY <1>2, BlockingKeepsSockets DEF AcceptBlocks, Calls
<1>3. ASSUME NEW i \in Slots, Read(i) PROVE SocketsInv'
  <2> DEFINE fd == tcpStreams[i].fileDescriptor
             call == <<fd, "read">>
  <2>1. call \in told
    BY <1>3 DEF Read, Calls
  <2>2. fd # listener.fileDescriptor /\ call # ConnectionWaiting /\ call[1] = fd
    BY <2>1, CallsOwner DEF SocketsInv, ConnectionWaiting
  <2>3. CASE /\ readable' \in {readable, readable \ {fd}}
             /\ Answered(call)
             /\ UNCHANGED <<handleVars, streamVars, blocking, mishaps>>
    BY <2>1, <2>2, <2>3, AnswerKeepsSockets
  <2>4. CASE Blocks(call)
    BY <2>1, <2>2, <2>4, BlockingKeepsSockets
  <2> QED BY <1>3, <2>3, <2>4 DEF Read
<1>4. ASSUME NEW i \in Slots, Write(i) PROVE SocketsInv'
  <2> DEFINE fd == tcpStreams[i].fileDescriptor
             call == <<fd, "write">>
  <2>1. call \in told
    BY <1>4 DEF Write, Calls
  <2>2. fd # listener.fileDescriptor /\ call # ConnectionWaiting /\ call[1] = fd
    BY <2>1, CallsOwner DEF SocketsInv, ConnectionWaiting
  <2>3. CASE Answered(call) /\ UNCHANGED <<handleVars, streamVars, readable, blocking, mishaps>>
    BY <2>1, <2>2, <2>3, AnswerKeepsSockets
  <2>4. CASE Blocks(call)
    BY <2>1, <2>2, <2>4, BlockingKeepsSockets
  <2> QED BY <1>4, <2>3, <2>4 DEF Write
<1> QED BY <1>1, <1>2, <1>3, <1>4

LEMMA SelectKeepsSockets ==
  ASSUME TableInv, SocketsInv, Select
  PROVE  SocketsInv'
<1>1. /\ told = {} /\ blocked = NoCall
      /\ reported' \subseteq live \X Kinds
      /\ \A e \in reported' : e[2] = "read" => fileDescriptor[e[1]] \in readable
      /\ UNCHANGED <<running, sockets, listener, readable, blocking, told, blocked, mishaps>>
  BY DEF Select, FH!Select, MainRuns, SocketsInv, ToldToACallback, streamVars, socketVars
<1>2. /\ SocketsTyped' /\ ToldToACallback' /\ OnlyTheListenerBlocks' /\ ListenerToldOnce'
      /\ AnnouncedConnectionIsThere' /\ MainTaskBlocksOnlyByMishap'
  BY <1>1
  DEF SocketsInv, SocketsTyped, ToldToACallback, OnlyTheListenerBlocks, ListenerToldOnce,
      AnnouncedConnectionIsThere, MainTaskBlocksOnlyByMishap
<1>3. ReportedConnectionIsThere'
  BY <1>1, OpenListenerIsRegistered DEF ReportedConnectionIsThere, IsListenerOpen
<1> QED BY <1>2, <1>3 DEF SocketsInv

LEMMA ListenerCallbackKeepsSockets ==
  ASSUME TableInv, SocketsInv, NEW h \in Handles, NEW events \in SUBSET Kinds,
         ListenerFileHandleCallback(h, events)
  PROVE  SocketsInv'
<1>1. /\ h \in live /\ context[h] = Listener /\ running'
      /\ told' = {listener.fileDescriptor} \X events
      /\ reported' = reported \ {e \in reported : e[1] = h}
      /\ events = {k \in interests[h] : <<h, k>> \in reported}
      /\ blocked = NoCall
      /\ UNCHANGED <<sockets, listener, readable, blocking, blocked, mishaps>>
  BY DEF ListenerFileHandleCallback, FH!Dispatch, FH!ReportedTo, Tells, MainRuns, streamVars
<1>2. IsListenerOpen /\ listener.fileHandle = h /\ listener.fileDescriptor \in sockets
  BY <1>1, LiveHandleIsOwned, OpenListenerIsRegistered
<1>3. /\ SocketsTyped' /\ ToldToACallback' /\ OnlyTheListenerBlocks'
      /\ MainTaskBlocksOnlyByMishap'
  BY <1>1, <1>2
  DEF SocketsInv, SocketsTyped, ToldToACallback, OnlyTheListenerBlocks, MainTaskBlocksOnlyByMishap
<1>4. ListenerToldOnce' /\ ReportedConnectionIsThere'
  BY <1>1, <1>2 DEF ListenerToldOnce, ReportedConnectionIsThere
<1>5. AnnouncedConnectionIsThere'
  BY <1>1, <1>2
  DEF SocketsInv, ReportedConnectionIsThere, AnnouncedConnectionIsThere, ConnectionWaiting
<1> QED BY <1>3, <1>4, <1>5 DEF SocketsInv

LEMMA StreamCallbackKeepsSockets ==
  ASSUME TableInv, SocketsInv, NEW h \in Handles, NEW events \in SUBSET Kinds,
         StreamFileHandleCallback(h, events)
  PROVE  SocketsInv'
<1> DEFINE i == context[h]
           fd == tcpStreams[i].fileDescriptor
<1>1. /\ h \in live /\ i # Listener /\ running'
      /\ told' = {fd} \X (tcpStreams[i].interests \cap events)
      /\ reported' \subseteq reported
      /\ blocked = NoCall
      /\ UNCHANGED <<sockets, listener, readable, blocking, blocked, mishaps>>
  BY DEF StreamFileHandleCallback, FH!Dispatch, Tells, MainRuns, streamVars
<1>2. i \in Open /\ fd \in sockets /\ fd # listener.fileDescriptor
  <2>1. i \in Open
    BY <1>1, LiveHandleIsOwned
  <2>2. fd \in sockets /\ fd # NoFd
    BY <2>1, OpenStream, StreamsAssumption
  <2>3. ~IsListenerOpen => listener.fileDescriptor = NoFd
    BY DEF IsListenerOpen, ClosedListener
  <2> QED BY <2>1, <2>2, <2>3, OpenListenerIsRegistered
<1>3. /\ SocketsTyped' /\ ToldToACallback' /\ OnlyTheListenerBlocks'
      /\ MainTaskBlocksOnlyByMishap'
  BY <1>1, <1>2
  DEF SocketsInv, SocketsTyped, ToldToACallback, OnlyTheListenerBlocks, MainTaskBlocksOnlyByMishap
<1>4. ListenerToldOnce' /\ AnnouncedConnectionIsThere'
  BY <1>1, <1>2 DEF ListenerToldOnce, AnnouncedConnectionIsThere, ConnectionWaiting
<1>5. ReportedConnectionIsThere'
  BY <1>1 DEF SocketsInv, ReportedConnectionIsThere, IsListenerOpen
<1> QED BY <1>3, <1>4, <1>5 DEF SocketsInv

LEMMA ReturnKeepsSockets ==
  ASSUME SocketsInv, CallbackReturns
  PROVE  SocketsInv'
<1>1. /\ told' = {} /\ blocked = NoCall
      /\ UNCHANGED <<reported, sockets, listener, readable, blocking, blocked, mishaps>>
  BY DEF CallbackReturns, FH!CallbackReturns, MainRuns, streamVars
<1> QED
  BY <1>1
  DEF SocketsInv, SocketsTyped, ToldToACallback, OnlyTheListenerBlocks, ListenerToldOnce,
      ReportedConnectionIsThere, AnnouncedConnectionIsThere, MainTaskBlocksOnlyByMishap,
      IsListenerOpen

LEMMA NetworkKeepsSockets ==
  ASSUME SocketsInv, ClientWithdraws \/ \E fd \in Fds : SocketBecomesReadable(fd)
  PROVE  SocketsInv'
<1>1. /\ readable' \subseteq sockets
      /\ mishaps \subseteq mishaps' /\ mishaps' \subseteq Mishaps
      /\ listener.fileDescriptor \in readable \/ "withdrawn connection" \in mishaps =>
           listener.fileDescriptor \in readable' \/ "withdrawn connection" \in mishaps'
      /\ UNCHANGED <<reported, running, sockets, listener, blocking, told, blocked>>
  BY DEF ClientWithdraws, SocketBecomesReadable, handleVars, streamVars, SocketsInv,
         SocketsTyped, Mishaps
<1> QED
  BY <1>1
  DEF SocketsInv, SocketsTyped, ToldToACallback, OnlyTheListenerBlocks, ListenerToldOnce,
      ReportedConnectionIsThere, AnnouncedConnectionIsThere, MainTaskBlocksOnlyByMishap,
      IsListenerOpen, ConnectionWaiting

LEMMA SocketsStep == TableInv /\ SocketsInv /\ [Next]_vars => SocketsInv'
<1> SUFFICES ASSUME TableInv, SocketsInv, [Next]_vars PROVE SocketsInv'
  OBVIOUS
<1>1. CASE \E h \in Handles, fd \in Fds :
             OpenListener(h, fd) \/ \E i \in Slots : AcceptTCPStream(i, h, fd)
  BY <1>1, OpenListenerKeepsSockets, AcceptKeepsSockets
<1>2. CASE CloseListener
  BY <1>2, CloseListenerKeepsSockets
<1>3. ASSUME NEW i \in Slots, Close(i) PROVE SocketsInv'
  BY <1>3, CloseKeepsSockets
<1>4. CASE AcceptFails \/ AcceptBlocks \/ \E i \in Slots : Read(i) \/ Write(i)
  BY <1>4, CallKeepsSockets
<1>5. ASSUME NEW i \in Slots, NEW kinds \in SUBSET Kinds, NEW cb \in BOOLEAN,
             UpdateInterests(i, kinds, cb)
      PROVE  SocketsInv'
  BY <1>5, OthersKeepSockets DEF UpdateInterests, FH!FileHandleUpdateInterests
<1>6. CASE Select
  BY <1>6, SelectKeepsSockets
<1>7. ASSUME NEW h \in Handles, Drop(h) PROVE SocketsInv'
  BY <1>7, OthersKeepSockets DEF Drop, FH!Drop, streamVars
<1>8. ASSUME NEW h \in Handles, NEW events \in SUBSET Kinds,
             ListenerFileHandleCallback(h, events) \/ StreamFileHandleCallback(h, events)
      PROVE  SocketsInv'
  BY <1>8, ListenerCallbackKeepsSockets, StreamCallbackKeepsSockets
<1>9. CASE CallbackReturns
  BY <1>9, ReturnKeepsSockets
<1>10. CASE Release
  BY <1>10, OthersKeepSockets DEF Release, handleVars
<1>11. CASE ClientWithdraws \/ \E fd \in Fds : SocketBecomesReadable(fd)
  BY <1>11, NetworkKeepsSockets
<1>12. CASE UNCHANGED vars
  BY <1>12, OthersKeepSockets DEF vars, handleVars, streamVars
<1> QED
  BY <1>1, <1>2, <1>3, <1>4, <1>5, <1>6, <1>7, <1>8, <1>9, <1>10, <1>11, <1>12 DEF Next

(***************************************************************************)
(* The theorems.                                                           *)
(***************************************************************************)

LEMMA Invariants == Spec => [](TableInv /\ SocketsInv)
<1>1. Init => TableInv /\ SocketsInv
  BY TableInit, SocketsInit
<1>2. (TableInv /\ SocketsInv) /\ [Next]_vars => (TableInv /\ SocketsInv)'
  BY TableStep, SocketsStep
<1> QED BY <1>1, <1>2, PTL DEF Spec

\* Type correctness of the table, the registrations and the sockets.
THEOREM TypeCorrect == Spec => []TypeOK
<1>1. TableInv /\ SocketsInv => TypeOK
  BY DEF TableInv, TableTyped, SocketsInv, SocketsTyped, TypeOK
<1> QED BY <1>1, Invariants, PTL

\* Every open stream has its socket and its handle, and no socket or handle
\* is left without one, whatever is opened, accepted and closed in whatever
\* order: HAPPlatformTCPStreamAccept, ...Close and the listener's functions.
THEOREM TableMatchesRegistrations == Spec => []StreamsMatchRegistrations
<1>1. TableInv => StreamsMatchRegistrations
  BY DEF TableInv
<1> QED BY <1>1, Invariants, PTL

\* The listener stops and resumes as the table fills and frees, for a table
\* of any size, also when it is opened with a full one and only the next
\* stream that closes ends that: HAPPlatformTCPStreamManagerOpenListener and
\* the comparisons of HAPPlatformTCPStreamAccept and ...Close.
THEOREM ListenerFollowsTheTable == Spec => []ListenerWaitsWhileThereIsRoom
<1>1. TableInv => ListenerWaitsWhileThereIsRoom
  BY DEF TableInv
<1> QED BY <1>1, Invariants, PTL

\* What can hold the main task in a socket call, and nothing else can.
THEOREM BlockedOnlyByMishap == Spec => []MainTaskBlocksOnlyByMishap
<1>1. SocketsInv => MainTaskBlocksOnlyByMishap
  BY DEF SocketsInv
<1> QED BY <1>1, Invariants, PTL

\* The assertions at the head of the two file handle callbacks never fail.
THEOREM CallbacksFindTheirs == Spec => CallbacksFindTheirStream
<1> DEFINE Found ==
      \A h \in Handles, events \in SUBSET Kinds :
        /\ ListenerFileHandleCallback(h, events) =>
             listener.fileHandle = h /\ listener.fileDescriptor # NoFd /\ "read" \in events
        /\ StreamFileHandleCallback(h, events) =>
             LET s == tcpStreams[context[h]] IN
             /\ s.fileHandle = h
             /\ s.fileDescriptor # NoFd
             /\ events \cap s.interests # {}
             /\ s.callback
<1>1. TableInv => Found
  <2> SUFFICES ASSUME TableInv, NEW h \in Handles, NEW events \in SUBSET Kinds
               PROVE  Found!(h, events)
    OBVIOUS
  <2>1. ASSUME ListenerFileHandleCallback(h, events)
        PROVE  listener.fileHandle = h /\ listener.fileDescriptor # NoFd /\ "read" \in events
    <3>1. h \in live /\ context[h] = Listener /\ events \subseteq interests[h] /\ events # {}
      BY <2>1 DEF ListenerFileHandleCallback, FH!Dispatch
    <3>2. IsListenerOpen /\ listener.fileHandle = h
      BY <3>1, LiveHandleIsOwned
    <3>3. events \subseteq {"read"}
      BY <3>1, <3>2 DEF TableInv, ListenerWaitsWhileThereIsRoom
    <3> QED BY <3>1, <3>2, <3>3, OpenListenerIsRegistered, StreamsAssumption
  <2>2. ASSUME StreamFileHandleCallback(h, events)
        PROVE  /\ tcpStreams[context[h]].fileHandle = h
               /\ tcpStreams[context[h]].fileDescriptor # NoFd
               /\ events \cap tcpStreams[context[h]].interests # {}
               /\ tcpStreams[context[h]].callback
    <3>1. h \in live /\ context[h] # Listener /\ events \subseteq interests[h] /\ events # {}
      BY <2>2 DEF StreamFileHandleCallback, FH!Dispatch
    <3>2. context[h] \in Open /\ tcpStreams[context[h]].fileHandle = h
      BY <3>1, LiveHandleIsOwned
    <3> QED BY <3>1, <3>2 DEF TableInv, RegisteredAsAsked, Open
  <2> QED BY <2>1, <2>2
<1>2. Spec => [][Found]_vars
  BY <1>1, Invariants, PTL DEF Spec
<1> QED BY <1>2 DEF CallbacksFindTheirStream
=============================================================================
