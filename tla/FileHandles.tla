---------------------------- MODULE FileHandles ----------------------------
(***************************************************************************)
(* What HAPPlatformFileHandle.h promises the code that registers file      *)
(* descriptors with the run loop, free of how the run loop keeps them.     *)
(*                                                                         *)
(* A registration is live from Register to Deregister.  A select asks the  *)
(* network about the live registrations' own descriptors and interests,    *)
(* and reports a set of events.  Each reported event is handed over once,  *)
(* to the registration it was asked for, while it is live and still        *)
(* interested, or is dropped; none is left over for the next select.       *)
(***************************************************************************)
CONSTANTS Handles,  \* the addresses a HAPPlatformFileHandle may have
          Fds,      \* socket descriptors
          NoFd,     \* the descriptor -1
          Kinds     \* kinds of events: reading, writing, error pending

VARIABLES live,           \* the registered handles
          fileDescriptor, \* descriptor of a handle
          interests,      \* kinds of events a handle waits for
          callback,       \* whether a handle has a callback
          reported,       \* <<handle, kind>> pairs reported, not handed over
          running         \* whether the callback of a handle runs

vars == <<live, fileDescriptor, interests, callback, reported, running>>

Init ==
  /\ live = {}
  /\ fileDescriptor = [h \in Handles |-> NoFd]
  /\ interests = [h \in Handles |-> {}]
  /\ callback = [h \in Handles |-> FALSE]
  /\ reported = {}
  /\ running = FALSE

ReportedTo(h) == {e \in reported : e[1] = h}

FileHandleRegister(h, fd, kinds, hasCallback) ==
  /\ h \notin live
  /\ \A g \in live : fileDescriptor[g] # fd
  /\ live' = live \cup {h}
  /\ fileDescriptor' = [fileDescriptor EXCEPT ![h] = fd]
  /\ interests' = [interests EXCEPT ![h] = kinds]
  /\ callback' = [callback EXCEPT ![h] = hasCallback]
  /\ UNCHANGED <<reported, running>>

FileHandleUpdateInterests(h, kinds, hasCallback) ==
  /\ h \in live
  /\ interests' = [interests EXCEPT ![h] = kinds]
  /\ callback' = [callback EXCEPT ![h] = hasCallback]
  /\ UNCHANGED <<live, fileDescriptor, reported, running>>

FileHandleDeregister(h) ==
  /\ h \in live
  /\ live' = live \ {h}
  /\ fileDescriptor' = [fileDescriptor EXCEPT ![h] = NoFd]
  /\ interests' = [interests EXCEPT ![h] = {}]
  /\ callback' = [callback EXCEPT ![h] = FALSE]
  /\ reported' = reported \ ReportedTo(h)
  /\ UNCHANGED running

\* A select may report anything the live registrations wait for, once
\* everything the previous one reported has been handed over or dropped.
Select ==
  /\ ~running
  /\ reported = {}
  /\ reported' \in SUBSET {e \in live \X Kinds : e[2] \in interests[e[1]]}
  /\ UNCHANGED <<live, fileDescriptor, interests, callback, running>>

\* The callback of h runs with the reported events it still waits for.
Dispatch(h, events) ==
  /\ ~running
  /\ running' = TRUE
  /\ h \in live
  /\ callback[h]
  /\ events = {k \in interests[h] : <<h, k>> \in reported}
  /\ events # {}
  /\ reported' = reported \ ReportedTo(h)
  /\ UNCHANGED <<live, fileDescriptor, interests, callback>>

CallbackReturns ==
  /\ running
  /\ running' = FALSE
  /\ UNCHANGED <<live, fileDescriptor, interests, callback, reported>>

\* Reported events are dropped only for want of interest or of a callback.
Drop(h) ==
  /\ ~running
  /\ callback[h] => \A k \in interests[h] : <<h, k>> \notin reported
  /\ reported' = reported \ ReportedTo(h)
  /\ UNCHANGED <<live, fileDescriptor, interests, callback, running>>

Next ==
  \/ \E h \in Handles :
       \/ \E fd \in Fds, kinds \in SUBSET Kinds, hasCallback \in BOOLEAN :
            FileHandleRegister(h, fd, kinds, hasCallback)
       \/ \E kinds \in SUBSET Kinds, hasCallback \in BOOLEAN :
            FileHandleUpdateInterests(h, kinds, hasCallback)
       \/ FileHandleDeregister(h)
       \/ \E events \in SUBSET Kinds : Dispatch(h, events)
       \/ Drop(h)
  \/ Select
  \/ CallbackReturns

Spec == Init /\ [][Next]_vars
=============================================================================
