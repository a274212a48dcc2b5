------------------------------ MODULE Logging ------------------------------
(***************************************************************************)
(* HAPPlatformClock.c, HAPPlatformLog.c and HAPPlatformSyslog.c: tasks log *)
(* and, for each entry, read the clock and send what the RTT buffer holds. *)
(* The clock's previousNow is guarded by nothing, syslog's buffer and      *)
(* socket by a mutex, which one task creates when others may log already.  *)
(*                                                                         *)
(* There is one core and FreeRTOS preempts, without time slices; the       *)
(* holder of the mutex inherits the priority of those who wait for it.     *)
(* The host driver task logs as well and is left out, as are reads of the  *)
(* clock that are not for an entry.  The counter is right here: the vote   *)
(* of three reads is not modelled.  RTT is external: what does not fit its *)
(* buffer is skipped.                                                      *)
(***************************************************************************)
EXTENDS Naturals, Sequences, FiniteSets

CONSTANTS
  BufferSize,  \* how much fits RTT's buffer, kRTT_BufferSizeUp in the code
  MaxClock,    \* bound: milliseconds the counter advances
  MaxEntries   \* bound: entries

ASSUME LoggingAssumption == BufferSize \in Nat /\ MaxClock \in Nat /\ MaxEntries \in Nat

Tasks == {"main", "uart", "http"}
NoTask == "none"

VARIABLES
  clock,       \* the slow clock counter, in milliseconds
  previousNow,
  now,         \* each task's time, read from the counter
  pc,          \* where each task is in HAPPlatformLogCapture, or "idle"
  failing,     \* tasks that log that time has jumped backwards
  entries,     \* how many were begun
  phase,       \* how far the device is: the main task, and then the update
  suspended,   \* tasks that vTaskSuspend stopped
  socketOpen,  \* syslog.socketDescriptor
  mutex,       \* whether syslog.mutex was created
  owner,       \* the task that holds it
  rtt,         \* RTT's buffer; each element is the number of a print
  buffer,      \* syslog.buffer
  sent,        \* what was sent
  halted,      \* an assertion of FreeRTOS has stopped the device
  printed,     \* history: how many prints there were, which numbers them
  lost,        \* history: prints that were skipped, or not sent when sendTo failed
  overtakers   \* history: who stored a later time while a task had read its own

clockVars == <<clock, previousNow, now, overtakers>>
deviceVars == <<phase, suspended, socketOpen, mutex, halted>>
bufferVars == <<rtt, buffer, sent, printed, lost>>
vars == <<clockVars, pc, failing, entries, deviceVars, owner, bufferVars>>

Init ==
  /\ clock = 0
  /\ previousNow = 0
  /\ now = [t \in Tasks |-> 0]
  /\ pc = [t \in Tasks |-> "idle"]
  /\ failing = {}
  /\ entries = 0
  /\ phase = "start"
  /\ suspended = {}
  /\ socketOpen = FALSE
  /\ mutex = FALSE
  /\ owner = NoTask
  /\ rtt = <<>> /\ buffer = <<>> /\ sent = <<>>
  /\ printed = 0 /\ lost = {}
  /\ halted = FALSE
  /\ overtakers = [t \in Tasks |-> {}]

-----------------------------------------------------------------------------
(* The scheduler *)

Priority == [main |-> 2, uart |-> 3, http |-> 4]

Waits(t) == pc[t] \in {"take", "suspend"} /\ owner # NoTask

\* An idle task may become ready at any time; one that sends waits for the
\* network processor, and a fatal error is a loop without end.
Ready(t) == t \notin suspended /\ pc[t] \notin {"idle", "send"} /\ ~Waits(t)

Inherited(t) ==
  {Priority[t]} \cup {Priority[w] : w \in {v \in Tasks : owner = t /\ Waits(v)}}

\* No task that is ready has a higher priority.
Runs(t) ==
  /\ ~halted
  /\ t \notin suspended
  /\ \A other \in Tasks : Ready(other) =>
       \A p \in Inherited(other) : \E q \in Inherited(t) : p <= q

At(t, location) == Runs(t) /\ pc[t] = location
Go(t, location) == pc' = [pc EXCEPT ![t] = location]

-----------------------------------------------------------------------------
(* The clock *)

\* Mutant: the counter is rounded up.
RoundedUp == clock + 1

Milliseconds == clock

ReadCounter(t) ==
  /\ At(t, "read")
  /\ now' = [now EXCEPT ![t] = Milliseconds]
  /\ overtakers' = [overtakers EXCEPT ![t] = {}]
  /\ Go(t, "compare")
  /\ UNCHANGED <<clock, previousNow, failing, entries, deviceVars, owner, bufferVars>>

\* Mutant: two reads in the same millisecond count as a jump.
JumpedOrStood(t) == now[t] <= previousNow

JumpedBackwards(t) == now[t] < previousNow

\* The prints that a sequence holds.
Prints(s) == {s[i] : i \in DOMAIN s}

AddPrint ==
  /\ printed' = printed + 1
  /\ IF Len(rtt) < BufferSize
     THEN rtt' = Append(rtt, printed') /\ UNCHANGED lost
     ELSE lost' = lost \cup {printed'} /\ UNCHANGED rtt

\* HAPLogFault is an entry like others, and reads the clock again.
TimeFault(t) ==
  /\ At(t, "compare")
  /\ JumpedBackwards(t)
  /\ failing' = failing \cup {t}
  /\ AddPrint
  /\ Go(t, "read")
  /\ UNCHANGED <<clockVars, entries, deviceVars, owner, buffer, sent>>

AcceptTime(t) ==
  /\ At(t, "compare")
  /\ ~JumpedBackwards(t)
  /\ Go(t, "store")
  /\ UNCHANGED <<clockVars, failing, entries, deviceVars, owner, bufferVars>>

StoreTime(t) ==
  /\ At(t, "store")
  /\ previousNow' = now[t]
  /\ overtakers' = [o \in Tasks |->
       IF pc[o] = "compare" /\ now[t] > now[o] THEN overtakers[o] \cup {t} ELSE overtakers[o]]
  /\ Go(t, "print")
  /\ UNCHANGED <<clock, now, failing, entries, deviceVars, owner, bufferVars>>

-----------------------------------------------------------------------------
(* An entry *)

\* The color comes before the time.
BeginEntry(t) ==
  /\ At(t, "idle")
  /\ entries < MaxEntries
  /\ entries' = entries + 1
  /\ AddPrint
  /\ Go(t, "read")
  /\ UNCHANGED <<clockVars, failing, deviceVars, owner, buffer, sent>>

PrintEntry(t) ==
  /\ At(t, "print")
  /\ AddPrint
  /\ Go(t, "capture")
  /\ UNCHANGED <<clockVars, failing, entries, deviceVars, owner, buffer, sent>>

\* HAPFatalError follows the entry of a fault.
EndEntry(t) == Go(t, IF t \in failing THEN "fatal" ELSE "idle")

-----------------------------------------------------------------------------
(* HAPPlatformSyslogCapture *)

NoCapture(t) ==
  /\ At(t, "capture")
  /\ ~socketOpen
  /\ EndEntry(t)
  /\ UNCHANGED <<clockVars, failing, entries, deviceVars, owner, bufferVars>>

\* The semaphore that is taken must not be NULL.
AssertSemaphore(t) ==
  /\ At(t, "capture")
  /\ socketOpen /\ ~mutex
  /\ halted' = TRUE
  /\ UNCHANGED <<clockVars, pc, failing, entries, phase, suspended, socketOpen, mutex, owner,
                 bufferVars>>

RequestMutex(t) ==
  /\ At(t, "capture")
  /\ socketOpen /\ mutex
  /\ Go(t, "take")
  /\ UNCHANGED <<clockVars, failing, entries, deviceVars, owner, bufferVars>>

ReadUpBuffer(t) ==
  /\ At(t, "take")
  /\ owner = NoTask
  /\ owner' = t
  /\ buffer' = rtt
  /\ rtt' = <<>>
  /\ Go(t, "send")
  /\ UNCHANGED <<clockVars, failing, entries, deviceVars, sent, printed, lost>>

\* Mutant: the entry waits until the mutex is free.
WaitForever(t) == FALSE /\ UNCHANGED vars

\* Mutant: that the mutex was not taken is ignored.
SendAnyway(t) ==
  /\ pc[t] = "take" /\ owner # NoTask /\ ~halted /\ t \notin suspended
  /\ buffer' = rtt
  /\ rtt' = <<>>
  /\ Go(t, "send")
  /\ UNCHANGED <<clockVars, failing, entries, deviceVars, owner, sent, printed, lost>>

\* 20 ms pass: what was printed stays in RTT's buffer.
TakeExpires(t) ==
  /\ pc[t] = "take" /\ owner # NoTask /\ ~halted /\ t \notin suspended
  /\ EndEntry(t)
  /\ UNCHANGED <<clockVars, failing, entries, deviceVars, owner, bufferVars>>

\* The network processor has taken the buffer, or sendTo failed, which is
\* ignored.
SendTo(t) ==
  /\ pc[t] = "send" /\ ~halted /\ t \notin suspended
  /\ \/ sent' = sent \o buffer /\ UNCHANGED lost
     \/ lost' = lost \cup Prints(buffer) /\ UNCHANGED sent
  /\ Go(t, "give")
  /\ UNCHANGED <<clockVars, failing, entries, deviceVars, owner, rtt, buffer, printed>>

GiveMutex(t) ==
  /\ At(t, "give")
  /\ owner' = NoTask
  /\ EndEntry(t)
  /\ UNCHANGED <<clockVars, failing, entries, deviceVars, bufferVars>>

Step(t) ==
  \/ ReadCounter(t) \/ TimeFault(t) \/ AcceptTime(t) \/ StoreTime(t) \/ PrintEntry(t)
  \/ NoCapture(t) \/ AssertSemaphore(t) \/ RequestMutex(t) \/ ReadUpBuffer(t)
  \/ TakeExpires(t) \/ SendTo(t) \/ GiveMutex(t)

-----------------------------------------------------------------------------
(* The device: syslog is initialized, the run loop stops, an update comes *)

DeviceGoes(t, from, to) ==
  /\ At(t, "idle")
  /\ phase = from
  /\ phase' = to
  /\ UNCHANGED <<clockVars, failing, entries, bufferVars, halted>>

\* Without a socket (or without remote logging) nothing is captured.
OpenSocket ==
  /\ \/ DeviceGoes("main", "start", "socket") /\ socketOpen' = TRUE
     \/ DeviceGoes("main", "start", "loop") /\ UNCHANGED socketOpen
  /\ UNCHANGED <<pc, owner, suspended, mutex>>

CreateMutex ==
  /\ DeviceGoes("main", "socket", "loop")
  /\ mutex' \in BOOLEAN
  /\ UNCHANGED <<pc, owner, suspended, socketOpen>>

\* The run loop was left.  What the main task releases then is logged.
SuspendUART ==
  /\ DeviceGoes("main", "loop", "cleanup")
  /\ suspended' = {"uart"}
  /\ UNCHANGED <<pc, owner, socketOpen, mutex>>

NotifyHTTP ==
  /\ DeviceGoes("main", "cleanup", "notified")
  /\ suspended' = {"uart", "main"}
  /\ UNCHANGED <<pc, owner, socketOpen, mutex>>

SyslogSuspend ==
  /\ DeviceGoes("http", "notified", "update")
  /\ IF mutex THEN Go("http", "suspend") ELSE UNCHANGED pc
  /\ UNCHANGED <<owner, suspended, socketOpen, mutex>>

TakeSyslog ==
  /\ At("http", "suspend")
  /\ owner = NoTask
  /\ owner' = "http"
  /\ Go("http", "idle")
  /\ UNCHANGED <<clockVars, failing, entries, deviceVars, bufferVars>>

SyslogResume ==
  /\ DeviceGoes("http", "update", "resumed")
  /\ owner' = IF mutex THEN NoTask ELSE owner
  /\ UNCHANGED <<pc, suspended, socketOpen, mutex>>

Device ==
  \/ OpenSocket \/ CreateMutex \/ SuspendUART \/ NotifyHTTP
  \/ SyslogSuspend \/ TakeSyslog \/ SyslogResume

Tick ==
  /\ clock < MaxClock
  /\ clock' = clock + 1
  /\ UNCHANGED <<previousNow, now, overtakers, pc, failing, entries, deviceVars, owner, bufferVars>>

Next == Tick \/ Device \/ \E t \in Tasks : BeginEntry(t) \/ Step(t)

Spec == Init /\ [][Next]_vars

\* A task that may run does, the 20 ms pass, and the network processor takes
\* what it is given.
FairSpec == Spec /\ \A t \in Tasks : WF_vars(Step(t))

-----------------------------------------------------------------------------
(* Properties *)

TypeOK ==
  /\ clock \in 0..MaxClock /\ previousNow \in 0..MaxClock
  /\ now \in [Tasks -> 0..MaxClock]
  /\ pc \in [Tasks -> {"idle", "read", "compare", "store", "print", "capture", "take", "send",
                       "give", "suspend", "fatal"}]
  /\ failing \subseteq Tasks
  /\ entries \in 0..MaxEntries
  /\ phase \in {"start", "socket", "loop", "cleanup", "notified", "update", "resumed"}
  /\ suspended \subseteq Tasks
  /\ socketOpen \in BOOLEAN /\ mutex \in BOOLEAN /\ halted \in BOOLEAN
  /\ owner \in Tasks \cup {NoTask}
  /\ printed \in Nat
  /\ \A s \in {rtt, buffer, sent} : s \in Seq(1..printed)
  /\ lost \subseteq 1..printed
  /\ overtakers \in [Tasks -> SUBSET Tasks]

\* HAPPlatformClockGetCurrent stops a task for time that jumped backwards only
\* when a task of higher priority has stored a later time between its read and
\* its comparison; so never the HTTP task.
FaultMeansOvertaken ==
  \A t \in Tasks : pc[t] = "compare" /\ JumpedBackwards(t) =>
    \E o \in overtakers[t] : Priority[o] > Priority[t]

\* What was sent, what is being sent and what is in RTT's buffer.
InFlight == IF \E t \in Tasks : pc[t] = "send" THEN buffer ELSE <<>>
Kept == sent \o InFlight \o rtt

\* Remote logging keeps the order and doubles nothing, and it loses only what
\* RTT's buffer has no room for and what a send that fails should have sent:
\* neither tasks that preempt each other, nor a mutex that is not had in time,
\* nor a task that is suspended while it sends costs any print.
SentInOrder ==
  /\ \A i, j \in DOMAIN Kept : i < j => Kept[i] < Kept[j]
  /\ Prints(Kept) = (1..printed) \ lost

\* Unless the device or a task stops for good, an entry that was begun ends,
\* or its task was suspended: none waits for the mutex for ever, though the
\* task that holds it may be suspended.
EntriesEnd ==
  [](~halted /\ \A t \in Tasks : pc[t] # "fatal") =>
    \A t \in Tasks :
      pc[t] \notin {"idle", "suspend"} ~> t \in suspended \/ pc[t] \in {"idle", "suspend"}
=============================================================================
