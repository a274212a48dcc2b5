---------------------------- MODULE LoggingProofs ----------------------------
(***************************************************************************)
(* Theorems about Logging, for any clock and any number of entries.        *)
(***************************************************************************)
EXTENDS Logging, SequenceTheorems, TLAPS

LEMMA PrintsFacts ==
  ASSUME NEW n \in Nat, NEW s \in Seq(1..n)
  PROVE  Prints(s) \subseteq 1..n
<1>1. \A i \in DOMAIN s : s[i] \in 1..n
  BY ElementOfSeq
<1> QED BY <1>1 DEF Prints

LEMMA MorePrints ==
  ASSUME NEW n \in Nat, NEW s \in Seq(1..n)
  PROVE  s \in Seq(1..(n + 1)) /\ Append(s, n + 1) \in Seq(1..(n + 1))
<1>1. /\ Len(s) \in Nat /\ s \in [1..Len(s) -> 1..n]
  BY LenProperties
<1>2. s \in [1..Len(s) -> 1..(n + 1)]
  BY <1>1
<1>3. s \in Seq(1..(n + 1))
  BY <1>1, <1>2, SeqDef
<1>4. n + 1 \in 1..(n + 1)
  OBVIOUS
<1> QED BY <1>3, <1>4, AppendProperties

\* What is printed goes to RTT's buffer or is lost.
LEMMA PrintTypes ==
  ASSUME TypeOK, AddPrint, UNCHANGED <<buffer, sent>>
  PROVE  /\ printed' \in Nat /\ lost' \subseteq 1..printed'
         /\ \A s \in {rtt', buffer', sent'} : s \in Seq(1..printed')
<1>1. /\ printed \in Nat /\ printed' = printed + 1 /\ lost \subseteq 1..printed
      /\ rtt \in Seq(1..printed) /\ buffer \in Seq(1..printed) /\ sent \in Seq(1..printed)
  BY DEF TypeOK, AddPrint
<1>2. /\ rtt' = Append(rtt, printed') \/ rtt' = rtt
      /\ lost' = lost \/ lost' = lost \cup {printed'}
  BY DEF AddPrint
<1>3. lost' \subseteq 1..printed'
  <2> SUFFICES ASSUME NEW n \in lost' PROVE n \in 1..printed'
    OBVIOUS
  <2>1. CASE n \in lost
    BY <1>1, <2>1
  <2>2. CASE n = printed'
    BY <1>1, <2>2
  <2> QED BY <1>2, <2>1, <2>2
<1>4. /\ rtt' \in Seq(1..printed')
      /\ buffer' \in Seq(1..printed') /\ sent' \in Seq(1..printed')
  BY <1>1, <1>2, MorePrints
<1> QED BY <1>1, <1>3, <1>4

LEMMA TypeStep == TypeOK /\ [Next]_vars => TypeOK'
<1> SUFFICES ASSUME TypeOK, [Next]_vars PROVE TypeOK'
  OBVIOUS
<1> USE LoggingAssumption DEF TypeOK, Tasks, NoTask, At, Go, clockVars, deviceVars, bufferVars
<1>1. ASSUME NEW t \in Tasks, BeginEntry(t) PROVE TypeOK'
  <2>1. /\ printed' \in Nat /\ lost' \subseteq 1..printed'
        /\ \A s \in {rtt', buffer', sent'} : s \in Seq(1..printed')
    BY <1>1, PrintTypes DEF BeginEntry
  <2> QED BY <1>1, <2>1 DEF BeginEntry
<1>2. ASSUME NEW t \in Tasks, ReadCounter(t) PROVE TypeOK'
  BY <1>2 DEF ReadCounter, Milliseconds
<1>3. ASSUME NEW t \in Tasks, TimeFault(t) PROVE TypeOK'
  <2>1. /\ printed' \in Nat /\ lost' \subseteq 1..printed'
        /\ \A s \in {rtt', buffer', sent'} : s \in Seq(1..printed')
    BY <1>3, PrintTypes DEF TimeFault
  <2> QED BY <1>3, <2>1 DEF TimeFault
<1>4. ASSUME NEW t \in Tasks, AcceptTime(t) PROVE TypeOK'
  BY <1>4 DEF AcceptTime
<1>5. ASSUME NEW t \in Tasks, StoreTime(t) PROVE TypeOK'
  BY <1>5 DEF StoreTime
<1>6. ASSUME NEW t \in Tasks, PrintEntry(t) PROVE TypeOK'
  <2>1. /\ printed' \in Nat /\ lost' \subseteq 1..printed'
        /\ \A s \in {rtt', buffer', sent'} : s \in Seq(1..printed')
    BY <1>6, PrintTypes DEF PrintEntry
  <2> QED BY <1>6, <2>1 DEF PrintEntry
<1>7. ASSUME NEW t \in Tasks, NoCapture(t) PROVE TypeOK'
  BY <1>7 DEF NoCapture, EndEntry
<1>8. ASSUME NEW t \in Tasks, AssertSemaphore(t) PROVE TypeOK'
  BY <1>8 DEF AssertSemaphore
<1>9. ASSUME NEW t \in Tasks, RequestMutex(t) PROVE TypeOK'
  BY <1>9 DEF RequestMutex
<1>10. ASSUME NEW t \in Tasks, ReadUpBuffer(t) PROVE TypeOK'
  BY <1>10 DEF ReadUpBuffer
<1>11. ASSUME NEW t \in Tasks, TakeExpires(t) PROVE TypeOK'
  BY <1>11 DEF TakeExpires, EndEntry
<1>12. ASSUME NEW t \in Tasks, SendTo(t) PROVE TypeOK'
  <2>1. /\ printed \in Nat /\ buffer \in Seq(1..printed) /\ sent \in Seq(1..printed)
        /\ printed' = printed /\ rtt' = rtt /\ buffer' = buffer
    BY <1>12 DEF SendTo
  <2>2. sent \o buffer \in Seq(1..printed) /\ Prints(buffer) \subseteq 1..printed
    BY <2>1, ConcatProperties, PrintsFacts
  <2>3. sent' \in Seq(1..printed) /\ lost' \subseteq 1..printed
    BY <1>12, <2>1, <2>2 DEF SendTo
  <2> QED BY <1>12, <2>1, <2>3 DEF SendTo
<1>13. ASSUME NEW t \in Tasks, GiveMutex(t) PROVE TypeOK'
  BY <1>13 DEF GiveMutex, EndEntry
<1>14. CASE OpenSocket
  BY <1>14 DEF OpenSocket, DeviceGoes
<1>15. CASE CreateMutex
  BY <1>15 DEF CreateMutex, DeviceGoes
<1>16. CASE SuspendUART
  BY <1>16 DEF SuspendUART, DeviceGoes
<1>17. CASE NotifyHTTP
  BY <1>17 DEF NotifyHTTP, DeviceGoes
<1>18. CASE SyslogSuspend
  BY <1>18 DEF SyslogSuspend, DeviceGoes
<1>19. CASE TakeSyslog
  BY <1>19 DEF TakeSyslog
<1>20. CASE SyslogResume
  BY <1>20 DEF SyslogResume, DeviceGoes
<1>21. CASE Tick
  BY <1>21 DEF Tick
<1>22. CASE UNCHANGED vars
  BY <1>22 DEF vars
<1> QED
  BY <1>1, <1>2, <1>3, <1>4, <1>5, <1>6, <1>7, <1>8, <1>9, <1>10, <1>11,
     <1>12, <1>13, <1>14, <1>15, <1>16, <1>17, <1>18, <1>19, <1>20, <1>21, <1>22
  DEF Next, Step, Device

\* Every variable keeps its type: the clock, previousNow and the times that
\* tasks have read of it stay within the clock's bound.
THEOREM TypeCorrect == Spec => []TypeOK
<1>1. ASSUME Init
      PROVE  /\ printed \in Nat /\ lost \subseteq 1..printed
             /\ \A s \in {rtt, buffer, sent} : s \in Seq(1..printed)
  <2>1. <<>> \in Seq(1..printed)
    OBVIOUS
  <2>2. rtt = <<>> /\ buffer = <<>> /\ sent = <<>> /\ printed = 0 /\ lost = {}
    BY <1>1 DEF Init
  <2>3. \A s \in {rtt, buffer, sent} : s \in Seq(1..printed)
    BY <2>1, <2>2, Zenon
  <2> QED BY <2>2, <2>3
<1>2. ASSUME Init PROVE TypeOK
  <2>1. /\ clock \in 0..MaxClock /\ previousNow \in 0..MaxClock /\ entries \in 0..MaxEntries
        /\ now \in [Tasks -> 0..MaxClock]
    BY <1>2, LoggingAssumption DEF Init
  <2>2. /\ pc \in [Tasks -> {"idle", "read", "compare", "store", "print", "capture", "take",
                             "send", "give", "suspend", "fatal"}]
        /\ overtakers \in [Tasks -> SUBSET Tasks]
    BY <1>2 DEF Init
  <2> QED BY <1>1, <1>2, <2>1, <2>2 DEF Init, TypeOK
<1>3. Init => TypeOK
  BY <1>2
<1> QED BY <1>3, TypeStep, PTL DEF Spec

(***************************************************************************)
(* The mutex.                                                              *)
(***************************************************************************)

\* Who reads RTT's buffer or sends holds the mutex.  It is held by nobody
\* else, but by the HTTP task for as long as an update lasts.
MutexInv ==
  /\ \A t \in Tasks : pc[t] \in {"send", "give"} => owner = t
  /\ \A t \in Tasks : owner = t =>
       pc[t] \in {"send", "give"} \/ (t = "http" /\ phase = "update")
  /\ \A t \in Tasks : pc[t] = "suspend" => t = "http" /\ phase = "update"
  /\ \A t \in Tasks : pc[t] \in {"take", "suspend"} => mutex
  /\ phase = "update" /\ mutex =>
       pc["http"] = "suspend" \/ (owner = "http" /\ pc["http"] \notin {"send", "give"})
  /\ ~mutex => owner = NoTask
  /\ phase \in {"start", "socket"} => ~mutex

LEMMA MutexStep == TypeOK /\ MutexInv /\ [Next]_vars => MutexInv'
<1> SUFFICES ASSUME TypeOK, MutexInv, [Next]_vars PROVE MutexInv'
  OBVIOUS
<1> USE DEF TypeOK, MutexInv, Tasks, NoTask, At, Go, clockVars, deviceVars, bufferVars
<1>1. ASSUME NEW t \in Tasks, BeginEntry(t) PROVE MutexInv'
  BY <1>1 DEF BeginEntry, AddPrint
<1>2. ASSUME NEW t \in Tasks, ReadCounter(t) PROVE MutexInv'
  BY <1>2 DEF ReadCounter, Milliseconds
<1>3. ASSUME NEW t \in Tasks, TimeFault(t) PROVE MutexInv'
  BY <1>3 DEF TimeFault, AddPrint
<1>4. ASSUME NEW t \in Tasks, AcceptTime(t) PROVE MutexInv'
  BY <1>4 DEF AcceptTime
<1>5. ASSUME NEW t \in Tasks, StoreTime(t) PROVE MutexInv'
  BY <1>5 DEF StoreTime
<1>6. ASSUME NEW t \in Tasks, PrintEntry(t) PROVE MutexInv'
  BY <1>6 DEF PrintEntry, AddPrint
<1>7. ASSUME NEW t \in Tasks, NoCapture(t) PROVE MutexInv'
  BY <1>7 DEF NoCapture, EndEntry
<1>8. ASSUME NEW t \in Tasks, AssertSemaphore(t) PROVE MutexInv'
  BY <1>8 DEF AssertSemaphore
<1>9. ASSUME NEW t \in Tasks, RequestMutex(t) PROVE MutexInv'
  BY <1>9 DEF RequestMutex
<1>10. ASSUME NEW t \in Tasks, ReadUpBuffer(t) PROVE MutexInv'
  BY <1>10 DEF ReadUpBuffer
<1>11. ASSUME NEW t \in Tasks, TakeExpires(t) PROVE MutexInv'
  BY <1>11 DEF TakeExpires, EndEntry
<1>12. ASSUME NEW t \in Tasks, SendTo(t) PROVE MutexInv'
  BY <1>12 DEF SendTo
<1>13. ASSUME NEW t \in Tasks, GiveMutex(t) PROVE MutexInv'
  BY <1>13 DEF GiveMutex, EndEntry
<1>14. CASE OpenSocket
  BY <1>14 DEF OpenSocket, DeviceGoes
<1>15. CASE CreateMutex
  BY <1>15 DEF CreateMutex, DeviceGoes
<1>16. CASE SuspendUART
  BY <1>16 DEF SuspendUART, DeviceGoes
<1>17. CASE NotifyHTTP
  BY <1>17 DEF NotifyHTTP, DeviceGoes
<1>18. CASE SyslogSuspend
  BY <1>18 DEF SyslogSuspend, DeviceGoes
<1>19. CASE TakeSyslog
  BY <1>19 DEF TakeSyslog
<1>20. CASE SyslogResume
  BY <1>20 DEF SyslogResume, DeviceGoes
<1>21. CASE Tick
  BY <1>21 DEF Tick
<1>22. CASE UNCHANGED vars
  BY <1>22 DEF vars
<1> QED
  BY <1>1, <1>2, <1>3, <1>4, <1>5, <1>6, <1>7, <1>8, <1>9, <1>10, <1>11,
     <1>12, <1>13, <1>14, <1>15, <1>16, <1>17, <1>18, <1>19, <1>20, <1>21, <1>22
  DEF Next, Step, Device

LEMMA MutexAlways == Spec => [](TypeOK /\ MutexInv)
<1>1. Init => MutexInv
  BY DEF Init, MutexInv, Tasks, NoTask
<1> QED BY <1>1, TypeCorrect, MutexStep, PTL DEF Spec

\* A task that runs and does not hold the mutex has a higher priority than
\* the others that are ready.  (The HTTP task has it anyway.)
LEMMA RunningTaskIsHighest ==
  ASSUME TypeOK, MutexInv, NEW t \in Tasks, NEW o \in Tasks, o # t,
         Runs(t), pc[t] \notin {"send", "give"}, Ready(o)
  PROVE  Priority[t] > Priority[o]
<1>1. /\ \A s \in Tasks : Priority[s] \in Nat
      /\ \A r, s \in Tasks : Priority[r] = Priority[s] => r = s
      /\ \A s \in Tasks \ {"http"} : Priority["http"] > Priority[s]
  BY DEF Priority, Tasks
<1>2. CASE t = "http"
  BY <1>1, <1>2
<1>3. CASE t # "http"
  <2>1. Inherited(t) = {Priority[t]}
    BY <1>3 DEF Inherited, MutexInv
  <2>2. Priority[o] \in Inherited(o)
    BY DEF Inherited
  <2>3. Priority[o] <= Priority[t]
    BY <2>1, <2>2 DEF Runs
  <2> QED BY <2>3, <1>1
<1> QED BY <1>2, <1>3

(***************************************************************************)
(* The clock.                                                              *)
(***************************************************************************)

\* All times are of the past, and no task is suspended between its read and
\* its comparison: the one that suspends it has a lower priority, or is it.
ClockInv ==
  /\ previousNow <= clock
  /\ \A t \in Tasks : now[t] <= clock
  /\ \A t \in suspended : pc[t] # "compare"
  /\ FaultMeansOvertaken

LEMMA ClockStep == TypeOK /\ MutexInv /\ ClockInv /\ [Next]_vars => ClockInv'
<1> SUFFICES ASSUME TypeOK, MutexInv, ClockInv, [Next]_vars PROVE ClockInv'
  OBVIOUS
<1>types. /\ clock \in Nat /\ previousNow \in Nat /\ MaxClock \in Nat
          /\ \A t \in Tasks : now[t] \in Nat
          /\ suspended \subseteq Tasks
          /\ pc = [t \in Tasks |-> pc[t]] /\ now = [t \in Tasks |-> now[t]]
  BY LoggingAssumption DEF TypeOK
<1>idle. ASSUME NEW t \in Tasks, NEW o \in Tasks \ suspended, Runs(t), pc[t] = "idle",
                pc[o] = "compare", Priority[o] > Priority[t]
         PROVE  FALSE
  <2>1. Ready(o) /\ o # t
    BY <1>idle DEF Ready, Waits
  <2>2. Priority[t] > Priority[o]
    BY <1>idle, <2>1, RunningTaskIsHighest
  <2> QED BY <1>idle, <2>2 DEF Priority, Tasks
<1> USE <1>types DEF ClockInv, FaultMeansOvertaken, JumpedBackwards, At, Go, clockVars,
                     deviceVars, bufferVars
<1>1. ASSUME NEW t \in Tasks, BeginEntry(t) PROVE ClockInv'
  BY <1>1 DEF BeginEntry, AddPrint
<1>2. ASSUME NEW t \in Tasks, ReadCounter(t) PROVE ClockInv'
  <2>1. clock' = clock /\ previousNow' = previousNow /\ suspended' = suspended
    BY <1>2 DEF ReadCounter
  <2>2. \A o \in Tasks : /\ now'[o] = IF o = t THEN clock ELSE now[o]
                         /\ o # t => pc'[o] = pc[o] /\ overtakers'[o] = overtakers[o]
    BY <1>2 DEF ReadCounter, Milliseconds, TypeOK
  <2>3. t \notin suspended
    BY <1>2 DEF ReadCounter, Runs
  <2> QED BY <2>1, <2>2, <2>3
<1>3. ASSUME NEW t \in Tasks, TimeFault(t) PROVE ClockInv'
  BY <1>3 DEF TimeFault, AddPrint
<1>4. ASSUME NEW t \in Tasks, AcceptTime(t) PROVE ClockInv'
  BY <1>4 DEF AcceptTime
<1>5. ASSUME NEW t \in Tasks, StoreTime(t) PROVE ClockInv'
  <2>1. /\ clock' = clock /\ previousNow' = now[t] /\ now' = now /\ suspended' = suspended
        /\ pc' = [pc EXCEPT ![t] = "print"]
    BY <1>5 DEF StoreTime
  <2>2. ASSUME NEW o \in Tasks, pc'[o] = "compare", now'[o] < previousNow'
        PROVE  t \in overtakers'[o] /\ Priority[t] > Priority[o]
    <3>1. o # t /\ pc[o] = "compare" /\ o \notin suspended
      BY <2>1, <2>2
    <3>2. t \in overtakers'[o]
      BY <2>1, <2>2, <3>1, <1>5 DEF StoreTime
    <3>3. Runs(t) /\ pc[t] \notin {"send", "give"} /\ Ready(o)
      BY <3>1, <1>5 DEF StoreTime, Ready, Waits
    <3> QED BY <3>1, <3>2, <3>3, RunningTaskIsHighest
  <2> QED BY <2>1, <2>2
<1>6. ASSUME NEW t \in Tasks, PrintEntry(t) PROVE ClockInv'
  BY <1>6 DEF PrintEntry, AddPrint
<1>7. ASSUME NEW t \in Tasks, NoCapture(t) PROVE ClockInv'
  BY <1>7 DEF NoCapture, EndEntry
<1>8. ASSUME NEW t \in Tasks, AssertSemaphore(t) PROVE ClockInv'
  BY <1>8 DEF AssertSemaphore
<1>9. ASSUME NEW t \in Tasks, RequestMutex(t) PROVE ClockInv'
  BY <1>9 DEF RequestMutex
<1>10. ASSUME NEW t \in Tasks, ReadUpBuffer(t) PROVE ClockInv'
  BY <1>10 DEF ReadUpBuffer
<1>11. ASSUME NEW t \in Tasks, TakeExpires(t) PROVE ClockInv'
  BY <1>11 DEF TakeExpires, EndEntry
<1>12. ASSUME NEW t \in Tasks, SendTo(t) PROVE ClockInv'
  BY <1>12 DEF SendTo
<1>13. ASSUME NEW t \in Tasks, GiveMutex(t) PROVE ClockInv'
  BY <1>13 DEF GiveMutex, EndEntry
<1>14. CASE OpenSocket
  BY <1>14 DEF OpenSocket, DeviceGoes
<1>15. CASE CreateMutex
  BY <1>15 DEF CreateMutex, DeviceGoes
<1>16. CASE SuspendUART
  <2>1. pc["uart"] # "compare"
    BY <1>16, <1>idle DEF SuspendUART, DeviceGoes, Priority, Tasks
  <2> QED BY <2>1, <1>16 DEF SuspendUART, DeviceGoes, Tasks
<1>17. CASE NotifyHTTP
  <2>1. pc["uart"] # "compare"
    BY <1>17, <1>idle DEF NotifyHTTP, DeviceGoes, Priority, Tasks
  <2>2. pc["main"] # "compare"
    BY <1>17 DEF NotifyHTTP, DeviceGoes
  <2> QED BY <2>1, <2>2, <1>17 DEF NotifyHTTP, DeviceGoes, Tasks
<1>18. CASE SyslogSuspend
  BY <1>18 DEF SyslogSuspend, DeviceGoes
<1>19. CASE TakeSyslog
  BY <1>19 DEF TakeSyslog
<1>20. CASE SyslogResume
  BY <1>20 DEF SyslogResume, DeviceGoes
<1>21. CASE Tick
  BY <1>21 DEF Tick
<1>22. CASE UNCHANGED vars
  BY <1>22 DEF vars
<1> QED
  BY <1>1, <1>2, <1>3, <1>4, <1>5, <1>6, <1>7, <1>8, <1>9, <1>10, <1>11,
     <1>12, <1>13, <1>14, <1>15, <1>16, <1>17, <1>18, <1>19, <1>20, <1>21, <1>22
  DEF Next, Step, Device

\* The clock stops a task for a jump backwards only when a task of higher
\* priority has overtaken it between its read and its comparison.
THEOREM FaultAlwaysMeansOvertaken == Spec => []FaultMeansOvertaken
<1>1. Init => ClockInv
  BY DEF Init, ClockInv, FaultMeansOvertaken, JumpedBackwards
<1>2. Spec => []ClockInv
  BY <1>1, MutexAlways, ClockStep, PTL DEF Spec
<1>3. ClockInv => FaultMeansOvertaken
  BY DEF ClockInv
<1> QED BY <1>2, <1>3, PTL

(***************************************************************************)
(* What is printed and what is sent.                                       *)
(***************************************************************************)

Increasing(s) == \A i, j \in DOMAIN s : i < j => s[i] < s[j]

\* All prints of one sequence come before those of another.
Before(s, t) == \A a \in Prints(s), b \in Prints(t) : a < b

LEMMA ConcatFacts ==
  ASSUME NEW s \in Seq(Nat), NEW t \in Seq(Nat)
  PROVE  /\ s \o t \in Seq(Nat)
         /\ Prints(s \o t) = Prints(s) \cup Prints(t)
         /\ Increasing(s \o t) <=> Increasing(s) /\ Increasing(t) /\ Before(s, t)
<1> DEFINE c == s \o t
<1>1. /\ c \in Seq(Nat) /\ Len(s) \in Nat /\ Len(t) \in Nat /\ Len(c) = Len(s) + Len(t)
      /\ DOMAIN s = 1..Len(s) /\ DOMAIN t = 1..Len(t) /\ DOMAIN c = 1..Len(c)
  BY ConcatProperties, LenProperties
<1>2. \A i \in DOMAIN s : i \in DOMAIN c /\ c[i] = s[i]
  BY <1>1, ConcatProperties
<1>3. \A i \in DOMAIN t : Len(s) + i \in DOMAIN c /\ c[Len(s) + i] = t[i]
  BY <1>1, ConcatProperties
<1>4. \A i \in DOMAIN c : i \in DOMAIN s \/ \E j \in DOMAIN t : i = Len(s) + j
  <2> SUFFICES ASSUME NEW i \in DOMAIN c, i \notin DOMAIN s
               PROVE  \E j \in DOMAIN t : i = Len(s) + j
    OBVIOUS
  <2>1. i - Len(s) \in DOMAIN t /\ i = Len(s) + (i - Len(s))
    BY <1>1
  <2> QED BY <2>1
<1> HIDE DEF c
<1>5. Prints(c) = Prints(s) \cup Prints(t)
  BY <1>2, <1>3, <1>4 DEF Prints
<1>6. ASSUME Increasing(c) PROVE Increasing(s) /\ Increasing(t) /\ Before(s, t)
  <2>1. Increasing(s)
    BY <1>1, <1>2, <1>6 DEF Increasing
  <2>2. Increasing(t)
    <3> SUFFICES ASSUME NEW i \in DOMAIN t, NEW j \in DOMAIN t, i < j PROVE t[i] < t[j]
      BY DEF Increasing
    <3>1. Len(s) + i < Len(s) + j
      BY <1>1
    <3> QED BY <1>3, <1>6, <3>1 DEF Increasing
  <2>3. Before(s, t)
    <3> SUFFICES ASSUME NEW i \in DOMAIN s, NEW j \in DOMAIN t PROVE s[i] < t[j]
      BY DEF Before, Prints
    <3>1. i < Len(s) + j
      BY <1>1
    <3> QED BY <1>2, <1>3, <1>6, <3>1 DEF Increasing
  <2> QED BY <2>1, <2>2, <2>3
<1>7. ASSUME Increasing(s), Increasing(t), Before(s, t) PROVE Increasing(c)
  <2> SUFFICES ASSUME NEW i \in DOMAIN c, NEW j \in DOMAIN c, i < j PROVE c[i] < c[j]
    BY DEF Increasing
  <2>1. CASE i \in DOMAIN s /\ j \in DOMAIN s
    BY <1>2, <1>7, <2>1 DEF Increasing
  <2>2. CASE i \in DOMAIN s /\ j \notin DOMAIN s
    <3>1. PICK l \in DOMAIN t : j = Len(s) + l
      BY <1>4, <2>2
    <3>2. c[i] = s[i] /\ c[j] = t[l]
      BY <1>2, <1>3, <2>2, <3>1
    <3> QED BY <1>7, <2>2, <3>2 DEF Before, Prints
  <2>3. CASE i \notin DOMAIN s
    <3>1. PICK k \in DOMAIN t : i = Len(s) + k
      BY <1>4, <2>3
    <3>2. PICK l \in DOMAIN t : j = Len(s) + l
      <4>1. j \notin DOMAIN s
        BY <1>1, <3>1
      <4> QED BY <1>4, <4>1
    <3>3. k < l
      BY <1>1, <3>1, <3>2
    <3> QED BY <1>3, <1>7, <3>1, <3>2, <3>3 DEF Increasing
  <2> QED BY <2>1, <2>2, <2>3
<1> QED BY <1>1, <1>5, <1>6, <1>7 DEF c

LEMMA OneFacts ==
  ASSUME NEW n \in Nat
  PROVE  /\ <<n>> \in Seq(Nat) /\ Prints(<<n>>) = {n} /\ Increasing(<<n>>)
         /\ \A s \in Seq(Nat) : Append(s, n) = s \o <<n>>
<1>1. <<n>> \in Seq(Nat) /\ Prints(<<n>>) = {n} /\ Increasing(<<n>>)
  BY DEF Prints, Increasing
<1>2. ASSUME NEW s \in Seq(Nat) PROVE Append(s, n) = s \o <<n>>
  BY <1>2, AppendIsConcat
<1> QED BY <1>1, <1>2

LEMMA KeptFacts ==
  ASSUME TypeOK
  PROVE  /\ rtt \in Seq(Nat) /\ buffer \in Seq(Nat) /\ sent \in Seq(Nat) /\ InFlight \in Seq(Nat)
         /\ Kept = (sent \o InFlight) \o rtt /\ Kept \in Seq(Nat) /\ sent \o InFlight \in Seq(Nat)
         /\ SentInOrder <=> Increasing(Kept) /\ Prints(Kept) = (1..printed) \ lost
<1>1. \A s \in {rtt, buffer, sent} : s \in Seq(Nat)
  <2>1. \A s : s \in Seq(1..printed) => s \in Seq(Nat)
    <3> SUFFICES ASSUME NEW s \in Seq(1..printed) PROVE s \in Seq(Nat)
      OBVIOUS
    <3>1. /\ Len(s) \in Nat /\ s \in [1..Len(s) -> 1..printed]
      BY LenProperties
    <3>2. s \in [1..Len(s) -> Nat]
      BY <3>1
    <3> QED BY <3>1, <3>2, SeqDef
  <2> QED BY <2>1 DEF TypeOK
<1>2. InFlight \in Seq(Nat)
  BY <1>1 DEF InFlight
<1>3. sent \o InFlight \in Seq(Nat) /\ (sent \o InFlight) \o rtt \in Seq(Nat)
  BY <1>1, <1>2, ConcatProperties
<1> QED BY <1>1, <1>2, <1>3 DEF Kept, SentInOrder, Increasing

LEMMA OrderStep == TypeOK /\ MutexInv /\ SentInOrder /\ [Next]_vars => SentInOrder'
<1> SUFFICES ASSUME TypeOK, MutexInv, SentInOrder, [Next]_vars PROVE SentInOrder'
  OBVIOUS
<1>goal. SentInOrder' <=> Increasing(Kept') /\ Prints(Kept') = (1..printed') \ lost'
  BY DEF SentInOrder, Increasing, Prints
<1>kept. Kept' = (sent' \o InFlight') \o rtt'
  BY DEF Kept
<1>types. /\ pc = [t \in Tasks |-> pc[t]]
          /\ printed \in Nat /\ lost \subseteq 1..printed
  BY DEF TypeOK
<1>print. ASSUME AddPrint, InFlight' = InFlight, UNCHANGED sent PROVE SentInOrder'
  <2>1. printed' = printed + 1 /\ printed' \in Nat
    BY <1>types, <1>print DEF AddPrint
  <2>2. CASE rtt' = Append(rtt, printed') /\ UNCHANGED lost
    <3> DEFINE one == <<printed'>>
    <3>one. one \in Seq(Nat) /\ Prints(one) = {printed'} /\ Increasing(one)
      BY <2>1, OneFacts
    <3>app. Append(rtt, printed') = rtt \o one
      <4>1. rtt \in Seq(Nat) /\ printed' \in Nat
        BY <2>1, KeptFacts
      <4> QED BY <4>1, OneFacts
    <3> HIDE DEF one
    <3>1. Kept' = Kept \o one
      <4>1. (sent \o InFlight) \o (rtt \o one) = ((sent \o InFlight) \o rtt) \o one
        <5>1. \A q, r, s \in Seq(Nat) : (q \o r) \o s = q \o (r \o s)
          BY ConcatAssociative
        <5>2. sent \o InFlight \in Seq(Nat) /\ rtt \in Seq(Nat) /\ one \in Seq(Nat)
          BY <3>one, KeptFacts
        <5> QED BY <5>1, <5>2
      <4>2. Kept' = (sent \o InFlight) \o (rtt \o one)
        BY <1>kept, <1>print, <2>2, <3>app
      <4> QED BY <4>1, <4>2, KeptFacts
    <3>2. Before(Kept, one)
      <4>1. Prints(Kept) = (1..printed) \ lost
        BY KeptFacts
      <4>2. \A n \in 1..printed : n < printed'
        BY <1>types, <2>1
      <4> SUFFICES ASSUME NEW a \in Prints(Kept), NEW b \in Prints(one) PROVE a < b
        BY DEF Before
      <4>3. a \in 1..printed /\ b = printed'
        BY <3>one, <4>1
      <4> QED BY <4>2, <4>3
    <3>3. Increasing(Kept') /\ Prints(Kept') = Prints(Kept) \cup {printed'}
      BY <3>1, <3>2, <3>one, KeptFacts, ConcatFacts
    <3>4. Prints(Kept') = (1..printed') \ lost'
      <4>1. Prints(Kept') = ((1..printed) \ lost) \cup {printed'} /\ lost' = lost
        BY <2>2, <3>3, KeptFacts
      <4>2. printed' \notin lost /\ 1..printed' = (1..printed) \cup {printed'}
        BY <1>types, <2>1
      <4> QED BY <4>1, <4>2
    <3> QED BY <1>goal, <3>3, <3>4
  <2>3. CASE lost' = lost \cup {printed'} /\ UNCHANGED rtt
    <3>1. Kept' = Kept
      BY <1>kept, <1>print, <2>3, KeptFacts
    <3>2. (1..printed') \ lost' = (1..printed) \ lost
      BY <1>types, <2>1, <2>3
    <3> QED BY <1>goal, <3>1, <3>2, KeptFacts
  <2> QED BY <1>print, <2>2, <2>3 DEF AddPrint
<1>moved. ASSUME Kept' = Kept, UNCHANGED <<printed, lost>> PROVE SentInOrder'
  BY <1>moved, <1>goal, KeptFacts
<1>same. ASSUME InFlight' = InFlight, UNCHANGED <<sent, rtt, printed, lost>> PROVE SentInOrder'
  BY <1>same, <1>moved, <1>kept, KeptFacts
<1>pc. ASSUME NEW t \in Tasks, NEW to, pc' = [pc EXCEPT ![t] = to], pc[t] # "send", to # "send",
              UNCHANGED buffer
       PROVE  InFlight' = InFlight
  BY <1>pc, <1>types DEF InFlight
<1> USE DEF At, Go, clockVars, deviceVars, bufferVars
<1>1. ASSUME NEW t \in Tasks, BeginEntry(t) PROVE SentInOrder'
  <2>1. InFlight' = InFlight
    BY <1>1, <1>pc DEF BeginEntry
  <2> QED BY <1>1, <2>1, <1>print DEF BeginEntry
<1>2. ASSUME NEW t \in Tasks, ReadCounter(t) PROVE SentInOrder'
  <2>1. InFlight' = InFlight
    BY <1>2, <1>pc DEF ReadCounter
  <2> QED BY <1>2, <2>1, <1>same DEF ReadCounter
<1>3. ASSUME NEW t \in Tasks, TimeFault(t) PROVE SentInOrder'
  <2>1. InFlight' = InFlight
    BY <1>3, <1>pc DEF TimeFault
  <2> QED BY <1>3, <2>1, <1>print DEF TimeFault
<1>4. ASSUME NEW t \in Tasks, AcceptTime(t) PROVE SentInOrder'
  <2>1. InFlight' = InFlight
    BY <1>4, <1>pc DEF AcceptTime
  <2> QED BY <1>4, <2>1, <1>same DEF AcceptTime
<1>5. ASSUME NEW t \in Tasks, StoreTime(t) PROVE SentInOrder'
  <2>1. InFlight' = InFlight
    BY <1>5, <1>pc DEF StoreTime
  <2> QED BY <1>5, <2>1, <1>same DEF StoreTime
<1>6. ASSUME NEW t \in Tasks, PrintEntry(t) PROVE SentInOrder'
  <2>1. InFlight' = InFlight
    BY <1>6, <1>pc DEF PrintEntry
  <2> QED BY <1>6, <2>1, <1>print DEF PrintEntry
<1>7. ASSUME NEW t \in Tasks, NoCapture(t) PROVE SentInOrder'
  <2>1. InFlight' = InFlight
    BY <1>7, <1>pc DEF NoCapture, EndEntry
  <2> QED BY <1>7, <2>1, <1>same DEF NoCapture, EndEntry
<1>8. ASSUME NEW t \in Tasks, AssertSemaphore(t) PROVE SentInOrder'
  BY <1>8, <1>same DEF AssertSemaphore, InFlight
<1>9. ASSUME NEW t \in Tasks, RequestMutex(t) PROVE SentInOrder'
  <2>1. InFlight' = InFlight
    BY <1>9, <1>pc DEF RequestMutex
  <2> QED BY <1>9, <2>1, <1>same DEF RequestMutex
<1>10. ASSUME NEW t \in Tasks, ReadUpBuffer(t) PROVE SentInOrder'
  <2>1. InFlight = <<>> /\ InFlight' = rtt /\ rtt' = <<>>
    <3>1. pc' = [pc EXCEPT ![t] = "send"] /\ buffer' = rtt /\ owner = NoTask
      BY <1>10 DEF ReadUpBuffer
    <3>2. \A o \in Tasks : pc[o] # "send"
      BY <3>1 DEF MutexInv, Tasks, NoTask
    <3> QED BY <3>1, <3>2, <1>types, <1>10 DEF InFlight, ReadUpBuffer
  <2>2. (sent \o <<>>) \o rtt = (sent \o rtt) \o <<>>
    BY KeptFacts, ConcatProperties, ConcatEmptySeq
  <2>3. Kept' = Kept
    BY <1>10, <1>kept, <2>1, <2>2, KeptFacts DEF ReadUpBuffer
  <2> QED BY <1>10, <1>moved, <2>3 DEF ReadUpBuffer
<1>11. ASSUME NEW t \in Tasks, TakeExpires(t) PROVE SentInOrder'
  <2>1. InFlight' = InFlight
    BY <1>11, <1>pc DEF TakeExpires, EndEntry
  <2> QED BY <1>11, <2>1, <1>same DEF TakeExpires, EndEntry
<1>12. ASSUME NEW t \in Tasks, SendTo(t) PROVE SentInOrder'
  <2>1. InFlight = buffer /\ InFlight' = <<>>
    <3>1. pc[t] = "send" /\ pc' = [pc EXCEPT ![t] = "give"]
      BY <1>12 DEF SendTo
    <3>2. \A o \in Tasks \ {t} : pc[o] # "send"
      BY <3>1 DEF MutexInv
    <3> QED BY <3>1, <3>2, <1>types DEF InFlight
  <2>2. CASE sent' = sent \o buffer /\ UNCHANGED lost
    <3>1. (sent \o buffer) \o <<>> = sent \o buffer
      BY KeptFacts, ConcatProperties, ConcatEmptySeq
    <3>2. Kept' = Kept
      BY <1>12, <1>kept, <2>1, <2>2, <3>1, KeptFacts DEF SendTo
    <3> QED BY <1>12, <1>moved, <2>2, <3>2 DEF SendTo
  <2>3. CASE lost' = lost \cup Prints(buffer) /\ UNCHANGED sent
    <3>1. Kept = (sent \o buffer) \o rtt /\ Kept' = sent \o rtt
      <4>1. sent \o <<>> = sent
        BY KeptFacts, ConcatEmptySeq
      <4> QED BY <1>12, <1>kept, <2>1, <2>3, <4>1, KeptFacts DEF SendTo
    <3>2. /\ Increasing(sent) /\ Increasing(buffer) /\ Increasing(rtt)
          /\ Before(sent, buffer) /\ Before(sent \o buffer, rtt)
          /\ Prints(sent \o buffer) = Prints(sent) \cup Prints(buffer)
          /\ Prints(Kept) = Prints(sent) \cup Prints(buffer) \cup Prints(rtt)
      BY <2>1, <3>1, KeptFacts, ConcatFacts
    <3>3. Before(sent, rtt) /\ Before(buffer, rtt)
      BY <3>2 DEF Before
    <3>4. Increasing(Kept') /\ Prints(Kept') = Prints(sent) \cup Prints(rtt)
      BY <3>1, <3>2, <3>3, KeptFacts, ConcatFacts
    <3>5. \A n \in Prints(buffer) : n \in Nat /\ n \notin Prints(sent) /\ n \notin Prints(rtt)
      <4>1. Prints(buffer) \subseteq Nat
        BY KeptFacts, ElementOfSeq DEF Prints
      <4> QED BY <3>2, <3>3, <4>1 DEF Before
    <3>6. Prints(Kept') = (1..printed) \ lost'
      BY <2>3, <3>2, <3>4, <3>5, KeptFacts
    <3>7. printed' = printed
      BY <1>12 DEF SendTo
    <3> QED BY <1>goal, <3>4, <3>6, <3>7
  <2> QED BY <1>12, <2>2, <2>3 DEF SendTo
<1>13. ASSUME NEW t \in Tasks, GiveMutex(t) PROVE SentInOrder'
  <2>1. InFlight' = InFlight
    BY <1>13, <1>pc DEF GiveMutex, EndEntry
  <2> QED BY <1>13, <2>1, <1>same DEF GiveMutex, EndEntry
<1>14. CASE OpenSocket
  BY <1>14, <1>same DEF OpenSocket, DeviceGoes, InFlight
<1>15. CASE CreateMutex
  BY <1>15, <1>same DEF CreateMutex, DeviceGoes, InFlight
<1>16. CASE SuspendUART
  BY <1>16, <1>same DEF SuspendUART, DeviceGoes, InFlight
<1>17. CASE NotifyHTTP
  BY <1>17, <1>same DEF NotifyHTTP, DeviceGoes, InFlight
<1>18. CASE SyslogSuspend
  <2>1. InFlight' = InFlight
    BY <1>18, <1>types DEF SyslogSuspend, DeviceGoes, InFlight, Tasks
  <2> QED BY <1>18, <2>1, <1>same DEF SyslogSuspend, DeviceGoes
<1>19. CASE TakeSyslog
  <2>1. InFlight' = InFlight
    BY <1>19, <1>types DEF TakeSyslog, InFlight, Tasks
  <2> QED BY <1>19, <2>1, <1>same DEF TakeSyslog
<1>20. CASE SyslogResume
  BY <1>20, <1>same DEF SyslogResume, DeviceGoes, InFlight
<1>21. CASE Tick
  BY <1>21, <1>same DEF Tick, InFlight
<1>22. CASE UNCHANGED vars
  BY <1>22, <1>same DEF vars, InFlight
<1> QED
  BY <1>1, <1>2, <1>3, <1>4, <1>5, <1>6, <1>7, <1>8, <1>9, <1>10, <1>11,
     <1>12, <1>13, <1>14, <1>15, <1>16, <1>17, <1>18, <1>19, <1>20, <1>21, <1>22
  DEF Next, Step, Device

\* Remote logging sends what was printed once and in order, and loses only
\* what RTT's buffer has no room for and what sendTo fails to send.
THEOREM AlwaysSentInOrder == Spec => []SentInOrder
<1>1. Init => SentInOrder
  <2> SUFFICES ASSUME Init PROVE SentInOrder
    OBVIOUS
  <2>1. <<>> \o <<>> \o <<>> = <<>>
    OBVIOUS
  <2>2. Kept = <<>> /\ DOMAIN Kept = {} /\ printed = 0 /\ lost = {}
    BY <2>1 DEF Init, Kept, InFlight
  <2> QED BY <2>2 DEF SentInOrder, Prints
<1> QED BY <1>1, MutexAlways, OrderStep, PTL DEF Spec
=============================================================================
