------------------------------ MODULE UARTLink ------------------------------
(***************************************************************************)
(* UART.c: the task that talks to the fan's controller over a serial line. *)
(* It sends one queued message, starts to read one message, waits for the  *)
(* interrupt handler's notification or for 10 s to pass, and processes     *)
(* what was received; the response to each initialization message makes it *)
(* queue the next one.  The handler ReadCallback reads a message in three  *)
(* parts and runs between any two steps of the task.                       *)
(*                                                                         *)
(* A message travels as three segments: the start-of-message byte, the     *)
(* rest of the header, and the payload with its CRC.  Of a byte the model  *)
(* keeps the segment it belongs to; no byte but the first of a message     *)
(* looks like the start of one.                                            *)
(***************************************************************************)
EXTENDS Integers, Sequences, FiniteSets

CONSTANTS
  InitStages,   \* length of the initialization sequence, 9 in the code
  QueueDepth,   \* kUART_RXQueueDepth and kUART_TXQueueDepth
  MaxLosses,    \* bound: requests the fan does not answer
  MaxCorrupted, \* bound: segments damaged on the line
  MaxRaces,     \* bound: timeouts while an answer is on its way, and
                \* answers that begin before the task starts to read
  MaxOthers,    \* bound: button presses on the remote control and commands
                \* queued by other tasks, together
  Corruptible,  \* the segments that damage may hit
  StraySizes    \* payload sizes that a damaged header, or bytes taken for a
                \* header, may show

ASSUME UARTAssumption ==
  /\ InitStages \in 1..9
  /\ QueueDepth \in Nat \ {0}
  /\ Corruptible \subseteq {"som", "header", "rest"}
  /\ StraySizes \subseteq Nat

VARIABLES
  txQueue, rxQueue,  \* txMessageQueue, rxMessageQueue
  sent,              \* the task's message, or None if none was pending
  notification,      \* the task's pending notification, or "none"
  status,            \* the task's notificationValue
  pc,                \* where the task is
  initFlags,
  reading,           \* what the UART_read in progress asks for, or NoRead
  rxTotalBytes,
  rxBuffer,
  ring,              \* bytes received, not read
  wire,              \* segments on their way from the fan
  inbox,             \* messages the fan has not dealt with
  budget             \* how much of each bound is used

taskVars == <<sent, status, pc, initFlags>>
isrVars == <<reading, rxTotalBytes, rxBuffer>>
lineVars == <<ring, wire, inbox>>
vars == <<txQueue, rxQueue, notification, taskVars, isrVars, lineVars, budget>>

None == <<"none", 0>>
InitMessage(n) == <<"init", n>>
\* A "command" is for the fan or for its light and is answered with "done";
\* "remote" is a press of one of the two buttons the task has a command for.
TxMessages == {InitMessage(n) : n \in 1..InitStages} \cup {<<"command", 0>>}
RxMessages == {InitMessage(n) : n \in 1..InitStages}
              \cup {<<"remote", 0>>, <<"done", 0>>}
\* The sizes the comments in IsRXOpcodeValid give, in order of the sequence.
PayloadSize(msg) ==
  CASE msg[1] = "init" -> <<2, 5, 2, 2, 3, 16, 10, 34, 2>>[msg[2]]
    [] msg[1] = "remote" -> 6
    [] OTHER -> 3

MaxPayloadSize == 58
CRCSize == 2
SegmentSize(seg, msg) ==
  CASE seg = "som" -> 1 [] seg = "header" -> 3 [] OTHER -> PayloadSize(msg) + CRCSize
Segments(msg) == [i \in 1..3 |-> [seg |-> <<"som", "header", "rest">>[i], msg |-> msg]]
Bytes(s, ok) ==
  [i \in 1..SegmentSize(s.seg, s.msg) |-> [seg |-> s.seg, msg |-> s.msg, ok |-> ok, first |-> i = 1]]

NoRead == [part |-> "none", count |-> 0]

\* The opcode 0 is that of the response to the first initialization message.
ZeroBuffer == [som |-> FALSE, msg |-> InitMessage(1), size |-> 0, crc |-> FALSE]

Init ==
  /\ txQueue = <<InitMessage(1)>>
  /\ rxQueue = <<>>
  /\ sent = None
  /\ notification = "none"
  /\ status = "OK"
  /\ pc = "send"
  /\ initFlags = {}
  /\ reading = NoRead
  /\ rxTotalBytes = 0
  /\ rxBuffer = ZeroBuffer
  /\ ring = <<>>
  /\ wire = <<>>
  /\ inbox = <<>>
  /\ budget = [losses |-> 0, corrupted |-> 0, races |-> 0, remotes |-> 0, commands |-> 0]

Spend(kind, bound) ==
  budget[kind] < bound /\ budget' = [budget EXCEPT ![kind] = @ + 1]

\* EnqueueMessage drops a message that finds the queue full.
Enqueued(q, msg) == IF Len(q) < QueueDepth THEN Append(q, msg) ELSE q

-----------------------------------------------------------------------------
(* The interrupt handler *)

\* A complete message is posted, whatever its CRC: the notification of a bad
\* CRC is overwritten at once.
Post ==
  /\ rxQueue' = Enqueued(rxQueue, [msg |-> rxBuffer'.msg, crc |-> rxBuffer'.crc])
  /\ notification' = "OK"
  /\ reading' = NoRead

Notify(value) ==
  notification' = value /\ reading' = NoRead /\ UNCHANGED rxQueue

Read(part, count) ==
  reading' = [part |-> part, count |-> count] /\ UNCHANGED <<rxQueue, notification>>

\* Mutant: the CRC is not counted as part of the message.
CRCLeftBehind ==
  CASE rxTotalBytes' = 0 -> Read("som", 1)
    [] rxTotalBytes' = 1 -> IF rxBuffer'.som THEN Read("header", 3) ELSE Notify("InvalidSOM")
    [] rxTotalBytes' = 4 /\ rxBuffer'.size <= MaxPayloadSize -> Read("rest", rxBuffer'.size)
    [] rxTotalBytes' = 4 /\ rxBuffer'.size > MaxPayloadSize -> Notify("InvalidPayloadSize")
    [] rxTotalBytes' = 4 + rxBuffer'.size -> Post
    [] OTHER -> Read("none", 0)

\* What ReadCallback does once the bytes it was called for are counted.
ReadCallback ==
  CASE rxTotalBytes' = 0 -> Read("som", 1)
    [] rxTotalBytes' = 1 -> IF rxBuffer'.som THEN Read("header", 3) ELSE Notify("InvalidSOM")
    [] rxTotalBytes' = 4 /\ rxBuffer'.size <= MaxPayloadSize -> Read("rest", rxBuffer'.size + CRCSize)
    [] rxTotalBytes' = 4 /\ rxBuffer'.size > MaxPayloadSize -> Notify("InvalidPayloadSize")
    [] rxTotalBytes' = 4 + rxBuffer'.size + CRCSize -> Post
    [] OTHER -> Read("none", 0)

\* The bytes read are one whole segment of the kind the read is for.
Aligned(bytes) ==
  /\ bytes[1].first
  /\ bytes[1].seg = reading.part
  /\ Len(bytes) = SegmentSize(bytes[1].seg, bytes[1].msg)

\* What lands in the buffer.  A damaged header, or what is taken for one,
\* names no message the task knows.
Filled(bytes) ==
  LET good == Aligned(bytes) /\ bytes[1].ok
      msg == bytes[1].msg
  IN CASE reading.part = "som" -> {[rxBuffer EXCEPT !.som = good]}
       [] reading.part = "header" ->
            {[rxBuffer EXCEPT !.msg = IF good THEN msg ELSE None, !.size = size] :
               size \in IF good THEN {PayloadSize(msg)} ELSE StraySizes}
       [] OTHER -> {[rxBuffer EXCEPT !.crc = good /\ rxBuffer.msg = msg]}

\* The bytes asked for are there.
ReadComplete == reading # NoRead /\ Len(ring) >= reading.count

\* A read begins a message while the task does not wait for one only when it
\* was left over from before a timeout; MaxRaces bounds that, and past the
\* bound the byte comes a little later.
MayRead == reading.part = "som" /\ pc # "wait" => budget.races < MaxRaces

ReceiveInterrupt ==
  /\ ReadComplete
  /\ MayRead
  /\ IF reading.part = "som" /\ pc # "wait" THEN Spend("races", MaxRaces) ELSE UNCHANGED budget
  /\ rxBuffer' \in Filled(SubSeq(ring, 1, reading.count))
  /\ rxTotalBytes' = rxTotalBytes + reading.count
  /\ ReadCallback
  /\ ring' = SubSeq(ring, reading.count + 1, Len(ring))
  /\ UNCHANGED <<txQueue, taskVars, wire, inbox>>

-----------------------------------------------------------------------------
(* The task *)

SendPending ==
  /\ pc = "send"
  /\ IF txQueue = <<>>
     THEN sent' = None /\ UNCHANGED <<txQueue, inbox>>
     ELSE /\ sent' = Head(txQueue)
          /\ txQueue' = Tail(txQueue)
          /\ inbox' = Append(inbox, Head(txQueue))
  /\ pc' = "read"
  /\ UNCHANGED <<rxQueue, notification, status, initFlags, isrVars, ring, wire, budget>>

\* Mutant: the count of bytes is not started over.
CountKept ==
  /\ pc = "read"
  /\ pc' = "clear"
  /\ UNCHANGED <<txQueue, rxQueue, notification, sent, status, initFlags, lineVars,
                 isrVars, budget>>

ResetCount ==
  /\ pc = "read"
  /\ rxTotalBytes' = 0
  /\ pc' = "clear"
  /\ UNCHANGED <<txQueue, rxQueue, notification, sent, status, initFlags, lineVars,
                 reading, rxBuffer, budget>>

ClearBuffer ==
  /\ pc = "clear"
  /\ rxBuffer' = ZeroBuffer
  /\ pc' = "start"
  /\ UNCHANGED <<txQueue, rxQueue, notification, sent, status, initFlags, lineVars,
                 reading, rxTotalBytes, budget>>

\* UART_read is refused while another read is in progress.
StartRead ==
  /\ pc = "start"
  /\ reading' = IF reading = NoRead THEN [part |-> "som", count |-> 1] ELSE reading
  /\ pc' = "wait"
  /\ UNCHANGED <<txQueue, rxQueue, notification, sent, status, initFlags, lineVars,
                 rxTotalBytes, rxBuffer, budget>>

Notified ==
  /\ pc = "wait"
  /\ notification # "none"
  /\ status' = notification
  /\ notification' = "none"
  /\ pc' = "status"
  /\ UNCHANGED <<txQueue, rxQueue, sent, initFlags, isrVars, lineVars, budget>>

\* Nothing is on its way and the read in progress will not complete.
Quiet == inbox = <<>> /\ wire = <<>> /\ ~ReadComplete

\* 10 s pass.
Timeout ==
  /\ pc = "wait"
  /\ notification = "none"
  /\ \/ Quiet /\ UNCHANGED budget
     \/ ~Quiet /\ Spend("races", MaxRaces)
  /\ pc' = "cancel"
  /\ UNCHANGED <<txQueue, rxQueue, notification, sent, status, initFlags, isrVars, lineVars>>

\* Mutant: the message is not sent again.
NotResent == txQueue

\* Mutant: every timeout sends the initialization's first message again.
RestartedOnTimeout == Enqueued(txQueue, InitMessage(1))

Resent == IF sent # None THEN Enqueued(txQueue, sent) ELSE txQueue

\* Cancelling a read in progress calls ReadCallback with the bytes that were
\* there of those asked for; when there were none, it asks for them again.
CancelAndResend ==
  /\ pc = "cancel"
  /\ ReadComplete => ~MayRead
  /\ UNCHANGED rxBuffer
  /\ LET bytes == IF ReadComplete THEN 0 ELSE Len(ring) IN
       IF reading = NoRead
       THEN UNCHANGED <<reading, rxQueue, notification, rxTotalBytes, ring>>
       ELSE /\ rxTotalBytes' = rxTotalBytes + bytes
            /\ ring' = SubSeq(ring, bytes + 1, Len(ring))
            /\ ReadCallback
  /\ txQueue' = Resent
  /\ status' = "OK"
  /\ pc' = "status"
  /\ UNCHANGED <<sent, initFlags, wire, inbox, budget>>

\* FlushBuffers throws away all that was received and not read.
HandleStatus ==
  /\ pc = "status"
  /\ ring' = IF status = "OK" THEN ring ELSE <<>>
  /\ pc' = "process"
  /\ UNCHANGED <<txQueue, rxQueue, notification, sent, status, initFlags, isrVars,
                 wire, inbox, budget>>

\* Mutant: the last response is answered too.
OneTooMany(msg) ==
  CASE msg[1] = "init" -> Enqueued(txQueue, InitMessage(msg[2] + 1))
    [] msg[1] = "remote" -> Enqueued(txQueue, <<"command", 0>>)
    [] OTHER -> txQueue

\* What the task queues in answer to a message.
Answer(msg) ==
  CASE msg[1] = "init" /\ msg[2] < InitStages -> Enqueued(txQueue, InitMessage(msg[2] + 1))
    [] msg[1] = "remote" -> Enqueued(txQueue, <<"command", 0>>)
    [] OTHER -> txQueue

ProcessIncomingMessage ==
  /\ pc = "process"
  /\ rxQueue # <<>>
  /\ LET msg == Head(rxQueue).msg IN
       /\ txQueue' = Answer(msg)
       /\ initFlags' = IF msg[1] = "init" THEN initFlags \cup {msg[2]} ELSE initFlags
  /\ rxQueue' = Tail(rxQueue)
  /\ UNCHANGED <<notification, sent, status, pc, isrVars, lineVars, budget>>

\* Mutant: the task leaves messages for its next turn.
ProcessingStopsEarly ==
  /\ pc = "process"
  /\ pc' = "send"
  /\ UNCHANGED <<txQueue, rxQueue, notification, sent, status, initFlags, isrVars,
                 lineVars, budget>>

ProcessingDone ==
  /\ pc = "process"
  /\ rxQueue = <<>>
  /\ pc' = "send"
  /\ UNCHANGED <<txQueue, rxQueue, notification, sent, status, initFlags, isrVars,
                 lineVars, budget>>

\* SendFanControlCommand and SendLightControlCommand, from other tasks.
SendCommand ==
  /\ Spend("commands", MaxOthers - budget.remotes)
  /\ txQueue' = Enqueued(txQueue, <<"command", 0>>)
  /\ UNCHANGED <<rxQueue, notification, taskVars, isrVars, lineVars>>

-----------------------------------------------------------------------------
(* The fan's controller and the line *)

Response(msg) == IF msg[1] = "init" THEN msg ELSE <<"done", 0>>

FanAnswers ==
  /\ inbox # <<>>
  /\ wire' = wire \o Segments(Response(Head(inbox)))
  /\ inbox' = Tail(inbox)
  /\ UNCHANGED <<txQueue, rxQueue, notification, taskVars, isrVars, ring, budget>>

FanLosesRequest ==
  /\ inbox # <<>>
  /\ Spend("losses", MaxLosses)
  /\ inbox' = Tail(inbox)
  /\ UNCHANGED <<txQueue, rxQueue, notification, taskVars, isrVars, ring, wire>>

RemoteControl ==
  /\ Spend("remotes", MaxOthers - budget.commands)
  /\ wire' = wire \o Segments(<<"remote", 0>>)
  /\ UNCHANGED <<txQueue, rxQueue, notification, taskVars, isrVars, ring, inbox>>

Arrive ==
  /\ wire # <<>>
  /\ ring' = ring \o Bytes(Head(wire), TRUE)
  /\ wire' = Tail(wire)
  /\ UNCHANGED <<txQueue, rxQueue, notification, taskVars, isrVars, inbox, budget>>

ArriveDamaged ==
  /\ wire # <<>>
  /\ Head(wire).seg \in Corruptible
  /\ Spend("corrupted", MaxCorrupted)
  /\ ring' = ring \o Bytes(Head(wire), FALSE)
  /\ wire' = Tail(wire)
  /\ UNCHANGED <<txQueue, rxQueue, notification, taskVars, isrVars, inbox>>

-----------------------------------------------------------------------------
TaskStep ==
  SendPending \/ ResetCount \/ ClearBuffer \/ StartRead \/ Notified \/ CancelAndResend
    \/ HandleStatus \/ ProcessIncomingMessage \/ ProcessingDone

Next ==
  \/ TaskStep
  \/ Timeout
  \/ ReceiveInterrupt
  \/ FanAnswers
  \/ FanLosesRequest
  \/ RemoteControl
  \/ SendCommand
  \/ Arrive
  \/ ArriveDamaged

Spec == Init /\ [][Next]_vars

\* The task and the handler run, time passes, and what the fan gets it
\* answers, or loses, in the end.
Fairness ==
  /\ WF_vars(TaskStep)
  /\ WF_vars(Timeout)
  /\ WF_vars(ReceiveInterrupt)
  /\ WF_vars(FanAnswers \/ FanLosesRequest)
  /\ WF_vars(Arrive \/ ArriveDamaged)

FairSpec == Spec /\ Fairness

-----------------------------------------------------------------------------
(* Properties *)

Parts == {"som", "header", "rest"}

TypeOK ==
  /\ txQueue \in Seq(TxMessages) /\ Len(txQueue) <= QueueDepth
  /\ rxQueue \in Seq([msg : RxMessages \cup {None}, crc : BOOLEAN]) /\ Len(rxQueue) <= QueueDepth
  /\ sent \in TxMessages \cup {None}
  /\ notification \in {"none", "OK", "InvalidSOM", "InvalidPayloadSize"}
  /\ status \in {"OK", "InvalidSOM", "InvalidPayloadSize"}
  /\ pc \in {"send", "read", "clear", "start", "wait", "cancel", "status", "process"}
  /\ initFlags \subseteq 1..InitStages
  /\ reading \in [part : Parts \cup {"none"}, count : 0..(MaxPayloadSize + CRCSize)]
  /\ rxTotalBytes \in Nat
  /\ rxBuffer \in [som : BOOLEAN, msg : RxMessages \cup {None},
                   size : StraySizes \cup 0..MaxPayloadSize, crc : BOOLEAN]
  /\ ring \in Seq([seg : Parts, msg : RxMessages, ok : BOOLEAN, first : BOOLEAN])
  /\ wire \in Seq([seg : Parts, msg : RxMessages])
  /\ inbox \in Seq(TxMessages)

InitMessages(q) == Cardinality({i \in DOMAIN q : q[i][1] = "init"})
OfInit(x, seg) == x.seg = seg /\ x.msg[1] = "init"
InitHeaders ==
  Cardinality({i \in DOMAIN wire : OfInit(wire[i], "header")})
    + Cardinality({i \in DOMAIN ring : OfInit(ring[i], "header") /\ ring[i].first})
InitReceived ==
  Cardinality({i \in DOMAIN rxQueue : rxQueue[i].msg[1] = "init"})
    + (IF reading.part = "rest" /\ rxTotalBytes = 4 /\ rxBuffer.msg[1] = "init" THEN 1 ELSE 0)

\* The initialization sequence is one chain: while the line damages nothing
\* and no timeout races an answer, at most one of its messages and responses
\* is anywhere in the system, though requests are lost and sent again.
OneInitChain ==
  budget.corrupted = 0 /\ budget.races = 0 =>
    InitMessages(txQueue) + InitMessages(inbox) + InitHeaders + InitReceived <= 1

\* The handler does not look at the result of its send to the queue of
\* received messages.  It has no need to: a read left over from before a
\* timeout and the read of the present turn can each add one message, and
\* the task empties the queue before it starts another.
ReceivedMessagesFit == Len(rxQueue) <= 2

\* While the line damages nothing and no timeout races an answer, what the
\* task is given to process is a message the fan sent and never pieces of
\* two, however many reads were cancelled and left behind.  After a race it
\* may be: a read left over from before a timeout can finish between
\* ResetCount and StartRead, and the count no longer tells what is read.
MessagesAreWhole ==
  budget.corrupted = 0 /\ budget.races = 0 =>
    \A i \in DOMAIN rxQueue : rxQueue[i].msg # None /\ rxQueue[i].crc

\* The initialization completes if no timeout races an answer, the line
\* damages nothing, and either the fan answers everything or no button of
\* the remote control is pressed.
InitCompletes ==
  [](budget.races = 0 /\ budget.corrupted = 0 /\ (budget.losses = 0 \/ budget.remotes = 0))
    => <>(InitStages \in initFlags)

\* However the line fails, the task comes back to reading a message from its
\* first byte.
ReceiverRecovers == []<>(pc = "wait" /\ reading.part = "som" /\ rxTotalBytes = 0)

\* A message with a bad CRC is not processed: the handler compares the CRC,
\* and UARTTask has a case for InvalidCRC in which it flushes the line.
BadCRCNotProcessed == [][ProcessIncomingMessage => Head(rxQueue).crc]_vars
=============================================================================
