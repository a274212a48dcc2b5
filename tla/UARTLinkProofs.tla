--------------------------- MODULE UARTLinkProofs ---------------------------
(***************************************************************************)
(* Theorems about UARTLink, for an initialization of any length up to the  *)
(* code's, queues of any depth, and any number of lost requests, damaged   *)
(* segments, races of timeouts and answers, and messages of other tasks.   *)
(***************************************************************************)
EXTENDS UARTLink, FiniteSetTheorems, TLAPS

(* Sequences *)

LEMMA Appended ==
  ASSUME NEW S, NEW s \in Seq(S), NEW x \in S
  PROVE  /\ Append(s, x) \in Seq(S)
         /\ Len(s) \in Nat /\ DOMAIN s = 1..Len(s)
         /\ Len(Append(s, x)) = Len(s) + 1
         /\ DOMAIN Append(s, x) = 1..(Len(s) + 1)
         /\ \A i \in 1..Len(s) : Append(s, x)[i] = s[i]
         /\ Append(s, x)[Len(s) + 1] = x
OBVIOUS

LEMMA Shifted ==
  ASSUME NEW S, NEW s \in Seq(S), s # <<>>
  PROVE  /\ Tail(s) \in Seq(S)
         /\ Len(s) \in Nat \ {0} /\ DOMAIN s = 1..Len(s)
         /\ Len(Tail(s)) = Len(s) - 1
         /\ DOMAIN Tail(s) = 1..(Len(s) - 1)
         /\ \A i \in 1..(Len(s) - 1) : Tail(s)[i] = s[i + 1]
         /\ Head(s) = s[1] /\ s[1] \in S
OBVIOUS

LEMMA Rest ==
  ASSUME NEW S, NEW s \in Seq(S), NEW n \in Nat, n <= Len(s)
  PROVE  /\ SubSeq(s, n + 1, Len(s)) \in Seq(S)
         /\ Len(s) \in Nat /\ DOMAIN s = 1..Len(s)
         /\ Len(SubSeq(s, n + 1, Len(s))) = Len(s) - n
         /\ DOMAIN SubSeq(s, n + 1, Len(s)) = 1..(Len(s) - n)
         /\ \A i \in 1..(Len(s) - n) : SubSeq(s, n + 1, Len(s))[i] = s[i + n]
OBVIOUS

LEMMA Beginning ==
  ASSUME NEW S, NEW s \in Seq(S), NEW n \in Nat, n <= Len(s)
  PROVE  /\ SubSeq(s, 1, n) \in Seq(S)
         /\ Len(SubSeq(s, 1, n)) = n
         /\ \A i \in 1..n : SubSeq(s, 1, n)[i] = s[i] /\ s[i] \in S
OBVIOUS

LEMMA Joined ==
  ASSUME NEW S, NEW s \in Seq(S), NEW t \in Seq(S)
  PROVE  /\ s \o t \in Seq(S)
         /\ Len(s) \in Nat /\ Len(t) \in Nat
         /\ DOMAIN s = 1..Len(s) /\ DOMAIN t = 1..Len(t)
         /\ Len(s \o t) = Len(s) + Len(t)
         /\ DOMAIN (s \o t) = 1..(Len(s) + Len(t))
         /\ \A i \in 1..Len(s) : (s \o t)[i] = s[i]
         /\ \A i \in 1..Len(t) : (s \o t)[Len(s) + i] = t[i]
OBVIOUS

LEMMA AllOf == ASSUME NEW S, NEW s \in Seq(S) PROVE SubSeq(s, 1, Len(s)) = s
OBVIOUS

LEMMA NextNumber ==
  ASSUME NEW n \in Nat, NEW m \in Nat, m <= n + 1, ~(m <= n) PROVE m = n + 1
OBVIOUS

LEMMA SumsShift ==
  ASSUME NEW i \in Nat, NEW n \in Nat, NEW z \in Nat, NEW l \in Nat, NEW m \in Nat, m = l - n
  PROVE  /\ (i + n) + z <= l + 1 <=> i + z <= m + 1
         /\ (i + n) + z <= l <=> i + z <= m
         /\ (i + z) + n = (i + n) + z
OBVIOUS

LEMMA Nonempty == ASSUME NEW S, NEW s \in Seq(S), s # <<>> PROVE Len(s) \in Nat \ {0}
OBVIOUS

LEMMA Element == ASSUME NEW S, NEW s \in Seq(S), NEW i \in 1..Len(s) PROVE s[i] \in S
OBVIOUS

-----------------------------------------------------------------------------
(* Types *)

Received == [msg : RxMessages \cup {None}, crc : BOOLEAN]
Byte == [seg : Parts, msg : RxMessages, ok : BOOLEAN, first : BOOLEAN]
Segment == [seg : Parts, msg : RxMessages]
Buffer == [som : BOOLEAN, msg : RxMessages \cup {None},
           size : StraySizes \cup 0..MaxPayloadSize, crc : BOOLEAN]

\* A read in progress waits for at least one byte.
ReadTyped ==
  reading # NoRead => reading.part \in Parts /\ reading.count \in 1..(MaxPayloadSize + CRCSize)
BudgetTyped ==
  budget \in [losses : Nat, corrupted : Nat, races : Nat, remotes : Nat, commands : Nat]
TypeInv == TypeOK /\ ReadTyped /\ BudgetTyped

LEMMA EnqueuedTyped ==
  ASSUME NEW S, NEW q \in Seq(S), NEW msg \in S, Len(q) <= QueueDepth
  PROVE  /\ Enqueued(q, msg) \in Seq(S)
         /\ Len(Enqueued(q, msg)) <= QueueDepth
         /\ Len(Enqueued(q, msg)) <= Len(q) + 1
<1>1. Len(q) \in Nat /\ QueueDepth \in Nat
  BY UARTAssumption
<1>2. CASE Len(q) < QueueDepth
  <2>1. Enqueued(q, msg) = Append(q, msg)
    BY <1>2 DEF Enqueued
  <2> QED BY <1>1, <1>2, <2>1, Appended
<1>3. CASE ~(Len(q) < QueueDepth)
  <2>1. Enqueued(q, msg) = q
    BY <1>3 DEF Enqueued
  <2> QED BY <1>1, <2>1
<1> QED BY <1>2, <1>3

LEMMA Messages ==
  /\ \A n \in 1..InitStages : InitMessage(n) \in TxMessages /\ InitMessage(n) \in RxMessages
  /\ <<"command", 0>> \in TxMessages
  /\ <<"remote", 0>> \in RxMessages /\ <<"done", 0>> \in RxMessages
BY DEF TxMessages, RxMessages

LEMMA PayloadSizes == \A msg \in RxMessages : PayloadSize(msg) \in 0..MaxPayloadSize
<1>1. ASSUME NEW n \in 1..InitStages PROVE PayloadSize(InitMessage(n)) \in 0..MaxPayloadSize
  <2>1. n \in 1..9
    BY UARTAssumption
  <2>2. <<2, 5, 2, 2, 3, 16, 10, 34, 2>>[n] \in 0..MaxPayloadSize
    BY <2>1 DEF MaxPayloadSize
  <2>3. PayloadSize(InitMessage(n)) = <<2, 5, 2, 2, 3, 16, 10, 34, 2>>[n]
    BY DEF PayloadSize, InitMessage
  <2> QED BY <2>2, <2>3
<1>2. PayloadSize(<<"remote", 0>>) = 6 /\ PayloadSize(<<"done", 0>>) = 3
  BY DEF PayloadSize
<1> QED BY <1>1, <1>2 DEF RxMessages, MaxPayloadSize

LEMMA SegmentSizes ==
  ASSUME NEW msg \in RxMessages
  PROVE  /\ SegmentSize("som", msg) = 1 /\ SegmentSize("header", msg) = 3
         /\ SegmentSize("rest", msg) = PayloadSize(msg) + CRCSize
         /\ \A seg \in Parts : SegmentSize(seg, msg) \in Nat \ {0}
<1>1. PayloadSize(msg) \in Nat
  BY PayloadSizes DEF MaxPayloadSize
<1> QED BY <1>1 DEF SegmentSize, Parts, CRCSize

LEMMA SegmentsTyped ==
  ASSUME NEW msg \in RxMessages
  PROVE  /\ Segments(msg) \in Seq(Segment) /\ Len(Segments(msg)) = 3
         /\ \A i \in 1..3 : Segments(msg)[i].msg = msg
         /\ Segments(msg)[1].seg = "som" /\ Segments(msg)[2].seg = "header"
         /\ Segments(msg)[3].seg = "rest"
<1>1. \A i \in 1..3 : Segments(msg)[i] \in Segment
  BY DEF Segments, Segment, Parts
<1>2. Segments(msg) = [i \in 1..3 |-> Segments(msg)[i]]
  BY DEF Segments
<1>3. Segments(msg) \in Seq(Segment) /\ Len(Segments(msg)) = 3
  BY <1>1, <1>2
<1> QED BY <1>3 DEF Segments

LEMMA BytesTyped ==
  ASSUME NEW s \in Segment, NEW ok \in BOOLEAN
  PROVE  /\ Bytes(s, ok) \in Seq(Byte) /\ Len(Bytes(s, ok)) = SegmentSize(s.seg, s.msg)
         /\ SegmentSize(s.seg, s.msg) \in Nat \ {0}
         /\ \A i \in 1..SegmentSize(s.seg, s.msg) :
              Bytes(s, ok)[i] = [seg |-> s.seg, msg |-> s.msg, ok |-> ok, first |-> i = 1]
<1>1. s.seg \in Parts /\ s.msg \in RxMessages
  BY DEF Segment
<1> DEFINE size == SegmentSize(s.seg, s.msg)
           byte(i) == [seg |-> s.seg, msg |-> s.msg, ok |-> ok, first |-> i = 1]
<1>2. size \in Nat \ {0}
  BY <1>1, SegmentSizes
<1>3. \A i \in 1..size : byte(i) \in Byte
  BY <1>1 DEF Byte
<1>4. Bytes(s, ok) = [i \in 1..size |-> byte(i)]
  BY DEF Bytes
<1> HIDE DEF size, byte
<1>5. Bytes(s, ok) \in Seq(Byte) /\ Len(Bytes(s, ok)) = size
  BY <1>2, <1>3, <1>4
<1>6. \A i \in 1..size : Bytes(s, ok)[i] = byte(i)
  BY <1>4
<1> QED BY <1>2, <1>5, <1>6 DEF size, byte

LEMMA Sizes == StraySizes \cup 0..MaxPayloadSize \subseteq Nat
<1>1. StraySizes \subseteq Nat
  BY UARTAssumption
<1>2. 0..MaxPayloadSize \subseteq Nat
  BY DEF MaxPayloadSize
<1> QED BY <1>1, <1>2

\* The seven things that ReadCallback may come to.
LEMMA CallbackOutcomes ==
  ASSUME ReadCallback
  PROVE  \/ Post /\ rxTotalBytes' = 4 + rxBuffer'.size + CRCSize
         \/ Notify("InvalidSOM") /\ ~rxBuffer'.som /\ rxTotalBytes' = 1
         \/ Notify("InvalidPayloadSize") /\ rxTotalBytes' = 4 /\ rxBuffer'.size > MaxPayloadSize
         \/ /\ Read("none", 0) /\ rxTotalBytes' \notin {0, 1}
            /\ rxTotalBytes' = 4 => ~(rxBuffer'.size <= MaxPayloadSize)
         \/ Read("som", 1) /\ rxTotalBytes' = 0
         \/ Read("header", 3) /\ rxTotalBytes' = 1
         \/ /\ Read("rest", rxBuffer'.size + CRCSize)
            /\ rxTotalBytes' = 4 /\ rxBuffer'.size <= MaxPayloadSize
BY DEF ReadCallback

\* What it comes to when the bytes read are as they should be.
LEMMA CallbackGoesOn ==
  ASSUME ReadCallback, rxBuffer'.size \in Nat
  PROVE  /\ rxTotalBytes' = 0 => Read("som", 1)
         /\ rxTotalBytes' = 1 => (rxBuffer'.som => Read("header", 3))
         /\ rxTotalBytes' = 4 =>
              (rxBuffer'.size <= MaxPayloadSize => Read("rest", rxBuffer'.size + CRCSize))
<1>1. 4 + rxBuffer'.size + CRCSize \notin {0, 1, 4}
  BY DEF CRCSize
<1>2. ASSUME rxTotalBytes' = 0 PROVE Read("som", 1)
  BY <1>1, <1>2, CallbackOutcomes
<1>3. ASSUME rxTotalBytes' = 1, rxBuffer'.som PROVE Read("header", 3)
  BY <1>1, <1>3, CallbackOutcomes
<1>4. ASSUME rxTotalBytes' = 4, rxBuffer'.size <= MaxPayloadSize
      PROVE  Read("rest", rxBuffer'.size + CRCSize)
  <2>1. ~(rxBuffer'.size > MaxPayloadSize)
    BY <1>4 DEF MaxPayloadSize
  <2> QED BY <1>1, <1>4, <2>1, CallbackOutcomes
<1> QED BY <1>2, <1>3, <1>4

LEMMA CallbackTyped ==
  ASSUME TypeInv, ReadCallback, rxBuffer' \in Buffer
  PROVE  /\ rxQueue' \in Seq(Received) /\ Len(rxQueue') <= QueueDepth
         /\ notification' \in {"none", "OK", "InvalidSOM", "InvalidPayloadSize"}
         /\ reading' \in [part : Parts \cup {"none"}, count : 0..(MaxPayloadSize + CRCSize)]
         /\ ReadTyped'
<1>1. rxQueue \in Seq(Received) /\ Len(rxQueue) <= QueueDepth
  BY DEF TypeInv, TypeOK, Received
<1>2. NoRead \in [part : Parts \cup {"none"}, count : 0..(MaxPayloadSize + CRCSize)]
  BY DEF NoRead, MaxPayloadSize, CRCSize
<1>3. CASE Post
  <2>1. [msg |-> rxBuffer'.msg, crc |-> rxBuffer'.crc] \in Received
    BY DEF Received, Buffer
  <2>2. rxQueue' \in Seq(Received) /\ Len(rxQueue') <= QueueDepth
    BY <1>1, <1>3, <2>1, EnqueuedTyped DEF Post
  <2> QED BY <1>2, <1>3, <2>2 DEF Post, ReadTyped
<1>4. CASE Notify("InvalidSOM") \/ Notify("InvalidPayloadSize")
  BY <1>1, <1>2, <1>4 DEF Notify, ReadTyped
<1>5. CASE Read("none", 0)
  <2>1. reading' = NoRead /\ UNCHANGED <<rxQueue, notification>>
    BY <1>5 DEF Read, NoRead
  <2> QED BY <1>1, <1>2, <2>1 DEF TypeInv, TypeOK, ReadTyped
<1>6. ASSUME NEW part \in Parts, NEW count \in 1..(MaxPayloadSize + CRCSize), Read(part, count)
      PROVE  /\ UNCHANGED <<rxQueue, notification>>
             /\ reading' \in [part : Parts \cup {"none"}, count : 0..(MaxPayloadSize + CRCSize)]
             /\ ReadTyped'
  BY <1>6 DEF Read, ReadTyped, MaxPayloadSize, CRCSize
<1>7. {"som", "header", "rest"} \subseteq Parts
  BY DEF Parts
<1>8. CASE Read("som", 1) \/ Read("header", 3)
  <2>1. 1 \in 1..(MaxPayloadSize + CRCSize) /\ 3 \in 1..(MaxPayloadSize + CRCSize)
    BY DEF MaxPayloadSize, CRCSize
  <2> QED BY <1>1, <1>6, <1>7, <1>8, <2>1 DEF TypeInv, TypeOK
<1>9. CASE Read("rest", rxBuffer'.size + CRCSize) /\ rxBuffer'.size <= MaxPayloadSize
  <2>1. rxBuffer'.size \in Nat
    <3>1. rxBuffer'.size \in StraySizes \cup 0..MaxPayloadSize
      BY DEF Buffer
    <3> QED BY <3>1, Sizes
  <2>2. rxBuffer'.size + CRCSize \in 1..(MaxPayloadSize + CRCSize)
    BY <1>9, <2>1 DEF MaxPayloadSize, CRCSize
  <2> QED BY <1>1, <1>6, <1>7, <1>9, <2>2 DEF TypeInv, TypeOK
<1> QED BY <1>3, <1>4, <1>5, <1>8, <1>9, CallbackOutcomes

LEMMA FilledTyped ==
  ASSUME rxBuffer \in Buffer, NEW bytes \in Seq(Byte), bytes # <<>>,
         NEW b \in Filled(bytes)
  PROVE  b \in Buffer
<1> DEFINE good == Aligned(bytes) /\ bytes[1].ok
           msg == bytes[1].msg
<1>1. bytes[1] \in Byte
  OBVIOUS
<1>2. msg \in RxMessages /\ good \in BOOLEAN /\ PayloadSize(msg) \in 0..MaxPayloadSize
  BY <1>1, PayloadSizes DEF Byte, Aligned
<1>3. CASE reading.part = "som"
  <2>1. b = [rxBuffer EXCEPT !.som = good]
    BY <1>3 DEF Filled
  <2> QED BY <1>2, <2>1 DEF Buffer
<1>4. CASE reading.part = "header"
  <2>1. PICK size \in IF good THEN {PayloadSize(msg)} ELSE StraySizes :
          b = [rxBuffer EXCEPT !.msg = IF good THEN msg ELSE None, !.size = size]
    BY <1>4 DEF Filled
  <2>2. size \in StraySizes \cup 0..MaxPayloadSize
    BY <1>2, <2>1
  <2>3. (IF good THEN msg ELSE None) \in RxMessages \cup {None}
    BY <1>2
  <2> QED BY <2>1, <2>2, <2>3 DEF Buffer
<1>5. CASE reading.part \notin {"som", "header"}
  <2>1. b = [rxBuffer EXCEPT !.crc = good /\ rxBuffer.msg = msg]
    BY <1>5 DEF Filled
  <2> QED BY <1>2, <2>1 DEF Buffer
<1> QED BY <1>3, <1>4, <1>5

LEMMA TypeInit == Init => TypeInv
<1> SUFFICES ASSUME Init PROVE TypeInv
  OBVIOUS
<1>1. 1 \in 1..InitStages /\ InitMessage(1) \in TxMessages /\ InitMessage(1) \in RxMessages
  BY UARTAssumption, Messages
<1>2. txQueue \in Seq(TxMessages) /\ Len(txQueue) <= QueueDepth
  BY <1>1, UARTAssumption DEF Init
<1>3. rxBuffer \in Buffer
  BY <1>1 DEF Init, ZeroBuffer, Buffer, MaxPayloadSize
<1>4. reading \in [part : Parts \cup {"none"}, count : 0..(MaxPayloadSize + CRCSize)]
  BY DEF Init, NoRead, MaxPayloadSize, CRCSize
<1>5. TypeOK
  BY <1>2, <1>3, <1>4, UARTAssumption DEF Init, TypeOK, Buffer
<1>6. ReadTyped /\ BudgetTyped
  BY DEF Init, ReadTyped, BudgetTyped
<1> QED BY <1>5, <1>6 DEF TypeInv

\* The bytes that ReceiveInterrupt takes out of the ring.
LEMMA ReadBytes ==
  ASSUME TypeInv, ReadComplete
  PROVE  /\ reading # NoRead /\ reading.part \in Parts
         /\ reading.count \in Nat \ {0} /\ reading.count <= Len(ring)
         /\ ring \in Seq(Byte) /\ ring # <<>> /\ ring[1] \in Byte
         /\ SubSeq(ring, 1, reading.count) \in Seq(Byte)
         /\ SubSeq(ring, 1, reading.count) # <<>>
         /\ Len(SubSeq(ring, 1, reading.count)) = reading.count
         /\ SubSeq(ring, 1, reading.count)[1] = ring[1]
<1>1. /\ reading # NoRead /\ reading.part \in Parts
      /\ reading.count \in Nat \ {0} /\ reading.count <= Len(ring)
  <2>1. reading # NoRead /\ reading.count <= Len(ring)
    BY DEF ReadComplete
  <2>2. reading.part \in Parts /\ reading.count \in 1..(MaxPayloadSize + CRCSize)
    BY <2>1 DEF TypeInv, ReadTyped
  <2>3. 1..(MaxPayloadSize + CRCSize) \subseteq Nat \ {0}
    BY DEF MaxPayloadSize, CRCSize
  <2> QED BY <2>1, <2>2, <2>3
<1>2. ring \in Seq(Byte)
  BY DEF TypeInv, TypeOK, Byte
<1>3. ring # <<>> /\ ring[1] \in Byte
  BY <1>1, <1>2
<1> QED BY <1>1, <1>2, <1>3, Beginning

\* A cancelled read takes what is there, which is less than it asked for.
LEMMA CancelledBytes ==
  ASSUME TypeInv, NEW bytes, bytes = IF ReadComplete THEN 0 ELSE Len(ring)
  PROVE  /\ bytes \in Nat /\ bytes <= Len(ring)
         /\ ring \in Seq(Byte)
         /\ SubSeq(ring, bytes + 1, Len(ring)) \in Seq(Byte)
<1>1. ring \in Seq(Byte)
  BY DEF TypeInv, TypeOK, Byte
<1> QED BY <1>1, Rest

LEMMA SpendTyped ==
  ASSUME BudgetTyped, NEW kind \in {"losses", "corrupted", "races", "remotes", "commands"},
         NEW bound, Spend(kind, bound)
  PROVE  /\ BudgetTyped' /\ budget'[kind] = budget[kind] + 1
         /\ \A other \in {"losses", "corrupted", "races", "remotes", "commands"} :
              budget'[other] >= budget[other]
BY DEF BudgetTyped, Spend

\* What a step of the handler changes.
LEMMA ReceiveTyped ==
  ASSUME TypeInv, ReceiveInterrupt
  PROVE  TypeInv'
<1>1. /\ ReadComplete /\ ReadCallback
      /\ rxBuffer' \in Filled(SubSeq(ring, 1, reading.count))
      /\ rxTotalBytes' = rxTotalBytes + reading.count
      /\ ring' = SubSeq(ring, reading.count + 1, Len(ring))
      /\ UNCHANGED <<txQueue, taskVars, wire, inbox>>
  BY DEF ReceiveInterrupt
<1>2. BudgetTyped'
  <2>1. CASE Spend("races", MaxRaces)
    BY <2>1, SpendTyped DEF TypeInv
  <2>2. CASE UNCHANGED budget
    BY <2>2 DEF TypeInv, BudgetTyped
  <2> QED BY <2>1, <2>2 DEF ReceiveInterrupt
<1>3. rxBuffer' \in Buffer
  BY <1>1, ReadBytes, FilledTyped DEF TypeInv, TypeOK, Buffer
<1>4. rxTotalBytes' \in Nat /\ ring' \in Seq(Byte)
  <2>1. reading.count \in Nat /\ reading.count <= Len(ring) /\ ring \in Seq(Byte)
    BY <1>1, ReadBytes
  <2> QED BY <1>1, <2>1, Rest DEF TypeInv, TypeOK
<1>5. /\ rxQueue' \in Seq(Received) /\ Len(rxQueue') <= QueueDepth
      /\ notification' \in {"none", "OK", "InvalidSOM", "InvalidPayloadSize"}
      /\ reading' \in [part : Parts \cup {"none"}, count : 0..(MaxPayloadSize + CRCSize)]
      /\ ReadTyped'
  BY <1>1, <1>3, CallbackTyped
<1>6. TypeOK'
  BY <1>1, <1>3, <1>4, <1>5 DEF TypeInv, TypeOK, Received, Buffer, Byte, taskVars
<1> QED BY <1>2, <1>5, <1>6 DEF TypeInv

LEMMA CancelTyped ==
  ASSUME TypeInv, CancelAndResend
  PROVE  TypeInv'
<1> DEFINE bytes == IF ReadComplete THEN 0 ELSE Len(ring)
<1>1. /\ UNCHANGED <<rxBuffer, sent, initFlags, wire, inbox, budget>>
      /\ txQueue' = Resent /\ status' = "OK" /\ pc' = "status"
  BY DEF CancelAndResend
<1>2. txQueue' \in Seq(TxMessages) /\ Len(txQueue') <= QueueDepth
  BY <1>1, EnqueuedTyped DEF TypeInv, TypeOK, Resent
<1>3. /\ rxQueue' \in Seq(Received) /\ Len(rxQueue') <= QueueDepth
      /\ notification' \in {"none", "OK", "InvalidSOM", "InvalidPayloadSize"}
      /\ reading' \in [part : Parts \cup {"none"}, count : 0..(MaxPayloadSize + CRCSize)]
      /\ ReadTyped'
      /\ rxTotalBytes' \in Nat
      /\ ring' \in Seq(Byte)
  <2>1. CASE reading = NoRead
    <3>1. UNCHANGED <<reading, rxQueue, notification, rxTotalBytes, ring>>
      BY <2>1 DEF CancelAndResend
    <3> QED BY <3>1 DEF TypeInv, TypeOK, ReadTyped, Received, Byte
  <2>2. CASE reading # NoRead
    <3>1. /\ rxTotalBytes' = rxTotalBytes + bytes
          /\ ring' = SubSeq(ring, bytes + 1, Len(ring)) /\ ReadCallback
      BY <2>2 DEF CancelAndResend
    <3>2. rxBuffer' \in Buffer
      BY <1>1 DEF TypeInv, TypeOK, Buffer
    <3>3. rxTotalBytes' \in Nat /\ ring' \in Seq(Byte)
      BY <3>1, CancelledBytes DEF TypeInv, TypeOK
    <3> QED BY <3>1, <3>2, <3>3, CallbackTyped
  <2> QED BY <2>1, <2>2
<1>4. TypeOK'
  BY <1>1, <1>2, <1>3 DEF TypeInv, TypeOK, Received, Byte
<1> QED BY <1>1, <1>3, <1>4 DEF TypeInv, BudgetTyped

LEMMA AnswerTyped ==
  ASSUME TypeInv, NEW msg \in RxMessages \cup {None}
  PROVE  /\ Answer(msg) \in Seq(TxMessages) /\ Len(Answer(msg)) <= QueueDepth
         /\ msg[1] = "init" => msg[2] \in 1..InitStages
<1>1. txQueue \in Seq(TxMessages) /\ Len(txQueue) <= QueueDepth
  BY DEF TypeInv, TypeOK
<1>2. msg[1] = "init" => msg[2] \in 1..InitStages
  BY DEF RxMessages, InitMessage, None
<1>3. CASE msg[1] = "init" /\ msg[2] < InitStages
  <2>1. InitMessage(msg[2] + 1) \in TxMessages
    BY <1>2, <1>3, UARTAssumption, Messages
  <2>2. Answer(msg) = Enqueued(txQueue, InitMessage(msg[2] + 1))
    BY <1>3 DEF Answer
  <2> QED BY <1>1, <1>2, <2>1, <2>2, EnqueuedTyped
<1>4. CASE msg[1] = "remote"
  <2>1. Answer(msg) = Enqueued(txQueue, <<"command", 0>>)
    BY <1>4 DEF Answer
  <2> QED BY <1>1, <1>2, <2>1, EnqueuedTyped, Messages
<1>5. CASE ~(msg[1] = "init" /\ msg[2] < InitStages) /\ msg[1] # "remote"
  BY <1>1, <1>2, <1>5 DEF Answer
<1> QED BY <1>3, <1>4, <1>5

LEMMA ResponseTyped == \A msg \in TxMessages : Response(msg) \in RxMessages
BY DEF Response, TxMessages, RxMessages, InitMessage

LEMMA TypeStep == TypeInv /\ [Next]_vars => TypeInv'
<1> SUFFICES ASSUME TypeInv, [Next]_vars PROVE TypeInv'
  OBVIOUS
<1>0. /\ txQueue \in Seq(TxMessages) /\ Len(txQueue) <= QueueDepth
      /\ rxQueue \in Seq(Received) /\ Len(rxQueue) <= QueueDepth
      /\ ring \in Seq(Byte) /\ wire \in Seq(Segment) /\ inbox \in Seq(TxMessages)
      /\ QueueDepth \in Nat
  BY UARTAssumption DEF TypeInv, TypeOK, Received, Byte, Segment
<1>1. CASE SendPending
  <2>1. /\ UNCHANGED <<rxQueue, notification, status, initFlags, isrVars, ring, wire, budget>>
        /\ pc' = "read"
    BY <1>1 DEF SendPending
  <2>2. /\ txQueue' \in Seq(TxMessages) /\ Len(txQueue') <= QueueDepth
        /\ sent' \in TxMessages \cup {None} /\ inbox' \in Seq(TxMessages)
    <3>1. CASE txQueue = <<>>
      BY <1>0, <1>1, <3>1 DEF SendPending
    <3>2. CASE txQueue # <<>>
      <4>1. /\ sent' = Head(txQueue) /\ txQueue' = Tail(txQueue)
            /\ inbox' = Append(inbox, Head(txQueue))
        BY <1>1, <3>2 DEF SendPending
      <4>2. Head(txQueue) \in TxMessages
        BY <1>0, <3>2
      <4> QED BY <1>0, <3>2, <4>1, <4>2, Shifted, Appended
    <3> QED BY <3>1, <3>2
  <2>3. TypeOK'
    BY <2>1, <2>2 DEF TypeInv, TypeOK, isrVars
  <2> QED BY <2>1, <2>3 DEF TypeInv, ReadTyped, BudgetTyped, isrVars
<1>2. CASE ResetCount
  BY <1>2 DEF ResetCount, TypeInv, TypeOK, ReadTyped, BudgetTyped, lineVars
<1>clear. CASE ClearBuffer
  <2>1. /\ UNCHANGED <<txQueue, rxQueue, notification, sent, status, initFlags, lineVars,
                       reading, rxTotalBytes, budget>>
        /\ pc' = "start" /\ rxBuffer' = ZeroBuffer
    BY <1>clear DEF ClearBuffer
  <2>2. rxBuffer' \in Buffer
    <3>1. InitMessage(1) \in RxMessages
      BY Messages, UARTAssumption
    <3> QED BY <2>1, <3>1 DEF ZeroBuffer, Buffer, MaxPayloadSize
  <2>3. TypeOK'
    BY <2>1, <2>2 DEF TypeInv, TypeOK, Buffer, lineVars
  <2> QED BY <2>1, <2>3 DEF TypeInv, ReadTyped, BudgetTyped
<1>3. CASE StartRead
  <2>1. /\ UNCHANGED <<txQueue, rxQueue, notification, sent, status, initFlags, lineVars,
                       rxTotalBytes, rxBuffer, budget>>
        /\ pc' = "wait"
        /\ reading' = IF reading = NoRead THEN [part |-> "som", count |-> 1] ELSE reading
    BY <1>3 DEF StartRead
  <2>3. /\ reading' \in [part : Parts \cup {"none"}, count : 0..(MaxPayloadSize + CRCSize)]
        /\ ReadTyped'
    BY <2>1 DEF TypeInv, TypeOK, ReadTyped, Parts, MaxPayloadSize, CRCSize
  <2>4. TypeOK'
    BY <2>1, <2>3 DEF TypeInv, TypeOK, lineVars
  <2> QED BY <2>1, <2>3, <2>4 DEF TypeInv, BudgetTyped
<1>4. CASE Notified
  <2>1. /\ UNCHANGED <<txQueue, rxQueue, sent, initFlags, isrVars, lineVars, budget>>
        /\ pc' = "status" /\ status' \in {"OK", "InvalidSOM", "InvalidPayloadSize"}
        /\ notification' = "none"
    BY <1>4 DEF Notified, TypeInv, TypeOK
  <2> QED BY <2>1 DEF TypeInv, TypeOK, ReadTyped, BudgetTyped, isrVars, lineVars
<1>5. CASE Timeout
  <2>1. /\ UNCHANGED <<txQueue, rxQueue, notification, sent, status, initFlags, isrVars, lineVars>>
        /\ pc' = "cancel"
    BY <1>5 DEF Timeout
  <2>2. BudgetTyped'
    <3>1. UNCHANGED budget \/ Spend("races", MaxRaces)
      BY <1>5 DEF Timeout
    <3> QED BY <3>1, SpendTyped DEF TypeInv, BudgetTyped
  <2> QED BY <2>1, <2>2 DEF TypeInv, TypeOK, ReadTyped, isrVars, lineVars
<1>6. CASE CancelAndResend
  BY <1>6, CancelTyped
<1>7. CASE HandleStatus
  <2>1. ring' \in Seq(Byte)
    BY <1>0, <1>7 DEF HandleStatus
  <2>2. /\ UNCHANGED <<txQueue, rxQueue, notification, sent, status, initFlags, isrVars,
                       wire, inbox, budget>>
        /\ pc' = "process"
    BY <1>7 DEF HandleStatus
  <2> QED BY <2>1, <2>2 DEF TypeInv, TypeOK, ReadTyped, BudgetTyped, isrVars, Byte
<1>8. CASE ProcessIncomingMessage
  <2> DEFINE msg == Head(rxQueue).msg
  <2>1. /\ rxQueue # <<>> /\ rxQueue' = Tail(rxQueue) /\ txQueue' = Answer(msg)
        /\ initFlags' = IF msg[1] = "init" THEN initFlags \cup {msg[2]} ELSE initFlags
        /\ UNCHANGED <<notification, sent, status, pc, isrVars, lineVars, budget>>
    BY <1>8 DEF ProcessIncomingMessage
  <2>2. msg \in RxMessages \cup {None}
    <3>1. Head(rxQueue) \in Received
      BY <1>0, <2>1
    <3> QED BY <3>1 DEF Received
  <2> HIDE DEF msg
  <2>3. initFlags' \subseteq 1..InitStages
    BY <2>1, <2>2, AnswerTyped DEF TypeInv, TypeOK
  <2>4. /\ txQueue' \in Seq(TxMessages) /\ Len(txQueue') <= QueueDepth
        /\ rxQueue' \in Seq(Received) /\ Len(rxQueue') <= QueueDepth
    BY <1>0, <2>1, <2>2, AnswerTyped, Shifted
  <2>5. TypeOK'
    BY <2>1, <2>3, <2>4 DEF TypeInv, TypeOK, Received, isrVars, lineVars
  <2> QED BY <2>1, <2>5 DEF TypeInv, ReadTyped, BudgetTyped, isrVars
<1>9. CASE ProcessingDone
  BY <1>9 DEF ProcessingDone, TypeInv, TypeOK, ReadTyped, BudgetTyped, isrVars, lineVars
<1>10. CASE ReceiveInterrupt
  BY <1>10, ReceiveTyped
<1>11. CASE FanAnswers
  <2> DEFINE msg == Response(Head(inbox))
  <2>1. /\ inbox # <<>> /\ wire' = wire \o Segments(msg) /\ inbox' = Tail(inbox)
        /\ UNCHANGED <<txQueue, rxQueue, notification, taskVars, isrVars, ring, budget>>
    BY <1>11 DEF FanAnswers
  <2>2. inbox' \in Seq(TxMessages) /\ Head(inbox) \in TxMessages
    BY <1>0, <2>1
  <2>3. msg \in RxMessages
    BY <2>2, ResponseTyped
  <2> HIDE DEF msg
  <2>4. wire' \in Seq(Segment)
    BY <1>0, <2>1, <2>3, SegmentsTyped, Joined
  <2>5. TypeOK'
    BY <2>1, <2>2, <2>4 DEF TypeInv, TypeOK, Segment, taskVars, isrVars
  <2> QED BY <2>1, <2>5 DEF TypeInv, ReadTyped, BudgetTyped, isrVars
<1>12. CASE FanLosesRequest
  <2>1. /\ inbox # <<>> /\ Spend("losses", MaxLosses) /\ inbox' = Tail(inbox)
        /\ UNCHANGED <<txQueue, rxQueue, notification, taskVars, isrVars, ring, wire>>
    BY <1>12 DEF FanLosesRequest
  <2>2. inbox' \in Seq(TxMessages)
    BY <1>0, <2>1
  <2>3. TypeOK'
    BY <2>1, <2>2 DEF TypeInv, TypeOK, taskVars, isrVars
  <2> QED BY <2>1, <2>3, SpendTyped DEF TypeInv, ReadTyped, isrVars
<1>13. CASE RemoteControl
  <2>1. /\ Spend("remotes", MaxOthers - budget.commands)
        /\ wire' = wire \o Segments(<<"remote", 0>>)
        /\ UNCHANGED <<txQueue, rxQueue, notification, taskVars, isrVars, ring, inbox>>
    BY <1>13 DEF RemoteControl
  <2>2. wire' \in Seq(Segment)
    BY <1>0, <2>1, Messages, SegmentsTyped, Joined
  <2>3. TypeOK'
    BY <2>1, <2>2 DEF TypeInv, TypeOK, Segment, taskVars, isrVars
  <2> QED BY <2>1, <2>3, SpendTyped DEF TypeInv, ReadTyped, isrVars
<1>14. CASE SendCommand
  <2>1. /\ Spend("commands", MaxOthers - budget.remotes)
        /\ txQueue' = Enqueued(txQueue, <<"command", 0>>)
        /\ UNCHANGED <<rxQueue, notification, taskVars, isrVars, lineVars>>
    BY <1>14 DEF SendCommand
  <2>2. txQueue' \in Seq(TxMessages) /\ Len(txQueue') <= QueueDepth
    BY <1>0, <2>1, Messages, EnqueuedTyped
  <2>3. TypeOK'
    BY <2>1, <2>2 DEF TypeInv, TypeOK, taskVars, isrVars, lineVars
  <2> QED BY <2>1, <2>3, SpendTyped DEF TypeInv, ReadTyped, isrVars
<1>15. ASSUME NEW ok \in BOOLEAN, wire # <<>>, ring' = ring \o Bytes(Head(wire), ok),
              wire' = Tail(wire), BudgetTyped',
              UNCHANGED <<txQueue, rxQueue, notification, taskVars, isrVars, inbox>>
       PROVE  TypeInv'
  <2>1. Head(wire) \in Segment /\ wire' \in Seq(Segment)
    BY <1>0, <1>15
  <2>2. ring' \in Seq(Byte)
    BY <1>0, <1>15, <2>1, BytesTyped, Joined
  <2>3. TypeOK'
    BY <1>15, <2>1, <2>2 DEF TypeInv, TypeOK, Byte, Segment, taskVars, isrVars
  <2> QED BY <1>15, <2>3 DEF TypeInv, ReadTyped, isrVars
<1>16. CASE Arrive
  BY <1>15, <1>16 DEF Arrive, TypeInv, BudgetTyped
<1>17. CASE ArriveDamaged
  <2>1. BudgetTyped'
    BY <1>17, SpendTyped DEF ArriveDamaged, TypeInv
  <2> QED BY <1>15, <1>17, <2>1 DEF ArriveDamaged
<1>18. CASE UNCHANGED vars
  BY <1>18 DEF TypeInv, TypeOK, ReadTyped, BudgetTyped, vars, taskVars, isrVars, lineVars
<1> QED
  BY <1>1, <1>2, <1>clear, <1>3, <1>4, <1>5, <1>6, <1>7, <1>8, <1>9, <1>10, <1>11, <1>12, <1>13,
     <1>14, <1>16, <1>17, <1>18
  DEF Next, TaskStep

LEMMA TypeAlways == Spec => []TypeInv
BY TypeInit, TypeStep, PTL DEF Spec

\* Every variable keeps its type: no queue outgrows its depth, and nothing
\* that the line does to a header makes a read longer than the buffer.
THEOREM TypeCorrect == Spec => []TypeOK
<1>1. TypeInv => TypeOK
  BY DEF TypeInv
<1> QED BY <1>1, TypeAlways, PTL

-----------------------------------------------------------------------------
(* The queue of received messages *)

\* Each read in progress, and each read still to be started in this turn,
\* can add one message.
Waiting == pc \in {"send", "read", "clear", "start"}
Turn ==
  /\ Len(rxQueue) <= 2
  /\ reading # NoRead \/ Waiting => Len(rxQueue) <= 1
  /\ reading # NoRead /\ Waiting => Len(rxQueue) = 0

\* A callback adds a message only when it ends the read.
LEMMA CallbackKeepsTurn ==
  ASSUME TypeInv, Turn, ReadCallback, reading # NoRead, rxBuffer' \in Buffer,
         Waiting' => Waiting
  PROVE  Turn'
<1>1. rxQueue \in Seq(Received) /\ Len(rxQueue) <= QueueDepth /\ Len(rxQueue) \in Nat
  BY DEF TypeInv, TypeOK, Received
<1>2. CASE Post
  <2>1. [msg |-> rxBuffer'.msg, crc |-> rxBuffer'.crc] \in Received
    BY DEF Received, Buffer
  <2>2. Len(rxQueue') <= Len(rxQueue) + 1 /\ reading' = NoRead
    BY <1>1, <1>2, <2>1, EnqueuedTyped DEF Post
  <2>3. rxQueue' \in Seq(Received)
    BY <1>1, <1>2, <2>1, EnqueuedTyped DEF Post
  <2> QED BY <1>1, <2>2, <2>3 DEF Turn
<1>3. CASE rxQueue' = rxQueue
  BY <1>1, <1>3 DEF Turn
<1> QED BY <1>2, <1>3, CallbackOutcomes DEF Notify, Read

LEMMA TurnStep == TypeInv /\ Turn /\ [Next]_vars => Turn'
<1> SUFFICES ASSUME TypeInv, Turn, [Next]_vars PROVE Turn'
  OBVIOUS
<1>0. rxQueue \in Seq(Received) /\ Len(rxQueue) \in Nat
  BY DEF TypeInv, TypeOK, Received
<1>1. ASSUME UNCHANGED <<rxQueue, reading>>, Waiting' => Waiting PROVE Turn'
  BY <1>0, <1>1 DEF Turn
<1>2. CASE SendPending \/ ResetCount \/ ClearBuffer
  BY <1>1, <1>2 DEF SendPending, ResetCount, ClearBuffer, isrVars, Waiting
<1>3. CASE StartRead
  <2>1. pc = "start" /\ pc' = "wait" /\ rxQueue' = rxQueue
    BY <1>3 DEF StartRead
  <2>2. Waiting /\ ~Waiting'
    BY <2>1 DEF Waiting
  <2>3. reading # NoRead => reading' = reading
    BY <1>3 DEF StartRead
  <2> QED BY <1>0, <2>1, <2>2, <2>3 DEF Turn
<1>4. CASE Notified \/ Timeout \/ HandleStatus
  BY <1>1, <1>4 DEF Notified, Timeout, HandleStatus, isrVars, Waiting
<1>5. CASE CancelAndResend
  <2>1. rxBuffer' = rxBuffer /\ pc' = "status"
    BY <1>5 DEF CancelAndResend
  <2>2. rxBuffer' \in Buffer /\ ~Waiting'
    BY <2>1 DEF TypeInv, TypeOK, Buffer, Waiting
  <2>3. CASE reading = NoRead
    BY <1>1, <1>5, <2>2, <2>3 DEF CancelAndResend
  <2>4. CASE reading # NoRead
    BY <1>5, <2>2, <2>4, CallbackKeepsTurn DEF CancelAndResend
  <2> QED BY <2>3, <2>4
<1>6. CASE ProcessIncomingMessage
  <2>1. /\ Len(rxQueue') = Len(rxQueue) - 1 /\ Len(rxQueue) \in Nat \ {0}
        /\ reading' = reading /\ pc' = pc /\ pc = "process"
    BY <1>0, <1>6, Shifted DEF ProcessIncomingMessage, isrVars
  <2>2. ~Waiting' /\ ~Waiting
    BY <2>1 DEF Waiting
  <2> QED BY <1>0, <2>1, <2>2 DEF Turn
<1>7. CASE ProcessingDone
  <2>1. rxQueue' = <<>>
    BY <1>7 DEF ProcessingDone
  <2> QED BY <2>1 DEF Turn
<1>8. CASE ReceiveInterrupt
  <2>1. rxBuffer' \in Buffer
    <3>1. TypeInv'
      BY <1>8, ReceiveTyped
    <3> QED BY <3>1 DEF TypeInv, TypeOK, Buffer
  <2>2. ReadCallback /\ reading # NoRead /\ pc' = pc
    BY <1>8 DEF ReceiveInterrupt, ReadComplete, taskVars
  <2>3. Waiting' => Waiting
    BY <2>2 DEF Waiting
  <2> QED BY <2>1, <2>2, <2>3, CallbackKeepsTurn
<1>9. CASE FanAnswers \/ FanLosesRequest \/ RemoteControl \/ SendCommand
  BY <1>1, <1>9 DEF FanAnswers, FanLosesRequest, RemoteControl, SendCommand, isrVars, taskVars,
     Waiting
<1>10. CASE Arrive \/ ArriveDamaged \/ UNCHANGED vars
  BY <1>1, <1>10 DEF Arrive, ArriveDamaged, vars, isrVars, taskVars, Waiting
<1> QED
  BY <1>2, <1>3, <1>4, <1>5, <1>6, <1>7, <1>8, <1>9, <1>10 DEF Next, TaskStep

\* However reads are cancelled, left over and started again, no more than two
\* messages are received before the task empties the queue.
THEOREM ReceivedAlwaysFit == Spec => []ReceivedMessagesFit
<1>1. Init => Turn
  BY DEF Init, Turn
<1>2. TypeInv /\ Turn => ReceivedMessagesFit
  <2> SUFFICES ASSUME TypeInv, Turn PROVE ReceivedMessagesFit
    OBVIOUS
  <2> QED BY DEF Turn, ReceivedMessagesFit
<1> QED BY <1>1, <1>2, TurnStep, TypeAlways, PTL DEF Spec

-----------------------------------------------------------------------------
(* Whole messages *)

\* The line has damaged nothing and no timeout raced an answer.
Calm == budget.corrupted = 0 /\ budget.races = 0
SomRead == [part |-> "som", count |-> 1]

\* Where the task and the handler are with each other: between its turns the
\* task has at most a read that waits for a first byte, and a notification
\* comes with a message and when nothing is being read.
ReaderInv ==
  /\ status = "OK" /\ notification \in {"none", "OK"}
  /\ notification # "none" => pc = "wait" /\ reading = NoRead
  /\ pc = "wait" /\ notification = "none" => reading # NoRead /\ rxQueue = <<>>
  /\ pc \notin {"wait", "cancel"} => reading \in {NoRead, SomRead}
  /\ pc = "cancel" => reading = SomRead
  /\ pc \in {"send", "read", "clear", "start", "cancel"} => rxQueue = <<>>
  /\ pc \in {"clear", "start"} => rxTotalBytes = 0

\* The count of bytes and the buffer tell which part of a message is read.
ReadInv ==
  /\ reading.part = "som" => reading.count = 1 /\ rxTotalBytes = 0
  /\ reading.part = "header" => reading.count = 3 /\ rxTotalBytes = 1
  /\ reading.part = "rest" =>
       /\ rxBuffer.msg \in RxMessages /\ rxTotalBytes = 4
       /\ rxBuffer.size = PayloadSize(rxBuffer.msg)
       /\ reading.count = rxBuffer.size + CRCSize

\* What comes after a on the line can be b.
Follows(a, b) ==
  \/ a.seg = "som" /\ b.seg = "header" /\ b.msg = a.msg
  \/ a.seg = "header" /\ b.seg = "rest" /\ b.msg = a.msg
  \/ a.seg = "rest" /\ b.seg = "som"

\* Segments on the line follow each other and end with the end of a message.
Line(w) ==
  /\ \A i \in 1..(Len(w) - 1) : Follows(w[i], w[i + 1])
  /\ w # <<>> => w[Len(w)].seg = "rest"

\* The bytes received are whole, undamaged segments, each followed by the one
\* that was sent after it, which is received too or still on the line.
Size(b) == SegmentSize(b.seg, b.msg)
Chained(r, w) ==
  /\ \A i \in 1..Len(r) : r[i].ok
  /\ \A i \in 1..Len(r) : r[i].first => i + Size(r[i]) <= Len(r) + 1
  /\ \A i \in 1..Len(r) : r[i].first /\ i + Size(r[i]) <= Len(r) =>
       r[i + Size(r[i])].first /\ Follows(r[i], r[i + Size(r[i])])
  /\ \A i \in 1..Len(r) : r[i].first /\ i + Size(r[i]) = Len(r) + 1 =>
       (w = <<>> => r[i].seg = "rest") /\ (w # <<>> => Follows(r[i], w[1]))

\* A read of this part, after that much of the message was read, can get x.
CanRead(part, msg, x) ==
  /\ part \notin {"header", "rest"} => x.seg = "som"
  /\ part \in {"header", "rest"} => x.seg = part
  /\ part = "rest" => x.msg = msg

\* It gets what is received first, or what is on the line first when nothing
\* was received; when nothing comes, it is not in the middle of a message.
Reads(part, msg, r, w) ==
  /\ r # <<>> => r[1].first /\ CanRead(part, msg, r[1])
  /\ r = <<>> /\ w # <<>> => CanRead(part, msg, w[1])
  /\ r = <<>> /\ w = <<>> => part \notin {"header", "rest"}

StreamInv ==
  /\ Line(wire) /\ Chained(ring, wire)
  /\ Reads(reading.part, rxBuffer.msg, ring, wire)

QueueInv == \A i \in 1..Len(rxQueue) : rxQueue[i].msg # None /\ rxQueue[i].crc

CalmInv == ReaderInv /\ ReadInv /\ StreamInv /\ QueueInv

LEMMA SizeOf ==
  /\ \A b \in Byte : Size(b) \in Nat \ {0}
  /\ \A s \in Segment : Size(s) \in Nat \ {0}
<1>1. ASSUME NEW b, b.seg \in Parts, b.msg \in RxMessages PROVE Size(b) \in Nat \ {0}
  BY <1>1, SegmentSizes DEF Size
<1> QED BY <1>1 DEF Byte, Segment

\* The read in progress asks for the segment that comes next.
LEMMA ReadsSegment ==
  ASSUME TypeInv, ReadInv, StreamInv, reading # NoRead, ring # <<>>
  PROVE  /\ ring[1] \in Byte /\ ring[1].first /\ ring[1].ok
         /\ ring[1].seg = reading.part /\ reading.part \in Parts
         /\ reading.part = "rest" => ring[1].msg = rxBuffer.msg
         /\ reading.count = Size(ring[1])
         /\ reading.count \in Nat \ {0} /\ reading.count <= Len(ring)
<1>1. ring \in Seq(Byte)
  BY DEF TypeInv, TypeOK, Byte
<1>2. 1 \in 1..Len(ring) /\ ring[1] \in Byte /\ Len(ring) \in Nat
  BY <1>1
<1>3. /\ ring[1].first /\ ring[1].ok /\ CanRead(reading.part, rxBuffer.msg, ring[1])
      /\ 1 + Size(ring[1]) <= Len(ring) + 1
  BY <1>2 DEF StreamInv, Chained, Reads
<1>4. reading.part \in Parts
  BY DEF TypeInv, ReadTyped
<1>5. ring[1].seg = reading.part /\ (reading.part = "rest" => ring[1].msg = rxBuffer.msg)
  BY <1>3, <1>4 DEF CanRead, Parts
<1>6. ring[1].msg \in RxMessages
  BY <1>2 DEF Byte
<1>7. Size(ring[1]) \in Nat \ {0}
  BY <1>2, SizeOf
<1>8. reading.count = Size(ring[1])
  <2>1. CASE reading.part = "som"
    BY <1>5, <1>6, <2>1, SegmentSizes DEF ReadInv, Size
  <2>2. CASE reading.part = "header"
    BY <1>5, <1>6, <2>2, SegmentSizes DEF ReadInv, Size
  <2>3. CASE reading.part = "rest"
    BY <1>5, <1>6, <2>3, SegmentSizes DEF ReadInv, Size
  <2> QED BY <1>4, <2>1, <2>2, <2>3 DEF Parts
<1>9. Size(ring[1]) <= Len(ring)
  BY <1>2, <1>3, <1>7
<1> QED BY <1>2, <1>3, <1>4, <1>5, <1>7, <1>8, <1>9

\* Reading a whole segment leaves the ones that were sent after it.
LEMMA SegmentRead ==
  ASSUME NEW r \in Seq(Byte), NEW w \in Seq(Segment), Chained(r, w), r # <<>>, r[1].first,
         NEW n, n = Size(r[1]),
         NEW t \in Seq(Byte), Len(t) = Len(r) - n,
         \A i \in 1..(Len(r) - n) : t[i] = r[i + n]
  PROVE  /\ Chained(t, w)
         /\ t # <<>> => t[1].first /\ Follows(r[1], t[1])
         /\ t = <<>> /\ w # <<>> => Follows(r[1], w[1])
         /\ t = <<>> /\ w = <<>> => r[1].seg = "rest"
<1>1. 1 \in 1..Len(r) /\ r[1] \in Byte /\ Len(r) \in Nat
  OBVIOUS
<1>2. n \in Nat \ {0} /\ n <= Len(r)
  <2>1. n \in Nat \ {0}
    BY <1>1, SizeOf
  <2>2. 1 + n <= Len(r) + 1
    BY <1>1 DEF Chained
  <2> QED BY <1>1, <2>1, <2>2
<1>3. Len(t) \in Nat
  OBVIOUS
<1>4. \A i \in 1..(Len(r) - n) : i + n \in 1..Len(r)
  BY <1>1, <1>2
<1>5. \A i \in 1..Len(r) : Size(r[i]) \in Nat \ {0}
  <2>1. \A i \in 1..Len(r) : r[i] \in Byte
    BY Element
  <2> QED BY <2>1, SizeOf
<1>6. \A i \in 1..Len(t) : t[i].ok
  BY <1>3, <1>4 DEF Chained
<1>7. ASSUME NEW i \in 1..Len(t), t[i].first
      PROVE  /\ i + Size(t[i]) <= Len(t) + 1
             /\ i + Size(t[i]) <= Len(t) =>
                  t[i + Size(t[i])].first /\ Follows(t[i], t[i + Size(t[i])])
             /\ i + Size(t[i]) = Len(t) + 1 =>
                  (w = <<>> => t[i].seg = "rest") /\ (w # <<>> => Follows(t[i], w[1]))
  <2>1. /\ i \in 1..(Len(r) - n) /\ i + n \in 1..Len(r) /\ t[i] = r[i + n]
        /\ i \in Nat
    BY <1>1, <1>2, <1>3, <1>4
  <2>2. PICK z \in Nat \ {0} : z = Size(t[i]) /\ z = Size(r[i + n])
    BY <1>5, <2>1
  <2>3. (i + n) + z <= Len(r) + 1
    BY <1>7, <2>1, <2>2 DEF Chained
  <2>4. i + z <= Len(t) + 1
    BY <1>1, <1>2, <1>3, <2>1, <2>3, SumsShift
  <2>5. ASSUME i + z <= Len(t) PROVE t[i + z].first /\ Follows(t[i], t[i + z])
    <3>1. /\ (i + n) + z <= Len(r) /\ i + z \in 1..(Len(r) - n)
          /\ (i + z) + n = (i + n) + z
      <4>1. (i + n) + z <= Len(r) /\ (i + z) + n = (i + n) + z
        BY <1>1, <1>2, <1>3, <2>1, <2>5, SumsShift
      <4>2. i + z \in 1..(Len(r) - n)
        BY <1>1, <1>2, <1>3, <2>1, <2>5
      <4> QED BY <4>1, <4>2
    <3>2. r[(i + n) + z].first /\ Follows(r[i + n], r[(i + n) + z])
      BY <1>7, <2>1, <2>2, <3>1 DEF Chained
    <3>3. t[i + z] = r[(i + n) + z]
      BY <1>3, <3>1
    <3> QED BY <2>1, <3>2, <3>3
  <2>6. (i + n) + z <= Len(r) => i + z <= Len(t)
    BY <1>1, <1>2, <1>3, <2>1, SumsShift
  <2>7. ASSUME i + z = Len(t) + 1
        PROVE  (w = <<>> => t[i].seg = "rest") /\ (w # <<>> => Follows(t[i], w[1]))
    <3>1. i \in Nat /\ n \in Nat
      BY <1>2, <2>1
    <3>2. (i + n) + z \in Nat
      BY <3>1
    <3>3. ~(i + z <= Len(t))
      BY <1>3, <2>7
    <3>4. (i + n) + z = Len(r) + 1
      BY <1>1, <2>3, <2>6, <3>2, <3>3, NextNumber
    <3> QED BY <1>7, <2>1, <2>2, <3>4 DEF Chained
  <2> QED BY <2>2, <2>4, <2>5, <2>7
<1>8. Chained(t, w)
  BY <1>6, <1>7 DEF Chained
<1>9. t # <<>> => t[1].first /\ Follows(r[1], t[1])
  <2> SUFFICES ASSUME t # <<>> PROVE t[1].first /\ Follows(r[1], t[1])
    OBVIOUS
  <2>1. Len(t) \in Nat \ {0}
    BY <1>3
  <2>2. 1 + n <= Len(r) /\ 1 \in 1..(Len(r) - n)
    BY <1>1, <1>2, <1>3, <2>1
  <2>3. r[1 + n].first /\ Follows(r[1], r[1 + n])
    BY <1>1, <2>2 DEF Chained
  <2> QED BY <1>3, <2>2, <2>3
<1>10. t = <<>> => (w = <<>> => r[1].seg = "rest") /\ (w # <<>> => Follows(r[1], w[1]))
  <2> SUFFICES ASSUME t = <<>>
               PROVE  (w = <<>> => r[1].seg = "rest") /\ (w # <<>> => Follows(r[1], w[1]))
    OBVIOUS
  <2>1. Len(t) = 0
    OBVIOUS
  <2>2. 1 + n = Len(r) + 1
    BY <1>1, <1>2, <1>3, <2>1
  <2> QED BY <1>1, <2>2 DEF Chained
<1> QED BY <1>8, <1>9, <1>10

\* What a step adds to the ring and to the line.
Arrives(s) == ring' = ring \o Bytes(s, TRUE)
Sends(msg) == wire' = wire \o Segments(msg)

\* The ring has s after its n bytes, in z bytes.
Arrived(s, n, z) ==
  /\ ring' \in Seq(Byte) /\ Len(ring') = n + z
  /\ \A i \in 1..n : ring'[i] = ring[i]
  /\ \A i \in 1..z : /\ ring'[n + i].ok /\ ring'[n + i].seg = s.seg
                     /\ ring'[n + i].msg = s.msg /\ (ring'[n + i].first <=> i = 1)

\* A segment that arrives undamaged is received whole, after what it follows.
LEMMA SegmentArrives ==
  ASSUME ring \in Seq(Byte), wire \in Seq(Segment), wire # <<>>, Line(wire), Chained(ring, wire),
         NEW s \in Segment, s = wire[1], NEW z \in Nat \ {0}, z = Size(s),
         NEW n \in Nat, n = Len(ring),
         Arrived(s, n, z),
         wire' \in Seq(Segment), Len(wire') = Len(wire) - 1,
         \A i \in 1..(Len(wire) - 1) : wire'[i] = wire[i + 1]
  PROVE  /\ Line(wire') /\ Chained(ring', wire') /\ ring' # <<>>
         /\ ring # <<>> => ring'[1] = ring[1]
         /\ ring = <<>> => ring'[1].first /\ ring'[1].seg = s.seg /\ ring'[1].msg = s.msg
<1>1. /\ ring' \in Seq(Byte) /\ Len(ring') = n + z
      /\ \A i \in 1..n : ring'[i] = ring[i]
      /\ \A i \in 1..z : /\ ring'[n + i].ok /\ ring'[n + i].seg = s.seg
                         /\ ring'[n + i].msg = s.msg /\ (ring'[n + i].first <=> i = 1)
  BY DEF Arrived
<1> USE <1>1
<1>2. Len(wire) \in Nat \ {0} /\ Len(wire') \in Nat
  OBVIOUS
<1>3. ring'[n + 1].first /\ ring'[n + 1].seg = s.seg /\ ring'[n + 1].msg = s.msg
  <2>1. 1 \in 1..z
    OBVIOUS
  <2> QED BY <2>1
<1>4. Size(ring'[n + 1]) = z
  BY <1>3 DEF Size
<1>5. \A i \in 1..n : Size(ring[i]) \in Nat \ {0}
  <2>1. \A i \in 1..n : ring[i] \in Byte
    BY Element
  <2> QED BY <2>1, SizeOf
<1>6. ASSUME NEW i \in 1..(n + z) PROVE i \in 1..n \/ \E j \in 1..z : i = n + j
  <2>1. CASE i <= n
    BY <2>1
  <2>2. CASE i > n
    <3>1. i - n \in 1..z /\ i = n + (i - n)
      BY <2>2
    <3> QED BY <3>1
  <2> QED BY <2>1, <2>2
<1>7. \A i \in 1..Len(ring') : ring'[i].ok
  <2> SUFFICES ASSUME NEW i \in 1..(n + z) PROVE ring'[i].ok
    OBVIOUS
  <2>1. CASE i \in 1..n
    <3>1. ring[i].ok
      BY <2>1 DEF Chained
    <3>2. ring'[i] = ring[i]
      BY <2>1
    <3> QED BY <3>1, <3>2
  <2>2. ASSUME NEW j \in 1..z, i = n + j PROVE ring'[i].ok
    BY <2>2
  <2> QED BY <1>6, <2>1, <2>2
<1>8. ASSUME NEW i \in 1..Len(ring'), ring'[i].first PROVE i \in 1..n \/ i = n + 1
  <2>1. i \in 1..(n + z)
    OBVIOUS
  <2>2. ASSUME NEW j \in 1..z, i = n + j PROVE i = n + 1
    <3>1. ring'[n + j].first
      BY <1>8, <2>2
    <3>2. j = 1
      BY <3>1
    <3> QED BY <2>2, <3>2
  <2> QED BY <1>6, <2>1, <2>2
<1>9. ASSUME NEW i \in 1..Len(ring'), ring'[i].first
      PROVE  /\ i + Size(ring'[i]) <= Len(ring') + 1
             /\ i + Size(ring'[i]) <= Len(ring') =>
                  ring'[i + Size(ring'[i])].first /\ Follows(ring'[i], ring'[i + Size(ring'[i])])
             /\ i + Size(ring'[i]) = Len(ring') + 1 =>
                  /\ wire' = <<>> => ring'[i].seg = "rest"
                  /\ wire' # <<>> => Follows(ring'[i], wire'[1])
  <2>1. CASE i \in 1..n
    <3>1. ring'[i] = ring[i] /\ i \in 1..Len(ring)
      BY <2>1
    <3>2. PICK y \in Nat \ {0} : y = Size(ring[i])
      BY <1>5, <2>1
    <3>3. i + y <= n + 1
      BY <1>9, <3>1, <3>2 DEF Chained
    <3>4. i + y <= Len(ring')
      BY <2>1, <3>2, <3>3
    <3>5. CASE i + y <= n
      <4>1. ring[i + y].first /\ Follows(ring[i], ring[i + y])
        BY <1>9, <3>1, <3>2, <3>5 DEF Chained
      <4>2. i + y \in 1..n
        BY <2>1, <3>2, <3>5
      <4>3. ring'[i + y] = ring[i + y]
        BY <4>2
      <4>4. ring'[i + y].first /\ Follows(ring'[i], ring'[i + y])
        BY <3>1, <4>1, <4>3
      <4>5. i + y # Len(ring') + 1 /\ i + y <= Len(ring') + 1
        BY <2>1, <3>4
      <4> QED BY <3>1, <3>2, <4>4, <4>5
    <3>6. CASE ~(i + y <= n)
      <4>1. i + y = n + 1
        <5>1. i + y \in Nat
          BY <2>1
        <5> QED BY <3>3, <3>6, <5>1, NextNumber
      <4>2. Follows(ring[i], s)
        BY <1>9, <3>1, <3>2, <4>1 DEF Chained
      <4>3. Follows(ring'[i], ring'[n + 1])
        BY <1>3, <3>1, <4>2 DEF Follows
      <4>4. i + y # Len(ring') + 1 /\ i + y <= Len(ring') + 1
        BY <2>1, <3>4
      <4> QED BY <1>3, <3>1, <3>2, <4>1, <4>3, <4>4
    <3> QED BY <3>5, <3>6
  <2>2. CASE i = n + 1
    <3>1. i + Size(ring'[i]) = Len(ring') + 1
      BY <1>4, <2>2
    <3>2. ASSUME wire' = <<>> PROVE ring'[i].seg = "rest"
      <4>1. Len(wire') = 0
        BY <3>2
      <4>2. Len(wire) = 1
        BY <1>2, <4>1
      <4>3. wire[1].seg = "rest"
        BY <4>2 DEF Line
      <4> QED BY <1>3, <2>2, <4>3
    <3>3. ASSUME wire' # <<>> PROVE Follows(ring'[i], wire'[1])
      <4>1. Len(wire') \in Nat \ {0}
        BY <3>3, Nonempty
      <4>2. 1 \in 1..(Len(wire) - 1) /\ 1 + 1 = 2
        BY <1>2, <4>1
      <4>3. wire'[1] = wire[2] /\ Follows(wire[1], wire[2])
        BY <1>2, <4>2 DEF Line
      <4> QED BY <1>3, <2>2, <4>3 DEF Follows
    <3>4. Len(ring') \in Nat
      OBVIOUS
    <3> QED BY <3>1, <3>2, <3>3, <3>4
  <2> QED BY <1>8, <1>9, <2>1, <2>2
<1>10. Chained(ring', wire')
  BY <1>7, <1>9 DEF Chained
<1>11. Line(wire')
  <2>1. ASSUME NEW i \in 1..(Len(wire') - 1) PROVE Follows(wire'[i], wire'[i + 1])
    <3>1. i \in 1..(Len(wire) - 1) /\ i + 1 \in 1..(Len(wire) - 1)
      BY <1>2
    <3>2. Follows(wire[i + 1], wire[(i + 1) + 1])
      BY <3>1 DEF Line
    <3> QED BY <1>2, <3>1, <3>2
  <2>2. ASSUME wire' # <<>> PROVE wire'[Len(wire')].seg = "rest"
    <3>1. Len(wire') \in Nat \ {0}
      BY <1>2, <2>2
    <3>2. Len(wire') \in 1..(Len(wire) - 1) /\ Len(wire') + 1 = Len(wire)
      BY <1>2, <3>1
    <3> QED BY <1>2, <3>2 DEF Line
  <2> QED BY <2>1, <2>2 DEF Line
<1>12. ring' # <<>>
  <2>1. Len(ring') # 0
    OBVIOUS
  <2> QED BY <2>1
<1>13. ASSUME ring # <<>> PROVE ring'[1] = ring[1]
  <2>1. 1 \in 1..n
    BY <1>13
  <2> QED BY <2>1
<1>14. ASSUME ring = <<>> PROVE ring'[1].first /\ ring'[1].seg = s.seg /\ ring'[1].msg = s.msg
  <2>1. n + 1 = 1
    BY <1>14
  <2> QED BY <1>3, <2>1
<1> QED BY <1>10, <1>11, <1>12, <1>13, <1>14

\* A message is sent after all that is on its way.
LEMMA MessageSent ==
  ASSUME ring \in Seq(Byte), wire \in Seq(Segment), Line(wire), Chained(ring, wire),
         NEW n \in Nat, n = Len(wire), NEW msg,
         wire' \in Seq(Segment), Len(wire') = n + 3, \A i \in 1..n : wire'[i] = wire[i],
         wire'[n + 1].seg = "som" /\ wire'[n + 1].msg = msg,
         wire'[n + 2].seg = "header" /\ wire'[n + 2].msg = msg,
         wire'[n + 3].seg = "rest" /\ wire'[n + 3].msg = msg
  PROVE  /\ Line(wire') /\ Chained(ring, wire') /\ wire' # <<>>
         /\ wire # <<>> => wire'[1] = wire[1]
         /\ wire = <<>> => wire'[1].seg = "som"
<1>1. wire' # <<>>
  <2>1. Len(wire') # 0
    OBVIOUS
  <2> QED BY <2>1
<1>2. wire # <<>> => wire'[1] = wire[1]
  OBVIOUS
<1>3. wire = <<>> => wire'[1].seg = "som"
  <2> SUFFICES ASSUME wire = <<>> PROVE wire'[1].seg = "som"
    OBVIOUS
  <2>1. n + 1 = 1
    OBVIOUS
  <2> QED BY <2>1
<1>4. Chained(ring, wire')
  <2>1. ASSUME NEW i \in 1..Len(ring), ring[i].first, i + Size(ring[i]) = Len(ring) + 1
        PROVE  Follows(ring[i], wire'[1])
    <3>1. CASE wire = <<>>
      <4>1. ring[i].seg = "rest"
        BY <2>1, <3>1 DEF Chained
      <4> QED BY <1>3, <3>1, <4>1 DEF Follows
    <3>2. CASE wire # <<>>
      <4>1. Follows(ring[i], wire[1])
        BY <2>1, <3>2 DEF Chained
      <4> QED BY <1>2, <3>2, <4>1
    <3> QED BY <3>1, <3>2
  <2> QED BY <1>1, <2>1 DEF Chained
<1>5. Line(wire')
  <2>1. ASSUME NEW i \in 1..(Len(wire') - 1) PROVE Follows(wire'[i], wire'[i + 1])
    <3>1. i \in 1..(n + 2)
      OBVIOUS
    <3>2. CASE i < n
      <4>1. i \in 1..(Len(wire) - 1) /\ i \in 1..n /\ i + 1 \in 1..n
        BY <3>1, <3>2
      <4>2. Follows(wire[i], wire[i + 1])
        BY <4>1 DEF Line
      <4> QED BY <4>1, <4>2
    <3>3. CASE i = n
      <4>1. wire # <<>> /\ n \in 1..n
        BY <3>1, <3>3
      <4>2. wire[n].seg = "rest" /\ wire'[n] = wire[n]
        BY <4>1 DEF Line
      <4> QED BY <3>3, <4>2 DEF Follows
    <3>4. CASE i = n + 1
      <4>1. i + 1 = n + 2
        BY <3>4
      <4> QED BY <3>4, <4>1 DEF Follows
    <3>5. CASE i = n + 2
      <4>1. i + 1 = n + 3
        BY <3>5
      <4> QED BY <3>5, <4>1 DEF Follows
    <3>6. i < n \/ i = n \/ i = n + 1 \/ i = n + 2
      BY <3>1
    <3> QED BY <3>2, <3>3, <3>4, <3>5, <3>6
  <2>2. wire'[Len(wire')].seg = "rest"
    OBVIOUS
  <2> QED BY <2>1, <2>2 DEF Line
<1> QED BY <1>1, <1>2, <1>3, <1>4, <1>5

\* What stays of the stream when nothing is received, sent or read.
LEMMA StreamFrame ==
  ASSUME StreamInv, UNCHANGED <<ring, wire>>,
         \/ UNCHANGED <<reading, rxBuffer>>
         \/ reading.part \notin {"header", "rest"} /\ reading'.part \notin {"header", "rest"}
  PROVE  StreamInv'
<1>1. Line(wire') /\ Chained(ring', wire') /\ ring' = ring /\ wire' = wire
  BY DEF StreamInv
<1>2. Reads(reading.part, rxBuffer.msg, ring, wire)
  BY DEF StreamInv
<1>3. Reads(reading'.part, rxBuffer'.msg, ring, wire)
  BY <1>2 DEF Reads, CanRead
<1> QED BY <1>1, <1>3 DEF StreamInv

LEMMA CalmFrame ==
  ASSUME CalmInv, UNCHANGED <<status, notification, pc, reading, rxQueue, rxTotalBytes, rxBuffer>>,
         StreamInv'
  PROVE  CalmInv'
<1>1. ReaderInv'
  BY DEF CalmInv, ReaderInv
<1>2. ReadInv'
  BY DEF CalmInv, ReadInv
<1> QED BY <1>1, <1>2 DEF CalmInv, QueueInv

LEMMA BufferSize ==
  /\ TypeInv /\ rxBuffer' = rxBuffer => rxBuffer'.size \in Nat
  /\ TypeInv' => rxBuffer'.size \in Nat
<1>1. ASSUME NEW b \in Buffer PROVE b.size \in Nat
  BY Sizes DEF Buffer
<1>2. TypeInv => rxBuffer \in Buffer
  BY DEF TypeInv, TypeOK, Buffer
<1>3. TypeInv' => rxBuffer' \in Buffer
  BY DEF TypeInv, TypeOK, Buffer
<1> QED BY <1>1, <1>2, <1>3

\* The handler runs only while the task waits and takes the segment that the
\* read is for; then it asks for the next part of the message or, with the
\* last one, gives the message to the task.
LeftOf(r, n) ==
  /\ ring' \in Seq(Byte) /\ Len(ring') = Len(r) - n
  /\ \A i \in 1..(Len(r) - n) : ring'[i] = r[i + n]
Took(s) ==
  /\ s.seg = "som" =>
       /\ reading' = [part |-> "header", count |-> 3] /\ rxTotalBytes' = 1
       /\ UNCHANGED <<rxQueue, notification>>
  /\ s.seg = "header" =>
       /\ reading' = [part |-> "rest", count |-> rxBuffer'.size + CRCSize] /\ rxTotalBytes' = 4
       /\ rxBuffer'.msg = s.msg /\ rxBuffer'.size = PayloadSize(s.msg)
       /\ UNCHANGED <<rxQueue, notification>>
  /\ s.seg = "rest" =>
       /\ rxTotalBytes = 4 /\ rxBuffer.msg \in RxMessages
       /\ reading' = NoRead /\ notification' = "OK"
       /\ rxQueue' = <<[msg |-> rxBuffer'.msg, crc |-> rxBuffer'.crc]>>
       /\ rxBuffer'.crc /\ rxBuffer'.msg = rxBuffer.msg

LEMMA ReceiveFacts ==
  ASSUME TypeInv, Calm, CalmInv, ReceiveInterrupt, Calm'
  PROVE  /\ pc = "wait" /\ notification = "none" /\ rxQueue = <<>> /\ status = "OK"
         /\ UNCHANGED <<status, pc, wire, txQueue, sent, inbox>>
         /\ ring \in Seq(Byte) /\ ring # <<>>
         /\ ring[1] \in Byte /\ ring[1].first /\ ring[1].seg = reading.part
         /\ ring[1].msg \in RxMessages /\ reading.part \in Parts
         /\ reading.count = Size(ring[1]) /\ reading.count \in Nat \ {0}
         /\ reading.count <= Len(ring)
         /\ LeftOf(ring, reading.count) /\ Took(ring[1])
<1> DEFINE part == reading.part
           bytes == SubSeq(ring, 1, reading.count)
           s == ring[1]
<1>1. /\ ReadComplete /\ ReadCallback /\ rxBuffer' \in Filled(bytes)
      /\ rxTotalBytes' = rxTotalBytes + reading.count
      /\ ring' = SubSeq(ring, reading.count + 1, Len(ring))
      /\ UNCHANGED <<status, pc, wire, txQueue, sent, inbox>>
  BY DEF ReceiveInterrupt, taskVars
<1>2. /\ reading # NoRead /\ ring # <<>> /\ ring \in Seq(Byte)
      /\ Len(bytes) = reading.count /\ bytes[1] = s
  BY <1>1, ReadBytes
<1>3. /\ s \in Byte /\ s.first /\ s.ok /\ s.seg = part /\ part \in Parts
      /\ part = "rest" => s.msg = rxBuffer.msg
      /\ reading.count = Size(s)
      /\ reading.count \in Nat \ {0} /\ reading.count <= Len(ring)
  BY <1>2, ReadsSegment DEF CalmInv
<1>4. pc = "wait" /\ notification = "none" /\ rxQueue = <<>> /\ status = "OK"
  <2>1. part = "som" => pc = "wait"
    <3> SUFFICES ASSUME part = "som", pc # "wait" PROVE FALSE
      OBVIOUS
    <3>1. Spend("races", MaxRaces)
      BY DEF ReceiveInterrupt
    <3>2. budget'["races"] = budget["races"] + 1 /\ budget["races"] \in Nat
      BY <3>1, SpendTyped DEF TypeInv, BudgetTyped
    <3> QED BY <3>2 DEF Calm
  <2>2. part # "som" => reading \notin {NoRead, SomRead}
    BY <1>2 DEF SomRead
  <2>3. pc = "wait"
    <3>1. part # "som" => pc \in {"wait", "cancel"} /\ pc # "cancel"
      BY <2>2 DEF CalmInv, ReaderInv
    <3> QED BY <2>1, <3>1
  <2> QED BY <1>2, <2>3 DEF CalmInv, ReaderInv
<1>5. Aligned(bytes) /\ bytes[1].ok
  BY <1>2, <1>3 DEF Aligned, Size
<1>6. LeftOf(ring, reading.count)
  <2>1. ring' = SubSeq(ring, reading.count + 1, Len(ring))
    BY <1>1
  <2>2. ring \in Seq(Byte) /\ reading.count \in Nat /\ reading.count <= Len(ring)
    BY <1>2, <1>3
  <2> QED BY <2>1, <2>2 DEF LeftOf
<1>7. s.msg \in RxMessages /\ PayloadSize(s.msg) \in 0..MaxPayloadSize
  BY <1>3, PayloadSizes DEF Byte
<1>8. rxBuffer \in Buffer
  BY DEF TypeInv, TypeOK, Buffer
<1>9. ASSUME part = "som" PROVE Took(s)
  <2>1. rxBuffer' = [rxBuffer EXCEPT !.som = TRUE]
    BY <1>1, <1>5, <1>9 DEF Filled
  <2>2. rxBuffer'.som
    BY <1>8, <2>1 DEF Buffer
  <2>3. rxTotalBytes' = 1
    BY <1>1, <1>9 DEF CalmInv, ReadInv
  <2>4. Read("header", 3)
    <3>1. rxBuffer'.size \in Nat
      BY <1>1, BufferSize, ReceiveTyped
    <3> QED BY <1>1, <2>2, <2>3, <3>1, CallbackGoesOn
  <2>5. /\ reading' = [part |-> "header", count |-> 3]
        /\ UNCHANGED <<rxQueue, notification>>
    BY <2>4 DEF Read
  <2>6. s.seg = "som"
    BY <1>3, <1>9
  <2> QED BY <2>3, <2>5, <2>6 DEF Took
<1>10. ASSUME part = "header" PROVE Took(s)
  <2>1. PICK size \in {PayloadSize(s.msg)} :
          rxBuffer' = [rxBuffer EXCEPT !.msg = s.msg, !.size = size]
    BY <1>1, <1>2, <1>5, <1>10 DEF Filled
  <2>2. rxBuffer'.msg = s.msg /\ rxBuffer'.size = PayloadSize(s.msg)
    BY <1>8, <2>1 DEF Buffer
  <2>3. rxTotalBytes' = 4
    BY <1>1, <1>10 DEF CalmInv, ReadInv
  <2>4. rxBuffer'.size <= MaxPayloadSize
    BY <1>7, <2>2 DEF MaxPayloadSize
  <2>5. Read("rest", rxBuffer'.size + CRCSize)
    <3>1. rxBuffer'.size \in Nat
      BY <1>1, BufferSize, ReceiveTyped
    <3> QED BY <1>1, <2>3, <2>4, <3>1, CallbackGoesOn
  <2>6. /\ reading' = [part |-> "rest", count |-> rxBuffer'.size + CRCSize]
        /\ UNCHANGED <<rxQueue, notification>>
    BY <2>5 DEF Read
  <2>7. s.seg = "header"
    BY <1>3, <1>10
  <2> QED BY <2>2, <2>3, <2>6, <2>7 DEF Took
<1>11. ASSUME part = "rest" PROVE Took(s)
  <2>1. rxBuffer' = [rxBuffer EXCEPT !.crc = TRUE]
    BY <1>1, <1>2, <1>3, <1>5, <1>11 DEF Filled
  <2>2. rxBuffer'.crc /\ rxBuffer'.msg = rxBuffer.msg /\ rxBuffer'.size = rxBuffer.size
    BY <1>8, <2>1 DEF Buffer
  <2>3. /\ rxBuffer.msg \in RxMessages /\ rxTotalBytes = 4
        /\ reading.count = rxBuffer.size + CRCSize /\ rxBuffer.size \in Nat
    <3>1. /\ rxBuffer.msg \in RxMessages /\ rxTotalBytes = 4
          /\ rxBuffer.size = PayloadSize(rxBuffer.msg)
          /\ reading.count = rxBuffer.size + CRCSize
      BY <1>11 DEF CalmInv, ReadInv
    <3>2. PayloadSize(rxBuffer.msg) \in Nat
      BY <3>1, PayloadSizes DEF MaxPayloadSize
    <3> QED BY <3>1, <3>2
  <2>4. rxTotalBytes' = 4 + rxBuffer'.size + CRCSize /\ rxTotalBytes' \notin {0, 1, 4}
    BY <1>1, <2>2, <2>3 DEF CRCSize
  <2>5. Post
    BY <1>1, <2>4 DEF ReadCallback
  <2>6. /\ reading' = NoRead /\ notification' = "OK"
        /\ rxQueue' = Enqueued(<<>>, [msg |-> rxBuffer'.msg, crc |-> rxBuffer'.crc])
    BY <1>4, <2>5 DEF Post
  <2>7. rxQueue' = <<[msg |-> rxBuffer'.msg, crc |-> rxBuffer'.crc]>>
    BY <2>6, UARTAssumption DEF Enqueued
  <2>8. s.seg = "rest"
    BY <1>3, <1>11
  <2> QED BY <2>2, <2>3, <2>6, <2>7, <2>8 DEF Took
<1>12. Took(s)
  BY <1>3, <1>9, <1>10, <1>11 DEF Parts
<1> QED BY <1>1, <1>2, <1>3, <1>4, <1>6, <1>7, <1>12

\* A whole segment is read and brings the next part of the message, or its end.
LEMMA ReceiveCalm ==
  ASSUME TypeInv, Calm, CalmInv, ReceiveInterrupt, Calm'
  PROVE  CalmInv'
<1> DEFINE s == ring[1]
<1>1. /\ pc = "wait" /\ notification = "none" /\ rxQueue = <<>> /\ status = "OK"
      /\ UNCHANGED <<status, pc, wire>> /\ ring \in Seq(Byte) /\ ring # <<>>
      /\ s.first /\ s.seg \in Parts /\ s.msg \in RxMessages
      /\ LeftOf(ring, reading.count) /\ Took(s) /\ reading.count = Size(s)
  BY ReceiveFacts
<1>2. PayloadSize(s.msg) \in 0..MaxPayloadSize
  BY <1>1, PayloadSizes
<1>3. /\ Line(wire) /\ Chained(ring', wire)
      /\ ring' # <<>> => ring'[1].first /\ Follows(s, ring'[1])
      /\ ring' = <<>> /\ wire # <<>> => Follows(s, wire[1])
      /\ ring' = <<>> /\ wire = <<>> => s.seg = "rest"
  <2>1. Line(wire) /\ Chained(ring, wire) /\ wire \in Seq(Segment)
    BY DEF CalmInv, StreamInv, TypeInv, TypeOK, Segment
  <2>2. /\ ring' \in Seq(Byte) /\ Len(ring') = Len(ring) - reading.count
        /\ \A i \in 1..(Len(ring) - reading.count) : ring'[i] = ring[i + reading.count]
    BY <1>1 DEF LeftOf
  <2> QED BY <1>1, <2>1, <2>2, SegmentRead
<1>4. CASE s.seg = "som"
  <2>1. /\ reading' = [part |-> "header", count |-> 3] /\ rxTotalBytes' = 1
        /\ UNCHANGED <<rxQueue, notification>>
    BY <1>1, <1>4 DEF Took
  <2>2. ReaderInv'
    BY <1>1, <2>1 DEF ReaderInv, NoRead
  <2>3. ReadInv'
    BY <2>1 DEF ReadInv
  <2>4. \A x : Follows(s, x) => CanRead("header", rxBuffer'.msg, x)
    BY <1>4 DEF Follows, CanRead
  <2>5. Reads("header", rxBuffer'.msg, ring', wire)
    BY <1>3, <1>4, <2>4 DEF Reads
  <2>6. StreamInv'
    BY <1>1, <1>3, <2>1, <2>5 DEF StreamInv
  <2>7. QueueInv'
    BY <1>1, <2>1 DEF QueueInv
  <2> QED BY <2>2, <2>3, <2>6, <2>7 DEF CalmInv
<1>5. CASE s.seg = "header"
  <2>1. /\ reading' = [part |-> "rest", count |-> rxBuffer'.size + CRCSize] /\ rxTotalBytes' = 4
        /\ rxBuffer'.msg = s.msg /\ rxBuffer'.size = PayloadSize(s.msg)
        /\ UNCHANGED <<rxQueue, notification>>
    BY <1>1, <1>5 DEF Took
  <2>2. ReaderInv'
    BY <1>1, <2>1 DEF ReaderInv, NoRead
  <2>3. ReadInv'
    BY <1>1, <2>1 DEF ReadInv
  <2>4. \A x : Follows(s, x) => CanRead("rest", s.msg, x)
    BY <1>5 DEF Follows, CanRead
  <2>5. Reads("rest", rxBuffer'.msg, ring', wire)
    BY <1>3, <1>5, <2>1, <2>4 DEF Reads
  <2>6. StreamInv'
    BY <1>1, <1>3, <2>1, <2>5 DEF StreamInv
  <2>7. QueueInv'
    BY <1>1, <2>1 DEF QueueInv
  <2> QED BY <2>2, <2>3, <2>6, <2>7 DEF CalmInv
<1>6. CASE s.seg = "rest"
  <2>1. /\ rxBuffer.msg \in RxMessages /\ reading' = NoRead /\ notification' = "OK"
        /\ rxQueue' = <<[msg |-> rxBuffer'.msg, crc |-> rxBuffer'.crc]>>
        /\ rxBuffer'.crc /\ rxBuffer'.msg = rxBuffer.msg
    BY <1>1, <1>6 DEF Took
  <2>2. ReaderInv'
    BY <1>1, <2>1 DEF ReaderInv
  <2>3. ReadInv'
    BY <2>1 DEF ReadInv, NoRead
  <2>4. \A x : Follows(s, x) => CanRead("none", rxBuffer'.msg, x)
    BY <1>6 DEF Follows, CanRead
  <2>5. Reads("none", rxBuffer'.msg, ring', wire)
    BY <1>3, <2>4 DEF Reads
  <2>6. StreamInv'
    BY <1>1, <1>3, <2>1, <2>5 DEF StreamInv, NoRead
  <2>7. QueueInv'
    <3>1. rxBuffer.msg # None
      BY <2>1 DEF RxMessages, InitMessage, None
    <3>2. Len(rxQueue') = 1 /\ rxQueue'[1].msg # None /\ rxQueue'[1].crc
      BY <2>1, <3>1
    <3> QED BY <3>2 DEF QueueInv
  <2> QED BY <2>2, <2>3, <2>6, <2>7 DEF CalmInv
<1> QED BY <1>1, <1>4, <1>5, <1>6 DEF Parts

\* A timeout that races no answer finds only the read of a first byte.
LEMMA QuietRead ==
  ASSUME TypeInv, CalmInv, Quiet, reading # NoRead
  PROVE  reading = SomRead /\ ring = <<>>
<1>1. wire = <<>> /\ ~(Len(ring) >= reading.count)
  BY DEF Quiet, ReadComplete
<1>2. ring = <<>>
  <2> SUFFICES ASSUME ring # <<>> PROVE FALSE
    OBVIOUS
  <2>1. reading.count <= Len(ring) /\ reading.count \in Nat
    BY ReadsSegment DEF CalmInv
  <2>2. Len(ring) \in Nat
    BY DEF TypeInv, TypeOK
  <2> QED BY <1>1, <2>1, <2>2
<1>3. reading.part = "som"
  BY <1>1, <1>2 DEF CalmInv, StreamInv, Reads, TypeInv, ReadTyped, Parts
<1> QED BY <1>2, <1>3 DEF SomRead, CalmInv, ReadInv, TypeInv, TypeOK

\* Cancelling the read of a first byte takes nothing and starts it again.
LEMMA CancelCalm ==
  ASSUME TypeInv, CalmInv, CancelAndResend
  PROVE  /\ CalmInv' /\ UNCHANGED <<ring, rxQueue, wire, inbox, sent>> /\ reading' = SomRead
         /\ pc' = "status" /\ pc = "cancel" /\ txQueue' = Resent
<1> DEFINE bytes == IF ReadComplete THEN 0 ELSE Len(ring)
<1>1. /\ pc = "cancel" /\ pc' = "status" /\ status' = "OK"
      /\ UNCHANGED <<rxBuffer, wire, inbox, sent>> /\ txQueue' = Resent
  BY DEF CancelAndResend
<1>2. reading = SomRead /\ reading # NoRead /\ rxQueue = <<>> /\ notification = "none"
  BY <1>1 DEF CalmInv, ReaderInv, SomRead, NoRead
<1>3. /\ rxTotalBytes' = rxTotalBytes + bytes
      /\ ring' = SubSeq(ring, bytes + 1, Len(ring)) /\ ReadCallback
  BY <1>2 DEF CancelAndResend
<1>4. ring \in Seq(Byte) /\ Len(ring) \in Nat
  BY DEF TypeInv, TypeOK, Byte
<1>5. bytes = 0
  <2>1. reading.count = 1
    BY <1>2 DEF SomRead
  <2>2. ~ReadComplete => Len(ring) = 0
    BY <1>2, <1>4, <2>1 DEF ReadComplete
  <2> QED BY <2>2
<1> HIDE DEF bytes
<1>6. ring' = ring
  <2>1. bytes + 1 = 1
    BY <1>5
  <2> QED BY <1>3, <1>4, <2>1, AllOf
<1>7. rxTotalBytes' = 0
  <2>1. rxTotalBytes = 0
    BY <1>2 DEF SomRead, CalmInv, ReadInv
  <2>2. rxTotalBytes' = rxTotalBytes + bytes
    BY <1>3
  <2> QED BY <1>5, <2>1, <2>2
<1>8. Read("som", 1)
  <2>1. rxBuffer'.size \in Nat
    BY <1>1, BufferSize
  <2> QED BY <1>3, <1>7, <2>1, CallbackGoesOn
<1>9. reading' = SomRead /\ UNCHANGED <<rxQueue, notification>>
  BY <1>8 DEF Read, SomRead
<1>10. ReaderInv'
  BY <1>1, <1>2, <1>9 DEF ReaderInv
<1>11. ReadInv'
  BY <1>7, <1>9 DEF ReadInv, SomRead
<1>12. StreamInv'
  BY <1>1, <1>2, <1>6, <1>9, StreamFrame DEF CalmInv
<1>13. QueueInv'
  BY <1>9 DEF CalmInv, QueueInv
<1> QED BY <1>1, <1>6, <1>9, <1>10, <1>11, <1>12, <1>13 DEF CalmInv

LEMMA RingJoined ==
  ASSUME ring \in Seq(Byte), NEW b \in Seq(Byte), ring' = ring \o b
  PROVE  /\ ring' \in Seq(Byte) /\ Len(ring') = Len(ring) + Len(b)
         /\ \A i \in 1..(Len(ring) + Len(b)) :
              ring'[i] = IF i <= Len(ring) THEN ring[i] ELSE b[i - Len(ring)]
OBVIOUS

LEMMA WireJoined ==
  ASSUME wire \in Seq(Segment), NEW b \in Seq(Segment), wire' = wire \o b
  PROVE  /\ wire' \in Seq(Segment) /\ Len(wire') = Len(wire) + Len(b)
         /\ \A i \in 1..(Len(wire) + Len(b)) :
              wire'[i] = IF i <= Len(wire) THEN wire[i] ELSE b[i - Len(wire)]
OBVIOUS

LEMMA BytesArrive ==
  ASSUME ring \in Seq(Byte), NEW s \in Segment, Arrives(s),
         NEW n \in Nat, n = Len(ring), NEW z \in Nat \ {0}, z = Size(s)
  PROVE  Arrived(s, n, z)
<1>1. Bytes(s, TRUE) \in Seq(Byte) /\ Len(Bytes(s, TRUE)) = z
  BY BytesTyped DEF Size
<1>2. ASSUME NEW i \in 1..z
      PROVE  /\ Bytes(s, TRUE)[i].ok /\ Bytes(s, TRUE)[i].seg = s.seg
             /\ Bytes(s, TRUE)[i].msg = s.msg /\ (Bytes(s, TRUE)[i].first <=> i = 1)
  <2>1. i \in 1..SegmentSize(s.seg, s.msg)
    BY DEF Size
  <2> QED BY <2>1 DEF Bytes
<1>3. /\ ring' \in Seq(Byte) /\ Len(ring') = Len(ring) + Len(Bytes(s, TRUE))
      /\ \A i \in 1..(Len(ring) + Len(Bytes(s, TRUE))) :
           ring'[i] = IF i <= Len(ring) THEN ring[i] ELSE Bytes(s, TRUE)[i - Len(ring)]
  BY <1>1, RingJoined DEF Arrives
<1>4. Len(ring') = n + z /\ Len(ring) + Len(Bytes(s, TRUE)) = n + z
  BY <1>1, <1>3
<1>5. ASSUME NEW i \in 1..n PROVE ring'[i] = ring[i]
  <2>1. i \in 1..(n + z) /\ i <= n
    OBVIOUS
  <2>2. i \in 1..(Len(ring) + Len(Bytes(s, TRUE)))
    BY <1>4, <2>1
  <2>3. i <= Len(ring)
    BY <2>1
  <2> QED BY <1>3, <2>2, <2>3
<1>6. ASSUME NEW i \in 1..z PROVE ring'[n + i] = Bytes(s, TRUE)[i]
  <2>1. n + i \in 1..(n + z) /\ ~(n + i <= n) /\ (n + i) - n = i
    OBVIOUS
  <2>2. n + i \in 1..(Len(ring) + Len(Bytes(s, TRUE))) /\ ~(n + i <= Len(ring))
    BY <1>4, <2>1
  <2>3. ring'[n + i] = Bytes(s, TRUE)[(n + i) - Len(ring)]
    BY <1>3, <2>2
  <2> QED BY <2>1, <2>3
<1>7. ASSUME NEW i \in 1..z
      PROVE  /\ ring'[n + i].ok /\ ring'[n + i].seg = s.seg
             /\ ring'[n + i].msg = s.msg /\ (ring'[n + i].first <=> i = 1)
  BY <1>2, <1>6
<1> QED BY <1>3, <1>4, <1>5, <1>7 DEF Arrived

LEMMA LineCalm ==
  ASSUME TypeInv, CalmInv, Arrive
  PROVE  CalmInv'
<1>1. /\ wire # <<>> /\ ring' = ring \o Bytes(Head(wire), TRUE) /\ wire' = Tail(wire)
      /\ UNCHANGED <<status, notification, pc, reading, rxQueue, rxTotalBytes, rxBuffer>>
  BY DEF Arrive, taskVars, isrVars
<1>2. /\ ring \in Seq(Byte) /\ wire \in Seq(Segment) /\ Line(wire) /\ Chained(ring, wire)
      /\ Reads(reading.part, rxBuffer.msg, ring, wire)
  BY DEF TypeInv, TypeOK, Byte, Segment, CalmInv, StreamInv
<1>3. PICK s \in Segment : s = wire[1] /\ Head(wire) = s
  BY <1>1, <1>2
<1>4. PICK n \in Nat : n = Len(ring)
  BY <1>2
<1>5. PICK z \in Nat \ {0} : z = Size(s)
  BY SizeOf
<1>6. Arrived(s, n, z)
  <2>1. Arrives(s)
    BY <1>1, <1>3 DEF Arrives
  <2>2. ring \in Seq(Byte)
    BY <1>2
  <2> QED BY <1>4, <1>5, <2>1, <2>2, BytesArrive
<1>7. /\ wire' \in Seq(Segment) /\ Len(wire') = Len(wire) - 1
      /\ \A i \in 1..(Len(wire) - 1) : wire'[i] = wire[i + 1]
  BY <1>1, <1>2, Shifted
<1>8. wire # <<>>
  BY <1>1
<1>9. /\ Line(wire') /\ Chained(ring', wire') /\ ring' # <<>>
      /\ ring # <<>> => ring'[1] = ring[1]
      /\ ring = <<>> => ring'[1].first /\ ring'[1].seg = s.seg /\ ring'[1].msg = s.msg
  BY <1>2, <1>3, <1>4, <1>5, <1>6, <1>7, <1>8, SegmentArrives
<1>10. Reads(reading.part, rxBuffer.msg, ring', wire')
  <2>1. CASE ring # <<>>
    BY <1>2, <1>9, <2>1 DEF Reads
  <2>2. CASE ring = <<>>
    <3>1. CanRead(reading.part, rxBuffer.msg, s)
      BY <1>1, <1>2, <1>3, <2>2 DEF Reads
    <3>2. CanRead(reading.part, rxBuffer.msg, ring'[1])
      BY <1>9, <2>2, <3>1 DEF CanRead
    <3> QED BY <1>9, <2>2, <3>2 DEF Reads
  <2> QED BY <2>1, <2>2
<1>11. StreamInv'
  BY <1>1, <1>9, <1>10 DEF StreamInv
<1> QED BY <1>1, <1>11, CalmFrame

LEMMA SegmentsSent ==
  ASSUME wire \in Seq(Segment), NEW msg \in RxMessages, Sends(msg),
         NEW n \in Nat, n = Len(wire)
  PROVE  /\ wire' \in Seq(Segment) /\ Len(wire') = n + 3
         /\ \A i \in 1..n : wire'[i] = wire[i]
         /\ wire'[n + 1].seg = "som" /\ wire'[n + 1].msg = msg
         /\ wire'[n + 2].seg = "header" /\ wire'[n + 2].msg = msg
         /\ wire'[n + 3].seg = "rest" /\ wire'[n + 3].msg = msg
<1>1. Segments(msg) \in Seq(Segment) /\ Len(Segments(msg)) = 3
  BY SegmentsTyped
<1>2. /\ wire' \in Seq(Segment) /\ Len(wire') = Len(wire) + Len(Segments(msg))
      /\ \A i \in 1..(Len(wire) + Len(Segments(msg))) :
           wire'[i] = IF i <= Len(wire) THEN wire[i] ELSE Segments(msg)[i - Len(wire)]
  BY <1>1, WireJoined DEF Sends
<1>3. /\ wire' \in Seq(Segment) /\ Len(wire') = n + 3
      /\ \A i \in 1..(n + 3) : wire'[i] = IF i <= n THEN wire[i] ELSE Segments(msg)[i - n]
  BY <1>1, <1>2
<1>4. \A i \in 1..n : wire'[i] = wire[i]
  BY <1>3
<1>5. ASSUME NEW i \in 1..3 PROVE wire'[n + i] = Segments(msg)[i]
  <2>1. n + i \in 1..(n + 3) /\ ~(n + i <= n) /\ (n + i) - n = i
    OBVIOUS
  <2> QED BY <1>3, <2>1
<1>6. /\ wire'[n + 1] = Segments(msg)[1] /\ wire'[n + 2] = Segments(msg)[2]
      /\ wire'[n + 3] = Segments(msg)[3]
  <2>1. 1 \in 1..3 /\ 2 \in 1..3 /\ 3 \in 1..3
    OBVIOUS
  <2> QED BY <1>5, <2>1
<1>7. /\ Segments(msg)[1].msg = msg /\ Segments(msg)[2].msg = msg /\ Segments(msg)[3].msg = msg
      /\ Segments(msg)[1].seg = "som" /\ Segments(msg)[2].seg = "header"
      /\ Segments(msg)[3].seg = "rest"
  BY SegmentsTyped
<1> QED BY <1>3, <1>4, <1>6, <1>7

LEMMA SendCalm ==
  ASSUME TypeInv, CalmInv, NEW msg \in RxMessages, Sends(msg), ring' = ring,
         UNCHANGED <<status, notification, pc, reading, rxQueue, rxTotalBytes, rxBuffer>>
  PROVE  CalmInv'
<1>1. /\ ring \in Seq(Byte) /\ wire \in Seq(Segment) /\ Line(wire) /\ Chained(ring, wire)
      /\ Reads(reading.part, rxBuffer.msg, ring, wire)
  BY DEF TypeInv, TypeOK, Byte, Segment, CalmInv, StreamInv
<1>2. PICK n \in Nat : n = Len(wire)
  BY <1>1
<1>3. /\ wire' \in Seq(Segment) /\ Len(wire') = n + 3
      /\ \A i \in 1..n : wire'[i] = wire[i]
      /\ wire'[n + 1].seg = "som" /\ wire'[n + 1].msg = msg
      /\ wire'[n + 2].seg = "header" /\ wire'[n + 2].msg = msg
      /\ wire'[n + 3].seg = "rest" /\ wire'[n + 3].msg = msg
  BY <1>1, <1>2, SegmentsSent
<1>4. /\ Line(wire') /\ Chained(ring, wire') /\ wire' # <<>>
      /\ wire # <<>> => wire'[1] = wire[1]
      /\ wire = <<>> => wire'[1].seg = "som"
  BY <1>1, <1>2, <1>3, MessageSent
<1>5. Reads(reading.part, rxBuffer.msg, ring, wire')
  <2>1. CASE wire # <<>>
    BY <1>1, <1>4, <2>1 DEF Reads
  <2>2. CASE wire = <<>>
    BY <1>1, <1>4, <2>2 DEF Reads, CanRead
  <2> QED BY <2>1, <2>2
<1>6. StreamInv'
  BY <1>4, <1>5 DEF StreamInv
<1> QED BY <1>6, CalmFrame

\* What has been damaged, or has raced, stays so.
LEMMA WasCalm ==
  ASSUME TypeInv, [Next]_vars, Calm'
  PROVE  Calm
<1>1. ASSUME NEW kind \in {"losses", "corrupted", "races", "remotes", "commands"}, NEW bound,
             Spend(kind, bound)
      PROVE  Calm
  <2>1. budget'.corrupted >= budget.corrupted /\ budget'.races >= budget.races
    BY <1>1, SpendTyped DEF TypeInv
  <2>2. budget.corrupted \in Nat /\ budget.races \in Nat
    BY DEF TypeInv, BudgetTyped
  <2> QED BY <2>1, <2>2 DEF Calm
<1>2. ASSUME UNCHANGED budget PROVE Calm
  BY <1>2 DEF Calm
<1>3. \/ UNCHANGED budget
      \/ \E kind \in {"losses", "corrupted", "races", "remotes", "commands"} :
           \E bound : Spend(kind, bound)
  BY DEF Next, TaskStep, SendPending, ResetCount, ClearBuffer, StartRead, Notified,
     CancelAndResend, HandleStatus, ProcessIncomingMessage, ProcessingDone, Timeout,
     ReceiveInterrupt,
     FanAnswers, FanLosesRequest, RemoteControl, SendCommand, Arrive, ArriveDamaged, vars
<1> QED BY <1>1, <1>2, <1>3

LEMMA CalmStep ==
  ASSUME TypeInv, Calm => CalmInv, [Next]_vars, Calm'
  PROVE  CalmInv'
<1>1. Calm
  BY WasCalm
<1>2. CalmInv /\ ReaderInv /\ ReadInv /\ StreamInv /\ QueueInv
  BY <1>1 DEF CalmInv
<1>3. rxQueue \in Seq(Received)
  BY DEF TypeInv, TypeOK, Received
<1>4. ASSUME UNCHANGED <<ring, wire, reading, rxBuffer>>, ReaderInv', ReadInv', QueueInv'
      PROVE  CalmInv'
  <2>1. StreamInv'
    BY <1>2, <1>4, StreamFrame
  <2> QED BY <1>4, <2>1 DEF CalmInv
<1>5. CASE SendPending
  <2>1. /\ pc = "send" /\ pc' = "read"
        /\ UNCHANGED <<ring, wire, reading, rxBuffer, rxTotalBytes, rxQueue, notification, status>>
    BY <1>5 DEF SendPending, isrVars
  <2> QED BY <1>2, <1>4, <2>1 DEF ReaderInv, ReadInv, QueueInv
<1>6. CASE ResetCount
  <2>1. /\ pc = "read" /\ pc' = "clear" /\ rxTotalBytes' = 0
        /\ UNCHANGED <<ring, wire, reading, rxBuffer, rxQueue, notification, status>>
    BY <1>6 DEF ResetCount, lineVars
  <2>2. reading \in {NoRead, SomRead}
    BY <1>2, <2>1 DEF ReaderInv
  <2>3. ReadInv'
    BY <2>1, <2>2 DEF ReadInv, NoRead, SomRead
  <2> QED BY <1>2, <1>4, <2>1, <2>3 DEF ReaderInv, QueueInv
<1>clear. CASE ClearBuffer
  <2>1. /\ pc = "clear" /\ pc' = "start"
        /\ UNCHANGED <<ring, wire, reading, rxTotalBytes, rxQueue, notification, status>>
    BY <1>clear DEF ClearBuffer, lineVars
  <2>2. reading \in {NoRead, SomRead} /\ rxTotalBytes = 0
    BY <1>2, <2>1 DEF ReaderInv
  <2>3. ReaderInv'
    BY <1>2, <2>1 DEF ReaderInv
  <2>4. ReadInv'
    BY <2>1, <2>2 DEF ReadInv, NoRead, SomRead
  <2>5. StreamInv'
    BY <1>2, <2>1, <2>2, StreamFrame DEF NoRead, SomRead
  <2> QED BY <1>2, <2>1, <2>3, <2>4, <2>5 DEF CalmInv, QueueInv
<1>7. CASE StartRead
  <2>1. /\ pc = "start" /\ pc' = "wait"
        /\ reading' = IF reading = NoRead THEN SomRead ELSE reading
        /\ UNCHANGED <<ring, wire, rxBuffer, rxTotalBytes, rxQueue, notification, status>>
    BY <1>7 DEF StartRead, lineVars, SomRead
  <2>2. /\ reading \in {NoRead, SomRead} /\ reading' = SomRead /\ rxTotalBytes = 0
        /\ rxQueue = <<>> /\ notification = "none"
    BY <1>2, <2>1 DEF ReaderInv
  <2>3. ReaderInv'
    BY <1>2, <2>1, <2>2 DEF ReaderInv, NoRead, SomRead
  <2>4. ReadInv'
    BY <2>1, <2>2 DEF ReadInv, SomRead
  <2>5. StreamInv'
    BY <1>2, <2>1, <2>2, StreamFrame DEF NoRead, SomRead
  <2> QED BY <1>2, <2>1, <2>3, <2>4, <2>5 DEF CalmInv, QueueInv
<1>8. CASE Notified
  <2>1. /\ pc = "wait" /\ notification # "none" /\ status' = notification
        /\ notification' = "none" /\ pc' = "status"
        /\ UNCHANGED <<ring, wire, reading, rxBuffer, rxTotalBytes, rxQueue>>
    BY <1>8 DEF Notified, isrVars, lineVars
  <2>2. ReaderInv'
    BY <1>2, <2>1 DEF ReaderInv
  <2> QED BY <1>2, <1>4, <2>1, <2>2 DEF ReadInv, QueueInv
<1>9. CASE Timeout
  <2>1. /\ pc = "wait" /\ notification = "none" /\ pc' = "cancel"
        /\ UNCHANGED <<ring, wire, reading, rxBuffer, rxTotalBytes, rxQueue, notification, status>>
    BY <1>9 DEF Timeout, isrVars, lineVars
  <2>2. Quiet
    <3> SUFFICES ASSUME Spend("races", MaxRaces) PROVE FALSE
      BY <1>9 DEF Timeout
    <3>1. budget'["races"] = budget["races"] + 1 /\ budget["races"] \in Nat
      BY SpendTyped DEF TypeInv, BudgetTyped
    <3> QED BY <3>1, <1>1 DEF Calm
  <2>3. reading # NoRead /\ rxQueue = <<>>
    BY <1>2, <2>1 DEF ReaderInv
  <2>4. reading = SomRead
    BY <1>2, <2>2, <2>3, QuietRead
  <2>5. ReaderInv'
    BY <1>2, <2>1, <2>3, <2>4 DEF ReaderInv
  <2> QED BY <1>2, <1>4, <2>1, <2>5 DEF ReadInv, QueueInv
<1>10. CASE CancelAndResend
  BY <1>2, <1>10, CancelCalm
<1>11. CASE HandleStatus
  <2>1. /\ pc = "status" /\ pc' = "process" /\ ring' = ring
        /\ UNCHANGED <<wire, reading, rxBuffer, rxTotalBytes, rxQueue, notification, status>>
    BY <1>2, <1>11 DEF HandleStatus, isrVars, ReaderInv
  <2> QED BY <1>2, <1>4, <2>1 DEF ReaderInv, ReadInv, QueueInv
<1>12. CASE ProcessIncomingMessage
  <2>1. /\ pc = "process" /\ rxQueue # <<>> /\ rxQueue' = Tail(rxQueue)
        /\ UNCHANGED <<pc, ring, wire, reading, rxBuffer, rxTotalBytes, notification, status>>
    BY <1>12 DEF ProcessIncomingMessage, isrVars, lineVars
  <2>2. /\ Len(rxQueue') = Len(rxQueue) - 1 /\ Len(rxQueue) \in Nat \ {0}
        /\ \A i \in 1..(Len(rxQueue) - 1) : rxQueue'[i] = rxQueue[i + 1]
    BY <1>3, <2>1, Shifted
  <2>3. QueueInv'
    BY <1>2, <2>2 DEF QueueInv
  <2> QED BY <1>2, <1>4, <2>1, <2>3 DEF ReaderInv, ReadInv
<1>13. CASE ProcessingDone
  <2>1. /\ pc = "process" /\ rxQueue = <<>> /\ pc' = "send"
        /\ UNCHANGED <<ring, wire, reading, rxBuffer, rxTotalBytes, rxQueue, notification, status>>
    BY <1>13 DEF ProcessingDone, isrVars, lineVars
  <2> QED BY <1>2, <1>4, <2>1 DEF ReaderInv, ReadInv, QueueInv
<1>14. CASE ReceiveInterrupt
  BY <1>1, <1>2, <1>14, ReceiveCalm
<1>15. CASE FanAnswers
  <2>1. /\ inbox # <<>> /\ Sends(Response(Head(inbox))) /\ ring' = ring
        /\ UNCHANGED <<status, notification, pc, reading, rxQueue, rxTotalBytes, rxBuffer>>
    BY <1>15 DEF FanAnswers, Sends, taskVars, isrVars
  <2>2. Response(Head(inbox)) \in RxMessages
    <3>1. Head(inbox) \in TxMessages
      BY <2>1 DEF TypeInv, TypeOK
    <3> QED BY <3>1, ResponseTyped
  <2> QED BY <1>2, <2>1, <2>2, SendCalm
<1>16. CASE RemoteControl
  <2>1. /\ Sends(<<"remote", 0>>) /\ ring' = ring
        /\ UNCHANGED <<status, notification, pc, reading, rxQueue, rxTotalBytes, rxBuffer>>
    BY <1>16 DEF RemoteControl, Sends, taskVars, isrVars
  <2> QED BY <1>2, <2>1, Messages, SendCalm
<1>17. CASE FanLosesRequest \/ SendCommand \/ UNCHANGED vars
  <2>1. UNCHANGED <<ring, wire, status, notification, pc, reading, rxQueue, rxTotalBytes, rxBuffer>>
    BY <1>17 DEF FanLosesRequest, SendCommand, vars, taskVars, isrVars, lineVars
  <2> QED BY <1>2, <2>1, StreamFrame, CalmFrame
<1>18. CASE Arrive
  BY <1>2, <1>18, LineCalm
<1>19. CASE ArriveDamaged
  <2>1. Spend("corrupted", MaxCorrupted)
    BY <1>19 DEF ArriveDamaged
  <2>2. budget'["corrupted"] = budget["corrupted"] + 1 /\ budget["corrupted"] \in Nat
    BY <2>1, SpendTyped DEF TypeInv, BudgetTyped
  <2> QED BY <2>2, <1>1 DEF Calm
<1> QED
  BY <1>5, <1>6, <1>clear, <1>7, <1>8, <1>9, <1>10, <1>11, <1>12, <1>13, <1>14, <1>15, <1>16, <1>17,
     <1>18, <1>19
  DEF Next, TaskStep

LEMMA CalmInit == Init => CalmInv
<1> SUFFICES ASSUME Init PROVE CalmInv
  OBVIOUS
<1>1. ReaderInv /\ ReadInv
  BY DEF Init, ReaderInv, ReadInv, NoRead
<1>2. StreamInv
  BY DEF Init, StreamInv, Line, Chained, Reads, NoRead
<1>3. QueueInv
  BY DEF Init, QueueInv
<1> QED BY <1>1, <1>2, <1>3 DEF CalmInv

LEMMA CalmAlways == Spec => [](Calm => CalmInv)
<1> DEFINE Safe == Calm => CalmInv
<1>1. TypeInv /\ Safe /\ [Next]_vars => Safe'
  BY CalmStep
<1>2. Init => Safe
  BY CalmInit
<1> QED BY <1>1, <1>2, TypeAlways, PTL DEF Spec

\* While the line damages nothing and no timeout races an answer, the task is
\* given whole messages of the fan's, however many reads were cancelled.
THEOREM OnlyWholeMessages == Spec => []MessagesAreWhole
<1>1. TypeInv /\ (Calm => CalmInv) => MessagesAreWhole
  <2> SUFFICES ASSUME TypeInv, Calm => CalmInv PROVE MessagesAreWhole
    OBVIOUS
  <2>1. DOMAIN rxQueue = 1..Len(rxQueue)
    BY DEF TypeInv, TypeOK
  <2> QED BY <2>1 DEF MessagesAreWhole, Calm, CalmInv, QueueInv
<1> QED BY <1>1, CalmAlways, TypeAlways, PTL

-----------------------------------------------------------------------------
(* One chain of initialization messages *)

\* Where in each place there are initialization messages.  A message on its
\* way back is where its header is.
Inits(q) == {i \in 1..Len(q) : q[i][1] = "init"}
Headers(w) == {i \in 1..Len(w) : OfInit(w[i], "header")}
FirstBytes(r) == {i \in 1..Len(r) : OfInit(r[i], "header") /\ r[i].first}
Posted(q) == {i \in 1..Len(q) : q[i].msg[1] = "init"}
Buffered == reading.part = "rest" /\ rxTotalBytes = 4 /\ rxBuffer.msg[1] = "init"

At(here, p, k) == IF p = here THEN {k} ELSE {}

\* If there is one at all, it is the one at k in place p.
OnlyAt(p, k) ==
  /\ Inits(txQueue) \subseteq At("tx", p, k)
  /\ Inits(inbox) \subseteq At("inbox", p, k)
  /\ Headers(wire) \subseteq At("wire", p, k)
  /\ FirstBytes(ring) \subseteq At("ring", p, k)
  /\ Posted(rxQueue) \subseteq At("queue", p, k)
  /\ Buffered => p = "buffer"

\* While the task may yet send its message again, none waits to be sent, and
\* there is none anywhere when it does.
SentAlone ==
  pc \in {"read", "clear", "start", "wait", "cancel"} /\ sent[1] = "init" =>
    Inits(txQueue) = {} /\ (pc = "cancel" => OnlyAt("none", 0))

ChainInv == (\E p, k : OnlyAt(p, k)) /\ SentAlone

\* What a step makes of the only one: it may move it or lose it.
Goes(p) == \E q, j : OnlyAt(q, j)' /\ (p = "none" => q = "none")

\* The first m leave place x, where there were ones at A and then at B; if
\* there was one at 1 it goes to n in place y, where there were ones at C and
\* then at D.  So the only one is now at j in place q.
Leaves(x, p, k, m, A, B) ==
  A \subseteq At(x, p, k) /\ \A i \in B : i \in Nat \ {0} /\ i + m \in A
Enters(y, p, k, n, A, C, D) ==
  /\ C \subseteq At(y, p, k)
  /\ 1 \in A => D \subseteq C \cup {n}
  /\ 1 \notin A => D \subseteq C
NowAt(x, y, p, k, B, D, q, j) ==
  /\ B \subseteq At(x, q, j) /\ D \subseteq At(y, q, j)
  /\ \A z, E : z \notin {x, y} /\ E \subseteq At(z, p, k) => E \subseteq At(z, q, j)
  /\ \A z : z # x /\ p = z => q = z

LEMMA Moved ==
  ASSUME NEW x, NEW y, x # y, NEW p, NEW k, NEW m \in Nat \ {0}, NEW n,
         NEW A, NEW B, NEW C, NEW D,
         Leaves(x, p, k, m, A, B), Enters(y, p, k, n, A, C, D)
  PROVE  \E q, j : NowAt(x, y, p, k, B, D, q, j)
<1> USE DEF Leaves, Enters, NowAt
<1>1. CASE 1 \in A
  <2>1. p = x /\ k = 1
    BY <1>1 DEF At
  <2>2. B = {}
    <3> SUFFICES ASSUME NEW i \in B PROVE FALSE
      OBVIOUS
    <3>1. i \in Nat \ {0} /\ i + m = 1
      BY <2>1 DEF At
    <3> QED BY <3>1
  <2>3. D \subseteq At(y, y, n)
    BY <1>1, <2>1 DEF At
  <2>4. \A z, E : z \notin {x, y} /\ E \subseteq At(z, p, k) => E \subseteq At(z, y, n)
    BY <2>1 DEF At
  <2> QED BY <2>1, <2>2, <2>3, <2>4
<1>2. CASE 1 \notin A /\ p = x
  <2>1. B \subseteq At(x, p, k - m)
    <3> SUFFICES ASSUME NEW i \in B PROVE i = k - m
      BY <1>2 DEF At
    <3>1. i \in Nat \ {0} /\ i + m = k
      BY <1>2 DEF At
    <3> QED BY <3>1
  <2>2. D = {}
    BY <1>2 DEF At
  <2>3. \A z, E : z \notin {x, y} /\ E \subseteq At(z, p, k) => E \subseteq At(z, p, k - m)
    BY <1>2 DEF At
  <2> QED BY <2>1, <2>2, <2>3
<1>3. CASE 1 \notin A /\ p # x
  <2>1. A = {} /\ B = {} /\ D \subseteq At(y, p, k)
    BY <1>3 DEF At
  <2> QED BY <2>1
<1> QED BY <1>1, <1>2, <1>3

LEMMA InitsShift ==
  ASSUME NEW S, NEW q \in Seq(S), q # <<>>
  PROVE  /\ \A i \in Inits(Tail(q)) : i \in Nat \ {0} /\ i + 1 \in Inits(q)
         /\ 1 \in Inits(q) <=> Head(q)[1] = "init"
<1>1. /\ Len(q) \in Nat \ {0} /\ Len(Tail(q)) = Len(q) - 1 /\ Head(q) = q[1]
      /\ \A i \in 1..(Len(q) - 1) : Tail(q)[i] = q[i + 1]
  BY Shifted
<1>2. ASSUME NEW i \in Inits(Tail(q)) PROVE i \in Nat \ {0} /\ i + 1 \in Inits(q)
  <2>1. i \in 1..(Len(q) - 1) /\ Tail(q)[i][1] = "init"
    BY <1>1 DEF Inits
  <2>2. i \in Nat \ {0} /\ i + 1 \in 1..Len(q)
    BY <1>1, <2>1
  <2> QED BY <1>1, <2>1, <2>2 DEF Inits
<1>3. 1 \in Inits(q) <=> q[1][1] = "init"
  BY <1>1 DEF Inits
<1> QED BY <1>1, <1>2, <1>3

LEMMA PostedShift ==
  ASSUME NEW S, NEW q \in Seq(S), q # <<>>
  PROVE  /\ \A i \in Posted(Tail(q)) : i \in Nat \ {0} /\ i + 1 \in Posted(q)
         /\ 1 \in Posted(q) <=> Head(q).msg[1] = "init"
<1>1. /\ Len(q) \in Nat \ {0} /\ Len(Tail(q)) = Len(q) - 1 /\ Head(q) = q[1]
      /\ \A i \in 1..(Len(q) - 1) : Tail(q)[i] = q[i + 1]
  BY Shifted
<1>2. ASSUME NEW i \in Posted(Tail(q)) PROVE i \in Nat \ {0} /\ i + 1 \in Posted(q)
  <2>1. i \in 1..(Len(q) - 1) /\ Tail(q)[i].msg[1] = "init"
    BY <1>1 DEF Posted
  <2>2. i \in Nat \ {0} /\ i + 1 \in 1..Len(q)
    BY <1>1, <2>1
  <2> QED BY <1>1, <2>1, <2>2 DEF Posted
<1>3. 1 \in Posted(q) <=> q[1].msg[1] = "init"
  BY <1>1 DEF Posted
<1> QED BY <1>1, <1>2, <1>3

LEMMA HeadersShift ==
  ASSUME NEW S, NEW q \in Seq(S), q # <<>>
  PROVE  /\ \A i \in Headers(Tail(q)) : i \in Nat \ {0} /\ i + 1 \in Headers(q)
         /\ 1 \in Headers(q) <=> OfInit(Head(q), "header")
<1>1. /\ Len(q) \in Nat \ {0} /\ Len(Tail(q)) = Len(q) - 1 /\ Head(q) = q[1]
      /\ \A i \in 1..(Len(q) - 1) : Tail(q)[i] = q[i + 1]
  BY Shifted
<1>2. ASSUME NEW i \in Headers(Tail(q)) PROVE i \in Nat \ {0} /\ i + 1 \in Headers(q)
  <2>1. i \in 1..(Len(q) - 1) /\ OfInit(Tail(q)[i], "header")
    BY <1>1 DEF Headers
  <2>2. i \in Nat \ {0} /\ i + 1 \in 1..Len(q)
    BY <1>1, <2>1
  <2> QED BY <1>1, <2>1, <2>2 DEF Headers
<1>3. 1 \in Headers(q) <=> OfInit(q[1], "header")
  BY <1>1 DEF Headers
<1> QED BY <1>1, <1>2, <1>3

LEMMA FirstBytesLeft ==
  ASSUME NEW r \in Seq(Byte), NEW m \in Nat \ {0}, m <= Len(r), LeftOf(r, m)
  PROVE  \A i \in FirstBytes(ring') : i \in Nat \ {0} /\ i + m \in FirstBytes(r)
<1> SUFFICES ASSUME NEW i \in FirstBytes(ring')
             PROVE  i \in Nat \ {0} /\ i + m \in FirstBytes(r)
  OBVIOUS
<1>1. Len(r) \in Nat /\ Len(ring') = Len(r) - m
  BY DEF LeftOf
<1>2. i \in 1..(Len(r) - m) /\ OfInit(ring'[i], "header") /\ ring'[i].first
  BY <1>1 DEF FirstBytes
<1>3. i \in Nat \ {0} /\ i + m \in 1..Len(r)
  BY <1>1, <1>2
<1>4. ring'[i] = r[i + m]
  BY <1>2 DEF LeftOf
<1> QED BY <1>2, <1>3, <1>4 DEF FirstBytes

LEMMA InitsAppended ==
  ASSUME NEW S, NEW q \in Seq(S), NEW msg \in S
  PROVE  /\ Inits(Append(q, msg)) \subseteq Inits(q) \cup {Len(q) + 1}
         /\ msg[1] # "init" => Inits(Append(q, msg)) \subseteq Inits(q)
<1>1. /\ Len(q) \in Nat /\ Len(Append(q, msg)) = Len(q) + 1
      /\ \A i \in 1..Len(q) : Append(q, msg)[i] = q[i]
      /\ Append(q, msg)[Len(q) + 1] = msg
  BY Appended
<1>2. ASSUME NEW i \in Inits(Append(q, msg)), i # Len(q) + 1 PROVE i \in Inits(q)
  <2>1. i \in 1..(Len(q) + 1) /\ Append(q, msg)[i][1] = "init"
    BY <1>1 DEF Inits
  <2>2. i \in 1..Len(q)
    BY <1>1, <1>2, <2>1
  <2> QED BY <1>1, <2>1, <2>2 DEF Inits
<1>3. Len(q) + 1 \in Inits(Append(q, msg)) => msg[1] = "init"
  BY <1>1 DEF Inits
<1> QED BY <1>2, <1>3

LEMMA InitsEnqueued ==
  ASSUME NEW S, NEW q \in Seq(S), NEW msg \in S
  PROVE  /\ Inits(Enqueued(q, msg)) \subseteq Inits(q) \cup {Len(q) + 1}
         /\ msg[1] # "init" => Inits(Enqueued(q, msg)) \subseteq Inits(q)
BY InitsAppended DEF Enqueued

LEMMA HeadersSent ==
  ASSUME wire \in Seq(Segment), NEW msg \in RxMessages, Sends(msg)
  PROVE  /\ Headers(wire') \subseteq Headers(wire) \cup {Len(wire) + 2}
         /\ msg[1] # "init" => Headers(wire') \subseteq Headers(wire)
<1>1. PICK n \in Nat : n = Len(wire)
  OBVIOUS
<1>2. /\ Len(wire') = n + 3 /\ \A i \in 1..n : wire'[i] = wire[i]
      /\ wire'[n + 1].seg = "som" /\ wire'[n + 3].seg = "rest" /\ wire'[n + 2].msg = msg
  BY <1>1, SegmentsSent
<1>3. ASSUME NEW i \in Headers(wire')
      PROVE  (i = n + 2 /\ msg[1] = "init") \/ i \in Headers(wire)
  <2>1. i \in 1..(n + 3) /\ wire'[i].seg = "header" /\ wire'[i].msg[1] = "init"
    BY <1>2 DEF Headers, OfInit
  <2>2. i # n + 1 /\ i # n + 3
    BY <1>2, <2>1
  <2>3. i \in 1..n \/ i = n + 2
    BY <2>1, <2>2
  <2>4. i \in 1..n => i \in Headers(wire)
    BY <1>1, <1>2, <2>1 DEF Headers, OfInit
  <2> QED BY <1>2, <2>1, <2>3, <2>4
<1> QED BY <1>1, <1>3

LEMMA FirstBytesArrive ==
  ASSUME ring \in Seq(Byte), NEW s \in Segment, Arrives(s)
  PROVE  /\ FirstBytes(ring') \subseteq FirstBytes(ring) \cup {Len(ring) + 1}
         /\ ~OfInit(s, "header") => FirstBytes(ring') \subseteq FirstBytes(ring)
<1>1. PICK n \in Nat : n = Len(ring)
  OBVIOUS
<1>2. PICK z \in Nat \ {0} : z = Size(s)
  BY SizeOf
<1>3. Arrived(s, n, z)
  BY <1>1, <1>2, BytesArrive
<1>4. ASSUME NEW i \in FirstBytes(ring')
      PROVE  (i = n + 1 /\ OfInit(s, "header")) \/ i \in FirstBytes(ring)
  <2>1. i \in 1..(n + z) /\ OfInit(ring'[i], "header") /\ ring'[i].first
    BY <1>3 DEF Arrived, FirstBytes
  <2>2. CASE i \in 1..n
    <3>1. ring'[i] = ring[i]
      BY <1>3, <2>2 DEF Arrived
    <3> QED BY <1>1, <2>1, <2>2, <3>1 DEF FirstBytes
  <2>3. CASE i \notin 1..n
    <3>1. PICK c \in 1..z : i = n + c
      <4>1. i - n \in 1..z /\ i = n + (i - n)
        BY <2>1, <2>3
      <4> QED BY <4>1
    <3>2. ring'[n + c].seg = s.seg /\ ring'[n + c].msg = s.msg /\ (ring'[n + c].first <=> c = 1)
      BY <1>3 DEF Arrived
    <3>3. c = 1
      BY <2>1, <3>1, <3>2
    <3> QED BY <2>1, <3>1, <3>2, <3>3 DEF OfInit
  <2> QED BY <2>2, <2>3
<1> QED BY <1>1, <1>4

LEMMA Stays ==
  ASSUME NEW p, NEW k, OnlyAt(p, k), UNCHANGED <<txQueue, inbox, wire, rxQueue>>,
         FirstBytes(ring') \subseteq FirstBytes(ring), Buffered' => Buffered
  PROVE  OnlyAt(p, k)'
BY DEF OnlyAt

LEMMA SendMoves ==
  ASSUME TypeInv, NEW p, NEW k, OnlyAt(p, k), SendPending
  PROVE  Goes(p)
<1>1. UNCHANGED <<wire, ring, rxQueue, reading, rxTotalBytes, rxBuffer>>
  BY DEF SendPending, isrVars
<1>2. Buffered' <=> Buffered
  BY <1>1 DEF Buffered
<1>3. CASE txQueue = <<>>
  <2>1. UNCHANGED <<txQueue, inbox>>
    BY <1>3 DEF SendPending
  <2> QED BY <1>1, <1>2, <2>1, Stays DEF Goes
<1>4. CASE txQueue # <<>>
  <2>1. txQueue' = Tail(txQueue) /\ inbox' = Append(inbox, Head(txQueue))
    BY <1>4 DEF SendPending
  <2>2. txQueue \in Seq(TxMessages) /\ inbox \in Seq(TxMessages) /\ Head(txQueue) \in TxMessages
    BY <1>4 DEF TypeInv, TypeOK
  <2>3. /\ \A i \in Inits(txQueue') : i \in Nat \ {0} /\ i + 1 \in Inits(txQueue)
        /\ 1 \in Inits(txQueue) <=> Head(txQueue)[1] = "init"
    BY <1>4, <2>1, <2>2, InitsShift
  <2>4. /\ 1 \in Inits(txQueue) => Inits(inbox') \subseteq Inits(inbox) \cup {Len(inbox) + 1}
        /\ 1 \notin Inits(txQueue) => Inits(inbox') \subseteq Inits(inbox)
    BY <2>1, <2>2, <2>3, InitsAppended
  <2>5. PICK q, j : NowAt("tx", "inbox", p, k, Inits(txQueue'), Inits(inbox'), q, j)
    <3>1. Leaves("tx", p, k, 1, Inits(txQueue), Inits(txQueue'))
      BY <2>3 DEF Leaves, OnlyAt
    <3>2. Enters("inbox", p, k, Len(inbox) + 1, Inits(txQueue), Inits(inbox), Inits(inbox'))
      BY <2>4 DEF Enters, OnlyAt
    <3> QED BY <3>1, <3>2, Moved
  <2>6. OnlyAt(q, j)'
    BY <1>1, <1>2, <2>5 DEF OnlyAt, NowAt
  <2> QED BY <2>5, <2>6 DEF Goes, NowAt
<1> QED BY <1>3, <1>4

LEMMA AnswerMoves ==
  ASSUME TypeInv, NEW p, NEW k, OnlyAt(p, k), FanAnswers
  PROVE  Goes(p)
<1> DEFINE msg == Head(inbox)
<1>1. /\ inbox # <<>> /\ Sends(Response(msg)) /\ inbox' = Tail(inbox)
      /\ UNCHANGED <<txQueue, ring, rxQueue, reading, rxTotalBytes, rxBuffer>>
  BY DEF FanAnswers, Sends, isrVars
<1>2. Buffered' <=> Buffered
  BY <1>1 DEF Buffered
<1>3. inbox \in Seq(TxMessages) /\ msg \in TxMessages /\ wire \in Seq(Segment)
  BY <1>1 DEF TypeInv, TypeOK, Segment
<1>4. /\ \A i \in Inits(inbox') : i \in Nat \ {0} /\ i + 1 \in Inits(inbox)
      /\ 1 \in Inits(inbox) <=> msg[1] = "init"
  BY <1>1, <1>3, InitsShift
<1>5. Response(msg) \in RxMessages /\ (Response(msg)[1] = "init" <=> msg[1] = "init")
  BY <1>3, ResponseTyped DEF Response
<1>6. /\ 1 \in Inits(inbox) => Headers(wire') \subseteq Headers(wire) \cup {Len(wire) + 2}
      /\ 1 \notin Inits(inbox) => Headers(wire') \subseteq Headers(wire)
  BY <1>1, <1>3, <1>4, <1>5, HeadersSent
<1>7. PICK q, j : NowAt("inbox", "wire", p, k, Inits(inbox'), Headers(wire'), q, j)
  <2>1. Leaves("inbox", p, k, 1, Inits(inbox), Inits(inbox'))
    BY <1>4 DEF Leaves, OnlyAt
  <2>2. Enters("wire", p, k, Len(wire) + 2, Inits(inbox), Headers(wire), Headers(wire'))
    BY <1>6 DEF Enters, OnlyAt
  <2> QED BY <2>1, <2>2, Moved
<1>8. OnlyAt(q, j)'
  BY <1>1, <1>2, <1>7 DEF OnlyAt, NowAt
<1> QED BY <1>7, <1>8 DEF Goes, NowAt

LEMMA LossMoves ==
  ASSUME TypeInv, NEW p, NEW k, OnlyAt(p, k), FanLosesRequest
  PROVE  Goes(p)
<1>1. /\ inbox # <<>> /\ inbox' = Tail(inbox)
      /\ UNCHANGED <<txQueue, wire, ring, rxQueue, reading, rxTotalBytes, rxBuffer>>
  BY DEF FanLosesRequest, isrVars
<1>2. Buffered' <=> Buffered
  BY <1>1 DEF Buffered
<1>3. inbox \in Seq(TxMessages)
  BY DEF TypeInv, TypeOK
<1>4. \A i \in Inits(inbox') : i \in Nat \ {0} /\ i + 1 \in Inits(inbox)
  BY <1>1, <1>3, InitsShift
<1>5. PICK q, j : NowAt("inbox", "none", p, k, Inits(inbox'), {}, q, j)
  <2>1. Leaves("inbox", p, k, 1, Inits(inbox), Inits(inbox'))
    BY <1>4 DEF Leaves, OnlyAt
  <2>2. Enters("none", p, k, 0, Inits(inbox), {}, {})
    BY DEF Enters, OnlyAt
  <2> QED BY <2>1, <2>2, Moved
<1>6. OnlyAt(q, j)'
  BY <1>1, <1>2, <1>5 DEF OnlyAt, NowAt
<1> QED BY <1>5, <1>6 DEF Goes, NowAt

LEMMA RemoteMoves ==
  ASSUME TypeInv, NEW p, NEW k, OnlyAt(p, k), RemoteControl
  PROVE  Goes(p)
<1>1. /\ Sends(<<"remote", 0>>)
      /\ UNCHANGED <<txQueue, inbox, ring, rxQueue, reading, rxTotalBytes, rxBuffer>>
  BY DEF RemoteControl, Sends, isrVars
<1>2. Buffered' <=> Buffered
  BY <1>1 DEF Buffered
<1>3. wire \in Seq(Segment)
  BY DEF TypeInv, TypeOK, Segment
<1>4. Headers(wire') \subseteq Headers(wire)
  BY <1>1, <1>3, Messages, HeadersSent
<1>5. OnlyAt(p, k)'
  BY <1>1, <1>2, <1>4 DEF OnlyAt
<1> QED BY <1>5 DEF Goes

LEMMA LineMoves ==
  ASSUME TypeInv, NEW p, NEW k, OnlyAt(p, k), Arrive
  PROVE  Goes(p)
<1> DEFINE s == Head(wire)
<1>1. /\ wire # <<>> /\ Arrives(s) /\ wire' = Tail(wire)
      /\ UNCHANGED <<txQueue, inbox, rxQueue, reading, rxTotalBytes, rxBuffer>>
  BY DEF Arrive, Arrives, isrVars
<1>2. Buffered' <=> Buffered
  BY <1>1 DEF Buffered
<1>3. ring \in Seq(Byte) /\ wire \in Seq(Segment) /\ s \in Segment
  <2>1. ring \in Seq(Byte) /\ wire \in Seq(Segment)
    BY DEF TypeInv, TypeOK, Byte, Segment
  <2> QED BY <1>1, <2>1, Shifted
<1>4. /\ \A i \in Headers(wire') : i \in Nat \ {0} /\ i + 1 \in Headers(wire)
      /\ 1 \in Headers(wire) <=> OfInit(s, "header")
  BY <1>1, <1>3, HeadersShift
<1>5. /\ 1 \in Headers(wire) => FirstBytes(ring') \subseteq FirstBytes(ring) \cup {Len(ring) + 1}
      /\ 1 \notin Headers(wire) => FirstBytes(ring') \subseteq FirstBytes(ring)
  BY <1>1, <1>3, <1>4, FirstBytesArrive
<1>6. PICK q, j : NowAt("wire", "ring", p, k, Headers(wire'), FirstBytes(ring'), q, j)
  <2>1. Leaves("wire", p, k, 1, Headers(wire), Headers(wire'))
    BY <1>4 DEF Leaves, OnlyAt
  <2>2. Enters("ring", p, k, Len(ring) + 1, Headers(wire), FirstBytes(ring), FirstBytes(ring'))
    BY <1>5 DEF Enters, OnlyAt
  <2> QED BY <2>1, <2>2, Moved
<1>7. OnlyAt(q, j)'
  BY <1>1, <1>2, <1>6 DEF OnlyAt, NowAt
<1> QED BY <1>6, <1>7 DEF Goes, NowAt

LEMMA ProcessMoves ==
  ASSUME TypeInv, NEW p, NEW k, OnlyAt(p, k), ProcessIncomingMessage
  PROVE  Goes(p)
<1> DEFINE msg == Head(rxQueue).msg
<1>1. /\ rxQueue # <<>> /\ txQueue' = Answer(msg) /\ rxQueue' = Tail(rxQueue)
      /\ UNCHANGED <<inbox, wire, ring, reading, rxTotalBytes, rxBuffer>>
  BY DEF ProcessIncomingMessage, isrVars, lineVars
<1>2. Buffered' <=> Buffered
  BY <1>1 DEF Buffered
<1>3. txQueue \in Seq(TxMessages) /\ rxQueue \in Seq(Received) /\ msg \in RxMessages \cup {None}
  <2>1. txQueue \in Seq(TxMessages) /\ rxQueue \in Seq(Received)
    BY DEF TypeInv, TypeOK, Received
  <2>2. Head(rxQueue) \in Received
    BY <1>1, <2>1, Shifted
  <2> QED BY <2>1, <2>2 DEF Received
<1>4. /\ \A i \in Posted(rxQueue') : i \in Nat \ {0} /\ i + 1 \in Posted(rxQueue)
      /\ 1 \in Posted(rxQueue) <=> msg[1] = "init"
  BY <1>1, <1>3, PostedShift
<1>5. /\ 1 \in Posted(rxQueue) => Inits(txQueue') \subseteq Inits(txQueue) \cup {Len(txQueue) + 1}
      /\ 1 \notin Posted(rxQueue) => Inits(txQueue') \subseteq Inits(txQueue)
  <2>1. CASE msg[1] = "init" /\ msg[2] < InitStages
    <3>1. txQueue' = Enqueued(txQueue, InitMessage(msg[2] + 1))
      BY <1>1, <2>1 DEF Answer
    <3>2. InitMessage(msg[2] + 1) \in TxMessages
      <4>1. PICK n \in 1..InitStages : msg = <<"init", n>>
        BY <1>3, <2>1 DEF RxMessages, InitMessage, None
      <4>2. n + 1 \in 1..InitStages
        BY <2>1, <4>1, UARTAssumption
      <4> QED BY <4>1, <4>2, Messages
    <3> QED BY <1>3, <1>4, <2>1, <3>1, <3>2, InitsEnqueued
  <2>2. CASE msg[1] = "remote"
    <3>1. txQueue' = Enqueued(txQueue, <<"command", 0>>)
      BY <1>1, <2>2 DEF Answer
    <3> QED BY <1>3, <1>4, <2>2, <3>1, Messages, InitsEnqueued
  <2>3. CASE ~(msg[1] = "init" /\ msg[2] < InitStages) /\ msg[1] # "remote"
    <3>1. txQueue' = txQueue
      BY <1>1, <2>3 DEF Answer
    <3> QED BY <3>1
  <2> QED BY <2>1, <2>2, <2>3
<1>6. PICK q, j : NowAt("queue", "tx", p, k, Posted(rxQueue'), Inits(txQueue'), q, j)
  <2>1. Leaves("queue", p, k, 1, Posted(rxQueue), Posted(rxQueue'))
    BY <1>4 DEF Leaves, OnlyAt
  <2>2. Enters("tx", p, k, Len(txQueue) + 1, Posted(rxQueue), Inits(txQueue), Inits(txQueue'))
    BY <1>5 DEF Enters, OnlyAt
  <2> QED BY <2>1, <2>2, Moved
<1>7. OnlyAt(q, j)'
  BY <1>1, <1>2, <1>6 DEF OnlyAt, NowAt
<1> QED BY <1>6, <1>7 DEF Goes, NowAt

LEMMA CommandMoves ==
  ASSUME TypeInv, NEW p, NEW k, OnlyAt(p, k), SendCommand
  PROVE  Goes(p) /\ Inits(txQueue') \subseteq Inits(txQueue)
<1>1. /\ txQueue' = Enqueued(txQueue, <<"command", 0>>)
      /\ UNCHANGED <<inbox, wire, ring, rxQueue, reading, rxTotalBytes, rxBuffer>>
  BY DEF SendCommand, isrVars, lineVars
<1>2. Buffered' <=> Buffered
  BY <1>1 DEF Buffered
<1>3. txQueue \in Seq(TxMessages)
  BY DEF TypeInv, TypeOK
<1>4. Inits(txQueue') \subseteq Inits(txQueue)
  BY <1>1, <1>3, Messages, InitsEnqueued
<1>5. OnlyAt(p, k)'
  BY <1>1, <1>2, <1>4 DEF OnlyAt
<1> QED BY <1>4, <1>5 DEF Goes

LEMMA ReceiveMoves ==
  ASSUME TypeInv, Calm, CalmInv, NEW p, NEW k, OnlyAt(p, k), ReceiveInterrupt, Calm'
  PROVE  Goes(p)
<1> DEFINE s == ring[1]
           m == reading.count
<1>1. /\ rxQueue = <<>> /\ UNCHANGED <<txQueue, inbox, wire>>
      /\ ring \in Seq(Byte) /\ ring # <<>> /\ s.first /\ s.seg = reading.part /\ s.seg \in Parts
      /\ m \in Nat \ {0} /\ m <= Len(ring) /\ LeftOf(ring, m) /\ Took(s)
  BY ReceiveFacts
<1>2. Leaves("ring", p, k, m, FirstBytes(ring), FirstBytes(ring'))
  BY <1>1, FirstBytesLeft DEF Leaves, OnlyAt
<1>3. ASSUME Posted(rxQueue') = {}, ~Buffered' PROVE Goes(p)
  <2>1. Enters("none", p, k, 0, FirstBytes(ring), {}, {})
    BY DEF Enters
  <2>2. PICK q, j : NowAt("ring", "none", p, k, FirstBytes(ring'), {}, q, j)
    BY <1>1, <1>2, <2>1, Moved
  <2>3. OnlyAt(q, j)'
    BY <1>1, <1>3, <2>2 DEF OnlyAt, NowAt
  <2> QED BY <2>2, <2>3 DEF Goes, NowAt
<1>4. CASE s.seg = "som"
  <2>1. reading' = [part |-> "header", count |-> 3] /\ rxQueue' = <<>>
    BY <1>1, <1>4 DEF Took
  <2>2. ~Buffered' /\ Posted(rxQueue') = {}
    BY <2>1 DEF Buffered, Posted
  <2> QED BY <1>3, <2>2
<1>5. CASE s.seg = "header"
  <2>1. rxBuffer'.msg = s.msg /\ rxQueue' = <<>>
    BY <1>1, <1>5 DEF Took
  <2>2. Buffered' => 1 \in FirstBytes(ring)
    <3>1. 1 \in 1..Len(ring)
      BY <1>1
    <3> QED BY <1>1, <1>5, <2>1, <3>1 DEF Buffered, FirstBytes, OfInit
  <2>3. Posted(rxQueue') = {}
    BY <2>1 DEF Posted
  <2>4. CASE ~Buffered'
    BY <1>3, <2>3, <2>4
  <2>5. CASE Buffered'
    <3>1. Enters("buffer", p, k, 0, FirstBytes(ring), {}, {0})
      BY <2>2, <2>5 DEF Enters
    <3>2. PICK q, j : NowAt("ring", "buffer", p, k, FirstBytes(ring'), {0}, q, j)
      BY <1>1, <1>2, <3>1, Moved
    <3>3. q = "buffer"
      BY <3>2 DEF NowAt, At
    <3>4. OnlyAt(q, j)'
      BY <1>1, <2>3, <3>2, <3>3 DEF OnlyAt, NowAt
    <3> QED BY <3>2, <3>4 DEF Goes, NowAt
  <2> QED BY <2>4, <2>5
<1>6. CASE s.seg = "rest"
  <2>1. /\ rxTotalBytes = 4 /\ reading' = NoRead /\ rxBuffer'.msg = rxBuffer.msg
        /\ rxQueue' = <<[msg |-> rxBuffer'.msg, crc |-> rxBuffer'.crc]>>
    BY <1>1, <1>6 DEF Took
  <2>2. ~Buffered'
    BY <2>1 DEF Buffered, NoRead
  <2>3. Posted(rxQueue') \subseteq {1} /\ (1 \in Posted(rxQueue') => Buffered)
    <3>1. Len(rxQueue') = 1 /\ rxQueue'[1].msg = rxBuffer.msg
      BY <2>1
    <3>2. \A i \in Posted(rxQueue') : i = 1 /\ rxQueue'[1].msg[1] = "init"
      BY <3>1 DEF Posted
    <3> QED BY <1>1, <1>6, <2>1, <3>1, <3>2 DEF Buffered
  <2>4. CASE ~Buffered
    BY <1>3, <2>2, <2>3, <2>4
  <2>5. CASE Buffered
    <3>1. p = "buffer"
      BY <2>5 DEF OnlyAt
    <3>2. FirstBytes(ring') = {}
      BY <1>2, <3>1 DEF Leaves, At
    <3>3. OnlyAt("queue", 1)'
      BY <1>1, <2>2, <2>3, <3>1, <3>2 DEF OnlyAt, At
    <3> QED BY <3>1, <3>3 DEF Goes
  <2> QED BY <2>4, <2>5
<1> QED BY <1>1, <1>4, <1>5, <1>6 DEF Parts

\* Steps of the task that move no message.
LEMMA TaskMoves ==
  ASSUME TypeInv, CalmInv, NEW p, NEW k, OnlyAt(p, k),
         \/ ResetCount \/ ClearBuffer \/ StartRead \/ Notified \/ Timeout
         \/ HandleStatus \/ ProcessingDone \/ UNCHANGED vars
  PROVE  Goes(p)
<1>1. UNCHANGED <<txQueue, inbox, wire, rxQueue>>
  BY DEF ResetCount, ClearBuffer, StartRead, Notified, Timeout, HandleStatus, ProcessingDone,
     vars, lineVars
<1>2. FirstBytes(ring') \subseteq FirstBytes(ring)
  <2>1. ring' = ring \/ ring' = <<>>
    BY DEF ResetCount, ClearBuffer, StartRead, Notified, Timeout, HandleStatus,
       ProcessingDone, vars, lineVars
  <2>2. FirstBytes(<<>>) = {}
    BY DEF FirstBytes
  <2> QED BY <2>1, <2>2
<1>3. Buffered' => Buffered
  <2>1. CASE ResetCount
    BY <2>1 DEF ResetCount, Buffered
  <2>clear. CASE ClearBuffer
    <3>1. pc = "clear" /\ UNCHANGED <<reading, rxTotalBytes>>
      BY <2>clear DEF ClearBuffer
    <3>2. reading \in {NoRead, SomRead}
      BY <3>1 DEF CalmInv, ReaderInv
    <3> QED BY <3>1, <3>2 DEF Buffered, NoRead, SomRead
  <2>2. CASE StartRead
    <3>1. /\ pc = "start"
          /\ reading' = IF reading = NoRead THEN [part |-> "som", count |-> 1] ELSE reading
      BY <2>2 DEF StartRead
    <3>2. reading \in {NoRead, SomRead}
      BY <3>1 DEF CalmInv, ReaderInv
    <3> QED BY <3>1, <3>2 DEF Buffered, NoRead, SomRead
  <2>3. CASE Notified \/ Timeout \/ HandleStatus \/ ProcessingDone \/ UNCHANGED vars
    <3>1. UNCHANGED <<reading, rxTotalBytes, rxBuffer>>
      BY <2>3 DEF Notified, Timeout, HandleStatus, ProcessingDone, vars, isrVars
    <3> QED BY <3>1 DEF Buffered
  <2> QED BY <2>1, <2>clear, <2>2, <2>3
<1>4. OnlyAt(p, k)'
  BY <1>1, <1>2, <1>3, Stays
<1> QED BY <1>4 DEF Goes

LEMMA OnlyOneGoes ==
  ASSUME TypeInv, Calm, CalmInv, [Next]_vars, Calm', ~CancelAndResend, NEW p, NEW k, OnlyAt(p, k)
  PROVE  Goes(p)
<1>1. ~ArriveDamaged
  <2> SUFFICES ASSUME ArriveDamaged PROVE FALSE
    OBVIOUS
  <2>1. Spend("corrupted", MaxCorrupted)
    BY DEF ArriveDamaged
  <2>2. budget'["corrupted"] = budget["corrupted"] + 1 /\ budget["corrupted"] \in Nat
    BY <2>1, SpendTyped DEF TypeInv, BudgetTyped
  <2> QED BY <2>2 DEF Calm
<1>2. (\/ ResetCount \/ ClearBuffer \/ StartRead \/ Notified \/ Timeout
       \/ HandleStatus \/ ProcessingDone \/ UNCHANGED vars) => Goes(p)
  BY TaskMoves
<1>3. SendPending => Goes(p)
  BY SendMoves
<1>4. ProcessIncomingMessage => Goes(p)
  BY ProcessMoves
<1>5. ReceiveInterrupt => Goes(p)
  BY ReceiveMoves
<1>6. FanAnswers => Goes(p)
  BY AnswerMoves
<1>7. FanLosesRequest => Goes(p)
  BY LossMoves
<1>8. RemoteControl => Goes(p)
  BY RemoteMoves
<1>9. SendCommand => Goes(p)
  BY CommandMoves
<1>10. Arrive => Goes(p)
  BY LineMoves
<1> QED
  BY <1>1, <1>2, <1>3, <1>4, <1>5, <1>6, <1>7, <1>8, <1>9, <1>10 DEF Next, TaskStep

\* 10 s pass without an answer only when nothing is on its way.
LEMMA NothingAtTimeout ==
  ASSUME TypeInv, Calm, CalmInv, Timeout, Calm', Inits(txQueue) = {}
  PROVE  OnlyAt("none", 0)'
<1>1. /\ pc = "wait" /\ notification = "none"
      /\ UNCHANGED <<txQueue, inbox, wire, ring, rxQueue, reading>>
  BY DEF Timeout, isrVars, lineVars
<1>2. Quiet
  <2> SUFFICES ASSUME Spend("races", MaxRaces) PROVE FALSE
    BY DEF Timeout
  <2>1. budget'["races"] = budget["races"] + 1 /\ budget["races"] \in Nat
    BY SpendTyped DEF TypeInv, BudgetTyped
  <2> QED BY <2>1 DEF Calm
<1>3. reading # NoRead /\ rxQueue = <<>>
  BY <1>1 DEF CalmInv, ReaderInv
<1>4. reading = SomRead /\ ring = <<>> /\ inbox = <<>> /\ wire = <<>>
  BY <1>2, <1>3, QuietRead DEF Quiet
<1>5. Inits(<<>>) = {} /\ Headers(<<>>) = {} /\ FirstBytes(<<>>) = {} /\ Posted(<<>>) = {}
  BY DEF Inits, Headers, FirstBytes, Posted
<1>6. ~Buffered'
  BY <1>1, <1>4 DEF Buffered, SomRead
<1> QED BY <1>1, <1>3, <1>4, <1>5, <1>6 DEF OnlyAt

LEMMA ChainStep ==
  ASSUME TypeInv, Calm, CalmInv, ChainInv, [Next]_vars, Calm'
  PROVE  ChainInv'
<1>1. PICK p, k : OnlyAt(p, k)
  BY DEF ChainInv
<1>2. ASSUME OnlyAt("none", 0), ~CancelAndResend PROVE OnlyAt("none", 0)'
  <2>1. Goes("none")
    BY <1>2, OnlyOneGoes
  <2>2. PICK j : OnlyAt("none", j)'
    BY <2>1 DEF Goes
  <2> QED BY <2>2 DEF OnlyAt, At
<1>3. CASE CancelAndResend
  <2>1. /\ UNCHANGED <<ring, rxQueue, wire, inbox, sent>> /\ reading' = SomRead
        /\ pc' = "status" /\ pc = "cancel" /\ txQueue' = Resent
    BY <1>3, CancelCalm
  <2>2. ~Buffered'
    BY <2>1 DEF Buffered, SomRead
  <2>3. txQueue \in Seq(TxMessages) /\ sent \in TxMessages \cup {None}
    BY DEF TypeInv, TypeOK
  <2>4. /\ Inits(txQueue') \subseteq Inits(txQueue) \cup {Len(txQueue) + 1}
        /\ sent[1] # "init" => Inits(txQueue') \subseteq Inits(txQueue)
    <3>1. CASE sent = None
      BY <2>1, <3>1 DEF Resent
    <3>2. CASE sent # None
      <4>1. txQueue' = Enqueued(txQueue, sent) /\ sent \in TxMessages
        BY <2>1, <2>3, <3>2 DEF Resent
      <4> QED BY <2>3, <4>1, InitsEnqueued
    <3> QED BY <3>1, <3>2
  <2>5. \E q, j : OnlyAt(q, j)'
    <3>1. CASE sent[1] # "init"
      <4>1. OnlyAt(p, k)'
        BY <1>1, <2>1, <2>2, <2>4, <3>1 DEF OnlyAt
      <4> QED BY <4>1
    <3>2. CASE sent[1] = "init"
      <4>1. OnlyAt("none", 0)
        BY <2>1, <3>2 DEF ChainInv, SentAlone
      <4>2. PICK j : j = Len(txQueue) + 1
        OBVIOUS
      <4>3. OnlyAt("tx", j)'
        BY <2>1, <2>2, <2>4, <4>1, <4>2 DEF OnlyAt, At
      <4> QED BY <4>3
    <3> QED BY <3>1, <3>2
  <2>6. SentAlone'
    BY <2>1 DEF SentAlone
  <2> QED BY <2>5, <2>6 DEF ChainInv
<1>4. CASE ~CancelAndResend
  <2>1. \E q, j : OnlyAt(q, j)'
    BY <1>1, <1>4, OnlyOneGoes DEF Goes
  <2>2. SentAlone'
    <3> SUFFICES ASSUME pc' \in {"read", "clear", "start", "wait", "cancel"}, sent'[1] = "init"
                 PROVE  Inits(txQueue') = {} /\ (pc' = "cancel" => OnlyAt("none", 0)')
      BY DEF SentAlone
    <3>1. CASE SendPending
      <4>1. pc' = "read"
        BY <3>1 DEF SendPending
      <4>2. /\ txQueue # <<>> /\ sent' = Head(txQueue) /\ txQueue' = Tail(txQueue)
        BY <3>1 DEF SendPending, None
      <4>3. txQueue \in Seq(TxMessages)
        BY DEF TypeInv, TypeOK
      <4>4. /\ 1 \in Inits(txQueue)
            /\ \A i \in Inits(txQueue') : i \in Nat \ {0} /\ i + 1 \in Inits(txQueue)
        BY <4>2, <4>3, InitsShift
      <4>5. p = "tx" /\ k = 1 /\ Inits(txQueue) \subseteq {1}
        BY <1>1, <4>4 DEF OnlyAt, At
      <4>6. Inits(txQueue') = {}
        <5> SUFFICES ASSUME NEW i \in Inits(txQueue') PROVE FALSE
          OBVIOUS
        <5>1. i \in Nat \ {0} /\ i + 1 = 1
          BY <4>4, <4>5
        <5> QED BY <5>1
      <4> QED BY <4>1, <4>6
    <3>2. CASE Timeout
      <4>1. pc = "wait" /\ UNCHANGED <<sent, txQueue>>
        BY <3>2 DEF Timeout
      <4>2. Inits(txQueue) = {}
        BY <4>1 DEF ChainInv, SentAlone
      <4> QED BY <3>2, <4>1, <4>2, NothingAtTimeout
    <3>3. CASE ~SendPending /\ ~Timeout
      <4>1. /\ sent' = sent /\ pc \in {"read", "clear", "start", "wait", "cancel"}
            /\ pc' = "cancel" => pc = "cancel"
            /\ txQueue' = txQueue \/ SendCommand
        BY <1>4, <3>3 DEF Next, TaskStep, ResetCount, ClearBuffer, StartRead, Notified,
           HandleStatus, ProcessIncomingMessage, ProcessingDone, ReceiveInterrupt, FanAnswers,
           FanLosesRequest, RemoteControl, SendCommand, Arrive, ArriveDamaged, vars, taskVars
      <4>2. Inits(txQueue) = {} /\ (pc = "cancel" => OnlyAt("none", 0))
        BY <4>1 DEF ChainInv, SentAlone
      <4>3. Inits(txQueue') = {}
        <5>1. SendCommand => Inits(txQueue') \subseteq Inits(txQueue)
          BY <1>1, CommandMoves
        <5> QED BY <4>1, <4>2, <5>1
      <4> QED BY <1>2, <1>4, <4>1, <4>2, <4>3
    <3> QED BY <3>1, <3>2, <3>3
  <2> QED BY <2>1, <2>2 DEF ChainInv
<1> QED BY <1>3, <1>4

LEMMA ChainInit == Init => ChainInv
<1> SUFFICES ASSUME Init PROVE ChainInv
  OBVIOUS
<1>1. /\ txQueue = <<InitMessage(1)>> /\ inbox = <<>> /\ wire = <<>> /\ ring = <<>>
      /\ rxQueue = <<>> /\ reading = NoRead /\ pc = "send"
  BY DEF Init
<1>2. Inits(<<>>) = {} /\ Headers(<<>>) = {} /\ FirstBytes(<<>>) = {} /\ Posted(<<>>) = {}
  BY DEF Inits, Headers, FirstBytes, Posted
<1>3. Inits(<<InitMessage(1)>>) \subseteq {1}
  BY DEF Inits
<1>4. OnlyAt("tx", 1)
  BY <1>1, <1>2, <1>3 DEF OnlyAt, At, Buffered, NoRead
<1> QED BY <1>1, <1>4 DEF ChainInv, SentAlone

LEMMA ChainAlways == Spec => [](Calm => CalmInv /\ ChainInv)
<1> DEFINE Safe == Calm => CalmInv /\ ChainInv
<1>1. TypeInv /\ Safe /\ [Next]_vars => Safe'
  <2> SUFFICES ASSUME TypeInv, Safe, [Next]_vars, Calm' PROVE CalmInv' /\ ChainInv'
    OBVIOUS
  <2>1. Calm
    BY WasCalm
  <2> QED BY <2>1, CalmStep, ChainStep
<1>2. Init => Safe
  BY CalmInit, ChainInit
<1> QED BY <1>1, <1>2, TypeAlways, PTL DEF Spec

LEMMA AtMostOne ==
  ASSUME NEW S, NEW here, NEW p, NEW k, S \subseteq At(here, p, k)
  PROVE  Cardinality(S) \in {0, 1} /\ (p # here => Cardinality(S) = 0)
<1>1. S = {} \/ S = {k}
  BY DEF At
<1>2. p # here => S = {}
  BY DEF At
<1>3. Cardinality({}) = 0 /\ Cardinality({k}) = 1
  BY FS_EmptySet, FS_Singleton
<1> QED BY <1>1, <1>2, <1>3

\* While the line damages nothing and no timeout races an answer, at most one
\* initialization message or response is anywhere in the system, though
\* requests are lost and sent again.
THEOREM AlwaysOneInitChain == Spec => []OneInitChain
<1>1. TypeInv /\ (Calm => CalmInv /\ ChainInv) => OneInitChain
  <2> SUFFICES ASSUME TypeInv, Calm, ChainInv
               PROVE  InitMessages(txQueue) + InitMessages(inbox) + InitHeaders + InitReceived <= 1
    BY DEF OneInitChain, Calm
  <2>1. PICK p, k : OnlyAt(p, k)
    BY DEF ChainInv
  <2>2. /\ DOMAIN txQueue = 1..Len(txQueue) /\ DOMAIN inbox = 1..Len(inbox)
        /\ DOMAIN wire = 1..Len(wire) /\ DOMAIN ring = 1..Len(ring)
        /\ DOMAIN rxQueue = 1..Len(rxQueue)
    BY DEF TypeInv, TypeOK
  <2>3. /\ Cardinality(Inits(txQueue)) \in {0, 1}
        /\ p # "tx" => Cardinality(Inits(txQueue)) = 0
    BY <2>1, AtMostOne DEF OnlyAt
  <2>4. /\ Cardinality(Inits(inbox)) \in {0, 1}
        /\ p # "inbox" => Cardinality(Inits(inbox)) = 0
    BY <2>1, AtMostOne DEF OnlyAt
  <2>5. /\ Cardinality(Headers(wire)) \in {0, 1}
        /\ p # "wire" => Cardinality(Headers(wire)) = 0
    BY <2>1, AtMostOne DEF OnlyAt
  <2>6. /\ Cardinality(FirstBytes(ring)) \in {0, 1}
        /\ p # "ring" => Cardinality(FirstBytes(ring)) = 0
    BY <2>1, AtMostOne DEF OnlyAt
  <2>7. /\ Cardinality(Posted(rxQueue)) \in {0, 1}
        /\ p # "queue" => Cardinality(Posted(rxQueue)) = 0
    BY <2>1, AtMostOne DEF OnlyAt
  <2>8. Buffered => p = "buffer"
    BY <2>1 DEF OnlyAt
  <2>9. Cardinality(Inits(txQueue)) + Cardinality(Inits(inbox))
          + (Cardinality(Headers(wire)) + Cardinality(FirstBytes(ring)))
          + (Cardinality(Posted(rxQueue)) + (IF Buffered THEN 1 ELSE 0)) <= 1
    BY <2>3, <2>4, <2>5, <2>6, <2>7, <2>8
  <2>10. /\ InitMessages(txQueue) = Cardinality(Inits(txQueue))
         /\ InitMessages(inbox) = Cardinality(Inits(inbox))
    BY <2>2 DEF InitMessages, Inits
  <2>11. InitHeaders = Cardinality(Headers(wire)) + Cardinality(FirstBytes(ring))
    BY <2>2 DEF InitHeaders, Headers, FirstBytes
  <2>12. InitReceived = Cardinality(Posted(rxQueue)) + (IF Buffered THEN 1 ELSE 0)
    BY <2>2 DEF InitReceived, Posted, Buffered
  <2> QED BY <2>9, <2>10, <2>11, <2>12
<1> QED BY <1>1, ChainAlways, TypeAlways, PTL
=============================================================================
