------------------------ MODULE FirmwareUpdateProofs ------------------------
(***************************************************************************)
(* Theorems about FirmwareUpdate and OTAFile, for images of every size,    *)
(* any number of failures, power cuts and uploads.                         *)
(***************************************************************************)
EXTENDS FirmwareUpdate, SequenceTheorems, TLAPS

(***************************************************************************)
(* The receive file and the request that feeds it.                         *)
(***************************************************************************)

\* Where the HTTP task is while the file is not open for it.
Before == {"idle", "await", "quiet", "create", "open"}

\* Where the HTTP task is only after it has written the boot info file.
Booted == {"open", "transfer", "write", "respond", "close"}

FileTyped ==
  /\ {committed, image} \subseteq Images
  /\ fileState \in {"none", "open", "broken", "closed", "pending"}
  /\ content \in [Offsets -> Offsets \cup {Empty}]
  /\ bootInfo \in BOOLEAN
  /\ fileDescriptor \in BOOLEAN
  /\ http \in Before \cup {"transfer", "write", "respond", "close", "abort", "reset"}
  /\ failures \in 0..MaxFailures

\* Each retry counts from its own start.
RetriesBounded ==
  /\ retry \in Nat
  /\ retry <= MaxCreateRetries + 1 \/ retry <= MaxBlockWriteRetries + 1
  /\ http = "open" => retry <= MaxCreateRetries
  /\ http = "write" => retry <= MaxBlockWriteRetries

\* A block's bytes were received, and its offset is where the file had got
\* to: at most as far as the bytes received, as blocks that fail are skipped.
BlockPlaced ==
  /\ otaFileSize \in Nat /\ received \in 0..ImageSize /\ otaFileSize <= received
  /\ block \in [from : Nat, offset : Nat, size : 0..MaxChunk, done : Nat,
                status : {"none", "writing", "stored", "failed"}]
  /\ block.done <= block.size
  /\ block.offset <= block.from
  /\ block.from + block.size <= received
  /\ http = "write" => block.offset = otaFileSize
  /\ http \in Before => block = NoBlock

TransferInv == FileTyped /\ RetriesBounded /\ BlockPlaced /\ BlockStored

\* A record with the fields of the parser's state.
IsParser(s) ==
  /\ DOMAIN s = {"prevDataCallback", "headerField", "contentDisposition",
                 "contentDispositionMatch", "partDataType"}
  /\ s = [field \in DOMAIN s |-> s[field]]
  /\ s.prevDataCallback \in {"NULL", "OnHeaderFieldCallback", "OnHeaderValueCallback",
                             "OnDataCallback"}
  /\ s.contentDispositionMatch \in BOOLEAN

\* Between two calls no name of a header is half received.
ParserInv ==
  /\ IsParser(parser)
  /\ parser.prevDataCallback # "OnHeaderFieldCallback"
  /\ parser.partDataType \in {"unknown", "file", "signature"}
  /\ part \in Parts \cup {"none"} /\ parts \subseteq Parts
  /\ signatureSize \in 0..SignatureSize
  /\ PartTakenAsDeclared

(***************************************************************************)
(* The tasks, and the images of the device.                                *)
(***************************************************************************)

TasksTyped ==
  /\ remoteLogging \in BOOLEAN
  /\ running \in Images
  /\ watchdog \in BOOLEAN
  /\ main \in {"start", "init", "loop", "stopped", "cleanup", "suspended"}
  /\ uart \in {"running", "suspended"}
  /\ mutex \in {"free", "uart", "http"}
  /\ stopRequested \in BOOLEAN
  /\ notified \in BOOLEAN
  /\ upload \in Images
  /\ uploads \in 0..MaxUploads
  /\ cuts \in 0..MaxPowerCuts

\* The main task notifies the HTTP task as the last thing it does, and the
\* file is opened only after that.
UpdateInOrder ==
  /\ main \in {"cleanup", "suspended"} => uart = "suspended"
  /\ notified \/ http \notin {"idle", "await"} => main = "suspended"
  /\ fileDescriptor => http \notin Before

\* A file is received, and a bundle waits for its commit, with a boot info
\* file on the device, unless the bundle's image is the one that came up and
\* started this update.
ImagesKept ==
  /\ committed \in Working
  /\ main \notin {"start", "init"} => running \in Working
  /\ fileState = "pending" => IF main \in {"start", "init"} THEN running = image
                                                          ELSE image \in Working
  /\ fileState = "pending" => bootInfo \/ image \in Working
  /\ fileState \in {"open", "closed"} => bootInfo /\ http \notin Before
  /\ http \in Booted => bootInfo
  /\ WatchdogGuards

UpdateInv == TransferInv /\ ParserInv /\ TasksTyped /\ UpdateInOrder /\ ImagesKept

(***************************************************************************)
(* The headers of a part.                                                  *)
(***************************************************************************)

\* A string that its two pieces make up.
InTwo(string) ==
  /\ <<>> \o string = string
  /\ <<>> \o <<string[1]>> = <<string[1]>>
  /\ <<string[1]>> \o <<string[2]>> = string

LEMMA Pieces == ASSUME NEW a, NEW b PROVE InTwo(<<a, b>>)
<1> DEFINE S == {a, b}
           c == <<a>> \o <<b>>
<1>1. <<a, b>> \in Seq(S) /\ <<a>> \in Seq(S) /\ <<b>> \in Seq(S)
  OBVIOUS
<1>2. Len(<<a, b>>) = 2 /\ Len(<<a>>) = 1 /\ Len(<<b>>) = 1
  OBVIOUS
<1>3. <<a, b>>[1] = a /\ <<a, b>>[2] = b /\ <<a>>[1] = a /\ <<b>>[1] = b
  OBVIOUS
<1>4. <<>> \o <<a, b>> = <<a, b>> /\ <<>> \o <<a>> = <<a>>
  BY <1>1, ConcatEmptySeq
<1>5. /\ c \in Seq(S) /\ Len(c) = Len(<<a>>) + Len(<<b>>)
      /\ \A i \in 1..(Len(<<a>>) + Len(<<b>>)) :
           c[i] = IF i <= Len(<<a>>) THEN <<a>>[i] ELSE <<b>>[i - Len(<<a>>)]
  BY <1>1, ConcatProperties
<1> HIDE DEF c, S
<1>6. Len(c) = 2 /\ c[1] = a /\ c[2] = b
  BY <1>2, <1>3, <1>5
<1>7. \A i \in 1..Len(c) : c[i] = <<a, b>>[i]
  BY <1>3, <1>6
<1>8. c = <<a, b>>
  BY <1>1, <1>2, <1>5, <1>6, <1>7, SeqEqual
<1> QED BY <1>3, <1>4, <1>8 DEF c, InTwo

LEMMA NamePiece ==
  ASSUME NEW u, NEW data, NEW v, IsParser(u), v = OnHeaderFieldCallback(u, data)
  PROVE  /\ IsParser(v)
         /\ v.prevDataCallback = "OnHeaderFieldCallback"
         /\ u.prevDataCallback = "OnHeaderFieldCallback" =>
              v.headerField = u.headerField \o data
         /\ u.prevDataCallback # "OnHeaderFieldCallback" => v.headerField = <<>> \o data
         /\ v.contentDisposition = u.contentDisposition
<1>1. IsParser(v)
  BY DEF IsParser, OnHeaderFieldCallback
<1> QED BY <1>1 DEF IsParser, OnHeaderFieldCallback

LEMMA ValuePiece ==
  ASSUME NEW u, NEW data, NEW v, IsParser(u), v = OnHeaderValueCallback(u, data)
  PROVE  /\ IsParser(v)
         /\ v.prevDataCallback = "OnHeaderValueCallback"
         /\ u.prevDataCallback = "OnHeaderFieldCallback" =>
              /\ v.contentDispositionMatch <=> IsContentDisposition(u.headerField)
              /\ v.contentDisposition = IF IsContentDisposition(u.headerField)
                                        THEN <<>> \o data ELSE u.contentDisposition
         /\ u.prevDataCallback = "OnHeaderValueCallback" =>
              v.contentDisposition = IF u.contentDispositionMatch
                                     THEN u.contentDisposition \o data ELSE u.contentDisposition
<1>1. IsParser(v)
  BY DEF IsParser, OnHeaderValueCallback, IsContentDisposition
<1>2. /\ v.prevDataCallback = "OnHeaderValueCallback"
      /\ v.contentDispositionMatch = IF u.prevDataCallback = "OnHeaderFieldCallback"
                                     THEN IsContentDisposition(u.headerField)
                                     ELSE u.contentDispositionMatch
  BY DEF IsParser, OnHeaderValueCallback, IsContentDisposition
<1>3. v.contentDisposition =
        IF IF u.prevDataCallback = "OnHeaderFieldCallback"
           THEN IsContentDisposition(u.headerField) ELSE u.contentDispositionMatch
        THEN (IF u.prevDataCallback = "OnHeaderFieldCallback" THEN <<>> ELSE u.contentDisposition)
               \o data
        ELSE u.contentDisposition
  BY DEF IsParser, OnHeaderValueCallback
<1> QED BY <1>1, <1>2, <1>3

\* A name that starts afresh is kept whole, however it comes.
LEMMA NameGathered ==
  ASSUME NEW s, IsParser(s), s.prevDataCallback # "OnHeaderFieldCallback",
         NEW name, InTwo(name), NEW t \in OnName(s, name)
  PROVE  /\ IsParser(t)
         /\ t.prevDataCallback = "OnHeaderFieldCallback"
         /\ t.headerField = name
         /\ t.contentDisposition = s.contentDisposition
<1> DEFINE first == <<name[1]>>
           second == <<name[2]>>
           w == OnHeaderFieldCallback(s, first)
<1>1. t = OnHeaderFieldCallback(s, name) \/ t = OnHeaderFieldCallback(w, second)
  BY DEF OnName
<1>2. <<>> \o name = name /\ <<>> \o first = first /\ first \o second = name
  BY DEF InTwo
<1> HIDE DEF first, second
<1>3. CASE t = OnHeaderFieldCallback(s, name)
  BY <1>2, <1>3, NamePiece
<1>4. CASE t = OnHeaderFieldCallback(w, second)
  <2>1. /\ IsParser(w) /\ w.headerField = first
        /\ w.prevDataCallback = "OnHeaderFieldCallback"
        /\ w.contentDisposition = s.contentDisposition
    BY <1>2, NamePiece
  <2>2. IsParser(w) /\ w.prevDataCallback = "OnHeaderFieldCallback"
    BY <2>1
  <2> HIDE DEF w
  <2>3. /\ IsParser(t) /\ t.prevDataCallback = "OnHeaderFieldCallback"
        /\ t.contentDisposition = w.contentDisposition
    BY <1>4, <2>2, NamePiece
  <2>4. t.headerField = w.headerField \o second
    BY <1>4, <2>2, NamePiece
  <2> QED BY <1>2, <2>1, <2>3, <2>4
<1> QED BY <1>1, <1>3, <1>4

\* A value is kept whole when its name was Content-Disposition, and not at
\* all when it was another.
LEMMA ValueGathered ==
  ASSUME NEW s, IsParser(s), s.prevDataCallback = "OnHeaderFieldCallback",
         NEW value, InTwo(value), NEW t \in OnValue(s, value)
  PROVE  /\ IsParser(t)
         /\ t.prevDataCallback = "OnHeaderValueCallback"
         /\ t.contentDisposition = IF IsContentDisposition(s.headerField)
                                   THEN value ELSE s.contentDisposition
<1> DEFINE first == <<value[1]>>
           second == <<value[2]>>
           w == OnHeaderValueCallback(s, first)
<1>1. t = OnHeaderValueCallback(s, value) \/ t = OnHeaderValueCallback(w, second)
  BY DEF OnValue
<1>2. <<>> \o value = value /\ <<>> \o first = first /\ first \o second = value
  BY DEF InTwo
<1> HIDE DEF first, second
<1>3. CASE t = OnHeaderValueCallback(s, value)
  BY <1>2, <1>3, ValuePiece
<1>4. CASE t = OnHeaderValueCallback(w, second)
  <2>1. /\ IsParser(w) /\ w.prevDataCallback = "OnHeaderValueCallback"
        /\ w.contentDispositionMatch <=> IsContentDisposition(s.headerField)
        /\ w.contentDisposition = IF IsContentDisposition(s.headerField)
                                  THEN first ELSE s.contentDisposition
    BY <1>2, ValuePiece
  <2> HIDE DEF w
  <2>2. /\ IsParser(t) /\ t.prevDataCallback = "OnHeaderValueCallback"
        /\ t.contentDisposition = IF w.contentDispositionMatch
                                  THEN w.contentDisposition \o second ELSE w.contentDisposition
    BY <1>4, <2>1, ValuePiece
  <2> QED BY <1>2, <2>1, <2>2
<1> QED BY <1>1, <1>3, <1>4

LEMMA HeaderGathered ==
  ASSUME NEW s, IsParser(s), s.prevDataCallback # "OnHeaderFieldCallback",
         NEW header, InTwo(header.field), InTwo(header.value), NEW t \in OnHeader(s, header)
  PROVE  /\ IsParser(t)
         /\ t.prevDataCallback = "OnHeaderValueCallback"
         /\ t.contentDisposition = IF IsContentDisposition(header.field)
                                   THEN header.value ELSE s.contentDisposition
<1>1. PICK u \in OnName(s, header.field) : t \in OnValue(u, header.value)
  BY DEF OnHeader
<1>2. /\ IsParser(u) /\ u.prevDataCallback = "OnHeaderFieldCallback"
      /\ u.headerField = header.field /\ u.contentDisposition = s.contentDisposition
  BY <1>1, NameGathered
<1> QED BY <1>1, <1>2, ValueGathered

\* Whatever the headers of a part and their order, the parser's state holds
\* the part's own Content-Disposition after them.
LEMMA HeadersGathered ==
  ASSUME NEW s, IsParser(s), s.prevDataCallback # "OnHeaderFieldCallback",
         NEW p \in Parts, NEW t \in OnHeaders(s, p)
  PROVE  /\ IsParser(t)
         /\ t.prevDataCallback = "OnHeaderValueCallback"
         /\ t.contentDisposition = <<"form-data; name=", p>>
<1> DEFINE Ready(u) == IsParser(u) /\ u.prevDataCallback # "OnHeaderFieldCallback"
           disposition == ContentDisposition(p)
<1>1. /\ InTwo(disposition.field) /\ InTwo(disposition.value)
      /\ IsContentDisposition(disposition.field)
      /\ disposition.value = <<"form-data; name=", p>>
  BY Pieces DEF ContentDisposition, IsContentDisposition
<1>2. /\ InTwo(ContentType.field) /\ InTwo(ContentType.value)
      /\ ~IsContentDisposition(ContentType.field)
  BY Pieces DEF ContentType, IsContentDisposition
<1> HIDE DEF disposition
<1>3. ASSUME NEW u, Ready(u), NEW v \in OnHeader(u, disposition)
      PROVE  /\ IsParser(v) /\ v.prevDataCallback = "OnHeaderValueCallback"
             /\ v.contentDisposition = disposition.value
  BY <1>1, <1>3, HeaderGathered
<1>4. ASSUME NEW u, Ready(u), NEW v \in OnHeader(u, ContentType)
      PROVE  /\ IsParser(v) /\ v.prevDataCallback = "OnHeaderValueCallback"
             /\ v.contentDisposition = u.contentDisposition
  BY <1>2, <1>4, HeaderGathered
<1>5. \/ t \in OnHeader(s, disposition)
      \/ \E u \in OnHeader(s, disposition) : t \in OnHeader(u, ContentType)
      \/ \E u \in OnHeader(s, ContentType) : t \in OnHeader(u, disposition)
  BY DEF OnHeaders, disposition
<1>6. CASE t \in OnHeader(s, disposition)
  BY <1>1, <1>3, <1>6
<1>7. ASSUME NEW u \in OnHeader(s, disposition), t \in OnHeader(u, ContentType)
      PROVE  /\ IsParser(t) /\ t.prevDataCallback = "OnHeaderValueCallback"
             /\ t.contentDisposition = disposition.value
  BY <1>3, <1>4, <1>7
<1>8. ASSUME NEW u \in OnHeader(s, ContentType), t \in OnHeader(u, disposition)
      PROVE  /\ IsParser(t) /\ t.prevDataCallback = "OnHeaderValueCallback"
             /\ t.contentDisposition = disposition.value
  BY <1>3, <1>4, <1>8
<1> QED BY <1>1, <1>5, <1>6, <1>7, <1>8

LEMMA HeadersKeepParser ==
  ASSUME ParserInv, NEW p \in Parts, ReceiveHeaders(p)
  PROVE  ParserInv'
<1>1. PICK s \in OnHeaders(parser, p) : parser' = OnHeadersCompleteCallback(s)
  BY DEF ReceiveHeaders
<1>2. /\ IsParser(s) /\ s.prevDataCallback = "OnHeaderValueCallback"
      /\ s.contentDisposition = <<"form-data; name=", p>>
  BY <1>1, HeadersGathered DEF ParserInv
<1>3. IsParser(parser)' /\ parser'.prevDataCallback = "OnHeaderValueCallback"
  <2>1. \E type : parser' = [s EXCEPT !.partDataType = type]
    BY <1>1 DEF OnHeadersCompleteCallback
  <2> QED BY <1>2, <2>1 DEF IsParser
<1>4. parser'.partDataType =
        CASE s.contentDisposition = <<"form-data; name=", "file">> -> "file"
          [] s.contentDisposition = <<"form-data; name=", "signature">> -> "signature"
          [] OTHER -> "unknown"
  BY <1>1, <1>2 DEF IsParser, OnHeadersCompleteCallback
<1>5. parser'.partDataType = IF p = "other" THEN "unknown" ELSE p
  <2>1. \A q \in Parts : <<"form-data; name=", p>> = <<"form-data; name=", q>> => p = q
    OBVIOUS
  <2> QED BY <1>2, <1>4, <2>1 DEF Parts
<1>6. part' = p /\ parts' = parts \cup {p} /\ signatureSize' \in {0, signatureSize}
  BY DEF ReceiveHeaders
<1> QED BY <1>3, <1>5, <1>6 DEF ParserInv, Parts, PartTakenAsDeclared, SignatureSize

\* Data and a fresh start leave the parser between two headers.
LEMMA OthersKeepParser ==
  ASSUME ParserInv, OnData \/ UNCHANGED parser, UNCHANGED <<part, parts>>,
         signatureSize' \in 0..SignatureSize
  PROVE  ParserInv'
<1>1. IsParser(parser)' /\ parser'.prevDataCallback # "OnHeaderFieldCallback"
  BY DEF ParserInv, OnData, IsParser
<1>2. parser'.partDataType = parser.partDataType
  BY DEF ParserInv, OnData, IsParser
<1> QED BY <1>1, <1>2 DEF ParserInv, PartTakenAsDeclared

LEMMA FreshParserKept ==
  ASSUME parser' = FreshParser, part' = "none", parts' = {}, signatureSize' = 0
  PROVE  ParserInv'
<1>1. IsParser(FreshParser) /\ FreshParser.prevDataCallback = "NULL"
  BY DEF IsParser, FreshParser
<1>2. FreshParser.partDataType = "unknown"
  BY DEF FreshParser
<1> QED BY <1>1, <1>2 DEF ParserInv, PartTakenAsDeclared, SignatureSize

(***************************************************************************)
(* The transfer.                                                           *)
(***************************************************************************)

\* What sl_FsWrite stores continues the block, and stays in the file.
LEMMA StoredContinues ==
  ASSUME BlockPlaced, BlockStored, content \in [Offsets -> Offsets \cup {Empty}],
         NEW n \in Nat, n <= Left
  PROVE  /\ Stored(n) \in [Offsets -> Offsets \cup {Empty}]
         /\ \A i \in 0..(block.done + n - 1) : Stored(n)[block.offset + i] = block.from + i
<1> DEFINE from == block.from
           offset == block.offset
           size == block.size
           done == block.done
<1>1. /\ from \in Nat /\ offset \in Nat /\ size \in Nat /\ done \in Nat
      /\ done + n <= size /\ offset <= from /\ from + size <= ImageSize /\ ImageSize \in Nat
  <2>1. /\ from \in Nat /\ offset \in Nat /\ size \in 0..MaxChunk /\ done \in Nat
        /\ done <= size /\ offset <= from /\ from + size <= received /\ received \in 0..ImageSize
    BY DEF BlockPlaced
  <2> QED BY <2>1, OTAFileAssumption DEF Left
<1>2. \A i \in 0..(done - 1) : content[offset + i] = from + i
  BY DEF BlockStored
<1>3. Stored(n) =
        [o \in Offsets |-> IF o \in (offset + done)..(offset + done + n - 1)
                           THEN from + done + (o - (offset + done)) ELSE content[o]]
  BY DEF Stored, Target
<1> HIDE DEF from, offset, size, done
<1>4. ASSUME NEW o \in Offsets, o \in (offset + done)..(offset + done + n - 1)
      PROVE  from + done + (o - (offset + done)) \in Offsets
  BY <1>1, <1>4 DEF Offsets
<1>5. Stored(n) \in [Offsets -> Offsets \cup {Empty}]
  BY <1>3, <1>4
<1>6. ASSUME NEW i \in 0..(done + n - 1)
      PROVE  Stored(n)[offset + i] = from + i
  <2>1. offset + i \in Offsets
    BY <1>1 DEF Offsets
  <2>2. CASE i < done
    <3>1. offset + i \notin (offset + done)..(offset + done + n - 1) /\ i \in 0..(done - 1)
      BY <1>1, <2>2
    <3> QED BY <1>2, <1>3, <2>1, <3>1
  <2>3. CASE ~(i < done)
    <3>1. /\ offset + i \in (offset + done)..(offset + done + n - 1)
          /\ from + done + ((offset + i) - (offset + done)) = from + i
      BY <1>1, <2>3
    <3> QED BY <1>3, <2>1, <3>1
  <2> QED BY <2>2, <2>3
<1> QED BY <1>5, <1>6 DEF from, offset, done

\* Steps that leave the file's content and the block alone.
LEMMA OthersKeepTransfer ==
  ASSUME TransferInv, FileTyped', RetriesBounded',
         UNCHANGED <<content, received, block>>, otaFileSize' \in {0, otaFileSize},
         http' = "write" => http = "write" /\ otaFileSize' = otaFileSize,
         http' \in Before => http \in Before
  PROVE  TransferInv'
<1>1. BlockPlaced'
  BY DEF TransferInv, BlockPlaced
<1>2. BlockStored'
  BY DEF TransferInv, BlockStored
<1> QED BY <1>1, <1>2 DEF TransferInv

LEMMA ReceiveChunkKeepsTransfer ==
  ASSUME TransferInv, NEW size \in 1..MaxChunk, ReceiveChunk(size)
  PROVE  TransferInv'
<1>1. /\ received + size <= ImageSize /\ received' = received + size
      /\ block' = [from |-> received, offset |-> otaFileSize, size |-> size, done |-> 0,
                   status |-> "writing"]
      /\ retry' = 0 /\ http' = "write"
      /\ UNCHANGED <<flashVars, fileDescriptor, otaFileSize, failures>>
  BY DEF ReceiveChunk, NextBlock
<1>2. FileTyped'
  BY <1>1 DEF TransferInv, FileTyped, flashVars
<1>3. RetriesBounded'
  BY <1>1, OTAFileAssumption DEF RetriesBounded, MaxCreateRetries
<1>4. /\ otaFileSize \in Nat /\ received \in Nat /\ otaFileSize <= received
      /\ size \in 0..MaxChunk /\ size \in Nat /\ ImageSize \in Nat
  BY OTAFileAssumption DEF TransferInv, BlockPlaced
<1>5. BlockPlaced'
  <2>1. /\ otaFileSize' \in Nat /\ received' \in 0..ImageSize /\ otaFileSize' <= received'
    BY <1>1, <1>4
  <2>2. /\ block' \in [from : Nat, offset : Nat, size : 0..MaxChunk, done : Nat,
                       status : {"none", "writing", "stored", "failed"}]
        /\ block'.from = received /\ block'.offset = otaFileSize
        /\ block'.size = size /\ block'.done = 0
    BY <1>1, <1>4
  <2> QED BY <1>1, <1>4, <2>1, <2>2 DEF BlockPlaced, Before
<1>6. BlockStored'
  BY <1>1 DEF BlockStored
<1> QED BY <1>2, <1>3, <1>5, <1>6 DEF TransferInv

\* A write of n bytes, the last of the block or one cut short.
LEMMA WriteKeepsTransfer ==
  ASSUME TransferInv, FileTyped', RetriesBounded', http = "write",
         NEW n \in Nat, n <= Left, content' = Stored(n), UNCHANGED received,
         NEW status \in {"none", "writing", "stored", "failed"},
         block' = [block EXCEPT !.done = block.done + n, !.status = status],
         http' \in {"write", "transfer"},
         \/ http' = "write" /\ otaFileSize' = otaFileSize
         \/ http' = "transfer" /\ otaFileSize' \in {otaFileSize, otaFileSize + n}
  PROVE  TransferInv'
<1>1. BlockPlaced /\ BlockStored /\ content \in [Offsets -> Offsets \cup {Empty}]
  BY DEF TransferInv, FileTyped
<1>2. /\ block \in [from : Nat, offset : Nat, size : 0..MaxChunk, done : Nat,
                    status : {"none", "writing", "stored", "failed"}]
      /\ block'.from = block.from /\ block'.offset = block.offset /\ block'.size = block.size
      /\ block'.done = block.done + n
  BY <1>1 DEF BlockPlaced
<1>3. /\ block.done \in Nat /\ block.size \in 0..MaxChunk /\ MaxChunk \in Nat
      /\ block.from \in Nat /\ block.offset \in Nat
      /\ block.done + n <= block.size /\ block.offset <= block.from
      /\ block.from + block.size <= received /\ block.offset = otaFileSize
      /\ otaFileSize \in Nat /\ received \in 0..ImageSize
  <2>1. /\ block.done \in Nat /\ block.size \in 0..MaxChunk /\ MaxChunk \in Nat
        /\ block.done <= block.size
    BY <1>1, <1>2, OTAFileAssumption DEF BlockPlaced
  <2>2. block.done + n <= block.size
    BY <2>1 DEF Left
  <2> QED BY <1>1, <1>2, <2>1, <2>2 DEF BlockPlaced
<1>4. BlockPlaced'
  <2>1. block' \in [from : Nat, offset : Nat, size : 0..MaxChunk, done : Nat,
                    status : {"none", "writing", "stored", "failed"}]
    <3>1. block.done + n \in Nat
      BY <1>3
    <3> QED BY <1>2, <3>1
  <2>2. otaFileSize' \in Nat /\ otaFileSize' <= received
    BY <1>3
  <2> QED BY <1>2, <1>3, <2>1, <2>2 DEF BlockPlaced, Before
<1>5. BlockStored'
  BY <1>1, <1>2, StoredContinues DEF BlockStored
<1> QED BY <1>4, <1>5 DEF TransferInv

LEMMA OpenKeepsTransfer ==
  ASSUME TransferInv, NEW i \in Images, OpenSucceeds(i)
  PROVE  TransferInv'
<1>1. /\ http \in Before /\ block = NoBlock
      /\ content' = [o \in Offsets |-> Empty] /\ fileState' = "open" /\ image' = i
      /\ fileDescriptor' = TRUE /\ http' = "transfer"
      /\ UNCHANGED <<committed, bootInfo, otaFileSize, received, block, retry, failures>>
  BY DEF OpenSucceeds, TransferInv, BlockPlaced, Before, progressVars
<1>2. FileTyped' /\ RetriesBounded'
  BY <1>1 DEF TransferInv, FileTyped, RetriesBounded
<1>3. BlockPlaced'
  BY <1>1 DEF TransferInv, BlockPlaced, Before
<1>4. BlockStored'
  BY <1>1 DEF BlockStored, NoBlock
<1> QED BY <1>2, <1>3, <1>4 DEF TransferInv

LEMMA FreshKeepsTransfer ==
  ASSUME TransferInv, FreshContext,
         fileState' \in {"none", "open", "broken", "closed", "pending"},
         UNCHANGED <<committed, image, content, bootInfo, failures>>
  PROVE  TransferInv'
<1>1. /\ fileDescriptor' = FALSE /\ otaFileSize' = 0 /\ received' = 0 /\ block' = NoBlock
      /\ retry' = 0 /\ http' = "idle"
  BY DEF FreshContext
<1>2. FileTyped'
  BY <1>1 DEF TransferInv, FileTyped, Before
<1>3. RetriesBounded'
  BY <1>1, OTAFileAssumption DEF RetriesBounded, MaxCreateRetries
<1>4. BlockPlaced'
  <2>1. /\ NoBlock \in [from : Nat, offset : Nat, size : 0..MaxChunk, done : Nat,
                        status : {"none", "writing", "stored", "failed"}]
        /\ NoBlock.from = 0 /\ NoBlock.offset = 0 /\ NoBlock.size = 0 /\ NoBlock.done = 0
    BY OTAFileAssumption DEF NoBlock
  <2> QED BY <1>1, <2>1, OTAFileAssumption DEF BlockPlaced
<1>5. BlockStored'
  BY <1>1 DEF BlockStored, NoBlock
<1> QED BY <1>2, <1>3, <1>4, <1>5 DEF TransferInv

\* A step of the HTTP task on the receive file.
LEMMA FileStepKeepsTransfer ==
  ASSUME TransferInv, NEW i \in Images, FileStep(i)
  PROVE  TransferInv'
<1> USE DEF flashVars, requestVars, progressVars, contextVars
<1>failures. Fails => failures' \in 0..MaxFailures
  BY OTAFileAssumption DEF TransferInv, FileTyped, Fails
<1>retry. /\ retry \in Nat /\ MaxBlockWriteRetries \in Nat
          /\ http = "open" => retry <= MaxCreateRetries
          /\ http = "write" => retry <= MaxBlockWriteRetries
  BY OTAFileAssumption DEF TransferInv, RetriesBounded
<1>1. CASE CreateBootInfoFile
  <2>1. FileTyped'
    BY <1>1, <1>failures DEF CreateBootInfoFile, TransferInv, FileTyped, Before
  <2>2. RetriesBounded'
    BY <1>1, OTAFileAssumption DEF CreateBootInfoFile, RetriesBounded, MaxCreateRetries
  <2> QED BY <1>1, <2>1, <2>2, OthersKeepTransfer DEF CreateBootInfoFile, Before
<1>2. CASE OpenSucceeds(i)
  BY <1>2, OpenKeepsTransfer
<1>3. CASE OpenFails
  <2>1. FileTyped'
    BY <1>3, <1>failures DEF OpenFails, TransferInv, FileTyped, Before
  <2>2. RetriesBounded'
    BY <1>3, <1>retry DEF OpenFails, RetriesBounded, MaxCreateRetries
  <2> QED BY <1>3, <2>1, <2>2, OthersKeepTransfer DEF OpenFails, Before
<1>4. ASSUME NEW p \in Parts, ReceiveHeaders(p) PROVE TransferInv'
  <2>1. FileTyped' /\ RetriesBounded'
    BY <1>4 DEF ReceiveHeaders, TransferInv, FileTyped, RetriesBounded
  <2> QED BY <1>4, <2>1, OthersKeepTransfer DEF ReceiveHeaders, Before
<1>5. ASSUME NEW size \in 1..MaxChunk, ReceiveChunk(size) PROVE TransferInv'
  BY <1>5, ReceiveChunkKeepsTransfer
<1>6. ASSUME NEW size \in 1..MaxChunk, ReceiveOtherData(size) PROVE TransferInv'
  <2>1. FileTyped' /\ RetriesBounded'
    BY <1>6 DEF ReceiveOtherData, TransferInv, FileTyped, RetriesBounded
  <2> QED BY <1>6, <2>1, OthersKeepTransfer DEF ReceiveOtherData, Before
<1>left. http = "write" => Left \in Nat /\ block.done + Left = block.size
  <2>1. block.done \in Nat /\ block.size \in 0..MaxChunk /\ block.done <= block.size
    BY DEF TransferInv, BlockPlaced
  <2> QED BY <2>1, OTAFileAssumption DEF Left
<1>content. /\ content \in [Offsets -> Offsets \cup {Empty}]
            /\ \A n \in Nat : n <= Left => Stored(n) \in [Offsets -> Offsets \cup {Empty}]
  BY StoredContinues DEF TransferInv, FileTyped
<1>7. CASE WriteRest
  <2>1. FileTyped'
    BY <1>7, <1>left, <1>content DEF WriteRest, TransferInv, FileTyped
  <2>2. RetriesBounded'
    BY <1>7 DEF WriteRest, TransferInv, RetriesBounded
  <2>3. block' = [block EXCEPT !.done = block.done + Left, !.status = "stored"]
    BY <1>7, <1>left DEF WriteRest
  <2>4. /\ http = "write" /\ http' = "transfer" /\ otaFileSize' = otaFileSize + Left
        /\ content' = Stored(Left) /\ UNCHANGED received
    BY <1>7 DEF WriteRest
  <2>5. Left \in Nat /\ Left <= Left
    BY <1>left, <2>4
  <2> HIDE DEF Left
  <2> QED BY <2>1, <2>2, <2>3, <2>4, <2>5, WriteKeepsTransfer
<1>8. ASSUME NEW n \in 0..MaxChunk, WritePart(n) PROVE TransferInv'
  <2>1. n \in Nat /\ n <= Left /\ http = "write"
    BY <1>8, <1>left, OTAFileAssumption DEF WritePart
  <2>2. FileTyped'
    BY <1>8, <1>failures, <1>content, <2>1 DEF WritePart, TransferInv, FileTyped
  <2>3. RetriesBounded'
    BY <1>8, <1>retry, <2>1 DEF WritePart, RetriesBounded
  <2>4. \E status \in {"none", "writing", "stored", "failed"} :
          block' = [block EXCEPT !.done = block.done + n, !.status = status]
    <3>1. CASE retry < MaxBlockWriteRetries
      <4>1. block.status \in {"none", "writing", "stored", "failed"}
        BY DEF TransferInv, BlockPlaced
      <4>2. block' = [block EXCEPT !.done = block.done + n]
        BY <1>8, <3>1 DEF WritePart
      <4>3. block' = [block EXCEPT !.done = block.done + n, !.status = block.status]
        BY <4>2 DEF TransferInv, BlockPlaced
      <4> QED BY <4>1, <4>3
    <3>2. CASE ~(retry < MaxBlockWriteRetries)
      BY <1>8, <3>2 DEF WritePart
    <3> QED BY <3>1, <3>2
  <2> QED BY <1>8, <2>1, <2>2, <2>3, <2>4, WriteKeepsTransfer DEF WritePart
<1>9. CASE TransferEnds
  <2>1. FileTyped' /\ RetriesBounded'
    BY <1>9 DEF TransferEnds, TransferInv, FileTyped, RetriesBounded
  <2> QED BY <1>9, <2>1, OthersKeepTransfer DEF TransferEnds, Before
<1>10. CASE Close
  <2>1. FileTyped' /\ RetriesBounded'
    BY <1>10, <1>failures DEF Close, TransferInv, FileTyped, RetriesBounded
  <2> QED BY <1>10, <2>1, OthersKeepTransfer DEF Close, Before
<1>11. CASE Abort
  <2>1. FileTyped' /\ RetriesBounded'
    BY <1>11, <1>failures DEF Abort, TransferInv, FileTyped, RetriesBounded
  <2> QED BY <1>11, <2>1, OthersKeepTransfer DEF Abort, Before
<1> QED BY <1>1, <1>2, <1>3, <1>4, <1>5, <1>6, <1>7, <1>8, <1>9, <1>10, <1>11 DEF FileStep

LEMMA FileStepKeepsParser ==
  ASSUME ParserInv, NEW i \in Images, FileStep(i)
  PROVE  ParserInv'
<1> USE DEF flashVars, requestVars, progressVars, contextVars
<1>typed. signatureSize \in 0..SignatureSize
  BY DEF ParserInv
<1>1. ASSUME NEW p \in Parts, ReceiveHeaders(p) PROVE ParserInv'
  BY <1>1, HeadersKeepParser
<1>2. ASSUME NEW size \in 1..MaxChunk, ReceiveChunk(size) PROVE ParserInv'
  BY <1>2, <1>typed, OthersKeepParser DEF ReceiveChunk
<1>3. ASSUME NEW size \in 1..MaxChunk, ReceiveOtherData(size) PROVE ParserInv'
  <2>1. signatureSize' \in 0..SignatureSize
    BY <1>3, <1>typed DEF ReceiveOtherData, SignatureSize
  <2> QED BY <1>3, <2>1, OthersKeepParser DEF ReceiveOtherData
<1>4. CASE \/ CreateBootInfoFile \/ OpenSucceeds(i) \/ OpenFails \/ WriteRest
           \/ TransferEnds \/ Close \/ Abort \/ \E n \in 0..MaxChunk : WritePart(n)
  <2>1. UNCHANGED <<parser, part, parts, signatureSize>>
    BY <1>4
    DEF CreateBootInfoFile, OpenSucceeds, OpenFails, WriteRest, WritePart, TransferEnds, Close,
        Abort
  <2> QED BY <1>typed, <2>1, OthersKeepParser
<1> QED BY <1>1, <1>2, <1>3, <1>4 DEF FileStep

(***************************************************************************)
(* Every step.                                                             *)
(***************************************************************************)

LEMMA BootKeepsFile ==
  ASSUME TransferInv, ParserInv, Boot,
         fileState' \in {"none", "open", "broken", "closed", "pending"}
  PROVE  TransferInv' /\ ParserInv'
BY FreshKeepsTransfer, FreshParserKept DEF Boot, FreshContext

LEMMA BootStates ==
  ASSUME fileState \in {"none", "open", "broken", "closed", "pending"}
  PROVE  /\ AfterReset \subseteq {"none", "open", "broken", "closed", "pending"}
         /\ fileState # "closed" /\ "pending" \in AfterReset => fileState = "pending"
         /\ fileState # "closed" => AfterReset \subseteq {"none", "broken", "pending"}
BY DEF AfterReset

\* Steps of the tasks outside of FileStep.
LEMMA TaskStepKeepsFile ==
  ASSUME TransferInv, ParserInv,
         \/ MainStep \/ CaptureStarts \/ CaptureEnds \/ TakeNotification \/ SyslogSuspend
         \/ RespondCreated \/ \E i \in Images : ReceivePut(i)
  PROVE  TransferInv' /\ ParserInv'
<1> USE DEF flashVars, requestVars, progressVars, contextVars, fileVars
<1>1. /\ UNCHANGED <<image, content, bootInfo, fileDescriptor, retry, otaFileSize, received, block,
                     parser, part, parts, signatureSize>>
      /\ committed' \in {committed, image} /\ fileState' \in {fileState, "none"}
      /\ failures' = failures \/ Fails
      /\ \/ http' = http
         \/ http \in Before /\ http' \in {"await", "quiet", "create"}
         \/ http' = "close"
  BY DEF MainStep, RunLoopCreate, EnterLoop, Accept, LeaveLoop, SuspendUART, CleanUpAndNotify,
         CaptureStarts, CaptureEnds, TakeNotification, SyslogSuspend, RespondCreated, ReceivePut,
         imageVars, mainVars, outsideVars, Before
<1>2. failures' \in 0..MaxFailures
  BY <1>1, OTAFileAssumption DEF TransferInv, FileTyped, Fails
<1>3. FileTyped'
  BY <1>1, <1>2 DEF TransferInv, FileTyped, Before
<1>4. RetriesBounded'
  BY <1>1 DEF TransferInv, RetriesBounded
<1>5. TransferInv'
  BY <1>1, <1>3, <1>4, OthersKeepTransfer DEF Before
<1>6. ParserInv'
  BY <1>1, OthersKeepParser DEF ParserInv
<1> QED BY <1>5, <1>6

LEMMA FileInvStep ==
  ASSUME TransferInv, ParserInv, TasksTyped, [Next]_vars
  PROVE  TransferInv' /\ ParserInv'
<1>1. CASE \/ MainStep \/ CaptureStarts \/ CaptureEnds \/ TakeNotification \/ SyslogSuspend
           \/ RespondCreated \/ \E i \in Images : ReceivePut(i)
  BY <1>1, TaskStepKeepsFile
<1>2. CASE FileStepOf
  BY <1>2, FileStepKeepsTransfer, FileStepKeepsParser DEF FileStepOf, TasksTyped
<1>3. CASE ResetDevice \/ PowerCut \/ WatchdogExpires
  <2>1. fileState \in {"none", "open", "broken", "closed", "pending"}
    BY DEF TransferInv, FileTyped
  <2>2. Boot /\ fileState' \in {"none", "open", "broken", "closed", "pending"}
    BY <1>3, <2>1, BootStates DEF ResetDevice, PowerCut, WatchdogExpires
  <2> QED BY <2>2, BootKeepsFile
<1>4. CASE UNCHANGED vars
  <2>1. /\ UNCHANGED <<committed, fileState, image, content, bootInfo, fileDescriptor, retry,
                       otaFileSize, received, block, parser, part, parts, signatureSize, http,
                       failures>>
    BY <1>4 DEF vars, fileVars, flashVars, contextVars, progressVars, requestVars
  <2>2. FileTyped' /\ RetriesBounded'
    BY <2>1 DEF TransferInv, FileTyped, RetriesBounded
  <2> QED BY <2>1, <2>2, OthersKeepTransfer, OthersKeepParser DEF ParserInv
<1> QED BY <1>1, <1>2, <1>3, <1>4 DEF Next

LEMMA TypedStep == TasksTyped /\ TransferInv /\ [Next]_vars => TasksTyped'
<1> SUFFICES ASSUME TasksTyped, TransferInv, [Next]_vars PROVE TasksTyped'
  OBVIOUS
<1> USE FirmwareUpdateAssumption DEF TasksTyped
<1>1. CASE MainStep
  BY <1>1
  DEF MainStep, RunLoopCreate, EnterLoop, Accept, LeaveLoop, SuspendUART, CleanUpAndNotify,
      imageVars, mainVars, outsideVars
<1>2. CASE CaptureStarts \/ CaptureEnds
  BY <1>2 DEF CaptureStarts, CaptureEnds, imageVars, mainVars, outsideVars
<1>3. ASSUME NEW i \in Images, ReceivePut(i) PROVE TasksTyped'
  <2>1. uploads' \in 0..MaxUploads
    BY <1>3 DEF ReceivePut
  <2>2. stopRequested' \in BOOLEAN
    BY <1>3 DEF ReceivePut
  <2> QED BY <1>3, <2>1, <2>2 DEF ReceivePut, imageVars
<1>4. CASE TakeNotification \/ SyslogSuspend \/ RespondCreated \/ FileStepOf
  BY <1>4
  DEF TakeNotification, SyslogSuspend, RespondCreated, FileStepOf, imageVars, mainVars,
      outsideVars
<1>5. CASE ResetDevice \/ PowerCut \/ WatchdogExpires
  <2>1. running' \in Images
    BY <1>5 DEF ResetDevice, PowerCut, WatchdogExpires, Boot, TransferInv, FileTyped
  <2>2. cuts' \in 0..MaxPowerCuts
    BY <1>5 DEF ResetDevice, PowerCut, WatchdogExpires
  <2>3. watchdog' \in BOOLEAN
    BY <1>5 DEF ResetDevice, PowerCut, WatchdogExpires, Boot
  <2> QED BY <1>5, <2>1, <2>2, <2>3 DEF ResetDevice, PowerCut, WatchdogExpires, Boot
<1>6. CASE UNCHANGED vars
  BY <1>6 DEF vars, imageVars, mainVars, outsideVars
<1> QED BY <1>1, <1>2, <1>3, <1>4, <1>5, <1>6 DEF Next

\* What a step on the receive file does to what the other parts rest on.
LEMMA FileStepEffect ==
  ASSUME NEW i \in Images, FileStep(i)
  PROVE  /\ committed' = committed
         /\ http \notin {"idle", "await", "quiet"} /\ http' \notin {"idle", "await", "quiet"}
         /\ fileDescriptor' => fileDescriptor \/ http' \notin Before
         /\ http' \in Before => http \in Before
         /\ bootInfo' = bootInfo \/ http = "create"
         /\ http' \in Booted => http \in Booted \/ bootInfo'
         /\ \/ fileState' \in {fileState, "none"} /\ image' = image
            \/ fileState' = "open" /\ http = "open" /\ http' = "transfer"
            \/ fileState' = "closed" /\ image' = image /\ http = "close" /\ http' = "reset"
<1> USE DEF FileStep, flashVars, requestVars, progressVars, contextVars, Before, Booted
<1>1. CASE CreateBootInfoFile
  BY <1>1 DEF CreateBootInfoFile
<1>2. CASE OpenSucceeds(i)
  BY <1>2 DEF OpenSucceeds
<1>3. CASE OpenFails
  BY <1>3 DEF OpenFails
<1>4. CASE \/ \E p \in Parts : ReceiveHeaders(p)
           \/ \E size \in 1..MaxChunk : ReceiveChunk(size) \/ ReceiveOtherData(size)
  BY <1>4 DEF ReceiveHeaders, ReceiveChunk, ReceiveOtherData
<1>5. CASE WriteRest \/ (\E n \in 0..MaxChunk : WritePart(n)) \/ TransferEnds
  BY <1>5 DEF WriteRest, WritePart, TransferEnds
<1>6. CASE Close
  BY <1>6 DEF Close
<1>7. CASE Abort
  BY <1>7 DEF Abort
<1> QED BY <1>1, <1>2, <1>3, <1>4, <1>5, <1>6, <1>7

LEMMA OrderStep == UpdateInOrder /\ TasksTyped /\ [Next]_vars => UpdateInOrder'
<1> SUFFICES ASSUME UpdateInOrder, TasksTyped, [Next]_vars PROVE UpdateInOrder'
  OBVIOUS
<1> USE DEF UpdateInOrder, fileVars, flashVars, requestVars, progressVars, contextVars,
            imageVars, mainVars, outsideVars, Before
<1>1. CASE MainStep
  BY <1>1 DEF MainStep, RunLoopCreate, EnterLoop, LeaveLoop, SuspendUART, CleanUpAndNotify
<1>2. CASE CaptureStarts \/ CaptureEnds
  BY <1>2 DEF CaptureStarts, CaptureEnds
<1>3. ASSUME NEW i \in Images, ReceivePut(i) PROVE UpdateInOrder'
  BY <1>3 DEF ReceivePut
<1>4. CASE TakeNotification \/ SyslogSuspend \/ RespondCreated
  BY <1>4 DEF TakeNotification, SyslogSuspend, RespondCreated
<1>5. CASE FileStepOf
  BY <1>5, FileStepEffect DEF FileStepOf, TasksTyped
<1>6. CASE ResetDevice \/ PowerCut \/ WatchdogExpires
  BY <1>6 DEF ResetDevice, PowerCut, WatchdogExpires, Boot, FreshContext
<1>7. CASE UNCHANGED vars
  BY <1>7 DEF vars
<1> QED BY <1>1, <1>2, <1>3, <1>4, <1>5, <1>6, <1>7 DEF Next

LEMMA ImagesStep ==
  UpdateInOrder /\ TasksTyped /\ FileTyped /\ ImagesKept /\ [Next]_vars => ImagesKept'
<1> SUFFICES ASSUME UpdateInOrder, TasksTyped, FileTyped, ImagesKept, [Next]_vars
             PROVE  ImagesKept'
  OBVIOUS
<1> USE DEF ImagesKept, WatchdogGuards, Booted
<1>others. ASSUME UNCHANGED <<committed, fileState, image, bootInfo, running, watchdog>>,
                  main' \in {"start", "init"} <=> main \in {"start", "init"},
                  http' \in Before => http \in Before,
                  http' = http \/ http' \in {"await", "quiet", "create"}
                               \/ (http = "respond" /\ http' = "close")
           PROVE  ImagesKept'
  BY <1>others
<1> USE DEF fileVars, flashVars, requestVars, progressVars, contextVars, imageVars, mainVars,
            outsideVars
<1>1. CASE EnterLoop
  BY <1>1 DEF EnterLoop, Accept
<1>2. CASE RunLoopCreate \/ LeaveLoop \/ SuspendUART \/ CleanUpAndNotify
  BY <1>2, <1>others DEF RunLoopCreate, LeaveLoop, SuspendUART, CleanUpAndNotify
<1>3. CASE CaptureStarts \/ CaptureEnds
  BY <1>3, <1>others DEF CaptureStarts, CaptureEnds
<1>4. CASE \/ TakeNotification \/ SyslogSuspend \/ RespondCreated
           \/ \E i \in Images : ReceivePut(i)
  BY <1>4, <1>others DEF TakeNotification, SyslogSuspend, RespondCreated, ReceivePut, Before
<1>5. CASE FileStepOf
  <2>1. UNCHANGED <<running, watchdog, main, upload>> /\ FileStep(upload) /\ upload \in Images
    BY <1>5 DEF FileStepOf, TasksTyped
  <2>2. main = "suspended"
    BY <2>1, FileStepEffect DEF UpdateInOrder
  <2>3. /\ committed' = committed
        /\ http' \in Before => http \in Before
        /\ bootInfo' = bootInfo \/ http = "create"
        /\ http' \in Booted => http \in Booted \/ bootInfo'
        /\ \/ fileState' \in {fileState, "none"} /\ image' = image
           \/ fileState' = "open" /\ http = "open" /\ http' = "transfer"
           \/ fileState' = "closed" /\ image' = image /\ http = "close" /\ http' = "reset"
    BY <2>1, FileStepEffect
  <2>4. bootInfo => bootInfo' \/ (http = "create" /\ fileState \notin {"open", "closed"})
    BY <2>3 DEF Before
  <2>5. CASE fileState' \in {fileState, "none"} /\ image' = image
    BY <2>1, <2>2, <2>3, <2>4, <2>5 DEF Booted, Before
  <2>6. CASE fileState' = "open" /\ http = "open" /\ http' = "transfer"
    BY <2>1, <2>2, <2>3, <2>6 DEF Booted, Before
  <2>7. CASE fileState' = "closed" /\ image' = image /\ http = "close" /\ http' = "reset"
    BY <2>1, <2>2, <2>3, <2>7 DEF Booted, Before
  <2> QED BY <2>3, <2>5, <2>6, <2>7
<1>6. CASE ResetDevice \/ PowerCut \/ WatchdogExpires
  <2>1. /\ Boot /\ fileState' \in {"none", "broken", "pending"}
        /\ fileState' = "pending" => fileState \in {"pending", "closed"}
    BY <1>6 DEF ResetDevice, PowerCut, WatchdogExpires, AfterReset, FileTyped
  <2>2. /\ running' = IF fileState' = "pending" THEN image ELSE committed
        /\ watchdog' = (fileState' = "pending" /\ bootInfo)
        /\ main' = "start" /\ http' = "idle"
        /\ UNCHANGED <<committed, image, bootInfo>>
    BY <2>1 DEF Boot, FreshContext
  <2> QED BY <2>1, <2>2
<1>7. CASE UNCHANGED vars
  BY <1>7, <1>others DEF vars
<1> QED BY <1>1, <1>2, <1>3, <1>4, <1>5, <1>6, <1>7 DEF Next, MainStep

LEMMA UpdateInit == Init => UpdateInv
<1> SUFFICES ASSUME Init PROVE UpdateInv
  OBVIOUS
<1> USE OTAFileAssumption, FirmwareUpdateAssumption DEF Init, FileInit
<1>1. FileTyped
  <2>1. content \in [Offsets -> Offsets \cup {Empty}]
    OBVIOUS
  <2>2. failures \in 0..MaxFailures
    OBVIOUS
  <2> QED BY <2>1, <2>2 DEF FileTyped, Before
<1>2. RetriesBounded
  BY DEF RetriesBounded, MaxCreateRetries
<1>3. BlockPlaced /\ BlockStored
  <2>1. /\ NoBlock \in [from : Nat, offset : Nat, size : 0..MaxChunk, done : Nat,
                        status : {"none", "writing", "stored", "failed"}]
        /\ NoBlock.from = 0 /\ NoBlock.offset = 0 /\ NoBlock.size = 0 /\ NoBlock.done = 0
    BY DEF NoBlock
  <2> QED BY <2>1 DEF BlockPlaced, BlockStored
<1>4. ParserInv
  <2>1. IsParser(FreshParser) /\ FreshParser.prevDataCallback = "NULL"
    BY DEF IsParser, FreshParser
  <2>2. FreshParser.partDataType = "unknown"
    BY DEF FreshParser
  <2> QED BY <2>1, <2>2 DEF ParserInv, PartTakenAsDeclared, SignatureSize
<1>5. TasksTyped
  <2>1. uploads \in 0..MaxUploads /\ cuts \in 0..MaxPowerCuts
    OBVIOUS
  <2>2. running \in Images /\ upload \in Images
    OBVIOUS
  <2> QED BY <2>1, <2>2 DEF TasksTyped
<1>6. UpdateInOrder /\ ImagesKept
  BY DEF UpdateInOrder, ImagesKept, WatchdogGuards, Booted
<1> QED BY <1>1, <1>2, <1>3, <1>4, <1>5, <1>6 DEF UpdateInv, TransferInv

LEMMA Invariant == Spec => []UpdateInv
<1>1. UpdateInv /\ [Next]_vars => UpdateInv'
  <2> SUFFICES ASSUME UpdateInv, [Next]_vars PROVE UpdateInv'
    OBVIOUS
  <2>1. TransferInv /\ ParserInv /\ TasksTyped /\ UpdateInOrder /\ ImagesKept /\ FileTyped
    BY DEF UpdateInv, TransferInv
  <2>2. TransferInv' /\ ParserInv'
    BY <2>1, FileInvStep
  <2>3. TasksTyped' /\ UpdateInOrder' /\ ImagesKept'
    BY <2>1, TypedStep, OrderStep, ImagesStep
  <2> QED BY <2>2, <2>3 DEF UpdateInv
<1> QED BY <1>1, UpdateInit, PTL DEF Spec

(***************************************************************************)
(* The theorems.                                                           *)
(***************************************************************************)

\* Type correctness: in particular offsets, counts and retries stay in range,
\* for images, chunks and retry limits of every size.
THEOREM TypeCorrect == Spec => []TypeOK
<1>1. UpdateInv => TypeOK
  <2> SUFFICES ASSUME UpdateInv PROVE TypeOK
    OBVIOUS
  <2>1. FileTyped /\ RetriesBounded /\ BlockPlaced /\ ParserInv /\ TasksTyped
    BY DEF UpdateInv, TransferInv
  <2>2. /\ block \in [from : 0..ImageSize, offset : 0..ImageSize, size : 0..MaxChunk,
                      done : 0..MaxChunk, status : {"none", "writing", "stored", "failed"}]
        /\ otaFileSize \in 0..ImageSize /\ received \in 0..ImageSize
    <3>1. /\ block \in [from : Nat, offset : Nat, size : 0..MaxChunk, done : Nat,
                        status : {"none", "writing", "stored", "failed"}]
          /\ block.done <= block.size /\ block.offset <= block.from
          /\ block.from + block.size <= received /\ received \in 0..ImageSize
          /\ otaFileSize \in Nat /\ otaFileSize <= received
      BY <2>1 DEF BlockPlaced
    <3>2. /\ block.from \in Nat /\ block.offset \in Nat /\ block.size \in 0..MaxChunk
          /\ block.done \in Nat
      BY <3>1
    <3>3. /\ block.from \in 0..ImageSize /\ block.offset \in 0..ImageSize
          /\ block.done \in 0..MaxChunk
          /\ otaFileSize \in 0..ImageSize
      BY <3>1, <3>2, OTAFileAssumption
    <3> QED BY <3>1, <3>2, <3>3
  <2>3. FileTypeOK
    BY <2>1, <2>2 DEF FileTypeOK, FileTyped, RetriesBounded, ParserInv, IsParser, Before
  <2> QED BY <2>1, <2>3 DEF TypeOK, TasksTyped
<1> QED BY <1>1, Invariant, PTL

\* The receive file is open only while the main task and the UART task are
\* suspended: MainTask notifies the HTTP task when it is done, and not before.
THEOREM NothingElseRuns == Spec => []UpdatesAlone
<1>1. UpdateInv => UpdatesAlone
  BY DEF UpdateInv, UpdateInOrder, UpdatesAlone, Before
<1> QED BY <1>1, Invariant, PTL

\* Whenever power fails, the image the device goes back to has come up before.
THEOREM CommittedWorks == Spec => []CommittedImageWorks
<1>1. UpdateInv => CommittedImageWorks
  BY DEF UpdateInv, ImagesKept, CommittedImageWorks
<1> QED BY <1>1, Invariant, PTL

\* And the one that runs has, or runs under the watchdog timer: no failure to
\* write the boot info file lets an image start without it.
THEOREM WatchdogAlwaysGuards == Spec => []WatchdogGuards
<1>1. UpdateInv => WatchdogGuards
  BY DEF UpdateInv, ImagesKept
<1> QED BY <1>1, Invariant, PTL

\* The retries of HAPPlatformOTAWriteBlock store each byte in its place.
THEOREM BlocksStored == Spec => []BlockStored
<1>1. UpdateInv => BlockStored
  BY DEF UpdateInv, TransferInv
<1> QED BY <1>1, Invariant, PTL

\* The callbacks of the multipart parser put together what comes in pieces,
\* and take each part for what it is.
THEOREM PartsTaken == Spec => []PartTakenAsDeclared
<1>1. UpdateInv => PartTakenAsDeclared
  BY DEF UpdateInv, ParserInv
<1> QED BY <1>1, Invariant, PTL
===============
