------------------------------ MODULE OTAFile ------------------------------
(***************************************************************************)
(* HAPPlatformOTA.c and the callback of app/OTA.c that feeds it: the HTTP  *)
(* task opens the receive file of a firmware image, writes it block by     *)
(* block and closes or aborts it.  Of the bytes of the image the model     *)
(* keeps their index.                                                      *)
(*                                                                         *)
(* The request has a part for the image and one for its signature, and may *)
(* have another.  The multipart parser is external: it hands the header    *)
(* lines to callbacks in pieces, cut wherever a chunk ends.  No other task *)
(* runs meanwhile, so that a part's headers are one step.  A client's      *)
(* headers fit in the buffers, and each part has a Content-Disposition.    *)
(*                                                                         *)
(* The serial flash's file system is external: a file opened fail-safe     *)
(* replaces nothing until it is closed with a signature that matches; one  *)
(* that is closed waits for the network processor to stop, and then for a  *)
(* commit, and until the commit the device can go back.                    *)
(***************************************************************************)
EXTENDS Integers, Sequences

CONSTANTS
  Images,                \* what a client may upload
  Factory,               \* the image the device is delivered with
  ImageSize,             \* bytes of an image
  MaxChunk,              \* bytes of the file in one chunk of the request
  MaxBlockWriteRetries,  \* kOTA_MaxBlockWriteRetries
  MaxFailures            \* bound: calls to the file system that fail or
                         \* write less than they were asked to

ASSUME OTAFileAssumption ==
  /\ Factory \in Images
  /\ ImageSize \in Nat \ {0}
  /\ MaxChunk \in Nat \ {0}
  /\ MaxBlockWriteRetries \in Nat
  /\ MaxFailures \in Nat

VARIABLES
  committed,       \* the image the device goes back to
  fileState,       \* state of the receive file, and of its bundle
  image,           \* the image the receive file is of
  content,         \* content[o] is the byte stored at offset o, or Empty
  bootInfo,        \* the boot info file configures the watchdog timer
  fileDescriptor,  \* otaContext.fileDescriptor >= 0
  otaFileSize,
  received,        \* bytes of the file part received
  block,           \* the latest call of HAPPlatformOTAWriteBlock
  parser,          \* what the callbacks of the multipart parser keep
  part, parts,     \* the part of the request that arrives, and all so far
  signatureSize,   \* otaContext.signatureSize
  retry,           \* its counter, and the one of HAPPlatformOTACreate
  http,            \* where the HTTP task is
  failures         \* how much of MaxFailures is used

flashVars == <<committed, fileState, image, content, bootInfo>>
requestVars == <<parser, part, parts, signatureSize>>
progressVars == <<otaFileSize, received, block, requestVars>>
contextVars == <<fileDescriptor, retry, progressVars>>
fileVars == <<flashVars, contextVars, http, failures>>

Offsets == 0..(ImageSize - 1)
Empty == -1
MaxCreateRetries == 1
NoBlock == [from |-> 0, offset |-> 0, size |-> 0, done |-> 0, status |-> "none"]
Parts == {"file", "signature", "other"}
SignatureSize == 2
FreshParser ==
  [prevDataCallback |-> "NULL", headerField |-> <<>>, contentDisposition |-> <<>>,
   contentDispositionMatch |-> FALSE, partDataType |-> "unknown"]

\* The context of a device that has just started.
FreshContext ==
  /\ fileDescriptor' = FALSE
  /\ otaFileSize' = 0
  /\ received' = 0
  /\ block' = NoBlock
  /\ parser' = FreshParser /\ part' = "none" /\ parts' = {}
  /\ signatureSize' = 0
  /\ retry' = 0
  /\ http' = "idle"

FileInit ==
  /\ committed = Factory
  /\ fileState = "none"
  /\ image = Factory
  /\ content = [o \in Offsets |-> Empty]
  /\ bootInfo = FALSE
  /\ fileDescriptor = FALSE
  /\ otaFileSize = 0
  /\ received = 0
  /\ block = NoBlock
  /\ parser = FreshParser /\ part = "none" /\ parts = {}
  /\ signatureSize = 0
  /\ retry = 0
  /\ http = "idle"
  /\ failures = 0

Fails == failures < MaxFailures /\ failures' = failures + 1

-----------------------------------------------------------------------------
(* HAPPlatformOTACreate *)

\* Mutant: the image is received whether or not the file could be written.
BootInfoUnchecked ==
  /\ http = "create"
  /\ \/ bootInfo' = TRUE /\ UNCHANGED failures
     \/ bootInfo' \in {bootInfo, FALSE} /\ Fails
  /\ http' = "open"
  /\ retry' = 0
  /\ UNCHANGED <<committed, fileState, image, content, fileDescriptor, progressVars>>

\* A failure leaves the old boot info file, or none that is of use.
CreateBootInfoFile ==
  /\ http = "create"
  /\ \/ bootInfo' = TRUE /\ http' = "open" /\ UNCHANGED failures
     \/ bootInfo' \in {bootInfo, FALSE} /\ http' = "abort" /\ Fails
  /\ retry' = 0
  /\ UNCHANGED <<committed, fileState, image, content, fileDescriptor, progressVars>>

OpenSucceeds(upload) ==
  /\ http = "open"
  /\ fileState = "none"
  /\ fileState' = "open"
  /\ image' = upload
  /\ content' = [o \in Offsets |-> Empty]
  /\ fileDescriptor' = TRUE
  /\ http' = "transfer"
  /\ UNCHANGED <<committed, bootInfo, progressVars, retry, failures>>

\* After a failure the reason is dealt with, and the file is opened again: a
\* file that was not closed is deleted (DeleteRxFile), one that waits for a
\* commit is rolled back (RollbackRxFile), which may fail in turn.
OpenFails ==
  /\ http = "open"
  /\ \/ fileState \in {"broken", "pending"} /\ fileState' = "none" /\ UNCHANGED failures
     \/ fileState' = fileState /\ Fails
  /\ retry' = retry + 1
  /\ http' = IF retry' <= MaxCreateRetries THEN "open" ELSE "abort"
  /\ UNCHANGED <<committed, image, content, bootInfo, fileDescriptor, progressVars>>

-----------------------------------------------------------------------------
(* The headers of a part *)

\* A header's name and its value, each in the two pieces it can be cut into.
ContentDisposition(p) ==
  [field |-> <<"Content-Dis", "position">>, value |-> <<"form-data; name=", p>>]
ContentType == [field |-> <<"Content-", "Type">>, value |-> <<"application/", "octet-stream">>]

\* Mutant: each piece of a name is taken for a name.
OnHeaderPiece(s, data) ==
  [s EXCEPT !.headerField = data, !.prevDataCallback = "OnHeaderFieldCallback"]

OnHeaderFieldCallback(s, data) ==
  LET before == IF s.prevDataCallback # "OnHeaderFieldCallback" THEN <<>> ELSE s.headerField
  IN  [s EXCEPT !.headerField = before \o data, !.prevDataCallback = "OnHeaderFieldCallback"]

IsContentDisposition(field) == field = <<"Content-Dis", "position">>

OnHeaderValueCallback(s, data) ==
  LET first  == s.prevDataCallback = "OnHeaderFieldCallback"
      match  == IF first THEN IsContentDisposition(s.headerField) ELSE s.contentDispositionMatch
      before == IF first THEN <<>> ELSE s.contentDisposition
  IN  [s EXCEPT !.contentDispositionMatch = match,
                !.contentDisposition = IF match THEN before \o data ELSE @,
                !.prevDataCallback = "OnHeaderValueCallback"]

OnHeadersCompleteCallback(s) ==
  [s EXCEPT !.partDataType =
     CASE s.contentDisposition = <<"form-data; name=", "file">> -> "file"
       [] s.contentDisposition = <<"form-data; name=", "signature">> -> "signature"
       [] OTHER -> "unknown"]

\* What the callbacks make of a name and of a value, whole or cut in two.
OnName(s, name) ==
  {OnHeaderFieldCallback(s, name),
   OnHeaderFieldCallback(OnHeaderFieldCallback(s, <<name[1]>>), <<name[2]>>)}

OnValue(s, value) ==
  {OnHeaderValueCallback(s, value),
   OnHeaderValueCallback(OnHeaderValueCallback(s, <<value[1]>>), <<value[2]>>)}

OnHeader(s, header) == UNION {OnValue(t, header.value) : t \in OnName(s, header.field)}

\* Content-Disposition alone, or with another header before or after it.
OnHeaders(s, p) ==
  LET disposition == OnHeader(s, ContentDisposition(p))
      typeAfter == UNION {OnHeader(t, ContentType) : t \in disposition}
      typeBefore == UNION {OnHeader(t, ContentDisposition(p)) : t \in OnHeader(s, ContentType)}
  IN  disposition \cup typeAfter \cup typeBefore

\* Each part comes once, in any order.
ReceiveHeaders(p) ==
  /\ http = "transfer"
  /\ p \notin parts
  /\ parts' = parts \cup {p}
  /\ part' = p
  /\ \E s \in OnHeaders(parser, p) : parser' = OnHeadersCompleteCallback(s)
  /\ otaFileSize' = IF parser'.partDataType = "file" THEN 0 ELSE otaFileSize
  /\ signatureSize' = IF parser'.partDataType = "signature" THEN 0 ELSE signatureSize
  /\ UNCHANGED <<flashVars, fileDescriptor, retry, received, block, http, failures>>

OnData == parser' = [parser EXCEPT !.prevDataCallback = "OnDataCallback"]

\* The bytes of the signature are gathered, those of other parts ignored.
ReceiveOtherData(size) ==
  /\ http = "transfer"
  /\ part \in {"signature", "other"}
  /\ OnData
  /\ IF parser.partDataType = "signature"
     THEN signatureSize + size <= SignatureSize /\ signatureSize' = signatureSize + size
     ELSE UNCHANGED signatureSize
  /\ UNCHANGED <<flashVars, fileDescriptor, retry, otaFileSize, received, block, part, parts, http,
                 failures>>

-----------------------------------------------------------------------------
(* The transfer: OTAPutCallback, OnDataCallback, HAPPlatformOTAWriteBlock *)

NextBlock(size) ==
  [from |-> received, offset |-> otaFileSize, size |-> size, done |-> 0, status |-> "writing"]

\* Mutant: the counter of retries is not started over.
RetriesKept(size) ==
  /\ http = "transfer"
  /\ part = "file" /\ parser.partDataType = "file"
  /\ received + size <= ImageSize
  /\ received' = received + size
  /\ block' = NextBlock(size)
  /\ OnData
  /\ http' = "write"
  /\ UNCHANGED <<flashVars, fileDescriptor, otaFileSize, part, parts, signatureSize, retry, failures>>

ReceiveChunk(size) ==
  /\ http = "transfer"
  /\ part = "file" /\ parser.partDataType = "file"
  /\ received + size <= ImageSize
  /\ received' = received + size
  /\ block' = NextBlock(size)
  /\ retry' = 0
  /\ OnData
  /\ http' = "write"
  /\ UNCHANGED <<flashVars, fileDescriptor, otaFileSize, part, parts, signatureSize, failures>>

\* Mutant: a retry writes at the block's own offset.
AtBlockStart == block.offset

Target == block.offset + block.done

\* sl_FsWrite stores the next n bytes of the block.
Stored(n) ==
  [o \in Offsets |->
     IF o \in Target..(Target + n - 1) THEN block.from + block.done + (o - Target) ELSE content[o]]

Left == block.size - block.done

\* The block's last write: its own count is what HAPPlatformOTAWriteBlock
\* returns, and what OnDataCallback adds to otaFileSize.
WriteRest ==
  /\ http = "write"
  /\ content' = Stored(Left)
  /\ block' = [block EXCEPT !.done = block.size, !.status = "stored"]
  /\ otaFileSize' = otaFileSize + Left
  /\ http' = "transfer"
  /\ UNCHANGED <<committed, fileState, image, bootInfo, fileDescriptor, received, requestVars, retry,
                 failures>>

\* A write that stores n bytes of more, or fails (n = 0).  After the last
\* retry HAPPlatformOTAWriteBlock returns an error, which OnDataCallback
\* ignores: the block is skipped.
WritePart(n) ==
  /\ http = "write"
  /\ n < Left
  /\ Fails
  /\ content' = Stored(n)
  /\ retry' = retry + 1
  /\ IF retry < MaxBlockWriteRetries
     THEN block' = [block EXCEPT !.done = @ + n] /\ http' = "write"
     ELSE block' = [block EXCEPT !.done = @ + n, !.status = "failed"] /\ http' = "transfer"
  /\ UNCHANGED <<committed, fileState, image, bootInfo, fileDescriptor, otaFileSize, received,
                 requestVars>>

\* The request's last chunk was received, or no other can be.
TransferEnds ==
  /\ http = "transfer"
  /\ http' \in {"respond", "abort"}
  /\ UNCHANGED <<flashVars, contextVars, failures>>

-----------------------------------------------------------------------------
(* HAPPlatformOTAClose and HAPPlatformOTAAbort, whose results are ignored *)

Whole == signatureSize = SignatureSize /\ \A o \in Offsets : content[o] = o

Close ==
  /\ http = "close"
  /\ \/ Whole /\ fileState' = "closed" /\ UNCHANGED failures
     \/ ~Whole /\ fileState' = "none" /\ UNCHANGED failures
     \/ fileState' = "none" /\ Fails
  /\ http' = "reset"
  /\ UNCHANGED <<committed, image, content, bootInfo, contextVars>>

\* RollbackBundle finds no bundle to roll back: opening the file did it.
Abort ==
  /\ http = "abort"
  /\ IF fileDescriptor
     THEN \/ fileState' = "none" /\ UNCHANGED failures
          \/ fileState' = fileState /\ Fails
     ELSE UNCHANGED <<fileState, failures>>
  /\ fileDescriptor' = FALSE
  /\ http' = "reset"
  /\ UNCHANGED <<committed, image, content, bootInfo, progressVars, retry>>

FileStep(upload) ==
  \/ CreateBootInfoFile
  \/ OpenSucceeds(upload)
  \/ OpenFails
  \/ \E p \in Parts : ReceiveHeaders(p)
  \/ \E size \in 1..MaxChunk : ReceiveChunk(size) \/ ReceiveOtherData(size)
  \/ WriteRest
  \/ \E n \in 0..MaxChunk : WritePart(n)
  \/ TransferEnds
  \/ Close
  \/ Abort

-----------------------------------------------------------------------------
(* Properties *)

FileTypeOK ==
  /\ {committed, image} \subseteq Images
  /\ fileState \in {"none", "open", "broken", "closed", "pending"}
  /\ content \in [Offsets -> Offsets \cup {Empty}]
  /\ bootInfo \in BOOLEAN
  /\ fileDescriptor \in BOOLEAN
  /\ otaFileSize \in 0..ImageSize
  /\ received \in 0..ImageSize
  /\ block \in [from : 0..ImageSize, offset : 0..ImageSize, size : 0..MaxChunk, done : 0..MaxChunk,
                status : {"none", "writing", "stored", "failed"}]
  /\ parser.prevDataCallback \in {"NULL", "OnHeaderFieldCallback", "OnHeaderValueCallback",
                                 "OnDataCallback"}
  /\ parser.contentDispositionMatch \in BOOLEAN
  /\ parser.partDataType \in {"unknown", "file", "signature"}
  /\ part \in Parts \cup {"none"}
  /\ parts \subseteq Parts
  /\ signatureSize \in 0..SignatureSize
  /\ retry \in Nat
  /\ retry <= MaxCreateRetries + 1 \/ retry <= MaxBlockWriteRetries + 1
  /\ http \in {"idle", "await", "quiet", "create", "open", "transfer", "write", "respond",
               "close", "abort", "reset"}
  /\ failures \in 0..MaxFailures

\* HAPPlatformOTAWriteBlock stores the bytes of a block one after the other
\* from the block's offset, however its writes are cut short and retried.
BlockStored ==
  \A i \in 0..(block.done - 1) : content[block.offset + i] = block.from + i

\* The data of a part is taken for what the part's own Content-Disposition
\* says, whatever came before it, in whatever order its headers come, and
\* wherever the parser's callbacks get them cut in pieces.
PartTakenAsDeclared ==
  part # "none" => parser.partDataType = IF part = "other" THEN "unknown" ELSE part

\* On success HAPPlatformOTAWriteBlock returns the number of bytes written,
\* so that otaFileSize grows by the size of the block.
WriteBlockReturnsCount ==
  [][block.status = "writing" /\ block'.status = "stored"
       => otaFileSize' = otaFileSize + block.size]_fileVars
=============================================================================
