--------------------------- MODULE KeyValueStore ---------------------------
(***************************************************************************)
(* HAPPlatformKeyValueStore.c: one file for each value, called from the    *)
(* main task only.  Enumerating a domain reads the list of all files in    *)
(* chunks, while the callback of a purge removes the files it is given.    *)
(* Power may fail at any time.                                             *)
(*                                                                         *)
(* The file system is external.  Files lie in slots and are listed in      *)
(* order of their slots; opening or deleting a file that is open fails; a  *)
(* file opened for writing keeps its value until it is closed, and a new   *)
(* one that never is remains broken: it can only be deleted.  Any call to  *)
(* the file system may fail, the one that closes a file as well.           *)
(***************************************************************************)
EXTENDS Integers, FiniteSets

CONSTANTS
  Names,        \* pairs of a domain and a key
  MaxLength,    \* the longest value
  NumSlots,     \* the slots of the file system
  ChunkSize,    \* length of the array entries, 5 in the code
  MaxFailures,  \* bound: calls to the file system that fail
  MaxPowerCuts  \* bound: power cuts

ASSUME KeyValueStoreAssumption ==
  /\ Names \subseteq Nat \X Nat
  /\ MaxLength \in Nat \ {0}
  /\ NumSlots \in Nat
  /\ ChunkSize \in Nat \ {0}
  /\ MaxFailures \in Nat
  /\ MaxPowerCuts \in Nat

VARIABLES
  files,       \* the file in each slot, or Free
  op,          \* the call in progress, or NoOp
  chunkIndex,  \* where the list of files goes on
  entries,     \* slots of the listed files not yet looked at, in their order
  result,      \* what the latest call returned
  failures, cuts

listVars == <<chunkIndex, entries>>
vars == <<files, op, listVars, result, failures, cuts>>

Slots == 1..NumSlots
Values == 1..MaxLength
None == 0
Free == [name |-> <<>>, value |-> None, state |-> "free"]
NoOp == [call |-> "none"]
NoResult == [call |-> "none", ok |-> TRUE]
Domains == {n[1] : n \in Names}

Init ==
  /\ files = [s \in Slots |-> Free]
  /\ op = NoOp
  /\ chunkIndex = 0
  /\ entries = {}
  /\ result = NoResult
  /\ failures = 0
  /\ cuts = 0

SlotsOf(n) == {s \in Slots : files[s].name = n}
FileExists(n) == SlotsOf(n) # {}
SlotOf(n) == CHOOSE s \in Slots : files[s].name = n
IsClosed(n) == FileExists(n) /\ files[SlotOf(n)].state = "closed"

\* The store is called again when the caller has seen the last result.
Idle == op = NoOp /\ result = NoResult

Fails == failures < MaxFailures /\ failures' = failures + 1
Returns(call, ok) == result' = [call |-> call, ok |-> ok]

\* What becomes of a file that loses power: one left open gets its value
\* back, if it ever had one.
AfterPowerCut(f) ==
  CASE f.state = "open" /\ f.value # None -> {[f EXCEPT !.state = "closed"]}
    [] f.state = "open" /\ f.value = None -> {[f EXCEPT !.state = "broken"], Free}
    [] OTHER -> {f}

\* A file that sl_FsClose failed to close stays open, or is given up.
AfterFailedClose(f) == {f} \cup AfterPowerCut(f)

-----------------------------------------------------------------------------
(* HAPPlatformKeyValueStoreGet *)

\* Mutant: the buffer has room for any value.
WholeValue(value, max) == value

\* What of a value fits a buffer of size max: a value is its length here.
Beginning(value, max) == IF value <= max THEN value ELSE max

\* Opened and read, the file is closed again; that this fails is ignored.
ReadAndClosed(n) ==
  \/ UNCHANGED <<files, failures>>
  \/ /\ Fails
     /\ files' \in {files, [files EXCEPT ![SlotOf(n)].state = "open"]}

\* As many bytes as fit are read into a buffer of size max, which is what
\* numBytes says.
GetSucceeds(n, max) ==
  /\ IsClosed(n)
  /\ ReadAndClosed(n)
  /\ result' = [call |-> "get", ok |-> TRUE, found |-> TRUE,
                value |-> Beginning(files[SlotOf(n)].value, max), numBytes |-> max]

GetFindsNothing(n) ==
  /\ ~FileExists(n)
  /\ result' = [call |-> "get", ok |-> TRUE, found |-> FALSE, value |-> None]
  /\ UNCHANGED <<files, failures>>

GetCannotOpen(n) ==
  /\ Returns("get", FALSE)
  /\ IF FileExists(n) /\ ~IsClosed(n) THEN UNCHANGED failures ELSE Fails
  /\ UNCHANGED files

\* A file that cannot be read is not closed.
GetCannotRead(n) ==
  /\ IsClosed(n)
  /\ Fails
  /\ files' = [files EXCEPT ![SlotOf(n)].state = "open"]
  /\ Returns("get", FALSE)

Get(n, max) ==
  /\ Idle
  /\ GetSucceeds(n, max) \/ GetFindsNothing(n) \/ GetCannotOpen(n) \/ GetCannotRead(n)
  /\ UNCHANGED <<op, listVars, cuts>>

-----------------------------------------------------------------------------
(* HAPPlatformKeyValueStoreSet *)

SetOpens(n, v) ==
  /\ Idle
  /\ \/ /\ IsClosed(n)
        /\ files' = [files EXCEPT ![SlotOf(n)].state = "open"]
     \/ /\ ~FileExists(n)
        /\ \E s \in Slots :
             /\ files[s] = Free
             /\ files' = [files EXCEPT ![s] = [name |-> n, value |-> None, state |-> "open"]]
  /\ op' = [call |-> "set", name |-> n, value |-> v, step |-> "write"]
  /\ UNCHANGED <<listVars, result, failures, cuts>>

SetCannotOpen(n) ==
  /\ Idle
  /\ IF \/ FileExists(n) /\ ~IsClosed(n)
        \/ ~FileExists(n) /\ \A s \in Slots : files[s] # Free
     THEN UNCHANGED failures
     ELSE Fails
  /\ Returns("set", FALSE)
  /\ UNCHANGED <<files, op, listVars, cuts>>

SetWrites ==
  /\ op.call = "set" /\ op.step = "write"
  /\ op' = [op EXCEPT !.step = "close"]
  /\ UNCHANGED <<files, listVars, result, failures, cuts>>

\* A file that cannot be written is not closed.
SetCannotWrite ==
  /\ op.call = "set" /\ op.step = "write"
  /\ Fails
  /\ op' = NoOp
  /\ Returns("set", FALSE)
  /\ UNCHANGED <<files, listVars, cuts>>

\* Mutant: the file is not closed.
LeftOpen(n, v) == files[SlotOf(n)]

\* The file as sl_FsClose leaves it.
Closed(n, v) == [name |-> n, value |-> v, state |-> "closed"]

FileIsClosed(n, v) ==
  /\ files' = [files EXCEPT ![SlotOf(n)] = Closed(n, v)]
  /\ UNCHANGED failures

\* The value stays what it was, if there was one.
CloseFails(n) ==
  /\ Fails
  /\ \E f \in AfterFailedClose(files[SlotOf(n)]) : files' = [files EXCEPT ![SlotOf(n)] = f]

\* That sl_FsClose fails is ignored.
SetCloses ==
  /\ op.call = "set" /\ op.step = "close"
  /\ FileIsClosed(op.name, op.value) \/ CloseFails(op.name)
  /\ op' = NoOp
  /\ Returns("set", TRUE)
  /\ UNCHANGED <<listVars, cuts>>

-----------------------------------------------------------------------------
(* HAPPlatformKeyValueStoreRemove *)

CanDelete(n) == FileExists(n) /\ files[SlotOf(n)].state # "open"
Deleted(n) == files' = [files EXCEPT ![SlotOf(n)] = Free] /\ UNCHANGED failures
CannotDelete(n) ==
  /\ IF FileExists(n) /\ ~CanDelete(n) THEN UNCHANGED failures ELSE Fails
  /\ UNCHANGED files

\* That there is no file to delete is no error.
Remove(n) ==
  /\ Idle
  /\ \/ CanDelete(n) /\ Deleted(n) /\ Returns("remove", TRUE)
     \/ ~FileExists(n) /\ UNCHANGED <<files, failures>> /\ Returns("remove", TRUE)
     \/ CannotDelete(n) /\ Returns("remove", FALSE)
  /\ UNCHANGED <<op, listVars, cuts>>

-----------------------------------------------------------------------------
(* HAPPlatformKeyValueStorePurgeDomain and Enumerate *)

\* Mutant: the list is read from its second slot.
AfterFirstSlot == 1

\* Where the list of files begins, -1 in the code.
ListStart == 0

PurgeDomain(d) ==
  /\ Idle
  /\ op' = [call |-> "purge", domain |-> d]
  /\ chunkIndex' = ListStart
  /\ entries' = {}
  /\ UNCHANGED <<files, result, failures, cuts>>

\* The rest of the list.
Listed == {s \in Slots : s > chunkIndex /\ files[s] # Free}

\* Mutant: all files are listed at once.
AllFiles == {Listed} \ {{}}

\* What sl_FsGetFileList may put into the array: the rest of the list as far
\* as it fits, or less.
NextFiles ==
  {chunk \in SUBSET Listed :
     /\ chunk # {} /\ Cardinality(chunk) <= ChunkSize
     /\ \A s \in chunk, t \in Listed : t < s => t \in chunk}

\* Mutant: the list is read from its beginning each time.
FirstChunk(chunk) == {0}

\* sl_FsGetFileList leaves in chunkIndex the last slot it listed.
ChunkEnd(chunk) == {s \in chunk : \A t \in chunk : t <= s}

PurgeReturns(ok) == op' = NoOp /\ Returns("purge", ok)

ListFiles ==
  /\ op.call = "purge"
  /\ entries = {}
  /\ \/ /\ entries' \in NextFiles
        /\ chunkIndex' \in ChunkEnd(entries')
        /\ UNCHANGED <<op, result, failures>>
     \/ Listed = {} /\ PurgeReturns(TRUE) /\ UNCHANGED <<listVars, failures>>
     \/ Fails /\ PurgeReturns(FALSE) /\ UNCHANGED listVars
  /\ UNCHANGED <<files, cuts>>

\* The entry tells the file's name, which PurgeDomainEnumerateCallback passes
\* to HAPPlatformKeyValueStoreRemove if it is of the domain.
VisitEntry ==
  /\ op.call = "purge"
  /\ \E s \in entries :
       LET n == files[s].name IN
       /\ \A t \in entries : s <= t
       /\ entries' = entries \ {s}
       /\ \/ n[1] # op.domain /\ UNCHANGED <<files, op, result, failures>>
          \/ n[1] = op.domain /\ CanDelete(n) /\ Deleted(n) /\ UNCHANGED <<op, result>>
          \/ n[1] = op.domain /\ CannotDelete(n) /\ PurgeReturns(FALSE)
  /\ UNCHANGED <<chunkIndex, cuts>>

-----------------------------------------------------------------------------
PowerCut ==
  /\ cuts < MaxPowerCuts
  /\ cuts' = cuts + 1
  /\ files' \in {f \in [Slots -> UNION {AfterPowerCut(files[s]) : s \in Slots}] :
                   \A s \in Slots : f[s] \in AfterPowerCut(files[s])}
  /\ op' = NoOp
  /\ chunkIndex' = 0
  /\ entries' = {}
  /\ result' = NoResult
  /\ UNCHANGED failures

ResultSeen ==
  /\ result # NoResult
  /\ result' = NoResult
  /\ UNCHANGED <<files, op, listVars, failures, cuts>>

SetStep == SetWrites \/ SetCannotWrite \/ SetCloses
PurgeStep == ListFiles \/ VisitEntry

Next ==
  \/ \E n \in Names, max \in Values : Get(n, max)
  \/ \E n \in Names, v \in Values : SetOpens(n, v)
  \/ \E n \in Names : SetCannotOpen(n)
  \/ SetStep
  \/ \E n \in Names : Remove(n)
  \/ \E d \in Domains : PurgeDomain(d)
  \/ PurgeStep
  \/ ResultSeen
  \/ PowerCut

Spec == Init /\ [][Next]_vars

\* A call that was begun goes on.
FairSpec == Spec /\ WF_vars(SetStep) /\ WF_vars(PurgeStep)

-----------------------------------------------------------------------------
(* Properties *)

TypeOK ==
  /\ files \in [Slots -> [name : Names \cup {<<>>}, value : Values \cup {None},
                          state : {"free", "closed", "open", "broken"}]]
  /\ op \in {NoOp}
           \cup [call : {"set"}, name : Names, value : Values, step : {"write", "close"}]
           \cup [call : {"purge"}, domain : Domains]
  /\ chunkIndex \in Slots \cup {0}
  /\ entries \subseteq Slots /\ Cardinality(entries) <= ChunkSize
  /\ result.call \in {"none", "get", "set", "remove", "purge"}
  /\ failures \in 0..MaxFailures
  /\ cuts \in 0..MaxPowerCuts

\* The value stored under each name, and of a result what the caller may rely on.
contents == [n \in Names |-> IF FileExists(n) THEN files[SlotOf(n)].value ELSE None]
ShownResult ==
  IF result.call = "get" /\ result.ok
  THEN [call |-> "get", ok |-> TRUE, found |-> result.found, value |-> result.value]
  ELSE result

\* The store keeps what KeyValueMap promises, through failures and power cuts:
\* a name has the value of the latest Set that succeeded, unless its file could
\* not be closed; Get returns as much of it as fits; and a purge that succeeds
\* has emptied the domain though files go while they are listed.
Promised == INSTANCE KeyValueMap WITH contents <- contents, result <- ShownResult
KeepsStorePromises == Promised!Spec

\* No more files are left open than calls to the file system have failed, but
\* for the one that Set is writing.
OpenFiles == {s \in Slots : files[s].state = "open"}
FilesClosed == Cardinality(OpenFiles) <= failures + IF op.call = "set" THEN 1 ELSE 0

\* A purge comes to an end.
PurgeEnds == op.call = "purge" ~> op = NoOp

\* Get tells the length of what it put into the buffer.
GetReportsLength ==
  result.call = "get" /\ result.ok /\ result.found => result.numBytes = result.value
=============================================================================
