------------------------- MODULE KeyValueStoreProofs -------------------------
(***************************************************************************)
(* Theorems about KeyValueStore, for any names, values, slots and length   *)
(* of the list's chunks.                                                   *)
(*                                                                         *)
(* The state of the store is what its files say; StoreInv tells how files, *)
(* the call in progress and the list being gone through belong together.   *)
(***************************************************************************)
EXTENDS KeyValueStore, FiniteSetTheorems, TLAPS

Files == [name : Names \cup {<<>>}, value : Values \cup {None},
          state : {"free", "closed", "open", "broken"}]
SetCalls == [call : {"set"}, name : Names, value : Values, step : {"write", "close"}]
PurgeCalls == [call : {"purge"}, domain : Domains]

GoodFile(f) ==
  /\ f.state = "free" => f = Free
  /\ f.state # "free" => f.name \in Names
  /\ f.state = "closed" => f.value # None
  /\ f.state = "broken" => f.value = None

\* No two files have the same name.
FilesInv ==
  /\ files \in [Slots -> Files]
  /\ \A s \in Slots : GoodFile(files[s])
  /\ \A s, t \in Slots :
       s # t /\ files[s].state # "free" => files[s].name # files[t].name

\* The file that Set writes stays open.
SetInv == op.call = "set" => \E s \in Slots : files[s].name = op.name /\ files[s].state = "open"

\* The files of the domain that is purged and still there are yet to come.
PurgeInv ==
  op.call = "purge" =>
    /\ \A s \in entries : files[s].state # "free"
    /\ \A s \in Slots :
         files[s].state # "free" /\ files[s].name[1] = op.domain => s > chunkIndex \/ s \in entries

StoreInv == FilesInv /\ FilesClosed /\ SetInv /\ PurgeInv

-----------------------------------------------------------------------------
(* Open files *)

LEMMA OpenFinite ==
  /\ IsFiniteSet(OpenFiles) /\ Cardinality(OpenFiles) \in Nat
  /\ Cardinality(OpenFiles') \in Nat
<1>1. NumSlots \in Int /\ 1 \in Int
  BY KeyValueStoreAssumption
<1>2. IsFiniteSet(Slots)
  BY <1>1, FS_Interval DEF Slots
<1>3. IsFiniteSet(OpenFiles) /\ IsFiniteSet(OpenFiles')
  BY <1>2, FS_Subset DEF OpenFiles
<1> QED BY <1>3, FS_CardinalityType

LEMMA OpenFewer ==
  ASSUME OpenFiles' \subseteq OpenFiles
  PROVE  Cardinality(OpenFiles') <= Cardinality(OpenFiles)
BY OpenFinite, FS_Subset

LEMMA OpenOneMore ==
  ASSUME NEW s, OpenFiles' \subseteq OpenFiles \cup {s}
  PROVE  Cardinality(OpenFiles') <= Cardinality(OpenFiles) + 1
<1>1. /\ IsFiniteSet(OpenFiles \cup {s})
      /\ Cardinality(OpenFiles \cup {s}) \in {Cardinality(OpenFiles), Cardinality(OpenFiles) + 1}
  BY OpenFinite, FS_AddElement
<1>2. Cardinality(OpenFiles') <= Cardinality(OpenFiles \cup {s})
  BY <1>1, FS_Subset
<1> QED BY <1>1, <1>2, OpenFinite

LEMMA OpenOneLess ==
  ASSUME NEW s \in OpenFiles, OpenFiles' \subseteq OpenFiles \ {s}
  PROVE  Cardinality(OpenFiles') <= Cardinality(OpenFiles) - 1
<1>1. /\ IsFiniteSet(OpenFiles \ {s})
      /\ Cardinality(OpenFiles \ {s}) = Cardinality(OpenFiles) - 1
  BY OpenFinite, FS_RemoveElement
<1> QED BY <1>1, FS_Subset

\* A call that failed may leave one file more open, or the one it was writing.
LEMMA ClosedStep ==
  ASSUME TypeOK, FilesClosed,
         \/ /\ Cardinality(OpenFiles') <= Cardinality(OpenFiles)
            /\ failures' >= failures /\ failures' \in Nat
            /\ op'.call = "set" \/ op.call # "set" \/ failures' > failures
         \/ /\ Cardinality(OpenFiles') <= Cardinality(OpenFiles) + 1
            /\ op.call # "set"
            /\ \/ Fails
               \/ op'.call = "set" /\ UNCHANGED failures
         \/ /\ Cardinality(OpenFiles') <= Cardinality(OpenFiles) - 1
            /\ UNCHANGED failures
  PROVE  FilesClosed'
<1> DEFINE writing == IF op.call = "set" THEN 1 ELSE 0
<1>1. /\ Cardinality(OpenFiles) \in Nat /\ failures \in Nat
      /\ Cardinality(OpenFiles) <= failures + writing
  BY OpenFinite, KeyValueStoreAssumption DEF FilesClosed, TypeOK
<1>2. Cardinality(OpenFiles') \in Nat
  BY OpenFinite
<1>3. writing' = IF op'.call = "set" THEN 1 ELSE 0
  OBVIOUS
<1>4. Cardinality(OpenFiles') <= failures' + writing'
  BY <1>1, <1>2, <1>3 DEF Fails
<1> QED BY <1>4 DEF FilesClosed

-----------------------------------------------------------------------------
(* Files *)

LEMMA FreeFacts == <<>> \notin Names /\ Free \in Files /\ GoodFile(Free) /\ Free.value = None
<1>1. <<>> \notin Nat \X Nat
  OBVIOUS
<1>2. <<>> \notin Names
  BY <1>1, KeyValueStoreAssumption
<1> QED BY <1>2 DEF Free, Files, GoodFile

LEMMA SlotFacts ==
  ASSUME NEW n, FileExists(n)
  PROVE  SlotOf(n) \in Slots /\ files[SlotOf(n)].name = n
BY DEF FileExists, SlotsOf, SlotOf

\* The file of a name is the one with this name.
LEMMA OnlySlot ==
  ASSUME FilesInv, NEW n \in Names, NEW s \in Slots, files[s].name = n
  PROVE  FileExists(n) /\ SlotOf(n) = s /\ files[s].state # "free"
<1>1. FileExists(n)
  BY DEF FileExists, SlotsOf
<1>2. SlotOf(n) \in Slots /\ files[SlotOf(n)].name = n
  BY <1>1, SlotFacts
<1>3. files[s].state # "free"
  BY FreeFacts DEF FilesInv, GoodFile, Free
<1> QED BY <1>1, <1>2, <1>3 DEF FilesInv

\* The value stored under a name is that of its file.
ContentsOfFiles ==
  \A n \in Names :
    /\ \A s \in Slots : files[s].name = n => contents[n] = files[s].value
    /\ (\A s \in Slots : files[s].name # n) => contents[n] = None

LEMMA ContentsFacts == FilesInv => ContentsOfFiles
<1> SUFFICES ASSUME FilesInv, NEW n \in Names
             PROVE  /\ \A s \in Slots : files[s].name = n => contents[n] = files[s].value
                    /\ (\A s \in Slots : files[s].name # n) => contents[n] = None
  BY DEF ContentsOfFiles
<1>1. contents[n] = IF FileExists(n) THEN files[SlotOf(n)].value ELSE None
  BY DEF contents
<1>2. ASSUME NEW s \in Slots, files[s].name = n PROVE contents[n] = files[s].value
  BY <1>1, <1>2, OnlySlot
<1>3. ASSUME \A s \in Slots : files[s].name # n PROVE contents[n] = None
  BY <1>1, <1>3 DEF FileExists, SlotsOf
<1> QED BY <1>2, <1>3

\* The contents change where the files with a value do.
LEMMA ContentsChange ==
  ASSUME FilesInv, FilesInv', NEW n \in Names,
         \A s \in Slots : files[s].name = n /\ files[s].value # None
                            => files'[s].name = n /\ files'[s].value = files[s].value,
         \A s \in Slots : files'[s].name = n /\ files'[s].value # None
                            => files[s].name = n /\ files[s].value = files'[s].value
  PROVE  contents'[n] = contents[n]
<1> DEFINE kept == \E s \in Slots : files[s].name = n /\ files[s].value # None
<1>1. ContentsOfFiles
  BY ContentsFacts
<1>2. ContentsOfFiles'
  BY ContentsFacts, PTL
<1>3. CASE kept
  BY <1>1, <1>2, <1>3 DEF ContentsOfFiles
<1>4. CASE ~kept
  <2>1. contents[n] = None
    BY <1>1, <1>4 DEF ContentsOfFiles
  <2>2. contents'[n] = None
    BY <1>2, <1>4 DEF ContentsOfFiles
  <2> QED BY <2>1, <2>2
<1> QED BY <1>3, <1>4

\* One file becomes another.
LEMMA OneFile ==
  ASSUME FilesInv, NEW s \in Slots, NEW f \in Files, GoodFile(f),
         files' = [files EXCEPT ![s] = f],
         f.state # "free" => \A t \in Slots \ {s} : files[t].name # f.name
  PROVE  /\ FilesInv'
         /\ files'[s] = f /\ \A t \in Slots \ {s} : files'[t] = files[t]
<1>1. /\ files' \in [Slots -> Files]
      /\ files'[s] = f /\ \A t \in Slots \ {s} : files'[t] = files[t]
  BY DEF FilesInv
<1>2. ASSUME NEW t \in Slots PROVE GoodFile(files'[t])
  BY <1>1 DEF FilesInv
<1>3. ASSUME NEW t \in Slots, NEW u \in Slots, t # u, files'[t].state # "free"
      PROVE  files'[t].name # files'[u].name
  <2>1. CASE u = s
    <3>1. CASE f.state = "free"
      BY <1>1, <1>3, <2>1, <3>1, FreeFacts DEF FilesInv, GoodFile, Free
    <3>2. CASE f.state # "free"
      BY <1>1, <1>3, <2>1, <3>2
    <3> QED BY <3>1, <3>2
  <2>2. CASE t = s
    BY <1>1, <1>3, <2>2
  <2>3. CASE t # s /\ u # s
    BY <1>1, <1>3, <2>3 DEF FilesInv
  <2> QED BY <2>1, <2>2, <2>3
<1> QED BY <1>1, <1>2, <1>3 DEF FilesInv, GoodFile

\* A file is opened, to be written or by a call that forgets it.
LEMMA FileOpened ==
  ASSUME FilesInv, NEW n \in Names, IsClosed(n),
         files' = [files EXCEPT ![SlotOf(n)].state = "open"]
  PROVE  /\ FilesInv' /\ contents' = contents
         /\ \E s \in Slots : files'[s].name = n /\ files'[s].state = "open"
         /\ \E s : OpenFiles' \subseteq OpenFiles \cup {s}
<1> DEFINE s == SlotOf(n)
           f == [files[s] EXCEPT !.state = "open"]
<1>1. s \in Slots /\ files[s].name = n /\ files[s].state = "closed"
  BY SlotFacts DEF IsClosed
<1>2. files[s] \in Files
  BY <1>1 DEF FilesInv
<1>3. /\ f \in Files /\ f.name = n /\ f.value = files[s].value /\ f.state = "open"
      /\ GoodFile(f)
  BY <1>1, <1>2 DEF Files, GoodFile
<1>4. files' = [files EXCEPT ![s] = f]
  BY <1>1 DEF FilesInv
<1>5. \A t \in Slots \ {s} : files[t].name # f.name
  BY <1>1, <1>3 DEF FilesInv
<1> HIDE DEF s, f
<1>6. FilesInv' /\ files'[s] = f /\ \A t \in Slots \ {s} : files'[t] = files[t]
  BY <1>1, <1>3, <1>4, <1>5, OneFile
<1>7. ASSUME NEW m \in Names PROVE contents'[m] = contents[m]
  BY <1>1, <1>3, <1>6, ContentsChange
<1>8. contents' = contents
  BY <1>7 DEF contents
<1>9. OpenFiles' \subseteq OpenFiles \cup {s}
  BY <1>6 DEF OpenFiles
<1> QED BY <1>1, <1>3, <1>6, <1>8, <1>9

\* A file is made where none is.
LEMMA FileMade ==
  ASSUME FilesInv, NEW n \in Names, ~FileExists(n), NEW s \in Slots, files[s] = Free,
         files' = [files EXCEPT ![s] = [name |-> n, value |-> None, state |-> "open"]]
  PROVE  /\ FilesInv' /\ contents' = contents
         /\ \E t \in Slots : files'[t].name = n /\ files'[t].state = "open"
         /\ \E t : OpenFiles' \subseteq OpenFiles \cup {t}
<1> DEFINE f == [name |-> n, value |-> None, state |-> "open"]
<1>1. f \in Files /\ GoodFile(f) /\ f.name = n /\ f.value = None /\ f.state = "open"
  BY DEF Files, GoodFile
<1>2. \A t \in Slots : files[t].name # n
  BY DEF FileExists, SlotsOf
<1> HIDE DEF f
<1>3. FilesInv' /\ files'[s] = f /\ \A t \in Slots \ {s} : files'[t] = files[t]
  BY <1>1, <1>2, OneFile DEF f
<1>4. ASSUME NEW m \in Names PROVE contents'[m] = contents[m]
  BY <1>1, <1>3, FreeFacts, ContentsChange
<1>5. contents' = contents
  BY <1>4 DEF contents
<1>6. OpenFiles' \subseteq OpenFiles \cup {s}
  BY <1>3 DEF OpenFiles
<1> QED BY <1>1, <1>3, <1>5, <1>6

\* The file that was written is closed.
LEMMA FileClosed ==
  ASSUME FilesInv, NEW n \in Names, NEW v \in Values, FileExists(n),
         files' = [files EXCEPT ![SlotOf(n)] = Closed(n, v)]
  PROVE  /\ FilesInv' /\ contents' = [contents EXCEPT ![n] = v]
         /\ OpenFiles' \subseteq OpenFiles \ {SlotOf(n)}
<1> DEFINE s == SlotOf(n)
           f == Closed(n, v)
<1>1. s \in Slots /\ files[s].name = n
  BY SlotFacts
<1>2. f \in Files /\ f.name = n /\ f.value = v /\ f.state = "closed" /\ GoodFile(f)
  BY DEF Closed, Files, GoodFile, Values, None
<1>3. \A t \in Slots \ {s} : files[t].name # n
  BY <1>1, OnlySlot DEF FilesInv
<1> HIDE DEF s, f
<1>4. FilesInv' /\ files'[s] = f /\ \A t \in Slots \ {s} : files'[t] = files[t]
  <2>1. files' = [files EXCEPT ![s] = f]
    BY DEF s, f
  <2> QED BY <1>1, <1>2, <1>3, <2>1, OneFile
<1>5. ASSUME NEW m \in Names \ {n} PROVE contents'[m] = contents[m]
  BY <1>1, <1>2, <1>4, ContentsChange
<1>6. contents'[n] = v
  <2>1. ContentsOfFiles'
    BY <1>4, ContentsFacts, PTL
  <2> QED BY <1>1, <1>2, <1>4, <2>1 DEF ContentsOfFiles
<1>7. contents' = [contents EXCEPT ![n] = v]
  BY <1>5, <1>6 DEF contents
<1>8. OpenFiles' \subseteq OpenFiles \ {s}
  BY <1>2, <1>4 DEF OpenFiles
<1> QED BY <1>4, <1>7, <1>8 DEF s

\* A file is deleted.
LEMMA FileDeleted ==
  ASSUME FilesInv, NEW n \in Names, CanDelete(n), Deleted(n)
  PROVE  /\ FilesInv' /\ contents' = [contents EXCEPT ![n] = None]
         /\ \A s \in Slots : files'[s].state # "free" =>
              files[s].state # "free" /\ files'[s] = files[s]
         /\ \A s \in Slots : files[s].name = n => files'[s].state = "free"
         /\ \A s \in Slots : files[s].name # n => files'[s] = files[s]
         /\ OpenFiles' \subseteq OpenFiles
<1> DEFINE s == SlotOf(n)
<1>1. s \in Slots /\ files[s].name = n /\ files' = [files EXCEPT ![s] = Free]
  BY SlotFacts DEF CanDelete, Deleted
<1>2. \A t \in Slots \ {s} : files[t].name # n
  BY <1>1, OnlySlot DEF FilesInv
<1> HIDE DEF s
<1>3. FilesInv' /\ files'[s] = Free /\ \A t \in Slots \ {s} : files'[t] = files[t]
  <2>1. Free.state = "free"
    BY DEF Free
  <2> QED BY <1>1, <2>1, FreeFacts, OneFile
<1>4. ASSUME NEW m \in Names \ {n} PROVE contents'[m] = contents[m]
  BY <1>1, <1>3, FreeFacts, ContentsChange
<1>5. contents'[n] = None
  <2>1. ContentsOfFiles'
    BY <1>3, ContentsFacts, PTL
  <2>2. \A t \in Slots : files'[t].name # n
    BY <1>2, <1>3, FreeFacts DEF Free
  <2> QED BY <2>1, <2>2 DEF ContentsOfFiles
<1>6. contents' = [contents EXCEPT ![n] = None]
  BY <1>4, <1>5 DEF contents
<1>7. Free.state = "free"
  BY DEF Free
<1>8. OpenFiles' \subseteq OpenFiles
  BY <1>3, <1>7 DEF OpenFiles
<1> QED BY <1>1, <1>2, <1>3, <1>6, <1>7, <1>8

\* What a power cut makes of a file.
LEMMA FileAfterPowerCut ==
  ASSUME NEW f \in Files, GoodFile(f), NEW g \in AfterPowerCut(f)
  PROVE  /\ g \in Files /\ GoodFile(g) /\ g.state # "open"
         /\ g = Free \/ (g.name = f.name /\ g.value = f.value /\ f.state # "free")
         /\ f.value # None => g # Free
<1>1. CASE f.state = "open" /\ f.value # None
  BY <1>1, FreeFacts DEF AfterPowerCut, Files, GoodFile, Free
<1>2. CASE f.state = "open" /\ f.value = None
  <2>1. AfterPowerCut(f) = {[f EXCEPT !.state = "broken"], Free}
    BY <1>2 DEF AfterPowerCut
  <2>2. CASE g = Free
    BY <1>2, <2>2, FreeFacts DEF Free
  <2>3. CASE g = [f EXCEPT !.state = "broken"]
    BY <1>2, <2>3 DEF Files, GoodFile
  <2> QED BY <2>1, <2>2, <2>3
<1>3. CASE f.state # "open"
  <2>1. g = f
    BY <1>3 DEF AfterPowerCut
  <2> QED BY <1>3, <2>1, FreeFacts DEF GoodFile
<1> QED BY <1>1, <1>2, <1>3

\* The file that was written cannot be closed.
LEMMA FileNotClosed ==
  ASSUME FilesInv, NEW n \in Names, FileExists(n), files[SlotOf(n)].state = "open", CloseFails(n)
  PROVE  FilesInv' /\ contents' = contents /\ OpenFiles' \subseteq OpenFiles
<1> DEFINE s == SlotOf(n)
<1>1. PICK f \in AfterFailedClose(files[s]) : files' = [files EXCEPT ![s] = f]
  BY DEF CloseFails
<1>2. s \in Slots /\ files[s].name = n /\ files[s] \in Files /\ GoodFile(files[s])
  BY SlotFacts DEF FilesInv
<1>3. files[s].state = "open"
  OBVIOUS
<1> HIDE DEF s
<1>4. /\ f \in Files /\ GoodFile(f)
      /\ f = Free \/ (f.name = n /\ f.value = files[s].value)
      /\ files[s].value # None => f # Free
  <2>1. CASE f = files[s]
    BY <1>2, <1>3, <2>1 DEF Free
  <2>2. CASE f \in AfterPowerCut(files[s])
    BY <1>2, <2>2, FileAfterPowerCut
  <2> QED BY <1>1, <2>1, <2>2 DEF AfterFailedClose
<1>5. \A t \in Slots \ {s} : files[t].name # n
  BY <1>2, OnlySlot DEF FilesInv
<1>6. FilesInv' /\ files'[s] = f /\ \A t \in Slots \ {s} : files'[t] = files[t]
  <2>1. f.state # "free" => f.name = n
    BY <1>4 DEF Free
  <2>2. f.state # "free" => \A t \in Slots \ {s} : files[t].name # f.name
    BY <1>5, <2>1
  <2>3. f \in Files /\ GoodFile(f)
    BY <1>4
  <2> QED BY <1>1, <1>2, <2>2, <2>3, OneFile
<1>7. ASSUME NEW m \in Names PROVE contents'[m] = contents[m]
  BY <1>2, <1>4, <1>6, FreeFacts, ContentsChange
<1>8. contents' = contents
  BY <1>7 DEF contents
<1>9. OpenFiles' \subseteq OpenFiles
  BY <1>2, <1>3, <1>6 DEF OpenFiles
<1> QED BY <1>6, <1>8, <1>9

LEMMA FilesAfterPowerCut ==
  ASSUME FilesInv, PowerCut
  PROVE  /\ FilesInv' /\ contents' = contents
         /\ \A s \in Slots : files'[s].state # "open"
<1>1. ASSUME NEW s \in Slots
      PROVE  /\ files'[s] \in Files /\ GoodFile(files'[s]) /\ files'[s].state # "open"
             /\ \/ files'[s] = Free
                \/ /\ files'[s].name = files[s].name /\ files'[s].value = files[s].value
                   /\ files[s].state # "free"
             /\ files[s].value # None => files'[s] # Free
  <2>1. files'[s] \in AfterPowerCut(files[s]) /\ files[s] \in Files /\ GoodFile(files[s])
    BY DEF PowerCut, FilesInv
  <2> QED BY <2>1, FileAfterPowerCut
<1>2. \A s, t \in Slots : s # t /\ files'[s].state # "free" => files'[s].name # files'[t].name
  <2> SUFFICES ASSUME NEW s \in Slots, NEW t \in Slots, s # t, files'[s].state # "free"
               PROVE  files'[s].name # files'[t].name
    OBVIOUS
  <2>1. files'[s].name = files[s].name /\ files[s].state # "free" /\ files[s].name \in Names
    <3>1. files'[s] # Free
      BY DEF Free
    <3> QED BY <1>1, <3>1 DEF FilesInv, GoodFile
  <2>2. CASE files'[t] = Free
    BY <2>1, <2>2, FreeFacts DEF Free
  <2>3. CASE files'[t].name = files[t].name
    BY <2>1, <2>3 DEF FilesInv
  <2> QED BY <1>1, <2>2, <2>3
<1>3. FilesInv'
  <2>1. files' \in [Slots -> Files]
    <3>1. \E f : files' \in [Slots -> f]
      BY DEF PowerCut
    <3> QED BY <1>1, <3>1
  <2> QED BY <1>1, <1>2, <2>1 DEF FilesInv, GoodFile
<1>4. ASSUME NEW m \in Names PROVE contents'[m] = contents[m]
  BY <1>1, <1>3, FreeFacts, ContentsChange
<1>5. contents' = contents
  BY <1>4 DEF contents
<1> QED BY <1>1, <1>3, <1>5

-----------------------------------------------------------------------------
(* Steps *)

LEMMA OpFacts ==
  ASSUME TypeOK
  PROVE  /\ op = NoOp \/ op \in SetCalls \/ op \in PurgeCalls
         /\ NoOp.call = "none"
         /\ op.call = "set" => op \in SetCalls /\ op.name \in Names /\ op.value \in Values
         /\ op.call = "purge" => op \in PurgeCalls /\ op.domain \in Domains
BY DEF TypeOK, SetCalls, PurgeCalls, NoOp

LEMMA ListFacts ==
  ASSUME TypeOK
  PROVE  /\ IsFiniteSet({}) /\ Cardinality({}) = 0
         /\ \A s : Cardinality(entries \ {s}) <= ChunkSize
<1>1. IsFiniteSet(entries)
  <2>1. entries \subseteq 1..NumSlots /\ NumSlots \in Int /\ 1 \in Int
    BY KeyValueStoreAssumption DEF TypeOK, Slots
  <2>2. IsFiniteSet(1..NumSlots)
    BY <2>1, FS_Interval
  <2> QED BY <2>1, <2>2, FS_Subset
<1>2. ASSUME NEW s PROVE Cardinality(entries \ {s}) <= ChunkSize
  <2>1. Cardinality(entries \ {s}) <= Cardinality(entries)
    BY <1>1, FS_Subset
  <2>2. Cardinality(entries) \in Nat /\ Cardinality(entries \ {s}) \in Nat
    BY <1>1, FS_CardinalityType, FS_RemoveElement
  <2> QED BY <2>1, <2>2, KeyValueStoreAssumption DEF TypeOK
<1> QED BY <1>2, FS_EmptySet

\* The part of the files in a step of the store.
LEMMA FilesStep ==
  ASSUME TypeOK, StoreInv, [Next]_vars
  PROVE  FilesInv'
<1> USE DEF StoreInv
<1>1. CASE UNCHANGED files
  BY <1>1 DEF FilesInv, GoodFile
<1>2. ASSUME NEW n \in Names, NEW max, Get(n, max) PROVE FilesInv'
  <2>1. CASE UNCHANGED files
    BY <1>1, <2>1
  <2>2. CASE IsClosed(n) /\ files' = [files EXCEPT ![SlotOf(n)].state = "open"]
    BY <2>2, FileOpened
  <2> QED
    BY <1>2, <2>1, <2>2
    DEF Get, GetSucceeds, ReadAndClosed, GetFindsNothing, GetCannotOpen, GetCannotRead
<1>3. ASSUME NEW n \in Names, NEW v \in Values, SetOpens(n, v) PROVE FilesInv'
  BY <1>3, FileOpened, FileMade DEF SetOpens
<1>4. CASE SetCloses
  <2>1. op.call = "set" /\ op.name \in Names /\ op.value \in Values
    BY <1>4, OpFacts DEF SetCloses
  <2>2. FileExists(op.name) /\ files[SlotOf(op.name)].state = "open"
    BY <2>1, OnlySlot DEF SetInv
  <2> QED BY <1>4, <2>1, <2>2, FileClosed, FileNotClosed DEF SetCloses, FileIsClosed
<1>5. ASSUME NEW n \in Names, Remove(n) PROVE FilesInv'
  <2>1. CASE CanDelete(n) /\ Deleted(n)
    BY <2>1, FileDeleted
  <2>2. CASE UNCHANGED files
    BY <1>1, <2>2
  <2> QED BY <1>5, <2>1, <2>2 DEF Remove, CannotDelete
<1>6. CASE VisitEntry
  <2>1. PICK s \in entries :
          \/ UNCHANGED files
          \/ CanDelete(files[s].name) /\ Deleted(files[s].name)
    BY <1>6 DEF VisitEntry, CannotDelete
  <2>2. files[s].name \in Names
    BY <1>6, <2>1 DEF VisitEntry, PurgeInv, FilesInv, GoodFile, TypeOK
  <2> QED BY <1>1, <2>1, <2>2, FileDeleted
<1>7. CASE PowerCut
  BY <1>7, FilesAfterPowerCut
<1>8. ASSUME NEW n \in Names, SetCannotOpen(n) PROVE UNCHANGED files
  BY <1>8 DEF SetCannotOpen
<1>9. ASSUME NEW d \in Domains, PurgeDomain(d) PROVE UNCHANGED files
  BY <1>9 DEF PurgeDomain
<1>10. CASE SetWrites \/ SetCannotWrite \/ ListFiles \/ ResultSeen \/ UNCHANGED vars
  BY <1>1, <1>10 DEF SetWrites, SetCannotWrite, ListFiles, ResultSeen, vars
<1> QED
  BY <1>1, <1>2, <1>3, <1>4, <1>5, <1>6, <1>7, <1>8, <1>9, <1>10 DEF Next, SetStep, PurgeStep

LEMMA TypeStep == TypeOK /\ StoreInv /\ [Next]_vars => TypeOK'
<1> SUFFICES ASSUME TypeOK, StoreInv, [Next]_vars PROVE TypeOK'
  OBVIOUS
<1>files. files' \in [Slots -> Files]
  BY FilesStep DEF FilesInv
<1> USE KeyValueStoreAssumption
<1>goal. ASSUME /\ op' = NoOp \/ op' \in SetCalls \/ op' \in PurgeCalls
                /\ chunkIndex' \in Slots \cup {0}
                /\ entries' \subseteq Slots /\ Cardinality(entries') <= ChunkSize
                /\ result'.call \in {"none", "get", "set", "remove", "purge"}
                /\ failures' \in 0..MaxFailures
                /\ cuts' \in 0..MaxPowerCuts
         PROVE  TypeOK'
  BY <1>files, <1>goal DEF TypeOK, Files, SetCalls, PurgeCalls
<1>types. /\ op = NoOp \/ op \in SetCalls \/ op \in PurgeCalls
          /\ chunkIndex \in Slots \cup {0}
          /\ entries \subseteq Slots /\ Cardinality(entries) <= ChunkSize
          /\ result.call \in {"none", "get", "set", "remove", "purge"}
          /\ failures \in 0..MaxFailures /\ cuts \in 0..MaxPowerCuts
  BY DEF TypeOK, SetCalls, PurgeCalls
<1>fails. Fails => failures' \in 0..MaxFailures
  BY <1>types DEF Fails
<1>1. ASSUME NEW n \in Names, NEW max \in Values, Get(n, max) PROVE TypeOK'
  <2>1. result'.call = "get"
    BY <1>1 DEF Get, GetSucceeds, GetFindsNothing, GetCannotOpen, GetCannotRead, Returns
  <2>2. failures' \in 0..MaxFailures
    BY <1>1, <1>types, <1>fails
    DEF Get, GetSucceeds, ReadAndClosed, GetFindsNothing, GetCannotOpen, GetCannotRead
  <2> QED BY <1>1, <1>types, <1>goal, <2>1, <2>2 DEF Get, listVars
<1>2. ASSUME NEW n \in Names, NEW v \in Values, SetOpens(n, v) PROVE TypeOK'
  BY <1>2, <1>types, <1>goal DEF SetOpens, SetCalls, listVars
<1>3. ASSUME NEW n \in Names, SetCannotOpen(n) PROVE TypeOK'
  <2>1. failures' \in 0..MaxFailures /\ result'.call = "set"
    BY <1>3, <1>types, <1>fails DEF SetCannotOpen, Returns
  <2> QED BY <1>3, <1>types, <1>goal, <2>1 DEF SetCannotOpen, listVars
<1>4. CASE SetWrites
  <2>1. op' \in SetCalls
    BY <1>4, OpFacts DEF SetWrites, SetCalls
  <2> QED BY <1>4, <1>types, <1>goal, <2>1 DEF SetWrites, listVars
<1>5. CASE SetCannotWrite
  BY <1>5, <1>types, <1>goal, <1>fails DEF SetCannotWrite, Returns, listVars
<1>6. CASE SetCloses
  <2>1. failures' \in 0..MaxFailures
    BY <1>6, <1>types, <1>fails DEF SetCloses, FileIsClosed, CloseFails
  <2> QED BY <1>6, <1>types, <1>goal, <2>1 DEF SetCloses, Returns, listVars
<1>7. ASSUME NEW n \in Names, Remove(n) PROVE TypeOK'
  <2>1. failures' \in 0..MaxFailures /\ result'.call = "remove"
    BY <1>7, <1>types, <1>fails DEF Remove, Deleted, CannotDelete, Returns
  <2> QED BY <1>7, <1>types, <1>goal, <2>1 DEF Remove, listVars
<1>8. ASSUME NEW d \in Domains, PurgeDomain(d) PROVE TypeOK'
  <2>1. Cardinality(entries') <= ChunkSize
    BY <1>8, ListFacts DEF PurgeDomain
  <2> QED BY <1>8, <1>types, <1>goal, <2>1 DEF PurgeDomain, PurgeCalls, ListStart
<1>9. CASE ListFiles
  <2>1. CASE entries' \in NextFiles /\ chunkIndex' \in ChunkEnd(entries')
    <3>1. /\ entries' \subseteq Slots /\ Cardinality(entries') <= ChunkSize
          /\ chunkIndex' \in Slots
      BY <2>1 DEF NextFiles, Listed, ChunkEnd
    <3>2. UNCHANGED <<op, result, failures, cuts>> \/ op' = NoOp
      BY <1>9 DEF ListFiles, PurgeReturns
    <3>3. failures' \in 0..MaxFailures /\ result'.call \in {result.call, "purge"} /\ cuts' = cuts
      BY <1>9, <1>types, <1>fails DEF ListFiles, PurgeReturns, Returns
    <3> QED BY <1>types, <1>goal, <3>1, <3>2, <3>3
  <2>2. CASE UNCHANGED listVars
    <3>1. /\ op' \in {op, NoOp} /\ failures' \in 0..MaxFailures
          /\ result'.call \in {result.call, "purge"} /\ cuts' = cuts
      BY <1>9, <1>types, <1>fails DEF ListFiles, PurgeReturns, Returns
    <3> QED BY <1>types, <1>goal, <2>2, <3>1 DEF listVars
  <2> QED BY <1>9, <2>1, <2>2 DEF ListFiles
<1>10. CASE VisitEntry
  <2>1. /\ entries' \subseteq entries /\ Cardinality(entries') <= ChunkSize
        /\ UNCHANGED <<chunkIndex, cuts>>
    BY <1>10, ListFacts DEF VisitEntry
  <2>2. /\ op' \in {op, NoOp} /\ failures' \in 0..MaxFailures
        /\ result'.call \in {result.call, "purge"}
    BY <1>10, <1>types, <1>fails DEF VisitEntry, Deleted, CannotDelete, PurgeReturns, Returns
  <2> QED BY <1>types, <1>goal, <2>1, <2>2
<1>11. CASE ResultSeen
  BY <1>11, <1>types, <1>goal DEF ResultSeen, NoResult, listVars
<1>12. CASE PowerCut
  <2>1. cuts' \in 0..MaxPowerCuts
    BY <1>12, <1>types DEF PowerCut
  <2>2. /\ chunkIndex' = 0 /\ entries' = {} /\ Cardinality(entries') <= ChunkSize
        /\ op' = NoOp /\ result' = NoResult /\ failures' = failures
    BY <1>12, ListFacts DEF PowerCut
  <2> QED BY <1>types, <1>goal, <2>1, <2>2 DEF NoResult
<1>13. CASE UNCHANGED vars
  BY <1>13, <1>types, <1>goal DEF vars, listVars
<1> QED
  BY <1>1, <1>2, <1>3, <1>4, <1>5, <1>6, <1>7, <1>8, <1>9, <1>10, <1>11, <1>12, <1>13
  DEF Next, SetStep, PurgeStep

LEMMA StoreStep == TypeOK /\ StoreInv /\ [Next]_vars => StoreInv'
<1> SUFFICES ASSUME TypeOK, StoreInv, [Next]_vars PROVE FilesClosed' /\ SetInv' /\ PurgeInv'
  BY FilesStep DEF StoreInv
<1> USE DEF StoreInv
<1>types. failures \in Nat
  BY KeyValueStoreAssumption DEF TypeOK
<1>none. ASSUME op' = NoOp PROVE SetInv' /\ PurgeInv' /\ op'.call # "set"
  BY <1>none DEF SetInv, PurgeInv, NoOp
<1>kept. ASSUME UNCHANGED files PROVE Cardinality(OpenFiles') <= Cardinality(OpenFiles)
  BY <1>kept, OpenFewer DEF OpenFiles
<1>fails. ASSUME UNCHANGED failures \/ Fails PROVE failures' >= failures /\ failures' \in Nat
  BY <1>fails, <1>types DEF Fails
<1>1. ASSUME NEW n \in Names, NEW max \in Values, Get(n, max)
      PROVE  FilesClosed' /\ SetInv' /\ PurgeInv'
  <2>1. op = NoOp /\ op' = NoOp /\ op.call # "set"
    BY <1>1 DEF Get, Idle, NoOp
  <2>2. CASE UNCHANGED files
    <3>1. UNCHANGED failures \/ Fails
      BY <1>1
      DEF Get, GetSucceeds, ReadAndClosed, GetFindsNothing, GetCannotOpen, GetCannotRead
    <3> QED BY <1>none, <1>kept, <1>fails, <2>1, <2>2, <3>1, ClosedStep
  <2>3. CASE IsClosed(n) /\ files' = [files EXCEPT ![SlotOf(n)].state = "open"] /\ Fails
    BY <1>none, <2>1, <2>3, FileOpened, OpenOneMore, ClosedStep
  <2> QED
    BY <1>1, <2>2, <2>3
    DEF Get, GetSucceeds, ReadAndClosed, GetFindsNothing, GetCannotOpen, GetCannotRead
<1>2. ASSUME NEW n \in Names, NEW v \in Values, SetOpens(n, v)
      PROVE  FilesClosed' /\ SetInv' /\ PurgeInv'
  <2>1. /\ op.call # "set" /\ UNCHANGED failures
        /\ op'.call = "set" /\ op'.name = n
    BY <1>2 DEF SetOpens, Idle, NoOp
  <2>2. /\ \E s \in Slots : files'[s].name = n /\ files'[s].state = "open"
        /\ \E s : OpenFiles' \subseteq OpenFiles \cup {s}
    <3>1. CASE IsClosed(n) /\ files' = [files EXCEPT ![SlotOf(n)].state = "open"]
      BY <3>1, FileOpened
    <3>2. ASSUME ~FileExists(n), NEW s \in Slots, files[s] = Free,
                 files' = [files EXCEPT ![s] = [name |-> n, value |-> None, state |-> "open"]]
          PROVE  /\ \E t \in Slots : files'[t].name = n /\ files'[t].state = "open"
                 /\ \E t : OpenFiles' \subseteq OpenFiles \cup {t}
      BY <3>2, FileMade
    <3> QED BY <1>2, <3>1, <3>2 DEF SetOpens
  <2>3. FilesClosed'
    BY <2>1, <2>2, OpenOneMore, ClosedStep
  <2> QED BY <2>1, <2>2, <2>3 DEF SetInv, PurgeInv
<1>3. ASSUME NEW n \in Names, SetCannotOpen(n) PROVE FilesClosed' /\ SetInv' /\ PurgeInv'
  <2>1. /\ op' = NoOp /\ op.call # "set" /\ files' = files
        /\ UNCHANGED failures \/ Fails
    BY <1>3 DEF SetCannotOpen, Idle, NoOp
  <2> QED BY <1>none, <1>kept, <1>fails, <2>1, ClosedStep
<1>4. CASE SetWrites
  <2>1. /\ op.call = "set" /\ op'.call = "set" /\ op'.name = op.name
        /\ UNCHANGED <<files, failures>>
    BY <1>4, OpFacts DEF SetWrites, SetCalls
  <2>2. FilesClosed'
    BY <1>kept, <1>fails, <2>1, ClosedStep
  <2> QED BY <2>1, <2>2 DEF SetInv, PurgeInv
<1>5. CASE SetCannotWrite
  <2>1. op' = NoOp /\ files' = files /\ Fails /\ failures' > failures
    BY <1>5, <1>types DEF SetCannotWrite, Fails
  <2> QED BY <1>none, <1>kept, <1>fails, <2>1, ClosedStep
<1>6. CASE SetCloses
  <2>1. op.call = "set" /\ op.name \in Names /\ op.value \in Values /\ op' = NoOp
    BY <1>6, OpFacts DEF SetCloses
  <2>2. FileExists(op.name) /\ files[SlotOf(op.name)].state = "open"
    BY <2>1, OnlySlot DEF SetInv
  <2>3. CASE FileIsClosed(op.name, op.value)
    <3>1. SlotOf(op.name) \in OpenFiles
      BY <2>2, SlotFacts DEF OpenFiles
    <3>2. OpenFiles' \subseteq OpenFiles \ {SlotOf(op.name)} /\ UNCHANGED failures
      BY <2>1, <2>2, <2>3, FileClosed DEF FileIsClosed
    <3> QED BY <1>none, <2>1, <3>1, <3>2, OpenOneLess, ClosedStep
  <2>4. CASE CloseFails(op.name)
    <3>1. OpenFiles' \subseteq OpenFiles
      BY <2>1, <2>2, <2>4, FileNotClosed
    <3>2. Fails /\ failures' > failures
      BY <1>types, <2>4 DEF CloseFails, Fails
    <3> QED BY <1>none, <1>fails, <2>1, <3>1, <3>2, OpenFewer, ClosedStep
  <2> QED BY <1>6, <2>3, <2>4 DEF SetCloses
<1>7. ASSUME NEW n \in Names, Remove(n) PROVE FilesClosed' /\ SetInv' /\ PurgeInv'
  <2>1. op' = NoOp /\ op.call # "set"
    BY <1>7 DEF Remove, Idle, NoOp
  <2>2. CASE CanDelete(n) /\ Deleted(n)
    <3>1. OpenFiles' \subseteq OpenFiles /\ UNCHANGED failures
      BY <2>2, FileDeleted DEF Deleted
    <3> QED BY <1>none, <1>fails, <2>1, <3>1, OpenFewer, ClosedStep
  <2>3. CASE UNCHANGED files
    <3>1. UNCHANGED failures \/ Fails
      BY <1>7 DEF Remove, Deleted, CannotDelete
    <3> QED BY <1>none, <1>kept, <1>fails, <2>1, <2>3, <3>1, ClosedStep
  <2> QED BY <1>7, <2>2, <2>3 DEF Remove, CannotDelete
<1>8. ASSUME NEW d \in Domains, PurgeDomain(d) PROVE FilesClosed' /\ SetInv' /\ PurgeInv'
  <2>1. /\ op.call # "set" /\ op'.call = "purge" /\ entries' = {} /\ chunkIndex' = 0
        /\ UNCHANGED <<files, failures>>
    BY <1>8 DEF PurgeDomain, Idle, ListStart, NoOp
  <2>2. \A s \in Slots : s > 0
    BY KeyValueStoreAssumption DEF Slots
  <2>3. FilesClosed'
    BY <1>kept, <1>fails, <2>1, ClosedStep
  <2> QED BY <2>1, <2>2, <2>3 DEF SetInv, PurgeInv
<1>9. CASE ListFiles
  <2>1. files' = files /\ op.call = "purge" /\ entries = {} /\ op' \in {op, NoOp}
        /\ (UNCHANGED failures \/ Fails)
    BY <1>9 DEF ListFiles, PurgeReturns
  <2>2. FilesClosed'
    BY <1>kept, <1>fails, <2>1, ClosedStep
  <2>3. CASE op' = NoOp
    BY <1>none, <2>2, <2>3
  <2>4. CASE /\ op' = op /\ entries' \in NextFiles /\ chunkIndex' \in ChunkEnd(entries')
    <3>1. /\ entries' \subseteq Listed /\ chunkIndex' \in entries'
          /\ \A s \in entries', t \in Listed : t < s => t \in entries'
      BY <2>4 DEF NextFiles, ChunkEnd
    <3>2. \A s \in Listed : s \in Slots /\ s > chunkIndex /\ files[s].state # "free"
      BY DEF Listed, FilesInv, GoodFile
    <3>3. \A s \in entries' : files'[s].state # "free"
      BY <2>1, <3>1, <3>2
    <3>4. ASSUME NEW s \in Slots, files'[s].state # "free", files'[s].name[1] = op'.domain
          PROVE  s > chunkIndex' \/ s \in entries'
      <4>1. s \in Listed
        <5>1. files[s] # Free
          BY <2>1, <3>4 DEF Free
        <5>2. s > chunkIndex
          BY <2>1, <2>4, <3>4 DEF PurgeInv
        <5> QED BY <5>1, <5>2 DEF Listed
      <4>2. s \in Int /\ chunkIndex' \in Int
        BY <3>1, <3>2 DEF Slots
      <4>3. CASE s < chunkIndex'
        BY <3>1, <4>1, <4>3
      <4> QED BY <3>1, <4>2, <4>3
    <3>5. PurgeInv'
      BY <3>3, <3>4 DEF PurgeInv
    <3> QED BY <2>1, <2>2, <2>4, <3>5 DEF SetInv
  <2> QED BY <1>9, <2>1, <2>3, <2>4 DEF ListFiles, PurgeReturns
<1>10. CASE VisitEntry
  <2>1. PICK s \in entries :
          /\ entries' = entries \ {s} /\ chunkIndex' = chunkIndex /\ op.call = "purge"
          /\ \/ files[s].name[1] # op.domain /\ UNCHANGED <<files, op, failures>>
             \/ CanDelete(files[s].name) /\ Deleted(files[s].name) /\ UNCHANGED op
             \/ op' = NoOp /\ UNCHANGED files /\ (UNCHANGED failures \/ Fails)
    BY <1>10 DEF VisitEntry, CannotDelete, PurgeReturns
  <2>2. s \in Slots /\ files[s].name \in Names
    BY <2>1 DEF PurgeInv, FilesInv, GoodFile, TypeOK
  <2>3. CASE files[s].name[1] # op.domain /\ UNCHANGED <<files, op, failures>>
    <3>1. FilesClosed'
      BY <1>kept, <1>fails, <2>1, <2>3, ClosedStep
    <3> QED BY <2>1, <2>3, <3>1 DEF SetInv, PurgeInv
  <2>4. CASE CanDelete(files[s].name) /\ Deleted(files[s].name) /\ UNCHANGED op
    <3>1. /\ \A t \in Slots : files'[t].state # "free" =>
               files[t].state # "free" /\ files'[t] = files[t]
          /\ files'[s].state = "free"
          /\ \A t \in Slots : files[t].name # files[s].name => files'[t] = files[t]
          /\ OpenFiles' \subseteq OpenFiles /\ UNCHANGED failures
      BY <2>2, <2>4, FileDeleted DEF Deleted
    <3>2. \A t \in entries' : files'[t].state # "free"
      <4>1. ASSUME NEW t \in entries' PROVE files'[t].state # "free"
        <5>1. t \in entries /\ t # s /\ t \in Slots /\ files[t].state # "free"
          BY <2>1 DEF PurgeInv, TypeOK
        <5>2. files[t].name # files[s].name
          BY <2>2, <5>1 DEF FilesInv
        <5> QED BY <3>1, <5>1, <5>2
      <4> QED BY <4>1
    <3>3. PurgeInv'
      BY <2>1, <2>4, <3>1, <3>2 DEF PurgeInv
    <3>4. FilesClosed'
      BY <1>fails, <2>1, <2>4, <3>1, OpenFewer, ClosedStep
    <3> QED BY <2>1, <2>4, <3>3, <3>4 DEF SetInv
  <2>5. CASE op' = NoOp /\ UNCHANGED files /\ (UNCHANGED failures \/ Fails)
    BY <1>none, <1>kept, <1>fails, <2>1, <2>5, ClosedStep
  <2> QED BY <2>1, <2>3, <2>4, <2>5
<1>11. CASE PowerCut
  <2>1. OpenFiles' = {} /\ op' = NoOp
    BY <1>11, FilesAfterPowerCut DEF OpenFiles, PowerCut
  <2>2. FilesClosed'
    BY <1>11, <1>none, <1>types, <2>1, FS_EmptySet DEF FilesClosed, PowerCut
  <2> QED BY <1>none, <2>1, <2>2
<1>12. CASE ResultSeen \/ UNCHANGED vars
  <2>1. FilesClosed'
    BY <1>12, <1>kept, <1>fails, ClosedStep DEF ResultSeen, vars
  <2> QED BY <1>12, <2>1 DEF ResultSeen, vars, listVars, SetInv, PurgeInv
<1> QED
  BY <1>1, <1>2, <1>3, <1>4, <1>5, <1>6, <1>7, <1>8, <1>9, <1>10, <1>11, <1>12
  DEF Next, SetStep, PurgeStep

-----------------------------------------------------------------------------
(* Theorems *)

LEMMA StoreAlways == Spec => [](TypeOK /\ StoreInv)
<1>1. Init => TypeOK /\ StoreInv
  <2> SUFFICES ASSUME Init PROVE TypeOK /\ StoreInv
    OBVIOUS
  <2>1. files \in [Slots -> Files] /\ \A s \in Slots : files[s] = Free
    BY FreeFacts DEF Init
  <2>2. Free.state = "free" /\ NoOp.call = "none" /\ NoResult.call = "none"
    BY DEF Free, NoOp, NoResult
  <2>3. TypeOK
    BY <2>1, <2>2, FS_EmptySet, KeyValueStoreAssumption DEF Init, TypeOK, Files
  <2>4. FilesClosed
    <3>1. OpenFiles = {} /\ failures = 0 /\ op.call = "none"
      BY <2>1, <2>2 DEF Init, OpenFiles
    <3> QED BY <3>1, FS_EmptySet DEF FilesClosed
  <2> QED BY <2>1, <2>2, <2>3, <2>4, FreeFacts DEF Init, StoreInv, FilesInv, SetInv, PurgeInv
<1> QED BY <1>1, TypeStep, StoreStep, PTL DEF Spec

\* Every variable keeps its type; no chunk of the list is longer than the
\* array that Enumerate has for it.
THEOREM TypeCorrect == Spec => []TypeOK
BY StoreAlways, PTL

\* The calls of the store leave open no more files than calls to the file
\* system have failed, but for the one that Set is writing.
THEOREM FilesAlwaysClosed == Spec => []FilesClosed
BY StoreAlways, PTL DEF StoreInv

LEMMA Shown ==
  ASSUME NEW call \in {"get", "set", "remove", "purge"}, NEW ok \in BOOLEAN, Returns(call, ok),
         call = "get" => ~ok
  PROVE  ShownResult' = [call |-> call, ok |-> ok]
<1>1. result' = [call |-> call, ok |-> ok] /\ result'.call = call /\ result'.ok = ok
  BY DEF Returns
<1> QED BY <1>1 DEF ShownResult

LEMMA FailuresGrow == TypeOK /\ [Next]_vars => failures' >= failures
<1> SUFFICES ASSUME TypeOK, [Next]_vars PROVE failures' >= failures
  OBVIOUS
<1>1. UNCHANGED failures \/ Fails => failures' >= failures
  BY KeyValueStoreAssumption DEF TypeOK, Fails
<1>2. ASSUME NEW n \in Names, NEW max \in Values, Get(n, max) PROVE UNCHANGED failures \/ Fails
  BY <1>2 DEF Get, GetSucceeds, ReadAndClosed, GetFindsNothing, GetCannotOpen, GetCannotRead
<1>3. ASSUME NEW n \in Names, SetCannotOpen(n) \/ Remove(n) PROVE UNCHANGED failures \/ Fails
  BY <1>3 DEF SetCannotOpen, Remove, Deleted, CannotDelete
<1>4. ASSUME NEW n \in Names, NEW v \in Values, SetOpens(n, v) PROVE UNCHANGED failures
  BY <1>4 DEF SetOpens
<1>5. SetStep => UNCHANGED failures \/ Fails
  BY DEF SetStep, SetWrites, SetCannotWrite, SetCloses, FileIsClosed, CloseFails
<1>6. PurgeStep => UNCHANGED failures \/ Fails
  BY DEF PurgeStep, ListFiles, VisitEntry, Deleted, CannotDelete
<1>7. ASSUME NEW d \in Domains, PurgeDomain(d) PROVE UNCHANGED failures
  BY <1>7 DEF PurgeDomain
<1>8. PowerCut \/ ResultSeen \/ UNCHANGED vars => UNCHANGED failures
  BY DEF PowerCut, ResultSeen, vars
<1> QED BY <1>1, <1>2, <1>3, <1>4, <1>5, <1>6, <1>7, <1>8 DEF Next

\* Each step of the store is a step of the map from names to values, or
\* leaves what the caller can see of it.
LEMMA Implements ==
  TypeOK /\ StoreInv /\ [Next]_vars => [Promised!Next]_<<contents, ShownResult, failures>>
<1> SUFFICES ASSUME TypeOK, StoreInv, [Next]_vars
             PROVE  Promised!Call \/ UNCHANGED <<contents, ShownResult>>
  BY FailuresGrow DEF Promised!Next
<1> USE DEF StoreInv
<1>same. ASSUME UNCHANGED result PROVE UNCHANGED ShownResult
  BY <1>same DEF ShownResult
<1>kept. ASSUME UNCHANGED files PROVE UNCHANGED contents
  BY <1>kept DEF contents, FileExists, SlotsOf, SlotOf
<1>1. ASSUME NEW n \in Names, NEW max \in Values, Get(n, max) PROVE Promised!Get(n, max)
  <2>1. ContentsOfFiles
    BY ContentsFacts
  <2>2. CASE GetSucceeds(n, max)
    <3>1. /\ FileExists(n) /\ files[SlotOf(n)].state = "closed" /\ UNCHANGED contents
          /\ ShownResult' = [call |-> "get", ok |-> TRUE, found |-> TRUE,
                             value |-> Beginning(files[SlotOf(n)].value, max)]
      BY <1>kept, <2>2, FileOpened DEF GetSucceeds, ReadAndClosed, IsClosed, ShownResult
    <3>2. contents[n] = files[SlotOf(n)].value /\ contents[n] # None
      BY <2>1, <3>1, SlotFacts DEF ContentsOfFiles, FilesInv, GoodFile
    <3>3. (contents[n] # Promised!None) = TRUE
      BY <3>2 DEF Promised!None, None
    <3>4. Promised!Beginning(contents[n], max) = Beginning(files[SlotOf(n)].value, max)
      BY <3>2 DEF Promised!Beginning, Beginning
    <3> QED BY <3>1, <3>3, <3>4 DEF Promised!Get
  <2>3. CASE GetFindsNothing(n)
    <3>1. ~FileExists(n) /\ UNCHANGED contents
      BY <1>kept, <2>3 DEF GetFindsNothing
    <3>2. ShownResult' = [call |-> "get", ok |-> TRUE, found |-> FALSE, value |-> None]
      BY <2>3 DEF GetFindsNothing, ShownResult
    <3>3. contents[n] = None
      BY <2>1, <3>1 DEF ContentsOfFiles, FileExists, SlotsOf
    <3>4. (contents[n] # Promised!None) = FALSE
      BY <3>3 DEF Promised!None, None
    <3>5. Promised!Beginning(contents[n], max) = None
      BY <3>3 DEF Promised!Beginning, None, Values
    <3> QED BY <3>1, <3>2, <3>4, <3>5 DEF Promised!Get
  <2>4. CASE GetCannotOpen(n)
    BY <1>kept, <2>4, Shown DEF GetCannotOpen, Promised!Get
  <2>5. CASE GetCannotRead(n)
    BY <2>5, FileOpened, Shown DEF GetCannotRead, Promised!Get
  <2> QED BY <1>1, <2>2, <2>3, <2>4, <2>5 DEF Get
<1>2. ASSUME NEW n \in Names, NEW v \in Values, SetOpens(n, v)
      PROVE  UNCHANGED <<contents, ShownResult>>
  BY <1>2, <1>same, FileOpened, FileMade DEF SetOpens
<1>3. ASSUME NEW n \in Names, SetCannotOpen(n) PROVE \E v \in Promised!Values : Promised!Set(n, v)
  <2>1. UNCHANGED contents /\ ShownResult' = [call |-> "set", ok |-> FALSE]
    BY <1>3, <1>kept, Shown DEF SetCannotOpen
  <2>2. 1 \in Promised!Values
    BY KeyValueStoreAssumption DEF Promised!Values
  <2> QED BY <2>1, <2>2 DEF Promised!Set
<1>4. CASE SetWrites
  BY <1>4, <1>same, <1>kept DEF SetWrites
<1>5. CASE SetCannotWrite
  <2>1. op.name \in Names
    BY <1>5, OpFacts DEF SetCannotWrite
  <2>2. UNCHANGED contents /\ ShownResult' = [call |-> "set", ok |-> FALSE]
    BY <1>5, <1>kept, Shown DEF SetCannotWrite
  <2>3. 1 \in Promised!Values
    BY KeyValueStoreAssumption DEF Promised!Values
  <2> QED BY <2>1, <2>2, <2>3 DEF Promised!Set, Promised!Call
<1>6. CASE SetCloses
  <2>1. op.call = "set" /\ op.name \in Names /\ op.value \in Values
    BY <1>6, OpFacts DEF SetCloses
  <2>2. FileExists(op.name) /\ files[SlotOf(op.name)].state = "open"
    BY <2>1, OnlySlot DEF SetInv
  <2>3. ShownResult' = [call |-> "set", ok |-> TRUE]
    BY <1>6, Shown DEF SetCloses
  <2>4. CASE FileIsClosed(op.name, op.value)
    <3>1. contents' = [contents EXCEPT ![op.name] = op.value]
      BY <2>1, <2>2, <2>4, FileClosed DEF FileIsClosed
    <3> QED BY <2>1, <2>3, <3>1 DEF Promised!Set, Promised!Call, Promised!Values, Values
  <2>5. CASE CloseFails(op.name)
    <3>1. UNCHANGED contents
      BY <2>1, <2>2, <2>5, FileNotClosed
    <3>2. failures' > failures
      BY <2>5, KeyValueStoreAssumption DEF CloseFails, Fails, TypeOK
    <3> QED BY <2>3, <3>1, <3>2 DEF Promised!SetFailsUnnoticed, Promised!Call
  <2> QED BY <1>6, <2>4, <2>5 DEF SetCloses
<1>7. ASSUME NEW n \in Names, Remove(n) PROVE Promised!Remove(n)
  <2>1. CASE CanDelete(n) /\ Deleted(n) /\ Returns("remove", TRUE)
    BY <2>1, FileDeleted, Shown DEF Promised!Remove, Promised!None, None
  <2>2. CASE ~FileExists(n) /\ UNCHANGED files /\ Returns("remove", TRUE)
    <3>1. contents[n] = None
      BY <2>2, ContentsFacts DEF ContentsOfFiles, FileExists, SlotsOf
    <3>2. contents' = contents /\ contents = [contents EXCEPT ![n] = None]
      BY <1>kept, <2>2, <3>1 DEF contents
    <3>3. ShownResult' = [call |-> "remove", ok |-> TRUE]
      BY <2>2, Shown
    <3> QED BY <3>2, <3>3 DEF Promised!Remove, Promised!None, None
  <2>3. CASE UNCHANGED files /\ Returns("remove", FALSE)
    BY <1>kept, <2>3, Shown DEF Promised!Remove
  <2> QED BY <1>7, <2>1, <2>2, <2>3 DEF Remove, CannotDelete
<1>8. ASSUME NEW d \in Domains, PurgeDomain(d) PROVE UNCHANGED <<contents, ShownResult>>
  BY <1>8, <1>same, <1>kept DEF PurgeDomain
<1>9. ASSUME op.call = "purge", UNCHANGED files, Returns("purge", FALSE) PROVE Promised!Call
  <2>1. op.domain \in Promised!Domains
    BY <1>9, OpFacts DEF Promised!Domains, Domains
  <2>2. UNCHANGED contents /\ ShownResult' = [call |-> "purge", ok |-> FALSE]
    BY <1>9, <1>kept, Shown
  <2> QED BY <2>1, <2>2 DEF Promised!PurgeReturns, Promised!Call
<1>10. CASE ListFiles
  <2>1. CASE UNCHANGED result
    BY <1>10, <1>same, <1>kept, <2>1 DEF ListFiles
  <2>2. CASE Listed = {} /\ PurgeReturns(TRUE)
    <3>1. op.call = "purge" /\ entries = {} /\ op.domain \in Promised!Domains
      BY <1>10, OpFacts DEF ListFiles, Promised!Domains, Domains
    <3>2. ASSUME NEW s \in Slots, files[s].state # "free" PROVE files[s].name[1] # op.domain
      <4>1. files[s] # Free
        BY <3>2 DEF Free
      <4>2. ~(s > chunkIndex)
        BY <2>2, <4>1 DEF Listed
      <4> QED BY <3>1, <3>2, <4>2 DEF PurgeInv
    <3>3. ASSUME NEW n \in Names, n[1] = op.domain PROVE contents[n] = None
      <4>1. \A s \in Slots : files[s].name # n
        BY <3>2, <3>3, OnlySlot
      <4> QED BY <4>1, ContentsFacts DEF ContentsOfFiles
    <3>4. \A n \in Promised!OfDomain(op.domain) : contents[n] = Promised!None
      BY <3>3 DEF Promised!OfDomain, Promised!None, None
    <3>5. UNCHANGED contents /\ ShownResult' = [call |-> "purge", ok |-> TRUE]
      BY <1>10, <1>kept, <2>2, Shown DEF ListFiles, PurgeReturns
    <3>6. Promised!PurgeReturns(op.domain)
      BY <3>4, <3>5 DEF Promised!PurgeReturns
    <3> QED BY <3>1, <3>6 DEF Promised!Call
  <2>3. CASE PurgeReturns(FALSE)
    BY <1>9, <1>10, <2>3 DEF ListFiles, PurgeReturns
  <2> QED BY <1>10, <2>1, <2>2, <2>3 DEF ListFiles
<1>11. CASE VisitEntry
  <2>1. PICK s \in entries :
          \/ UNCHANGED <<files, result>>
          \/ /\ CanDelete(files[s].name) /\ Deleted(files[s].name) /\ UNCHANGED result
          \/ UNCHANGED files /\ PurgeReturns(FALSE)
    BY <1>11 DEF VisitEntry, CannotDelete
  <2>2. files[s].name \in Names /\ op.call = "purge"
    BY <1>11, <2>1 DEF VisitEntry, PurgeInv, FilesInv, GoodFile, TypeOK
  <2>3. CASE UNCHANGED <<files, result>>
    BY <1>same, <1>kept, <2>3
  <2>4. CASE CanDelete(files[s].name) /\ Deleted(files[s].name) /\ UNCHANGED result
    <3>1. contents' = [contents EXCEPT ![files[s].name] = None]
      BY <2>2, <2>4, FileDeleted
    <3>2. Promised!PurgeOne(files[s].name)
      BY <1>same, <2>4, <3>1 DEF Promised!PurgeOne, Promised!None, None
    <3> QED BY <2>2, <3>2 DEF Promised!Call
  <2>5. CASE UNCHANGED files /\ PurgeReturns(FALSE)
    BY <1>9, <2>2, <2>5 DEF PurgeReturns
  <2> QED BY <2>1, <2>3, <2>4, <2>5
<1>12. ASSUME result' = NoResult, UNCHANGED contents PROVE Promised!Call
  <2>1. ShownResult' = NoResult
    BY <1>12 DEF ShownResult, NoResult
  <2> QED BY <1>12, <2>1 DEF Promised!Call, Promised!Forget, Promised!NoResult, NoResult
<1>13. CASE ResultSeen
  BY <1>12, <1>13, <1>kept DEF ResultSeen
<1>14. CASE PowerCut
  BY <1>12, <1>14, FilesAfterPowerCut DEF PowerCut
<1>15. CASE UNCHANGED vars
  BY <1>15, <1>same, <1>kept DEF vars
<1> QED
  BY <1>1, <1>2, <1>3, <1>4, <1>5, <1>6, <1>7, <1>8, <1>10, <1>11, <1>13, <1>14, <1>15
  DEF Next, SetStep, PurgeStep, Promised!Call, Promised!Values, Values

\* Through failures and power cuts the store is the map that KeyValueMap says
\* it is: a call that fails changes nothing, Get returns what fits of the latest
\* value that a Set has stored, and a purge that succeeds leaves nothing of its
\* domain, though files go while they are listed.  A Set that reports success
\* has stored its value or seen the file system fail.
THEOREM StoreKeepsPromises == Spec => KeepsStorePromises
<1>1. Init => Promised!Init
  <2> SUFFICES ASSUME Init PROVE Promised!Init
    OBVIOUS
  <2>1. \A n \in Names : ~FileExists(n)
    BY FreeFacts DEF Init, FileExists, SlotsOf, Free
  <2>2. contents = [n \in Names |-> None]
    BY <2>1 DEF contents
  <2>3. ShownResult = NoResult
    BY DEF Init, ShownResult, NoResult
  <2>4. failures = 0
    BY DEF Init
  <2> QED BY <2>2, <2>3, <2>4 DEF Promised!Init, Promised!None, Promised!NoResult, NoResult, None
<1> QED BY <1>1, Implements, StoreAlways, PTL DEF Spec, KeepsStorePromises, Promised!Spec
=============================================================================
