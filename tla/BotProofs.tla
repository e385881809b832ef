----------------------------- MODULE BotProofs ------------------------------
(***************************************************************************)
(* Proofs about the work on bots that goes on beside the change of one, a  *)
(* part after the other: collecting what a bot writes, its commands and    *)
(* sleep windows, checking its set-up and its host, and the forms its      *)
(* settings are edited in; and about the host the bots are on, from its    *)
(* enrolment to its removal.                                               *)
(***************************************************************************)
EXTENDS ArtifactCollection, BotSchedules, SetupCheck, HostReachability, ConfigForms, HostLifecycle, Loops

-----------------------------------------------------------------------------
(***************************************************************************)
(* ArtifactCollection, for any lists, replays, collectors and bounds.  A   *)
(* sweep's cursor is where the stored entries end, what it read is what the *)
(* file then held, and every replay taken off the host has its copy.       *)
(***************************************************************************)
ListPcs == {"read", "reset", "store", "truncate", "restart"}
Cursors == [offset : Nat, mark : Nat, version : Nat]
Reads == [size : Nat, before : Nat, chunk : Seq(Nat), after : Nat, stopped : BOOLEAN]
Sweeps ==
    [pc : ListPcs \cup {"idle", "replays", "copy", "drop", "prune"}, name : ListNames \cup Replays \cup {"none"},
     cursor : Cursors, read : Reads, todo : SUBSET Replays]

CollectTypes ==
    /\ lists \in [ListNames -> Seq(Nat)] /\ written \in Nat /\ botList \in ListNames /\ listName \in ListNames
    /\ listCursor \in Cursors /\ sweep \in [Collectors -> Sweeps]

\* An entry is in one place, and in none before it is written.
EntriesOnce ==
    /\ \A name \in ListNames : \A i \in DOMAIN lists[name] : lists[name][i] > 0 /\ lists[name][i] <= written
    /\ \A m, n \in ListNames : \A i \in DOMAIN lists[m], j \in DOMAIN lists[n] :
           lists[m][i] = lists[n][j] => m = n /\ i = j

\* A file that shows a cursor's mark at the cursor's offset is stored up to there.
StoredUpTo(cursor, files, last, kept) ==
    /\ cursor.mark <= last
    /\ \A name \in ListNames :
           cursor.offset \in DOMAIN files[name] /\ files[name][cursor.offset] = cursor.mark =>
               \A i \in 1..cursor.offset : files[name][i] \in kept

\* A file that shows what a read found at its end holds the chunk, after the cursor's mark.
AsRead(s, files, last) ==
    LET end == s.cursor.offset + Len(s.read.chunk)
    IN  /\ s.read.after <= last
        /\ \A name \in ListNames :
               end \in DOMAIN files[name] /\ files[name][end] = s.read.after =>
                   /\ \A i \in 1..Len(s.read.chunk) : files[name][s.cursor.offset + i] = s.read.chunk[i]
                   /\ s.cursor.offset = 0 \/ files[name][s.cursor.offset] = s.cursor.mark

Backed(s, files, last, kept) ==
    /\ StoredUpTo(s.cursor, files, last, kept)
    /\ s.pc \in ListPcs => s.name \in ListNames
    /\ s.pc = "store" /\ s.read.chunk # <<>> => AsRead(s, files, last)
    /\ s.pc = "drop" => s.name \in kept

CollectInv ==
    /\ CollectTypes /\ EntriesOnce
    /\ StoredUpTo(listCursor, lists, written, everStored)
    /\ \A c \in Collectors : Backed(sweep[c], lists, written, everStored)
    /\ NothingLostUncollected

-----------------------------------------------------------------------------
\* Files only get entries that are new, or lose all they have.
FilesMove(files, last, later) ==
    \A name \in ListNames : \A i \in DOMAIN later[name] :
        \/ later[name][i] > last
        \/ i \in DOMAIN files[name] /\ \A j \in 1..i : later[name][j] = files[name][j]

LEMMA StoredStays ==
    ASSUME NEW cursor \in Cursors, NEW files \in [ListNames -> Seq(Nat)], NEW later \in [ListNames -> Seq(Nat)],
           NEW last \in Nat, NEW last2 \in Nat, last <= last2, NEW kept, NEW kept2, kept \subseteq kept2,
           FilesMove(files, last, later), StoredUpTo(cursor, files, last, kept)
    PROVE  StoredUpTo(cursor, later, last2, kept2)
  <1>1. cursor.mark <= last2
      BY DEF StoredUpTo, Cursors
  <1>2. ASSUME NEW name \in ListNames, cursor.offset \in DOMAIN later[name], later[name][cursor.offset] = cursor.mark,
               NEW i \in 1..cursor.offset
        PROVE  later[name][i] \in kept2
    <2>1. ~(later[name][cursor.offset] > last)
        BY <1>2 DEF StoredUpTo, Cursors
    <2>2. cursor.offset \in DOMAIN files[name] /\ \A j \in 1..cursor.offset : later[name][j] = files[name][j]
        BY <1>2, <2>1 DEF FilesMove
    <2>3. cursor.offset \in 1..cursor.offset
        BY <1>2 DEF Cursors
    <2>4. files[name][i] \in kept
        BY <1>2, <2>2, <2>3 DEF StoredUpTo
    <2>5. QED
        BY <1>2, <2>2, <2>4
  <1>3. QED
      BY <1>1, <1>2 DEF StoredUpTo

LEMMA ReadStays ==
    ASSUME NEW s \in Sweeps, NEW files \in [ListNames -> Seq(Nat)], NEW later \in [ListNames -> Seq(Nat)],
           NEW last \in Nat, NEW last2 \in Nat, last <= last2, s.read.chunk # <<>>,
           FilesMove(files, last, later), AsRead(s, files, last)
    PROVE  AsRead(s, later, last2)
  <1> DEFINE n == Len(s.read.chunk)
             offset == s.cursor.offset
             end == offset + n
  <1>0. n \in Nat /\ n > 0 /\ offset \in Nat /\ s.read.after \in Nat /\ s.cursor.mark \in Nat /\ end \in Nat
      BY DEF Sweeps, Reads, Cursors
  <1>1. s.read.after <= last
      BY DEF AsRead
  <1>2. ASSUME NEW name \in ListNames, end \in DOMAIN later[name], later[name][end] = s.read.after
        PROVE  /\ \A i \in 1..n : later[name][offset + i] = s.read.chunk[i]
               /\ offset = 0 \/ later[name][offset] = s.cursor.mark
    <2>1. ~(later[name][end] > last)
        BY <1>0, <1>1, <1>2
    <2>2. end \in DOMAIN files[name] /\ \A j \in 1..end : later[name][j] = files[name][j]
        BY <1>2, <2>1 DEF FilesMove
    <2> HIDE DEF n, offset
    <2>3. end \in 1..end /\ (offset # 0 => offset \in 1..end)
        BY <1>0
    <2>7. \A i \in 1..n : offset + i \in 1..end
        BY <1>0
    <2> USE DEF n, offset
    <2>4. files[name][end] = s.read.after
        BY <1>2, <2>2, <2>3
    <2>5. /\ \A i \in 1..n : files[name][offset + i] = s.read.chunk[i]
          /\ offset = 0 \/ files[name][offset] = s.cursor.mark
        BY <2>2, <2>4 DEF AsRead
    <2>6. QED
        BY <2>2, <2>3, <2>5, <2>7
  <1>3. s.read.after <= last2
      BY <1>0, <1>1
  <1>4. QED
      BY <1>2, <1>3 DEF AsRead

LEMMA BackedStays ==
    ASSUME NEW s \in Sweeps, NEW files \in [ListNames -> Seq(Nat)], NEW later \in [ListNames -> Seq(Nat)],
           NEW last \in Nat, NEW last2 \in Nat, last <= last2, NEW kept, NEW kept2, kept \subseteq kept2,
           FilesMove(files, last, later), Backed(s, files, last, kept)
    PROVE  Backed(s, later, last2, kept2)
  <1>1. StoredUpTo(s.cursor, later, last2, kept2)
      BY StoredStays DEF Backed, Sweeps
  <1>2. s.pc = "store" /\ s.read.chunk # <<>> => AsRead(s, later, last2)
      BY ReadStays DEF Backed
  <1>3. QED
      BY <1>1, <1>2 DEF Backed

-----------------------------------------------------------------------------
\* What every step comes to.
LEMMA CollectMoves ==
    ASSUME CollectInv, CollectTypes', EntriesOnce', written <= written', FilesMove(lists, written, lists'),
           everStored \subseteq everStored', StoredUpTo(listCursor', lists', written', everStored'),
           \A c \in Collectors : sweep'[c] = sweep[c] \/ Backed(sweep'[c], lists', written', everStored'),
           NothingLostUncollected'
    PROVE  CollectInv'
  <1>1. ASSUME NEW c \in Collectors PROVE Backed(sweep'[c], lists', written', everStored')
    <2>1. CASE sweep'[c] = sweep[c]
      <3>1. /\ sweep[c] \in Sweeps /\ Backed(sweep[c], lists, written, everStored)
            /\ lists \in [ListNames -> Seq(Nat)] /\ lists' \in [ListNames -> Seq(Nat)]
            /\ written \in Nat /\ written' \in Nat
          BY DEF CollectInv, CollectTypes
      <3>2. Backed(sweep[c], lists', written', everStored')
          BY <3>1, BackedStays
      <3>3. QED
          BY <2>1, <3>2
    <2>2. QED
        BY <2>1
  <1>2. QED
      BY <1>1 DEF CollectInv

LEMMA FilesStay ==
    ASSUME CollectTypes, lists' = lists PROVE FilesMove(lists, written, lists')
  BY DEF FilesMove, CollectTypes

\* A step of a collector on the database, or on nothing but its own position.
LEMMA OneSweep ==
    ASSUME CollectInv, NEW c \in Collectors, NEW r \in Sweeps, sweep' = [sweep EXCEPT ![c] = r],
           UNCHANGED <<lists, botList, listName, written>>, listCursor' \in Cursors,
           everStored \subseteq everStored', emptied' \subseteq everStored',
           StoredUpTo(listCursor', lists, written, everStored'), Backed(r, lists, written, everStored')
    PROVE  CollectInv'
  <1>1. CollectTypes /\ EntriesOnce
      BY DEF CollectInv
  <1>2. CollectTypes'
      BY <1>1 DEF CollectTypes
  <1>3. EntriesOnce'
      BY <1>1 DEF EntriesOnce
  <1>4. FilesMove(lists, written, lists')
      BY <1>1, FilesStay
  <1>5. \A d \in Collectors : sweep'[d] = IF d = c THEN r ELSE sweep[d]
      BY <1>1 DEF CollectTypes
  <1>6. \A d \in Collectors : sweep'[d] = sweep[d] \/ Backed(sweep'[d], lists', written', everStored')
      BY <1>5
  <1>7. written \in Nat /\ written' = written
      BY <1>1 DEF CollectTypes
  <1>8. QED
      BY <1>2, <1>3, <1>4, <1>6, <1>7, CollectMoves DEF NothingLostUncollected

\* A step of a collector that leaves the cursor and what is stored alone.
LEMMA SweepOnly ==
    ASSUME CollectInv, NEW c \in Collectors, NEW r \in Sweeps, sweep' = [sweep EXCEPT ![c] = r],
           UNCHANGED <<lists, botList, listName, written, emptied, listCursor, everStored>>,
           Backed(r, lists, written, everStored)
    PROVE  CollectInv'
  <1>1. /\ listCursor \in Cursors /\ emptied \subseteq everStored
        /\ StoredUpTo(listCursor, lists, written, everStored)
      BY DEF CollectInv, CollectTypes, NothingLostUncollected
  <1>2. listCursor' \in Cursors /\ emptied' \subseteq everStored' /\ everStored \subseteq everStored'
      BY <1>1
  <1>3. StoredUpTo(listCursor', lists, written, everStored')
      BY <1>1
  <1>4. Backed(r, lists, written, everStored')
      OBVIOUS
  <1>5. UNCHANGED <<lists, botList, listName, written>>
      OBVIOUS
  <1>6. QED
      BY <1>2, <1>3, <1>4, <1>5, OneSweep

\* A step of the bot or of an operator that leaves the files alone.
LEMMA HostOnly ==
    ASSUME CollectInv, botList' \in ListNames, listName' \in ListNames,
           UNCHANGED <<lists, written, emptied, listCursor, everStored, sweep>>
    PROVE  CollectInv'
  <1>1. CollectTypes /\ EntriesOnce /\ NothingLostUncollected /\ StoredUpTo(listCursor, lists, written, everStored)
      BY DEF CollectInv
  <1>2. CollectTypes'
      BY <1>1 DEF CollectTypes
  <1>3. EntriesOnce'
      BY <1>1 DEF EntriesOnce
  <1>4. FilesMove(lists, written, lists')
      BY <1>1, FilesStay
  <1>5. written \in Nat /\ written' = written
      BY <1>1 DEF CollectTypes
  <1>6. NothingLostUncollected' /\ StoredUpTo(listCursor', lists', written', everStored')
      BY <1>1 DEF NothingLostUncollected
  <1>7. QED
      BY <1>2, <1>3, <1>4, <1>5, <1>6, CollectMoves

-----------------------------------------------------------------------------
\* What a read of a file gives.
LEMMA ReadGives ==
    ASSUME NEW file \in Seq(Nat), NEW offset \in Nat
    PROVE  LET read == ReadFrom(file, offset)
               n == Len(read.chunk)
           IN  /\ read \in Reads /\ read.size = Len(file) /\ read.before = Fingerprint(file, offset)
               /\ read.after = Fingerprint(file, offset + n)
               /\ read.chunk # <<>> => /\ n > 0 /\ offset + n \in DOMAIN file
                                       /\ \A i \in 1..n : read.chunk[i] = file[offset + i]
  <1> DEFINE n == IF Len(file) < offset THEN 0
                  ELSE IF Len(file) - offset > MaxChunk THEN MaxChunk ELSE Len(file) - offset
             chunk == SubSeq(file, offset + 1, offset + n)
             read == ReadFrom(file, offset)
  <1>1. MaxChunk \in Nat /\ Len(file) \in Nat /\ DOMAIN file = 1..Len(file)
      BY CollectAssumption
  <1>2. n \in Nat /\ (n > 0 => offset + n <= Len(file))
      BY <1>1
  <1>3. /\ read.size = Len(file) /\ read.before = Fingerprint(file, offset) /\ read.chunk = chunk
        /\ read.after = Fingerprint(file, offset + n)
      BY DEF ReadFrom
  <1> HIDE DEF n
  <1>4. chunk \in Seq(Nat) /\ Len(chunk) = n /\ \A i \in 1..n : chunk[i] = file[offset + i]
    <2>1. CASE n = 0
        BY <1>1, <2>1
    <2>2. CASE n > 0
      <3>1. offset + 1 \in 1..Len(file) /\ offset + n \in 1..Len(file)
          BY <1>1, <1>2, <2>2
      <3>2. \A i \in 1..n : file[offset + i] \in Nat
          BY <1>1, <1>2, <2>2
      <3>3. QED
          BY <1>1, <1>2, <2>2, <3>1, <3>2
    <2>3. n = 0 \/ n > 0
        BY <1>2
    <2>4. QED
        BY <2>1, <2>2, <2>3, Zenon
  <1> HIDE DEF chunk
  <1>5. \A k \in Nat : Fingerprint(file, k) \in Nat
      BY DEF Fingerprint, NoMark
  <1>6. read \in Reads
    <2>1. Fingerprint(file, offset) \in Nat /\ Fingerprint(file, offset + n) \in Nat
        BY <1>2, <1>5
    <2> HIDE DEF read
    <2>2. read = [size |-> Len(file), before |-> Fingerprint(file, offset), chunk |-> chunk,
                  after |-> Fingerprint(file, offset + n), stopped |-> ~botRuns]
        BY DEF read, ReadFrom, n, chunk
    <2>3. (~botRuns) \in BOOLEAN
        OBVIOUS
    <2>4. QED
        BY <1>1, <1>4, <2>1, <2>2, <2>3 DEF Reads
  <1>7. read.chunk # <<>> => n > 0
      BY <1>2, <1>3, <1>4
  <1>8. n > 0 => offset + n \in DOMAIN file
      BY <1>1, <1>2
  <1> HIDE DEF read
  <1>9. QED
      BY <1>3, <1>4, <1>6, <1>7, <1>8 DEF read

-----------------------------------------------------------------------------
\* A cursor at the start of a file claims nothing.
LEMMA AtTheStart ==
    ASSUME NEW files \in [ListNames -> Seq(Nat)], NEW last \in Nat, NEW kept, NEW cursor \in Cursors,
           cursor.offset = 0, cursor.mark = 0
    PROVE  StoredUpTo(cursor, files, last, kept)
  <1>1. \A name \in ListNames : 0 \notin DOMAIN files[name]
      OBVIOUS
  <1>2. QED
      BY <1>1 DEF StoredUpTo

LEMMA IdleIsBacked ==
    ASSUME CollectTypes
    PROVE  /\ IdleSweep \in Sweeps /\ StartCursor \in Cursors
           /\ StoredUpTo(StartCursor, lists, written, everStored)
           /\ Backed(IdleSweep, lists, written, everStored)
  <1>1. StartCursor \in Cursors /\ StartCursor.offset = 0 /\ StartCursor.mark = 0
      BY DEF StartCursor, NoMark, Cursors
  <1>2. <<>> \in Seq(Nat)
      OBVIOUS
  <1>3. NoRead \in Reads
      BY <1>2 DEF NoRead, NoMark, Reads
  <1>4. IdleSweep \in Sweeps
      BY <1>1, <1>3 DEF IdleSweep, Sweeps
  <1>5. StoredUpTo(StartCursor, lists, written, everStored)
      BY <1>1, AtTheStart DEF CollectTypes
  <1>6. IdleSweep.pc = "idle" /\ IdleSweep.cursor = StartCursor
      BY DEF IdleSweep
  <1>7. Backed(IdleSweep, lists, written, everStored)
      BY <1>5, <1>6 DEF Backed, ListPcs
  <1>8. QED
      BY <1>1, <1>4, <1>5, <1>7

LEMMA ResetIsAStart ==
    ASSUME NEW cursor \in Cursors
    PROVE  ResetTo(cursor) \in Cursors /\ ResetTo(cursor).offset = 0 /\ ResetTo(cursor).mark = 0
  BY DEF ResetTo, StartCursor, NoMark, Cursors

\* Where a sweep goes next when nothing it carries changes.
LEMMA OnlyMovesOn ==
    ASSUME CollectInv, NEW c \in Collectors,
           NEW pc \in ListPcs \cup {"idle", "replays", "copy", "prune"}, pc # "store",
           pc \in ListPcs => sweep[c].pc \in ListPcs
    PROVE  LET r == [sweep[c] EXCEPT !.pc = pc]
           IN  r \in Sweeps /\ Backed(r, lists, written, everStored)
  <1> DEFINE s == sweep[c]
             r == [s EXCEPT !.pc = pc]
  <1>1. s \in Sweeps /\ Backed(s, lists, written, everStored)
      BY DEF CollectInv, CollectTypes
  <1> HIDE DEF s
  <1>2. r \in Sweeps /\ r.pc = pc /\ r.cursor = s.cursor /\ r.name = s.name
      BY <1>1 DEF Sweeps
  <1>3. pc # "drop"
      BY DEF ListPcs
  <1> HIDE DEF r
  <1>4. s.pc \in ListPcs => s.name \in ListNames
      BY <1>1 DEF Backed
  <1>5. pc \in ListPcs => s.pc \in ListPcs
      BY DEF s
  <1>6. Backed(r, lists, written, everStored)
      BY <1>1, <1>2, <1>3, <1>4, <1>5 DEF Backed
  <1>7. QED
      BY <1>2, <1>6 DEF r, s

\* ReadList: what a chunk is stored for is what the file holds, after an entry that is the cursor's.
LEMMA ReadIsBacked ==
    ASSUME CollectInv, NEW c \in Collectors, ReadList(c) PROVE CollectInv'
  <1> DEFINE s == sweep[c]
             file == lists[s.name]
             offset == s.cursor.offset
             read == ReadFrom(file, offset)
             moved == read.size < offset \/ read.before # s.cursor.mark
             r == [s EXCEPT !.read = read, !.pc = IF moved THEN "reset" ELSE "store"]
  <1>1. s \in Sweeps /\ Backed(s, lists, written, everStored) /\ CollectTypes /\ EntriesOnce
      BY DEF CollectInv, CollectTypes
  <1>2. /\ s.pc = "read" /\ UNCHANGED <<lists, botList, listName, written, emptied, listCursor, everStored>>
        /\ sweep' = [sweep EXCEPT ![c] = r] \/ sweep' = [sweep EXCEPT ![c] = [s EXCEPT !.pc = "replays"]]
      BY DEF ReadList, At, SweepTo, hostVars, storeVars
  <1>3. s.name \in ListNames /\ file \in Seq(Nat) /\ offset \in Nat
      BY <1>1, <1>2 DEF Backed, ListPcs, CollectTypes, Sweeps, Cursors
  <1> DEFINE n == Len(read.chunk)
  <1>4. /\ read \in Reads /\ read.size = Len(file) /\ read.before = Fingerprint(file, offset)
        /\ read.after = Fingerprint(file, offset + n)
        /\ read.chunk # <<>> => /\ n > 0 /\ offset + n \in DOMAIN file
                                /\ \A i \in 1..n : read.chunk[i] = file[offset + i]
      BY <1>3, ReadGives, Zenon
  <1>5. CASE sweep' = [sweep EXCEPT ![c] = [s EXCEPT !.pc = "replays"]]
    <2>1. [s EXCEPT !.pc = "replays"] \in Sweeps /\ Backed([s EXCEPT !.pc = "replays"], lists, written, everStored)
        BY OnlyMovesOn DEF ListPcs
    <2>2. QED
        BY <1>2, <1>5, <2>1, SweepOnly
  <1>6. CASE sweep' = [sweep EXCEPT ![c] = r]
    <2>1. PICK pc \in {"reset", "store"} : pc = (IF moved THEN "reset" ELSE "store")
        OBVIOUS
    <2>2. pc = "store" => ~(read.size < offset) /\ read.before = s.cursor.mark
        BY <2>1
    <2>3. r = [s EXCEPT !.read = read, !.pc = pc]
        BY <2>1
    <2> HIDE DEF read, r, s, file, moved, offset
    <2>4. r \in Sweeps /\ r.pc = pc /\ r.cursor = s.cursor /\ r.name = s.name /\ r.read = read
        BY <1>1, <1>4, <2>3 DEF Sweeps, ListPcs
    <2>5. ASSUME pc = "store", read.chunk # <<>> PROVE AsRead(r, lists, written)
      <3>1. n > 0 /\ n \in Nat /\ offset + n \in DOMAIN file /\ read.after = file[offset + n]
          BY <1>4, <2>5 DEF Fingerprint, Reads
      <3>2. read.after <= written
          BY <1>1, <1>3, <3>1 DEF EntriesOnce, file
      <3>3. offset # 0 => file[offset] = s.cursor.mark
        <4>1. DOMAIN file = 1..Len(file) /\ Len(file) \in Nat
            BY <1>3
        <4>2. offset # 0 => offset \in DOMAIN file
            BY <1>3, <3>1, <4>1
        <4>3. QED
            BY <1>4, <2>2, <2>5, <4>2 DEF Fingerprint
      <3>4. ASSUME NEW name \in ListNames, offset + n \in DOMAIN lists[name], lists[name][offset + n] = read.after
            PROVE  name = s.name
          BY <1>1, <1>3, <3>1, <3>4 DEF EntriesOnce, file
      <3>5. r.cursor.offset + Len(r.read.chunk) = offset + n
          BY <2>4 DEF offset
      <3>6. ASSUME NEW name \in ListNames, offset + n \in DOMAIN lists[name], lists[name][offset + n] = read.after
            PROVE  /\ \A i \in 1..n : lists[name][offset + i] = read.chunk[i]
                   /\ offset = 0 \/ lists[name][offset] = s.cursor.mark
          BY <1>4, <2>5, <3>3, <3>4, <3>6 DEF file
      <3>7. QED
          BY <2>4, <3>2, <3>5, <3>6 DEF AsRead, offset
    <2>6. Backed(r, lists, written, everStored)
      <3>1. StoredUpTo(r.cursor, lists, written, everStored)
          BY <1>1, <2>4 DEF Backed
      <3>2. QED
          BY <1>3, <2>4, <2>5, <3>1 DEF Backed
    <2>7. QED
        BY <1>2, <1>6, <2>4, <2>6, SweepOnly
  <1>7. QED
      BY <1>2, <1>5, <1>6

\* storeAndAdvance: the cursor moves over what its transaction stores.
LEMMA StoreIsBacked ==
    ASSUME CollectInv, NEW c \in Collectors, StoreAndAdvance(c) PROVE CollectInv'
  <1> DEFINE s == sweep[c]
             cursor == IF s.read.chunk = <<>> THEN s.cursor ELSE Advanced(s)
             next == IF cursor.offset # 0 /\ s.read.size = cursor.offset /\ s.read.stopped /\ StillCollecting
                       THEN "truncate" ELSE "replays"
  <1>1. s \in Sweeps /\ Backed(s, lists, written, everStored) /\ CollectTypes
      BY DEF CollectInv, CollectTypes
  <1>2. s.pc = "store" /\ UNCHANGED <<lists, botList, listName, written, emptied>>
      BY DEF StoreAndAdvance, At, hostVars
  <1>3. PICK pc \in {"truncate", "replays"} : pc = next
      OBVIOUS
  <1>4. \/ sweep' = [sweep EXCEPT ![c] = [s EXCEPT !.pc = pc]] /\ UNCHANGED <<listCursor, everStored>>
        \/ sweep' = [sweep EXCEPT ![c] = [s EXCEPT !.pc = "replays"]] /\ UNCHANGED <<listCursor, everStored>>
        \/ /\ s.read.chunk # <<>> /\ listCursor' = Advanced(s)
           /\ everStored' = everStored \cup ToSet(s.read.chunk)
           /\ sweep' = [sweep EXCEPT ![c] = [s EXCEPT !.cursor = Advanced(s), !.pc = pc]]
      BY <1>3 DEF StoreAndAdvance, SweepTo, storeVars
  <1> HIDE DEF s, cursor, next
  <1>5. ASSUME NEW p \in {"truncate", "replays"}, UNCHANGED <<listCursor, everStored>>,
               sweep' = [sweep EXCEPT ![c] = [s EXCEPT !.pc = p]]
        PROVE  CollectInv'
    <2>1. [s EXCEPT !.pc = p] \in Sweeps /\ Backed([s EXCEPT !.pc = p], lists, written, everStored)
        BY <1>2, OnlyMovesOn DEF s, ListPcs
    <2>2. QED
        BY <1>2, <1>5, <2>1, SweepOnly
  <1>6. CASE /\ s.read.chunk # <<>> /\ listCursor' = Advanced(s)
             /\ everStored' = everStored \cup ToSet(s.read.chunk)
             /\ sweep' = [sweep EXCEPT ![c] = [s EXCEPT !.cursor = Advanced(s), !.pc = pc]]
    <2> DEFINE r == [s EXCEPT !.cursor = Advanced(s), !.pc = pc]
               chunk == s.read.chunk
               n == Len(chunk)
               offset == s.cursor.offset
               kept == everStored \cup ToSet(chunk)
    <2>1. /\ chunk \in Seq(Nat) /\ n \in Nat /\ offset \in Nat /\ s.cursor.version \in Nat /\ s.read.after \in Nat
          /\ s.name \in ListNames /\ AsRead(s, lists, written) /\ StoredUpTo(s.cursor, lists, written, everStored)
        BY <1>1, <1>2, <1>6 DEF Backed, Sweeps, Cursors, Reads, ListPcs
    <2>2. /\ Advanced(s) \in Cursors /\ Advanced(s).offset = offset + n /\ Advanced(s).mark = s.read.after
        BY <2>1 DEF Advanced, Cursors
    <2>3. \A i \in 1..n : chunk[i] \in kept
        BY <2>1 DEF ToSet
    <2>4. StoredUpTo(Advanced(s), lists, written, kept)
      <3> DEFINE end == offset + n
      <3>1. s.read.after <= written
          BY <2>1 DEF AsRead
      <3>2. ASSUME NEW name \in ListNames, end \in DOMAIN lists[name], lists[name][end] = s.read.after,
                   NEW i \in 1..end
            PROVE  lists[name][i] \in kept
        <4>0. i \in Nat /\ i > 0 /\ i <= offset + n
            BY <2>1, <3>2
        <4>1. /\ \A j \in 1..n : lists[name][offset + j] = chunk[j]
              /\ offset = 0 \/ lists[name][offset] = s.cursor.mark
            BY <2>1, <3>2 DEF AsRead
        <4>2. CASE i > offset
          <5>1. i - offset \in 1..n /\ offset + (i - offset) = i
              BY <2>1, <4>0, <4>2
          <5>2. lists[name][offset + (i - offset)] = chunk[i - offset] /\ chunk[i - offset] \in kept
              BY <2>3, <4>1, <5>1
          <5>3. QED
              BY <5>1, <5>2
        <4>3. CASE i <= offset
          <5>1. lists[name] \in Seq(Nat)
              BY <1>1 DEF CollectTypes
          <5>2. DOMAIN lists[name] = 1..Len(lists[name]) /\ Len(lists[name]) \in Nat
              BY <5>1
          <5>3. offset \in DOMAIN lists[name] /\ offset # 0 /\ i \in 1..offset
              BY <2>1, <3>2, <4>0, <4>3, <5>2
          <5>4. lists[name][i] \in everStored
              BY <2>1, <4>1, <5>3 DEF StoredUpTo
          <5>5. QED
              BY <5>4
        <4>4. QED
            BY <2>1, <4>0, <4>2, <4>3
      <3>3. QED
          BY <2>2, <3>1, <3>2 DEF StoredUpTo
    <2> HIDE DEF kept
    <2>5. r \in Sweeps /\ r.cursor = Advanced(s) /\ r.name = s.name /\ r.pc = pc
        BY <1>1, <2>2 DEF Sweeps, ListPcs
    <2> HIDE DEF r
    <2>6. Backed(r, lists, written, kept)
        BY <2>1, <2>4, <2>5 DEF Backed
    <2>7. everStored' = kept /\ sweep' = [sweep EXCEPT ![c] = r] /\ everStored \subseteq kept
        BY <1>6 DEF r, kept
    <2>8. emptied' \subseteq everStored'
        BY <1>2, <2>7 DEF CollectInv, NothingLostUncollected
    <2>9. /\ listCursor' \in Cursors /\ StoredUpTo(listCursor', lists, written, everStored')
          /\ Backed(r, lists, written, everStored') /\ everStored \subseteq everStored'
        BY <1>6, <2>2, <2>4, <2>6, <2>7
    <2>10. UNCHANGED <<lists, botList, listName, written>>
        BY <1>2
    <2>11. QED
        BY <2>5, <2>7, <2>8, <2>9, <2>10, OneSweep
  <1>7. QED
      BY <1>4, <1>5, <1>6

\* truncateCommand: what the host still shows at the cursor is stored, so the list may go.
LEMMA TruncateIsBacked ==
    ASSUME CollectInv, NEW c \in Collectors, TruncateList(c) PROVE CollectInv'
  <1> DEFINE s == sweep[c]
             file == lists[s.name]
  <1>1. s \in Sweeps /\ Backed(s, lists, written, everStored) /\ CollectTypes /\ EntriesOnce
        /\ StoredUpTo(listCursor, lists, written, everStored) /\ emptied \subseteq everStored
      BY DEF CollectInv, CollectTypes, NothingLostUncollected
  <1>2. s.pc = "truncate" /\ UNCHANGED <<botList, listName, written, listCursor, everStored>>
      BY DEF TruncateList, At, storeVars
  <1>3. PICK pc \in {"restart", "replays"} : sweep' = [sweep EXCEPT ![c] = [s EXCEPT !.pc = pc]]
      BY DEF TruncateList, SweepTo
  <1>4. \/ UNCHANGED <<lists, emptied>>
        \/ /\ StillAsRead(file, s.cursor) /\ lists' = [lists EXCEPT ![s.name] = <<>>]
           /\ emptied' = emptied \cup ToSet(file)
      BY DEF TruncateList
  <1> HIDE DEF s
  <1> DEFINE r == [s EXCEPT !.pc = pc]
  <1>5. r \in Sweeps /\ Backed(r, lists, written, everStored)
      BY <1>2, OnlyMovesOn DEF s, ListPcs
  <1>6. s.name \in ListNames /\ file \in Seq(Nat) /\ s.cursor \in Cursors
      BY <1>1, <1>2 DEF Backed, ListPcs, CollectTypes, Sweeps
  <1> HIDE DEF r, file
  <1>7. CASE UNCHANGED <<lists, emptied>>
      BY <1>2, <1>3, <1>5, <1>7, SweepOnly DEF r
  <1>8. CASE /\ StillAsRead(file, s.cursor) /\ lists' = [lists EXCEPT ![s.name] = <<>>]
             /\ emptied' = emptied \cup ToSet(file)
    <2>1. \A name \in ListNames : lists'[name] = IF name = s.name THEN <<>> ELSE lists[name]
        BY <1>1, <1>8 DEF CollectTypes
    <2>0. <<>> \in Seq(Nat)
        OBVIOUS
    <2>2. lists' \in [ListNames -> Seq(Nat)] /\ lists \in [ListNames -> Seq(Nat)] /\ written \in Nat
        BY <1>1, <1>8, <2>0 DEF CollectTypes
    <2>a. written \in Nat /\ written' \in Nat /\ written <= written' /\ everStored \subseteq everStored'
        BY <1>2, <2>2
    <2>3. FilesMove(lists, written, lists')
      <3>1. ASSUME NEW name \in ListNames, NEW i \in DOMAIN lists'[name]
            PROVE  i \in DOMAIN lists[name] /\ \A j \in 1..i : lists'[name][j] = lists[name][j]
        <4>1. name # s.name
            BY <2>1, <3>1
        <4>2. QED
            BY <2>1, <3>1, <4>1
      <3>2. QED
          BY <3>1 DEF FilesMove
    <2>4. ToSet(file) \subseteq everStored
      <3>1. Len(file) = s.cursor.offset /\ Fingerprint(file, s.cursor.offset) = s.cursor.mark
          BY <1>8 DEF StillAsRead
      <3>2. DOMAIN file = 1..Len(file) /\ Len(file) \in Nat
          BY <1>6
      <3>3. ASSUME NEW i \in DOMAIN file PROVE file[i] \in everStored
        <4>1. s.cursor.offset \in DOMAIN file /\ i \in 1..s.cursor.offset
            BY <3>1, <3>2, <3>3
        <4>2. file[s.cursor.offset] = s.cursor.mark
            BY <3>1, <4>1 DEF Fingerprint
        <4>3. QED
            BY <1>1, <1>6, <4>1, <4>2 DEF Backed, StoredUpTo, file
      <3>4. QED
          BY <3>3 DEF ToSet
    <2>5. EntriesOnce'
      <3>1. \A name \in ListNames : \A i \in DOMAIN lists'[name] :
                i \in DOMAIN lists[name] /\ lists'[name][i] = lists[name][i]
          BY <2>1
      <3>2. written' = written
          BY <1>2
      <3>3. QED
          BY <1>1, <3>1, <3>2 DEF EntriesOnce
    <2>6. CollectTypes'
        BY <1>1, <1>2, <1>3, <1>5, <2>2 DEF CollectTypes, r
    <2>7. \A d \in Collectors : sweep'[d] = IF d = c THEN r ELSE sweep[d]
        BY <1>1, <1>3 DEF CollectTypes, r
    <2>8. Backed(r, lists', written', everStored')
        BY <1>5, <2>2, <2>3, <2>a, BackedStays
    <2>9. StoredUpTo(listCursor', lists', written', everStored')
      <3>1. listCursor \in Cursors
          BY <1>1 DEF CollectTypes
      <3>2. StoredUpTo(listCursor, lists', written', everStored')
          BY <1>1, <2>2, <2>3, <2>a, <3>1, StoredStays
      <3>3. QED
          BY <1>2, <3>2
    <2>10. NothingLostUncollected'
        BY <1>1, <1>2, <1>8, <2>4 DEF NothingLostUncollected
    <2>11. written <= written' /\ everStored \subseteq everStored'
        BY <1>2, <2>2
    <2>12. \A d \in Collectors : sweep'[d] = sweep[d] \/ Backed(sweep'[d], lists', written', everStored')
        BY <2>7, <2>8
    <2>13. QED
        BY <2>3, <2>5, <2>6, <2>9, <2>10, <2>11, <2>12, CollectMoves
  <1>9. QED
      BY <1>4, <1>7, <1>8

-----------------------------------------------------------------------------
LEMMA CollectHost ==
    ASSUME CollectInv,
           \/ BotStarts \/ BotStops \/ HostLeaves
           \/ \E name \in ListNames : ListRenamed(name)
           \/ \E r \in Replays : ReplayAges(r)
    PROVE  CollectInv'
  <1>1. botList \in ListNames /\ listName \in ListNames
      BY DEF CollectInv, CollectTypes
  <1>2. botList' \in ListNames /\ listName' \in ListNames
      BY <1>1 DEF BotStarts, BotStops, HostLeaves, ListRenamed, ReplayAges
  <1>3. UNCHANGED <<lists, written, emptied, listCursor, everStored, sweep>>
      BY DEF BotStarts, BotStops, HostLeaves, ListRenamed, ReplayAges, storeVars
  <1>4. QED
      BY <1>2, <1>3, HostOnly

\* An entry is written once, at the end of one file.
LEMMA CollectAppends ==
    ASSUME CollectInv, BotAppends PROVE CollectInv'
  <1>1. CollectTypes /\ EntriesOnce /\ emptied \subseteq everStored /\ StoredUpTo(listCursor, lists, written, everStored)
      BY DEF CollectInv, NothingLostUncollected
  <1>2. /\ written' = written + 1 /\ lists' = [lists EXCEPT ![botList] = Append(lists[botList], written + 1)]
        /\ UNCHANGED <<botList, listName, emptied, listCursor, everStored, sweep>>
      BY DEF BotAppends, storeVars
  <1>3. written \in Nat /\ botList \in ListNames /\ lists[botList] \in Seq(Nat)
      BY <1>1 DEF CollectTypes
  <1>4. Append(lists[botList], written + 1) \in Seq(Nat)
      BY <1>3
  <1>5. CollectTypes'
      BY <1>1, <1>2, <1>3, <1>4 DEF CollectTypes
  <1>6. \A name \in ListNames : lists'[name] = IF name = botList THEN Append(lists[name], written + 1) ELSE lists[name]
      BY <1>1, <1>2 DEF CollectTypes
  <1>7. \A name \in ListNames : \A i \in DOMAIN lists'[name] :
            \/ lists'[name][i] = written + 1 /\ name = botList /\ i = Len(lists[name]) + 1
            \/ i \in DOMAIN lists[name] /\ lists'[name][i] = lists[name][i]
    <2>1. ASSUME NEW name \in ListNames, NEW i \in DOMAIN lists'[name]
          PROVE  \/ lists'[name][i] = written + 1 /\ name = botList /\ i = Len(lists[name]) + 1
                 \/ i \in DOMAIN lists[name] /\ lists'[name][i] = lists[name][i]
      <3>1. lists[name] \in Seq(Nat)
          BY <1>1 DEF CollectTypes
      <3>2. CASE name = botList
        <4>1. lists'[name] = Append(lists[name], written + 1)
            BY <1>6, <3>2
        <4>2. QED
            BY <1>3, <2>1, <3>1, <3>2, <4>1
      <3>3. CASE name # botList
          BY <1>6, <2>1, <3>3
      <3>4. QED
          BY <3>2, <3>3
    <2>2. QED
        BY <2>1
  <1>8. \A name \in ListNames : \A i \in DOMAIN lists[name] :
            i \in DOMAIN lists'[name] /\ lists'[name][i] = lists[name][i]
    <2>1. ASSUME NEW name \in ListNames, NEW i \in DOMAIN lists[name]
          PROVE  i \in DOMAIN lists'[name] /\ lists'[name][i] = lists[name][i]
      <3>1. lists[name] \in Seq(Nat)
          BY <1>1 DEF CollectTypes
      <3>2. CASE name = botList
        <4>1. lists'[name] = Append(lists[name], written + 1)
            BY <1>6, <3>2
        <4>2. QED
            BY <1>3, <2>1, <3>1, <4>1
      <3>3. CASE name # botList
          BY <1>6, <2>1, <3>3
      <3>4. QED
          BY <3>2, <3>3
    <2>2. QED
        BY <2>1
  <1>9. EntriesOnce'
    <2>1. \A name \in ListNames : \A i \in DOMAIN lists[name] : lists[name][i] > 0 /\ lists[name][i] <= written
        BY <1>1 DEF EntriesOnce
    <2>2. \A name \in ListNames : \A i \in DOMAIN lists[name] : lists[name][i] \in Nat
        BY <1>1 DEF CollectTypes
    <2>3. \A name \in ListNames : \A i \in DOMAIN lists'[name] : lists'[name][i] > 0 /\ lists'[name][i] <= written'
        BY <1>2, <1>3, <1>7, <2>1, <2>2
    <2>4. ASSUME NEW m \in ListNames, NEW n \in ListNames, NEW i \in DOMAIN lists'[m], NEW j \in DOMAIN lists'[n],
                 lists'[m][i] = lists'[n][j]
          PROVE  m = n /\ i = j
      <3>1. \A name \in ListNames : \A k \in DOMAIN lists[name] : lists[name][k] # written + 1
          BY <1>3, <2>1, <2>2
      <3>2. CASE lists'[m][i] = written + 1
        <4>1. m = botList /\ i = Len(lists[m]) + 1
            BY <1>7, <2>4, <3>1, <3>2
        <4>2. lists'[n][j] = written + 1
            BY <2>4, <3>2
        <4>3. n = botList /\ j = Len(lists[n]) + 1
            BY <1>7, <2>4, <3>1, <4>2
        <4>4. QED
            BY <4>1, <4>3
      <3>3. CASE lists'[m][i] # written + 1
        <4>1. i \in DOMAIN lists[m] /\ j \in DOMAIN lists[n] /\ lists[m][i] = lists[n][j]
            BY <1>7, <2>4, <3>3
        <4>2. QED
            BY <1>1, <4>1 DEF EntriesOnce
      <3>4. QED
          BY <3>2, <3>3
    <2>5. QED
        BY <2>3, <2>4 DEF EntriesOnce
  <1>10. FilesMove(lists, written, lists')
    <2>1. ASSUME NEW name \in ListNames, NEW i \in DOMAIN lists'[name]
          PROVE  lists'[name][i] > written \/ (i \in DOMAIN lists[name] /\ \A j \in 1..i : lists'[name][j] = lists[name][j])
      <3>1. CASE i \in DOMAIN lists[name]
        <4>1. lists[name] \in Seq(Nat)
            BY <1>1 DEF CollectTypes
        <4>2. DOMAIN lists[name] = 1..Len(lists[name]) /\ Len(lists[name]) \in Nat
            BY <4>1
        <4>3. \A j \in 1..i : j \in DOMAIN lists[name]
            BY <3>1, <4>2
        <4>4. QED
            BY <1>8, <3>1, <4>3
      <3>2. CASE i \notin DOMAIN lists[name]
        <4>1. lists'[name][i] = written + 1
            BY <1>7, <2>1, <3>2
        <4>2. QED
            BY <1>3, <4>1
      <3>3. QED
          BY <3>1, <3>2
    <2>2. QED
        BY <2>1 DEF FilesMove
  <1>11. written \in Nat /\ written' \in Nat /\ written <= written' /\ everStored \subseteq everStored'
      BY <1>2, <1>3
  <1>12. StoredUpTo(listCursor', lists', written', everStored')
    <2>1. listCursor \in Cursors /\ lists \in [ListNames -> Seq(Nat)] /\ lists' \in [ListNames -> Seq(Nat)]
        BY <1>1, <1>5 DEF CollectTypes
    <2>2. StoredUpTo(listCursor, lists', written', everStored')
        BY <1>1, <1>10, <1>11, <2>1, StoredStays
    <2>3. QED
        BY <1>2, <2>2
  <1>13. NothingLostUncollected' /\ \A c \in Collectors : sweep'[c] = sweep[c]
      BY <1>1, <1>2 DEF NothingLostUncollected
  <1>14. QED
      BY <1>5, <1>9, <1>10, <1>11, <1>12, <1>13, CollectMoves

\* The steps of a sweep that neither read the list nor store nor empty it.
LEMMA CollectPaces ==
    ASSUME CollectInv, NEW c \in Collectors,
           \/ SweepBegins(c) \/ SweepLost(c) \/ ResetMoved(c) \/ RestartCursor(c) \/ ListReplays(c)
           \/ PruneReplays(c) \/ PruneStored(c)
    PROVE  CollectInv'
  <1> DEFINE s == sweep[c]
  <1>1. s \in Sweeps /\ Backed(s, lists, written, everStored) /\ CollectTypes
        /\ StoredUpTo(listCursor, lists, written, everStored) /\ emptied \subseteq everStored
      BY DEF CollectInv, CollectTypes, NothingLostUncollected
  <1>2. IdleSweep \in Sweeps /\ Backed(IdleSweep, lists, written, everStored)
      BY <1>1, IdleIsBacked
  <1>3. CASE SweepBegins(c)
    <2> DEFINE r == [IdleSweep EXCEPT !.pc = "read", !.name = listName, !.cursor = listCursor]
    <2>1. listCursor \in Cursors /\ listName \in ListNames
        BY <1>1 DEF CollectTypes
    <2>2. r \in Sweeps /\ r.pc = "read" /\ r.name = listName /\ r.cursor = listCursor
        BY <1>2, <2>1 DEF Sweeps, ListPcs
    <2>3. sweep' = [sweep EXCEPT ![c] = r]
          /\ UNCHANGED <<lists, botList, listName, written, emptied, listCursor, everStored>>
        BY <1>3 DEF SweepBegins, SweepTo, hostVars, storeVars
    <2> HIDE DEF r
    <2>4. Backed(r, lists, written, everStored)
        BY <1>1, <2>1, <2>2 DEF Backed
    <2>5. QED
        BY <2>2, <2>3, <2>4, SweepOnly
  <1>4. CASE SweepLost(c) \/ PruneStored(c)
    <2>1. /\ sweep' = [sweep EXCEPT ![c] = IdleSweep]
          /\ UNCHANGED <<lists, botList, listName, written, emptied, listCursor, everStored>>
        BY <1>4 DEF SweepLost, PruneStored, SweepTo, hostVars, storeVars
    <2>2. QED
        BY <1>2, <2>1, SweepOnly
  <1>5. CASE ResetMoved(c) /\ CanReset(s.cursor)
    <2> DEFINE cursor == ResetTo(s.cursor)
               r == [s EXCEPT !.cursor = cursor, !.pc = "read"]
    <2>1. s.pc = "reset" /\ listCursor' = cursor /\ sweep' = [sweep EXCEPT ![c] = r]
          /\ UNCHANGED <<lists, botList, listName, written, emptied, everStored>>
        BY <1>5 DEF ResetMoved, SweepTo, At, hostVars
    <2>2. cursor \in Cursors /\ cursor.offset = 0 /\ cursor.mark = 0
        BY <1>1, ResetIsAStart DEF Sweeps
    <2> HIDE DEF cursor, s
    <2>3. StoredUpTo(cursor, lists, written, everStored)
        BY <1>1, <2>2, AtTheStart DEF CollectTypes
    <2>4. r \in Sweeps /\ r.pc = "read" /\ r.name = s.name /\ r.cursor = cursor
        BY <1>1, <2>2 DEF Sweeps, ListPcs
    <2> HIDE DEF r
    <2>5. Backed(r, lists, written, everStored)
        BY <1>1, <2>1, <2>3, <2>4 DEF Backed, ListPcs
    <2>6. /\ listCursor' \in Cursors /\ StoredUpTo(listCursor', lists, written, everStored')
          /\ Backed(r, lists, written, everStored') /\ everStored \subseteq everStored' /\ emptied' \subseteq everStored'
        BY <1>1, <2>1, <2>2, <2>3, <2>5
    <2>7. sweep' = [sweep EXCEPT ![c] = r] /\ UNCHANGED <<lists, botList, listName, written>>
        BY <2>1 DEF r
    <2>8. QED
        BY <2>4, <2>6, <2>7, OneSweep
  <1>6. CASE RestartCursor(c)
    <2> DEFINE cursor == IF CanReset(s.cursor) THEN ResetTo(s.cursor) ELSE listCursor
               r == [s EXCEPT !.pc = "replays"]
    <2>1. listCursor' = cursor /\ sweep' = [sweep EXCEPT ![c] = r]
          /\ UNCHANGED <<lists, botList, listName, written, emptied, everStored>>
        BY <1>6 DEF RestartCursor, SweepTo, hostVars
    <2>2. ResetTo(s.cursor) \in Cursors /\ ResetTo(s.cursor).offset = 0 /\ ResetTo(s.cursor).mark = 0
        BY <1>1, ResetIsAStart DEF Sweeps
    <2>3. StoredUpTo(ResetTo(s.cursor), lists, written, everStored)
        BY <1>1, <2>2, AtTheStart DEF CollectTypes
    <2>4. cursor \in Cursors /\ StoredUpTo(cursor, lists, written, everStored)
        BY <1>1, <2>2, <2>3 DEF CollectTypes
    <2> HIDE DEF cursor
    <2>5. r \in Sweeps /\ Backed(r, lists, written, everStored)
        BY OnlyMovesOn DEF ListPcs
    <2> HIDE DEF r
    <2>6. /\ listCursor' \in Cursors /\ StoredUpTo(listCursor', lists, written, everStored')
          /\ Backed(r, lists, written, everStored') /\ everStored \subseteq everStored' /\ emptied' \subseteq everStored'
        BY <1>1, <2>1, <2>4, <2>5
    <2>7. sweep' = [sweep EXCEPT ![c] = r] /\ UNCHANGED <<lists, botList, listName, written>>
        BY <2>1
    <2>8. QED
        BY <2>5, <2>6, <2>7, OneSweep
  <1>7. CASE (ResetMoved(c) /\ ~CanReset(s.cursor)) \/ PruneReplays(c) \/ (ListReplays(c) /\ ~StillCollecting)
    <2>1. PICK pc \in {"replays", "prune"} :
              /\ sweep' = [sweep EXCEPT ![c] = [s EXCEPT !.pc = pc]]
              /\ UNCHANGED <<lists, botList, listName, written, emptied, listCursor, everStored>>
        BY <1>7 DEF ResetMoved, PruneReplays, ListReplays, SweepTo, hostVars, storeVars
    <2>2. [s EXCEPT !.pc = pc] \in Sweeps /\ Backed([s EXCEPT !.pc = pc], lists, written, everStored)
        BY OnlyMovesOn DEF ListPcs
    <2>3. QED
        BY <2>1, <2>2, SweepOnly
  <1>8. CASE ListReplays(c) /\ StillCollecting
    <2> DEFINE due == {q \in Replays : replayFiles[q] \in {"settled", "old"}}
               r == [s EXCEPT !.pc = "copy", !.todo = due]
    <2>1. /\ sweep' = [sweep EXCEPT ![c] = r]
          /\ UNCHANGED <<lists, botList, listName, written, emptied, listCursor, everStored>>
        BY <1>8 DEF ListReplays, SweepTo, hostVars, storeVars
    <2>2. due \in SUBSET Replays
        OBVIOUS
    <2> HIDE DEF due, s
    <2>3. r \in Sweeps /\ r.pc = "copy" /\ r.cursor = s.cursor
        BY <1>1, <2>2 DEF Sweeps
    <2> HIDE DEF r
    <2>4. Backed(r, lists, written, everStored)
        BY <1>1, <2>3 DEF Backed, ListPcs
    <2>5. QED
        BY <2>1, <2>3, <2>4, SweepOnly
  <1>9. QED
      BY <1>3, <1>4, <1>5, <1>6, <1>7, <1>8

\* A replay is taken off the host only by a sweep that stored it.
LEMMA CollectReplays ==
    ASSUME CollectInv, NEW c \in Collectors, DropReplay(c) \/ \E q \in Replays : KeepReplay(c, q)
    PROVE  CollectInv'
  <1> DEFINE s == sweep[c]
  <1>1. s \in Sweeps /\ Backed(s, lists, written, everStored) /\ CollectTypes
        /\ StoredUpTo(listCursor, lists, written, everStored) /\ emptied \subseteq everStored
      BY DEF CollectInv, CollectTypes, NothingLostUncollected
  <1>2. CASE DropReplay(c)
    <2> DEFINE r == [s EXCEPT !.pc = "copy", !.todo = s.todo \ {s.name}, !.name = "none"]
    <2>1. /\ s.pc = "drop" /\ sweep' = [sweep EXCEPT ![c] = r]
          /\ UNCHANGED <<lists, botList, listName, written, listCursor, everStored>>
        BY <1>2 DEF DropReplay, SweepTo, At, storeVars
    <2>2. emptied' \subseteq emptied \cup {s.name}
        BY <1>2 DEF DropReplay
    <2>3. s.name \in everStored
        BY <1>1, <2>1 DEF Backed
    <2> HIDE DEF s
    <2>4. r \in Sweeps /\ r.pc = "copy" /\ r.cursor = s.cursor
        BY <1>1 DEF Sweeps
    <2> HIDE DEF r
    <2>5. Backed(r, lists, written, everStored)
        BY <1>1, <2>4 DEF Backed, ListPcs
    <2>6. /\ listCursor' \in Cursors /\ StoredUpTo(listCursor', lists, written, everStored')
          /\ Backed(r, lists, written, everStored') /\ everStored \subseteq everStored' /\ emptied' \subseteq everStored'
        BY <1>1, <2>1, <2>2, <2>3, <2>5 DEF CollectTypes
    <2>7. sweep' = [sweep EXCEPT ![c] = r] /\ UNCHANGED <<lists, botList, listName, written>>
        BY <2>1
    <2>8. QED
        BY <2>4, <2>6, <2>7, OneSweep
  <1>3. ASSUME NEW q \in Replays, KeepReplay(c, q), CanCarry(q) PROVE CollectInv'
    <2> DEFINE r == [s EXCEPT !.pc = "drop", !.name = q]
    <2>1. /\ sweep' = [sweep EXCEPT ![c] = r] /\ everStored' = everStored \cup {q}
          /\ UNCHANGED <<lists, botList, listName, written, emptied, listCursor>>
        BY <1>3 DEF KeepReplay, SweepTo, hostVars
    <2> HIDE DEF s
    <2>2. r \in Sweeps /\ r.pc = "drop" /\ r.name = q /\ r.cursor = s.cursor
        BY <1>1 DEF Sweeps
    <2> HIDE DEF r
    <2>3. /\ lists \in [ListNames -> Seq(Nat)] /\ written \in Nat /\ written <= written
          /\ everStored \subseteq everStored' /\ s.cursor \in Cursors /\ listCursor \in Cursors
          /\ FilesMove(lists, written, lists)
        BY <1>1, <2>1, FilesStay DEF CollectTypes, Sweeps, FilesMove
    <2>4. /\ StoredUpTo(s.cursor, lists, written, everStored')
          /\ StoredUpTo(listCursor, lists, written, everStored')
        BY <1>1, <2>3, StoredStays DEF Backed
    <2>5. Backed(r, lists, written, everStored')
        BY <2>1, <2>2, <2>4 DEF Backed, ListPcs
    <2>6. /\ listCursor' \in Cursors /\ StoredUpTo(listCursor', lists, written, everStored')
          /\ everStored \subseteq everStored' /\ emptied' \subseteq everStored'
        BY <1>1, <2>1, <2>3, <2>4
    <2>7. UNCHANGED <<lists, botList, listName, written>>
        BY <2>1
    <2>8. QED
        BY <2>1, <2>2, <2>5, <2>6, <2>7, OneSweep
  <1>4. ASSUME NEW q \in Replays, KeepReplay(c, q), ~CanCarry(q) PROVE CollectInv'
    <2> DEFINE r == [s EXCEPT !.todo = s.todo \ {q}]
    <2>1. /\ s.pc = "copy" /\ sweep' = [sweep EXCEPT ![c] = r]
          /\ UNCHANGED <<lists, botList, listName, written, emptied, listCursor, everStored>>
        BY <1>4 DEF KeepReplay, SweepTo, At, hostVars
    <2> HIDE DEF s
    <2>2. r \in Sweeps /\ r.pc = "copy" /\ r.cursor = s.cursor
        BY <1>1, <2>1 DEF Sweeps
    <2> HIDE DEF r
    <2>3. Backed(r, lists, written, everStored)
        BY <1>1, <2>2 DEF Backed, ListPcs
    <2>4. QED
        BY <2>1, <2>2, <2>3, SweepOnly
  <1>5. QED
      BY <1>2, <1>3, <1>4

LEMMA CollectInitial == CollectInit => CollectInv
  <1> SUFFICES ASSUME CollectInit PROVE CollectInv
      OBVIOUS
  <1>1. /\ lists = [name \in ListNames |-> <<>>] /\ listName \in ListNames /\ botList = listName /\ written = 0
        /\ listCursor = StartCursor /\ emptied = {} /\ sweep = [c \in Collectors |-> IdleSweep]
      BY CollectAssumption DEF CollectInit
  <1>2. <<>> \in Seq(Nat) /\ DOMAIN <<>> = {}
      OBVIOUS
  <1>3. lists \in [ListNames -> Seq(Nat)] /\ \A name \in ListNames : DOMAIN lists[name] = {}
      BY <1>1, <1>2
  <1>4. StartCursor \in Cursors /\ StartCursor.offset = 0 /\ StartCursor.mark = 0 /\ NoRead \in Reads
      BY <1>2 DEF StartCursor, NoMark, Cursors, NoRead, Reads
  <1>5. IdleSweep \in Sweeps
      BY <1>4 DEF IdleSweep, Sweeps
  <1>6. CollectTypes
      BY <1>1, <1>3, <1>4, <1>5 DEF CollectTypes
  <1>7. EntriesOnce
      BY <1>3 DEF EntriesOnce
  <1>8. StoredUpTo(listCursor, lists, written, everStored) /\ Backed(IdleSweep, lists, written, everStored)
      BY <1>1, <1>6, IdleIsBacked
  <1>9. \A c \in Collectors : Backed(sweep[c], lists, written, everStored)
      BY <1>1, <1>8
  <1>10. NothingLostUncollected
      BY <1>1 DEF NothingLostUncollected
  <1>11. QED
      BY <1>6, <1>7, <1>8, <1>9, <1>10 DEF CollectInv

\* However collectors overlap, lose their host or die, and whatever name the list is given: nothing leaves the host as
\* collected that was not stored (collectPlayerList, truncateCommand, collectReplays).
THEOREM CollectedIsStored == CollectSpec => []NothingLostUncollected
  <1>1. CollectInv /\ [CollectNext]_collectVars => CollectInv'
    <2> SUFFICES ASSUME CollectInv, [CollectNext]_collectVars PROVE CollectInv'
        OBVIOUS
    <2>1. CASE \/ BotStarts \/ BotStops \/ HostLeaves
               \/ \E name \in ListNames : ListRenamed(name)
               \/ \E r \in Replays : ReplayAges(r)
        BY <2>1, CollectHost
    <2>2. CASE BotAppends
        BY <2>2, CollectAppends
    <2>3. ASSUME NEW c \in Collectors,
                 \/ SweepBegins(c) \/ SweepLost(c) \/ ResetMoved(c) \/ RestartCursor(c) \/ ListReplays(c)
                 \/ PruneReplays(c) \/ PruneStored(c)
          PROVE  CollectInv'
        BY <2>3, CollectPaces
    <2>4. ASSUME NEW c \in Collectors, ReadList(c) PROVE CollectInv'
        BY <2>4, ReadIsBacked
    <2>5. ASSUME NEW c \in Collectors, StoreAndAdvance(c) PROVE CollectInv'
        BY <2>5, StoreIsBacked
    <2>6. ASSUME NEW c \in Collectors, TruncateList(c) PROVE CollectInv'
        BY <2>6, TruncateIsBacked
    <2>7. ASSUME NEW c \in Collectors, DropReplay(c) \/ \E q \in Replays : KeepReplay(c, q) PROVE CollectInv'
        BY <2>7, CollectReplays
    <2>8. CASE UNCHANGED collectVars
      <3>1. botList \in ListNames /\ listName \in ListNames
          BY DEF CollectInv, CollectTypes
      <3>2. QED
          BY <2>8, <3>1, HostOnly DEF collectVars
    <2>9. QED
        BY <2>1, <2>2, <2>3, <2>4, <2>5, <2>6, <2>7, <2>8 DEF CollectNext
  <1>2. CollectInv => NothingLostUncollected
      BY DEF CollectInv
  <1>3. QED
      BY <1>1, <1>2, CollectInitial, PTL DEF CollectSpec

-----------------------------------------------------------------------------
(***************************************************************************)
(* BotSchedules, for any pages, calls, windows and local times whose days  *)
(* ascend.  One tick is at work at a time, so the date of the last run is  *)
(* enough to send once a day; a call that overlapped no other knows what it *)
(* did to the timers.                                                      *)
(***************************************************************************)
CommandRows == [version : Nat, days : SUBSET Nat, minute : Nat, enabled : BOOLEAN, lastRun : Nat]
Ticks == [pc : {"claim", "send"}, at : Nat, row : CommandRows]

CommandTypes ==
    /\ minuteNow \in 1..Len(LocalTime) /\ versions \in Nat
    /\ command \in CommandRows /\ shown \in CommandRows
    /\ commandTick \in {NoTick} \cup Ticks
    /\ sends \in Seq(Nat \X Nat)

\* What was sent of a row was noted in it, no earlier than on its day.
Noted(rec) ==
    \A k \in DOMAIN sends : sends[k][1] = rec.version => rec.lastRun # Never /\ sends[k][2] <= Day(rec.lastRun)

\* The row a tick read tells all that was sent of it; once it is claimed, nothing was sent of it on that day.
TickKnows ==
    commandTick # NoTick =>
        LET rec == commandTick.row
            at == commandTick.at
        IN  /\ rec.version \in 1..versions /\ at \in 1..minuteNow
            /\ \A k \in DOMAIN sends : sends[k][1] <= rec.version
            /\ commandTick.pc = "claim" =>
                  /\ Noted(rec) /\ rec.lastRun <= at
                  /\ command.version = rec.version => command.lastRun = rec.lastRun
            /\ commandTick.pc = "send" =>
                  /\ \A k \in DOMAIN sends : sends[k] # <<rec.version, Day(at)>>
                  /\ command.version = rec.version => command.lastRun = at

CommandInv ==
    /\ CommandTypes
    /\ command.version \in {0, versions} /\ command.lastRun <= minuteNow
    /\ command.enabled => command.version # 0
    /\ \A k \in DOMAIN sends : sends[k][1] \in 1..versions
    /\ Noted(command)
    /\ TickKnows
    /\ OncePerLocalDay

-----------------------------------------------------------------------------
LEMMA DaysOrder ==
    ASSUME NEW j \in 1..Len(LocalTime), NEW k \in 1..Len(LocalTime)
    PROVE  Day(j) \in Nat /\ Day(k) \in Nat /\ (j <= k => Day(j) <= Day(k))
  <1>1. DOMAIN LocalTime = 1..Len(LocalTime) /\ \A i \in DOMAIN LocalTime : LocalTime[i] \in [day : Nat, minute : Nat]
    <2> DEFINE Moments == [day : Nat, minute : Nat]
    <2>1. LocalTime \in Seq(Moments)
        BY LocalTimeAssumption
    <2> HIDE DEF Moments
    <2>2. DOMAIN LocalTime = 1..Len(LocalTime) /\ \A i \in DOMAIN LocalTime : LocalTime[i] \in Moments
        BY <2>1
    <2>3. QED
        BY <2>2 DEF Moments
  <1>2. QED
      BY <1>1, DaysAscend DEF Day

LEMMA RowsBeside ==
    /\ NoCommand \in CommandRows /\ NoCommand.version = 0 /\ NoCommand.enabled = FALSE /\ NoCommand.lastRun = 0
    /\ \A tick \in Ticks : tick # NoTick
  <1>1. NoCommand \in CommandRows /\ NoCommand.version = 0 /\ NoCommand.enabled = FALSE /\ NoCommand.lastRun = 0
      BY DEF NoCommand, Never, CommandRows
  <1>2. NoTick.pc = "idle" /\ \A tick \in Ticks : tick.pc \in {"claim", "send"}
      BY DEF NoTick, Ticks
  <1>3. QED
      BY <1>1, <1>2

LEMMA EntryAppended ==
    ASSUME NEW S, NEW s \in Seq(S), NEW e \in S, NEW t, t = Append(s, e)
    PROVE  /\ t \in Seq(S)
           /\ \A k \in DOMAIN t :
                 \/ k \in DOMAIN s /\ t[k] = s[k]
                 \/ t[k] = e /\ k = Len(s) + 1
  OBVIOUS

\* The row is set anew, paused or resumed: a version of which nothing was sent.
LEMMA CommandSet ==
    ASSUME CommandInv, NEW days \in SUBSET Nat, NEW minute \in Nat, NEW b \in BOOLEAN,
           versions' = versions + 1,
           command' = [version |-> versions + 1, days |-> days, minute |-> minute, enabled |-> b, lastRun |-> Never],
           UNCHANGED <<minuteNow, commandTick, sends, shown>>
    PROVE  CommandInv'
  <1>0. CommandTypes /\ TickKnows /\ OncePerLocalDay /\ \A k \in DOMAIN sends : sends[k][1] \in 1..versions
      BY DEF CommandInv
  <1>1. versions \in Nat /\ minuteNow \in 1..Len(LocalTime)
      BY <1>0 DEF CommandTypes
  <1>2. /\ command' \in CommandRows /\ command'.version = versions + 1 /\ command'.lastRun = Never
      BY <1>1 DEF CommandRows, Never
  <1>3. CommandTypes'
      BY <1>0, <1>1, <1>2 DEF CommandTypes
  <1>4. \A k \in DOMAIN sends' : sends'[k][1] \in 1..versions' /\ sends'[k][1] # command'.version
      BY <1>0, <1>1, <1>2
  <1>5. Noted(command)'
      BY <1>4 DEF Noted
  <1>6. command'.version \in {0, versions'} /\ command'.version # 0 /\ command'.lastRun <= minuteNow'
    <2>1. minuteNow' = minuteNow /\ minuteNow \in Nat /\ 0 <= minuteNow
        BY <1>1
    <2>2. QED
        BY <1>1, <1>2, <2>1 DEF Never
  <1>7. TickKnows'
    <2>1. SUFFICES ASSUME commandTick # NoTick PROVE TickKnows'
        BY DEF TickKnows
    <2>2. commandTick.row.version \in 1..versions
        BY <1>0, <2>1 DEF TickKnows
    <2>3. command'.version # commandTick.row.version /\ commandTick.row.version \in 1..versions'
        BY <1>1, <1>2, <2>2
    <2>4. QED
        BY <1>0, <1>1, <2>1, <2>3 DEF TickKnows, Noted, Day
  <1>8. OncePerLocalDay'
      BY <1>0 DEF OncePerLocalDay
  <1>9. QED
      BY <1>3, <1>4, <1>5, <1>6, <1>7, <1>8 DEF CommandInv

LEMMA CommandSteps ==
    ASSUME CommandInv,
           \/ MinutePasses \/ PageLoads \/ PageToggles \/ DeleteCommand
           \/ \E time \in CommandTimes : AddCommand(time)
           \/ CommandTickStart \/ CommandCrash
    PROVE  CommandInv'
  <1>0. /\ CommandTypes /\ TickKnows /\ OncePerLocalDay /\ Noted(command)
        /\ \A k \in DOMAIN sends : sends[k][1] \in 1..versions
        /\ command.version \in {0, versions} /\ command.lastRun <= minuteNow
        /\ command.enabled => command.version # 0
      BY DEF CommandInv
  <1>1. /\ versions \in Nat /\ minuteNow \in 1..Len(LocalTime) /\ minuteNow \in Nat /\ minuteNow > 0
        /\ command \in CommandRows /\ shown \in CommandRows
      BY <1>0 DEF CommandTypes
  <1>2. CASE MinutePasses
    <2>1. minuteNow' = minuteNow + 1 /\ minuteNow < Len(LocalTime)
          /\ UNCHANGED <<command, versions, shown, commandTick, sends>>
        BY <1>2 DEF MinutePasses
    <2>2. minuteNow' \in 1..Len(LocalTime)
      <3>1. Len(LocalTime) \in Nat
          BY LocalTimeAssumption
      <3>2. QED
          BY <1>1, <2>1, <3>1
    <2>3. CommandTypes'
        BY <1>0, <2>1, <2>2 DEF CommandTypes
    <2>4. TickKnows'
      <3>1. \A at \in 1..minuteNow : at \in 1..minuteNow'
          BY <1>1, <2>1
      <3>2. QED
          BY <1>0, <2>1, <3>1 DEF TickKnows, Noted, Day
    <2>5. command'.lastRun <= minuteNow'
        BY <1>0, <1>1, <2>1 DEF CommandRows
    <2>6. QED
        BY <1>0, <2>1, <2>3, <2>4, <2>5 DEF CommandInv, Noted, Day, OncePerLocalDay
  <1>3. CASE PageLoads
    <2>1. shown' = command /\ UNCHANGED <<minuteNow, command, versions, commandTick, sends>>
        BY <1>3 DEF PageLoads
    <2>2. CommandTypes'
        BY <1>0, <1>1, <2>1 DEF CommandTypes
    <2>3. QED
        BY <1>0, <2>1, <2>2 DEF CommandInv, TickKnows, Noted, Day, OncePerLocalDay
  <1>4. CASE PageToggles
    <2>1. PICK b \in BOOLEAN : b = ~shown.enabled
        OBVIOUS
    <2>2. shown.days \in SUBSET Nat /\ shown.minute \in Nat
        BY <1>1 DEF CommandRows
    <2>3. /\ versions' = versions + 1 /\ UNCHANGED <<minuteNow, commandTick, sends, shown>>
          /\ command' = [version |-> versions + 1, days |-> shown.days, minute |-> shown.minute, enabled |-> b,
                         lastRun |-> Never]
        BY <1>4, <2>1, Zenon DEF PageToggles, Upsert
    <2>4. QED
        BY <2>2, <2>3, CommandSet
  <1>5. ASSUME NEW time \in CommandTimes, AddCommand(time) PROVE CommandInv'
    <2>1. time.days \in SUBSET Nat /\ time.minute \in Nat
        BY ScheduleBoundsAssumption
    <2>2. /\ versions' = versions + 1 /\ UNCHANGED <<minuteNow, commandTick, sends, shown>>
          /\ command' = [version |-> versions + 1, days |-> time.days, minute |-> time.minute, enabled |-> TRUE,
                         lastRun |-> Never]
        BY <1>5 DEF AddCommand, Upsert
    <2>3. QED
        BY <2>1, <2>2, CommandSet
  <1>6. CASE DeleteCommand
    <2>1. command' = NoCommand /\ UNCHANGED <<minuteNow, versions, shown, commandTick, sends>>
        BY <1>6 DEF DeleteCommand
    <2>2. CommandTypes'
        BY <1>0, <2>1, RowsBeside DEF CommandTypes
    <2>3. command'.version = 0 /\ command'.lastRun = 0 /\ ~command'.enabled
        BY <2>1, RowsBeside
    <2>4. \A k \in DOMAIN sends : sends[k][1] # 0
        BY <1>0, <1>1
    <2>5. Noted(command)'
        BY <2>1, <2>3, <2>4 DEF Noted
    <2>6. TickKnows'
      <3>1. commandTick # NoTick => commandTick.row.version # 0
          BY <1>0, <1>1 DEF TickKnows
      <3>2. QED
          BY <1>0, <2>1, <2>3, <3>1 DEF TickKnows, Noted, Day
    <2>7. QED
        BY <1>0, <1>1, <2>1, <2>2, <2>3, <2>5, <2>6 DEF CommandInv, OncePerLocalDay
  <1>7. CASE CommandTickStart
    <2> DEFINE tick == [pc |-> "claim", at |-> minuteNow, row |-> command]
    <2>1. command.enabled /\ commandTick' = tick /\ UNCHANGED <<minuteNow, command, versions, shown, sends>>
        BY <1>7 DEF CommandTickStart
    <2>2. tick \in Ticks /\ tick.pc = "claim" /\ tick.at = minuteNow /\ tick.row = command
        BY <1>1 DEF Ticks
    <2> HIDE DEF tick
    <2>3. CommandTypes'
        BY <1>0, <2>1, <2>2 DEF CommandTypes
    <2>4. command.version = versions /\ command.version # 0
        BY <1>0, <2>1
    <2>5. command.version \in 1..versions /\ minuteNow \in 1..minuteNow
          /\ \A k \in DOMAIN sends : sends[k][1] <= command.version
        BY <1>0, <1>1, <2>4
    <2>6. TickKnows'
        BY <1>0, <2>1, <2>2, <2>5 DEF TickKnows, Noted, Day
    <2>7. QED
        BY <1>0, <2>1, <2>3, <2>6 DEF CommandInv, Noted, Day, OncePerLocalDay
  <1>8. CASE CommandCrash
    <2>1. commandTick' = NoTick /\ UNCHANGED <<minuteNow, command, versions, shown, sends>>
        BY <1>8 DEF CommandCrash
    <2>2. CommandTypes' /\ TickKnows'
        BY <1>0, <2>1 DEF CommandTypes, TickKnows
    <2>3. QED
        BY <1>0, <2>1, <2>2 DEF CommandInv, Noted, Day, OncePerLocalDay
  <1>9. QED
      BY <1>2, <1>3, <1>4, <1>5, <1>6, <1>7, <1>8

\* Due by the row the tick read, so nothing was sent of it on this day, nor will a later tick send it.
LEMMA CommandClaimed ==
    ASSUME CommandInv, ClaimCommand PROVE CommandInv'
  <1> DEFINE rec == commandTick.row
             at == commandTick.at
  <1>0. /\ CommandTypes /\ TickKnows /\ OncePerLocalDay /\ Noted(command)
        /\ \A k \in DOMAIN sends : sends[k][1] \in 1..versions
        /\ command.version \in {0, versions} /\ command.lastRun <= minuteNow
        /\ command.enabled => command.version # 0
      BY DEF CommandInv
  <1>1. /\ versions \in Nat /\ minuteNow \in 1..Len(LocalTime) /\ command \in CommandRows
        /\ sends \in Seq(Nat \X Nat)
      BY <1>0 DEF CommandTypes
  <1>2. commandTick.pc = "claim" /\ UNCHANGED <<minuteNow, versions, shown, sends>>
      BY DEF ClaimCommand
  <1>3. commandTick # NoTick /\ commandTick \in Ticks
      BY <1>0, <1>2 DEF NoTick, CommandTypes
  <1>4. /\ rec.version \in 1..versions /\ at \in 1..minuteNow
        /\ \A k \in DOMAIN sends : sends[k][1] <= rec.version
        /\ Noted(rec) /\ rec.lastRun <= at
        /\ command.version = rec.version => command.lastRun = rec.lastRun
      BY <1>0, <1>2, <1>3 DEF TickKnows
  <1>5. CASE UNCHANGED command /\ commandTick' = NoTick
    <2>1. CommandTypes' /\ TickKnows'
        BY <1>0, <1>2, <1>5 DEF CommandTypes, TickKnows
    <2>2. QED
        BY <1>0, <1>2, <1>5, <2>1 DEF CommandInv, Noted, Day, OncePerLocalDay
  <1>6. CASE /\ CommandIsDue(rec, at) /\ command.version # 0
             /\ command' = [command EXCEPT !.lastRun = at]
             /\ commandTick' = [commandTick EXCEPT !.pc = "send"]
    <2>0. at \in Nat /\ at > 0 /\ at <= minuteNow
        BY <1>1, <1>4
    <2>1. /\ command' \in CommandRows /\ command'.version = command.version /\ command'.lastRun = at
          /\ command'.enabled = command.enabled /\ at \in Nat /\ at > 0 /\ at <= minuteNow
      <3> HIDE DEF at
      <3>1. QED
          BY <1>1, <1>6, <2>0 DEF CommandRows
    <2>2. /\ commandTick' \in Ticks /\ commandTick'.pc = "send" /\ commandTick'.at = at /\ commandTick'.row = rec
        BY <1>3, <1>6 DEF Ticks
    <2>3. CommandTypes'
        BY <1>0, <1>2, <2>1, <2>2 DEF CommandTypes
    <2>4. at \in 1..Len(LocalTime) /\ minuteNow \in Nat /\ Len(LocalTime) \in Nat
      <3>1. Len(LocalTime) \in Nat
          BY LocalTimeAssumption
      <3>2. QED
          BY <1>1, <2>1, <3>1
    <2>5. ASSUME NEW k \in DOMAIN sends, sends[k][1] = rec.version PROVE sends[k][2] < Day(at)
      <3>1. rec.lastRun # Never /\ sends[k][2] <= Day(rec.lastRun)
          BY <1>4, <2>5 DEF Noted
      <3>2. rec.lastRun \in Nat /\ rec.lastRun # 0
          BY <1>3, <3>1 DEF Ticks, CommandRows, Never
      <3>3. rec.lastRun \in 1..Len(LocalTime)
          BY <1>4, <2>4, <3>2
      <3>4. Day(rec.lastRun) <= Day(at) /\ Day(rec.lastRun) \in Nat /\ Day(at) \in Nat
          BY <1>4, <2>4, <3>3, DaysOrder
      <3>5. Day(rec.lastRun) # Day(at)
          BY <1>6, <3>1 DEF CommandIsDue
      <3>6. sends[k][2] \in Nat
          BY <1>1, <2>5
      <3>7. QED
          BY <3>1, <3>4, <3>5, <3>6
    <2>6. Day(at) \in Nat /\ \A k \in DOMAIN sends : sends[k] \in Nat \X Nat
        BY <1>1, <2>4, DaysOrder
    <2>7. \A k \in DOMAIN sends : sends[k] # <<rec.version, Day(at)>>
      <3>1. ASSUME NEW k \in DOMAIN sends, sends[k] = <<rec.version, Day(at)>> PROVE FALSE
        <4>1. sends[k][1] = rec.version /\ sends[k][2] = Day(at)
            BY <3>1
        <4>2. sends[k][2] < Day(at)
            BY <2>5, <3>1, <4>1
        <4>3. QED
            BY <2>6, <4>1, <4>2
      <3>2. QED
          BY <3>1
    <2>8. ASSUME NEW k \in DOMAIN sends, sends[k][1] = command.version
          PROVE  sends[k][2] <= Day(at)
      <3>1. sends[k][1] <= rec.version /\ rec.version <= versions /\ command.version = versions
          BY <1>0, <1>1, <1>4, <1>6, <2>8
      <3>2. sends[k][1] = rec.version
          BY <1>1, <1>4, <2>8, <3>1
      <3>3. sends[k][2] < Day(at) /\ sends[k][2] \in Nat
          BY <2>5, <2>6, <3>2
      <3>4. QED
          BY <2>6, <3>3
    <2>9. Noted(command)'
      <3>1. at # Never
          BY <2>1 DEF Never
      <3>2. sends' = sends /\ command'.version = command.version /\ command'.lastRun = at
          BY <1>2, <2>1
      <3>3. QED
          BY <2>8, <3>1, <3>2 DEF Noted, Day
    <2>10. TickKnows'
        BY <1>2, <1>4, <2>1, <2>2, <2>7 DEF TickKnows, Day
    <2>11. command'.version \in {0, versions'} /\ command'.lastRun <= minuteNow'
           /\ (command'.enabled => command'.version # 0)
        BY <1>0, <1>2, <2>1
    <2>12. QED
        BY <1>0, <1>2, <2>3, <2>9, <2>10, <2>11 DEF CommandInv, OncePerLocalDay
  <1>7. QED
      BY <1>5, <1>6 DEF ClaimCommand

\* A send, whatever became of it, and the record of it.
LEMMA CommandSent ==
    ASSUME CommandInv, SendCommand PROVE CommandInv'
  <1> DEFINE rec == commandTick.row
             at == commandTick.at
             sent == <<rec.version, Day(at)>>
  <1>0. /\ CommandTypes /\ TickKnows /\ OncePerLocalDay /\ Noted(command)
        /\ \A k \in DOMAIN sends : sends[k][1] \in 1..versions
        /\ command.version \in {0, versions} /\ command.lastRun <= minuteNow
        /\ command.enabled => command.version # 0
      BY DEF CommandInv
  <1>1. /\ versions \in Nat /\ minuteNow \in 1..Len(LocalTime) /\ command \in CommandRows
        /\ sends \in Seq(Nat \X Nat)
      BY <1>0 DEF CommandTypes
  <1>2. /\ commandTick.pc = "send" /\ commandTick' = NoTick /\ UNCHANGED <<minuteNow, versions, shown>>
        /\ sends' \in {sends, Append(sends, sent)}
        /\ command' \in {command, [command EXCEPT !.lastRun = at]}
        /\ command.version = 0 => command' = command
      BY DEF SendCommand
  <1>3. commandTick # NoTick
      BY <1>2 DEF NoTick
  <1>4. /\ rec.version \in 1..versions /\ at \in 1..minuteNow
        /\ \A k \in DOMAIN sends : sends[k][1] <= rec.version
        /\ \A k \in DOMAIN sends : sends[k] # sent
        /\ command.version = rec.version => command.lastRun = at
      BY <1>0, <1>2, <1>3 DEF TickKnows
  <1>5. /\ command' \in CommandRows /\ command'.version = command.version /\ command'.enabled = command.enabled
        /\ command'.lastRun \in {command.lastRun, at} /\ at \in Nat /\ at > 0 /\ at <= minuteNow
      BY <1>1, <1>2, <1>4 DEF CommandRows
  <1>6. at \in 1..Len(LocalTime)
    <2>1. Len(LocalTime) \in Nat
        BY LocalTimeAssumption
    <2>2. QED
        BY <1>1, <1>5, <2>1
  <1>7. Day(at) \in Nat /\ sent \in Nat \X Nat /\ rec.version \in Nat
      BY <1>1, <1>4, <1>6, DaysOrder
  <1> HIDE DEF rec, at, sent
  <1>8. /\ sends' \in Seq(Nat \X Nat)
        /\ \A k \in DOMAIN sends' :
              \/ k \in DOMAIN sends /\ sends'[k] = sends[k]
              \/ sends'[k] = sent /\ k = Len(sends) + 1
    <2>1. CASE sends' = sends
        BY <1>1, <2>1
    <2>2. CASE sends' = Append(sends, sent)
      <3> DEFINE Pairs == Nat \X Nat
      <3>1. sends \in Seq(Pairs) /\ sent \in Pairs
          BY <1>1, <1>7
      <3> HIDE DEF Pairs
      <3>2. sends' \in Seq(Pairs)
          BY <2>2, <3>1, EntryAppended
      <3>3. \A k \in DOMAIN sends' :
                \/ k \in DOMAIN sends /\ sends'[k] = sends[k]
                \/ sends'[k] = sent /\ k = Len(sends) + 1
          BY <2>2, <3>1, EntryAppended
      <3>4. QED
          BY <3>2, <3>3 DEF Pairs
    <2>3. QED
        BY <1>2, <2>1, <2>2
  <1>9. CommandTypes'
      BY <1>0, <1>2, <1>5, <1>8 DEF CommandTypes
  <1>10. TickKnows'
      BY <1>2 DEF TickKnows
  <1>11. sent[1] = rec.version /\ sent[2] = Day(at)
      BY DEF sent
  <1>12. \A k \in DOMAIN sends' : sends'[k][1] \in 1..versions'
      BY <1>0, <1>2, <1>4, <1>8, <1>11
  <1>13. ASSUME NEW k \in DOMAIN sends', sends'[k][1] = command'.version
         PROVE  command'.lastRun # Never /\ sends'[k][2] <= Day(command'.lastRun)
    <2>1. sends'[k][1] <= rec.version /\ sends'[k][1] \in 1..versions
        BY <1>2, <1>4, <1>7, <1>8, <1>11, <1>12, <1>13
    <2>2. command.version = rec.version
      <3>1. command.version = sends'[k][1] /\ command.version # 0
          BY <1>1, <1>5, <1>13, <2>1
      <3>2. command.version = versions
          BY <1>0, <3>1
      <3>3. QED
          BY <1>1, <1>4, <2>1, <3>1, <3>2
    <2>3. command.lastRun = at /\ command'.lastRun = at
        BY <1>4, <1>5, <2>2
    <2>4. CASE k \in DOMAIN sends /\ sends'[k] = sends[k]
        BY <1>0, <1>5, <1>13, <2>3, <2>4 DEF Noted
    <2>5. CASE sends'[k] = sent
        BY <1>5, <1>7, <1>11, <2>3, <2>5 DEF Never
    <2>6. QED
        BY <1>8, <2>4, <2>5
  <1>14. Noted(command)'
      BY <1>13 DEF Noted, Day
  <1>15. OncePerLocalDay'
    <2>1. ASSUME NEW j \in DOMAIN sends', NEW k \in DOMAIN sends', sends'[j] = sends'[k] PROVE j = k
      <3>1. CASE sends'[j] = sent
        <4>1. j = Len(sends) + 1 /\ k = Len(sends) + 1
            BY <1>4, <1>8, <2>1, <3>1
        <4>2. QED
            BY <4>1
      <3>2. CASE sends'[j] # sent
          BY <1>0, <1>8, <2>1, <3>2 DEF OncePerLocalDay
      <3>3. QED
          BY <3>1, <3>2
    <2>2. QED
        BY <2>1 DEF OncePerLocalDay
  <1>16. command'.version \in {0, versions'} /\ command'.lastRun <= minuteNow'
         /\ (command'.enabled => command'.version # 0)
      BY <1>0, <1>1, <1>2, <1>5 DEF CommandRows
  <1>17. QED
      BY <1>9, <1>10, <1>12, <1>14, <1>15, <1>16 DEF CommandInv

-----------------------------------------------------------------------------
SetSteps == {"writeStop", "writeStart", "enableStop", "enableStart"}
SleepTexts == Windows \cup {NoWindow}
Calls ==
    [pc : {"idle", "save", "undo"} \cup SetSteps \cup ClearSteps, window : SleepTexts, undoing : BOOLEAN]

\* A call that sets a window writes and enables, one that clears it disables.
CallFits(call) ==
    /\ call.pc \in SetSteps => call.window # NoWindow
    /\ call.pc \in ClearSteps => call.window = NoWindow

SleepTypes ==
    /\ sleepRow \in SleepTexts /\ timers \in [Timer -> [text : SleepTexts, on : BOOLEAN]]
    /\ sleepCall \in [SleepCalls -> Calls] /\ \A c \in SleepCalls : CallFits(sleepCall[c])
    /\ leftBehind \in BOOLEAN

Match(ts, rec, left) == ts = TimersOf(rec) \/ (left /\ rec = NoWindow)

\* What a call has done to the timers by the time of each of its steps, when none of its commands to take them away
\* was refused.
CallWrote(call, ts, rec, left) ==
    /\ call.pc \in {"writeStart", "enableStop", "enableStart"} => ts["stop"].text = call.window
    /\ call.pc \in {"enableStop", "enableStart"} => ts["start"].text = call.window
    /\ call.pc = "enableStart" => ts["stop"].on
    /\ call.pc \in {"removeStop", "disableStart", "removeStart"} => left \/ ~ts["stop"].on
    /\ call.pc \in {"disableStart", "removeStart"} => left \/ ts["stop"].text = NoWindow
    /\ call.pc = "removeStart" => left \/ ~ts["start"].on
    /\ call.pc = "save" => Match(ts, call.window, left) /\ ~call.undoing
    /\ call.undoing => call.window = rec

\* Calls that did not overlap: one is at work at most, and knows what it did.
SleepInv ==
    /\ SleepTypes
    /\ ~unsettled =>
          /\ \A c \in SleepCalls : sleepCall[c] # NoCall => Alone(c) /\ CallWrote(sleepCall[c], timers, sleepRow, leftBehind)
          /\ (\A c \in SleepCalls : sleepCall[c] = NoCall) => Match(timers, sleepRow, leftBehind)

LEMMA TheTimers ==
    /\ NoTimers = TimersOf(NoWindow)
    /\ \A window \in SleepTexts : TimersOf(window) \in [Timer -> [text : SleepTexts, on : BOOLEAN]]
    /\ \A window : TimersOf(window)["stop"] = [text |-> window, on |-> window # NoWindow]
    /\ \A window : TimersOf(window)["start"] = [text |-> window, on |-> window # NoWindow]
  <1>1. (NoWindow # NoWindow) = FALSE
      OBVIOUS
  <1>2. NoTimers = TimersOf(NoWindow)
      BY <1>1, Zenon DEF NoTimers, TimersOf
  <1>3. ASSUME NEW window \in SleepTexts
        PROVE  TimersOf(window) \in [Timer -> [text : SleepTexts, on : BOOLEAN]]
    <2>1. PICK b \in BOOLEAN : b = (window # NoWindow)
        OBVIOUS
    <2>2. [text |-> window, on |-> b] \in [text : SleepTexts, on : BOOLEAN]
        OBVIOUS
    <2>3. TimersOf(window) = [name \in Timer |-> [text |-> window, on |-> b]]
        BY <2>1, Zenon DEF TimersOf
    <2>4. QED
        BY <2>2, <2>3
  <1>4. "stop" \in Timer /\ "start" \in Timer
      BY DEF Timer
  <1>5. ASSUME NEW window, NEW name \in Timer
        PROVE  TimersOf(window)[name] = [text |-> window, on |-> window # NoWindow]
      BY Zenon DEF TimersOf
  <1>6. QED
      BY <1>2, <1>3, <1>4, <1>5, Zenon

\* Two timers are those of a window when both have its text and are on or off with it.
LEMMA TimersAre ==
    ASSUME NEW ts \in [Timer -> [text : SleepTexts, on : BOOLEAN]], NEW window,
           ts["stop"].text = window, ts["start"].text = window,
           ts["stop"].on <=> window # NoWindow, ts["start"].on <=> window # NoWindow
    PROVE  ts = TimersOf(window)
  <1>1. PICK b \in BOOLEAN : b = (window # NoWindow)
      OBVIOUS
  <1>2. ASSUME NEW name \in Timer PROVE ts[name] = [text |-> window, on |-> b]
    <2>1. ts[name] \in [text : SleepTexts, on : BOOLEAN] /\ ts[name].text = window
        BY <1>2 DEF Timer
    <2>2. ts[name].on = b
        BY <1>1, <1>2 DEF Timer
    <2>3. QED
        BY <2>1, <2>2
  <1>3. ts = [name \in Timer |-> [text |-> window, on |-> b]]
      BY <1>2
  <1>4. QED
      BY <1>1, <1>3, Zenon DEF TimersOf

LEMMA NextSteps ==
    ASSUME NEW window
    PROVE  /\ window # NoWindow =>
                 /\ HostSteps(window)[1] = "writeStop"
                 /\ AfterStep("writeStop", window) = "writeStart"
                 /\ AfterStep("writeStart", window) = "enableStop"
                 /\ AfterStep("enableStop", window) = "enableStart"
                 /\ AfterStep("enableStart", window) = "save"
           /\ window = NoWindow =>
                 /\ HostSteps(window)[1] = "disableStop"
                 /\ AfterStep("disableStop", window) = "removeStop"
                 /\ AfterStep("removeStop", window) = "disableStart"
                 /\ AfterStep("disableStart", window) = "removeStart"
                 /\ AfterStep("removeStart", window) = "save"
  <1>1. ASSUME window # NoWindow
        PROVE  /\ HostSteps(window)[1] = "writeStop"
               /\ AfterStep("writeStop", window) = "writeStart"
               /\ AfterStep("writeStart", window) = "enableStop"
               /\ AfterStep("enableStop", window) = "enableStart"
               /\ AfterStep("enableStart", window) = "save"
    <2> DEFINE steps == HostSteps(window)
               at(step) == CHOOSE k \in DOMAIN steps : steps[k] = step
    <2>1. /\ DOMAIN steps = 1..4 /\ Len(steps) = 4
          /\ steps[1] = "writeStop" /\ steps[2] = "writeStart" /\ steps[3] = "enableStop" /\ steps[4] = "enableStart"
        BY <1>1 DEF HostSteps
    <2> HIDE DEF steps
    <2>2. \A step : (\E k \in DOMAIN steps : steps[k] = step) => at(step) \in DOMAIN steps /\ steps[at(step)] = step
        BY Zenon
    <2>3. at("writeStop") = 1 /\ at("writeStart") = 2 /\ at("enableStop") = 3 /\ at("enableStart") = 4
      <3> HIDE DEF at
      <3>1. at("writeStop") \in 1..4 /\ steps[at("writeStop")] = "writeStop"
          BY <2>1, <2>2
      <3>2. at("writeStart") \in 1..4 /\ steps[at("writeStart")] = "writeStart"
          BY <2>1, <2>2
      <3>3. at("enableStop") \in 1..4 /\ steps[at("enableStop")] = "enableStop"
          BY <2>1, <2>2
      <3>4. at("enableStart") \in 1..4 /\ steps[at("enableStart")] = "enableStart"
          BY <2>1, <2>2
      <3>5. QED
          BY <2>1, <3>1, <3>2, <3>3, <3>4
    <2>4. \A step : AfterStep(step, window) = IF at(step) = Len(steps) THEN "save" ELSE steps[at(step) + 1]
        BY Zenon DEF AfterStep, steps
    <2> HIDE DEF at
    <2>5. QED
        BY <2>1, <2>3, <2>4 DEF steps
  <1>2. ASSUME window = NoWindow
        PROVE  /\ HostSteps(window)[1] = "disableStop"
               /\ AfterStep("disableStop", window) = "removeStop"
               /\ AfterStep("removeStop", window) = "disableStart"
               /\ AfterStep("disableStart", window) = "removeStart"
               /\ AfterStep("removeStart", window) = "save"
    <2> DEFINE steps == HostSteps(window)
               at(step) == CHOOSE k \in DOMAIN steps : steps[k] = step
    <2>1. /\ DOMAIN steps = 1..4 /\ Len(steps) = 4
          /\ steps[1] = "disableStop" /\ steps[2] = "removeStop" /\ steps[3] = "disableStart" /\ steps[4] = "removeStart"
        BY <1>2 DEF HostSteps
    <2> HIDE DEF steps
    <2>2. \A step : (\E k \in DOMAIN steps : steps[k] = step) => at(step) \in DOMAIN steps /\ steps[at(step)] = step
        BY Zenon
    <2>3. at("disableStop") = 1 /\ at("removeStop") = 2 /\ at("disableStart") = 3 /\ at("removeStart") = 4
      <3> HIDE DEF at
      <3>1. at("disableStop") \in 1..4 /\ steps[at("disableStop")] = "disableStop"
          BY <2>1, <2>2
      <3>2. at("removeStop") \in 1..4 /\ steps[at("removeStop")] = "removeStop"
          BY <2>1, <2>2
      <3>3. at("disableStart") \in 1..4 /\ steps[at("disableStart")] = "disableStart"
          BY <2>1, <2>2
      <3>4. at("removeStart") \in 1..4 /\ steps[at("removeStart")] = "removeStart"
          BY <2>1, <2>2
      <3>5. QED
          BY <2>1, <3>1, <3>2, <3>3, <3>4
    <2>4. \A step : AfterStep(step, window) = IF at(step) = Len(steps) THEN "save" ELSE steps[at(step) + 1]
        BY Zenon DEF AfterStep, steps
    <2> HIDE DEF at
    <2>5. QED
        BY <2>1, <2>3, <2>4 DEF steps
  <1>3. QED
      BY <1>1, <1>2

\* What every step of a call comes to.
LEMMA OneCall ==
    ASSUME SleepInv, NEW c \in SleepCalls, NEW r \in Calls, CallFits(r), sleepCall' = [sleepCall EXCEPT ![c] = r],
           sleepRow' \in SleepTexts, timers' \in [Timer -> [text : SleepTexts, on : BOOLEAN]],
           ~unsettled' => ~unsettled /\ Alone(c),
           leftBehind' \in BOOLEAN,
           ~unsettled' /\ r # NoCall => CallWrote(r, timers', sleepRow', leftBehind'),
           ~unsettled' /\ r = NoCall => Match(timers', sleepRow', leftBehind')
    PROVE  SleepInv'
  <1>1. sleepCall \in [SleepCalls -> Calls] /\ \A d \in SleepCalls : CallFits(sleepCall[d])
      BY DEF SleepInv, SleepTypes
  <1>3. \A d \in SleepCalls : sleepCall'[d] = IF d = c THEN r ELSE sleepCall[d]
      BY <1>1
  <1>8. \A d \in SleepCalls : CallFits(sleepCall'[d])
      BY <1>1, <1>3
  <1>2. SleepTypes'
      BY <1>1, <1>8 DEF SleepTypes, CallFits
  <1>4. ASSUME ~unsettled'
        PROVE  /\ \A d \in SleepCalls : sleepCall'[d] # NoCall => d = c /\ r # NoCall
               /\ \A d \in SleepCalls : d # c => sleepCall'[d] = NoCall
               /\ sleepCall'[c] = r
      BY <1>3, <1>4 DEF Alone
  <1>5. ASSUME ~unsettled', NEW d \in SleepCalls, sleepCall'[d] # NoCall
        PROVE  Alone(d)' /\ CallWrote(sleepCall'[d], timers', sleepRow', leftBehind')
    <2>1. d = c /\ r # NoCall /\ sleepCall'[d] = r
        BY <1>3, <1>4, <1>5
    <2>2. Alone(d)'
        BY <1>4, <1>5, <2>1 DEF Alone
    <2>3. QED
        BY <1>5, <2>1, <2>2
  <1>6. ASSUME ~unsettled', \A d \in SleepCalls : sleepCall'[d] = NoCall PROVE Match(timers', sleepRow', leftBehind')
      BY <1>4, <1>6
  <1>7. QED
      BY <1>2, <1>5, <1>6 DEF SleepInv

LEMMA CallsBeside ==
    NoCall \in Calls /\ NoCall.pc = "idle" /\ CallFits(NoCall)
  <1>1. FALSE \in BOOLEAN
      OBVIOUS
  <1>2. QED
      BY <1>1 DEF NoCall, Calls, SleepTexts, CallFits, SetSteps, ClearSteps

\* The first step of a call, whatever the timers are.
LEMMA CallStarts ==
    ASSUME NEW window \in SleepTexts, NEW undoing \in BOOLEAN, NEW rec, undoing => window = rec, NEW ts, NEW left
    PROVE  LET r == [pc |-> HostSteps(window)[1], window |-> window, undoing |-> undoing]
           IN  r \in Calls /\ CallFits(r) /\ CallWrote(r, ts, rec, left)
  <1> DEFINE pc == HostSteps(window)[1]
             r == [pc |-> pc, window |-> window, undoing |-> undoing]
  <1>1. pc = IF window # NoWindow THEN "writeStop" ELSE "disableStop"
      BY NextSteps
  <1> HIDE DEF pc
  <1>2. pc \in SetSteps \cup ClearSteps
      BY <1>1 DEF SetSteps, ClearSteps
  <1>3. r \in Calls
      BY <1>2 DEF Calls
  <1>4. r.pc = pc /\ r.window = window /\ (r.undoing <=> undoing)
      OBVIOUS
  <1> HIDE DEF r
  <1>5. CallFits(r) /\ CallWrote(r, ts, rec, left)
      BY <1>1, <1>4 DEF CallFits, CallWrote, SetSteps, ClearSteps
  <1>6. QED
      BY <1>3, <1>5 DEF r, pc

LEMMA CallKeepsTypes ==
    ASSUME NEW call \in Calls, timers \in [Timer -> [text : SleepTexts, on : BOOLEAN]], CallFits(call),
           call.pc \in SetSteps \cup ClearSteps
    PROVE  LET next == AfterStep(call.pc, call.window)
               moved == [call EXCEPT !.pc = next]
           IN  /\ Touched(call.pc, call.window) \in [Timer -> [text : SleepTexts, on : BOOLEAN]]
               /\ next \in SetSteps \cup ClearSteps \cup {"save"}
               /\ moved \in Calls /\ moved.pc = next /\ moved.window = call.window /\ CallFits(moved)
  <1> DEFINE next == AfterStep(call.pc, call.window)
             moved == [call EXCEPT !.pc = next]
             Settings == [text : SleepTexts, on : BOOLEAN]
  <1>1. /\ call.pc \in SetSteps => call.window # NoWindow
        /\ call.pc \in ClearSteps => call.window = NoWindow
        /\ call.window \in SleepTexts
      BY DEF CallFits, Calls
  <1>2. /\ next \in SetSteps \cup ClearSteps \cup {"save"}
        /\ next \in SetSteps => call.window # NoWindow
        /\ next \in ClearSteps => call.window = NoWindow
      BY <1>1, NextSteps DEF SetSteps, ClearSteps
  <1> HIDE DEF next
  <1>3. moved \in Calls /\ moved.pc = next /\ moved.window = call.window
      BY <1>2 DEF Calls
  <1>4. CallFits(moved)
      BY <1>2, <1>3 DEF CallFits
  <1>5. ASSUME NEW name \in Timer
        PROVE  /\ [timers EXCEPT ![name].text = call.window] \in [Timer -> Settings]
               /\ \A b \in BOOLEAN : [timers EXCEPT ![name].on = b] \in [Timer -> Settings]
    <2>1. timers[name] \in Settings
        OBVIOUS
    <2>2. /\ [timers[name] EXCEPT !.text = call.window] \in Settings
          /\ \A b \in BOOLEAN : [timers[name] EXCEPT !.on = b] \in Settings
        BY <1>1, <2>1 DEF SleepTexts
    <2> HIDE DEF Settings
    <2>3. QED
        BY <2>2 DEF Settings
  <1>6. StepOn(call.pc) \in Timer
      BY DEF StepOn, Timer
  <1>9. PICK b \in BOOLEAN : b = (call.window # NoWindow)
      OBVIOUS
  <1>7. Touched(call.pc, call.window) \in [Timer -> Settings]
      BY <1>5, <1>6, <1>9, Zenon DEF Touched
  <1>8. QED
      BY <1>2, <1>3, <1>4, <1>7 DEF next

\* A command of a call on the host.
LEMMA CallSteps ==
    ASSUME NEW call \in Calls, NEW ts \in [Timer -> [text : SleepTexts, on : BOOLEAN]], NEW rec, NEW left, CallFits(call),
           CallWrote(call, ts, rec, left), ts = timers, call.pc \in SetSteps \cup ClearSteps
    PROVE  LET later == Touched(call.pc, call.window)
               next == AfterStep(call.pc, call.window)
           IN  /\ later \in [Timer -> [text : SleepTexts, on : BOOLEAN]]
               /\ next \in SetSteps \cup ClearSteps \cup {"save"}
               /\ next = "save" => Match(later, call.window, left)
               /\ next # "save" => CallWrote([call EXCEPT !.pc = next], later, rec, left)
  <1> DEFINE later == Touched(call.pc, call.window)
             next == AfterStep(call.pc, call.window)
             Settings == [text : SleepTexts, on : BOOLEAN]
             moved == [call EXCEPT !.pc = next]
  <1>0. /\ call.window \in SleepTexts /\ ts["stop"] \in Settings /\ ts["start"] \in Settings
        /\ "stop" \in Timer /\ "start" \in Timer /\ call.undoing \in BOOLEAN
      BY DEF Calls, Timer
  <1>1. /\ call.pc \in SetSteps => call.window # NoWindow
        /\ call.pc \in ClearSteps => call.window = NoWindow
        /\ call.pc \in {"writeStart", "enableStop", "enableStart"} => ts["stop"].text = call.window
        /\ call.pc \in {"enableStop", "enableStart"} => ts["start"].text = call.window
        /\ call.pc = "enableStart" => ts["stop"].on
        /\ call.pc \in {"removeStop", "disableStart", "removeStart"} => left \/ ~ts["stop"].on
        /\ call.pc \in {"disableStart", "removeStart"} => left \/ ts["stop"].text = NoWindow
        /\ call.pc = "removeStart" => left \/ ~ts["start"].on
        /\ call.undoing => call.window = rec
      BY DEF CallWrote, CallFits
  <1>2. next \in SetSteps \cup ClearSteps \cup {"save"}
      BY <1>1, NextSteps DEF SetSteps, ClearSteps
  <1> HIDE DEF later, next
  <1>3. moved.pc = next /\ moved.window = call.window /\ moved.undoing = call.undoing
      BY DEF Calls
  <1>4. CASE call.pc = "writeStop"
    <2>1. later = [ts EXCEPT !["stop"].text = call.window] /\ next = "writeStart" /\ call.window # NoWindow
        BY <1>1, <1>4, NextSteps DEF later, next, Touched, StepOn, SetSteps
    <2>2. later["stop"] = [ts["stop"] EXCEPT !.text = call.window] /\ later["start"] = ts["start"]
        BY <1>0, <2>1
    <2>3. later["stop"].text = call.window /\ later["stop"] \in Settings
        BY <1>0, <2>2
    <2>4. later \in [Timer -> Settings]
        BY <1>0, <2>1
    <2>5. CallWrote(moved, later, rec, left)
        BY <1>1, <1>3, <2>1, <2>3 DEF CallWrote, SetSteps, ClearSteps
    <2>6. QED
        BY <1>2, <2>1, <2>4, <2>5 DEF later, next
  <1>5. CASE call.pc = "writeStart"
    <2>1. later = [ts EXCEPT !["start"].text = call.window] /\ next = "enableStop" /\ call.window # NoWindow
        BY <1>1, <1>5, NextSteps DEF later, next, Touched, StepOn, SetSteps
    <2>2. later["start"] = [ts["start"] EXCEPT !.text = call.window] /\ later["stop"] = ts["stop"]
        BY <1>0, <2>1
    <2>3. later["start"].text = call.window /\ later["stop"].text = call.window
        BY <1>0, <1>1, <1>5, <2>2
    <2>4. later \in [Timer -> Settings]
        BY <1>0, <2>1
    <2>5. CallWrote(moved, later, rec, left)
        BY <1>1, <1>3, <2>1, <2>3 DEF CallWrote, SetSteps, ClearSteps
    <2>6. QED
        BY <1>2, <2>1, <2>4, <2>5 DEF later, next
  <1>6. CASE call.pc = "enableStop"
    <2>1. later = [ts EXCEPT !["stop"].on = TRUE] /\ next = "enableStart" /\ call.window # NoWindow
        BY <1>1, <1>6, NextSteps DEF later, next, Touched, StepOn, SetSteps
    <2>2. later["stop"] = [ts["stop"] EXCEPT !.on = TRUE] /\ later["start"] = ts["start"]
        BY <1>0, <2>1
    <2>3. later["stop"].text = call.window /\ later["start"].text = call.window /\ later["stop"].on
        BY <1>0, <1>1, <1>6, <2>2
    <2>4. later \in [Timer -> Settings]
        BY <1>0, <2>1
    <2>5. CallWrote(moved, later, rec, left)
        BY <1>1, <1>3, <2>1, <2>3 DEF CallWrote, SetSteps, ClearSteps
    <2>6. QED
        BY <1>2, <2>1, <2>4, <2>5 DEF later, next
  <1>7. CASE call.pc = "enableStart"
    <2>1. later = [ts EXCEPT !["start"].on = TRUE] /\ next = "save" /\ call.window # NoWindow
        BY <1>1, <1>7, NextSteps DEF later, next, Touched, StepOn, SetSteps
    <2>2. later["start"] = [ts["start"] EXCEPT !.on = TRUE] /\ later["stop"] = ts["stop"]
        BY <1>0, <2>1
    <2>3. /\ later["stop"].text = call.window /\ later["start"].text = call.window
          /\ later["stop"].on /\ later["start"].on
        BY <1>0, <1>1, <1>7, <2>2
    <2>4. later \in [Timer -> Settings]
        BY <1>0, <2>1
    <2>5. later = TimersOf(call.window)
        BY <2>1, <2>3, <2>4, TimersAre
    <2>6. QED
        BY <1>2, <2>1, <2>4, <2>5 DEF later, next, Match
  <1>8. CASE call.pc = "disableStop"
    <2>1. later = [ts EXCEPT !["stop"].on = FALSE] /\ next = "removeStop" /\ call.window = NoWindow
        BY <1>1, <1>8, NextSteps DEF later, next, Touched, StepOn, ClearSteps
    <2>2. later["stop"] = [ts["stop"] EXCEPT !.on = FALSE] /\ later["start"] = ts["start"]
        BY <1>0, <2>1
    <2>3. later["stop"].on = FALSE /\ later["stop"].text = ts["stop"].text
        BY <1>0, <2>2
    <2>4. later \in [Timer -> Settings]
        BY <1>0, <2>1 DEF SleepTexts
    <2>5. CallWrote(moved, later, rec, left)
        BY <1>1, <1>3, <1>8, <2>1, <2>2, <2>3 DEF CallWrote, SetSteps, ClearSteps
    <2>6. QED
        BY <1>2, <2>1, <2>4, <2>5 DEF later, next
  <1>9. CASE call.pc = "removeStop"
    <2>1. later = [ts EXCEPT !["stop"].text = NoWindow] /\ next = "disableStart" /\ call.window = NoWindow
        BY <1>1, <1>9, NextSteps DEF later, next, Touched, StepOn, ClearSteps
    <2>2. later["stop"] = [ts["stop"] EXCEPT !.text = NoWindow] /\ later["start"] = ts["start"]
        BY <1>0, <2>1
    <2>3. later["stop"].text = NoWindow /\ later["stop"].on = ts["stop"].on
        BY <1>0, <2>2
    <2>4. later \in [Timer -> Settings]
        BY <1>0, <2>1 DEF SleepTexts
    <2>5. CallWrote(moved, later, rec, left)
        BY <1>1, <1>3, <1>9, <2>1, <2>2, <2>3 DEF CallWrote, SetSteps, ClearSteps
    <2>6. QED
        BY <1>2, <2>1, <2>4, <2>5 DEF later, next
  <1>11. CASE call.pc = "disableStart"
    <2>1. later = [ts EXCEPT !["start"].on = FALSE] /\ next = "removeStart" /\ call.window = NoWindow
        BY <1>1, <1>11, NextSteps DEF later, next, Touched, StepOn, ClearSteps
    <2>2. later["start"] = [ts["start"] EXCEPT !.on = FALSE] /\ later["stop"] = ts["stop"]
        BY <1>0, <2>1
    <2>3. later["start"].on = FALSE /\ later["start"].text = ts["start"].text
        BY <1>0, <2>2
    <2>4. later \in [Timer -> Settings]
        BY <1>0, <2>1 DEF SleepTexts
    <2>5. CallWrote(moved, later, rec, left)
        BY <1>1, <1>3, <1>11, <2>1, <2>2, <2>3 DEF CallWrote, SetSteps, ClearSteps
    <2>6. QED
        BY <1>2, <2>1, <2>4, <2>5 DEF later, next
  <1>12. CASE call.pc = "removeStart"
    <2>1. later = [ts EXCEPT !["start"].text = NoWindow] /\ next = "save" /\ call.window = NoWindow
        BY <1>1, <1>12, NextSteps DEF later, next, Touched, StepOn, ClearSteps
    <2>2. later["start"] = [ts["start"] EXCEPT !.text = NoWindow] /\ later["stop"] = ts["stop"]
        BY <1>0, <2>1
    <2>3. later["start"].text = NoWindow /\ later["start"].on = ts["start"].on
        BY <1>0, <2>2
    <2>4. later \in [Timer -> Settings]
        BY <1>0, <2>1 DEF SleepTexts
    <2>5. CASE left
        BY <1>2, <2>1, <2>4, <2>5 DEF later, next, Match
    <2>6. CASE ~left
      <3>1. /\ later["stop"].text = call.window /\ later["start"].text = call.window
            /\ ~later["stop"].on /\ ~later["start"].on
          BY <1>1, <1>12, <2>1, <2>2, <2>3, <2>6
      <3>2. later = TimersOf(call.window)
          BY <2>1, <2>4, <3>1, TimersAre
      <3>3. QED
          BY <1>2, <2>1, <2>4, <3>2 DEF later, next, Match
    <2>7. QED
        BY <2>5, <2>6
  <1>10. QED
      BY <1>4, <1>5, <1>6, <1>7, <1>8, <1>9, <1>11, <1>12 DEF SetSteps, ClearSteps

\* A command that takes a timer away is refused: nothing is known of the timers any more.
LEMMA PassedOver ==
    ASSUME NEW call \in Calls, NEW rec, NEW ts, CallFits(call), CallWrote(call, ts, rec, TRUE) \/ CallWrote(call, ts, rec, FALSE),
           call.pc \in ClearSteps
    PROVE  LET next == AfterStep(call.pc, call.window)
           IN  /\ call.undoing => call.window = rec
               /\ call.window = NoWindow
               /\ next # "save" => CallWrote([call EXCEPT !.pc = next], ts, rec, TRUE)
  <1> DEFINE next == AfterStep(call.pc, call.window)
             moved == [call EXCEPT !.pc = next]
  <1>1. call.window = NoWindow /\ (call.undoing => call.window = rec)
      BY DEF CallFits, CallWrote
  <1>2. next \in ClearSteps \cup {"save"}
      BY <1>1, NextSteps DEF ClearSteps
  <1> HIDE DEF next
  <1>3. moved.pc = next /\ moved.window = call.window /\ moved.undoing = call.undoing
      BY DEF Calls
  <1>4. next # "save" => CallWrote(moved, ts, rec, TRUE)
      BY <1>1, <1>2, <1>3 DEF CallWrote, ClearSteps
  <1>5. QED
      BY <1>1, <1>4 DEF next

LEMMA SleepSteps ==
    ASSUME SleepInv, SleepStep PROVE SleepInv'
  <1>0. SleepTypes
      BY DEF SleepInv
  <1>1. PICK c \in SleepCalls :
            \/ \E window \in Windows \cup {NoWindow} : SleepBegin(c, window)
            \/ HostStep(c) \/ HostStepRefused(c) \/ ClearStepRefused(c) \/ HostLost(c)
            \/ SleepUndo(c) \/ SleepSave(c) \/ SleepSaveFails(c)
      BY DEF SleepStep
  <1> DEFINE call == sleepCall[c]
  <1>2. /\ call \in Calls /\ sleepRow \in SleepTexts /\ CallFits(call)
        /\ timers \in [Timer -> [text : SleepTexts, on : BOOLEAN]] /\ leftBehind \in BOOLEAN
      BY <1>0 DEF SleepTypes
  <1>3. ~unsettled /\ call.pc # "idle" => Alone(c) /\ CallWrote(call, timers, sleepRow, leftBehind)
      BY CallsBeside DEF SleepInv
  <1>4. NoCall \in Calls /\ NoCall.pc = "idle" /\ CallFits(NoCall)
      BY CallsBeside
  <1>5. ASSUME NEW window \in Windows \cup {NoWindow}, SleepBegin(c, window) PROVE SleepInv'
    <2> DEFINE r == [pc |-> HostSteps(window)[1], window |-> window, undoing |-> FALSE]
    <2>1. /\ sleepCall' = [sleepCall EXCEPT ![c] = r] /\ unsettled' = (unsettled \/ ~Alone(c))
          /\ leftBehind' = FALSE /\ UNCHANGED <<sleepRow, timers>>
        BY <1>5 DEF SleepBegin, CallTo
    <2>2. r \in Calls /\ CallFits(r) /\ CallWrote(r, timers, sleepRow, FALSE)
        BY CallStarts DEF SleepTexts
    <2>3. r # NoCall
      <3>1. r.pc \in {"writeStop", "disableStop"}
          BY NextSteps
      <3>2. QED
          BY <1>4, <3>1
    <2> HIDE DEF r
    <2>4. QED
        BY <1>2, <2>1, <2>2, <2>3, OneCall
  <1>6. CASE HostStep(c)
    <2> DEFINE later == Touched(call.pc, call.window)
               next == AfterStep(call.pc, call.window)
               moved == [call EXCEPT !.pc = next]
    <2>1. /\ call.pc \in SetSteps \cup ClearSteps /\ timers' = later /\ UNCHANGED <<sleepRow, unsettled, leftBehind>>
          /\ sleepCall' = [sleepCall EXCEPT ![c] = IF next = "save" /\ call.undoing THEN NoCall ELSE moved]
        BY <1>2, <1>6 DEF HostStep, GoesOn, CallTo, Calls
    <2>2. call.pc # "idle" /\ call.undoing \in BOOLEAN
        BY <1>2, <2>1 DEF SetSteps, ClearSteps, Calls
    <2>7. /\ later \in [Timer -> [text : SleepTexts, on : BOOLEAN]] /\ next \in SetSteps \cup ClearSteps \cup {"save"}
          /\ moved \in Calls /\ moved.pc = next /\ moved.window = call.window /\ CallFits(moved)
      <3>1. /\ timers \in [Timer -> [text : SleepTexts, on : BOOLEAN]] /\ CallFits(call)
            /\ call.pc \in SetSteps \cup ClearSteps /\ call \in Calls
          BY <1>2, <2>1
      <3> HIDE DEF call
      <3>2. QED
          BY <3>1, CallKeepsTypes
    <2> HIDE DEF later, next
    <2>3. ASSUME CallWrote(call, timers, sleepRow, leftBehind)
          PROVE  /\ next = "save" => Match(later, call.window, leftBehind)
                 /\ next # "save" => CallWrote(moved, later, sleepRow, leftBehind)
      <3>1. /\ timers \in [Timer -> [text : SleepTexts, on : BOOLEAN]] /\ CallFits(call)
            /\ call.pc \in SetSteps \cup ClearSteps /\ call \in Calls
          BY <1>2, <2>1
      <3> HIDE DEF call
      <3>2. QED
          BY <2>3, <3>1, CallSteps DEF later, next
    <2> HIDE DEF moved
    <2>4. moved # NoCall
        BY <1>4, <2>7 DEF SetSteps, ClearSteps
    <2>5. moved.undoing = call.undoing
        BY <1>2 DEF moved, Calls
    <2>6. ~unsettled => CallWrote(call, timers, sleepRow, leftBehind) /\ Alone(c)
        BY <1>3, <2>2
    <2>8. CASE next = "save" /\ call.undoing
      <3>1. ~unsettled => Match(timers', sleepRow', leftBehind')
          BY <2>1, <2>3, <2>6, <2>8 DEF CallWrote
      <3>2. sleepCall' = [sleepCall EXCEPT ![c] = NoCall]
          BY <2>1, <2>8
      <3>3. QED
          BY <1>2, <1>4, <2>1, <2>6, <2>7, <3>1, <3>2, OneCall
    <2>9. CASE ~(next = "save" /\ call.undoing)
      <3>1. ASSUME ~unsettled PROVE CallWrote(moved, timers', sleepRow', leftBehind')
        <4>1. CASE next = "save"
          <5>1. Match(timers', moved.window, leftBehind') /\ moved.pc = "save" /\ ~moved.undoing
              BY <2>1, <2>3, <2>5, <2>6, <2>7, <2>9, <3>1, <4>1
          <5>2. QED
              BY <5>1 DEF CallWrote
        <4>2. CASE next # "save"
            BY <2>1, <2>3, <2>6, <3>1, <4>2
        <4>3. QED
            BY <4>1, <4>2
      <3>2. sleepCall' = [sleepCall EXCEPT ![c] = moved]
          BY <2>1, <2>9
      <3>3. QED
          BY <1>2, <2>1, <2>4, <2>6, <2>7, <3>1, <3>2, OneCall
    <2>10. QED
        BY <2>8, <2>9
  <1>7. CASE HostStepRefused(c)
    <2> DEFINE moved == [call EXCEPT !.pc = "undo"]
    <2>1. UNCHANGED <<sleepRow, timers, leftBehind>> /\ call.pc # "idle"
        BY <1>7 DEF HostStepRefused
    <2>2. CASE sleepCall' = [sleepCall EXCEPT ![c] = NoCall] /\ unsettled'
        BY <1>2, <1>4, <2>1, <2>2, OneCall
    <2>3. CASE sleepCall' = [sleepCall EXCEPT ![c] = moved] /\ UNCHANGED unsettled
      <3>1. moved \in Calls /\ moved.pc = "undo" /\ moved.undoing = call.undoing /\ moved.window = call.window
          BY <1>2 DEF Calls
      <3> HIDE DEF moved
      <3>2. moved # NoCall /\ CallFits(moved)
          BY <1>4, <3>1 DEF CallFits, SetSteps, ClearSteps
      <3>3. ~unsettled => Alone(c) /\ CallWrote(moved, timers, sleepRow, leftBehind)
          BY <1>3, <2>1, <3>1 DEF CallWrote
      <3>4. sleepRow' = sleepRow /\ timers' = timers /\ unsettled' = unsettled /\ leftBehind' = leftBehind
          BY <2>1, <2>3
      <3>5. sleepCall' = [sleepCall EXCEPT ![c] = moved]
          BY <2>3 DEF moved
      <3>6. QED
          BY <1>2, <3>1, <3>2, <3>3, <3>4, <3>5, OneCall
    <2>4. QED
        BY <1>7, <2>2, <2>3 DEF HostStepRefused, CallTo
  <1>8. CASE HostLost(c) \/ SleepSaveFails(c)
    <2>1. sleepCall' = [sleepCall EXCEPT ![c] = NoCall] /\ unsettled' /\ UNCHANGED <<sleepRow, timers, leftBehind>>
        BY <1>8 DEF HostLost, SleepSaveFails, CallTo
    <2>2. QED
        BY <1>2, <1>4, <2>1, OneCall
  <1>9. CASE SleepUndo(c)
    <2> DEFINE r == [pc |-> HostSteps(sleepRow)[1], window |-> sleepRow, undoing |-> TRUE]
    <2>1. /\ sleepCall' = [sleepCall EXCEPT ![c] = r] /\ UNCHANGED <<sleepRow, timers, unsettled, leftBehind>> /\ call.pc = "undo"
        BY <1>9 DEF SleepUndo, CallTo
    <2>2. r \in Calls /\ CallFits(r) /\ CallWrote(r, timers, sleepRow, leftBehind)
        BY <1>2, CallStarts
    <2>3. r # NoCall
      <3>1. r.pc \in {"writeStop", "disableStop"}
          BY NextSteps
      <3>2. QED
          BY <1>4, <3>1
    <2> HIDE DEF r
    <2>4. ~unsettled => Alone(c)
        BY <1>3, <2>1
    <2>5. QED
        BY <1>2, <2>1, <2>2, <2>3, <2>4, OneCall
  <1>10. CASE SleepSave(c)
    <2>1. /\ call.pc = "save" /\ sleepRow' = call.window /\ sleepCall' = [sleepCall EXCEPT ![c] = NoCall]
          /\ UNCHANGED <<timers, unsettled, leftBehind>>
        BY <1>10 DEF SleepSave, CallTo
    <2>2. ~unsettled => Alone(c) /\ Match(timers', sleepRow', leftBehind')
        BY <1>3, <2>1 DEF CallWrote
    <2>3. sleepRow' \in SleepTexts
        BY <1>2, <2>1 DEF Calls
    <2>4. QED
        BY <1>2, <1>4, <2>1, <2>2, <2>3, OneCall
  <1>12. CASE ClearStepRefused(c)
    <2> DEFINE next == AfterStep(call.pc, call.window)
               moved == [call EXCEPT !.pc = next]
    <2>1. /\ call.pc \in ClearSteps /\ leftBehind' = TRUE /\ UNCHANGED <<sleepRow, timers, unsettled>>
          /\ sleepCall' = [sleepCall EXCEPT ![c] = IF next = "save" /\ call.undoing THEN NoCall ELSE moved]
        BY <1>12 DEF ClearStepRefused, GoesOn, CallTo
    <2>2. call.pc # "idle" /\ call.undoing \in BOOLEAN
        BY <1>2, <2>1 DEF ClearSteps, Calls
    <2>3. /\ next \in SetSteps \cup ClearSteps \cup {"save"}
          /\ moved \in Calls /\ moved.pc = next /\ moved.window = call.window /\ CallFits(moved)
      <3>1. /\ timers \in [Timer -> [text : SleepTexts, on : BOOLEAN]] /\ CallFits(call)
            /\ call.pc \in SetSteps \cup ClearSteps /\ call \in Calls
          BY <1>2, <2>1
      <3> HIDE DEF call
      <3>2. QED
          BY <3>1, CallKeepsTypes
    <2>4. ASSUME ~unsettled
          PROVE  /\ Alone(c) /\ call.window = NoWindow /\ (call.undoing => call.window = sleepRow)
                 /\ next # "save" => CallWrote(moved, timers, sleepRow, TRUE)
      <3>1. /\ CallFits(call) /\ call.pc \in ClearSteps /\ call \in Calls /\ Alone(c)
            /\ CallWrote(call, timers, sleepRow, TRUE) \/ CallWrote(call, timers, sleepRow, FALSE)
          BY <1>2, <1>3, <2>1, <2>2, <2>4
      <3> HIDE DEF call
      <3>2. QED
          BY <3>1, PassedOver
    <2> HIDE DEF next
    <2>5. moved.undoing = call.undoing /\ moved # NoCall
        BY <1>2, <1>4, <2>3 DEF Calls, SetSteps, ClearSteps
    <2> HIDE DEF moved
    <2>6. CASE next = "save" /\ call.undoing
      <3>1. ~unsettled => Alone(c) /\ Match(timers', sleepRow', leftBehind')
          BY <2>1, <2>4, <2>6 DEF Match
      <3>2. sleepCall' = [sleepCall EXCEPT ![c] = NoCall]
          BY <2>1, <2>6
      <3>3. QED
          BY <1>2, <1>4, <2>1, <3>1, <3>2, OneCall
    <2>7. CASE ~(next = "save" /\ call.undoing)
      <3>1. ASSUME ~unsettled, next = "save" PROVE CallWrote(moved, timers', sleepRow', leftBehind')
        <4>1. Match(timers', moved.window, leftBehind') /\ moved.pc = "save" /\ ~moved.undoing
            BY <2>1, <2>2, <2>3, <2>4, <2>5, <2>7, <3>1 DEF Match
        <4>2. QED
            BY <4>1 DEF CallWrote
      <3>2. ~unsettled => Alone(c) /\ CallWrote(moved, timers', sleepRow', leftBehind')
          BY <2>1, <2>4, <3>1
      <3>3. sleepCall' = [sleepCall EXCEPT ![c] = moved]
          BY <2>1, <2>7
      <3>4. QED
          BY <1>2, <2>1, <2>3, <2>5, <3>2, <3>3, OneCall
    <2>8. QED
        BY <2>6, <2>7
  <1>11. QED
      BY <1>1, <1>5, <1>6, <1>7, <1>8, <1>9, <1>10, <1>12

\* Whatever pages, ticks, crashes and calls to the host come in between: a version of a command is sent once on a local
\* day, and once calls that did not overlap are over the timers are the stored window's, or, with none stored, what a refused
\* command of the last one left (runSchedulerTick, setSleepWindow, clearSleepWindow).
THEOREM SchedulesHold == ScheduleSpec => []ScheduledAsSet
  <1>1. ScheduleInit => CommandInv /\ SleepInv
    <2> SUFFICES ASSUME ScheduleInit PROVE CommandInv /\ SleepInv
        OBVIOUS
    <2>1. /\ minuteNow = 1 /\ command = NoCommand /\ versions = 0 /\ shown = NoCommand /\ commandTick = NoTick
          /\ sends = <<>> /\ sleepRow = NoWindow /\ timers = NoTimers
          /\ sleepCall = [c \in SleepCalls |-> NoCall] /\ leftBehind = FALSE
        BY DEF ScheduleInit
    <2>2. 1 \in 1..Len(LocalTime)
      <3> DEFINE Moments == [day : Nat, minute : Nat]
      <3>1. LocalTime \in Seq(Moments) /\ LocalTime # <<>>
          BY LocalTimeAssumption
      <3> HIDE DEF Moments
      <3>2. QED
          BY <3>1
    <2>3. DOMAIN sends = {} /\ sends \in Seq(Nat \X Nat)
        BY <2>1
    <2>4. CommandTypes
        BY <2>1, <2>2, <2>3, RowsBeside DEF CommandTypes
    <2>5. CommandInv
        BY <2>1, <2>3, <2>4, RowsBeside DEF CommandInv, Noted, TickKnows, OncePerLocalDay
    <2>6. NoWindow \in SleepTexts
        BY DEF SleepTexts
    <2>7. SleepTypes
        BY <2>1, <2>6, TheTimers, CallsBeside DEF SleepTypes
    <2>8. SleepInv
        BY <2>1, <2>7, TheTimers DEF SleepInv, Match
    <2>9. QED
        BY <2>5, <2>8
  <1>2. CommandInv /\ SleepInv /\ [ScheduleNext]_scheduleVars => (CommandInv /\ SleepInv)'
    <2> SUFFICES ASSUME CommandInv, SleepInv, [ScheduleNext]_scheduleVars PROVE CommandInv' /\ SleepInv'
        OBVIOUS
    <2>1. ASSUME UNCHANGED commandVars PROVE CommandInv'
        BY <2>1 DEF commandVars, CommandInv, CommandTypes, Noted, TickKnows, Day, OncePerLocalDay
    <2>2. ASSUME UNCHANGED sleepVars PROVE SleepInv'
        BY <2>2 DEF sleepVars, SleepInv, SleepTypes, Alone
    <2>3. CASE CommandStep /\ UNCHANGED sleepVars
        BY <2>2, <2>3, CommandSteps, CommandClaimed, CommandSent DEF CommandStep
    <2>4. CASE SleepStep /\ UNCHANGED commandVars
        BY <2>1, <2>4, SleepSteps
    <2>5. CASE UNCHANGED scheduleVars
        BY <2>1, <2>2, <2>5 DEF scheduleVars, commandVars, sleepVars
    <2>6. QED
        BY <2>3, <2>4, <2>5 DEF ScheduleNext
  <1>3. CommandInv /\ SleepInv => ScheduledAsSet
      BY DEF CommandInv, SleepInv, Match, ScheduledAsSet, TimersMatchTheWindow
  <1>4. QED
      BY <1>1, <1>2, <1>3, PTL DEF ScheduleSpec

-----------------------------------------------------------------------------
(***************************************************************************)
(* SetupCheck, for any disks, faults and restarts.  What a check has found so *)
(* far is what was wrong on the disk when it read it, and what it tells of is *)
(* what it found.                                                          *)
(***************************************************************************)
CheckFields == {"at", "rows", "todo", "found", "joined", "failed", "seen", "quiet"}
Units == {"active", "inactive", "failed", "activating"}
Lines == [text : {"stuck", "server info", "joined", "session valid"}, chat : BOOLEAN]
Found == Values \cup {NotThere, Unreadable, Variable}
Disks ==
    [config : [AllKeys -> Found], file : {"there", "missing", "broken"}, sections : BOOLEAN, env : BOOLEAN,
     unit : Units, journal : SUBSET Lines, listening : BOOLEAN]
Rows ==
    [status : {"running", "stopped", "error"}, live : BOOLEAN, named : BOOLEAN, readable : BOOLEAN,
     settings : [AllKeys -> Values \cup {NotThere}]]

SetupTypes ==
    /\ botHost \in [units : {"same", "missing", "differs"}, leftovers : SUBSET {"timer", "container"},
                    image : BOOLEAN, stack : BOOLEAN]
    /\ disk \in [SetupBots -> Disks] /\ saved \in [SetupBots -> Rows]
    /\ DOMAIN check = CheckFields /\ check.todo \subseteq SetupBots

\* What a bot has been read for: the rounds that are over, and the one under way if its turn was.
After(round) ==
    CASE round = "state" -> {"config", "env", "live", "end", "done"}
      [] round = "config" -> {"env", "live", "end", "done"}
      [] round = "env" -> {"live", "end", "done"}
      [] round = "live" -> {"end", "done"}
Rounds == {"state", "config", "env", "live"}
Read(round, b) == check.at \in After(round) \/ (check.at = round /\ b \notin check.todo)

\* What each reading is to find.
StateRight(b) == DesiredStateIsSatisfied(check.rows[b].status, Observed(b, check.rows[b]))
ConfigRight(b) == check.rows[b].readable /\ FileDrift(b, RenderInstanceConfig(check.rows[b])) = {}
LiveRight(b) == ~(b \in check.joined /\ check.rows[b].readable /\ check.rows[b].live /\ ~disk[b].listening)
Right(round, b) ==
    CASE round = "state" -> StateRight(b)
      [] round = "config" -> ConfigRight(b)
      [] round = "env" -> disk[b].env
      [] round = "live" -> LiveRight(b)
Joined(b) == disk[b].unit = "active" /\ check.rows[b].status = "running" /\ SawJoin(b)
FactsRight == botHost.stack /\ botHost.leftovers = {} /\ botHost.image
RightSoFar ==
    /\ check.at # "facts" => FactsRight
    /\ check.at \notin {"facts", "units"} => botHost.units = "same"
    /\ \A round \in Rounds, b \in SetupBots : Read(round, b) => Right(round, b)

\* Undisturbed, a check has found nothing exactly when all it has read is right.
FoundSoFar ==
    check.quiet /\ check.at \notin {"never", "unknown"} =>
        /\ check.found = {} <=> RightSoFar
        /\ \A b \in SetupBots : b \in check.joined <=> Read("state", b) /\ Joined(b)

Withheld(d) ==
    d.kind \in {"managed", "fixed", "operator"} /\ d.key \in SecretKeys \cup Operated => d.actual \in {NotThere, "something else"}
NothingTold == \A d \in check.found : Withheld(d)

SetupInv == SetupTypes /\ FoundSoFar /\ NothingTold

-----------------------------------------------------------------------------
\* The differences of a file (configDriftFor, compareInstanceConfig, toPublicDrift): none, exactly when it
\* is the document that would be rendered; and none tells what is a secret or the operator's.
LEMMA DriftOfFile ==
    ASSUME SetupTypes, NEW b \in SetupBots, NEW want
    PROVE  /\ FileDrift(b, want) = {} <=>
                /\ disk[b].file = "there" /\ ~disk[b].sections
                /\ \A k \in AllKeys : /\ disk[b].config[k] # Unreadable
                                      /\ want[k] # NotThere => disk[b].config[k] = want[k]
           /\ \A d \in FileDrift(b, want) : Withheld(d)
  <1> DEFINE have == disk[b].config
             differing == {k \in AllKeys : want[k] # NotThere /\ have[k] # want[k]}
             unread == {k \in AllKeys : have[k] = Unreadable} \ differing
             Entry(k) == [bot |-> b, kind |-> KindOf(k, have[k]), key |-> k,
                          actual |-> IF have[k] = Unreadable THEN NotThere ELSE ToldValue(k, have[k])]
             Unread(k) == [bot |-> b, kind |-> "unreadable", key |-> k, actual |-> NotThere]
             section == [bot |-> b, kind |-> "section", key |-> "sections", actual |-> "some"]
             sections == IF disk[b].sections THEN {section} ELSE {}
             fileGone == [bot |-> b, kind |-> "managed", key |-> "file", actual |-> NotThere]
             fileBroken == [bot |-> b, kind |-> "unreadable", key |-> "file", actual |-> NotThere]
  <1>1. disk[b].file \in {"there", "missing", "broken"}
      BY DEF SetupTypes, Disks
  <1>2. ConfigDriftOf(b, want) = {Entry(k) : k \in differing} \cup {Unread(k) : k \in unread} \cup sections
      BY DEF ConfigDriftOf
  <1>3. Withheld(fileGone) /\ Withheld(fileBroken) /\ Withheld(section)
      BY DEF Withheld
  <1>4. ASSUME NEW k PROVE Withheld(Entry(k)) /\ Withheld(Unread(k))
    <2>1. Entry(k).key = k /\ Entry(k).actual = IF have[k] = Unreadable THEN NotThere ELSE ToldValue(k, have[k])
        OBVIOUS
    <2>2. Unread(k).actual = NotThere
        OBVIOUS
    <2> HIDE DEF Entry, Unread
    <2>3. QED
        BY <2>1, <2>2 DEF Withheld, ToldValue, IsSecretKey, IsOperatorKey
  <1> HIDE DEF Entry, Unread, section, fileGone, fileBroken
  <1>5. CASE disk[b].file = "missing"
    <2>1. FileDrift(b, want) = {fileGone}
        BY <1>5 DEF FileDrift, fileGone
    <2>2. QED
        BY <1>3, <1>5, <2>1
  <1>6. CASE disk[b].file = "broken"
    <2>1. FileDrift(b, want) = {fileBroken}
        BY <1>6 DEF FileDrift, fileBroken
    <2>2. QED
        BY <1>3, <1>6, <2>1
  <1>7. CASE disk[b].file = "there"
    <2>1. FileDrift(b, want) = {Entry(k) : k \in differing} \cup {Unread(k) : k \in unread} \cup sections
        BY <1>2, <1>7 DEF FileDrift
    <2>2. sections = {} <=> ~disk[b].sections
        OBVIOUS
    <2>3. (differing = {} /\ unread = {}) <=>
              \A k \in AllKeys : have[k] # Unreadable /\ (want[k] # NotThere => have[k] = want[k])
        OBVIOUS
    <2>4. \A d \in sections : Withheld(d)
        BY <1>3
    <2> HIDE DEF have, differing, unread, sections
    <2>5. FileDrift(b, want) = {} <=> differing = {} /\ unread = {} /\ sections = {}
        BY <2>1
    <2>6. \A d \in FileDrift(b, want) : Withheld(d)
        BY <1>4, <2>1, <2>4
    <2>7. QED
        BY <1>7, <2>2, <2>3, <2>5, <2>6 DEF have
  <1>8. QED
      BY <1>1, <1>5, <1>6, <1>7

-----------------------------------------------------------------------------
NextRound(round) ==
    CASE round = "state" -> "config" [] round = "config" -> "env" [] round = "env" -> "live" [] round = "live" -> "end"

\* Reading one bot in a round reads that bot for that round, and starts the next one with none read (Round).
LEMMA OneMoreRead ==
    ASSUME NEW round \in Rounds, NEW b \in SetupBots, check.at = round, b \in check.todo, check.todo \subseteq SetupBots,
           check'.todo = IF check.todo = {b} THEN SetupBots ELSE check.todo \ {b},
           check'.at = IF check.todo = {b} THEN NextRound(round) ELSE round
    PROVE  /\ \A r \in Rounds, d \in SetupBots : Read(r, d)' <=> Read(r, d) \/ (r = round /\ d = b)
           /\ check'.at \in Rounds \cup {"end"}
  <1>1. ASSUME NEW r \in Rounds, NEW d \in SetupBots
        PROVE  Read(r, d)' <=> Read(r, d) \/ (r = round /\ d = b)
    <2>1. CASE check.todo = {b}
        BY <2>1 DEF Read, After, Rounds, NextRound
    <2>2. CASE check.todo # {b}
        BY <2>2 DEF Read, After, Rounds, NextRound
    <2>3. QED
        BY <2>1, <2>2
  <1>2. QED
      BY <1>1 DEF Rounds, NextRound

\* What a step of a check finds is what it was to look for.
LEMMA RoundFinds ==
    ASSUME SetupTypes, FoundSoFar, NothingTold, NEW round \in Rounds, NEW b \in SetupBots, NEW entries,
           check.at = round, b \in check.todo, UNCHANGED <<botHost, disk>>,
           check'.todo = IF check.todo = {b} THEN SetupBots ELSE check.todo \ {b},
           check'.at = IF check.todo = {b} THEN NextRound(round) ELSE round,
           check'.found = check.found \cup entries, check'.rows = check.rows, check'.quiet = check.quiet,
           check'.joined = IF round = "state" /\ Joined(b) THEN check.joined \cup {b} ELSE check.joined,
           entries = {} <=> Right(round, b), \A d \in entries : Withheld(d)
    PROVE  FoundSoFar' /\ NothingTold'
  <1>1. /\ \A r \in Rounds, d \in SetupBots : Read(r, d)' <=> Read(r, d) \/ (r = round /\ d = b)
        /\ check'.at \in Rounds \cup {"end"} /\ check.todo \subseteq SetupBots
      BY OneMoreRead DEF SetupTypes
  <1>2. NothingTold'
      BY DEF NothingTold, Withheld
  <1>3. SUFFICES ASSUME check'.quiet
                 PROVE  /\ check'.found = {} <=> RightSoFar'
                        /\ \A d \in SetupBots : d \in check'.joined <=> Read("state", d)' /\ Joined(d)'
      BY <1>2 DEF FoundSoFar
  <1>4. /\ check.found = {} <=> RightSoFar
        /\ \A d \in SetupBots : d \in check.joined <=> Read("state", d) /\ Joined(d)
      BY <1>3 DEF FoundSoFar, Rounds
  <1>5. /\ FactsRight' = FactsRight /\ (botHost.units = "same")' = (botHost.units = "same")
        /\ check.at \notin {"facts", "units"} /\ check'.at \notin {"facts", "units"}
      BY <1>1 DEF FactsRight, Rounds
  <1>6. \A d \in SetupBots : Joined(d)' = Joined(d)
      BY DEF Joined, SawJoin
  <1>7. ASSUME NEW r \in Rounds, NEW d \in SetupBots, Read(r, d)' PROVE Right(r, d)' <=> Right(r, d)
    <2>1. /\ StateRight(d)' = StateRight(d) /\ ConfigRight(d)' = ConfigRight(d) /\ disk'[d].env = disk[d].env
        BY DEF StateRight, ConfigRight, Observed, LooksStuck, Says, FileDrift, ConfigDriftOf
    <2>2. r = "live" => round # "state"
        BY <1>1, <1>7 DEF Read, After, Rounds
    <2>3. r = "live" => (LiveRight(d)' <=> LiveRight(d))
        BY <2>2 DEF LiveRight
    <2>4. QED
        BY <2>1, <2>3 DEF Right, Rounds
  <1>8. RightSoFar' <=> RightSoFar /\ Right(round, b)
      BY <1>1, <1>5, <1>7 DEF RightSoFar
  <1>9. \A d \in SetupBots : d \in check'.joined <=> Read("state", d)' /\ Joined(d)'
    <2>1. \A d \in SetupBots : Read("state", d)' <=> Read("state", d) \/ (round = "state" /\ d = b)
        BY <1>1 DEF Rounds
    <2>2. round = "state" => ~Read("state", b)
        BY DEF Read, After
    <2>3. QED
        BY <1>4, <1>6, <2>1, <2>2
  <1>10. check'.found = {} <=> check.found = {} /\ entries = {}
      OBVIOUS
  <1>11. QED
      BY <1>4, <1>8, <1>9, <1>10


\* A step of a check changes nothing but the check.
LEMMA ChecksReadOnly ==
    ASSUME SetupTypes, ChangesNothing, DOMAIN check' = CheckFields, check'.todo \subseteq SetupBots
    PROVE  SetupTypes'
  BY DEF SetupTypes, ChangesNothing

LEMMA RoundSteps ==
    ASSUME SetupInv, NEW b \in SetupBots, ReadState(b) \/ ReadConfig(b) \/ ReadEnv(b) \/ ProbeLive(b)
    PROVE  SetupInv'
  <1>0. SetupTypes /\ FoundSoFar /\ NothingTold
      BY DEF SetupInv
  <1>1. /\ ChangesNothing /\ UNCHANGED <<botHost, disk>> /\ b \in check.todo /\ check.todo \subseteq SetupBots
        /\ DOMAIN check = CheckFields
      BY <1>0 DEF ReadState, ReadConfig, ReadEnv, ProbeLive, ChangesNothing, SetupTypes
  <1> DEFINE rest == IF check.todo = {b} THEN SetupBots ELSE check.todo \ {b}
  <1>2. rest \subseteq SetupBots
      BY <1>1
  <1>3. CASE ReadState(b)
    <2> DEFINE rec == check.rows[b]
               unit     == Observed(b, rec)
               entry == [kind |-> "state", bot |-> b, desired |-> rec.status, observed |-> unit]
               entries == IF DesiredStateIsSatisfied(rec.status, unit) THEN {} ELSE {entry}
    <2>1. check.at = "state"
        BY <1>3 DEF ReadState
    <2>2. /\ DOMAIN check' = CheckFields /\ check'.todo = rest
          /\ check'.at = IF check.todo = {b} THEN "config" ELSE check.at
          /\ check'.found = check.found \cup entries /\ check'.rows = check.rows /\ check'.quiet = check.quiet
          /\ check'.joined = IF disk[b].unit = "active" /\ rec.status = "running" /\ SawJoin(b)
                             THEN check.joined \cup {b} ELSE check.joined
        BY <1>1, <1>3 DEF ReadState, Round, CheckFields
    <2>3. entries = {} <=> StateRight(b)
        BY DEF StateRight
    <2>4. Withheld(entry)
        BY DEF Withheld
    <2>5. \A d \in entries : Withheld(d)
        BY <2>4
    <2>6. check'.joined = IF Joined(b) THEN check.joined \cup {b} ELSE check.joined
        BY <2>2 DEF Joined
    <2>7. Right("state", b) <=> StateRight(b)
        BY DEF Right
    <2> HIDE DEF entries
    <2>8. "state" \in Rounds /\ NextRound("state") = "config"
        BY DEF Rounds, NextRound
    <2>9. FoundSoFar' /\ NothingTold'
        BY <1>0, <1>1, <2>1, <2>2, <2>3, <2>5, <2>6, <2>7, <2>8, RoundFinds
    <2>10. SetupTypes'
        BY <1>0, <1>1, <1>2, <2>2, ChecksReadOnly
    <2>11. QED
        BY <2>9, <2>10 DEF SetupInv
  <1>4. ASSUME NEW round \in {"config", "env", "live"}, NEW entries, check.at = round,
               check' = Round(b, NextRound(round), entries),
               entries = {} <=> Right(round, b), \A d \in entries : Withheld(d)
        PROVE  SetupInv'
    <2>1. /\ DOMAIN check' = CheckFields /\ check'.todo = rest
          /\ check'.at = IF check.todo = {b} THEN NextRound(round) ELSE check.at
          /\ check'.found = check.found \cup entries /\ check'.rows = check.rows /\ check'.quiet = check.quiet
          /\ check'.joined = check.joined
        BY <1>1, <1>4 DEF Round, CheckFields
    <2>2. round \in Rounds /\ round # "state"
        BY DEF Rounds
    <2>3. FoundSoFar' /\ NothingTold'
        BY <1>0, <1>1, <1>4, <2>1, <2>2, RoundFinds
    <2>4. SetupTypes'
        BY <1>0, <1>1, <1>2, <2>1, ChecksReadOnly
    <2>5. QED
        BY <2>3, <2>4 DEF SetupInv
  <1>5. CASE ReadConfig(b)
    <2> DEFINE rec == check.rows[b]
               unread == [bot |-> b, kind |-> "unreadable", key |-> "file", actual |-> NotThere]
               drift == FileDrift(b, RenderInstanceConfig(rec))
               entries == IF rec.readable THEN drift ELSE {unread}
    <2>1. check.at = "config" /\ check' = Round(b, "env", entries)
        BY <1>5 DEF ReadConfig
    <2>2. Withheld(unread)
        BY DEF Withheld
    <2>3. \A d \in drift : Withheld(d)
        BY <1>0, DriftOfFile
    <2>4. Right("config", b) <=> rec.readable /\ drift = {}
        BY DEF Right, ConfigRight
    <2> HIDE DEF drift, unread
    <2>5. (\A d \in entries : Withheld(d)) /\ (entries = {} <=> Right("config", b))
        BY <2>2, <2>3, <2>4
    <2> HIDE DEF entries
    <2>6. NextRound("config") = "env"
        BY DEF NextRound
    <2>7. QED
        BY <1>4, <2>1, <2>5, <2>6
  <1>6. CASE ReadEnv(b)
    <2> DEFINE entry == [bot |-> b, kind |-> "managed", key |-> "unit.env", actual |-> "something else"]
               entries == IF disk[b].env THEN {} ELSE {entry}
    <2>1. check.at = "env" /\ check' = Round(b, "live", entries)
        BY <1>6 DEF ReadEnv
    <2>2. Withheld(entry)
        BY DEF Withheld
    <2> HIDE DEF entry
    <2>3. (\A d \in entries : Withheld(d)) /\ (entries = {} <=> Right("env", b))
        BY <2>2 DEF Right
    <2> HIDE DEF entries
    <2>4. NextRound("env") = "live"
        BY DEF NextRound
    <2>5. QED
        BY <1>4, <2>1, <2>3, <2>4
  <1>7. CASE ProbeLive(b)
    <2> DEFINE entry == [bot |-> b, kind |-> "unreachable", key |-> "McpServer", actual |-> NotThere]
               silent == b \in check.joined /\ check.rows[b].readable /\ check.rows[b].live /\ ~disk[b].listening
               entries == IF silent THEN {entry} ELSE {}
    <2>1. check.at = "live" /\ check' = Round(b, "end", entries)
        BY <1>7 DEF ProbeLive
    <2>2. Withheld(entry)
        BY DEF Withheld
    <2>3. Right("live", b) <=> ~silent
        BY DEF Right, LiveRight
    <2> HIDE DEF entry, silent
    <2>4. (\A d \in entries : Withheld(d)) /\ (entries = {} <=> Right("live", b))
        BY <2>2, <2>3
    <2> HIDE DEF entries
    <2>5. NextRound("live") = "end"
        BY DEF NextRound
    <2>6. QED
        BY <1>4, <2>1, <2>4, <2>5
  <1>8. QED
      BY <1>3, <1>5, <1>6, <1>7

-----------------------------------------------------------------------------
\* What somebody else changes spoils the check, and no type (Tamper, SaveSettings, RestartToFix).
LEMMA Disturbed ==
    ASSUME SetupInv, check' = [check EXCEPT !.quiet = FALSE],
           SetupTypes => /\ botHost' \in [units : {"same", "missing", "differs"}, leftovers : SUBSET {"timer", "container"},
                                          image : BOOLEAN, stack : BOOLEAN]
                         /\ disk' \in [SetupBots -> Disks] /\ saved' \in [SetupBots -> Rows]
    PROVE  SetupInv'
  <1>1. DOMAIN check' = CheckFields /\ check'.todo = check.todo /\ check'.found = check.found /\ ~check'.quiet
      BY DEF SetupInv, SetupTypes, CheckFields
  <1>2. SetupTypes' /\ FoundSoFar'
      BY <1>1 DEF SetupInv, SetupTypes, FoundSoFar
  <1>3. NothingTold'
      BY <1>1 DEF SetupInv, NothingTold, Withheld
  <1>4. QED
      BY <1>2, <1>3 DEF SetupInv

LEMMA DisksKept ==
    ASSUME NEW d \in Disks
    PROVE  /\ \A k \in AllKeys, v \in Found : [d EXCEPT !.config[k] = v] \in Disks
           /\ \A f \in {"there", "missing", "broken"} : [d EXCEPT !.file = f] \in Disks
           /\ [d EXCEPT !.sections = TRUE] \in Disks /\ [d EXCEPT !.env = FALSE] \in Disks
           /\ \A u \in Units : [d EXCEPT !.unit = u] \in Disks
           /\ \A line \in Lines : [d EXCEPT !.journal = @ \cup {line}] \in Disks
           /\ [d EXCEPT !.listening = ~@] \in Disks
           /\ [d EXCEPT !.unit = "inactive", !.listening = FALSE] \in Disks
  <1>1. (~d.listening) \in BOOLEAN
      OBVIOUS
  <1>2. [d EXCEPT !.listening = ~@] \in Disks
    <2>1. PICK n \in BOOLEAN : n = ~d.listening
        BY <1>1
    <2>2. [d EXCEPT !.listening = n] \in Disks
        BY DEF Disks
    <2>3. QED
        BY <2>1, <2>2
  <1>3. \A k \in AllKeys, v \in Found : [d EXCEPT !.config[k] = v] \in Disks
    <2>1. d.config \in [AllKeys -> Found]
        BY DEF Disks
    <2>2. \A k \in AllKeys, v \in Found : [d.config EXCEPT ![k] = v] \in [AllKeys -> Found]
        BY <2>1
    <2>3. \A c \in [AllKeys -> Found] : [d EXCEPT !.config = c] \in Disks
        BY DEF Disks
    <2>4. QED
        BY <2>2, <2>3
  <1>4. /\ \A f \in {"there", "missing", "broken"} : [d EXCEPT !.file = f] \in Disks
        /\ [d EXCEPT !.sections = TRUE] \in Disks /\ [d EXCEPT !.env = FALSE] \in Disks
        /\ \A u \in Units : [d EXCEPT !.unit = u] \in Disks
      BY DEF Disks
  <1>5. \A line \in Lines : [d EXCEPT !.journal = @ \cup {line}] \in Disks
      BY DEF Disks
  <1>6. [d EXCEPT !.unit = "inactive", !.listening = FALSE] \in Disks
      BY DEF Disks, Units
  <1>7. QED
      BY <1>2, <1>3, <1>4, <1>5, <1>6

\* The document rendered of a row is one a disk can hold (renderInstanceConfig).
LEMMA Renders ==
    ASSUME NEW rec \in Rows PROVE RenderInstanceConfig(rec) \in [AllKeys -> Found]
  BY DEF Rows, RenderInstanceConfig, Found, Values

LEMMA OthersStep ==
    ASSUME SetupInv, Tamper \/ (\E b \in SetupBots : RestartToFix(b) \/ SaveSettings(b)) PROVE SetupInv'
  <1>0. /\ botHost \in [units : {"same", "missing", "differs"}, leftovers : SUBSET {"timer", "container"},
                        image : BOOLEAN, stack : BOOLEAN]
        /\ disk \in [SetupBots -> Disks] /\ saved \in [SetupBots -> Rows]
      BY DEF SetupInv, SetupTypes
  <1>1. CASE Tamper
    <2>1. check' = [check EXCEPT !.quiet = FALSE] /\ saved' = saved
        BY <1>1 DEF Tamper
    <2>2. botHost' \in [units : {"same", "missing", "differs"}, leftovers : SUBSET {"timer", "container"},
                        image : BOOLEAN, stack : BOOLEAN]
      <3> DEFINE M == [units : {"same", "missing", "differs"}, leftovers : SUBSET {"timer", "container"},
                       image : BOOLEAN, stack : BOOLEAN]
      <3>1. \/ botHost' = botHost
            \/ \E u \in {"missing", "differs"} : botHost' = [botHost EXCEPT !.units = u]
            \/ \E u \in {"timer", "container"} : botHost' = [botHost EXCEPT !.leftovers = @ \cup {u}]
            \/ botHost' = [botHost EXCEPT !.image = FALSE]
            \/ botHost' = [botHost EXCEPT !.stack = FALSE]
          BY <1>1 DEF Tamper
      <3>2. \A u \in {"missing", "differs"} : [botHost EXCEPT !.units = u] \in M
          BY <1>0
      <3>3. \A u \in {"timer", "container"} : [botHost EXCEPT !.leftovers = @ \cup {u}] \in M
          BY <1>0
      <3>4. [botHost EXCEPT !.image = FALSE] \in M /\ [botHost EXCEPT !.stack = FALSE] \in M
          BY <1>0
      <3>5. botHost \in M
          BY <1>0
      <3> HIDE DEF M
      <3>6. botHost' \in M
          BY <3>1, <3>2, <3>3, <3>4, <3>5
      <3>7. QED
          BY <3>6 DEF M
    <2>3. disk' = disk \/ \E b \in SetupBots, d \in Disks : disk' = [disk EXCEPT ![b] = d]
      <3>1. SUFFICES ASSUME disk' # disk PROVE \E b \in SetupBots, d \in Disks : disk' = [disk EXCEPT ![b] = d]
          OBVIOUS
      <3>2. PICK b \in SetupBots :
               \/ \E k \in AllKeys, v \in Found : disk' = [disk EXCEPT ![b].config[k] = v]
               \/ \E f \in {"missing", "broken"} : disk' = [disk EXCEPT ![b].file = f]
               \/ disk' = [disk EXCEPT ![b].sections = TRUE]
               \/ disk' = [disk EXCEPT ![b].env = FALSE]
               \/ \E u \in {"inactive", "failed", "activating"} : disk' = [disk EXCEPT ![b].unit = u]
               \/ \E t \in {"stuck", "server info", "joined", "session valid"}, c \in BOOLEAN :
                    disk' = [disk EXCEPT ![b].journal = @ \cup {[text |-> t, chat |-> c]}]
               \/ disk' = [disk EXCEPT ![b].listening = ~@]
          BY <1>1, <3>1 DEF Tamper, Found
      <3>3. disk[b] \in Disks
          BY <1>0
      <3>4. \E d \in Disks : disk' = [disk EXCEPT ![b] = d]
        <4>1. CASE \E k \in AllKeys, v \in Found : disk' = [disk EXCEPT ![b].config[k] = v]
            BY <3>3, <4>1, DisksKept
        <4>2. CASE \E f \in {"missing", "broken"} : disk' = [disk EXCEPT ![b].file = f]
            BY <3>3, <4>2, DisksKept
        <4>3. CASE disk' = [disk EXCEPT ![b].sections = TRUE] \/ disk' = [disk EXCEPT ![b].env = FALSE]
            BY <3>3, <4>3, DisksKept
        <4>4. CASE \E u \in {"inactive", "failed", "activating"} : disk' = [disk EXCEPT ![b].unit = u]
            BY <3>3, <4>4, DisksKept DEF Units
        <4>5. CASE \E t \in {"stuck", "server info", "joined", "session valid"}, c \in BOOLEAN :
                     disk' = [disk EXCEPT ![b].journal = @ \cup {[text |-> t, chat |-> c]}]
          <5>1. PICK line \in Lines : disk' = [disk EXCEPT ![b].journal = @ \cup {line}]
              BY <4>5 DEF Lines
          <5>2. QED
              BY <3>3, <5>1, DisksKept
        <4>6. CASE disk' = [disk EXCEPT ![b].listening = ~@]
            BY <3>3, <4>6, DisksKept
        <4>7. QED
            BY <3>2, <4>1, <4>2, <4>3, <4>4, <4>5, <4>6
      <3>5. QED
          BY <3>4
    <2>4. disk' \in [SetupBots -> Disks]
        BY <1>0, <2>3
    <2>5. QED
        BY <1>0, <2>1, <2>2, <2>4, Disturbed
  <1>2. ASSUME NEW b \in SetupBots, RestartToFix(b) PROVE SetupInv'
    <2> DEFINE fixed == [disk[b] EXCEPT !.config = RenderInstanceConfig(saved[b]), !.file = "there", !.sections = FALSE,
                                        !.env = TRUE, !.unit = "active", !.journal = {}, !.listening = FALSE]
    <2>1. /\ check' = [check EXCEPT !.quiet = FALSE] /\ saved' = saved /\ botHost' = botHost
          /\ disk' = [disk EXCEPT ![b] = fixed]
        BY <1>2 DEF RestartToFix
    <2>2. RenderInstanceConfig(saved[b]) \in [AllKeys -> Found]
        BY <1>0, Renders
    <2>3. fixed \in Disks
      <3>1. disk[b] \in Disks
          BY <1>0
      <3>2. ASSUME NEW c \in [AllKeys -> Found]
            PROVE  [disk[b] EXCEPT !.config = c, !.file = "there", !.sections = FALSE, !.env = TRUE,
                                   !.unit = "active", !.journal = {}, !.listening = FALSE] \in Disks
          BY <3>1 DEF Disks, Units
      <3>3. QED
          BY <2>2, <3>2
    <2> HIDE DEF fixed
    <2>4. disk' \in [SetupBots -> Disks]
        BY <1>0, <2>1, <2>3
    <2>5. QED
        BY <1>0, <2>1, <2>4, Disturbed
  <1>3. ASSUME NEW b \in SetupBots, SaveSettings(b) PROVE SetupInv'
    <2>1. check' = [check EXCEPT !.quiet = FALSE] /\ botHost' = botHost
        BY <1>3 DEF SaveSettings
    <2>2. disk[b] \in Disks /\ saved[b] \in Rows
        BY <1>0
    <2>3. disk' = disk \/ disk' = [disk EXCEPT ![b] = [disk[b] EXCEPT !.unit = "inactive", !.listening = FALSE]]
        BY <1>0, <1>3 DEF SaveSettings
    <2>4. disk' \in [SetupBots -> Disks]
        BY <1>0, <2>2, <2>3, DisksKept
    <2>5. \E rec \in Rows : saved' = [saved EXCEPT ![b] = rec]
      <3>1. ASSUME NEW k \in Managed \cup Operated, NEW v \in {"chosen", "odd"}, saved' = [saved EXCEPT ![b].settings[k] = v]
            PROVE  \E rec \in Rows : saved' = [saved EXCEPT ![b] = rec]
        <4>1. [saved[b].settings EXCEPT ![k] = v] \in [AllKeys -> Values \cup {NotThere}]
            BY <2>2 DEF Rows, AllKeys, Values
        <4>2. \A c \in [AllKeys -> Values \cup {NotThere}] : [saved[b] EXCEPT !.settings = c] \in Rows
            BY <2>2 DEF Rows
        <4>3. QED
            BY <3>1, <4>1, <4>2
      <3>2. /\ [saved[b] EXCEPT !.status = "stopped"] \in Rows /\ [saved[b] EXCEPT !.live = TRUE] \in Rows
            /\ [saved[b] EXCEPT !.readable = FALSE] \in Rows
          BY <2>2 DEF Rows
      <3>3. \/ \E k \in Managed \cup Operated, v \in {"chosen", "odd"} : saved' = [saved EXCEPT ![b].settings[k] = v]
            \/ saved' = [saved EXCEPT ![b].status = "stopped"] \/ saved' = [saved EXCEPT ![b].live = TRUE]
            \/ saved' = [saved EXCEPT ![b].readable = FALSE]
          BY <1>3 DEF SaveSettings
      <3>4. QED
          BY <3>1, <3>2, <3>3
    <2>6. saved' \in [SetupBots -> Rows]
        BY <1>0, <2>5
    <2>7. QED
        BY <1>0, <2>1, <2>4, <2>6, Disturbed
  <1>4. QED
      BY <1>1, <1>2, <1>3

LEMMA CheckSteps ==
    ASSUME SetupInv, CheckNow \/ CheckFails \/ ReadFacts \/ ReadUnits \/ EndCheck PROVE SetupInv'
  <1>0. SetupTypes /\ FoundSoFar /\ NothingTold
      BY DEF SetupInv
  <1>1. CASE CheckNow
    <2>1. /\ DOMAIN check' = CheckFields /\ check'.at = "facts" /\ check'.found = {} /\ check'.joined = {}
          /\ check'.todo = {} /\ UNCHANGED <<botHost, disk, saved>>
        BY <1>1 DEF CheckNow, CheckFields
    <2>2. SetupTypes'
        BY <1>0, <2>1 DEF SetupTypes
    <2>3. \A round \in Rounds, b \in SetupBots : ~Read(round, b)'
        BY <2>1 DEF Read, After, Rounds
    <2>4. FoundSoFar'
        BY <2>1, <2>3 DEF FoundSoFar, RightSoFar, Rounds
    <2>5. NothingTold'
        BY <2>1 DEF NothingTold
    <2>6. QED
        BY <2>2, <2>4, <2>5 DEF SetupInv
  <1>2. CASE CheckFails
    <2>1. /\ DOMAIN check' = CheckFields /\ check'.at = "unknown" /\ check'.found = check.found
          /\ check'.todo = check.todo /\ ChangesNothing
        BY <1>0, <1>2 DEF CheckFails, CheckFields, SetupTypes
    <2>2. SetupTypes' /\ FoundSoFar'
        BY <1>0, <2>1 DEF SetupTypes, FoundSoFar, ChangesNothing
    <2>3. NothingTold'
        BY <1>0, <2>1 DEF NothingTold, Withheld
    <2>4. QED
        BY <2>2, <2>3 DEF SetupInv
  <1>3. ASSUME NEW entries, check'.found = check.found \cup entries, check'.joined = check.joined,
               check'.rows = check.rows, check'.quiet = check.quiet, DOMAIN check' = CheckFields,
               UNCHANGED <<botHost, disk, saved>>, check'.todo \subseteq SetupBots,
               \/ check.at = "facts" /\ check'.at = "units" /\ (entries = {} <=> FactsRight)
               \/ /\ check.at = "units" /\ check'.at = "state" /\ check'.todo = SetupBots
                  /\ entries = {} <=> botHost.units = "same",
               \A d \in entries : Withheld(d)
        PROVE  SetupInv'
    <2>1. SetupTypes'
        BY <1>0, <1>3 DEF SetupTypes
    <2>2. NothingTold'
        BY <1>0, <1>3 DEF NothingTold, Withheld
    <2>3. \A round \in Rounds, b \in SetupBots : ~Read(round, b) /\ ~Read(round, b)'
        BY <1>3 DEF Read, After, Rounds
    <2>4. FactsRight' = FactsRight /\ botHost' = botHost
        BY <1>3 DEF FactsRight
    <2>5. check.found = {} /\ entries = {} <=> check'.found = {}
        BY <1>3
    <2>6. check.quiet => (check'.found = {} <=> RightSoFar')
        BY <1>0, <1>3, <2>3, <2>4, <2>5 DEF FoundSoFar, RightSoFar
    <2>7. "state" \in Rounds
        BY DEF Rounds
    <2>8. check.quiet => \A b \in SetupBots : b \notin check'.joined
        BY <1>0, <1>3, <2>3, <2>7 DEF FoundSoFar
    <2>9. FoundSoFar'
        BY <1>3, <2>3, <2>6, <2>7, <2>8 DEF FoundSoFar
    <2>10. QED
        BY <2>1, <2>2, <2>9 DEF SetupInv
  <1>4. CASE ReadFacts
    <2> DEFINE stack == [kind |-> "network-stack"]
               left(u) == [kind |-> "unexpected", unit |-> u]
               image == [kind |-> "missing", unit |-> "image"]
               entries == (IF botHost.stack THEN {} ELSE {stack}) \cup {left(u) : u \in botHost.leftovers}
                          \cup (IF botHost.image THEN {} ELSE {image})
    <2>1. /\ DOMAIN check' = CheckFields /\ check.at = "facts" /\ check'.at = "units"
          /\ check'.found = check.found \cup entries /\ check'.joined = check.joined /\ check'.rows = check.rows
          /\ check'.quiet = check.quiet /\ check'.todo = check.todo
        BY <1>0, <1>4 DEF ReadFacts, CheckFields, SetupTypes
    <2>2. Withheld(stack) /\ Withheld(image) /\ \A u : Withheld(left(u))
        BY DEF Withheld
    <2> HIDE DEF stack, left, image
    <2>3. \A d \in entries : Withheld(d)
        BY <2>2
    <2>4. entries = {} <=> FactsRight
        BY DEF FactsRight
    <2> HIDE DEF entries
    <2>5. UNCHANGED <<botHost, disk, saved>> /\ check'.todo \subseteq SetupBots
        BY <1>0, <1>4, <2>1 DEF ReadFacts, ChangesNothing, SetupTypes
    <2>6. QED
        BY <1>3, <2>1, <2>3, <2>4, <2>5
  <1>5. CASE ReadUnits
    <2> DEFINE entry == [kind |-> botHost.units, unit |-> "template"]
               entries == IF botHost.units = "same" THEN {} ELSE {entry}
    <2>1. /\ DOMAIN check' = CheckFields /\ check.at = "units" /\ check'.at = "state"
          /\ check'.found = check.found \cup entries /\ check'.joined = check.joined /\ check'.rows = check.rows
          /\ check'.quiet = check.quiet /\ check'.todo = SetupBots
        BY <1>0, <1>5 DEF ReadUnits, CheckFields, SetupTypes
    <2>2. Withheld(entry)
        BY <1>0 DEF Withheld, SetupTypes
    <2> HIDE DEF entry
    <2>3. (\A d \in entries : Withheld(d)) /\ (entries = {} <=> botHost.units = "same")
        BY <2>2
    <2> HIDE DEF entries
    <2>4. UNCHANGED <<botHost, disk, saved>>
        BY <1>5 DEF ReadUnits, ChangesNothing
    <2>5. QED
        BY <1>3, <2>1, <2>3, <2>4
  <1>6. CASE EndCheck
    <2>1. /\ DOMAIN check' = CheckFields /\ check.at = "end" /\ check'.at = "done" /\ check'.found = check.found
          /\ check'.joined = check.joined /\ check'.rows = check.rows /\ check'.quiet = check.quiet
          /\ check'.todo = check.todo /\ UNCHANGED <<botHost, disk>>
        BY <1>0, <1>6 DEF EndCheck, CheckFields, SetupTypes
    <2>2. saved' \in [SetupBots -> Rows]
      <3>1. ASSUME NEW b \in SetupBots
            PROVE  [saved[b] EXCEPT !.named = @ \/ b \in check.seen,
                                    !.status = IF b \in check.failed /\ @ = "running" THEN "error" ELSE @] \in Rows
        <4>1. saved[b] \in Rows
            BY <1>0 DEF SetupTypes
        <4>2. PICK n \in BOOLEAN : n = (saved[b].named \/ b \in check.seen)
            OBVIOUS
        <4>3. PICK st \in {"running", "stopped", "error"} :
                  st = IF b \in check.failed /\ saved[b].status = "running" THEN "error" ELSE saved[b].status
            BY <4>1 DEF Rows
        <4>4. [saved[b] EXCEPT !.named = n, !.status = st] \in Rows
            BY <4>1 DEF Rows
        <4>5. QED
            BY <4>2, <4>3, <4>4
      <3>2. QED
          BY <1>6, <3>1 DEF EndCheck
    <2>3. SetupTypes'
        BY <1>0, <2>1, <2>2 DEF SetupTypes
    <2>4. \A round \in Rounds, b \in SetupBots : Read(round, b)' <=> Read(round, b)
        BY <2>1 DEF Read, After, Rounds
    <2>5. \A round \in Rounds, b \in SetupBots : Right(round, b)' <=> Right(round, b)
        BY <2>1 DEF Right, Rounds, StateRight, ConfigRight, LiveRight, Observed, LooksStuck, Says, FileDrift, ConfigDriftOf
    <2>6. RightSoFar' <=> RightSoFar
        BY <2>1, <2>4, <2>5 DEF RightSoFar, FactsRight
    <2>7. \A b \in SetupBots : Joined(b)' <=> Joined(b)
        BY <2>1 DEF Joined, SawJoin
    <2>8. "state" \in Rounds
        BY DEF Rounds
    <2>9. FoundSoFar'
        BY <1>0, <2>1, <2>4, <2>6, <2>7, <2>8 DEF FoundSoFar
    <2>10. NothingTold'
        BY <1>0, <2>1 DEF NothingTold, Withheld
    <2>11. QED
        BY <2>3, <2>9, <2>10 DEF SetupInv
  <1>7. QED
      BY <1>1, <1>2, <1>4, <1>5, <1>6

-----------------------------------------------------------------------------
\* What the four readings of a bot ask together is that it is as its row says (desiredStateIsSatisfied,
\* silentLiveControl, compareInstanceConfig).
LEMMA RightIsMatching ==
    ASSUME SetupTypes, NEW b \in SetupBots, b \in check.joined <=> Joined(b)
    PROVE  (\A round \in Rounds : Right(round, b)) <=> BotMatches(b, check.rows[b])
  <1> DEFINE rec == check.rows[b]
  <1>1. disk[b].unit \in Units
      BY DEF SetupTypes, Disks
  <1>2. (\A round \in Rounds : Right(round, b)) <=>
            StateRight(b) /\ ConfigRight(b) /\ disk[b].env /\ LiveRight(b)
      BY DEF Right, Rounds
  <1>3. ConfigRight(b) <=>
            /\ rec.readable /\ disk[b].file = "there" /\ ~disk[b].sections
            /\ \A k \in AllKeys : /\ disk[b].config[k] # Unreadable
                                  /\ RenderInstanceConfig(rec)[k] # NotThere => disk[b].config[k] = RenderInstanceConfig(rec)[k]
      BY DriftOfFile DEF ConfigRight
  <1>4. StateRight(b) <=>
            /\ rec.status = "running" => /\ disk[b].unit \in {"active", "activating"}
                                         /\ disk[b].unit = "active" => ~LooksStuck(b)
            /\ rec.status = "stopped" => disk[b].unit = "inactive"
      BY <1>1 DEF StateRight, DesiredStateIsSatisfied, Observed, Units
  <1>5. LiveRight(b) <=>
            (disk[b].unit = "active" /\ rec.status = "running" /\ SawJoin(b) /\ rec.readable /\ rec.live => disk[b].listening)
      BY DEF LiveRight, Joined
  <1> DEFINE right == RenderInstanceConfig(rec)
             exact == \A k \in AllKeys : /\ disk[b].config[k] # Unreadable
                                         /\ right[k] # NotThere => disk[b].config[k] = right[k]
  <1>6. BotMatches(b, rec) <=>
            /\ rec.readable /\ disk[b].file = "there" /\ ~disk[b].sections /\ disk[b].env /\ exact
            /\ rec.status = "running" => /\ disk[b].unit \in {"active", "activating"}
                                         /\ disk[b].unit = "active" => ~LooksStuck(b)
                                         /\ disk[b].unit = "active" /\ rec.live /\ SawJoin(b) => disk[b].listening
            /\ rec.status = "stopped" => disk[b].unit = "inactive"
      BY DEF BotMatches
  <1>7. ConfigRight(b) <=> rec.readable /\ disk[b].file = "there" /\ ~disk[b].sections /\ exact
      BY <1>3
  <1> HIDE DEF exact
  <1>8. QED
      BY <1>2, <1>4, <1>5, <1>6, <1>7

\* In every reachable state: a check nobody disturbed says "converged" exactly when the host is as saved, whatever is
\* wrong with it; and no check tells a secret or a setting of the operator's (reconcileHost, toPublicDrift).
THEOREM ChecksAreHonest == SetupSpec => []CheckIsHonest
  <1>1. SetupInit => SetupInv
    <2> SUFFICES ASSUME SetupInit PROVE SetupInv
        OBVIOUS
    <2>1. saved \in [SetupBots -> Rows]
      <3>1. [k \in AllKeys |-> IF k \in Managed THEN "default" ELSE NotThere] \in [AllKeys -> Values \cup {NotThere}]
          BY DEF Values
      <3> DEFINE settings == [k \in AllKeys |-> IF k \in Managed THEN "default" ELSE NotThere]
      <3> HIDE DEF settings
      <3>2. [status |-> "running", live |-> FALSE, named |-> FALSE, readable |-> TRUE, settings |-> settings] \in Rows
          BY <3>1 DEF Rows, settings
      <3>3. QED
          BY <3>2 DEF SetupInit, settings
    <2>2. disk \in [SetupBots -> Disks]
      <3>1. ASSUME NEW b \in SetupBots
            PROVE  [config |-> RenderInstanceConfig(saved[b]), file |-> "there", sections |-> FALSE, env |-> TRUE,
                    unit |-> "active", journal |-> {}, listening |-> FALSE] \in Disks
        <4>1. ASSUME NEW c \in [AllKeys -> Found]
              PROVE  [config |-> c, file |-> "there", sections |-> FALSE, env |-> TRUE,
                      unit |-> "active", journal |-> {}, listening |-> FALSE] \in Disks
            BY DEF Disks, Units
        <4>2. RenderInstanceConfig(saved[b]) \in [AllKeys -> Found]
            BY <2>1, Renders
        <4>3. QED
            BY <4>1, <4>2
      <3>2. QED
          BY <3>1 DEF SetupInit
    <2>3. DOMAIN check = CheckFields /\ check.todo = {} /\ check.found = {} /\ check.at = "never"
        BY DEF SetupInit, CheckFields
    <2>4. SetupTypes
        BY <2>1, <2>2, <2>3 DEF SetupInit, SetupTypes
    <2>5. QED
        BY <2>3, <2>4 DEF SetupInv, FoundSoFar, NothingTold
  <1>2. SetupInv /\ [SetupNext]_setupVars => SetupInv'
    <2> SUFFICES ASSUME SetupInv, [SetupNext]_setupVars PROVE SetupInv'
        OBVIOUS
    <2>1. CASE SetupNext
        BY <2>1, CheckSteps, RoundSteps, OthersStep DEF SetupNext
    <2>2. CASE UNCHANGED setupVars
      <3>1. UNCHANGED <<botHost, disk, saved, check>>
          BY <2>2 DEF setupVars
      <3>2. SetupTypes' /\ NothingTold'
          BY <3>1 DEF SetupInv, SetupTypes, NothingTold, Withheld
      <3>3. RightSoFar' = RightSoFar
          BY <3>1 DEF RightSoFar, FactsRight, Read, Right, StateRight, ConfigRight, LiveRight, Observed, LooksStuck,
                      Says, FileDrift, ConfigDriftOf
      <3>4. FoundSoFar'
          BY <3>1, <3>3 DEF SetupInv, FoundSoFar, Read, Joined, SawJoin
      <3>5. QED
          BY <3>2, <3>4 DEF SetupInv
    <2>3. QED
        BY <2>1, <2>2
  <1>3. SetupInv => CheckIsHonest
    <2> SUFFICES ASSUME SetupInv PROVE CheckIsHonest
        OBVIOUS
    <2>1. ASSUME check.at = "done", check.quiet
          PROVE  check.found = {} <=> MachineMatches /\ \A b \in SetupBots : BotMatches(b, check.rows[b])
      <3>1. \A round \in Rounds, b \in SetupBots : Read(round, b)
          BY <2>1 DEF Read, After, Rounds
      <3>2. "state" \in Rounds
          BY DEF Rounds
      <3>3. /\ check.found = {} <=> RightSoFar
            /\ \A b \in SetupBots : b \in check.joined <=> Joined(b)
          BY <2>1, <3>1, <3>2 DEF SetupInv, FoundSoFar
      <3>4. \A b \in SetupBots : (\A round \in Rounds : Right(round, b)) <=> BotMatches(b, check.rows[b])
          BY <3>3, RightIsMatching DEF SetupInv
      <3>5. MachineMatches <=> FactsRight /\ botHost.units = "same"
        <4>1. /\ botHost \in [units : {"same", "missing", "differs"}, leftovers : SUBSET {"timer", "container"},
                              image : BOOLEAN, stack : BOOLEAN]
            BY DEF SetupInv, SetupTypes
        <4>2. QED
            BY <4>1 DEF MachineMatches, FactsRight
      <3>6. RightSoFar <=> FactsRight /\ botHost.units = "same" /\ \A round \in Rounds, b \in SetupBots : Right(round, b)
          BY <2>1, <3>1 DEF RightSoFar
      <3>7. QED
          BY <3>3, <3>4, <3>5, <3>6
    <2>2. \A d \in check.found : d.kind \in {"managed", "fixed", "operator"} /\ d.key \in SecretKeys \cup Operated
                                   => d.actual \in {NotThere, "something else"}
        BY DEF SetupInv, NothingTold, Withheld
    <2>3. QED
        BY <2>1, <2>2 DEF CheckIsHonest
  <1>4. QED
      BY <1>1, <1>2, <1>3, PTL DEF SetupSpec

-----------------------------------------------------------------------------
(***************************************************************************)
(* HostReachability, for any polls, thresholds, faults and restarts.  A poll *)
(* records one answer at most, of the moment it began; the condition is borne *)
(* out by the checks, and the last alerting event is of the latest incident, *)
(* open exactly while the host is down.  What the bars add up to follows.  *)
(***************************************************************************)
HostStates == {"up", "suspect", "down"}
Instants == Nat \cup {NotYet}
Intervals == [state : HostStates, startedAt : Nat, endedAt : Nat \cup {Open}]
HostEvents ==
    [kind : {"host.recovered", "host.check_recovered", "host.unreachable", "host.check_failed"}, at : Nat, incident : Nat]
Conditions == [state : HostStates, startedAt : Nat, lastObservedAt : Nat, failureStartedAt : Instants, incident : Nat]

ReachTypes ==
    /\ clockNow \in Nat /\ lastPoll \in Nat /\ lastSeenAt \in Instants /\ hostThere \in BOOLEAN
    /\ polling \in {"off", "idle", "answered", "seen", "failed"}
    /\ condition \in {Unobserved} \cup Conditions
    /\ intervals \in Seq(Intervals) /\ hostEvents \in Seq(HostEvents) /\ incidentsMade \in Nat
    /\ observed \subseteq [at : Nat, reached : BOOLEAN] /\ answeredAt \subseteq Nat

\* A poll records one answer at most, of the moment it began.
Polling ==
    /\ lastPoll <= clockNow /\ \A o \in observed : o.at <= lastPoll
    /\ polling \in {"answered", "seen", "failed"} => lastPoll = clockNow /\ \A o \in observed : o.at < clockNow
    /\ polling \in {"answered", "seen"} => clockNow \in answeredAt
    /\ lastSeenAt # NotYet => lastSeenAt \in answeredAt
    /\ \A o, p \in observed : o.at = p.at => o = p

\* The condition beside the checks.
CheckedSo ==
    condition # Unobserved =>
        /\ \E o \in observed : o.at = condition.lastObservedAt /\ (o.reached <=> condition.state = "up")
        /\ \A o \in observed : o.at <= condition.lastObservedAt
        /\ condition.state # "up" =>
             /\ [at |-> condition.failureStartedAt, reached |-> FALSE] \in observed
             /\ ~\E o \in observed : o.reached /\ o.at > condition.failureStartedAt
             /\ condition.state = "down" <=> condition.lastObservedAt - condition.failureStartedAt >= SuspectToDown

\* The outages beside the condition: the last alerting event, if there is one, is of the latest incident, and opened
\* it exactly when the host is down.
LastAlert(j) ==
    /\ j \in 0..Len(hostEvents) /\ QuietBetween(j, Len(hostEvents) + 1)
    /\ j = 0 => incidentsMade = 0
    /\ j > 0 => Alerting(j) /\ hostEvents[j].incident = incidentsMade
Incidents ==
    hostThere =>
        /\ condition = Unobserved => hostEvents = <<>> /\ incidentsMade = 0
        /\ condition # Unobserved =>
             /\ condition.incident = IF condition.state = "down" THEN incidentsMade ELSE NoIncident
             /\ condition.state = "down" => incidentsMade > 0
             /\ \E j \in 0..Len(hostEvents) :
                  LastAlert(j) /\ (j > 0 => (hostEvents[j].kind = "host.unreachable" <=> condition.state = "down"))

ReachInv == ReachTypes /\ Polling /\ OneTimeline /\ CheckedSo /\ Incidents /\ OutagesPairUp

-----------------------------------------------------------------------------
(* What a check decides (nextReachability). *)
Decides(reached) == IF reached THEN Reached ELSE Unreached
Kinds == {"host.recovered", "host.check_recovered", "host.unreachable", "host.check_failed"}

LEMMA Conditioned ==
    ASSUME ReachTypes
    PROVE  /\ condition = Unobserved <=> condition.state = "unknown"
           /\ condition # Unobserved => condition \in Conditions /\ condition.state \in HostStates
PROOF BY DEF ReachTypes, Unobserved, Conditions, HostStates

\* A check that reached the host makes it up, and is a change if it was not.
LEMMA DecidesUp ==
    /\ Reached.state = "up" /\ Reached.failureStartedAt = NotYet
    /\ Reached.changed <=> condition.state # "up"
    /\ Reached.event \in {"host.recovered", "host.check_recovered", "none"}
    /\ Reached.event = "host.recovered" <=> condition.state = "down"
    /\ Reached.event = "host.check_recovered" <=> condition.state = "suspect"
PROOF
<1>1. PICK changed : changed = (condition.state # "up")  OBVIOUS
<1>2. Reached.changed = changed  BY <1>1 DEF Reached
<1>3. (Reached.changed) <=> (condition.state # "up")  BY <1>1, <1>2, Zenon
<1>4. Reached.state = "up" /\ Reached.failureStartedAt = NotYet  BY DEF Reached
<1>5. PICK event : event = CASE condition.state = "down" -> "host.recovered"
                            [] condition.state = "suspect" -> "host.check_recovered"
                            [] OTHER -> "none"  OBVIOUS
<1>6. Reached.event = event  BY <1>5 DEF Reached
<1>7. /\ event \in {"host.recovered", "host.check_recovered", "none"}
      /\ event = "host.recovered" <=> condition.state = "down"
      /\ event = "host.check_recovered" <=> condition.state = "suspect"  BY <1>5
<1> QED  BY <1>3, <1>4, <1>6, <1>7

\* One that did not makes it down once the failure is old enough, and suspect until then.
LEMMA DecidesNotUp ==
    ASSUME ReachabilityAssumption, ReachTypes, Polling, CheckedSo, polling = "failed"
    PROVE  /\ Unreached.state \in {"suspect", "down"} /\ Unreached.changed \in BOOLEAN
           /\ Unreached.changed <=> condition.state # Unreached.state
           /\ Unreached.event \in {"host.unreachable", "host.check_failed", "none"}
           /\ Unreached.event = "host.unreachable" <=> condition.state # "down" /\ Unreached.state = "down"
           /\ Unreached.event = "host.check_failed" <=> condition.state # "suspect" /\ Unreached.state = "suspect"
           /\ Unreached.failureStartedAt \in Nat /\ Unreached.failureStartedAt <= clockNow
           /\ \/ Unreached.failureStartedAt = clockNow
              \/ condition.state \in {"suspect", "down"} /\ Unreached.failureStartedAt = condition.failureStartedAt
           /\ condition.state = Unreached.state => Unreached.failureStartedAt = condition.failureStartedAt
           /\ Unreached.state = "down" <=> clockNow - Unreached.failureStartedAt >= SuspectToDown
           /\ condition.state = "down" => Unreached.state = "down"
PROOF
<1>1. clockNow \in Nat /\ SuspectToDown \in Nat  BY DEF ReachTypes, ReachabilityAssumption
<1>2. ASSUME condition.state \in {"suspect", "down"}
      PROVE  /\ condition.failureStartedAt \in Nat /\ condition.failureStartedAt <= clockNow
             /\ condition.lastObservedAt \in Nat /\ condition.lastObservedAt <= clockNow
             /\ condition.state = "down" <=> condition.lastObservedAt - condition.failureStartedAt >= SuspectToDown
  <2>1. condition # Unobserved /\ condition.state # "up"  BY <1>2, Conditioned
  <2>2. condition \in Conditions  BY <2>1, Conditioned
  <2>3. [at |-> condition.failureStartedAt, reached |-> FALSE] \in observed  BY <2>1 DEF CheckedSo
  <2>4. [at |-> condition.failureStartedAt, reached |-> FALSE].at < clockNow  BY <2>3 DEF Polling
  <2>5. condition.failureStartedAt \in Nat  BY <2>3 DEF ReachTypes
  <2>6. PICK o \in observed : o.at = condition.lastObservedAt  BY <2>1 DEF CheckedSo
  <2>7. o.at < clockNow  BY DEF Polling
  <2> QED  BY <2>1, <2>2, <2>4, <2>5, <2>6, <2>7, <1>1 DEF CheckedSo, Conditions
<1>3. CASE condition.state = "down"
  <2>1. Unreached = [state |-> "down", failureStartedAt |-> condition.failureStartedAt, changed |-> FALSE, event |-> "none"]
    BY <1>3 DEF Unreached
  <2> QED  BY <1>1, <1>2, <1>3, <2>1
<1>4. CASE condition.state # "down" /\ clockNow - FailingSince >= SuspectToDown
  <2>0. ~(clockNow - FailingSince < SuspectToDown)  BY <1>1, <1>2, <1>4 DEF FailingSince
  <2>1. Unreached = [state |-> "down", failureStartedAt |-> FailingSince, changed |-> TRUE, event |-> "host.unreachable"]
    BY <1>4, <2>0 DEF Unreached
  <2>2. CASE condition.state = "suspect"
    <3>1. FailingSince = condition.failureStartedAt  BY <2>2 DEF FailingSince
    <3>2. condition.failureStartedAt \in Nat /\ condition.failureStartedAt <= clockNow  BY <1>2, <2>2
    <3> QED  BY <1>1, <1>4, <2>1, <2>2, <3>1, <3>2
  <2>3. CASE condition.state # "suspect"
    <3>1. FailingSince = clockNow  BY <2>3 DEF FailingSince
    <3> QED  BY <1>1, <1>4, <2>1, <2>3, <3>1
  <2> QED  BY <2>2, <2>3
<1>5. CASE condition.state = "suspect" /\ clockNow - FailingSince < SuspectToDown
  <2>1. ~(clockNow - FailingSince >= SuspectToDown)  BY <1>1, <1>2, <1>5 DEF FailingSince
  <2>2. Unreached = [state |-> "suspect", failureStartedAt |-> FailingSince, changed |-> FALSE, event |-> "none"]
    BY <1>5, <2>1 DEF Unreached
  <2> QED  BY <1>1, <1>2, <1>5, <2>1, <2>2 DEF FailingSince
<1>6. CASE condition.state \notin {"down", "suspect"} /\ ~(clockNow - FailingSince >= SuspectToDown)
  <2>1. Unreached = [state |-> "suspect", failureStartedAt |-> FailingSince, changed |-> TRUE, event |-> "host.check_failed"]
    BY <1>6 DEF Unreached
  <2> QED  BY <1>1, <1>6, <2>1 DEF FailingSince
<1> QED  BY <1>1, <1>2, <1>3, <1>4, <1>5, <1>6 DEF FailingSince

-----------------------------------------------------------------------------
(* What recording a check does to each part (recordHostReachability). *)
Recording(reached) ==
    /\ polling = (IF reached THEN "seen" ELSE "failed") /\ polling' = "idle"
    /\ RecordHostReachability(reached)
    /\ UNCHANGED <<clockNow, hostThere, lastPoll, lastSeenAt, answeredAt>>

\* In short: what a check decides, whichever way it went.
LEMMA Decided ==
    ASSUME ReachabilityAssumption, ReachInv, NEW reached \in BOOLEAN, Recording(reached)
    PROVE  /\ Decides(reached).state \in HostStates
           /\ Decides(reached).changed <=> condition.state # Decides(reached).state
           /\ Decides(reached).event \in Kinds \cup {"none"}
           /\ Decides(reached).event # "none" => Decides(reached).changed
           /\ Decides(reached).event = "host.unreachable" <=> condition.state # "down" /\ Decides(reached).state = "down"
           /\ Decides(reached).event = "host.recovered" <=> condition.state = "down" /\ Decides(reached).state = "up"
           /\ Decides(reached).failureStartedAt \in Instants
           /\ Decides(reached).state = "up" <=> reached
           /\ condition.state = "down" => Decides(reached).state \in {"up", "down"}
           /\ condition.state = Decides(reached).state /\ ~reached => Decides(reached).failureStartedAt = condition.failureStartedAt
PROOF
<1>1. CASE reached
  <2>1. Decides(reached) = Reached  BY <1>1 DEF Decides
  <2> QED  BY <1>1, <2>1, DecidesUp DEF HostStates, Instants, Kinds
<1>2. CASE ~reached
  <2>1. Decides(reached) = Unreached  BY <1>2 DEF Decides
  <2>2. polling = "failed" /\ ReachTypes /\ Polling /\ CheckedSo  BY <1>2 DEF Recording, ReachInv
  <2> QED  BY <1>2, <2>1, <2>2, DecidesNotUp DEF HostStates, Instants, Kinds
<1> QED  BY <1>1, <1>2

LEMMA ConditionRecorded ==
    ASSUME ReachabilityAssumption, ReachInv, NEW reached \in BOOLEAN, Recording(reached)
    PROVE  /\ condition' \in Conditions /\ condition'.state = Decides(reached).state
           /\ condition'.lastObservedAt = clockNow
           /\ ~reached => condition'.failureStartedAt = Decides(reached).failureStartedAt
           /\ condition'.incident = IF Decides(reached).changed THEN IncidentAfter(Decides(reached).state) ELSE condition.incident
           /\ incidentsMade' \in Nat
           /\ incidentsMade' = IF Decides(reached).event = "host.unreachable" THEN incidentsMade + 1 ELSE incidentsMade
           /\ condition.state # "down" => ActiveIncident = NoIncident
           /\ condition.state = "down" => ActiveIncident = incidentsMade /\ incidentsMade > 0
PROOF
<1> DEFINE d == Decides(reached)
<1>1. ReachTypes /\ Polling /\ CheckedSo /\ Incidents  BY DEF ReachInv
<1>2. hostThere /\ (IF d.changed THEN ChangeCondition(d) ELSE TouchCondition)
  BY DEF Recording, RecordHostReachability, Decides
<1>3. /\ d.state \in HostStates /\ d.failureStartedAt \in Instants
      /\ d.changed <=> condition.state # d.state
      /\ d.event = "host.unreachable" <=> condition.state # "down" /\ d.state = "down"
      /\ condition.state = "down" => d.state \in {"up", "down"}
      /\ condition.state = d.state /\ ~reached => d.failureStartedAt = condition.failureStartedAt
  BY Decided
<1>4. /\ condition.state # "down" => ActiveIncident = NoIncident
      /\ condition.state = "down" => ActiveIncident = incidentsMade /\ incidentsMade > 0
  BY <1>1, <1>2, Conditioned DEF Incidents, ActiveIncident, NoIncident, Unobserved
<1>5. clockNow \in Nat /\ incidentsMade \in Nat  BY <1>1 DEF ReachTypes
<1> HIDE DEF d
<1>6. CASE d.changed
  <2>1. /\ condition' = [state |-> d.state, startedAt |-> clockNow, lastObservedAt |-> clockNow,
                          failureStartedAt |-> d.failureStartedAt, incident |-> IncidentAfter(d.state)]
        /\ incidentsMade' = Max({incidentsMade, IncidentAfter(d.state)})
    BY <1>2, <1>6 DEF ChangeCondition
  <2>2. /\ IncidentAfter(d.state) \in Nat
        /\ d.state = "down" => IncidentAfter(d.state) = incidentsMade + 1
        /\ d.state # "down" => IncidentAfter(d.state) = NoIncident
    BY <1>3, <1>4, <1>5, <1>6 DEF IncidentAfter, NoIncident, HostStates
  <2>3. \A i \in Nat : Max({incidentsMade, i}) = IF i > incidentsMade THEN i ELSE incidentsMade  BY <1>5 DEF Max
  <2>4. incidentsMade' = IF d.state = "down" THEN incidentsMade + 1 ELSE incidentsMade
    BY <1>5, <2>1, <2>2, <2>3 DEF NoIncident
  <2> QED  BY <1>3, <1>4, <1>5, <1>6, <2>1, <2>2, <2>4 DEF Conditions, d
<1>7. CASE ~d.changed
  <2>1. condition' = [condition EXCEPT !.lastObservedAt = clockNow] /\ incidentsMade' = incidentsMade
    BY <1>2, <1>7 DEF TouchCondition
  <2>2. condition \in Conditions  BY <1>1, <1>3, <1>7, Conditioned DEF HostStates
  <2> QED  BY <1>3, <1>4, <1>5, <1>7, <2>1, <2>2 DEF Conditions, d
<1> QED  BY <1>6, <1>7

-----------------------------------------------------------------------------
(* What recording a check keeps. *)

LEMMA KeepsPolling ==
    ASSUME ReachabilityAssumption, ReachInv, NEW reached \in BOOLEAN, Recording(reached)
    PROVE  /\ Polling' /\ observed' \subseteq [at : Nat, reached : BOOLEAN]
           /\ [at |-> clockNow, reached |-> reached] \in observed'
           /\ \A o \in observed : o \in observed'
           /\ \A o \in observed' : o = [at |-> clockNow, reached |-> reached] \/ (o \in observed /\ o.at < clockNow)
PROOF
<1>1. ReachTypes /\ Polling  BY DEF ReachInv
<1>2. observed' = observed \cup {[at |-> clockNow, reached |-> reached]}  BY DEF Recording, RecordHostReachability
<1>3. polling \in {"seen", "failed"}  BY DEF Recording
<1>4. lastPoll = clockNow /\ \A o \in observed : o.at < clockNow  BY <1>1, <1>3 DEF Polling
<1>5. clockNow \in Nat /\ observed \subseteq [at : Nat, reached : BOOLEAN]  BY <1>1 DEF ReachTypes
<1>6. \A o \in observed' : o = [at |-> clockNow, reached |-> reached] \/ (o \in observed /\ o.at < clockNow)
  BY <1>2, <1>4
<1>7. [at |-> clockNow, reached |-> reached].at = clockNow  OBVIOUS
<1>8. \A o \in observed' : o.at <= clockNow  BY <1>4, <1>5, <1>6
<1>9. \A o, p \in observed' : o.at = p.at => o = p
  <2> SUFFICES ASSUME NEW o \in observed', NEW p \in observed', o.at = p.at PROVE o = p  OBVIOUS
  <2>1. CASE o \in observed /\ p \in observed  BY <1>1, <2>1 DEF Polling
  <2>2. CASE o \notin observed \/ p \notin observed  BY <1>4, <1>5, <1>6, <1>7, <2>2
  <2> QED  BY <2>1, <2>2
<1> QED  BY <1>1, <1>2, <1>4, <1>5, <1>6, <1>8, <1>9 DEF Polling, Recording

LEMMA KeepsFollows ==
    ASSUME ReachabilityAssumption, ReachInv, NEW reached \in BOOLEAN, Recording(reached)
    PROVE  CheckedSo'
PROOF
<1> DEFINE d == Decides(reached)
           now == [at |-> clockNow, reached |-> reached]
<1>1. ReachTypes /\ Polling /\ CheckedSo /\ clockNow' = clockNow  BY DEF ReachInv, Recording
<1>2. /\ condition'.state = d.state /\ condition'.lastObservedAt = clockNow
      /\ ~reached => condition'.failureStartedAt = d.failureStartedAt
  BY ConditionRecorded
<1>3. d.state = "up" <=> reached  BY Decided
<1>4. /\ now \in observed' /\ \A o \in observed : o \in observed'
      /\ \A o \in observed' : o = now \/ (o \in observed /\ o.at < clockNow)
      /\ Polling'
  BY KeepsPolling
<1>5. clockNow \in Nat  BY <1>1 DEF ReachTypes
<1>6. now.at = clockNow /\ now.reached = reached  OBVIOUS
<1> HIDE DEF now, d
<1>7. \E o \in observed' : o.at = condition'.lastObservedAt /\ (o.reached <=> condition'.state = "up")
  BY <1>2, <1>3, <1>4, <1>6
<1>8. \A o \in observed' : o.at <= condition'.lastObservedAt  BY <1>1, <1>2, <1>4, <1>5, <1>6 DEF ReachTypes
<1>9. ASSUME ~reached
      PROVE  /\ [at |-> condition'.failureStartedAt, reached |-> FALSE] \in observed'
             /\ ~\E o \in observed' : o.reached /\ o.at > condition'.failureStartedAt
             /\ condition'.state = "down" <=> condition'.lastObservedAt - condition'.failureStartedAt >= SuspectToDown
  <2>1. d = Unreached /\ polling = "failed"  BY <1>9 DEF d, Decides, Recording
  <2>2. /\ d.failureStartedAt \in Nat /\ d.failureStartedAt <= clockNow
        /\ \/ d.failureStartedAt = clockNow
           \/ condition.state \in {"suspect", "down"} /\ d.failureStartedAt = condition.failureStartedAt
        /\ d.state = "down" <=> clockNow - d.failureStartedAt >= SuspectToDown
    BY <1>1, <2>1, DecidesNotUp
  <2>3. condition'.failureStartedAt = d.failureStartedAt  BY <1>2, <1>9
  <2>4. ~now.reached  BY <1>6, <1>9
  <2>5. CASE d.failureStartedAt = clockNow
    <3>1. now = [at |-> clockNow, reached |-> FALSE]  BY <1>9 DEF now
    <3> QED  BY <1>1, <1>2, <1>4, <1>5, <2>2, <2>3, <2>4, <2>5, <3>1 DEF ReachTypes
  <2>6. CASE condition.state \in {"suspect", "down"} /\ d.failureStartedAt = condition.failureStartedAt
    <3>1. /\ [at |-> condition.failureStartedAt, reached |-> FALSE] \in observed
          /\ ~\E o \in observed : o.reached /\ o.at > condition.failureStartedAt
      BY <1>1, <2>6, Conditioned DEF CheckedSo
    <3> QED  BY <1>2, <1>4, <2>2, <2>3, <2>4, <2>6, <3>1
  <2> QED  BY <2>2, <2>5, <2>6
<1> QED  BY <1>2, <1>3, <1>7, <1>8, <1>9 DEF CheckedSo

LEMMA KeepsTimeline ==
    ASSUME ReachabilityAssumption, ReachInv, NEW reached \in BOOLEAN, Recording(reached)
    PROVE  OneTimeline' /\ intervals' \in Seq(Intervals)
PROOF
<1> DEFINE d == Decides(reached)
<1>1. ReachTypes /\ OneTimeline  BY DEF ReachInv
<1>2. IF d.changed THEN ChangeCondition(d) ELSE TouchCondition
  BY DEF Recording, RecordHostReachability, Decides
<1>3. d.state \in HostStates /\ (d.changed <=> condition.state # d.state)  BY Decided
<1>4. condition' \in Conditions /\ condition'.state = d.state  BY ConditionRecorded
<1>5. condition' # Unobserved  BY <1>4 DEF Conditions, HostStates, Unobserved
<1>6. clockNow \in Nat /\ intervals \in Seq(Intervals)  BY <1>1 DEF ReachTypes
<1> HIDE DEF d
<1>7. CASE d.changed
  <2> DEFINE latest == [state |-> d.state, startedAt |-> clockNow, endedAt |-> Open]
  <2>1. intervals' = Append(CloseOpenInterval, latest) /\ condition'.startedAt = clockNow
    BY <1>2, <1>7 DEF ChangeCondition
  <2>2. latest \in Intervals  BY <1>3, <1>6 DEF Intervals
  <2>3. latest.state = d.state /\ latest.startedAt = clockNow /\ latest.endedAt = Open  OBVIOUS
  <2> HIDE DEF latest
  <2>4. CASE intervals = <<>>
    <3>1. intervals' = <<latest>>  BY <2>1, <2>4 DEF CloseOpenInterval
    <3> QED  BY <1>4, <1>5, <2>1, <2>2, <2>3, <3>1 DEF OneTimeline
  <2>5. CASE intervals # <<>>
    <3> DEFINE n == Len(intervals)
    <3>1. n \in Nat \ {0}  BY <1>6, <2>5
    <3>2. CloseOpenInterval = [intervals EXCEPT ![n].endedAt = clockNow]  BY <2>5 DEF CloseOpenInterval
    <3>3. intervals[n] \in Intervals  BY <1>6, <3>1
    <3>4. [intervals[n] EXCEPT !.endedAt = clockNow] \in Intervals  BY <1>6, <3>3 DEF Intervals
    <3>5. CloseOpenInterval \in Seq(Intervals) /\ Len(CloseOpenInterval) = n  BY <1>6, <3>1, <3>2, <3>4
    <3>6. /\ \A k \in 1..n : k # n => CloseOpenInterval[k] = intervals[k]
          /\ CloseOpenInterval[n].state = intervals[n].state /\ CloseOpenInterval[n].startedAt = intervals[n].startedAt
          /\ CloseOpenInterval[n].endedAt = clockNow
      BY <1>6, <3>1, <3>2, <3>3 DEF Intervals
    <3>7. /\ intervals' \in Seq(Intervals) /\ Len(intervals') = n + 1 /\ intervals'[n + 1] = latest
          /\ \A k \in 1..n : intervals'[k] = CloseOpenInterval[k]
      BY <2>1, <2>2, <3>1, <3>5
    <3>8. intervals[n].state = condition.state  BY <1>1, <2>5 DEF OneTimeline
    <3>9. ASSUME NEW k \in 1..n
          PROVE  intervals'[k].endedAt = intervals'[k + 1].startedAt /\ intervals'[k].state # intervals'[k + 1].state
      <4>1. CASE k = n  BY <1>3, <1>7, <2>3, <3>1, <3>6, <3>7, <3>8, <4>1
      <4>2. CASE k # n
        <5>1. k \in 1..(n - 1) /\ k + 1 \in 1..n  BY <3>1, <4>2
        <5>2. intervals[k].endedAt = intervals[k + 1].startedAt /\ intervals[k].state # intervals[k + 1].state
          BY <1>1, <5>1 DEF OneTimeline
        <5>3. intervals'[k] = intervals[k]  BY <3>6, <3>7, <4>2
        <5>4. intervals'[k + 1].startedAt = intervals[k + 1].startedAt /\ intervals'[k + 1].state = intervals[k + 1].state
          BY <3>1, <3>6, <3>7, <5>1
        <5> QED  BY <5>2, <5>3, <5>4
      <4> QED  BY <4>1, <4>2
    <3>10. intervals' # <<>> /\ (n + 1) - 1 = n  BY <3>1, <3>7
    <3> HIDE DEF n
    <3> QED  BY <1>4, <1>5, <2>1, <2>3, <3>7, <3>9, <3>10 DEF OneTimeline
  <2> QED  BY <2>4, <2>5
<1>8. CASE ~d.changed
  <2>1. condition' = [condition EXCEPT !.lastObservedAt = clockNow] /\ intervals' = intervals
    BY <1>2, <1>8 DEF TouchCondition
  <2>2. condition \in Conditions /\ condition # Unobserved  BY <1>1, <1>3, <1>8, Conditioned DEF HostStates
  <2>3. condition'.state = condition.state /\ condition'.startedAt = condition.startedAt  BY <2>1, <2>2 DEF Conditions
  <2> QED  BY <1>1, <1>5, <1>6, <2>1, <2>2, <2>3 DEF OneTimeline
<1> QED  BY <1>7, <1>8

-----------------------------------------------------------------------------
(* The outages. *)

\* What an event appended to the others leaves of what was said of them.
LEMMA AppendQuiet ==
    ASSUME hostEvents \in Seq(HostEvents), NEW e \in HostEvents, hostEvents' = Append(hostEvents, e)
    PROVE  /\ hostEvents' \in Seq(HostEvents) /\ Len(hostEvents') = Len(hostEvents) + 1
           /\ hostEvents'[Len(hostEvents) + 1] = e
           /\ \A k \in 1..Len(hostEvents) : hostEvents'[k] = hostEvents[k] /\ (Alerting(k)' <=> Alerting(k))
           /\ \A j \in 0..Len(hostEvents), k \in 1..(Len(hostEvents) + 1) : QuietBetween(j, k)' <=> QuietBetween(j, k)
           /\ \A n \in {Len(hostEvents) + 1} : Alerting(n)' <=> e.kind \in {"host.unreachable", "host.recovered"}
PROOF
<1>1. Len(hostEvents) \in Nat  OBVIOUS
<1>2. /\ hostEvents' \in Seq(HostEvents) /\ Len(hostEvents') = Len(hostEvents) + 1
      /\ hostEvents'[Len(hostEvents) + 1] = e
      /\ \A k \in 1..Len(hostEvents) : hostEvents'[k] = hostEvents[k]
  OBVIOUS
<1>3. \A k \in 1..Len(hostEvents) : Alerting(k)' <=> Alerting(k)  BY <1>2 DEF Alerting
<1>4. ASSUME NEW j \in 0..Len(hostEvents), NEW k \in 1..(Len(hostEvents) + 1)
      PROVE  QuietBetween(j, k)' <=> QuietBetween(j, k)
  <2>1. \A i \in (j + 1)..(k - 1) : i \in 1..Len(hostEvents)  BY <1>1
  <2> QED  BY <1>3, <2>1 DEF QuietBetween
<1>5. \A n \in {Len(hostEvents) + 1} : Alerting(n)' <=> e.kind \in {"host.unreachable", "host.recovered"}  BY <1>2 DEF Alerting
<1> QED  BY <1>2, <1>3, <1>4, <1>5

\* The outages before an event are told as they were.
LEMMA AppendPairs ==
    ASSUME hostEvents \in Seq(HostEvents), NEW e \in HostEvents, hostEvents' = Append(hostEvents, e),
           OutagesPairUp, NEW k \in 1..Len(hostEvents), Alerting(k)'
    PROVE  \/ /\ QuietBetween(0, k)' /\ hostEvents'[k].kind = "host.unreachable" /\ hostEvents'[k].incident = 1
           \/ \E j \in 1..(k - 1) :
                 /\ Alerting(j)' /\ QuietBetween(j, k)' /\ hostEvents'[j].kind # hostEvents'[k].kind
                 /\ hostEvents'[k].incident = hostEvents'[j].incident
                                               + IF hostEvents'[k].kind = "host.unreachable" THEN 1 ELSE 0
PROOF
<1>1. Len(hostEvents) \in Nat /\ DOMAIN hostEvents = 1..Len(hostEvents)  OBVIOUS
<1>2. /\ \A i \in 1..Len(hostEvents) : hostEvents'[i] = hostEvents[i] /\ (Alerting(i)' <=> Alerting(i))
      /\ \A j \in 0..Len(hostEvents), i \in 1..(Len(hostEvents) + 1) : QuietBetween(j, i)' <=> QuietBetween(j, i)
  BY AppendQuiet
<1>3. Alerting(k) /\ k \in DOMAIN hostEvents  BY <1>1, <1>2
<1>4. CASE QuietBetween(0, k) /\ hostEvents[k].kind = "host.unreachable" /\ hostEvents[k].incident = 1
  <2>1. 0 \in 0..Len(hostEvents) /\ k \in 1..(Len(hostEvents) + 1)  BY <1>1
  <2>2. QuietBetween(0, k)'  BY <1>2, <1>4, <2>1
  <2> QED  BY <1>2, <1>4, <2>2
<1>5. ASSUME NEW j \in 1..(k - 1), Alerting(j), QuietBetween(j, k), hostEvents[j].kind # hostEvents[k].kind,
             hostEvents[k].incident = hostEvents[j].incident + IF hostEvents[k].kind = "host.unreachable" THEN 1 ELSE 0
      PROVE  /\ Alerting(j)' /\ QuietBetween(j, k)' /\ hostEvents'[j].kind # hostEvents'[k].kind
             /\ hostEvents'[k].incident = hostEvents'[j].incident
                                           + IF hostEvents'[k].kind = "host.unreachable" THEN 1 ELSE 0
  <2>1. j \in 1..Len(hostEvents) /\ j \in 0..Len(hostEvents) /\ k \in 1..(Len(hostEvents) + 1)  BY <1>1
  <2>2. QuietBetween(j, k)'  BY <1>2, <1>5, <2>1
  <2> QED  BY <1>2, <1>5, <2>1, <2>2
<1> QED  BY <1>3, <1>4, <1>5 DEF OutagesPairUp

\* An event's incident, and that of the condition it leaves.
LEMMA IncidentOf ==
    ASSUME ReachabilityAssumption, ReachInv, NEW reached \in BOOLEAN, Recording(reached)
    PROVE  /\ EventIncident(Decides(reached).state) \in Nat
           /\ Decides(reached).event = "host.unreachable" => EventIncident(Decides(reached).state) = incidentsMade + 1
           /\ Decides(reached).event = "host.recovered" => EventIncident(Decides(reached).state) = incidentsMade
           /\ condition'.incident = IF condition'.state = "down" THEN incidentsMade' ELSE NoIncident
           /\ condition'.state = "down" => incidentsMade' > 0
PROOF
<1> DEFINE d == Decides(reached)
<1>1. ReachTypes /\ Incidents /\ hostThere  BY DEF ReachInv, Recording, RecordHostReachability
<1>2. incidentsMade \in Nat  BY <1>1 DEF ReachTypes
<1>3. /\ d.state \in HostStates
      /\ d.changed <=> condition.state # d.state
      /\ d.event = "host.unreachable" <=> condition.state # "down" /\ d.state = "down"
      /\ d.event = "host.recovered" <=> condition.state = "down" /\ d.state = "up"
      /\ condition.state = "down" => d.state \in {"up", "down"}
  BY Decided
<1>4. /\ condition'.state = d.state
      /\ condition'.incident = IF d.changed THEN IncidentAfter(d.state) ELSE condition.incident
      /\ incidentsMade' = IF d.event = "host.unreachable" THEN incidentsMade + 1 ELSE incidentsMade
      /\ condition.state # "down" => ActiveIncident = NoIncident
      /\ condition.state = "down" => ActiveIncident = incidentsMade /\ incidentsMade > 0
  BY ConditionRecorded
<1>5. condition.state \in HostStates \cup {"unknown"}  BY <1>1, Conditioned DEF ReachTypes
<1>6. condition.state = d.state => condition # Unobserved  BY <1>1, <1>3, Conditioned DEF HostStates
<1> HIDE DEF d
<1>7. /\ d.state = "up" => IncidentAfter(d.state) = NoIncident
      /\ d.state # "up" /\ ActiveIncident # NoIncident => IncidentAfter(d.state) = ActiveIncident
      /\ d.state = "suspect" => IncidentAfter(d.state) = ActiveIncident
      /\ d.state = "down" /\ ActiveIncident = NoIncident => IncidentAfter(d.state) = incidentsMade + 1
  BY <1>3 DEF IncidentAfter, HostStates
<1>8. /\ EventIncident(d.state) \in Nat
      /\ d.event = "host.unreachable" => EventIncident(d.state) = incidentsMade + 1
      /\ d.event = "host.recovered" => EventIncident(d.state) = incidentsMade
  BY <1>2, <1>3, <1>4, <1>5, <1>7 DEF EventIncident, NoIncident, HostStates
<1>9. /\ condition'.incident = IF condition'.state = "down" THEN incidentsMade' ELSE NoIncident
      /\ condition'.state = "down" => incidentsMade' > 0
  BY <1>1, <1>2, <1>3, <1>4, <1>5, <1>6, <1>7 DEF NoIncident, HostStates, Incidents
<1> QED  BY <1>8, <1>9 DEF d

LEMMA KeepsOutages ==
    ASSUME ReachabilityAssumption, ReachInv, NEW reached \in BOOLEAN, Recording(reached)
    PROVE  Incidents' /\ OutagesPairUp' /\ hostEvents' \in Seq(HostEvents)
PROOF
<1> DEFINE d == Decides(reached)
           e == [kind |-> d.event, at |-> clockNow, incident |-> EventIncident(d.state)]
           n == Len(hostEvents) + 1
<1>1. ReachTypes /\ Incidents /\ OutagesPairUp /\ hostThere  BY DEF ReachInv, Recording, RecordHostReachability
<1>2. /\ incidentsMade \in Nat /\ hostEvents \in Seq(HostEvents) /\ clockNow \in Nat /\ n \in Nat \ {0}
      /\ DOMAIN hostEvents = 1..Len(hostEvents)
  BY <1>1 DEF ReachTypes
<1>3. IF d.changed THEN ChangeCondition(d) ELSE TouchCondition
  BY DEF Recording, RecordHostReachability, Decides
<1>4. /\ d.state \in HostStates /\ d.event \in Kinds \cup {"none"}
      /\ d.changed <=> condition.state # d.state
      /\ d.event # "none" => d.changed
      /\ condition.state = "down" => d.state \in {"up", "down"}
      /\ d.event = "host.unreachable" <=> condition.state # "down" /\ d.state = "down"
      /\ d.event = "host.recovered" <=> condition.state = "down" /\ d.state = "up"
  BY Decided
<1>5. /\ condition' \in Conditions /\ condition'.state = d.state
      /\ incidentsMade' = IF d.event = "host.unreachable" THEN incidentsMade + 1 ELSE incidentsMade
      /\ incidentsMade' \in Nat
  BY ConditionRecorded
<1>6. /\ EventIncident(d.state) \in Nat
      /\ d.event = "host.unreachable" => EventIncident(d.state) = incidentsMade + 1
      /\ d.event = "host.recovered" => EventIncident(d.state) = incidentsMade
      /\ condition'.incident = IF condition'.state = "down" THEN incidentsMade' ELSE NoIncident
      /\ condition'.state = "down" => incidentsMade' > 0
  BY IncidentOf
<1>7. condition' # Unobserved  BY <1>5 DEF Conditions, HostStates, Unobserved
<1>8. PICK j \in 0..Len(hostEvents) :
         /\ LastAlert(j)
         /\ j > 0 => (hostEvents[j].kind = "host.unreachable" <=> condition.state = "down")
  <2>1. CASE condition # Unobserved  BY <1>1, <2>1 DEF Incidents
  <2>2. CASE condition = Unobserved
    <3>1. hostEvents = <<>> /\ incidentsMade = 0  BY <1>1, <2>2 DEF Incidents
    <3>2. LastAlert(0)  BY <3>1 DEF LastAlert, QuietBetween
    <3> QED  BY <1>2, <3>2
  <2> QED  BY <2>1, <2>2
<1>9. /\ j \in Nat /\ j < n /\ QuietBetween(j, n)
      /\ j = 0 => incidentsMade = 0
      /\ j > 0 => Alerting(j) /\ hostEvents[j].incident = incidentsMade
  BY <1>2, <1>8 DEF LastAlert
<1> HIDE DEF d
<1>10. CASE d.event = "none"
  <2>1. hostEvents' = hostEvents  BY <1>3, <1>10 DEF ChangeCondition, TouchCondition
  <2>2. OutagesPairUp' /\ hostEvents' \in Seq(HostEvents)
    BY <1>1, <1>2, <2>1 DEF OutagesPairUp, Alerting, QuietBetween
  <2>3. incidentsMade' = incidentsMade  BY <1>5, <1>10
  <2>4. LastAlert(j)'  BY <1>8, <2>1, <2>3 DEF LastAlert, QuietBetween, Alerting
  <2>5. condition'.state = "down" <=> condition.state = "down"  BY <1>4, <1>5, <1>10 DEF HostStates
  <2>6. j \in 0..Len(hostEvents') /\ (j > 0 => (hostEvents'[j].kind = "host.unreachable" <=> condition'.state = "down"))
    BY <1>8, <2>1, <2>5
  <2> QED  BY <1>6, <1>7, <2>2, <2>4, <2>6 DEF Incidents
<1>11. CASE d.event # "none"
  <2>1. d.changed  BY <1>4, <1>11
  <2>2. e \in HostEvents /\ hostEvents' = Append(hostEvents, e)
    BY <1>2, <1>3, <1>4, <1>6, <1>11, <2>1 DEF ChangeCondition, HostEvents, Kinds
  <2>3. e.kind = d.event /\ e.incident = EventIncident(d.state)  OBVIOUS
  <2> HIDE DEF e
  <2>4. /\ hostEvents' \in Seq(HostEvents) /\ Len(hostEvents') = n
        /\ hostEvents'[n] = e
        /\ \A k \in 1..Len(hostEvents) : hostEvents'[k] = hostEvents[k] /\ (Alerting(k)' <=> Alerting(k))
        /\ \A i \in 0..Len(hostEvents), k \in 1..n : QuietBetween(i, k)' <=> QuietBetween(i, k)
        /\ \A k \in {n} : Alerting(k)' <=> e.kind \in {"host.unreachable", "host.recovered"}
    BY <1>2, <2>2, AppendQuiet
  <2>5. PICK m \in Nat : m = n  BY <1>2
  <2> HIDE DEF n
  <2>6. j \in 0..Len(hostEvents) /\ m \in 1..n /\ m \in Nat \ {0} /\ j < m /\ QuietBetween(j, m)  BY <1>2, <1>8, <1>9, <2>5
  <2>7. QuietBetween(j, m)'  BY <2>4, <2>6
  <2>8. /\ hostEvents'[m] = e /\ Len(hostEvents') = m /\ DOMAIN hostEvents' = 1..m
        /\ Alerting(m)' <=> d.event \in {"host.unreachable", "host.recovered"}
    BY <2>3, <2>4, <2>5
  <2>9. j > 0 => j \in 1..(m - 1) /\ Alerting(j)' /\ hostEvents'[j] = hostEvents[j]
    <3>1. j > 0 => j \in 1..Len(hostEvents)  BY <1>8
    <3> QED  BY <1>9, <2>4, <2>6, <3>1
  <2>10. hostEvents \in Seq(HostEvents) /\ \A k \in 1..(m - 1) : k \in 1..Len(hostEvents)  BY <1>2, <2>5, <2>6 DEF n
  <2>11. j > 0 => /\ hostEvents[j].kind \in {"host.unreachable", "host.recovered"}
                  /\ hostEvents[j].incident = incidentsMade
                  /\ hostEvents[j].kind = "host.unreachable" <=> condition.state = "down"
    BY <1>8, <1>9 DEF Alerting
  <2>12. ASSUME Alerting(m)'
         PROVE  \/ /\ QuietBetween(0, m)' /\ hostEvents'[m].kind = "host.unreachable" /\ hostEvents'[m].incident = 1
                \/ \E i \in 1..(m - 1) :
                      /\ Alerting(i)' /\ QuietBetween(i, m)' /\ hostEvents'[i].kind # hostEvents'[m].kind
                      /\ hostEvents'[m].incident = hostEvents'[i].incident
                                                    + IF hostEvents'[m].kind = "host.unreachable" THEN 1 ELSE 0
    <3>1. CASE d.event = "host.unreachable"
      <4>1. hostEvents'[m].kind = "host.unreachable" /\ hostEvents'[m].incident = incidentsMade + 1 /\ condition.state # "down"
        BY <1>4, <1>6, <2>3, <2>8, <3>1
      <4>2. CASE j = 0  BY <1>9, <2>7, <4>1, <4>2
      <4>3. CASE j > 0
        <5>1. hostEvents'[j].kind = "host.recovered" /\ hostEvents'[j].incident = incidentsMade  BY <2>9, <2>11, <4>1, <4>3
        <5>2. hostEvents'[m].incident = hostEvents'[j].incident + IF hostEvents'[m].kind = "host.unreachable" THEN 1 ELSE 0
          BY <4>1, <5>1
        <5> QED  BY <2>7, <2>9, <4>1, <4>3, <5>1, <5>2
      <4> QED  BY <1>9, <4>2, <4>3
    <3>2. CASE d.event = "host.recovered"
      <4>1. hostEvents'[m].kind = "host.recovered" /\ hostEvents'[m].incident = incidentsMade /\ condition.state = "down"
        BY <1>4, <1>6, <2>3, <2>8, <3>2
      <4>2. j > 0
        <5>1. incidentsMade > 0  BY <1>1, <1>2, <4>1, Conditioned DEF Incidents
        <5> QED  BY <1>9, <5>1
      <4>3. hostEvents'[j].kind = "host.unreachable" /\ hostEvents'[j].incident = incidentsMade  BY <2>9, <2>11, <4>1, <4>2
      <4>4. hostEvents'[m].incident = hostEvents'[j].incident + IF hostEvents'[m].kind = "host.unreachable" THEN 1 ELSE 0
        BY <1>2, <4>1, <4>3
      <4> QED  BY <2>7, <2>9, <4>1, <4>2, <4>3, <4>4
    <3> QED  BY <2>8, <2>12, <3>1, <3>2
  <2>13. OutagesPairUp'
    <3> SUFFICES ASSUME NEW k \in DOMAIN hostEvents', Alerting(k)'
                 PROVE  \/ /\ QuietBetween(0, k)' /\ hostEvents'[k].kind = "host.unreachable" /\ hostEvents'[k].incident = 1
                        \/ \E i \in 1..(k - 1) :
                              /\ Alerting(i)' /\ QuietBetween(i, k)' /\ hostEvents'[i].kind # hostEvents'[k].kind
                              /\ hostEvents'[k].incident = hostEvents'[i].incident
                                                            + IF hostEvents'[k].kind = "host.unreachable" THEN 1 ELSE 0
      BY DEF OutagesPairUp
    <3>1. CASE k = m  BY <2>12, <3>1
    <3>2. CASE k # m
      <4>1. k \in 1..Len(hostEvents)  BY <2>6, <2>8, <2>10, <3>2
      <4> QED  BY <1>1, <2>2, <2>10, <4>1, AppendPairs
    <3> QED  BY <3>1, <3>2
  <2>14. \E i \in 0..Len(hostEvents') :
           LastAlert(i)' /\ (i > 0 => (hostEvents'[i].kind = "host.unreachable" <=> condition'.state = "down"))
    <3>1. CASE d.event \in {"host.unreachable", "host.recovered"}
      <4>1. QuietBetween(m, m + 1)'  BY <2>6 DEF QuietBetween
      <4>2. Alerting(m)' /\ hostEvents'[m].incident = incidentsMade'  BY <1>5, <1>6, <2>3, <2>8, <3>1
      <4>3. LastAlert(m)'  BY <2>6, <2>8, <4>1, <4>2 DEF LastAlert
      <4>4. hostEvents'[m].kind = "host.unreachable" <=> condition'.state = "down"  BY <1>4, <1>5, <2>3, <2>8, <3>1
      <4> QED  BY <2>6, <2>8, <4>3, <4>4
    <3>2. CASE d.event \notin {"host.unreachable", "host.recovered"}
      <4>1. ~Alerting(m)' /\ incidentsMade' = incidentsMade  BY <1>5, <2>8, <3>2
      <4>2. \A i \in (j + 1)..m : i \in (j + 1)..(m - 1) \/ i = m  BY <2>6
      <4>3. QuietBetween(j, m + 1)'
        <5>1. \A i \in (j + 1)..m : ~Alerting(i)'  BY <2>7, <4>1, <4>2 DEF QuietBetween
        <5> QED  BY <2>6, <5>1 DEF QuietBetween
      <4>4. LastAlert(j)'  BY <1>9, <2>6, <2>8, <2>9, <4>1, <4>3 DEF LastAlert
      <4>5. condition'.state = "down" <=> condition.state = "down"  BY <1>4, <1>5, <3>2 DEF HostStates
      <4>6. j > 0 => (hostEvents'[j].kind = "host.unreachable" <=> condition'.state = "down")  BY <1>8, <2>9, <4>5
      <4> QED  BY <2>6, <2>8, <4>4, <4>6
    <3> QED  BY <3>1, <3>2
  <2> QED  BY <1>6, <1>7, <2>4, <2>13, <2>14 DEF Incidents
<1> QED  BY <1>10, <1>11

LEMMA ReachStarts == ReachInit => ReachInv
PROOF
<1> SUFFICES ASSUME ReachInit PROVE ReachInv  OBVIOUS
<1>1. ReachTypes  BY DEF ReachInit, ReachTypes, Instants
<1>2. Polling  BY DEF ReachInit, Polling
<1>3. OneTimeline /\ OutagesPairUp  BY DEF ReachInit, OneTimeline, OutagesPairUp
<1>4. CheckedSo /\ Incidents  BY DEF ReachInit, CheckedSo, Incidents
<1> QED  BY <1>1, <1>2, <1>3, <1>4 DEF ReachInv

\* What leaves the rows of the status alone keeps all that is said of them.
LEMMA RowsUntouched ==
    ASSUME ReachInv, UNCHANGED statusRows, UNCHANGED hostThere
    PROVE  OneTimeline' /\ CheckedSo' /\ Incidents' /\ OutagesPairUp'
PROOF
<1>1. OneTimeline /\ CheckedSo /\ Incidents /\ OutagesPairUp  BY DEF ReachInv
<1>2. UNCHANGED <<condition, intervals, hostEvents, observed, incidentsMade>>  BY DEF statusRows
<1>3. OneTimeline'  BY <1>1, <1>2 DEF OneTimeline
<1>4. CheckedSo'  BY <1>1, <1>2 DEF CheckedSo
<1>5. Incidents'  BY <1>1, <1>2 DEF Incidents, LastAlert, Alerting, QuietBetween
<1>6. OutagesPairUp'  BY <1>1, <1>2 DEF OutagesPairUp, Alerting, QuietBetween
<1> QED  BY <1>3, <1>4, <1>5, <1>6

LEMMA ReachSteps ==
    ASSUME ReachabilityAssumption, ReachInv, ReachNext
    PROVE  ReachInv'
PROOF
<1>1. ReachTypes /\ Polling  BY DEF ReachInv
<1>2. ASSUME NEW reached \in BOOLEAN, Recording(reached) PROVE ReachInv'
  <2>1. /\ Polling' /\ observed' \subseteq [at : Nat, reached : BOOLEAN]
        /\ OneTimeline' /\ intervals' \in Seq(Intervals)
        /\ Incidents' /\ OutagesPairUp' /\ hostEvents' \in Seq(HostEvents)
        /\ CheckedSo'
        /\ condition' \in Conditions /\ incidentsMade' \in Nat
    BY <1>2, KeepsPolling, KeepsTimeline, KeepsOutages, KeepsFollows, ConditionRecorded
  <2>2. UNCHANGED <<clockNow, hostThere, lastPoll, lastSeenAt, answeredAt>> /\ polling' = "idle"
    BY <1>2 DEF Recording
  <2>3. ReachTypes'  BY <1>1, <2>1, <2>2 DEF ReachTypes
  <2> QED  BY <2>1, <2>3 DEF ReachInv
<1>3. CASE RecordReached
  <2>1. Recording(TRUE)  BY <1>3 DEF Recording, RecordReached
  <2> QED  BY <1>2, <2>1
<1>4. CASE RecordUnreached
  <2>1. Recording(FALSE)  BY <1>4 DEF Recording, RecordUnreached
  <2> QED  BY <1>2, <2>1
<1>5. CASE PollHost
  <2>1. ReachTypes'  BY <1>1, <1>5 DEF PollHost, ReachTypes, statusRows
  <2>2. Polling'  BY <1>1, <1>5 DEF PollHost, ReachTypes, Polling, statusRows
  <2>3. OneTimeline' /\ CheckedSo' /\ Incidents' /\ OutagesPairUp'  BY <1>5, RowsUntouched DEF PollHost
  <2> QED  BY <2>1, <2>2, <2>3 DEF ReachInv
<1>6. CASE PollNotLeased
  <2>1. ReachTypes'  BY <1>1, <1>6 DEF PollNotLeased, ReachTypes, statusRows
  <2>2. Polling'  BY <1>1, <1>6 DEF PollNotLeased, ReachTypes, Polling, statusRows
  <2>3. OneTimeline' /\ CheckedSo' /\ Incidents' /\ OutagesPairUp'  BY <1>6, RowsUntouched DEF PollNotLeased
  <2> QED  BY <2>1, <2>2, <2>3 DEF ReachInv
<1>7. CASE RecordSeen
  <2>1. ReachTypes'  BY <1>1, <1>7 DEF RecordSeen, ReachTypes, statusRows, Instants
  <2>2. Polling'  BY <1>1, <1>7 DEF RecordSeen, ReachTypes, Polling, statusRows
  <2>3. OneTimeline' /\ CheckedSo' /\ Incidents' /\ OutagesPairUp'  BY <1>7, RowsUntouched DEF RecordSeen
  <2> QED  BY <2>1, <2>2, <2>3 DEF ReachInv
<1>8. CASE RecordFails
  <2>1. ReachTypes'  BY <1>1, <1>8 DEF RecordFails, ReachTypes, statusRows
  <2>2. Polling'  BY <1>1, <1>8 DEF RecordFails, ReachTypes, Polling, statusRows
  <2>3. OneTimeline' /\ CheckedSo' /\ Incidents' /\ OutagesPairUp'  BY <1>8, RowsUntouched DEF RecordFails
  <2> QED  BY <2>1, <2>2, <2>3 DEF ReachInv
<1>9. CASE PollerStops
  <2>1. ReachTypes'  BY <1>1, <1>9 DEF PollerStops, ReachTypes, statusRows
  <2>2. Polling'  BY <1>1, <1>9 DEF PollerStops, ReachTypes, Polling, statusRows
  <2>3. OneTimeline' /\ CheckedSo' /\ Incidents' /\ OutagesPairUp'  BY <1>9, RowsUntouched DEF PollerStops
  <2> QED  BY <2>1, <2>2, <2>3 DEF ReachInv
<1>10. CASE PollerStarts
  <2>1. ReachTypes'  BY <1>1, <1>10 DEF PollerStarts, ReachTypes, statusRows
  <2>2. Polling'
    <3>1. clockNow \in Nat /\ lastPoll \in Nat /\ observed \subseteq [at : Nat, reached : BOOLEAN]  BY <1>1 DEF ReachTypes
    <3>2. \A o \in observed : o.at <= clockNow  BY <1>1, <3>1 DEF Polling
    <3> QED  BY <1>1, <1>10, <3>1, <3>2 DEF PollerStarts, Polling, statusRows
  <2>3. OneTimeline' /\ CheckedSo' /\ Incidents' /\ OutagesPairUp'  BY <1>10, RowsUntouched DEF PollerStarts
  <2> QED  BY <2>1, <2>2, <2>3 DEF ReachInv
<1>11. CASE HostTurns
  <2>1. ReachTypes'  BY <1>1, <1>11 DEF HostTurns, ReachTypes, statusRows
  <2>2. Polling'  BY <1>1, <1>11 DEF HostTurns, ReachTypes, Polling, statusRows
  <2>3. OneTimeline' /\ CheckedSo' /\ Incidents' /\ OutagesPairUp'  BY <1>11, RowsUntouched DEF HostTurns
  <2> QED  BY <2>1, <2>2, <2>3 DEF ReachInv
<1>12. CASE HostRemoved
  <2>1. ReachTypes'
    <3>1. condition' \in {Unobserved} \cup Conditions  BY <1>12 DEF HostRemoved
    <3>2. intervals' \in Seq(Intervals)  BY <1>12 DEF HostRemoved
    <3> QED  BY <1>1, <1>12, <3>1, <3>2, Zenon DEF HostRemoved, ReachTypes
  <2>2. Polling'  BY <1>1, <1>12 DEF HostRemoved, Polling
  <2>3. OneTimeline' /\ CheckedSo' /\ Incidents'  BY <1>12 DEF HostRemoved, OneTimeline, CheckedSo, Incidents
  <2>4. OutagesPairUp'  BY <1>12 DEF HostRemoved, ReachInv, OutagesPairUp, Alerting, QuietBetween
  <2> QED  BY <2>1, <2>2, <2>3, <2>4 DEF ReachInv
<1>13. CASE PollTimePasses
  <2>1. ReachTypes'  BY <1>1, <1>13 DEF PollTimePasses, ReachTypes, statusRows
  <2>2. Polling'  BY <1>1, <1>13 DEF PollTimePasses, ReachTypes, Polling, statusRows
  <2>3. OneTimeline' /\ CheckedSo' /\ Incidents' /\ OutagesPairUp'  BY <1>13, RowsUntouched DEF PollTimePasses
  <2> QED  BY <2>1, <2>2, <2>3 DEF ReachInv
<1> QED  BY <1>3, <1>4, <1>5, <1>6, <1>7, <1>8, <1>9, <1>10, <1>11, <1>12, <1>13 DEF ReachNext

\* The checks are told apart by when they were made, so that the latest is the one the condition was last touched by.
LEMMA ReachImplies ==
    ASSUME ReachabilityAssumption, ReachInv
    PROVE  ReachabilityIsRecorded
PROOF
<1>1. ReachTypes /\ Polling /\ CheckedSo /\ OneTimeline /\ OutagesPairUp  BY DEF ReachInv
<1>2. ConditionFollowsChecks
  <2> SUFFICES ASSUME condition # Unobserved PROVE ConditionFollowsChecks  BY DEF ConditionFollowsChecks
  <2>1. PICK o \in observed : o.at = condition.lastObservedAt /\ (o.reached <=> condition.state = "up")  BY <1>1 DEF CheckedSo
  <2>2. \A p \in observed : p.at <= o.at  BY <1>1, <2>1 DEF CheckedSo
  <2>3. LatestCheck \in observed /\ \A p \in observed : p.at <= LatestCheck.at  BY <2>2 DEF LatestCheck
  <2>4. o.at \in Nat /\ LatestCheck.at \in Nat  BY <1>1, <2>3 DEF ReachTypes
  <2>5. LatestCheck.at = o.at  BY <2>2, <2>3, <2>4
  <2>6. LatestCheck = o  BY <1>1, <2>3, <2>5 DEF Polling
  <2> QED  BY <1>1, <2>1, <2>6 DEF CheckedSo, ConditionFollowsChecks
<1>3. OnlineIsRecent
  <2>1. clockNow \in Nat /\ OfflineAfter \in Nat /\ (lastSeenAt = NotYet \/ lastSeenAt \in Nat)
    BY <1>1 DEF ReachTypes, Instants, ReachabilityAssumption
  <2>2. CASE lastSeenAt = NotYet
    <3>1. HealthFor = "unknown"  BY <2>2 DEF HealthFor
    <3> QED  BY <3>1 DEF OnlineIsRecent
  <2>3. CASE lastSeenAt # NotYet /\ clockNow - lastSeenAt > OfflineAfter
    <3>1. HealthFor = "offline"  BY <2>3 DEF HealthFor
    <3> QED  BY <3>1 DEF OnlineIsRecent
  <2>4. CASE lastSeenAt # NotYet /\ ~(clockNow - lastSeenAt > OfflineAfter)
    <3>1. lastSeenAt \in answeredAt /\ clockNow - lastSeenAt <= OfflineAfter  BY <1>1, <2>1, <2>4 DEF Polling
    <3> QED  BY <3>1 DEF OnlineIsRecent
  <2> QED  BY <2>2, <2>3, <2>4
<1> QED  BY <1>1, <1>2, <1>3 DEF ReachabilityIsRecorded

\* Every step keeps the invariant, and so does a stutter.
LEMMA ReachStays ==
    ASSUME ReachabilityAssumption, ReachInv, [ReachNext]_reachVars
    PROVE  ReachInv'
PROOF
<1>1. CASE ReachNext  BY <1>1, ReachSteps
<1>2. CASE UNCHANGED reachVars
  <2>1. UNCHANGED statusRows /\ UNCHANGED hostThere  BY <1>2 DEF reachVars, statusRows
  <2>2. OneTimeline' /\ CheckedSo' /\ Incidents' /\ OutagesPairUp'  BY <2>1, RowsUntouched
  <2>3. ReachTypes' /\ Polling'  BY <1>2 DEF ReachInv, ReachTypes, Polling, reachVars
  <2> QED  BY <2>2, <2>3 DEF ReachInv
<1> QED  BY <1>1, <1>2

\* A host's reachability is recorded as the checks found it (recordHostReachability, nextReachability), whatever order
\* its answers, the poller's restarts, the writes that fail and its removal come in: intervals in one timeline, a
\* condition the checks bear out, outages that open and close once each, and no badge that outlives the answers.
THEOREM ReachabilityRecorded == ReachSpec => []ReachabilityIsRecorded
PROOF
<1>1. ReachInit => ReachInv  BY ReachStarts
<1>2. ReachInv /\ [ReachNext]_reachVars => ReachInv'  BY ReachStays, ReachabilityAssumption
<1>3. ReachInv => ReachabilityIsRecorded  BY ReachImplies, ReachabilityAssumption
<1> QED  BY <1>1, <1>2, <1>3, PTL DEF ReachSpec


-----------------------------------------------------------------------------
(***************************************************************************)
(* The bars.  The intervals are in the order of their starts, none in the  *)
(* future; windows that follow each other add up interval by interval; and *)
(* what the intervals overlap a window that ends now grows, interval by    *)
(* interval, to all of it since the first started.                         *)
(***************************************************************************)
Ascends ==
    \A j, k \in 1..Len(intervals) :
        intervals[j].startedAt <= clockNow /\ (j <= k => intervals[j].startedAt <= intervals[k].startedAt)

\* What an interval is made of.
LEMMA IntervalNumbers ==
    ASSUME ReachTypes
    PROVE  /\ clockNow \in Nat /\ intervals \in Seq(Intervals) /\ Len(intervals) \in Nat
           /\ \A k \in 1..Len(intervals) :
                  /\ intervals[k] \in Intervals /\ intervals[k].startedAt \in Nat
                  /\ intervals[k].endedAt \in Nat \/ intervals[k].endedAt = Open
                  /\ intervals[k].state \in HostStates
PROOF
<1>1. clockNow \in Nat /\ intervals \in Seq(Intervals)  BY DEF ReachTypes
<1>2. Len(intervals) \in Nat /\ \A k \in 1..Len(intervals) : intervals[k] \in Intervals
  <2> DEFINE S == Intervals
  <2>1. intervals \in Seq(S)  BY <1>1
  <2> HIDE DEF S
  <2>2. Len(intervals) \in Nat /\ \A k \in 1..Len(intervals) : intervals[k] \in S  BY <2>1
  <2> QED  BY <2>2 DEF S
<1>3. \A i \in Intervals : i.startedAt \in Nat /\ (i.endedAt \in Nat \/ i.endedAt = Open) /\ i.state \in HostStates
  BY DEF Intervals
<1> QED  BY <1>1, <1>2, <1>3

\* A check that changes the condition appends an interval that starts now.
LEMMA AscendsOn ==
    ASSUME ReachTypes, Ascends, intervals' = Append(CloseOpenInterval, [state |-> condition'.state, startedAt |-> clockNow, endedAt |-> Open]),
           clockNow' = clockNow
    PROVE  Ascends'
PROOF
<1> DEFINE n == Len(intervals)
           latest == [state |-> condition'.state, startedAt |-> clockNow, endedAt |-> Open]
<1>1. clockNow \in Nat /\ intervals \in Seq(Intervals) /\ n \in Nat  BY IntervalNumbers
<1>2. \A k \in 1..n : intervals[k] \in Intervals /\ intervals[k].startedAt \in Nat  BY IntervalNumbers
<1>3. Len(CloseOpenInterval) = n /\ \A k \in 1..n : CloseOpenInterval[k].startedAt = intervals[k].startedAt
  <2>1. CASE intervals = <<>>  BY <1>1, <2>1 DEF CloseOpenInterval
  <2>2. CASE intervals # <<>>
    <3>1. CloseOpenInterval = [intervals EXCEPT ![n].endedAt = clockNow]  BY <2>2 DEF CloseOpenInterval
    <3>2. n \in 1..n  BY <1>1, <2>2
    <3>3. \A k \in 1..n : k # n => CloseOpenInterval[k] = intervals[k]  BY <1>1, <3>1
    <3>4. CloseOpenInterval[n] = [intervals[n] EXCEPT !.endedAt = clockNow]  BY <1>1, <3>1, <3>2
    <3>5. CloseOpenInterval[n].startedAt = intervals[n].startedAt  BY <1>2, <3>2, <3>4 DEF Intervals
    <3>6. DOMAIN CloseOpenInterval = 1..n  BY <1>1, <3>1
    <3> QED  BY <1>1, <3>1, <3>3, <3>5
  <2> QED  BY <2>1, <2>2
<1>4. latest.startedAt = clockNow  OBVIOUS
<1>5. CloseOpenInterval \in Seq(Intervals)
  <2>1. CASE intervals = <<>>  BY <1>1, <2>1 DEF CloseOpenInterval
  <2>2. CASE intervals # <<>>
    <3>1. CloseOpenInterval = [intervals EXCEPT ![n].endedAt = clockNow]  BY <2>2 DEF CloseOpenInterval
    <3>2. n \in 1..n /\ intervals[n] \in Intervals  BY <1>1, <1>2, <2>2
    <3>3. [intervals[n] EXCEPT !.endedAt = clockNow] \in Intervals  BY <1>1, <3>2 DEF Intervals
    <3> QED  BY <1>1, <3>1, <3>2, <3>3
  <2> QED  BY <2>1, <2>2
<1> HIDE DEF latest
<1>6. intervals' = Append(CloseOpenInterval, latest)  BY DEF latest
<1> DEFINE closed == CloseOpenInterval
<1>7. Len(closed) = n /\ closed \in Seq(Intervals)  BY <1>3, <1>5
<1> DEFINE now == Append(closed, latest)
<1>8. Len(now) = n + 1 /\ now[n + 1] = latest /\ \A k \in 1..n : now[k] = closed[k]
  <2> HIDE DEF closed
  <2> QED  BY <1>1, <1>7, AppendProperties
<1>9. \A k \in 1..n : now[k].startedAt = intervals[k].startedAt  BY <1>3, <1>8
<1>10. now[n + 1].startedAt = clockNow  BY <1>4, <1>8
<1> HIDE DEF now, closed
<1>11. intervals' = now  BY <1>6 DEF now, closed
<1>12. ASSUME NEW j \in 1..(n + 1), NEW k \in 1..(n + 1)
       PROVE  now[j].startedAt <= clockNow /\ (j <= k => now[j].startedAt <= now[k].startedAt)
  <2>1. CASE j = n + 1 /\ k = n + 1  BY <1>1, <1>10, <2>1
  <2>2. CASE j = n + 1 /\ k # n + 1  BY <1>1, <1>10, <2>2
  <2>3. CASE j # n + 1 /\ k = n + 1  BY <1>1, <1>2, <1>9, <1>10, <2>3 DEF Ascends
  <2>4. CASE j # n + 1 /\ k # n + 1  BY <1>1, <1>2, <1>9, <2>4 DEF Ascends
  <2> QED  BY <2>1, <2>2, <2>3, <2>4
<1> QED  BY <1>8, <1>11, <1>12 DEF Ascends, now

\* Every step keeps the order of the intervals.
LEMMA AscendsStep ==
    ASSUME ReachTypes, Ascends, [ReachNext]_reachVars
    PROVE  Ascends'
PROOF
<1>1. clockNow \in Nat /\ \A k \in 1..Len(intervals) : intervals[k].startedAt \in Nat
  BY IntervalNumbers
<1>2. CASE UNCHANGED <<intervals, clockNow>>  BY <1>2 DEF Ascends
<1>3. CASE PollTimePasses
  <2>1. clockNow' = clockNow + 1 /\ intervals' = intervals  BY <1>3 DEF PollTimePasses, statusRows
  <2> QED  BY <1>1, <2>1 DEF Ascends
<1>4. CASE HostRemoved  BY <1>4 DEF HostRemoved, Ascends
<1>5. ASSUME NEW reached \in BOOLEAN, RecordHostReachability(reached), clockNow' = clockNow
      PROVE  Ascends'
  <2>1. CASE intervals' = intervals  BY <1>2, <1>5, <2>1
  <2>2. CASE ChangeCondition(IF reached THEN Reached ELSE Unreached)
    <3> DEFINE d == IF reached THEN Reached ELSE Unreached
    <3>1. ChangeCondition(d)  BY <2>2
    <3> HIDE DEF d
    <3>2. /\ intervals' = Append(CloseOpenInterval, [state |-> d.state, startedAt |-> clockNow, endedAt |-> Open])
          /\ condition'.state = d.state
      BY <3>1 DEF ChangeCondition
    <3> QED  BY <1>5, <3>2, AscendsOn
  <2> QED  BY <1>5, <2>1, <2>2 DEF RecordHostReachability, TouchCondition
<1>6. CASE RecordReached  BY <1>5, <1>6 DEF RecordReached
<1>7. CASE RecordUnreached  BY <1>5, <1>7 DEF RecordUnreached
<1> QED
  BY <1>2, <1>3, <1>4, <1>6, <1>7 DEF ReachNext, reachVars, statusRows, PollHost, PollNotLeased, RecordSeen,
     RecordFails, PollerStops, PollerStarts, HostTurns

\* Reading the page: overlaps, before they are rounded.
LEMMA Larger ==
    ASSUME NEW a \in Int, NEW b \in Int
    PROVE  /\ Max({a, b}) = IF a >= b THEN a ELSE b
           /\ Min({a, b}) = IF a <= b THEN a ELSE b
PROOF BY DEF Max, Min

\* Between the later of the starts and the earlier of the ends, and nothing where these cross.
LEMMA OverlapIs ==
    ASSUME NEW i, i.startedAt \in Int, EndOf(i) \in Int, NEW from \in Int, NEW until \in Int
    PROVE  LET a == IF i.startedAt >= from THEN i.startedAt ELSE from
               b == IF EndOf(i) <= until THEN EndOf(i) ELSE until
           IN  Overlap(i, from, until) = (IF b <= a THEN 0 ELSE b - a) /\ Overlap(i, from, until) \in Int
PROOF
<1> DEFINE a == IF i.startedAt >= from THEN i.startedAt ELSE from
           b == IF EndOf(i) <= until THEN EndOf(i) ELSE until
<1>1. Max({i.startedAt, from}) = a  BY Larger
<1>2. Min({EndOf(i), until}) = b  BY Larger
<1>3. Overlap(i, from, until) = IF b <= a THEN 0 ELSE b - a  BY <1>1, <1>2 DEF Overlap
<1>4. a \in Int /\ b \in Int  OBVIOUS
<1> HIDE DEF a, b
<1>5. Overlap(i, from, until) \in Int  BY <1>3, <1>4
<1> QED  BY <1>3, <1>5 DEF a, b

\* Two windows of which one follows the other.
LEMMA OverlapsJoin ==
    ASSUME NEW i, i.startedAt \in Int, EndOf(i) \in Int, NEW a \in Int, NEW b \in Int, NEW c \in Int, a <= b, b <= c
    PROVE  Overlap(i, a, c) = Overlap(i, a, b) + Overlap(i, b, c)
PROOF
<1> DEFINE s == i.startedAt
           e == EndOf(i)
           Over(x, y) == Overlap(i, x, y)
<1>1. s \in Int /\ e \in Int  OBVIOUS
<1>2. \A x, y \in Int :
         Over(x, y) = LET l == IF s >= x THEN s ELSE x
                          r == IF e <= y THEN e ELSE y
                      IN  IF r <= l THEN 0 ELSE r - l
  BY OverlapIs
<1> HIDE DEF s, e, Over
<1>3. Over(a, c) = Over(a, b) + Over(b, c)
  <2>1. Over(a, c) = LET l == IF s >= a THEN s ELSE a
                         r == IF e <= c THEN e ELSE c
                     IN  IF r <= l THEN 0 ELSE r - l
    BY <1>2
  <2>2. Over(a, b) = LET l == IF s >= a THEN s ELSE a
                         r == IF e <= b THEN e ELSE b
                     IN  IF r <= l THEN 0 ELSE r - l
    BY <1>2
  <2>3. Over(b, c) = LET l == IF s >= b THEN s ELSE b
                         r == IF e <= c THEN e ELSE c
                     IN  IF r <= l THEN 0 ELSE r - l
    BY <1>2
  <2> QED  BY <1>1, <2>1, <2>2, <2>3
<1> QED  BY <1>3 DEF Over

\* What each interval adds to a window of the page.
Adds(states, from, until) ==
    [k \in DOMAIN intervals |-> IF intervals[k].state \in states THEN Overlap(intervals[k], from, until) ELSE 0]
TimeIn(states, from, until) == Summed(Adds(states, from, until))

\* The ends of the intervals are numbers, and none is in the future.
LEMMA Ends ==
    ASSUME ReachTypes, OneTimeline, Ascends, NEW k \in 1..Len(intervals)
    PROVE  /\ EndOf(intervals[k]) \in Int /\ EndOf(intervals[k]) <= clockNow
           /\ EndOf(intervals[k]) = IF k = Len(intervals) THEN clockNow ELSE intervals[k + 1].startedAt
PROOF
<1> DEFINE n == Len(intervals)
<1>1. n \in Nat /\ clockNow \in Nat /\ \A j \in 1..n : intervals[j].startedAt \in Nat  BY IntervalNumbers
<1>2. CASE k = n
  <2>1. intervals # <<>>  BY <1>1, <1>2
  <2>2. intervals[n].endedAt = Open  BY <2>1 DEF OneTimeline
  <2> QED  BY <1>1, <1>2, <2>2 DEF EndOf
<1>3. CASE k # n
  <2>1. k \in 1..(n - 1) /\ k + 1 \in 1..n  BY <1>1, <1>3
  <2>2. intervals[k].endedAt = intervals[k + 1].startedAt  BY <2>1 DEF OneTimeline
  <2>3. intervals[k + 1].startedAt \in Nat /\ intervals[k + 1].startedAt <= clockNow  BY <1>1, <2>1 DEF Ascends
  <2>4. intervals[k].endedAt # Open  BY <2>2, <2>3 DEF Open
  <2> QED  BY <1>1, <1>3, <2>2, <2>3, <2>4 DEF EndOf
<1> QED  BY <1>2, <1>3

\* What each interval adds is a number, and the time of a window their sum.
LEMMA AddsAreNumbers ==
    ASSUME ReachTypes, OneTimeline, Ascends, NEW states, NEW from \in Int, NEW until \in Int
    PROVE  /\ Adds(states, from, until) \in Seq(Int) /\ Len(Adds(states, from, until)) = Len(intervals)
           /\ \A k \in 1..Len(intervals) :
                  Adds(states, from, until)[k] =
                      IF intervals[k].state \in states THEN Overlap(intervals[k], from, until) ELSE 0
           /\ TimeIn(states, from, until) = Summed(Adds(states, from, until))
           /\ TimeIn(states, from, until) \in Int
PROOF
<1> DEFINE s == Adds(states, from, until)
           n == Len(intervals)
<1>1. n \in Nat /\ DOMAIN intervals = 1..n /\ \A j \in 1..n : intervals[j].startedAt \in Nat  BY IntervalNumbers
<1>2. \A k \in 1..n : Overlap(intervals[k], from, until) \in Int
  <2> SUFFICES ASSUME NEW k \in 1..n PROVE Overlap(intervals[k], from, until) \in Int  OBVIOUS
  <2> DEFINE i == intervals[k]
  <2>1. i.startedAt \in Int /\ EndOf(i) \in Int  BY Ends, IntervalNumbers
  <2> HIDE DEF i
  <2>2. Overlap(i, from, until) \in Int  BY <2>1, OverlapIs
  <2> QED  BY <2>2 DEF i
<1>3. s = [k \in 1..n |-> IF intervals[k].state \in states THEN Overlap(intervals[k], from, until) ELSE 0]
  BY <1>1 DEF Adds
<1>4. s \in [1..n -> Int]  BY <1>2, <1>3
<1>5. s \in Seq(Int) /\ Len(s) = n  BY <1>1, <1>4
<1>6. TimeIn(states, from, until) = Summed(s)  BY DEF TimeIn
<1>7. Summed(s) \in Int  BY <1>5, SumOfList
<1> QED  BY <1>3, <1>5, <1>6, <1>7

\* So windows that follow each other add up.
LEMMA WindowsJoin ==
    ASSUME ReachTypes, OneTimeline, Ascends, NEW states, NEW a \in Int, NEW b \in Int, NEW c \in Int, a <= b, b <= c
    PROVE  TimeIn(states, a, c) = TimeIn(states, a, b) + TimeIn(states, b, c)
PROOF
<1> DEFINE n == Len(intervals)
           s == Adds(states, a, b)
           t == Adds(states, b, c)
           u == Adds(states, a, c)
<1>1. s \in Seq(Int) /\ t \in Seq(Int) /\ u \in Seq(Int) /\ Len(s) = n /\ Len(t) = n /\ Len(u) = n  BY AddsAreNumbers
<1>2. ASSUME NEW k \in 1..n PROVE u[k] = s[k] + t[k]
  <2> DEFINE i == intervals[k]
  <2>1. i.startedAt \in Int /\ EndOf(i) \in Int  BY Ends, IntervalNumbers
  <2>2. Overlap(i, a, c) = Overlap(i, a, b) + Overlap(i, b, c)  BY <2>1, OverlapsJoin
  <2>3. /\ u[k] = IF i.state \in states THEN Overlap(i, a, c) ELSE 0
        /\ s[k] = IF i.state \in states THEN Overlap(i, a, b) ELSE 0
        /\ t[k] = IF i.state \in states THEN Overlap(i, b, c) ELSE 0
    BY AddsAreNumbers
  <2> HIDE DEF i, s, t, u
  <2> QED  BY <2>2, <2>3
<1> HIDE DEF s, t, u
<1>3. Summed(u) = Summed(s) + Summed(t)  BY <1>1, <1>2, SumsAdd
<1>4. /\ TimeIn(states, a, c) = Summed(u) /\ TimeIn(states, a, b) = Summed(s)
      /\ TimeIn(states, b, c) = Summed(t)
  BY AddsAreNumbers DEF s, t, u
<1> QED  BY <1>3, <1>4

\* The bars follow each other from the start of the range, and the last reaches to now.
LEMMA Buckets ==
    ASSUME ReachabilityAssumption, clockNow \in Nat
    PROVE  /\ RangeStart \in Int /\ RangeStart <= clockNow /\ BucketStart(1) = RangeStart
           /\ \A k \in 1..BucketCount : BucketStart(k) \in Int /\ BucketEnd(k) \in Int /\ BucketStart(k) <= BucketEnd(k)
           /\ \A k \in 1..BucketCount : RangeStart <= BucketStart(k)
           /\ \A k \in 1..BucketCount - 1 : BucketEnd(k) = BucketStart(k + 1)
           /\ clockNow <= BucketEnd(BucketCount)
PROOF
<1> DEFINE size == BucketSize
           count == BucketCount
           steps == clockNow \div BucketSize
<1>1. size \in Nat \ {0} /\ count \in Nat \ {0}  BY DEF ReachabilityAssumption
<1>2. steps \in Nat /\ steps * size <= clockNow /\ clockNow < steps * size + size  BY <1>1, Z3
<1> DEFINE now == steps * size
           Start(k) == now - (count - k) * size
<1>3. now \in Int  BY <1>1, <1>2
<1>4. \A k \in Int : Start(k) \in Int /\ Start(k + 1) = Start(k) + size
  <2> SUFFICES ASSUME NEW k \in Int PROVE Start(k) \in Int /\ Start(k + 1) = Start(k) + size  OBVIOUS
  <2> HIDE DEF now, size, count
  <2>1. Start(k) \in Int  BY <1>1, <1>3
  <2>2. (count - (k + 1)) * size = (count - k) * size - size  BY <1>1
  <2>3. (count - k) * size \in Int  BY <1>1
  <2> QED  BY <1>1, <1>3, <2>1, <2>2, <2>3
<1>5. Start(count) = now  BY <1>1, <1>3
<1>6. RangeStart = clockNow - size * count /\ RangeStart \in Int /\ RangeStart <= clockNow
  <2>1. size * count \in Nat  BY <1>1
  <2> HIDE DEF now, Start, steps
  <2> QED  BY <2>1 DEF RangeStart
<1>7. RangeStart < Start(1) + size /\ RangeStart <= Start(2)
  <2> HIDE DEF steps
  <2>1. Start(1) = now - (count * size - size)
    <3> HIDE DEF now, size, count
    <3>1. (count - 1) * size = count * size - size  BY <1>1
    <3> QED  BY <3>1
  <2>2. Start(2) = Start(1) + size
    <3>1. Start(1 + 1) = Start(1) + size  BY <1>4
    <3> QED  BY <3>1
  <2>3. count * size = size * count /\ count * size \in Int  BY <1>1
  <2> HIDE DEF Start
  <2> QED  BY <1>1, <1>2, <1>3, <1>6, <2>1, <2>2, <2>3
<1>8. \A k \in 1..count : BucketStart(k) = IF k = 1 THEN RangeStart ELSE Start(k)  BY DEF BucketStart
<1>9. \A k \in Nat : k >= 2 => Start(2) <= Start(k)
  <2> DEFINE S == {k \in Nat : Start(2) <= Start(2 + k)}
  <2>1. 0 \in S  BY <1>4
  <2>2. ASSUME NEW k \in Nat, k \in S PROVE k + 1 \in S
    <3>1. Start(2) <= Start(2 + k)  BY <2>2
    <3> HIDE DEF Start
    <3>2. 2 + k \in Int /\ 2 + (k + 1) = (2 + k) + 1 /\ 2 \in Int
      <4> HIDE DEF S
      <4> QED  OBVIOUS
    <3>3. Start((2 + k) + 1) = Start(2 + k) + size /\ Start(2) \in Int /\ Start(2 + k) \in Int  BY <1>4, <3>2
    <3>4. Start(2) <= Start(2 + (k + 1))
      <4> HIDE DEF S, size
      <4> QED  BY <1>1, <3>1, <3>2, <3>3
    <3> QED  BY <3>4
  <2> HIDE DEF S
  <2>3. \A k \in Nat : k \in S  BY <2>1, <2>2, EveryNumber
  <2>4. \A k \in Nat : k >= 2 => k - 2 \in Nat /\ 2 + (k - 2) = k  OBVIOUS
  <2> HIDE DEF Start
  <2> QED  BY <2>3, <2>4 DEF S
<1> HIDE DEF Start, now, steps
<1>10. ASSUME NEW k \in 1..count
       PROVE  /\ BucketStart(k) \in Int /\ BucketEnd(k) \in Int /\ BucketStart(k) <= BucketEnd(k)
              /\ RangeStart <= BucketStart(k)
              /\ k # count => BucketEnd(k) = BucketStart(k + 1)
              /\ k = count => clockNow <= BucketEnd(k)
  <2>1. k \in Int /\ 1 \in Int /\ 2 \in Int /\ (k # 1 => k >= 2) /\ k \in Nat  OBVIOUS
  <2>2. BucketStart(k) \in Int  BY <1>4, <1>6, <1>8, <2>1
  <2>3. RangeStart <= BucketStart(k)
    <3>1. CASE k = 1  BY <1>6, <1>8, <3>1
    <3>2. CASE k # 1
      <4>1. Start(2) <= Start(k) /\ Start(2) \in Int /\ Start(k) \in Int  BY <1>4, <1>9, <2>1, <3>2
      <4>2. BucketStart(k) = Start(k)  BY <1>8, <3>2
      <4> HIDE DEF size, count
      <4> QED  BY <1>6, <1>7, <4>1, <4>2
    <3> QED  BY <3>1, <3>2
  <2>4. CASE k = count
    <3>1. BucketEnd(k) = BucketStart(k) + size  BY <2>4 DEF BucketEnd
    <3>2. now <= BucketStart(k) \/ BucketStart(k) = clockNow - size
      <4>1. CASE k = 1
        <5>1. count = 1 /\ size * count = size  BY <1>1, <2>4, <4>1
        <5> QED  BY <1>6, <1>8, <4>1, <5>1
      <4>2. CASE k # 1  BY <1>3, <1>5, <1>8, <2>4, <4>2
      <4> QED  BY <4>1, <4>2
    <3>3. clockNow < now + size  BY <1>2 DEF now
    <3> HIDE DEF count
    <3> QED  BY <1>1, <1>3, <2>2, <2>3, <2>4, <3>1, <3>2, <3>3
  <2>5. CASE k # count
    <3>1. k + 1 \in 1..count /\ k + 1 # 1 /\ k + 1 \in Int  BY <1>1, <2>5
    <3>2. BucketEnd(k) = BucketStart(k + 1)  BY <2>5 DEF BucketEnd
    <3>3. BucketEnd(k) = Start(k + 1) /\ Start(k + 1) \in Int  BY <1>4, <1>8, <3>1, <3>2
    <3>4. BucketStart(k) <= BucketEnd(k)
      <4>1. CASE k = 1
        <5>1. Start(k + 1) = Start(2) /\ BucketStart(k) = RangeStart  BY <1>8, <4>1
        <5> QED  BY <1>7, <3>3, <5>1
      <4>2. CASE k # 1
        <5>1. BucketStart(k) = Start(k) /\ Start(k + 1) = Start(k) + size /\ Start(k) \in Int  BY <1>4, <1>8, <2>1, <4>2
        <5> QED  BY <1>1, <3>3, <5>1
      <4> QED  BY <4>1, <4>2
    <3> QED  BY <2>2, <2>3, <2>5, <3>2, <3>3, <3>4
  <2> QED  BY <2>4, <2>5
<1>11. \A k \in 1..count - 1 : k \in 1..count /\ k # count  BY <1>1
<1>12. 1 \in 1..count /\ count \in 1..count  BY <1>1
<1> QED  BY <1>6, <1>8, <1>10, <1>11, <1>12

\* Bar by bar, the bars make up the window they reach to.
LEMMA BarsReach ==
    ASSUME ReachabilityAssumption, ReachTypes, OneTimeline, Ascends, NEW states
    PROVE  Summed([k \in 1..BucketCount |-> TimeIn(states, BucketStart(k), BucketEnd(k))])
               = TimeIn(states, RangeStart, BucketEnd(BucketCount))
PROOF
<1> DEFINE count == BucketCount
           W(a, b) == TimeIn(states, a, b)
           bars == [k \in 1..count |-> W(BucketStart(k), BucketEnd(k))]
           sofar == [k \in 0..count |-> IF k = 0 THEN 0 ELSE W(RangeStart, BucketEnd(k))]
<1>1. count \in Nat \ {0} /\ clockNow \in Nat  BY IntervalNumbers DEF ReachabilityAssumption
<1>2. /\ RangeStart \in Int /\ BucketStart(1) = RangeStart
      /\ \A k \in 1..count : BucketStart(k) \in Int /\ BucketEnd(k) \in Int /\ BucketStart(k) <= BucketEnd(k)
      /\ \A k \in 1..count : RangeStart <= BucketStart(k)
      /\ \A k \in 1..count - 1 : BucketEnd(k) = BucketStart(k + 1)
  BY <1>1, Buckets
<1>3. \A a, b \in Int : W(a, b) \in Int  BY AddsAreNumbers
<1>4. \A a, b, c \in Int : a <= b /\ b <= c => W(a, c) = W(a, b) + W(b, c)  BY WindowsJoin
<1>5. Summed([k \in 1..BucketCount |-> TimeIn(states, BucketStart(k), BucketEnd(k))]) = Summed(bars)
  OBVIOUS
<1> HIDE DEF W
<1>6. bars \in [1..count -> Int] /\ sofar \in [0..count -> Int]
  <2>1. \A k \in 1..count : W(BucketStart(k), BucketEnd(k)) \in Int /\ W(RangeStart, BucketEnd(k)) \in Int  BY <1>2, <1>3
  <2>2. \A k \in 0..count : k # 0 => k \in 1..count  BY <1>1
  <2>3. bars \in [1..count -> Int]  BY <2>1
  <2>4. sofar \in [0..count -> Int]  BY <2>1, <2>2
  <2> QED  BY <2>3, <2>4
<1>7. bars \in Seq(Int) /\ Len(bars) = count  BY <1>1, <1>6
<1>8. ASSUME NEW k \in 1..count PROVE sofar[k] = sofar[k - 1] + bars[k]
  <2>1. k \in 0..count /\ k - 1 \in 0..count  BY <1>1
  <2>2. sofar[k] = W(RangeStart, BucketEnd(k)) /\ bars[k] = W(BucketStart(k), BucketEnd(k))  BY <1>1, <2>1
  <2>3. CASE k = 1
    <3>1. sofar[k - 1] = 0  BY <1>1, <2>3
    <3>2. bars[k] \in Int  BY <1>6
    <3>3. sofar[k] = bars[k]  BY <1>2, <2>2, <2>3
    <3> HIDE DEF sofar, bars
    <3> QED  BY <3>1, <3>2, <3>3
  <2>4. CASE k # 1
    <3>1. k - 1 \in 1..count - 1 /\ (k - 1) + 1 = k /\ k - 1 \in 1..count  BY <1>1, <2>4
    <3>2. sofar[k - 1] = W(RangeStart, BucketEnd(k - 1))  BY <2>1, <3>1
    <3>3. BucketEnd(k - 1) = BucketStart(k)  BY <1>2, <3>1
    <3>4. W(RangeStart, BucketEnd(k)) = W(RangeStart, BucketStart(k)) + W(BucketStart(k), BucketEnd(k))  BY <1>2, <1>4
    <3> HIDE DEF sofar, bars
    <3> QED  BY <2>2, <3>2, <3>3, <3>4
  <2> QED  BY <2>3, <2>4
<1>9. sofar[0] = 0 /\ sofar[count] = W(RangeStart, BucketEnd(count))  BY <1>1
<1> HIDE DEF sofar, bars
<1>10. Summed(bars) = sofar[count]  BY <1>6, <1>7, <1>8, <1>9, SumIs
<1> QED  BY <1>5, <1>9, <1>10 DEF W

\* Nothing is counted after now.
LEMMA NothingIsAhead ==
    ASSUME ReachTypes, OneTimeline, Ascends, NEW states, NEW from \in Int, NEW until \in Int, clockNow <= until
    PROVE  TimeIn(states, from, until) = TimeIn(states, from, clockNow)
PROOF
<1>1. clockNow \in Int /\ DOMAIN intervals = 1..Len(intervals)  BY IntervalNumbers
<1>2. ASSUME NEW k \in 1..Len(intervals)
      PROVE  Overlap(intervals[k], from, until) = Overlap(intervals[k], from, clockNow)
  <2> DEFINE i == intervals[k]
  <2>1. i.startedAt \in Int /\ EndOf(i) \in Int /\ EndOf(i) <= clockNow  BY Ends, IntervalNumbers
  <2> HIDE DEF i
  <2> DEFINE e == EndOf(i)
  <2>2. e \in Int /\ e <= clockNow /\ e <= until  BY <1>1, <2>1
  <2> HIDE DEF e
  <2>3. Min({e, until}) = e /\ Min({e, clockNow}) = e  BY <1>1, <2>2, Larger
  <2>4. Overlap(i, from, until) = Overlap(i, from, clockNow)  BY <2>3 DEF Overlap, e
  <2> QED  BY <2>4 DEF i
<1>3. Adds(states, from, until) = Adds(states, from, clockNow)  BY <1>1, <1>2 DEF Adds
<1> QED  BY <1>1, <1>3, AddsAreNumbers

\* Interval by interval, the whole of the window since the first one started is counted, once.
LEMMA AllIsCounted ==
    ASSUME ReachTypes, OneTimeline, Ascends, intervals # <<>>, NEW states, HostStates \subseteq states,
           NEW from \in Int, from <= clockNow
    PROVE  TimeIn(states, from, clockNow) = clockNow - Max({from, intervals[1].startedAt})
PROOF
<1> DEFINE n == Len(intervals)
           s == Adds(states, from, clockNow)
           since == IF from >= intervals[1].startedAt THEN from ELSE intervals[1].startedAt
           sofar == [k \in 0..n |-> IF k = 0 THEN 0 ELSE IF EndOf(intervals[k]) <= since THEN 0 ELSE EndOf(intervals[k]) - since]
<1>1. n \in Nat \ {0} /\ clockNow \in Int /\ \A k \in 1..n : intervals[k].startedAt \in Int /\ intervals[k].state \in states
  <2>1. n \in Nat /\ n # 0  BY IntervalNumbers
  <2> QED  BY <2>1, IntervalNumbers
<1>2. 1 \in 1..n /\ n \in 1..n  BY <1>1
<1>3. since \in Int /\ from <= since /\ since <= clockNow /\ intervals[1].startedAt <= since
      /\ Max({from, intervals[1].startedAt}) = since
  <2>1. intervals[1].startedAt \in Int /\ intervals[1].startedAt <= clockNow  BY <1>1, <1>2 DEF Ascends
  <2>2. Max({from, intervals[1].startedAt}) = since  BY <2>1, Larger
  <2> QED  BY <1>1, <2>1, <2>2
<1>4. \A k \in 1..n : EndOf(intervals[k]) \in Int /\ EndOf(intervals[k]) <= clockNow  BY Ends
<1>5. s \in Seq(Int) /\ Len(s) = n /\ TimeIn(states, from, clockNow) = Summed(s)  BY <1>1, AddsAreNumbers
<1>6. \A k \in 1..n : s[k] = Overlap(intervals[k], from, clockNow)  BY <1>1, AddsAreNumbers
<1>7. since = from \/ since = intervals[1].startedAt  OBVIOUS
<1> HIDE DEF since, s
<1>8. sofar \in [0..n -> Int] /\ sofar[0] = 0
  <2>1. \A k \in 0..n : k # 0 => k \in 1..n  BY <1>1
  <2> QED  BY <1>1, <1>3, <1>4, <2>1
<1>9. \A k \in 1..n : sofar[k] = IF EndOf(intervals[k]) <= since THEN 0 ELSE EndOf(intervals[k]) - since  BY <1>1
<1> HIDE DEF sofar
<1>10. ASSUME NEW k \in 1..n PROVE sofar[k] = sofar[k - 1] + s[k]
  <2> DEFINE b == intervals[k].startedAt
             e == EndOf(intervals[k])
  <2>1. b \in Int /\ e \in Int /\ e <= clockNow  BY <1>1, <1>4
  <2>2. s[k] = LET l == IF b >= from THEN b ELSE from IN IF e <= l THEN 0 ELSE e - l
    <3>1. Overlap(intervals[k], from, clockNow) =
             LET l == IF b >= from THEN b ELSE from
                 r == IF e <= clockNow THEN e ELSE clockNow
             IN  IF r <= l THEN 0 ELSE r - l
      <4> DEFINE i == intervals[k]
      <4>1. i.startedAt \in Int /\ EndOf(i) \in Int  BY <2>1
      <4> HIDE DEF i
      <4>2. Overlap(i, from, clockNow) =
               LET l == IF i.startedAt >= from THEN i.startedAt ELSE from
                   r == IF EndOf(i) <= clockNow THEN EndOf(i) ELSE clockNow
               IN  IF r <= l THEN 0 ELSE r - l
        BY <1>1, <4>1, OverlapIs
      <4> QED  BY <4>2 DEF i
    <3> QED  BY <1>6, <2>1, <3>1
  <2>3. intervals[1].startedAt <= b  BY <1>1, <1>2 DEF Ascends
  <2>4. b <= e
    <3>1. e = IF k = n THEN clockNow ELSE intervals[k + 1].startedAt  BY Ends
    <3>2. b <= clockNow  BY <1>1 DEF Ascends
    <3>3. k # n => k + 1 \in 1..n /\ k <= k + 1  BY <1>1
    <3>4. k # n => b <= intervals[k + 1].startedAt  BY <3>3 DEF Ascends
    <3> QED  BY <3>1, <3>2, <3>4
  <2>5. sofar[k] = IF e <= since THEN 0 ELSE e - since  BY <1>9
  <2>6. CASE k = 1
    <3>1. b = intervals[1].startedAt /\ sofar[k - 1] = 0  BY <1>8, <2>6
    <3> HIDE DEF b, e
    <3> QED  BY <1>3, <1>7, <2>1, <2>2, <2>4, <2>5, <3>1
  <2>7. CASE k # 1
    <3>1. k - 1 \in 1..n /\ k - 1 # n /\ (k - 1) + 1 = k  BY <1>1, <2>7
    <3>2. EndOf(intervals[k - 1]) = b  BY <3>1, Ends
    <3>3. sofar[k - 1] = IF b <= since THEN 0 ELSE b - since  BY <1>9, <3>1, <3>2
    <3> DEFINE first == intervals[1].startedAt
    <3>4. first \in Int /\ first <= b /\ first <= since /\ (since = from \/ since = first)  BY <1>1, <1>2, <1>3, <1>7, <2>3
    <3> HIDE DEF b, e, first
    <3> QED  BY <1>3, <2>1, <2>2, <2>4, <2>5, <3>3, <3>4
  <2> QED  BY <2>6, <2>7
<1>11. Summed(s) = sofar[n]  BY <1>5, <1>8, <1>10, SumIs
<1>12. EndOf(intervals[n]) = clockNow  BY <1>2, Ends
<1>13. sofar[n] = clockNow - since
  <2>1. sofar[n] = IF clockNow <= since THEN 0 ELSE clockNow - since  BY <1>2, <1>9, <1>12
  <2> QED  BY <1>1, <1>3, <2>1
<1> QED  BY <1>3, <1>5, <1>11, <1>13

\* x seconds are a time, but for half a second for each of some roundings.
Near(x, time, roundings) ==
    2 * (Second * x - time) <= Second * roundings /\ 2 * (time - Second * x) <= Second * roundings

\* Rounding is off by half a second at most.
LEMMA RoundedIs ==
    ASSUME ReachabilityAssumption, NEW time \in Nat
    PROVE  Rounded(time) \in Int /\ Near(Rounded(time), time, 1) /\ Rounded(0) = 0
PROOF
<1> DEFINE unit == 2 * Second
           q == (2 * time + Second) \div unit
<1>1. Second \in Nat /\ Second > 0 /\ unit \in Nat /\ unit > 0  BY DEF ReachabilityAssumption
<1>2. \A n \in Nat, d \in Nat : d > 0 => n \div d \in Nat /\ d * (n \div d) <= n /\ n < d * (n \div d) + d  BY Z3
<1>3. 2 * time + Second \in Nat  BY <1>1
<1> HIDE DEF unit
<1>4. q \in Nat /\ unit * q <= 2 * time + Second /\ 2 * time + Second < unit * q + unit  BY <1>1, <1>2, <1>3
<1>5. Rounded(time) = q  BY DEF Rounded, unit
<1> HIDE DEF q
<1>6. unit * q = 2 * (Second * q) /\ Second * q \in Int  BY <1>1, <1>4 DEF unit
<1>7. Near(q, time, 1)
  <2> DEFINE p == Second * q
  <2>1. p \in Int /\ 2 * p <= 2 * time + Second /\ 2 * time + Second < 2 * p + 2 * Second  BY <1>4, <1>6 DEF unit
  <2> HIDE DEF p
  <2>2. 2 * (p - time) <= Second * 1 /\ 2 * (time - p) <= Second * 1  BY <1>1, <2>1
  <2> QED  BY <2>2 DEF Near, p
<1>8. Rounded(0) = 0
  <2> DEFINE z == Second \div unit
  <2>1. z \in Nat /\ unit * z <= Second  BY <1>1, <1>2
  <2>2. unit = Second + Second  BY <1>1 DEF unit
  <2> HIDE DEF z
  <2>3. z = 0
    <3>1. CASE z >= 1
      <4>1. unit * z >= unit  BY <1>1, <2>1, <3>1
      <4> QED  BY <1>1, <2>1, <2>2, <4>1
    <3> QED  BY <2>1, <3>1
  <2>4. 2 * 0 + Second = Second  BY <1>1
  <2> QED  BY <2>3, <2>4 DEF Rounded, z, unit
<1> QED  BY <1>4, <1>5, <1>7, <1>8

\* So is a sum of seconds, for the sum of the roundings.
LEMMA SumsNear ==
    ASSUME ReachabilityAssumption, NEW s \in Seq(Int), NEW t \in Seq(Int), NEW u \in Seq(Int),
           Len(t) = Len(s), Len(u) = Len(s), \A n \in 1..Len(s) : Near(s[n], t[n], u[n])
    PROVE  Near(Summed(s), Summed(t), Summed(u)) /\ Summed(s) \in Int /\ Summed(t) \in Int /\ Summed(u) \in Int
PROOF
<1> DEFINE N == Len(s)
<1>1. N \in Nat /\ Second \in Int  BY DEF ReachabilityAssumption
<1>2. PICK f \in [0..N -> Int] : f[0] = 0 /\ (\A n \in 1..N : f[n] = f[n - 1] + s[n]) /\ Summed(s) = f[N]  BY SumOfList
<1>3. PICK g \in [0..N -> Int] : g[0] = 0 /\ (\A n \in 1..N : g[n] = g[n - 1] + t[n]) /\ Summed(t) = g[N]  BY SumOfList
<1>4. PICK h \in [0..N -> Int] : h[0] = 0 /\ (\A n \in 1..N : h[n] = h[n - 1] + u[n]) /\ Summed(u) = h[N]  BY SumOfList
<1> DEFINE S == {n \in Nat : n <= N => Near(f[n], g[n], h[n])}
<1>5. 0 \in S  BY <1>1, <1>2, <1>3, <1>4 DEF Near
<1>6. ASSUME NEW n \in Nat, n \in S PROVE n + 1 \in S
  <2>1. CASE n + 1 <= N
    <3>0. n + 1 \in 1..N /\ (n + 1) - 1 = n /\ n \in 0..N /\ n <= N
      <4> HIDE DEF N, S
      <4> QED  BY <1>1, <2>1
    <3>1. n + 1 \in 1..N /\ (n + 1) - 1 = n /\ n \in 0..N /\ Near(f[n], g[n], h[n])
      <4>1. Near(f[n], g[n], h[n])  BY <1>6, <3>0, Zenon
      <4> QED  BY <3>0, <4>1
    <3> DEFINE a == f[n] b == g[n] c == h[n] x == s[n + 1] y == t[n + 1] z == u[n + 1]
    <3>2. f[n + 1] = a + x /\ g[n + 1] = b + y /\ h[n + 1] = c + z  BY <1>2, <1>3, <1>4, <3>1
    <3>3. a \in Int /\ b \in Int /\ c \in Int /\ x \in Int /\ y \in Int /\ z \in Int
      <4>1. x \in Int /\ y \in Int /\ z \in Int
        <5>1. \A k \in 1..Len(s) : s[k] \in Int  OBVIOUS
        <5>2. \A k \in 1..Len(t) : t[k] \in Int  OBVIOUS
        <5>3. \A k \in 1..Len(u) : u[k] \in Int  OBVIOUS
        <5> QED  BY <3>1, <5>1, <5>2, <5>3, Zenon
      <4> HIDE DEF N, S, x, y, z
      <4> QED  BY <1>2, <1>3, <1>4, <3>1, <4>1
    <3>4. Near(a, b, c) /\ Near(x, y, z)  BY <3>1
    <3> HIDE DEF a, b, c, x, y, z, S
    <3>5. Near(a + x, b + y, c + z)
      <4> DEFINE sa == Second * a sx == Second * x sc == Second * c sz == Second * z
      <4>1. Second * (a + x) = sa + sx /\ Second * (c + z) = sc + sz  BY <1>1, <3>3
      <4>2. sa \in Int /\ sx \in Int /\ sc \in Int /\ sz \in Int  BY <1>1, <3>3
      <4>3. 2 * (sa - b) <= sc /\ 2 * (b - sa) <= sc /\ 2 * (sx - y) <= sz /\ 2 * (y - sx) <= sz  BY <3>4 DEF Near
      <4> HIDE DEF sa, sx, sc, sz
      <4>4. 2 * ((sa + sx) - (b + y)) <= sc + sz /\ 2 * ((b + y) - (sa + sx)) <= sc + sz  BY <3>3, <4>2, <4>3
      <4> QED  BY <4>1, <4>4 DEF Near
    <3>6. Near(f[n + 1], g[n + 1], h[n + 1])  BY <3>2, <3>5
    <3> QED  BY <3>6 DEF S
  <2>2. CASE ~(n + 1 <= N)  BY <2>2
  <2> QED  BY <2>1, <2>2
<1>7. \A n \in Nat : n \in S
  <2> HIDE DEF S
  <2> QED  BY <1>5, <1>6, EveryNumber
<1>8. Near(f[N], g[N], h[N])
  <2>1. N \in S  BY <1>1, <1>7, Zenon
  <2>2. N <= N
    <3> HIDE DEF N, S
    <3> QED  BY <1>1
  <2> QED  BY <2>1, <2>2, Zenon
<1>9. f[N] \in Int /\ g[N] \in Int /\ h[N] \in Int  BY <1>1, <1>2, <1>3, <1>4
<1> QED  BY <1>2, <1>3, <1>4, <1>8, <1>9

\* What a window shows is its time, rounded an interval at a time.
LEMMA WindowNear ==
    ASSUME ReachabilityAssumption, ReachTypes, OneTimeline, Ascends, NEW states, NEW from \in Int, NEW until \in Int
    PROVE  /\ Near(RollUpWindow(states, from, until), TimeIn(states, from, until), Roundings(states, from, until))
           /\ RollUpWindow(states, from, until) \in Int /\ Roundings(states, from, until) \in Int
PROOF
<1> DEFINE n == Len(intervals)
           t == Adds(states, from, until)
           s == [k \in 1..n |-> IF intervals[k].state \in states THEN OverlapSeconds(intervals[k], from, until) ELSE 0]
           u == [k \in 1..n |-> IF intervals[k].state \in states /\ Overlap(intervals[k], from, until) > 0 THEN 1 ELSE 0]
<1>1. n \in Nat /\ DOMAIN intervals = 1..n  BY IntervalNumbers
<1>2. t \in Seq(Int) /\ Len(t) = n /\ TimeIn(states, from, until) = Summed(t)
      /\ \A k \in 1..n : t[k] = IF intervals[k].state \in states THEN Overlap(intervals[k], from, until) ELSE 0
  BY AddsAreNumbers
<1>3. RollUpWindow(states, from, until) = Summed(s) /\ Roundings(states, from, until) = Summed(u)
  BY <1>1 DEF RollUpWindow, Roundings
<1> HIDE DEF t
<1>4. ASSUME NEW k \in 1..n PROVE s[k] \in Int /\ u[k] \in Int /\ Near(s[k], t[k], u[k])
  <2> DEFINE o == Overlap(intervals[k], from, until)
             counted == intervals[k].state \in states
  <2>1. o \in Nat
    <3> DEFINE i == intervals[k]
    <3>1. i.startedAt \in Int /\ EndOf(i) \in Int  BY Ends, IntervalNumbers
    <3> HIDE DEF i
    <3>2. Overlap(i, from, until) \in Int /\ Overlap(i, from, until) >= 0
      <4> DEFINE a == IF i.startedAt >= from THEN i.startedAt ELSE from
                 b == IF EndOf(i) <= until THEN EndOf(i) ELSE until
      <4>1. Overlap(i, from, until) = IF b <= a THEN 0 ELSE b - a  BY <3>1, OverlapIs
      <4>2. a \in Int /\ b \in Int  BY <3>1
      <4> HIDE DEF a, b
      <4> QED  BY <4>1, <4>2
    <3> QED  BY <3>2 DEF i
  <2>2. s[k] = (IF counted THEN Rounded(o) ELSE 0) /\ u[k] = (IF counted /\ o > 0 THEN 1 ELSE 0) /\ t[k] = (IF counted THEN o ELSE 0)
    BY <1>2 DEF OverlapSeconds
  <2>3. Second \in Int  BY DEF ReachabilityAssumption
  <2> HIDE DEF o, counted, s, u
  <2>4. CASE counted /\ o > 0
    <3>1. Rounded(o) \in Int /\ Near(Rounded(o), o, 1)  BY <2>1, RoundedIs
    <3> QED  BY <2>2, <2>4, <3>1
  <2>5. CASE ~(counted /\ o > 0)
    <3>1. s[k] = 0 /\ t[k] = 0 /\ u[k] = 0
      <4>1. CASE counted
        <5>1. o = 0 /\ Rounded(0) = 0  BY <2>1, <2>5, <4>1, RoundedIs
        <5> QED  BY <2>2, <2>5, <5>1
      <4> QED  BY <2>2, <2>5, <4>1
    <3> QED  BY <2>3, <3>1 DEF Near
  <2> QED  BY <2>4, <2>5
<1>5. s \in Seq(Int) /\ u \in Seq(Int) /\ Len(s) = n /\ Len(u) = n
  <2>1. DOMAIN s = 1..n /\ DOMAIN u = 1..n /\ s = [k \in 1..n |-> s[k]] /\ u = [k \in 1..n |-> u[k]]  OBVIOUS
  <2> HIDE DEF s, u
  <2> QED  BY <1>1, <1>4, <2>1
<1> HIDE DEF s, u
<1>6. Near(Summed(s), Summed(t), Summed(u)) /\ Summed(s) \in Int /\ Summed(u) \in Int  BY <1>2, <1>4, <1>5, SumsNear
<1> QED  BY <1>2, <1>3, <1>6

\* And the bars together, a bar at a time, are the time of the range.
LEMMA BarsNear ==
    ASSUME ReachabilityAssumption, ReachTypes, OneTimeline, Ascends, NEW states
    PROVE  /\ Near(BarsTotal(states), TimeIn(states, RangeStart, clockNow), BarRoundings(states))
           /\ BarsTotal(states) \in Int /\ BarRoundings(states) \in Int
PROOF
<1> DEFINE n == BucketCount
           s == [k \in 1..n |-> RollUpWindow(states, BucketStart(k), BucketEnd(k))]
           t == [k \in 1..n |-> TimeIn(states, BucketStart(k), BucketEnd(k))]
           u == [k \in 1..n |-> Roundings(states, BucketStart(k), BucketEnd(k))]
<1>1. n \in Nat \ {0} /\ clockNow \in Nat  BY IntervalNumbers DEF ReachabilityAssumption
<1>2. /\ RangeStart \in Int /\ clockNow <= BucketEnd(n) /\ \A k \in 1..n : BucketStart(k) \in Int /\ BucketEnd(k) \in Int
  BY <1>1, Buckets
<1>3. ASSUME NEW k \in 1..n PROVE s[k] \in Int /\ t[k] \in Int /\ u[k] \in Int /\ Near(s[k], t[k], u[k])
  <2>1. BucketStart(k) \in Int /\ BucketEnd(k) \in Int  BY <1>2
  <2>2. TimeIn(states, BucketStart(k), BucketEnd(k)) \in Int  BY <2>1, AddsAreNumbers
  <2> QED  BY <2>1, <2>2, WindowNear
<1>4. s \in Seq(Int) /\ t \in Seq(Int) /\ u \in Seq(Int) /\ Len(s) = n /\ Len(t) = n /\ Len(u) = n
  <2>1. s = [k \in 1..n |-> s[k]] /\ t = [k \in 1..n |-> t[k]] /\ u = [k \in 1..n |-> u[k]]  OBVIOUS
  <2> HIDE DEF n, s, t, u
  <2>2. s \in [1..n -> Int] /\ t \in [1..n -> Int] /\ u \in [1..n -> Int]
    <3>1. \A k \in 1..n : s[k] \in Int /\ t[k] \in Int /\ u[k] \in Int  BY <1>3
    <3> QED  BY <2>1, <3>1
  <2> QED  BY <1>1, <2>2
<1>5. BarsTotal(states) = Summed(s) /\ BarRoundings(states) = Summed(u)  BY DEF BarsTotal, BarRoundings
<1>6. Summed(t) = TimeIn(states, RangeStart, BucketEnd(n))  BY BarsReach
<1>7. TimeIn(states, RangeStart, BucketEnd(n)) = TimeIn(states, RangeStart, clockNow)
  <2>1. n \in 1..n  BY <1>1
  <2> QED  BY <1>2, <2>1, NothingIsAhead
<1> HIDE DEF s, t, u
<1>8. Near(Summed(s), Summed(t), Summed(u)) /\ Summed(s) \in Int /\ Summed(u) \in Int  BY <1>3, <1>4, SumsNear
<1> QED  BY <1>5, <1>6, <1>7, <1>8

\* So the page's bars and its figure agree but for the roundings, and leave out nothing since the first check.
LEMMA BarsAreRight ==
    ASSUME ReachabilityAssumption, ReachTypes, OneTimeline, Ascends
    PROVE  BarsAddUp
PROOF
<1>1. clockNow \in Nat  BY IntervalNumbers
<1>2. RangeStart \in Int /\ RangeStart <= clockNow  BY <1>1, Buckets
<1>3. ASSUME NEW states
      PROVE  LET halves == BarRoundings(states) + Roundings(states, RangeStart, clockNow) IN
             /\ 2 * (BarsTotal(states) - Availability(states)) <= halves
             /\ 2 * (Availability(states) - BarsTotal(states)) <= halves
  <2> DEFINE a == Availability(states) b == BarsTotal(states) time == TimeIn(states, RangeStart, clockNow)
             x == Roundings(states, RangeStart, clockNow) y == BarRoundings(states)
  <2>1. Near(b, time, y) /\ b \in Int /\ y \in Int  BY BarsNear
  <2>2. Near(a, time, x) /\ a \in Int /\ x \in Int  BY <1>1, <1>2, WindowNear DEF Availability
  <2>3. time \in Int  BY <1>1, <1>2, AddsAreNumbers
  <2>4. Second \in Nat /\ Second > 0  BY DEF ReachabilityAssumption
  <2> HIDE DEF a, b, x, y, time
  <2>5. Second * (2 * (b - a)) <= Second * (y + x) /\ Second * (2 * (a - b)) <= Second * (y + x)
    <3> DEFINE sa == Second * a sb == Second * b sx == Second * x sy == Second * y
    <3>1. /\ Second * (2 * (b - a)) = 2 * (sb - sa) /\ Second * (2 * (a - b)) = 2 * (sa - sb)
          /\ Second * (y + x) = sy + sx
      BY <2>1, <2>2, <2>4
    <3>2. sa \in Int /\ sb \in Int /\ sx \in Int /\ sy \in Int  BY <2>1, <2>2, <2>4
    <3>3. 2 * (sb - time) <= sy /\ 2 * (time - sb) <= sy /\ 2 * (sa - time) <= sx /\ 2 * (time - sa) <= sx
      BY <2>1, <2>2 DEF Near
    <3> HIDE DEF sa, sb, sx, sy
    <3>4. 2 * (sb - sa) <= sy + sx /\ 2 * (sa - sb) <= sy + sx  BY <2>3, <3>2, <3>3
    <3> QED  BY <3>1, <3>4
  <2>6. \A p, q \in Int : Second * p <= Second * q => p <= q
    <3> SUFFICES ASSUME NEW p \in Int, NEW q \in Int, Second * p <= Second * q, q < p PROVE FALSE  BY <2>4
    <3> DEFINE d == p - q
    <3>1. d \in Int /\ d >= 1 /\ p = q + d  OBVIOUS
    <3> HIDE DEF d
    <3>2. Second * p = Second * q + Second * d /\ Second * q \in Int /\ Second * d >= Second /\ Second * d \in Int
      BY <2>4, <3>1
    <3> QED  BY <2>4, <3>2
  <2>7. 2 * (b - a) <= y + x /\ 2 * (a - b) <= y + x
    <3>1. 2 * (b - a) \in Int /\ 2 * (a - b) \in Int /\ y + x \in Int  BY <2>1, <2>2
    <3> QED  BY <2>5, <2>6, <3>1
  <2> QED  BY <2>7 DEF a, b, x, y
<1>4. ASSUME intervals # <<>>
      PROVE  LET all == GoodStates \cup BadStates \cup UnknownStates
                 whole == clockNow - Max({RangeStart, intervals[1].startedAt})
                 halves == Roundings(all, RangeStart, clockNow)
             IN  /\ 2 * (Second * Availability(all) - whole) <= Second * halves
                 /\ 2 * (whole - Second * Availability(all)) <= Second * halves
  <2> DEFINE states == GoodStates \cup BadStates \cup UnknownStates
  <2>1. HostStates \subseteq states  BY DEF HostStates, GoodStates, BadStates, UnknownStates
  <2> HIDE DEF states
  <2>2. TimeIn(states, RangeStart, clockNow) = clockNow - Max({RangeStart, intervals[1].startedAt})
    BY <1>2, <1>4, <2>1, AllIsCounted
  <2>3. Near(Availability(states), TimeIn(states, RangeStart, clockNow), Roundings(states, RangeStart, clockNow))
    BY <1>1, <1>2, WindowNear DEF Availability
  <2> QED  BY <2>2, <2>3 DEF Near, states
<1> QED  BY <1>3, <1>4 DEF BarsAddUp

\* The status page is honest (availabilityOver, rollUpBuckets): reachability is recorded as the checks found it, and the
\* page's bars add up to its figures and to the time since the first check, but for half a second for each overlap
\* rounded, for any range, size of bars and length of the record.
THEOREM StatusPageIsHonest == ReachSpec => []ReachabilityIsHonest
PROOF
<1> DEFINE Inv == ReachInv /\ Ascends
<1>1. ReachInit => Inv
  <2>1. ReachInit => ReachInv  BY ReachStarts
  <2>2. ReachInit => Ascends
    <3> SUFFICES ASSUME ReachInit PROVE Ascends  OBVIOUS
    <3>1. intervals = <<>>  BY DEF ReachInit
    <3>2. Len(intervals) = 0  BY <3>1
    <3> QED  BY <3>2 DEF Ascends
  <2> QED  BY <2>1, <2>2
<1>2. Inv /\ [ReachNext]_reachVars => Inv'
  <2> SUFFICES ASSUME ReachInv, Ascends, [ReachNext]_reachVars PROVE ReachInv' /\ Ascends'  OBVIOUS
  <2>1. ReachInv'  BY ReachStays, ReachabilityAssumption
  <2>2. Ascends'  BY AscendsStep DEF ReachInv
  <2> QED  BY <2>1, <2>2
<1>3. Inv => ReachabilityIsHonest
  <2> SUFFICES ASSUME ReachInv, Ascends PROVE ReachabilityIsHonest  OBVIOUS
  <2>1. ReachabilityIsRecorded  BY ReachImplies, ReachabilityAssumption
  <2>2. BarsAddUp  BY BarsAreRight, ReachabilityAssumption DEF ReachInv
  <2> QED  BY <2>1, <2>2 DEF ReachabilityIsHonest
<1> QED  BY <1>1, <1>2, <1>3, PTL DEF ReachSpec

-----------------------------------------------------------------------------
(***************************************************************************)
(* ConfigForms, for any number of pages, forms, fields, saved versions and *)
(* faults.  The invariant follows a draft on its way: what a form shows    *)
(* differs from the version it was taken from only where it was edited, a  *)
(* save carries such a draft to the host under the claim, and the version it *)
(* inserts is the draft.                                                   *)
(***************************************************************************)
USE FormsAssumption

Settings == {Unset, Unfit, "a", "b"}
Config == [document : [ConfigFields -> Settings], edited : SUBSET ConfigFields]
FormOf(tab) == [draft : [Own(tab) -> Settings], savedVersion : Nat, edited : SUBSET Own(tab),
                refreshing : BOOLEAN]
SaveOf(tab) == [at : {"sent", "writing", "saved", "conflict"}, draft : [Own(tab) -> Settings],
                expectedVersion : Nat, edited : SUBSET Own(tab)]

\* A draft differs from the version it was taken from only where it was edited.
Follows(tab, draft, version, edited) ==
    \A field \in Own(tab) : draft[field] # configs[version].document[field] => field \in edited

GoodForm(tab, form) ==
    /\ form \in FormOf(tab) /\ form.savedVersion \in 1..Latest
    /\ Follows(tab, form.draft, form.savedVersion, form.edited)

\* A save carries such a draft, with nothing unfit in it; while it is written to the host the
\* form holds the claim and nobody else saves; and once saved it is the version it made.
GoodSave(tab, save) ==
    /\ save \in SaveOf(tab) /\ save.expectedVersion \in 1..Latest
    /\ save.at \in {"sent", "writing"} =>
         /\ Follows(tab, save.draft, save.expectedVersion, save.edited)
         /\ \A field \in Own(tab) : save.draft[field] # Unfit
    /\ save.at = "writing" => configClaim = tab /\ save.expectedVersion = Latest
    /\ save.at = "saved" => \A field \in Own(tab) :
         save.draft[field] = configs[save.expectedVersion].document[field]

ConfigsOK == configs \in Seq(Config) /\ Latest >= 1 /\ cached \in [Viewers -> 1..Latest]
FormsOK == DOMAIN forms = Tabs /\ \A tab \in Tabs : GoodForm(tab, forms[tab])
SavesOK ==
    DOMAIN saves = Tabs /\ \A tab \in Tabs : saves[tab] = NoSave \/ GoodSave(tab, saves[tab])
NothingUnfit == \A k \in 1..Latest : \A field \in ConfigFields : configs[k].document[field] # Unfit

FormsInv == ConfigsOK /\ FormsOK /\ SavesOK /\ NothingUnfit /\ OnlyEditsAreSaved

-----------------------------------------------------------------------------
LEMMA OwnFields == \A tab \in Tabs : Own(tab) \subseteq ConfigFields /\ tab[1] \in Viewers
  BY DEF Own, ConfigFields

\* A form that starts anew shows the version it is given.
LEMMA Anew ==
    ASSUME ConfigsOK, NEW tab \in Tabs, NEW version \in 1..Latest
    PROVE  GoodForm(tab, DraftFrom(tab, version))
  <1>1. configs[version] \in Config
      BY DEF ConfigsOK, Latest
  <1>2. DraftFrom(tab, version) \in FormOf(tab)
      BY <1>1, OwnFields DEF DraftFrom, FormOf, Config
  <1>3. QED
      BY <1>2 DEF DraftFrom, GoodForm, Follows

LEMMA FormsBegin == FormsInit => FormsInv
  <1> SUFFICES ASSUME FormsInit PROVE FormsInv
      OBVIOUS
  <1> DEFINE c == [document |-> [field \in ConfigFields |-> IF field \in BotFields THEN Unset ELSE "a"],
                   edited |-> {}]
  <1>1. c \in Config
      BY DEF Config, Settings
  <1>2. configs = <<c>>
      BY DEF FormsInit
  <1>3. /\ configs \in Seq(Config) /\ Latest = 1 /\ configs[1] = c
    <2> HIDE DEF c
    <2> QED
        BY <1>1, <1>2 DEF Latest
  <1>4. \A field \in ConfigFields : c.document[field] # Unfit
      BY DEF Unfit, Unset
  <1>5. \A tab \in Tabs : saves[tab] = NoSave /\ forms[tab] = DraftFrom(tab, 1)
      BY DEF FormsInit
  <1> HIDE DEF c
  <1>6. ConfigsOK
      BY <1>3 DEF ConfigsOK, FormsInit
  <1>7. FormsOK
      BY <1>3, <1>5, <1>6, Anew DEF FormsOK, FormsInit
  <1>8. SavesOK
      BY <1>5 DEF SavesOK, FormsInit
  <1>9. NothingUnfit /\ OnlyEditsAreSaved
      BY <1>3, <1>4 DEF NothingUnfit, OnlyEditsAreSaved
  <1>10. QED
      BY <1>6, <1>7, <1>8, <1>9 DEF FormsInv

-----------------------------------------------------------------------------

-----------------------------------------------------------------------------
\* A form that is replaced by one in order, while nothing is saved.
LEMMA FormChanges ==
    ASSUME FormsOK, UNCHANGED configs, NEW tab \in Tabs, NEW form, GoodForm(tab, form),
           forms' = [forms EXCEPT ![tab] = form]
    PROVE  FormsOK'
  <1>1. \A t \in Tabs : GoodForm(t, forms'[t])
      BY DEF FormsOK
  <1>2. \A t \in Tabs : GoodForm(t, forms[t])'
      BY <1>1 DEF GoodForm, FormOf, Follows, Latest, Own
  <1>3. QED
      BY <1>2 DEF FormsOK

\* A save that is replaced by one in order: the claim changes hands only when no other form
\* is writing.
LEMMA SaveChanges ==
    ASSUME SavesOK, UNCHANGED configs, NEW tab \in Tabs, NEW save,
           saves' = [saves EXCEPT ![tab] = save], save = NoSave \/ GoodSave(tab, save)',
           \A t \in Tabs : t # tab /\ saves[t].at = "writing" => UNCHANGED configClaim
    PROVE  SavesOK'
  <1>1. saves'[tab] = save /\ DOMAIN saves' = Tabs
      BY DEF SavesOK
  <1>2. ASSUME NEW t \in Tabs, t # tab, saves[t] # NoSave PROVE GoodSave(t, saves[t])'
    <2>1. saves'[t] = saves[t] /\ GoodSave(t, saves[t])
        BY <1>2 DEF SavesOK
    <2>2. QED
        BY <1>2, <2>1 DEF GoodSave, SaveOf, Follows, Latest, Own
  <1>3. \A t \in Tabs : t # tab => saves'[t] = saves[t]
      BY DEF SavesOK
  <1>4. \A t \in Tabs : saves'[t] = NoSave \/ GoodSave(t, saves[t])'
      BY <1>1, <1>2, <1>3
  <1>5. QED
      BY <1>1, <1>4 DEF SavesOK

\* Nothing changes in the saves.
LEMMA SavesStay ==
    ASSUME SavesOK, UNCHANGED <<configs, saves, configClaim>>
    PROVE  SavesOK'
  BY DEF SavesOK, GoodSave, SaveOf, Follows, Latest, Own, NoSave

LEMMA FormsStay == FormsOK /\ UNCHANGED <<configs, forms>> => FormsOK'
  BY DEF FormsOK, GoodForm, FormOf, Follows, Latest, Own

\* Nothing is saved: the rows are as they were.
LEMMA ConfigsStay ==
    ASSUME FormsInv, UNCHANGED configs, cached' \in [Viewers -> 1..Latest]
    PROVE  ConfigsOK' /\ NothingUnfit' /\ OnlyEditsAreSaved'
  BY DEF FormsInv, ConfigsOK, NothingUnfit, OnlyEditsAreSaved, Latest

\* The row a save inserts: the form's own half is the draft, which was taken from the latest row,
\* and the other half is the latest row's.
LEMMA RowInserted ==
    ASSUME FormsInv, NEW tab \in Tabs, InsertVersion(tab)
    PROVE  FormsInv'
  <1> DEFINE rec == [document |-> Composed(tab), edited |-> saves[tab].edited]
  <1>0. /\ ConfigsOK /\ FormsOK /\ SavesOK /\ NothingUnfit /\ OnlyEditsAreSaved
        /\ UNCHANGED <<cached, forms>> /\ saves[tab].at = "writing"
        /\ saves' = [saves EXCEPT ![tab] = [saves[tab] EXCEPT !.at = "saved",
                                                           !.expectedVersion = Latest + 1]]
        /\ configs' = Append(configs, rec)
      BY DEF FormsInv, InsertVersion
  <1>1. GoodSave(tab, saves[tab])
      BY <1>0 DEF SavesOK, NoSave
  <1>2. /\ configClaim = tab /\ saves[tab].expectedVersion = Latest /\ saves[tab] \in SaveOf(tab)
        /\ Follows(tab, saves[tab].draft, Latest, saves[tab].edited)
        /\ \A field \in Own(tab) : saves[tab].draft[field] # Unfit
      BY <1>0, <1>1 DEF GoodSave
  <1>3. Latest \in Nat /\ Latest >= 1 /\ configs[Latest] \in Config
      BY <1>0 DEF ConfigsOK, Latest
  <1>4. /\ \A field \in Own(tab) : Composed(tab)[field] = saves[tab].draft[field]
        /\ \A field \in ConfigFields \ Own(tab) :
             Composed(tab)[field] = configs[Latest].document[field]
      BY OwnFields DEF Composed
  <1>5. rec \in Config
    <2>1. saves[tab].draft \in [Own(tab) -> Settings] /\ saves[tab].edited \subseteq ConfigFields
        BY <1>2, OwnFields DEF SaveOf
    <2>2. Composed(tab) \in [ConfigFields -> Settings]
        BY <1>3, <2>1 DEF Composed, Config
    <2>3. QED
        BY <2>1, <2>2 DEF Config
  <1>6. \A field \in ConfigFields :
           /\ Composed(tab)[field] # Unfit
           /\ Composed(tab)[field] # configs[Latest].document[field] => field \in saves[tab].edited
    <2>1. \A field \in ConfigFields : configs[Latest].document[field] # Unfit
        BY <1>0, <1>3 DEF NothingUnfit
    <2>2. QED
        BY <1>2, <1>4, <2>1 DEF Follows
  <1>7. /\ rec.document = Composed(tab) /\ rec.edited = saves[tab].edited
      OBVIOUS
  <1>8. PICK r \in Config : r = rec
      BY <1>5
  <1>9. /\ configs' \in Seq(Config) /\ Latest' = Latest + 1 /\ configs'[Latest + 1] = r
        /\ \A k \in 1..Latest : configs'[k] = configs[k]
    <2> HIDE DEF rec
    <2> QED
        BY <1>0, <1>8 DEF ConfigsOK, Latest
  <1>10. /\ r.document = Composed(tab) /\ r.edited = saves[tab].edited
      BY <1>7, <1>8
  <1> HIDE DEF rec
  <1>11. ConfigsOK'
    <2>1. cached \in [Viewers -> 1..Latest] /\ 1..Latest \subseteq 1..(Latest + 1)
        BY <1>0, <1>3 DEF ConfigsOK
    <2>2. QED
        BY <1>0, <1>3, <1>9, <2>1 DEF ConfigsOK
  <1>12. FormsOK'
    <2>1. ASSUME NEW t \in Tabs PROVE GoodForm(t, forms[t])'
      <3>1. GoodForm(t, forms[t]) /\ forms' = forms
          BY <1>0 DEF FormsOK
      <3>2. forms[t].savedVersion \in 1..Latest /\ forms[t].savedVersion \in 1..(Latest + 1)
          BY <1>3, <3>1 DEF GoodForm
      <3>3. configs'[forms[t].savedVersion] = configs[forms[t].savedVersion]
          BY <1>9, <3>2
      <3>4. QED
          BY <1>9, <3>1, <3>2, <3>3 DEF GoodForm, FormOf, Follows, Own
    <2>2. QED
        BY <1>0, <2>1 DEF FormsOK
  <1>13. NothingUnfit' /\ OnlyEditsAreSaved'
    <2>1. \A k \in 1..(Latest + 1) : k \in 1..Latest \/ k = Latest + 1
        BY <1>3
    <2>2. \A field \in ConfigFields :
             /\ configs'[Latest + 1].document[field] # Unfit
             /\ configs'[Latest + 1].document[field] # configs'[Latest].document[field] =>
                   field \in configs'[Latest + 1].edited
        BY <1>3, <1>6, <1>9, <1>10
    <2>3. NothingUnfit'
        BY <1>0, <1>9, <2>1, <2>2 DEF NothingUnfit
    <2>4. ASSUME NEW k \in 2..(Latest + 1), NEW field \in ConfigFields
          PROVE  /\ configs'[k].document[field] # Unfit
                 /\ configs'[k].document[field] # configs'[k - 1].document[field] =>
                       field \in configs'[k].edited
      <3>1. CASE k = Latest + 1
          BY <1>3, <2>2, <3>1
      <3>2. CASE k # Latest + 1
        <4>1. k \in 2..Latest /\ k \in 1..Latest /\ k - 1 \in 1..Latest
            BY <1>3, <3>2
        <4>2. QED
            BY <1>0, <1>9, <4>1 DEF OnlyEditsAreSaved
      <3>3. QED
          BY <3>1, <3>2
    <2>5. QED
        BY <1>9, <2>3, <2>4 DEF OnlyEditsAreSaved
  <1>14. SavesOK'
    <2>1. ASSUME NEW t \in Tabs, t # tab, saves[t] # NoSave PROVE GoodSave(t, saves[t])'
      <3>1. saves'[t] = saves[t] /\ GoodSave(t, saves[t]) /\ saves[t].at # "writing"
          BY <1>0, <1>2, <2>1 DEF SavesOK, GoodSave
      <3>2. QED
          BY <1>3, <1>9, <3>1 DEF GoodSave, SaveOf, Follows, Own
    <2>2. GoodSave(tab, saves[tab])'
      <3>1. saves'[tab] = [saves[tab] EXCEPT !.at = "saved", !.expectedVersion = Latest + 1]
          BY <1>0 DEF SavesOK
      <3>2. /\ saves'[tab] \in SaveOf(tab) /\ saves'[tab].expectedVersion = Latest + 1
            /\ saves'[tab].at = "saved" /\ saves'[tab].draft = saves[tab].draft
        <4>1. PICK s \in SaveOf(tab) : s = saves[tab]
            BY <1>2
        <4>2. saves'[tab] = [s EXCEPT !.at = "saved", !.expectedVersion = Latest + 1]
            BY <3>1, <4>1
        <4>3. /\ s.draft \in [Own(tab) -> Settings] /\ s.edited \in SUBSET Own(tab)
              /\ saves'[tab] = [at |-> "saved", draft |-> s.draft,
                                expectedVersion |-> Latest + 1, edited |-> s.edited]
            BY <4>1, <4>2 DEF SaveOf
        <4>4. Latest + 1 \in Nat
            BY <1>3
        <4>5. saves'[tab] \in SaveOf(tab)
            BY <4>3, <4>4 DEF SaveOf
        <4>6. QED
            BY <4>1, <4>3, <4>5
      <3>3. \A field \in Own(tab) :
               saves'[tab].draft[field] = configs'[Latest + 1].document[field]
          BY <1>4, <1>9, <1>10, <3>2
      <3>4. QED
          BY <1>3, <1>9, <3>2, <3>3 DEF GoodSave, SaveOf, Own
    <2>3. \A t \in Tabs : t # tab => saves'[t] = saves[t]
        BY <1>0 DEF SavesOK
    <2>4. DOMAIN saves' = Tabs
        BY <1>0 DEF SavesOK
    <2>5. QED
        BY <2>1, <2>2, <2>3, <2>4 DEF SavesOK
  <1>15. QED
      BY <1>11, <1>12, <1>13, <1>14 DEF FormsInv

-----------------------------------------------------------------------------
LEMMA FormsStep == FormsInv /\ [FormsNext]_formVars => FormsInv'
  <1> SUFFICES ASSUME FormsInv, [FormsNext]_formVars PROVE FormsInv'
      OBVIOUS
  <1>0. ConfigsOK /\ FormsOK /\ SavesOK
      BY DEF FormsInv
  <1>a. ASSUME UNCHANGED configs, cached' \in [Viewers -> 1..Latest], FormsOK', SavesOK'
        PROVE  FormsInv'
      BY <1>a, ConfigsStay DEF FormsInv
  <1>b. cached \in [Viewers -> 1..Latest] /\ Latest \in Nat /\ Latest >= 1
      BY <1>0 DEF ConfigsOK, Latest
  <1>1. ASSUME NEW tab \in Tabs, Restarted(tab) PROVE FormsInv'
    <2> DEFINE old == DraftFrom(tab, cached[tab[1]])
               anew == [old EXCEPT !.refreshing = forms[tab].refreshing]
    <2>1. GoodForm(tab, old) /\ forms[tab].refreshing \in BOOLEAN
      <3>1. cached[tab[1]] \in 1..Latest
          BY <1>b, OwnFields
      <3>2. QED
          BY <1>0, <3>1, Anew DEF FormsOK, GoodForm, FormOf
    <2>2. UNCHANGED <<configs, configClaim, cached, saves>> /\ forms' = [forms EXCEPT ![tab] = anew]
        BY <1>1 DEF Restarted
    <2>3. GoodForm(tab, anew)
      <3> HIDE DEF old
      <3> QED
          BY <2>1 DEF GoodForm, FormOf
    <2> HIDE DEF anew
    <2>4. FormsOK' /\ SavesOK'
        BY <1>0, <2>2, <2>3, FormChanges, SavesStay
    <2>5. QED
        BY <1>a, <1>b, <2>2, <2>4
  <1>2. ASSUME NEW tab \in Tabs, NEW field \in Own(tab), Edit(tab, field) PROVE FormsInv'
    <2>1. PICK v \in FieldValues(field) :
             forms' = [forms EXCEPT ![tab].draft[field] = v, ![tab].edited = @ \cup {field}]
        BY <1>2 DEF Edit
    <2>2. UNCHANGED <<configs, configClaim, cached, saves>>
        BY <1>2 DEF Edit
    <2>3. v \in Settings
        BY DEF FieldValues, Settings
    <2>4. PICK f : f = forms[tab]
        OBVIOUS
    <2>5. GoodForm(tab, f)
        BY <1>0, <2>4 DEF FormsOK
    <2> DEFINE new == [f EXCEPT !.draft = [f.draft EXCEPT ![field] = v],
                                !.edited = f.edited \cup {field}]
    <2>6. forms' = [forms EXCEPT ![tab] = new]
        BY <1>0, <2>1, <2>4, <2>5 DEF FormsOK, GoodForm, FormOf
    <2>7. GoodForm(tab, new)
      <3>1. f \in FormOf(tab) /\ f.draft \in [Own(tab) -> Settings]
          BY <2>5 DEF GoodForm, FormOf
      <3>2. new \in FormOf(tab) /\ new.savedVersion = f.savedVersion
          BY <2>3, <3>1 DEF FormOf
      <3>3. new.draft = [f.draft EXCEPT ![field] = v] /\ new.edited = f.edited \cup {field}
          BY <3>1 DEF FormOf
      <3> HIDE DEF new
      <3>4. QED
          BY <2>5, <3>1, <3>2, <3>3 DEF GoodForm, Follows
    <2> HIDE DEF new
    <2>8. FormsOK' /\ SavesOK'
        BY <1>0, <2>2, <2>6, <2>7, FormChanges, SavesStay
    <2>9. QED
        BY <1>a, <1>b, <2>2, <2>8
  <1>3. ASSUME NEW viewer \in Viewers, Refetch(viewer) PROVE FormsInv'
    <2>1. UNCHANGED <<configs, configClaim, forms, saves>>
        BY <1>3 DEF Refetch
    <2>2. cached' \in [Viewers -> 1..Latest]
        BY <1>3, <1>b DEF Refetch
    <2>3. QED
        BY <1>0, <1>a, <2>1, <2>2, FormsStay, SavesStay
  <1>4. ASSUME NEW tab \in Tabs, PressSave(tab) PROVE FormsInv'
    <2>1. PICK s : s = [at |-> "sent", draft |-> forms[tab].draft,
                        expectedVersion |-> forms[tab].savedVersion, edited |-> forms[tab].edited]
        OBVIOUS
    <2>2. /\ UNCHANGED <<configs, configClaim, cached, forms>> /\ ~Blocked(tab)
          /\ saves' = [saves EXCEPT ![tab] = s]
        BY <1>4, <2>1 DEF PressSave
    <2>3. GoodForm(tab, forms[tab])
        BY <1>0 DEF FormsOK
    <2>4. GoodSave(tab, s)
        BY <1>b, <2>1, <2>2, <2>3 DEF GoodForm, GoodSave, FormOf, SaveOf, Blocked
    <2>5. GoodSave(tab, s)'
        BY <2>2, <2>4 DEF GoodSave, SaveOf, Follows, Latest, Own
    <2>6. QED
        BY <1>0, <1>a, <1>b, <2>2, <2>5, FormsStay, SaveChanges
  <1>5. ASSUME NEW tab \in Tabs, UNCHANGED <<configs, cached, forms>>, SaveFailed(tab),
               \A t \in Tabs : t # tab /\ saves[t].at = "writing" => UNCHANGED configClaim
        PROVE  FormsInv'
      BY <1>0, <1>5, <1>a, <1>b, FormsStay, SaveChanges DEF SaveFailed
  <1>6. ASSUME NEW tab \in Tabs, TakeClaim(tab) PROVE FormsInv'
    <2>1. UNCHANGED <<configs, cached, forms>> /\ saves[tab].at = "sent"
        BY <1>6 DEF TakeClaim
    <2>2. CASE configClaim # NoSaver
        BY <1>5, <1>6, <2>1, <2>2 DEF TakeClaim
    <2>3. CASE configClaim = NoSaver
      <3>1. GoodSave(tab, saves[tab])
          BY <1>0, <2>1 DEF SavesOK, NoSave
      <3>2. PICK s \in SaveOf(tab) : s = saves[tab]
          BY <3>1 DEF GoodSave
      <3>3. CASE VersionHolds(tab)
        <4>1. configClaim' = tab /\ saves' = [saves EXCEPT ![tab] = [s EXCEPT !.at = "writing"]]
            BY <1>6, <2>3, <3>2, <3>3 DEF TakeClaim
        <4>2. /\ s.draft \in [Own(tab) -> Settings] /\ s.edited \in SUBSET Own(tab)
              /\ s.expectedVersion \in 1..Latest /\ s.expectedVersion = Latest
              /\ Follows(tab, s.draft, s.expectedVersion, s.edited)
              /\ \A field \in Own(tab) : s.draft[field] # Unfit
            BY <2>1, <3>1, <3>2, <3>3 DEF GoodSave, SaveOf, VersionHolds
        <4>3. PICK n : n = [s EXCEPT !.at = "writing"]
            OBVIOUS
        <4>4. /\ n.at = "writing" /\ n.draft = s.draft /\ n.edited = s.edited
              /\ n.expectedVersion = s.expectedVersion /\ n \in SaveOf(tab)
            BY <4>3 DEF SaveOf
        <4>5. GoodSave(tab, n)'
          <5>1. n \in SaveOf(tab)' /\ Latest' = Latest
              BY <2>1, <4>4 DEF SaveOf, Own, Latest
          <5>2. Follows(tab, n.draft, n.expectedVersion, n.edited)'
              BY <2>1, <4>2, <4>4 DEF Follows, Own
          <5>3. \A field \in Own(tab) : n.draft[field] # Unfit
              BY <4>2, <4>4
          <5>4. QED
              BY <4>1, <4>2, <4>4, <5>1, <5>2, <5>3 DEF GoodSave, Own
        <4>6. \A t \in Tabs : ~(t # tab /\ saves[t].at = "writing")
          <5>1. \A t \in Tabs : saves[t].at = "writing" => configClaim = t
              BY <1>0 DEF SavesOK, GoodSave, NoSave
          <5>2. \A t \in Tabs : t # NoSaver
              BY DEF NoSaver
          <5>3. QED
              BY <2>3, <5>1, <5>2
        <4>7. saves' = [saves EXCEPT ![tab] = n]
            BY <4>1, <4>3
        <4>8. SavesOK'
            BY <1>0, <2>1, <4>5, <4>6, <4>7, SaveChanges
        <4>9. QED
            BY <1>0, <1>a, <1>b, <2>1, <4>8, FormsStay
      <3>4. CASE ~VersionHolds(tab)
        <4>1. PICK n : n = [s EXCEPT !.at = "conflict"]
            OBVIOUS
        <4>2. UNCHANGED configClaim /\ saves' = [saves EXCEPT ![tab] = n]
            BY <1>6, <2>3, <3>2, <3>4, <4>1 DEF TakeClaim
        <4>3. /\ n.at = "conflict" /\ n.expectedVersion = s.expectedVersion /\ n \in SaveOf(tab)
            BY <4>1 DEF SaveOf
        <4>4. GoodSave(tab, n)'
            BY <2>1, <3>1, <3>2, <4>3 DEF GoodSave, SaveOf, Own, Latest
        <4>5. SavesOK'
            BY <1>0, <2>1, <4>2, <4>4, SaveChanges
        <4>6. QED
            BY <1>0, <1>a, <1>b, <2>1, <4>5, FormsStay
      <3>5. QED
          BY <3>3, <3>4
    <2>4. QED
        BY <2>2, <2>3
  <1>7. ASSUME NEW tab \in Tabs, InsertVersion(tab) PROVE FormsInv'
      BY <1>7, RowInserted
  <1>8. ASSUME NEW tab \in Tabs, HostRefuses(tab) PROVE FormsInv'
    <2>1. UNCHANGED <<configs, cached, forms>> /\ SaveFailed(tab) /\ saves[tab].at = "writing"
        BY <1>8 DEF HostRefuses
    <2>2. \A t \in Tabs : saves[t].at = "writing" => configClaim = t
        BY <1>0 DEF SavesOK, GoodSave, NoSave
    <2>3. QED
        BY <1>5, <2>1, <2>2
  <1>9. ASSUME NEW tab \in Tabs, AnswerIsLost(tab) PROVE FormsInv'
      BY <1>5, <1>9 DEF AnswerIsLost
  <1>10. ASSUME NEW tab \in Tabs, SaveSucceeded(tab) PROVE FormsInv'
    <2>1. UNCHANGED <<configs, configClaim, cached>> /\ saves' = [saves EXCEPT ![tab] = NoSave]
        BY <1>10 DEF SaveSucceeded
    <2>2. GoodSave(tab, saves[tab]) /\ saves[tab].at = "saved"
        BY <1>0, <1>10 DEF SaveSucceeded, SavesOK, NoSave
    <2>3. PICK f : f = forms[tab] /\ GoodForm(tab, f)
        BY <1>0 DEF FormsOK
    <2>4. PICK e : e = {field \in Own(tab) : f.draft[field] # saves[tab].draft[field]}
        OBVIOUS
    <2>5. PICK n : n = [f EXCEPT !.savedVersion = saves[tab].expectedVersion, !.edited = e]
        OBVIOUS
    <2>6. forms' = [forms EXCEPT ![tab] = n]
        BY <1>0, <1>10, <2>3, <2>4, <2>5 DEF SaveSucceeded, FormsOK
    <2>7. saves[tab].expectedVersion \in 1..Latest /\ saves[tab].expectedVersion \in Nat
        BY <1>b, <2>2 DEF GoodSave
    <2>8. /\ n.savedVersion = saves[tab].expectedVersion /\ n.edited = e /\ n.draft = f.draft
          /\ n \in FormOf(tab)
        BY <2>3, <2>4, <2>5, <2>7 DEF GoodForm, FormOf
    <2>9. Follows(tab, n.draft, n.savedVersion, n.edited)
        BY <2>2, <2>4, <2>8 DEF Follows, GoodSave
    <2>10. GoodForm(tab, n)
        BY <2>7, <2>8, <2>9 DEF GoodForm
    <2>11. FormsOK' /\ SavesOK'
        BY <1>0, <2>1, <2>6, <2>10, FormChanges, SaveChanges
    <2>12. QED
        BY <1>a, <1>b, <2>1, <2>11
  <1>11. ASSUME NEW tab \in Tabs, SaveConflicts(tab) PROVE FormsInv'
    <2>1. UNCHANGED <<configs, configClaim, cached>> /\ saves' = [saves EXCEPT ![tab] = NoSave]
        BY <1>11 DEF SaveConflicts
    <2>2. PICK f : f = forms[tab] /\ GoodForm(tab, f)
        BY <1>0 DEF FormsOK
    <2>3. PICK n : n = [f EXCEPT !.refreshing = TRUE]
        OBVIOUS
    <2>4. forms' = [forms EXCEPT ![tab] = n]
        BY <1>11, <2>2, <2>3 DEF SaveConflicts
    <2>5. GoodForm(tab, n)
        BY <2>2, <2>3 DEF GoodForm, FormOf
    <2>6. FormsOK' /\ SavesOK'
        BY <1>0, <2>1, <2>4, <2>5, FormChanges, SaveChanges
    <2>7. QED
        BY <1>a, <1>b, <2>1, <2>6
  <1>12. ASSUME NEW tab \in Tabs, Refreshed(tab) PROVE FormsInv'
    <2>1. UNCHANGED <<configs, configClaim, saves>>
        BY <1>12 DEF Refreshed
    <2>2. PICK v \in {Latest, cached[tab[1]]} :
             /\ cached' = [cached EXCEPT ![tab[1]] = v]
             /\ forms' = [forms EXCEPT ![tab] = DraftFrom(tab, v)]
        BY <1>12 DEF Refreshed, ShowTheirs
    <2>3. v \in 1..Latest /\ cached' \in [Viewers -> 1..Latest]
        BY <1>b, <2>2, OwnFields
    <2>4. FormsOK' /\ SavesOK'
        BY <1>0, <2>1, <2>2, <2>3, Anew, FormChanges, SavesStay
    <2>5. QED
        BY <1>a, <2>1, <2>3, <2>4
  <1>13. ASSUME UNCHANGED formVars PROVE FormsInv'
      BY <1>0, <1>13, <1>a, <1>b, FormsStay, SavesStay DEF formVars
  <1>14. QED
      BY <1>1, <1>2, <1>3, <1>4, <1>6, <1>7, <1>8, <1>9, <1>10, <1>11, <1>12, <1>13 DEF FormsNext

\* A saved configuration holds nothing unfit, and what it changes its author edited on the form
\* that saved it: nobody's change is undone unseen (saveConfig, InstanceSettingsForm).
THEOREM NothingIsUndoneUnseen == FormsSpec => []OnlyEditsAreSaved
  <1>1. FormsInv => OnlyEditsAreSaved
      BY DEF FormsInv
  <1>2. QED
      BY <1>1, FormsBegin, FormsStep, PTL DEF FormsSpec

-----------------------------------------------------------------------------
(***************************************************************************)
(* HostLifecycle, for any number of provisioning calls, keys, steps,       *)
(* retries, attempts, jobs and bots.  Everything rests on one inductive    *)
(* invariant, HostInv.                                                     *)
(***************************************************************************)
\* A call that holds a claim was given an id that randomUUID has handed out.
AttemptsHandedOut ==
    \A p \in Provisioners : prov[p].pc \in Holding => prov[p].attempt \in 1..lastAttempt

\* No two calls at work were given the same id.
ClaimExclusive ==
    \A p, q \in Provisioners :
        p # q /\ prov[p].pc \in Holding /\ prov[q].pc \in Holding => prov[p].attempt # prov[q].attempt

\* Claiming replaces the id in the row, so it is the latest one.
RowAttemptIsLatest == row.attempt # None => row.attempt = lastAttempt

\* A queued teardown still has a try left.
TryLeft == \A j \in JobId : jobs[j].state = "queued" => jobs[j].tries <= RetryLimit

\* No failure is on record for an attempt that is still running.
RunningNotFailed ==
    \A p \in Provisioners :
        prov[p].pc \in {"claimed", "working", "step"} /\ row.attempt = prov[p].attempt
          => ~row.failed

HostInv ==
    /\ TypeOK
    /\ AttemptsHandedOut
    /\ ClaimExclusive
    /\ RowAttemptIsLatest
    /\ TrustedKeyInUse
    /\ StepOfLatestAttempt
    /\ BotsKeepTheirHost
    /\ TryLeft
    /\ RunningNotFailed
    /\ RemovalIsPending

USE StepsAssumption, BoundsAssumption, KeysAssumption DEF None

-----------------------------------------------------------------------------
\* The first state satisfies every part of the invariant: no row, no calls.
LEMMA InitHolds == Init => HostInv
  <1> SUFFICES ASSUME Init PROVE HostInv
      OBVIOUS
  <1>1. TypeOK
      BY DEF Init, TypeOK, Row, Machine, Call, Job, Idle, NoJob, NoStep, HostStatus, Present, Gone,
             Attempt, JobId
  <1>2. QED
      BY <1>1 DEF Init, HostInv, AttemptsHandedOut, ClaimExclusive, RowAttemptIsLatest,
             TrustedKeyInUse, StepOfLatestAttempt, BotsKeepTheirHost, TryLeft, RunningNotFailed,
             RemovalIsPending, Holding, Idle, NoJob, Present, Owns

\* A call's record stays well formed when it moves, reports a step, or claims.
LEMMA CallUpdate ==
    ASSUME NEW c \in Call, NEW pc \in Holding \cup {"idle", "found"}, NEW e \in HostStatus
    PROVE  /\ [c EXCEPT !.pc = pc] \in Call
           /\ [c EXCEPT !.pc = pc, !.expected = e] \in Call
  BY DEF Call

LEMMA CallReports ==
    ASSUME NEW c \in Call, NEW n \in 0..Steps
    PROVE  [c EXCEPT !.pc = "step", !.at = n] \in Call
  BY DEF Call, Holding

LEMMA CallClaims ==
    ASSUME NEW c \in Call, NEW a \in Attempt, NEW k \in Keys \cup {None}, NEW n \in 0..Steps
    PROVE  [c EXCEPT !.pc = "claimed", !.attempt = a, !.key = k, !.at = n] \in Call
  BY DEF Call, Holding

\* A row stays well formed under each of the assignments the code makes to it.
LEMMA RowUpdate ==
    ASSUME NEW r \in Row, NEW st \in HostStatus, NEW a \in Attempt \cup {None},
           NEW m \in StepMark \cup {NoStep}
    PROVE  /\ [r EXCEPT !.status = st] \in Row
           /\ [r EXCEPT !.step = m] \in Row
           /\ [r EXCEPT !.tearErr = TRUE] \in Row
           /\ [r EXCEPT !.failed = TRUE, !.step = m] \in Row
           /\ [r EXCEPT !.status = st, !.tearErr = FALSE] \in Row
           /\ [r EXCEPT !.status = st, !.attempt = a, !.stale = FALSE] \in Row
           /\ [r EXCEPT !.status = st, !.attempt = a, !.stale = FALSE, !.setUp = TRUE] \in Row
           /\ [r EXCEPT !.status = st, !.attempt = a, !.stale = FALSE, !.failed = FALSE,
                        !.step = m] \in Row
  BY DEF Row

\* The idle record, a fresh step mark and the statuses the code assigns are well formed.
LEMMA Constants ==
    /\ Idle \in Call
    /\ {"pending", "provisioning", "ready", "error", "removing", "deleted", "cleaned"} \subseteq HostStatus
    /\ {"claimed", "working", "step", "failing"} \subseteq Holding
  BY DEF Idle, Call, Holding, HostStatus, Present, Gone

\* Every action keeps the variables' types; the retry counter stays bounded
\* because a queued job still has a try left, and a progress write names a
\* real attempt because only a call that holds a claim reports steps.
LEMMA TypeStep == HostInv /\ [Next]_vars => TypeOK'
  <1> SUFFICES ASSUME HostInv, [Next]_vars PROVE TypeOK'
      OBVIOUS
  <1>0. TypeOK /\ AttemptsHandedOut /\ TryLeft
      BY DEF HostInv
  <1>a. /\ row \in Row /\ row.status \in HostStatus /\ row.trusted \in Keys \cup {None}
        /\ machine \in Machine
        /\ prov \in [Provisioners -> Call]
        /\ jobs \in [JobId -> Job]
      BY <1>0 DEF TypeOK, Row
  <1>b. ASSUME NEW p \in Provisioners
        PROVE  /\ prov[p] \in Call
               /\ prov[p].at \in 0..Steps
               /\ prov[p].attempt \in Attempt \cup {None}
      BY <1>a DEF Call
  <1>c. ASSUME NEW j \in JobId
        PROVE  jobs[j] \in Job /\ jobs[j].tries \in 0..(RetryLimit + 1)
      BY <1>a DEF Job
  <1>1. CASE Enroll
      BY <1>0, <1>1 DEF Enroll, TypeOK, Row, HostStatus, Present
  <1>2. CASE LeaseExpires
      BY <1>0, <1>2 DEF LeaseExpires, TypeOK, Row
  <1>3. CASE RetrustProbe
      BY <1>0, <1>3 DEF RetrustProbe, TypeOK, Machine
  <1>4. CASE RetrustCommit
      BY <1>0, <1>4 DEF RetrustCommit, TypeOK, Row
  <1>5. CASE RemoveOutright
      BY <1>0, <1>5 DEF RemoveOutright, TypeOK, Row, HostStatus, Gone
  <1>6. CASE CreateBot
      BY <1>0, <1>6 DEF CreateBot, TypeOK
  <1>7. CASE RemoveBot
      BY <1>0, <1>7 DEF RemoveBot, TypeOK
  <1>8. CASE MachineRekeyed
      BY <1>0, <1>8 DEF MachineRekeyed, TypeOK, Machine
  <1>9. CASE ServerCrash
      BY <1>0, <1>9, Constants DEF ServerCrash, TypeOK
  <1>10. ASSUME NEW p \in Provisioners, ProvisionRead(p) PROVE TypeOK'
    <2>1. [prov[p] EXCEPT !.pc = "found", !.expected = row.status] \in Call
        BY <1>a, <1>b, CallUpdate
    <2>2. prov' = [prov EXCEPT ![p] = [prov[p] EXCEPT !.pc = "found", !.expected = row.status]]
        BY <1>a, <1>10 DEF ProvisionRead
    <2>3. prov' \in [Provisioners -> Call]
        BY <1>a, <2>1, <2>2
    <2>4. QED
        BY <1>0, <1>10, <2>3 DEF ProvisionRead, TypeOK
  <1>11. ASSUME NEW p \in Provisioners, ProvisionClaim(p) PROVE TypeOK'
    <2> DEFINE c == [prov[p] EXCEPT !.pc = "claimed", !.attempt = lastAttempt + 1,
                                    !.key = row.trusted, !.at = None]
    <2>1. lastAttempt + 1 \in Attempt
        BY <1>0, <1>11 DEF ProvisionClaim, TypeOK, Attempt
    <2>2. c \in Call
        <3>1. None \in 0..Steps
            OBVIOUS
        <3>2. QED
            BY <1>a, <1>b, <2>1, <3>1, CallClaims
    <2>3. prov' = [prov EXCEPT ![p] = c]
        BY <1>a, <1>11 DEF ProvisionClaim
    <2>4. prov' \in [Provisioners -> Call]
        BY <1>a, <2>2, <2>3
    <2>5. row' \in Row
        BY <1>a, <1>11, <2>1, RowUpdate, Constants DEF ProvisionClaim
    <2>6. QED
        BY <1>0, <1>11, <2>1, <2>4, <2>5 DEF ProvisionClaim, TypeOK, Attempt
  <1>12. ASSUME NEW p \in Provisioners, ProvisionRefused(p) PROVE TypeOK'
      BY <1>0, <1>12, Constants DEF ProvisionRefused, TypeOK
  <1>13. ASSUME NEW p \in Provisioners, Connect(p) PROVE TypeOK'
    <2>1. [prov[p] EXCEPT !.pc = "working"] \in Call
        BY <1>b, CallUpdate, Constants
    <2>2. prov' = [prov EXCEPT ![p] = [prov[p] EXCEPT !.pc = "working"]]
        BY <1>a, <1>13 DEF Connect
    <2>3. QED
        BY <1>0, <1>13, <2>1, <2>2 DEF Connect, TypeOK
  <1>14. ASSUME NEW p \in Provisioners, ReportStep(p) PROVE TypeOK'
    <2>1. prov[p].attempt \in Attempt /\ prov[p].at + 1 \in 1..Steps
        BY <1>0, <1>b, <1>14 DEF ReportStep, AttemptsHandedOut, Attempt, Holding, TypeOK
    <2>2. [prov[p] EXCEPT !.pc = "step", !.at = prov[p].at + 1] \in Call
        <3>1. prov[p].at + 1 \in 0..Steps
            BY <2>1
        <3>2. QED
            BY <1>b, <3>1, CallReports
    <2>3. prov' = [prov EXCEPT ![p] = [prov[p] EXCEPT !.pc = "step", !.at = prov[p].at + 1]]
        BY <1>a, <1>14 DEF ReportStep
    <2>4. prov' \in [Provisioners -> Call]
        BY <1>a, <2>2, <2>3
    <2>5. writes' \subseteq StepMark
        BY <1>0, <1>14, <2>1 DEF ReportStep, TypeOK, StepMark
    <2>6. QED
        BY <1>0, <1>14, <2>4, <2>5 DEF ReportStep, TypeOK
  <1>15. ASSUME NEW p \in Provisioners, RunStep(p) PROVE TypeOK'
    <2>1. [prov[p] EXCEPT !.pc = "working"] \in Call
        BY <1>b, CallUpdate, Constants
    <2>2. prov' = [prov EXCEPT ![p] = [prov[p] EXCEPT !.pc = "working"]]
        BY <1>a, <1>15 DEF RunStep
    <2>3. machine' \in Machine
        BY <1>a, <1>15 DEF RunStep, Machine
    <2>4. QED
        BY <1>0, <1>15, <2>1, <2>2, <2>3 DEF RunStep, TypeOK
  <1>16. ASSUME NEW p \in Provisioners, ProvisionFail(p) PROVE TypeOK'
    <2> DEFINE mark == [by |-> prov[p].attempt, at |-> prov[p].at]
               step == IF prov[p].at = None THEN row.step ELSE mark
    <2>1. prov[p].attempt \in Attempt
        BY <1>0, <1>b, <1>16 DEF ProvisionFail, AttemptsHandedOut, Attempt, Holding, TypeOK
    <2>2. step \in StepMark \cup {NoStep}
        BY <1>a, <1>b, <2>1 DEF Row, StepMark
    <2>3. row' \in Row
        <3>1. \/ row' = row
              \/ row' = [row EXCEPT !.failed = TRUE, !.step = step]
            BY <1>16 DEF ProvisionFail
        <3>2. [row EXCEPT !.failed = TRUE, !.step = step] \in Row
            BY <1>a, <2>2 DEF Row
        <3>3. QED
            BY <1>a, <3>1, <3>2
    <2>4. prov' \in [Provisioners -> Call]
        <3>1. \/ prov' = [prov EXCEPT ![p] = Idle]
              \/ prov' = [prov EXCEPT ![p] = [prov[p] EXCEPT !.pc = "failing"]]
            BY <1>a, <1>16 DEF ProvisionFail
        <3>2. [prov[p] EXCEPT !.pc = "failing"] \in Call
            BY <1>b, CallUpdate, Constants
        <3>3. QED
            BY <1>a, <3>1, <3>2, Constants
    <2>5. QED
        BY <1>0, <1>16, <2>3, <2>4 DEF ProvisionFail, TypeOK
  <1>17. ASSUME NEW p \in Provisioners, ProvisionRelease(p) PROVE TypeOK'
    <2>1. row' \in Row
        BY <1>a, <1>17 DEF ProvisionRelease, Row, HostStatus, Present
    <2>2. QED
        BY <1>0, <1>17, <2>1, Constants DEF ProvisionRelease, TypeOK
  <1>18. ASSUME NEW p \in Provisioners, ProvisionFinish(p) PROVE TypeOK'
    <2>1. row' \in Row
        BY <1>a, <1>18 DEF ProvisionFinish, Row, HostStatus, Present
    <2>2. QED
        BY <1>0, <1>18, <2>1, Constants DEF ProvisionFinish, TypeOK
  <1>19. ASSUME NEW w \in writes, ProgressLands(w) PROVE TypeOK'
    <2>1. row' \in Row
        BY <1>0, <1>a, <1>19, RowUpdate DEF ProgressLands, TypeOK
    <2>2. QED
        BY <1>0, <1>19, <2>1 DEF ProgressLands, TypeOK
  <1>20. ASSUME NEW w \in writes, ProgressLost(w) PROVE TypeOK'
      BY <1>0, <1>20 DEF ProgressLost, TypeOK
  <1>21. ASSUME NEW j \in JobId, RequestTeardown(j) PROVE TypeOK'
    <2>1. row' \in Row
        BY <1>a, <1>21, RowUpdate, Constants DEF RequestTeardown
    <2>2. [state |-> "queued", key |-> row.trusted, tries |-> 0] \in Job
        BY <1>a DEF Job
    <2>3. jobs' \in [JobId -> Job]
        BY <1>a, <1>21, <2>2 DEF RequestTeardown
    <2>4. QED
        BY <1>0, <1>21, <2>1, <2>3 DEF RequestTeardown, TypeOK
  <1>22. ASSUME NEW j \in JobId, JobTake(j) PROVE TypeOK'
    <2>1. jobs[j].tries + 1 \in 0..(RetryLimit + 1)
        BY <1>0, <1>c, <1>22 DEF JobTake, TryLeft
    <2>2. [jobs[j] EXCEPT !.state = "active", !.tries = jobs[j].tries + 1] \in Job
        BY <1>c, <2>1 DEF Job
    <2>3. jobs' = [jobs EXCEPT ![j] =
                       [jobs[j] EXCEPT !.state = "active", !.tries = jobs[j].tries + 1]]
        BY <1>a, <1>22 DEF JobTake
    <2>4. jobs' \in [JobId -> Job]
        BY <1>a, <2>2, <2>3
    <2>5. QED
        BY <1>0, <1>22, <2>4 DEF JobTake, TypeOK
  <1>d. ASSUME NEW j \in JobId, NEW st \in {"queued", "cleaned", "done", "dead", "lost"}
        PROVE  [jobs EXCEPT ![j].state = st] \in [JobId -> Job]
    <2>1. [jobs[j] EXCEPT !.state = st] \in Job
        BY <1>c DEF Job, SettledJob
    <2>2. QED
        BY <1>a, <2>1
  <1>23. ASSUME NEW j \in JobId, JobClean(j) PROVE TypeOK'
    <2>1. machine' \in Machine /\ jobs' \in [JobId -> Job]
        BY <1>a, <1>d, <1>23 DEF JobClean, Machine
    <2>2. QED
        BY <1>0, <1>23, <2>1 DEF JobClean, TypeOK
  <1>24. ASSUME NEW j \in JobId, JobDone(j) PROVE TypeOK'
    <2>1. row' \in Row /\ jobs' \in [JobId -> Job]
        BY <1>a, <1>d, <1>24, RowUpdate, Constants DEF JobDone
    <2>2. QED
        BY <1>0, <1>24, <2>1 DEF JobDone, TypeOK
  <1>e. ASSUME NEW j \in JobId, PartlyCleaned(j) PROVE machine' \in Machine
      BY <1>a, <1>e DEF PartlyCleaned, Machine
  <1>f. ASSUME NEW j \in JobId, NEW o \in {"dead", "lost"}
        PROVE  AfterFailure(j, o) \in [JobId -> Job]
      BY <1>d DEF AfterFailure
  <1>25. ASSUME NEW j \in JobId, JobFail(j) PROVE TypeOK'
    <2>1. row' \in Row /\ machine' \in Machine /\ jobs' \in [JobId -> Job]
        BY <1>a, <1>e, <1>f, <1>25, RowUpdate DEF JobFail
    <2>2. QED
        BY <1>0, <1>25, <2>1 DEF JobFail, TypeOK
  <1>26. ASSUME NEW j \in JobId, JobLost(j) PROVE TypeOK'
    <2>1. machine' \in Machine /\ jobs' \in [JobId -> Job]
        BY <1>e, <1>f, <1>26 DEF JobLost
    <2>2. QED
        BY <1>0, <1>26, <2>1 DEF JobLost, TypeOK
  <1>27. CASE UNCHANGED vars
      BY <1>0, <1>27 DEF vars, TypeOK
  <1>28. QED
      BY <1>1, <1>2, <1>3, <1>4, <1>5, <1>6, <1>7, <1>8, <1>9, <1>10, <1>11, <1>12, <1>13,
         <1>14, <1>15, <1>16, <1>17, <1>18, <1>19, <1>20, <1>21, <1>22, <1>23, <1>24, <1>25,
         <1>26, <1>27 DEF Next, ProvisionStep, JobStep

\* The parts of HostInv about claims and who reported what.
Claims ==
    /\ AttemptsHandedOut
    /\ ClaimExclusive
    /\ RowAttemptIsLatest
    /\ TrustedKeyInUse
    /\ StepOfLatestAttempt
    /\ RunningNotFailed

\* A step that leaves the calls, the ids and these columns alone keeps the claims.
LEMMA ClaimsFrame ==
    ASSUME Claims, UNCHANGED <<prov, lastAttempt>>,
           row'.attempt = row.attempt, row'.step = row.step, row'.failed = row.failed,
           LiveClaim' => row'.trusted = row.trusted /\ LiveClaim
    PROVE  Claims'
  BY DEF Claims, LiveClaim, AttemptsHandedOut, ClaimExclusive, RowAttemptIsLatest,
             TrustedKeyInUse, StepOfLatestAttempt, RunningNotFailed, Owns

LEMMA ClaimsStep == HostInv /\ [Next]_vars => Claims'
  <1> SUFFICES ASSUME HostInv, [Next]_vars PROVE Claims'
      OBVIOUS
  <1>0. Claims /\ TypeOK /\ row \in Row /\ prov \in [Provisioners -> Call]
      BY DEF HostInv, Claims, TypeOK
  <1>1. CASE Enroll
      BY <1>0, <1>1, ClaimsFrame DEF Enroll, Row, LiveClaim
  <1>2. CASE LeaseExpires
      BY <1>0, <1>2, ClaimsFrame DEF LeaseExpires, Row, LiveClaim
  <1>3. CASE RetrustProbe
      BY <1>0, <1>3, ClaimsFrame DEF RetrustProbe, LiveClaim
  <1>4. CASE RetrustCommit
      BY <1>0, <1>4, ClaimsFrame DEF RetrustCommit, Row, LiveClaim
  <1>5. CASE RemoveOutright
      BY <1>0, <1>5, ClaimsFrame DEF RemoveOutright, Row, LiveClaim
  <1>6. CASE CreateBot
      BY <1>0, <1>6, ClaimsFrame DEF CreateBot, LiveClaim
  <1>7. CASE RemoveBot
      BY <1>0, <1>7, ClaimsFrame DEF RemoveBot, LiveClaim
  <1>8. CASE MachineRekeyed
      BY <1>0, <1>8, ClaimsFrame DEF MachineRekeyed, LiveClaim
  <1>9. CASE ServerCrash
      BY <1>0, <1>9 DEF ServerCrash, Idle, Holding, Claims, AttemptsHandedOut, ClaimExclusive, RowAttemptIsLatest,
             TrustedKeyInUse, StepOfLatestAttempt, RunningNotFailed, Owns
  <1>10. ASSUME NEW p \in Provisioners, ProvisionRead(p) PROVE Claims'
      BY <1>0, <1>10 DEF ProvisionRead, Holding, Claims, Call, AttemptsHandedOut, ClaimExclusive, RowAttemptIsLatest,
             TrustedKeyInUse, StepOfLatestAttempt, RunningNotFailed, Owns
  <1>11. ASSUME NEW p \in Provisioners, ProvisionClaim(p) PROVE Claims'
      BY <1>0, <1>11 DEF ProvisionClaim, Holding, Claims, Call, Row, NoStep, TypeOK, AttemptsHandedOut, ClaimExclusive, RowAttemptIsLatest,
             TrustedKeyInUse, StepOfLatestAttempt, RunningNotFailed, Owns
  <1>12. ASSUME NEW p \in Provisioners, ProvisionRefused(p) PROVE Claims'
      BY <1>0, <1>12 DEF ProvisionRefused, Idle, Holding, Claims, AttemptsHandedOut, ClaimExclusive, RowAttemptIsLatest,
             TrustedKeyInUse, StepOfLatestAttempt, RunningNotFailed, Owns
  <1>13. ASSUME NEW p \in Provisioners, Connect(p) PROVE Claims'
      BY <1>0, <1>13 DEF Connect, Holding, Claims, Call, AttemptsHandedOut, ClaimExclusive, RowAttemptIsLatest,
             TrustedKeyInUse, StepOfLatestAttempt, RunningNotFailed, Owns
  <1>14. ASSUME NEW p \in Provisioners, ReportStep(p) PROVE Claims'
      BY <1>0, <1>14 DEF ReportStep, Holding, Claims, Call, AttemptsHandedOut, ClaimExclusive, RowAttemptIsLatest,
             TrustedKeyInUse, StepOfLatestAttempt, RunningNotFailed, Owns
  <1>15. ASSUME NEW p \in Provisioners, RunStep(p) PROVE Claims'
      BY <1>0, <1>15 DEF RunStep, Holding, Claims, Call, AttemptsHandedOut, ClaimExclusive, RowAttemptIsLatest,
             TrustedKeyInUse, StepOfLatestAttempt, RunningNotFailed, Owns
  <1>16. ASSUME NEW p \in Provisioners, ProvisionFail(p) PROVE Claims'
    <2>1. /\ \A q \in Provisioners \ {p} : prov'[q] = prov[q]
          /\ \/ prov'[p] = Idle
             \/ /\ prov'[p].pc = "failing"
                /\ prov'[p].attempt = prov[p].attempt
                /\ prov'[p].key = prov[p].key
          /\ prov[p].pc \in {"claimed", "working", "step"}
          /\ UNCHANGED lastAttempt
        BY <1>0, <1>16 DEF ProvisionFail, Call
    <2>2. /\ row'.status = row.status /\ row'.attempt = row.attempt
          /\ row'.trusted = row.trusted /\ row'.stale = row.stale
        BY <1>0, <1>16 DEF ProvisionFail, Row
    <2>3. \/ row'.step = row.step /\ row'.failed = row.failed
          \/ /\ row.attempt = prov[p].attempt
             /\ row'.step = row.step \/ row'.step.by = prov[p].attempt
        <3> DEFINE mark == [by |-> prov[p].attempt, at |-> prov[p].at]
        <3>1. \/ row' = row
              \/ /\ row.attempt = prov[p].attempt
                 /\ \/ row' = [row EXCEPT !.failed = TRUE, !.step = row.step]
                    \/ row' = [row EXCEPT !.failed = TRUE, !.step = mark]
            BY <1>16 DEF ProvisionFail
        <3>2. mark.by = prov[p].attempt
            OBVIOUS
        <3> HIDE DEF mark
        <3>3. QED
            BY <1>0, <3>1, <3>2 DEF Row
    <2>4. prov[p].attempt \in 1..lastAttempt
        BY <1>0, <2>1 DEF Claims, AttemptsHandedOut, Holding
    <2>5. AttemptsHandedOut' /\ ClaimExclusive' /\ TrustedKeyInUse'
        BY <1>0, <2>1, <2>2 DEF Claims, AttemptsHandedOut, ClaimExclusive, TrustedKeyInUse, Owns,
                                Holding, Idle
    <2>6. RowAttemptIsLatest' /\ StepOfLatestAttempt'
        BY <1>0, <2>1, <2>2, <2>3, <2>4 DEF Claims, RowAttemptIsLatest, StepOfLatestAttempt, TypeOK
    <2>7. RunningNotFailed'
        BY <1>0, <2>1, <2>2, <2>3 DEF Claims, RunningNotFailed, ClaimExclusive, Holding, Idle
    <2>8. QED
        BY <2>5, <2>6, <2>7 DEF Claims
  <1>17. ASSUME NEW p \in Provisioners, ProvisionRelease(p) \/ ProvisionFinish(p) PROVE Claims'
    <2>1. /\ \A q \in Provisioners \ {p} : prov'[q] = prov[q]
          /\ prov'[p] = Idle
          /\ UNCHANGED lastAttempt
        BY <1>0, <1>17 DEF ProvisionRelease, ProvisionFinish
    <2>2. /\ row'.step = row.step /\ row'.failed = row.failed /\ row'.trusted = row.trusted
          /\ UNCHANGED row \/ row'.attempt = None
        BY <1>0, <1>17 DEF ProvisionRelease, ProvisionFinish, Row
    <2>3. AttemptsHandedOut' /\ ClaimExclusive'
        BY <1>0, <2>1 DEF Claims, AttemptsHandedOut, ClaimExclusive, Holding, Idle
    <2>4. TrustedKeyInUse' /\ RunningNotFailed'
        BY <1>0, <2>1, <2>2, <2>3 DEF Claims, TrustedKeyInUse, RunningNotFailed,
                                      AttemptsHandedOut, Owns, Holding, Idle
    <2>5. RowAttemptIsLatest' /\ StepOfLatestAttempt'
        BY <1>0, <2>1, <2>2 DEF Claims, RowAttemptIsLatest, StepOfLatestAttempt
    <2>6. QED
        BY <2>3, <2>4, <2>5 DEF Claims
  <1>18. ASSUME NEW w \in writes, ProgressLands(w) PROVE Claims'
      BY <1>0, <1>18 DEF ProgressLands, Holding, Claims, Row, StepMark, Attempt, TypeOK,
             AttemptsHandedOut, ClaimExclusive, RowAttemptIsLatest,
             TrustedKeyInUse, StepOfLatestAttempt, RunningNotFailed, Owns
  <1>19. ASSUME NEW w \in writes, ProgressLost(w) PROVE Claims'
      BY <1>0, <1>19, ClaimsFrame DEF ProgressLost, LiveClaim
  <1>20. ASSUME NEW j \in JobId, RequestTeardown(j) PROVE Claims'
      BY <1>0, <1>20, ClaimsFrame DEF RequestTeardown, Row, LiveClaim
  <1>21. ASSUME NEW j \in JobId, JobStep(j) PROVE Claims'
      BY <1>0, <1>21, ClaimsFrame
         DEF JobStep, JobTake, JobClean, JobDone, JobFail, JobLost, Row, LiveClaim
  <1>22. CASE UNCHANGED vars
      BY <1>0, <1>22, ClaimsFrame DEF vars, LiveClaim
  <1>23. QED
      BY <1>1, <1>2, <1>3, <1>4, <1>5, <1>6, <1>7, <1>8, <1>9, <1>10, <1>11, <1>12, <1>13,
         <1>14, <1>15, <1>16, <1>17, <1>18, <1>19, <1>20, <1>21, <1>22
         DEF Next, ProvisionStep

-----------------------------------------------------------------------------
\* The parts of HostInv about removal.
Removal == BotsKeepTheirHost /\ TryLeft /\ RemovalIsPending

\* A step that leaves the bots, the queue and these columns alone keeps them.
LEMMA RemovalFrame ==
    ASSUME Removal, UNCHANGED <<bots, jobs>>, row'.tearErr = row.tearErr,
           \/ row'.status = row.status /\ row'.setUp = row.setUp
           \/ row'.status \in Present \ {"removing"}
           \/ bots = 0 /\ row'.status # "removing"
    PROVE  Removal'
  BY DEF Removal, BotsKeepTheirHost, TryLeft, RemovalIsPending

LEMMA RemovalStep == HostInv /\ [Next]_vars => Removal'
  <1> SUFFICES ASSUME HostInv, [Next]_vars PROVE Removal'
      OBVIOUS
  <1>0. /\ Removal
        /\ row \in Row /\ bots \in 0..MaxBots /\ jobs \in [JobId -> Job]
      BY DEF HostInv, Removal, TypeOK
  <1>1. CASE Enroll
      BY <1>0, <1>1, RemovalFrame DEF Enroll, Row, Present
  <1>2. CASE LeaseExpires \/ RetrustProbe \/ RetrustCommit \/ MachineRekeyed \/ ServerCrash
      BY <1>0, <1>2, RemovalFrame
         DEF LeaseExpires, RetrustProbe, RetrustCommit, MachineRekeyed, ServerCrash, Row
  <1>3. CASE RemoveOutright
      BY <1>0, <1>3, RemovalFrame DEF RemoveOutright, Row
  <1>4. CASE CreateBot
      BY <1>0, <1>4 DEF CreateBot, Removal, BotsKeepTheirHost, TryLeft, RemovalIsPending, Present
  <1>5. CASE RemoveBot
      BY <1>0, <1>5 DEF RemoveBot, Removal, BotsKeepTheirHost, TryLeft, RemovalIsPending
  <1>6. ASSUME NEW p \in Provisioners,
               \/ ProvisionRead(p) \/ ProvisionRefused(p) \/ Connect(p)
               \/ ReportStep(p) \/ RunStep(p)
        PROVE  Removal'
      BY <1>0, <1>6, RemovalFrame DEF ProvisionRead, ProvisionRefused, Connect, ReportStep, RunStep
  <1>7. ASSUME NEW p \in Provisioners, ProvisionClaim(p) PROVE Removal'
      BY <1>0, <1>7, RemovalFrame DEF ProvisionClaim, Row, Present
  <1>8. ASSUME NEW p \in Provisioners, ProvisionFail(p) PROVE Removal'
      BY <1>0, <1>8, RemovalFrame DEF ProvisionFail, Row
  <1>9. ASSUME NEW p \in Provisioners, ProvisionRelease(p) \/ ProvisionFinish(p) PROVE Removal'
      BY <1>0, <1>9, RemovalFrame DEF ProvisionRelease, ProvisionFinish, Row, Present
  <1>10. ASSUME NEW w \in writes, ProgressLands(w) \/ ProgressLost(w) PROVE Removal'
      BY <1>0, <1>10, RemovalFrame DEF ProgressLands, ProgressLost, Row
  <1>11. ASSUME NEW j \in JobId, RequestTeardown(j) PROVE Removal'
      BY <1>0, <1>11 DEF RequestTeardown, Removal, BotsKeepTheirHost, TryLeft, RemovalIsPending,
                         Row, Job
  <1>12. ASSUME NEW j \in JobId, JobTake(j) PROVE Removal'
      BY <1>0, <1>12 DEF JobTake, Removal, BotsKeepTheirHost, TryLeft, RemovalIsPending, Job
  <1>13. ASSUME NEW j \in JobId, JobClean(j) PROVE Removal'
      BY <1>0, <1>13 DEF JobClean, Removal, BotsKeepTheirHost, TryLeft, RemovalIsPending, Job
  <1>14. ASSUME NEW j \in JobId, JobDone(j) PROVE Removal'
      BY <1>0, <1>14 DEF JobDone, Removal, BotsKeepTheirHost, TryLeft, RemovalIsPending, Job, Row,
                         Present
  <1>15. ASSUME NEW j \in JobId, JobFail(j) PROVE Removal'
      BY <1>0, <1>15 DEF JobFail, AfterFailure, Exists, Removal, BotsKeepTheirHost, TryLeft,
                         RemovalIsPending, Job, Row, Present
  <1>16. ASSUME NEW j \in JobId, JobLost(j) PROVE Removal'
      BY <1>0, <1>16 DEF JobLost, AfterFailure, Removal, BotsKeepTheirHost, TryLeft,
                         RemovalIsPending, Job
  <1>17. CASE UNCHANGED vars
      BY <1>0, <1>17, RemovalFrame DEF vars
  <1>18. QED
      BY <1>1, <1>2, <1>3, <1>4, <1>5, <1>6, <1>7, <1>8, <1>9, <1>10, <1>11, <1>12, <1>13,
         <1>14, <1>15, <1>16, <1>17 DEF Next, ProvisionStep, JobStep

-----------------------------------------------------------------------------
\* HostInv holds in every reachable state of the host's life.
THEOREM HostInvariant == Spec => []HostInv
  <1>1. HostInv /\ [Next]_vars => HostInv'
      BY TypeStep, ClaimsStep, RemovalStep DEF HostInv, Claims, Removal
  <1>2. QED
      BY InitHolds, <1>1, PTL DEF Spec

\* Every variable keeps its type; in particular no teardown job is taken more
\* often than pg-boss's retryLimit allows (createHostTeardownHandler's queue).
THEOREM TypeCorrect == Spec => []TypeOK
  <1>1. HostInv => TypeOK
      BY DEF HostInv
  <1>2. QED
      BY HostInvariant, <1>1, PTL

\* A live provisioning claim works over the key the row trusts, whatever
\* retrustHostKey calls run beside it.
THEOREM LiveClaimUsesTrustedKey == Spec => []TrustedKeyInUse
  <1>1. HostInv => TrustedKeyInUse
      BY DEF HostInv
  <1>2. QED
      BY HostInvariant, <1>1, PTL

\* recordProvisioningProgress never shows a step of an earlier attempt.
THEOREM ProgressIsCurrent == Spec => []StepOfLatestAttempt
  <1>1. HostInv => StepOfLatestAttempt
      BY DEF HostInv
  <1>2. QED
      BY HostInvariant, <1>1, PTL

\* No instance row names a host that is being removed or is gone.
THEOREM BotsAreHosted == Spec => []BotsKeepTheirHost
  <1>1. HostInv => BotsKeepTheirHost
      BY DEF HostInv
  <1>2. QED
      BY HostInvariant, <1>1, PTL

\* A host marked "removing" has a job in hand or a recorded failure, or its last try vanished with
\* the worker (onFailed's write included); whichever it is, remove would accept it again.
THEOREM RemovalsArePending == Spec => []RemovalIsPending
  <1>1. HostInv => RemovalIsPending
      BY DEF HostInv
  <1>2. QED
      BY HostInvariant, <1>1, PTL

-----------------------------------------------------------------------------
\* A call that gave up while it had the claim left its reason in the row.
FailureIsRecorded == \A p \in Provisioners : prov[p].pc = "failing" /\ Owns(p) => row.failed

\* A step that keeps the claim with its failure, and lets no call give up, keeps that.
LEMMA FailureFrame ==
    ASSUME FailureIsRecorded,
           row'.status = "provisioning" => row.status = "provisioning" /\ row'.attempt = row.attempt
                                           /\ row'.failed = row.failed,
           \A p \in Provisioners : prov'[p].pc = "failing" => prov'[p] = prov[p]
    PROVE  FailureIsRecorded'
  BY DEF FailureIsRecorded, Owns

\* What removal and its jobs do to a claim and to the status.
LEMMA JobsLeaveClaims ==
    ASSUME row \in Row, NEW j \in JobId, RequestTeardown(j) \/ JobStep(j)
    PROVE  /\ UNCHANGED prov
           /\ row'.status = row.status \/ row'.status \in {"removing", "cleaned"}
           /\ row'.status = "provisioning" => UNCHANGED <<row.status, row.attempt, row.failed>>
PROOF
  <1>1. CASE RequestTeardown(j)
      BY <1>1 DEF RequestTeardown, Row
  <1>2. CASE JobTake(j) \/ JobClean(j) \/ JobLost(j)
      BY <1>2 DEF JobTake, JobClean, JobLost
  <1>3. CASE JobDone(j)
      BY <1>3 DEF JobDone, Row
  <1>4. CASE JobFail(j)
      BY <1>4 DEF JobFail, Row
  <1>5. QED
      BY <1>1, <1>2, <1>3, <1>4 DEF JobStep

\* Every step keeps the reason of whoever gave up.
LEMMA FailureRecordedStep == HostInv /\ FailureIsRecorded /\ [Next]_vars => FailureIsRecorded'
  <1> SUFFICES ASSUME HostInv, FailureIsRecorded, [Next]_vars PROVE FailureIsRecorded'
      OBVIOUS
  <1>0. row \in Row /\ prov \in [Provisioners -> Call] /\ AttemptsHandedOut /\ lastAttempt \in Nat
      BY DEF HostInv, TypeOK
  <1>1. CASE Enroll \/ LeaseExpires \/ RetrustProbe \/ RetrustCommit \/ RemoveOutright
               \/ CreateBot \/ RemoveBot \/ MachineRekeyed \/ UNCHANGED vars
      BY <1>0, <1>1, FailureFrame DEF Enroll, LeaseExpires, RetrustProbe, RetrustCommit, RemoveOutright,
         CreateBot, RemoveBot, MachineRekeyed, vars, Row
  <1>2. CASE ServerCrash
      BY <1>0, <1>2, FailureFrame DEF ServerCrash, Idle
  <1>3. ASSUME NEW p \in Provisioners, ProvisionRead(p) \/ ProvisionRefused(p) \/ Connect(p)
                                       \/ ReportStep(p) \/ RunStep(p)
        PROVE  FailureIsRecorded'
      BY <1>0, <1>3, FailureFrame DEF ProvisionRead, ProvisionRefused, Connect, ReportStep, RunStep, Idle, Call
  <1>4. ASSUME NEW p \in Provisioners, ProvisionClaim(p) PROVE FailureIsRecorded'
    <2>1. row'.attempt = lastAttempt + 1 /\ prov'[p].pc = "claimed"
        BY <1>0, <1>4 DEF ProvisionClaim, Row, Call
    <2>2. \A q \in Provisioners : prov'[q].pc = "failing" => prov'[q] = prov[q] /\ prov[q].attempt \in 1..lastAttempt
        BY <1>0, <1>4, <2>1 DEF ProvisionClaim, AttemptsHandedOut, Holding
    <2>3. QED
        BY <1>0, <2>1, <2>2 DEF FailureIsRecorded, Owns
  <1>5. ASSUME NEW p \in Provisioners, ProvisionFail(p) PROVE FailureIsRecorded'
    <2>1. row'.status = row.status /\ row'.attempt = row.attempt /\ (row.failed => row'.failed)
        BY <1>0, <1>5 DEF ProvisionFail, Row
    <2>2. \A q \in Provisioners : q # p => prov'[q] = prov[q]
        BY <1>0, <1>5 DEF ProvisionFail
    <2>3. ASSUME prov'[p].pc = "failing", Owns(p)' PROVE row'.failed
      <3>1. prov'[p].attempt = prov[p].attempt /\ prov'[p].pc # "idle"
          BY <1>0, <1>5, <2>3 DEF ProvisionFail, Idle, Call
      <3>2. row.status = "provisioning" /\ row.attempt = prov[p].attempt
          BY <2>1, <2>3, <3>1 DEF Owns
      <3>3. row' = [row EXCEPT !.failed = TRUE, !.step = row'.step]
        <4>1. prov' # [prov EXCEPT ![p] = Idle]
            BY <1>0, <3>1 DEF Idle
        <4>2. QED
            BY <1>0, <1>5, <3>2, <4>1 DEF ProvisionFail, Exists, Present, Row
      <3>4. QED
          BY <1>0, <3>3 DEF Row
    <2>4. QED
        BY <2>1, <2>2, <2>3 DEF FailureIsRecorded, Owns
  <1>6. ASSUME NEW p \in Provisioners, ProvisionRelease(p) \/ ProvisionFinish(p) PROVE FailureIsRecorded'
    <2>1. \A q \in Provisioners : prov'[q].pc = "failing" => prov'[q] = prov[q]
        BY <1>0, <1>6 DEF ProvisionRelease, ProvisionFinish, Idle
    <2>2. row' = row \/ row'.status # "provisioning"
        BY <1>0, <1>6 DEF ProvisionRelease, ProvisionFinish, Row
    <2>3. QED
        BY <2>1, <2>2, FailureFrame
  <1>7. ASSUME NEW w \in writes, ProgressLands(w) \/ ProgressLost(w) PROVE FailureIsRecorded'
      BY <1>0, <1>7, FailureFrame DEF ProgressLands, ProgressLost, Row
  <1>8. ASSUME NEW j \in JobId, RequestTeardown(j) \/ JobStep(j) PROVE FailureIsRecorded'
    <2>1. UNCHANGED prov /\ (row'.status = "provisioning" => UNCHANGED <<row.status, row.attempt, row.failed>>)
        BY <1>0, <1>8, JobsLeaveClaims
    <2>2. QED
        BY <2>1, FailureFrame
  <1>9. QED
      BY <1>1, <1>2, <1>3, <1>4, <1>5, <1>6, <1>7, <1>8 DEF Next, ProvisionStep

\* finalizeProvisioning ends the set-up only for the call that claimed the host last, which has run
\* every step over the trusted key with no failure on record, or has its failure on record.
THEOREM OnlyTheHolderFinishes == Spec => FinishedByItsHolder
  <1> DEFINE Over == row.status = "provisioning" /\ row'.status \in {"ready", "error"}
             ByItsHolder(p) == /\ prov[p].attempt = lastAttempt /\ prov'[p] = Idle
                        /\ \/ /\ row'.status = "ready" /\ prov[p].pc = "working" /\ prov[p].at = Steps
                              /\ ~row.failed /\ (row.stale \/ prov[p].key = row.trusted)
                           \/ row'.status = "error" /\ prov[p].pc = "failing" /\ row.failed
  <1>1. Init => FailureIsRecorded
      BY DEF Init, FailureIsRecorded, Idle
  <1>2. ASSUME HostInv, FailureIsRecorded, [Next]_vars, Over PROVE \E p \in Provisioners : ByItsHolder(p)
    <2>0. /\ row \in Row /\ prov \in [Provisioners -> Call]
          /\ RowAttemptIsLatest /\ AttemptsHandedOut /\ TrustedKeyInUse /\ RunningNotFailed
          /\ lastAttempt \in Nat
        BY <1>2 DEF HostInv, TypeOK
    <2>1. \E p \in Provisioners : ProvisionRelease(p) \/ ProvisionFinish(p)
      <3>1. CASE Enroll \/ LeaseExpires \/ RetrustProbe \/ RetrustCommit \/ RemoveOutright
                   \/ CreateBot \/ RemoveBot \/ MachineRekeyed \/ ServerCrash \/ UNCHANGED vars
          BY <1>2, <2>0, <3>1 DEF Enroll, LeaseExpires, RetrustProbe, RetrustCommit, RemoveOutright,
             CreateBot, RemoveBot, MachineRekeyed, ServerCrash, vars, Row
      <3>2. ASSUME NEW p \in Provisioners,
                   \/ ProvisionRead(p) \/ ProvisionClaim(p) \/ ProvisionRefused(p) \/ Connect(p)
                   \/ ReportStep(p) \/ RunStep(p) \/ ProvisionFail(p)
            PROVE  FALSE
          BY <1>2, <2>0, <3>2 DEF ProvisionRead, ProvisionClaim, ProvisionRefused, Connect, ReportStep,
             RunStep, ProvisionFail, Row
      <3>3. ASSUME NEW w \in writes, ProgressLands(w) \/ ProgressLost(w) PROVE FALSE
          BY <1>2, <2>0, <3>3 DEF ProgressLands, ProgressLost, Row
      <3>4. ASSUME NEW j \in JobId, RequestTeardown(j) \/ JobStep(j) PROVE FALSE
          BY <1>2, <2>0, <3>4, JobsLeaveClaims
      <3>5. QED
          BY <1>2, <3>1, <3>2, <3>3, <3>4 DEF Next, ProvisionStep
    <2>2. PICK p \in Provisioners : ProvisionRelease(p) \/ ProvisionFinish(p)
        BY <2>1
    <2>3. Owns(p) /\ prov'[p] = Idle /\ prov[p].pc \in Holding
        BY <1>2, <2>0, <2>2 DEF ProvisionRelease, ProvisionFinish, Holding
    <2>4. prov[p].attempt = lastAttempt
        BY <2>0, <2>3 DEF Owns, RowAttemptIsLatest, AttemptsHandedOut
    <2>5. CASE ProvisionRelease(p)
      <3>1. row'.status = "error" /\ prov[p].pc = "failing"
          BY <1>2, <2>0, <2>5 DEF ProvisionRelease, Row
      <3>2. row.failed
          BY <1>2, <2>3, <3>1 DEF FailureIsRecorded
      <3>3. QED
          BY <2>3, <2>4, <3>1, <3>2
    <2>6. CASE ProvisionFinish(p)
      <3>1. row'.status = "ready" /\ prov[p].pc = "working" /\ prov[p].at = Steps
          BY <1>2, <2>0, <2>6 DEF ProvisionFinish, Row
      <3>2. ~row.failed
          BY <2>0, <2>3, <3>1 DEF RunningNotFailed, Owns
      <3>3. row.stale \/ prov[p].key = row.trusted
          BY <2>0, <2>3 DEF TrustedKeyInUse
      <3>4. QED
          BY <2>3, <2>4, <3>1, <3>2, <3>3
    <2>7. QED
        BY <2>2, <2>5, <2>6
  <1>3. HostInv /\ FailureIsRecorded /\ [Next]_vars =>
          [row.status = "provisioning" /\ row'.status \in {"ready", "error"} =>
             \E p \in Provisioners :
                 /\ prov[p].attempt = lastAttempt /\ prov'[p] = Idle
                 /\ \/ /\ row'.status = "ready" /\ prov[p].pc = "working" /\ prov[p].at = Steps
                       /\ ~row.failed /\ (row.stale \/ prov[p].key = row.trusted)
                    \/ row'.status = "error" /\ prov[p].pc = "failing" /\ row.failed]_vars
      BY <1>2
  <1>4. QED
      BY <1>1, <1>3, HostInvariant, FailureRecordedStep, PTL DEF Spec, FinishedByItsHolder

-----------------------------------------------------------------------------
\* Once recordProvisioningFailure has named a step, no late progress write and
\* no second failure of the same attempt moves it.
THEOREM FailureStepIsKept == Spec => FailureKeepsItsStep
  <1>1. ASSUME HostInv, [Next]_vars, row.failed, row'.failed
        PROVE  row'.step = row.step
    <2>0. row \in Row /\ RunningNotFailed
        BY <1>1 DEF HostInv, TypeOK
    <2>1. ASSUME NEW p \in Provisioners, ProvisionFail(p) PROVE row'.step = row.step
      <3>1. row.attempt # prov[p].attempt
          BY <1>1, <2>0, <2>1 DEF ProvisionFail, RunningNotFailed
      <3>2. QED
          BY <2>1, <3>1 DEF ProvisionFail
    <2>2. ASSUME NEW p \in Provisioners, ProvisionClaim(p) PROVE row'.step = row.step
        BY <1>1, <2>0, <2>2 DEF ProvisionClaim, Row
    <2>3. ASSUME NEW p \in Provisioners, ProvisionRelease(p) \/ ProvisionFinish(p)
          PROVE  row'.step = row.step
        BY <2>0, <2>3 DEF ProvisionRelease, ProvisionFinish, Row
    <2>4. ASSUME NEW w \in writes, ProgressLands(w) PROVE row'.step = row.step
        BY <1>1, <2>4 DEF ProgressLands
    <2>5. CASE Enroll \/ LeaseExpires \/ RetrustCommit \/ RemoveOutright
        BY <2>0, <2>5 DEF Enroll, LeaseExpires, RetrustCommit, RemoveOutright, Row
    <2>6. ASSUME NEW j \in JobId, RequestTeardown(j) \/ JobDone(j) \/ JobFail(j)
          PROVE  row'.step = row.step
        BY <2>0, <2>6 DEF RequestTeardown, JobDone, JobFail, Row
    <2>7. CASE UNCHANGED row
        BY <2>7
    <2>8. QED
        BY <1>1, <2>1, <2>2, <2>3, <2>4, <2>5, <2>6, <2>7
           DEF Next, ProvisionStep, JobStep, vars, RetrustProbe, CreateBot, RemoveBot,
               MachineRekeyed, ServerCrash, ProvisionRead, ProvisionRefused, Connect,
               ReportStep, RunStep, ProgressLost, JobTake, JobClean, JobLost
  <1>2. HostInv /\ [Next]_vars => [row.failed /\ row'.failed => row'.step = row.step]_vars
      BY <1>1
  <1>3. QED
      BY HostInvariant, <1>2, PTL DEF Spec, FailureKeepsItsStep

\* A host that finished set-up leaves the table only through a teardown job
\* that reported the machine clean (remove, deleteAfterTeardown).
THEOREM SetUpHostsAreCleaned == Spec => RemovedOnlyWhenCleaned
  <1>1. ASSUME HostInv, [Next]_vars, row.setUp, row.status \in Present, row'.status \in Gone
        PROVE  row'.status = "cleaned" /\ \E j \in JobId : jobs[j].state = "cleaned"
    <2>0. row \in Row /\ row.status \notin Gone
        BY <1>1 DEF HostInv, TypeOK, Present, Gone
    <2>1. ASSUME NEW p \in Provisioners, ProvisionStep(p) PROVE row'.status \notin Gone
        BY <2>0, <2>1 DEF ProvisionStep, ProvisionRead, ProvisionRefused, Connect, ReportStep,
               RunStep, ProvisionClaim, ProvisionFail, ProvisionRelease, ProvisionFinish, Row, Gone
    <2>2. ASSUME NEW w \in writes, ProgressLands(w) \/ ProgressLost(w) PROVE row'.status \notin Gone
        BY <2>0, <2>2 DEF ProgressLands, ProgressLost, Row
    <2>3. ASSUME NEW j \in JobId, JobDone(j)
          PROVE  row'.status = "cleaned" /\ jobs[j].state = "cleaned"
        BY <1>1, <2>0, <2>3 DEF JobDone, Row
    <2>4. ASSUME NEW j \in JobId,
                 RequestTeardown(j) \/ JobTake(j) \/ JobClean(j) \/ JobFail(j) \/ JobLost(j)
          PROVE  row'.status \notin Gone
        BY <2>0, <2>4 DEF RequestTeardown, JobTake, JobClean, JobFail, JobLost, Row, Gone
    <2>5. CASE Enroll \/ LeaseExpires \/ RetrustProbe \/ RetrustCommit \/ RemoveOutright
               \/ CreateBot \/ RemoveBot \/ MachineRekeyed \/ ServerCrash \/ UNCHANGED vars
      <3>1. row'.status \notin Gone
          BY <1>1, <2>0, <2>5 DEF Enroll, LeaseExpires, RetrustProbe, RetrustCommit,
                 RemoveOutright, CreateBot, RemoveBot, MachineRekeyed, ServerCrash, vars, Row, Gone
      <3>2. QED
          BY <1>1, <3>1
    <2>6. QED
        BY <1>1, <2>1, <2>2, <2>3, <2>4, <2>5 DEF Next, JobStep
  <1>2. HostInv /\ [Next]_vars =>
          [row.setUp /\ row.status \in Present /\ row'.status \in Gone
             => row'.status = "cleaned" /\ \E j \in JobId : jobs[j].state = "cleaned"]_vars
      BY <1>1
  <1>3. QED
      BY HostInvariant, <1>2, PTL DEF Spec, RemovedOnlyWhenCleaned

-----------------------------------------------------------------------------
(* The claim of a host is a fenced lease. *)

\* A host being set up is claimed; outside set-up only an expired claim is
\* left in the row; a row that has not been claimed has no lease.
ClaimMatchesStatus ==
    /\ row.status = "provisioning" => row.attempt # None
    /\ row.status \in Present \ {"provisioning"} /\ row.attempt # None => row.stale
    /\ row.status = "absent" => row.attempt = None
    /\ row.attempt = None => ~row.stale

\* A step that keeps the claim in the row, or gives it back, and moves the
\* status to or from "provisioning" only with it, keeps the two in line.
LEMMA ClaimMatchesFrame ==
    ASSUME ClaimMatchesStatus, row \in Row,
           row'.status # "absent" \/ row'.status = row.status,
           \/ /\ row'.attempt = row.attempt /\ row'.stale = row.stale
              /\ \/ row'.status = row.status
                 \/ row'.status # "provisioning" /\ ~LiveClaim /\ row.status \notin Gone
           \/ row'.attempt = None /\ row'.stale = FALSE /\ row'.status # "provisioning"
    PROVE  ClaimMatchesStatus'
  BY DEF ClaimMatchesStatus, LiveClaim, Row, HostStatus, Present, Gone

LEMMA ClaimMatchesStep == HostInv /\ ClaimMatchesStatus /\ [Next]_vars => ClaimMatchesStatus'
  <1> SUFFICES ASSUME HostInv, ClaimMatchesStatus, [Next]_vars PROVE ClaimMatchesStatus'
      OBVIOUS
  <1>0. row \in Row /\ lastAttempt \in Nat
      BY DEF HostInv, TypeOK
  <1>1. CASE Enroll
      BY <1>0, <1>1, ClaimMatchesFrame DEF Enroll, Row, LiveClaim, Gone
  <1>2. CASE LeaseExpires
      BY <1>0, <1>2 DEF LeaseExpires, LiveClaim, ClaimMatchesStatus, Row
  <1>3. CASE RetrustCommit \/ RemoveOutright
      BY <1>0, <1>3, ClaimMatchesFrame DEF RetrustCommit, RemoveOutright, Row, Exists, Present, Gone
  <1>4. CASE UNCHANGED row
      BY <1>4 DEF ClaimMatchesStatus
  <1>5. ASSUME NEW p \in Provisioners, ProvisionClaim(p) PROVE ClaimMatchesStatus'
      BY <1>0, <1>5 DEF ProvisionClaim, ClaimMatchesStatus, Row
  <1>6. ASSUME NEW p \in Provisioners, ProvisionFail(p) PROVE ClaimMatchesStatus'
      BY <1>0, <1>6, ClaimMatchesFrame DEF ProvisionFail, Row
  <1>7. ASSUME NEW p \in Provisioners, ProvisionRelease(p) \/ ProvisionFinish(p)
        PROVE  ClaimMatchesStatus'
      BY <1>0, <1>7, ClaimMatchesFrame DEF ProvisionRelease, ProvisionFinish, Row
  <1>8. ASSUME NEW w \in writes, ProgressLands(w) PROVE ClaimMatchesStatus'
      BY <1>0, <1>8, ClaimMatchesFrame DEF ProgressLands, Row
  <1>9. ASSUME NEW j \in JobId, RequestTeardown(j) \/ JobDone(j) \/ JobFail(j)
        PROVE  ClaimMatchesStatus'
      BY <1>0, <1>9, ClaimMatchesFrame
         DEF RequestTeardown, JobDone, JobFail, Row, LiveClaim, Exists, Present, Gone
  <1>10. QED
      BY <1>1, <1>2, <1>3, <1>4, <1>5, <1>6, <1>7, <1>8, <1>9
         DEF Next, ProvisionStep, JobStep, vars, RetrustProbe, CreateBot, RemoveBot, MachineRekeyed,
             ServerCrash, ProvisionRead, ProvisionRefused, Connect, ReportStep, RunStep,
             ProgressLost, JobTake, JobClean, JobLost

\* Every step of the host is a step of the lease, or leaves it alone.
LEMMA LeaseStep ==
    HostInv /\ ClaimMatchesStatus /\ [Next]_vars => [Lease!LeaseNext]_(Lease!leaseVars)
  <1> SUFFICES ASSUME HostInv, ClaimMatchesStatus, [Next]_vars
               PROVE  Lease!LeaseNext \/ UNCHANGED Lease!leaseVars
      OBVIOUS
  <1> USE DEF Lease!LeaseNext, Lease!leaseVars, Lease!Free, Lease!Unleased
  <1>0. /\ row \in Row /\ lastAttempt \in Nat /\ probed \in Keys \cup {None}
        /\ row.attempt # None => row.attempt = lastAttempt
      BY DEF HostInv, TypeOK, RowAttemptIsLatest
  <1>1. CASE Enroll
    <2>1. Lease!ChangeGuarded
        BY <1>0, <1>1 DEF Enroll, Lease!ChangeGuarded, ClaimMatchesStatus, Exists, Present, Row
    <2>2. QED
        BY <2>1
  <1>2. CASE LeaseExpires
    <2>1. Lease!Expire
        BY <1>0, <1>2 DEF LeaseExpires, LiveClaim, Lease!Expire, ClaimMatchesStatus, Exists, Present, Row
    <2>2. QED
        BY <2>1
  <1>3. CASE RetrustCommit
    <2>1. CASE Exists /\ ~LiveClaim
      <3>1. Lease!ChangeGuarded
          BY <1>0, <1>3, <2>1 DEF RetrustCommit, LiveClaim, Lease!ChangeGuarded, ClaimMatchesStatus,
                                  Exists, Present, Row
      <3>2. QED
          BY <3>1
    <2>2. QED
        BY <1>3, <2>1 DEF RetrustCommit, Exists
  <1>4. ASSUME row'.status \in Gone, row'.step = row.step, row'.trusted = row.trusted,
               UNCHANGED lastAttempt
        PROVE  Lease!LeaseNext \/ UNCHANGED Lease!leaseVars
    <2>1. ~Exists'
        BY <1>4 DEF Exists, Present, Gone
    <2>2. CASE Exists /\ row.attempt # None
      <3>1. Lease!GiveUp
          BY <1>4, <2>1, <2>2 DEF Lease!GiveUp
      <3>2. QED
          BY <3>1
    <2>3. CASE ~(Exists /\ row.attempt # None)
        BY <1>4, <2>1, <2>3 DEF ClaimMatchesStatus, Exists
    <2>4. QED
        BY <2>2, <2>3
  <1>5. CASE RemoveOutright
      BY <1>0, <1>4, <1>5 DEF RemoveOutright, Row, Gone
  <1>6. CASE UNCHANGED <<row, lastAttempt>>
      BY <1>6 DEF Exists
  <1>7. ASSUME NEW p \in Provisioners, ProvisionClaim(p)
        PROVE  Lease!LeaseNext \/ UNCHANGED Lease!leaseVars
    <2>1. ~LiveClaim
        BY <1>7 DEF ProvisionClaim, Claimable, LiveClaim
    <2>2. Lease!Take
        BY <1>0, <1>7, <2>1 DEF ProvisionClaim, LiveClaim, Lease!Take, ClaimMatchesStatus, Exists,
                                Present, Row, NoStep
    <2>3. QED
        BY <2>2
  <1>8. ASSUME Exists, row.attempt # None,
               row'.status = row.status, row'.attempt = row.attempt, row'.stale = row.stale,
               row'.trusted = row.trusted, row'.step.by = row.attempt, UNCHANGED lastAttempt
        PROVE  Lease!ReportAsHolder
      BY <1>8 DEF Lease!ReportAsHolder, Exists
  <1>9. ASSUME NEW p \in Provisioners, ProvisionFail(p)
        PROVE  Lease!LeaseNext \/ UNCHANGED Lease!leaseVars
    <2> DEFINE mark == [by |-> prov[p].attempt, at |-> prov[p].at]
    <2>1. prov[p].attempt # None
        BY <1>9 DEF ProvisionFail, HostInv, AttemptsHandedOut, Holding
    <2>2. \/ row' = row
          \/ /\ Exists /\ row.attempt = prov[p].attempt
             /\ row' = [row EXCEPT !.failed = TRUE, !.step = row.step]
          \/ /\ Exists /\ row.attempt = prov[p].attempt
             /\ row' = [row EXCEPT !.failed = TRUE, !.step = mark]
        BY <1>9 DEF ProvisionFail
    <2>3. UNCHANGED lastAttempt
        BY <1>9 DEF ProvisionFail
    <2>4. mark.by = prov[p].attempt
        OBVIOUS
    <2> HIDE DEF mark
    <2>5. CASE row' = [row EXCEPT !.failed = TRUE, !.step = mark] /\ Exists /\ row.attempt = prov[p].attempt
        BY <1>0, <1>8, <2>1, <2>3, <2>4, <2>5 DEF Row
    <2>6. CASE row' = row \/ row' = [row EXCEPT !.failed = TRUE, !.step = row.step]
        BY <1>0, <2>3, <2>6 DEF Row, Exists
    <2>7. QED
        BY <2>2, <2>5, <2>6
  <1>10. ASSUME NEW p \in Provisioners, ProvisionRelease(p) \/ ProvisionFinish(p)
         PROVE  Lease!LeaseNext \/ UNCHANGED Lease!leaseVars
    <2>1. CASE Owns(p) /\ ~UNCHANGED row
      <3>1. Lease!GiveUp
          BY <1>0, <1>10, <2>1 DEF ProvisionRelease, ProvisionFinish, Owns, Lease!GiveUp,
                                   ClaimMatchesStatus, Exists, Present, Row
      <3>2. QED
          BY <3>1
    <2>2. QED
        BY <1>6, <1>10, <2>1 DEF ProvisionRelease, ProvisionFinish
  <1>11. ASSUME NEW w \in writes, ProgressLands(w)
         PROVE  Lease!LeaseNext \/ UNCHANGED Lease!leaseVars
    <2>1. w.by # None
        BY DEF HostInv, TypeOK, StepMark, Attempt
    <2>2. CASE Exists /\ row.attempt = w.by /\ ~row.failed
        BY <1>0, <1>8, <1>11, <2>1, <2>2 DEF ProgressLands, Row
    <2>3. QED
        BY <1>6, <1>11, <2>2 DEF ProgressLands
  <1>12. ASSUME NEW j \in JobId, RequestTeardown(j)
         PROVE  UNCHANGED Lease!leaseVars
      BY <1>0, <1>12 DEF RequestTeardown, Exists, Present, Row
  <1>13. ASSUME NEW j \in JobId, JobDone(j)
         PROVE  Lease!LeaseNext \/ UNCHANGED Lease!leaseVars
      BY <1>0, <1>4, <1>6, <1>13 DEF JobDone, Row, Gone
  <1>14. ASSUME NEW j \in JobId, JobFail(j)
         PROVE  UNCHANGED Lease!leaseVars
      BY <1>0, <1>14 DEF JobFail, Exists, Present, Row
  <1>15. QED
      BY <1>1, <1>2, <1>3, <1>5, <1>6, <1>7, <1>9, <1>10, <1>11, <1>12, <1>13, <1>14
         DEF Next, ProvisionStep, JobStep, vars, RetrustProbe, CreateBot, RemoveBot, MachineRekeyed,
             ServerCrash, ProvisionRead, ProvisionRefused, Connect, ReportStep, RunStep,
             ProgressLost, JobTake, JobClean, JobLost

\* The host's claim implements the abstract lease: a live claim is never taken
\* over, only the latest attempt reports, and the trusted key stays while a
\* claim is live (claimForProvisioning, finalizeProvisioning, retrustHostKey, remove).
THEOREM HostClaimIsALease == Spec => ClaimIsAFencedLease
  <1>1. Init => Lease!LeaseInit
      BY DEF Init, Lease!LeaseInit, Lease!Free, Exists, Present, NoStep
  <1>2. Init => ClaimMatchesStatus
      BY DEF Init, ClaimMatchesStatus, Present
  <1>3. QED
      BY <1>1, <1>2, HostInvariant, ClaimMatchesStep, LeaseStep, PTL
         DEF Spec, ClaimIsAFencedLease, Lease!LeaseSpec
=============================================================================
