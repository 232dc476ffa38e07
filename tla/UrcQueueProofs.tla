--------------------------- MODULE UrcQueueProofs ---------------------------
(***************************************************************************)
(* Theorems about UrcQueue, for every number of threads, every buffer      *)
(* size, all line and payload lengths and every number of URCs. They are   *)
(* about the ports whose mutex cannot be locked twice by its owner (POSIX, *)
(* Windows, no-OS): with a recursive mutex the assertions can fail, see    *)
(* the run urc_queue_recursive.                                            *)
(***************************************************************************)
EXTENDS UrcQueue, TLAPS

\* The hypothesis of the theorems about the port's mutex.
NotRecursive == Recursive = FALSE

\* The inductive invariant. Type correctness alone is not inductive: that
\* bufferPos stays in the buffer needs the open entry's payload to fit, and that
\* DequeueEnd reads a real entry needs the layout of the buffer.
IInv == TypeOK /\ PointersFollowLocks /\ BufferHoldsEntries

-----------------------------------------------------------------------------
(* Facts about the invariant. *)

LEMMA EntryByteType ==
    ASSUME NEW urc \in Nat, NEW line \in Nat, NEW payload \in Nat, NEW k \in Nat
    PROVE  EntryByte(urc, line, payload, k) \in Byte
BY DEF EntryByte, Byte

\* An entry has at least a header and a terminating null.
LEMMA SizeBounds ==
    ASSUME TypeOK, NEW i \in 1 .. Len(entries)
    PROVE  /\ entries[i] \in Record
           /\ Size(entries[i]) \in Nat
           /\ Size(entries[i]) = 5 + entries[i].line + entries[i].payload
           /\ Size(entries[i]) >= 5
<1>1. entries \in Seq(Record)
  BY DEF TypeOK
<1>2. entries[i] \in Record
  BY <1>1
<1>. QED BY <1>2 DEF Record, Size, EntrySize, HeaderLen

\* The completed entries end at or before bufferPos, inside the buffer.
LEMMA CommittedEndBounds ==
    ASSUME TypeOK, OpenEntryIsLast
    PROVE  /\ CommittedEnd \in Nat
           /\ CommittedEnd <= bufferPos
           /\ bufferPos \in Nat /\ BufferLen \in Nat /\ bufferPos <= BufferLen
<1>1. /\ bufferPos \in 0 .. BufferLen /\ BufferLen \in Nat
      /\ pEnqueueEntry \in Offsets \union {NULL}
      /\ mem \in [Offsets -> Byte]
  BY LengthsAssumption DEF TypeOK
<1>2. CASE pEnqueueEntry = NULL
  BY <1>1, <1>2 DEF CommittedEnd
<1>3. CASE pEnqueueEntry # NULL
  <2>1. pEnqueueEntry \in Offsets /\ pEnqueueEntry \in Nat
    BY <1>1, <1>3 DEF Offsets
  <2>2. mem[pEnqueueEntry] \in Byte
    BY <1>1, <2>1
  <2>3. StrLineLen(pEnqueueEntry) \in Nat
    BY <2>2 DEF StrLineLen, Byte
  <2>4. bufferPos = pEnqueueEntry + EntrySize(StrLineLen(pEnqueueEntry), 0)
    BY <1>3 DEF OpenEntryIsLast
  <2>5. CommittedEnd = pEnqueueEntry
    BY <1>3 DEF CommittedEnd
  <2>. QED
    BY <1>1, <2>1, <2>3, <2>4, <2>5 DEF EntrySize, HeaderLen
<1>. QED BY <1>2, <1>3

\* Every byte of a completed entry lies below the end of the entries.
LEMMA EntryBounds ==
    ASSUME TypeOK, OpenEntryIsLast, EntriesContiguous,
           NEW i \in 1 .. Len(entries)
    PROVE  /\ entries[i].at + Size(entries[i]) <= CommittedEnd
           /\ \A k \in 0 .. Size(entries[i]) - 1 :
                 /\ entries[i].at + k \in Offsets
                 /\ entries[i].at + k < CommittedEnd
<1>. DEFINE n == Len(entries)
<1>0. entries \in Seq(Record)
  BY DEF TypeOK
<1>1. entries # <<>> /\ n \in Nat /\ n \in 1 .. n
  BY <1>0
<1>2. entries[n].at + Size(entries[n]) = CommittedEnd
  BY <1>1 DEF EntriesContiguous
<1>3. /\ entries[i].at \in Nat /\ Size(entries[i]) \in Nat
      /\ entries[n].at \in Nat /\ Size(entries[n]) \in Nat
  BY <1>1, SizeBounds DEF Record
<1>4. entries[i].at + Size(entries[i]) <= CommittedEnd
  <2>1. CASE i = n
    BY <1>2, <1>3, <2>1
  <2>2. CASE i < n
    BY <1>1, <1>2, <1>3, <2>2 DEF EntriesContiguous
  <2>. QED BY <1>1, <2>1, <2>2
<1>5. /\ CommittedEnd \in Nat /\ BufferLen \in Nat
      /\ CommittedEnd <= BufferLen
  BY CommittedEndBounds
<1>6. ASSUME NEW k \in 0 .. Size(entries[i]) - 1
      PROVE  /\ entries[i].at + k \in Offsets
             /\ entries[i].at + k < CommittedEnd
  BY <1>3, <1>4, <1>5 DEF Offsets
<1>. QED BY <1>4, <1>6

-----------------------------------------------------------------------------
(* The invariant holds when the queue has been initialised. *)
LEMMA InitIInv == Init => IInv
<1>. SUFFICES ASSUME Init PROVE IInv
  OBVIOUS
<1>. USE LengthsAssumption, ThreadsAssumption DEF Init, NULL
<1>1. TypeOK
  BY DEF TypeOK, Offsets, EntryByte, Byte, Locations
<1>2. PointersFollowLocks
  BY DEF PointersFollowLocks, EnqueueLocked, OpenEntryIsLast, DequeueLocked
<1>3. BufferHoldsEntries
  BY DEF BufferHoldsEntries, EntriesContiguous, EntriesIntact, CommittedEnd
<1>. QED BY <1>1, <1>2, <1>3 DEF IInv

-----------------------------------------------------------------------------
(* Every step preserves it. *)

\* EnqueueBegin writes behind the completed entries and opens an entry.
LEMMA EnqueueBeginIInv ==
    ASSUME NotRecursive, IInv, NEW t \in Threads, NEW n \in LineLens, EnqueueBegin(t, n)
    PROVE  IInv'
<1>. USE LengthsAssumption, ThreadsAssumption DEF NotRecursive, NULL
<1>. DEFINE b == bufferPos
            u == arrived + 1
<1>0. TypeOK /\ PointersFollowLocks /\ BufferHoldsEntries
  BY DEF IInv
<1>1. pc[t] = "idle" /\ queueMutex = NoThread /\ pEnqueueEntry = NULL
  BY <1>0 DEF EnqueueBegin, Available, PointersFollowLocks, EnqueueLocked
<1>2. n \in 0 .. LengthRange - 1
  OBVIOUS
<1>3. n \in Nat /\ n % LengthRange = n
  BY <1>2
<1>4. b \in Nat /\ BufferLen \in Nat /\ b + n + 5 <= BufferLen /\ u \in Nat
  BY <1>0, <1>3 DEF EnqueueBegin, TypeOK, RoomForLine, UnusedBuf, HeaderLen
<1>5. /\ queueMutex' = t /\ arrived' = u /\ bufferPos' = b + n + 5
      /\ pEnqueueEntry' = b /\ payloadRx' = 0
      /\ pc' = [pc EXCEPT ![t] = "enqueuing"]
      /\ dequeueMutex' = dequeueMutex /\ pDequeueEntry' = pDequeueEntry
      /\ pEntry' = pEntry /\ inCallback' = inCallback /\ entries' = entries
  BY <1>3, <1>4 DEF EnqueueBegin, Goto, EntrySize, HeaderLen
<1>6. /\ \A k \in 0 .. n + 4 : mem'[b + k] = EntryByte(u, n, 0, k)
      /\ \A o \in Offsets : o < b => mem'[o] = mem[o]
  <2>1. mem' = [o \in Offsets |-> IF o \in b .. b + n + 4
                                   THEN EntryByte(u, n, 0, o - b)
                                   ELSE mem[o]]
    BY <1>3, <1>4, <1>5 DEF EnqueueBegin, EntrySize, HeaderLen
  <2>2. ASSUME NEW k \in 0 .. n + 4
        PROVE  mem'[b + k] = EntryByte(u, n, 0, k)
    <3>. DEFINE o == b + k
    <3>1. o \in Offsets /\ o \in b .. b + n + 4 /\ o - b = k
      BY <1>3, <1>4 DEF Offsets
    <3>. HIDE DEF o
    <3>2. mem'[o] = EntryByte(u, n, 0, o - b)
      BY <2>1, <3>1
    <3>3. mem'[o] = EntryByte(u, n, 0, k)
      BY <3>1, <3>2
    <3>. QED BY <3>3 DEF o
  <2>3. ASSUME NEW o \in Offsets, o < b
        PROVE  mem'[o] = mem[o]
    <3>1. o \notin b .. b + n + 4
      BY <1>3, <1>4, <2>3 DEF Offsets
    <3>. QED BY <2>1, <3>1
  <2>. QED BY <2>2, <2>3
<1>7. TypeOK'
  <2>1. mem' \in [Offsets -> Byte]
    <3>1. mem \in [Offsets -> Byte]
      BY <1>0 DEF TypeOK
    <3>2. mem' = [o \in Offsets |-> IF o \in b .. b + n + 4
                                   THEN EntryByte(u, n, 0, o - b)
                                   ELSE mem[o]]
      BY <1>3, <1>4 DEF EnqueueBegin, EntrySize, HeaderLen
    <3>3. \A o \in b .. b + n + 4 : EntryByte(u, n, 0, o - b) \in Byte
      <4>. SUFFICES ASSUME NEW o \in b .. b + n + 4 PROVE EntryByte(u, n, 0, o - b) \in Byte
        OBVIOUS
      <4>1. o - b \in Nat /\ 0 \in Nat
        BY <1>3, <1>4
      <4>. HIDE DEF b, u
      <4>. QED BY <1>3, <1>4, <4>1, EntryByteType
    <3>. QED BY <3>1, <3>2, <3>3
  <2>2. pc' \in [Threads -> Locations]
    BY <1>0, <1>5 DEF TypeOK, Locations
  <2>3. bufferPos' \in 0 .. BufferLen /\ pEnqueueEntry' \in Offsets
    BY <1>3, <1>4, <1>5 DEF Offsets
  <2>. QED BY <1>0, <1>4, <1>5, <2>1, <2>2, <2>3 DEF TypeOK
<1>8. EnqueueLocked'
  BY <1>0, <1>1, <1>4, <1>5 DEF PointersFollowLocks, EnqueueLocked, TypeOK
<1>9. OpenEntryIsLast'
  <2>1. 0 \in 0 .. n + 4 /\ b + 0 = b
    BY <1>3, <1>4
  <2>2. mem'[b] = EntryByte(u, n, 0, 0)
    BY <1>6, <2>1
  <2>3. mem'[b].urc = u /\ mem'[b].val = n
    BY <2>2 DEF EntryByte
  <2>. QED
    BY <1>3, <1>4, <1>5, <1>6, <2>3
       DEF OpenEntryIsLast, StrLineLen, EntrySize, HeaderLen
<1>10. DequeueLocked'
  BY <1>0, <1>1, <1>5 DEF PointersFollowLocks, DequeueLocked, TypeOK
<1>11. EntriesContiguous'
  <2>1. CommittedEnd' = CommittedEnd
    BY <1>1, <1>4, <1>5 DEF CommittedEnd
  <2>. QED
    BY <1>0, <1>5, <2>1 DEF BufferHoldsEntries, EntriesContiguous, Size
<1>12. EntriesIntact'
  <2>1. CommittedEnd = b
    BY <1>1 DEF CommittedEnd
  <2>. QED
    BY <1>0, <1>5, <1>6, <2>1, EntryBounds
       DEF PointersFollowLocks, BufferHoldsEntries, EntriesIntact, Size
<1>. QED
  BY <1>7, <1>8, <1>9, <1>10, <1>11, <1>12
     DEF IInv, PointersFollowLocks, BufferHoldsEntries

\* The payload is written between bufferPos and the end of the buffer.
LEMMA EnqueuePayloadIInv ==
    ASSUME IInv, NEW t \in Threads, NEW n \in PayloadLens, EnqueuePayload(t, n)
    PROVE  IInv'
<1>. USE LengthsAssumption, ThreadsAssumption DEF NULL
<1>. DEFINE e == pEnqueueEntry
            len == StrLineLen(e)
            b == bufferPos
<1>0. TypeOK /\ PointersFollowLocks /\ BufferHoldsEntries
  BY DEF IInv
<1>1. /\ pc[t] = "enqueuing" /\ payloadRx = 0 /\ PayloadRoom > n
      /\ payloadRx' = n /\ bufferPos' = b /\ pEnqueueEntry' = e
      /\ queueMutex' = queueMutex /\ dequeueMutex' = dequeueMutex
      /\ pDequeueEntry' = pDequeueEntry /\ pc' = pc /\ pEntry' = pEntry
      /\ inCallback' = inCallback /\ arrived' = arrived /\ entries' = entries
  BY DEF EnqueuePayload
<1>2. queueMutex = t /\ e # NULL /\ e \in Offsets
  BY <1>0, <1>1 DEF PointersFollowLocks, EnqueueLocked, TypeOK
<1>3. /\ n \in Nat /\ n > 0 /\ b \in Nat /\ BufferLen \in Nat
      /\ b <= BufferLen /\ e \in Nat /\ mem[e] \in Byte
  BY <1>0, <1>2 DEF TypeOK, Offsets
<1>4. len \in Nat
  BY <1>3 DEF StrLineLen, Byte
<1>5. b = e + 5 + len
  BY <1>0, <1>2, <1>3, <1>4
     DEF PointersFollowLocks, OpenEntryIsLast, EntrySize, HeaderLen
<1>6. b + n <= BufferLen
  <2>1. LengthRange \in Nat \ {0} /\ BufferLen - b \in Nat
    BY <1>3
  <2>2. (BufferLen - b) % LengthRange <= BufferLen - b
    BY <2>1
  <2>. QED BY <1>1, <1>3, <2>1, <2>2 DEF PayloadRoom, UnusedBuf
<1>7. mem' = [o \in Offsets |-> IF o \in b .. b + n - 1
                                 THEN EntryByte(mem[e].urc, 0, 0, o - e)
                                 ELSE mem[o]]
  <2>1. e + HeaderLen + len + 1 = b
    BY <1>3, <1>4, <1>5 DEF HeaderLen
  <2>. QED BY <2>1 DEF EnqueuePayload
<1>8. \A o \in Offsets : o < b => mem'[o] = mem[o]
  BY <1>3, <1>7 DEF Offsets
<1>9. TypeOK'
  <2>1. mem' \in [Offsets -> Byte]
    <3>1. ASSUME NEW o \in Offsets, o \in b .. b + n - 1
          PROVE  EntryByte(mem[e].urc, 0, 0, o - e) \in Byte
      <4>1. mem[e].urc \in Nat
        BY <1>3 DEF Byte
      <4>2. o - e \in Nat
        BY <1>3, <1>4, <1>5, <3>1 DEF Offsets
      <4>. QED BY <4>1, <4>2, EntryByteType
    <3>. QED BY <1>0, <1>7, <3>1 DEF TypeOK
  <2>. QED BY <1>0, <1>1, <1>3, <2>1 DEF TypeOK
<1>10. EnqueueLocked'
  BY <1>0, <1>1, <1>2 DEF PointersFollowLocks, EnqueueLocked
<1>11. OpenEntryIsLast'
  <2>1. mem'[e] = mem[e]
    BY <1>2, <1>3, <1>4, <1>5, <1>8
  <2>2. StrLineLen(e)' = len
    BY <1>1, <2>1 DEF StrLineLen
  <2>3. ASSUME NEW k \in 0 .. b + n - e - 1
        PROVE  mem'[e + k] = EntryByte(mem[e].urc, len, 0, k)
    <3>. DEFINE o == e + k
    <3>1. o \in Offsets /\ o - e = k
      BY <1>3, <1>6 DEF Offsets
    <3>2. CASE o < b
      <4>1. k \in 0 .. b + payloadRx - e - 1
        BY <1>1, <1>3, <3>2
      <4>. QED
        BY <1>0, <1>2, <1>8, <3>1, <3>2, <4>1
           DEF PointersFollowLocks, OpenEntryIsLast
    <3>3. CASE o >= b
      <4>1. o \in b .. b + n - 1
        BY <1>3, <3>3
      <4>2. k # 0 /\ k # 2
        BY <1>3, <1>4, <1>5, <3>3
      <4>. HIDE DEF o
      <4>3. mem'[o] = EntryByte(mem[e].urc, 0, 0, o - e)
        BY <1>7, <3>1, <4>1
      <4>4. mem'[o] = EntryByte(mem[e].urc, 0, 0, k)
        BY <3>1, <4>3
      <4>. QED BY <4>2, <4>4 DEF o, EntryByte
    <3>. QED BY <1>3, <3>2, <3>3
  <2>. QED
    BY <1>0, <1>1, <1>2, <1>3, <1>6, <2>1, <2>2, <2>3
       DEF PointersFollowLocks, OpenEntryIsLast
<1>12. DequeueLocked'
  BY <1>0, <1>1 DEF PointersFollowLocks, DequeueLocked
<1>13. CommittedEnd' = CommittedEnd /\ CommittedEnd = e /\ e < b
  BY <1>1, <1>2, <1>3, <1>4, <1>5 DEF CommittedEnd
<1>14. EntriesContiguous'
  BY <1>0, <1>1, <1>13 DEF BufferHoldsEntries, EntriesContiguous, Size
<1>15. EntriesIntact'
  <2>1. ASSUME NEW i \in 1 .. Len(entries), NEW k \in 0 .. Size(entries[i]) - 1
        PROVE  mem'[entries[i].at + k] = mem[entries[i].at + k]
    <3>1. /\ entries[i].at + k \in Offsets
          /\ entries[i].at + k < CommittedEnd
      BY <1>0, EntryBounds DEF PointersFollowLocks, BufferHoldsEntries
    <3>2. entries[i].at + k \in Nat
      BY <3>1 DEF Offsets
    <3>. QED BY <1>3, <1>8, <1>13, <3>1, <3>2
  <2>. QED
    BY <1>0, <1>1, <2>1 DEF BufferHoldsEntries, EntriesIntact, Size
<1>. QED
  BY <1>9, <1>10, <1>11, <1>12, <1>14, <1>15
     DEF IInv, PointersFollowLocks, BufferHoldsEntries

\* EnqueueEnd turns the open entry into a completed one.
LEMMA EnqueueEndIInv ==
    ASSUME IInv, NEW t \in Threads, EnqueueEnd(t)
    PROVE  IInv'
<1>. USE LengthsAssumption, ThreadsAssumption DEF NULL
<1>. DEFINE e == pEnqueueEntry
            len == StrLineLen(e)
            b == bufferPos
            new == [urc |-> mem[e].urc, at |-> e, line |-> len,
                    payload |-> payloadRx]
            n == Len(entries)
<1>0. TypeOK /\ PointersFollowLocks /\ BufferHoldsEntries
  BY DEF IInv
<1>1. /\ pc[t] = "enqueuing" /\ mem' = [mem EXCEPT ![e + 2].val = payloadRx]
      /\ entries' = Append(entries, new)
      /\ bufferPos' = b + payloadRx /\ pEnqueueEntry' = NULL
      /\ queueMutex' = NoThread /\ payloadRx' = 0
      /\ pc' = [pc EXCEPT ![t] = "idle"]
      /\ dequeueMutex' = dequeueMutex /\ pDequeueEntry' = pDequeueEntry
      /\ pEntry' = pEntry /\ inCallback' = inCallback /\ arrived' = arrived
  BY DEF EnqueueEnd, SetPayloadSize, Goto
<1>2. queueMutex = t /\ e # NULL /\ e \in Offsets
  BY <1>0, <1>1 DEF PointersFollowLocks, EnqueueLocked, TypeOK
<1>3. /\ payloadRx \in Nat /\ b \in Nat /\ BufferLen \in Nat
      /\ b <= BufferLen /\ e \in Nat /\ mem[e] \in Byte
  BY <1>0, <1>2 DEF TypeOK, Offsets
<1>4. len \in Nat
  BY <1>3 DEF StrLineLen, Byte
<1>5. b = e + 5 + len /\ b + payloadRx <= BufferLen
  BY <1>0, <1>2, <1>3, <1>4
     DEF PointersFollowLocks, OpenEntryIsLast, EntrySize, HeaderLen
<1>6. e + 2 \in Offsets /\ mem[e + 2] \in Byte
  <2>1. e + 2 \in Offsets
    BY <1>3, <1>4, <1>5 DEF Offsets
  <2>. QED BY <1>0, <2>1 DEF TypeOK
<1>7. new \in Record /\ Size(new) = b + payloadRx - e
  BY <1>3, <1>4, <1>5 DEF Record, Byte, Size, EntrySize, HeaderLen
<1>8. \A o \in Offsets : mem'[o] = IF o = e + 2
                                    THEN [mem[o] EXCEPT !.val = payloadRx]
                                    ELSE mem[o]
  BY <1>0, <1>1 DEF TypeOK
<1>9. entries \in Seq(Record) /\ n \in Nat
  BY <1>0 DEF TypeOK
<1>10. /\ entries' \in Seq(Record) /\ Len(entries') = n + 1
       /\ entries'[n + 1] = new /\ entries' # <<>>
       /\ \A i \in 1 .. n : entries'[i] = entries[i]
  <2>. HIDE DEF new
  <2>. QED BY <1>1, <1>7, <1>9
<1>11. TypeOK'
  <2>1. mem' \in [Offsets -> Byte]
    <3>1. ASSUME NEW o \in Offsets
          PROVE  [mem[o] EXCEPT !.val = payloadRx] \in Byte
      BY <1>0, <1>3 DEF TypeOK, Byte
    <3>. QED BY <1>0, <1>1, <1>6, <3>1 DEF TypeOK
  <2>2. pc' \in [Threads -> Locations]
    BY <1>0, <1>1 DEF TypeOK, Locations
  <2>3. bufferPos' \in 0 .. BufferLen
    BY <1>1, <1>3, <1>5
  <2>. QED BY <1>0, <1>1, <1>10, <2>1, <2>2, <2>3 DEF TypeOK
<1>12. EnqueueLocked'
  BY <1>0, <1>1, <1>2 DEF PointersFollowLocks, EnqueueLocked, TypeOK
<1>13. OpenEntryIsLast'
  BY <1>1 DEF OpenEntryIsLast
<1>14. DequeueLocked'
  BY <1>0, <1>1, <1>2, <1>10 DEF PointersFollowLocks, DequeueLocked, TypeOK
<1>15. CommittedEnd = e /\ CommittedEnd' = b + payloadRx
  BY <1>1, <1>2 DEF CommittedEnd
<1>16. ASSUME NEW i \in 1 .. n
       PROVE  /\ entries[i] \in Record /\ Size(entries[i]) \in Nat
              /\ entries[i].at \in Nat
              /\ entries[i].at + Size(entries[i]) <= e
              /\ \A k \in 0 .. Size(entries[i]) - 1 :
                    entries[i].at + k \in Offsets /\ entries[i].at + k < e
  BY <1>0, <1>15, SizeBounds, EntryBounds
     DEF PointersFollowLocks, BufferHoldsEntries, Record
<1>17. EntriesContiguous'
  <2>1. entries'[1].at = 0
    <3>1. CASE n = 0
      BY <1>0, <1>9, <1>10, <1>15, <3>1 DEF BufferHoldsEntries, EntriesContiguous
    <3>2. CASE n > 0
      BY <1>0, <1>9, <1>10, <3>2 DEF BufferHoldsEntries, EntriesContiguous
    <3>. QED BY <1>9, <3>1, <3>2
  <2>2. new.at + Size(new) = CommittedEnd'
    BY <1>3, <1>5, <1>7, <1>15
  <2>3. ASSUME NEW i \in 1 .. n + 1, NEW j \in 1 .. n + 1
        PROVE  /\ i < j => entries'[i].at + Size(entries'[i]) <= entries'[j].at
               /\ j = i + 1 =>
                     entries'[i].at + Size(entries'[i]) = entries'[j].at
    <3>1. CASE j \in 1 .. n
      BY <1>0, <1>9, <1>10, <3>1 DEF BufferHoldsEntries, EntriesContiguous
    <3>2. CASE j = n + 1 /\ i \in 1 .. n
      <4>1. entries'[i] = entries[i] /\ entries'[j] = new /\ new.at = e
        BY <1>10, <3>2
      <4>2. i = n => entries[i].at + Size(entries[i]) = e
        BY <1>0, <1>9, <1>15, <3>2 DEF BufferHoldsEntries, EntriesContiguous
      <4>. QED BY <1>9, <1>16, <3>2, <4>1, <4>2
    <3>. QED BY <1>9, <3>1, <3>2
  <2>. QED BY <1>10, <2>1, <2>2, <2>3 DEF EntriesContiguous, Size
<1>18. EntriesIntact'
  <2>1. ASSUME NEW i \in 1 .. n, NEW k \in 0 .. Size(entries[i]) - 1
        PROVE  mem'[entries[i].at + k]
                  = EntryByte(entries[i].urc, entries[i].line,
                              entries[i].payload, k)
    <3>. DEFINE o == entries[i].at + k
    <3>1. o \in Offsets /\ o < e
      BY <1>16
    <3>2. o # e + 2
      BY <1>3, <3>1 DEF Offsets
    <3>. HIDE DEF o
    <3>3. mem'[o] = mem[o]
      BY <1>8, <3>1, <3>2
    <3>4. mem'[entries[i].at + k] = mem[entries[i].at + k]
      BY <3>3 DEF o
    <3>. QED BY <1>0, <3>4 DEF BufferHoldsEntries, EntriesIntact
  <2>2. ASSUME NEW k \in 0 .. Size(new) - 1
        PROVE  mem'[e + k] = EntryByte(mem[e].urc, len, payloadRx, k)
    <3>0. k \in 0 .. b + payloadRx - e - 1
      <4>. HIDE DEF new
      <4>. QED BY <1>3, <1>7
    <3>1. e + k \in Offsets /\ (e + k = e + 2 <=> k = 2)
      BY <1>3, <1>5, <3>0 DEF Offsets
    <3>2. mem[e + k] = EntryByte(mem[e].urc, len, 0, k)
      BY <1>0, <1>2, <3>0 DEF PointersFollowLocks, OpenEntryIsLast
    <3>3. CASE k = 2
      <4>1. mem'[e + k] = [mem[e + k] EXCEPT !.val = payloadRx]
        BY <1>8, <3>1, <3>3
      <4>. QED BY <3>2, <3>3, <4>1 DEF EntryByte
    <3>4. CASE k # 2
      <4>1. mem'[e + k] = mem[e + k]
        BY <1>8, <3>1, <3>4
      <4>. QED BY <3>2, <3>4, <4>1 DEF EntryByte
    <3>. QED BY <3>3, <3>4
  <2>. QED BY <1>9, <1>10, <2>1, <2>2 DEF EntriesIntact, Size
<1>. QED
  BY <1>11, <1>12, <1>13, <1>14, <1>17, <1>18
     DEF IInv, PointersFollowLocks, BufferHoldsEntries

\* EnqueueAbort takes the buffer back to the end of the completed entries.
LEMMA EnqueueAbortIInv ==
    ASSUME IInv, NEW t \in Threads, EnqueueAbort(t)
    PROVE  IInv'
<1>. USE LengthsAssumption, ThreadsAssumption DEF NULL
<1>0. TypeOK /\ PointersFollowLocks /\ BufferHoldsEntries
  BY DEF IInv
<1>1. /\ pc[t] = "enqueuing" /\ payloadRx = 0
      /\ bufferPos' = pEnqueueEntry /\ pEnqueueEntry' = NULL
      /\ queueMutex' = NoThread /\ pc' = [pc EXCEPT ![t] = "idle"]
      /\ mem' = mem /\ dequeueMutex' = dequeueMutex
      /\ pDequeueEntry' = pDequeueEntry /\ pEntry' = pEntry
      /\ inCallback' = inCallback /\ payloadRx' = payloadRx
      /\ arrived' = arrived /\ entries' = entries
  BY DEF EnqueueAbort, AbortPos, Goto
<1>2. queueMutex = t /\ pEnqueueEntry # NULL /\ pEnqueueEntry \in Offsets
  BY <1>0, <1>1 DEF PointersFollowLocks, EnqueueLocked, TypeOK
<1>3. TypeOK'
  <2>1. pc' \in [Threads -> Locations]
    BY <1>0, <1>1 DEF TypeOK, Locations
  <2>2. bufferPos' \in 0 .. BufferLen
    BY <1>1, <1>2 DEF Offsets
  <2>. QED BY <1>0, <1>1, <2>1, <2>2 DEF TypeOK
<1>4. EnqueueLocked'
  BY <1>0, <1>1, <1>2 DEF PointersFollowLocks, EnqueueLocked, TypeOK
<1>5. OpenEntryIsLast'
  BY <1>1 DEF OpenEntryIsLast
<1>6. DequeueLocked'
  BY <1>0, <1>1, <1>2 DEF PointersFollowLocks, DequeueLocked, TypeOK
<1>7. CommittedEnd' = CommittedEnd
  BY <1>1, <1>2 DEF CommittedEnd
<1>8. EntriesContiguous'
  BY <1>0, <1>1, <1>7 DEF BufferHoldsEntries, EntriesContiguous, Size
<1>9. EntriesIntact'
  BY <1>0, <1>1 DEF BufferHoldsEntries, EntriesIntact, Size
<1>. QED
  BY <1>3, <1>4, <1>5, <1>6, <1>8, <1>9
     DEF IInv, PointersFollowLocks, BufferHoldsEntries

\* What the steps of a dequeue that do not touch the buffer leave as it is.
LEMMA BufferUntouched ==
    ASSUME IInv,
           UNCHANGED <<mem, bufferPos, queueMutex, pEnqueueEntry, payloadRx,
                       arrived, entries>>
    PROVE  OpenEntryIsLast' /\ BufferHoldsEntries'
<1>1. OpenEntryIsLast /\ BufferHoldsEntries
  BY DEF IInv, PointersFollowLocks
<1>2. CommittedEnd' = CommittedEnd
  BY DEF CommittedEnd
<1>3. OpenEntryIsLast'
  BY <1>1 DEF OpenEntryIsLast, StrLineLen
<1>4. EntriesContiguous' /\ EntriesIntact'
  BY <1>1, <1>2 DEF BufferHoldsEntries, EntriesContiguous, EntriesIntact, Size
<1>. QED BY <1>3, <1>4 DEF BufferHoldsEntries

\* With a mutex that is not recursive only one thread is dequeueing.
LEMMA DequeueStepIInv ==
    ASSUME NotRecursive, IInv, NEW t \in Threads,
           \/ DequeueTryLock(t) \/ DequeueRead(t) \/ DequeueTake(t)
           \/ DequeueNone(t) \/ DequeueEnd(t)
    PROVE  IInv'
<1>. USE LengthsAssumption, ThreadsAssumption DEF NotRecursive, NULL
<1>0. TypeOK /\ PointersFollowLocks /\ BufferHoldsEntries
  BY DEF IInv
<1>1. ASSUME DequeueTryLock(t) PROVE IInv'
  <2>1. /\ pc[t] = "idle" /\ dequeueMutex = NoThread /\ dequeueMutex' = t
        /\ pc' = [pc EXCEPT ![t] = "tryLocked"]
        /\ UNCHANGED <<mem, bufferPos, queueMutex, pEnqueueEntry, payloadRx,
                       arrived, entries>>
        /\ pDequeueEntry' = pDequeueEntry /\ pEntry' = pEntry
        /\ inCallback' = inCallback
    BY <1>1 DEF DequeueTryLock, Available, Goto
  <2>2. TypeOK'
    BY <1>0, <2>1 DEF TypeOK, Locations
  <2>3. EnqueueLocked'
    BY <1>0, <2>1 DEF PointersFollowLocks, EnqueueLocked, TypeOK
  <2>4. DequeueLocked'
    BY <1>0, <2>1 DEF PointersFollowLocks, DequeueLocked, TypeOK
  <2>. QED BY <2>1, <2>2, <2>3, <2>4, BufferUntouched DEF IInv, PointersFollowLocks
<1>2. ASSUME DequeueRead(t) PROVE IInv'
  <2>1. /\ pc[t] = "tryLocked" /\ queueMutex = NoThread
        /\ pc' = [pc EXCEPT ![t] = "read"]
        /\ pEntry' = [pEntry EXCEPT ![t] = IF bufferPos > 0 THEN 0 ELSE NULL]
        /\ UNCHANGED <<mem, bufferPos, queueMutex, pEnqueueEntry, payloadRx,
                       arrived, entries>>
        /\ pDequeueEntry' = pDequeueEntry /\ dequeueMutex' = dequeueMutex
        /\ inCallback' = inCallback
    BY <1>2 DEF DequeueRead, ReadLocked, Available, Goto
  <2>2. bufferPos > 0 => entries # <<>>
    BY <1>0, <2>1 DEF PointersFollowLocks, EnqueueLocked, BufferHoldsEntries,
                      EntriesContiguous, CommittedEnd
  <2>3. TypeOK'
    BY <1>0, <2>1 DEF TypeOK, Locations
  <2>4. EnqueueLocked'
    BY <1>0, <2>1 DEF PointersFollowLocks, EnqueueLocked, TypeOK
  <2>5. DequeueLocked'
    BY <1>0, <2>1, <2>2 DEF PointersFollowLocks, DequeueLocked, TypeOK
  <2>. QED BY <2>1, <2>3, <2>4, <2>5, BufferUntouched DEF IInv, PointersFollowLocks
<1>3. ASSUME DequeueTake(t) PROVE IInv'
  <2>1. /\ pc[t] = "read" /\ pEntry[t] # NULL
        /\ pc' = [pc EXCEPT ![t] = "idle"] /\ pDequeueEntry' = pEntry[t]
        /\ inCallback' = inCallback \union {t}
        /\ UNCHANGED <<mem, bufferPos, queueMutex, pEnqueueEntry, payloadRx,
                       arrived, entries>>
        /\ pEntry' = pEntry /\ dequeueMutex' = dequeueMutex
    BY <1>3 DEF DequeueTake, Goto
  <2>2. pEntry[t] = 0 /\ entries # <<>> /\ dequeueMutex = t
    BY <1>0, <2>1 DEF TypeOK, PointersFollowLocks, DequeueLocked
  <2>3. 0 \in Offsets
    <3>1. 1 \in 1 .. Len(entries)
      BY <1>0, <2>2 DEF TypeOK
    <3>2. Size(entries[1]) \in Nat /\ Size(entries[1]) >= 5
      BY <1>0, <3>1, SizeBounds
    <3>3. 0 \in 0 .. Size(entries[1]) - 1
      BY <3>2
    <3>4. entries[1].at + 0 \in Offsets
      BY <1>0, <3>1, <3>3, EntryBounds
         DEF PointersFollowLocks, BufferHoldsEntries
    <3>5. entries[1].at = 0
      BY <1>0, <2>2 DEF BufferHoldsEntries, EntriesContiguous
    <3>. QED BY <3>4, <3>5
  <2>4. TypeOK'
    BY <1>0, <2>1, <2>2, <2>3 DEF TypeOK, Locations
  <2>5. EnqueueLocked'
    BY <1>0, <2>1 DEF PointersFollowLocks, EnqueueLocked, TypeOK
  <2>6. DequeueLocked'
    BY <1>0, <2>1, <2>2 DEF PointersFollowLocks, DequeueLocked, TypeOK
  <2>. QED BY <2>1, <2>4, <2>5, <2>6, BufferUntouched DEF IInv, PointersFollowLocks
<1>4. ASSUME DequeueNone(t) PROVE IInv'
  <2>1. /\ pc[t] = "read" /\ pEntry[t] = NULL /\ dequeueMutex' = NoThread
        /\ pc' = [pc EXCEPT ![t] = "idle"]
        /\ UNCHANGED <<mem, bufferPos, queueMutex, pEnqueueEntry, payloadRx,
                       arrived, entries>>
        /\ pEntry' = pEntry /\ pDequeueEntry' = pDequeueEntry
        /\ inCallback' = inCallback
    BY <1>4 DEF DequeueNone, UnlockEmpty, Goto
  <2>2. TypeOK'
    BY <1>0, <2>1 DEF TypeOK, Locations
  <2>3. EnqueueLocked'
    BY <1>0, <2>1 DEF PointersFollowLocks, EnqueueLocked, TypeOK
  <2>4. DequeueLocked'
    BY <1>0, <2>1 DEF PointersFollowLocks, DequeueLocked, TypeOK
  <2>. QED BY <2>1, <2>2, <2>3, <2>4, BufferUntouched DEF IInv, PointersFollowLocks
<1>5. ASSUME DequeueEnd(t) PROVE IInv'
  <2>1. /\ pc[t] = "removed" /\ dequeueMutex' = NoThread
        /\ pDequeueEntry' = NULL /\ pc' = [pc EXCEPT ![t] = "idle"]
        /\ UNCHANGED <<mem, bufferPos, queueMutex, pEnqueueEntry, payloadRx,
                       arrived, entries>>
        /\ pEntry' = pEntry /\ inCallback' = inCallback
    BY <1>5 DEF DequeueEnd, ClearDequeueEntry, Goto
  <2>2. TypeOK'
    BY <1>0, <2>1 DEF TypeOK, Locations
  <2>3. EnqueueLocked'
    BY <1>0, <2>1 DEF PointersFollowLocks, EnqueueLocked, TypeOK
  <2>4. DequeueLocked'
    BY <1>0, <2>1 DEF PointersFollowLocks, DequeueLocked, TypeOK
  <2>. QED BY <2>1, <2>2, <2>3, <2>4, BufferUntouched DEF IInv, PointersFollowLocks
<1>. QED BY <1>1, <1>2, <1>3, <1>4, <1>5

\* Places that are moved down together stay in order.
LEMMA Shifted ==
    ASSUME NEW a \in Nat, NEW b \in Nat, NEW c \in Nat, NEW t \in Nat, a + b <= c
    PROVE  (a - t) + b <= c - t
OBVIOUS

\* DequeueEnd moves the remaining entries down by the size of the first one.
LEMMA DequeueRemoveIInv ==
    ASSUME NotRecursive, IInv, NEW t \in Threads, DequeueRemove(t)
    PROVE  IInv'
<1>. USE LengthsAssumption, ThreadsAssumption DEF NotRecursive, NULL
<1>. DEFINE n == Len(entries)
            total == Size(entries[1])
            remaining == bufferPos - total
<1>0. TypeOK /\ PointersFollowLocks /\ BufferHoldsEntries
  BY DEF IInv
<1>1. /\ pc[t] = "idle" /\ t \in inCallback /\ queueMutex = NoThread
      /\ inCallback' = inCallback \ {t} /\ pEntry' = [pEntry EXCEPT ![t] = NULL]
      /\ pc' = [pc EXCEPT ![t] = "removed"]
      /\ queueMutex' = queueMutex /\ dequeueMutex' = dequeueMutex
      /\ pEnqueueEntry' = pEnqueueEntry /\ pDequeueEntry' = pDequeueEntry
      /\ payloadRx' = payloadRx /\ arrived' = arrived
  BY DEF DequeueRemove, Available, Goto
<1>2. /\ pEntry[t] = 0 /\ entries # <<>> /\ dequeueMutex = t
      /\ pEnqueueEntry = NULL /\ pEnqueueEntry' = NULL
  BY <1>0, <1>1 DEF PointersFollowLocks, EnqueueLocked, DequeueLocked
<1>3. entries \in Seq(Record) /\ n \in Nat /\ n >= 1 /\ 1 \in 1 .. n
  BY <1>0, <1>2 DEF TypeOK
<1>4. CommittedEnd = bufferPos /\ CommittedEnd' = bufferPos'
  BY <1>2 DEF CommittedEnd
<1>5. /\ entries[1] \in Record /\ entries[1].at = 0 /\ total \in Nat
      /\ total = 5 + entries[1].line + entries[1].payload /\ total >= 5
      /\ total <= bufferPos
  <2>1. /\ entries[1] \in Record /\ total \in Nat /\ total >= 5
        /\ total = 5 + entries[1].line + entries[1].payload
    BY <1>0, <1>3, SizeBounds
  <2>2. entries[1].at = 0
    BY <1>0, <1>2 DEF BufferHoldsEntries, EntriesContiguous
  <2>3. entries[1].at + total <= bufferPos
    BY <1>0, <1>3, <1>4, EntryBounds DEF PointersFollowLocks, BufferHoldsEntries
  <2>. QED BY <2>1, <2>2, <2>3
<1>6. /\ bufferPos \in Nat /\ BufferLen \in Nat /\ bufferPos <= BufferLen
      /\ remaining \in Nat
  BY <1>0, <1>5 DEF TypeOK
<1>7. StrLineLen(0) = entries[1].line /\ PayloadSize(0) = entries[1].payload
  <2>1. \A k \in 0 .. total - 1 :
           mem[entries[1].at + k] = EntryByte(entries[1].urc, entries[1].line,
                                              entries[1].payload, k)
    BY <1>0, <1>3 DEF BufferHoldsEntries, EntriesIntact
  <2>2. 0 \in 0 .. total - 1 /\ 2 \in 0 .. total - 1
    BY <1>5
  <2>3. entries[1].at + 0 = 0 /\ entries[1].at + 2 = 2 /\ 0 + 2 = 2
    BY <1>5
  <2>4. mem[0] = EntryByte(entries[1].urc, entries[1].line,
                           entries[1].payload, 0)
    BY <2>1, <2>2, <2>3
  <2>5. mem[2] = EntryByte(entries[1].urc, entries[1].line,
                           entries[1].payload, 2)
    BY <2>1, <2>2, <2>3
  <2>. QED BY <2>3, <2>4, <2>5 DEF StrLineLen, PayloadSize, EntryByte
<1>8. EntrySize(StrLineLen(pEntry[t]), PayloadSize(pEntry[t])) = total
  BY <1>2, <1>7 DEF Size
<1>9. /\ mem' = [o \in Offsets |-> IF o < remaining THEN mem[o + total]
                                                    ELSE mem[o]]
      /\ bufferPos' = remaining
      /\ entries' = [i \in 1 .. n - 1 |->
                        [entries[i + 1] EXCEPT !.at = @ - total]]
  BY <1>6, <1>8 DEF DequeueRemove
<1>. HIDE DEF remaining, total
<1>10. ASSUME NEW i \in 1 .. n
       PROVE  /\ entries[i] \in Record /\ Size(entries[i]) \in Nat
              /\ entries[i].at \in Nat
              /\ entries[i].at + Size(entries[i]) <= bufferPos
              /\ i > 1 => total <= entries[i].at
  <2>1. /\ entries[i] \in Record /\ Size(entries[i]) \in Nat
        /\ entries[i].at \in Nat
    BY <1>0, SizeBounds DEF Record
  <2>2. entries[i].at + Size(entries[i]) <= bufferPos
    BY <1>0, <1>4, EntryBounds DEF PointersFollowLocks, BufferHoldsEntries
  <2>3. i > 1 => entries[1].at + total <= entries[i].at
    BY <1>0, <1>3 DEF total, BufferHoldsEntries, EntriesContiguous
  <2>. QED BY <1>5, <2>1, <2>2, <2>3
<1>11. ASSUME NEW i \in 1 .. n - 1
       PROVE  /\ i + 1 \in 1 .. n
              /\ entries'[i] \in Record /\ entries[i + 1] \in Record
              /\ entries'[i].urc = entries[i + 1].urc
              /\ entries'[i].line = entries[i + 1].line
              /\ entries'[i].payload = entries[i + 1].payload
              /\ entries'[i].at = entries[i + 1].at - total
              /\ Size(entries'[i]) = Size(entries[i + 1])
  <2>1. i + 1 \in 1 .. n /\ i + 1 > 1
    BY <1>3
  <2>2. /\ entries[i + 1] \in Record /\ total <= entries[i + 1].at
    BY <1>10, <2>1
  <2>3. entries'[i] = [entries[i + 1] EXCEPT !.at = @ - total]
    BY <1>9
  <2>4. entries[i + 1].at - total \in Nat
    BY <1>5, <2>2 DEF Record
  <2>. HIDE DEF n
  <2>5. /\ entries'[i] \in Record
        /\ entries'[i].urc = entries[i + 1].urc
        /\ entries'[i].line = entries[i + 1].line
        /\ entries'[i].payload = entries[i + 1].payload
        /\ entries'[i].at = entries[i + 1].at - total
    BY <2>2, <2>3, <2>4 DEF Record
  <2>6. Size(entries'[i]) = Size(entries[i + 1])
    BY <2>5 DEF Size
  <2>. QED BY <2>1, <2>2, <2>5, <2>6
<1>12. entries' \in Seq(Record) /\ Len(entries') = n - 1
  BY <1>3, <1>9, <1>11
<1>13. TypeOK'
  <2>1. mem' \in [Offsets -> Byte]
    <3>1. ASSUME NEW o \in Offsets, o < remaining
          PROVE  mem[o + total] \in Byte
      <4>1. o + total \in Offsets
        BY <1>5, <1>6, <3>1 DEF Offsets, remaining
      <4>. QED BY <1>0, <4>1 DEF TypeOK
    <3>. QED BY <1>0, <1>9, <3>1 DEF TypeOK
  <2>2. pc' \in [Threads -> Locations]
    BY <1>0, <1>1 DEF TypeOK, Locations
  <2>3. bufferPos' \in 0 .. BufferLen
    BY <1>5, <1>6, <1>9 DEF remaining
  <2>. QED BY <1>0, <1>1, <1>12, <2>1, <2>2, <2>3 DEF TypeOK
<1>14. EnqueueLocked'
  BY <1>0, <1>1 DEF PointersFollowLocks, EnqueueLocked, TypeOK
<1>15. OpenEntryIsLast'
  BY <1>2 DEF OpenEntryIsLast
<1>16. DequeueLocked'
  BY <1>0, <1>1, <1>2 DEF PointersFollowLocks, DequeueLocked, TypeOK
<1>17. EntriesContiguous'
  <2>1. entries' = <<>> => bufferPos' = 0
    <3>1. entries' = <<>> => n = 1
      BY <1>3, <1>12
    <3>2. n = 1 => total = bufferPos
      BY <1>0, <1>2, <1>4, <1>5, <1>6
         DEF BufferHoldsEntries, EntriesContiguous, total
    <3>. QED BY <1>6, <1>9, <3>1, <3>2 DEF remaining
  <2>2. ASSUME entries' # <<>>
        PROVE  /\ entries'[1].at = 0
               /\ entries'[n - 1].at + Size(entries'[n - 1]) = bufferPos'
    <3>1. n >= 2 /\ 1 \in 1 .. n - 1 /\ n - 1 \in 1 .. n - 1
          /\ 2 \in 1 .. n /\ n \in 1 .. n
      BY <1>3, <1>12, <2>2
    <3>2. entries[1].at + total = entries[2].at
      BY <1>0, <1>3, <3>1 DEF BufferHoldsEntries, EntriesContiguous, total
    <3>3. entries'[1].at = 0
      BY <1>5, <1>11, <3>1, <3>2
    <3>4. entries[n].at + Size(entries[n]) = bufferPos
      BY <1>0, <1>2, <1>4 DEF BufferHoldsEntries, EntriesContiguous
    <3>5. /\ entries'[n - 1].at = entries[n].at - total
          /\ Size(entries'[n - 1]) = Size(entries[n])
      BY <1>3, <1>11, <3>1
    <3>6. entries'[n - 1].at + Size(entries'[n - 1]) = bufferPos'
      <4>1. entries[n].at \in Nat /\ Size(entries[n]) \in Nat
        BY <1>10, <3>1
      <4>2. total \in Nat /\ bufferPos \in Nat /\ bufferPos' = bufferPos - total
        BY <1>5, <1>6, <1>9 DEF remaining
      <4>. QED BY <3>4, <3>5, <4>1, <4>2
    <3>. QED BY <3>3, <3>6
  <2>3. ASSUME NEW i \in 1 .. n - 1, NEW j \in 1 .. n - 1
        PROVE  /\ i < j => entries'[i].at + Size(entries'[i]) <= entries'[j].at
               /\ j = i + 1 =>
                     entries'[i].at + Size(entries'[i]) = entries'[j].at
    <3>. DEFINE p == i + 1
                q == j + 1
    <3>1. /\ p \in 1 .. n /\ q \in 1 .. n
          /\ (i < j => p < q) /\ (j = i + 1 => q = p + 1)
      BY <1>3
    <3>2. /\ entries'[i].at = entries[p].at - total
          /\ Size(entries'[i]) = Size(entries[p])
          /\ entries'[j].at = entries[q].at - total
      BY <1>11
    <3>. HIDE DEF p, q
    <3>3. /\ p < q => entries[p].at + Size(entries[p]) <= entries[q].at
          /\ q = p + 1 => entries[p].at + Size(entries[p]) = entries[q].at
      BY <1>0, <3>1 DEF BufferHoldsEntries, EntriesContiguous
    <3>4. /\ entries[p].at \in Nat /\ entries[q].at \in Nat
          /\ Size(entries[p]) \in Nat
      BY <1>10, <3>1
    <3>5. ASSUME i < j
          PROVE  entries'[i].at + Size(entries'[i]) <= entries'[j].at
      <4>1. entries[p].at + Size(entries[p]) <= entries[q].at
        BY <3>1, <3>3, <3>5
      <4>2. total \in Nat
        BY <1>5
      <4>3. (entries[p].at - total) + Size(entries[p]) <= entries[q].at - total
        BY <3>4, <4>1, <4>2, Shifted
      <4>. QED BY <3>2, <4>3, Zenon
    <3>6. ASSUME j = i + 1
          PROVE  entries'[i].at + Size(entries'[i]) = entries'[j].at
      <4>1. entries[p].at + Size(entries[p]) = entries[q].at
        BY <3>1, <3>3, <3>6
      <4>2. total \in Nat
        BY <1>5
      <4>3. entries[p].at \in Nat
        BY <3>4
      <4>4. Size(entries[p]) \in Nat
        BY <3>4
      <4>5. (entries[p].at - total) + Size(entries[p])
               = (entries[p].at + Size(entries[p])) - total
        BY <4>2, <4>3, <4>4
      <4>6. entries'[i].at + Size(entries'[i]) = (entries[p].at - total) + Size(entries[p])
        BY <3>2, Zenon
      <4>7. entries'[j].at = (entries[p].at + Size(entries[p])) - total
        BY <3>2, <4>1, Zenon
      <4>. QED BY <4>5, <4>6, <4>7, Zenon
    <3>. QED BY <3>5, <3>6
  <2>. QED
    BY <1>4, <1>12, <2>1, <2>2, <2>3 DEF EntriesContiguous, Size
<1>18. EntriesIntact'
  <2>1. ASSUME NEW i \in 1 .. n - 1, NEW k \in 0 .. Size(entries'[i]) - 1
        PROVE  mem'[entries'[i].at + k]
                  = EntryByte(entries'[i].urc, entries'[i].line,
                              entries'[i].payload, k)
    <3>. DEFINE p == i + 1
                o == entries'[i].at + k
    <3>1. p \in 1 .. n /\ p > 1
      BY <1>3
    <3>2. /\ entries[p].at \in Nat /\ Size(entries[p]) \in Nat
          /\ entries[p].at + Size(entries[p]) <= bufferPos
          /\ total <= entries[p].at
      BY <1>10, <3>1
    <3>3. /\ entries'[i].at = entries[p].at - total
          /\ k \in 0 .. Size(entries[p]) - 1
      BY <1>11
    <3>. HIDE DEF p
    <3>. DEFINE a == entries[p].at
    <3>4. o = a - total + k
      BY <3>3
    <3>5. k \in Nat /\ a + k < bufferPos
      BY <1>6, <3>2, <3>3
    <3>. HIDE DEF o, a
    <3>6. a \in Nat /\ total <= a
      BY <3>2 DEF a
    <3>7. /\ o \in Offsets /\ o < remaining /\ o + total = a + k
      <4>1. total \in Nat /\ bufferPos \in Nat /\ BufferLen \in Nat
            /\ bufferPos <= BufferLen
        BY <1>5, <1>6
      <4>2. o \in Nat /\ o < bufferPos - total /\ o + total = a + k
        BY <3>4, <3>5, <3>6, <4>1
      <4>. QED BY <4>1, <4>2 DEF Offsets, remaining
    <3>8. mem'[o] = mem[entries[p].at + k]
      BY <1>9, <3>7 DEF a
    <3>9. mem[entries[p].at + k] = EntryByte(entries[p].urc, entries[p].line,
                                             entries[p].payload, k)
      BY <1>0, <3>1, <3>3 DEF BufferHoldsEntries, EntriesIntact
    <3>. QED BY <1>11, <3>8, <3>9 DEF o, p
  <2>. QED BY <1>12, <2>1 DEF EntriesIntact, Size
<1>. QED
  BY <1>13, <1>14, <1>15, <1>16, <1>17, <1>18
     DEF IInv, PointersFollowLocks, BufferHoldsEntries

\* A refused URC changes nothing but the count, and a stutter changes nothing.
LEMMA UnchangedIInv ==
    ASSUME IInv, arrived' \in Nat,
           UNCHANGED <<mem, bufferPos, queueMutex, dequeueMutex, pEnqueueEntry,
                       pDequeueEntry, pc, pEntry, inCallback, payloadRx, entries>>
    PROVE  IInv'
<1>. USE DEF IInv
<1>1. TypeOK'
  BY DEF TypeOK
<1>2. PointersFollowLocks'
  BY DEF PointersFollowLocks, EnqueueLocked, OpenEntryIsLast, DequeueLocked,
         StrLineLen
<1>3. BufferHoldsEntries'
  BY DEF BufferHoldsEntries, EntriesContiguous, EntriesIntact, CommittedEnd, Size
<1>. QED BY <1>1, <1>2, <1>3

\* Every step of the queue preserves the invariant.
LEMMA NextIInv ==
    ASSUME NotRecursive, IInv, [Next]_vars
    PROVE  IInv'
<1>0. arrived \in Nat
  BY DEF IInv, TypeOK
<1>1. CASE UNCHANGED vars
  BY <1>0, <1>1, UnchangedIInv DEF vars
<1>2. ASSUME NEW t \in Threads, Enqueue(t)
      PROVE  IInv'
  <2>1. ASSUME NEW n \in LineLens, EnqueueBegin(t, n)
        PROVE  IInv'
    BY <2>1, EnqueueBeginIInv
  <2>2. ASSUME NEW n \in LineLens, EnqueueRefuse(t, n)
        PROVE  IInv'
    BY <1>0, <2>2, UnchangedIInv DEF EnqueueRefuse
  <2>3. ASSUME NEW n \in PayloadLens, EnqueuePayload(t, n)
        PROVE  IInv'
    BY <2>3, EnqueuePayloadIInv
  <2>. QED
    BY <1>2, <2>1, <2>2, <2>3, EnqueueEndIInv, EnqueueAbortIInv DEF Enqueue
<1>3. ASSUME NEW t \in Threads, Dequeue(t)
      PROVE  IInv'
  BY <1>3, DequeueStepIInv, DequeueRemoveIInv DEF Dequeue
<1>. QED BY <1>1, <1>2, <1>3 DEF Next

-----------------------------------------------------------------------------
(* Theorems. *)

\* The invariant holds throughout every behaviour of the queue.
THEOREM Invariant ==
    ASSUME NotRecursive
    PROVE  Spec => []IInv
BY InitIInv, NextIInv, PTL DEF Spec

\* The queue structure of u_cx_at_urc_queue.c stays well typed: in particular
\* bufferPos and both entry pointers stay inside the buffer.
THEOREM TypeCorrect ==
    ASSUME NotRecursive
    PROVE  Spec => []TypeOK
<1>1. IInv => TypeOK
  BY DEF IInv
<1>. QED BY <1>1, Invariant, PTL

\* pEnqueueEntry and pDequeueEntry follow queueMutex and dequeueMutex.
THEOREM PointersFollowLocksTheorem ==
    ASSUME NotRecursive
    PROVE  Spec => []PointersFollowLocks
<1>1. IInv => PointersFollowLocks
  BY DEF IInv
<1>. QED BY <1>1, Invariant, PTL

\* Whatever the buffer size, no enqueue, abort or removal damages an entry.
THEOREM BufferIntegrity ==
    ASSUME NotRecursive
    PROVE  Spec => []BufferHoldsEntries
<1>1. IInv => BufferHoldsEntries
  BY DEF IInv
<1>. QED BY <1>1, Invariant, PTL

\* A URC callback works in place on intact data while other threads enqueue.
THEOREM CallbackIntegrity ==
    ASSUME NotRecursive
    PROVE  Spec => []CallbackSeesItsUrc
<1>1. IInv => CallbackSeesItsUrc
  <2>. SUFFICES ASSUME IInv, NEW t \in inCallback
                PROVE  /\ entries # <<>> /\ pEntry[t] = 0
                       /\ \A k \in 0 .. Size(entries[1]) - 1 :
                             mem[k] = EntryByte(entries[1].urc, entries[1].line,
                                                entries[1].payload, k)
    BY DEF CallbackSeesItsUrc
  <2>1. t \in Threads /\ pEntry[t] = 0 /\ entries # <<>>
    BY DEF IInv, TypeOK, PointersFollowLocks, DequeueLocked, NULL
  <2>2. 1 \in 1 .. Len(entries) /\ entries[1].at = 0
    BY <2>1 DEF IInv, TypeOK, BufferHoldsEntries, EntriesContiguous
  <2>3. Size(entries[1]) \in Nat
    BY <2>2, SizeBounds DEF IInv
  <2>4. ASSUME NEW k \in 0 .. Size(entries[1]) - 1
        PROVE  mem[k] = EntryByte(entries[1].urc, entries[1].line,
                                  entries[1].payload, k)
    <3>1. mem[entries[1].at + k] = EntryByte(entries[1].urc, entries[1].line,
                                             entries[1].payload, k)
      BY <2>2 DEF IInv, BufferHoldsEntries, EntriesIntact
    <3>2. entries[1].at + k = k
      BY <2>2, <2>3
    <3>. QED BY <3>1, <3>2
  <2>. QED BY <2>1, <2>4
<1>. QED BY <1>1, Invariant, PTL

\* No U_CX_AT_PORT_ASSERT of u_cx_at_urc_queue.c can fail.
THEOREM NoAssertFails ==
    ASSUME NotRecursive
    PROVE  Spec => []AssertsHold
<1>1. IInv => AssertsHold
  <2>. SUFFICES ASSUME IInv, NEW t \in Threads
                PROVE  /\ pc[t] = "idle" /\ Available(queueMutex, t)
                             => pEnqueueEntry = NULL
                       /\ pc[t] = "idle" /\ Available(dequeueMutex, t)
                             => pDequeueEntry = NULL
                       /\ pc[t] = "enqueuing"
                             => pEnqueueEntry # NULL /\ payloadRx <= UnusedBuf
                       /\ t \in inCallback
                             => pDequeueEntry # NULL /\ pDequeueEntry = pEntry[t]
    BY DEF AssertsHold
  <2>1. TypeOK /\ EnqueueLocked /\ OpenEntryIsLast /\ DequeueLocked
    BY DEF IInv, PointersFollowLocks
  <2>2. ASSUME pc[t] = "enqueuing"
        PROVE  pEnqueueEntry # NULL /\ payloadRx <= UnusedBuf
    <3>1. queueMutex = t /\ pEnqueueEntry # NULL
      BY <2>1, <2>2, ThreadsAssumption DEF EnqueueLocked
    <3>2. bufferPos + payloadRx <= BufferLen
      BY <2>1, <3>1 DEF OpenEntryIsLast
    <3>3. bufferPos \in Nat /\ payloadRx \in Nat /\ BufferLen \in Nat
      BY <2>1, LengthsAssumption DEF TypeOK
    <3>. QED BY <3>1, <3>2, <3>3 DEF UnusedBuf
  <2>3. ASSUME t \in inCallback
        PROVE  pDequeueEntry # NULL /\ pDequeueEntry = pEntry[t]
    BY <2>1, <2>3 DEF DequeueLocked, NULL
  <2>. QED
    BY <2>1, <2>2, <2>3 DEF NotRecursive, Available, EnqueueLocked, DequeueLocked
<1>. QED BY <1>1, Invariant, PTL

-----------------------------------------------------------------------------
(* The queue implements UrcFifo. *)

\* A sequence is the function of its elements.
LEMMA SequenceExtensional ==
    ASSUME NEW S, NEW s \in Seq(S)
    PROVE  s = [i \in 1 .. Len(s) |-> s[i]]
OBVIOUS

AbstractEntries == [line : [urc : Nat, len : Nat], payload : Nat]

\* The abstract queue, entry by entry.
LEMMA FifoEntriesType ==
    ASSUME TypeOK
    PROVE  /\ FifoEntries \in Seq(AbstractEntries)
           /\ Len(FifoEntries) = Len(entries)
           /\ \A i \in 1 .. Len(entries) : FifoEntries[i] = FifoEntry(entries[i])
           /\ entries \in Seq(Record) /\ Len(entries) \in Nat
<1>1. entries \in Seq(Record) /\ Len(entries) \in Nat
  BY DEF TypeOK
<1>2. \A i \in 1 .. Len(entries) : FifoEntry(entries[i]) \in AbstractEntries
  <2>1. ASSUME NEW e \in Record PROVE FifoEntry(e) \in AbstractEntries
    BY DEF FifoEntry, Record, AbstractEntries
  <2>. QED BY <1>1, <2>1
<1>. QED BY <1>1, <1>2 DEF FifoEntries

\* The bytes at offset 0 are those of the first entry of the abstract queue,
\* whenever a thread has been handed the entry there.
HeadTaken ==
    \A t \in Threads : pEntry[t] # NULL =>
       /\ entries # <<>> /\ TakenEntry = FifoEntry(entries[1])
       /\ FifoEntries[1] = FifoEntry(entries[1])
       /\ TakenEntry # NoUrc /\ dequeueMutex = t

LEMMA TakenIsHead == IInv => HeadTaken
<1>. SUFFICES ASSUME IInv, NEW t \in Threads, pEntry[t] # NULL
              PROVE  /\ entries # <<>> /\ TakenEntry = FifoEntry(entries[1])
                     /\ FifoEntries[1] = FifoEntry(entries[1])
                     /\ TakenEntry # NoUrc /\ dequeueMutex = t
  BY DEF HeadTaken
<1>1. /\ TypeOK /\ EntriesContiguous /\ EntriesIntact
      /\ entries # <<>> /\ dequeueMutex = t
  BY DEF IInv, PointersFollowLocks, DequeueLocked, BufferHoldsEntries
<1>2. 1 \in 1 .. Len(entries) /\ entries[1].at = 0
  BY <1>1 DEF TypeOK, EntriesContiguous
<1>3. Size(entries[1]) \in Nat /\ Size(entries[1]) >= 5
  BY <1>1, <1>2, SizeBounds
<1>4. /\ 0 \in 0 .. Size(entries[1]) - 1 /\ 2 \in 0 .. Size(entries[1]) - 1
      /\ entries[1].at + 0 = 0 /\ entries[1].at + 2 = 2 /\ 0 + 2 = 2
  BY <1>2, <1>3
<1>5. /\ mem[0] = EntryByte(entries[1].urc, entries[1].line, entries[1].payload, 0)
      /\ mem[2] = EntryByte(entries[1].urc, entries[1].line, entries[1].payload, 2)
  BY <1>1, <1>2, <1>4 DEF EntriesIntact
<1>6. TakenEntry = FifoEntry(entries[1])
  BY <1>4, <1>5 DEF TakenEntry, FifoEntry, StrLineLen, PayloadSize, EntryByte
<1>7. FifoEntries[1] = FifoEntry(entries[1]) /\ FifoEntries[1] \in AbstractEntries
  BY <1>1, <1>2, FifoEntriesType
<1>. QED BY <1>1, <1>6, <1>7, NoUrcAssumption DEF AbstractEntries

\* While the first entry stays, the entry handed out stays the same.
LEMMA TakenStays ==
    ASSUME IInv, IInv', pEntry' = pEntry,
           entries # <<>> => entries'[1] = entries[1]
    PROVE  TakenEntry' = TakenEntry
<1>1. CASE \A t \in Threads : pEntry[t] = NULL
  BY <1>1 DEF TakenEntry
<1>2. ASSUME NEW t \in Threads, pEntry[t] # NULL
      PROVE  TakenEntry' = TakenEntry
  <2>1. HeadTaken /\ HeadTaken'
    BY TakenIsHead, PTL
  <2>2. entries # <<>> /\ TakenEntry = FifoEntry(entries[1])
    BY <1>2, <2>1 DEF HeadTaken
  <2>3. TakenEntry' = FifoEntry(entries'[1])
    BY <1>2, <2>1 DEF HeadTaken, FifoEntry
  <2>. QED BY <2>2, <2>3
<1>. QED BY <1>1, <1>2

\* The steps that the abstract queue does not see.
LEMMA StutterRefines ==
    ASSUME NotRecursive, IInv, NEW t \in Threads,
           \/ \E n \in LineLens : EnqueueRefuse(t, n)
           \/ \E n \in PayloadLens : EnqueuePayload(t, n)
           \/ DequeueTryLock(t) \/ DequeueTake(t) \/ DequeueNone(t)
           \/ DequeueEnd(t) \/ UNCHANGED vars,
           IInv'
    PROVE  UNCHANGED <<FifoEntries, OpenLine, TakenEntry>>
<1>1. /\ entries' = entries /\ pEntry' = pEntry
      /\ pEnqueueEntry' = pEnqueueEntry
  BY DEF EnqueueRefuse, EnqueuePayload, DequeueTryLock, DequeueTake,
         DequeueNone, DequeueEnd, vars
<1>2. FifoEntries' = FifoEntries
  BY <1>1 DEF FifoEntries, FifoEntry
<1>3. TakenEntry' = TakenEntry
  BY <1>1, TakenStays
<1>4. OpenLine' = OpenLine
  <2>1. CASE pEnqueueEntry = NULL
    BY <1>1, <2>1 DEF OpenLine
  <2>2. CASE pEnqueueEntry # NULL
    <3>1. mem'[pEnqueueEntry] = mem[pEnqueueEntry]
      <4>1. ASSUME NEW n \in PayloadLens, EnqueuePayload(t, n)
            PROVE  mem'[pEnqueueEntry] = mem[pEnqueueEntry]
        <5>. DEFINE e == pEnqueueEntry
                    len == StrLineLen(e)
        <5>1. e \in Offsets /\ e \in Nat /\ mem[e] \in Byte /\ n \in Nat
          BY <2>2, LengthsAssumption DEF IInv, TypeOK, Offsets
        <5>2. len \in Nat
          BY <5>1 DEF StrLineLen, Byte
        <5>3. e \notin e + HeaderLen + len + 1 .. e + HeaderLen + len + 1 + n - 1
          BY <5>1, <5>2 DEF HeaderLen
        <5>. QED BY <4>1, <5>1, <5>3 DEF EnqueuePayload
      <4>2. CASE mem' = mem
        BY <4>2
      <4>. QED
        BY <4>1, <4>2 DEF EnqueueRefuse, DequeueTryLock, DequeueTake,
                          DequeueNone, DequeueEnd, vars
    <3>. QED BY <1>1, <2>2, <3>1 DEF OpenLine, StrLineLen
  <2>. QED BY <2>1, <2>2
<1>. QED BY <1>2, <1>3, <1>4

\* Every step of the queue is a step of UrcFifo or none at all.
LEMMA NextRefines ==
    ASSUME NotRecursive, IInv, [Next]_vars, IInv'
    PROVE  Fifo!Next \/ UNCHANGED <<FifoEntries, OpenLine, TakenEntry>>
<1>. USE ThreadsAssumption DEF NotRecursive, NULL
<1>0. /\ TypeOK /\ EnqueueLocked /\ OpenEntryIsLast /\ DequeueLocked
      /\ BufferHoldsEntries /\ HeadTaken /\ HeadTaken'
  BY TakenIsHead, PTL DEF IInv, PointersFollowLocks
<1>1. ASSUME NEW t \in Threads, NEW n \in LineLens, EnqueueBegin(t, n)
      PROVE  Fifo!Next
  <2>. DEFINE l == [urc |-> arrived + 1, len |-> n]
  <2>1. /\ pEnqueueEntry = NULL /\ pEnqueueEntry' = bufferPos
        /\ entries' = entries /\ pEntry' = pEntry
    BY <1>0, <1>1 DEF EnqueueBegin, Available, EnqueueLocked
  <2>2. bufferPos \in Nat /\ arrived \in Nat /\ n \in Nat /\ n % LengthRange = n
    <3>1. n \in 0 .. LengthRange - 1 /\ LengthRange \in Nat \ {0}
      BY LengthsAssumption
    <3>. QED BY <1>0, <3>1 DEF TypeOK
  <2>3. bufferPos \in Offsets /\ bufferPos \in bufferPos .. bufferPos + n + 4
    BY <1>1, <2>2, LengthsAssumption
       DEF EnqueueBegin, RoomForLine, UnusedBuf, HeaderLen, Offsets
  <2>4. mem'[bufferPos] = EntryByte(arrived + 1, n, 0, bufferPos - bufferPos)
    BY <1>1, <2>2, <2>3 DEF EnqueueBegin, EntrySize, HeaderLen
  <2>5. OpenLine' = l /\ OpenLine = NoUrc
    BY <2>1, <2>2, <2>4 DEF OpenLine, StrLineLen, EntryByte
  <2>6. FifoEntries' = FifoEntries /\ TakenEntry' = TakenEntry
    BY <2>1, TakenStays DEF FifoEntries, FifoEntry
  <2>7. l \in [urc : 1 .. MaxUrcs, len : LineLens]
    BY <1>1, <2>2, LengthsAssumption DEF EnqueueBegin
  <2>. QED BY <2>5, <2>6, <2>7 DEF Fifo!Next, Fifo!EnqueueBegin
<1>2. ASSUME NEW t \in Threads, EnqueueEnd(t)
      PROVE  Fifo!Next
  <2>. DEFINE e == pEnqueueEntry
              new == [urc |-> mem[e].urc, at |-> e, line |-> StrLineLen(e),
                      payload |-> payloadRx]
              n == Len(entries)
  <2>1. /\ e # NULL /\ e \in Offsets /\ pEnqueueEntry' = NULL
        /\ entries' = Append(entries, new) /\ pEntry' = pEntry
        /\ payloadRx \in PayloadLens \union {0}
    BY <1>0, <1>2 DEF EnqueueEnd, EnqueueLocked, TypeOK
  <2>2. /\ mem[e] \in Byte /\ e \in Nat /\ payloadRx \in Nat
    BY <1>0, <2>1, LengthsAssumption DEF TypeOK, Offsets
  <2>3. new \in Record
    BY <2>2 DEF Record, Byte, StrLineLen
  <2>4. OpenLine = [urc |-> new.urc, len |-> new.line] /\ OpenLine' = NoUrc
    BY <2>1 DEF OpenLine
  <2>5. OpenLine # NoUrc
    BY <2>3, <2>4, NoUrcAssumption DEF Record
  <2>6. FifoEntry(new) = [line |-> OpenLine, payload |-> payloadRx]
    BY <2>4 DEF FifoEntry
  <2>. HIDE DEF new
  <2>7. /\ entries \in Seq(Record) /\ entries' \in Seq(Record)
        /\ n \in Nat /\ Len(entries') = n + 1 /\ entries'[n + 1] = new
        /\ \A i \in 1 .. n : entries'[i] = entries[i]
    BY <1>0, <2>1, <2>3 DEF TypeOK
  <2>8. FifoEntries' = Append(FifoEntries, FifoEntry(new))
    <3>. DEFINE F == Append(FifoEntries, FifoEntry(new))
    <3>1. /\ FifoEntries \in Seq(AbstractEntries) /\ Len(FifoEntries) = n
          /\ FifoEntry(new) \in AbstractEntries
          /\ \A i \in 1 .. n : FifoEntries[i] = FifoEntry(entries[i])
      BY <1>0, <2>3, FifoEntriesType DEF FifoEntry, Record, AbstractEntries
    <3>2. /\ F \in Seq(AbstractEntries) /\ Len(F) = n + 1
          /\ F[n + 1] = FifoEntry(new)
          /\ \A i \in 1 .. n : F[i] = FifoEntries[i]
      BY <2>7, <3>1
    <3>. HIDE DEF F
    <3>3. F = [i \in 1 .. n + 1 |-> F[i]]
      BY <3>2, SequenceExtensional
    <3>4. \A i \in 1 .. n + 1 : F[i] = FifoEntry(entries'[i])
      BY <2>7, <3>1, <3>2
    <3>5. FifoEntries' = [i \in 1 .. n + 1 |-> FifoEntry(entries'[i])]
      BY <2>7 DEF FifoEntries, FifoEntry
    <3>6. FifoEntries' = F
      BY <3>3, <3>4, <3>5
    <3>. QED BY <3>6 DEF F
  <2>9. TakenEntry' = TakenEntry
    <3>1. entries # <<>> => entries'[1] = entries[1]
      BY <2>7
    <3>. QED BY <2>1, <3>1, TakenStays
  <2>10. Fifo!EnqueueEnd(payloadRx)
    BY <2>4, <2>5, <2>6, <2>8, <2>9 DEF Fifo!EnqueueEnd
  <2>. QED BY <2>1, <2>10 DEF Fifo!Next
<1>3. ASSUME NEW t \in Threads, EnqueueAbort(t)
      PROVE  Fifo!Next
  <2>1. /\ pEnqueueEntry # NULL /\ pEnqueueEntry \in Offsets
        /\ pEnqueueEntry' = NULL /\ entries' = entries /\ pEntry' = pEntry
    BY <1>0, <1>3 DEF EnqueueAbort, EnqueueLocked, TypeOK
  <2>2. mem[pEnqueueEntry] \in Byte
    BY <1>0, <2>1 DEF TypeOK
  <2>3. OpenLine # NoUrc /\ OpenLine' = NoUrc
    BY <2>1, <2>2, NoUrcAssumption DEF OpenLine, StrLineLen, Byte
  <2>4. FifoEntries' = FifoEntries /\ TakenEntry' = TakenEntry
    BY <2>1, TakenStays DEF FifoEntries, FifoEntry
  <2>. QED BY <2>3, <2>4 DEF Fifo!Next, Fifo!EnqueueAbort
<1>4. ASSUME NEW t \in Threads, DequeueRead(t)
      PROVE  Fifo!Next \/ UNCHANGED <<FifoEntries, OpenLine, TakenEntry>>
  <2>1. /\ pc[t] = "tryLocked" /\ queueMutex = NoThread
        /\ mem' = mem /\ entries' = entries /\ pEnqueueEntry' = pEnqueueEntry
        /\ pEntry' = [pEntry EXCEPT ![t] = IF bufferPos > 0 THEN 0 ELSE NULL]
    BY <1>4 DEF DequeueRead, ReadLocked, Available
  <2>2. /\ FifoEntries' = FifoEntries /\ OpenLine' = OpenLine
        /\ OpenLine = NoUrc
    BY <1>0, <2>1 DEF FifoEntries, FifoEntry, OpenLine, StrLineLen, EnqueueLocked
  <2>3. dequeueMutex = t /\ pEntry[t] = NULL
    BY <1>0, <2>1 DEF DequeueLocked
  <2>4. \A s \in Threads : pEntry[s] = NULL
    BY <1>0, <2>3 DEF HeadTaken
  <2>5. CASE bufferPos > 0
    <3>1. pEntry'[t] = 0 /\ pEntry'[t] # NULL
      BY <1>0, <2>1, <2>5 DEF TypeOK
    <3>2. /\ entries # <<>> /\ TakenEntry' = FifoEntry(entries[1])
      BY <1>0, <2>1, <3>1 DEF HeadTaken, FifoEntry
    <3>3. /\ FifoEntries # <<>> /\ Head(FifoEntries) = FifoEntry(entries[1])
      BY <1>0, <3>2, FifoEntriesType
    <3>4. TakenEntry = NoUrc
      BY <2>4 DEF TakenEntry
    <3>. QED
      BY <2>2, <3>2, <3>3, <3>4 DEF Fifo!Next, Fifo!DequeueBegin
  <2>6. CASE ~(bufferPos > 0)
    <3>1. pEntry' = pEntry
      BY <1>0, <2>1, <2>3, <2>6 DEF TypeOK
    <3>. QED BY <2>1, <2>2, <3>1 DEF TakenEntry, StrLineLen, PayloadSize
  <2>. QED BY <2>5, <2>6
<1>5. ASSUME NEW t \in Threads, DequeueRemove(t)
      PROVE  Fifo!Next
  <2>. DEFINE n == Len(entries)
  <2>1. /\ t \in inCallback /\ queueMutex = NoThread
        /\ pEnqueueEntry' = pEnqueueEntry
        /\ pEntry' = [pEntry EXCEPT ![t] = NULL]
    BY <1>5 DEF DequeueRemove, Available
  <2>2. pEnqueueEntry = NULL /\ pEntry[t] = 0 /\ dequeueMutex = t
    BY <1>0, <2>1 DEF EnqueueLocked, DequeueLocked
  <2>3. OpenLine = NoUrc /\ OpenLine' = NoUrc
    BY <2>1, <2>2 DEF OpenLine
  <2>4. TakenEntry # NoUrc /\ entries # <<>>
    BY <1>0, <2>2 DEF HeadTaken
  <2>5. \A s \in Threads : pEntry'[s] = NULL
    BY <1>0, <2>1, <2>2 DEF HeadTaken, TypeOK
  <2>6. TakenEntry' = NoUrc
    BY <2>5 DEF TakenEntry
  <2>7. PICK total : entries' = [i \in 1 .. n - 1 |->
                                   [entries[i + 1] EXCEPT !.at = @ - total]]
    BY <1>5 DEF DequeueRemove
  <2>8. /\ entries \in Seq(Record) /\ n \in Nat /\ n >= 1
        /\ FifoEntries \in Seq(AbstractEntries) /\ Len(FifoEntries) = n
        /\ \A i \in 1 .. n : FifoEntries[i] = FifoEntry(entries[i])
    BY <1>0, <2>4, FifoEntriesType
  <2>9. entries' \in Seq(Record)
    BY DEF IInv, TypeOK
  <2>10. Len(entries') = n - 1
    BY <2>7, <2>8, <2>9
  <2>11. \A i \in 1 .. n - 1 : FifoEntry(entries'[i]) = FifoEntry(entries[i + 1])
    <3>1. ASSUME NEW i \in 1 .. n - 1
          PROVE  FifoEntry(entries'[i]) = FifoEntry(entries[i + 1])
      <4>1. entries'[i] = [entries[i + 1] EXCEPT !.at = @ - total]
        BY <2>7
      <4>2. entries[i + 1] \in Record
        BY <2>8
      <4>. QED BY <4>1, <4>2 DEF FifoEntry, Record
    <3>. QED BY <3>1
  <2>12. FifoEntries' = Tail(FifoEntries)
    <3>. DEFINE T == Tail(FifoEntries)
    <3>1. /\ FifoEntries # <<>> /\ T \in Seq(AbstractEntries) /\ Len(T) = n - 1
          /\ \A i \in 1 .. n - 1 : T[i] = FifoEntries[i + 1]
      BY <2>8
    <3>. HIDE DEF T
    <3>2. T = [i \in 1 .. n - 1 |-> T[i]]
      BY <3>1, SequenceExtensional
    <3>3. \A i \in 1 .. n - 1 : T[i] = FifoEntry(entries'[i])
      <4>1. \A i \in 1 .. n - 1 : i + 1 \in 1 .. n
        BY <2>8
      <4>. QED BY <2>8, <2>11, <3>1, <4>1
    <3>4. FifoEntries' = [i \in 1 .. n - 1 |-> FifoEntry(entries'[i])]
      BY <2>10 DEF FifoEntries, FifoEntry
    <3>5. FifoEntries' = T
      BY <3>2, <3>3, <3>4
    <3>. QED BY <3>5 DEF T
  <2>. QED BY <2>3, <2>4, <2>6, <2>12 DEF Fifo!Next, Fifo!DequeueEnd
<1>6. CASE UNCHANGED vars
  <2>1. UNCHANGED <<FifoEntries, OpenLine, TakenEntry>>
    BY <1>6 DEF vars, FifoEntries, FifoEntry, OpenLine, TakenEntry, StrLineLen,
                PayloadSize
  <2>. QED BY <2>1
<1>7. ASSUME NEW t \in Threads, Enqueue(t) \/ Dequeue(t)
      PROVE  Fifo!Next \/ UNCHANGED <<FifoEntries, OpenLine, TakenEntry>>
  BY <1>1, <1>2, <1>3, <1>4, <1>5, <1>7, StutterRefines DEF Enqueue, Dequeue
<1>. QED BY <1>6, <1>7 DEF Next

\* The URC queue implements the abstract FIFO of UrcFifo: URCs come out whole,
\* one at a time and in the order in which their enqueueing was completed.
THEOREM Refinement ==
    ASSUME NotRecursive
    PROVE  Spec => ImplementsUrcFifo
<1>1. Init => Fifo!Init
  BY DEF Init, Fifo!Init, FifoEntries, OpenLine, TakenEntry
<1>2. IInv /\ IInv' /\ [Next]_vars => [Fifo!Next]_(Fifo!vars)
  BY NextRefines DEF Fifo!vars
<1>. QED BY <1>1, <1>2, Invariant, PTL DEF Spec, ImplementsUrcFifo, Fifo!Spec
=============================================================================
