------------------------------ MODULE UrcQueue ------------------------------
(***************************************************************************)
(* The URC queue of src/u_cx_at_urc_queue.c: a linear byte buffer in which *)
(* the entries lie one behind the other from offset 0. A producer appends  *)
(* at bufferPos and keeps queueMutex from EnqueueBegin to EnqueueEnd or    *)
(* EnqueueAbort; a consumer works on the entry at offset 0 in place,       *)
(* keeping dequeueMutex but NOT queueMutex, and finally moves the rest of  *)
(* the buffer down over it.                                                *)
(*                                                                         *)
(* A byte of the buffer is a record: the URC whose entry it belongs to,    *)
(* its index in that entry, and the number it holds when it is the         *)
(* strLineLen or the payloadSize field of the entry's header.              *)
(*                                                                         *)
(* A definition with an underscore in its name is the definition after it  *)
(* with a plausible mistake in it. Nothing uses it: it is there to show    *)
(* that the properties would notice the mistake.                           *)
(***************************************************************************)
EXTENDS Integers, Sequences

CONSTANTS Threads,      \* the threads that use the queue
          NoThread,     \* owner of a free mutex
          NoUrc,        \* see UrcFifo
          BufferLen,    \* urcBufferLen of the client's configuration
          LineLens,     \* lengths of the URC lines that arrive
          PayloadLens,  \* lengths of the binary payloads that arrive
          LengthRange,  \* number of values of a uint16_t, 65536 in the code
          MaxUrcs,      \* bound: URCs that arrive in a behaviour
          Recursive     \* the port's mutex may be locked again by its owner

ASSUME ThreadsAssumption == NoThread \notin Threads

ASSUME LengthsAssumption == /\ BufferLen \in Nat
                            /\ LengthRange \in Nat \ {0}
                            /\ LineLens \subseteq 0 .. LengthRange - 1
                            /\ PayloadLens \subseteq 1 .. LengthRange - 1
                            /\ MaxUrcs \in Nat

\* NoUrc is told apart from the lines and the entries of the abstract queue.
ASSUME NoUrcAssumption ==
    /\ NoUrc \notin [urc : Nat, len : Nat]
    /\ NoUrc \notin [line : [urc : Nat, len : Nat], payload : Nat]

ASSUME RecursiveAssumption == Recursive \in BOOLEAN

VARIABLES mem,            \* pBuffer[0 .. bufferLen - 1]
          bufferPos,
          queueMutex,     \* owner
          dequeueMutex,   \* owner
          pEnqueueEntry,  \* offset of the entry, or NULL
          pDequeueEntry,  \* offset of the entry, or NULL
          pc,             \* per thread: where it is in a queue operation
          pEntry,         \* per thread: the local pEntry of a dequeue
          inCallback,     \* threads between DequeueBegin and DequeueEnd
          payloadRx,      \* payload bytes written to the open entry so far
          arrived,        \* number of URCs that have arrived
          entries         \* history: the completed entries and their offsets

vars == <<mem, bufferPos, queueMutex, dequeueMutex, pEnqueueEntry,
          pDequeueEntry, pc, pEntry, inCallback, payloadRx, arrived, entries>>

NULL == -1
HeaderLen == 4                     \* sizeof(uUrcEntry_t)
Offsets == 0 .. BufferLen - 1
Locations == {"idle", "enqueuing", "tryLocked", "read", "removed"}

\* The number of bytes of an entry, header included.
EntrySize(line, payload) == HeaderLen + line + 1 + payload

\* Byte k of the entry of a URC with these header fields.
EntryByte(urc, line, payload, k) ==
    [urc |-> urc, at |-> k,
     val |-> IF k = 0 THEN line ELSE IF k = 2 THEN payload ELSE 0]

\* The header fields of the entry at offset o.
StrLineLen(o) == mem[o].val
PayloadSize(o) == mem[o + 2].val

UnusedBuf == BufferLen - bufferPos

\* What EnqueueGetPayloadPtr returns: the unused bytes, cut to 16 bits.
PayloadRoom == UnusedBuf % LengthRange

\* The check of EnqueueBegin: header, n characters and the terminating null.
RoomForLine_NoNull(n) == UnusedBuf - HeaderLen >= n
RoomForLine(n) == UnusedBuf - HeaderLen >= n + 1

Available(mutex, t) == mutex = NoThread \/ (Recursive /\ mutex = t)

-----------------------------------------------------------------------------
Init == /\ mem = [o \in Offsets |-> EntryByte(0, 0, 0, 0)]
        /\ bufferPos = 0
        /\ queueMutex = NoThread
        /\ dequeueMutex = NoThread
        /\ pEnqueueEntry = NULL
        /\ pDequeueEntry = NULL
        /\ pc = [t \in Threads |-> "idle"]
        /\ pEntry = [t \in Threads |-> NULL]
        /\ inCallback = {}
        /\ payloadRx = 0
        /\ arrived = 0
        /\ entries = <<>>

Goto(t, loc) == pc' = [pc EXCEPT ![t] = loc]

\* uCxAtUrcQueueEnqueueBegin() with room for a line of n characters: the entry
\* is written without payload and queueMutex stays locked.
EnqueueBegin(t, n) ==
    /\ pc[t] = "idle"
    /\ arrived < MaxUrcs
    /\ Available(queueMutex, t)
    /\ RoomForLine(n)
    /\ queueMutex' = t
    /\ arrived' = arrived + 1
    /\ mem' = [o \in Offsets |->
                 IF o \in bufferPos .. bufferPos + EntrySize(n, 0) - 1
                   THEN EntryByte(arrived', n % LengthRange, 0, o - bufferPos)
                   ELSE mem[o]]
    /\ bufferPos' = bufferPos + EntrySize(n, 0)
    /\ pEnqueueEntry' = bufferPos
    /\ payloadRx' = 0
    /\ Goto(t, "enqueuing")
    /\ UNCHANGED <<dequeueMutex, pDequeueEntry, pEntry, inCallback, entries>>

\* uCxAtUrcQueueEnqueueBegin() without room: returns false, the URC is lost.
EnqueueRefuse(t, n) ==
    /\ pc[t] = "idle"
    /\ arrived < MaxUrcs
    /\ Available(queueMutex, t)
    /\ ~RoomForLine(n)
    /\ arrived' = arrived + 1
    /\ UNCHANGED <<mem, bufferPos, queueMutex, dequeueMutex, pEnqueueEntry,
                   pDequeueEntry, pc, pEntry, inCallback, payloadRx, entries>>

\* The client asks for the payload pointer (setupBinaryTransfer) and, when the
\* payload fits, fills it from the UART (handleBinaryRx), queueMutex locked.
EnqueuePayload(t, n) ==
    /\ pc[t] = "enqueuing"
    /\ payloadRx = 0
    /\ PayloadRoom > n
    /\ LET e == pEnqueueEntry
           data == e + HeaderLen + StrLineLen(e) + 1
       IN  mem' = [o \in Offsets |->
                     IF o \in data .. data + n - 1
                       THEN EntryByte(mem[e].urc, 0, 0, o - e)
                       ELSE mem[o]]
    /\ payloadRx' = n
    /\ UNCHANGED <<bufferPos, queueMutex, dequeueMutex, pEnqueueEntry,
                   pDequeueEntry, pc, pEntry, inCallback, arrived, entries>>

\* uCxAtUrcQueueEnqueueEnd(): the entry is complete.
SetPayloadSize_Forgotten(e) == UNCHANGED mem
SetPayloadSize(e) == mem' = [mem EXCEPT ![e + 2].val = payloadRx]

EnqueueEnd(t) ==
    /\ pc[t] = "enqueuing"
    /\ SetPayloadSize(pEnqueueEntry)
    /\ LET e == pEnqueueEntry
       IN  entries' = Append(entries, [urc |-> mem[e].urc, at |-> e,
                                       line |-> StrLineLen(e),
                                       payload |-> payloadRx])
    /\ bufferPos' = bufferPos + payloadRx
    /\ pEnqueueEntry' = NULL
    /\ queueMutex' = NoThread
    /\ payloadRx' = 0
    /\ Goto(t, "idle")
    /\ UNCHANGED <<dequeueMutex, pDequeueEntry, pEntry, inCallback, arrived>>

\* uCxAtUrcQueueEnqueueAbort(): the payload does not fit, the entry is given up.
AbortPos_Start == 0
AbortPos == pEnqueueEntry

EnqueueAbort(t) ==
    /\ pc[t] = "enqueuing"
    /\ payloadRx = 0
    /\ \E n \in PayloadLens : PayloadRoom <= n
    /\ bufferPos' = AbortPos
    /\ pEnqueueEntry' = NULL
    /\ queueMutex' = NoThread
    /\ Goto(t, "idle")
    /\ UNCHANGED <<mem, dequeueMutex, pDequeueEntry, pEntry, inCallback,
                   payloadRx, arrived, entries>>

\* uCxAtUrcQueueDequeueBegin(), TRY_LOCK of dequeueMutex. When it fails the
\* function returns NULL and nothing changes.
DequeueTryLock(t) ==
    /\ pc[t] = "idle"
    /\ Available(dequeueMutex, t)
    /\ dequeueMutex' = t
    /\ Goto(t, "tryLocked")
    /\ UNCHANGED <<mem, bufferPos, queueMutex, pEnqueueEntry, pDequeueEntry,
                   pEntry, inCallback, payloadRx, arrived, entries>>

\* The section of DequeueBegin under queueMutex: is there an entry?
ReadLocked_Not(t) == TRUE
ReadLocked(t) == Available(queueMutex, t)

DequeueRead(t) ==
    /\ pc[t] = "tryLocked"
    /\ ReadLocked(t)
    /\ pEntry' = [pEntry EXCEPT ![t] = IF bufferPos > 0 THEN 0 ELSE NULL]
    /\ Goto(t, "read")
    /\ UNCHANGED <<mem, bufferPos, queueMutex, dequeueMutex, pEnqueueEntry,
                   pDequeueEntry, inCallback, payloadRx, arrived, entries>>

\* DequeueBegin returns the entry; the client calls the URC callback with it.
DequeueTake(t) ==
    /\ pc[t] = "read"
    /\ pEntry[t] # NULL
    /\ pDequeueEntry' = pEntry[t]
    /\ inCallback' = inCallback \union {t}
    /\ Goto(t, "idle")
    /\ UNCHANGED <<mem, bufferPos, queueMutex, dequeueMutex, pEnqueueEntry,
                   pEntry, payloadRx, arrived, entries>>

\* DequeueBegin returns NULL: the queue was empty.
UnlockEmpty_Forgotten == UNCHANGED dequeueMutex
UnlockEmpty == dequeueMutex' = NoThread

DequeueNone(t) ==
    /\ pc[t] = "read"
    /\ pEntry[t] = NULL
    /\ UnlockEmpty
    /\ Goto(t, "idle")
    /\ UNCHANGED <<mem, bufferPos, queueMutex, pEnqueueEntry, pDequeueEntry,
                   pEntry, inCallback, payloadRx, arrived, entries>>

\* uCxAtUrcQueueDequeueEnd(), the section under queueMutex: the rest of the
\* buffer is moved over the entry.
DequeueRemove(t) ==
    /\ pc[t] = "idle"
    /\ t \in inCallback
    /\ Available(queueMutex, t)
    /\ LET total == EntrySize(StrLineLen(pEntry[t]), PayloadSize(pEntry[t]))
           remaining == bufferPos - total
       IN  /\ mem' = [o \in Offsets |-> IF o < remaining THEN mem[o + total]
                                                         ELSE mem[o]]
           /\ bufferPos' = IF remaining > 0 THEN remaining ELSE 0
           /\ entries' = [i \in 1 .. Len(entries) - 1 |->
                            [entries[i + 1] EXCEPT !.at = @ - total]]
    /\ inCallback' = inCallback \ {t}
    /\ pEntry' = [pEntry EXCEPT ![t] = NULL]
    /\ Goto(t, "removed")
    /\ UNCHANGED <<queueMutex, dequeueMutex, pEnqueueEntry, pDequeueEntry,
                   payloadRx, arrived>>

\* The end of DequeueEnd: pDequeueEntry is cleared and dequeueMutex unlocked.
ClearDequeueEntry_Forgotten == UNCHANGED pDequeueEntry
ClearDequeueEntry == pDequeueEntry' = NULL

DequeueEnd(t) ==
    /\ pc[t] = "removed"
    /\ ClearDequeueEntry
    /\ dequeueMutex' = NoThread
    /\ Goto(t, "idle")
    /\ UNCHANGED <<mem, bufferPos, queueMutex, pEnqueueEntry, pEntry,
                   inCallback, payloadRx, arrived, entries>>

Enqueue(t) == \/ \E n \in LineLens : EnqueueBegin(t, n) \/ EnqueueRefuse(t, n)
              \/ \E n \in PayloadLens : EnqueuePayload(t, n)
              \/ EnqueueEnd(t)
              \/ EnqueueAbort(t)

Dequeue(t) == \/ DequeueTryLock(t)
              \/ DequeueRead(t)
              \/ DequeueTake(t)
              \/ DequeueNone(t)
              \/ DequeueRemove(t)
              \/ DequeueEnd(t)

Next == \E t \in Threads : Enqueue(t) \/ Dequeue(t)

Spec == Init /\ [][Next]_vars

-----------------------------------------------------------------------------
(* Fairness: an operation that was begun is finished (the threads are      *)
(* scheduled, the mutexes are granted, a payload that was announced comes) *)
(* and every thread polls the queue again and again, as the RX task does.  *)
FairSpec == /\ Spec
            /\ \A t \in Threads : /\ WF_vars(EnqueueEnd(t) \/ EnqueueAbort(t))
                                  /\ WF_vars(Dequeue(t))
-----------------------------------------------------------------------------
(* Properties *)

Byte == [urc : Nat, at : Nat, val : Nat]
Record == [urc : Nat, at : Nat, line : Nat, payload : Nat]

\* Type correctness of the queue structure and of the local state of the
\* threads that execute its functions.
TypeOK ==
    /\ mem \in [Offsets -> Byte]
    /\ bufferPos \in 0 .. BufferLen
    /\ queueMutex \in Threads \union {NoThread}
    /\ dequeueMutex \in Threads \union {NoThread}
    /\ pEnqueueEntry \in Offsets \union {NULL}
    /\ pDequeueEntry \in Offsets \union {NULL}
    /\ pc \in [Threads -> Locations]
    /\ pEntry \in [Threads -> {0, NULL}]
    /\ inCallback \subseteq Threads
    /\ payloadRx \in PayloadLens \union {0}
    /\ arrived \in Nat
    /\ entries \in Seq(Record)

Size(e) == EntrySize(e.line, e.payload)

\* Where the completed entries end.
CommittedEnd == IF pEnqueueEntry = NULL THEN bufferPos ELSE pEnqueueEntry

\* An entry is open exactly while a thread holds queueMutex between
\* EnqueueBegin and EnqueueEnd or EnqueueAbort.
EnqueueLocked ==
    /\ \A t \in Threads : queueMutex = t <=> pc[t] = "enqueuing"
    /\ queueMutex = NoThread <=> pEnqueueEntry = NULL
    /\ pEnqueueEntry = NULL => payloadRx = 0

\* The open entry is the last thing in the buffer, it is intact and the payload
\* it was given fits.
OpenEntryIsLast ==
    pEnqueueEntry # NULL =>
       /\ bufferPos = pEnqueueEntry + EntrySize(StrLineLen(pEnqueueEntry), 0)
       /\ bufferPos + payloadRx <= BufferLen
       /\ \A k \in 0 .. bufferPos + payloadRx - pEnqueueEntry - 1 :
             mem[pEnqueueEntry + k] =
                EntryByte(mem[pEnqueueEntry].urc,
                          StrLineLen(pEnqueueEntry), 0, k)

\* An entry is handed out only to the holder of dequeueMutex, and it is the
\* first entry.
DequeueLocked ==
    /\ \A t \in Threads :
          /\ dequeueMutex = t <=> \/ pc[t] \in {"tryLocked", "read", "removed"}
                                 \/ t \in inCallback
          /\ t \in inCallback => /\ pc[t] \in {"idle", "enqueuing"}
                                 /\ pEntry[t] = 0
                                 /\ pDequeueEntry = 0
          /\ pEntry[t] # NULL => entries # <<>>
          /\ pEntry[t] # NULL => t \in inCallback \/ pc[t] = "read"
          /\ pc[t] \in {"tryLocked", "read"} => pDequeueEntry = NULL
    /\ dequeueMutex = NoThread => pDequeueEntry = NULL

\* The pointers into the buffer follow the two mutexes: what pEnqueueEntry and
\* pDequeueEntry say is true whichever thread looks, although DequeueBegin and
\* DequeueEnd take and release the mutexes in several steps.
PointersFollowLocks == EnqueueLocked /\ OpenEntryIsLast /\ DequeueLocked

\* The completed entries lie one behind the other from offset 0 to the open
\* entry, without gap or overlap.
EntriesContiguous ==
    /\ entries = <<>> => CommittedEnd = 0
    /\ entries # <<>> => /\ entries[1].at = 0
                         /\ LET e == entries[Len(entries)]
                            IN  e.at + Size(e) = CommittedEnd
    /\ \A i, j \in 1 .. Len(entries) :
          /\ i < j => entries[i].at + Size(entries[i]) <= entries[j].at
          /\ j = i + 1 => entries[i].at + Size(entries[i]) = entries[j].at

\* Every byte of a completed entry is the byte that was received.
EntriesIntact ==
    \A i \in 1 .. Len(entries) :
       LET e == entries[i]
       IN  \A k \in 0 .. Size(e) - 1 :
              mem[e.at + k] = EntryByte(e.urc, e.line, e.payload, k)

\* The buffer holds exactly the completed entries, whole: appending, aborting
\* and the memmove of DequeueEnd, which run on different threads under two
\* different mutexes, never damage an entry.
BufferHoldsEntries == EntriesContiguous /\ EntriesIntact

\* While the URC callback runs, the line and payload it was given stay in place
\* and intact, although other threads go on enqueueing behind it: DequeueBegin
\* hands out a pointer into the live buffer, not a copy.
CallbackSeesItsUrc ==
    \A t \in inCallback :
       /\ entries # <<>> /\ pEntry[t] = 0
       /\ LET e == entries[1]
          IN  \A k \in 0 .. Size(e) - 1 :
                 mem[k] = EntryByte(e.urc, e.line, e.payload, k)

\* None of the assertions of u_cx_at_urc_queue.c can fail: a thread that gets
\* queueMutex finds no open entry, one that gets dequeueMutex finds no taken
\* entry, an entry being enqueued or dequeued is the registered one, and its
\* payload fits into the buffer.
AssertsHold ==
    \A t \in Threads :
       /\ pc[t] = "idle" /\ Available(queueMutex, t) => pEnqueueEntry = NULL
       /\ pc[t] = "idle" /\ Available(dequeueMutex, t) => pDequeueEntry = NULL
       /\ pc[t] = "enqueuing" => pEnqueueEntry # NULL /\ payloadRx <= UnusedBuf
       /\ t \in inCallback => pDequeueEntry # NULL /\ pDequeueEntry = pEntry[t]

\* The abstract queue of UrcFifo: the completed entries, the line of the open
\* entry and the entry handed out, the latter two read from the buffer.
FifoEntry(e) == [line |-> [urc |-> e.urc, len |-> e.line],
                 payload |-> e.payload]

FifoEntries == [i \in 1 .. Len(entries) |-> FifoEntry(entries[i])]

OpenLine == IF pEnqueueEntry = NULL THEN NoUrc
            ELSE [urc |-> mem[pEnqueueEntry].urc,
                  len |-> StrLineLen(pEnqueueEntry)]

TakenEntry == IF \A t \in Threads : pEntry[t] = NULL THEN NoUrc
              ELSE [line |-> [urc |-> mem[0].urc, len |-> StrLineLen(0)],
                    payload |-> PayloadSize(0)]

Fifo == INSTANCE UrcFifo WITH
    Lines <- [urc : 1 .. MaxUrcs, len : LineLens],
    Payloads <- PayloadLens \union {0},
    fifo <- FifoEntries, open <- OpenLine, taken <- TakenEntry

\* What the queue hands out is what the abstract queue promises: UrcFifo is
\* implemented, the open entry and the entry handed out being read from the
\* bytes of the buffer.
ImplementsUrcFifo == Fifo!Spec

\* A URC whose enqueueing was completed does not stay in the queue for ever:
\* with a thread that polls, it is handed out (only DequeueEnd removes it).
EveryUrcLeaves ==
    \A u \in 1 .. MaxUrcs :
       (\E i \in DOMAIN entries : entries[i].urc = u)
          ~> ~(\E i \in DOMAIN entries : entries[i].urc = u)
=============================================================================
