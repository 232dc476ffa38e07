------------------------------ MODULE ZephyrRx ------------------------------
(***************************************************************************)
(* Background reception in the Zephyr port: the interrupt handler and the  *)
(* ring buffer of src/ports/uart/u_port_uart_zephyr.c, the work item of    *)
(* src/ports/os/u_port_zephyr.c, and the two readers of the ring, the work *)
(* item (uCxAtClientHandleRx()) and a command (cmdEnd()).                  *)
(*                                                                         *)
(* What goes through the ring are whole lines: URC number u is u, "ok"     *)
(* answers a command. The interrupt handler runs to its end between two    *)
(* steps of the threads; a read closes it out while it takes from the      *)
(* ring. With flow control the module waits while the FIFO is full.        *)
(*                                                                         *)
(* A definition with an underscore is another one with a mistake; it is    *)
(* not used here.                                                          *)
(***************************************************************************)
EXTENDS Integers, Sequences

CONSTANTS
    FifoSize,  \* lines the receive FIFO of the UART holds
    RingSize,  \* U_RINGBUFFER_SIZE, in lines
    MaxUrcs    \* bound: URCs the module sends

ASSUME ZephyrRxAssumption ==
    FifoSize \in Nat \ {0} /\ RingSize \in Nat \ {0} /\ MaxUrcs \in Nat

VARIABLES
    urcs,       \* URCs sent by the module
    asked,      \* the module has a command to answer
    fifo,       \* receive FIFO
    irqOn,      \* the receive interrupt is enabled
    ring,       \* rxRingBuf
    work,       \* rxWork: "idle", "queued" or "running"
    pc,         \* where the work item and the application are
    cmdMutex,   \* owner
    urcQueue,   \* complete entries
    dequeuer,   \* owner of dequeueMutex
    delivered   \* history: what the URC callback was called with

line == <<urcs, asked>>
uart == <<fifo, irqOn, ring>>
urcVars == <<urcQueue, dequeuer, delivered>>
vars == <<line, uart, work, pc, cmdMutex, urcVars>>

Threads == {"work", "app"}
Nobody == "nobody"
Ok == 0
Lines == 0 .. MaxUrcs

At(t, l) == pc[t] = l
Goto(t, l) == pc' = [pc EXCEPT ![t] = l]

-----------------------------------------------------------------------------
(* The module. *)

SendUrc ==
    /\ urcs < MaxUrcs /\ Len(fifo) < FifoSize
    /\ urcs' = urcs + 1
    /\ fifo' = Append(fifo, urcs + 1)
    /\ UNCHANGED <<asked, irqOn, ring, work, pc, cmdMutex, urcVars>>

Answer ==
    /\ asked /\ Len(fifo) < FifoSize
    /\ asked' = FALSE
    /\ fifo' = Append(fifo, Ok)
    /\ UNCHANGED <<urcs, irqOn, ring, work, pc, cmdMutex, urcVars>>

-----------------------------------------------------------------------------
(* The interrupt. *)

\* uPortRxSignal(): a work item that is queued or running is pending.
RxSignal == work' = IF work = "idle" THEN "queued" ELSE work

\* What does not fit into the ring is read from the FIFO all the same.
Isr_NoClaim ==
    /\ irqOn /\ fifo # <<>>
    /\ ring' = ring \o fifo
    /\ fifo' = <<>>
    /\ irqOn' = TRUE
    /\ RxSignal
    /\ UNCHANGED <<line, pc, cmdMutex, urcVars>>

\* uartIsr(): as much as fits goes into the ring; if there is more, the interrupt
\* is disabled until the next read.
Isr ==
    /\ irqOn /\ fifo # <<>>
    /\ LET space == RingSize - Len(ring)
           n == IF space < Len(fifo) THEN space ELSE Len(fifo)
       IN  /\ ring' = ring \o SubSeq(fifo, 1, n)
           /\ fifo' = SubSeq(fifo, n + 1, Len(fifo))
           /\ irqOn' = (n = Len(fifo))
    /\ RxSignal
    /\ UNCHANGED <<line, pc, cmdMutex, urcVars>>

-----------------------------------------------------------------------------
(* The readers. *)

\* The interrupt is left as it is.
Read_KeepsIrq(l) ==
    /\ ring # <<>> /\ l = Head(ring)
    /\ ring' = Tail(ring)
    /\ UNCHANGED <<irqOn, fifo>>

\* uPortUartRead() with something in the ring: the line read, and the interrupt
\* enabled again.
Read(l) ==
    /\ ring # <<>> /\ l = Head(ring)
    /\ ring' = Tail(ring)
    /\ irqOn' = TRUE
    /\ UNCHANGED fifo

Enqueue(l) == urcQueue' = IF l = Ok THEN urcQueue ELSE Append(urcQueue, l)

\* The work queue thread runs the item: rxTask().
Run ==
    /\ At("work", "idle") /\ work = "queued"
    /\ work' = "running"
    /\ Goto("work", "lock")
    /\ UNCHANGED <<line, uart, cmdMutex, urcVars>>

\* uCxAtClientHandleRx(): the mutex is free only when no command is executing.
HandleRx ==
    /\ At("work", "lock") /\ cmdMutex = Nobody
    /\ cmdMutex' = "work"
    /\ Goto("work", "read")
    /\ UNCHANGED <<line, uart, work, urcVars>>

WorkReads(l) ==
    /\ At("work", "read")
    /\ Read(l)
    /\ Enqueue(l)
    /\ UNCHANGED <<line, work, pc, cmdMutex, dequeuer, delivered>>

\* The read has timed out: the ring is empty, and handleRxData() returns.
WorkReadsNothing ==
    /\ At("work", "read") /\ ring = <<>>
    /\ cmdMutex' = Nobody
    /\ Goto("work", "urcs")
    /\ UNCHANGED <<line, uart, work, urcVars>>

WorkEnds ==
    /\ At("work", "end")
    /\ work' = IF work = "queued" THEN "queued" ELSE "idle"
    /\ Goto("work", "idle")
    /\ UNCHANGED <<line, uart, cmdMutex, urcVars>>

\* uCxAtClientExecSimpleCmd(): cmdBeginF(), then cmdEnd() until the status is there.
Command ==
    /\ At("app", "idle") /\ cmdMutex = Nobody
    /\ cmdMutex' = "app"
    /\ asked' = TRUE
    /\ Goto("app", "read")
    /\ UNCHANGED <<urcs, uart, work, urcVars>>

\* A command does not deliver the URCs it has read.
AppReads_KeepsUrcs(l) ==
    /\ At("app", "read")
    /\ Read(l)
    /\ Enqueue(l)
    /\ IF l = Ok THEN cmdMutex' = Nobody /\ Goto("app", "end")
                 ELSE UNCHANGED <<cmdMutex, pc>>
    /\ UNCHANGED <<line, work, dequeuer, delivered>>

AppReads(l) ==
    /\ At("app", "read")
    /\ Read(l)
    /\ Enqueue(l)
    /\ IF l = Ok THEN cmdMutex' = Nobody /\ Goto("app", "urcs")
                 ELSE UNCHANGED <<cmdMutex, pc>>
    /\ UNCHANGED <<line, work, dequeuer, delivered>>

\* The read has timed out: cmdEnd() reads again, here without a limit.
AppReadsNothing == At("app", "read") /\ ring = <<>> /\ UNCHANGED vars

AppEnds ==
    /\ At("app", "end")
    /\ Goto("app", "idle")
    /\ UNCHANGED <<line, uart, work, cmdMutex, urcVars>>

-----------------------------------------------------------------------------
(* processUrcs() *)

\* An entry is taken although the other thread is at it.
DequeueBegin_NoMutex(t) ==
    /\ At(t, "urcs") /\ urcQueue # <<>>
    /\ dequeuer' = t
    /\ Goto(t, "callback")
    /\ UNCHANGED <<line, uart, work, cmdMutex, urcQueue, delivered>>

DequeueBegin(t) ==
    /\ At(t, "urcs") /\ urcQueue # <<>> /\ dequeuer = Nobody
    /\ dequeuer' = t
    /\ Goto(t, "callback")
    /\ UNCHANGED <<line, uart, work, cmdMutex, urcQueue, delivered>>

\* Nothing to deliver, or the other one is at it
DequeueNone(t) ==
    /\ At(t, "urcs") /\ (urcQueue = <<>> \/ dequeuer # Nobody)
    /\ Goto(t, "end")
    /\ UNCHANGED <<line, uart, work, cmdMutex, urcVars>>

Callback(t) ==
    /\ At(t, "callback")
    /\ delivered' = Append(delivered, Head(urcQueue))
    /\ Goto(t, "dequeueEnd")
    /\ UNCHANGED <<line, uart, work, cmdMutex, urcQueue, dequeuer>>

DequeueEnd(t) ==
    /\ At(t, "dequeueEnd")
    /\ urcQueue' = Tail(urcQueue)
    /\ dequeuer' = Nobody
    /\ Goto(t, "urcs")
    /\ UNCHANGED <<line, uart, work, cmdMutex, delivered>>

-----------------------------------------------------------------------------
Init ==
    /\ urcs = 0 /\ asked = FALSE
    /\ fifo = <<>> /\ irqOn = TRUE /\ ring = <<>>
    /\ work = "idle" /\ pc = [t \in Threads |-> "idle"]
    /\ cmdMutex = Nobody
    /\ urcQueue = <<>> /\ dequeuer = Nobody /\ delivered = <<>>

Work ==
    \/ Run \/ HandleRx \/ WorkReadsNothing \/ WorkEnds
    \/ \E l \in Lines : WorkReads(l)
    \/ DequeueBegin("work") \/ DequeueNone("work") \/ Callback("work") \/ DequeueEnd("work")

App ==
    \/ AppReadsNothing \/ AppEnds
    \/ \E l \in Lines : AppReads(l)
    \/ DequeueBegin("app") \/ DequeueNone("app") \/ Callback("app") \/ DequeueEnd("app")

Next == SendUrc \/ Answer \/ Isr \/ Work \/ App \/ Command

Spec == Init /\ [][Next]_vars

\* The interrupt is served, the threads run, the module answers. It need not send
\* anything, and the application need not send another command.
FairSpec == Spec /\ WF_vars(Isr) /\ WF_vars(Work) /\ WF_vars(App) /\ WF_vars(Answer)

\* The same with an application that always has another command to send
BusySpec == FairSpec /\ SF_vars(Command)

-----------------------------------------------------------------------------
(* Properties. *)

TypeOK ==
    /\ urcs \in 0 .. MaxUrcs /\ asked \in BOOLEAN /\ irqOn \in BOOLEAN
    /\ fifo \in Seq(Lines) /\ Len(fifo) <= FifoSize
    /\ ring \in Seq(Lines) /\ Len(ring) <= RingSize
    /\ work \in {"idle", "queued", "running"}
    /\ pc \in [Threads -> {"idle", "lock", "read", "urcs", "callback", "dequeueEnd", "end"}]
    /\ cmdMutex \in Threads \cup {Nobody} /\ dequeuer \in Threads \cup {Nobody}
    /\ urcQueue \in Seq(1 .. MaxUrcs) /\ delivered \in Seq(1 .. MaxUrcs)

Called == \E t \in Threads : At(t, "dequeueEnd")

\* The URCs that the threads have read: those delivered and those queued.
Taken == delivered \o (IF Called THEN Tail(urcQueue) ELSE urcQueue)

\* The lines that no one has read yet.
Coming == ring \o fifo

\* Every URC that was sent is in one place: behind those delivered, the queue, the
\* ring and the FIFO hold the others in their order, with one answer among them at
\* most, whichever of the two threads has read what and whenever the interrupt was
\* off. ("answer" is its place, one behind the last line if there is none.)
NoUrcIsLost ==
    /\ \A u \in 1 .. Len(Taken) : Taken[u] = u
    /\ \E answer \in 1 .. Len(Coming) + 1 :
           /\ \A i \in 1 .. Len(Coming) :
                  Coming[i] = IF i = answer THEN Ok
                              ELSE Len(Taken) + (IF i < answer THEN i ELSE i - 1)
           /\ urcs = Len(Taken) + Len(Coming) - (IF answer <= Len(Coming) THEN 1 ELSE 0)

\* Every command gets its answer, even when the ring is full and the interrupt off.
EveryCommandReturns == At("app", "read") ~> At("app", "idle")

\* Every URC the module sends is delivered to the callback. The header of the AT
\* client has the background task do that by itself (u_cx_at_client.h:318); in this
\* port it depends on later commands: what arrives while the work item is behind
\* its last read does not submit it again.
EveryUrcIsDelivered ==
    \A u \in 1 .. MaxUrcs : urcs >= u ~> Len(delivered) >= u

=============================================================================
