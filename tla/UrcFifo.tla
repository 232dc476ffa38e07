------------------------------- MODULE UrcFifo -------------------------------
(***************************************************************************)
(* What the URC queue of u_cx_at_urc_queue.h promises its user, the AT     *)
(* client: unsolicited result codes (URCs) come out whole, one at a time   *)
(* and in the order in which their enqueueing was completed.               *)
(*                                                                         *)
(*   fifo   the completed entries, oldest first                            *)
(*   open   the line of the entry being enqueued (between EnqueueBegin     *)
(*          and EnqueueEnd or EnqueueAbort), NoUrc when there is none      *)
(*   taken  the entry handed out by DequeueBegin and not yet given back,   *)
(*          NoUrc when there is none; it stays in fifo until DequeueEnd    *)
(*                                                                         *)
(* An open entry is exclusive: every other operation waits until it is     *)
(* completed. This is part of the promise because the user can block on it *)
(* (module AtClient does). A refused enqueue or an empty dequeue changes   *)
(* nothing and is a stutter here.                                          *)
(***************************************************************************)
EXTENDS Sequences

CONSTANTS Lines,     \* the URC lines
          Payloads,  \* the binary payloads, the empty one included
          NoUrc      \* neither a line nor an entry

VARIABLES fifo, open, taken

vars == <<fifo, open, taken>>

Entry == [line : Lines, payload : Payloads]

Init == /\ fifo = <<>>
        /\ open = NoUrc
        /\ taken = NoUrc

EnqueueBegin(l) == /\ open = NoUrc
                   /\ open' = l
                   /\ UNCHANGED <<fifo, taken>>

EnqueueEnd(p) == /\ open # NoUrc
                 /\ fifo' = Append(fifo, [line |-> open, payload |-> p])
                 /\ open' = NoUrc
                 /\ UNCHANGED taken

EnqueueAbort == /\ open # NoUrc
                /\ open' = NoUrc
                /\ UNCHANGED <<fifo, taken>>

DequeueBegin == /\ open = NoUrc
                /\ taken = NoUrc
                /\ fifo # <<>>
                /\ taken' = Head(fifo)
                /\ UNCHANGED <<fifo, open>>

DequeueEnd == /\ open = NoUrc
              /\ taken # NoUrc
              /\ fifo' = Tail(fifo)
              /\ taken' = NoUrc
              /\ UNCHANGED open

Next == \/ \E l \in Lines : EnqueueBegin(l)
        \/ \E p \in Payloads : EnqueueEnd(p)
        \/ EnqueueAbort
        \/ DequeueBegin
        \/ DequeueEnd

Spec == Init /\ [][Next]_vars
=============================================================================
