------------------------------- MODULE Xmodem -------------------------------
(***************************************************************************)
(* The XMODEM sender of src/src/u_cx_xmodem.c, the serial line and a       *)
(* receiver.                                                               *)
(*                                                                         *)
(* The sender waits for 'C', sends a block, waits for its ACK, sends it    *)
(* again on NAK or timeout up to MaxRetries times in all, goes on with the *)
(* next one and ends with EOT. Byte i of the file is the number i, padding *)
(* is 0, and the CRC becomes the kind "damaged" of a packet.               *)
(*                                                                         *)
(* The receiver is the firmware of the module. It is not in the source:    *)
(* here it is what XMODEM-CRC prescribes.                                  *)
(*                                                                         *)
(* A definition with an underscore is another one with a mistake; it is    *)
(* not used here.                                                          *)
(***************************************************************************)
EXTENDS Integers, Sequences

CONSTANTS
    FileLen,    \* dataLen of uCxXmodemSend()
    BlockSize,  \* 128 or 1024 in the code
    NumRange,   \* block numbers are modulo this; 256 in the code
    MaxRetries, \* U_CX_XMODEM_MAX_RETRIES
    MaxSends,   \* bound: calls of uCxXmodemSend()
    LineCap,    \* bound: packets or replies in transit; what exceeds it is lost
    ShortReads  \* the data callback may return less than it was asked for

ASSUME XmodemAssumption ==
    /\ FileLen \in Nat \ {0} /\ BlockSize \in Nat \ {0} /\ MaxRetries \in Nat \ {0}
    /\ MaxSends \in Nat \ {0} /\ LineCap \in Nat \ {0}
    /\ NumRange \in Nat \ {0, 1}
    /\ ShortReads \in BOOLEAN

VARIABLES
    opened,     \* pConfig->opened
    pc,         \* where uCxXmodemSend() is
    offset,     \* bytes that are acknowledged
    blockNum,   \* number of the block being sent
    len,        \* bytes of the file in the block being sent
    retry,      \* tries used up for this block
    result,     \* what the last uCxXmodemSend() returned
    sends,      \* number of calls of uCxXmodemSend()
    toReceiver, \* packets in transit
    toSender,   \* replies in transit
    receiving,  \* the receiver takes blocks
    expected,   \* the block number the receiver waits for
    image,      \* the bytes the receiver has stored
    late        \* history: something was, or may have been, still on its way when
                \* the sender or the receiver gave up waiting for it

sender == <<opened, pc, offset, blockNum, len, retry, result, sends>>
receiver == <<receiving, expected, image>>
vars == <<sender, toReceiver, toSender, receiver, late>>

-----------------------------------------------------------------------------
(* Packets, replies and the line. *)

Numbers == 0 .. NumRange - 1

Blocks ==
    {b \in [kind : {"block"}, num : Numbers, from : 0 .. FileLen, len : 1 .. BlockSize] :
        b.from + b.len <= FileLen}

Damaged == [kind |-> "damaged"]

Eot == [kind |-> "eot"]

Packets == Blocks \union {Damaged, Eot}

Replies == {"C", "ACK", "NAK", "CAN"}

\* (uint8_t)((blockNum + 1) % 256)
NextNum(n) == IF n = NumRange - 1 THEN 0 ELSE n + 1

\* packet[] of xmodemSendBlock()
Block == [kind |-> "block", num |-> blockNum, from |-> offset, len |-> len]

\* The data of a block: bytes of the file, padded.
Data(b) == [i \in 1 .. BlockSize |-> IF i <= b.len THEN b.from + i ELSE 0]

\* The line with one more item, which is lost if there is no room.
With(line, item) == IF Len(line) < LineCap THEN Append(line, item) ELSE line

\* Nothing is in transit in either direction.
Quiet == toReceiver = <<>> /\ toSender = <<>>

\* A step that should only be taken under a condition makes things late.
LateUnless(cond) == late' = (late \/ ~cond)

-----------------------------------------------------------------------------
(* Opening, closing and starting. *)

Init ==
    /\ opened = FALSE /\ pc = "idle" /\ result = "none" /\ sends = 0
    /\ offset = 0 /\ blockNum = 1 /\ len = 0 /\ retry = 0
    /\ toReceiver = <<>> /\ toSender = <<>>
    /\ receiving = TRUE /\ expected = 1 /\ image = <<>> /\ late = FALSE

\* uCxXmodemOpen(), when uPortUartOpen() succeeds.
Open ==
    /\ pc = "idle" /\ ~opened
    /\ opened' = TRUE
    /\ UNCHANGED <<pc, offset, blockNum, len, retry, result, sends,
                   toReceiver, toSender, receiver, late>>

\* uCxXmodemClose(): what was received and not read is gone with the handle.
Close ==
    /\ pc = "idle" /\ opened
    /\ opened' = FALSE
    /\ toSender' = <<>>
    /\ UNCHANGED <<pc, offset, blockNum, len, retry, result, sends,
                   toReceiver, receiver, late>>

\* uCxXmodemSend() up to the wait for the receiver.
Send ==
    /\ pc = "idle" /\ opened /\ sends < MaxSends
    /\ sends' = sends + 1
    /\ pc' = "start"
    /\ result' = "none"
    /\ UNCHANGED <<opened, offset, blockNum, len, retry, toReceiver, toSender, receiver, late>>

\* The call returns; it drops nothing of what is still in transit.
Return(r) ==
    /\ pc' = "idle"
    /\ result' = r
    /\ UNCHANGED <<opened, offset, blockNum, len, retry, sends>>

\* uPortUartRead() finds reply r.
Read(r) ==
    /\ toSender # <<>> /\ Head(toSender) = r
    /\ toSender' = Tail(toSender)
    /\ UNCHANGED <<toReceiver, receiver, late>>

LineUnchanged == UNCHANGED <<toReceiver, toSender, receiver, late>>

-----------------------------------------------------------------------------
(* xmodemWaitForStart(). *)

StartC_FromZero ==
    /\ pc = "start" /\ Read("C")
    /\ pc' = "data"
    /\ offset' = 0 /\ blockNum' = 0
    /\ UNCHANGED <<opened, len, retry, result, sends>>

StartC ==
    /\ pc = "start" /\ Read("C")
    /\ pc' = "data"
    /\ offset' = 0 /\ blockNum' = 1
    /\ UNCHANGED <<opened, len, retry, result, sends>>

StartNak == pc = "start" /\ Read("NAK") /\ Return("checksum")

StartCan == pc = "start" /\ Read("CAN") /\ Return("cancelled")

StartOther == pc = "start" /\ Read("ACK") /\ UNCHANGED sender

StartTimeout == pc = "start" /\ Return("failed") /\ LineUnchanged

-----------------------------------------------------------------------------
(* The loop of uCxXmodemSend() and xmodemSendBlock(). *)

RequestLen_Unlimited == BlockSize

\* requestLen
RequestLen == IF FileLen - offset < BlockSize THEN FileLen - offset ELSE BlockSize

\* The data callback fills the block.
GetData ==
    /\ pc = "data"
    /\ \E n \in 1 .. RequestLen :
        /\ ~ShortReads => n = RequestLen
        /\ len' = n
    /\ retry' = 0
    /\ pc' = "write"
    /\ UNCHANGED <<opened, offset, blockNum, result, sends>>
    /\ LineUnchanged

\* The data callback returns 0 or an error.
GetDataFails == pc = "data" /\ Return("data") /\ LineUnchanged

\* The block is written and the wait for its reply begins.
WriteBlock ==
    /\ pc = "write" /\ retry < MaxRetries
    /\ toReceiver' = With(toReceiver, Block)
    /\ pc' = "ack"
    /\ UNCHANGED <<opened, offset, blockNum, len, retry, result, sends,
                   toSender, receiver, late>>

NextTry_NotCounted ==
    /\ pc' = "write"
    /\ UNCHANGED <<opened, offset, blockNum, len, retry, result, sends>>

\* "continue" and the increment of the for loop.
NextTry ==
    /\ retry' = retry + 1
    /\ pc' = "write"
    /\ UNCHANGED <<opened, offset, blockNum, len, result, sends>>

\* uPortUartWrite() fails. Part of the block may be on the line.
WriteBlockFails ==
    /\ pc = "write" /\ retry < MaxRetries
    /\ \/ toReceiver' = toReceiver
       \/ toReceiver' = With(toReceiver, Damaged)
    /\ LateUnless(toReceiver' = toReceiver)
    /\ NextTry
    /\ UNCHANGED <<toSender, receiver>>

GiveUp_Ignored ==
    /\ pc = "write" /\ retry >= MaxRetries
    /\ offset' = offset + len
    /\ blockNum' = NextNum(blockNum)
    /\ pc' = IF offset + len < FileLen THEN "data" ELSE "eot"
    /\ UNCHANGED <<opened, len, retry, result, sends>>
    /\ LineUnchanged

\* The for loop ends: all tries are used up.
GiveUp == pc = "write" /\ retry >= MaxRetries /\ Return("failed") /\ LineUnchanged

Acked_SameNumber ==
    /\ pc = "ack" /\ Read("ACK")
    /\ offset' = offset + len
    /\ pc' = IF offset + len < FileLen THEN "data" ELSE "eot"
    /\ UNCHANGED <<opened, blockNum, len, retry, result, sends>>

\* An ACK ends xmodemSendBlock(); the loop goes on with the next block or ends.
Acked ==
    /\ pc = "ack" /\ Read("ACK")
    /\ offset' = offset + len
    /\ blockNum' = NextNum(blockNum)
    /\ pc' = IF offset + len < FileLen THEN "data" ELSE "eot"
    /\ UNCHANGED <<opened, len, retry, result, sends>>

Nacked == pc = "ack" /\ Read("NAK") /\ NextTry

Cancelled == pc = "ack" /\ Read("CAN") /\ Return("cancelled")

OtherReply == pc = "ack" /\ Read("C") /\ UNCHANGED sender

\* The wait for a reply ends, as it may at any time.
WaitIsOver == LateUnless(Quiet) /\ UNCHANGED <<toReceiver, toSender, receiver>>

AckTimeout == pc = "ack" /\ NextTry /\ WaitIsOver

-----------------------------------------------------------------------------
(* xmodemSendEot(). *)

WriteEot ==
    /\ pc = "eot"
    /\ toReceiver' = With(toReceiver, Eot)
    /\ pc' = "eotAck"
    /\ UNCHANGED <<opened, offset, blockNum, len, retry, result, sends,
                   toSender, receiver, late>>

WriteEotFails == pc = "eot" /\ Return("failed") /\ LineUnchanged

EotAcked == pc = "eotAck" /\ Read("ACK") /\ Return("success")

\* NAK, CAN and anything else: logged, the wait goes on.
EotOther ==
    /\ pc = "eotAck"
    /\ \E r \in Replies \ {"ACK"} : Read(r)
    /\ UNCHANGED sender

EotTimeout == pc = "eotAck" /\ Return("failed") /\ WaitIsOver

-----------------------------------------------------------------------------
(* The receiver. *)

\* Until the first block arrives the receiver asks for it, in CRC mode.
AskForStart ==
    /\ receiving /\ image = <<>>
    /\ toSender' = With(toSender, "C")
    /\ UNCHANGED <<sender, toReceiver, receiver, late>>

\* A block with the expected number is stored.
TakeBlock ==
    /\ receiving /\ toReceiver # <<>> /\ Head(toReceiver).kind = "block"
    /\ Head(toReceiver).num = expected
    /\ image' = image \o Data(Head(toReceiver))
    /\ expected' = NextNum(expected)
    /\ toReceiver' = Tail(toReceiver)
    /\ toSender' = With(toSender, "ACK")
    /\ UNCHANGED <<sender, receiving, late>>

\* A block that was stored before is acknowledged again.
TakeRepeated ==
    /\ receiving /\ toReceiver # <<>> /\ Head(toReceiver).kind = "block"
    /\ Head(toReceiver).num # expected /\ NextNum(Head(toReceiver).num) = expected
    /\ toReceiver' = Tail(toReceiver)
    /\ toSender' = With(toSender, "ACK")
    /\ UNCHANGED <<sender, receiver, late>>

\* Any other number cancels the transfer.
TakeStrange ==
    /\ receiving /\ toReceiver # <<>> /\ Head(toReceiver).kind = "block"
    /\ Head(toReceiver).num # expected /\ NextNum(Head(toReceiver).num) # expected
    /\ receiving' = FALSE
    /\ toReceiver' = Tail(toReceiver)
    /\ toSender' = With(toSender, "CAN")
    /\ UNCHANGED <<sender, expected, image, late>>

TakeDamaged ==
    /\ receiving /\ toReceiver # <<>> /\ Head(toReceiver) = Damaged
    /\ toReceiver' = Tail(toReceiver)
    /\ toSender' = With(toSender, "NAK")
    /\ UNCHANGED <<sender, receiver, late>>

TakeEot ==
    /\ receiving /\ toReceiver # <<>> /\ Head(toReceiver) = Eot
    /\ receiving' = FALSE
    /\ toReceiver' = Tail(toReceiver)
    /\ toSender' = With(toSender, "ACK")
    /\ UNCHANGED <<sender, expected, image, late>>

\* Some receivers want EOT twice; the sender does not send it again.
RefuseEot ==
    /\ receiving /\ toReceiver # <<>> /\ Head(toReceiver) = Eot
    /\ toReceiver' = Tail(toReceiver)
    /\ toSender' = With(toSender, "NAK")
    /\ UNCHANGED <<sender, receiver, late>>

\* The receiver's own time-out, which is shorter than the sender's.
Nag ==
    /\ receiving /\ image # <<>>
    /\ LateUnless(Quiet /\ pc \in {"ack", "eotAck"})
    /\ toSender' = With(toSender, "NAK")
    /\ UNCHANGED <<sender, toReceiver, receiver>>

\* The receiver gives up, for instance because its flash cannot be written.
Cancel ==
    /\ receiving
    /\ receiving' = FALSE
    /\ toSender' = With(toSender, "CAN")
    /\ UNCHANGED <<sender, toReceiver, expected, image, late>>

\* Between two calls of uCxXmodemSend() the module is told to receive afresh. Answers
\* of the last transfer are late if they were not read, nor discarded by Close.
Restart ==
    /\ pc = "idle" /\ toReceiver = <<>>
    /\ LateUnless(Quiet)
    /\ receiving' = TRUE /\ expected' = 1 /\ image' = <<>>
    /\ UNCHANGED <<sender, toReceiver, toSender>>

-----------------------------------------------------------------------------
(* The line. *)

\* A packet is lost, or nobody takes it.
LosePacket ==
    /\ toReceiver # <<>>
    /\ toReceiver' = Tail(toReceiver)
    /\ UNCHANGED <<sender, toSender, receiver, late>>

DamagePacket ==
    /\ toReceiver # <<>> /\ Head(toReceiver) # Damaged
    /\ toReceiver' = [toReceiver EXCEPT ![1] = Damaged]
    /\ UNCHANGED <<sender, toSender, receiver, late>>

LoseReply ==
    /\ toSender # <<>>
    /\ toSender' = Tail(toSender)
    /\ UNCHANGED <<sender, toReceiver, receiver, late>>

-----------------------------------------------------------------------------

WaitForStart == StartC \/ StartNak \/ StartCan \/ StartOther \/ StartTimeout

SendBlock ==
    \/ GetData \/ GetDataFails \/ WriteBlock \/ WriteBlockFails \/ GiveUp
    \/ Acked \/ Nacked \/ Cancelled \/ OtherReply \/ AckTimeout

SendEot == WriteEot \/ WriteEotFails \/ EotAcked \/ EotOther \/ EotTimeout

Sender == Open \/ Close \/ Send \/ WaitForStart \/ SendBlock \/ SendEot

Receiver ==
    \/ AskForStart \/ TakeBlock \/ TakeRepeated \/ TakeStrange \/ TakeDamaged
    \/ TakeEot \/ RefuseEot \/ Nag \/ Cancel \/ Restart

Line == LosePacket \/ DamagePacket \/ LoseReply

Next == Sender \/ Receiver \/ Line

Spec == Init /\ [][Next]_vars

\* The sender's thread runs, and time passes while it waits. Nothing is assumed
\* of the receiver or the line.
Fairness ==
    /\ WF_vars(WaitForStart \/ SendBlock \/ SendEot)
    /\ WF_vars(StartTimeout) /\ WF_vars(AckTimeout) /\ WF_vars(EotTimeout)

FairSpec == Spec /\ Fairness

-----------------------------------------------------------------------------
(* Properties. *)

\* The file is what the receiver holds, padding of the last block aside.
Complete == /\ Len(image) >= FileLen
            /\ \A i \in 1 .. FileLen : image[i] = i

\* The type of every variable. The offset never leaves the file: the data callback
\* is not asked for bytes behind its end.
TypeOK ==
    /\ opened \in BOOLEAN
    /\ pc \in {"idle", "start", "data", "write", "ack", "eot", "eotAck"}
    /\ offset \in 0 .. FileLen
    /\ pc = "data" => offset < FileLen
    /\ blockNum \in Numbers
    /\ len \in 0 .. BlockSize
    /\ pc \in {"write", "ack"} => len \in 1 .. RequestLen
    /\ retry \in 0 .. MaxRetries
    /\ pc = "ack" => retry < MaxRetries
    /\ result \in {"none", "success", "failed", "checksum", "cancelled", "data"}
    /\ sends \in 0 .. MaxSends
    /\ toReceiver \in Seq(Packets)
    /\ toSender \in Seq(Replies)
    /\ receiving \in BOOLEAN
    /\ expected \in Numbers
    /\ image \in Seq(0 .. FileLen)
    /\ late \in BOOLEAN

\* Whatever is lost, damaged, late or repeated, the receiver stores the file in order,
\* without gap and without storing a block twice, as long as block numbers range over
\* more than what is in transit both ways.
ReceiverHasPrefix ==
    \A i \in 1 .. Len(image) : i <= FileLen => image[i] = i

\* The bytes the sender counts as transferred, and reports to progressCallback,
\* are bytes the receiver has stored, unless replies are late.
ProgressIsReal ==
    ~late /\ pc \in {"data", "write", "ack", "eot", "eotAck"} => offset <= Len(image)

\* uCxXmodemSend() returns 0 only if the receiver has the whole file, unless replies
\* are late.
SuccessMeansComplete ==
    [][~late /\ result # "success" /\ result' = "success" => Complete]_vars

\* Every uCxXmodemSend() returns, even if the receiver is silent or never stops
\* sending something else.
EverySendReturns == pc # "idle" ~> pc = "idle"
=============================================================================
