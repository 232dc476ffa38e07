---------------------------- MODULE XmodemProofs ----------------------------
(***************************************************************************)
(* Theorems about Xmodem, for every file length, block size, range of      *)
(* block numbers, number of retries and capacity of the line. If the data  *)
(* callback returns what it is asked for:                                  *)
(*                                                                         *)
(*  - until something is late, uCxXmodemSend() returns 0 only when the     *)
(*    receiver has the file (IInv);                                        *)
(*  - also when something is late, the receiver stores the file in order,  *)
(*    without gap or repetition, provided that block numbers range over    *)
(*    more than what the line holds both ways (LateInv).                   *)
(*                                                                         *)
(* No hypothesis can be left out: TLC finds ReceiverHasPrefix violated     *)
(* when ShortReads is TRUE, and, in a transfer that is late, when NumRange *)
(* is not greater than what the line holds both ways.                      *)
(***************************************************************************)
EXTENDS Xmodem, FiniteSets, FiniteSetTheorems, TLAPS

-----------------------------------------------------------------------------
(* Sequences, block numbers and lengths. *)

\* Taking the first item off the line.
LEMMA TailFacts ==
    ASSUME NEW S, NEW s \in Seq(S), s # <<>>
    PROVE  /\ Tail(s) \in Seq(S) /\ Head(s) = s[1] /\ Head(s) \in S
           /\ Len(s) \in Nat \ {0} /\ Len(Tail(s)) = Len(s) - 1
           /\ \A i \in 1 .. Len(Tail(s)) : Tail(s)[i] = s[i + 1]
OBVIOUS

\* Taking the only item off the line.
LEMMA TailOfOne ==
    ASSUME NEW S, NEW s \in Seq(S), Len(s) = 1
    PROVE  Tail(s) = <<>> /\ Head(s) = s[1]
<1>1. s # <<>>
  OBVIOUS
<1>2. Tail(s) \in Seq(S) /\ Len(Tail(s)) = 0 /\ Head(s) = s[1]
  BY <1>1, TailFacts
<1>3. \A t \in Seq(S) : Len(t) = 0 => t = <<>>
  OBVIOUS
<1>. QED BY <1>2, <1>3

\* Putting an item on the line: the items before it stay, it is the last one or lost.
LEMMA WithFacts ==
    ASSUME NEW S, NEW s \in Seq(S), NEW e \in S
    PROVE  /\ With(s, e) \in Seq(S)
           /\ \A i \in 1 .. Len(s) : i \in 1 .. Len(With(s, e)) /\ With(s, e)[i] = s[i]
           /\ \A i \in 1 .. Len(With(s, e)) :
                  \/ i \in 1 .. Len(s) /\ With(s, e)[i] = s[i]
                  \/ i = Len(s) + 1 /\ i = Len(With(s, e)) /\ With(s, e)[i] = e
           /\ Len(With(s, e)) \in {Len(s), Len(s) + 1}
BY DEF With

\* Storing bytes behind those that are stored.
LEMMA StoreFacts ==
    ASSUME NEW d \in Seq(0 .. FileLen), image \in Seq(0 .. FileLen), image' = image \o d
    PROVE  /\ Len(image') = Len(image) + Len(d)
           /\ \A i \in 1 .. Len(image) : image'[i] = image[i]
           /\ \A i \in 1 .. Len(d) : image'[Len(image) + i] = d[i]
OBVIOUS

LEMMA NextNumFacts ==
    ASSUME NEW n \in Numbers
    PROVE  NextNum(n) \in Numbers /\ NextNum(n) # n
BY XmodemAssumption DEF NextNum, Numbers

\* Somewhere in the file, the callback is asked for at least one byte, at most a
\* block, and for less than a block only at the end.
LEMMA RequestLenFacts ==
    ASSUME offset \in 0 .. FileLen
    PROVE  /\ RequestLen \in 0 .. BlockSize
           /\ offset < FileLen => RequestLen \in 1 .. BlockSize
           /\ offset + RequestLen <= FileLen
           /\ RequestLen < BlockSize => offset + RequestLen = FileLen
BY XmodemAssumption DEF RequestLen

\* The bytes of a block.
LEMMA DataFacts ==
    ASSUME NEW b \in Blocks
    PROVE  /\ Data(b) \in Seq(0 .. FileLen) /\ Len(Data(b)) = BlockSize
           /\ \A i \in 1 .. BlockSize :
                  Data(b)[i] = IF i <= b.len THEN b.from + i ELSE 0
<1>1. /\ b.from \in 0 .. FileLen /\ b.len \in 1 .. BlockSize
      /\ b.from + b.len <= FileLen /\ BlockSize \in Nat /\ FileLen \in Nat
  BY XmodemAssumption DEF Blocks
<1>2. Data(b) \in [1 .. BlockSize -> 0 .. FileLen]
  BY <1>1 DEF Data
<1>. QED BY <1>1, <1>2 DEF Data

-----------------------------------------------------------------------------
(* Type correctness. *)

\* Every variable keeps its type. This needs no hypothesis about time or the
\* callback: offset stays in the file because no more is asked for than is left.
THEOREM TypeCorrect == Spec => []TypeOK
<1>. USE XmodemAssumption
<1>1. Init => TypeOK
  <2>1. 1 \in Numbers
    BY DEF Numbers
  <2>2. <<>> \in Seq(Packets) /\ <<>> \in Seq(Replies) /\ <<>> \in Seq(0 .. FileLen)
    OBVIOUS
  <2>. SUFFICES ASSUME Init PROVE TypeOK
    OBVIOUS
  <2>3. pc \in {"idle", "start", "data", "write", "ack", "eot", "eotAck"}
    BY DEF Init
  <2>4. result \in {"none", "success", "failed", "checksum", "cancelled", "data"}
    BY DEF Init
  <2>5. ~(pc \in {"write", "ack"}) /\ pc # "data" /\ pc # "ack"
    BY DEF Init
  <2>6. /\ offset \in 0 .. FileLen /\ len \in 0 .. BlockSize
        /\ retry \in 0 .. MaxRetries /\ sends \in 0 .. MaxSends
    BY DEF Init
  <2>. QED BY <2>1, <2>2, <2>3, <2>4, <2>5, <2>6 DEF Init, TypeOK
<1>2. TypeOK /\ [Next]_vars => TypeOK'
  <2>. SUFFICES ASSUME TypeOK, [Next]_vars PROVE TypeOK'
    OBVIOUS
  <2>. USE DEF TypeOK
  <2>1. /\ NextNum(blockNum) \in Numbers /\ NextNum(expected) \in Numbers
        /\ 1 \in Numbers
    BY NextNumFacts DEF Numbers
  <2>2. /\ RequestLen \in 0 .. BlockSize
        /\ offset < FileLen => RequestLen \in 1 .. BlockSize
        /\ offset + RequestLen <= FileLen
    BY RequestLenFacts
  <2>3. toSender # <<>> => Tail(toSender) \in Seq(Replies)
    BY TailFacts
  <2>4. toReceiver # <<>> =>
           Tail(toReceiver) \in Seq(Packets) /\ Head(toReceiver) \in Packets
    BY TailFacts
  <2>5. \A r \in Replies : With(toSender, r) \in Seq(Replies)
    BY WithFacts
  <2>6. \A p \in Packets : With(toReceiver, p) \in Seq(Packets)
    BY WithFacts
  <2>7. offset' = offset => RequestLen' = RequestLen
    BY DEF RequestLen
  <2>8. CASE Open \/ Close \/ Send
    <3>1. <<>> \in Seq(Replies) /\ MaxSends \in Nat
      OBVIOUS
    <3>2. CASE Open
      BY <2>7, <3>2 DEF Open, receiver
    <3>3. CASE Close
      BY <2>7, <3>1, <3>3 DEF Close, receiver
    <3>4. CASE Send
      BY <2>7, <3>1, <3>4 DEF Send, receiver
    <3>. QED BY <2>8, <3>2, <3>3, <3>4
  <2>9. CASE WaitForStart
    <3>1. CASE StartC
      BY <2>1, <2>3, <3>1 DEF StartC, Read, receiver
    <3>2. CASE StartOther
      BY <2>3, <2>7, <3>2 DEF StartOther, Read, sender, receiver
    <3>3. CASE StartNak \/ StartCan \/ StartTimeout
      BY <2>3, <2>7, <3>3
         DEF StartNak, StartCan, StartTimeout, Read, Return, LineUnchanged, receiver
    <3>. QED BY <2>9, <3>1, <3>2, <3>3 DEF WaitForStart
  <2>10. CASE GetData \/ GetDataFails
    <3>1. CASE GetData
      <4>1. len' \in 1 .. RequestLen /\ len' \in 0 .. BlockSize
        BY <2>2, <3>1 DEF GetData
      <4>. QED BY <2>7, <3>1, <4>1 DEF GetData, LineUnchanged, receiver
    <3>2. CASE GetDataFails
      BY <2>7, <3>2 DEF GetDataFails, Return, LineUnchanged, receiver
    <3>. QED BY <2>10, <3>1, <3>2
  <2>11. CASE WriteBlock \/ WriteBlockFails
    <3>1. pc = "write" => Block \in Packets
      BY <2>2 DEF Block, Packets, Blocks
    <3>2. Damaged \in Packets
      BY DEF Packets
    <3>3. CASE WriteBlock
      <4>1. toReceiver' \in Seq(Packets)
        BY <2>6, <3>1, <3>3 DEF WriteBlock
      <4>. QED BY <2>7, <3>3, <4>1 DEF WriteBlock, receiver
    <3>4. CASE WriteBlockFails
      <4>1. toReceiver' \in Seq(Packets)
        BY <2>6, <3>2, <3>4 DEF WriteBlockFails
      <4>2. retry' \in 0 .. MaxRetries
        BY <3>4 DEF WriteBlockFails, NextTry
      <4>. QED BY <2>7, <3>4, <4>1, <4>2 DEF WriteBlockFails, NextTry, LateUnless, receiver
    <3>. QED BY <2>11, <3>3, <3>4
  <2>12. CASE GiveUp \/ Nacked \/ Cancelled \/ OtherReply
    <3>1. CASE GiveUp \/ Cancelled
      BY <2>3, <2>7, <3>1 DEF GiveUp, Cancelled, Read, Return, LineUnchanged, receiver
    <3>2. CASE Nacked
      BY <2>3, <2>7, <3>2 DEF Nacked, NextTry, Read, receiver
    <3>3. CASE OtherReply
      BY <2>3, <2>7, <3>3 DEF OtherReply, Read, sender, receiver
    <3>. QED BY <2>12, <3>1, <3>2, <3>3
  <2>13. CASE AckTimeout
    <3>1. pc = "ack" /\ NextTry /\ WaitIsOver
      BY <2>13 DEF AckTimeout
    <3>. QED BY <2>7, <3>1 DEF NextTry, WaitIsOver, LateUnless, receiver
  <2>14. CASE Acked
    BY <2>1, <2>2, <2>3, <2>14 DEF Acked, Read, receiver
  <2>15. CASE SendEot
    <3>1. Eot \in Packets
      BY DEF Packets
    <3>. QED BY <2>3, <2>6, <2>7, <2>15, <3>1
             DEF SendEot, WriteEot, WriteEotFails, EotAcked, EotOther, EotTimeout,
                 Read, Return, LineUnchanged, WaitIsOver, LateUnless, sender,
                 receiver
  <2>16. CASE Receiver
    <3>1. {"C", "ACK", "NAK", "CAN"} \subseteq Replies
      BY DEF Replies
    <3>2. CASE TakeBlock
      <4>1. Head(toReceiver) \in Blocks
        BY <2>4, <3>2 DEF TakeBlock, Packets, Damaged, Eot
      <4>2. Data(Head(toReceiver)) \in Seq(0 .. FileLen)
        BY <4>1, DataFacts
      <4>. QED BY <2>1, <2>4, <2>5, <2>7, <3>1, <3>2, <4>2 DEF TakeBlock, sender
    <3>3. CASE Restart
      BY <2>1, <2>7, <3>3 DEF Restart, LateUnless, sender
    <3>4. CASE AskForStart \/ TakeRepeated \/ TakeStrange \/ TakeDamaged
               \/ TakeEot \/ RefuseEot \/ Nag \/ Cancel
      <4>1. toSender' \in Seq(Replies)
        BY <2>5, <3>1, <3>4
           DEF AskForStart, TakeRepeated, TakeStrange, TakeDamaged, TakeEot,
               RefuseEot, Nag, Cancel
      <4>2. toReceiver' \in Seq(Packets)
        BY <2>4, <3>4
           DEF AskForStart, TakeRepeated, TakeStrange, TakeDamaged, TakeEot,
               RefuseEot, Nag, Cancel
      <4>3. receiving' \in BOOLEAN /\ late' \in BOOLEAN
        BY <3>4 DEF AskForStart, TakeRepeated, TakeStrange, TakeDamaged, TakeEot,
                    RefuseEot, Nag, Cancel, LateUnless, receiver
      <4>4. UNCHANGED <<sender, expected, image>>
        BY <3>4 DEF AskForStart, TakeRepeated, TakeStrange, TakeDamaged, TakeEot,
                    RefuseEot, Nag, Cancel, receiver
      <4>. QED BY <2>7, <4>1, <4>2, <4>3, <4>4 DEF sender
    <3>. QED BY <2>16, <3>2, <3>3, <3>4 DEF Receiver
  <2>17. CASE Line
    <3>1. toReceiver # <<>> => [toReceiver EXCEPT ![1] = Damaged] \in Seq(Packets)
      BY <2>4 DEF Packets
    <3>2. toReceiver' \in Seq(Packets) /\ toSender' \in Seq(Replies)
      BY <2>3, <2>4, <2>17, <3>1 DEF Line, LosePacket, DamagePacket, LoseReply
    <3>3. UNCHANGED <<sender, receiver>> /\ late' \in BOOLEAN
      BY <2>17 DEF Line, LosePacket, DamagePacket, LoseReply
    <3>. QED BY <2>7, <3>2, <3>3 DEF sender, receiver
  <2>18. CASE UNCHANGED vars
    BY <2>7, <2>18 DEF vars, sender, receiver
  <2>. QED BY <2>8, <2>9, <2>10, <2>11, <2>12, <2>13, <2>14, <2>15, <2>16, <2>17, <2>18
           DEF Next, Sender, SendBlock
<1>. QED BY <1>1, <1>2, PTL DEF Spec

-----------------------------------------------------------------------------
(* The inductive invariant. *)

\* The hypothesis of the theorems that follow: the data callback fills its blocks.
FullReads == ~ShortReads

Answers == {"ACK", "NAK"}

\* A packet is in transit to a receiver that takes it only while the sender waits,
\* it is the only one, and it is the one that was sent last, unless damaged.
OneInTransit ==
    toReceiver # <<>> /\ receiving =>
        /\ pc \in {"ack", "eotAck"}
        /\ Len(toReceiver) = 1
        /\ toReceiver[1] \in {Damaged, IF pc = "ack" THEN Block ELSE Eot}

\* There is one answer at most, and while it is in transit no packet is.
OneAnswer ==
    \A i \in 1 .. Len(toSender) : toSender[i] \in Answers =>
        /\ pc \in {"ack", "eotAck"}
        /\ toReceiver = <<>>
        /\ \A j \in 1 .. Len(toSender) : toSender[j] \in Answers => j = i

\* A receiver that has cancelled sends nothing any more.
CancelIsLast ==
    \A i \in 1 .. Len(toSender) : toSender[i] = "CAN" =>
        i = Len(toSender) /\ ~receiving

\* A request to start that is read by xmodemWaitForStart() comes from a receiver that
\* has stored nothing: requests that were sent before the first block arrived are
\* read before its ACK.
StartIsFresh ==
    \A i \in 1 .. Len(toSender) : toSender[i] = "C" /\ image # <<>> =>
        /\ pc = "ack"
        /\ toReceiver = <<>>
        /\ \A j \in 1 .. Len(toSender) :
               toSender[j] \in Answers => toSender[j] = "ACK" /\ i < j

\* The receiver waits for the block the sender is at, or has stored it.
NotYet == Len(image) = offset /\ expected = blockNum

Has == Len(image) = offset + BlockSize /\ expected = NextNum(blockNum)

\* Sender and receiver are never more than one block apart.
InStep ==
    /\ image = <<>> => expected = 1
    /\ pc = "data" => NotYet
    /\ pc \in {"write", "ack"} => len = RequestLen /\ (NotYet \/ Has)
    /\ pc = "ack" => \A i \in 1 .. Len(toSender) : toSender[i] = "ACK" => Has
    /\ pc \in {"eot", "eotAck"} => Len(image) >= FileLen

IInv ==
    /\ TypeOK
    /\ OneInTransit /\ OneAnswer /\ CancelIsLast /\ StartIsFresh
    /\ InStep /\ ReceiverHasPrefix

\* The steps of the sender that write nothing and read nothing.
LEMMA LocalSteps ==
    ASSUME IInv, TypeOK', FullReads, ~late',
           \/ Open \/ Send \/ StartTimeout \/ GetData \/ GetDataFails
           \/ GiveUp \/ AckTimeout \/ WriteEotFails \/ EotTimeout
    PROVE  IInv'
<1>. USE XmodemAssumption DEF IInv, TypeOK
<1>1. UNCHANGED <<toReceiver, toSender, receiving, expected, image>>
  BY DEF Open, Send, StartTimeout, GetData, GetDataFails, GiveUp, AckTimeout,
         WriteEotFails, EotTimeout, LineUnchanged, WaitIsOver, receiver
<1>2. \/ pc \notin {"ack", "eotAck"}
      \/ toReceiver = <<>> /\ toSender = <<>>
  BY DEF Open, Send, StartTimeout, GetData, GetDataFails, GiveUp, AckTimeout,
         WriteEotFails, EotTimeout, WaitIsOver, LateUnless, Quiet
<1>3. OneInTransit'
  BY <1>1, <1>2 DEF OneInTransit
<1>4. OneAnswer'
  BY <1>1, <1>2 DEF OneAnswer
<1>5. CancelIsLast'
  BY <1>1 DEF CancelIsLast
<1>6. StartIsFresh'
  BY <1>1, <1>2 DEF StartIsFresh
<1>7. InStep'
  <2>1. CASE GetData
    BY <1>1, <2>1 DEF InStep, NotYet, Has, GetData, FullReads, RequestLen
  <2>2. CASE AckTimeout
    BY <1>1, <2>2 DEF InStep, NotYet, Has, AckTimeout, NextTry, WaitIsOver, RequestLen
  <2>3. CASE Open \/ Send \/ StartTimeout \/ GetDataFails \/ GiveUp \/ WriteEotFails \/ EotTimeout
    BY <1>1, <2>3 DEF InStep, NotYet, Has, Open, Send, StartTimeout, GetDataFails,
                      GiveUp, WriteEotFails, EotTimeout, Return
  <2>. QED BY <2>1, <2>2, <2>3
<1>8. ReceiverHasPrefix'
  BY <1>1 DEF ReceiverHasPrefix
<1>. QED BY <1>3, <1>4, <1>5, <1>6, <1>7, <1>8

\* Closing throws away what is in transit to the sender.
LEMMA CloseStep ==
    ASSUME IInv, TypeOK', Close
    PROVE  IInv'
<1>. USE DEF IInv
<1>1. /\ UNCHANGED <<toReceiver, pc, len, offset, blockNum, receiving, expected, image>>
      /\ pc = "idle" /\ toSender' = <<>>
  BY DEF Close, receiver
<1>2. OneInTransit' /\ OneAnswer' /\ CancelIsLast' /\ StartIsFresh'
  BY <1>1 DEF OneInTransit, OneAnswer, CancelIsLast, StartIsFresh
<1>3. InStep' /\ ReceiverHasPrefix'
  BY <1>1 DEF InStep, ReceiverHasPrefix
<1>. QED BY <1>2, <1>3

\* Writing a block or EOT. Nothing else is in transit to a receiver that listens.
LEMMA WriteSteps ==
    ASSUME IInv, TypeOK', FullReads, ~late', WriteBlock \/ WriteBlockFails \/ WriteEot
    PROVE  IInv'
<1>. USE XmodemAssumption DEF IInv, TypeOK
<1>1. /\ UNCHANGED <<toSender, offset, blockNum, len, receiving, expected, image>>
      /\ pc \in {"write", "eot"}
  BY DEF WriteBlock, WriteBlockFails, WriteEot, NextTry, receiver
<1>2. \A i \in 1 .. Len(toSender) :
          toSender[i] \notin Answers /\ (toSender[i] = "C" => image = <<>>)
  BY <1>1 DEF OneAnswer, StartIsFresh
<1>3. OneInTransit'
  <2>1. Block' = Block /\ Eot' = Eot
    BY <1>1 DEF Block, Eot
  <2>2. toReceiver = <<>> =>
            /\ With(toReceiver, Block) = <<Block>>
            /\ With(toReceiver, Eot) = <<Eot>>
    BY DEF With
  <2>. QED BY <1>1, <2>1, <2>2
           DEF OneInTransit, WriteBlock, WriteBlockFails, WriteEot, NextTry, LateUnless
<1>4. OneAnswer' /\ CancelIsLast' /\ StartIsFresh'
  BY <1>1, <1>2 DEF OneAnswer, CancelIsLast, StartIsFresh, Answers
<1>5. InStep'
  <2>1. \A i \in 1 .. Len(toSender) : toSender[i] # "ACK"
    BY <1>2 DEF Answers
  <2>. QED BY <1>1, <2>1 DEF InStep, NotYet, Has, RequestLen,
                              WriteBlock, WriteBlockFails, WriteEot, NextTry
<1>6. ReceiverHasPrefix'
  BY <1>1 DEF ReceiverHasPrefix
<1>. QED BY <1>3, <1>4, <1>5, <1>6

\* No answer follows the one that is read, and no packet is in transit.
LEMMA AnswerIsAlone ==
    ASSUME OneAnswer, toSender \in Seq(Replies), toSender # <<>>, toSender[1] \in Answers,
           toSender' = Tail(toSender)
    PROVE  toReceiver = <<>> /\ \A i \in 1 .. Len(toSender') : toSender'[i] \notin Answers
<1>1. /\ 1 \in 1 .. Len(toSender)
      /\ \A i \in 1 .. Len(toSender') :
             i + 1 \in 1 .. Len(toSender) /\ i + 1 # 1 /\ toSender'[i] = toSender[i + 1]
  OBVIOUS
<1>2. toReceiver = <<>> /\ \A j \in 1 .. Len(toSender) : toSender[j] \in Answers => j = 1
  BY <1>1 DEF OneAnswer
<1>. QED BY <1>1, <1>2

\* Reading a reply, or losing one. What follows from the reply is in the invariant:
\* an ACK that is read means that the receiver has stored the block, a 'C' that
\* xmodemWaitForStart() reads that the receiver has stored nothing.
LEMMA ReadSteps ==
    ASSUME IInv, TypeOK',
           \/ StartC \/ StartNak \/ StartCan \/ StartOther
           \/ Acked \/ Nacked \/ Cancelled \/ OtherReply
           \/ EotAcked \/ EotOther \/ LoseReply
    PROVE  IInv'
<1>. USE XmodemAssumption DEF IInv, TypeOK
<1>1. /\ toSender # <<>> /\ toSender' = Tail(toSender)
      /\ UNCHANGED <<toReceiver, receiving, expected, image>>
  BY DEF StartC, StartNak, StartCan, StartOther, Acked, Nacked, Cancelled, OtherReply,
         EotAcked, EotOther, LoseReply, Read, receiver
<1>2. /\ Len(toSender) \in Nat \ {0} /\ Len(toSender') = Len(toSender) - 1
      /\ \A i \in 1 .. Len(toSender') :
             i + 1 \in 1 .. Len(toSender) /\ toSender'[i] = toSender[i + 1]
      /\ Head(toSender) = toSender[1] /\ 1 \in 1 .. Len(toSender)
  BY <1>1, TailFacts
<1>3. CancelIsLast' /\ ReceiverHasPrefix'
  <2>1. CancelIsLast'
    <3>. SUFFICES ASSUME NEW i \in 1 .. Len(toSender'), toSender'[i] = "CAN"
                  PROVE  i = Len(toSender') /\ ~receiving
      BY <1>1 DEF CancelIsLast
    <3>1. i + 1 \in 1 .. Len(toSender) /\ toSender[i + 1] = "CAN"
      BY <1>2
    <3>2. i + 1 = Len(toSender) /\ ~receiving
      BY <3>1 DEF CancelIsLast
    <3>. QED BY <1>2, <3>2
  <2>2. ReceiverHasPrefix'
    BY <1>1 DEF ReceiverHasPrefix
  <2>. QED BY <2>1, <2>2
<1>4. CASE StartC
  <2>1. /\ pc = "start" /\ toSender[1] = "C"
        /\ pc' = "data" /\ offset' = 0 /\ blockNum' = 1
    BY <1>2, <1>4 DEF StartC, Read
  <2>2. image = <<>>
    BY <1>2, <2>1 DEF StartIsFresh
  <2>3. \A i \in 1 .. Len(toSender) : toSender[i] \notin Answers
    BY <2>1 DEF OneAnswer
  <2>4. OneInTransit' /\ OneAnswer' /\ StartIsFresh'
    BY <1>1, <1>2, <2>1, <2>2, <2>3 DEF OneInTransit, OneAnswer, StartIsFresh
  <2>5. InStep'
    BY <1>1, <2>1, <2>2 DEF InStep, NotYet
  <2>. QED BY <1>3, <2>4, <2>5
<1>5. CASE Acked
  <2>1. /\ pc = "ack" /\ toSender[1] = "ACK"
        /\ pc' = IF offset + len < FileLen THEN "data" ELSE "eot"
        /\ offset' = offset + len /\ blockNum' = NextNum(blockNum)
    BY <1>2, <1>5 DEF Acked, Read
  <2>2. toReceiver = <<>> /\ \A i \in 1 .. Len(toSender') : toSender'[i] \notin Answers
    <3>1. toSender[1] \in Answers
      BY <2>1 DEF Answers
    <3>. QED BY <1>1, <3>1, AnswerIsAlone
  <2>3. \A i \in 1 .. Len(toSender') : toSender'[i] = "C" => image = <<>>
    <3>. SUFFICES ASSUME NEW i \in 1 .. Len(toSender'), toSender'[i] = "C", image # <<>>
                  PROVE  FALSE
      OBVIOUS
    <3>1. i + 1 \in 1 .. Len(toSender) /\ toSender[i + 1] = "C"
      BY <1>2
    <3>2. \A j \in 1 .. Len(toSender) : toSender[j] \in Answers => i + 1 < j
      BY <3>1 DEF StartIsFresh
    <3>3. i + 1 < 1
      BY <1>2, <2>1, <3>2 DEF Answers
    <3>. QED BY <3>3
  <2>4. OneInTransit' /\ OneAnswer' /\ StartIsFresh'
    BY <1>1, <2>2, <2>3 DEF OneInTransit, OneAnswer, StartIsFresh
  <2>5. Has /\ len = RequestLen
    BY <1>2, <2>1 DEF InStep
  <2>6. InStep'
    BY <1>1, <2>1, <2>5, RequestLenFacts DEF InStep, NotYet, Has
  <2>. QED BY <1>3, <2>4, <2>6
<1>6. CASE Nacked
  <2>1. /\ pc = "ack" /\ toSender[1] = "NAK" /\ pc' = "write"
        /\ UNCHANGED <<offset, blockNum, len>>
    BY <1>2, <1>6 DEF Nacked, NextTry, Read
  <2>2. toReceiver = <<>> /\ \A i \in 1 .. Len(toSender') : toSender'[i] \notin Answers
    <3>1. toSender[1] \in Answers
      BY <2>1 DEF Answers
    <3>. QED BY <1>1, <3>1, AnswerIsAlone
  <2>3. \A i \in 1 .. Len(toSender') : toSender'[i] = "C" => image = <<>>
    BY <1>2, <2>1 DEF StartIsFresh, Answers
  <2>4. OneInTransit' /\ OneAnswer' /\ StartIsFresh'
    BY <1>1, <2>2, <2>3 DEF OneInTransit, OneAnswer, StartIsFresh
  <2>5. InStep'
    BY <1>1, <2>1 DEF InStep, NotYet, Has, RequestLen
  <2>. QED BY <1>3, <2>4, <2>5
<1>7. CASE StartNak \/ StartCan \/ Cancelled \/ EotAcked
  <2>1. pc' = "idle" /\ Head(toSender) # "C"
    BY <1>7 DEF StartNak, StartCan, Cancelled, EotAcked, Read, Return
  <2>2. toReceiver # <<>> => ~receiving
    BY <1>2, <1>7 DEF StartNak, StartCan, Cancelled, EotAcked, Read,
                      OneInTransit, OneAnswer, CancelIsLast, Answers
  <2>3. \A i \in 1 .. Len(toSender') : toSender'[i] \notin Answers
    <3>1. CASE StartNak \/ StartCan
      <4>1. pc = "start"
        BY <3>1 DEF StartNak, StartCan
      <4>2. \A i \in 1 .. Len(toSender) : toSender[i] \notin Answers
        BY <4>1 DEF OneAnswer
      <4>. QED BY <1>2, <4>2
    <3>2. CASE Cancelled
      <4>1. toSender[1] = "CAN"
        BY <1>2, <3>2 DEF Cancelled, Read
      <4>2. Len(toSender) = 1
        BY <1>2, <4>1 DEF CancelIsLast
      <4>. QED BY <1>2, <4>2
    <3>3. CASE EotAcked
      <4>1. toSender[1] \in Answers
        BY <1>2, <3>3 DEF EotAcked, Read, Answers
      <4>2. \A j \in 1 .. Len(toSender) : toSender[j] \in Answers => j = 1
        BY <1>2, <4>1 DEF OneAnswer
      <4>. SUFFICES ASSUME NEW i \in 1 .. Len(toSender'), toSender'[i] \in Answers
                     PROVE  FALSE
        OBVIOUS
      <4>3. i + 1 \in 1 .. Len(toSender) /\ toSender[i + 1] \in Answers
        BY <1>2
      <4>4. i + 1 = 1
        BY <4>2, <4>3
      <4>. QED BY <4>4
    <3>. QED BY <1>7, <3>1, <3>2, <3>3
  <2>4. \A i \in 1 .. Len(toSender') : toSender'[i] = "C" => image = <<>>
    <3>. SUFFICES ASSUME NEW i \in 1 .. Len(toSender'), toSender'[i] = "C", image # <<>>
                  PROVE  FALSE
      OBVIOUS
    <3>1. i + 1 \in 1 .. Len(toSender) /\ toSender[i + 1] = "C" /\ i + 1 # 1
      BY <1>2
    <3>2. pc = "ack"
      BY <3>1 DEF StartIsFresh
    <3>3. toSender[1] = "CAN"
      BY <1>2, <1>7, <3>2 DEF StartNak, StartCan, Cancelled, EotAcked, Read
    <3>4. Len(toSender) = 1
      BY <1>2, <3>3 DEF CancelIsLast
    <3>. QED BY <1>2, <3>1, <3>4
  <2>5. OneInTransit' /\ OneAnswer' /\ StartIsFresh'
    BY <1>1, <2>1, <2>2, <2>3, <2>4 DEF OneInTransit, OneAnswer, StartIsFresh
  <2>6. InStep'
    <3>1. image = <<>> => expected = 1
      BY DEF InStep
    <3>. QED BY <1>1, <2>1, <3>1 DEF InStep
  <2>. QED BY <1>3, <2>5, <2>6
<1>8. CASE StartOther \/ OtherReply \/ EotOther \/ LoseReply
  <2>1. UNCHANGED <<pc, offset, blockNum, len>>
    BY <1>8 DEF StartOther, OtherReply, EotOther, LoseReply, sender
  <2>2. OneInTransit'
    BY <1>1, <2>1 DEF OneInTransit, Block
  <2>3. OneAnswer'
    BY <1>1, <1>2, <2>1 DEF OneAnswer
  <2>4. StartIsFresh'
    <3>. SUFFICES ASSUME NEW i \in 1 .. Len(toSender'), toSender'[i] = "C", image # <<>>
                  PROVE  /\ pc = "ack" /\ toReceiver = <<>>
                         /\ \A j \in 1 .. Len(toSender') :
                                toSender'[j] \in Answers => toSender'[j] = "ACK" /\ i < j
      BY <1>1, <2>1 DEF StartIsFresh
    <3>1. i + 1 \in 1 .. Len(toSender) /\ toSender[i + 1] = "C"
      BY <1>2
    <3>2. /\ pc = "ack" /\ toReceiver = <<>>
          /\ \A j \in 1 .. Len(toSender) :
                 toSender[j] \in Answers => toSender[j] = "ACK" /\ i + 1 < j
      BY <3>1 DEF StartIsFresh
    <3>3. ASSUME NEW j \in 1 .. Len(toSender'), toSender'[j] \in Answers
          PROVE  toSender'[j] = "ACK" /\ i < j
      <4>1. j + 1 \in 1 .. Len(toSender) /\ toSender[j + 1] = toSender'[j]
        BY <1>2
      <4>2. toSender[j + 1] = "ACK" /\ i + 1 < j + 1
        BY <3>2, <3>3, <4>1
      <4>. QED BY <4>1, <4>2
    <3>. QED BY <3>2, <3>3
  <2>5. InStep'
    BY <1>1, <1>2, <2>1 DEF InStep, NotYet, Has, RequestLen
  <2>. QED BY <1>3, <2>2, <2>3, <2>4, <2>5
<1>. QED BY <1>4, <1>5, <1>6, <1>7, <1>8

\* The receiver takes a packet off the line and answers with r. The packet is the
\* only one and no other answer is in transit; what the packet is, and what becomes
\* of the stored bytes, is for the caller of the lemma to say.
LEMMA AnswerInTransit ==
    ASSUME IInv, TypeOK', NEW r \in Answers,
           receiving, toReceiver # <<>>, toReceiver' = Tail(toReceiver),
           toSender' = With(toSender, r),
           UNCHANGED <<pc, offset, blockNum, len>>
    PROVE  /\ pc \in {"ack", "eotAck"}
           /\ toReceiver' = <<>>
           /\ Head(toReceiver) \in {Damaged, IF pc = "ack" THEN Block ELSE Eot}
           /\ \A i \in 1 .. Len(toSender) : toSender[i] \in {"C"}
           /\ \A i \in 1 .. Len(toSender') :
                  \/ i \in 1 .. Len(toSender) /\ toSender'[i] = "C"
                  \/ i = Len(toSender) + 1 /\ i = Len(toSender') /\ toSender'[i] = r
           /\ OneInTransit' /\ OneAnswer' /\ CancelIsLast'
<1>. USE DEF IInv, TypeOK
<1>1. /\ pc \in {"ack", "eotAck"} /\ Len(toReceiver) = 1
      /\ toReceiver[1] \in {Damaged, IF pc = "ack" THEN Block ELSE Eot}
  BY DEF OneInTransit
<1>2. toReceiver' = <<>> /\ Head(toReceiver) = toReceiver[1]
  <2>1. toReceiver \in Seq(Packets)
    OBVIOUS
  <2>. HIDE DEF IInv, TypeOK
  <2>. QED BY <1>1, <2>1, TailOfOne
<1>3. \A i \in 1 .. Len(toSender) : toSender[i] = "C"
  <2>1. \A i \in 1 .. Len(toSender) : toSender[i] \in Replies
    OBVIOUS
  <2>2. \A i \in 1 .. Len(toSender) : toSender[i] \notin Answers
    BY DEF OneAnswer
  <2>3. \A i \in 1 .. Len(toSender) : toSender[i] # "CAN"
    BY DEF CancelIsLast
  <2>. QED BY <2>1, <2>2, <2>3 DEF Replies, Answers
<1>4. \A i \in 1 .. Len(toSender') :
          \/ i \in 1 .. Len(toSender) /\ toSender'[i] = "C"
          \/ i = Len(toSender) + 1 /\ i = Len(toSender') /\ toSender'[i] = r
  <2>1. r \in Replies /\ toSender \in Seq(Replies)
    BY DEF Replies, Answers
  <2>2. \A i \in 1 .. Len(With(toSender, r)) :
            \/ i \in 1 .. Len(toSender) /\ With(toSender, r)[i] = toSender[i]
            \/ i = Len(toSender) + 1 /\ i = Len(With(toSender, r)) /\ With(toSender, r)[i] = r
    BY <2>1, WithFacts
  <2>. QED BY <1>3, <2>2
<1>5. OneInTransit'
  BY <1>2 DEF OneInTransit
<1>6. OneAnswer'
  BY <1>1, <1>2, <1>4 DEF OneAnswer, Answers
<1>7. CancelIsLast'
  BY <1>4 DEF CancelIsLast, Answers
<1>. QED BY <1>1, <1>2, <1>3, <1>4, <1>5, <1>6, <1>7

\* Storing a block: it is the one the receiver waits for, and its bytes follow those
\* that are stored.
LEMMA TakeBlockStep ==
    ASSUME IInv, TypeOK', TakeBlock
    PROVE  IInv'
<1>. USE XmodemAssumption DEF IInv, TypeOK
<1>1. /\ receiving /\ toReceiver # <<>> /\ toReceiver' = Tail(toReceiver)
      /\ toSender' = With(toSender, "ACK") /\ "ACK" \in Answers
      /\ UNCHANGED <<pc, offset, blockNum, len, receiving>>
      /\ Head(toReceiver).kind = "block" /\ Head(toReceiver).num = expected
      /\ image' = image \o Data(Head(toReceiver))
      /\ expected' = NextNum(expected)
  BY DEF TakeBlock, sender, Answers
<1>2. /\ pc \in {"ack", "eotAck"}
      /\ toReceiver' = <<>>
      /\ Head(toReceiver) \in {Damaged, IF pc = "ack" THEN Block ELSE Eot}
      /\ \A i \in 1 .. Len(toSender') :
             \/ i \in 1 .. Len(toSender) /\ toSender'[i] = "C"
             \/ i = Len(toSender) + 1 /\ i = Len(toSender') /\ toSender'[i] = "ACK"
      /\ OneInTransit' /\ OneAnswer' /\ CancelIsLast'
  BY <1>1, AnswerInTransit
<1>3. pc = "ack" /\ Head(toReceiver) = Block
  BY <1>1, <1>2 DEF Damaged, Eot
<1>4. len = RequestLen /\ len \in 1 .. BlockSize /\ expected = blockNum
  BY <1>1, <1>3, RequestLenFacts DEF InStep, Block
<1>5. NotYet
  BY <1>3, <1>4, NextNumFacts DEF InStep, Has
<1>6. Block \in Blocks
  BY <1>4, RequestLenFacts DEF Block, Blocks
<1>7. /\ Len(Data(Block)) = BlockSize /\ Data(Block) \in Seq(0 .. FileLen)
      /\ \A i \in 1 .. BlockSize :
             Data(Block)[i] = IF i <= len THEN offset + i ELSE 0
  BY <1>6, DataFacts DEF Block
<1>8. /\ Len(image') = offset + BlockSize
      /\ \A i \in 1 .. Len(image) : image'[i] = image[i]
      /\ \A i \in 1 .. BlockSize : image'[offset + i] = Data(Block)[i]
  <2>. DEFINE d == Data(Block)
  <2>1. /\ image \in Seq(0 .. FileLen) /\ Len(image) = offset
        /\ d \in Seq(0 .. FileLen) /\ Len(d) = BlockSize /\ image' = image \o d
    BY <1>1, <1>3, <1>5, <1>7 DEF NotYet
  <2>. HIDE DEF d, IInv, TypeOK
  <2>2. /\ Len(image') = Len(image) + Len(d)
        /\ \A i \in 1 .. Len(image) : image'[i] = image[i]
        /\ \A i \in 1 .. Len(d) : image'[Len(image) + i] = d[i]
    BY <2>1, StoreFacts
  <2>. QED BY <2>1, <2>2 DEF d
<1>9. ReceiverHasPrefix'
  <2>. SUFFICES ASSUME NEW i \in 1 .. Len(image'), i <= FileLen
                PROVE  image'[i] = i
    BY DEF ReceiverHasPrefix
  <2>0. offset \in Nat /\ BlockSize \in Nat /\ i \in Nat /\ i <= offset + BlockSize
    BY <1>8
  <2>1. CASE i <= offset
    BY <1>5, <1>8, <2>1 DEF ReceiverHasPrefix, NotYet
  <2>2. CASE i > offset
    <3>1. i - offset \in 1 .. BlockSize /\ offset + (i - offset) = i
      BY <2>0, <2>2
    <3>2. i - offset <= len
      BY <1>4, <3>1, RequestLenFacts
    <3>. QED BY <1>7, <1>8, <3>1, <3>2
  <2>. QED BY <2>1, <2>2
<1>10. StartIsFresh'
  <2>. SUFFICES ASSUME NEW i \in 1 .. Len(toSender'), toSender'[i] = "C"
                PROVE  \A j \in 1 .. Len(toSender') :
                          toSender'[j] \in Answers => toSender'[j] = "ACK" /\ i < j
    BY <1>1, <1>2, <1>3 DEF StartIsFresh
  <2>1. i \in 1 .. Len(toSender)
    BY <1>2
  <2>2. "C" \notin Answers
    BY DEF Answers
  <2>. QED BY <1>2, <2>1, <2>2
<1>11. InStep'
  <2>1. Has' /\ image' # <<>> /\ len' = RequestLen'
    BY <1>1, <1>4, <1>8 DEF Has, RequestLen
  <2>. QED BY <1>1, <1>3, <2>1 DEF InStep
<1>. QED BY <1>2, <1>9, <1>10, <1>11

\* A repeated block is the one that is stored already.
LEMMA AnswerSteps ==
    ASSUME IInv, TypeOK', TakeRepeated \/ TakeDamaged \/ TakeEot \/ RefuseEot
    PROVE  IInv'
<1>. USE XmodemAssumption DEF IInv, TypeOK
<1>1. PICK r \in Answers :
        /\ receiving /\ toReceiver # <<>> /\ toReceiver' = Tail(toReceiver)
        /\ toSender' = With(toSender, r)
        /\ UNCHANGED <<pc, offset, blockNum, len, expected, image>>
        /\ r = "ACK" => TakeRepeated \/ TakeEot
  BY DEF TakeRepeated, TakeDamaged, TakeEot, RefuseEot, sender, receiver, Answers
<1>2. /\ pc \in {"ack", "eotAck"}
      /\ Head(toReceiver) \in {Damaged, IF pc = "ack" THEN Block ELSE Eot}
      /\ \A i \in 1 .. Len(toSender') :
             \/ i \in 1 .. Len(toSender) /\ toSender'[i] = "C"
             \/ i = Len(toSender) + 1 /\ i = Len(toSender') /\ toSender'[i] = r
      /\ \A i \in 1 .. Len(toSender) : toSender[i] = "C"
      /\ OneInTransit' /\ OneAnswer' /\ CancelIsLast'
  BY <1>1, AnswerInTransit
<1>3. StartIsFresh'
  <2>1. \A i \in 1 .. Len(toSender') : toSender'[i] = "C" => image = <<>>
    BY <1>1, <1>2 DEF StartIsFresh, Answers
  <2>. QED BY <1>1, <2>1 DEF StartIsFresh
<1>4. pc = "ack" /\ r = "ACK" => Has
  <2>. SUFFICES ASSUME pc = "ack", r = "ACK" PROVE Has
    OBVIOUS
  <2>1. CASE TakeRepeated
    <3>1. Head(toReceiver) = Block /\ expected = NextNum(blockNum)
      BY <1>2, <2>1 DEF TakeRepeated, Damaged, Block
    <3>. QED BY <3>1, NextNumFacts DEF InStep, NotYet
  <2>2. CASE TakeEot
    BY <1>2, <2>2 DEF TakeEot, Damaged, Block, Eot
  <2>. QED BY <1>1, <2>1, <2>2
<1>5. InStep'
  <2>1. pc = "ack" => \A i \in 1 .. Len(toSender') : toSender'[i] = "ACK" => Has
    BY <1>2, <1>4
  <2>. QED BY <1>1, <2>1 DEF InStep, NotYet, Has, RequestLen
<1>6. ReceiverHasPrefix'
  BY <1>1 DEF ReceiverHasPrefix
<1>. QED BY <1>2, <1>3, <1>5, <1>6

\* A block with a strange number never arrives.
LEMMA NothingStrange ==
    ASSUME IInv
    PROVE  ~TakeStrange
<1>. USE DEF IInv, TypeOK
<1>1. SUFFICES ASSUME TakeStrange PROVE FALSE
  OBVIOUS
<1>2. /\ Head(toReceiver).kind = "block"
      /\ Head(toReceiver).num # expected /\ NextNum(Head(toReceiver).num) # expected
      /\ pc \in {"ack", "eotAck"}
      /\ Head(toReceiver) \in {Damaged, IF pc = "ack" THEN Block ELSE Eot}
  BY <1>1, TailFacts DEF TakeStrange, OneInTransit
<1>3. pc = "ack" /\ Head(toReceiver).num = blockNum
  BY <1>2 DEF Damaged, Eot, Block
<1>. QED BY <1>2, <1>3 DEF InStep, NotYet, Has

\* What the receiver sends of its own accord.
LEMMA UnaskedSteps ==
    ASSUME IInv, TypeOK', FullReads, ~late', AskForStart \/ Nag \/ Cancel \/ Restart
    PROVE  IInv'
<1>. USE XmodemAssumption DEF IInv, TypeOK
<1>1. UNCHANGED <<pc, offset, blockNum, len, toReceiver>>
  BY DEF AskForStart, Nag, Cancel, Restart, sender
<1>2. CASE Restart
  <2>1. /\ pc = "idle" /\ toReceiver' = <<>> /\ toSender' = <<>>
        /\ expected' = 1 /\ image' = <<>>
    BY <1>2 DEF Restart, Quiet, LateUnless
  <2>2. OneInTransit' /\ OneAnswer' /\ CancelIsLast' /\ StartIsFresh'
    BY <2>1 DEF OneInTransit, OneAnswer, CancelIsLast, StartIsFresh
  <2>3. InStep' /\ ReceiverHasPrefix'
    BY <1>1, <2>1 DEF InStep, ReceiverHasPrefix
  <2>. QED BY <2>2, <2>3
<1>3. CASE AskForStart \/ Nag \/ Cancel
  <2>1. PICK r \in Replies :
          /\ toSender' = With(toSender, r)
          /\ UNCHANGED <<expected, image>>
          /\ receiving /\ (receiving' => receiving)
          /\ \/ r = "C" /\ image = <<>>
             \/ r = "NAK" /\ pc \in {"ack", "eotAck"} /\ toReceiver = <<>> /\ toSender = <<>>
             \/ r = "CAN" /\ ~receiving'
    BY <1>3 DEF AskForStart, Nag, Cancel, Quiet, LateUnless, Replies, receiver
  <2>2. \A i \in 1 .. Len(toSender') :
            \/ i \in 1 .. Len(toSender) /\ toSender'[i] = toSender[i]
            \/ i = Len(toSender) + 1 /\ i = Len(toSender') /\ toSender'[i] = r
    <3>1. \A i \in 1 .. Len(With(toSender, r)) :
            \/ i \in 1 .. Len(toSender) /\ With(toSender, r)[i] = toSender[i]
            \/ i = Len(toSender) + 1 /\ i = Len(With(toSender, r)) /\ With(toSender, r)[i] = r
      BY <2>1, WithFacts
    <3>. QED BY <2>1, <3>1
  <2>3. OneInTransit'
    BY <1>1, <2>1 DEF OneInTransit, Block
  <2>4. \A i \in 1 .. Len(toSender) : toSender[i] # "CAN"
    BY <2>1 DEF CancelIsLast
  <2>5. CancelIsLast'
    BY <2>1, <2>2, <2>4 DEF CancelIsLast
  <2>6. OneAnswer'
    <3>1. CASE r = "NAK"
      BY <1>1, <2>1, <2>2, <3>1 DEF OneAnswer
    <3>2. CASE r \notin Answers
      BY <1>1, <2>2, <3>2 DEF OneAnswer
    <3>. QED BY <2>1, <3>1, <3>2 DEF Answers
  <2>7. StartIsFresh'
    <3>1. CASE r = "NAK"
      BY <2>1, <2>2, <3>1 DEF StartIsFresh
    <3>2. CASE r = "C"
      BY <2>1, <3>2 DEF StartIsFresh
    <3>3. CASE r = "CAN"
      <4>. SUFFICES ASSUME NEW i \in 1 .. Len(toSender'), toSender'[i] = "C", image # <<>>
                    PROVE  /\ pc = "ack" /\ toReceiver = <<>>
                           /\ \A j \in 1 .. Len(toSender') :
                                  toSender'[j] \in Answers => toSender'[j] = "ACK" /\ i < j
        BY <1>1, <2>1 DEF StartIsFresh
      <4>1. i \in 1 .. Len(toSender) /\ toSender[i] = "C"
        BY <2>2, <3>3
      <4>2. /\ pc = "ack" /\ toReceiver = <<>>
            /\ \A j \in 1 .. Len(toSender) :
                   toSender[j] \in Answers => toSender[j] = "ACK" /\ i < j
        BY <4>1 DEF StartIsFresh
      <4>3. "CAN" \notin Answers
        BY DEF Answers
      <4>. QED BY <2>2, <3>3, <4>2, <4>3
    <3>. QED BY <2>1, <3>1, <3>2, <3>3
  <2>8. InStep'
    <3>1. r # "ACK"
      BY <2>1
    <3>2. pc = "ack" => \A i \in 1 .. Len(toSender') : toSender'[i] = "ACK" => Has
      BY <2>2, <3>1 DEF InStep
    <3>. QED BY <1>1, <2>1, <3>2 DEF InStep, NotYet, Has, RequestLen
  <2>9. ReceiverHasPrefix'
    BY <2>1 DEF ReceiverHasPrefix
  <2>. QED BY <2>3, <2>5, <2>6, <2>7, <2>8, <2>9
<1>. QED BY <1>2, <1>3

\* A packet is lost or damaged on the way.
LEMMA LineSteps ==
    ASSUME IInv, TypeOK', LosePacket \/ DamagePacket
    PROVE  IInv'
<1>. USE DEF IInv, TypeOK
<1>1. /\ UNCHANGED <<pc, offset, blockNum, len, toSender, receiving, expected, image>>
      /\ toReceiver # <<>>
      /\ toReceiver' \in {Tail(toReceiver), [toReceiver EXCEPT ![1] = Damaged]}
  BY DEF LosePacket, DamagePacket, sender, receiver
<1>2. /\ Len(toReceiver) \in Nat \ {0}
      /\ Tail(toReceiver) \in Seq(Packets) /\ Len(Tail(toReceiver)) = Len(toReceiver) - 1
  BY <1>1, TailFacts
<1>3. OneInTransit'
  <2>. SUFFICES ASSUME toReceiver' # <<>>, receiving
                PROVE  /\ pc \in {"ack", "eotAck"}
                       /\ Len(toReceiver') = 1 /\ toReceiver'[1] = Damaged
    BY <1>1 DEF OneInTransit
  <2>1. pc \in {"ack", "eotAck"} /\ Len(toReceiver) = 1
    BY <1>1 DEF OneInTransit
  <2>2. toReceiver' # Tail(toReceiver)
    <3>1. toReceiver \in Seq(Packets)
      OBVIOUS
    <3>. HIDE DEF IInv, TypeOK
    <3>. QED BY <2>1, <3>1, TailOfOne
  <2>3. toReceiver' = [toReceiver EXCEPT ![1] = Damaged]
    BY <1>1, <2>2
  <2>4. Len(toReceiver') = 1 /\ toReceiver'[1] = Damaged
    BY <2>1, <2>3
  <2>. QED BY <2>1, <2>4
<1>4. OneAnswer' /\ CancelIsLast' /\ StartIsFresh'
  BY <1>1 DEF OneAnswer, CancelIsLast, StartIsFresh
<1>5. InStep' /\ ReceiverHasPrefix'
  BY <1>1 DEF InStep, NotYet, Has, RequestLen, ReceiverHasPrefix
<1>. QED BY <1>3, <1>4, <1>5

LEMMA StutteringStep ==
    ASSUME IInv, UNCHANGED vars
    PROVE  IInv'
BY DEF IInv, TypeOK, OneInTransit, OneAnswer, CancelIsLast, StartIsFresh, InStep, NotYet,
       Has, RequestLen, Block, ReceiverHasPrefix, vars, sender, receiver

\* What is late stays late.
LEMMA LateStays ==
    ASSUME TypeOK, [Next]_vars
    PROVE  late => late'
<1>1. late \in BOOLEAN
  BY DEF TypeOK
<1>2. CASE Sender
  BY <1>1, <1>2
     DEF Sender, Open, Close, Send, WaitForStart, StartC, StartNak, StartCan,
         StartOther, StartTimeout, SendBlock, GetData, GetDataFails, WriteBlock,
         WriteBlockFails, GiveUp, Acked, Nacked, Cancelled, OtherReply, AckTimeout,
         SendEot, WriteEot, WriteEotFails, EotAcked, EotOther, EotTimeout, Return,
         Read, LineUnchanged, WaitIsOver, LateUnless
<1>3. CASE Receiver \/ Line \/ UNCHANGED vars
  BY <1>1, <1>3
     DEF Receiver, AskForStart, TakeBlock, TakeRepeated, TakeStrange, TakeDamaged,
         TakeEot, RefuseEot, Nag, Cancel, Restart, Line, LosePacket, DamagePacket,
         LoseReply, LateUnless, vars
<1>. QED BY <1>2, <1>3 DEF Next

THEOREM Invariance ==
    ASSUME FullReads
    PROVE  Spec => [](~late => IInv)
<1>1. Init /\ TypeOK => (~late => IInv)
  BY DEF Init, IInv, OneInTransit, OneAnswer, CancelIsLast, StartIsFresh, InStep,
         ReceiverHasPrefix
<1>2. (~late => IInv) /\ TypeOK /\ TypeOK' /\ [Next]_vars => (~late' => IInv')
  <2>. SUFFICES ASSUME IInv, TypeOK', [Next]_vars, ~late' PROVE IInv'
    BY LateStays
  <2>1. CASE \/ Open \/ Send \/ StartTimeout \/ GetData \/ GetDataFails
             \/ GiveUp \/ AckTimeout \/ WriteEotFails \/ EotTimeout
    BY <2>1, LocalSteps
  <2>2. CASE Close
    BY <2>2, CloseStep
  <2>3. CASE WriteBlock \/ WriteBlockFails \/ WriteEot
    BY <2>3, WriteSteps
  <2>4. CASE \/ StartC \/ StartNak \/ StartCan \/ StartOther
             \/ Acked \/ Nacked \/ Cancelled \/ OtherReply
             \/ EotAcked \/ EotOther \/ LoseReply
    BY <2>4, ReadSteps
  <2>5. CASE TakeBlock
    BY <2>5, TakeBlockStep
  <2>6. CASE TakeRepeated \/ TakeDamaged \/ TakeEot \/ RefuseEot
    BY <2>6, AnswerSteps
  <2>7. CASE TakeStrange
    BY <2>7, NothingStrange
  <2>8. CASE AskForStart \/ Nag \/ Cancel \/ Restart
    BY <2>8, UnaskedSteps
  <2>9. CASE LosePacket \/ DamagePacket
    BY <2>9, LineSteps
  <2>10. CASE UNCHANGED vars
    BY <2>10, StutteringStep
  <2>. QED BY <2>1, <2>2, <2>3, <2>4, <2>5, <2>6, <2>7, <2>8, <2>9, <2>10
           DEF Next, Sender, WaitForStart, SendBlock, SendEot, Receiver, Line
<1>. QED BY <1>1, <1>2, TypeCorrect, PTL DEF Spec

-----------------------------------------------------------------------------
(* The results. *)

\* On a line that loses and damages packets and replies, the receiver stores the file
\* in order and without gap (xmodemSendBlock(), uCxXmodemSend()), whatever the range
\* of block numbers, until something is late.
THEOREM PrefixTheorem ==
    ASSUME FullReads
    PROVE  Spec => [](~late => ReceiverHasPrefix)
<1>1. IInv => ReceiverHasPrefix
  BY DEF IInv
<1>. QED BY <1>1, Invariance, PTL

\* The offset that uCxXmodemSend() counts up and reports to progressCallback never
\* runs ahead of the receiver.
THEOREM ProgressTheorem ==
    ASSUME FullReads
    PROVE  Spec => []ProgressIsReal
<1>1. (~late => IInv) => ProgressIsReal
  BY XmodemAssumption DEF IInv, TypeOK, InStep, NotYet, Has, ProgressIsReal
<1>. QED BY <1>1, Invariance, PTL

\* uCxXmodemSend() returns 0 only when the receiver has the whole file.
THEOREM SuccessTheorem ==
    ASSUME FullReads
    PROVE  Spec => SuccessMeansComplete
<1>1. (~late => IInv) /\ [Next]_vars
        => [~late /\ result # "success" /\ result' = "success" => Complete]_vars
  <2>. SUFFICES ASSUME IInv, [Next]_vars, result # "success", result' = "success"
                PROVE  Complete
    OBVIOUS
  <2>1. EotAcked
    BY DEF Next, Sender, Open, Close, Send, WaitForStart, StartC, StartNak, StartCan,
           StartOther, StartTimeout, SendBlock, GetData, GetDataFails, WriteBlock,
           WriteBlockFails, GiveUp, Acked, Nacked, Cancelled, OtherReply, AckTimeout,
           NextTry, WaitIsOver, SendEot, WriteEot, WriteEotFails, EotOther, EotTimeout, Return,
           Receiver, AskForStart, TakeBlock, TakeRepeated, TakeStrange, TakeDamaged,
           TakeEot, RefuseEot, Nag, Cancel, Restart, Line, LosePacket, DamagePacket,
           LoseReply, sender, vars
  <2>2. Len(image) >= FileLen
    BY <2>1 DEF EotAcked, IInv, InStep
  <2>3. \A i \in 1 .. FileLen : image[i] = i
    BY <2>2, XmodemAssumption DEF IInv, TypeOK, ReceiverHasPrefix
  <2>. QED BY <2>2, <2>3 DEF Complete
<1>. QED BY <1>1, Invariance, PTL DEF Spec, SuccessMeansComplete

-----------------------------------------------------------------------------
(* When something is late: the hypothesis, and the blocks of the file counted. *)

\* The hypothesis of the last theorem: block numbers range over more than what is in
\* transit both ways.
NumbersSuffice == NumRange > 2 * LineCap

\* The blocks of the file are counted from 0. This is the index of a block, the number
\* of blocks that are acknowledged and of those that are stored, and the number that
\* the n-th block goes by.
Index(b) == b.from \div BlockSize
Acknowledged == (offset + BlockSize - 1) \div BlockSize
Stored == Len(image) \div BlockSize
NumOf(n) == (n + 1) % NumRange

\* Where the n-th block begins
Bytes(n) == n * BlockSize

\* Division by a positive number
LEMMA Division ==
    ASSUME NEW b \in Nat \ {0}, NEW m \in Nat
    PROVE  /\ m \div b \in Nat /\ m % b \in 0 .. b - 1
           /\ m = (b * (m \div b)) + (m % b)
OBVIOUS

LEMMA SmallMultiple ==
    ASSUME NEW b \in Nat \ {0}, NEW q \in Nat, NEW p \in Nat,
           (b * q) - (b * p) < b, (b * p) - (b * q) < b
    PROVE  q = p
<1>1. CASE q >= p + 1
  <2>1. b * q >= b * (p + 1) /\ b * (p + 1) = (b * p) + b
    BY <1>1
  <2>2. (b * q) \in Nat /\ (b * p) \in Nat
    OBVIOUS
  <2>. QED BY <2>1, <2>2
<1>2. CASE p >= q + 1
  <2>1. b * p >= b * (q + 1) /\ b * (q + 1) = (b * q) + b
    BY <1>2
  <2>2. (b * q) \in Nat /\ (b * p) \in Nat
    OBVIOUS
  <2>. QED BY <2>1, <2>2
<1>. QED BY <1>1, <1>2

\* Quotient and remainder are the ones that add up.
LEMMA DivisionIsUnique ==
    ASSUME NEW b \in Nat \ {0}, NEW q \in Nat, NEW r \in 0 .. b - 1
    PROVE  ((b * q) + r) \div b = q /\ ((b * q) + r) % b = r
<1>. DEFINE m == (b * q) + r
            p == m \div b
            s == m % b
<1>1. m \in Nat /\ (b * q) \in Nat
  OBVIOUS
<1>. HIDE DEF m
<1>2. p \in Nat /\ s \in 0 .. b - 1 /\ m = (b * p) + s
  BY <1>1, Division
<1>. HIDE DEF p, s
<1>3. (b * p) \in Nat
  BY <1>2
<1>4. (b * q) - (b * p) < b /\ (b * p) - (b * q) < b
  BY <1>1, <1>2, <1>3 DEF m
<1>5. q = p
  BY <1>2, <1>4, SmallMultiple
<1>6. s = r
  BY <1>1, <1>2, <1>3, <1>5 DEF m
<1>. QED BY <1>5, <1>6 DEF p, s, m

\* Numbers that are closer to each other than the divisor have different remainders.
LEMMA Remainder ==
    ASSUME NEW b \in Nat \ {0}, NEW m \in Nat, NEW n \in Nat, m % b = n % b,
           m - n < b, n - m < b
    PROVE  m = n
<1>. DEFINE q == m \div b
            p == n \div b
            r == m % b
<1>1. q \in Nat /\ r \in 0 .. b - 1 /\ m = (b * q) + r
  BY Division
<1>2. p \in Nat /\ n = (b * p) + r
  BY Division
<1>. HIDE DEF q, p, r
<1>3. (b * p) \in Nat /\ (b * q) \in Nat
  BY <1>1, <1>2
<1>4. (b * q) - (b * p) < b /\ (b * p) - (b * q) < b
  BY <1>1, <1>2, <1>3
<1>5. q = p
  BY <1>1, <1>2, <1>4, SmallMultiple
<1>. QED BY <1>1, <1>2, <1>5, Zenon

\* The n-th block of the file begins where the one before it ends.
LEMMA BytesFacts ==
    ASSUME NEW n \in Nat
    PROVE  /\ Bytes(n) \in Nat /\ Bytes(0) = 0 /\ Bytes(n + 1) = Bytes(n) + BlockSize
           /\ Bytes(n) \div BlockSize = n
           /\ (Bytes(n) + BlockSize - 1) \div BlockSize = n
           /\ \A l \in 1 .. BlockSize : (Bytes(n) + l + BlockSize - 1) \div BlockSize = n + 1
<1>. DEFINE B == BlockSize
<1>1. B \in Nat \ {0}
  BY XmodemAssumption
<1>. HIDE DEF B
<1>2. /\ n * B \in Nat /\ (n + 1) * B = (n * B) + B /\ 0 * B = 0
      /\ n * B = B * n /\ (n + 1) * B = B * (n + 1)
  BY <1>1
<1>3. \A k \in Nat, m \in 0 .. B - 1 : ((B * k) + m) \div B = k
  BY <1>1, DivisionIsUnique
<1>. DEFINE X == n * B
<1>. DEFINE Y == (n + 1) * B
<1>4. /\ X \in Nat /\ Y = X + B
      /\ \A m \in 0 .. B - 1 : (X + m) \div B = n /\ (Y + m) \div B = n + 1
  BY <1>2, <1>3
<1>. HIDE DEF X, Y
<1>5. X \div B = n
  <2>1. 0 \in 0 .. B - 1 /\ X + 0 = X
    BY <1>1, <1>4
  <2>2. (X + 0) \div B = n
    BY <1>4, <2>1
  <2>. QED BY <2>1, <2>2
<1>6. (X + B - 1) \div B = n
  <2>1. B - 1 \in 0 .. B - 1 /\ X + (B - 1) = X + B - 1
    BY <1>1, <1>4
  <2>2. (X + (B - 1)) \div B = n
    BY <1>4, <2>1
  <2>. QED BY <2>1, <2>2
<1>7. ASSUME NEW l \in 1 .. B PROVE (X + l + B - 1) \div B = n + 1
  <2>1. l - 1 \in 0 .. B - 1 /\ Y + (l - 1) = X + l + B - 1
    BY <1>1, <1>4
  <2>2. (Y + (l - 1)) \div B = n + 1
    BY <1>4, <2>1
  <2>. QED BY <2>1, <2>2
<1>. QED BY <1>2, <1>4, <1>5, <1>6, <1>7 DEF Bytes, B, X, Y

\* Numbers of blocks. Two blocks have the same one only if they are far apart.
LEMMA NumOfFacts ==
    ASSUME NEW n \in Nat
    PROVE  /\ NumOf(n) \in Numbers /\ NextNum(NumOf(n)) = NumOf(n + 1) /\ NumOf(0) = 1
           /\ \A m \in Nat :
                  NumOf(m) = NumOf(n) /\ m - n < NumRange /\ n - m < NumRange => m = n
<1>. DEFINE N == NumRange
<1>1. N \in Nat \ {0, 1}
  BY XmodemAssumption
<1>. HIDE DEF N
<1>. DEFINE q == (n + 1) \div N
            r == (n + 1) % N
<1>2. q \in Nat /\ r \in 0 .. N - 1 /\ n + 1 = (N * q) + r
  <2>1. n + 1 \in Nat
    OBVIOUS
  <2>. QED BY <1>1, <2>1, Division
<1>. HIDE DEF q, r
<1>3. (N * q) \in Nat /\ N * (q + 1) = (N * q) + N
  BY <1>1, <1>2
<1>4. (n + 1 + 1) % N = IF r = N - 1 THEN 0 ELSE r + 1
  <2>1. CASE r = N - 1
    <3>1. n + 1 + 1 = (N * (q + 1)) + 0 /\ q + 1 \in Nat /\ 0 \in 0 .. N - 1
      BY <1>1, <1>2, <1>3, <2>1
    <3>2. ((N * (q + 1)) + 0) % N = 0
      BY <1>1, <3>1, DivisionIsUnique
    <3>. QED BY <2>1, <3>1, <3>2
  <2>2. CASE r # N - 1
    <3>1. n + 1 + 1 = (N * q) + (r + 1) /\ r + 1 \in 0 .. N - 1
      BY <1>1, <1>2, <1>3, <2>2
    <3>2. ((N * q) + (r + 1)) % N = r + 1
      BY <1>1, <1>2, <3>1, DivisionIsUnique
    <3>. QED BY <2>2, <3>1, <3>2
  <2>. QED BY <2>1, <2>2
<1>5. NumOf(0) = 1
  <2>1. ((N * 0) + 1) % N = 1 /\ (N * 0) + 1 = 1
    <3>1. 0 \in Nat /\ 1 \in 0 .. N - 1 /\ (N * 0) + 1 = 1
      BY <1>1
    <3>2. ((N * 0) + 1) % N = 1
      BY <1>1, <3>1, DivisionIsUnique
    <3>. QED BY <3>1, <3>2
  <2>2. 1 % N = 1
    BY <2>1, Zenon
  <2>3. 0 + 1 = 1
    OBVIOUS
  <2>. QED BY <2>2, <2>3 DEF NumOf, N
<1>6. ASSUME NEW m \in Nat, NumOf(m) = NumOf(n), m - n < N, n - m < N PROVE m = n
  <2>1. (m + 1) % N = (n + 1) % N
    BY <1>6 DEF NumOf, N
  <2>2. (m + 1) - (n + 1) < N /\ (n + 1) - (m + 1) < N /\ m + 1 \in Nat /\ n + 1 \in Nat
    BY <1>1, <1>6
  <2>3. m + 1 = n + 1
    BY <1>1, <2>1, <2>2, Remainder
  <2>. QED BY <2>3
<1>. QED BY <1>2, <1>4, <1>5, <1>6 DEF NumOf, NextNum, Numbers, N, r

-----------------------------------------------------------------------------
(* Counting what is on a line. *)

\* The number of items of a line that are in T
Count(line, T) == Cardinality({i \in 1 .. Len(line) : line[i] \in T})

LEMMA CountType ==
    ASSUME NEW S, NEW s \in Seq(S), NEW T
    PROVE  /\ Count(s, T) \in 0 .. Len(s)
           /\ IsFiniteSet({i \in 1 .. Len(s) : s[i] \in T})
<1>. DEFINE W == {i \in 1 .. Len(s) : s[i] \in T}
<1>1. Len(s) \in Nat /\ W \in SUBSET (1 .. Len(s))
  OBVIOUS
<1>2. IsFiniteSet(1 .. Len(s)) /\ Cardinality(1 .. Len(s)) = Len(s)
  <2>. DEFINE n == Len(s)
  <2>1. n \in Int /\ 1 \in Int /\ n >= 0
    BY <1>1
  <2>. HIDE DEF n
  <2>2. /\ IsFiniteSet(1 .. n)
        /\ Cardinality(1 .. n) = IF 1 > n THEN 0 ELSE n - 1 + 1
    BY <2>1, FS_Interval
  <2>3. IsFiniteSet(1 .. n) /\ Cardinality(1 .. n) = n
    BY <2>1, <2>2
  <2>. QED BY <2>3 DEF n
<1>3. IsFiniteSet(W) /\ Cardinality(W) <= Len(s)
  BY <1>1, <1>2, FS_Subset
<1>4. Cardinality(W) \in Nat
  BY <1>3, FS_CardinalityType
<1>. QED BY <1>1, <1>3, <1>4 DEF Count

\* Whatever counts in t counts at the same place of s.
LEMMA CountLess ==
    ASSUME NEW S, NEW s \in Seq(S), NEW t \in Seq(S), NEW T, NEW U,
           \A i \in 1 .. Len(t) : t[i] \in T => i \in 1 .. Len(s) /\ s[i] \in U
    PROVE  Count(t, T) <= Count(s, U)
<1>. DEFINE W == {i \in 1 .. Len(s) : s[i] \in U}
            V == {i \in 1 .. Len(t) : t[i] \in T}
<1>1. V \in SUBSET W
  OBVIOUS
<1>2. IsFiniteSet(W)
  BY CountType
<1>3. Cardinality(V) <= Cardinality(W)
  BY <1>1, <1>2, FS_Subset
<1>. QED BY <1>3 DEF Count

LEMMA CountAppend ==
    ASSUME NEW S, NEW s \in Seq(S), NEW e \in S, NEW T
    PROVE  Count(Append(s, e), T) = Count(s, T) + (IF e \in T THEN 1 ELSE 0)
<1>. DEFINE W == {i \in 1 .. Len(s) : s[i] \in T}
            V == {i \in 1 .. Len(Append(s, e)) : Append(s, e)[i] \in T}
            n == Len(s) + 1
<1>1. /\ Len(s) \in Nat /\ Len(Append(s, e)) = Len(s) + 1
      /\ \A i \in 1 .. Len(s) : Append(s, e)[i] = s[i]
      /\ Append(s, e)[Len(s) + 1] = e
  OBVIOUS
<1>2. \A i : i \in 1 .. Len(s) + 1 <=> i \in 1 .. Len(s) \/ i = Len(s) + 1
  BY <1>1
<1>3. n \notin W
  BY <1>1
<1>4. IsFiniteSet(W) /\ Cardinality(W) \in Nat
  BY CountType, FS_CardinalityType
<1>5. CASE e \in T
  <2>1. V = W \cup {n}
    BY <1>1, <1>2, <1>5
  <2>. HIDE DEF V, W, n
  <2>2. Cardinality(W \cup {n}) = Cardinality(W) + 1
    BY <1>3, <1>4, FS_AddElement
  <2>. QED BY <1>5, <2>1, <2>2 DEF Count, V, W
<1>6. CASE e \notin T
  <2>1. V = W
    BY <1>1, <1>2, <1>6
  <2>2. Count(Append(s, e), T) = Cardinality(V) /\ Count(s, T) = Cardinality(W)
    BY DEF Count
  <2>. HIDE DEF V, W
  <2>. QED BY <1>4, <1>6, <2>1, <2>2
<1>. QED BY <1>5, <1>6

LEMMA CountTail ==
    ASSUME NEW S, NEW s \in Seq(S), s # <<>>, NEW T
    PROVE  Count(Tail(s), T) = Count(s, T) - (IF Head(s) \in T THEN 1 ELSE 0)
<1>. DEFINE t == Tail(s)
            W == {i \in 1 .. Len(s) : s[i] \in T}
            V == {i \in 1 .. Len(t) : t[i] \in T}
            f == [i \in V |-> i + 1]
<1>1. /\ t \in Seq(S) /\ Head(s) = s[1] /\ Len(s) \in Nat \ {0} /\ Len(t) = Len(s) - 1
      /\ \A i \in 1 .. Len(t) : t[i] = s[i + 1]
  BY TailFacts
<1>. HIDE DEF t
<1>2. IsFiniteSet(W) /\ IsFiniteSet(V) /\ Cardinality(W) \in Nat
  BY <1>1, CountType, FS_CardinalityType
<1>3. V \subseteq Nat /\ W \subseteq Nat
  OBVIOUS
<1>4. \A i \in V : i + 1 \in W \ {1}
  BY <1>1
<1>5. \A j \in W \ {1} : j - 1 \in V /\ (j - 1) + 1 = j
  BY <1>1
<1>. HIDE DEF V, W
<1>6. f \in [V -> W \ {1}]
  BY <1>4
<1>7. \A x, y \in V : f[x] = f[y] => x = y
  BY <1>3
<1>8. \A j \in W \ {1} : \E i \in V : f[i] = j
  BY <1>5
<1>. HIDE DEF f
<1>9. f \in Bijection(V, W \ {1})
  BY <1>6, <1>7, <1>8 DEF Bijection, Injection, Surjection, IsInjective
<1>10. Cardinality(W \ {1}) = Cardinality(V)
  <2>1. ExistsBijection(V, W \ {1})
    BY <1>9 DEF ExistsBijection
  <2>. QED BY <1>2, <2>1, FS_Bijection
<1>11. Cardinality(W \ {1}) = IF 1 \in W THEN Cardinality(W) - 1 ELSE Cardinality(W)
  BY <1>2, FS_RemoveElement
<1>12. 1 \in W <=> Head(s) \in T
  BY <1>1 DEF W
<1>13. Count(t, T) = Cardinality(V) /\ Count(s, T) = Cardinality(W)
  BY DEF Count, V, W
<1>14. Count(t, T) = Count(s, T) - (IF Head(s) \in T THEN 1 ELSE 0)
  BY <1>2, <1>10, <1>11, <1>12, <1>13
<1>. QED BY <1>14 DEF t

-----------------------------------------------------------------------------
(* How far apart the sender and a receiver that stores can be. *)

Acks(s) == Count(s, {"ACK"})

Behind(r, n) == Count(r, {b \in Blocks : Index(b) < n})

\* a blocks are acknowledged, k are stored; r is on its way to the receiver, s to the
\* sender. Every block that the sender is ahead was acknowledged by an ACK that was
\* sent for another block. As long as something makes such ACKs, there is less of it
\* than fits into the lines.
Ahead(a, k, r, s) == \A n \in k .. a : a - n + Acks(s) + Behind(r, n) < 2 * LineCap

\* A block that was sent is not ahead of the sender, unless the sender has begun again
\* since. That it does only at the beginning of a transfer.
SentBefore(a, r) ==
    \A i \in 1 .. Len(r) : r[i] \in Blocks => Index(r[i]) <= a \/ Index(r[i]) < LineCap

\* Except at the beginning of a transfer, blocks are in transit in their order ...
Ordered(r) ==
    \A i, j \in 1 .. Len(r) :
        i < j /\ r[i] \in Blocks /\ r[j] \in Blocks /\ Index(r[i]) >= LineCap
            => Index(r[i]) <= Index(r[j])

\* ... and none is older than the one that was stored last.
Recent(a, k, r) ==
    k > LineCap =>
        /\ k - 1 <= a
        /\ \A i \in 1 .. Len(r) : r[i] \in Blocks => k - 1 <= Index(r[i])

\* Behind the first i replies there is a request to start, or there may still be one.
StartAt(k, s, i) == \/ i < Len(s) /\ s[i + 1] = "C"
                    \/ i = Len(s) /\ k = 0

\* When a request to start comes, the transfer is at its beginning.
Early(a, k, r, s) ==
    \A i \in 0 .. Len(s) : StartAt(k, s, i) =>
        /\ k <= LineCap
        /\ \A j \in 1 .. Len(r) : r[j] \in Blocks => Index(r[j]) < LineCap
        /\ a + Acks(SubSeq(s, 1, i)) < LineCap

Engaged(a, k, r, s) ==
    /\ Ahead(a, k, r, s)
    /\ SentBefore(a, r) /\ Ordered(r) /\ Recent(a, k, r)
    /\ Early(a, k, r, s)

LEMMA BlockFacts ==
    ASSUME NEW b \in Blocks
    PROVE  /\ Index(b) \in Nat /\ b.kind = "block" /\ b.num \in Numbers
           /\ b.from \in 0 .. FileLen /\ b.len \in 1 .. BlockSize
<1>1. b.from \in Nat /\ BlockSize \in Nat \ {0}
  BY XmodemAssumption DEF Blocks
<1>2. b.from \div BlockSize \in Nat
  BY <1>1, Division
<1>. QED BY <1>2 DEF Index, Blocks

LEMMA NotBlocks == Damaged \notin Blocks /\ Eot \notin Blocks
BY DEF Damaged, Eot, Blocks

\* The counts are numbers.
LEMMA CountsAre ==
    ASSUME NEW r \in Seq(Packets), NEW s \in Seq(Replies), NEW n \in Nat
    PROVE  Acks(s) \in 0 .. Len(s) /\ Behind(r, n) \in 0 .. Len(r)
           /\ Acks(s) \in Nat /\ Behind(r, n) \in Nat /\ Len(r) \in Nat /\ Len(s) \in Nat
<1>1. Acks(s) \in 0 .. Len(s) /\ Behind(r, n) \in 0 .. Len(r)
  BY CountType DEF Acks, Behind
<1>. QED BY <1>1

\* Of the first replies, without the very first one
LEMMA PrefixTail ==
    ASSUME NEW s \in Seq(Replies), s # <<>>, NEW i \in 0 .. Len(Tail(s))
    PROVE  /\ i + 1 \in 0 .. Len(s)
           /\ SubSeq(s, 1, i + 1) \in Seq(Replies)
           /\ Acks(SubSeq(Tail(s), 1, i)) =
                 Acks(SubSeq(s, 1, i + 1)) - (IF Head(s) = "ACK" THEN 1 ELSE 0)
           /\ Acks(SubSeq(Tail(s), 1, i)) \in Nat /\ Acks(SubSeq(s, 1, i + 1)) \in Nat
           /\ \A k \in Nat : StartAt(k, Tail(s), i) => StartAt(k, s, i + 1)
<1>1. /\ Tail(s) \in Seq(Replies) /\ Head(s) = s[1] /\ Len(s) \in Nat \ {0}
      /\ Len(Tail(s)) = Len(s) - 1 /\ \A j \in 1 .. Len(Tail(s)) : Tail(s)[j] = s[j + 1]
  BY TailFacts
<1>2. i \in Nat /\ i + 1 \in 1 .. Len(s)
  BY <1>1
<1>. DEFINE p == SubSeq(s, 1, i + 1)
            q == SubSeq(Tail(s), 1, i)
<1>3. /\ p \in Seq(Replies) /\ Len(p) = i + 1 /\ \A j \in 1 .. i + 1 : p[j] = s[j]
  BY <1>2
<1>4. /\ q \in Seq(Replies) /\ Len(q) = i /\ \A j \in 1 .. i : q[j] = Tail(s)[j]
  BY <1>1, <1>2
<1>. HIDE DEF p, q
<1>5. p # <<>> /\ Head(p) = Head(s)
  BY <1>1, <1>2, <1>3
<1>6. /\ Tail(p) \in Seq(Replies) /\ Len(Tail(p)) = i
      /\ \A j \in 1 .. i : Tail(p)[j] = p[j + 1]
  BY <1>2, <1>3, <1>5, TailFacts
<1>7. q = Tail(p)
  <2>1. \A j \in 1 .. i : q[j] = Tail(p)[j]
    BY <1>1, <1>2, <1>3, <1>4, <1>6
  <2>. QED BY <1>4, <1>6, <2>1
<1>8. Acks(q) = Acks(p) - (IF Head(s) = "ACK" THEN 1 ELSE 0)
  BY <1>3, <1>5, <1>7, CountTail DEF Acks
<1>9. Acks(q) \in Nat /\ Acks(p) \in Nat
  <2>1. Acks(q) \in 0 .. Len(q) /\ Acks(p) \in 0 .. Len(p)
    BY <1>3, <1>4, CountType DEF Acks
  <2>. QED BY <2>1
<1>10. ASSUME NEW k \in Nat, StartAt(k, Tail(s), i) PROVE StartAt(k, s, i + 1)
  <2>1. CASE i < Len(Tail(s)) /\ Tail(s)[i + 1] = "C"
    <3>1. i + 1 \in 1 .. Len(Tail(s)) /\ i + 1 < Len(s)
      BY <1>1, <1>2, <2>1
    <3>2. s[(i + 1) + 1] = "C"
      BY <1>1, <2>1, <3>1
    <3>. QED BY <3>1, <3>2 DEF StartAt
  <2>2. CASE i = Len(Tail(s)) /\ k = 0
    BY <1>1, <1>2, <2>2 DEF StartAt
  <2>. QED BY <1>10, <2>1, <2>2 DEF StartAt
<1>. QED BY <1>2, <1>3, <1>8, <1>9, <1>10 DEF p, q

LEMMA PrefixAppend ==
    ASSUME NEW s \in Seq(Replies), NEW e \in Replies, NEW i \in 0 .. Len(s)
    PROVE  /\ SubSeq(Append(s, e), 1, i) = SubSeq(s, 1, i)
           /\ SubSeq(Append(s, e), 1, Len(s) + 1) = Append(s, e)
           /\ SubSeq(s, 1, Len(s)) = s
           /\ \A k \in Nat : StartAt(k, Append(s, e), i) /\ i < Len(s) => StartAt(k, s, i)
<1>. DEFINE t == Append(s, e)
<1>1. /\ t \in Seq(Replies) /\ Len(t) = Len(s) + 1 /\ Len(s) \in Nat
      /\ \A j \in 1 .. Len(s) : t[j] = s[j]
  OBVIOUS
<1>. HIDE DEF t
<1>2. SubSeq(t, 1, i) = SubSeq(s, 1, i)
  <2>1. /\ SubSeq(t, 1, i) \in Seq(Replies) /\ Len(SubSeq(t, 1, i)) = i
        /\ \A j \in 1 .. i : SubSeq(t, 1, i)[j] = t[j]
    BY <1>1
  <2>2. /\ SubSeq(s, 1, i) \in Seq(Replies) /\ Len(SubSeq(s, 1, i)) = i
        /\ \A j \in 1 .. i : SubSeq(s, 1, i)[j] = s[j]
    BY <1>1
  <2>3. \A j \in 1 .. i : SubSeq(t, 1, i)[j] = SubSeq(s, 1, i)[j]
    BY <1>1, <2>1, <2>2
  <2>. QED BY <2>1, <2>2, <2>3
<1>3. \A u \in Seq(Replies) : SubSeq(u, 1, Len(u)) = u
  OBVIOUS
<1>4. \A k \in Nat : StartAt(k, t, i) /\ i < Len(s) => StartAt(k, s, i)
  BY <1>1 DEF StartAt
<1>. QED BY <1>1, <1>2, <1>3, <1>4 DEF t

-----------------------------------------------------------------------------
(* What happens on the lines, and how it leaves sender and receiver engaged. *)

\* A transfer begins.
LEMMA Begins ==
    ASSUME NEW s \in Seq(Replies), Len(s) < LineCap
    PROVE  Engaged(0, 0, <<>>, s)
<1>1. Len(s) \in Nat /\ LineCap \in Nat /\ <<>> \in Seq(Packets)
      /\ \A j \in 1 .. Len(<<>>) : FALSE
  BY XmodemAssumption
<1>2. Ahead(0, 0, <<>>, s)
  <2>. SUFFICES 0 - 0 + Acks(s) + Behind(<<>>, 0) < 2 * LineCap
    BY DEF Ahead
  <2>1. Acks(s) \in 0 .. Len(s) /\ Behind(<<>>, 0) \in 0 .. Len(<<>>) /\ Len(<<>>) = 0
    BY <1>1, CountsAre
  <2>. QED BY <1>1, <2>1
<1>3. SentBefore(0, <<>>) /\ Ordered(<<>>) /\ Recent(0, 0, <<>>)
  BY <1>1 DEF SentBefore, Ordered, Recent
<1>4. Early(0, 0, <<>>, s)
  <2>. SUFFICES ASSUME NEW i \in 0 .. Len(s) PROVE 0 + Acks(SubSeq(s, 1, i)) < LineCap
    BY <1>1 DEF Early
  <2>1. SubSeq(s, 1, i) \in Seq(Replies) /\ Len(SubSeq(s, 1, i)) = i
    BY <1>1
  <2>. DEFINE p == SubSeq(s, 1, i)
  <2>. HIDE DEF p
  <2>2. Acks(p) \in 0 .. Len(p)
    BY <2>1, CountType DEF p, Acks
  <2>. QED BY <1>1, <2>1, <2>2 DEF p
<1>. QED BY <1>2, <1>3, <1>4 DEF Engaged

\* The sender begins again, because it reads a request to start.
LEMMA BeginsAgain ==
    ASSUME NEW a \in Nat, NEW k \in Nat, NEW r \in Seq(Packets), NEW s \in Seq(Replies),
           Engaged(a, k, r, s), Len(r) <= LineCap, Len(s) <= LineCap,
           s # <<>>, Head(s) = "C"
    PROVE  Engaged(0, k, r, Tail(s))
<1>1. LineCap \in Nat \ {0}
  BY XmodemAssumption
<1>2. /\ Tail(s) \in Seq(Replies) /\ Head(s) = s[1] /\ Len(s) \in Nat \ {0}
      /\ Len(Tail(s)) = Len(s) - 1
  BY TailFacts
<1>3. k <= LineCap /\ \A j \in 1 .. Len(r) : r[j] \in Blocks => Index(r[j]) < LineCap
  <2>1. 0 \in 0 .. Len(s) /\ 0 < Len(s) /\ s[0 + 1] = "C"
    BY <1>2
  <2>2. StartAt(k, s, 0)
    BY <2>1 DEF StartAt
  <2>. QED BY <2>1, <2>2 DEF Engaged, Early
<1>4. Ahead(0, k, r, Tail(s))
  <2>. SUFFICES ASSUME NEW n \in k .. 0
                PROVE  0 - n + Acks(Tail(s)) + Behind(r, n) < 2 * LineCap
    BY DEF Ahead
  <2>1. n \in Nat /\ n = 0
    OBVIOUS
  <2>2. /\ Acks(Tail(s)) \in 0 .. Len(Tail(s)) /\ Behind(r, n) \in 0 .. Len(r)
        /\ Len(r) \in Nat
    BY <1>2, <2>1, CountsAre
  <2>. QED BY <1>1, <1>2, <2>1, <2>2
<1>5. SentBefore(0, r) /\ Ordered(r) /\ Recent(0, k, r)
  BY <1>1, <1>3 DEF SentBefore, Recent, Engaged
<1>6. Early(0, k, r, Tail(s))
  <2>. SUFFICES ASSUME NEW i \in 0 .. Len(Tail(s))
                PROVE  0 + Acks(SubSeq(Tail(s), 1, i)) < LineCap
    BY <1>3 DEF Early
  <2>. DEFINE p == SubSeq(Tail(s), 1, i)
  <2>1. p \in Seq(Replies) /\ Len(p) = i
    BY <1>2
  <2>. HIDE DEF p
  <2>2. Acks(p) \in 0 .. Len(p)
    BY <2>1, CountType DEF Acks
  <2>. QED BY <1>1, <1>2, <2>1, <2>2 DEF p
<1>. QED BY <1>4, <1>5, <1>6 DEF Engaged

\* A reply is gone.
LEMMA ReplyGone ==
    ASSUME NEW a \in Nat, NEW k \in Nat, NEW r \in Seq(Packets), NEW s \in Seq(Replies),
           Engaged(a, k, r, s), s # <<>>
    PROVE  Engaged(a, k, r, Tail(s))
<1>1. LineCap \in Nat \ {0} /\ Tail(s) \in Seq(Replies)
  BY XmodemAssumption, TailFacts
<1>2. Ahead(a, k, r, Tail(s))
  <2>. SUFFICES ASSUME NEW n \in k .. a
                PROVE  a - n + Acks(Tail(s)) + Behind(r, n) < 2 * LineCap
    BY DEF Ahead
  <2>1. n \in Nat
    OBVIOUS
  <2>2. a - n + Acks(s) + Behind(r, n) < 2 * LineCap
    BY DEF Engaged, Ahead
  <2>3. Acks(Tail(s)) = Acks(s) - (IF Head(s) = "ACK" THEN 1 ELSE 0)
    BY CountTail DEF Acks
  <2>4. Acks(s) \in Nat /\ Behind(r, n) \in Nat
    BY <2>1, CountsAre
  <2>. QED BY <1>1, <2>1, <2>2, <2>3, <2>4
<1>3. Early(a, k, r, Tail(s))
  <2>. SUFFICES ASSUME NEW i \in 0 .. Len(Tail(s)), StartAt(k, Tail(s), i)
                PROVE  /\ k <= LineCap
                       /\ \A j \in 1 .. Len(r) : r[j] \in Blocks => Index(r[j]) < LineCap
                       /\ a + Acks(SubSeq(Tail(s), 1, i)) < LineCap
    BY DEF Early
  <2>1. /\ i + 1 \in 0 .. Len(s) /\ StartAt(k, s, i + 1)
        /\ Acks(SubSeq(Tail(s), 1, i)) =
              Acks(SubSeq(s, 1, i + 1)) - (IF Head(s) = "ACK" THEN 1 ELSE 0)
        /\ Acks(SubSeq(Tail(s), 1, i)) \in Nat /\ Acks(SubSeq(s, 1, i + 1)) \in Nat
    BY PrefixTail
  <2>2. /\ k <= LineCap
        /\ \A j \in 1 .. Len(r) : r[j] \in Blocks => Index(r[j]) < LineCap
        /\ a + Acks(SubSeq(s, 1, i + 1)) < LineCap
    BY <2>1 DEF Engaged, Early
  <2>. DEFINE x == Acks(SubSeq(Tail(s), 1, i))
              y == Acks(SubSeq(s, 1, i + 1))
  <2>. HIDE DEF x, y
  <2>3. x \in Nat /\ y \in Nat /\ x <= y /\ a + y < LineCap
    BY <2>1, <2>2 DEF x, y
  <2>4. a + x < LineCap
    BY <1>1, <2>3
  <2>. QED BY <2>2, <2>4 DEF x
<1>. QED BY <1>2, <1>3 DEF Engaged

\* The sender reads an ACK and goes on.
LEMMA AckRead ==
    ASSUME NEW a \in Nat, NEW k \in Nat, NEW r \in Seq(Packets), NEW s \in Seq(Replies),
           Engaged(a, k, r, s), Len(r) <= LineCap, Len(s) <= LineCap,
           s # <<>>, Head(s) = "ACK"
    PROVE  Engaged(a + 1, k, r, Tail(s))
<1>1. LineCap \in Nat \ {0} /\ Tail(s) \in Seq(Replies) /\ Len(Tail(s)) = Len(s) - 1
      /\ Len(s) \in Nat
  BY XmodemAssumption, TailFacts
<1>2. Ahead(a + 1, k, r, Tail(s))
  <2>. SUFFICES ASSUME NEW n \in k .. a + 1
                PROVE  a + 1 - n + Acks(Tail(s)) + Behind(r, n) < 2 * LineCap
    BY DEF Ahead
  <2>1. n \in Nat
    OBVIOUS
  <2>2. Acks(Tail(s)) = Acks(s) - 1
    BY CountTail DEF Acks
  <2>3. Acks(s) \in 0 .. Len(s) /\ Behind(r, n) \in 0 .. Len(r) /\ Len(r) \in Nat
    BY <2>1, CountsAre
  <2>4. CASE n <= a
    <3>1. a - n + Acks(s) + Behind(r, n) < 2 * LineCap
      BY <2>1, <2>4 DEF Engaged, Ahead
    <3>. QED BY <1>1, <2>1, <2>2, <2>3, <3>1
  <2>5. CASE n = a + 1
    BY <1>1, <2>2, <2>3, <2>5
  <2>. QED BY <2>1, <2>4, <2>5
<1>3. SentBefore(a + 1, r)
  <2>. SUFFICES ASSUME NEW i \in 1 .. Len(r), r[i] \in Blocks
                PROVE  Index(r[i]) <= a + 1 \/ Index(r[i]) < LineCap
    BY DEF SentBefore
  <2>1. Index(r[i]) <= a \/ Index(r[i]) < LineCap
    BY DEF Engaged, SentBefore
  <2>2. Index(r[i]) \in Nat
    BY BlockFacts
  <2>. QED BY <2>1, <2>2
<1>4. Recent(a + 1, k, r)
  BY DEF Engaged, Recent
<1>5. Early(a + 1, k, r, Tail(s))
  <2>. SUFFICES ASSUME NEW i \in 0 .. Len(Tail(s)), StartAt(k, Tail(s), i)
                PROVE  /\ k <= LineCap
                       /\ \A j \in 1 .. Len(r) : r[j] \in Blocks => Index(r[j]) < LineCap
                       /\ a + 1 + Acks(SubSeq(Tail(s), 1, i)) < LineCap
    BY DEF Early
  <2>1. /\ i + 1 \in 0 .. Len(s) /\ StartAt(k, s, i + 1)
        /\ Acks(SubSeq(Tail(s), 1, i)) = Acks(SubSeq(s, 1, i + 1)) - 1
        /\ Acks(SubSeq(Tail(s), 1, i)) \in Nat /\ Acks(SubSeq(s, 1, i + 1)) \in Nat
    BY PrefixTail
  <2>2. /\ k <= LineCap
        /\ \A j \in 1 .. Len(r) : r[j] \in Blocks => Index(r[j]) < LineCap
        /\ a + Acks(SubSeq(s, 1, i + 1)) < LineCap
    BY <2>1 DEF Engaged, Early
  <2>. DEFINE x == Acks(SubSeq(Tail(s), 1, i))
              y == Acks(SubSeq(s, 1, i + 1))
  <2>. HIDE DEF x, y
  <2>3. x \in Nat /\ y \in Nat /\ x = y - 1 /\ a + y < LineCap
    BY <2>1, <2>2 DEF x, y
  <2>4. a + 1 + x < LineCap
    BY <1>1, <2>3
  <2>. QED BY <2>2, <2>4 DEF x
<1>. QED BY <1>2, <1>3, <1>4, <1>5 DEF Engaged

\* The port is closed: all replies are gone.
LEMMA RepliesGone ==
    ASSUME NEW a \in Nat, NEW k \in Nat, NEW r \in Seq(Packets), NEW s \in Seq(Replies),
           Engaged(a, k, r, s)
    PROVE  Engaged(a, k, r, <<>>)
<1>1. LineCap \in Nat \ {0} /\ <<>> \in Seq(Replies) /\ Len(<<>>) = 0 /\ Len(s) \in Nat
  BY XmodemAssumption
<1>2. Acks(<<>>) = 0
  <2>1. Acks(<<>>) \in 0 .. Len(<<>>)
    BY <1>1, CountsAre
  <2>. QED BY <1>1, <2>1
<1>3. Ahead(a, k, r, <<>>)
  <2>. SUFFICES ASSUME NEW n \in k .. a
                PROVE  a - n + Acks(<<>>) + Behind(r, n) < 2 * LineCap
    BY DEF Ahead
  <2>1. n \in Nat /\ a - n + Acks(s) + Behind(r, n) < 2 * LineCap
    BY DEF Engaged, Ahead
  <2>2. Acks(s) \in Nat /\ Behind(r, n) \in Nat
    BY <2>1, CountsAre
  <2>. QED BY <1>1, <1>2, <2>1, <2>2
<1>4. Early(a, k, r, <<>>)
  <2>. SUFFICES ASSUME k = 0
                PROVE  /\ k <= LineCap
                       /\ \A j \in 1 .. Len(r) : r[j] \in Blocks => Index(r[j]) < LineCap
                       /\ a + Acks(<<>>) < LineCap
    <3>1. \A i \in 0 .. Len(<<>>) :
              (StartAt(k, <<>>, i) => k = 0) /\ SubSeq(<<>>, 1, i) = <<>>
      BY <1>1 DEF StartAt
    <3>. QED BY <3>1 DEF Early
  <2>1. StartAt(k, s, Len(s)) /\ Len(s) \in 0 .. Len(s)
    BY <1>1 DEF StartAt
  <2>2. /\ k <= LineCap
        /\ \A j \in 1 .. Len(r) : r[j] \in Blocks => Index(r[j]) < LineCap
        /\ a + Acks(SubSeq(s, 1, Len(s))) < LineCap
    BY <2>1 DEF Engaged, Early
  <2>3. SubSeq(s, 1, Len(s)) = s /\ Acks(s) \in Nat
    <3>1. SubSeq(s, 1, Len(s)) = s
      OBVIOUS
    <3>2. Acks(s) \in 0 .. Len(s)
      BY CountType DEF Acks
    <3>. QED BY <3>1, <3>2
  <2>4. a + Acks(s) < LineCap
    BY <2>2, <2>3
  <2>5. a + Acks(<<>>) < LineCap
    BY <1>1, <1>2, <2>3, <2>4
  <2>. QED BY <2>2, <2>5
<1>. QED BY <1>3, <1>4 DEF Engaged

\* The receiver sends something other than an ACK; a request to start only if it has
\* stored nothing.
LEMMA ReplySent ==
    ASSUME NEW a \in Nat, NEW k \in Nat, NEW r \in Seq(Packets), NEW s \in Seq(Replies),
           Engaged(a, k, r, s), NEW e \in Replies, e # "ACK", e = "C" => k = 0
    PROVE  Engaged(a, k, r, Append(s, e))
<1>. DEFINE t == Append(s, e)
<1>1. /\ t \in Seq(Replies) /\ Len(t) = Len(s) + 1 /\ Len(s) \in Nat
      /\ t[Len(s) + 1] = e
  OBVIOUS
<1>2. Acks(t) = Acks(s)
  <2>1. Acks(t) = Acks(s) + (IF e \in {"ACK"} THEN 1 ELSE 0)
    BY CountAppend DEF Acks
  <2>2. Acks(s) \in 0 .. Len(s)
    BY CountType DEF Acks
  <2>. QED BY <1>1, <2>1, <2>2
<1>3. \A i \in 0 .. Len(s) : SubSeq(t, 1, i) = SubSeq(s, 1, i)
  BY PrefixAppend
<1>4. \A i \in 0 .. Len(s) : StartAt(k, t, i) /\ i < Len(s) => StartAt(k, s, i)
  BY PrefixAppend
<1>5. SubSeq(t, 1, Len(s) + 1) = t /\ SubSeq(s, 1, Len(s)) = s
  <2>1. 0 \in 0 .. Len(s)
    BY <1>1
  <2>. QED BY <2>1, PrefixAppend
<1>. HIDE DEF t
<1>6. Ahead(a, k, r, t)
  BY <1>2 DEF Engaged, Ahead
<1>7. Early(a, k, r, t)
  <2>. SUFFICES ASSUME NEW i \in 0 .. Len(t), StartAt(k, t, i)
                PROVE  /\ k <= LineCap
                       /\ \A j \in 1 .. Len(r) : r[j] \in Blocks => Index(r[j]) < LineCap
                       /\ a + Acks(SubSeq(t, 1, i)) < LineCap
    BY DEF Early
  <2>1. CASE i < Len(s)
    <3>1. i \in 0 .. Len(s) /\ StartAt(k, s, i) /\ SubSeq(t, 1, i) = SubSeq(s, 1, i)
      BY <1>1, <1>3, <1>4, <2>1
    <3>. QED BY <3>1 DEF Engaged, Early
  <2>2. CASE i >= Len(s)
    <3>1. i = Len(s) \/ i = Len(s) + 1
      BY <1>1, <2>2
    <3>2. k = 0
      BY <1>1, <3>1 DEF StartAt
    <3>3. Len(s) \in 0 .. Len(s) /\ StartAt(k, s, Len(s))
      BY <1>1, <3>2 DEF StartAt
    <3>4. /\ k <= LineCap
          /\ \A j \in 1 .. Len(r) : r[j] \in Blocks => Index(r[j]) < LineCap
          /\ a + Acks(SubSeq(s, 1, Len(s))) < LineCap
      BY <3>3 DEF Engaged, Early
    <3>5. SubSeq(t, 1, Len(s)) = s
      BY <1>3, <1>5, <3>3
    <3>6. Acks(SubSeq(t, 1, i)) = Acks(s)
      BY <1>2, <1>5, <3>1, <3>5
    <3>. QED BY <1>5, <3>4, <3>6
  <2>. QED BY <1>1, <2>1, <2>2
<1>. QED BY <1>6, <1>7 DEF Engaged, t

\* A packet is gone.
LEMMA PacketGone ==
    ASSUME NEW a \in Nat, NEW k \in Nat, NEW r \in Seq(Packets), NEW s \in Seq(Replies),
           Engaged(a, k, r, s), r # <<>>
    PROVE  Engaged(a, k, Tail(r), s)
<1>. DEFINE q == Tail(r)
<1>1. /\ q \in Seq(Packets) /\ Len(q) = Len(r) - 1 /\ Len(r) \in Nat \ {0}
      /\ \A i \in 1 .. Len(q) : q[i] = r[i + 1]
      /\ LineCap \in Nat \ {0}
  BY TailFacts, XmodemAssumption
<1>2. Ahead(a, k, q, s)
  <2>. SUFFICES ASSUME NEW n \in k .. a
                PROVE  a - n + Acks(s) + Behind(q, n) < 2 * LineCap
    BY DEF Ahead
  <2>1. n \in Nat
    OBVIOUS
  <2>2. a - n + Acks(s) + Behind(r, n) < 2 * LineCap
    BY DEF Engaged, Ahead
  <2>. DEFINE T == {b \in Blocks : Index(b) < n}
  <2>. HIDE DEF T
  <2>3. Count(q, T) = Count(r, T) - (IF Head(r) \in T THEN 1 ELSE 0)
    BY CountTail
  <2>4. Acks(s) \in Nat /\ Behind(r, n) \in Nat
    BY <2>1, CountsAre
  <2>5. Behind(q, n) = Behind(r, n) - (IF Head(r) \in T THEN 1 ELSE 0)
    BY <2>3 DEF Behind, T
  <2>. QED BY <1>1, <2>1, <2>2, <2>4, <2>5
<1>. HIDE DEF q
<1>3. \A i \in 1 .. Len(q) : i + 1 \in 1 .. Len(r) /\ q[i] = r[i + 1]
  BY <1>1
<1>4. SentBefore(a, q)
  BY <1>3 DEF Engaged, SentBefore
<1>5. Ordered(q)
  <2>. SUFFICES ASSUME NEW i \in 1 .. Len(q), NEW j \in 1 .. Len(q), i < j,
                       q[i] \in Blocks, q[j] \in Blocks, Index(q[i]) >= LineCap
                PROVE  Index(q[i]) <= Index(q[j])
    BY DEF Ordered
  <2>1. /\ i + 1 \in 1 .. Len(r) /\ j + 1 \in 1 .. Len(r) /\ i + 1 < j + 1
        /\ q[i] = r[i + 1] /\ q[j] = r[j + 1]
    BY <1>3
  <2>. QED BY <2>1 DEF Engaged, Ordered
<1>6. Recent(a, k, q)
  BY <1>3 DEF Engaged, Recent
<1>7. Early(a, k, q, s)
  BY <1>3 DEF Engaged, Early
<1>. QED BY <1>2, <1>4, <1>5, <1>6, <1>7 DEF Engaged, q

LEMMA DamagedFirst ==
    ASSUME NEW r \in Seq(Packets), NEW q, q = [r EXCEPT ![1] = Damaged]
    PROVE  /\ q \in Seq(Packets) /\ Len(q) = Len(r) /\ Len(r) \in Nat
           /\ \A i \in 1 .. Len(r) : q[i] = r[i] \/ q[i] = Damaged
<1>. DEFINE p == [r EXCEPT ![1] = Damaged]
<1>1. p \in Seq(Packets) /\ Len(p) = Len(r) /\ Len(r) \in Nat
  <2>1. Damaged \in Packets
    BY DEF Packets
  <2>2. Len(r) \in Nat /\ r \in [1 .. Len(r) -> Packets]
    OBVIOUS
  <2>. DEFINE n == Len(r)
  <2>. HIDE DEF n
  <2>3. p \in [1 .. n -> Packets]
    BY <2>1, <2>2 DEF n
  <2>. HIDE DEF p
  <2>4. p \in Seq(Packets) /\ Len(p) = n
    BY <2>2, <2>3 DEF n
  <2>. QED BY <2>2, <2>4 DEF n
<1>2. \A i \in 1 .. Len(r) : p[i] = r[i] \/ p[i] = Damaged
  OBVIOUS
<1>. HIDE DEF p
<1>3. q = p
  BY Zenon DEF p
<1>. QED BY <1>1, <1>2, <1>3, Zenon

\* A packet becomes damaged.
LEMMA PacketDamaged ==
    ASSUME NEW a \in Nat, NEW k \in Nat, NEW r \in Seq(Packets), NEW s \in Seq(Replies),
           Engaged(a, k, r, s), r # <<>>
    PROVE  Engaged(a, k, [r EXCEPT ![1] = Damaged], s)
<1>. DEFINE q == [r EXCEPT ![1] = Damaged]
<1>1. /\ q \in Seq(Packets) /\ Len(q) = Len(r) /\ Len(r) \in Nat
      /\ LineCap \in Nat \ {0}
  BY XmodemAssumption, DamagedFirst
<1>2. \A i \in 1 .. Len(q) : i \in 1 .. Len(r) /\ (q[i] \in Blocks => q[i] = r[i])
  BY <1>1, NotBlocks, DamagedFirst
<1>. HIDE DEF q
<1>3. Ahead(a, k, q, s)
  <2>. SUFFICES ASSUME NEW n \in k .. a
                PROVE  a - n + Acks(s) + Behind(q, n) < 2 * LineCap
    BY DEF Ahead
  <2>1. n \in Nat
    OBVIOUS
  <2>2. a - n + Acks(s) + Behind(r, n) < 2 * LineCap
    BY DEF Engaged, Ahead
  <2>3. Behind(q, n) <= Behind(r, n)
    <3>. DEFINE T == {b \in Blocks : Index(b) < n}
    <3>1. \A i \in 1 .. Len(q) : q[i] \in T => i \in 1 .. Len(r) /\ r[i] \in T
      BY <1>2
    <3>. HIDE DEF T
    <3>2. Count(q, T) <= Count(r, T)
      BY <1>1, <3>1, CountLess
    <3>. QED BY <3>2 DEF Behind, T
  <2>4. Acks(s) \in Nat /\ Behind(r, n) \in Nat /\ Behind(q, n) \in Nat
    BY <1>1, <2>1, CountsAre
  <2>. QED BY <1>1, <2>1, <2>2, <2>3, <2>4
<1>4. SentBefore(a, q)
  BY <1>2 DEF Engaged, SentBefore
<1>5. Ordered(q)
  BY <1>2 DEF Engaged, Ordered
<1>6. Recent(a, k, q)
  BY <1>2 DEF Engaged, Recent
<1>7. Early(a, k, q, s)
  BY <1>2 DEF Engaged, Early
<1>. QED BY <1>3, <1>4, <1>5, <1>6, <1>7 DEF Engaged, q

\* The sender sends the block it is at, or something that is no block.
LEMMA PacketSent ==
    ASSUME NEW a \in Nat, NEW k \in Nat, NEW r \in Seq(Packets), NEW s \in Seq(Replies),
           Engaged(a, k, r, s), NEW p \in Packets, p \in Blocks => Index(p) = a
    PROVE  Engaged(a, k, Append(r, p), s)
<1>. DEFINE q == Append(r, p)
<1>1. /\ q \in Seq(Packets) /\ Len(q) = Len(r) + 1 /\ Len(r) \in Nat
      /\ LineCap \in Nat \ {0}
      /\ \A i \in 1 .. Len(r) : q[i] = r[i]
      /\ q[Len(r) + 1] = p
  BY XmodemAssumption
<1>2. Ahead(a, k, q, s)
  <2>. SUFFICES ASSUME NEW n \in k .. a
                PROVE  a - n + Acks(s) + Behind(q, n) < 2 * LineCap
    BY DEF Ahead
  <2>1. a - n + Acks(s) + Behind(r, n) < 2 * LineCap
    BY DEF Engaged, Ahead
  <2>. DEFINE T == {b \in Blocks : Index(b) < n}
  <2>2. p \notin T
    OBVIOUS
  <2>. HIDE DEF T
  <2>3. Count(q, T) = Count(r, T) + (IF p \in T THEN 1 ELSE 0)
    BY CountAppend
  <2>4. Count(r, T) \in 0 .. Len(r)
    BY CountType
  <2>5. Behind(q, n) = Behind(r, n)
    BY <1>1, <2>2, <2>3, <2>4 DEF Behind, T
  <2>. QED BY <2>1, <2>5
<1>. HIDE DEF q
<1>3. \A i \in 1 .. Len(q) :
          \/ i \in 1 .. Len(r) /\ q[i] = r[i]
          \/ i = Len(r) + 1 /\ q[i] = p
  BY <1>1
<1>4. SentBefore(a, q)
  BY <1>3 DEF Engaged, SentBefore
<1>5. Ordered(q)
  <2>. SUFFICES ASSUME NEW i \in 1 .. Len(q), NEW j \in 1 .. Len(q), i < j,
                       q[i] \in Blocks, q[j] \in Blocks, Index(q[i]) >= LineCap
                PROVE  Index(q[i]) <= Index(q[j])
    BY DEF Ordered
  <2>1. i \in 1 .. Len(r) /\ q[i] = r[i]
    BY <1>1, <1>3
  <2>2. CASE j \in 1 .. Len(r) /\ q[j] = r[j]
    BY <2>1, <2>2 DEF Engaged, Ordered
  <2>3. CASE q[j] = p
    <3>1. Index(r[i]) <= a \/ Index(r[i]) < LineCap
      BY <2>1 DEF Engaged, SentBefore
    <3>2. Index(q[i]) \in Nat
      BY BlockFacts
    <3>. QED BY <1>1, <2>1, <2>3, <3>1, <3>2
  <2>. QED BY <1>3, <2>2, <2>3
<1>6. Recent(a, k, q)
  <2>. SUFFICES ASSUME k > LineCap, NEW i \in 1 .. Len(q), q[i] \in Blocks
                PROVE  k - 1 <= a /\ k - 1 <= Index(q[i])
    <3>1. k > LineCap => k - 1 <= a
      BY DEF Engaged, Recent
    <3>. QED BY <3>1 DEF Recent
  <2>. QED BY <1>3 DEF Engaged, Recent
<1>7. Early(a, k, q, s)
  <2>. SUFFICES ASSUME NEW i \in 0 .. Len(s), StartAt(k, s, i)
                PROVE  \A j \in 1 .. Len(q) : q[j] \in Blocks => Index(q[j]) < LineCap
    BY DEF Engaged, Early
  <2>1. /\ \A j \in 1 .. Len(r) : r[j] \in Blocks => Index(r[j]) < LineCap
        /\ a + Acks(SubSeq(s, 1, i)) < LineCap
    BY DEF Engaged, Early
  <2>. DEFINE y == Acks(SubSeq(s, 1, i))
  <2>2. y \in Nat
    <3>1. SubSeq(s, 1, i) \in Seq(Replies) /\ Len(SubSeq(s, 1, i)) = i
      OBVIOUS
    <3>2. y \in 0 .. Len(SubSeq(s, 1, i))
      BY <3>1, CountType DEF Acks
    <3>. QED BY <3>1, <3>2
  <2>. HIDE DEF y
  <2>3. a < LineCap
    BY <1>1, <2>1, <2>2 DEF y
  <2>. QED BY <1>3, <2>1, <2>3
<1>. QED BY <1>2, <1>4, <1>5, <1>6, <1>7 DEF Engaged, q

\* A block at the head of the line is fewer blocks away from the one the receiver waits
\* for than the lines hold, so its number tells which block it is.
LEMMA HeadIsNear ==
    ASSUME NEW a \in Nat, NEW k \in Nat, NEW r \in Seq(Packets), NEW s \in Seq(Replies),
           Engaged(a, k, r, s), r # <<>>, Head(r) \in Blocks
    PROVE  /\ Index(Head(r)) \in Nat
           /\ Index(Head(r)) - k < 2 * LineCap /\ k - Index(Head(r)) <= LineCap
<1>. DEFINE p == Index(Head(r))
<1>1. p \in Nat /\ LineCap \in Nat \ {0}
  BY BlockFacts, XmodemAssumption
<1>2. 1 \in 1 .. Len(r) /\ r[1] = Head(r)
  BY TailFacts
<1>3. p <= a \/ p < LineCap
  BY <1>2 DEF Engaged, SentBefore
<1>4. k > LineCap => k - 1 <= p
  BY <1>2 DEF Engaged, Recent
<1>5. k <= a => a - k < 2 * LineCap
  <2>. SUFFICES ASSUME k <= a PROVE a - k < 2 * LineCap
    OBVIOUS
  <2>1. k \in k .. a
    OBVIOUS
  <2>2. a - k + Acks(s) + Behind(r, k) < 2 * LineCap
    BY <2>1 DEF Engaged, Ahead
  <2>3. Acks(s) \in Nat /\ Behind(r, k) \in Nat
    BY CountsAre
  <2>. QED BY <1>1, <2>2, <2>3
<1>. HIDE DEF p
<1>6. p - k < 2 * LineCap /\ k - p <= LineCap
  BY <1>1, <1>3, <1>4, <1>5
<1>. QED BY <1>1, <1>6 DEF p

\* Replies with an ACK behind them, if it is not lost
LEMMA AckSent ==
    ASSUME NEW s \in Seq(Replies), NEW t, t = s \/ t = Append(s, "ACK"),
           NEW k \in Nat, NEW m \in Nat \ {0}
    PROVE  /\ t \in Seq(Replies)
           /\ Acks(t) \in Nat /\ Acks(s) \in Nat /\ Acks(t) <= Acks(s) + 1
           /\ \A i \in 0 .. Len(t) : StartAt(m, t, i) =>
                 i \in 0 .. Len(s) /\ StartAt(k, s, i) /\ SubSeq(t, 1, i) = SubSeq(s, 1, i)
<1>1. Acks(s) \in Nat /\ Len(s) \in Nat /\ "ACK" \in Replies
  <2>1. Acks(s) \in 0 .. Len(s)
    BY CountType DEF Acks
  <2>. QED BY <2>1 DEF Replies
<1>2. CASE t = s
  BY <1>1, <1>2 DEF StartAt
<1>3. CASE t = Append(s, "ACK")
  <2>1. /\ t \in Seq(Replies) /\ Len(t) = Len(s) + 1 /\ t[Len(s) + 1] = "ACK"
        /\ \A i \in 1 .. Len(s) : t[i] = s[i]
    BY <1>1, <1>3
  <2>2. Acks(t) = Acks(s) + 1
    <3>1. Count(t, {"ACK"}) = Count(s, {"ACK"}) + (IF "ACK" \in {"ACK"} THEN 1 ELSE 0)
      BY <1>1, <1>3, CountAppend
    <3>. QED BY <1>1, <3>1 DEF Acks
  <2>3. ASSUME NEW i \in 0 .. Len(t), StartAt(m, t, i)
        PROVE  i \in 0 .. Len(s) /\ StartAt(k, s, i) /\ SubSeq(t, 1, i) = SubSeq(s, 1, i)
    <3>1. i < Len(t) /\ t[i + 1] = "C"
      BY <2>3 DEF StartAt
    <3>2. i < Len(s) /\ s[i + 1] = "C"
      BY <1>1, <2>1, <3>1
    <3>3. i \in 0 .. Len(s) /\ StartAt(k, s, i)
      BY <1>1, <3>2 DEF StartAt
    <3>4. SubSeq(t, 1, i) = SubSeq(s, 1, i)
      BY <1>1, <1>3, <3>3, PrefixAppend
    <3>. QED BY <3>3, <3>4
  <2>. QED BY <1>1, <2>1, <2>2, <2>3
<1>. QED BY <1>2, <1>3

\* The receiver takes a block and sends an ACK. After that, the block is the last one
\* that is stored: the receiver stores it (m is k + 1), or had it already (m is k).
LEMMA BlockAnswered ==
    ASSUME NEW a \in Nat, NEW k \in Nat, NEW r \in Seq(Packets), NEW s \in Seq(Replies),
           Engaged(a, k, r, s), r # <<>>, Head(r) \in Blocks,
           NEW m \in {k, k + 1}, Index(Head(r)) = m - 1,
           NEW t, t = s \/ t = Append(s, "ACK")
    PROVE  Engaged(a, m, Tail(r), t)
<1>. DEFINE q == Tail(r)
<1>1. /\ q \in Seq(Packets) /\ Len(q) = Len(r) - 1 /\ Len(r) \in Nat \ {0}
      /\ \A i \in 1 .. Len(q) : q[i] = r[i + 1]
      /\ LineCap \in Nat \ {0} /\ Head(r) = r[1]
  BY TailFacts, XmodemAssumption
<1>2. m \in Nat \ {0} /\ k <= m
  <2>1. Index(Head(r)) \in Nat
    BY BlockFacts
  <2>. QED BY <2>1
<1>3. /\ t \in Seq(Replies)
      /\ Acks(t) \in Nat /\ Acks(s) \in Nat /\ Acks(t) <= Acks(s) + 1
      /\ \A i \in 0 .. Len(t) : StartAt(m, t, i) =>
            i \in 0 .. Len(s) /\ StartAt(k, s, i) /\ SubSeq(t, 1, i) = SubSeq(s, 1, i)
  BY <1>2, AckSent
<1>4. Engaged(a, k, q, s)
  BY PacketGone
<1>5. Ahead(a, m, q, t)
  <2>. SUFFICES ASSUME NEW n \in m .. a
                PROVE  a - n + Acks(t) + Behind(q, n) < 2 * LineCap
    BY DEF Ahead
  <2>1. n \in Nat /\ n \in k .. a
    BY <1>2
  <2>2. a - n + Acks(s) + Behind(r, n) < 2 * LineCap
    BY <2>1 DEF Engaged, Ahead
  <2>. DEFINE T == {b \in Blocks : Index(b) < n}
  <2>3. Head(r) \in T
    BY <1>2
  <2>. HIDE DEF T
  <2>4. Count(q, T) = Count(r, T) - (IF Head(r) \in T THEN 1 ELSE 0)
    BY CountTail
  <2>5. Behind(r, n) \in Nat
    BY <2>1, CountsAre
  <2>6. Behind(q, n) = Behind(r, n) - 1
    BY <2>3, <2>4 DEF Behind, T
  <2>. DEFINE u == Acks(t)
              v == Acks(s)
              w == Behind(r, n)
              x == Behind(q, n)
  <2>. HIDE DEF u, v, w, x
  <2>7. u \in Nat /\ v \in Nat /\ w \in Nat /\ x = w - 1 /\ u <= v + 1
        /\ a - n + v + w < 2 * LineCap
    BY <1>3, <2>2, <2>5, <2>6 DEF u, v, w, x
  <2>8. a - n + u + x < 2 * LineCap
    BY <1>1, <2>1, <2>7
  <2>. QED BY <2>8 DEF u, x
<1>6. Recent(a, m, q)
  <2>1. CASE m = k
    BY <1>4, <2>1 DEF Engaged
  <2>2. CASE m = k + 1 /\ k >= LineCap
    <3>1. 1 \in 1 .. Len(r) /\ r[1] \in Blocks /\ Index(r[1]) = k
      BY <1>1, <2>2
    <3>2. k <= a
      BY <1>1, <2>2, <3>1 DEF Engaged, SentBefore
    <3>3. ASSUME NEW i \in 1 .. Len(q), q[i] \in Blocks PROVE k <= Index(q[i])
      <4>1. i + 1 \in 1 .. Len(r) /\ r[i + 1] = q[i] /\ 1 < i + 1
        BY <1>1
      <4>. QED BY <2>2, <3>1, <3>3, <4>1 DEF Engaged, Ordered
    <3>. QED BY <2>2, <3>2, <3>3 DEF Recent
  <2>3. CASE m = k + 1 /\ ~(k >= LineCap)
    BY <1>1, <2>3 DEF Recent
  <2>. QED BY <2>1, <2>2, <2>3
<1>7. Early(a, m, q, t)
  <2>. SUFFICES ASSUME NEW i \in 0 .. Len(t), StartAt(m, t, i)
                PROVE  /\ m <= LineCap
                       /\ \A j \in 1 .. Len(q) : q[j] \in Blocks => Index(q[j]) < LineCap
                       /\ a + Acks(SubSeq(t, 1, i)) < LineCap
    BY DEF Early
  <2>1. i \in 0 .. Len(s) /\ StartAt(k, s, i) /\ SubSeq(t, 1, i) = SubSeq(s, 1, i)
    BY <1>3
  <2>2. /\ \A j \in 1 .. Len(q) : q[j] \in Blocks => Index(q[j]) < LineCap
        /\ a + Acks(SubSeq(s, 1, i)) < LineCap
    BY <1>4, <2>1 DEF Engaged, Early
  <2>3. Index(Head(r)) < LineCap
    <3>1. 1 \in 1 .. Len(r)
      BY <1>1
    <3>. QED BY <1>1, <2>1, <3>1 DEF Engaged, Early
  <2>4. m <= LineCap
    BY <1>1, <1>2, <2>3
  <2>. QED BY <2>1, <2>2, <2>4
<1>. HIDE DEF q
<1>8. SentBefore(a, q) /\ Ordered(q)
  BY <1>4 DEF Engaged
<1>. QED BY <1>5, <1>6, <1>7, <1>8 DEF Engaged, q

-----------------------------------------------------------------------------
(* The inductive invariant when something is late. *)

\* The number of the block that the sender is at, and its extent
SenderCounts ==
    /\ blockNum = NumOf(Acknowledged)
    /\ pc \in {"data", "write", "ack"} => offset = Bytes(Acknowledged)
    /\ pc \in {"write", "ack"} => len = RequestLen

\* The number of the block that the receiver waits for
ReceiverCounts == Len(image) = Bytes(Stored) /\ expected = NumOf(Stored)

\* A block in transit, of this or of an earlier transfer, is one of the file.
BlocksAre ==
    \A i \in 1 .. Len(toReceiver) : toReceiver[i] \in Blocks =>
        LET b == toReceiver[i]
        IN  /\ b.from = Bytes(Index(b)) /\ b.num = NumOf(Index(b))
            /\ b.len = BlockSize \/ b.from + b.len = FileLen

LineHolds == Len(toReceiver) <= LineCap /\ Len(toSender) <= LineCap

\* The receiver waits for the first block, and the sender has not begun.
Fresh == pc \in {"idle", "start"} /\ Stored = 0 /\ toReceiver = <<>>

Apart == receiving => Fresh \/ Engaged(Acknowledged, Stored, toReceiver, toSender)

LateInv ==
    /\ TypeOK
    /\ SenderCounts /\ ReceiverCounts /\ ReceiverHasPrefix
    /\ BlocksAre /\ LineHolds /\ Apart

LEMMA CountsInNat ==
    ASSUME TypeOK
    PROVE  Acknowledged \in Nat /\ Stored \in Nat
<1>1. /\ offset + BlockSize - 1 \in Nat /\ Len(image) \in Nat /\ BlockSize \in Nat \ {0}
  BY XmodemAssumption DEF TypeOK
<1>. QED BY <1>1, Division DEF Acknowledged, Stored

\* An item is put on the line, or lost.
LEMMA WithIs ==
    ASSUME NEW S, NEW s \in Seq(S), NEW e \in S, Len(s) <= LineCap
    PROVE  /\ With(s, e) = s \/ With(s, e) = Append(s, e)
           /\ Len(With(s, e)) <= LineCap
BY XmodemAssumption DEF With

LEMMA SenderKept ==
    ASSUME SenderCounts, offset' = offset, blockNum' = blockNum,
           pc' \in {"data", "write", "ack"} => pc \in {"data", "write", "ack"},
           pc' \in {"write", "ack"} =>
               len' = RequestLen \/ (pc \in {"write", "ack"} /\ len' = len)
    PROVE  SenderCounts' /\ Acknowledged' = Acknowledged
<1>1. Acknowledged' = Acknowledged /\ RequestLen' = RequestLen
  BY DEF Acknowledged, RequestLen
<1>. QED BY <1>1 DEF SenderCounts

LEMMA ReceiverKept ==
    ASSUME ReceiverCounts, ReceiverHasPrefix, expected' = expected, image' = image
    PROVE  ReceiverCounts' /\ ReceiverHasPrefix' /\ Stored' = Stored
BY DEF ReceiverCounts, ReceiverHasPrefix, Stored

\* The steps of the sender that write nothing and read nothing.
LEMMA LateLocalSteps ==
    ASSUME LateInv, TypeOK', FullReads,
           \/ Open \/ Send \/ StartTimeout \/ GetData \/ GetDataFails
           \/ GiveUp \/ AckTimeout \/ WriteEotFails \/ EotTimeout
    PROVE  LateInv'
<1>. USE DEF LateInv
<1>1. /\ toReceiver' = toReceiver /\ toSender' = toSender /\ receiving' = receiving
      /\ expected' = expected /\ image' = image
      /\ offset' = offset /\ blockNum' = blockNum
  BY DEF Open, Send, StartTimeout, GetData, GetDataFails, GiveUp, AckTimeout,
         WriteEotFails, EotTimeout, LineUnchanged, WaitIsOver, receiver, Return, NextTry
<1>2. /\ pc' \in {"data", "write", "ack"} => pc \in {"data", "write", "ack"}
      /\ pc \in {"idle", "start"} => pc' \in {"idle", "start"}
      /\ pc' \in {"write", "ack"} =>
            len' = RequestLen \/ (pc \in {"write", "ack"} /\ len' = len)
  <2>1. CASE GetData
    BY <2>1 DEF GetData, FullReads
  <2>2. CASE AckTimeout
    BY <2>2 DEF AckTimeout, NextTry
  <2>3. CASE Open \/ Send \/ StartTimeout \/ GetDataFails \/ GiveUp \/ WriteEotFails \/ EotTimeout
    BY <2>3 DEF Open, Send, StartTimeout, GetDataFails, GiveUp, WriteEotFails, EotTimeout,
                Return
  <2>. QED BY <2>1, <2>2, <2>3
<1>3. SenderCounts' /\ Acknowledged' = Acknowledged
  BY <1>1, <1>2, SenderKept
<1>4. ReceiverCounts' /\ ReceiverHasPrefix' /\ Stored' = Stored
  BY <1>1, ReceiverKept
<1>5. BlocksAre' /\ LineHolds'
  BY <1>1 DEF BlocksAre, LineHolds
<1>6. Apart'
  BY <1>1, <1>2, <1>3, <1>4 DEF Apart, Fresh
<1>. QED BY <1>3, <1>4, <1>5, <1>6

\* Replies that are lost, or read without effect on what is acknowledged.
LEMMA LateReadSteps ==
    ASSUME LateInv, TypeOK',
           \/ Close \/ StartNak \/ StartCan \/ StartOther \/ Nacked \/ Cancelled
           \/ OtherReply \/ EotAcked \/ EotOther \/ LoseReply
    PROVE  LateInv'
<1>. USE DEF LateInv
<1>1. /\ toSender' = <<>> \/ (toSender # <<>> /\ toSender' = Tail(toSender))
      /\ toReceiver' = toReceiver /\ receiving' = receiving
      /\ expected' = expected /\ image' = image
      /\ offset' = offset /\ blockNum' = blockNum /\ len' = len
      /\ pc' = pc \/ pc' = "idle" \/ (pc = "ack" /\ pc' = "write")
  BY DEF Close, StartNak, StartCan, StartOther, Nacked, Cancelled, OtherReply, EotAcked,
         EotOther, LoseReply, Read, Return, NextTry, sender, receiver
<1>2. SenderCounts' /\ Acknowledged' = Acknowledged
  BY <1>1, SenderKept
<1>3. ReceiverCounts' /\ ReceiverHasPrefix' /\ Stored' = Stored
  BY <1>1, ReceiverKept
<1>4. /\ toReceiver \in Seq(Packets) /\ toSender \in Seq(Replies)
      /\ Acknowledged \in Nat /\ Stored \in Nat /\ LineCap \in Nat
  BY CountsInNat, XmodemAssumption DEF TypeOK
<1>5. BlocksAre' /\ LineHolds'
  <2>1. toSender # <<>> => Len(Tail(toSender)) = Len(toSender) - 1 /\ Len(toSender) \in Nat
    BY <1>4, TailFacts
  <2>2. Len(<<>>) = 0
    OBVIOUS
  <2>. QED BY <1>1, <1>4, <2>1, <2>2 DEF BlocksAre, LineHolds
<1>6. Apart'
  <2>1. Engaged(Acknowledged, Stored, toReceiver, toSender) =>
            Engaged(Acknowledged, Stored, toReceiver, toSender')
    BY <1>1, <1>4, ReplyGone, RepliesGone
  <2>2. Fresh => Fresh'
    BY <1>1, <1>3 DEF Fresh
  <2>. QED BY <1>1, <1>2, <1>3, <2>1, <2>2 DEF Apart
<1>. QED BY <1>2, <1>3, <1>5, <1>6

\* The sender reads a request to start.
LEMMA LateStartStep ==
    ASSUME LateInv, TypeOK', StartC
    PROVE  LateInv'
<1>. USE DEF LateInv
<1>1. /\ toSender # <<>> /\ Head(toSender) = "C" /\ toSender' = Tail(toSender)
      /\ toReceiver' = toReceiver /\ receiving' = receiving
      /\ expected' = expected /\ image' = image
      /\ offset' = 0 /\ blockNum' = 1 /\ pc' = "data"
  BY DEF StartC, Read, receiver
<1>2. /\ toReceiver \in Seq(Packets) /\ toSender \in Seq(Replies)
      /\ Acknowledged \in Nat /\ Stored \in Nat /\ LineCap \in Nat
      /\ BlockSize \in Nat \ {0}
  BY CountsInNat, XmodemAssumption DEF TypeOK
<1>3. Acknowledged' = 0
  <2>1. Bytes(0) = 0 /\ (Bytes(0) + BlockSize - 1) \div BlockSize = 0
    BY BytesFacts
  <2>. QED BY <1>1, <2>1 DEF Acknowledged
<1>4. SenderCounts'
  <2>1. NumOf(0) = 1 /\ Bytes(0) = 0
    BY NumOfFacts, BytesFacts
  <2>. QED BY <1>1, <1>3, <2>1 DEF SenderCounts
<1>5. ReceiverCounts' /\ ReceiverHasPrefix' /\ Stored' = Stored
  BY <1>1, ReceiverKept
<1>6. /\ Len(toSender) \in Nat /\ Len(Tail(toSender)) = Len(toSender) - 1
      /\ Tail(toSender) \in Seq(Replies)
  BY <1>1, <1>2, TailFacts
<1>7. BlocksAre' /\ LineHolds'
  BY <1>1, <1>2, <1>6 DEF BlocksAre, LineHolds
<1>8. Engaged(Acknowledged, Stored, toReceiver, toSender) =>
          Engaged(0, Stored, toReceiver, Tail(toSender))
  BY <1>1, <1>2, BeginsAgain DEF LineHolds
<1>9. Engaged(0, 0, <<>>, Tail(toSender))
  <2>1. Len(Tail(toSender)) < LineCap
    BY <1>2, <1>6 DEF LineHolds
  <2>. HIDE DEF LateInv
  <2>. QED BY <1>6, <2>1, Begins
<1>10. Apart'
  BY <1>1, <1>3, <1>5, <1>8, <1>9 DEF Apart, Fresh
<1>. QED BY <1>4, <1>5, <1>7, <1>10

\* The sender reads an ACK.
LEMMA LateAckStep ==
    ASSUME LateInv, TypeOK', Acked
    PROVE  LateInv'
<1>. USE DEF LateInv
<1>1. /\ pc = "ack"
      /\ toSender # <<>> /\ Head(toSender) = "ACK" /\ toSender' = Tail(toSender)
      /\ toReceiver' = toReceiver /\ receiving' = receiving
      /\ expected' = expected /\ image' = image
      /\ offset' = offset + len /\ blockNum' = NextNum(blockNum)
      /\ pc' = IF offset + len < FileLen THEN "data" ELSE "eot"
  BY DEF Acked, Read, receiver
<1>2. /\ toReceiver \in Seq(Packets) /\ toSender \in Seq(Replies)
      /\ Acknowledged \in Nat /\ Stored \in Nat /\ LineCap \in Nat
      /\ BlockSize \in Nat \ {0} /\ offset \in 0 .. FileLen /\ FileLen \in Nat
  BY CountsInNat, XmodemAssumption DEF TypeOK
<1>3. offset = Bytes(Acknowledged) /\ blockNum = NumOf(Acknowledged) /\ len = RequestLen
  BY <1>1 DEF SenderCounts
<1>4. len \in 1 .. BlockSize /\ (offset + len < FileLen => len = BlockSize)
  <2>1. len \in 1 .. RequestLen
    BY <1>1 DEF TypeOK
  <2>. QED BY <1>2, <1>3, <2>1, RequestLenFacts
<1>5. Acknowledged' = Acknowledged + 1
  <2>1. (Bytes(Acknowledged) + len + BlockSize - 1) \div BlockSize = Acknowledged + 1
    BY <1>2, <1>4, BytesFacts
  <2>. QED BY <1>1, <1>3, <2>1 DEF Acknowledged
<1>6. SenderCounts'
  <2>1. NextNum(NumOf(Acknowledged)) = NumOf(Acknowledged + 1)
    BY <1>2, NumOfFacts
  <2>2. Bytes(Acknowledged + 1) = Bytes(Acknowledged) + BlockSize
    BY <1>2, BytesFacts
  <2>3. blockNum' = NumOf(Acknowledged')
    BY <1>1, <1>3, <1>5, <2>1
  <2>4. pc' = "data" => offset' = Bytes(Acknowledged')
    BY <1>1, <1>3, <1>4, <1>5, <2>2
  <2>. QED BY <1>1, <2>3, <2>4 DEF SenderCounts
<1>7. ReceiverCounts' /\ ReceiverHasPrefix' /\ Stored' = Stored
  BY <1>1, ReceiverKept
<1>8. /\ Len(toSender) \in Nat /\ Len(Tail(toSender)) = Len(toSender) - 1
  BY <1>1, <1>2, TailFacts
<1>9. BlocksAre' /\ LineHolds'
  BY <1>1, <1>2, <1>8 DEF BlocksAre, LineHolds
<1>10. Engaged(Acknowledged, Stored, toReceiver, toSender) =>
           Engaged(Acknowledged + 1, Stored, toReceiver, Tail(toSender))
  BY <1>1, <1>2, AckRead DEF LineHolds
<1>11. Apart'
  BY <1>1, <1>5, <1>7, <1>10 DEF Apart, Fresh
<1>. QED BY <1>6, <1>7, <1>9, <1>11

\* The sender writes something.
LEMMA LateWriteSteps ==
    ASSUME LateInv, TypeOK', WriteBlock \/ WriteBlockFails \/ WriteEot
    PROVE  LateInv'
<1>. USE DEF LateInv
<1>1. /\ toReceiver \in Seq(Packets) /\ toSender \in Seq(Replies)
      /\ Acknowledged \in Nat /\ Stored \in Nat /\ LineCap \in Nat
      /\ BlockSize \in Nat \ {0} /\ offset \in 0 .. FileLen /\ FileLen \in Nat
  BY CountsInNat, XmodemAssumption DEF TypeOK
<1>2. /\ toSender' = toSender /\ receiving' = receiving
      /\ expected' = expected /\ image' = image
      /\ offset' = offset /\ blockNum' = blockNum /\ len' = len
      /\ pc \in {"write", "eot"}
      /\ pc = "eot" => pc' = "eotAck"
  BY DEF WriteBlock, WriteBlockFails, WriteEot, NextTry, receiver
<1>3. Damaged \in Packets /\ Eot \in Packets /\ Damaged \notin Blocks /\ Eot \notin Blocks
  BY NotBlocks DEF Packets
<1>4. ASSUME pc = "write"
      PROVE  /\ Block \in Blocks /\ Block.from = offset /\ Index(Block) = Acknowledged
             /\ Block.num = NumOf(Acknowledged) /\ Block.from = Bytes(Acknowledged)
             /\ Block.len = BlockSize \/ Block.from + Block.len = FileLen
  <2>1. /\ offset = Bytes(Acknowledged) /\ blockNum = NumOf(Acknowledged)
        /\ len = RequestLen
    BY <1>4 DEF SenderCounts
  <2>2. len \in 1 .. RequestLen
    BY <1>4 DEF TypeOK
  <2>3. /\ RequestLen \in 0 .. BlockSize /\ offset + RequestLen <= FileLen
        /\ RequestLen < BlockSize => offset + RequestLen = FileLen
    BY <1>1, RequestLenFacts
  <2>4. blockNum \in Numbers
    BY DEF TypeOK
  <2>5. Block \in Blocks
    BY <1>1, <2>1, <2>2, <2>3, <2>4 DEF Block, Blocks
  <2>6. Bytes(Acknowledged) \div BlockSize = Acknowledged
    BY <1>1, BytesFacts
  <2>7. Block.from = offset /\ Block.num = blockNum /\ Block.len = len
    BY DEF Block
  <2>. QED BY <1>1, <2>1, <2>2, <2>3, <2>5, <2>6, <2>7 DEF Index
<1>5. PICK p \in Packets :
        /\ p \in Blocks =>
              /\ Index(p) = Acknowledged
              /\ p.num = NumOf(Index(p)) /\ p.from = Bytes(Index(p))
              /\ p.len = BlockSize \/ p.from + p.len = FileLen
        /\ toReceiver' = toReceiver \/ toReceiver' = With(toReceiver, p)
  <2>1. CASE WriteBlock
    <3>1. pc = "write" /\ toReceiver' = With(toReceiver, Block) /\ Block \in Packets
      BY <1>4, <2>1 DEF WriteBlock, Packets
    <3>. QED BY <1>4, <3>1
  <2>2. CASE WriteBlockFails
    BY <1>3, <2>2 DEF WriteBlockFails
  <2>3. CASE WriteEot
    BY <1>3, <2>3 DEF WriteEot
  <2>. QED BY <2>1, <2>2, <2>3
<1>6. /\ toReceiver' = toReceiver \/ toReceiver' = Append(toReceiver, p)
      /\ Len(toReceiver') <= LineCap
  BY <1>1, <1>5, WithIs DEF LineHolds
<1>7. SenderCounts' /\ Acknowledged' = Acknowledged
  BY <1>2, SenderKept
<1>8. ReceiverCounts' /\ ReceiverHasPrefix' /\ Stored' = Stored
  BY <1>2, ReceiverKept
<1>9. BlocksAre'
  <2>1. \A i \in 1 .. Len(toReceiver') :
           \/ i \in 1 .. Len(toReceiver) /\ toReceiver'[i] = toReceiver[i]
           \/ toReceiver'[i] = p
    BY <1>1, <1>6
  <2>. QED BY <1>5, <2>1 DEF BlocksAre
<1>10. LineHolds'
  BY <1>2, <1>6 DEF LineHolds
<1>11. Apart'
  <2>1. Engaged(Acknowledged, Stored, toReceiver, toSender) =>
            Engaged(Acknowledged, Stored, Append(toReceiver, p), toSender)
    BY <1>1, <1>5, PacketSent
  <2>. QED BY <1>2, <1>6, <1>7, <1>8, <2>1 DEF Apart, Fresh
<1>. QED BY <1>7, <1>8, <1>9, <1>10, <1>11

\* What the receiver sends of its own accord, and what ends its part.
LEMMA LateUnaskedSteps ==
    ASSUME LateInv, TypeOK', AskForStart \/ Nag \/ Cancel
    PROVE  LateInv'
<1>. USE DEF LateInv
<1>1. /\ toReceiver \in Seq(Packets) /\ toSender \in Seq(Replies)
      /\ Acknowledged \in Nat /\ Stored \in Nat /\ LineCap \in Nat
  BY CountsInNat, XmodemAssumption DEF TypeOK
<1>2. /\ toReceiver' = toReceiver /\ expected' = expected /\ image' = image
      /\ offset' = offset /\ blockNum' = blockNum /\ len' = len /\ pc' = pc
      /\ receiving' => receiving
  BY DEF AskForStart, Nag, Cancel, sender, receiver
<1>3. PICK e \in Replies :
        /\ toSender' = With(toSender, e)
        /\ receiving' => e # "ACK" /\ (e = "C" => image = <<>>)
  BY DEF AskForStart, Nag, Cancel, Replies
<1>4. /\ toSender' = toSender \/ toSender' = Append(toSender, e)
      /\ Len(toSender') <= LineCap
  BY <1>1, <1>3, WithIs DEF LineHolds
<1>5. image = <<>> => Stored = 0
  <2>1. 0 \in Nat /\ Bytes(0) = 0 /\ Bytes(0) \div BlockSize = 0
    BY BytesFacts
  <2>2. image = <<>> => Len(image) = 0
    OBVIOUS
  <2>. QED BY <2>1, <2>2 DEF Stored
<1>6. SenderCounts' /\ Acknowledged' = Acknowledged
  BY <1>2, SenderKept
<1>7. ReceiverCounts' /\ ReceiverHasPrefix' /\ Stored' = Stored
  BY <1>2, ReceiverKept
<1>8. BlocksAre' /\ LineHolds'
  BY <1>2, <1>4 DEF BlocksAre, LineHolds
<1>9. Apart'
  <2>. SUFFICES ASSUME receiving'
                PROVE  (Fresh \/ Engaged(Acknowledged, Stored, toReceiver, toSender))'
    BY DEF Apart
  <2>1. Engaged(Acknowledged, Stored, toReceiver, toSender) =>
            Engaged(Acknowledged, Stored, toReceiver, Append(toSender, e))
    BY <1>1, <1>3, <1>5, ReplySent
  <2>. QED BY <1>2, <1>4, <1>6, <1>7, <2>1 DEF Apart, Fresh
<1>. QED BY <1>6, <1>7, <1>8, <1>9

\* A packet that the receiver takes and does not store, or that is lost or damaged.
LEMMA LatePacketSteps ==
    ASSUME LateInv, TypeOK',
           \/ TakeStrange \/ TakeDamaged \/ TakeEot \/ RefuseEot
           \/ LosePacket \/ DamagePacket
    PROVE  LateInv'
<1>. USE DEF LateInv
<1>1. /\ toReceiver \in Seq(Packets) /\ toSender \in Seq(Replies)
      /\ Acknowledged \in Nat /\ Stored \in Nat /\ LineCap \in Nat
  BY CountsInNat, XmodemAssumption DEF TypeOK
<1>2. /\ expected' = expected /\ image' = image
      /\ offset' = offset /\ blockNum' = blockNum /\ len' = len /\ pc' = pc
      /\ receiving' => receiving
      /\ toReceiver # <<>>
      /\ toReceiver' = Tail(toReceiver) \/ toReceiver' = [toReceiver EXCEPT ![1] = Damaged]
  BY DEF TakeStrange, TakeDamaged, TakeEot, RefuseEot, LosePacket, DamagePacket,
         sender, receiver
<1>3. PICK e \in Replies :
        /\ toSender' = toSender \/ toSender' = With(toSender, e)
        /\ receiving' => e = "NAK"
  BY DEF TakeStrange, TakeDamaged, TakeEot, RefuseEot, LosePacket, DamagePacket, Replies
<1>4. /\ toSender' = toSender \/ toSender' = Append(toSender, e)
      /\ Len(toSender') <= LineCap
  BY <1>1, <1>3, WithIs DEF LineHolds
<1>5. /\ Len(toReceiver') <= Len(toReceiver) /\ toReceiver' \in Seq(Packets)
      /\ \A i \in 1 .. Len(toReceiver') : toReceiver'[i] \in Blocks =>
             \E j \in 1 .. Len(toReceiver) : toReceiver[j] = toReceiver'[i]
  <2>1. CASE toReceiver' = Tail(toReceiver)
    <3>1. /\ Len(toReceiver) \in Nat \ {0} /\ Len(toReceiver') = Len(toReceiver) - 1
          /\ toReceiver' \in Seq(Packets)
          /\ \A i \in 1 .. Len(toReceiver') : toReceiver'[i] = toReceiver[i + 1]
      BY <1>1, <1>2, <2>1, TailFacts
    <3>2. \A i \in 1 .. Len(toReceiver') : i + 1 \in 1 .. Len(toReceiver)
      BY <3>1
    <3>. QED BY <3>1, <3>2
  <2>2. CASE toReceiver' = [toReceiver EXCEPT ![1] = Damaged]
    <3>1. /\ Len(toReceiver') = Len(toReceiver) /\ Len(toReceiver) \in Nat
          /\ toReceiver' \in Seq(Packets)
          /\ \A i \in 1 .. Len(toReceiver) :
                toReceiver'[i] = toReceiver[i] \/ toReceiver'[i] = Damaged
      BY <1>1, <2>2, DamagedFirst
    <3>. QED BY <3>1, NotBlocks
  <2>. QED BY <1>2, <2>1, <2>2
<1>6. SenderCounts' /\ Acknowledged' = Acknowledged
  BY <1>2, SenderKept
<1>7. ReceiverCounts' /\ ReceiverHasPrefix' /\ Stored' = Stored
  BY <1>2, ReceiverKept
<1>8. BlocksAre'
  BY <1>5 DEF BlocksAre
<1>9. LineHolds'
  <2>1. Len(toReceiver') \in Nat /\ Len(toReceiver) \in Nat
    BY <1>1, <1>5
  <2>. QED BY <1>1, <1>4, <1>5, <2>1 DEF LineHolds
<1>10. Apart'
  <2>. SUFFICES ASSUME receiving'
                PROVE  Engaged(Acknowledged, Stored, toReceiver', toSender')
    BY <1>6, <1>7 DEF Apart
  <2>1. Engaged(Acknowledged, Stored, toReceiver, toSender)
    BY <1>2 DEF Apart, Fresh
  <2>2. Engaged(Acknowledged, Stored, toReceiver', toSender)
    BY <1>1, <1>2, <2>1, PacketGone, PacketDamaged
  <2>3. Engaged(Acknowledged, Stored, toReceiver', Append(toSender, e))
    BY <1>1, <1>3, <1>5, <2>2, ReplySent
  <2>. QED BY <1>4, <2>2, <2>3
<1>. QED BY <1>6, <1>7, <1>8, <1>9, <1>10

\* The bytes of the next block follow those that are stored.
LEMMA PrefixGrows ==
    ASSUME TypeOK, ReceiverHasPrefix, NEW b \in Blocks,
           b.from = Len(image), b.len = BlockSize \/ b.from + b.len = FileLen,
           image' = image \o Data(b)
    PROVE  Len(image') = Len(image) + BlockSize /\ ReceiverHasPrefix'
<1>1. /\ b.from \in 0 .. FileLen /\ b.len \in 1 .. BlockSize
      /\ FileLen \in Nat /\ BlockSize \in Nat
  BY BlockFacts, XmodemAssumption
<1>2. /\ Data(b) \in Seq(0 .. FileLen) /\ Len(Data(b)) = BlockSize
      /\ \A i \in 1 .. BlockSize : Data(b)[i] = IF i <= b.len THEN b.from + i ELSE 0
  BY DataFacts
<1>. DEFINE d == Data(b)
            n == Len(image)
            f == b.len
<1>3. image \in Seq(0 .. FileLen) /\ n \in Nat
  BY DEF TypeOK
<1>. HIDE DEF d
<1>4. /\ Len(image') = n + BlockSize
      /\ \A i \in 1 .. n : image'[i] = image[i]
      /\ \A i \in 1 .. BlockSize : image'[n + i] = d[i]
  <2>1. d \in Seq(0 .. FileLen) /\ Len(d) = BlockSize /\ image' = image \o d
    BY <1>2 DEF d
  <2>2. /\ Len(image') = Len(image) + Len(d)
        /\ \A i \in 1 .. Len(image) : image'[i] = image[i]
        /\ \A i \in 1 .. Len(d) : image'[Len(image) + i] = d[i]
    BY <1>3, <2>1, StoreFacts
  <2>. QED BY <2>1, <2>2
<1>5. ReceiverHasPrefix'
  <2>. SUFFICES ASSUME NEW i \in 1 .. Len(image'), i <= FileLen
                PROVE  image'[i] = i
    BY DEF ReceiverHasPrefix
  <2>1. CASE i <= n
    <3>1. i \in 1 .. n
      BY <1>3, <2>1
    <3>. QED BY <1>4, <3>1 DEF ReceiverHasPrefix
  <2>2. CASE i > n
    <3>. DEFINE j == i - n
    <3>1. j \in 1 .. BlockSize /\ n + j = i
      BY <1>1, <1>3, <1>4, <2>2
    <3>. HIDE DEF j, n, f
    <3>2. j <= f
      <4>1. f = BlockSize \/ n + f = FileLen
        BY DEF f, n
      <4>2. n \in Nat /\ f \in Nat
        BY <1>1, <1>3 DEF f
      <4>. QED BY <1>1, <3>1, <4>1, <4>2
    <3>3. d[j] = n + j
      BY <1>2, <3>1, <3>2 DEF d, n, f
    <3>. QED BY <1>4, <3>1, <3>3
  <2>. QED BY <1>3, <2>1, <2>2
<1>. QED BY <1>4, <1>5

\* The receiver stores a block or recognises the one that it stored last: since a number
\* tells which block it is, it is never mistaken.
LEMMA LateTakeSteps ==
    ASSUME LateInv, TypeOK', NumbersSuffice, TakeBlock \/ TakeRepeated
    PROVE  LateInv'
<1>. USE DEF LateInv
<1>1. /\ toReceiver \in Seq(Packets) /\ toSender \in Seq(Replies)
      /\ Acknowledged \in Nat /\ Stored \in Nat /\ LineCap \in Nat \ {0}
      /\ NumRange \in Nat /\ NumRange > 2 * LineCap
  BY CountsInNat, XmodemAssumption DEF TypeOK, NumbersSuffice
<1>. DEFINE b == Head(toReceiver)
            p == Index(b)
<1>2. /\ receiving /\ receiving' = receiving
      /\ toReceiver # <<>> /\ toReceiver' = Tail(toReceiver) /\ b.kind = "block"
      /\ toSender' = With(toSender, "ACK") /\ "ACK" \in Replies
      /\ offset' = offset /\ blockNum' = blockNum /\ len' = len /\ pc' = pc
  BY DEF TakeBlock, TakeRepeated, sender, receiver, Replies
<1>3. /\ b = toReceiver[1] /\ 1 \in 1 .. Len(toReceiver) /\ b \in Packets
      /\ Tail(toReceiver) \in Seq(Packets)
      /\ Len(toReceiver) \in Nat \ {0} /\ Len(Tail(toReceiver)) = Len(toReceiver) - 1
      /\ \A i \in 1 .. Len(Tail(toReceiver)) : Tail(toReceiver)[i] = toReceiver[i + 1]
  BY <1>1, <1>2, TailFacts
<1>4. b \in Blocks
  BY <1>2, <1>3 DEF Packets, Damaged, Eot
<1>5. /\ b.from = Bytes(p) /\ b.num = NumOf(p)
      /\ b.len = BlockSize \/ b.from + b.len = FileLen
  BY <1>3, <1>4 DEF BlocksAre
<1>6. Engaged(Acknowledged, Stored, toReceiver, toSender)
  BY <1>2 DEF Apart, Fresh
<1>7. p \in Nat /\ p - Stored < 2 * LineCap /\ Stored - p <= LineCap
  BY <1>1, <1>2, <1>4, <1>6, HeadIsNear
<1>8. /\ toSender' = toSender \/ toSender' = Append(toSender, "ACK")
      /\ Len(toSender') <= LineCap
  BY <1>1, <1>2, WithIs DEF LineHolds
<1>9. SenderCounts' /\ Acknowledged' = Acknowledged
  BY <1>2, SenderKept
<1>10. BlocksAre' /\ LineHolds'
  <2>1. \A i \in 1 .. Len(Tail(toReceiver)) : i + 1 \in 1 .. Len(toReceiver)
    BY <1>3
  <2>2. BlocksAre'
    BY <1>2, <1>3, <2>1 DEF BlocksAre
  <2>. QED BY <1>1, <1>2, <1>3, <1>8, <2>2 DEF LineHolds
<1>. HIDE DEF b, p
<1>11. /\ Len(image) = Bytes(Stored) /\ expected = NumOf(Stored)
       /\ \A n \in Nat : NumOf(n) = NumOf(Stored)
             /\ n - Stored < NumRange /\ Stored - n < NumRange => n = Stored
  BY <1>1, NumOfFacts DEF ReceiverCounts
<1>12. CASE TakeBlock
  <2>1. /\ image' = image \o Data(b) /\ expected' = NextNum(expected) /\ b.num = expected
    BY <1>12 DEF TakeBlock, b
  <2>2. p = Stored
    <3>1. p - Stored < NumRange /\ Stored - p < NumRange
      BY <1>1, <1>7
    <3>. QED BY <1>5, <1>7, <1>11, <2>1, <3>1
  <2>3. Len(image') = Len(image) + BlockSize /\ ReceiverHasPrefix'
    BY <1>4, <1>5, <1>11, <2>1, <2>2, PrefixGrows
  <2>4. ReceiverCounts' /\ Stored' = Stored + 1
    <3>1. /\ Bytes(Stored + 1) = Bytes(Stored) + BlockSize
          /\ NextNum(NumOf(Stored)) = NumOf(Stored + 1)
      BY <1>1, BytesFacts, NumOfFacts
    <3>2. Bytes(Stored + 1) \div BlockSize = Stored + 1
      BY <1>1, BytesFacts
    <3>3. Len(image') = Bytes(Stored + 1) /\ expected' = NumOf(Stored + 1)
      BY <1>11, <2>1, <2>3, <3>1
    <3>4. Stored' = Stored + 1
      BY <3>2, <3>3 DEF Stored
    <3>. QED BY <3>3, <3>4 DEF ReceiverCounts
  <2>5. Index(Head(toReceiver)) = (Stored + 1) - 1 /\ Stored + 1 \in {Stored, Stored + 1}
    BY <1>1, <2>2 DEF p, b
  <2>6. Head(toReceiver) \in Blocks
    BY <1>4 DEF b
  <2>7. Engaged(Acknowledged, Stored + 1, Tail(toReceiver), toSender')
    BY <1>1, <1>2, <1>6, <1>8, <2>5, <2>6, BlockAnswered
  <2>8. Apart'
    BY <1>2, <1>9, <2>4, <2>7 DEF Apart
  <2>. QED BY <1>9, <1>10, <2>3, <2>4, <2>8
<1>13. CASE TakeRepeated
  <2>1. image' = image /\ expected' = expected /\ NextNum(b.num) = expected
    BY <1>13 DEF TakeRepeated, receiver, b
  <2>2. p + 1 = Stored
    <3>1. NumOf(p + 1) = NumOf(Stored)
      BY <1>5, <1>7, <1>11, <2>1, NumOfFacts
    <3>2. p + 1 \in Nat /\ (p + 1) - Stored < NumRange /\ Stored - (p + 1) < NumRange
      BY <1>1, <1>7
    <3>. QED BY <1>11, <3>1, <3>2
  <2>3. ReceiverCounts' /\ ReceiverHasPrefix' /\ Stored' = Stored
    BY <2>1, ReceiverKept
  <2>4. Index(Head(toReceiver)) = Stored - 1 /\ Stored \in {Stored, Stored + 1}
    BY <1>1, <1>7, <2>2 DEF p, b
  <2>5. Head(toReceiver) \in Blocks
    BY <1>4 DEF b
  <2>6. Engaged(Acknowledged, Stored, Tail(toReceiver), toSender')
    BY <1>1, <1>2, <1>6, <1>8, <2>4, <2>5, BlockAnswered
  <2>7. Apart'
    BY <1>2, <1>9, <2>3, <2>6 DEF Apart
  <2>. QED BY <1>9, <1>10, <2>3, <2>7
<1>. QED BY <1>12, <1>13

\* The receiver begins afresh.
LEMMA LateRestartStep ==
    ASSUME LateInv, TypeOK', Restart
    PROVE  LateInv'
<1>. USE DEF LateInv
<1>1. /\ toReceiver' = toReceiver /\ toReceiver = <<>> /\ toSender' = toSender
      /\ expected' = 1 /\ image' = <<>> /\ pc = "idle"
      /\ offset' = offset /\ blockNum' = blockNum /\ len' = len /\ pc' = pc
  BY DEF Restart, sender
<1>2. SenderCounts'
  BY <1>1, SenderKept
<1>3. Bytes(0) = 0 /\ Bytes(0) \div BlockSize = 0 /\ NumOf(0) = 1
  BY BytesFacts, NumOfFacts
<1>4. Len(image') = 0
  BY <1>1
<1>5. Stored' = 0
  BY <1>3, <1>4 DEF Stored
<1>6. ReceiverCounts' /\ ReceiverHasPrefix'
  BY <1>1, <1>3, <1>4, <1>5 DEF ReceiverCounts, ReceiverHasPrefix
<1>7. BlocksAre' /\ LineHolds'
  BY <1>1 DEF BlocksAre, LineHolds
<1>8. Apart'
  BY <1>1, <1>5 DEF Apart, Fresh
<1>. QED BY <1>2, <1>6, <1>7, <1>8

LEMMA LateStuttering ==
    ASSUME LateInv, TypeOK', UNCHANGED vars
    PROVE  LateInv'
<1>. USE DEF LateInv
<1>1. /\ toReceiver' = toReceiver /\ toSender' = toSender /\ receiving' = receiving
      /\ expected' = expected /\ image' = image
      /\ offset' = offset /\ blockNum' = blockNum /\ len' = len /\ pc' = pc
  BY DEF vars, sender, receiver
<1>2. SenderCounts' /\ Acknowledged' = Acknowledged
  BY <1>1, SenderKept
<1>3. ReceiverCounts' /\ ReceiverHasPrefix' /\ Stored' = Stored
  BY <1>1, ReceiverKept
<1>4. BlocksAre' /\ LineHolds' /\ Apart'
  BY <1>1, <1>2, <1>3 DEF BlocksAre, LineHolds, Apart, Fresh
<1>. QED BY <1>2, <1>3, <1>4

LEMMA LateInit ==
    ASSUME Init, TypeOK
    PROVE  LateInv
<1>1. /\ pc = "idle" /\ offset = 0 /\ blockNum = 1 /\ toReceiver = <<>> /\ toSender = <<>>
      /\ expected = 1 /\ image = <<>>
  BY DEF Init
<1>2. /\ Bytes(0) = 0 /\ Bytes(0) \div BlockSize = 0 /\ NumOf(0) = 1
      /\ (Bytes(0) + BlockSize - 1) \div BlockSize = 0
  BY BytesFacts, NumOfFacts
<1>3. Len(image) = 0 /\ Len(toReceiver) = 0 /\ Len(toSender) = 0
  BY <1>1
<1>4. Acknowledged = 0 /\ Stored = 0
  BY <1>1, <1>2, <1>3 DEF Acknowledged, Stored
<1>5. SenderCounts /\ ReceiverCounts
  BY <1>1, <1>2, <1>3, <1>4 DEF SenderCounts, ReceiverCounts
<1>6. ReceiverHasPrefix /\ BlocksAre
  BY <1>1 DEF ReceiverHasPrefix, BlocksAre
<1>7. LineHolds /\ Apart
  BY <1>1, <1>3, <1>4, XmodemAssumption DEF LineHolds, Apart, Fresh
<1>. QED BY <1>5, <1>6, <1>7 DEF LateInv

\* What the receiver holds is the file, from its beginning and in order, also when
\* replies and packets are late: the receiver stores no block twice and leaves none out,
\* if the callback fills its blocks and block numbers range over more than what the line
\* holds both ways.
THEOREM PrefixWhenLate ==
    ASSUME FullReads, NumbersSuffice
    PROVE  Spec => []ReceiverHasPrefix
<1>1. Init /\ TypeOK => LateInv
  BY LateInit
<1>2. LateInv /\ TypeOK' /\ [Next]_vars => LateInv'
  <2>. SUFFICES ASSUME LateInv, TypeOK', [Next]_vars PROVE LateInv'
    OBVIOUS
  <2>1. CASE Open \/ Send \/ StartTimeout \/ GetData \/ GetDataFails
             \/ GiveUp \/ AckTimeout \/ WriteEotFails \/ EotTimeout
    BY <2>1, LateLocalSteps
  <2>2. CASE Close \/ StartNak \/ StartCan \/ StartOther \/ Nacked \/ Cancelled
             \/ OtherReply \/ EotAcked \/ EotOther \/ LoseReply
    BY <2>2, LateReadSteps
  <2>3. CASE StartC
    BY <2>3, LateStartStep
  <2>4. CASE Acked
    BY <2>4, LateAckStep
  <2>5. CASE WriteBlock \/ WriteBlockFails \/ WriteEot
    BY <2>5, LateWriteSteps
  <2>6. CASE AskForStart \/ Nag \/ Cancel
    BY <2>6, LateUnaskedSteps
  <2>7. CASE TakeStrange \/ TakeDamaged \/ TakeEot \/ RefuseEot \/ LosePacket \/ DamagePacket
    BY <2>7, LatePacketSteps
  <2>8. CASE TakeBlock \/ TakeRepeated
    BY <2>8, LateTakeSteps
  <2>9. CASE Restart
    BY <2>9, LateRestartStep
  <2>10. CASE UNCHANGED vars
    BY <2>10, LateStuttering
  <2>. QED BY <2>1, <2>2, <2>3, <2>4, <2>5, <2>6, <2>7, <2>8, <2>9, <2>10
           DEF Next, Sender, WaitForStart, SendBlock, SendEot, Receiver, Line
<1>3. LateInv => ReceiverHasPrefix
  BY DEF LateInv
<1>. QED BY <1>1, <1>2, <1>3, TypeCorrect, PTL DEF Spec
=============================================================================
