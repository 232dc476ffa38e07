------------------------------ MODULE AtParser ------------------------------
(***************************************************************************)
(* The receiving side of an AT client byte by byte: handleRxData(),        *)
(* parseIncomingChar(), parseLine(), handleBinaryRx() and                  *)
(* setupBinaryTransfer() of src/src/u_cx_at_client.c, with the URC queue.  *)
(*                                                                         *)
(* What the module has sent waits on the wire. A line is read one byte at  *)
(* a time, binary data as many bytes as uPortUartRead() gives, which may   *)
(* be fewer than asked for; a read that gives none changes nothing and is  *)
(* a stuttering step. All of the state is in the client and outlives a     *)
(* call, so who reads next, a command or the background task, makes no     *)
(* difference but for executingCmd. Commands begin and end at any time: a  *)
(* time-out or an I/O error ends one in the middle of its response.        *)
(*                                                                         *)
(* A definition with an underscore is another one with a mistake; it is    *)
(* not used here.                                                          *)
(***************************************************************************)
EXTENDS AtBytes

CONSTANTS
    RxBufferLen,  \* rxBufferLen of the configuration
    FlushChunk,   \* size of the buffer data are thrown away through; 64 in the code
    Expectations, \* what commands pass as pExpectedRsp; <<>> is NULL
    RspBufferLens,\* what commands pass as *pBinaryBufLength, where they pass it
    Rooms,        \* free bytes in the URC queue for the data of a URC
    Messages,     \* what the module may send, one by one: records with fields
                  \* text, binary, data and kind
    Streams       \* and in a row: sequences of messages

ASSUME AtParserAssumption ==
    /\ RxBufferLen \in Nat \ {0} /\ FlushChunk \in Nat \ {0}
    /\ RspBufferLens \subseteq Nat /\ Rooms \subseteq Nat
    /\ Expectations \subseteq Seq(Byte)
    /\ Streams \subseteq Seq(Messages)

\* The members of a set among the items of a sequence, after each of these
Chosen(s, set) ==
    Joined([i \in 1 .. Len(s) |-> IF s[i] \in set THEN <<s[i]>> ELSE <<>>])

\* A message on the wire
Frame(m) ==
    m.text \o (IF m.binary
               THEN <<SOH, Len(m.data) \div 256, Len(m.data) % 256>> \o m.data
               ELSE <<CR, LF>>)

\* The bytes of a stream, after each of its messages
SentUpTo(messages) == Joined([i \in 1 .. Len(messages) |-> Frame(messages[i])])
Sent(messages) == SentUpTo(messages)[Len(messages)]

VARIABLES
    wire,         \* bytes that are sent and not read
    rx,           \* pRxBuffer up to rxBufferPos
    isBinaryRx,
    rxHeaderCount,
    lengthBuf,    \* the two bytes of the length, of both directions static in the code
    bin,          \* binaryRx, with the entry that the log gets at its end
    executing,    \* executingCmd
    expected,     \* pExpectedRsp
    rspRoom,      \* *rspBinaryBuf.pBufferLength, or NoBuffer
    stream,       \* history: the messages that were sent
    log           \* history: what the parser has made of them

client == <<rx, isBinaryRx, rxHeaderCount, lengthBuf, bin>>
command == <<executing, expected, rspRoom>>
vars == <<wire, client, command, stream, log>>

NoRoom == -1    \* the URC queue does not take the line
NoBuffer == -1  \* pBufferLength is NULL
MaxLength == 65535  \* of binary data: its length comes in two bytes

-----------------------------------------------------------------------------
(* Lines. *)

IsStatus(line) ==
    \/ line = OkText
    \/ line = ErrorText
    \/ /\ StartsWith(line, ErrorText \o <<Colon>>)
       /\ Len(line) > 6
       /\ \A i \in 7 .. Len(line) : IsDecimal(line[i])

IsUrc(line) == line[1] \in {Plus, Star}

Answers(line, e) == e # <<>> /\ StartsWith(line, e)
IsExpected(line) == Answers(line, expected)

\* parseLine(): what a line is. "none" and "noise" are both AT_PARSER_NOP.
Classify(line) ==
    IF line = <<>> THEN "none"
    ELSE IF executing /\ IsExpected(line) THEN "rsp"
    ELSE IF executing /\ IsStatus(line) THEN "status"
    ELSE IF executing /\ ~StartsWith(line, ErrorText) /\ ~IsUrc(line)
                      /\ ~StartsWith(line, EchoText) THEN "rsp"
    ELSE IF IsUrc(line) THEN "urc"
    ELSE "noise"

\* What is kept of a line by a buffer that starts over whenever it is full.
Kept(text) == Behind(text, Len(text) - (Len(text) % RxBufferLen))

\* The line that each message leaves: the bytes that print, as far as they are kept.
Printing == 32 .. 126
Line == [m \in Messages |-> Kept(Chosen(m.text, Printing)[Len(m.text)])]
WithLine == {m \in Messages : Line[m] # <<>>}

\* The kind of a message is what its line is to the parser, whatever is expected:
\* "plain" is a response to every command, "answer" to those that expect what it
\* begins with, "event" to none. A line that the buffer starts over in may leave none.
KindIsTrue(m) ==
    LET line == Line[m]
        answered == {e \in Expectations : Answers(line, e)}
    IN  /\ m.kind = "status" => answered = {} /\ IsStatus(line) /\ ~IsUrc(line)
        /\ m.kind # "status" => ~IsStatus(line)
        /\ m.kind = "answer" => IsUrc(line)
        /\ m.kind = "event" => IsUrc(line) /\ answered = {}
        /\ m.kind = "plain" => ~IsUrc(line) /\ ~StartsWith(line, ErrorText)
                              /\ ~StartsWith(line, EchoText)
        /\ m.kind = "noise" => /\ answered = {} /\ ~IsUrc(line)
                              /\ (StartsWith(line, ErrorText) \/ StartsWith(line, EchoText))

ASSUME MessagesAssumption ==
    /\ \A m \in Messages :
           /\ m.text \in Seq(Byte \ {SOH, CR, LF})
           /\ m.data \in Seq(Byte) /\ Len(m.data) <= MaxLength /\ m.binary \in BOOLEAN
           /\ m.kind \in {"status", "plain", "answer", "event", "noise"}
    /\ \A m \in WithLine : KindIsTrue(m)

Entry(kind, line, room) ==
    [kind |-> kind, line |-> line, data |-> <<>>, room |-> room,
     executing |-> executing, expected |-> expected,
     params |-> IF kind = "rsp" /\ IsExpected(line) THEN Behind(line, Len(expected)) ELSE line]

\* What there may be room for in the URC queue; it matters to a URC only.
RoomFor(line) == IF Classify(line) = "urc" THEN Rooms \cup {NoRoom} ELSE {NoRoom}

\* A status ends the command: nothing is read until its thread has called cmdEnd().
StatusEnds(line) == executing' = (executing /\ Classify(line) # "status")

Logged(entry) == IF entry.kind = "none" THEN log ELSE Append(log, entry)

-----------------------------------------------------------------------------
(* Text. *)

Take(n) == wire' = Behind(wire, n)

NotBinary == ~isBinaryRx /\ wire # <<>>

\* parseIncomingChar(), by what the byte is
ReadStart ==
    /\ NotBinary /\ wire[1] = SOH
    /\ Take(1)
    /\ isBinaryRx' = TRUE
    /\ UNCHANGED <<rx, rxHeaderCount, lengthBuf, bin, command, stream, log>>

ReadLineEnd ==
    /\ NotBinary /\ wire[1] \in {CR, LF}
    /\ Take(1)
    /\ \E room \in RoomFor(rx) :
           log' = Logged(Entry(IF Classify(rx) = "urc" /\ room = NoRoom THEN "dropped"
                               ELSE Classify(rx), rx, room))
    /\ StatusEnds(rx)
    /\ rx' = <<>>
    /\ UNCHANGED <<isBinaryRx, rxHeaderCount, lengthBuf, bin, expected, rspRoom, stream>>

\* The end of the buffer is looked for one byte too late.
ReadChar_TooLate ==
    /\ NotBinary /\ IsPrint(wire[1])
    /\ Take(1)
    /\ rx' = IF Len(rx) = RxBufferLen THEN <<>> ELSE Append(rx, wire[1])
    /\ UNCHANGED <<isBinaryRx, rxHeaderCount, lengthBuf, bin, command, stream, log>>

ReadChar ==
    /\ NotBinary /\ IsPrint(wire[1])
    /\ Take(1)
    /\ rx' = IF Len(rx) + 1 = RxBufferLen THEN <<>> ELSE Append(rx, wire[1])
    /\ UNCHANGED <<isBinaryRx, rxHeaderCount, lengthBuf, bin, command, stream, log>>

ReadOther ==
    /\ NotBinary /\ ~IsPrint(wire[1]) /\ wire[1] \notin {SOH, CR, LF}
    /\ Take(1)
    /\ UNCHANGED <<client, command, stream, log>>

-----------------------------------------------------------------------------
(* Binary data. *)

Binary(entry, size, length) ==
    [entry |-> entry, buf |-> <<>>, size |-> size, remaining |-> length]
NoBinary == Binary([kind |-> "none", line |-> <<>>, data |-> <<>>, room |-> NoRoom,
                    executing |-> FALSE, expected |-> <<>>, params |-> <<>>], 0, 0)

\* setupBinaryTransfer(): where the data behind a line go.
Setup(line, room, length) ==
    LET kind == Classify(line)
        size == IF rspRoom = NoBuffer THEN 0 ELSE rspRoom
    IN  IF kind = "rsp" THEN Binary(Entry("rsp", line, size), size, length)
        ELSE IF kind = "urc" /\ room > length THEN Binary(Entry("urc", line, room), room, length)
        ELSE Binary(Entry(IF kind = "urc" THEN "dropped" ELSE kind, line, room), 0, length)

\* The end of handleBinaryRx(): b goes on, or is all there.
EndBinary(b) ==
    IF b.remaining > 0
    THEN /\ bin' = b
         /\ rxHeaderCount' = 2
         /\ UNCHANGED <<isBinaryRx, log>>
    ELSE /\ bin' = NoBinary
         /\ isBinaryRx' = FALSE
         /\ rxHeaderCount' = 0
         /\ log' = Logged([b.entry EXCEPT !.data = b.buf])

\* What is written to *pBufferLength, if the command has a buffer.
RspLength(n) == rspRoom' = IF rspRoom = NoBuffer THEN NoBuffer ELSE n

ReportLength(b) ==
    IF b.entry.kind = "rsp" /\ b.remaining = 0 THEN RspLength(Len(b.buf))
    ELSE UNCHANGED rspRoom

\* One byte of the length
ReadPartOfLength ==
    /\ isBinaryRx /\ rxHeaderCount = 0 /\ wire # <<>>
    /\ Take(1)
    /\ lengthBuf' = <<wire[1], lengthBuf[2]>>
    /\ rxHeaderCount' = 1
    /\ UNCHANGED <<rx, isBinaryRx, bin, command, stream, log>>

\* The length is read from its start although a byte of it has been read.
ReadLength_FromStart ==
    /\ isBinaryRx /\ rxHeaderCount < 2
    /\ Len(wire) >= 2
    /\ Take(2)
    /\ lengthBuf' = FirstOf(wire, 2)
    /\ \E room \in RoomFor(rx) :
           EndBinary(Setup(rx, room, 256 * lengthBuf'[1] + lengthBuf'[2]))
    /\ IF Classify(rx) = "rsp" THEN RspLength(0) ELSE UNCHANGED rspRoom
    /\ StatusEnds(rx)
    /\ rx' = <<>>
    /\ UNCHANGED <<expected, stream>>

\* The rest of the length
ReadLength ==
    /\ isBinaryRx /\ rxHeaderCount < 2
    /\ LET missing == 2 - rxHeaderCount
       IN  /\ Len(wire) >= missing
           /\ Take(missing)
           /\ lengthBuf' = FirstOf(lengthBuf, rxHeaderCount) \o FirstOf(wire, missing)
    /\ \E room \in RoomFor(rx) :
           EndBinary(Setup(rx, room, 256 * lengthBuf'[1] + lengthBuf'[2]))
    /\ IF Classify(rx) = "rsp" THEN RspLength(0) ELSE UNCHANGED rspRoom
    /\ StatusEnds(rx)
    /\ rx' = <<>>
    /\ UNCHANGED <<expected, stream>>

ReadingData == isBinaryRx /\ rxHeaderCount = 2
Smaller(a, b) == IF a < b THEN a ELSE b

\* n bytes into the buffer
ReadData(n) ==
    /\ ReadingData /\ Len(bin.buf) < bin.size
    /\ n <= Smaller(bin.size - Len(bin.buf), bin.remaining)
    /\ n <= Len(wire)
    /\ Take(n)
    /\ LET b == [bin EXCEPT !.buf = @ \o FirstOf(wire, n), !.remaining = @ - n]
       IN  EndBinary(b) /\ ReportLength(b)
    /\ UNCHANGED <<rx, lengthBuf, executing, expected, stream>>

\* n bytes that are thrown away
FlushData(n) ==
    /\ ReadingData /\ Len(bin.buf) >= bin.size
    /\ n <= Smaller(FlushChunk, bin.remaining)
    /\ n <= Len(wire)
    /\ Take(n)
    /\ LET b == [bin EXCEPT !.remaining = @ - n]
       IN  EndBinary(b) /\ ReportLength(b)
    /\ UNCHANGED <<rx, lengthBuf, executing, expected, stream>>

-----------------------------------------------------------------------------
(* Commands. *)

\* cmdBeginF(): pExpectedRsp and rspBinaryBuf stay what the last command made them.
CmdBegin ==
    /\ ~executing
    /\ executing' = TRUE
    /\ UNCHANGED <<wire, client, expected, rspRoom, stream, log>>

\* uCxAtClientCmdGetRspParamLine()
CmdGetRspParamLine(e, n) ==
    /\ executing
    /\ expected' = e /\ rspRoom' = n
    /\ UNCHANGED <<wire, client, executing, stream, log>>

\* cmdEnd() after a time-out or a failed read
CmdGivesUp ==
    /\ executing
    /\ executing' = FALSE
    /\ UNCHANGED <<wire, client, expected, rspRoom, stream, log>>

-----------------------------------------------------------------------------
Init ==
    /\ stream \in Streams
    /\ wire = Sent(stream)
    /\ rx = <<>> /\ isBinaryRx = FALSE /\ rxHeaderCount = 0 /\ lengthBuf = <<0, 0>>
    /\ bin = NoBinary
    /\ executing = FALSE /\ expected = <<>> /\ rspRoom = NoBuffer
    /\ log = <<>>

Next ==
    \/ ReadStart \/ ReadLineEnd \/ ReadChar \/ ReadOther
    \/ ReadPartOfLength \/ ReadLength
    \/ \E n \in 1 .. Len(wire) : ReadData(n) \/ FlushData(n)
    \/ CmdBegin \/ CmdGivesUp
    \/ \E e \in Expectations, n \in RspBufferLens \cup {NoBuffer} : CmdGetRspParamLine(e, n)

Spec == Init /\ [][Next]_vars

-----------------------------------------------------------------------------
(* Properties. *)

Texts == Seq(Byte)

\* The types: above all, nothing is written behind the end of a buffer, the
\* receive buffer of the configuration, lengthBuf, the buffer of the command or the
\* room in the URC queue.
TypeOK ==
    /\ wire \in Texts /\ rx \in Texts /\ Len(rx) < RxBufferLen
    /\ isBinaryRx \in BOOLEAN /\ executing \in BOOLEAN
    /\ rxHeaderCount \in 0 .. 2 /\ (rxHeaderCount > 0 => isBinaryRx)
    /\ lengthBuf \in Byte \X Byte
    /\ bin.size \in Nat /\ bin.buf \in Texts /\ Len(bin.buf) <= bin.size
    /\ bin.remaining \in 0 .. MaxLength /\ (bin.remaining > 0 => rxHeaderCount = 2)
    /\ expected \in Texts /\ rspRoom \in Nat \cup {NoBuffer}

\* What a message means to the client when its line is complete.
Meaning(m, e) ==
    LET awaited == m.kind = "plain" \/ (m.kind = "answer" /\ Answers(Line[m], e.expected))
        room == m.binary => e.room > Len(m.data)
    IN  IF e.executing /\ awaited THEN "rsp"
        ELSE IF e.executing /\ m.kind = "status" THEN "status"
        ELSE IF m.kind \in {"answer", "event"}
             THEN IF e.room # NoRoom /\ room THEN "urc" ELSE "dropped"
        ELSE "noise"

Arrived(m, kind, room) ==
    CASE kind = "rsp" /\ m.binary -> FirstOf(m.data, room)
      [] kind = "urc" /\ m.binary -> m.data
      [] OTHER -> <<>>

\* The messages that leave a line
Lines == Chosen(stream, WithLine)[Len(stream)]

\* However the reads cut the bytes up, and whatever the data contain, the parser
\* finds the lines and data that were sent, in their order and each as what it
\* is; data of a URC arrive whole or their URC is dropped, data of a response as
\* far as the buffer goes; and when all is read, nothing is left out and the
\* parser is back where it began.
MessagesArrive ==
    /\ Len(log) <= Len(Lines)
    /\ \A i \in DOMAIN log :
           LET m == Lines[i]  e == log[i]
           IN  /\ e.line = Line[m]
               /\ e.kind = Meaning(m, e)
               /\ e.data = Arrived(m, e.kind, e.room)
    /\ wire = <<>> => Len(log) = Len(Lines) /\ rx = <<>> /\ ~isBinaryRx

=============================================================================
