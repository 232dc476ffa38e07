------------------------------- MODULE AtText -------------------------------
(***************************************************************************)
(* The text of AT commands and responses: how the arguments of a command   *)
(* are written (uCxAtClientSendCmdVaList() of src/src/u_cx_at_client.c)    *)
(* and how the parameters of a response or URC are read                    *)
(* (src/src/u_cx_at_util.c, src/src/u_cx_at_params.c).                     *)
(*                                                                         *)
(* A text is a sequence of bytes; the NUL that ends it in the code is what *)
(* At() reads behind its end. A conversion that works inside the buffer it *)
(* reads (escapes, hex strings, integer lists) is modelled on that buffer, *)
(* so that what it overwrites before it has read it is lost here as well.  *)
(* A value is a record of its kind, the character that stands for it in a  *)
(* parameter format, and what the kind holds. An IPv4 address is its four  *)
(* octets, an IPv6 address its eight groups. Numbers stay below 2^31.      *)
(*                                                                         *)
(* A definition with an underscore is another one with a mistake; it is    *)
(* not used here.                                                          *)
(***************************************************************************)
EXTENDS AtBytes, SequencesExt

CONSTANT FormatBufLen  \* sizeof(buf) in uCxAtClientSendCmdVaList(); 42 in the code

ASSUME AtTextAssumption == FormatBufLen \in Nat

At(t, i) == IF i \in 1 .. Len(t) THEN t[i] ELSE 0

\* A C string ends at its first NUL.
CString(t) ==
    LET n == CHOOSE i \in 1 .. Len(t) + 1 :
                 At(t, i) = 0 /\ \A j \in 1 .. i - 1 : t[j] # 0
    IN  SubSeq(t, 1, n - 1)

-----------------------------------------------------------------------------
(* Numbers. *)

NibbleToHex(n) == IF n < 10 THEN Zero + n ELSE UpperA + n - 10

HexToNibble(c) ==
    CASE c \in Zero .. Zero + 9     -> c - Zero
      [] c \in LowerA .. LowerA + 5 -> c - LowerA + 10
      [] c \in UpperA .. UpperA + 5 -> c - UpperA + 10
      [] OTHER                      -> -1

ByteToHex(b) == <<NibbleToHex(b \div 16), NibbleToHex(b % 16)>>

\* The byte, or -1.
HexToByte(high, low) ==
    IF HexToNibble(high) < 0 \/ HexToNibble(low) < 0
    THEN -1 ELSE 16 * HexToNibble(high) + HexToNibble(low)

\* Refused is what stands for the error result of a conversion into a buffer.
Refused == <<>>

BinaryToHex(data, size) ==
    IF size < 2 * Len(data) + 1 THEN Refused
    ELSE Joined([i \in DOMAIN data |-> ByteToHex(data[i])])[Len(data)]

ReverseBinaryToHex(data, size) == BinaryToHex(Reverse(data), size)

\* As many bytes as are valid and fit.
HexToBinary(t, size) ==
    LET Pair(i) == HexToByte(t[2 * i - 1], t[2 * i])
        most == IF Len(t) \div 2 < size THEN Len(t) \div 2 ELSE size
        n == CHOOSE n \in 0 .. most :
                 /\ \A i \in 1 .. n : Pair(i) >= 0
                 /\ n = most \/ Pair(n + 1) < 0
    IN  [i \in 1 .. n |-> Pair(i)]

UInt16Size == 256 * 256

PowersOfTen ==
    LET thousand == 1000
    IN  <<1, 10, 100, thousand, 10 * thousand, 100 * thousand, thousand * thousand,
          10 * thousand * thousand, 100 * thousand * thousand, thousand * thousand * thousand>>

Decimal(n) ==
    LET Abs == IF n < 0 THEN -n ELSE n
        k == CHOOSE k \in 1 .. 10 : /\ k = 1 \/ Abs >= PowersOfTen[k]
                                    /\ k = 10 \/ Abs < PowersOfTen[k + 1]
    IN  (IF n < 0 THEN <<Minus>> ELSE <<>>)
          \o [i \in 1 .. k |-> Zero + ((Abs \div PowersOfTen[k - i + 1]) % 10)]

\* strtol(): the number and the position behind it; the position is from when
\* there is no number.
IsDigit(c, base) == HexToNibble(c) \in 0 .. base - 1

AfterSpace(t, from) ==
    CHOOSE i \in from .. Len(t) + 1 :
        ~IsSpace(At(t, i)) /\ \A j \in from .. i - 1 : IsSpace(t[j])

AfterSign(t, i) == IF At(t, i) \in {Plus, Minus} THEN i + 1 ELSE i

AfterPrefix(t, i, base) ==
    IF /\ base = 16 /\ At(t, i) = Zero
       /\ At(t, i + 1) \in {LowerX, LowerX - 32} /\ IsDigit(At(t, i + 2), base)
    THEN i + 2 ELSE i

AfterDigits(t, first, base) ==
    CHOOSE i \in first .. Len(t) + 2 :
        ~IsDigit(At(t, i), base) /\ \A j \in first .. i - 1 : IsDigit(At(t, j), base)

DigitStep(t, base) ==
    [s \in [pos : Nat, value : Nat] |->
        [pos |-> s.pos + 1, value |-> s.value * base + HexToNibble(t[s.pos])]]

Strtol(t, from, base) ==
    LET start == AfterSpace(t, from)
        first == AfterPrefix(t, AfterSign(t, start), base)
        end == AfterDigits(t, first, base)
        zero == [pos |-> first, value |-> 0]
        value == Loop(DigitStep(t, base), zero, end - first)[end - first].value
    IN  IF end = first THEN [value |-> 0, end |-> from]
        ELSE [value |-> IF At(t, start) = Minus THEN -value ELSE value, end |-> end]

-----------------------------------------------------------------------------
(* Escapes. *)

Escaped == [c \in {CR, LF, TAB, BS, Quote, Backslash, 0} |->
              CASE c = CR  -> LowerR [] c = LF -> LowerN [] c = TAB -> LowerT
                [] c = BS  -> LowerB [] c = 0  -> Zero   [] OTHER -> c]

Unescaped == [e \in {Escaped[c] : c \in DOMAIN Escaped} |->
                CHOOSE c \in DOMAIN Escaped : Escaped[c] = e]

EscapeCharacter(c) ==
    CASE c \in DOMAIN Escaped -> <<Backslash, Escaped[c]>>
      [] c \notin DOMAIN Escaped /\ IsPrint(c) -> <<c>>
      [] OTHER -> <<Backslash, LowerX>> \o ByteToHex(c)

Escape(t) == Joined([i \in 1 .. Len(t) |-> EscapeCharacter(t[i])])[Len(t)]
Quoted(t) == <<Quote>> \o t \o <<Quote>>

\* uCxAtUtilWriteEscString(): the quotes count, and one more byte must be free
\* after every character but the first quote.
WriteEscString(t, size) ==
    IF size < 3 \/ (t # <<>> /\ Len(Escape(t)) + 2 >= size) THEN Refused
    ELSE Quoted(Escape(t))

\* One step of unescapeString(), which reads at s.r and writes at s.w of the buffer
\* the string is in: c and e are the next two bytes, hex the byte the two behind make.
UnescapeNext(s, c, e, hex) ==
    LET Put(b, n) == [mem |-> [s.mem EXCEPT ![s.w] = b], r |-> s.r + n, w |-> s.w + 1]
        Both == [mem |-> [s.mem EXCEPT ![s.w] = Backslash, ![s.w + 1] = e],
                 r |-> s.r + 2, w |-> s.w + 2]
    IN  CASE c = 0 -> s
          [] c # 0 /\ (c # Backslash \/ e = 0) -> Put(c, 1)
          [] c = Backslash /\ e \in DOMAIN Unescaped -> Put(Unescaped[e], 2)
          [] c = Backslash /\ e = LowerX -> IF hex >= 0 THEN Put(hex, 4) ELSE Put(e, 2)
          [] OTHER -> Both

UnescapeStep ==
    [s \in [mem : Seq(Byte), r : Nat, w : Nat] |->
        UnescapeNext(s, At(s.mem, s.r), At(s.mem, s.r + 1),
                     HexToByte(At(s.mem, s.r + 2), At(s.mem, s.r + 3)))]

UnescapeString(t) ==
    LET end == Loop(UnescapeStep, [mem |-> t, r |-> 1, w |-> 1], Len(t))[Len(t)]
    IN  SubSeq(end.mem, 1, end.w - 1)

-----------------------------------------------------------------------------
(* Addresses and lists: the value, or Bad. *)

Bad == [kind |-> "bad"]

\* A number of an address was read: n is what strtol() found, and good is whether it may
\* stand there.
PartNext(s, n, good, part) ==
    IF s.ok /\ good THEN [ok |-> TRUE, pos |-> n.end + 1, part |-> Append(s.part, part)]
    ELSE [s EXCEPT !.ok = FALSE]

Reading == [ok : BOOLEAN, pos : Nat, part : Seq(Nat)]

IPv4Step(t) ==
    [s \in Reading |->
        LET n == Strtol(t, s.pos, 10)
            good == /\ IsDecimal(At(t, s.pos))
                    /\ n.value \in Byte
                    /\ At(t, n.end) = (IF Len(s.part) < 3 THEN Dot ELSE 0)
        IN  PartNext(s, n, good, n.value)]

IPv6Step(t, block) ==
    [s \in Reading |->
        LET n == Strtol(t, s.pos, 16)
            good == /\ At(t, s.pos) # 0
                    /\ n.end - s.pos <= 4
                    /\ IF Len(s.part) < 7 THEN At(t, n.end) = Colon
                       ELSE SubSeq(t, n.end, Len(t)) = IF block THEN <<Close>> ELSE <<>>
        IN  PartNext(s, n, good, n.value % UInt16Size)]

StringToIPv4(t) ==
    LET end == Loop(IPv4Step(t), [ok |-> TRUE, pos |-> 1, part |-> <<>>], 4)[4]
    IN  IF end.ok THEN [kind |-> "i", type |-> "v4", part |-> end.part] ELSE Bad

StringToIPv6(t) ==
    LET block == At(t, 1) = Open
        start == [ok |-> TRUE, pos |-> IF block THEN 2 ELSE 1, part |-> <<>>]
        end == Loop(IPv6Step(t, block), start, 8)[8]
    IN  IF end.ok THEN [kind |-> "i", type |-> "v6", part |-> end.part] ELSE Bad

StringToIpAddress(t) ==
    IF \E i \in DOMAIN t : t[i] = Dot THEN StringToIPv4(t) ELSE StringToIPv6(t)

Between(parts, separator) ==
    Joined([i \in DOMAIN parts |-> (IF i > 1 THEN <<separator>> ELSE <<>>) \o parts[i]])[Len(parts)]

Bracketed(t) == <<Open>> \o t \o <<Close>>

IpAddressToString(a, size) ==
    LET octets == [i \in DOMAIN a.part |-> Decimal(a.part[i])]
        groups == [i \in DOMAIN a.part |-> ByteToHex(a.part[i] \div 256)
                                             \o ByteToHex(a.part[i] % 256)]
        Lower(t) == [i \in DOMAIN t |-> IF t[i] >= UpperA THEN t[i] + 32 ELSE t[i]]
        text == IF a.type = "v4" THEN Between(octets, Dot)
                ELSE Bracketed(Between([i \in DOMAIN groups |-> Lower(groups[i])], Colon))
    IN  IF Len(text) >= size THEN Refused ELSE text

FindBdAddressType(t) ==
    CASE Last(t) = LowerR -> "random"
      [] Last(t) = LowerP -> "public"
      [] OTHER -> IF Len(t) = 12 THEN "public" ELSE "none"

StringToBdAddress(t) ==
    LET address == HexToBinary(t, 6)
    IN  IF t = <<>> \/ FindBdAddressType(t) = "none" \/ Len(address) # 6 THEN Bad
        ELSE [kind |-> "b", type |-> FindBdAddressType(t), address |-> address]

BdAddressToString(a, size) ==
    IF size < 14 THEN Refused
    ELSE BinaryToHex(a.address, size)
           \o <<IF a.type = "random" THEN LowerR ELSE LowerP>>

StringToMacAddress(t) ==
    LET address == HexToBinary(t, 6)
    IN  IF Len(t) # 12 \/ Len(address) # 6 THEN Bad
        ELSE [kind |-> "m", address |-> address]

MacAddressToString(a, size) == BinaryToHex(a.address, size)

IntListText(list) == Bracketed(Between([i \in DOMAIN list |-> Decimal(list[i])], Comma))

IntListToString(list, size) ==
    IF Len(IntListText(list)) >= size THEN Refused ELSE IntListText(list)

\* int16_t, and it in two bytes
Int16s == -(UInt16Size \div 2) .. UInt16Size \div 2 - 1
Int16Bytes(v) == <<(v % UInt16Size) % 256, (v % UInt16Size) \div 256>>
Int16(low, high) ==
    LET u == low + 256 * high
    IN  IF u >= UInt16Size \div 2 THEN u - UInt16Size ELSE u

\* The values are written over the text they are read from: value i into the
\* bytes 2i - 1 and 2i.
IntListStep(count) ==
    [s \in [ok : BOOLEAN, done : Nat, pos : Nat, mem : Seq(Byte)] |->
        LET n == Strtol(s.mem, s.pos, 10)
            i == s.done + 1
            two == Int16Bytes(n.value)
        IN  IF /\ s.ok
               /\ n.end # s.pos
               /\ n.value \in Int16s
               /\ i < count => At(s.mem, n.end) = Comma
            THEN [ok |-> TRUE, done |-> i, pos |-> IF i < count THEN n.end + 1 ELSE n.end,
                  mem |-> [s.mem EXCEPT ![2 * i - 1] = two[1], ![2 * i] = two[2]]]
            ELSE [s EXCEPT !.ok = FALSE]]

StringToIntList(t) ==
    LET count == 1 + Cardinality({i \in 2 .. Len(t) - 1 : t[i] = Comma})
        start == [ok |-> TRUE, done |-> 0, pos |-> 2, mem |-> t]
        end == Loop(IntListStep(count), start, count)[count]
    IN  IF At(t, 1) = Open /\ At(t, 2) = Close THEN [kind |-> "l", list |-> <<>>]
        ELSE IF Len(t) >= 3 /\ At(t, 1) = Open /\ end.ok /\ At(end.mem, end.pos) = Close
        THEN [kind |-> "l",
              list |-> [i \in 1 .. count |-> Int16(end.mem[2 * i - 1], end.mem[2 * i])]]
        ELSE Bad

\* The bytes are written over the hex digits they are read from.
ByteNext(s, b) ==
    IF s.ok /\ b >= 0
    THEN [ok |-> TRUE, done |-> s.done + 1, mem |-> [s.mem EXCEPT ![s.done + 1] = b]]
    ELSE [s EXCEPT !.ok = FALSE]

ByteStep ==
    [s \in [ok : BOOLEAN, done : Nat, mem : Seq(Byte)] |->
        ByteNext(s, HexToByte(s.mem[2 * s.done + 1], s.mem[2 * s.done + 2]))]

StringToByteArray(t) ==
    LET n == Len(t) \div 2
        end == Loop(ByteStep, [ok |-> TRUE, done |-> 0, mem |-> t], n)[n]
    IN  IF Len(t) % 2 = 0 /\ end.ok THEN [kind |-> "h", data |-> SubSeq(end.mem, 1, n)] ELSE Bad

-----------------------------------------------------------------------------
(* Reading parameters. *)

Scanning == [pos : Nat, escape : BOOLEAN, string : BOOLEAN, bracket : BOOLEAN]

\* An escaped quote ends a string.
ScanNext_NoEscape(s, c) ==
    [pos |-> s.pos + 1, escape |-> FALSE,
     string |-> IF c = Quote THEN ~s.string ELSE s.string,
     bracket |-> IF s.string THEN s.bracket ELSE c = Open \/ (s.bracket /\ c # Close)]

\* What a character changes for those behind it.
ScanNext(s, c) ==
    [pos |-> s.pos + 1,
     escape |-> ~s.escape /\ c = Backslash,
     string |-> IF s.escape \/ c = Backslash THEN s.string
                ELSE IF s.string THEN c # Quote ELSE c = Quote,
     bracket |-> IF s.escape \/ c = Backslash \/ s.string THEN s.bracket
                 ELSE c = Open \/ (s.bracket /\ c # Close)]

ScanStep(t) ==
    [s \in Scanning |->
        IF \/ s.pos > Len(t)
           \/ At(t, s.pos) = Comma /\ ~s.escape /\ ~s.string /\ ~s.bracket
        THEN s ELSE ScanNext(s, At(t, s.pos))]

\* Where the parameter that begins at from ends: at a comma outside of strings
\* and brackets, or behind the text; 0 stands for NULL.
FindParamEnd(t, from) ==
    LET start == [pos |-> from, escape |-> FALSE, string |-> FALSE, bracket |-> FALSE]
        end == Loop(ScanStep(t), start, Len(t))[Len(t)]
    IN  IF end.escape \/ end.string \/ end.bracket THEN 0 ELSE end.pos

\* The value of a parameter, by the format character; Bad ends the parsing.
ParseParam(kind, p) ==
    LET n == Strtol(p, 1, 10)
        unquoted == SubSeq(p, 2, Len(p) - 1)
        unclosed == SubSeq(p, 2, Len(p))
    IN  CASE kind = "-" -> [kind |-> "-"]
          [] kind = "d" -> IF (At(p, 1) = Minus \/ IsDecimal(At(p, 1))) /\ n.end > Len(p)
                           THEN [kind |-> "d", value |-> n.value] ELSE Bad
          [] kind = "s" -> [kind |-> "s", text |->
                              CString(UnescapeString(IF At(p, 1) = Quote THEN unquoted ELSE p))]
          [] kind = "$" -> [kind |-> "$", text |->
                              UnescapeString(CASE At(p, 1) # Quote -> p
                                               [] At(p, 1) = Quote /\ Len(p) > 1 /\ Last(p) = Quote
                                                    -> unquoted
                                               [] OTHER -> unclosed)]
          [] kind = "i" -> StringToIpAddress(p)
          [] kind = "m" -> StringToMacAddress(p)
          [] kind = "b" -> StringToBdAddress(p)
          [] kind = "l" -> StringToIntList(p)
          [] kind = "h" -> StringToByteArray(p)

Value ==
    [kind : {"-"}] \cup [kind : {"d"}, value : Int] \cup [kind : {"s", "$"}, text : Seq(Byte)]
      \cup [kind : {"i"}, type : {"v4", "v6"}, part : Seq(0 .. UInt16Size - 1)]
      \cup [kind : {"m"}, address : Seq(Byte)]
      \cup [kind : {"b"}, type : {"random", "public"}, address : Seq(Byte)]
      \cup [kind : {"l"}, list : Seq(Int)] \cup [kind : {"h"}, data : Seq(Byte)]

\* What the value of the next parameter, which ends at end, changes; last is whether the
\* text ends with it.
ParseNext(s, end, value, last) ==
    IF value = Bad THEN [s EXCEPT !.ret = -(s.ret + 1), !.over = TRUE]
    ELSE [ret |-> s.ret + 1, over |-> last, pos |-> end + 1, vals |-> Append(s.vals, value)]

ParseStep(t, fmt) ==
    [s \in [ret : Int, over : BOOLEAN, pos : Nat, vals : Seq(Value)] |->
        LET end == FindParamEnd(t, s.pos)
            value == IF end = 0 THEN Bad
                     ELSE ParseParam(fmt[s.ret + 1], SubSeq(t, s.pos, end - 1))
        IN  IF s.over THEN s ELSE ParseNext(s, end, value, end > Len(t))]

\* The number of parameters read, or minus the number of the one that failed,
\* and the values. A text with fewer parameters than the format is no error.
ParseParams(t, fmt) ==
    LET start == [ret |-> 0, over |-> FALSE, pos |-> 1, vals |-> <<>>]
        end == Loop(ParseStep(t, fmt), start, Len(fmt))[Len(fmt)]
    IN  [ret |-> end.ret, vals |-> end.vals]

-----------------------------------------------------------------------------
(* Writing arguments. *)

\* A string that does not fit the buffer with its escapes goes out without them.
WriteString(t) ==
    IF WriteEscString(t, FormatBufLen) # Refused THEN WriteEscString(t, FormatBufLen)
    ELSE Quoted(t)

WriteArg(v) ==
    CASE v.kind = "d" -> Decimal(v.value)
      [] v.kind = "l" -> IntListText(v.list)
      [] v.kind = "s" -> WriteString(CString(v.text))
      [] v.kind = "$" -> WriteString(v.text)
      [] v.kind = "i" -> IpAddressToString(v, FormatBufLen)
      [] v.kind = "m" -> MacAddressToString(v, FormatBufLen)
      [] v.kind = "b" -> BdAddressToString(v, FormatBufLen)
      [] v.kind = "h" -> BinaryToHex(v.data, 2 * Len(v.data) + 1)
      [] v.kind = "B" -> <<SOH, Len(v.data) \div 256, Len(v.data) % 256>> \o v.data

\* A comma goes before every argument but the first and binary data.
Arguments(args) ==
    LET separator(i) == IF i > 1 /\ args[i].kind # "B" THEN <<Comma>> ELSE <<>>
    IN  Joined([i \in DOMAIN args |-> separator(i) \o WriteArg(args[i])])[Len(args)]

\* The command as it goes out: a carriage return ends it unless binary data do.
SendCmd(cmd, args) ==
    cmd \o Arguments(args)
      \o (IF args # <<>> /\ Last(args).kind = "B" THEN <<>> ELSE <<CR>>)

MaxInt32 == (UInt16Size \div 2 - 1) * UInt16Size + (UInt16Size - 1)
Int32s == -MaxInt32 - 1 .. MaxInt32

\* What an argument may be, by its C type
Argument ==
    [kind : {"d"}, value : Int32s]
      \cup [kind : {"s"}, text : Seq(Byte \ {0})] \cup [kind : {"$"}, text : Seq(Byte)]
      \cup [kind : {"i"}, type : {"v4"}, part : [1 .. 4 -> Byte]]
      \cup [kind : {"i"}, type : {"v6"}, part : [1 .. 8 -> 0 .. UInt16Size - 1]]
      \cup [kind : {"m"}, address : [1 .. 6 -> Byte]]
      \cup [kind : {"b"}, type : {"random", "public"}, address : [1 .. 6 -> Byte]]
      \cup [kind : {"l"}, list : Seq(Int16s)] \cup [kind : {"h"}, data : Seq(Byte)]

\* A string is written with its escapes, or there is nothing in it to escape.
KeepsEscapes(t) == WriteEscString(t, FormatBufLen) # Refused \/ Escape(t) = t

\* The format that reads what these arguments are written as
Formats(args) == [i \in DOMAIN args |-> args[i].kind]

=============================================================================
