----------------------------- MODULE MCAtParser -----------------------------
(***************************************************************************)
(* Messages of every kind and with every kind of argument for AtArguments. *)
(***************************************************************************)
EXTENDS AtArguments

Printable == " !\"#$%&'()*+,-./0123456789:;<=>?@ABCDEFGHIJKLMNOPQRSTUVWXYZ[\\]^_"
Small == "abcdefghijklmnopqrstuvwxyz"

\* The bytes of a string of the module, without braces and the like
Text(s) ==
    LET Of(table, c, first) ==
            {first + k : k \in {k \in 0 .. Len(table) - 1 : SubSeq(table, k + 1, k + 1) = c}}
        Code(c) == CHOOSE b \in Of(Printable, c, 32) \cup Of(Small, c, LowerA) : TRUE
    IN  [i \in 1 .. Len(s) |-> Code(SubSeq(s, i, i))]

MCPrefix == Text("+A:")

Plain(kind, text) ==
    [kind |-> kind, text |-> text, binary |-> FALSE, data |-> <<>>, args |-> <<>>]
WithData(kind, text, data) == [Plain(kind, text) EXCEPT !.binary = TRUE, !.data = data]
WithArgs(args) ==
    [Plain("answer", MCPrefix \o Arguments(args)) EXCEPT !.args = args]

Framing ==
    { Plain("status", Text("OK")),
      Plain("status", Text("ERROR:12")),
      Plain("noise", Text("ERROR:x")),
      Plain("plain", Text("OKb")),
      Plain("noise", Text("AT+A?")),
      Plain("event", Text("*U")),
      Plain("answer", MCPrefix \o <<195, 169>>),
      WithData("event", Text("+U"), <<SOH, CR, LF>>),
      WithData("answer", MCPrefix, <<LF, SOH, 200, CR, 0>>),
      WithData("answer", MCPrefix, <<>>),
      WithData("noise", <<>>, Text("+A:")) }

\* One fills the buffer and leaves nothing, the other leaves the end of its line.
Overlong == { Plain("event", MCPrefix \o [i \in 1 .. RxBufferLen - 3 |-> LowerA]),
              Plain("plain", MCPrefix \o [i \in 1 .. RxBufferLen |-> LowerA]) }

\* Values of each kind, the characters that mean something to a parser among them
Awkward == {Quote, Comma, Backslash, Open, Close, CR, 0, 200, LowerN, LowerX, Zero}
Strings == UNION {[1 .. n -> Awkward] : n \in 0 .. 2}
             \cup [1 .. 3 -> {Quote, Comma, Backslash, Zero}]
             \cup {[i \in 1 .. 45 |-> LowerA], <<Backslash, LowerX, 52, 49>>,
                   <<CR, LF, TAB, BS>>, Text("a,[b],c")}
Ints == {0, -1, 9, 10, -305, 32767, 99999999}
Lists == UNION {[1 .. n -> {0, -1, 300, -32768, 32767}] : n \in 0 .. 2}
           \cup {<<1, 2, 3, 4, 5>>, <<7, -2, 9, 10>>}
Datas == {<<>>, <<0>>, <<255, 1>>, <<16, 32, 171, 205, 9>>}
Addresses == {<<0, 17, 34, 51, 68, 85>>, <<255, 171, 205, 239, 0, 10>>}

Values ==
    {[kind |-> "d", value |-> i] : i \in Ints}
      \cup {[kind |-> "$", text |-> t] : t \in Strings}
      \cup {[kind |-> "s", text |-> CString(t)] : t \in Strings}
      \cup {[kind |-> "l", list |-> l] : l \in Lists}
      \cup {[kind |-> "h", data |-> d] : d \in Datas}
      \cup {[kind |-> "m", address |-> a] : a \in Addresses}
      \cup {[kind |-> "b", type |-> ty, address |-> a] :
              ty \in {"random", "public"}, a \in Addresses}
      \cup {[kind |-> "i", type |-> "v4", part |-> p] :
              p \in {<<0, 0, 0, 0>>, <<10, 0, 255, 1>>}}
      \cup {[kind |-> "i", type |-> "v6", part |-> p] :
              p \in {[i \in 1 .. 8 |-> 0], <<8193, 3512, 0, 43981, 65535, 16, 9, 1>>}}

Seven == [kind |-> "d", value |-> 7]
Calls == {<<v>> : v \in Values} \cup {<<v, Seven>> : v \in Values}
           \cup {<<Seven, v>> : v \in Values}

\* What a command expects: nothing, the response that is sent, or that of another one
MCExpectations == {<<>>, MCPrefix, Text("+B:")}

MCMessages == Framing \cup Overlong \cup {WithArgs(c) : c \in Calls}

MCStreams ==
    {<<m, n>> : m, n \in Framing} \cup {<<m, Plain("status", Text("OK"))>> : m \in Overlong}
      \cup {<<WithArgs(c)>> : c \in Calls}

=============================================================================
