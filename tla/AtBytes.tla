------------------------------- MODULE AtBytes ------------------------------
(***************************************************************************)
(* The bytes that have a meaning on the line to the module, the tests of   *)
(* ctype.h on them, and what texts are built and read with. The recursive  *)
(* definitions are functions, which can be reasoned about.                 *)
(***************************************************************************)
EXTENDS Integers, Sequences

MaxByte == 255
Byte == 0 .. MaxByte

SOH == 1      BS == 8       TAB == 9      LF == 10      CR == 13
Space == 32   Quote == 34   Star == 42    Plus == 43    Comma == 44
Minus == 45   Dot == 46     Zero == 48    Colon == 58   UpperA == 65
Open == 91    Backslash == 92             Close == 93   LowerA == 97
LowerB == 98  LowerN == 110               LowerP == 112 LowerR == 114
LowerT == 116 LowerX == 120

OkText == <<79, 75>>                 \* "OK"
ErrorText == <<69, 82, 82, 79, 82>>  \* "ERROR"
EchoText == <<65, 84, 43>>           \* "AT+"

IsPrint(c) == c \in 32 .. 126
IsSpace(c) == c \in 9 .. 13 \cup {Space}
IsDecimal(c) == c \in Zero .. Zero + 9

StartsWith(t, start) == Len(start) <= Len(t) /\ SubSeq(t, 1, Len(start)) = start
FirstOf(t, n) == SubSeq(t, 1, IF n < Len(t) THEN n ELSE Len(t))
Behind(t, n) == SubSeq(t, n + 1, Len(t))

\* What the parts of a sequence make one behind the other, after each of them
Joined(parts) ==
    LET joined[i \in 0 .. Len(parts)] ==
            IF i = 0 THEN <<>> ELSE joined[i - 1] \o parts[i]
    IN  joined

\* A loop: the states it goes through in n rounds. A step is a function on states.
Loop(step, start, n) ==
    LET state[i \in 0 .. n] == IF i = 0 THEN start ELSE step[state[i - 1]]
    IN  state
=============================================================================
