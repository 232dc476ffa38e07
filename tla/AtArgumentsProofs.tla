-------------------------- MODULE AtArgumentsProofs --------------------------
(***************************************************************************)
(* Two theorems about arguments, for every size of the buffers that holds  *)
(* them: what is written of arguments of every kind is read as these       *)
(* arguments, and a command that expects a response with arguments gets    *)
(* from its line those that the module wrote.                              *)
(*                                                                         *)
(* A parameter is found by a scan that knows strings, brackets and         *)
(* escapes, and it is converted by a parser of its kind. So what has to    *)
(* hold of each argument is that its text is one parameter to the scan,    *)
(* which has no comma where the scan would end at it, and that the parser  *)
(* of its kind undoes it (ReadsBack). Arguments with texts like that are   *)
(* found one by one, whatever is written around them (ArgumentsRead); the  *)
(* rest of the module is about the kinds. For most of them the text has    *)
(* characters only that mean nothing to the scan. A string has all of      *)
(* them, and an invariant of the scan says in which state it is before     *)
(* each character that is written (InString). An address of IPv6 and a     *)
(* list have their commas and colons between brackets.                     *)
(*                                                                         *)
(* The parsers are loops, and their steps are functions on states. A state *)
(* is known after each round: of a string what is unescaped, of a number   *)
(* the digits that were read, of a list the numbers whose bytes stand at   *)
(* the beginning of the buffer, in front of what has not been read. That   *)
(* the conversion in place never gets ahead of what it reads is why lists  *)
(* arrive (ListSoFar).                                                     *)
(*                                                                         *)
(* To the line the arguments come as a text like any other. All of it      *)
(* prints and fits into the buffer, so the line is this text (AllIsKept),  *)
(* and what the log holds of a line is what stands behind the response     *)
(* that was expected (ParamsInv).                                          *)
(***************************************************************************)
EXTENDS AtArguments, AtParserProofs, FiniteSetTheorems
-----------------------------------------------------------------------------
(* Loops. *)

LEMMA LoopUnfolds ==
    ASSUME NEW step, NEW start, NEW n \in Nat
    PROVE  /\ Loop(step, start, n)[0] = start
           /\ \A i \in 1 .. n : Loop(step, start, n)[i] = step[Loop(step, start, n)[i - 1]]
<1>6. \E f : f = [i \in 0 .. n |-> IF i = 0 THEN start ELSE step[f[i - 1]]]
  <2>. DEFINE Ends(m) == \E f : f = [i \in 0 .. m |-> IF i = 0 THEN start ELSE step[f[i - 1]]]
              S == {m \in Nat : Ends(m)}
  <2>1. Ends(0)
    <3>. DEFINE f == [i \in 0 .. 0 |-> start]
    <3>1. f = [i \in 0 .. 0 |-> IF i = 0 THEN start ELSE step[f[i - 1]]]
      OBVIOUS
    <3>. HIDE DEF f
    <3>. QED BY <3>1
  <2>2. ASSUME NEW m \in 1 .. n, Ends(m - 1)
        PROVE  Ends(m)
    <3>1. PICK g : g = [i \in 0 .. m - 1 |-> IF i = 0 THEN start ELSE step[g[i - 1]]]
      BY <2>2
    <3>. DEFINE f == [i \in 0 .. m |-> IF i = m THEN step[g[m - 1]] ELSE g[i]]
    <3>2. \A i \in 0 .. m - 1 : f[i] = g[i]
      OBVIOUS
    <3>3. \A i \in 0 .. m : f[i] = IF i = 0 THEN start ELSE step[f[i - 1]]
      <4>. TAKE i \in 0 .. m
      <4>1. CASE i = m
        <5>1. m \in 0 .. m /\ m - 1 \in 0 .. m - 1 /\ m # 0
          OBVIOUS
        <5>2. f[m - 1] = g[m - 1]
          BY <3>2, <5>1
        <5>3. f[m] = step[g[m - 1]]
          BY <5>1
        <5>. HIDE DEF f
        <5>. QED BY <4>1, <5>1, <5>2, <5>3
      <4>2. CASE i # m /\ i = 0
        <5>1. 0 \in 0 .. m - 1
          OBVIOUS
        <5>2. g[0] = start
          BY <3>1, <5>1
        <5>. HIDE DEF f
        <5>. QED BY <3>2, <4>2, <5>1, <5>2
      <4>3. CASE i # m /\ i # 0
        <5>1. i \in 0 .. m - 1 /\ i - 1 \in 0 .. m - 1
          BY <4>3
        <5>2. g[i] = step[g[i - 1]]
          BY <3>1, <4>3, <5>1
        <5>3. f[i] = g[i] /\ f[i - 1] = g[i - 1]
          BY <3>2, <5>1
        <5>. HIDE DEF f
        <5>. QED BY <4>3, <5>2, <5>3
      <4>. QED BY <4>1, <4>2, <4>3
    <3>4. f = [i \in 0 .. m |-> f[i]]
      OBVIOUS
    <3>. HIDE DEF f
    <3>5. f = [i \in 0 .. m |-> IF i = 0 THEN start ELSE step[f[i - 1]]]
      BY <3>3, <3>4
    <3>. QED BY <3>5
  <2>. HIDE DEF Ends
  <2>3. 0 \in S /\ \A i \in 1 .. n : i - 1 \in S => i \in S
    BY <2>1, <2>2
  <2>4. \A i \in 0 .. n : i \in S
    BY <2>3, Induction
  <2>5. Ends(n)
    BY <2>4
  <2>. QED BY <2>5 DEF Ends
<1>1. Loop(step, start, n) = [i \in 0 .. n |-> IF i = 0 THEN start
                                                ELSE step[Loop(step, start, n)[i - 1]]]
  <2>. DEFINE L == CHOOSE f : f = [i \in 0 .. n |-> IF i = 0 THEN start ELSE step[f[i - 1]]]
  <2>1. L = [i \in 0 .. n |-> IF i = 0 THEN start ELSE step[L[i - 1]]]
    BY <1>6
  <2>2. Loop(step, start, n) = L
    BY DEF Loop
  <2>. HIDE DEF L
  <2>. QED BY <2>1, <2>2
<1>2. 0 \in 0 .. n
  OBVIOUS
<1>. DEFINE L == Loop(step, start, n)
<1>3. L = [i \in 0 .. n |-> IF i = 0 THEN start ELSE step[L[i - 1]]]
  BY <1>1
<1>. HIDE DEF L
<1>4. L[0] = start
  BY <1>2, <1>3, Zenon
<1>5. ASSUME NEW i \in 1 .. n PROVE L[i] = step[L[i - 1]]
  <2>1. i \in 0 .. n /\ i # 0
    OBVIOUS
  <2>. QED BY <1>3, <2>1, Zenon
<1>. QED BY <1>4, <1>5 DEF L

\* A loop that has come to rest stays as it is.
LEMMA LoopRests ==
    ASSUME NEW step, NEW start, NEW n \in Nat, NEW k \in 0 .. n, NEW s,
           Loop(step, start, n)[k] = s, step[s] = s
    PROVE  Loop(step, start, n)[n] = s
<1>. DEFINE L == Loop(step, start, n)  S == {d \in Nat : k + d <= n => L[k + d] = s}
<1>1. \A i \in 1 .. n : L[i] = step[L[i - 1]]
  BY LoopUnfolds
<1>2. L[k] = s
  OBVIOUS
<1>. HIDE DEF L
<1>3. 0 \in S
  BY <1>2
<1>4. ASSUME NEW d \in 1 .. n - k, d - 1 \in S PROVE d \in S
  <2>1. d \in Nat /\ k + (d - 1) <= n /\ k + d \in 1 .. n /\ (k + d) - 1 = k + (d - 1)
    OBVIOUS
  <2>2. L[k + (d - 1)] = s
    BY <1>4, <2>1
  <2>. QED BY <1>1, <2>1, <2>2
<1>5. n - k \in Nat /\ n - k \in 0 .. n - k /\ k + (n - k) = n
  OBVIOUS
<1>. HIDE DEF S
<1>6. n - k \in S
  BY <1>3, <1>4, <1>5, Induction
<1>. QED BY <1>5, <1>6 DEF S, L

-----------------------------------------------------------------------------
(* Hex digits. *)

LEMMA NibbleFacts ==
    ASSUME NEW n \in 0 .. 15
    PROVE  /\ NibbleToHex(n) \in Zero .. Zero + 9 \cup UpperA .. UpperA + 5
           /\ HexToNibble(NibbleToHex(n)) = n
<1>1. CASE n < 10
  <2>1. NibbleToHex(n) = 48 + n
    BY <1>1 DEF NibbleToHex, Zero
  <2>2. 48 + n \in 48 .. 57
    BY <1>1
  <2>3. HexToNibble(48 + n) = n
    BY <2>2 DEF HexToNibble, Zero, LowerA, UpperA
  <2>. QED BY <2>1, <2>2, <2>3 DEF Zero
<1>2. CASE n >= 10
  <2>1. NibbleToHex(n) = 55 + n
    BY <1>2 DEF NibbleToHex, UpperA
  <2>2. 55 + n \in 65 .. 70
    BY <1>2
  <2>3. HexToNibble(55 + n) = n
    BY <2>2 DEF HexToNibble, Zero, LowerA, UpperA
  <2>. QED BY <2>1, <2>2, <2>3 DEF UpperA
<1>. QED BY <1>1, <1>2

HexDigits == Zero .. Zero + 9 \cup UpperA .. UpperA + 5

LEMMA HexFacts ==
    ASSUME NEW b \in Byte
    PROVE  /\ ByteToHex(b) \in Seq(Byte) /\ Len(ByteToHex(b)) = 2
           /\ ByteToHex(b)[1] \in HexDigits /\ ByteToHex(b)[2] \in HexDigits
           /\ HexToByte(ByteToHex(b)[1], ByteToHex(b)[2]) = b
<1>. DEFINE hi == b \div 16  lo == b % 16  x == NibbleToHex(hi)  y == NibbleToHex(lo)
<1>1. b \in Nat /\ b <= 255
  BY DEF Byte, MaxByte
<1>2. hi \in 0 .. 15 /\ lo \in 0 .. 15 /\ b = 16 * hi + lo
  BY <1>1
<1>. HIDE DEF hi, lo
<1>3. x \in HexDigits /\ y \in HexDigits /\ HexToNibble(x) = hi /\ HexToNibble(y) = lo
  BY <1>2, NibbleFacts DEF HexDigits
<1>4. ByteToHex(b) = <<x, y>>
  BY DEF ByteToHex, hi, lo
<1>. HIDE DEF x, y
<1>5. HexDigits \subseteq Byte
  BY DEF HexDigits, Byte, MaxByte, Zero, UpperA
<1>6. HexToByte(x, y) = b
  BY <1>2, <1>3 DEF HexToByte
<1>. QED BY <1>3, <1>4, <1>5, <1>6

-----------------------------------------------------------------------------
(* Escapes. *)

Plainly(c) == IsPrint(c) /\ c \notin DOMAIN Escaped

LEMMA EscapedFacts ==
    ASSUME NEW c \in DOMAIN Escaped
    PROVE  /\ Escaped[c] \in {LowerR, LowerN, LowerT, LowerB, Zero, Quote, Backslash}
           /\ \A d \in DOMAIN Escaped : Escaped[d] = Escaped[c] => d = c
BY DEF Escaped, CR, LF, TAB, BS, Quote, Backslash, LowerR, LowerN, LowerT, LowerB, Zero

LEMMA UnescapedFacts ==
    ASSUME NEW c \in DOMAIN Escaped
    PROVE  Escaped[c] \in DOMAIN Unescaped /\ Unescaped[Escaped[c]] = c
<1>. DEFINE Of(e) == CHOOSE d \in DOMAIN Escaped : Escaped[d] = e
<1>1. Escaped[c] \in DOMAIN Unescaped
  BY DEF Unescaped
<1>2. Unescaped[Escaped[c]] = Of(Escaped[c])
  BY <1>1 DEF Unescaped
<1>3. Of(Escaped[c]) \in DOMAIN Escaped /\ Escaped[Of(Escaped[c])] = Escaped[c]
  OBVIOUS
<1>. HIDE DEF Of
<1>4. Of(Escaped[c]) = c
  BY <1>3, EscapedFacts
<1>. QED BY <1>1, <1>2, <1>4

\* The three ways to write a character.
LEMMA EscapeCases ==
    ASSUME NEW c \in Byte
    PROVE  /\ EscapeCharacter(c) \in Seq(Byte) /\ Len(EscapeCharacter(c)) \in 1 .. 4
           /\ \/ /\ c \in DOMAIN Escaped
                 /\ EscapeCharacter(c) = <<Backslash, Escaped[c]>>
              \/ /\ Plainly(c)
                 /\ EscapeCharacter(c) = <<c>>
              \/ /\ ~Plainly(c) /\ c \notin DOMAIN Escaped
                 /\ Len(EscapeCharacter(c)) = 4
                 /\ EscapeCharacter(c)[1] = Backslash /\ EscapeCharacter(c)[2] = LowerX
                 /\ EscapeCharacter(c)[3] = ByteToHex(c)[1]
                 /\ EscapeCharacter(c)[4] = ByteToHex(c)[2]
<1>1. CASE c \in DOMAIN Escaped
  <2>1. EscapeCharacter(c) = <<Backslash, Escaped[c]>>
    BY <1>1 DEF EscapeCharacter
  <2>2. Backslash \in Byte /\ Escaped[c] \in Byte
    BY <1>1, EscapedFacts DEF Byte, MaxByte, Quote, Backslash, LowerR, LowerN, LowerT, LowerB, Zero
  <2>. QED BY <1>1, <2>1, <2>2
<1>2. CASE Plainly(c)
  <2>1. EscapeCharacter(c) = <<c>>
    BY <1>2 DEF EscapeCharacter, Plainly
  <2>. QED BY <1>2, <2>1
<1>3. CASE ~Plainly(c) /\ c \notin DOMAIN Escaped
  <2>1. EscapeCharacter(c) = <<Backslash, LowerX>> \o ByteToHex(c)
    BY <1>3 DEF EscapeCharacter, Plainly
  <2>. DEFINE a == <<Backslash, LowerX>>  h == ByteToHex(c)
  <2>2. a \in Seq(Byte) /\ Len(a) = 2 /\ a[1] = Backslash /\ a[2] = LowerX
    BY DEF Byte, MaxByte, Backslash, LowerX
  <2>3. h \in Seq(Byte) /\ Len(h) = 2
    BY HexFacts
  <2>. HIDE DEF a, h
  <2>4. /\ a \o h \in Seq(Byte) /\ Len(a \o h) = Len(a) + Len(h)
        /\ \A i \in 1 .. Len(a) + Len(h) :
               (a \o h)[i] = IF i <= Len(a) THEN a[i] ELSE h[i - Len(a)]
    BY <2>2, <2>3, ConcatProperties
  <2>5. /\ Len(a \o h) = 4 /\ (a \o h)[1] = Backslash /\ (a \o h)[2] = LowerX
        /\ (a \o h)[3] = h[1] /\ (a \o h)[4] = h[2]
    BY <2>2, <2>3, <2>4
  <2>. QED BY <1>3, <2>1, <2>4, <2>5 DEF a, h
<1>. QED BY <1>1, <1>2, <1>3

LEMMA AtInside ==
    ASSUME NEW t, NEW i \in 1 .. Len(t)
    PROVE  At(t, i) = t[i]
BY DEF At

\* Reading one character: put into the buffer where the last one ended.
LEMMA Unescapes ==
    ASSUME NEW m \in Seq(Byte), NEW r \in Nat, NEW w \in 1 .. r, NEW c \in Byte,
           r + Len(EscapeCharacter(c)) - 1 <= Len(m),
           \A i \in 1 .. Len(EscapeCharacter(c)) : m[r + i - 1] = EscapeCharacter(c)[i]
    PROVE  UnescapeStep[[mem |-> m, r |-> r, w |-> w]]
               = [mem |-> [m EXCEPT ![w] = c], r |-> r + Len(EscapeCharacter(c)), w |-> w + 1]
<1>. DEFINE s == [mem |-> m, r |-> r, w |-> w]  E == EscapeCharacter(c)
            hex == HexToByte(At(m, r + 2), At(m, r + 3))
<1>1. UnescapeStep[s] = UnescapeNext(s, At(m, r), At(m, r + 1), hex)
  <2>1. s \in [mem : Seq(Byte), r : Nat, w : Nat] /\ s.mem = m /\ s.r = r /\ s.w = w
    OBVIOUS
  <2>. HIDE DEF s
  <2>. QED BY <2>1 DEF UnescapeStep
<1>2. E \in Seq(Byte) /\ Len(E) \in 1 .. 4 /\ Len(m) \in Nat
  BY EscapeCases
<1>3. CASE c \in DOMAIN Escaped /\ E = <<Backslash, Escaped[c]>>
  <2>1. Len(E) = 2 /\ E[1] = Backslash /\ E[2] = Escaped[c]
    BY <1>3
  <2>. HIDE DEF E
  <2>2. m[r] = Backslash /\ m[r + 1] = Escaped[c] /\ r \in 1 .. Len(m) /\ r + 1 \in 1 .. Len(m)
    BY <1>2, <2>1 DEF E
  <2>3. At(m, r) = Backslash /\ At(m, r + 1) = Escaped[c]
    BY <2>2, AtInside
  <2>4. Escaped[c] \in DOMAIN Unescaped /\ Unescaped[Escaped[c]] = c
    BY <1>3, UnescapedFacts
  <2>5. Escaped[c] # 0 /\ Escaped[c] # LowerX /\ Backslash # 0
    BY <1>3, EscapedFacts DEF LowerX, Quote, Backslash, LowerR, LowerN, LowerT, LowerB, Zero
  <2>. HIDE DEF hex
  <2>6. UnescapeNext(s, Backslash, Escaped[c], hex)
          = [mem |-> [m EXCEPT ![w] = c], r |-> r + 2, w |-> w + 1]
    <3>. DEFINE y == Escaped[c]
    <3>. HIDE DEF y
    <3>1. UnescapeNext(s, Backslash, y, hex)
            = [mem |-> [m EXCEPT ![w] = Unescaped[y]], r |-> r + 2, w |-> w + 1]
      BY <2>4, <2>5 DEF UnescapeNext, y
    <3>. QED BY <2>4, <3>1 DEF y
  <2>. QED BY <1>1, <2>1, <2>3, <2>6 DEF E
<1>4. CASE Plainly(c) /\ E = <<c>>
  <2>1. Len(E) = 1 /\ E[1] = c
    BY <1>4
  <2>. HIDE DEF E
  <2>2. m[r] = c /\ r \in 1 .. Len(m)
    BY <1>2, <2>1 DEF E
  <2>3. At(m, r) = c
    BY <2>2, AtInside
  <2>4. c # 0 /\ c # Backslash
    BY <1>4 DEF Plainly, Escaped, IsPrint
  <2>. DEFINE e == At(m, r + 1)
  <2>. HIDE DEF hex, e
  <2>5. UnescapeNext(s, c, e, hex) = [mem |-> [m EXCEPT ![w] = c], r |-> r + 1, w |-> w + 1]
    BY <2>4 DEF UnescapeNext
  <2>. QED BY <1>1, <2>1, <2>3, <2>5 DEF E, e
<1>5. CASE /\ c \notin DOMAIN Escaped
           /\ Len(E) = 4 /\ E[1] = Backslash /\ E[2] = LowerX
           /\ E[3] = ByteToHex(c)[1] /\ E[4] = ByteToHex(c)[2]
  <2>. HIDE DEF E
  <2>2. /\ m[r] = Backslash /\ m[r + 1] = LowerX
        /\ m[r + 2] = ByteToHex(c)[1] /\ m[r + 3] = ByteToHex(c)[2]
        /\ r \in 1 .. Len(m) /\ r + 1 \in 1 .. Len(m)
        /\ r + 2 \in 1 .. Len(m) /\ r + 3 \in 1 .. Len(m)
    BY <1>2, <1>5 DEF E
  <2>3. /\ At(m, r) = Backslash /\ At(m, r + 1) = LowerX
        /\ At(m, r + 2) = ByteToHex(c)[1] /\ At(m, r + 3) = ByteToHex(c)[2]
    BY <2>2, AtInside
  <2>4. hex = c /\ c >= 0
    <3>1. c >= 0
      BY DEF Byte
    <3>. QED BY <2>3, <3>1, HexFacts
  <2>5. LowerX \notin DOMAIN Unescaped
    BY EscapedFacts DEF Unescaped, LowerX, Quote, Backslash, LowerR, LowerN, LowerT, LowerB, Zero
  <2>6. Backslash # 0 /\ LowerX # 0
    BY DEF Backslash, LowerX
  <2>. HIDE DEF hex
  <2>7. UnescapeNext(s, Backslash, LowerX, hex)
          = [mem |-> [m EXCEPT ![w] = c], r |-> r + 4, w |-> w + 1]
    BY <2>4, <2>5, <2>6 DEF UnescapeNext
  <2>. QED BY <1>1, <1>5, <2>3, <2>7 DEF E
<1>. QED BY <1>3, <1>4, <1>5, EscapeCases

\* What is written of a text, after each of its characters
Escapes(t) == Joined([i \in 1 .. Len(t) |-> EscapeCharacter(t[i])])

LEMMA EscapesFacts ==
    ASSUME NEW t \in Seq(Byte)
    PROVE  /\ Len(t) \in Nat /\ \A i \in 1 .. Len(t) : t[i] \in Byte
           /\ Escape(t) \in Seq(Byte) /\ Escape(t) = Escapes(t)[Len(t)] /\ Escapes(t)[0] = <<>>
           /\ \A i \in 0 .. Len(t) :
                  /\ Escapes(t)[i] \in Seq(Byte)
                  /\ Len(Escapes(t)[i]) \in i .. Len(Escape(t))
           /\ \A i \in 1 .. Len(t) :
                  Len(Escapes(t)[i]) = Len(Escapes(t)[i - 1]) + Len(EscapeCharacter(t[i]))
           /\ \A i \in 1 .. Len(t), j \in Nat :
                  j \in 1 .. Len(EscapeCharacter(t[i]))
                    => Escape(t)[Len(Escapes(t)[i - 1]) + j] = EscapeCharacter(t[i])[j]
<1>. DEFINE n == Len(t)  parts == [i \in 1 .. n |-> EscapeCharacter(t[i])]  J == Joined(parts)
            In(i) == EscapeCharacter(t[i])
<1>1. n \in Nat /\ \A i \in 1 .. n : t[i] \in Byte
  OBVIOUS
<1>2. \A i \in 1 .. n : In(i) \in Seq(Byte) /\ Len(In(i)) \in 1 .. 4
  BY <1>1, EscapeCases
<1>3. /\ parts \in Seq(Seq(Byte)) /\ Len(parts) = n /\ \A i \in 1 .. n : parts[i] = In(i)
  <2>1. \A i \in 1 .. n : parts[i] = In(i)
    OBVIOUS
  <2>. HIDE DEF In
  <2>2. parts \in [1 .. n -> Seq(Byte)]
    BY <1>2, <2>1
  <2>. HIDE DEF parts
  <2>3. parts \in Seq(Seq(Byte))
    BY <1>1, <2>2
  <2>4. Len(parts) = n
    BY <1>1, <2>2, <2>3, LenProperties
  <2>. QED BY <2>1, <2>3, <2>4
<1>4. Escapes(t) = J /\ Escape(t) = J[n]
  BY DEF Escapes, Escape
<1>. HIDE DEF parts, In, n
<1>5. J[0] = <<>> /\ \A i \in 1 .. n : J[i] = J[i - 1] \o In(i)
  BY <1>3, JoinedUnfolds
<1>6. \A i \in 0 .. n : J[i] \in Seq(Byte)
  BY <1>3, JoinedType
<1>7. \A i \in 0 .. n : Begins(J[i], J[n])
  <2>. TAKE i \in 0 .. n
  <2>1. i \in 0 .. Len(parts) /\ n \in 0 .. Len(parts) /\ i <= n
    BY <1>1, <1>3
  <2>2. Len(J[i]) <= Len(J[n]) /\ \A k \in 1 .. Len(J[i]) : J[n][k] = J[i][k]
    BY <1>3, <2>1, JoinedGrows
  <2>. HIDE DEF J
  <2>. QED BY <2>2 DEF Begins
<1>. HIDE DEF J
<1>8. ASSUME NEW i \in 1 .. n
      PROVE  /\ Len(J[i]) = Len(J[i - 1]) + Len(In(i)) /\ Len(J[i - 1]) \in Nat
             /\ \A j \in Nat : j \in 1 .. Len(In(i)) => J[n][Len(J[i - 1]) + j] = In(i)[j]
  <2>. DEFINE a == J[i - 1]  b == In(i)  c == J[i]
  <2>1. i - 1 \in 0 .. n /\ i \in 0 .. n
    BY <1>1
  <2>2. a \in Seq(Byte) /\ b \in Seq(Byte) /\ c = a \o b /\ Begins(c, J[n])
    BY <1>2, <1>5, <1>6, <1>7, <2>1
  <2>. HIDE DEF a, b, c
  <2>3. /\ Len(a \o b) = Len(a) + Len(b) /\ Len(a) \in Nat /\ Len(b) \in Nat
        /\ \A k \in 1 .. Len(a) + Len(b) :
               (a \o b)[k] = IF k <= Len(a) THEN a[k] ELSE b[k - Len(a)]
    BY <2>2, ConcatProperties
  <2>4. ASSUME NEW j \in Nat, j \in 1 .. Len(b) PROVE J[n][Len(a) + j] = b[j]
    <3>1. Len(a) + j \in 1 .. Len(a) + Len(b) /\ ~(Len(a) + j <= Len(a))
          /\ (Len(a) + j) - Len(a) = j
      BY <2>3, <2>4
    <3>2. c[Len(a) + j] = b[j]
      BY <2>2, <2>3, <3>1
    <3>3. J[n][Len(a) + j] = c[Len(a) + j]
      BY <2>2, <2>3, <3>1 DEF Begins
    <3>. QED BY <3>2, <3>3
  <2>. QED BY <2>2, <2>3, <2>4 DEF a, b, c
<1>9. ASSUME NEW i \in 0 .. n PROVE Len(J[i]) \in i .. Len(J[n])
  <2>. DEFINE S == {k \in Nat : k <= Len(J[k])}
  <2>1. 0 \in S
    BY <1>5
  <2>2. ASSUME NEW k \in 1 .. n, k - 1 \in S PROVE k \in S
    <3>1. Len(J[k]) = Len(J[k - 1]) + Len(In(k)) /\ k - 1 <= Len(J[k - 1]) /\ k \in Nat
      BY <2>2, <1>8
    <3>2. Len(In(k)) \in 1 .. 4
      BY <1>2
    <3>3. Len(J[k - 1]) \in Nat
      BY <1>8
    <3>4. PICK a, b, c : a = Len(J[k - 1]) /\ b = Len(In(k)) /\ c = Len(J[k])
      OBVIOUS
    <3>5. k <= c
      <4>1. a \in Nat /\ b \in 1 .. 4 /\ k - 1 <= a /\ c = a + b /\ k \in Nat
        BY <3>1, <3>2, <3>3, <3>4
      <4>. QED BY <4>1
    <3>. QED BY <3>1, <3>4, <3>5
  <2>. HIDE DEF S
  <2>3. i \in S
    BY <1>1, <2>1, <2>2, Induction
  <2>4. i <= Len(J[i]) /\ Len(J[i]) \in Nat /\ Len(J[n]) \in Nat /\ Len(J[i]) <= Len(J[n])
    <3>1. n \in 0 .. n
      BY <1>1
    <3>. QED BY <2>3, <3>1, <1>6, <1>7 DEF S, Begins
  <2>. QED BY <2>4
<1>10. n \in 0 .. n
  BY <1>1
<1>. QED BY <1>1, <1>4, <1>5, <1>6, <1>8, <1>9, <1>10 DEF In, n

\* A string that was escaped comes out of its buffer as it went in.
LEMMA EscapesUndone ==
    ASSUME NEW t \in Seq(Byte)
    PROVE  UnescapeString(Escape(t)) = t
<1>. DEFINE n == Len(t)  U == Escape(t)  N == Len(U)  J == Escapes(t)
            start == [mem |-> U, r |-> 1, w |-> 1]  L == Loop(UnescapeStep, start, N)
            In(i) == EscapeCharacter(t[i])
            Is(k, m) == /\ L[k] = [mem |-> m, r |-> Len(J[k]) + 1, w |-> k + 1]
                        /\ m \in Seq(Byte) /\ Len(m) = N
                        /\ \A i \in 1 .. k : m[i] = t[i]
                        /\ \A i \in k + 1 .. N : m[i] = U[i]
            S == {k \in Nat : \E m : Is(k, m)}
<1>1. /\ n \in Nat /\ U \in Seq(Byte) /\ N \in Nat /\ J[0] = <<>> /\ U = J[n]
      /\ \A i \in 1 .. n : t[i] \in Byte
      /\ \A i \in 0 .. n : Len(J[i]) \in i .. N
      /\ \A i \in 1 .. n : Len(J[i]) = Len(J[i - 1]) + Len(In(i))
      /\ \A i \in 1 .. n, j \in Nat :
             j \in 1 .. Len(In(i)) => U[Len(J[i - 1]) + j] = In(i)[j]
  BY EscapesFacts
<1>2. L[0] = start /\ \A i \in 1 .. N : L[i] = UnescapeStep[L[i - 1]]
  BY <1>1, LoopUnfolds
<1>3. \A i \in 1 .. n : In(i) \in Seq(Byte) /\ Len(In(i)) \in 1 .. 4
  BY <1>1, EscapeCases
<1>4. UnescapeString(U) = SubSeq(L[N].mem, 1, L[N].w - 1)
  BY DEF UnescapeString
<1>. HIDE DEF L, U, J
<1>5. 0 \in S
  <2>1. Is(0, U)
    BY <1>1, <1>2
  <2>. QED BY <2>1
<1>6. ASSUME NEW k \in 1 .. n, k - 1 \in S PROVE k \in S
  <2>1. PICK m : Is(k - 1, m)
    BY <1>6
  <2>. DEFINE c == t[k]  E == In(k)  r == Len(J[k - 1]) + 1  v == [m EXCEPT ![k] = c]
  <2>2. /\ c \in Byte /\ E \in Seq(Byte) /\ Len(E) \in 1 .. 4 /\ r \in Nat /\ k \in 1 .. r
        /\ Len(J[k]) = r - 1 + Len(E) /\ Len(J[k]) <= N /\ k \in 1 .. N
    <3>1. k - 1 \in 0 .. n /\ k \in 0 .. n /\ k \in Nat
      BY <1>1
    <3>2. Len(J[k - 1]) \in k - 1 .. N /\ Len(J[k]) \in k .. N
          /\ Len(J[k]) = Len(J[k - 1]) + Len(E)
      BY <1>1, <3>1
    <3>3. c \in Byte /\ E \in Seq(Byte) /\ Len(E) \in 1 .. 4
      BY <1>1, <1>3
    <3>. HIDE DEF E, c
    <3>. QED BY <1>1, <3>1, <3>2, <3>3
  <2>3. /\ L[k - 1] = [mem |-> m, r |-> r, w |-> k] /\ m \in Seq(Byte) /\ Len(m) = N
        /\ (\A i \in 1 .. k - 1 : m[i] = t[i]) /\ \A i \in k .. N : m[i] = U[i]
    BY <2>1, <2>2
  <2>. HIDE DEF Is
  <2>4. \A i \in 1 .. Len(E) : m[r + i - 1] = E[i]
    <3>. TAKE i \in 1 .. Len(E)
    <3>1. i \in Nat /\ r + i - 1 \in k .. N /\ r + i - 1 = Len(J[k - 1]) + i
      <4>1. r = Len(J[k - 1]) + 1
        OBVIOUS
      <4>2. Len(J[k - 1]) \in Nat
        BY <1>1
      <4>. HIDE DEF r, E, c
      <4>. QED BY <1>1, <2>2, <4>1, <4>2
    <3>2. U[Len(J[k - 1]) + i] = E[i]
      BY <1>1, <3>1
    <3>. QED BY <2>3, <3>1, <3>2
  <2>5. UnescapeStep[[mem |-> m, r |-> r, w |-> k]]
          = [mem |-> v, r |-> r + Len(E), w |-> k + 1]
    <3>. HIDE DEF c, r, E, v
    <3>1. r + Len(E) - 1 <= Len(m)
      BY <1>1, <2>2, <2>3
    <3>. QED BY <2>2, <2>3, <2>4, <3>1, Unescapes DEF E, c, v
  <2>6. L[k] = [mem |-> v, r |-> Len(J[k]) + 1, w |-> k + 1]
    <3>1. L[k] = UnescapeStep[L[k - 1]]
      BY <1>2, <2>2
    <3>. HIDE DEF r, E, v, c
    <3>2. r + Len(E) = Len(J[k]) + 1
      <4>1. Len(J[k]) \in Nat /\ Len(E) \in Nat
        BY <1>1, <2>2
      <4>. QED BY <2>2, <4>1
    <3>. QED BY <2>3, <2>5, <3>1, <3>2
  <2>7. v \in Seq(Byte) /\ Len(v) = N /\ (\A i \in 1 .. N : v[i] = IF i = k THEN c ELSE m[i])
    BY <1>1, <2>2, <2>3
  <2>8. Is(k, v)
    <3>. HIDE DEF v
    <3>0. /\ \A i \in 1 .. k : i \in 1 .. N /\ (i = k \/ (i # k /\ i \in 1 .. k - 1))
          /\ \A i \in k + 1 .. N : i \in 1 .. N /\ i # k /\ i \in k .. N
      BY <1>1, <2>2
    <3>1. \A i \in 1 .. k : v[i] = t[i]
      BY <2>3, <2>7, <3>0
    <3>2. \A i \in k + 1 .. N : v[i] = U[i]
      BY <2>3, <2>7, <3>0
    <3>. QED BY <2>6, <2>7, <3>1, <3>2 DEF Is
  <2>. QED BY <2>8
<1>. HIDE DEF S
<1>7. n \in S /\ n <= N
  <2>1. n \in 0 .. n /\ n <= N
    BY <1>1
  <2>2. \A i \in 0 .. n : i \in S
    BY <1>1, <1>5, <1>6, Induction
  <2>. QED BY <2>1, <2>2
<1>8. PICK m : Is(n, m)
  BY <1>7 DEF S
<1>. DEFINE s == [mem |-> m, r |-> N + 1, w |-> n + 1]
<1>9. L[n] = s /\ m \in Seq(Byte) /\ Len(m) = N /\ \A i \in 1 .. n : m[i] = t[i]
  <2>1. Len(J[n]) = N
    BY <1>1
  <2>. QED BY <1>8, <2>1
<1>10. UnescapeStep[s] = s
  <2>1. s \in [mem : Seq(Byte), r : Nat, w : Nat] /\ s.mem = m /\ s.r = N + 1
    BY <1>1, <1>9
  <2>2. At(m, N + 1) = 0
    BY <1>1, <1>9 DEF At
  <2>. HIDE DEF s
  <2>3. \A e, hex : UnescapeNext(s, 0, e, hex) = s
    BY DEF UnescapeNext, Backslash
  <2>. QED BY <2>1, <2>2, <2>3 DEF UnescapeStep
<1>. HIDE DEF Is
<1>11. L[N] = s
  <2>1. n \in 0 .. N
    BY <1>1, <1>7
  <2>. HIDE DEF s
  <2>. QED BY <1>1, <1>9, <1>10, <2>1, LoopRests DEF L
<1>12. SubSeq(m, 1, n) = t
  <2>1. /\ SubSeq(m, 1, n) \in Seq(Byte) /\ Len(SubSeq(m, 1, n)) = n
        /\ \A i \in 1 .. n : SubSeq(m, 1, n)[i] = m[i]
    <3>1. n <= Len(m) /\ Len(m) \in Nat
      BY <1>1, <1>7, <1>9
    <3>2. FirstOf(m, n) = SubSeq(m, 1, n)
      BY <1>1, <3>1 DEF FirstOf
    <3>3. FirstOf(m, n) \in Seq(Byte) /\ Len(FirstOf(m, n)) = n
          /\ \A i \in 1 .. Len(FirstOf(m, n)) : FirstOf(m, n)[i] = m[i]
      <4>1. m \in Texts /\ n \in Nat
        BY <1>1, <1>9 DEF Texts
      <4>2. /\ FirstOf(m, n) \in Texts
            /\ Len(FirstOf(m, n)) = IF n < Len(m) THEN n ELSE Len(m)
            /\ \A i \in 1 .. Len(FirstOf(m, n)) : FirstOf(m, n)[i] = m[i]
        BY <4>1, FirstOfFacts
      <4>. HIDE DEF n, N
      <4>. QED BY <3>1, <4>1, <4>2 DEF Texts
    <3>. QED BY <3>2, <3>3
  <2>2. \A i \in 1 .. n : SubSeq(m, 1, n)[i] = t[i]
    BY <1>9, <2>1
  <2>. QED BY <2>1, <2>2, SameText DEF Texts
<1>13. L[N].mem = m /\ L[N].w - 1 = n
  BY <1>1, <1>11
<1>. QED BY <1>4, <1>12, <1>13 DEF U

-----------------------------------------------------------------------------
(* Where a parameter ends. *)

Scanned(i, escape, string, bracket) ==
    [pos |-> i, escape |-> escape, string |-> string, bracket |-> bracket]

ScanOf(p) == Loop(ScanStep(p), Scanned(1, FALSE, FALSE, FALSE), Len(p))

\* A text that is one parameter: no comma in it is the end, and it leaves nothing open.
OneParam(p) ==
    /\ \A i \in 0 .. Len(p) : ScanOf(p)[i] \in Scanning /\ ScanOf(p)[i].pos = i + 1
    /\ ScanOf(p)[Len(p)] = Scanned(Len(p) + 1, FALSE, FALSE, FALSE)

LEMMA ScanIs ==
    ASSUME NEW t, NEW i \in Nat, NEW e \in BOOLEAN, NEW s \in BOOLEAN, NEW b \in BOOLEAN
    PROVE  /\ Scanned(i, e, s, b) \in Scanning
           /\ ScanStep(t)[Scanned(i, e, s, b)]
                = IF \/ i > Len(t)
                     \/ At(t, i) = Comma /\ ~e /\ ~s /\ ~b
                  THEN Scanned(i, e, s, b)
                  ELSE ScanNext(Scanned(i, e, s, b), At(t, i))
<1>. DEFINE x == Scanned(i, e, s, b)
<1>1. x \in Scanning /\ x.pos = i /\ x.escape = e /\ x.string = s /\ x.bracket = b
  BY DEF Scanning, Scanned
<1>. HIDE DEF x
<1>2. ScanStep(t)[x] = IF \/ x.pos > Len(t)
                          \/ (At(t, x.pos) = Comma /\ ~x.escape /\ ~x.string /\ ~x.bracket)
                       THEN x ELSE ScanNext(x, At(t, x.pos))
  BY <1>1 DEF ScanStep
<1>3. ScanStep(t)[x] = IF i > Len(t) \/ (At(t, i) = Comma /\ ~e /\ ~s /\ ~b)
                       THEN x ELSE ScanNext(x, At(t, i))
  BY <1>1, <1>2
<1>. QED BY <1>1, <1>3 DEF x

LEMMA ScanNextIs ==
    ASSUME NEW i \in Nat, NEW e \in BOOLEAN, NEW s \in BOOLEAN, NEW b \in BOOLEAN, NEW c
    PROVE  ScanNext(Scanned(i, e, s, b), c)
             = Scanned(i + 1, ~e /\ c = Backslash,
                       IF e \/ c = Backslash THEN s ELSE IF s THEN c # Quote ELSE c = Quote,
                       IF e \/ c = Backslash \/ s THEN b ELSE c = Open \/ (b /\ c # Close))
BY DEF ScanNext, Scanned

LEMMA ScanOfFacts ==
    ASSUME NEW p \in Seq(Byte)
    PROVE  /\ Len(p) \in Nat /\ ScanOf(p)[0] = Scanned(1, FALSE, FALSE, FALSE)
           /\ \A i \in 1 .. Len(p) : ScanOf(p)[i] = ScanStep(p)[ScanOf(p)[i - 1]]
<1>. DEFINE n == Len(p)  step == ScanStep(p)  start == Scanned(1, FALSE, FALSE, FALSE)
<1>1. n \in Nat /\ ScanOf(p) = Loop(step, start, n)
  BY DEF ScanOf
<1>. HIDE DEF n, step, start
<1>2. Loop(step, start, n)[0] = start
      /\ \A i \in 1 .. n : Loop(step, start, n)[i] = step[Loop(step, start, n)[i - 1]]
  BY <1>1, LoopUnfolds
<1>. QED BY <1>1, <1>2 DEF n, step, start

\* A parameter in a text: its end is found, from its beginning.
LEMMA ParamEnd ==
    ASSUME NEW t \in Seq(Byte), NEW p \in Seq(Byte), OneParam(p), NEW from \in Nat \ {0},
           from + Len(p) <= Len(t) + 1,
           \A i \in 1 .. Len(p) : t[from + i - 1] = p[i],
           from + Len(p) <= Len(t) => t[from + Len(p)] = Comma
    PROVE  FindParamEnd(t, from) = from + Len(p)
<1>. DEFINE n == Len(p)  N == Len(t)  f == ScanOf(p)  start == Scanned(from, FALSE, FALSE, FALSE)
            step == ScanStep(t)  L == Loop(step, start, N)
            Same(i) == L[i] = Scanned(from + i, f[i].escape, f[i].string, f[i].bracket)
            S == {i \in Nat : Same(i)}
<1>1. n \in Nat /\ N \in Nat /\ n <= N
  OBVIOUS
<1>2. L[0] = start /\ \A i \in 1 .. N : L[i] = step[L[i - 1]]
  <2>. HIDE DEF start, step, N
  <2>. QED BY <1>1, LoopUnfolds
<1>3. f[0] = Scanned(1, FALSE, FALSE, FALSE) /\ \A i \in 1 .. n : f[i] = ScanStep(p)[f[i - 1]]
  BY ScanOfFacts
<1>4. /\ \A i \in 0 .. n : f[i] \in Scanning /\ f[i].pos = i + 1
      /\ f[n] = Scanned(n + 1, FALSE, FALSE, FALSE)
  BY DEF OneParam
<1>5. FindParamEnd(t, from)
        = IF L[N].escape \/ L[N].string \/ L[N].bracket THEN 0 ELSE L[N].pos
  BY DEF FindParamEnd, Scanned
<1>. HIDE DEF f, L
<1>6. 0 \in S
  <2>1. f[0].escape = FALSE /\ f[0].string = FALSE /\ f[0].bracket = FALSE
    BY <1>3 DEF Scanned
  <2>2. from + 0 = from
    OBVIOUS
  <2>. QED BY <1>2, <2>1, <2>2
<1>7. ASSUME NEW i \in 1 .. n, i - 1 \in S PROVE i \in S
  <2>1. i - 1 \in 0 .. n /\ i \in 0 .. n /\ i \in Nat /\ i \in 1 .. N /\ from + (i - 1) \in 1 .. N
        /\ from + (i - 1) \in Nat /\ (from + (i - 1)) + 1 = from + i
        /\ from + (i - 1) = from + i - 1
    BY <1>1
  <2>2. PICK e \in BOOLEAN, s \in BOOLEAN, b \in BOOLEAN : f[i - 1] = Scanned(i, e, s, b)
    <3>1. f[i - 1] \in Scanning /\ f[i - 1].pos = i
      BY <1>4, <2>1
    <3>2. f[i - 1] = Scanned(i, f[i - 1].escape, f[i - 1].string, f[i - 1].bracket)
          /\ f[i - 1].escape \in BOOLEAN /\ f[i - 1].string \in BOOLEAN
          /\ f[i - 1].bracket \in BOOLEAN
      BY <3>1 DEF Scanned, Scanning
    <3>. QED BY <3>2
  <2>3. f[i - 1].escape = e /\ f[i - 1].string = s /\ f[i - 1].bracket = b
    BY <2>2 DEF Scanned
  <2>4. L[i - 1] = Scanned(from + (i - 1), e, s, b)
    BY <1>7, <2>3
  <2>. DEFINE c == p[i]
  <2>5. At(p, i) = c /\ At(t, from + (i - 1)) = c
    BY <2>1 DEF At
  <2>. HIDE DEF c
  <2>6. f[i] = IF c = Comma /\ ~e /\ ~s /\ ~b THEN Scanned(i, e, s, b)
               ELSE ScanNext(Scanned(i, e, s, b), c)
    <3>1. f[i] = ScanStep(p)[Scanned(i, e, s, b)]
      BY <1>3, <2>2
    <3>2. ~(i > Len(p))
      BY <1>1
    <3>. QED BY <2>1, <2>5, <3>1, <3>2, ScanIs
  <2>7. ~(c = Comma /\ ~e /\ ~s /\ ~b)
    <3>1. f[i].pos = i + 1
      BY <1>4, <2>1
    <3>2. Scanned(i, e, s, b).pos = i
      BY DEF Scanned
    <3>3. i # i + 1
      BY <2>1
    <3>. QED BY <2>6, <3>1, <3>2, <3>3
  <2>8. f[i] = Scanned(i + 1, ~e /\ c = Backslash,
                       IF e \/ c = Backslash THEN s ELSE IF s THEN c # Quote ELSE c = Quote,
                       IF e \/ c = Backslash \/ s THEN b ELSE c = Open \/ (b /\ c # Close))
    BY <2>1, <2>6, <2>7, ScanNextIs
  <2>9. L[i] = ScanNext(Scanned(from + (i - 1), e, s, b), c)
    <3>1. L[i] = ScanStep(t)[Scanned(from + (i - 1), e, s, b)]
      BY <1>2, <2>1, <2>4
    <3>2. ~(from + (i - 1) > Len(t))
      BY <2>1
    <3>. QED BY <2>1, <2>5, <2>7, <3>1, <3>2, ScanIs
  <2>10. L[i] = Scanned(from + i, ~e /\ c = Backslash,
                       IF e \/ c = Backslash THEN s ELSE IF s THEN c # Quote ELSE c = Quote,
                       IF e \/ c = Backslash \/ s THEN b ELSE c = Open \/ (b /\ c # Close))
    BY <2>1, <2>9, ScanNextIs
  <2>11. Same(i)
    BY <2>8, <2>10 DEF Scanned
  <2>. HIDE DEF Same
  <2>. QED BY <2>1, <2>11
<1>8. \A i \in 0 .. n : i \in S
  <2>. HIDE DEF S
  <2>. QED BY <1>1, <1>6, <1>7, Induction
<1>. DEFINE end == Scanned(from + n, FALSE, FALSE, FALSE)
<1>9. L[n] = end
  <2>1. n \in 0 .. n
    BY <1>1
  <2>2. L[n] = Scanned(from + n, f[n].escape, f[n].string, f[n].bracket)
    BY <1>8, <2>1
  <2>3. f[n].escape = FALSE /\ f[n].string = FALSE /\ f[n].bracket = FALSE
    BY <1>4 DEF Scanned
  <2>. QED BY <2>2, <2>3
<1>10. ScanStep(t)[end] = end
  <2>1. from + n \in Nat /\ (from + n > Len(t) \/ At(t, from + n) = Comma)
    BY <1>1 DEF At
  <2>. QED BY <2>1, ScanIs
<1>11. L[N] = end
  <2>1. n \in 0 .. N
    BY <1>1
  <2>2. step[end] = end /\ Loop(step, start, N)[n] = end
    BY <1>9, <1>10 DEF L
  <2>. HIDE DEF end, step, start, N, n
  <2>4. N \in Nat /\ n \in 0 .. N
    BY <1>1, <2>1
  <2>3. Loop(step, start, N)[N] = end
    BY <2>2, <2>4, LoopRests
  <2>. QED BY <2>3 DEF L
<1>12. L[N].escape = FALSE /\ L[N].string = FALSE /\ L[N].bracket = FALSE /\ L[N].pos = from + n
  BY <1>11 DEF Scanned
<1>. QED BY <1>5, <1>12

\* One more character
LEMMA ScanOne ==
    ASSUME NEW p \in Seq(Byte), NEW i \in 1 .. Len(p),
           NEW e \in BOOLEAN, NEW s \in BOOLEAN, NEW b \in BOOLEAN,
           ScanOf(p)[i - 1] = Scanned(i, e, s, b), p[i] = Comma => e \/ s \/ b
    PROVE  ScanOf(p)[i]
             = Scanned(i + 1, ~e /\ p[i] = Backslash,
                       IF e \/ p[i] = Backslash THEN s
                       ELSE IF s THEN p[i] # Quote ELSE p[i] = Quote,
                       IF e \/ p[i] = Backslash \/ s THEN b
                       ELSE p[i] = Open \/ (b /\ p[i] # Close))
<1>. DEFINE f == ScanOf(p)  c == p[i]
<1>1. i \in Nat /\ ~(i > Len(p)) /\ At(p, i) = c
  BY DEF At
<1>2. f[i] = ScanStep(p)[Scanned(i, e, s, b)]
  BY ScanOfFacts
<1>. HIDE DEF f, c
<1>3. f[i] = ScanNext(Scanned(i, e, s, b), c)
  BY <1>1, <1>2, ScanIs DEF c
<1>4. f[i] = Scanned(i + 1, ~e /\ c = Backslash,
                       IF e \/ c = Backslash THEN s ELSE IF s THEN c # Quote ELSE c = Quote,
                       IF e \/ c = Backslash \/ s THEN b ELSE c = Open \/ (b /\ c # Close))
  <2>1. i \in Nat
    BY <1>1
  <2>2. ScanNext(Scanned(i, e, s, b), c)
          = Scanned(i + 1, ~e /\ c = Backslash,
                    IF e \/ c = Backslash THEN s ELSE IF s THEN c # Quote ELSE c = Quote,
                    IF e \/ c = Backslash \/ s THEN b ELSE c = Open \/ (b /\ c # Close))
    BY <2>1, ScanNextIs
  <2>. QED BY <1>3, <2>2, Zenon
<1>. QED BY <1>4 DEF f, c

LEMMA ScanString ==
    ASSUME NEW p \in Seq(Byte), NEW i \in 1 .. Len(p), NEW e \in BOOLEAN,
           ScanOf(p)[i - 1] = Scanned(i, e, TRUE, FALSE)
    PROVE  ScanOf(p)[i] = Scanned(i + 1, ~e /\ p[i] = Backslash, e \/ p[i] # Quote, FALSE)
<1>. DEFINE c == p[i]
<1>1. ScanOf(p)[i]
        = Scanned(i + 1, ~e /\ c = Backslash,
                  IF e \/ c = Backslash THEN TRUE ELSE IF TRUE THEN c # Quote ELSE c = Quote,
                  IF e \/ c = Backslash \/ TRUE THEN FALSE ELSE c = Open \/ (FALSE /\ c # Close))
  BY ScanOne
<1>. HIDE DEF c
<1>2. (IF e \/ c = Backslash THEN TRUE ELSE IF TRUE THEN c # Quote ELSE c = Quote)
        = (e \/ c # Quote)
  <2>1. Backslash # Quote
    BY DEF Backslash, Quote
  <2>2. CASE e
    BY <2>2
  <2>3. CASE ~e /\ c = Backslash
    BY <2>1, <2>3
  <2>4. CASE ~e /\ c # Backslash
    BY <2>4
  <2>. QED BY <2>2, <2>3, <2>4
<1>3. (IF e \/ c = Backslash \/ TRUE THEN FALSE ELSE c = Open \/ (FALSE /\ c # Close)) = FALSE
  OBVIOUS
<1>4. ScanOf(p)[i] = Scanned(i + 1, ~e /\ c = Backslash, e \/ c # Quote, FALSE)
  BY <1>1, <1>2, <1>3
<1>. QED BY <1>4 DEF c

LEMMA QuotedFacts ==
    ASSUME NEW u \in Seq(Byte)
    PROVE  /\ Quoted(u) \in Seq(Byte) /\ Len(Quoted(u)) = Len(u) + 2 /\ Len(u) \in Nat
           /\ Quoted(u)[1] = Quote /\ Quoted(u)[Len(u) + 2] = Quote
           /\ \A i \in 1 .. Len(u) : Quoted(u)[i + 1] = u[i]
<1>. DEFINE q == <<Quote>>  a == q \o u  w == a \o q
<1>1. q \in Seq(Byte) /\ Len(q) = 1 /\ q[1] = Quote /\ Len(u) \in Nat
  BY DEF Byte, MaxByte, Quote
<1>. HIDE DEF q
<1>2. /\ a \in Seq(Byte) /\ Len(a) = 1 + Len(u)
      /\ \A i \in 1 .. 1 + Len(u) : a[i] = IF i <= 1 THEN q[i] ELSE u[i - 1]
  <2>1. /\ q \o u \in Seq(Byte) /\ Len(q \o u) = Len(q) + Len(u)
        /\ \A i \in 1 .. Len(q) + Len(u) :
               (q \o u)[i] = IF i <= Len(q) THEN q[i] ELSE u[i - Len(q)]
    BY <1>1, ConcatProperties
  <2>. QED BY <1>1, <2>1
<1>. HIDE DEF a
<1>3. /\ w \in Seq(Byte) /\ Len(w) = Len(u) + 2
      /\ \A i \in 1 .. Len(u) + 2 : w[i] = IF i <= 1 + Len(u) THEN a[i] ELSE q[i - (1 + Len(u))]
  <2>1. /\ a \o q \in Seq(Byte) /\ Len(a \o q) = Len(a) + Len(q)
        /\ \A i \in 1 .. Len(a) + Len(q) :
               (a \o q)[i] = IF i <= Len(a) THEN a[i] ELSE q[i - Len(a)]
    BY <1>1, <1>2, ConcatProperties
  <2>. QED BY <1>1, <1>2, <2>1
<1>. HIDE DEF w
<1>4. w[1] = Quote /\ w[Len(u) + 2] = Quote /\ \A i \in 1 .. Len(u) : w[i + 1] = u[i]
  BY <1>1, <1>2, <1>3
<1>5. Quoted(u) = w
  BY DEF Quoted, w, a, q
<1>. QED BY <1>1, <1>3, <1>4, <1>5

InString(p, i) == ScanOf(p)[i] = Scanned(i + 1, FALSE, TRUE, FALSE)
InEscape(p, i) == ScanOf(p)[i] = Scanned(i + 1, TRUE, TRUE, FALSE)

\* The same, case by case
LEMMA ScanFromString ==
    ASSUME NEW p \in Seq(Byte), NEW i \in Nat, NEW j \in 1 .. Len(p), j = i + 1, InString(p, i)
    PROVE  /\ p[j] = Backslash => InEscape(p, j)
           /\ p[j] # Backslash /\ p[j] # Quote => InString(p, j)
           /\ p[j] = Quote => ScanOf(p)[j] = Scanned(j + 1, FALSE, FALSE, FALSE)
<1>. DEFINE c == p[j]  g == ~FALSE /\ c = Backslash  h == FALSE \/ c # Quote
<1>1. ScanOf(p)[j - 1] = Scanned(j, FALSE, TRUE, FALSE)
  <2>1. j - 1 = i /\ i + 1 = j
    OBVIOUS
  <2>2. ScanOf(p)[i] = Scanned(i + 1, FALSE, TRUE, FALSE)
    BY DEF InString
  <2>. QED BY <2>1, <2>2
<1>2. ScanOf(p)[j] = Scanned(j + 1, g, h, FALSE)
  BY <1>1, ScanString
<1>3. Backslash # Quote
  BY DEF Backslash, Quote
<1>. HIDE DEF c
<1>4. CASE c = Backslash
  <2>1. g = TRUE /\ h = TRUE
    BY <1>3, <1>4
  <2>. HIDE DEF g, h
  <2>. QED BY <1>2, <1>3, <1>4, <2>1 DEF c, InEscape
<1>5. CASE c # Backslash /\ c # Quote
  <2>1. g = FALSE /\ h = TRUE
    BY <1>5
  <2>. HIDE DEF g, h
  <2>. QED BY <1>2, <1>5, <2>1 DEF c, InString
<1>6. CASE c = Quote
  <2>1. g = FALSE /\ h = FALSE
    BY <1>3, <1>6
  <2>. HIDE DEF g, h
  <2>. QED BY <1>2, <1>3, <1>6, <2>1 DEF c
<1>. QED BY <1>4, <1>5, <1>6

LEMMA ScanFromEscape ==
    ASSUME NEW p \in Seq(Byte), NEW i \in Nat, NEW j \in 1 .. Len(p), j = i + 1, InEscape(p, i)
    PROVE  InString(p, j)
<1>. DEFINE c == p[j]  g == ~TRUE /\ c = Backslash  h == TRUE \/ c # Quote
<1>1. ScanOf(p)[j - 1] = Scanned(j, TRUE, TRUE, FALSE)
  <2>1. j - 1 = i /\ i + 1 = j
    OBVIOUS
  <2>2. ScanOf(p)[i] = Scanned(i + 1, TRUE, TRUE, FALSE)
    BY DEF InEscape
  <2>. QED BY <2>1, <2>2
<1>2. ScanOf(p)[j] = Scanned(j + 1, g, h, FALSE)
  BY <1>1, ScanString
<1>. HIDE DEF c
<1>3. g = FALSE /\ h = TRUE
  OBVIOUS
<1>. HIDE DEF g, h
<1>. QED BY <1>2, <1>3 DEF InString

\* The scan stands behind the character i.
ScansTo(p, i) == ScanOf(p)[i] \in Scanning /\ ScanOf(p)[i].pos = i + 1

LEMMA ScannedBehind ==
    ASSUME NEW p, NEW i \in Nat, NEW e \in BOOLEAN, NEW s \in BOOLEAN, NEW b \in BOOLEAN,
           ScanOf(p)[i] = Scanned(i + 1, e, s, b)
    PROVE  ScansTo(p, i)
BY DEF ScansTo, Scanned, Scanning

LEMMA StringBehind ==
    ASSUME NEW p, NEW i \in Nat, InString(p, i) \/ InEscape(p, i)
    PROVE  ScansTo(p, i)
BY ScannedBehind DEF InString, InEscape

\* A character with its escapes leaves the scan in the string.
LEMMA ScanCharacter ==
    ASSUME NEW p \in Seq(Byte), NEW a \in Nat, NEW b \in Nat, NEW c \in Byte,
           b = a + Len(EscapeCharacter(c)), b <= Len(p),
           \A i \in 1 .. Len(EscapeCharacter(c)) : p[a + i] = EscapeCharacter(c)[i],
           InString(p, a)
    PROVE  InString(p, b) /\ \A i \in a .. b : ScansTo(p, i)
<1>. DEFINE E == EscapeCharacter(c)
<1>1. E \in Seq(Byte) /\ Len(E) \in 1 .. 4 /\ Len(p) \in Nat /\ Backslash # Quote
  BY EscapeCases DEF Backslash, Quote
<1>2. PICK a1, a2, a3, a4 : a1 = a + 1 /\ a2 = a + 2 /\ a3 = a + 3 /\ a4 = a + 4
  OBVIOUS
<1>3. /\ a1 = a + 1 /\ a2 = a1 + 1 /\ a3 = a2 + 1 /\ a4 = a3 + 1
      /\ a1 \in Nat /\ a2 \in Nat /\ a3 \in Nat /\ a4 \in Nat
  BY <1>2
<1>4. ScansTo(p, a)
  BY StringBehind
<1>5. CASE c \in DOMAIN Escaped /\ E = <<Backslash, Escaped[c]>>
  <2>1. Len(E) = 2 /\ E[1] = Backslash
    BY <1>5
  <2>. HIDE DEF E
  <2>2. b = a2 /\ a1 \in 1 .. Len(p) /\ a2 \in 1 .. Len(p) /\ p[a1] = Backslash
    <3>1. b = a2 /\ a1 \in 1 .. Len(p) /\ a2 \in 1 .. Len(p)
      BY <1>1, <1>3, <2>1 DEF E
    <3>2. 1 \in 1 .. Len(E)
      BY <2>1
    <3>3. p[a + 1] = E[1]
      BY <3>2 DEF E
    <3>. QED BY <1>3, <2>1, <3>1, <3>3
  <2>3. InEscape(p, a1)
    BY <1>3, <2>2, ScanFromString
  <2>4. InString(p, a2)
    BY <1>3, <2>2, <2>3, ScanFromEscape
  <2>5. ScansTo(p, a1) /\ ScansTo(p, a2)
    BY <1>3, <2>3, <2>4, StringBehind
  <2>6. \A i \in a .. b : i = a \/ i = a1 \/ i = a2
    BY <1>3, <2>2
  <2>. QED BY <1>4, <2>2, <2>4, <2>5, <2>6
<1>6. CASE Plainly(c) /\ E = <<c>>
  <2>1. Len(E) = 1 /\ E[1] = c
    BY <1>6
  <2>. HIDE DEF E
  <2>2. b = a1 /\ a1 \in 1 .. Len(p) /\ p[a1] = c
    <3>1. b = a1 /\ a1 \in 1 .. Len(p)
      BY <1>1, <1>3, <2>1 DEF E
    <3>2. 1 \in 1 .. Len(E)
      BY <2>1
    <3>3. p[a + 1] = E[1]
      BY <3>2 DEF E
    <3>. QED BY <1>3, <2>1, <3>1, <3>3
  <2>3. c # Quote /\ c # Backslash
    BY <1>6 DEF Plainly, Escaped
  <2>4. InString(p, a1)
    BY <1>3, <2>2, <2>3, ScanFromString
  <2>5. ScansTo(p, a1)
    BY <1>3, <2>4, StringBehind
  <2>6. \A i \in a .. b : i = a \/ i = a1
    BY <1>3, <2>2
  <2>. QED BY <1>4, <2>2, <2>4, <2>5, <2>6
<1>7. CASE /\ Len(E) = 4 /\ E[1] = Backslash /\ E[2] = LowerX
           /\ E[3] = ByteToHex(c)[1] /\ E[4] = ByteToHex(c)[2]
  <2>1. E[3] # Quote /\ E[3] # Backslash /\ E[4] # Quote /\ E[4] # Backslash
    <3>1. ByteToHex(c)[1] \in HexDigits /\ ByteToHex(c)[2] \in HexDigits
      BY HexFacts
    <3>2. Quote \notin HexDigits /\ Backslash \notin HexDigits
      BY DEF HexDigits, Quote, Backslash, Zero, UpperA
    <3>. HIDE DEF E
    <3>. QED BY <1>7, <3>1, <3>2
  <2>. HIDE DEF E
  <2>2. /\ b = a4 /\ a1 \in 1 .. Len(p) /\ a2 \in 1 .. Len(p)
        /\ a3 \in 1 .. Len(p) /\ a4 \in 1 .. Len(p)
        /\ p[a1] = Backslash /\ p[a3] = E[3] /\ p[a4] = E[4]
    <3>1. /\ b = a4 /\ a1 \in 1 .. Len(p) /\ a2 \in 1 .. Len(p)
          /\ a3 \in 1 .. Len(p) /\ a4 \in 1 .. Len(p)
      BY <1>1, <1>3, <1>7 DEF E
    <3>2. 1 \in 1 .. Len(E) /\ 3 \in 1 .. Len(E) /\ 4 \in 1 .. Len(E)
      BY <1>7
    <3>3. p[a + 1] = E[1] /\ p[a + 3] = E[3] /\ p[a + 4] = E[4]
      BY <3>2 DEF E
    <3>. QED BY <1>2, <1>7, <3>1, <3>3
  <2>3. InEscape(p, a1)
    BY <1>3, <2>2, ScanFromString
  <2>4. InString(p, a2)
    BY <1>3, <2>2, <2>3, ScanFromEscape
  <2>5. InString(p, a3)
    BY <1>3, <2>1, <2>2, <2>4, ScanFromString
  <2>6. InString(p, a4)
    BY <1>3, <2>1, <2>2, <2>5, ScanFromString
  <2>7. ScansTo(p, a1) /\ ScansTo(p, a2) /\ ScansTo(p, a3) /\ ScansTo(p, a4)
    BY <1>3, <2>3, <2>4, <2>5, <2>6, StringBehind
  <2>8. \A i \in a .. b : i = a \/ i = a1 \/ i = a2 \/ i = a3 \/ i = a4
    BY <1>3, <2>2
  <2>. QED BY <1>4, <2>2, <2>6, <2>7, <2>8
<1>. QED BY <1>5, <1>6, <1>7, EscapeCases

\* A string with its escapes and quotes is one parameter: no quote in it ends it, and no
\* comma or bracket in it counts.
LEMMA StringIsParam ==
    ASSUME NEW t \in Seq(Byte)
    PROVE  OneParam(Quoted(Escape(t)))
<1>. DEFINE n == Len(t)  U == Escape(t)  N == Len(U)  J == Escapes(t)  p == Quoted(U)
            In(k) == EscapeCharacter(t[k])
            Inside(a) == InString(p, a) /\ \A i \in 0 .. a : ScansTo(p, i)
            S == {k \in Nat : Inside(Len(J[k]) + 1)}
<1>1. /\ n \in Nat /\ U \in Seq(Byte) /\ N \in Nat /\ J[0] = <<>> /\ U = J[n]
      /\ \A i \in 1 .. n : t[i] \in Byte
      /\ \A i \in 0 .. n : Len(J[i]) \in i .. N
      /\ \A i \in 1 .. n : Len(J[i]) = Len(J[i - 1]) + Len(In(i))
      /\ \A i \in 1 .. n, j \in Nat :
             j \in 1 .. Len(In(i)) => U[Len(J[i - 1]) + j] = In(i)[j]
  BY EscapesFacts
<1>2. /\ p \in Seq(Byte) /\ Len(p) = N + 2 /\ p[1] = Quote /\ p[N + 2] = Quote
      /\ \A i \in 1 .. N : p[i + 1] = U[i]
  BY <1>1, QuotedFacts
<1>3. ScanOf(p)[0] = Scanned(1, FALSE, FALSE, FALSE)
  BY <1>2, ScanOfFacts
<1>. HIDE DEF p, U, J
<1>4. ScanOf(p)[1] = Scanned(2, FALSE, TRUE, FALSE)
  <2>. DEFINE c == p[1]
  <2>1. 1 \in 1 .. Len(p) /\ 1 - 1 = 0 /\ 1 + 1 = 2
        /\ c # Comma /\ c # Backslash /\ c # Open /\ c = Quote
    BY <1>1, <1>2 DEF Quote, Comma, Backslash, Open
  <2>. DEFINE g == ~FALSE /\ c = Backslash
              h == IF FALSE \/ c = Backslash THEN FALSE ELSE IF FALSE THEN c # Quote ELSE c = Quote
              b == IF FALSE \/ c = Backslash \/ FALSE THEN FALSE
                   ELSE c = Open \/ (FALSE /\ c # Close)
  <2>2. ScanOf(p)[1 - 1] = Scanned(1, FALSE, FALSE, FALSE)
    <3>. HIDE DEF c
    <3>. QED BY <1>3, <2>1
  <2>3. ScanOf(p)[1] = Scanned(1 + 1, g, h, b)
    BY <1>2, <2>1, <2>2, ScanOne
  <2>. HIDE DEF c
  <2>4. g = FALSE /\ h = TRUE /\ b = FALSE
    BY <2>1
  <2>. HIDE DEF g, h, b
  <2>. QED BY <2>1, <2>3, <2>4
<1>5. Inside(1)
  <2>1. InString(p, 1)
    <3>1. 1 + 1 = 2
      OBVIOUS
    <3>. QED BY <1>4, <3>1 DEF InString
  <2>2. ScansTo(p, 0)
    <3>1. 1 = 0 + 1
      OBVIOUS
    <3>. QED BY <1>3, <3>1, ScannedBehind
  <2>3. ScansTo(p, 1)
    BY <2>1, StringBehind
  <2>4. \A i \in 0 .. 1 : i = 0 \/ i = 1
    OBVIOUS
  <2>. QED BY <2>1, <2>2, <2>3, <2>4
<1>6. 0 \in S
  <2>1. Len(J[0]) + 1 = 1
    BY <1>1
  <2>. HIDE DEF Inside
  <2>. QED BY <1>5, <2>1
<1>7. ASSUME NEW k \in 1 .. n, k - 1 \in S PROVE k \in S
  <2>. DEFINE c == t[k]  E == EscapeCharacter(c)  a == Len(J[k - 1]) + 1  b == Len(J[k]) + 1
  <2>1. /\ c \in Byte /\ Len(E) \in 1 .. 4 /\ a \in Nat \ {0} /\ b = a + Len(E) /\ b <= N + 1
    <3>1. k - 1 \in 0 .. n /\ k \in 0 .. n
      BY <1>1
    <3>2. Len(J[k - 1]) \in Nat /\ Len(J[k]) \in Nat /\ Len(J[k]) <= N
          /\ Len(J[k]) = Len(J[k - 1]) + Len(E)
      <4>1. Len(J[k]) = Len(J[k - 1]) + Len(E)
        BY <1>1
      <4>2. Len(J[k - 1]) \in k - 1 .. N /\ Len(J[k]) \in k .. N /\ k \in Nat
        BY <1>1, <3>1
      <4>. HIDE DEF E, c
      <4>. QED BY <1>1, <4>1, <4>2
    <3>3. c \in Byte
      BY <1>1
    <3>4. Len(E) \in 1 .. 4
      BY <3>3, EscapeCases
    <3>. HIDE DEF E, c
    <3>. QED BY <1>1, <3>2, <3>3, <3>4
  <2>2. Inside(a)
    BY <1>7
  <2>3. \A i \in 1 .. Len(E) : p[a + i] = E[i]
    <3>. TAKE i \in 1 .. Len(E)
    <3>1. i \in Nat /\ Len(J[k - 1]) \in Nat
      BY <2>1
    <3>2. U[Len(J[k - 1]) + i] = E[i]
      BY <1>1, <3>1
    <3>. PICK l, m : l = Len(J[k - 1]) /\ m = l + i
      OBVIOUS
    <3>3. m \in 1 .. N /\ m + 1 = a + i
      <4>1. a = l + 1 /\ l \in Nat /\ i \in Nat /\ i <= Len(E)
        BY <3>1
      <4>. HIDE DEF E, a, b, c
      <4>2. a + Len(E) <= N + 1 /\ N \in Nat /\ Len(E) \in Nat
        BY <1>1, <2>1
      <4>. QED BY <4>1, <4>2
    <3>4. p[m + 1] = U[m]
      BY <1>2, <3>3
    <3>. QED BY <3>2, <3>3, <3>4
  <2>. HIDE DEF a, b, c
  <2>4. b \in Nat /\ b <= Len(p)
    <3>. HIDE DEF E
    <3>. QED BY <1>1, <1>2, <2>1
  <2>5. InString(p, b) /\ \A i \in a .. b : ScansTo(p, i)
    BY <1>2, <2>1, <2>2, <2>3, <2>4, ScanCharacter
  <2>6. Inside(b)
    <3>1. \A i \in 0 .. b : i \in 0 .. a \/ i \in a .. b
      BY <2>1, <2>4
    <3>. QED BY <2>2, <2>5, <3>1
  <2>7. k \in Nat
    BY <1>1
  <2>. HIDE DEF Inside
  <2>. QED BY <2>6, <2>7 DEF b
<1>8. Inside(N + 1)
  <2>1. n \in 0 .. n
    BY <1>1
  <2>2. \A k \in 0 .. n : k \in S
    <3>. HIDE DEF S
    <3>. QED BY <1>1, <1>6, <1>7, Induction
  <2>. HIDE DEF Inside
  <2>3. Inside(Len(J[n]) + 1)
    BY <2>1, <2>2
  <2>4. Len(J[n]) = N
    BY <1>1
  <2>. QED BY <2>3, <2>4
<1>9. ScanOf(p)[N + 2] = Scanned(N + 3, FALSE, FALSE, FALSE) /\ ScansTo(p, N + 2)
  <2>. PICK i, j : i = N + 1 /\ j = N + 2
    OBVIOUS
  <2>1. i \in Nat /\ j \in Nat /\ j \in 1 .. Len(p) /\ j = i + 1 /\ j + 1 = N + 3
    BY <1>1, <1>2
  <2>2. InString(p, i) /\ p[j] = Quote
    BY <1>2, <1>8, <2>1
  <2>3. ScanOf(p)[j] = Scanned(j + 1, FALSE, FALSE, FALSE)
    BY <1>2, <2>1, <2>2, ScanFromString
  <2>4. ScansTo(p, j)
    BY <2>1, <2>3, ScannedBehind
  <2>. QED BY <2>1, <2>3, <2>4
<1>10. \A i \in 0 .. Len(p) : ScansTo(p, i)
  <2>1. \A i \in 0 .. Len(p) : i \in 0 .. N + 1 \/ i = N + 2
    BY <1>1, <1>2
  <2>. QED BY <1>8, <1>9, <2>1
<1>11. N + 2 = Len(p) /\ N + 3 = Len(p) + 1
  BY <1>1, <1>2
<1>12. ScanOf(p)[Len(p)] = Scanned(Len(p) + 1, FALSE, FALSE, FALSE)
  BY <1>9, <1>11
<1>13. OneParam(p)
  BY <1>10, <1>12 DEF OneParam, ScansTo
<1>. QED BY <1>13 DEF p, U

-----------------------------------------------------------------------------
(* Parts put together. *)

LEMMA JoinedParts ==
    ASSUME NEW parts \in Seq(Seq(Byte))
    PROVE  /\ Len(parts) \in Nat /\ Joined(parts)[0] = <<>>
           /\ \A i \in 1 .. Len(parts) : parts[i] \in Seq(Byte)
           /\ \A i \in 0 .. Len(parts) :
                  /\ Joined(parts)[i] \in Seq(Byte)
                  /\ Len(Joined(parts)[i]) \in 0 .. Len(Joined(parts)[Len(parts)])
           /\ \A i \in 1 .. Len(parts) :
                  Len(Joined(parts)[i]) = Len(Joined(parts)[i - 1]) + Len(parts[i])
           /\ \A i \in 1 .. Len(parts), j \in Nat :
                  j \in 1 .. Len(parts[i])
                    => Joined(parts)[Len(parts)][Len(Joined(parts)[i - 1]) + j] = parts[i][j]
<1>. DEFINE J == Joined(parts)  n == Len(parts)
<1>1. n \in Nat /\ \A i \in 1 .. n : parts[i] \in Seq(Byte)
  OBVIOUS
<1>2. J[0] = <<>> /\ \A i \in 1 .. n : J[i] = J[i - 1] \o parts[i]
  BY JoinedUnfolds
<1>3. \A i \in 0 .. n : J[i] \in Seq(Byte)
  BY JoinedType
<1>4. \A i \in 0 .. n : Begins(J[i], J[n])
  <2>. TAKE i \in 0 .. n
  <2>1. i \in 0 .. Len(parts) /\ n \in 0 .. Len(parts) /\ i <= n
    BY <1>1
  <2>2. Len(J[i]) <= Len(J[n]) /\ \A k \in 1 .. Len(J[i]) : J[n][k] = J[i][k]
    BY <2>1, JoinedGrows
  <2>. HIDE DEF J
  <2>. QED BY <2>2 DEF Begins
<1>. HIDE DEF J, n
<1>5. ASSUME NEW i \in 0 .. n PROVE Len(J[i]) \in 0 .. Len(J[n])
  <2>1. n \in 0 .. n
    BY <1>1
  <2>2. Len(J[i]) \in Nat /\ Len(J[n]) \in Nat
    BY <1>3, <2>1
  <2>. QED BY <1>4, <2>2 DEF Begins
<1>6. ASSUME NEW i \in 1 .. n
      PROVE  /\ Len(J[i]) = Len(J[i - 1]) + Len(parts[i])
             /\ \A j \in Nat : j \in 1 .. Len(parts[i]) => J[n][Len(J[i - 1]) + j] = parts[i][j]
  <2>. DEFINE a == J[i - 1]  b == parts[i]  c == J[i]
  <2>1. i - 1 \in 0 .. n /\ i \in 0 .. n
    BY <1>1
  <2>2. a \in Seq(Byte) /\ b \in Seq(Byte) /\ c = a \o b /\ Begins(c, J[n])
    BY <1>1, <1>2, <1>3, <1>4, <2>1
  <2>. HIDE DEF a, b, c
  <2>3. /\ Len(a \o b) = Len(a) + Len(b) /\ Len(a) \in Nat /\ Len(b) \in Nat
        /\ \A k \in 1 .. Len(a) + Len(b) :
               (a \o b)[k] = IF k <= Len(a) THEN a[k] ELSE b[k - Len(a)]
    BY <2>2, ConcatProperties
  <2>4. ASSUME NEW j \in Nat, j \in 1 .. Len(b) PROVE J[n][Len(a) + j] = b[j]
    <3>1. Len(a) + j \in 1 .. Len(a) + Len(b) /\ ~(Len(a) + j <= Len(a))
          /\ (Len(a) + j) - Len(a) = j
      BY <2>3, <2>4
    <3>2. c[Len(a) + j] = b[j]
      BY <2>2, <2>3, <3>1
    <3>3. J[n][Len(a) + j] = c[Len(a) + j]
      BY <2>2, <2>3, <3>1 DEF Begins
    <3>. QED BY <3>2, <3>3
  <2>. QED BY <2>2, <2>3, <2>4 DEF a, b, c
<1>. QED BY <1>1, <1>2, <1>3, <1>5, <1>6 DEF J, n

-----------------------------------------------------------------------------
(* Arguments. *)

\* What is written of a value is one parameter, and what is read of it is the value.
ReadsBack(v) ==
    /\ v \in Value
    /\ WriteArg(v) \in Seq(Byte) /\ OneParam(WriteArg(v))
    /\ ParseParam(v.kind, WriteArg(v)) = v

ArgumentParts(args) ==
    [i \in 1 .. Len(args) |->
        IF i > 1 THEN <<Comma>> \o WriteArg(args[i]) ELSE WriteArg(args[i])]

\* The kinds of values
NoValues == [kind : {"-"}]
NumberValues == [kind : {"d"}, value : Int]
StringValues == [kind : {"s", "$"}, text : Seq(Byte)]
IpValues == [kind : {"i"}, type : {"v4", "v6"}, part : Seq(0 .. UInt16Size - 1)]
MacValues == [kind : {"m"}, address : Seq(Byte)]
BdValues == [kind : {"b"}, type : {"random", "public"}, address : Seq(Byte)]
ListValues == [kind : {"l"}, list : Seq(Int)]
HexValues == [kind : {"h"}, data : Seq(Byte)]

LEMMA ValueKinds ==
    /\ NumberValues \subseteq Value /\ StringValues \subseteq Value /\ IpValues \subseteq Value
    /\ MacValues \subseteq Value /\ BdValues \subseteq Value
    /\ ListValues \subseteq Value /\ HexValues \subseteq Value
    /\ Bad \notin Value /\ \A v \in Value : v.kind # "B"
<1>1. Value = NoValues \cup NumberValues \cup StringValues \cup IpValues
                \cup MacValues \cup BdValues \cup ListValues \cup HexValues
  BY DEF Value, NoValues, NumberValues, StringValues, IpValues,
         MacValues, BdValues, ListValues, HexValues
<1>2. \A v \in Value : v.kind # "B" /\ v.kind # "bad"
  <2>. DEFINE I == Int  T == Seq(Byte)  V == {"v4", "v6"}  P == Seq(0 .. UInt16Size - 1)
              R == {"random", "public"}  L == Seq(Int)
  <2>1. \A v \in NoValues : v.kind # "B" /\ v.kind # "bad"
    <3>1. NoValues = [kind : {"-"}]
      BY DEF NoValues
    <3>. HIDE DEF I, T, V, P, R, L
    <3>. QED BY <3>1
  <2>2. \A v \in NumberValues : v.kind # "B" /\ v.kind # "bad"
    <3>1. NumberValues = [kind : {"d"}, value : I]
      BY DEF NumberValues
    <3>. HIDE DEF I, T, V, P, R, L
    <3>. QED BY <3>1
  <2>3. \A v \in StringValues : v.kind # "B" /\ v.kind # "bad"
    <3>1. StringValues = [kind : {"s", "$"}, text : T]
      BY DEF StringValues
    <3>. HIDE DEF I, T, V, P, R, L
    <3>. QED BY <3>1
  <2>4. \A v \in IpValues : v.kind # "B" /\ v.kind # "bad"
    <3>1. IpValues = [kind : {"i"}, type : V, part : P]
      BY DEF IpValues
    <3>. HIDE DEF I, T, V, P, R, L
    <3>. QED BY <3>1
  <2>5. \A v \in MacValues : v.kind # "B" /\ v.kind # "bad"
    <3>1. MacValues = [kind : {"m"}, address : T]
      BY DEF MacValues
    <3>. HIDE DEF I, T, V, P, R, L
    <3>. QED BY <3>1
  <2>6. \A v \in BdValues : v.kind # "B" /\ v.kind # "bad"
    <3>1. BdValues = [kind : {"b"}, type : R, address : T]
      BY DEF BdValues
    <3>. HIDE DEF I, T, V, P, R, L
    <3>. QED BY <3>1
  <2>7. \A v \in ListValues : v.kind # "B" /\ v.kind # "bad"
    <3>1. ListValues = [kind : {"l"}, list : L]
      BY DEF ListValues
    <3>. HIDE DEF I, T, V, P, R, L
    <3>. QED BY <3>1
  <2>8. \A v \in HexValues : v.kind # "B" /\ v.kind # "bad"
    <3>1. HexValues = [kind : {"h"}, data : T]
      BY DEF HexValues
    <3>. HIDE DEF I, T, V, P, R, L
    <3>. QED BY <3>1
  <2>. QED BY <1>1, <2>1, <2>2, <2>3, <2>4, <2>5, <2>6, <2>7, <2>8
<1>3. Bad.kind = "bad"
  BY DEF Bad
<1>. QED BY <1>1, <1>2, <1>3

LEMMA PartsFacts ==
    ASSUME NEW args \in Seq(Value), \A i \in 1 .. Len(args) : ReadsBack(args[i])
    PROVE  /\ ArgumentParts(args) \in Seq(Seq(Byte)) /\ Len(ArgumentParts(args)) = Len(args)
           /\ Arguments(args) = Joined(ArgumentParts(args))[Len(args)]
           /\ \A i \in 1 .. Len(args) :
                  /\ Len(WriteArg(args[i])) \in Nat
                  /\ Len(ArgumentParts(args)[i])
                       = IF i > 1 THEN Len(WriteArg(args[i])) + 1 ELSE Len(WriteArg(args[i]))
                  /\ i > 1 => ArgumentParts(args)[i][1] = Comma
                  /\ \A j \in 1 .. Len(WriteArg(args[i])) :
                         WriteArg(args[i])[j]
                           = ArgumentParts(args)[i][IF i > 1 THEN j + 1 ELSE j]
<1>. DEFINE n == Len(args)  P == ArgumentParts(args)  W(i) == WriteArg(args[i])
<1>1. n \in Nat /\ DOMAIN args = 1 .. n /\ \A i \in 1 .. n : args[i] \in Value
  OBVIOUS
<1>2. \A i \in 1 .. n : W(i) \in Seq(Byte) /\ Len(W(i)) \in Nat
  BY DEF ReadsBack
<1>. DEFINE q == <<Comma>>
<1>3. q \in Seq(Byte) /\ Len(q) = 1 /\ q[1] = Comma
  BY DEF Comma, Byte, MaxByte
<1>4. \A i \in 1 .. n : P[i] = IF i > 1 THEN q \o W(i) ELSE W(i)
  BY DEF ArgumentParts
<1>5. Arguments(args) = Joined(P)[n]
  <2>. DEFINE sep(i) == IF i > 1 /\ args[i].kind # "B" THEN <<Comma>> ELSE <<>>
              Q == [i \in DOMAIN args |-> sep(i) \o WriteArg(args[i])]
  <2>1. Arguments(args) = Joined(Q)[n]
    BY DEF Arguments
  <2>2. \A i \in 1 .. n : sep(i) \o WriteArg(args[i])
                            = IF i > 1 THEN <<Comma>> \o WriteArg(args[i]) ELSE WriteArg(args[i])
    <3>. TAKE i \in 1 .. n
    <3>1. args[i].kind # "B"
      BY <1>1, ValueKinds
    <3>2. <<>> \o W(i) = W(i)
      BY <1>2
    <3>. QED BY <3>1, <3>2
  <2>3. Q = P
    BY <1>1, <2>2 DEF ArgumentParts
  <2>. QED BY <2>1, <2>3
<1>. HIDE DEF P, W, q
<1>6. ASSUME NEW i \in 1 .. n
      PROVE  /\ P[i] \in Seq(Byte) /\ Len(P[i]) = IF i > 1 THEN Len(W(i)) + 1 ELSE Len(W(i))
             /\ i > 1 => P[i][1] = Comma
             /\ \A j \in 1 .. Len(W(i)) : W(i)[j] = P[i][IF i > 1 THEN j + 1 ELSE j]
  <2>1. CASE i > 1
    <3>. DEFINE w == W(i)
    <3>1. w \in Seq(Byte) /\ Len(w) \in Nat /\ P[i] = q \o w
      BY <1>2, <1>4, <2>1
    <3>. HIDE DEF w
    <3>2. /\ q \o w \in Seq(Byte) /\ Len(q \o w) = Len(q) + Len(w)
          /\ \A k \in 1 .. Len(q) + Len(w) :
                 (q \o w)[k] = IF k <= Len(q) THEN q[k] ELSE w[k - Len(q)]
      BY <1>3, <3>1, ConcatProperties
    <3>3. P[i] \in Seq(Byte) /\ Len(P[i]) = Len(w) + 1 /\ P[i][1] = Comma
      BY <1>3, <3>1, <3>2
    <3>4. ASSUME NEW j \in 1 .. Len(w) PROVE w[j] = P[i][j + 1]
      <4>1. j + 1 \in 1 .. Len(q) + Len(w) /\ ~(j + 1 <= Len(q)) /\ (j + 1) - Len(q) = j
        BY <1>3, <3>1
      <4>. QED BY <3>1, <3>2, <4>1
    <3>. QED BY <2>1, <3>3, <3>4 DEF w
  <2>2. CASE ~(i > 1)
    <3>1. P[i] = W(i)
      BY <1>4, <2>2
    <3>. QED BY <1>2, <2>2, <3>1
  <2>. QED BY <2>1, <2>2
<1>7. P \in Seq(Seq(Byte)) /\ Len(P) = n
  <2>1. P \in [1 .. n -> Seq(Byte)]
    <3>1. P = [i \in 1 .. n |-> P[i]]
      BY DEF P, ArgumentParts
    <3>. QED BY <1>6, <3>1
  <2>2. P \in Seq(Seq(Byte))
    BY <1>1, <2>1
  <2>. QED BY <1>1, <2>1, <2>2, LenProperties
<1>. QED BY <1>2, <1>5, <1>6, <1>7 DEF P, W

\* Where an argument stands in what is written
Place(args, i) == IF i > 1 THEN Len(Joined(ArgumentParts(args))[i - 1]) + 2 ELSE 1
Ends(args, i) == Len(Joined(ArgumentParts(args))[i]) + 1

LEMMA ArgumentFound ==
    ASSUME NEW args \in Seq(Value), \A i \in 1 .. Len(args) : ReadsBack(args[i]),
           NEW i \in 1 .. Len(args)
    PROVE  /\ Arguments(args) \in Seq(Byte)
           /\ Place(args, i) \in Nat /\ Ends(args, i) \in Nat \ {0}
           /\ FindParamEnd(Arguments(args), Place(args, i)) = Ends(args, i)
           /\ SubSeq(Arguments(args), Place(args, i), Ends(args, i) - 1) = WriteArg(args[i])
           /\ Ends(args, i) > Len(Arguments(args)) <=> i = Len(args)
           /\ i < Len(args) => Place(args, i + 1) = Ends(args, i) + 1
<1>. DEFINE n == Len(args)  P == ArgumentParts(args)  J == Joined(P)  T == Arguments(args)
            N == Len(T)  w == WriteArg(args[i])  from == Place(args, i)  end == Ends(args, i)
            Size(k) == Len(J[k])
<1>1. /\ P \in Seq(Seq(Byte)) /\ Len(P) = n /\ T = J[n]
      /\ \A k \in 1 .. n :
             /\ k > 1 => P[k][1] = Comma
             /\ Len(WriteArg(args[k])) \in Nat
             /\ Len(P[k]) = IF k > 1 THEN Len(WriteArg(args[k])) + 1 ELSE Len(WriteArg(args[k]))
      /\ \A j \in 1 .. Len(w) : w[j] = P[i][IF i > 1 THEN j + 1 ELSE j]
  BY PartsFacts
<1>2. w \in Seq(Byte) /\ OneParam(w) /\ Len(w) \in Nat
  BY DEF ReadsBack
<1>3. /\ n \in Nat /\ J[0] = <<>>
      /\ \A k \in 0 .. n : J[k] \in Seq(Byte) /\ Size(k) \in 0 .. N
      /\ \A k \in 1 .. n : Size(k) = Size(k - 1) + Len(P[k])
      /\ \A k \in 1 .. n, j \in Nat : j \in 1 .. Len(P[k]) => T[Size(k - 1) + j] = P[k][j]
  <2>1. P \in Seq(Seq(Byte)) /\ n = Len(P) /\ N = Len(J[n]) /\ T = J[n]
    BY <1>1
  <2>. HIDE DEF P, n, N, T
  <2>2. /\ Len(P) \in Nat /\ J[0] = <<>>
        /\ \A k \in 0 .. Len(P) : J[k] \in Seq(Byte) /\ Len(J[k]) \in 0 .. Len(J[Len(P)])
        /\ \A k \in 1 .. Len(P) : Len(J[k]) = Len(J[k - 1]) + Len(P[k])
        /\ \A k \in 1 .. Len(P), j \in Nat :
               j \in 1 .. Len(P[k]) => J[Len(P)][Len(J[k - 1]) + j] = P[k][j]
    BY <2>1, JoinedParts
  <2>. HIDE DEF J
  <2>. QED BY <2>1, <2>2
<1>4. end = Size(i) + 1 /\ from = IF i > 1 THEN Size(i - 1) + 2 ELSE 1
  BY DEF Ends, Place
<1>5. T \in Seq(Byte) /\ N \in Nat
  <2>1. n \in 0 .. n
    BY <1>3
  <2>. HIDE DEF T
  <2>. QED BY <1>1, <1>3, <2>1
<1>6. i < n => Place(args, i + 1) = end + 1
  <2>. HAVE i < n
  <2>1. i \in Nat /\ i + 1 > 1 /\ (i + 1) - 1 = i
    BY <1>3
  <2>2. Place(args, i + 1) = Size(i) + 2
    BY <2>1 DEF Place
  <2>3. Size(i) \in Nat
    BY <1>3, <2>1
  <2>. HIDE DEF end, Size
  <2>. QED BY <1>4, <2>2, <2>3
<1>7. /\ i - 1 \in 0 .. n /\ i \in 0 .. n /\ i \in Nat
      /\ Size(i - 1) \in Nat /\ Size(i) \in 0 .. N /\ Size(i) = Size(i - 1) + Len(P[i])
      /\ i = 1 => Size(i - 1) = 0
  <2>1. i - 1 \in 0 .. n /\ i \in 0 .. n /\ i \in Nat /\ (i = 1 => i - 1 = 0)
    BY <1>3
  <2>2. Len(J[0]) = 0
    BY <1>3
  <2>. HIDE DEF T, P, J
  <2>3. Size(i - 1) \in 0 .. N /\ Size(i) \in 0 .. N
    BY <1>3, <2>1
  <2>4. Size(i) = Size(i - 1) + Len(P[i])
    BY <1>3
  <2>5. i = 1 => Size(i - 1) = 0
    BY <2>1, <2>2
  <2>. HIDE DEF Size
  <2>. QED BY <2>1, <2>3, <2>4, <2>5
<1>8. Len(P[i]) = IF i > 1 THEN Len(w) + 1 ELSE Len(w)
  BY <1>1
<1>9. from \in Nat \ {0} /\ end \in Nat \ {0} /\ from + Len(w) = end /\ end <= N + 1
      /\ from = Size(i - 1) + (IF i > 1 THEN 2 ELSE 1)
  <2>. HIDE DEF T, P, J, w, from, end, Size
  <2>1. CASE i > 1
    <3>0. PICK a \in Nat, b \in Nat, l \in Nat, m \in Nat :
           a = Size(i - 1) /\ b = Size(i) /\ l = Len(w) /\ m = N
      BY <1>2, <1>5, <1>7
    <3>1. from = a + 2 /\ end = b + 1 /\ b = a + (l + 1) /\ b <= m
      BY <1>4, <1>7, <1>8, <2>1, <3>0
    <3>2. from \in Nat \ {0} /\ end \in Nat \ {0}
      BY <3>1
    <3>3. from + l = end /\ end <= m + 1
      <4>1. (a + 2) + l = (a + (l + 1)) + 1 /\ (b <= m => b + 1 <= m + 1)
        OBVIOUS
      <4>. QED BY <3>1, <4>1
    <3>. QED BY <2>1, <3>0, <3>1, <3>2, <3>3
  <2>2. CASE i = 1
    <3>1. Len(P[i]) = Len(w) /\ from = 1 /\ N \in Nat /\ Size(i - 1) = 0
      BY <1>4, <1>5, <1>7, <1>8, <2>2
    <3>. QED BY <1>2, <1>4, <1>7, <2>2, <3>1
  <2>. QED BY <1>7, <2>1, <2>2
<1>10. \A j \in 1 .. Len(w) : T[from + j - 1] = w[j]
  <2>. TAKE j \in 1 .. Len(w)
  <2>. PICK k : k = IF i > 1 THEN j + 1 ELSE j
    OBVIOUS
  <2>1. j \in Nat
    BY <1>2
  <2>. HIDE DEF T, P, J, w, from, end, Size
  <2>2. k \in Nat /\ k \in 1 .. Len(P[i]) /\ from + j - 1 = Size(i - 1) + k
    <3>1. CASE i > 1
      BY <1>2, <1>7, <1>8, <1>9, <2>1, <3>1
    <3>2. CASE i = 1
      BY <1>2, <1>7, <1>8, <1>9, <2>1, <3>2
    <3>. QED BY <1>7, <3>1, <3>2
  <2>3. T[Size(i - 1) + k] = P[i][k]
    BY <1>3, <2>2
  <2>4. w[j] = P[i][k]
    BY <1>1
  <2>. QED BY <2>2, <2>3, <2>4
<1>11. i < n => end <= N /\ T[end] = Comma
  <2>. HAVE i < n
  <2>. PICK k : k = i + 1
    OBVIOUS
  <2>1. k \in 1 .. n /\ k > 1 /\ k - 1 = i /\ k \in 0 .. n
    BY <1>3, <1>7
  <2>2. Len(P[k]) = Len(WriteArg(args[k])) + 1 /\ Len(WriteArg(args[k])) \in Nat /\ P[k][1] = Comma
    BY <1>1, <2>1
  <2>3. Size(k) = Size(i) + Len(P[k]) /\ Size(k) \in 0 .. N
    BY <1>3, <2>1
  <2>. HIDE DEF T, P, J, w, from, end, Size
  <2>4. 1 \in 1 .. Len(P[k]) /\ end <= N /\ end = Size(i) + 1
    <3>1. PICK a \in Nat, b \in Nat, l \in Nat, m \in Nat :
              a = Size(i) /\ b = Size(k) /\ l = Len(WriteArg(args[k])) /\ m = N
      BY <1>5, <1>7, <2>2, <2>3
    <3>2. b = a + (l + 1) /\ b <= m /\ Len(P[k]) = l + 1
      BY <2>2, <2>3, <3>1
    <3>3. end = a + 1
      BY <1>4, <3>1
    <3>4. 1 \in 1 .. l + 1 /\ a + 1 <= m
      BY <3>2
    <3>. QED BY <3>1, <3>2, <3>3, <3>4
  <2>5. T[Size(k - 1) + 1] = P[k][1]
    BY <1>3, <2>1, <2>4
  <2>. QED BY <2>1, <2>2, <2>4, <2>5
<1>12. i = n => end = N + 1
  <2>. HAVE i = n
  <2>1. Size(i) = N
    BY <1>1
  <2>. QED BY <1>4, <2>1
<1>13. end > N <=> i = n
  <2>1. i < n \/ i = n
    BY <1>3
  <2>. HIDE DEF T, P, J, w, from, end, Size, n
  <2>. QED BY <1>5, <1>9, <1>11, <1>12, <2>1
<1>14. FindParamEnd(T, from) = end
  <2>1. from + Len(w) <= Len(T) => T[from + Len(w)] = Comma
    <3>1. i < n \/ i = n
      BY <1>3
    <3>. HIDE DEF T, P, J, w, from, end, Size, n
    <3>. QED BY <1>5, <1>9, <1>11, <1>12, <3>1
  <2>. HIDE DEF T, P, J, w, from, end, Size, n
  <2>2. FindParamEnd(T, from) = from + Len(w)
    BY <1>2, <1>5, <1>9, <1>10, <2>1, ParamEnd
  <2>. QED BY <1>9, <2>2
<1>15. SubSeq(T, from, end - 1) = w
  <2>. HIDE DEF T, P, J, w, from, end, Size, n
  <2>1. from \in Int /\ end - 1 \in Int /\ \A k \in from .. end - 1 : T[k] \in Byte
    BY <1>5, <1>9
  <2>2. /\ SubSeq(T, from, end - 1) \in Seq(Byte)
        /\ Len(SubSeq(T, from, end - 1)) = IF from <= end - 1 THEN end - 1 - from + 1 ELSE 0
        /\ \A k \in 1 .. end - 1 - from + 1 : SubSeq(T, from, end - 1)[k] = T[from + k - 1]
    BY <2>1, SubSeqProperties
  <2>3. Len(SubSeq(T, from, end - 1)) = Len(w) /\ end - 1 - from + 1 = Len(w)
    BY <1>2, <1>9, <2>2
  <2>4. \A k \in 1 .. Len(w) : SubSeq(T, from, end - 1)[k] = w[k]
    BY <1>10, <2>2, <2>3
  <2>. QED BY <1>2, <2>2, <2>3, <2>4, SameText DEF Texts
<1>. QED BY <1>5, <1>6, <1>9, <1>13, <1>14, <1>15

Parsed(ret, over, pos, vals) == [ret |-> ret, over |-> over, pos |-> pos, vals |-> vals]

\* The first i of a sequence and the next are the first i + 1.
LEMMA FirstAndNext ==
    ASSUME NEW A, NEW s \in Seq(A), NEW i \in 1 .. Len(s)
    PROVE  /\ SubSeq(s, 1, i - 1) \in Seq(A)
           /\ Append(SubSeq(s, 1, i - 1), s[i]) = SubSeq(s, 1, i)
<1>1. i \in Nat /\ Len(s) \in Nat /\ \A k \in 1 .. Len(s) : s[k] \in A
  OBVIOUS
<1>. DEFINE a == SubSeq(s, 1, i - 1)  b == SubSeq(s, 1, i)  c == Append(a, s[i])
<1>2. a \in Seq(A) /\ Len(a) = i - 1 /\ \A k \in 1 .. i - 1 : a[k] = s[k]
  <2>1. 1 \in Int /\ i - 1 \in Int /\ \A k \in 1 .. i - 1 : s[k] \in A
    BY <1>1
  <2>2. /\ SubSeq(s, 1, i - 1) \in Seq(A)
        /\ Len(SubSeq(s, 1, i - 1)) = IF 1 <= i - 1 THEN (i - 1) - 1 + 1 ELSE 0
        /\ \A k \in 1 .. (i - 1) - 1 + 1 : SubSeq(s, 1, i - 1)[k] = s[1 + k - 1]
    BY <2>1, SubSeqProperties
  <2>. HIDE DEF a
  <2>3. \A k \in 1 .. i - 1 : k \in 1 .. (i - 1) - 1 + 1 /\ 1 + k - 1 = k
    BY <1>1
  <2>. QED BY <1>1, <2>2, <2>3 DEF a
<1>3. b \in Seq(A) /\ Len(b) = i /\ \A k \in 1 .. i : b[k] = s[k]
  <2>1. 1 \in Int /\ i \in Int /\ \A k \in 1 .. i : s[k] \in A
    BY <1>1
  <2>2. /\ SubSeq(s, 1, i) \in Seq(A)
        /\ Len(SubSeq(s, 1, i)) = IF 1 <= i THEN i - 1 + 1 ELSE 0
        /\ \A k \in 1 .. i - 1 + 1 : SubSeq(s, 1, i)[k] = s[1 + k - 1]
    BY <2>1, SubSeqProperties
  <2>3. \A k \in 1 .. i : k \in 1 .. i - 1 + 1 /\ 1 + k - 1 = k
    BY <1>1
  <2>. QED BY <1>1, <2>2, <2>3
<1>. HIDE DEF a, b
<1>4. /\ c \in Seq(A) /\ Len(c) = i /\ c[i] = s[i] /\ \A k \in 1 .. i - 1 : c[k] = a[k]
  <2>1. /\ c \in Seq(A) /\ Len(c) = Len(a) + 1
        /\ \A k \in 1 .. Len(a) : c[k] = a[k]
        /\ c[Len(a) + 1] = s[i]
    BY <1>1, <1>2, AppendProperties
  <2>2. Len(a) + 1 = i
    BY <1>1, <1>2
  <2>. HIDE DEF c
  <2>. QED BY <1>2, <2>1, <2>2
<1>. HIDE DEF c
<1>5. \A k \in 1 .. Len(c) : c[k] = b[k]
  <2>. TAKE k \in 1 .. Len(c)
  <2>1. k \in 1 .. i - 1 \/ k = i
    BY <1>1, <1>4
  <2>2. k \in 1 .. i
    BY <1>4
  <2>. QED BY <1>2, <1>3, <1>4, <2>1, <2>2
<1>6. c = b
  BY <1>3, <1>4, <1>5, SeqEqual
<1>. QED BY <1>2, <1>6 DEF a, b, c

\* Arguments that can be read back one by one are read back together, in their order,
\* whatever stands in them.
LEMMA ArgumentsRead ==
    ASSUME NEW args \in Seq(Value), args # <<>>, \A i \in 1 .. Len(args) : ReadsBack(args[i])
    PROVE  ParseParams(Arguments(args), Formats(args)) = [ret |-> Len(args), vals |-> args]
<1>. DEFINE n == Len(args)  T == Arguments(args)  fmt == Formats(args)  step == ParseStep(T, fmt)
            start == Parsed(0, FALSE, 1, <<>>)
            L == Loop(step, start, n)
            Pos(i) == IF i = 0 THEN 1 ELSE Ends(args, i) + 1
            Read(i) == Parsed(i, i = n, Pos(i), SubSeq(args, 1, i))
            S == {i \in Nat : L[i] = Read(i)}
<1>1. n \in Nat /\ n # 0 /\ \A i \in 1 .. n : args[i] \in Value
  OBVIOUS
<1>2. Len(fmt) = n /\ \A i \in 1 .. n : fmt[i] = args[i].kind
  <2>1. fmt = [i \in 1 .. n |-> args[i].kind]
    BY DEF Formats
  <2>. DEFINE K == {args[i].kind : i \in 1 .. n}
  <2>2. fmt \in [1 .. n -> K]
    BY <2>1
  <2>3. fmt \in Seq(K)
    BY <1>1, <2>2
  <2>. HIDE DEF fmt, K
  <2>4. Len(fmt) = n
    BY <1>1, <2>2, <2>3, LenProperties
  <2>. QED BY <2>1, <2>4
<1>3. ParseParams(T, fmt) = [ret |-> L[n].ret, vals |-> L[n].vals]
  <2>. HIDE DEF fmt, n
  <2>. QED BY <1>2 DEF ParseParams, Parsed
<1>4. L[0] = start /\ \A i \in 1 .. n : L[i] = step[L[i - 1]]
  <2>. HIDE DEF step, start, n
  <2>. QED BY <1>1, LoopUnfolds
<1>. HIDE DEF L, n
<1>5. 0 \in S
  <2>1. SubSeq(args, 1, 0) = <<>>
    BY SubSeqEmpty
  <2>2. start = Read(0)
    BY <1>1, <2>1
  <2>. QED BY <1>4, <2>2
<1>6. ASSUME NEW i \in 1 .. n, i - 1 \in S PROVE i \in S
  <2>. DEFINE from == Place(args, i)  end == Ends(args, i)  v == args[i]
  <2>1. /\ from \in Nat /\ end \in Nat \ {0} /\ FindParamEnd(T, from) = end
        /\ SubSeq(T, from, end - 1) = WriteArg(v) /\ (end > Len(T) <=> i = n)
    BY ArgumentFound DEF n
  <2>2. i - 1 \in 0 .. n /\ i - 1 \in Nat /\ i \in Nat /\ i - 1 < n /\ (i - 1) + 1 = i
    BY <1>1
  <2>3. Pos(i - 1) = from
    <3>1. CASE i = 1
      BY <3>1 DEF Place
    <3>2. CASE i # 1
      <4>. PICK k : k = i - 1
        OBVIOUS
      <4>1. k \in 1 .. Len(args) /\ k < Len(args) /\ k + 1 = i /\ k # 0
        BY <1>1, <2>2, <3>2 DEF n
      <4>2. Place(args, k + 1) = Ends(args, k) + 1
        BY <4>1, ArgumentFound
      <4>. QED BY <4>1, <4>2
    <3>. QED BY <3>1, <3>2
  <2>4. v \in Value /\ ParseParam(fmt[i], WriteArg(v)) = v
    <3>1. ReadsBack(v)
      BY DEF n
    <3>2. fmt[i] = v.kind
      BY <1>2
    <3>. HIDE DEF v, fmt
    <3>. QED BY <3>1, <3>2 DEF ReadsBack
  <2>5. /\ SubSeq(args, 1, i - 1) \in Seq(Value)
        /\ Append(SubSeq(args, 1, i - 1), v) = SubSeq(args, 1, i)
    BY FirstAndNext DEF n
  <2>. DEFINE k == i - 1  vals == SubSeq(args, 1, i - 1)
              before == Parsed(k, FALSE, from, vals)
  <2>6. L[i - 1] = before
    <3>1. L[i - 1] = Read(i - 1)
      BY <1>6
    <3>2. (i - 1 = n) = FALSE
      BY <1>1
    <3>. HIDE DEF from, Pos
    <3>. QED BY <2>3, <3>1, <3>2
  <2>7. step[before] = Parsed(i, end > Len(T), end + 1, Append(vals, v))
    <3>. DEFINE e == FindParamEnd(T, before.pos)
                value == IF e = 0 THEN Bad
                         ELSE ParseParam(fmt[before.ret + 1], SubSeq(T, before.pos, e - 1))
    <3>1. k \in Nat /\ vals \in Seq(Value) /\ k + 1 = i
      BY <2>2, <2>5
    <3>. HIDE DEF from, end, v, k, vals, T, fmt
    <3>2. before \in [ret : Int, over : BOOLEAN, pos : Nat, vals : Seq(Value)]
          /\ before.ret = k /\ before.over = FALSE /\ before.pos = from /\ before.vals = vals
      BY <2>1, <3>1 DEF Parsed
    <3>. HIDE DEF before
    <3>3. step[before] = IF before.over THEN before ELSE ParseNext(before, e, value, e > Len(T))
      BY <3>2 DEF ParseStep
    <3>4. e = end /\ before.ret + 1 = i
      BY <2>1, <3>1, <3>2
    <3>5. value = v
      BY <2>1, <2>4, <3>2, <3>4
    <3>. HIDE DEF e, value, step
    <3>6. step[before] = ParseNext(before, end, v, end > Len(T))
      BY <3>2, <3>3, <3>4, <3>5
    <3>7. v # Bad
      BY <2>4, ValueKinds
    <3>8. ParseNext(before, end, v, end > Len(T))
            = Parsed(before.ret + 1, end > Len(T), end + 1, Append(before.vals, v))
      BY <3>7 DEF ParseNext, Parsed
    <3>. QED BY <3>2, <3>4, <3>6, <3>8
  <2>8. L[i] = Read(i)
    <3>1. L[i] = step[before]
      BY <1>4, <2>6
    <3>2. (end > Len(T)) = (i = n)
      BY <2>1
    <3>3. Pos(i) = end + 1
      <4>1. i # 0
        OBVIOUS
      <4>. QED BY <4>1
    <3>. HIDE DEF from, end, v, T, step, before, Pos
    <3>. QED BY <2>2, <2>5, <2>7, <3>1, <3>2, <3>3
  <2>. QED BY <2>2, <2>8
<1>7. L[n] = Read(n)
  <2>1. n \in 0 .. n
    BY <1>1
  <2>2. \A i \in 0 .. n : i \in S
    <3>. HIDE DEF S
    <3>. QED BY <1>1, <1>5, <1>6, Induction
  <2>. HIDE DEF Read
  <2>. QED BY <2>1, <2>2
<1>8. SubSeq(args, 1, n) = args
  <2>1. /\ SubSeq(args, 1, n) \in Seq(Value) /\ Len(SubSeq(args, 1, n)) = n
        /\ \A k \in 1 .. n : SubSeq(args, 1, n)[k] = args[k]
    <3>1. 1 \in Int /\ n \in Int /\ \A k \in 1 .. n : args[k] \in Value
      BY <1>1
    <3>2. /\ SubSeq(args, 1, n) \in Seq(Value)
          /\ Len(SubSeq(args, 1, n)) = IF 1 <= n THEN n - 1 + 1 ELSE 0
          /\ \A k \in 1 .. n - 1 + 1 : SubSeq(args, 1, n)[k] = args[1 + k - 1]
      BY <3>1, SubSeqProperties
    <3>3. \A k \in 1 .. n : k \in 1 .. n - 1 + 1 /\ 1 + k - 1 = k
      BY <1>1
    <3>. QED BY <1>1, <3>2, <3>3
  <2>. QED BY <2>1, SeqEqual DEF n
<1>. QED BY <1>3, <1>7, <1>8 DEF n, Parsed

-----------------------------------------------------------------------------
(* Strings. *)

LEMMA WrittenString ==
    ASSUME NEW t \in Seq(Byte), KeepsEscapes(t)
    PROVE  WriteString(t) = Quoted(Escape(t))
BY DEF KeepsEscapes, WriteString, WriteEscString

LEMMA Unquoted ==
    ASSUME NEW u \in Seq(Byte)
    PROVE  SubSeq(Quoted(u), 2, Len(Quoted(u)) - 1) = u /\ Len(Quoted(u)) > 1
           /\ At(Quoted(u), 1) = Quote /\ Last(Quoted(u)) = Quote
<1>. DEFINE p == Quoted(u)  n == Len(u)  s == SubSeq(p, 2, n + 1)
<1>1. /\ p \in Seq(Byte) /\ Len(p) = n + 2 /\ n \in Nat /\ p[1] = Quote /\ p[n + 2] = Quote
      /\ \A i \in 1 .. n : p[i + 1] = u[i]
  BY QuotedFacts
<1>. HIDE DEF p, n
<1>2. At(p, 1) = Quote /\ Last(p) = Quote /\ Len(p) > 1 /\ Len(p) - 1 = n + 1
  BY <1>1 DEF At, Last
<1>3. /\ s \in Seq(Byte) /\ Len(s) = n /\ \A i \in 1 .. n : s[i] = p[i + 1]
  <2>1. 2 \in Int /\ n + 1 \in Int /\ \A i \in 2 .. n + 1 : p[i] \in Byte
    BY <1>1
  <2>2. /\ SubSeq(p, 2, n + 1) \in Seq(Byte)
        /\ Len(SubSeq(p, 2, n + 1)) = IF 2 <= n + 1 THEN (n + 1) - 2 + 1 ELSE 0
        /\ \A i \in 1 .. (n + 1) - 2 + 1 : SubSeq(p, 2, n + 1)[i] = p[2 + i - 1]
    BY <2>1, SubSeqProperties
  <2>3. \A i \in 1 .. n : i \in 1 .. (n + 1) - 2 + 1 /\ 2 + i - 1 = i + 1
    BY <1>1
  <2>. QED BY <1>1, <2>2, <2>3
<1>. HIDE DEF s
<1>4. \A i \in 1 .. Len(s) : s[i] = u[i]
  BY <1>1, <1>3
<1>5. Len(s) = Len(u)
  BY <1>3 DEF n
<1>6. s = u
  BY <1>3, <1>4, <1>5, SeqEqual
<1>. QED BY <1>2, <1>6 DEF s, p

\* A string arrives, whatever bytes are in it.
LEMMA StringReadsBack ==
    ASSUME NEW kind \in {"s", "$"}, NEW t \in Seq(Byte), KeepsEscapes(t),
           kind = "s" => CString(t) = t
    PROVE  /\ ReadsBack([kind |-> kind, text |-> t])
           /\ WriteArg([kind |-> kind, text |-> t]) = Quoted(Escape(t))
<1>. DEFINE v == [kind |-> kind, text |-> t]  U == Escape(t)  p == Quoted(U)
<1>1. v.kind = kind /\ v.text = t /\ v \in [kind : {"s", "$"}, text : Seq(Byte)]
  OBVIOUS
<1>2. v \in Value
  <2>1. v \in StringValues
    BY <1>1 DEF StringValues
  <2>. HIDE DEF v
  <2>. QED BY <2>1, ValueKinds
<1>. HIDE DEF v
<1>3. WriteArg(v) = p
  <2>1. WriteString(t) = p
    BY WrittenString
  <2>. HIDE DEF p
  <2>2. CASE kind = "s"
    <3>1. WriteArg(v) = WriteString(CString(v.text))
      BY <1>1, <2>2 DEF WriteArg
    <3>. QED BY <1>1, <2>1, <2>2, <3>1
  <2>3. CASE kind = "$"
    <3>1. WriteArg(v) = WriteString(v.text)
      BY <1>1, <2>3 DEF WriteArg
    <3>. QED BY <1>1, <2>1, <2>3, <3>1
  <2>. QED BY <2>2, <2>3
<1>4. U \in Seq(Byte) /\ p \in Seq(Byte) /\ OneParam(p)
  <2>1. U \in Seq(Byte)
    BY EscapesFacts
  <2>. QED BY <2>1, QuotedFacts, StringIsParam
<1>5. SubSeq(p, 2, Len(p) - 1) = U /\ Len(p) > 1 /\ At(p, 1) = Quote /\ Last(p) = Quote
  BY <1>4, Unquoted
<1>6. UnescapeString(U) = t
  BY EscapesUndone
<1>. HIDE DEF U, p
<1>7. ParseParam(kind, p) = v
  <2>1. CASE kind = "s"
    <3>1. ParseParam("s", p)
            = [kind |-> "s", text |-> CString(UnescapeString(
                  IF At(p, 1) = Quote THEN SubSeq(p, 2, Len(p) - 1) ELSE p))]
      BY DEF ParseParam
    <3>2. ParseParam("s", p) = [kind |-> "s", text |-> CString(UnescapeString(U))]
      BY <1>5, <3>1
    <3>. QED BY <1>6, <2>1, <3>2 DEF v
  <2>2. CASE kind = "$"
    <3>1. ParseParam("$", p)
            = [kind |-> "$", text |->
                 UnescapeString(CASE At(p, 1) # Quote -> p
                                  [] At(p, 1) = Quote /\ Len(p) > 1 /\ Last(p) = Quote
                                       -> SubSeq(p, 2, Len(p) - 1)
                                  [] OTHER -> SubSeq(p, 2, Len(p)))]
      BY DEF ParseParam
    <3>2. ParseParam("$", p) = [kind |-> "$", text |-> UnescapeString(U)]
      BY <1>5, <3>1
    <3>. QED BY <1>6, <2>2, <3>2 DEF v
  <2>. QED BY <2>1, <2>2
<1>. QED BY <1>1, <1>2, <1>3, <1>4, <1>7 DEF ReadsBack, v, p, U

-----------------------------------------------------------------------------
(* Hex strings. *)

\* A text without the characters that mean something to the scan is one parameter.
Ordinary(c) == c # Comma /\ c # Quote /\ c # Backslash /\ c # Open

LEMMA OrdinaryIsParam ==
    ASSUME NEW p \in Seq(Byte), \A i \in 1 .. Len(p) : Ordinary(p[i])
    PROVE  OneParam(p)
<1>. DEFINE n == Len(p)  Plain(i) == ScanOf(p)[i] = Scanned(i + 1, FALSE, FALSE, FALSE)
            S == {i \in Nat : Plain(i)}
<1>1. n \in Nat
  OBVIOUS
<1>2. 0 \in S
  <2>1. 0 + 1 = 1
    OBVIOUS
  <2>. QED BY <2>1, ScanOfFacts
<1>3. ASSUME NEW i \in 1 .. n, i - 1 \in S PROVE i \in S
  <2>. DEFINE c == p[i]
  <2>1. i \in Nat /\ i - 1 + 1 = i /\ Ordinary(c)
    OBVIOUS
  <2>2. ScanOf(p)[i - 1] = Scanned(i, FALSE, FALSE, FALSE)
    BY <1>3, <2>1
  <2>. DEFINE g == ~FALSE /\ c = Backslash
              h == IF FALSE \/ c = Backslash THEN FALSE ELSE IF FALSE THEN c # Quote ELSE c = Quote
              b == IF FALSE \/ c = Backslash \/ FALSE THEN FALSE
                   ELSE c = Open \/ (FALSE /\ c # Close)
  <2>3. ScanOf(p)[i] = Scanned(i + 1, g, h, b)
    BY <2>1, <2>2, ScanOne DEF Ordinary
  <2>. HIDE DEF c
  <2>4. g = FALSE /\ h = FALSE /\ b = FALSE
    BY <2>1 DEF Ordinary
  <2>. HIDE DEF g, h, b
  <2>5. Plain(i)
    BY <2>3, <2>4
  <2>. HIDE DEF Plain
  <2>. QED BY <2>1, <2>5
<1>4. \A i \in 0 .. n : Plain(i)
  <2>1. \A i \in 0 .. n : i \in S
    <3>. HIDE DEF S
    <3>. QED BY <1>1, <1>2, <1>3, Induction
  <2>. HIDE DEF Plain
  <2>. QED BY <2>1
<1>5. \A i \in 0 .. n : ScansTo(p, i)
  <2>. TAKE i \in 0 .. n
  <2>1. i \in Nat
    BY <1>1
  <2>. QED BY <1>4, <2>1, ScannedBehind
<1>6. n \in 0 .. n
  BY <1>1
<1>. QED BY <1>4, <1>5, <1>6 DEF OneParam, ScansTo

\* What BinaryToHex() makes of data when the buffer is large enough
HexText(data) == Joined([i \in DOMAIN data |-> ByteToHex(data[i])])[Len(data)]

LEMMA HexTextFacts ==
    ASSUME NEW data \in Seq(Byte)
    PROVE  /\ Len(data) \in Nat /\ HexText(data) \in Seq(Byte)
           /\ Len(HexText(data)) = 2 * Len(data)
           /\ \A i \in 1 .. Len(data) :
                  /\ HexText(data)[2 * i - 1] = ByteToHex(data[i])[1]
                  /\ HexText(data)[2 * i] = ByteToHex(data[i])[2]
<1>. DEFINE n == Len(data)  P == [i \in 1 .. n |-> ByteToHex(data[i])]  J == Joined(P)
            Size(i) == Len(J[i])
            S == {i \in Nat : Size(i) = 2 * i}
<1>1. n \in Nat /\ DOMAIN data = 1 .. n /\ \A i \in 1 .. n : data[i] \in Byte
  OBVIOUS
<1>2. \A i \in 1 .. n : ByteToHex(data[i]) \in Seq(Byte) /\ Len(ByteToHex(data[i])) = 2
  BY <1>1, HexFacts
<1>3. P \in Seq(Seq(Byte)) /\ Len(P) = n /\ \A i \in 1 .. n : P[i] = ByteToHex(data[i])
  <2>1. P \in [1 .. n -> Seq(Byte)] /\ \A i \in 1 .. n : P[i] = ByteToHex(data[i])
    BY <1>2
  <2>. HIDE DEF P, n
  <2>2. P \in Seq(Seq(Byte))
    BY <1>1, <2>1
  <2>. QED BY <1>1, <2>1, <2>2, LenProperties
<1>4. HexText(data) = J[n]
  BY <1>1 DEF HexText
<1>. HIDE DEF P, n
<1>5. /\ J[0] = <<>>
      /\ \A i \in 0 .. n : J[i] \in Seq(Byte)
      /\ \A i \in 1 .. n : Size(i) = Size(i - 1) + Len(P[i])
      /\ \A i \in 1 .. n, j \in Nat : j \in 1 .. Len(P[i]) => J[n][Size(i - 1) + j] = P[i][j]
  <2>1. /\ J[0] = <<>>
        /\ \A i \in 0 .. Len(P) : J[i] \in Seq(Byte)
        /\ \A i \in 1 .. Len(P) : Len(J[i]) = Len(J[i - 1]) + Len(P[i])
        /\ \A i \in 1 .. Len(P), j \in Nat :
               j \in 1 .. Len(P[i]) => J[Len(P)][Len(J[i - 1]) + j] = P[i][j]
    BY <1>3, JoinedParts
  <2>. HIDE DEF J
  <2>. QED BY <1>3, <2>1
<1>. HIDE DEF J
<1>6. \A i \in 0 .. n : Size(i) = 2 * i
  <2>1. 0 \in S
    BY <1>5
  <2>2. ASSUME NEW i \in 1 .. n, i - 1 \in S PROVE i \in S
    <3>1. Size(i) = Size(i - 1) + 2
      <4>1. Len(P[i]) = 2
        BY <1>2, <1>3
      <4>2. Size(i) = Size(i - 1) + Len(P[i])
        BY <1>5
      <4>. HIDE DEF Size
      <4>. QED BY <4>1, <4>2
    <3>2. Size(i - 1) = 2 * (i - 1) /\ i \in Nat
      BY <1>1, <2>2
    <3>. HIDE DEF Size
    <3>. QED BY <3>1, <3>2
  <2>3. \A i \in 0 .. n : i \in S
    <3>. HIDE DEF S
    <3>. QED BY <1>1, <2>1, <2>2, Induction
  <2>. HIDE DEF Size
  <2>. QED BY <2>3
<1>7. ASSUME NEW i \in 1 .. n
      PROVE  J[n][2 * i - 1] = ByteToHex(data[i])[1] /\ J[n][2 * i] = ByteToHex(data[i])[2]
  <2>1. Size(i - 1) = 2 * (i - 1) /\ i \in Nat
    BY <1>1, <1>6
  <2>2. Len(P[i]) = 2 /\ P[i] = ByteToHex(data[i])
    BY <1>2, <1>3
  <2>3. J[n][Size(i - 1) + 1] = P[i][1] /\ J[n][Size(i - 1) + 2] = P[i][2]
    <3>1. 1 \in 1 .. Len(P[i]) /\ 2 \in 1 .. Len(P[i])
      BY <2>2
    <3>. HIDE DEF Size
    <3>. QED BY <1>5, <3>1
  <2>. HIDE DEF Size
  <2>4. Size(i - 1) + 1 = 2 * i - 1 /\ Size(i - 1) + 2 = 2 * i
    BY <2>1
  <2>. QED BY <2>2, <2>3, <2>4
<1>8. J[n] \in Seq(Byte) /\ Len(J[n]) = 2 * n
  <2>1. n \in 0 .. n
    BY <1>1
  <2>. QED BY <1>5, <1>6, <2>1
<1>. QED BY <1>1, <1>4, <1>7, <1>8 DEF n

LEMMA HexTextOrdinary ==
    ASSUME NEW data \in Seq(Byte)
    PROVE  \A i \in 1 .. Len(HexText(data)) : HexText(data)[i] \in HexDigits
<1>. DEFINE H == HexText(data)  n == Len(data)
<1>1. /\ n \in Nat /\ Len(H) = 2 * n
      /\ \A i \in 1 .. n : H[2 * i - 1] = ByteToHex(data[i])[1] /\ H[2 * i] = ByteToHex(data[i])[2]
  BY HexTextFacts
<1>2. \A i \in 1 .. n : ByteToHex(data[i])[1] \in HexDigits /\ ByteToHex(data[i])[2] \in HexDigits
  <2>1. \A i \in 1 .. n : data[i] \in Byte
    OBVIOUS
  <2>. QED BY <2>1, HexFacts
<1>. HIDE DEF H, n
<1>3. ASSUME NEW i \in 1 .. Len(H) PROVE H[i] \in HexDigits
  <2>. PICK k : k = (i + 1) \div 2
    OBVIOUS
  <2>1. k \in 1 .. n /\ (i = 2 * k - 1 \/ i = 2 * k)
    BY <1>1
  <2>. QED BY <1>1, <1>2, <2>1
<1>. QED BY <1>3 DEF H

LEMMA DigitsOrdinary == \A c \in HexDigits : Ordinary(c)
BY DEF HexDigits, Ordinary, Zero, UpperA, Comma, Quote, Backslash, Open

\* The first n bytes of a text that are those of another one of this length
LEMMA FirstBytes ==
    ASSUME NEW m \in Seq(Byte), NEW t \in Seq(Byte), Len(t) <= Len(m),
           \A i \in 1 .. Len(t) : m[i] = t[i]
    PROVE  SubSeq(m, 1, Len(t)) = t
<1>. DEFINE n == Len(t)  s == SubSeq(m, 1, n)
<1>1. n \in Nat /\ 1 \in Int /\ n \in Int /\ \A i \in 1 .. n : m[i] \in Byte
  OBVIOUS
<1>. HIDE DEF n
<1>2. /\ s \in Seq(Byte) /\ Len(s) = IF 1 <= n THEN n - 1 + 1 ELSE 0
      /\ \A i \in 1 .. n - 1 + 1 : s[i] = m[1 + i - 1]
  BY <1>1, SubSeqProperties
<1>3. \A i \in 1 .. n : i \in 1 .. n - 1 + 1 /\ 1 + i - 1 = i
  BY <1>1
<1>. HIDE DEF s
<1>4. Len(s) = n /\ \A i \in 1 .. n : s[i] = m[i]
  BY <1>1, <1>2, <1>3
<1>5. \A i \in 1 .. Len(s) : s[i] = t[i]
  BY <1>4 DEF n
<1>6. s = t
  BY <1>2, <1>4, <1>5, SeqEqual DEF n
<1>. QED BY <1>6 DEF s, n

\* Bytes come out of their hex digits, in the buffer that holds these.
LEMMA HexUndone ==
    ASSUME NEW data \in Seq(Byte)
    PROVE  StringToByteArray(HexText(data)) = [kind |-> "h", data |-> data]
<1>. DEFINE n == Len(data)  H == HexText(data)  N == Len(H)
            start == [ok |-> TRUE, done |-> 0, mem |-> H]
            L == Loop(ByteStep, start, n)
            Is(k, m) == /\ L[k] = [ok |-> TRUE, done |-> k, mem |-> m]
                        /\ m \in Seq(Byte) /\ Len(m) = N
                        /\ \A i \in 1 .. k : m[i] = data[i]
                        /\ \A i \in k + 1 .. N : m[i] = H[i]
            S == {k \in Nat : \E m : Is(k, m)}
<1>1. /\ n \in Nat /\ H \in Seq(Byte) /\ N = 2 * n
      /\ \A i \in 1 .. n : data[i] \in Byte
      /\ \A i \in 1 .. n : H[2 * i - 1] = ByteToHex(data[i])[1]
                             /\ H[2 * i] = ByteToHex(data[i])[2]
  BY HexTextFacts
<1>2. L[0] = start /\ \A i \in 1 .. n : L[i] = ByteStep[L[i - 1]]
  BY <1>1, LoopUnfolds
<1>3. StringToByteArray(H)
        = IF N % 2 = 0 /\ L[n].ok THEN [kind |-> "h", data |-> SubSeq(L[n].mem, 1, n)] ELSE Bad
  <2>1. N \div 2 = n
    BY <1>1
  <2>. HIDE DEF H, n
  <2>. QED BY <2>1 DEF StringToByteArray
<1>. HIDE DEF L, H
<1>4. 0 \in S
  <2>1. Is(0, H)
    BY <1>1, <1>2
  <2>. QED BY <2>1
<1>5. ASSUME NEW k \in 1 .. n, k - 1 \in S PROVE k \in S
  <2>. DEFINE c == data[k]
  <2>1. PICK m : Is(k - 1, m)
    BY <1>5
  <2>. PICK j : j = k - 1
    OBVIOUS
  <2>. DEFINE v == [m EXCEPT ![k] = c]  s == [ok |-> TRUE, done |-> j, mem |-> m]
  <2>2. /\ c \in Byte /\ k \in Nat /\ j \in Nat /\ j + 1 = k /\ k \in 1 .. N
        /\ 2 * j + 1 = 2 * k - 1 /\ 2 * j + 2 = 2 * k
        /\ 2 * k - 1 \in k .. N /\ 2 * k \in k .. N
    BY <1>1
  <2>3. /\ L[j] = s /\ m \in Seq(Byte) /\ Len(m) = N
        /\ (\A i \in 1 .. j : m[i] = data[i]) /\ \A i \in k .. N : m[i] = H[i]
    BY <2>1, <2>2
  <2>. HIDE DEF Is
  <2>4. m[2 * j + 1] = ByteToHex(c)[1] /\ m[2 * j + 2] = ByteToHex(c)[2]
    BY <1>1, <2>2, <2>3
  <2>5. HexToByte(m[2 * j + 1], m[2 * j + 2]) = c /\ c >= 0
    <3>1. c >= 0
      BY <2>2 DEF Byte
    <3>. QED BY <2>2, <2>4, <3>1, HexFacts
  <2>6. ByteStep[s] = [ok |-> TRUE, done |-> k, mem |-> v]
    <3>1. s \in [ok : BOOLEAN, done : Nat, mem : Seq(Byte)]
          /\ s.ok = TRUE /\ s.done = j /\ s.mem = m
      BY <2>2, <2>3
    <3>. HIDE DEF s, c
    <3>2. ByteStep[s] = ByteNext(s, HexToByte(m[2 * j + 1], m[2 * j + 2]))
      BY <3>1 DEF ByteStep
    <3>3. ByteStep[s] = ByteNext(s, c)
      BY <2>5, <3>2
    <3>4. ByteNext(s, c)
            = [ok |-> TRUE, done |-> s.done + 1, mem |-> [s.mem EXCEPT ![s.done + 1] = c]]
      BY <2>5, <3>1 DEF ByteNext
    <3>. QED BY <2>2, <3>1, <3>3, <3>4
  <2>7. L[k] = [ok |-> TRUE, done |-> k, mem |-> v]
    <3>1. L[k] = ByteStep[L[j]]
      BY <1>2
    <3>. QED BY <2>3, <2>6, <3>1
  <2>8. v \in Seq(Byte) /\ Len(v) = N /\ (\A i \in 1 .. N : v[i] = IF i = k THEN c ELSE m[i])
    BY <1>1, <2>2, <2>3
  <2>9. Is(k, v)
    <3>. HIDE DEF v
    <3>1. \A i \in 1 .. k : v[i] = data[i]
      BY <1>1, <2>2, <2>3, <2>8
    <3>2. \A i \in k + 1 .. N : v[i] = H[i]
      BY <1>1, <2>2, <2>3, <2>8
    <3>. QED BY <2>7, <2>8, <3>1, <3>2 DEF Is
  <2>. QED BY <2>2, <2>9
<1>. HIDE DEF S
<1>6. n \in S
  <2>1. n \in 0 .. n
    BY <1>1
  <2>2. \A i \in 0 .. n : i \in S
    BY <1>1, <1>4, <1>5, Induction
  <2>. QED BY <2>1, <2>2
<1>7. PICK m : Is(n, m)
  BY <1>6 DEF S
<1>8. SubSeq(m, 1, n) = data
  <2>1. n <= Len(m)
    BY <1>1, <1>7
  <2>. QED BY <1>7, <2>1, FirstBytes
<1>9. L[n].ok = TRUE /\ L[n].mem = m
  BY <1>7
<1>10. N % 2 = 0
  BY <1>1
<1>. QED BY <1>3, <1>8, <1>9, <1>10 DEF H

LEMMA HexReadsBack ==
    ASSUME NEW data \in Seq(Byte)
    PROVE  /\ ReadsBack([kind |-> "h", data |-> data])
           /\ WriteArg([kind |-> "h", data |-> data]) = HexText(data)
<1>. DEFINE v == [kind |-> "h", data |-> data]  p == HexText(data)
<1>1. v.kind = "h" /\ v.data = data /\ v \in Value
  <2>1. v.kind = "h" /\ v.data = data /\ v \in HexValues
    BY DEF HexValues
  <2>. HIDE DEF v
  <2>. QED BY <2>1, ValueKinds
<1>2. StringToByteArray(p) = v
  BY HexUndone
<1>3. p \in Seq(Byte) /\ OneParam(p)
  <2>1. p \in Seq(Byte)
    BY HexTextFacts
  <2>2. \A i \in 1 .. Len(p) : Ordinary(p[i])
    BY HexTextOrdinary, DigitsOrdinary
  <2>. HIDE DEF p
  <2>. QED BY <2>1, <2>2, OrdinaryIsParam
<1>. HIDE DEF v
<1>4. WriteArg(v) = p
  <2>1. WriteArg(v) = BinaryToHex(v.data, 2 * Len(v.data) + 1)
    BY <1>1 DEF WriteArg
  <2>2. ~(2 * Len(data) + 1 < 2 * Len(data) + 1)
    OBVIOUS
  <2>3. WriteArg(v) = BinaryToHex(data, 2 * Len(data) + 1)
    BY <1>1, <2>1
  <2>. QED BY <2>2, <2>3 DEF BinaryToHex, HexText
<1>. HIDE DEF p
<1>5. ParseParam("h", p) = v
  <2>1. ParseParam("h", p) = StringToByteArray(p)
    BY DEF ParseParam
  <2>. QED BY <1>2, <2>1
<1>. QED BY <1>1, <1>3, <1>4, <1>5 DEF ReadsBack, v, p

-----------------------------------------------------------------------------
(* Addresses of six bytes. *)

SixBytes(a) == a \in Seq(Byte) /\ Len(a) = 6

LEMMA SixFromHex ==
    ASSUME NEW a, SixBytes(a), NEW t \in Seq(Byte), Len(t) \in {12, 13},
           \A i \in 1 .. 12 : t[i] = HexText(a)[i]
    PROVE  HexToBinary(t, 6) = a
<1>. DEFINE Pair(i) == HexToByte(t[2 * i - 1], t[2 * i])
            most == IF Len(t) \div 2 < 6 THEN Len(t) \div 2 ELSE 6
            Stops(n) == (\A i \in 1 .. n : Pair(i) >= 0) /\ (n = most \/ Pair(n + 1) < 0)
            m == CHOOSE n \in 0 .. most : Stops(n)
<1>1. a \in Seq(Byte) /\ Len(a) = 6 /\ \A i \in 1 .. 6 : a[i] \in Byte
  <2>1. a \in Seq(Byte)
    BY DEF SixBytes
  <2>2. Len(a) = 6
    BY DEF SixBytes
  <2>3. \A i \in 1 .. Len(a) : a[i] \in Byte
    BY <2>1
  <2>. QED BY <2>1, <2>2, <2>3
<1>2. \A i \in 1 .. 6 : HexText(a)[2 * i - 1] = ByteToHex(a[i])[1]
                          /\ HexText(a)[2 * i] = ByteToHex(a[i])[2]
  <2>1. a \in Seq(Byte) /\ Len(a) = 6
    BY <1>1
  <2>2. \A i \in 1 .. Len(a) : HexText(a)[2 * i - 1] = ByteToHex(a[i])[1]
                                  /\ HexText(a)[2 * i] = ByteToHex(a[i])[2]
    BY <2>1, HexTextFacts
  <2>. QED BY <2>1, <2>2, Zenon
<1>3. \A i \in 1 .. 6 : Pair(i) = a[i] /\ a[i] >= 0
  <2>. TAKE i \in 1 .. 6
  <2>1. 2 * i - 1 \in 1 .. 12 /\ 2 * i \in 1 .. 12
    OBVIOUS
  <2>2. t[2 * i - 1] = ByteToHex(a[i])[1] /\ t[2 * i] = ByteToHex(a[i])[2]
    BY <1>2, <2>1
  <2>. DEFINE c == a[i]
  <2>3. c \in Byte /\ c >= 0
    <3>1. c \in Byte
      BY <1>1
    <3>. HIDE DEF c
    <3>. QED BY <3>1 DEF Byte
  <2>4. HexToByte(ByteToHex(c)[1], ByteToHex(c)[2]) = c
    BY <2>3, HexFacts
  <2>. QED BY <2>2, <2>3, <2>4
<1>4. most = 6
  BY DEF HexToByte
<1>5. HexToBinary(t, 6) = [i \in 1 .. m |-> Pair(i)]
  BY DEF HexToBinary
<1>. HIDE DEF Pair, most
<1>6. m = 6
  <2>1. Stops(6) /\ 6 \in 0 .. most
    <3>1. \A i \in 1 .. 6 : Pair(i) >= 0
      BY <1>3
    <3>. HIDE DEF Pair
    <3>. QED BY <1>4, <3>1
  <2>2. \A n \in 0 .. most : Stops(n) => n = 6
    <3>. TAKE n \in 0 .. most
    <3>. HAVE Stops(n)
    <3>. SUFFICES ASSUME n # 6 PROVE FALSE
      OBVIOUS
    <3>1. n + 1 \in 1 .. 6 /\ Pair(n + 1) < 0
      BY <1>4
    <3>2. a[n + 1] \in Byte
      BY <1>1, <3>1
    <3>3. Pair(n + 1) \in Byte /\ Pair(n + 1) >= 0
      BY <1>3, <3>1, <3>2
    <3>. QED BY <3>1, <3>3 DEF Byte
  <2>3. m \in 0 .. most /\ Stops(m)
    BY <2>1
  <2>. HIDE DEF m, Stops
  <2>. QED BY <2>2, <2>3
<1>. HIDE DEF m
<1>7. HexToBinary(t, 6) = [i \in 1 .. 6 |-> a[i]]
  BY <1>3, <1>5, <1>6
<1>8. [i \in 1 .. 6 |-> a[i]] = a
  <2>1. a \in [1 .. 6 -> Byte]
    BY <1>1
  <2>. QED BY <2>1
<1>. QED BY <1>7, <1>8

LEMMA SixFacts ==
    ASSUME NEW a, SixBytes(a)
    PROVE  /\ HexText(a) \in Seq(Byte) /\ Len(HexText(a)) = 12
           /\ \A i \in 1 .. 12 : Ordinary(HexText(a)[i])
           /\ \A size \in Nat : size >= 13 => BinaryToHex(a, size) = HexText(a)
<1>1. a \in Seq(Byte) /\ Len(a) = 6
  BY DEF SixBytes
<1>2. HexText(a) \in Seq(Byte) /\ Len(HexText(a)) = 12
  <2>1. HexText(a) \in Seq(Byte) /\ Len(HexText(a)) = 2 * Len(a)
    BY <1>1, HexTextFacts
  <2>. QED BY <1>1, <2>1
<1>3. \A i \in 1 .. 12 : Ordinary(HexText(a)[i])
  BY <1>1, <1>2, HexTextOrdinary, DigitsOrdinary
<1>4. ASSUME NEW size \in Nat, size >= 13 PROVE BinaryToHex(a, size) = HexText(a)
  <2>1. ~(size < 2 * Len(a) + 1)
    BY <1>1, <1>4
  <2>. QED BY <2>1 DEF BinaryToHex, HexText
<1>. QED BY <1>2, <1>3, <1>4

LEMMA MacReadsBack ==
    ASSUME NEW a, SixBytes(a), FormatBufLen >= 13
    PROVE  /\ ReadsBack([kind |-> "m", address |-> a])
           /\ WriteArg([kind |-> "m", address |-> a]) = HexText(a)
<1>. DEFINE v == [kind |-> "m", address |-> a]  p == HexText(a)
<1>1. v.kind = "m" /\ v.address = a /\ v \in Value
  <2>1. v.kind = "m" /\ v.address = a /\ v \in MacValues
    BY DEF MacValues, SixBytes
  <2>. HIDE DEF v
  <2>. QED BY <2>1, ValueKinds
<1>. HIDE DEF v
<1>2. p \in Seq(Byte) /\ Len(p) = 12 /\ OneParam(p) /\ BinaryToHex(a, FormatBufLen) = p
  BY SixFacts, OrdinaryIsParam, AtTextAssumption
<1>3. WriteArg(v) = p
  <2>1. WriteArg(v) = MacAddressToString(v, FormatBufLen)
    BY <1>1 DEF WriteArg
  <2>. QED BY <1>1, <1>2, <2>1 DEF MacAddressToString
<1>4. HexToBinary(p, 6) = a /\ Len(a) = 6
  BY <1>2, SixFromHex DEF SixBytes
<1>. HIDE DEF p
<1>5. ParseParam("m", p) = v
  <2>1. ParseParam("m", p) = StringToMacAddress(p)
    BY DEF ParseParam
  <2>2. StringToMacAddress(p) = [kind |-> "m", address |-> a]
    BY <1>2, <1>4 DEF StringToMacAddress
  <2>. QED BY <2>1, <2>2 DEF v
<1>. QED BY <1>1, <1>2, <1>3, <1>5 DEF ReadsBack, v, p

LEMMA BdReadsBack ==
    ASSUME NEW a, SixBytes(a), NEW type \in {"random", "public"}, FormatBufLen >= 14
    PROVE  /\ ReadsBack([kind |-> "b", type |-> type, address |-> a])
           /\ WriteArg([kind |-> "b", type |-> type, address |-> a])
                = HexText(a) \o <<IF type = "random" THEN LowerR ELSE LowerP>>
<1>. DEFINE v == [kind |-> "b", type |-> type, address |-> a]  h == HexText(a)
            c == IF type = "random" THEN LowerR ELSE LowerP  q == <<c>>  p == h \o q
<1>1. v.kind = "b" /\ v.type = type /\ v.address = a /\ v \in Value
  <2>1. v.kind = "b" /\ v.type = type /\ v.address = a /\ v \in BdValues
    BY DEF BdValues, SixBytes
  <2>. HIDE DEF v
  <2>. QED BY <2>1, ValueKinds
<1>. HIDE DEF v
<1>2. /\ h \in Seq(Byte) /\ Len(h) = 12 /\ (\A i \in 1 .. 12 : Ordinary(h[i]))
      /\ BinaryToHex(a, FormatBufLen) = h
  BY SixFacts, AtTextAssumption
<1>3. c \in Byte /\ Ordinary(c)
  BY DEF Byte, MaxByte, LowerR, LowerP, Ordinary, Comma, Quote, Backslash, Open
<1>4. WriteArg(v) = p
  <2>1. WriteArg(v) = BdAddressToString(v, FormatBufLen)
    BY <1>1 DEF WriteArg
  <2>2. ~(FormatBufLen < 14)
    BY AtTextAssumption
  <2>. HIDE DEF h
  <2>. QED BY <1>1, <1>2, <2>1, <2>2 DEF BdAddressToString
<1>. HIDE DEF h, c
<1>5. q \in Seq(Byte) /\ Len(q) = 1 /\ q[1] = c
  BY <1>3
<1>. HIDE DEF q
<1>6. p \in Seq(Byte) /\ Len(p) = 13 /\ p[13] = c /\ \A i \in 1 .. 12 : p[i] = h[i]
  <2>1. /\ h \o q \in Seq(Byte) /\ Len(h \o q) = Len(h) + Len(q)
        /\ \A i \in 1 .. Len(h) + Len(q) : (h \o q)[i] = IF i <= Len(h) THEN h[i] ELSE q[i - Len(h)]
    BY <1>2, <1>5, ConcatProperties
  <2>2. Len(h) + Len(q) = 13 /\ Len(h) = 12
    BY <1>2, <1>5
  <2>3. p \in Seq(Byte) /\ Len(p) = 13
        /\ \A i \in 1 .. 13 : p[i] = IF i <= 12 THEN h[i] ELSE q[i - 12]
    BY <2>1, <2>2
  <2>. HIDE DEF p
  <2>. QED BY <1>5, <2>3
<1>. HIDE DEF p
<1>7. OneParam(p)
  <2>1. \A i \in 1 .. Len(p) : Ordinary(p[i])
    <3>1. \A i \in 1 .. Len(p) : i \in 1 .. 12 \/ i = 13
      BY <1>6
    <3>. QED BY <1>2, <1>3, <1>6, <3>1
  <2>. QED BY <1>6, <2>1, OrdinaryIsParam
<1>8. HexToBinary(p, 6) = a /\ Len(a) = 6
  BY <1>6, SixFromHex DEF SixBytes, h
<1>9. FindBdAddressType(p) = type
  <2>1. Last(p) = c
    BY <1>6 DEF Last
  <2>2. CASE type = "random"
    <3>1. Last(p) = LowerR
      BY <2>1, <2>2 DEF c
    <3>. QED BY <2>2, <3>1 DEF FindBdAddressType, LowerR, LowerP
  <2>3. CASE type = "public"
    <3>1. Last(p) = LowerP
      BY <2>1, <2>3 DEF c
    <3>. QED BY <2>3, <3>1 DEF FindBdAddressType, LowerR, LowerP
  <2>. QED BY <2>2, <2>3
<1>10. ParseParam("b", p) = v
  <2>1. ParseParam("b", p) = StringToBdAddress(p)
    BY DEF ParseParam
  <2>2. p # <<>> /\ type # "none"
    <3>1. Len(p) # 0
      BY <1>6
    <3>. QED BY <3>1
  <2>3. StringToBdAddress(p) = [kind |-> "b", type |-> type, address |-> a]
    BY <1>8, <1>9, <2>2 DEF StringToBdAddress
  <2>. QED BY <2>1, <2>3 DEF v
<1>. QED BY <1>1, <1>4, <1>6, <1>7, <1>10 DEF ReadsBack, v, p, h, q, c

-----------------------------------------------------------------------------
(* Numbers. *)

\* n digits stand in a text from here, and f is the number they make, digit by digit.
DigitsFrom(t, first, n, base) == \A j \in first .. first + n - 1 : IsDigit(t[j], base)

Counts(f, t, first, n, base) ==
    /\ f[0] = 0
    /\ \A i \in 1 .. n : f[i] \in Nat /\ f[i] = f[i - 1] * base + HexToNibble(t[first + i - 1])

LEMMA DigitFacts ==
    ASSUME NEW base \in {10, 16}, NEW c \in Byte, IsDigit(c, base)
    PROVE  /\ HexToNibble(c) \in Nat /\ ~IsSpace(c)
           /\ c \notin {Plus, Minus, Dot, Colon, Comma, Close, Quote, Backslash, Open, 0}
<1>1. HexToNibble(c) \in Nat
  BY DEF IsDigit
<1>2. c \in Zero .. Zero + 9 \/ c \in LowerA .. LowerA + 5 \/ c \in UpperA .. UpperA + 5
  <2>. SUFFICES ASSUME ~(c \in Zero .. Zero + 9 \/ c \in LowerA .. LowerA + 5
                           \/ c \in UpperA .. UpperA + 5)
                PROVE  FALSE
    OBVIOUS
  <2>1. HexToNibble(c) = -1
    BY DEF HexToNibble
  <2>. QED BY <1>1, <2>1
<1>3. c \in 48 .. 57 \/ c \in 97 .. 102 \/ c \in 65 .. 70
  BY <1>2 DEF Zero, LowerA, UpperA
<1>4. ~IsSpace(c)
  BY <1>3 DEF IsSpace, Space
<1>5. c \notin {Plus, Minus, Dot, Colon, Comma, Close, Quote, Backslash, Open, 0}
  BY <1>3 DEF Plus, Minus, Dot, Colon, Comma, Close, Quote, Backslash, Open
<1>. QED BY <1>1, <1>4, <1>5

LEMMA SpaceSkipped ==
    ASSUME NEW t \in Seq(Byte), NEW from \in 1 .. Len(t), ~IsSpace(t[from])
    PROVE  AfterSpace(t, from) = from
<1>. DEFINE Good(i) == ~IsSpace(At(t, i)) /\ \A j \in from .. i - 1 : IsSpace(t[j])
            m == CHOOSE i \in from .. Len(t) + 1 : Good(i)
<1>1. from \in Nat /\ Len(t) \in Nat /\ from \in from .. Len(t) + 1
  OBVIOUS
<1>2. Good(from)
  BY AtInside, <1>1
<1>3. \A i \in from .. Len(t) + 1 : Good(i) => i = from
  <2>. TAKE i \in from .. Len(t) + 1
  <2>. SUFFICES ASSUME Good(i), i # from PROVE FALSE
    OBVIOUS
  <2>1. from \in from .. i - 1
    BY <1>1
  <2>. QED BY <2>1
<1>4. m \in from .. Len(t) + 1 /\ Good(m)
  <2>. HIDE DEF Good
  <2>. QED BY <1>1, <1>2
<1>5. AfterSpace(t, from) = m
  BY DEF AfterSpace
<1>. HIDE DEF m, Good
<1>. QED BY <1>3, <1>4, <1>5

LEMMA DigitsEnd ==
    ASSUME NEW t \in Seq(Byte), NEW base \in {10, 16}, NEW first \in Nat \ {0}, NEW n \in Nat,
           NEW end, end = first + n, end <= Len(t) + 1, DigitsFrom(t, first, n, base),
           ~IsDigit(At(t, end), base)
    PROVE  AfterDigits(t, first, base) = end
<1>. DEFINE Good(i) == ~IsDigit(At(t, i), base)
                         /\ \A j \in first .. i - 1 : IsDigit(At(t, j), base)
            m == CHOOSE i \in first .. Len(t) + 2 : Good(i)
<1>1. Len(t) \in Nat /\ end \in first .. Len(t) + 2 /\ end \in Nat /\ end - 1 = first + n - 1
  OBVIOUS
<1>2. \A j \in first .. end - 1 : IsDigit(At(t, j), base)
  <2>. TAKE j \in first .. end - 1
  <2>1. j \in 1 .. Len(t) /\ j \in first .. first + n - 1
    BY <1>1
  <2>. QED BY <2>1, AtInside DEF DigitsFrom
<1>3. \A i \in first .. Len(t) + 2 : Good(i) => i = end
  <2>. TAKE i \in first .. Len(t) + 2
  <2>. SUFFICES ASSUME Good(i), i # end PROVE FALSE
    OBVIOUS
  <2>1. CASE i < end
    <3>1. i \in first .. end - 1
      BY <1>1, <2>1
    <3>. QED BY <1>2, <3>1
  <2>2. CASE end < i
    <3>1. end \in first .. i - 1
      BY <1>1, <2>2
    <3>. QED BY <3>1
  <2>. QED BY <1>1, <2>1, <2>2
<1>4. m \in first .. Len(t) + 2 /\ Good(m)
  <2>1. Good(end)
    BY <1>2
  <2>. HIDE DEF Good
  <2>. QED BY <1>1, <2>1
<1>5. AfterDigits(t, first, base) = m
  BY DEF AfterDigits
<1>. HIDE DEF m, Good
<1>. QED BY <1>3, <1>4, <1>5

LEMMA DigitsCounted ==
    ASSUME NEW t, NEW base \in Nat, NEW first \in Nat, NEW n \in Nat, NEW f,
           Counts(f, t, first, n, base)
    PROVE  Loop(DigitStep(t, base), [pos |-> first, value |-> 0], n)[n].value = f[n]
<1>. DEFINE step == DigitStep(t, base)  start == [pos |-> first, value |-> 0]
            L == Loop(step, start, n)  Is(i) == [pos |-> first + i, value |-> f[i]]
            S == {i \in Nat : L[i] = Is(i)}
<1>1. L[0] = start /\ \A i \in 1 .. n : L[i] = step[L[i - 1]]
  <2>. HIDE DEF step, start
  <2>. QED BY LoopUnfolds
<1>2. /\ f[0] = 0 /\ \A i \in 0 .. n : f[i] \in Nat
      /\ \A i \in 1 .. n : f[i] = f[i - 1] * base + HexToNibble(t[first + i - 1])
  BY DEF Counts
<1>. HIDE DEF L
<1>3. 0 \in S
  BY <1>1, <1>2
<1>4. ASSUME NEW i \in 1 .. n, i - 1 \in S PROVE i \in S
  <2>. PICK j : j = i - 1
    OBVIOUS
  <2>1. j \in 0 .. n /\ j \in Nat /\ i \in Nat /\ first + i - 1 = first + j
        /\ first + j + 1 = first + i /\ first + j \in Nat
    OBVIOUS
  <2>. DEFINE s == Is(j)
  <2>2. L[j] = s /\ L[i] = step[L[j]]
    BY <1>1, <1>4
  <2>3. s \in [pos : Nat, value : Nat] /\ s.pos = first + j /\ s.value = f[j]
    BY <1>2, <2>1
  <2>. HIDE DEF s
  <2>4. step[s] = [pos |-> s.pos + 1, value |-> s.value * base + HexToNibble(t[s.pos])]
    BY <2>3 DEF DigitStep
  <2>5. step[s] = [pos |-> first + i, value |-> f[j] * base + HexToNibble(t[first + j])]
    BY <2>1, <2>3, <2>4
  <2>6. f[i] = f[j] * base + HexToNibble(t[first + j])
    BY <1>2, <2>1
  <2>. HIDE DEF step
  <2>7. L[i] = Is(i)
    BY <2>2, <2>5, <2>6
  <2>. HIDE DEF Is
  <2>. QED BY <2>1, <2>7
<1>5. n \in 0 .. n
  OBVIOUS
<1>6. L[n] = Is(n)
  <2>1. \A i \in 0 .. n : i \in S
    <3>. HIDE DEF S
    <3>. QED BY <1>3, <1>4, Induction
  <2>. HIDE DEF Is
  <2>. QED BY <1>5, <2>1
<1>7. L[n].value = f[n]
  BY <1>6
<1>. QED BY <1>7 DEF L

\* What strtol() makes of a number that begins here: with a sign or not, without a prefix
LEMMA StrtolIs ==
    ASSUME NEW t \in Seq(Byte), NEW base \in {10, 16}, NEW from \in Nat \ {0}, NEW first \in Nat,
           NEW n \in Nat \ {0}, NEW end, end = first + n, end <= Len(t) + 1,
           first = from \/ (first = from + 1 /\ t[from] = Minus),
           DigitsFrom(t, first, n, base), ~IsDigit(At(t, end), base),
           base = 16 => At(t, first + 1) \notin {LowerX, LowerX - 32},
           NEW f, Counts(f, t, first, n, base)
    PROVE  /\ Strtol(t, from, base).end = end
           /\ Strtol(t, from, base).value = IF first = from THEN f[n] ELSE -f[n]
<1>1. /\ Len(t) \in Nat /\ from \in 1 .. Len(t) /\ first \in 1 .. Len(t) /\ end \in Nat
      /\ end # first /\ end - first = n /\ first \in first .. first + n - 1 /\ first \in Nat \ {0}
  OBVIOUS
<1>2. t[first] \in Byte /\ IsDigit(t[first], base)
  BY <1>1 DEF DigitsFrom
<1>3. ~IsSpace(t[first]) /\ t[first] \notin {Plus, Minus}
  BY <1>2, DigitFacts
<1>4. ~IsSpace(t[from])
  <2>1. ~IsSpace(Minus)
    BY DEF IsSpace, Minus, Space
  <2>. QED BY <1>3, <2>1
<1>5. AfterSpace(t, from) = from
  BY <1>1, <1>4, SpaceSkipped
<1>6. AfterSign(t, from) = first
  BY <1>1, <1>3, AtInside DEF AfterSign
<1>7. AfterPrefix(t, first, base) = first
  BY DEF AfterPrefix
<1>8. AfterDigits(t, first, base) = end
  BY <1>1, DigitsEnd
<1>. DEFINE start == [pos |-> first, value |-> 0]
            value == Loop(DigitStep(t, base), start, end - first)[end - first].value
<1>9. Strtol(t, from, base)
        = [value |-> IF At(t, from) = Minus THEN -value ELSE value, end |-> end]
  BY <1>1, <1>5, <1>6, <1>7, <1>8 DEF Strtol
<1>10. value = f[n]
  BY <1>1, DigitsCounted
<1>11. At(t, from) = Minus <=> first # from
  BY <1>1, <1>3, AtInside
<1>. HIDE DEF value
<1>. QED BY <1>9, <1>10, <1>11

-----------------------------------------------------------------------------
(* Decimal numbers. *)

LEMMA QuotientIs ==
    ASSUME NEW c \in Nat \ {0}, NEW m \in Nat, NEW s \in Nat, s < c
    PROVE  (c * m + s) \div c = m
<1>. DEFINE x == c * m + s  y == x \div c
<1>1. c * m \in Nat /\ x \in Nat
  OBVIOUS
<1>2. y \in Nat /\ c * y <= x /\ x < c * y + c
  BY <1>1
<1>. HIDE DEF y
<1>3. ~(y < m)
  <2>. SUFFICES ASSUME y < m PROVE FALSE
    OBVIOUS
  <2>1. c * (y + 1) <= c * m
    BY <1>2
  <2>2. c * (y + 1) = c * y + c
    BY <1>2
  <2>. QED BY <1>1, <1>2, <2>1, <2>2
<1>4. ~(m < y)
  <2>. SUFFICES ASSUME m < y PROVE FALSE
    OBVIOUS
  <2>1. c * (m + 1) <= c * y
    BY <1>2
  <2>2. c * (m + 1) = c * m + c
    OBVIOUS
  <2>. QED BY <1>1, <1>2, <2>1, <2>2
<1>. QED BY <1>2, <1>3, <1>4 DEF y

\* A number without its last digits, by one digit more and less
LEMMA Quotients ==
    ASSUME NEW n \in Nat, NEW b \in Nat \ {0}
    PROVE  /\ n \div b \in Nat
           /\ n \div b = (n \div (10 * b)) * 10 + ((n \div b) % 10)
           /\ n < 10 * b => n \div b \in 0 .. 9
<1>. DEFINE q == n \div b  r == n % b
<1>1. q \in Nat /\ r \in Nat /\ r < b /\ n = b * q + r
  OBVIOUS
<1>. HIDE DEF q, r
<1>. DEFINE m == q \div 10  d == q % 10
<1>2. m \in Nat /\ d \in Nat /\ d <= 9 /\ q = 10 * m + d
  BY <1>1
<1>. HIDE DEF m, d
<1>3. b * d \in Nat /\ b * d <= 9 * b
  <2>1. b * d <= b * 9
    BY <1>2
  <2>. QED BY <1>2, <2>1
<1>4. n = (10 * b) * m + (b * d + r)
  <2>1. b * q = b * (10 * m) + b * d
    BY <1>2
  <2>2. b * (10 * m) = (10 * b) * m
    BY <1>2
  <2>. QED BY <1>1, <1>2, <1>3, <2>1, <2>2
<1>5. b * d + r \in Nat /\ b * d + r < 10 * b /\ 10 * b \in Nat \ {0}
  BY <1>1, <1>3
<1>6. n \div (10 * b) = m
  <2>. DEFINE c == 10 * b  s == b * d + r
  <2>1. c \in Nat \ {0} /\ s \in Nat /\ s < c /\ n = c * m + s
    BY <1>4, <1>5
  <2>. HIDE DEF c, s
  <2>2. n \div c = m
    BY <1>2, <2>1, QuotientIs
  <2>. QED BY <2>2 DEF c
<1>7. ASSUME n < 10 * b PROVE q \in 0 .. 9
  <2>. SUFFICES ASSUME q >= 10 PROVE FALSE
    BY <1>1
  <2>1. b * q >= b * 10
    BY <1>1
  <2>. QED BY <1>1, <1>7, <2>1
<1>8. q = (n \div (10 * b)) * 10 + d
  BY <1>2, <1>6
<1>. QED BY <1>1, <1>7, <1>8 DEF q, d

Power(k) == PowersOfTen[k]
MostNumber == 10 * Power(10) - 1

LEMMA PowerFacts ==
    /\ Power(1) = 1 /\ \A k \in 4 .. 10 : Power(k) >= 1000
    /\ \A k \in 1 .. 10 : Power(k) \in Nat \ {0}
    /\ \A k \in 1 .. 9 : Power(k + 1) = 10 * Power(k)
<1>1. /\ Power(1) = 1 /\ Power(2) = 10 * Power(1) /\ Power(3) = 10 * Power(2)
      /\ Power(4) = 10 * Power(3) /\ Power(5) = 10 * Power(4) /\ Power(6) = 10 * Power(5)
      /\ Power(7) = 10 * Power(6) /\ Power(8) = 10 * Power(7) /\ Power(9) = 10 * Power(8)
      /\ Power(10) = 10 * Power(9)
  BY DEF Power, PowersOfTen
<1>. QED BY <1>1

LEMMA LastDigits ==
    /\ \A n \in 0 .. MostNumber, k \in 1 .. 9 :
           n \div Power(k) = (n \div Power(k + 1)) * 10 + ((n \div Power(k)) % 10)
    /\ \A n \in 0 .. MostNumber : n \div Power(10) \in 0 .. 9
    /\ \A n \in 0 .. MostNumber, k \in 1 .. 9 : n < Power(k + 1) => n \div Power(k) \in 0 .. 9
<1>1. ASSUME NEW n \in 0 .. MostNumber, NEW k \in 1 .. 9
      PROVE  /\ n \div Power(k) = (n \div Power(k + 1)) * 10 + ((n \div Power(k)) % 10)
             /\ n < Power(k + 1) => n \div Power(k) \in 0 .. 9
  <2>1. n \in Nat /\ Power(k) \in Nat \ {0} /\ Power(k + 1) = 10 * Power(k)
    BY PowerFacts DEF MostNumber
  <2>. QED BY <2>1, Quotients
<1>2. ASSUME NEW n \in 0 .. MostNumber PROVE n \div Power(10) \in 0 .. 9
  <2>1. n \in Nat /\ Power(10) \in Nat \ {0} /\ n < 10 * Power(10)
    BY PowerFacts DEF MostNumber
  <2>. QED BY <2>1, Quotients
<1>. QED BY <1>1, <1>2

\* How many digits a number has, and the digits
AsManyDigits(n, k) == (k = 1 \/ n >= PowersOfTen[k]) /\ (k = 10 \/ n < PowersOfTen[k + 1])
DigitCount(n) == CHOOSE k \in 1 .. 10 : AsManyDigits(n, k)
Digits(n) ==
    [i \in 1 .. DigitCount(n) |-> Zero + ((n \div PowersOfTen[DigitCount(n) - i + 1]) % 10)]

\* The number the first digits make
SoFar(n) ==
    [i \in 0 .. DigitCount(n) |-> IF i = 0 THEN 0 ELSE n \div Power(DigitCount(n) - i + 1)]

LEMMA DigitCountFacts ==
    ASSUME NEW n \in 0 .. MostNumber
    PROVE  /\ DigitCount(n) \in 1 .. 10
           /\ n \div Power(DigitCount(n)) \in 0 .. 9
           /\ n <= 255 => DigitCount(n) <= 3
<1>0. n \in Nat
  BY PowerFacts DEF MostNumber
<1>1. \E k \in 1 .. 10 : AsManyDigits(n, k)
  <2>a. \A k \in 1 .. 10 : AsManyDigits(n, k)
                            <=> (k = 1 \/ n >= Power(k)) /\ (k = 10 \/ n < Power(k + 1))
    BY DEF AsManyDigits, Power
  <2>0. \A k \in 1 .. 10 : Power(k) \in Nat
    BY PowerFacts
  <2>1. CASE n < Power(2)
    <3>1. AsManyDigits(n, 1)
      BY <2>a, <2>1
    <3>. QED BY <3>1
  <2>2. CASE n >= Power(2) /\ n < Power(3)
    <3>1. AsManyDigits(n, 2)
      BY <2>a, <2>2
    <3>. QED BY <3>1
  <2>3. CASE n >= Power(3) /\ n < Power(4)
    <3>1. AsManyDigits(n, 3)
      BY <2>a, <2>3
    <3>. QED BY <3>1
  <2>4. CASE n >= Power(4) /\ n < Power(5)
    <3>1. AsManyDigits(n, 4)
      BY <2>a, <2>4
    <3>. QED BY <3>1
  <2>5. CASE n >= Power(5) /\ n < Power(6)
    <3>1. AsManyDigits(n, 5)
      BY <2>a, <2>5
    <3>. QED BY <3>1
  <2>6. CASE n >= Power(6) /\ n < Power(7)
    <3>1. AsManyDigits(n, 6)
      BY <2>a, <2>6
    <3>. QED BY <3>1
  <2>7. CASE n >= Power(7) /\ n < Power(8)
    <3>1. AsManyDigits(n, 7)
      BY <2>a, <2>7
    <3>. QED BY <3>1
  <2>8. CASE n >= Power(8) /\ n < Power(9)
    <3>1. AsManyDigits(n, 8)
      BY <2>a, <2>8
    <3>. QED BY <3>1
  <2>9. CASE n >= Power(9) /\ n < Power(10)
    <3>1. AsManyDigits(n, 9)
      BY <2>a, <2>9
    <3>. QED BY <3>1
  <2>10. CASE n >= Power(10)
    <3>1. AsManyDigits(n, 10)
      BY <2>a, <2>10
    <3>. QED BY <3>1
  <2>. QED BY <1>0, <2>0, <2>1, <2>2, <2>3, <2>4, <2>5, <2>6, <2>7, <2>8, <2>9, <2>10
<1>. DEFINE k == DigitCount(n)
<1>2. k \in 1 .. 10 /\ AsManyDigits(n, k)
  BY <1>1 DEF DigitCount
<1>. HIDE DEF k
<1>3. (k = 1 \/ n >= Power(k)) /\ (k = 10 \/ n < Power(k + 1))
  BY <1>2 DEF AsManyDigits, Power
<1>4. n \div Power(k) \in 0 .. 9
  <2>1. CASE k = 10
    BY <2>1, LastDigits
  <2>2. CASE k # 10
    <3>1. k \in 1 .. 9 /\ n < Power(k + 1)
      BY <1>2, <1>3, <2>2
    <3>. QED BY <3>1, LastDigits
  <2>. QED BY <2>1, <2>2
<1>5. ASSUME n <= 255 PROVE k <= 3
  <2>. SUFFICES ASSUME k > 3 PROVE FALSE
    BY <1>2
  <2>2. Power(k) \in Nat /\ Power(k) >= 1000 /\ n >= Power(k)
    BY <1>2, <1>3, PowerFacts
  <2>. QED BY <1>0, <1>5, <2>2
<1>. QED BY <1>2, <1>4, <1>5 DEF k

LEMMA DigitsFacts ==
    ASSUME NEW n \in 0 .. MostNumber
    PROVE  /\ DigitCount(n) \in 1 .. 10
           /\ Digits(n) \in Seq(Byte) /\ Len(Digits(n)) = DigitCount(n)
           /\ \A i \in 1 .. DigitCount(n) :
                  /\ Digits(n)[i] \in Zero .. Zero + 9
                  /\ SoFar(n)[i] \in Nat
                  /\ SoFar(n)[i] = SoFar(n)[i - 1] * 10 + (Digits(n)[i] - Zero)
           /\ SoFar(n)[0] = 0 /\ SoFar(n)[DigitCount(n)] = n
<1>. DEFINE k == DigitCount(n)  D == Digits(n)  f == SoFar(n)
<1>0. n \in Nat
  BY PowerFacts DEF MostNumber
<1>1. k \in 1 .. 10 /\ n \div Power(k) \in 0 .. 9
  BY DigitCountFacts
<1>2. /\ DOMAIN D = 1 .. k
      /\ \A i \in 1 .. k : D[i] = Zero + ((n \div Power(k - i + 1)) % 10)
      /\ f[0] = 0 /\ \A i \in 1 .. k : f[i] = n \div Power(k - i + 1)
      /\ D = [i \in 1 .. k |-> D[i]]
  BY <1>1 DEF Digits, SoFar, Power
<1>. HIDE DEF k, D, f
<1>3. ASSUME NEW i \in 1 .. k
      PROVE  D[i] \in Zero .. Zero + 9 /\ f[i] \in Nat /\ f[i] = f[i - 1] * 10 + (D[i] - Zero)
  <2>. PICK j : j = k - i + 1
    OBVIOUS
  <2>1. j \in 1 .. 10 /\ i - 1 \in 0 .. k /\ k \in Nat /\ i \in Nat
    BY <1>1
  <2>2. Power(j) \in Nat \ {0}
    BY <2>1, PowerFacts
  <2>. PICK a : a = n \div Power(j)
    OBVIOUS
  <2>3. a \in Nat
    BY <1>0, <2>2
  <2>4. D[i] = Zero + (a % 10) /\ f[i] = a
    BY <1>2
  <2>5. a = f[i - 1] * 10 + (a % 10)
    <3>1. CASE i = 1
      <4>1. j = k /\ i - 1 = 0
        BY <1>1, <3>1
      <4>2. a \in 0 .. 9 /\ f[i - 1] = 0
        BY <1>1, <1>2, <4>1
      <4>. QED BY <4>2
    <3>2. CASE i # 1
      <4>1. j \in 1 .. 9 /\ i - 1 \in 1 .. k /\ k - (i - 1) + 1 = j + 1
        BY <1>1, <3>2
      <4>2. f[i - 1] = n \div Power(j + 1)
        BY <1>2, <4>1
      <4>3. a = (n \div Power(j + 1)) * 10 + (a % 10)
        BY <4>1, LastDigits
      <4>. QED BY <4>2, <4>3
    <3>. QED BY <3>1, <3>2
  <2>6. D[i] \in Zero .. Zero + 9 /\ D[i] - Zero = a % 10
    BY <2>3, <2>4 DEF Zero
  <2>. QED BY <2>3, <2>4, <2>5, <2>6
<1>4. D \in Seq(Byte) /\ Len(D) = k
  <2>1. \A i \in 1 .. k : D[i] \in Byte
    BY <1>3 DEF Byte, MaxByte, Zero
  <2>2. D \in [1 .. k -> Byte]
    BY <1>2, <2>1
  <2>3. k \in Nat
    BY <1>1
  <2>4. D \in Seq(Byte)
    BY <2>2, <2>3
  <2>. QED BY <2>2, <2>3, <2>4, LenProperties
<1>5. f[k] = n
  <2>1. k \in 1 .. k /\ k - k + 1 = 1
    BY <1>1
  <2>2. f[k] = n \div Power(1) /\ Power(1) = 1
    BY <1>2, <2>1, PowerFacts
  <2>. QED BY <1>0, <2>2
<1>. QED BY <1>1, <1>2, <1>3, <1>4, <1>5 DEF k, D, f

-----------------------------------------------------------------------------
(* Numbers arrive. *)

Number == -MostNumber .. MostNumber
Magnitude(n) == IF n < 0 THEN -n ELSE n
SignLength(n) == IF n < 0 THEN 1 ELSE 0

\* u stands in t at from.
Stands(t, from, u) == \A j \in 1 .. Len(u) : t[from + j - 1] = u[j]

LEMMA DecimalDigits ==
    \A c \in Zero .. Zero + 9 : HexToNibble(c) = c - Zero /\ IsDigit(c, 10)
<1>1. ASSUME NEW n \in 0 .. 9
      PROVE  HexToNibble(Zero + n) = n /\ IsDigit(Zero + n, 10)
  <2>1. 48 + n \in 48 .. 57
    OBVIOUS
  <2>2. HexToNibble(48 + n) = n
    BY <2>1 DEF HexToNibble, Zero, LowerA, UpperA
  <2>3. HexToNibble(Zero + n) = n
    BY <2>2 DEF Zero
  <2>. QED BY <2>3 DEF IsDigit
<1>2. ASSUME NEW c \in Zero .. Zero + 9
      PROVE  HexToNibble(c) = c - Zero /\ IsDigit(c, 10)
  <2>1. c - Zero \in 0 .. 9 /\ Zero + (c - Zero) = c
    BY DEF Zero
  <2>. QED BY <1>1, <2>1
<1>. QED BY <1>2

LEMMA DecimalFacts ==
    ASSUME NEW n \in Number
    PROVE  /\ Magnitude(n) \in 0 .. MostNumber
           /\ Decimal(n) \in Seq(Byte)
           /\ Len(Decimal(n)) = SignLength(n) + DigitCount(Magnitude(n))
           /\ \A i \in 1 .. DigitCount(Magnitude(n)) :
                  Decimal(n)[SignLength(n) + i] = Digits(Magnitude(n))[i]
           /\ n < 0 => Decimal(n)[1] = Minus
<1>0. MostNumber \in Nat /\ n \in Int
  <2>1. MostNumber \in Nat
    BY PowerFacts DEF MostNumber
  <2>. QED BY <2>1 DEF Number
<1>. DEFINE m == Magnitude(n)  D == Digits(m)  k == DigitCount(m)
            sign == IF n < 0 THEN <<Minus>> ELSE <<>>
<1>1. m \in 0 .. MostNumber
  BY <1>0 DEF Magnitude, Number
<1>2. D \in Seq(Byte) /\ Len(D) = k /\ k \in 1 .. 10
  BY <1>1, DigitsFacts
<1>3. Decimal(n) = sign \o D
  BY DEF Decimal, Digits, Magnitude, DigitCount, AsManyDigits
<1>4. sign \in Seq(Byte) /\ Len(sign) = SignLength(n) /\ (n < 0 => sign[1] = Minus)
  <2>1. Minus \in Byte
    BY DEF Byte, MaxByte, Minus
  <2>2. CASE n < 0
    <3>1. sign = <<Minus>> /\ SignLength(n) = 1
      BY <2>2 DEF SignLength
    <3>2. <<Minus>> \in Seq(Byte) /\ Len(<<Minus>>) = 1 /\ <<Minus>>[1] = Minus
      BY <2>1
    <3>. QED BY <3>1, <3>2
  <2>3. CASE ~(n < 0)
    <3>1. sign = <<>> /\ SignLength(n) = 0
      BY <2>3 DEF SignLength
    <3>. QED BY <2>3, <3>1
  <2>. QED BY <2>2, <2>3
<1>. HIDE DEF D, k, sign, m
<1>5. /\ sign \o D \in Seq(Byte) /\ Len(sign \o D) = Len(sign) + Len(D)
      /\ \A i \in 1 .. Len(sign) + Len(D) :
             (sign \o D)[i] = IF i <= Len(sign) THEN sign[i] ELSE D[i - Len(sign)]
  BY <1>2, <1>4, ConcatProperties
<1>. DEFINE z == SignLength(n)
<1>6. z \in {0, 1} /\ (n < 0 => z = 1)
  BY DEF SignLength
<1>7. Len(sign) = z
  BY <1>4
<1>. HIDE DEF z
<1>8. ASSUME NEW i \in 1 .. k PROVE Decimal(n)[z + i] = D[i]
  <2>1. z + i \in 1 .. z + k /\ ~(z + i <= z) /\ (z + i) - z = i
    BY <1>2, <1>6
  <2>. QED BY <1>2, <1>3, <1>5, <1>7, <2>1
<1>9. ASSUME n < 0 PROVE Decimal(n)[1] = Minus
  <2>1. 1 \in 1 .. z + k /\ 1 <= z
    BY <1>2, <1>6, <1>9
  <2>. QED BY <1>2, <1>3, <1>4, <1>5, <1>7, <1>9, <2>1
<1>. QED BY <1>1, <1>2, <1>3, <1>5, <1>7, <1>8, <1>9 DEF m, D, k, z

LEMMA DecimalOrdinary ==
    ASSUME NEW n \in Number
    PROVE  \A i \in 1 .. Len(Decimal(n)) :
               Decimal(n)[i] = Minus \/ Decimal(n)[i] \in Zero .. Zero + 9
<1>. DEFINE m == Magnitude(n)  k == DigitCount(m)  z == SignLength(n)
<1>1. /\ m \in 0 .. MostNumber /\ Len(Decimal(n)) = z + k
      /\ \A i \in 1 .. k : Decimal(n)[z + i] = Digits(m)[i]
      /\ n < 0 => Decimal(n)[1] = Minus
  BY DecimalFacts
<1>2. k \in 1 .. 10 /\ \A i \in 1 .. k : Digits(m)[i] \in Zero .. Zero + 9
  BY <1>1, DigitsFacts
<1>3. z \in {0, 1} /\ (z = 1 => n < 0)
  BY DEF SignLength
<1>. HIDE DEF m, k, z
<1>4. ASSUME NEW i \in 1 .. Len(Decimal(n))
      PROVE  Decimal(n)[i] = Minus \/ Decimal(n)[i] \in Zero .. Zero + 9
  <2>1. CASE i > z
    <3>1. i - z \in 1 .. k /\ z + (i - z) = i
      BY <1>1, <1>2, <1>3, <2>1
    <3>. QED BY <1>1, <1>2, <3>1
  <2>2. CASE ~(i > z)
    <3>1. i = 1 /\ z = 1
      BY <1>1, <1>2, <1>3, <2>2
    <3>. QED BY <1>1, <1>3, <3>1
  <2>. QED BY <2>1, <2>2
<1>. QED BY <1>4

\* strtol() finds a number in a text where it is followed by something else.
LEMMA DecimalRead ==
    ASSUME NEW n \in Number, NEW t \in Seq(Byte), NEW from \in Nat \ {0}, NEW end,
           end = from + Len(Decimal(n)), end <= Len(t) + 1, Stands(t, from, Decimal(n)),
           ~IsDigit(At(t, end), 10)
    PROVE  Strtol(t, from, 10).end = end /\ Strtol(t, from, 10).value = n
<1>. DEFINE m == Magnitude(n)  k == DigitCount(m)  z == SignLength(n)  D == Digits(m)
            f == SoFar(m)  first == from + z
<1>1. /\ m \in 0 .. MostNumber /\ Len(Decimal(n)) = z + k
      /\ \A i \in 1 .. k : Decimal(n)[z + i] = D[i]
      /\ n < 0 => Decimal(n)[1] = Minus
  BY DecimalFacts
<1>2. /\ k \in 1 .. 10 /\ f[0] = 0 /\ f[k] = m
      /\ \A i \in 1 .. k : D[i] \in Zero .. Zero + 9 /\ f[i] \in Nat
                             /\ f[i] = f[i - 1] * 10 + (D[i] - Zero)
  BY <1>1, DigitsFacts
<1>3. /\ z \in {0, 1} /\ (z = 1 <=> n < 0) /\ n \in Int
      /\ m = IF n < 0 THEN -n ELSE n
  <2>1. n \in Int
    BY PowerFacts DEF Number, MostNumber
  <2>. QED BY <2>1 DEF SignLength, Magnitude
<1>. HIDE DEF m, k, z, D, f
<1>4. /\ first \in Nat /\ k \in Nat \ {0} /\ end = first + k
      /\ first = from \/ (first = from + 1 /\ z = 1)
  BY <1>1, <1>2, <1>3
<1>5. ASSUME NEW i \in 1 .. k PROVE t[first + i - 1] = D[i]
  <2>1. z + i \in 1 .. Len(Decimal(n)) /\ from + (z + i) - 1 = first + i - 1
    BY <1>1, <1>2, <1>3
  <2>2. t[from + (z + i) - 1] = Decimal(n)[z + i]
    BY <2>1 DEF Stands
  <2>. QED BY <1>1, <2>1, <2>2
<1>6. ASSUME z = 1 PROVE t[from] = Minus
  <2>1. 1 \in 1 .. Len(Decimal(n)) /\ from + 1 - 1 = from
    BY <1>1, <1>2, <1>6
  <2>2. t[from + 1 - 1] = Decimal(n)[1]
    BY <2>1 DEF Stands
  <2>. QED BY <1>1, <1>3, <1>6, <2>1, <2>2
<1>. HIDE DEF first
<1>7. \A c \in Zero .. Zero + 9 : HexToNibble(c) = c - Zero /\ IsDigit(c, 10)
  BY DecimalDigits
<1>8. DigitsFrom(t, first, k, 10)
  <2>1. ASSUME NEW j \in first .. first + k - 1 PROVE IsDigit(t[j], 10)
    <3>1. j - first + 1 \in 1 .. k /\ first + (j - first + 1) - 1 = j
      BY <1>4
    <3>2. t[j] = D[j - first + 1]
      BY <1>5, <3>1
    <3>. QED BY <1>2, <1>7, <3>1, <3>2
  <2>. QED BY <2>1 DEF DigitsFrom
<1>9. Counts(f, t, first, k, 10)
  <2>1. ASSUME NEW i \in 1 .. k
        PROVE  f[i] \in Nat /\ f[i] = f[i - 1] * 10 + HexToNibble(t[first + i - 1])
    BY <1>2, <1>5, <1>7
  <2>. QED BY <1>2, <2>1 DEF Counts
<1>10. /\ Strtol(t, from, 10).end = end
       /\ Strtol(t, from, 10).value = IF first = from THEN f[k] ELSE -f[k]
  <2>1. first = from \/ (first = from + 1 /\ t[from] = Minus)
    BY <1>4, <1>6
  <2>2. (10 = 16) = FALSE /\ 10 \in {10, 16}
    OBVIOUS
  <2>. QED BY <1>4, <1>8, <1>9, <2>1, <2>2, StrtolIs
<1>11. first = from <=> z = 0
  BY <1>3 DEF first
<1>. QED BY <1>2, <1>3, <1>10, <1>11

LEMMA NumberReadsBack ==
    ASSUME NEW n \in Number
    PROVE  /\ ReadsBack([kind |-> "d", value |-> n])
           /\ WriteArg([kind |-> "d", value |-> n]) = Decimal(n)
<1>. DEFINE v == [kind |-> "d", value |-> n]  p == Decimal(n)
<1>0. n \in Int
  BY PowerFacts DEF Number, MostNumber
<1>1. v.kind = "d" /\ v.value = n /\ v \in Value
  <2>1. v.kind = "d" /\ v.value = n /\ v \in NumberValues
    BY <1>0 DEF NumberValues
  <2>. HIDE DEF v
  <2>. QED BY <2>1, ValueKinds
<1>. HIDE DEF v
<1>2. WriteArg(v) = p
  BY <1>1 DEF WriteArg
<1>3. p \in Seq(Byte) /\ Len(p) \in Nat \ {0}
  <2>1. p \in Seq(Byte) /\ Len(p) = SignLength(n) + DigitCount(Magnitude(n))
        /\ Magnitude(n) \in 0 .. MostNumber
    BY DecimalFacts
  <2>2. DigitCount(Magnitude(n)) \in 1 .. 10 /\ SignLength(n) \in {0, 1}
    BY <2>1, DigitsFacts DEF SignLength
  <2>. HIDE DEF p
  <2>. QED BY <2>1, <2>2
<1>4. \A i \in 1 .. Len(p) : p[i] = Minus \/ p[i] \in Zero .. Zero + 9
  BY DecimalOrdinary
<1>. HIDE DEF p
<1>5. OneParam(p)
  <2>1. \A i \in 1 .. Len(p) : Ordinary(p[i])
    BY <1>4 DEF Ordinary, Minus, Zero, Comma, Quote, Backslash, Open
  <2>. QED BY <1>3, <2>1, OrdinaryIsParam
<1>6. Strtol(p, 1, 10).end = Len(p) + 1 /\ Strtol(p, 1, 10).value = n
  <2>1. At(p, Len(p) + 1) = 0 /\ ~IsDigit(0, 10)
    BY <1>3 DEF At, IsDigit, HexToNibble, Zero, LowerA, UpperA
  <2>2. Stands(p, 1, p)
    BY <1>3 DEF Stands
  <2>3. 1 + Len(p) = Len(p) + 1 /\ Len(p) + 1 <= Len(p) + 1 /\ 1 \in Nat \ {0}
    BY <1>3
  <2>. QED BY <1>3, <2>1, <2>2, <2>3, DecimalRead DEF p
<1>7. At(p, 1) = Minus \/ IsDecimal(At(p, 1))
  <2>1. 1 \in 1 .. Len(p) /\ At(p, 1) = p[1]
    BY <1>3, AtInside
  <2>. QED BY <1>4, <2>1 DEF IsDecimal
<1>8. ParseParam("d", p) = v
  <2>. PICK s : s = Strtol(p, 1, 10)
    OBVIOUS
  <2>1. s.end > Len(p) /\ s.value = n
    BY <1>3, <1>6
  <2>2. ParseParam("d", p)
          = IF (At(p, 1) = Minus \/ IsDecimal(At(p, 1))) /\ s.end > Len(p)
            THEN [kind |-> "d", value |-> s.value] ELSE Bad
    BY DEF ParseParam
  <2>. QED BY <1>7, <2>1, <2>2 DEF v
<1>. QED BY <1>1, <1>2, <1>3, <1>5, <1>8 DEF ReadsBack, v, p

-----------------------------------------------------------------------------
(* Texts with separators. *)

Separated(parts, separator) ==
    [i \in 1 .. Len(parts) |-> (IF i > 1 THEN <<separator>> ELSE <<>>) \o parts[i]]

\* Where a part begins, and behind the last one the text's end and one more
PartStart(parts, separator, i) ==
    IF i > 1 THEN Len(Joined(Separated(parts, separator))[i - 1]) + 2 ELSE 1

IsSeparated(parts, separator, P) ==
    /\ Len(P) = Len(parts)
    /\ Between(parts, separator) = Joined(P)[Len(parts)]
    /\ \A i \in 1 .. Len(parts) :
           /\ Len(parts[i]) \in Nat
           /\ Len(P[i]) = IF i > 1 THEN Len(parts[i]) + 1 ELSE Len(parts[i])
           /\ i > 1 => P[i][1] = separator
           /\ \A j \in 1 .. Len(parts[i]) : parts[i][j] = P[i][IF i > 1 THEN j + 1 ELSE j]

LEMMA SeparatedFacts ==
    ASSUME NEW A, NEW parts \in Seq(Seq(A)), NEW separator \in A
    PROVE  /\ Separated(parts, separator) \in Seq(Seq(A))
           /\ Between(parts, separator) \in Seq(A)
           /\ IsSeparated(parts, separator, Separated(parts, separator))
<1>. DEFINE n == Len(parts)  P == Separated(parts, separator)  q == <<separator>>
<1>1. n \in Nat /\ DOMAIN parts = 1 .. n /\ \A i \in 1 .. n : parts[i] \in Seq(A)
  OBVIOUS
<1>2. q \in Seq(A) /\ Len(q) = 1 /\ q[1] = separator
  OBVIOUS
<1>3. \A i \in 1 .. n : P[i] = (IF i > 1 THEN q ELSE <<>>) \o parts[i]
  BY DEF Separated
<1>4. Between(parts, separator) = Joined(P)[n]
  BY <1>1 DEF Between, Separated
<1>. HIDE DEF q, P
<1>5. ASSUME NEW i \in 1 .. n
      PROVE  /\ P[i] \in Seq(A) /\ Len(parts[i]) \in Nat
             /\ Len(P[i]) = IF i > 1 THEN Len(parts[i]) + 1 ELSE Len(parts[i])
             /\ i > 1 => P[i][1] = separator
             /\ \A j \in 1 .. Len(parts[i]) : parts[i][j] = P[i][IF i > 1 THEN j + 1 ELSE j]
  <2>. DEFINE w == parts[i]
  <2>0. w \in Seq(A) /\ Len(w) \in Nat
    BY <1>1
  <2>1. CASE i > 1
    <3>1. P[i] = q \o w
      BY <1>3, <2>1
    <3>. HIDE DEF w
    <3>2. /\ q \o w \in Seq(A) /\ Len(q \o w) = Len(q) + Len(w)
          /\ \A k \in 1 .. Len(q) + Len(w) :
                 (q \o w)[k] = IF k <= Len(q) THEN q[k] ELSE w[k - Len(q)]
      BY <1>2, <2>0, ConcatProperties
    <3>3. P[i] \in Seq(A) /\ Len(P[i]) = Len(w) + 1 /\ P[i][1] = separator
      BY <1>2, <2>0, <3>1, <3>2
    <3>4. ASSUME NEW j \in 1 .. Len(w) PROVE w[j] = P[i][j + 1]
      <4>1. j + 1 \in 1 .. Len(q) + Len(w) /\ ~(j + 1 <= Len(q)) /\ (j + 1) - Len(q) = j
        BY <1>2, <2>0
      <4>. QED BY <3>1, <3>2, <4>1
    <3>. QED BY <2>0, <2>1, <3>3, <3>4 DEF w
  <2>2. CASE ~(i > 1)
    <3>1. P[i] = <<>> \o w
      BY <1>3, <2>2
    <3>2. <<>> \o w = w
      BY <2>0
    <3>. QED BY <2>0, <2>2, <3>1, <3>2
  <2>. QED BY <2>1, <2>2
<1>6. P \in Seq(Seq(A)) /\ Len(P) = n
  <2>1. P \in [1 .. n -> Seq(A)]
    <3>1. P = [i \in 1 .. n |-> P[i]]
      BY DEF P, Separated
    <3>. QED BY <1>5, <3>1
  <2>. HIDE DEF n
  <2>2. P \in Seq(Seq(A))
    BY <1>1, <2>1
  <2>. QED BY <1>1, <2>1, <2>2, LenProperties
<1>7. Joined(P)[n] \in Seq(A)
  <2>1. n \in 0 .. Len(P)
    BY <1>1, <1>6
  <2>. QED BY <1>6, <2>1, JoinedType
<1>. QED BY <1>4, <1>5, <1>6, <1>7 DEF IsSeparated, P, n

LEMMA BetweenParts ==
    ASSUME NEW parts \in Seq(Seq(Byte)), NEW separator \in Byte, NEW i \in 1 .. Len(parts)
    PROVE  /\ Between(parts, separator) \in Seq(Byte)
           /\ PartStart(parts, separator, 1) = 1
           /\ PartStart(parts, separator, i) \in Nat \ {0}
           /\ PartStart(parts, separator, i + 1)
                = PartStart(parts, separator, i) + Len(parts[i]) + 1
           /\ PartStart(parts, separator, i + 1) <= Len(Between(parts, separator)) + 2
           /\ Stands(Between(parts, separator), PartStart(parts, separator, i), parts[i])
           /\ i < Len(parts)
                => /\ PartStart(parts, separator, i + 1) - 1 <= Len(Between(parts, separator))
                   /\ Between(parts, separator)[PartStart(parts, separator, i + 1) - 1] = separator
           /\ PartStart(parts, separator, Len(parts) + 1) = Len(Between(parts, separator)) + 2
<1>. DEFINE n == Len(parts)  P == Separated(parts, separator)  J == Joined(P)
            T == Between(parts, separator)  N == Len(T)  w == parts[i]
            from == PartStart(parts, separator, i)  next == PartStart(parts, separator, i + 1)
            Size(k) == Len(J[k])
<1>1. /\ P \in Seq(Seq(Byte)) /\ Len(P) = n /\ T = J[n] /\ T \in Seq(Byte)
      /\ \A k \in 1 .. n :
             /\ k > 1 => P[k][1] = separator
             /\ Len(parts[k]) \in Nat
             /\ Len(P[k]) = IF k > 1 THEN Len(parts[k]) + 1 ELSE Len(parts[k])
      /\ \A j \in 1 .. Len(w) : w[j] = P[i][IF i > 1 THEN j + 1 ELSE j]
  <2>1. P \in Seq(Seq(Byte)) /\ T \in Seq(Byte) /\ IsSeparated(parts, separator, P)
    BY SeparatedFacts
  <2>. QED BY <2>1 DEF IsSeparated
<1>2. w \in Seq(Byte) /\ Len(w) \in Nat
  OBVIOUS
<1>3. /\ n \in Nat /\ J[0] = <<>>
      /\ \A k \in 0 .. n : J[k] \in Seq(Byte) /\ Size(k) \in 0 .. N
      /\ \A k \in 1 .. n : Size(k) = Size(k - 1) + Len(P[k])
      /\ \A k \in 1 .. n, j \in Nat : j \in 1 .. Len(P[k]) => T[Size(k - 1) + j] = P[k][j]
  <2>1. P \in Seq(Seq(Byte)) /\ n = Len(P) /\ N = Len(J[n]) /\ T = J[n]
    BY <1>1
  <2>. HIDE DEF P, n, N, T
  <2>2. /\ Len(P) \in Nat /\ J[0] = <<>>
        /\ \A k \in 0 .. Len(P) : J[k] \in Seq(Byte) /\ Len(J[k]) \in 0 .. Len(J[Len(P)])
        /\ \A k \in 1 .. Len(P) : Len(J[k]) = Len(J[k - 1]) + Len(P[k])
        /\ \A k \in 1 .. Len(P), j \in Nat :
               j \in 1 .. Len(P[k]) => J[Len(P)][Len(J[k - 1]) + j] = P[k][j]
    BY <2>1, JoinedParts
  <2>. HIDE DEF J
  <2>. QED BY <2>1, <2>2
<1>4. /\ next = Size(i) + 2 /\ from = IF i > 1 THEN Size(i - 1) + 2 ELSE 1
      /\ PartStart(parts, separator, 1) = 1
      /\ n > 0 => PartStart(parts, separator, n + 1) = Size(n) + 2
  <2>1. i \in Nat /\ i + 1 > 1 /\ (i + 1) - 1 = i /\ (n > 0 => n + 1 > 1) /\ (n + 1) - 1 = n
    BY <1>3
  <2>. QED BY <2>1 DEF PartStart
<1>5. /\ N \in Nat /\ i - 1 \in 0 .. n /\ i \in 0 .. n /\ i \in Nat /\ n > 0 /\ Size(n) = N
      /\ i \in 1 .. n
  BY <1>1, <1>3
<1>6. /\ Size(i - 1) \in Nat /\ Size(i) \in 0 .. N /\ Size(i) = Size(i - 1) + Len(P[i])
      /\ i = 1 => Size(i - 1) = 0
  <2>1. i = 1 => J[i - 1] = <<>>
    BY <1>3, <1>5
  <2>2. Len(<<>>) = 0
    OBVIOUS
  <2>3. i = 1 => Size(i - 1) = 0
    BY <2>1, <2>2
  <2>. HIDE DEF T, P, J, Size
  <2>4. Size(i - 1) \in 0 .. N /\ Size(i) \in 0 .. N
    BY <1>3, <1>5
  <2>5. Size(i) = Size(i - 1) + Len(P[i])
    BY <1>3
  <2>. QED BY <2>3, <2>4, <2>5
<1>7. Len(P[i]) = IF i > 1 THEN Len(w) + 1 ELSE Len(w)
  BY <1>1
<1>. HIDE DEF T, P, J, w, from, next, Size, n, N
<1>8. /\ from \in Nat \ {0} /\ next = from + Len(w) + 1 /\ next <= N + 2
      /\ from = Size(i - 1) + (IF i > 1 THEN 2 ELSE 1)
  <2>0. PICK a \in Nat, b \in Nat, l \in Nat, m \in Nat :
           a = Size(i - 1) /\ b = Size(i) /\ l = Len(w) /\ m = N
    BY <1>2, <1>5, <1>6
  <2>1. CASE i > 1
    <3>1. from = a + 2 /\ next = b + 2 /\ b = a + (l + 1) /\ b <= m
      BY <1>4, <1>6, <1>7, <2>0, <2>1
    <3>2. (a + (l + 1)) + 2 = (a + 2) + l + 1 /\ a + 2 \in Nat \ {0} /\ (b <= m => b + 2 <= m + 2)
      OBVIOUS
    <3>. QED BY <2>0, <2>1, <3>1, <3>2
  <2>2. CASE i = 1
    <3>1. from = 1 /\ next = b + 2 /\ b = l /\ b <= m /\ a = 0
      BY <1>4, <1>6, <1>7, <2>0, <2>2
    <3>. QED BY <2>0, <2>2, <3>1
  <2>. QED BY <1>5, <2>1, <2>2
<1>9. \A j \in 1 .. Len(w) : T[from + j - 1] = w[j]
  <2>. TAKE j \in 1 .. Len(w)
  <2>. PICK k : k = IF i > 1 THEN j + 1 ELSE j
    OBVIOUS
  <2>1. j \in Nat
    BY <1>2
  <2>2. k \in Nat /\ k \in 1 .. Len(P[i]) /\ from + j - 1 = Size(i - 1) + k
    <3>1. CASE i > 1
      BY <1>2, <1>6, <1>7, <1>8, <2>1, <3>1
    <3>2. CASE i = 1
      BY <1>2, <1>6, <1>7, <1>8, <2>1, <3>2
    <3>. QED BY <1>5, <3>1, <3>2
  <2>3. T[Size(i - 1) + k] = P[i][k]
    BY <1>3, <1>5, <2>2
  <2>4. w[j] = P[i][k]
    BY <1>1
  <2>. QED BY <2>2, <2>3, <2>4
<1>10. i < n => next - 1 <= N /\ T[next - 1] = separator
  <2>. HAVE i < n
  <2>. PICK k : k = i + 1
    OBVIOUS
  <2>1. k \in 1 .. n /\ k > 1 /\ k - 1 = i /\ k \in 0 .. n
    BY <1>3, <1>5
  <2>2. Len(P[k]) = Len(parts[k]) + 1 /\ Len(parts[k]) \in Nat /\ P[k][1] = separator
    BY <1>1, <2>1
  <2>3. Size(k) = Size(i) + Len(P[k]) /\ Size(k) \in 0 .. N
    BY <1>3, <2>1
  <2>4. 1 \in 1 .. Len(P[k]) /\ next - 1 <= N /\ next - 1 = Size(i) + 1
    <3>0. PICK a \in Nat, b \in Nat, l \in Nat, m \in Nat :
             a = Size(i) /\ b = Size(k) /\ l = Len(parts[k]) /\ m = N
      BY <1>5, <1>6, <2>2, <2>3
    <3>1. b = a + (l + 1) /\ b <= m /\ Len(P[k]) = l + 1 /\ next = a + 2
      BY <1>4, <2>2, <2>3, <3>0
    <3>2. 1 \in 1 .. l + 1 /\ (a + (l + 1) <= m => (a + 2) - 1 <= m) /\ (a + 2) - 1 = a + 1
      OBVIOUS
    <3>3. 1 \in 1 .. Len(P[k])
      BY <3>1, <3>2
    <3>4. next - 1 <= m /\ next - 1 = a + 1
      BY <3>1, <3>2
    <3>. QED BY <3>0, <3>3, <3>4
  <2>5. T[Size(k - 1) + 1] = P[k][1]
    BY <1>3, <2>1, <2>4
  <2>. QED BY <2>1, <2>2, <2>4, <2>5
<1>11. Stands(T, from, w)
  BY <1>9 DEF Stands
<1>12. PartStart(parts, separator, n + 1) = N + 2
  BY <1>4, <1>5
<1>. QED BY <1>1, <1>4, <1>8, <1>10, <1>11, <1>12 DEF T, N, w, from, next, n

-----------------------------------------------------------------------------
(* IPv4 addresses. *)

\* All of a sequence
LEMMA WholeSequence ==
    ASSUME NEW A, NEW s \in Seq(A)
    PROVE  SubSeq(s, 1, Len(s)) = s
<1>. DEFINE n == Len(s)
<1>1. n \in Nat /\ \A k \in 1 .. n : s[k] \in A
  OBVIOUS
<1>2. /\ SubSeq(s, 1, n) \in Seq(A) /\ Len(SubSeq(s, 1, n)) = n
      /\ \A k \in 1 .. n : SubSeq(s, 1, n)[k] = s[k]
  <2>1. 1 \in Int /\ n \in Int /\ \A k \in 1 .. n : s[k] \in A
    BY <1>1
  <2>2. /\ SubSeq(s, 1, n) \in Seq(A)
        /\ Len(SubSeq(s, 1, n)) = IF 1 <= n THEN n - 1 + 1 ELSE 0
        /\ \A k \in 1 .. n - 1 + 1 : SubSeq(s, 1, n)[k] = s[1 + k - 1]
    BY <2>1, SubSeqProperties
  <2>3. \A k \in 1 .. n : k \in 1 .. n - 1 + 1 /\ 1 + k - 1 = k
    BY <1>1
  <2>. QED BY <1>1, <2>2, <2>3
<1>. QED BY <1>2, SeqEqual

LEMMA SmallNumbers ==
    ASSUME NEW n \in Nat, n <= UInt16Size - 1
    PROVE  /\ n \in Number /\ SignLength(n) = 0 /\ Magnitude(n) = n
           /\ Len(Decimal(n)) \in 1 .. 10 /\ Decimal(n)[1] \in Zero .. Zero + 9
           /\ n <= 255 => Len(Decimal(n)) <= 3
<1>1. n \in Number
  <2>1. Power(10) \in Nat /\ Power(10) = 10 * Power(9) /\ Power(9) = 10 * Power(8)
        /\ Power(8) \in Nat /\ Power(8) >= 1000
    BY PowerFacts
  <2>2. UInt16Size - 1 <= 100 * 1000
    BY DEF UInt16Size
  <2>3. PICK k \in Nat : k = Power(8) /\ k >= 1000
    BY <2>1
  <2>4. MostNumber = 10 * (10 * (10 * k)) - 1
    BY <2>1, <2>3 DEF MostNumber
  <2>5. MostNumber \in Nat /\ n <= MostNumber
    <3>1. 10 * (10 * (10 * k)) - 1 \in Nat /\ 100 * 1000 <= 10 * (10 * (10 * k)) - 1
      BY <2>3
    <3>2. UInt16Size \in Nat
      BY DEF UInt16Size
    <3>. QED BY <2>2, <2>4, <3>1, <3>2
  <2>. QED BY <2>5 DEF Number
<1>2. SignLength(n) = 0 /\ Magnitude(n) = n
  BY DEF SignLength, Magnitude
<1>3. /\ n \in 0 .. MostNumber /\ Len(Decimal(n)) = DigitCount(n)
      /\ \A i \in 1 .. DigitCount(n) : Decimal(n)[i] = Digits(n)[i]
  <2>1. /\ n \in 0 .. MostNumber /\ Len(Decimal(n)) = 0 + DigitCount(n)
        /\ \A i \in 1 .. DigitCount(n) : Decimal(n)[0 + i] = Digits(n)[i]
    BY <1>1, <1>2, DecimalFacts
  <2>2. DigitCount(n) \in 1 .. 10
    BY <2>1, DigitsFacts
  <2>3. \A i \in 1 .. DigitCount(n) : 0 + i = i
    BY <2>2
  <2>. QED BY <2>1, <2>2, <2>3
<1>4. DigitCount(n) \in 1 .. 10 /\ (n <= 255 => DigitCount(n) <= 3)
  BY <1>3, DigitCountFacts
<1>5. \A i \in 1 .. DigitCount(n) : Digits(n)[i] \in Zero .. Zero + 9
  BY <1>3, DigitsFacts
<1>. QED BY <1>1, <1>2, <1>3, <1>4, <1>5

\* The first character of what stands in a text
LEMMA FirstStands ==
    ASSUME NEW t, NEW from \in Nat, NEW u, Stands(t, from, u), Len(u) \in Nat \ {0}
    PROVE  t[from] = u[1]
<1>1. 1 \in 1 .. Len(u) /\ from + 1 - 1 = from
  OBVIOUS
<1>2. t[from + 1 - 1] = u[1]
  BY <1>1 DEF Stands
<1>. QED BY <1>1, <1>2

LEMMA OctetWritten ==
    ASSUME NEW n \in Byte
    PROVE  /\ n \in Number /\ Len(Decimal(n)) \in 1 .. 3
           /\ Decimal(n)[1] \in Zero .. Zero + 9
           /\ Decimal(n) \in Seq(Byte) /\ Decimal(n) \in Seq(Zero .. Zero + 9 \cup {Dot})
<1>. DEFINE A == Zero .. Zero + 9 \cup {Dot}
<1>1. n \in Nat /\ n <= 255 /\ n <= UInt16Size - 1
  <2>1. n \in 0 .. 255
    BY DEF Byte, MaxByte
  <2>. QED BY <2>1 DEF UInt16Size
<1>2. /\ n \in Number /\ SignLength(n) = 0 /\ Magnitude(n) = n
      /\ Len(Decimal(n)) \in 1 .. 10 /\ Len(Decimal(n)) <= 3
      /\ Decimal(n)[1] \in Zero .. Zero + 9
  BY <1>1, SmallNumbers
<1>3. Decimal(n) \in Seq(Byte)
  BY <1>2, DecimalFacts
<1>4. Decimal(n) \in Seq(A)
  <2>1. ASSUME NEW j \in 1 .. Len(Decimal(n)) PROVE Decimal(n)[j] \in A
    <3>1. /\ n \in 0 .. MostNumber /\ Len(Decimal(n)) = 0 + DigitCount(n)
          /\ \A i \in 1 .. DigitCount(n) : Decimal(n)[0 + i] = Digits(n)[i]
      BY <1>2, DecimalFacts
    <3>2. DigitCount(n) \in 1 .. 10
          /\ \A i \in 1 .. DigitCount(n) : Digits(n)[i] \in Zero .. Zero + 9
      BY <3>1, DigitsFacts
    <3>3. j \in 1 .. DigitCount(n) /\ 0 + j = j
      BY <3>1, <3>2
    <3>. QED BY <3>1, <3>2, <3>3
  <2>. HIDE DEF A
  <2>. QED BY <1>3, <2>1
<1>5. Len(Decimal(n)) \in 1 .. 3
  <2>1. PICK l \in 1 .. 10 : l = Len(Decimal(n))
    BY <1>2
  <2>2. l <= 3
    BY <1>2, <2>1
  <2>. QED BY <2>1, <2>2
<1>. HIDE DEF A
<1>. QED BY <1>2, <1>3, <1>4, <1>5 DEF A

ReadSoFar(pos, part) == [ok |-> TRUE, pos |-> pos, part |-> part]

FourBytes(a) == a \in Seq(Byte) /\ Len(a) = 4

Octets(a) == [i \in DOMAIN a |-> Decimal(a[i])]
OctetText(a) == Between(Octets(a), Dot)
OctetStart(a, i) == PartStart(Octets(a), Dot, i)

LEMMA OctetFacts ==
    ASSUME NEW a, FourBytes(a)
    PROVE  /\ OctetText(a) \in Seq(Byte) /\ Len(OctetText(a)) <= 15
           /\ \A j \in 1 .. Len(OctetText(a)) : Ordinary(OctetText(a)[j])
           /\ OctetStart(a, 1) = 1
           /\ \A i \in 1 .. 4 :
                  /\ OctetStart(a, i) \in Nat \ {0}
                  /\ OctetStart(a, i + 1) \in Nat \ {0}
                  /\ IsDecimal(At(OctetText(a), OctetStart(a, i)))
                  /\ Strtol(OctetText(a), OctetStart(a, i), 10).end = OctetStart(a, i + 1) - 1
                  /\ Strtol(OctetText(a), OctetStart(a, i), 10).value = a[i]
                  /\ At(OctetText(a), OctetStart(a, i + 1) - 1) = IF i < 4 THEN Dot ELSE 0
           /\ \E j \in DOMAIN OctetText(a) : OctetText(a)[j] = Dot
<1>. DEFINE O == Octets(a)  U == OctetText(a)  N == Len(U)  start(i) == OctetStart(a, i)
<1>1. a \in Seq(Byte) /\ Len(a) = 4 /\ \A i \in 1 .. 4 : a[i] \in Byte
  <2>1. a \in Seq(Byte)
    BY DEF FourBytes
  <2>2. Len(a) = 4
    BY DEF FourBytes
  <2>3. \A i \in 1 .. Len(a) : a[i] \in Byte
    BY <2>1
  <2>. QED BY <2>1, <2>2, <2>3
<1>. DEFINE A == Zero .. Zero + 9 \cup {Dot}
<1>2. \A i \in 1 .. 4 : /\ a[i] \in Number /\ Len(Decimal(a[i])) \in 1 .. 3
                        /\ Decimal(a[i])[1] \in Zero .. Zero + 9
                        /\ Decimal(a[i]) \in Seq(Byte) /\ Decimal(a[i]) \in Seq(A)
  <2>. HIDE DEF A
  <2>. QED BY <1>1, OctetWritten DEF A
<1>4. /\ O \in Seq(Seq(Byte)) /\ O \in Seq(Seq(A)) /\ Len(O) = 4
      /\ \A i \in 1 .. 4 : O[i] = Decimal(a[i])
  <2>1. O = [i \in 1 .. 4 |-> Decimal(a[i])]
    BY <1>1 DEF Octets
  <2>. HIDE DEF O, A
  <2>2. O \in [1 .. 4 -> Seq(Byte)] /\ O \in [1 .. 4 -> Seq(A)]
    BY <1>2, <2>1
  <2>3. O \in Seq(Seq(Byte))
    <3>1. \E n \in Nat : O \in [1 .. n -> Seq(Byte)]
      BY <2>2
    <3>. QED BY <3>1
  <2>4. O \in Seq(Seq(A))
    <3>1. \E n \in Nat : O \in [1 .. n -> Seq(A)]
      BY <2>2
    <3>. QED BY <3>1
  <2>5. Len(O) = 4
    BY <2>2, <2>3, LenProperties
  <2>. QED BY <2>1, <2>3, <2>4, <2>5
<1>5. Dot \in Byte /\ Dot \in A /\ A \subseteq Byte
  BY DEF Byte, MaxByte, Dot, Zero
<1>6. /\ U \in Seq(Byte) /\ start(1) = 1 /\ start(4 + 1) = N + 2
      /\ \A i \in 1 .. 4 :
             /\ start(i) \in Nat \ {0} /\ start(i + 1) = start(i) + Len(O[i]) + 1
             /\ start(i + 1) <= N + 2 /\ Stands(U, start(i), O[i])
             /\ i < 4 => start(i + 1) - 1 <= N /\ U[start(i + 1) - 1] = Dot
  <2>. HIDE DEF O
  <2>1. U = Between(O, Dot) /\ \A i : start(i) = PartStart(O, Dot, i)
    BY DEF OctetText, OctetStart, O
  <2>. HIDE DEF U, start
  <2>4. 4 = Len(O) /\ O \in Seq(Seq(Byte)) /\ Dot \in Byte
    BY <1>4, <1>5
  <2>2. ASSUME NEW i \in 1 .. 4
        PROVE  /\ U \in Seq(Byte) /\ start(1) = 1 /\ start(4 + 1) = N + 2
               /\ start(i) \in Nat \ {0} /\ start(i + 1) = start(i) + Len(O[i]) + 1
               /\ start(i + 1) <= N + 2 /\ Stands(U, start(i), O[i])
               /\ i < 4 => start(i + 1) - 1 <= N /\ U[start(i + 1) - 1] = Dot
    <3>1. i \in 1 .. Len(O)
      BY <2>4
    <3>2. /\ Between(O, Dot) \in Seq(Byte)
          /\ PartStart(O, Dot, 1) = 1
          /\ PartStart(O, Dot, i) \in Nat \ {0}
          /\ PartStart(O, Dot, i + 1) = PartStart(O, Dot, i) + Len(O[i]) + 1
          /\ PartStart(O, Dot, i + 1) <= Len(Between(O, Dot)) + 2
          /\ Stands(Between(O, Dot), PartStart(O, Dot, i), O[i])
          /\ i < Len(O)
               => /\ PartStart(O, Dot, i + 1) - 1 <= Len(Between(O, Dot))
                  /\ Between(O, Dot)[PartStart(O, Dot, i + 1) - 1] = Dot
          /\ PartStart(O, Dot, Len(O) + 1) = Len(Between(O, Dot)) + 2
      BY <2>4, <3>1, BetweenParts
    <3>. QED BY <2>1, <2>4, <3>2
  <2>3. 1 \in 1 .. 4
    OBVIOUS
  <2>. QED BY <2>2, <2>3
<1>13. /\ start(2) = start(1) + Len(O[1]) + 1 /\ start(3) = start(2) + Len(O[2]) + 1
       /\ start(4) = start(3) + Len(O[3]) + 1 /\ start(5) = start(4) + Len(O[4]) + 1
       /\ start(5) = N + 2 /\ start(2) - 1 <= N /\ U[start(2) - 1] = Dot
  <2>. HIDE DEF O, U, start, N
  <2>1. /\ 1 \in 1 .. 4 /\ 2 \in 1 .. 4 /\ 3 \in 1 .. 4 /\ 4 \in 1 .. 4
        /\ 1 + 1 = 2 /\ 2 + 1 = 3 /\ 3 + 1 = 4 /\ 4 + 1 = 5 /\ 1 < 4
    OBVIOUS
  <2>2. start(1 + 1) = start(1) + Len(O[1]) + 1 /\ start(2 + 1) = start(2) + Len(O[2]) + 1
    BY <1>6, <2>1
  <2>3. start(3 + 1) = start(3) + Len(O[3]) + 1 /\ start(4 + 1) = start(4) + Len(O[4]) + 1
    BY <1>6, <2>1
  <2>4. start(4 + 1) = N + 2 /\ start(1 + 1) - 1 <= N /\ U[start(1 + 1) - 1] = Dot
    BY <1>6, <2>1
  <2>. QED BY <2>1, <2>2, <2>3, <2>4
<1>7. \A j \in 1 .. N : U[j] \in A
  <2>1. U \in Seq(A)
    <3>. HIDE DEF A
    <3>. QED BY <1>4, <1>5, SeparatedFacts DEF OctetText
  <2>. HIDE DEF U
  <2>. QED BY <1>6, <2>1
<1>8. \A i \in 1 .. 4 : Len(O[i]) \in 1 .. 3 /\ O[i][1] \in Zero .. Zero + 9
  BY <1>2, <1>4
<1>. HIDE DEF U, N, O, start, A
<1>9. N \in Nat /\ N <= 15
  <2>1. N \in Nat
    BY <1>6 DEF N
  <2>2. Len(O[1]) \in 1 .. 3 /\ Len(O[2]) \in 1 .. 3 /\ Len(O[3]) \in 1 .. 3 /\ Len(O[4]) \in 1 .. 3
    BY <1>8
  <2>3. PICK k \in 1 .. 3, l \in 1 .. 3, m \in 1 .. 3, n \in 1 .. 3 :
           k = Len(O[1]) /\ l = Len(O[2]) /\ m = Len(O[3]) /\ n = Len(O[4])
    BY <2>2
  <2>4. N + 2 = 1 + k + 1 + l + 1 + m + 1 + n + 1
    BY <1>6, <1>13, <2>3
  <2>. QED BY <2>1, <2>4
<1>10. ASSUME NEW i \in 1 .. 4
       PROVE  /\ start(i) \in Nat \ {0} /\ start(i + 1) \in Nat \ {0}
              /\ IsDecimal(At(U, start(i)))
              /\ Strtol(U, start(i), 10).end = start(i + 1) - 1
              /\ Strtol(U, start(i), 10).value = a[i]
              /\ At(U, start(i + 1) - 1) = IF i < 4 THEN Dot ELSE 0
  <2>. DEFINE from == start(i)  end == start(i + 1) - 1  w == O[i]
  <2>1. /\ from \in Nat \ {0} /\ end = from + Len(w) /\ end \in Nat \ {0} /\ end <= N + 1
        /\ Len(w) \in 1 .. 3 /\ Stands(U, from, w) /\ start(i + 1) = end + 1
    <3>0. PICK s \in Nat \ {0}, l \in 1 .. 3 : s = start(i) /\ l = Len(O[i])
      BY <1>6, <1>8
    <3>1. start(i + 1) = s + l + 1 /\ start(i + 1) <= N + 2
      BY <1>6, <3>0
    <3>2. Stands(U, from, w)
      BY <1>6
    <3>. QED BY <1>9, <3>0, <3>1, <3>2
  <2>2. At(U, end) = IF i < 4 THEN Dot ELSE 0
    <3>1. CASE i < 4
      <4>1. end <= N /\ U[end] = Dot
        BY <1>6, <3>1
      <4>2. end \in 1 .. N
        BY <1>9, <2>1, <4>1
      <4>. QED BY <1>6, <3>1, <4>1, <4>2, AtInside DEF N
    <3>2. CASE ~(i < 4)
      <4>1. i = 4
        BY <3>2
      <4>2. end = N + 1
        BY <1>6, <1>9, <4>1
      <4>. QED BY <1>9, <3>2, <4>2 DEF At, N
    <3>. QED BY <3>1, <3>2
  <2>3. ~IsDigit(At(U, end), 10)
    BY <2>2 DEF IsDigit, HexToNibble, Dot, Zero, LowerA, UpperA
  <2>4. w = Decimal(a[i]) /\ a[i] \in Number
    BY <1>2, <1>4
  <2>. HIDE DEF from, end, w
  <2>5. Strtol(U, from, 10).end = end /\ Strtol(U, from, 10).value = a[i]
    <3>1. U \in Seq(Byte) /\ end <= Len(U) + 1 /\ from \in Nat \ {0}
      BY <1>6, <2>1 DEF N
    <3>2. end = from + Len(Decimal(a[i])) /\ Stands(U, from, Decimal(a[i]))
      BY <2>1, <2>4
    <3>. QED BY <2>3, <2>4, <3>1, <3>2, DecimalRead
  <2>6. IsDecimal(At(U, from))
    <3>0. from \in 1 .. N /\ Len(w) \in Nat \ {0} /\ from \in Nat
      <4>1. PICK l \in 1 .. 3, m \in Nat : l = Len(w) /\ m = N
        BY <1>9, <2>1
      <4>2. end = from + l /\ end <= m + 1 /\ from \in Nat \ {0}
        BY <2>1, <4>1
      <4>. QED BY <4>1, <4>2
    <3>1. U[from] = w[1] /\ from \in 1 .. Len(U)
      BY <2>1, <3>0, FirstStands DEF N
    <3>2. At(U, from) = w[1]
      BY <1>6, <3>1, AtInside
    <3>3. w[1] \in Zero .. Zero + 9
      BY <1>8 DEF w
    <3>. QED BY <3>2, <3>3 DEF IsDecimal
  <2>. QED BY <2>1, <2>2, <2>5, <2>6 DEF from, end
<1>11. \A j \in 1 .. N : Ordinary(U[j])
  BY <1>7 DEF A, Ordinary, Zero, Dot, Comma, Quote, Backslash, Open
<1>12. \E j \in DOMAIN U : U[j] = Dot
  <2>1. start(2) - 1 \in 1 .. N /\ U[start(2) - 1] = Dot
    <3>0. Len(O[1]) \in 1 .. 3
      BY <1>8
    <3>1. PICK l \in 1 .. 3 : l = Len(O[1])
      BY <3>0
    <3>2. start(2) = 1 + l + 1
      BY <1>6, <1>13, <3>1
    <3>3. start(2) - 1 <= N /\ U[start(2) - 1] = Dot
      BY <1>13
    <3>4. start(2) - 1 = l + 1
      BY <3>2
    <3>5. l + 1 \in 1 .. N
      BY <1>9, <3>3, <3>4
    <3>. QED BY <3>3, <3>4, <3>5
  <2>2. DOMAIN U = 1 .. N
    BY <1>6 DEF N
  <2>. QED BY <2>1, <2>2
<1>. QED BY <1>6, <1>9, <1>10, <1>11, <1>12 DEF U, N, start

LEMMA InLargerSet ==
    ASSUME NEW A, NEW B, A \subseteq B, NEW s \in Seq(A)
    PROVE  s \in Seq(B)
<1>1. s \in [1 .. Len(s) -> A] /\ Len(s) \in Nat
  OBVIOUS
<1>2. s \in [1 .. Len(s) -> B]
  BY <1>1
<1>3. \E n \in Nat : s \in [1 .. n -> B]
  BY <1>1, <1>2
<1>. QED BY <1>3

LEMMA FourFacts ==
    ASSUME NEW a, FourBytes(a)
    PROVE  /\ a \in Seq(Byte) /\ Len(a) = 4 /\ a \in Seq(Nat) /\ a \in Seq(0 .. UInt16Size - 1)
           /\ \A i \in 1 .. 4 : a[i] \in Byte /\ a[i] \in Nat
<1>1. a \in Seq(Byte)
  BY DEF FourBytes
<1>2. Len(a) = 4
  BY DEF FourBytes
<1>3. \A i \in 1 .. Len(a) : a[i] \in Byte
  BY <1>1
<1>4. Byte \subseteq Nat
  BY DEF Byte, MaxByte
<1>5. a \in Seq(Nat)
  BY <1>1, <1>4, InLargerSet
<1>. DEFINE W == 0 .. UInt16Size - 1
<1>6. Byte \subseteq W
  <2>1. ASSUME NEW b \in Byte PROVE b \in W
    <3>1. b \in 0 .. 255
      BY DEF Byte, MaxByte
    <3>2. PICK size \in Nat : size = UInt16Size /\ size > 255
      BY DEF UInt16Size
    <3>3. b \in 0 .. size - 1
      BY <3>1, <3>2
    <3>. QED BY <3>2, <3>3
  <2>. HIDE DEF W
  <2>. QED BY <2>1
<1>. HIDE DEF W
<1>7. a \in Seq(W)
  BY <1>1, <1>6, InLargerSet
<1>8. \A i \in 1 .. 4 : a[i] \in Byte /\ a[i] \in Nat
  BY <1>2, <1>3, <1>4
<1>. QED BY <1>1, <1>2, <1>5, <1>7, <1>8 DEF W

LEMMA OctetsRead ==
    ASSUME NEW a, FourBytes(a)
    PROVE  StringToIPv4(OctetText(a)) = [kind |-> "i", type |-> "v4", part |-> a]
<1>. DEFINE U == OctetText(a)  start(i) == OctetStart(a, i)
            L == Loop(IPv4Step(U), ReadSoFar(1, <<>>), 4)
            first(i) == SubSeq(a, 1, i)
            Read(i) == ReadSoFar(start(i + 1), first(i))
            S == {i \in Nat : L[i] = Read(i)}
<1>1. a \in Seq(Byte) /\ a \in Seq(Nat) /\ Len(a) = 4 /\ \A i \in 1 .. 4 : a[i] \in Byte
  BY FourFacts
<1>2. /\ start(1) = 1
      /\ \A i \in 1 .. 4 :
             /\ start(i) \in Nat \ {0} /\ start(i + 1) \in Nat \ {0}
             /\ IsDecimal(At(U, start(i)))
             /\ Strtol(U, start(i), 10).end = start(i + 1) - 1
             /\ Strtol(U, start(i), 10).value = a[i]
             /\ At(U, start(i + 1) - 1) = IF i < 4 THEN Dot ELSE 0
  BY OctetFacts
<1>. HIDE DEF U, start
<1>3. L[0] = ReadSoFar(1, <<>>) /\ \A i \in 1 .. 4 : L[i] = IPv4Step(U)[L[i - 1]]
  BY LoopUnfolds
<1>. HIDE DEF L
<1>4. 0 \in S
  <2>1. first(0) = <<>> /\ 0 + 1 = 1
    BY SubSeqEmpty
  <2>. HIDE DEF first
  <2>. QED BY <1>2, <1>3, <2>1
<1>5. ASSUME NEW i \in 1 .. 4, i - 1 \in S PROVE i \in S
  <2>. DEFINE s == ReadSoFar(start(i), first(i - 1))  n == Strtol(U, start(i), 10)
  <2>0. i \in Nat /\ i - 1 + 1 = i /\ (i - 1 < 3 <=> i < 4)
    OBVIOUS
  <2>1. L[i - 1] = s /\ L[i] = IPv4Step(U)[L[i - 1]]
    BY <1>3, <1>5, <2>0
  <2>2. first(i - 1) \in Seq(Nat) /\ Append(first(i - 1), a[i]) = first(i)
        /\ Len(first(i - 1)) = i - 1
    <3>1. i \in 1 .. Len(a)
      BY <1>1
    <3>2. SubSeq(a, 1, i - 1) \in Seq(Nat) /\ Append(SubSeq(a, 1, i - 1), a[i]) = SubSeq(a, 1, i)
      BY <1>1, <3>1, FirstAndNext
    <3>3. Len(SubSeq(a, 1, i - 1)) = i - 1
      <4>1. 1 \in Int /\ i - 1 \in Int /\ \A k \in 1 .. i - 1 : a[k] \in Nat
        <5>1. \A k \in 1 .. i - 1 : k \in 1 .. 4
          OBVIOUS
        <5>. QED BY <5>1, FourFacts
      <4>2. Len(SubSeq(a, 1, i - 1)) = IF 1 <= i - 1 THEN (i - 1) - 1 + 1 ELSE 0
        BY <4>1, SubSeqProperties
      <4>. QED BY <4>2
    <3>. QED BY <3>2, <3>3
  <2>3. /\ start(i) \in Nat \ {0} /\ start(i + 1) \in Nat \ {0}
        /\ IsDecimal(At(U, start(i))) /\ n.end = start(i + 1) - 1 /\ n.value = a[i]
        /\ At(U, start(i + 1) - 1) = (IF i < 4 THEN Dot ELSE 0)
    BY <1>2
  <2>. HIDE DEF first, n
  <2>4. s \in Reading /\ s.ok = TRUE /\ s.pos = start(i) /\ s.part = first(i - 1)
    BY <2>2, <2>3 DEF ReadSoFar, Reading
  <2>. DEFINE good == /\ IsDecimal(At(U, s.pos))
                      /\ n.value \in Byte
                      /\ At(U, n.end) = (IF Len(s.part) < 3 THEN Dot ELSE 0)
  <2>. HIDE DEF s
  <2>5. IPv4Step(U)[s] = PartNext(s, n, good, n.value)
    BY <2>4 DEF IPv4Step, n
  <2>6. good = TRUE
    <3>1. n.value \in Byte
      BY <1>1, <2>3
    <3>2. Len(s.part) < 3 <=> i < 4
      BY <2>0, <2>2, <2>4
    <3>. QED BY <2>3, <2>4, <3>1, <3>2
  <2>. HIDE DEF good
  <2>7. PartNext(s, n, good, n.value) = ReadSoFar(n.end + 1, Append(s.part, n.value))
    BY <2>4, <2>6 DEF PartNext, ReadSoFar
  <2>8. n.end + 1 = start(i + 1)
    <3>1. PICK e \in Nat \ {0} : e = start(i + 1)
      BY <2>3
    <3>2. n.end + 1 = e
      BY <2>3, <3>1
    <3>. QED BY <3>1, <3>2
  <2>9. L[i] = Read(i)
    BY <2>1, <2>2, <2>3, <2>4, <2>5, <2>7, <2>8
  <2>. QED BY <2>0, <2>9
<1>6. L[4] = Read(4)
  <2>1. 4 \in Nat /\ 4 \in 0 .. 4
    OBVIOUS
  <2>2. \A i \in 0 .. 4 : i \in S
    <3>. HIDE DEF S
    <3>. QED BY <1>4, <1>5, <2>1, Induction
  <2>. HIDE DEF Read
  <2>. QED BY <2>1, <2>2
<1>7. first(4) = a
  <2>1. SubSeq(a, 1, Len(a)) = a
    BY <1>1, WholeSequence
  <2>. QED BY <1>1, <2>1
<1>8. L[4].ok = TRUE /\ L[4].part = a
  BY <1>6, <1>7 DEF ReadSoFar
<1>9. StringToIPv4(U) = IF L[4].ok THEN [kind |-> "i", type |-> "v4", part |-> L[4].part] ELSE Bad
  BY DEF StringToIPv4, ReadSoFar, L
<1>. QED BY <1>8, <1>9 DEF U

LEMMA IPv4ReadsBack ==
    ASSUME NEW a, FourBytes(a), FormatBufLen >= 16
    PROVE  /\ ReadsBack([kind |-> "i", type |-> "v4", part |-> a])
           /\ WriteArg([kind |-> "i", type |-> "v4", part |-> a]) = OctetText(a)
<1>. DEFINE v == [kind |-> "i", type |-> "v4", part |-> a]  p == OctetText(a)
<1>1. v.kind = "i" /\ v.type = "v4" /\ v.part = a /\ v \in Value
  <2>1. v.kind = "i" /\ v.type = "v4" /\ v.part = a
    OBVIOUS
  <2>2. v \in IpValues
    <3>. DEFINE W == 0 .. UInt16Size - 1
    <3>2. a \in Seq(W)
      BY FourFacts
    <3>. HIDE DEF W
    <3>3. v \in [kind : {"i"}, type : {"v4", "v6"}, part : Seq(W)]
      BY <3>2
    <3>. QED BY <3>3 DEF IpValues, W
  <2>. HIDE DEF v
  <2>. QED BY <2>1, <2>2, ValueKinds
<1>. HIDE DEF v
<1>2. p \in Seq(Byte) /\ Len(p) <= 15 /\ (\A j \in 1 .. Len(p) : Ordinary(p[j]))
      /\ \E j \in DOMAIN p : p[j] = Dot
  BY OctetFacts
<1>3. WriteArg(v) = p
  <2>1. WriteArg(v) = IpAddressToString(v, FormatBufLen)
    BY <1>1 DEF WriteArg
  <2>2. ~(Len(p) >= FormatBufLen)
    <3>1. Len(p) \in Nat
      BY <1>2
    <3>. HIDE DEF p
    <3>. QED BY <1>2, <3>1, AtTextAssumption
  <2>3. Between([i \in DOMAIN v.part |-> Decimal(v.part[i])], Dot) = p
    BY <1>1 DEF OctetText, Octets
  <2>. HIDE DEF p
  <2>4. IpAddressToString(v, FormatBufLen) = p
    BY <1>1, <2>2, <2>3 DEF IpAddressToString
  <2>. QED BY <2>1, <2>4
<1>4. OneParam(p)
  BY <1>2, OrdinaryIsParam
<1>5. ParseParam("i", p) = v
  <2>1. ParseParam("i", p) = StringToIpAddress(p)
    BY DEF ParseParam
  <2>2. StringToIpAddress(p) = StringToIPv4(p)
    BY <1>2 DEF StringToIpAddress
  <2>3. StringToIPv4(p) = [kind |-> "i", type |-> "v4", part |-> a]
    BY OctetsRead
  <2>. QED BY <2>1, <2>2, <2>3 DEF v
<1>. QED BY <1>1, <1>2, <1>3, <1>4, <1>5 DEF ReadsBack, v, p

-----------------------------------------------------------------------------
(* Brackets. *)

LEMMA BracketedFacts ==
    ASSUME NEW u \in Seq(Byte)
    PROVE  /\ Bracketed(u) \in Seq(Byte) /\ Len(Bracketed(u)) = Len(u) + 2 /\ Len(u) \in Nat
           /\ Bracketed(u)[1] = Open /\ Bracketed(u)[Len(u) + 2] = Close
           /\ \A i \in 1 .. Len(u) : Bracketed(u)[i + 1] = u[i]
<1>. DEFINE q == <<Open>>  z == <<Close>>  a == q \o u  w == a \o z
<1>1. q \in Seq(Byte) /\ Len(q) = 1 /\ q[1] = Open /\ Len(u) \in Nat
  BY DEF Byte, MaxByte, Open
<1>5. z \in Seq(Byte) /\ Len(z) = 1 /\ z[1] = Close
  BY DEF Byte, MaxByte, Close
<1>. HIDE DEF q, z
<1>2. /\ a \in Seq(Byte) /\ Len(a) = 1 + Len(u)
      /\ \A i \in 1 .. 1 + Len(u) : a[i] = IF i <= 1 THEN q[i] ELSE u[i - 1]
  <2>1. /\ q \o u \in Seq(Byte) /\ Len(q \o u) = Len(q) + Len(u)
        /\ \A i \in 1 .. Len(q) + Len(u) :
               (q \o u)[i] = IF i <= Len(q) THEN q[i] ELSE u[i - Len(q)]
    BY <1>1, ConcatProperties
  <2>. QED BY <1>1, <2>1
<1>. HIDE DEF a
<1>3. /\ w \in Seq(Byte) /\ Len(w) = Len(u) + 2
      /\ \A i \in 1 .. Len(u) + 2 : w[i] = IF i <= 1 + Len(u) THEN a[i] ELSE z[i - (1 + Len(u))]
  <2>1. /\ a \o z \in Seq(Byte) /\ Len(a \o z) = Len(a) + Len(z)
        /\ \A i \in 1 .. Len(a) + Len(z) :
               (a \o z)[i] = IF i <= Len(a) THEN a[i] ELSE z[i - Len(a)]
    BY <1>2, <1>5, ConcatProperties
  <2>. QED BY <1>1, <1>2, <1>5, <2>1
<1>. HIDE DEF w
<1>4. w[1] = Open /\ w[Len(u) + 2] = Close /\ \A i \in 1 .. Len(u) : w[i + 1] = u[i]
  <2>0. PICK l \in Nat : l = Len(u)
    BY <1>1
  <2>1. w[1] = Open
    <3>1. 1 \in 1 .. l + 2 /\ 1 <= 1 + l /\ 1 \in 1 .. 1 + l
      OBVIOUS
    <3>. QED BY <1>1, <1>2, <1>3, <2>0, <3>1
  <2>2. w[Len(u) + 2] = Close
    <3>1. l + 2 \in 1 .. l + 2 /\ ~(l + 2 <= 1 + l) /\ (l + 2) - (1 + l) = 1
      OBVIOUS
    <3>. QED BY <1>3, <1>5, <2>0, <3>1
  <2>3. ASSUME NEW i \in 1 .. Len(u) PROVE w[i + 1] = u[i]
    <3>1. /\ i + 1 \in 1 .. l + 2 /\ i + 1 <= 1 + l /\ i + 1 \in 1 .. 1 + l
          /\ ~(i + 1 <= 1) /\ (i + 1) - 1 = i
      BY <2>0
    <3>. QED BY <1>2, <1>3, <2>0, <3>1
  <2>. QED BY <2>1, <2>2, <2>3
<1>6. Bracketed(u) = w
  BY DEF Bracketed, w, a, q, z
<1>. QED BY <1>1, <1>3, <1>4, <1>6

\* Characters that leave the scan between brackets
Inner(c) == c # Close /\ c # Quote /\ c # Backslash

InBrackets(p, i) == ScanOf(p)[i] = Scanned(i + 1, FALSE, FALSE, TRUE)

LEMMA BracketedIsParam ==
    ASSUME NEW u \in Seq(Byte), \A i \in 1 .. Len(u) : Inner(u[i])
    PROVE  OneParam(Bracketed(u))
<1>. DEFINE p == Bracketed(u)  m == Len(u)  N == Len(p)
            S == {k \in Nat : InBrackets(p, k + 1)}
<1>1. /\ p \in Seq(Byte) /\ N = m + 2 /\ m \in Nat /\ p[1] = Open /\ p[m + 2] = Close
      /\ \A i \in 1 .. m : p[i + 1] = u[i]
  BY BracketedFacts
<1>. HIDE DEF p, N, m
<1>0. Open # Backslash /\ Open # Quote /\ Open # Comma /\ Close # Backslash /\ Close # Quote
      /\ Close # Comma /\ Close # Open
  BY DEF Open, Backslash, Quote, Comma, Close
<1>2. ScanOf(p)[0] = Scanned(1, FALSE, FALSE, FALSE)
  BY <1>1, ScanOfFacts
<1>3. 0 \in S
  <2>. DEFINE c == p[1]  g == ~FALSE /\ c = Backslash
              h == IF FALSE \/ c = Backslash THEN FALSE ELSE IF FALSE THEN c # Quote ELSE c = Quote
              b == IF FALSE \/ c = Backslash \/ FALSE THEN FALSE
                   ELSE c = Open \/ (FALSE /\ c # Close)
  <2>1. 1 \in 1 .. Len(p) /\ 1 - 1 = 0 /\ 1 + 1 = 2 /\ 0 + 1 = 1
    BY <1>1 DEF N
  <2>2. ScanOf(p)[1] = Scanned(1 + 1, g, h, b)
    <3>1. p[1] = Comma => FALSE \/ FALSE \/ FALSE
      BY <1>0, <1>1
    <3>2. ScanOf(p)[1 - 1] = Scanned(1, FALSE, FALSE, FALSE)
      BY <1>2, <2>1
    <3>. QED BY <1>1, <2>1, <3>1, <3>2, ScanOne
  <2>. HIDE DEF c
  <2>3. g = FALSE /\ h = FALSE /\ b = TRUE
    BY <1>0, <1>1 DEF c
  <2>. HIDE DEF g, h, b
  <2>. QED BY <2>1, <2>2, <2>3 DEF InBrackets
<1>4. ASSUME NEW k \in 1 .. m, k - 1 \in S PROVE k \in S
  <2>. DEFINE i == k + 1  c == p[i]  g == ~FALSE /\ c = Backslash
              h == IF FALSE \/ c = Backslash THEN FALSE ELSE IF FALSE THEN c # Quote ELSE c = Quote
              b == IF FALSE \/ c = Backslash \/ FALSE THEN TRUE
                   ELSE c = Open \/ (TRUE /\ c # Close)
  <2>1. k \in Nat /\ i \in 1 .. Len(p) /\ i - 1 = k /\ (k - 1) + 1 = k /\ k + 1 = i
    BY <1>1 DEF N
  <2>2. Inner(c)
    <3>1. p[k + 1] = u[k] /\ Inner(u[k])
      BY <1>1 DEF m
    <3>. QED BY <3>1
  <2>3. ScanOf(p)[i - 1] = Scanned(i, FALSE, FALSE, TRUE)
    BY <1>4, <2>1 DEF InBrackets
  <2>. HIDE DEF i
  <2>4. ScanOf(p)[i] = Scanned(i + 1, g, h, b)
    <3>1. (p[i] = Comma => FALSE \/ FALSE \/ TRUE) /\ p \in Seq(Byte) /\ i \in 1 .. Len(p)
      BY <1>1, <2>1
    <3>. QED BY <2>3, <3>1, ScanOne
  <2>. HIDE DEF c
  <2>5. g = FALSE /\ h = FALSE /\ b = TRUE
    BY <2>2 DEF Inner
  <2>. HIDE DEF g, h, b
  <2>6. InBrackets(p, k + 1)
    BY <2>1, <2>4, <2>5 DEF InBrackets
  <2>. QED BY <2>1, <2>6
<1>5. \A k \in 0 .. m : InBrackets(p, k + 1)
  <2>1. \A k \in 0 .. m : k \in S
    <3>. HIDE DEF S
    <3>. QED BY <1>1, <1>3, <1>4, Induction
  <2>. QED BY <2>1
<1>6. ScanOf(p)[N] = Scanned(N + 1, FALSE, FALSE, FALSE)
  <2>. DEFINE c == p[N]  g == ~FALSE /\ c = Backslash
              h == IF FALSE \/ c = Backslash THEN FALSE ELSE IF FALSE THEN c # Quote ELSE c = Quote
              b == IF FALSE \/ c = Backslash \/ FALSE THEN TRUE
                   ELSE c = Open \/ (TRUE /\ c # Close)
  <2>1. N \in 1 .. Len(p) /\ N - 1 = m + 1 /\ m \in 0 .. m /\ (m + 1) + 1 = N
    BY <1>1 DEF N
  <2>2. ScanOf(p)[N - 1] = Scanned(N, FALSE, FALSE, TRUE)
    <3>1. InBrackets(p, m + 1)
      BY <1>5, <2>1
    <3>. QED BY <2>1, <3>1 DEF InBrackets
  <2>3. c = Close
    BY <1>1
  <2>4. ScanOf(p)[N] = Scanned(N + 1, g, h, b)
    <3>1. (p[N] = Comma => FALSE \/ FALSE \/ TRUE) /\ p \in Seq(Byte) /\ N \in 1 .. Len(p)
      BY <1>1, <2>1
    <3>. QED BY <2>2, <3>1, ScanOne
  <2>. HIDE DEF c
  <2>5. g = FALSE /\ h = FALSE /\ b = FALSE
    BY <1>0, <2>3
  <2>. HIDE DEF g, h, b
  <2>. QED BY <2>4, <2>5
<1>7. \A i \in 0 .. N : ScansTo(p, i)
  <2>. TAKE i \in 0 .. N
  <2>1. i \in Nat /\ N \in Nat
    BY <1>1
  <2>2. CASE i = 0
    <3>1. ScanOf(p)[0] = Scanned(0 + 1, FALSE, FALSE, FALSE)
      BY <1>2
    <3>. QED BY <2>2, <3>1, ScannedBehind
  <2>3. CASE i = N
    BY <1>6, <2>1, <2>3, ScannedBehind
  <2>4. CASE i # 0 /\ i # N
    <3>1. i - 1 \in 0 .. m /\ (i - 1) + 1 = i
      BY <1>1, <2>1, <2>4
    <3>2. InBrackets(p, i)
      BY <1>5, <3>1
    <3>. QED BY <2>1, <3>2, ScannedBehind DEF InBrackets
  <2>. QED BY <2>2, <2>3, <2>4
<1>. QED BY <1>6, <1>7 DEF OneParam, ScansTo, N, p

IsBracketed(parts, separator, i, T) ==
    /\ T \in Seq(Byte) /\ Len(T) \in Nat /\ T[1] = Open /\ T[Len(T)] = Close
    /\ PartStart(parts, separator, 1) = 1
    /\ PartStart(parts, separator, i) \in Nat \ {0}
    /\ PartStart(parts, separator, i + 1) = PartStart(parts, separator, i) + Len(parts[i]) + 1
    /\ PartStart(parts, separator, i + 1) \in 2 .. Len(T)
    /\ Stands(T, PartStart(parts, separator, i) + 1, parts[i])
    /\ T[PartStart(parts, separator, i + 1)] = IF i < Len(parts) THEN separator ELSE Close
    /\ PartStart(parts, separator, Len(parts) + 1) = Len(T)

LEMMA BracketedParts ==
    ASSUME NEW parts \in Seq(Seq(Byte)), NEW separator \in Byte, NEW i \in 1 .. Len(parts)
    PROVE  IsBracketed(parts, separator, i, Bracketed(Between(parts, separator)))
<1>. DEFINE u == Between(parts, separator)  T == Bracketed(u)  N == Len(u)  n == Len(parts)
            from == PartStart(parts, separator, i)  next == PartStart(parts, separator, i + 1)
            w == parts[i]
<1>1. /\ u \in Seq(Byte) /\ PartStart(parts, separator, 1) = 1
      /\ from \in Nat \ {0} /\ next = from + Len(w) + 1 /\ next <= N + 2
      /\ Stands(u, from, w)
      /\ i < n => next - 1 <= N /\ u[next - 1] = separator
      /\ PartStart(parts, separator, n + 1) = N + 2
  BY BetweenParts
<1>2. w \in Seq(Byte) /\ Len(w) \in Nat /\ i \in Nat /\ n \in Nat /\ i <= n
  OBVIOUS
<1>. HIDE DEF u, w, from, next, n
<1>3. /\ T \in Seq(Byte) /\ Len(T) = N + 2 /\ N \in Nat /\ T[1] = Open /\ T[N + 2] = Close
      /\ \A j \in 1 .. N : T[j + 1] = u[j]
  BY <1>1, BracketedFacts
<1>. HIDE DEF T, N
<1>4. PICK l \in Nat : l = Len(w)
  BY <1>2
<1>5. next \in 2 .. N + 2
  <2>1. next = from + l + 1
    BY <1>1, <1>4
  <2>. QED BY <1>1, <1>3, <2>1
<1>6. Stands(T, from + 1, w)
  <2>1. ASSUME NEW j \in 1 .. Len(w) PROVE T[from + 1 + j - 1] = w[j]
    <3>1. from + j - 1 \in 1 .. N /\ from + 1 + j - 1 = (from + j - 1) + 1
      <4>1. j \in 1 .. l /\ from + l + 1 <= N + 2
        BY <1>1, <1>4
      <4>. QED BY <1>1, <1>3, <4>1
    <3>2. u[from + j - 1] = w[j]
      BY <1>1 DEF Stands
    <3>. QED BY <1>3, <3>1, <3>2
  <2>. QED BY <2>1 DEF Stands
<1>7. T[next] = IF i < n THEN separator ELSE Close
  <2>1. CASE i < n
    <3>1. next - 1 \in 1 .. N /\ (next - 1) + 1 = next
      BY <1>1, <1>3, <1>5, <2>1
    <3>2. T[(next - 1) + 1] = u[next - 1]
      BY <1>3, <3>1
    <3>. QED BY <1>1, <2>1, <3>1, <3>2
  <2>2. CASE ~(i < n)
    <3>1. i = n
      BY <1>2, <2>2
    <3>2. next = N + 2
      BY <1>1, <3>1 DEF next
    <3>. QED BY <1>3, <2>2, <3>2
  <2>. QED BY <2>1, <2>2
<1>8. T[Len(T)] = Close /\ Len(T) \in Nat
  BY <1>3
<1>. QED BY <1>1, <1>3, <1>5, <1>6, <1>7, <1>8 DEF IsBracketed, T, u, from, next, w, n

-----------------------------------------------------------------------------
(* Groups of four hex digits. *)

LowerHex(n) == IF NibbleToHex(n) >= UpperA THEN NibbleToHex(n) + 32 ELSE NibbleToHex(n)
Nibbles(g) == <<(g \div 256) \div 16, (g \div 256) % 16, (g % 256) \div 16, (g % 256) % 16>>
UpperGroup(g) == ByteToHex(g \div 256) \o ByteToHex(g % 256)
GroupText(g) ==
    [i \in DOMAIN UpperGroup(g) |->
        IF UpperGroup(g)[i] >= UpperA THEN UpperGroup(g)[i] + 32 ELSE UpperGroup(g)[i]]

LEMMA LowerHexFacts ==
    ASSUME NEW n \in 0 .. 15
    PROVE  /\ LowerHex(n) \in 48 .. 57 \cup 97 .. 102
           /\ HexToNibble(LowerHex(n)) = n
<1>1. CASE n < 10
  <2>1. LowerHex(n) = 48 + n
    BY <1>1 DEF LowerHex, NibbleToHex, Zero, UpperA
  <2>2. 48 + n \in 48 .. 57
    BY <1>1
  <2>3. HexToNibble(48 + n) = n
    BY <2>2 DEF HexToNibble, Zero, LowerA, UpperA
  <2>. QED BY <2>1, <2>2, <2>3
<1>2. CASE n >= 10
  <2>1. LowerHex(n) = 87 + n
    BY <1>2 DEF LowerHex, NibbleToHex, Zero, UpperA
  <2>2. 87 + n \in 97 .. 102
    BY <1>2
  <2>3. HexToNibble(87 + n) = n
    BY <2>2 DEF HexToNibble, Zero, LowerA, UpperA
  <2>. QED BY <2>1, <2>2, <2>3
<1>. QED BY <1>1, <1>2

UInt16 == 0 .. UInt16Size - 1

LEMMA NibbleFactsOf ==
    ASSUME NEW g \in UInt16
    PROVE  /\ g \div 256 \in Byte /\ g % 256 \in Byte /\ g = (g \div 256) * 256 + (g % 256)
           /\ \A i \in 1 .. 4 : Nibbles(g)[i] \in 0 .. 15
           /\ ((Nibbles(g)[1] * 16 + Nibbles(g)[2]) * 16 + Nibbles(g)[3]) * 16 + Nibbles(g)[4] = g
<1>1. PICK a, b : a = g \div 256 /\ b = g % 256
  OBVIOUS
<1>2. g \in Nat /\ g < 256 * 256
  <2>1. PICK size \in Nat : size = UInt16Size /\ size <= 256 * 256
    BY DEF UInt16Size
  <2>2. g \in 0 .. size - 1
    BY <2>1 DEF UInt16
  <2>3. g \in Nat /\ g < size
    BY <2>2
  <2>. QED BY <2>1, <2>3
<1>3. a \in 0 .. 255 /\ b \in 0 .. 255 /\ g = a * 256 + b
  BY <1>1, <1>2
<1>4. PICK n1, n2, n3, n4 : n1 = a \div 16 /\ n2 = a % 16 /\ n3 = b \div 16 /\ n4 = b % 16
  OBVIOUS
<1>5. n1 \in 0 .. 15 /\ n2 \in 0 .. 15 /\ n3 \in 0 .. 15 /\ n4 \in 0 .. 15
      /\ a = n1 * 16 + n2 /\ b = n3 * 16 + n4
  BY <1>3, <1>4
<1>6. ((n1 * 16 + n2) * 16 + n3) * 16 + n4 = g
  BY <1>3, <1>5
<1>7. Nibbles(g) = <<n1, n2, n3, n4>>
  BY <1>1, <1>4 DEF Nibbles
<1>8. /\ Nibbles(g)[1] = n1 /\ Nibbles(g)[2] = n2 /\ Nibbles(g)[3] = n3 /\ Nibbles(g)[4] = n4
  BY <1>7
<1>9. \A i \in 1 .. 4 : i = 1 \/ i = 2 \/ i = 3 \/ i = 4
  OBVIOUS
<1>10. \A i \in 1 .. 4 : Nibbles(g)[i] \in 0 .. 15
  BY <1>5, <1>8, <1>9
<1>11. g \div 256 \in Byte /\ g % 256 \in Byte
  BY <1>1, <1>3 DEF Byte, MaxByte
<1>. QED BY <1>1, <1>3, <1>6, <1>8, <1>10, <1>11

LEMMA GroupFacts ==
    ASSUME NEW g \in UInt16
    PROVE  /\ GroupText(g) \in Seq(Byte) /\ Len(GroupText(g)) = 4
           /\ \A i \in 1 .. 4 : GroupText(g)[i] = LowerHex(Nibbles(g)[i])
           /\ \A i \in 1 .. 4 : GroupText(g)[i] \in 48 .. 57 \cup 97 .. 102
<1>1. PICK a, b : a = g \div 256 /\ b = g % 256
  OBVIOUS
<1>2. a \in Byte /\ b \in Byte /\ \A i \in 1 .. 4 : Nibbles(g)[i] \in 0 .. 15
  BY <1>1, NibbleFactsOf
<1>. DEFINE x == ByteToHex(a)  y == ByteToHex(b)  u == UpperGroup(g)
<1>3. x \in Seq(Byte) /\ Len(x) = 2 /\ y \in Seq(Byte) /\ Len(y) = 2
  BY <1>2, HexFacts
<1>4. /\ x[1] = NibbleToHex(Nibbles(g)[1]) /\ x[2] = NibbleToHex(Nibbles(g)[2])
      /\ y[1] = NibbleToHex(Nibbles(g)[3]) /\ y[2] = NibbleToHex(Nibbles(g)[4])
  BY <1>1 DEF ByteToHex, Nibbles
<1>5. u = x \o y
  BY <1>1 DEF UpperGroup
<1>. HIDE DEF x, y, u
<1>6. /\ u \in Seq(Byte) /\ Len(u) = 4
      /\ u[1] = x[1] /\ u[2] = x[2] /\ u[3] = y[1] /\ u[4] = y[2]
  <2>1. /\ x \o y \in Seq(Byte) /\ Len(x \o y) = Len(x) + Len(y)
        /\ \A k \in 1 .. Len(x) + Len(y) :
               (x \o y)[k] = IF k <= Len(x) THEN x[k] ELSE y[k - Len(x)]
    BY <1>3, ConcatProperties
  <2>2. /\ u \in Seq(Byte) /\ Len(u) = 4
        /\ \A k \in 1 .. 4 : u[k] = IF k <= 2 THEN x[k] ELSE y[k - 2]
    BY <1>3, <1>5, <2>1
  <2>. QED BY <2>2
<1>7. \A i \in 1 .. 4 : u[i] = NibbleToHex(Nibbles(g)[i])
  <2>1. \A i \in 1 .. 4 : i = 1 \/ i = 2 \/ i = 3 \/ i = 4
    OBVIOUS
  <2>. QED BY <1>4, <1>6, <2>1
<1>8. DOMAIN u = 1 .. 4
  BY <1>6
<1>9. GroupText(g) = [i \in 1 .. 4 |-> IF u[i] >= UpperA THEN u[i] + 32 ELSE u[i]]
  BY <1>8 DEF GroupText, u
<1>10. \A i \in 1 .. 4 : GroupText(g)[i] = LowerHex(Nibbles(g)[i])
  BY <1>7, <1>9 DEF LowerHex
<1>11. \A i \in 1 .. 4 : GroupText(g)[i] \in 48 .. 57 \cup 97 .. 102
  BY <1>2, <1>10, LowerHexFacts
<1>12. GroupText(g) \in Seq(Byte) /\ Len(GroupText(g)) = 4
  <2>. DEFINE G == GroupText(g)
  <2>1. \A i \in 1 .. 4 : G[i] \in Byte
    BY <1>11 DEF Byte, MaxByte
  <2>2. G = [i \in 1 .. 4 |-> G[i]]
    BY <1>9
  <2>. HIDE DEF G
  <2>3. G \in [1 .. 4 -> Byte]
    BY <2>1, <2>2
  <2>4. \E n \in Nat : G \in [1 .. n -> Byte]
    BY <2>3
  <2>5. G \in Seq(Byte)
    BY <2>4
  <2>6. Len(G) = 4
    BY <2>3, <2>5, LenProperties
  <2>. QED BY <2>5, <2>6 DEF G
<1>. QED BY <1>10, <1>11, <1>12

LEMMA GroupRead ==
    ASSUME NEW g \in UInt16, NEW t \in Seq(Byte), NEW from \in Nat \ {0}, NEW end,
           end = from + 4, end <= Len(t) + 1, Stands(t, from, GroupText(g)),
           ~IsDigit(At(t, end), 16)
    PROVE  Strtol(t, from, 16).end = end /\ Strtol(t, from, 16).value = g
<1>1. /\ Len(GroupText(g)) = 4 /\ \A i \in 1 .. 4 : GroupText(g)[i] = LowerHex(Nibbles(g)[i])
      /\ \A i \in 1 .. 4 : GroupText(g)[i] \in 48 .. 57 \cup 97 .. 102
  BY GroupFacts
<1>2. PICK n1, n2, n3, n4 : n1 = Nibbles(g)[1] /\ n2 = Nibbles(g)[2] /\ n3 = Nibbles(g)[3]
                              /\ n4 = Nibbles(g)[4]
  OBVIOUS
<1>3. /\ n1 \in 0 .. 15 /\ n2 \in 0 .. 15 /\ n3 \in 0 .. 15 /\ n4 \in 0 .. 15
      /\ ((n1 * 16 + n2) * 16 + n3) * 16 + n4 = g
  BY <1>2, NibbleFactsOf
<1>4. /\ t[from] = LowerHex(n1) /\ t[from + 1] = LowerHex(n2)
      /\ t[from + 2] = LowerHex(n3) /\ t[from + 3] = LowerHex(n4)
  <2>1. \A i \in 1 .. 4 : t[from + i - 1] = LowerHex(Nibbles(g)[i])
    BY <1>1 DEF Stands
  <2>2. /\ from + 1 - 1 = from /\ from + 2 - 1 = from + 1
        /\ from + 3 - 1 = from + 2 /\ from + 4 - 1 = from + 3
    OBVIOUS
  <2>3. t[from + 1 - 1] = LowerHex(n1) /\ t[from + 2 - 1] = LowerHex(n2)
        /\ t[from + 3 - 1] = LowerHex(n3) /\ t[from + 4 - 1] = LowerHex(n4)
    BY <1>2, <2>1
  <2>. QED BY <2>2, <2>3
<1>5. /\ HexToNibble(t[from]) = n1 /\ HexToNibble(t[from + 1]) = n2
      /\ HexToNibble(t[from + 2]) = n3 /\ HexToNibble(t[from + 3]) = n4
  BY <1>3, <1>4, LowerHexFacts
<1>10. t[from + 1] \in 48 .. 57 \cup 97 .. 102
  BY <1>3, <1>4, LowerHexFacts
<1>. DEFINE f == [i \in 0 .. 4 |-> CASE i = 0 -> 0 [] i = 1 -> n1 [] i = 2 -> n1 * 16 + n2
                                     [] i = 3 -> (n1 * 16 + n2) * 16 + n3 [] i = 4 -> g]
<1>6. f[0] = 0 /\ f[1] = n1 /\ f[2] = n1 * 16 + n2 /\ f[3] = (n1 * 16 + n2) * 16 + n3 /\ f[4] = g
  OBVIOUS
<1>. HIDE DEF f
<1>7. DigitsFrom(t, from, 4, 16)
  <2>1. ASSUME NEW j \in from .. from + 4 - 1 PROVE IsDigit(t[j], 16)
    <3>1. j = from \/ j = from + 1 \/ j = from + 2 \/ j = from + 3
      OBVIOUS
    <3>2. HexToNibble(t[j]) \in {n1, n2, n3, n4}
      BY <1>5, <3>1
    <3>3. {n1, n2, n3, n4} \subseteq 0 .. 16 - 1
      BY <1>3
    <3>. QED BY <3>2, <3>3 DEF IsDigit
  <2>. QED BY <2>1 DEF DigitsFrom
<1>8. Counts(f, t, from, 4, 16)
  <2>2. /\ f[1] \in Nat /\ f[1] = f[0] * 16 + n1 /\ f[2] \in Nat /\ f[2] = f[1] * 16 + n2
        /\ f[3] \in Nat /\ f[3] = f[2] * 16 + n3 /\ f[4] \in Nat /\ f[4] = f[3] * 16 + n4
    <3>1. f[1] \in Nat /\ f[1] = f[0] * 16 + n1 /\ f[2] \in Nat /\ f[2] = f[1] * 16 + n2
      BY <1>3, <1>6
    <3>2. f[3] \in Nat /\ f[3] = f[2] * 16 + n3 /\ f[4] \in Nat /\ f[4] = f[3] * 16 + n4
      BY <1>3, <1>6
    <3>. QED BY <3>1, <3>2
  <2>1. ASSUME NEW i \in 1 .. 4
        PROVE  f[i] \in Nat /\ f[i] = f[i - 1] * 16 + HexToNibble(t[from + i - 1])
    <3>1. CASE i = 1
      <4>1. i - 1 = 0 /\ from + i - 1 = from
        BY <3>1
      <4>. QED BY <1>5, <2>2, <3>1, <4>1
    <3>2. CASE i = 2
      <4>1. i - 1 = 1 /\ from + i - 1 = from + 1
        BY <3>2
      <4>. QED BY <1>5, <2>2, <3>2, <4>1
    <3>3. CASE i = 3
      <4>1. i - 1 = 2 /\ from + i - 1 = from + 2
        BY <3>3
      <4>. QED BY <1>5, <2>2, <3>3, <4>1
    <3>4. CASE i = 4
      <4>1. i - 1 = 3 /\ from + i - 1 = from + 3
        BY <3>4
      <4>. QED BY <1>5, <2>2, <3>4, <4>1
    <3>. QED BY <3>1, <3>2, <3>3, <3>4
  <2>. QED BY <1>6, <2>1 DEF Counts
<1>9. At(t, from + 1) \notin {LowerX, LowerX - 32}
  <2>1. from + 1 \in 1 .. Len(t)
    OBVIOUS
  <2>2. At(t, from + 1) = t[from + 1]
    BY <2>1, AtInside
  <2>3. LowerX \notin 48 .. 57 \cup 97 .. 102 /\ LowerX - 32 \notin 48 .. 57 \cup 97 .. 102
    BY DEF LowerX
  <2>. QED BY <1>10, <2>2, <2>3
<1>. QED BY <1>6, <1>7, <1>8, <1>9, StrtolIs

-----------------------------------------------------------------------------
(* IPv6 addresses. *)

EightGroups(a) == a \in Seq(UInt16) /\ Len(a) = 8

Groups(a) == [i \in DOMAIN a |-> GroupText(a[i])]
GroupsText(a) == Bracketed(Between(Groups(a), Colon))
GroupStart(a, i) == PartStart(Groups(a), Colon, i) + 1

LEMMA EightFacts ==
    ASSUME NEW a, EightGroups(a)
    PROVE  /\ a \in Seq(UInt16) /\ Len(a) = 8 /\ a \in Seq(Nat)
           /\ \A i \in 1 .. 8 : a[i] \in UInt16 /\ a[i] \in Nat
<1>1. a \in Seq(UInt16)
  BY DEF EightGroups
<1>2. Len(a) = 8
  BY DEF EightGroups
<1>3. \A i \in 1 .. Len(a) : a[i] \in UInt16
  BY <1>1
<1>4. UInt16 \subseteq Nat
  BY DEF UInt16
<1>5. a \in Seq(Nat)
  BY <1>1, <1>4, InLargerSet
<1>6. \A i \in 1 .. 8 : a[i] \in UInt16 /\ a[i] \in Nat
  BY <1>2, <1>3, <1>4
<1>. QED BY <1>1, <1>2, <1>5, <1>6

LEMMA GroupsFacts ==
    ASSUME NEW a, EightGroups(a)
    PROVE  /\ GroupsText(a) \in Seq(Byte) /\ Len(GroupsText(a)) = 41 /\ OneParam(GroupsText(a))
           /\ GroupsText(a)[1] = Open
           /\ \A j \in 1 .. Len(GroupsText(a)) : GroupsText(a)[j] # Dot
           /\ GroupStart(a, 1) = 2
           /\ \A i \in 1 .. 8 :
                  /\ GroupStart(a, i) \in Nat \ {0}
                  /\ GroupStart(a, i) + 4 <= 41
                  /\ GroupStart(a, i + 1) = GroupStart(a, i) + 5
                  /\ Strtol(GroupsText(a), GroupStart(a, i), 16).end = GroupStart(a, i) + 4
                  /\ Strtol(GroupsText(a), GroupStart(a, i), 16).value = a[i]
                  /\ GroupsText(a)[GroupStart(a, i) + 4] = IF i < 8 THEN Colon ELSE Close
                  /\ GroupsText(a)[GroupStart(a, i)] # 0
           /\ GroupStart(a, 8) + 4 = 41
<1>. DEFINE G == Groups(a)  T == GroupsText(a)  u == Between(G, Colon)
            start(i) == GroupStart(a, i)  A == 48 .. 57 \cup 97 .. 102 \cup {Colon}
<1>1. Len(a) = 8 /\ \A i \in 1 .. 8 : a[i] \in UInt16
  BY EightFacts
<1>2. \A i \in 1 .. 8 : /\ GroupText(a[i]) \in Seq(Byte) /\ Len(GroupText(a[i])) = 4
                        /\ \A j \in 1 .. 4 : GroupText(a[i])[j] \in 48 .. 57 \cup 97 .. 102
  BY <1>1, GroupFacts
<1>3. \A i \in 1 .. 8 : GroupText(a[i]) \in Seq(A)
  <2>. TAKE i \in 1 .. 8
  <2>. DEFINE w == GroupText(a[i])
  <2>1. w \in Seq(Byte) /\ Len(w) = 4 /\ \A j \in 1 .. 4 : w[j] \in A
    BY <1>2
  <2>. HIDE DEF w, A
  <2>3. w \in Seq(A)
    <3>1. w \in [1 .. 4 -> A]
      BY <2>1
    <3>2. \E n \in Nat : w \in [1 .. n -> A]
      BY <3>1
    <3>. QED BY <3>2
  <2>. QED BY <2>3 DEF w
<1>4. G \in Seq(Seq(Byte)) /\ G \in Seq(Seq(A)) /\ Len(G) = 8
      /\ \A i \in 1 .. 8 : G[i] = GroupText(a[i])
  <2>1. G = [i \in 1 .. 8 |-> GroupText(a[i])]
    <3>1. DOMAIN a = 1 .. 8
      BY EightFacts
    <3>. QED BY <3>1 DEF Groups
  <2>. HIDE DEF G, A
  <2>2. G \in [1 .. 8 -> Seq(Byte)] /\ G \in [1 .. 8 -> Seq(A)]
    BY <1>2, <1>3, <2>1
  <2>3. G \in Seq(Seq(Byte))
    <3>1. \E n \in Nat : G \in [1 .. n -> Seq(Byte)]
      BY <2>2
    <3>. QED BY <3>1
  <2>4. G \in Seq(Seq(A))
    <3>1. \E n \in Nat : G \in [1 .. n -> Seq(A)]
      BY <2>2
    <3>. QED BY <3>1
  <2>5. Len(G) = 8
    BY <2>2, <2>3, LenProperties
  <2>. QED BY <2>1, <2>3, <2>4, <2>5
<1>5. Colon \in Byte /\ Colon \in A
  BY DEF Byte, MaxByte, Colon
<1>6. u \in Seq(Byte) /\ u \in Seq(A)
  <2>. HIDE DEF G, A
  <2>1. Between(G, Colon) \in Seq(Byte)
    BY <1>4, <1>5, SeparatedFacts
  <2>2. Between(G, Colon) \in Seq(A)
    BY <1>4, <1>5, SeparatedFacts
  <2>. QED BY <2>1, <2>2
<1>7. \A j \in 1 .. Len(u) : u[j] \in A
  <2>. HIDE DEF u, A
  <2>. QED BY <1>6
<1>8. T = Bracketed(u)
  BY DEF GroupsText
<1>. HIDE DEF T
<1>9. OneParam(T)
  <2>1. \A j \in 1 .. Len(u) : Inner(u[j])
    <3>1. \A c \in A : Inner(c)
      BY DEF Inner, Colon, Close, Quote, Backslash
    <3>. HIDE DEF u, A
    <3>. QED BY <1>7, <3>1
  <2>. HIDE DEF u
  <2>. QED BY <1>6, <1>8, <2>1, BracketedIsParam
<1>10. T \in Seq(Byte) /\ Len(T) = Len(u) + 2 /\ Len(u) \in Nat /\ T[1] = Open
       /\ T[Len(u) + 2] = Close /\ \A i \in 1 .. Len(u) : T[i + 1] = u[i]
  <2>. HIDE DEF u
  <2>. QED BY <1>6, <1>8, BracketedFacts
<1>11. \A j \in 1 .. Len(T) : T[j] # Dot
  <2>. TAKE j \in 1 .. Len(T)
  <2>0. Open # Dot /\ Close # Dot /\ \A c \in A : c # Dot
    BY DEF Open, Close, Dot, Colon
  <2>. HIDE DEF u, A
  <2>1. j = 1 \/ j = Len(u) + 2 \/ (j - 1 \in 1 .. Len(u) /\ (j - 1) + 1 = j)
    BY <1>10
  <2>2. CASE j - 1 \in 1 .. Len(u) /\ (j - 1) + 1 = j
    <3>1. T[(j - 1) + 1] = u[j - 1] /\ u[j - 1] \in A
      BY <1>7, <1>10, <2>2
    <3>. QED BY <2>0, <2>2, <3>1
  <2>. QED BY <1>10, <2>0, <2>1, <2>2
<1>12. ASSUME NEW i \in 1 .. 8
       PROVE  /\ start(1) = 2 /\ start(8 + 1) = Len(T) + 1
              /\ start(i) \in Nat \ {0} /\ start(i + 1) = start(i) + 5
              /\ start(i) + 4 <= Len(T) /\ Stands(T, start(i), GroupText(a[i]))
              /\ T[start(i) + 4] = IF i < 8 THEN Colon ELSE Close
  <2>0. i \in 1 .. Len(G)
    BY <1>4
  <2>1. IsBracketed(G, Colon, i, T)
    <3>. HIDE DEF G
    <3>. QED BY <1>4, <1>5, <1>8, <2>0, BracketedParts
  <2>. DEFINE s == PartStart(G, Colon, i)  e == PartStart(G, Colon, i + 1)
  <2>2. /\ PartStart(G, Colon, 1) = 1 /\ s \in Nat \ {0} /\ e = s + Len(G[i]) + 1
        /\ e \in 2 .. Len(T) /\ Stands(T, s + 1, G[i])
        /\ T[e] = (IF i < Len(G) THEN Colon ELSE Close)
        /\ PartStart(G, Colon, Len(G) + 1) = Len(T)
    BY <2>1 DEF IsBracketed
  <2>3. Len(G[i]) = 4 /\ G[i] = GroupText(a[i]) /\ Len(G) = 8
    BY <1>2, <1>4
  <2>4. start(i) = s + 1 /\ start(i + 1) = e + 1 /\ start(1) = PartStart(G, Colon, 1) + 1
        /\ start(8 + 1) = PartStart(G, Colon, 8 + 1) + 1
    BY DEF GroupStart
  <2>. HIDE DEF G, s, e, start
  <2>5. e = s + 5
    BY <2>2, <2>3
  <2>6. start(i) + 4 = e /\ start(i + 1) = start(i) + 5 /\ start(i) \in Nat \ {0}
    BY <2>2, <2>4, <2>5
  <2>7. start(1) = 2 /\ start(8 + 1) = Len(T) + 1
    BY <2>2, <2>3, <2>4
  <2>8. start(i) + 4 <= Len(T) /\ T[start(i) + 4] = IF i < 8 THEN Colon ELSE Close
    BY <2>2, <2>3, <2>6
  <2>9. Stands(T, start(i), GroupText(a[i]))
    BY <2>2, <2>3, <2>4
  <2>. QED BY <2>6, <2>7, <2>8, <2>9
<1>. HIDE DEF start, u, G, A
<1>13. Len(T) = 41 /\ start(8) + 4 = 41
  <2>1. /\ 1 + 1 = 2 /\ 2 + 1 = 3 /\ 3 + 1 = 4 /\ 4 + 1 = 5 /\ 5 + 1 = 6 /\ 6 + 1 = 7 /\ 7 + 1 = 8
        /\ 8 + 1 = 9
    OBVIOUS
  <2>2. start(1) = 2 /\ start(1 + 1) = start(1) + 5
    BY <1>12
  <2>3. start(2) = 7 /\ start(2 + 1) = start(2) + 5
    BY <1>12, <2>1, <2>2
  <2>4. start(3) = 12 /\ start(3 + 1) = start(3) + 5
    BY <1>12, <2>1, <2>3
  <2>5. start(4) = 17 /\ start(4 + 1) = start(4) + 5
    BY <1>12, <2>1, <2>4
  <2>6. start(5) = 22 /\ start(5 + 1) = start(5) + 5
    BY <1>12, <2>1, <2>5
  <2>7. start(6) = 27 /\ start(6 + 1) = start(6) + 5
    BY <1>12, <2>1, <2>6
  <2>8. start(7) = 32 /\ start(7 + 1) = start(7) + 5
    BY <1>12, <2>1, <2>7
  <2>9. start(8) = 37 /\ start(8 + 1) = start(8) + 5 /\ start(8 + 1) = Len(T) + 1
    BY <1>12, <2>1, <2>8
  <2>10. PICK m \in Nat : m = Len(T)
    BY <1>10
  <2>11. 37 + 5 = m + 1
    BY <2>9, <2>10
  <2>12. m = 41
    BY <2>11
  <2>. QED BY <2>9, <2>10, <2>12
<1>14. ASSUME NEW i \in 1 .. 8
       PROVE  /\ Strtol(T, start(i), 16).end = start(i) + 4
              /\ Strtol(T, start(i), 16).value = a[i]
              /\ T[start(i)] # 0
  <2>. DEFINE from == start(i)  end == start(i) + 4
  <2>1. /\ from \in Nat \ {0} /\ end <= Len(T) /\ Stands(T, from, GroupText(a[i]))
        /\ T[end] = (IF i < 8 THEN Colon ELSE Close)
    BY <1>12
  <2>2. end = from + 4 /\ end \in 1 .. Len(T) /\ end <= Len(T) + 1
    BY <1>13, <2>1
  <2>3. ~IsDigit(At(T, end), 16)
    <3>1. At(T, end) = T[end]
      BY <1>10, <2>2, AtInside
    <3>2. ~IsDigit(Colon, 16) /\ ~IsDigit(Close, 16)
      BY DEF IsDigit, HexToNibble, Colon, Close, Zero, LowerA, UpperA
    <3>. QED BY <2>1, <3>1, <3>2
  <2>. HIDE DEF from, end
  <2>4. Strtol(T, from, 16).end = end /\ Strtol(T, from, 16).value = a[i]
    BY <1>1, <1>10, <2>1, <2>2, <2>3, GroupRead
  <2>5. T[from] # 0
    <3>1. Len(GroupText(a[i])) = 4 /\ GroupText(a[i])[1] \in 48 .. 57 \cup 97 .. 102
      <4>. DEFINE w == GroupText(a[i])
      <4>1. Len(w) = 4 /\ \A j \in 1 .. 4 : w[j] \in 48 .. 57 \cup 97 .. 102
        BY <1>2
      <4>. HIDE DEF w
      <4>2. 1 \in 1 .. 4
        OBVIOUS
      <4>3. w[1] \in 48 .. 57 \cup 97 .. 102
        BY <4>1, <4>2
      <4>. QED BY <4>1, <4>3 DEF w
    <3>2. from \in Nat /\ Len(GroupText(a[i])) \in Nat \ {0}
      BY <2>1, <3>1
    <3>3. T[from] = GroupText(a[i])[1]
      BY <2>1, <3>2, FirstStands
    <3>. QED BY <3>1, <3>3
  <2>. QED BY <2>4, <2>5 DEF from, end
<1>15. /\ start(1) = 2
       /\ \A i \in 1 .. 8 :
              /\ start(i) \in Nat \ {0} /\ start(i) + 4 <= 41 /\ start(i + 1) = start(i) + 5
              /\ T[start(i) + 4] = IF i < 8 THEN Colon ELSE Close
  BY <1>12, <1>13
<1>. QED BY <1>9, <1>10, <1>11, <1>13, <1>14, <1>15 DEF start, T

LEMMA LastOne ==
    ASSUME NEW A, NEW t \in Seq(A), NEW n \in Nat \ {0}, n = Len(t)
    PROVE  SubSeq(t, n, n) = <<t[n]>>
<1>. DEFINE s == SubSeq(t, n, n)  q == <<t[n]>>
<1>1. t[n] \in A /\ n \in 1 .. Len(t)
  OBVIOUS
<1>2. s \in Seq(A) /\ Len(s) = 1 /\ s[1] = t[n]
  <2>1. n \in Int /\ \A k \in n .. n : t[k] \in A
    BY <1>1
  <2>2. /\ s \in Seq(A) /\ Len(s) = IF n <= n THEN n - n + 1 ELSE 0
        /\ \A k \in 1 .. n - n + 1 : s[k] = t[n + k - 1]
    BY <2>1, SubSeqProperties
  <2>3. n - n + 1 = 1 /\ 1 \in 1 .. n - n + 1 /\ n + 1 - 1 = n
    OBVIOUS
  <2>. HIDE DEF s
  <2>4. s[1] = t[n + 1 - 1]
    BY <2>2, <2>3
  <2>. QED BY <2>2, <2>3, <2>4
<1>3. q \in Seq(A) /\ Len(q) = 1 /\ q[1] = t[n]
  BY <1>1
<1>. HIDE DEF s, q
<1>4. \A k \in 1 .. Len(s) : s[k] = q[k]
  BY <1>2, <1>3
<1>5. s = q
  BY <1>2, <1>3, <1>4, SeqEqual
<1>. QED BY <1>5 DEF s, q

LEMMA GroupsRead ==
    ASSUME NEW a, EightGroups(a)
    PROVE  StringToIPv6(GroupsText(a)) = [kind |-> "i", type |-> "v6", part |-> a]
<1>. DEFINE T == GroupsText(a)  start(i) == GroupStart(a, i)
            L == Loop(IPv6Step(T, TRUE), ReadSoFar(2, <<>>), 8)
            first(i) == SubSeq(a, 1, i)
            Read(i) == ReadSoFar(start(i + 1), first(i))
            S == {i \in Nat : L[i] = Read(i)}
<1>1. /\ a \in Seq(UInt16) /\ Len(a) = 8 /\ a \in Seq(Nat)
      /\ \A i \in 1 .. 8 : a[i] \in UInt16 /\ a[i] \in Nat
  BY EightFacts
<1>2. /\ T \in Seq(Byte) /\ Len(T) = 41 /\ T[1] = Open /\ start(1) = 2 /\ start(8) + 4 = 41
      /\ \A i \in 1 .. 8 :
             /\ start(i) \in Nat \ {0} /\ start(i) + 4 <= 41 /\ start(i + 1) = start(i) + 5
             /\ Strtol(T, start(i), 16).end = start(i) + 4
             /\ Strtol(T, start(i), 16).value = a[i]
             /\ T[start(i) + 4] = IF i < 8 THEN Colon ELSE Close
             /\ T[start(i)] # 0
  BY GroupsFacts
<1>. HIDE DEF T, start
<1>3. L[0] = ReadSoFar(2, <<>>) /\ \A i \in 1 .. 8 : L[i] = IPv6Step(T, TRUE)[L[i - 1]]
  <2>. DEFINE step == IPv6Step(T, TRUE)  begin == ReadSoFar(2, <<>>)
  <2>1. L = Loop(step, begin, 8) /\ 8 \in Nat
    OBVIOUS
  <2>. HIDE DEF L, step, begin
  <2>2. L[0] = begin /\ \A i \in 1 .. 8 : L[i] = step[L[i - 1]]
    BY <2>1, LoopUnfolds
  <2>. QED BY <2>2 DEF step, begin
<1>. HIDE DEF L
<1>4. 0 \in S
  <2>1. first(0) = <<>> /\ 0 + 1 = 1
    BY SubSeqEmpty
  <2>. HIDE DEF first
  <2>. QED BY <1>2, <1>3, <2>1
<1>5. ASSUME NEW i \in 1 .. 8, i - 1 \in S PROVE i \in S
  <2>. DEFINE s == ReadSoFar(start(i), first(i - 1))  n == Strtol(T, start(i), 16)
  <2>0. i \in Nat /\ i - 1 + 1 = i /\ (i - 1 < 7 <=> i < 8) /\ i \in 1 .. Len(a)
    BY <1>1
  <2>1. L[i - 1] = s /\ L[i] = IPv6Step(T, TRUE)[L[i - 1]]
    BY <1>3, <1>5, <2>0
  <2>2. first(i - 1) \in Seq(Nat) /\ Append(first(i - 1), a[i]) = first(i)
        /\ Len(first(i - 1)) = i - 1
    <3>1. SubSeq(a, 1, i - 1) \in Seq(Nat) /\ Append(SubSeq(a, 1, i - 1), a[i]) = SubSeq(a, 1, i)
      BY <1>1, <2>0, FirstAndNext
    <3>2. Len(SubSeq(a, 1, i - 1)) = i - 1
      <4>1. 1 \in Int /\ i - 1 \in Int /\ \A k \in 1 .. i - 1 : a[k] \in Nat
        <5>1. \A k \in 1 .. i - 1 : k \in 1 .. 8
          OBVIOUS
        <5>. QED BY <1>1, <5>1
      <4>2. Len(SubSeq(a, 1, i - 1)) = IF 1 <= i - 1 THEN (i - 1) - 1 + 1 ELSE 0
        BY <4>1, SubSeqProperties
      <4>. QED BY <4>2
    <3>. QED BY <3>1, <3>2
  <2>3. /\ start(i) \in Nat \ {0} /\ start(i) + 4 <= 41 /\ start(i + 1) = start(i) + 5
        /\ n.end = start(i) + 4 /\ n.value = a[i]
        /\ T[start(i) + 4] = (IF i < 8 THEN Colon ELSE Close)
        /\ a[i] \in UInt16
    BY <1>1, <1>2
  <2>. HIDE DEF first, n
  <2>4. s \in Reading /\ s.ok = TRUE /\ s.pos = start(i) /\ s.part = first(i - 1)
    BY <2>2, <2>3 DEF ReadSoFar, Reading
  <2>. DEFINE good == /\ At(T, s.pos) # 0
                      /\ n.end - s.pos <= 4
                      /\ IF Len(s.part) < 7 THEN At(T, n.end) = Colon
                         ELSE SubSeq(T, n.end, Len(T)) = IF TRUE THEN <<Close>> ELSE <<>>
  <2>. HIDE DEF s
  <2>5. IPv6Step(T, TRUE)[s] = PartNext(s, n, good, n.value % UInt16Size)
    BY <2>4 DEF IPv6Step, n
  <2>6. n.value % UInt16Size = a[i]
    <3>0. PICK g \in UInt16 : g = a[i]
      BY <2>3
    <3>1. PICK size \in Nat \ {0} : size = UInt16Size
      BY DEF UInt16Size
    <3>2. g \in 0 .. size - 1
      BY <3>1 DEF UInt16
    <3>3. g % size = g
      BY <3>2
    <3>. QED BY <2>3, <3>0, <3>1, <3>3
  <2>7. good = TRUE
    <3>1. At(T, s.pos) # 0
      <4>0. PICK e \in Nat \ {0} : e = start(i)
        BY <2>3
      <4>1. start(i) \in 1 .. Len(T)
        <5>1. e + 4 <= 41
          BY <2>3, <4>0
        <5>2. e \in 1 .. 41
          BY <5>1
        <5>. QED BY <1>2, <4>0, <5>2
      <4>2. At(T, start(i)) = T[start(i)]
        BY <4>1, AtInside
      <4>3. T[start(i)] # 0
        BY <1>2
      <4>. QED BY <2>4, <4>2, <4>3
    <3>2. n.end - s.pos <= 4
      <4>1. PICK e \in Nat \ {0} : e = start(i)
        BY <2>3
      <4>2. n.end = e + 4 /\ s.pos = e
        BY <2>3, <2>4, <4>1
      <4>. QED BY <4>2
    <3>3. Len(s.part) < 7 <=> i < 8
      BY <2>0, <2>2, <2>4
    <3>4. CASE i < 8
      <4>0. PICK e \in Nat \ {0} : e = start(i)
        BY <2>3
      <4>1. start(i) + 4 \in 1 .. Len(T)
        <5>1. e + 4 <= 41
          BY <2>3, <4>0
        <5>2. e + 4 \in 1 .. 41
          BY <5>1
        <5>. QED BY <1>2, <4>0, <5>2
      <4>2. At(T, n.end) = Colon
        <5>1. At(T, start(i) + 4) = T[start(i) + 4]
          BY <4>1, AtInside
        <5>. QED BY <2>3, <3>4, <5>1
      <4>. QED BY <3>1, <3>2, <3>3, <3>4, <4>2
    <3>5. CASE ~(i < 8)
      <4>1. i = 8
        BY <3>5
      <4>2. n.end = 41 /\ T[41] = Close
        BY <1>2, <2>3, <4>1
      <4>3. SubSeq(T, 41, 41) = <<T[41]>>
        <5>1. 41 \in Nat \ {0} /\ 41 = Len(T) /\ T \in Seq(Byte)
          BY <1>2
        <5>. QED BY <5>1, LastOne
      <4>4. SubSeq(T, n.end, Len(T)) = <<Close>>
        <5>1. SubSeq(T, n.end, Len(T)) = SubSeq(T, 41, 41)
          BY <1>2, <4>2
        <5>. QED BY <4>2, <4>3, <5>1
      <4>. QED BY <3>1, <3>2, <3>3, <3>5, <4>4
    <3>. QED BY <3>4, <3>5
  <2>. HIDE DEF good
  <2>8. PartNext(s, n, good, a[i]) = ReadSoFar(n.end + 1, Append(s.part, a[i]))
    BY <2>4, <2>7 DEF PartNext, ReadSoFar
  <2>9. n.end + 1 = start(i + 1)
    <3>1. PICK e \in Nat \ {0} : e = start(i)
      BY <2>3
    <3>2. n.end = e + 4 /\ start(i + 1) = e + 5
      BY <2>3, <3>1
    <3>. QED BY <3>1, <3>2
  <2>10. L[i] = Read(i)
    BY <2>1, <2>2, <2>4, <2>5, <2>6, <2>8, <2>9
  <2>. QED BY <2>0, <2>10
<1>6. L[8] = Read(8)
  <2>1. 8 \in Nat /\ 8 \in 0 .. 8
    OBVIOUS
  <2>2. \A i \in 0 .. 8 : i \in S
    <3>. HIDE DEF S
    <3>. QED BY <1>4, <1>5, <2>1, Induction
  <2>. HIDE DEF Read
  <2>. QED BY <2>1, <2>2
<1>7. first(8) = a
  <2>1. SubSeq(a, 1, Len(a)) = a
    BY <1>1, WholeSequence
  <2>. QED BY <1>1, <2>1
<1>8. L[8].ok = TRUE /\ L[8].part = a
  BY <1>6, <1>7 DEF ReadSoFar
<1>9. At(T, 1) = Open
  <2>1. 1 \in 1 .. Len(T)
    BY <1>2
  <2>. QED BY <1>2, <2>1, AtInside
<1>10. StringToIPv6(T) = IF L[8].ok THEN [kind |-> "i", type |-> "v6", part |-> L[8].part] ELSE Bad
  <2>. DEFINE block == At(T, 1) = Open
              end == Loop(IPv6Step(T, block),
                          [ok |-> TRUE, pos |-> IF block THEN 2 ELSE 1, part |-> <<>>], 8)[8]
  <2>1. StringToIPv6(T) = IF end.ok THEN [kind |-> "i", type |-> "v6", part |-> end.part] ELSE Bad
    BY DEF StringToIPv6
  <2>2. block = TRUE
    BY <1>9
  <2>. HIDE DEF block
  <2>3. end = L[8]
    BY <2>2 DEF ReadSoFar, L
  <2>. HIDE DEF end
  <2>. QED BY <2>1, <2>3
<1>. QED BY <1>8, <1>10 DEF T

LEMMA IPv6ReadsBack ==
    ASSUME NEW a, EightGroups(a), FormatBufLen >= 42
    PROVE  /\ ReadsBack([kind |-> "i", type |-> "v6", part |-> a])
           /\ WriteArg([kind |-> "i", type |-> "v6", part |-> a]) = GroupsText(a)
<1>. DEFINE v == [kind |-> "i", type |-> "v6", part |-> a]  p == GroupsText(a)
<1>1. v.kind = "i" /\ v.type = "v6" /\ v.part = a /\ v \in Value
  <2>1. v.kind = "i" /\ v.type = "v6" /\ v.part = a
    OBVIOUS
  <2>2. v \in IpValues
    <3>2. a \in Seq(UInt16)
      BY EightFacts
    <3>3. v \in [kind : {"i"}, type : {"v4", "v6"}, part : Seq(UInt16)]
      BY <3>2
    <3>. QED BY <3>3 DEF IpValues, UInt16
  <2>. HIDE DEF v
  <2>. QED BY <2>1, <2>2, ValueKinds
<1>. HIDE DEF v
<1>2. /\ p \in Seq(Byte) /\ Len(p) = 41 /\ OneParam(p)
      /\ \A j \in 1 .. Len(p) : p[j] # Dot
  BY GroupsFacts
<1>3. WriteArg(v) = p
  <2>1. WriteArg(v) = IpAddressToString(v, FormatBufLen)
    BY <1>1 DEF WriteArg
  <2>2. ~(Len(p) >= FormatBufLen)
    <3>. HIDE DEF p
    <3>. QED BY <1>2, AtTextAssumption
  <2>. DEFINE H == [i \in DOMAIN a |-> ByteToHex(a[i] \div 256) \o ByteToHex(a[i] % 256)]
              Low(t) == [i \in DOMAIN t |-> IF t[i] >= UpperA THEN t[i] + 32 ELSE t[i]]
  <2>3. Bracketed(Between([i \in DOMAIN H |-> Low(H[i])], Colon)) = p
    <3>1. \A i \in DOMAIN a : H[i] = UpperGroup(a[i]) /\ Low(UpperGroup(a[i])) = GroupText(a[i])
      BY DEF UpperGroup, GroupText
    <3>2. DOMAIN H = DOMAIN a
      OBVIOUS
    <3>. HIDE DEF H, Low
    <3>3. [i \in DOMAIN H |-> Low(H[i])] = Groups(a)
      BY <3>1, <3>2 DEF Groups
    <3>. QED BY <3>3 DEF GroupsText
  <2>. DEFINE octets == [i \in DOMAIN v.part |-> Decimal(v.part[i])]
              text == IF v.type = "v4" THEN Between(octets, Dot)
                      ELSE Bracketed(Between([i \in DOMAIN H |-> Low(H[i])], Colon))
  <2>4. IpAddressToString(v, FormatBufLen) = IF Len(text) >= FormatBufLen THEN Refused ELSE text
    <3>. DEFINE K == [i \in DOMAIN v.part |->
                          ByteToHex(v.part[i] \div 256) \o ByteToHex(v.part[i] % 256)]
                written == IF v.type = "v4" THEN Between(octets, Dot)
                           ELSE Bracketed(Between([i \in DOMAIN K |-> Low(K[i])], Colon))
    <3>1. K = H
      BY <1>1
    <3>2. written = text
      <4>. HIDE DEF K, H, Low, octets
      <4>. QED BY <3>1
    <3>3. IpAddressToString(v, FormatBufLen)
            = IF Len(written) >= FormatBufLen THEN Refused ELSE written
      BY Zenon DEF IpAddressToString
    <3>. HIDE DEF written, text
    <3>. QED BY <3>2, <3>3
  <2>5. text = p
    <3>. HIDE DEF p, H, Low, octets
    <3>. QED BY <1>1, <2>3
  <2>. HIDE DEF text, p
  <2>6. IpAddressToString(v, FormatBufLen) = p
    BY <2>2, <2>4, <2>5
  <2>. QED BY <2>1, <2>6
<1>5. ParseParam("i", p) = v
  <2>1. ParseParam("i", p) = StringToIpAddress(p)
    BY DEF ParseParam
  <2>2. StringToIpAddress(p) = StringToIPv6(p)
    <3>1. DOMAIN p = 1 .. Len(p)
      BY <1>2
    <3>. QED BY <1>2, <3>1 DEF StringToIpAddress
  <2>3. StringToIPv6(p) = [kind |-> "i", type |-> "v6", part |-> a]
    BY GroupsRead
  <2>. QED BY <2>1, <2>2, <2>3 DEF v
<1>. QED BY <1>1, <1>2, <1>3, <1>5 DEF ReadsBack, v, p

-----------------------------------------------------------------------------
(* Lists of numbers. *)

\* A number of either sign modulo a size that is larger
LEMMA Wrapped ==
    ASSUME NEW half \in Nat \ {0}, NEW v \in -half .. half - 1
    PROVE  v % (2 * half) = IF v >= 0 THEN v ELSE v + 2 * half
<1>. DEFINE S == 2 * half  r == v % S  q == v \div S
<1>1. S \in Nat \ {0} /\ v \in Int
  OBVIOUS
<1>2. v = S * q + r /\ r \in 0 .. S - 1 /\ q \in Int
  <2>. HIDE DEF S
  <2>. QED BY <1>1
<1>. HIDE DEF r, q
<1>3. q = 0 \/ q = -1
  <2>1. q <= 0
    <3>. SUFFICES ASSUME q >= 1 PROVE FALSE
      BY <1>2
    <3>1. S * q >= S
      <4>1. \A a \in Nat, b \in Int : b >= 1 => a * b >= a
        OBVIOUS
      <4>. HIDE DEF S
      <4>. QED BY <1>1, <1>2, <4>1
    <3>2. PICK x \in Int : x = S * q
      BY <1>1, <1>2
    <3>. QED BY <1>2, <3>1, <3>2
  <2>2. q >= -1
    <3>. SUFFICES ASSUME q <= -2 PROVE FALSE
      BY <1>2
    <3>1. S * q <= -(2 * S)
      <4>1. ASSUME NEW a \in Nat, NEW b \in Int, b <= -2 PROVE a * b <= -(2 * a)
        <5>1. a * (-2 - b) >= 0
          <6>1. \A c \in Nat : a * c >= 0
            OBVIOUS
          <6>2. -2 - b \in Nat
            BY <4>1
          <6>. QED BY <6>1, <6>2
        <5>2. a * (-2 - b) = -(2 * a) - a * b
          OBVIOUS
        <5>. QED BY <5>1, <5>2
      <4>. HIDE DEF S
      <4>. QED BY <1>1, <1>2, <4>1
    <3>2. PICK x \in Int : x = S * q
      BY <1>1, <1>2
    <3>. QED BY <1>2, <3>1, <3>2
  <2>. QED BY <1>2, <2>1, <2>2
<1>4. CASE q = 0
  BY <1>2, <1>4 DEF r
<1>5. CASE q = -1
  BY <1>2, <1>5 DEF r
<1>. QED BY <1>3, <1>4, <1>5

LEMMA Int16Undone ==
    ASSUME NEW v \in Int16s
    PROVE  /\ v \in Int /\ Int16Bytes(v)[1] \in Byte /\ Int16Bytes(v)[2] \in Byte
           /\ Int16(Int16Bytes(v)[1], Int16Bytes(v)[2]) = v
<1>1. PICK half \in Nat \ {0} :
          half = UInt16Size \div 2 /\ UInt16Size = 2 * half /\ half = 128 * 256
  BY DEF UInt16Size
<1>2. v \in -half .. half - 1 /\ v \in Int
  BY <1>1 DEF Int16s
<1>. DEFINE u == v % (2 * half)
<1>3. u = IF v >= 0 THEN v ELSE v + 2 * half
  BY <1>2, Wrapped
<1>. HIDE DEF u
<1>4. u \in Nat /\ u < 2 * half
  BY <1>2, <1>3
<1>5. PICK a \in Nat, b \in Nat : a = u % 256 /\ b = u \div 256 /\ a + 256 * b = u /\ a \in 0 .. 255
  BY <1>4
<1>6. b <= 255
  BY <1>1, <1>4, <1>5
<1>7. Int16Bytes(v)[1] = a /\ Int16Bytes(v)[2] = b
  BY <1>1, <1>5 DEF Int16Bytes, u
<1>8. Int16(a, b) = IF u >= half THEN u - 2 * half ELSE u
  BY <1>1, <1>5 DEF Int16
<1>9. (IF u >= half THEN u - 2 * half ELSE u) = v
  BY <1>2, <1>3
<1>10. a \in Byte /\ b \in Byte
  <2>1. a \in 0 .. 255
    BY <1>5, Zenon
  <2>2. b \in 0 .. 255
    BY <1>6
  <2>. QED BY <2>1, <2>2 DEF Byte, MaxByte
<1>11. Int16(a, b) = v
  BY <1>8, <1>9, Zenon
<1>. QED BY <1>2, <1>7, <1>10, <1>11, Zenon

\* A number of a list in its text
LEMMA Int16Written ==
    ASSUME NEW v \in Int16s
    PROVE  /\ v \in Number /\ Decimal(v) \in Seq(Byte) /\ Len(Decimal(v)) \in Nat \ {0}
           /\ \A j \in 1 .. Len(Decimal(v)) :
                  Decimal(v)[j] = Minus \/ Decimal(v)[j] \in Zero .. Zero + 9
<1>1. v \in Number
  <2>1. PICK half \in Nat \ {0} :
            half = UInt16Size \div 2 /\ UInt16Size = 2 * half /\ half = 128 * 256
    BY DEF UInt16Size
  <2>2. v \in -half .. half - 1 /\ v \in Int
    BY <2>1 DEF Int16s
  <2>3. half \in Nat /\ half <= UInt16Size - 1
    BY <2>1
  <2>4. half \in Number
    BY <2>3, SmallNumbers
  <2>5. PICK m \in Int : m = MostNumber
    BY PowerFacts DEF MostNumber
  <2>6. half <= m
    BY <2>4, <2>5 DEF Number
  <2>7. v \in -m .. m
    BY <2>2, <2>6
  <2>. QED BY <2>5, <2>7 DEF Number
<1>2. /\ Decimal(v) \in Seq(Byte) /\ Magnitude(v) \in 0 .. MostNumber
      /\ Len(Decimal(v)) = SignLength(v) + DigitCount(Magnitude(v))
  BY <1>1, DecimalFacts
<1>3. DigitCount(Magnitude(v)) \in 1 .. 10 /\ SignLength(v) \in {0, 1}
  BY <1>2, DigitCountFacts DEF SignLength
<1>4. \A j \in 1 .. Len(Decimal(v)) : Decimal(v)[j] = Minus \/ Decimal(v)[j] \in Zero .. Zero + 9
  BY <1>1, DecimalOrdinary
<1>. QED BY <1>1, <1>2, <1>3, <1>4

ListOfInt16(list) == list \in Seq(Int16s)

Decimals(list) == [i \in DOMAIN list |-> Decimal(list[i])]
NumberStart(list, i) == PartStart(Decimals(list), Comma, i) + 1
InListText == 48 .. 57 \cup {Minus, Comma}

LEMMA DecimalsFacts ==
    ASSUME NEW list, ListOfInt16(list)
    PROVE  /\ list \in Seq(Int16s) /\ Len(list) \in Nat
           /\ \A i \in 1 .. Len(list) : list[i] \in Int16s
           /\ Decimals(list) \in Seq(Seq(Byte)) /\ Len(Decimals(list)) = Len(list)
           /\ \A i \in 1 .. Len(list) : Decimals(list)[i] = Decimal(list[i])
           /\ Between(Decimals(list), Comma) \in Seq(Byte)
           /\ \A j \in 1 .. Len(Between(Decimals(list), Comma)) :
                  Between(Decimals(list), Comma)[j] \in InListText
<1>. DEFINE D == Decimals(list)  n == Len(list)  A == InListText  u == Between(D, Comma)
<1>1. list \in Seq(Int16s) /\ n \in Nat /\ DOMAIN list = 1 .. n
  BY DEF ListOfInt16
<1>2. \A i \in 1 .. n : list[i] \in Int16s
  BY <1>1
<1>3. ASSUME NEW i \in 1 .. n
      PROVE  Decimal(list[i]) \in Seq(Byte) /\ Decimal(list[i]) \in Seq(A)
  <2>. DEFINE w == Decimal(list[i])
  <2>1. /\ w \in Seq(Byte)
        /\ \A j \in 1 .. Len(w) : w[j] = Minus \/ w[j] \in Zero .. Zero + 9
    BY <1>2, Int16Written
  <2>. HIDE DEF w
  <2>2. \A j \in 1 .. Len(w) : w[j] \in A
    BY <2>1 DEF InListText, Zero
  <2>. HIDE DEF A
  <2>3. w \in Seq(A)
    <3>1. w \in [1 .. Len(w) -> A] /\ Len(w) \in Nat
      BY <2>1, <2>2
    <3>2. \E k \in Nat : w \in [1 .. k -> A]
      BY <3>1
    <3>. QED BY <3>2
  <2>. QED BY <2>1, <2>3 DEF w
<1>4. D = [i \in 1 .. n |-> Decimal(list[i])]
  BY <1>1 DEF Decimals
<1>. HIDE DEF D, A, n
<1>5. D \in [1 .. n -> Seq(Byte)] /\ D \in [1 .. n -> Seq(A)]
  BY <1>3, <1>4
<1>6. D \in Seq(Seq(Byte)) /\ Len(D) = n
  <2>1. \E k \in Nat : D \in [1 .. k -> Seq(Byte)]
    BY <1>1, <1>5
  <2>2. D \in Seq(Seq(Byte))
    BY <2>1
  <2>3. DOMAIN D = 1 .. n
    BY <1>5
  <2>. QED BY <1>1, <2>2, <2>3, LenProperties
<1>7. D \in Seq(Seq(A))
  <2>1. \E k \in Nat : D \in [1 .. k -> Seq(A)]
    BY <1>1, <1>5
  <2>. QED BY <2>1
<1>8. Comma \in Byte /\ Comma \in A
  BY DEF Byte, MaxByte, Comma, A, InListText
<1>9. Between(D, Comma) \in Seq(Byte)
  BY <1>6, <1>8, SeparatedFacts
<1>10. Between(D, Comma) \in Seq(A)
  BY <1>7, <1>8, SeparatedFacts
<1>11. \A j \in 1 .. Len(u) : u[j] \in A
  <2>1. u \in Seq(A)
    BY <1>10
  <2>. HIDE DEF u
  <2>. QED BY <2>1
<1>. QED BY <1>1, <1>2, <1>4, <1>6, <1>9, <1>11 DEF D, A, n

LEMMA ListTextFacts ==
    ASSUME NEW list, ListOfInt16(list)
    PROVE  /\ IntListText(list) = Bracketed(Between(Decimals(list), Comma))
           /\ IntListText(list) \in Seq(Byte) /\ OneParam(IntListText(list))
<1>. DEFINE u == Between(Decimals(list), Comma)
<1>1. u \in Seq(Byte) /\ \A j \in 1 .. Len(u) : u[j] \in InListText
  BY DecimalsFacts
<1>2. IntListText(list) = Bracketed(u)
  BY DEF IntListText, Decimals
<1>. HIDE DEF u
<1>3. \A c \in InListText : Inner(c)
  BY DEF InListText, Inner, Close, Quote, Backslash, Minus, Comma
<1>4. OneParam(Bracketed(u))
  BY <1>1, <1>3, BracketedIsParam
<1>5. Bracketed(u) \in Seq(Byte)
  BY <1>1, BracketedFacts
<1>. QED BY <1>2, <1>4, <1>5 DEF u

\* Where number i of a list is in its text
InList(list, i) ==
    /\ NumberStart(list, i) \in Nat \ {0}
    /\ NumberStart(list, i + 1) = NumberStart(list, i) + Len(Decimal(list[i])) + 1
    /\ NumberStart(list, i + 1) <= Len(IntListText(list)) + 1
    /\ Stands(IntListText(list), NumberStart(list, i), Decimal(list[i]))
    /\ IntListText(list)[NumberStart(list, i + 1) - 1] = IF i < Len(list) THEN Comma ELSE Close

LEMMA ListFacts ==
    ASSUME NEW list, ListOfInt16(list), NEW i \in 1 .. Len(list)
    PROVE  /\ IntListText(list)[1] = Open /\ Len(IntListText(list)) \in Nat
           /\ IntListText(list)[Len(IntListText(list))] = Close
           /\ NumberStart(list, 1) = 2
           /\ NumberStart(list, Len(list) + 1) = Len(IntListText(list)) + 1
           /\ InList(list, i)
<1>. DEFINE D == Decimals(list)  T == IntListText(list)  s == PartStart(D, Comma, i)
            e == PartStart(D, Comma, i + 1)
<1>1. /\ D \in Seq(Seq(Byte)) /\ Len(D) = Len(list) /\ D[i] = Decimal(list[i])
      /\ Len(list) \in Nat
  BY DecimalsFacts
<1>2. T = Bracketed(Between(D, Comma))
  BY ListTextFacts
<1>3. Comma \in Byte /\ i \in 1 .. Len(D)
  BY <1>1 DEF Byte, MaxByte, Comma
<1>. HIDE DEF D, T
<1>4. IsBracketed(D, Comma, i, T)
  BY <1>1, <1>2, <1>3, BracketedParts
<1>5. /\ T \in Seq(Byte) /\ Len(T) \in Nat /\ T[1] = Open /\ T[Len(T)] = Close
      /\ PartStart(D, Comma, 1) = 1 /\ s \in Nat \ {0} /\ e = s + Len(D[i]) + 1
      /\ e \in 2 .. Len(T) /\ Stands(T, s + 1, D[i])
      /\ T[e] = (IF i < Len(D) THEN Comma ELSE Close)
      /\ PartStart(D, Comma, Len(D) + 1) = Len(T)
  BY <1>4 DEF IsBracketed
<1>6. /\ NumberStart(list, i) = s + 1 /\ NumberStart(list, i + 1) = e + 1
      /\ NumberStart(list, 1) = PartStart(D, Comma, 1) + 1
      /\ NumberStart(list, Len(list) + 1) = PartStart(D, Comma, Len(list) + 1) + 1
  BY DEF NumberStart, D
<1>. HIDE DEF s, e
<1>7. Len(D[i]) \in Nat
  <2>1. D[i] \in Seq(Byte)
    BY <1>1, <1>3
  <2>. QED BY <2>1
<1>8. InList(list, i)
  <2>1. /\ s + 1 \in Nat \ {0} /\ e + 1 = s + 1 + Len(D[i]) + 1
        /\ e + 1 <= Len(T) + 1 /\ (e + 1) - 1 = e
    <3>1. PICK l \in Nat, m \in Nat, x \in Nat \ {0} : l = Len(D[i]) /\ m = Len(T) /\ x = s
      BY <1>5, <1>7
    <3>2. PICK y \in 2 .. m : y = e
      BY <1>5, <3>1
    <3>3. y = x + l + 1
      BY <1>5, <3>1, <3>2
    <3>4. x + 1 \in Nat \ {0} /\ y + 1 = x + 1 + l + 1 /\ y + 1 <= m + 1 /\ (y + 1) - 1 = y
      BY <3>3
    <3>. QED BY <3>1, <3>2, <3>4
  <2>. QED BY <1>1, <1>5, <1>6, <2>1 DEF InList, T
<1>9. NumberStart(list, 1) = 2 /\ NumberStart(list, Len(list) + 1) = Len(T) + 1
  <2>1. PartStart(D, Comma, 1) = 1 /\ PartStart(D, Comma, Len(list) + 1) = Len(T)
    BY <1>1, <1>5
  <2>. QED BY <1>6, <2>1
<1>. QED BY <1>5, <1>8, <1>9 DEF T

\* A number and what separates it from the next take two bytes at least: what is
\* converted never reaches what is still to be read.
LEMMA NumbersApart ==
    ASSUME NEW list, ListOfInt16(list), NEW i \in 1 .. Len(list)
    PROVE  /\ NumberStart(list, i) \in Nat /\ NumberStart(list, i) >= 2 * i
           /\ NumberStart(list, i + 1) \in Nat
           /\ NumberStart(list, i + 1) >= NumberStart(list, i) + 2
           /\ NumberStart(list, i + 1) <= Len(IntListText(list)) + 1
<1>. DEFINE n == Len(list)  start(k) == NumberStart(list, k)
            S == {k \in Nat : start(k + 1) \in Nat /\ start(k + 1) >= 2 * (k + 1)}
<1>1. n \in Nat /\ \A k \in 1 .. n : Len(Decimal(list[k])) \in Nat \ {0}
  <2>1. n \in Nat /\ \A k \in 1 .. n : list[k] \in Int16s
    BY DecimalsFacts
  <2>. QED BY <2>1, Int16Written
<1>2. /\ start(1) = 2 /\ Len(IntListText(list)) \in Nat
      /\ \A k \in 1 .. n : /\ start(k) \in Nat \ {0}
                           /\ start(k + 1) = start(k) + Len(Decimal(list[k])) + 1
                           /\ start(k + 1) <= Len(IntListText(list)) + 1
  <2>1. start(1) = 2 /\ Len(IntListText(list)) \in Nat
    BY ListFacts
  <2>2. ASSUME NEW k \in 1 .. n
        PROVE  /\ start(k) \in Nat \ {0}
               /\ start(k + 1) = start(k) + Len(Decimal(list[k])) + 1
               /\ start(k + 1) <= Len(IntListText(list)) + 1
    <3>1. InList(list, k)
      BY ListFacts
    <3>. QED BY <3>1 DEF InList
  <2>. QED BY <2>1, <2>2
<1>. HIDE DEF n, start
<1>3. ASSUME NEW k \in 1 .. n PROVE start(k + 1) \in Nat /\ start(k + 1) >= start(k) + 2
  <2>1. PICK l \in Nat \ {0}, x \in Nat \ {0} : l = Len(Decimal(list[k])) /\ x = start(k)
    BY <1>1, <1>2
  <2>2. start(k + 1) = x + l + 1
    BY <1>2, <2>1
  <2>. QED BY <2>1, <2>2
<1>4. 0 \in S
  <2>1. 0 + 1 = 1 /\ 2 * (0 + 1) = 2
    OBVIOUS
  <2>. QED BY <1>2, <2>1
<1>5. ASSUME NEW k \in 1 .. n, k - 1 \in S PROVE k \in S
  <2>1. k \in Nat /\ (k - 1) + 1 = k
    BY <1>1
  <2>2. start(k) \in Nat /\ start(k) >= 2 * k
    BY <1>5, <2>1
  <2>3. start(k + 1) \in Nat /\ start(k + 1) >= start(k) + 2
    BY <1>3
  <2>4. start(k + 1) >= 2 * (k + 1)
    BY <2>1, <2>2, <2>3
  <2>. QED BY <2>1, <2>3, <2>4
<1>6. \A k \in 0 .. n : k \in S
  <2>. HIDE DEF S
  <2>. QED BY <1>1, <1>4, <1>5, Induction
<1>7. i \in 1 .. n /\ i - 1 \in 0 .. n /\ (i - 1) + 1 = i
  BY <1>1 DEF n
<1>8. start(i) \in Nat /\ start(i) >= 2 * i
  <2>1. i - 1 \in S
    BY <1>6, <1>7
  <2>. QED BY <1>7, <2>1
<1>. QED BY <1>2, <1>3, <1>7, <1>8 DEF start

\* There are as many commas as numbers but one.
LEMMA CommasCounted ==
    ASSUME NEW list, ListOfInt16(list), list # <<>>
    PROVE  Cardinality({j \in 2 .. Len(IntListText(list)) - 1 : IntListText(list)[j] = Comma})
             = Len(list) - 1
<1>. DEFINE T == IntListText(list)  n == Len(list)  start(k) == NumberStart(list, k)
            C(k) == {j \in 2 .. start(k + 1) - 2 : T[j] = Comma}
            S == {k \in Nat : IsFiniteSet(C(k + 1)) /\ Cardinality(C(k + 1)) = k}
<1>1. n \in Nat \ {0}
  <2>1. list \in Seq(Int16s)
    BY DecimalsFacts
  <2>. QED BY <2>1
<1>2. ASSUME NEW k \in 1 .. n
      PROVE  /\ start(k) \in Nat /\ start(k) >= 2 /\ start(k + 1) \in Nat
             /\ start(k + 1) >= start(k) + 2
             /\ \A j \in start(k) .. start(k + 1) - 2 : T[j] # Comma
             /\ k < n => T[start(k + 1) - 1] = Comma
  <2>. DEFINE w == Decimal(list[k])  l == Len(w)
  <2>1. /\ l \in Nat \ {0} /\ \A j \in 1 .. l : w[j] = Minus \/ w[j] \in Zero .. Zero + 9
    <3>1. list[k] \in Int16s
      BY DecimalsFacts
    <3>. QED BY <3>1, Int16Written
  <2>2. /\ start(k) \in Nat \ {0} /\ start(k + 1) = start(k) + l + 1
        /\ Stands(T, start(k), w)
        /\ T[start(k + 1) - 1] = IF k < n THEN Comma ELSE Close
    <3>1. InList(list, k)
      BY ListFacts
    <3>. QED BY <3>1 DEF InList
  <2>3. /\ start(k) \in Nat /\ start(k) >= 2 * k /\ start(k + 1) \in Nat
        /\ start(k + 1) >= start(k) + 2
    BY NumbersApart
  <2>. HIDE DEF T, w, l, start, n
  <2>4. ASSUME NEW j \in start(k) .. start(k + 1) - 2 PROVE T[j] # Comma
    <3>0. PICK x \in Nat \ {0}, y \in Nat \ {0} : x = start(k) /\ y = l
      BY <2>1, <2>2
    <3>1. j - x + 1 \in 1 .. y /\ x + (j - x + 1) - 1 = j
      BY <2>2, <3>0
    <3>2. T[x + (j - x + 1) - 1] = w[j - x + 1]
      BY <2>2, <3>0, <3>1 DEF Stands, l
    <3>3. T[j] = w[j - x + 1]
      BY <3>1, <3>2
    <3>4. Comma # Minus /\ Comma \notin Zero .. Zero + 9
      BY DEF Comma, Minus, Zero
    <3>. QED BY <2>1, <3>0, <3>1, <3>3, <3>4
  <2>5. start(k) >= 2
    <3>1. k \in Nat /\ 2 * k >= 2
      BY <1>1
    <3>. QED BY <2>3, <3>1
  <2>. QED BY <2>2, <2>3, <2>4, <2>5
<1>3. start(1) = 2 /\ start(n + 1) = Len(T) + 1 /\ Len(T) \in Nat
  <2>1. 1 \in 1 .. n
    BY <1>1
  <2>. QED BY <2>1, ListFacts
<1>. HIDE DEF T, n, start
<1>4. 0 \in S
  <2>1. 1 \in 1 .. n /\ 0 + 1 = 1
    BY <1>1
  <2>2. \A j \in start(1) .. start(1 + 1) - 2 : T[j] # Comma
    BY <1>2, <2>1
  <2>3. C(1) = {}
    BY <1>3, <2>2
  <2>4. IsFiniteSet(C(1)) /\ Cardinality(C(1)) = 0
    BY <2>3, FS_EmptySet
  <2>. HIDE DEF C
  <2>. QED BY <2>1, <2>4
<1>5. ASSUME NEW k \in 1 .. n - 1, k - 1 \in S PROVE k \in S
  <2>. DEFINE x == start(k + 1) - 1
  <2>1. k \in Nat /\ (k - 1) + 1 = k /\ k < n /\ k \in 1 .. n /\ k + 1 \in 1 .. n
    BY <1>1
  <2>2. IsFiniteSet(C(k)) /\ Cardinality(C(k)) = k - 1
    <3>. HIDE DEF C
    <3>1. IsFiniteSet(C(k - 1 + 1)) /\ Cardinality(C(k - 1 + 1)) = k - 1
      BY <1>5
    <3>. QED BY <2>1, <3>1
  <2>3. /\ start(k) \in Nat /\ start(k) >= 2 /\ start(k + 1) \in Nat /\ start(k + 1) >= start(k) + 2
        /\ T[start(k + 1) - 1] = Comma
    BY <1>2, <2>1
  <2>4. /\ start(k + 1 + 1) \in Nat /\ start(k + 1 + 1) >= start(k + 1) + 2
        /\ \A j \in start(k + 1) .. start(k + 1 + 1) - 2 : T[j] # Comma
    BY <1>2, <2>1
  <2>5. C(k + 1) = C(k) \cup {x} /\ x \notin C(k)
    <3>1. PICK a \in Nat, b \in Nat :
              a = start(k + 1) /\ b = start(k + 1 + 1) /\ a >= 4 /\ b >= a + 2
      BY <2>3, <2>4
    <3>2. T[a - 1] = Comma /\ \A j \in a .. b - 2 : T[j] # Comma
      BY <2>3, <2>4, <3>1
    <3>3. {j \in 2 .. b - 2 : T[j] = Comma} = {j \in 2 .. a - 2 : T[j] = Comma} \cup {a - 1}
      BY <3>1, <3>2
    <3>. QED BY <3>1, <3>3
  <2>. HIDE DEF C, x
  <2>6. IsFiniteSet(C(k + 1)) /\ Cardinality(C(k + 1)) = Cardinality(C(k)) + 1
    BY <2>2, <2>5, FS_AddElement
  <2>7. Cardinality(C(k + 1)) = k
    BY <2>1, <2>2, <2>6
  <2>. QED BY <2>1, <2>6, <2>7
<1>6. Cardinality(C(n)) = n - 1
  <2>1. n - 1 \in Nat /\ n - 1 \in 0 .. n - 1 /\ (n - 1) + 1 = n
    BY <1>1
  <2>2. \A k \in 0 .. n - 1 : k \in S
    <3>. HIDE DEF S
    <3>. QED BY <1>4, <1>5, <2>1, Induction
  <2>3. Cardinality(C(n - 1 + 1)) = n - 1
    <3>. HIDE DEF C
    <3>. QED BY <2>1, <2>2
  <2>. HIDE DEF C
  <2>. QED BY <2>1, <2>3
<1>7. C(n) = {j \in 2 .. Len(T) - 1 : T[j] = Comma}
  <2>1. start(n + 1) - 2 = Len(T) - 1
    BY <1>3
  <2>. QED BY <2>1
<1>. QED BY <1>6, <1>7 DEF T, n

ListReading == [ok : BOOLEAN, done : Nat, pos : Nat, mem : Seq(Byte)]

\* After i numbers: these are in the first bytes of the buffer, and nothing is changed
\* from where the next one is read.
ListSoFar(list, i, s) ==
    /\ s \in ListReading /\ s.ok = TRUE /\ s.done = i
    /\ s.pos = IF i < Len(list) THEN NumberStart(list, i + 1) ELSE NumberStart(list, i + 1) - 1
    /\ Len(s.mem) = Len(IntListText(list))
    /\ \A j \in 2 * i + 1 .. Len(s.mem) : s.mem[j] = IntListText(list)[j]
    /\ \A k \in 1 .. i : /\ s.mem[2 * k - 1] = Int16Bytes(list[k])[1]
                         /\ s.mem[2 * k] = Int16Bytes(list[k])[2]

\* What a number is written to the buffer as
Put2(mem, i, two) == [mem EXCEPT ![2 * i - 1] = two[1], ![2 * i] = two[2]]

LEMMA Put2Facts ==
    ASSUME NEW mem \in Seq(Byte), NEW i \in Nat \ {0}, 2 * i <= Len(mem), NEW two,
           two[1] \in Byte, two[2] \in Byte
    PROVE  /\ Put2(mem, i, two) \in Seq(Byte) /\ Len(Put2(mem, i, two)) = Len(mem)
           /\ Put2(mem, i, two)[2 * i - 1] = two[1] /\ Put2(mem, i, two)[2 * i] = two[2]
           /\ \A j \in 1 .. Len(mem) :
                  j # 2 * i - 1 /\ j # 2 * i => Put2(mem, i, two)[j] = mem[j]
<1>. DEFINE a == 2 * i - 1  b == 2 * i  p == [mem EXCEPT ![a] = two[1], ![b] = two[2]]
<1>1. a \in 1 .. Len(mem) /\ b \in 1 .. Len(mem) /\ a # b
  OBVIOUS
<1>. HIDE DEF a, b
<1>2. p \in Seq(Byte) /\ Len(p) = Len(mem)
  <2>. DEFINE q == [mem EXCEPT ![a] = two[1]]
  <2>1. q \in Seq(Byte) /\ Len(q) = Len(mem)
    BY <1>1
  <2>2. p = [q EXCEPT ![b] = two[2]]
    OBVIOUS
  <2>. HIDE DEF q
  <2>3. [q EXCEPT ![b] = two[2]] \in Seq(Byte) /\ Len([q EXCEPT ![b] = two[2]]) = Len(q)
    BY <1>1, <2>1
  <2>. QED BY <2>1, <2>2, <2>3
<1>3. p[a] = two[1] /\ p[b] = two[2] /\ \A j \in 1 .. Len(mem) : j # a /\ j # b => p[j] = mem[j]
  BY <1>1
<1>4. p = Put2(mem, i, two)
  BY DEF Put2, a, b
<1>. HIDE DEF p
<1>. QED BY <1>2, <1>3, <1>4 DEF a, b

LEMMA ListStep ==
    ASSUME NEW list, ListOfInt16(list), NEW i \in 1 .. Len(list), NEW s, ListSoFar(list, i - 1, s)
    PROVE  ListSoFar(list, i, IntListStep(Len(list))[s])
<1>. DEFINE T == IntListText(list)  n == Len(list)  from == NumberStart(list, i)
            next == NumberStart(list, i + 1)  w == Decimal(list[i])  m == Strtol(s.mem, s.pos, 10)
            two == Int16Bytes(list[i])
<1>0. n \in Nat /\ i \in Nat \ {0} /\ (i - 1) + 1 = i /\ i - 1 < n /\ list[i] \in Int16s
  <2>1. n \in Nat /\ list[i] \in Int16s
    BY DecimalsFacts
  <2>. QED BY <2>1
<1>1. /\ s \in ListReading /\ s.ok = TRUE /\ s.done = i - 1 /\ s.pos = from /\ Len(s.mem) = Len(T)
      /\ \A j \in 2 * (i - 1) + 1 .. Len(s.mem) : s.mem[j] = T[j]
      /\ \A k \in 1 .. i - 1 : /\ s.mem[2 * k - 1] = Int16Bytes(list[k])[1]
                               /\ s.mem[2 * k] = Int16Bytes(list[k])[2]
  BY <1>0 DEF ListSoFar
<1>2. list[i] \in Number /\ w \in Seq(Byte) /\ Len(w) \in Nat \ {0}
  BY <1>0, Int16Written
<1>3. /\ from \in Nat \ {0} /\ next = from + Len(w) + 1 /\ next <= Len(T) + 1
      /\ Stands(T, from, w) /\ T[next - 1] = (IF i < n THEN Comma ELSE Close)
      /\ Len(T) \in Nat
  <2>1. InList(list, i) /\ Len(T) \in Nat
    BY ListFacts
  <2>. QED BY <2>1 DEF InList
<1>4. from >= 2 * i
  BY NumbersApart
<1>. HIDE DEF T, n, from, next, w, two
<1>5. PICK l \in Nat \ {0}, x \in Nat \ {0}, L \in Nat : l = Len(w) /\ x = from /\ L = Len(T)
  BY <1>2, <1>3
<1>6. next = x + l + 1 /\ x + l <= L /\ x >= 2 * i /\ next - 1 = x + l
  BY <1>3, <1>4, <1>5
<1>7. s.mem \in Seq(Byte) /\ Len(s.mem) = L
  BY <1>1, <1>5 DEF ListReading
<1>8. \A j \in 2 * i - 1 .. L : s.mem[j] = T[j]
  <2>1. 2 * (i - 1) + 1 = 2 * i - 1
    BY <1>0
  <2>. QED BY <1>1, <1>7, <2>1
<1>9. s.mem[x + l] = IF i < n THEN Comma ELSE Close
  <2>1. x + l \in 2 * i - 1 .. L
    BY <1>0, <1>6
  <2>. QED BY <1>3, <1>6, <1>8, <2>1
<1>10. At(s.mem, x + l) = IF i < n THEN Comma ELSE Close
  <2>1. x + l \in 1 .. Len(s.mem)
    BY <1>6, <1>7
  <2>. QED BY <1>7, <1>9, <2>1, AtInside
<1>11. Stands(s.mem, x, w)
  <2>1. ASSUME NEW j \in 1 .. Len(w) PROVE s.mem[x + j - 1] = w[j]
    <3>1. x + j - 1 \in 2 * i - 1 .. L
      BY <1>0, <1>5, <1>6
    <3>2. T[x + j - 1] = w[j]
      BY <1>3, <1>5 DEF Stands
    <3>. QED BY <1>8, <3>1, <3>2
  <2>. QED BY <2>1 DEF Stands
<1>12. m.end = x + l /\ m.value = list[i]
  <2>1. ~IsDigit(At(s.mem, x + l), 10)
    <3>1. ~IsDigit(Comma, 10) /\ ~IsDigit(Close, 10)
      BY DEF IsDigit, HexToNibble, Comma, Close, Zero, LowerA, UpperA
    <3>. QED BY <1>10, <3>1
  <2>2. x + l = x + Len(w) /\ x + l <= Len(s.mem) + 1
    BY <1>5, <1>6, <1>7
  <2>3. Strtol(s.mem, x, 10).end = x + l /\ Strtol(s.mem, x, 10).value = list[i]
    BY <1>2, <1>7, <1>11, <2>1, <2>2, DecimalRead DEF w
  <2>. QED BY <1>1, <1>5, <2>3
<1>. HIDE DEF m
<1>13. two[1] \in Byte /\ two[2] \in Byte
  BY <1>0, Int16Undone DEF two
<1>. DEFINE p == Put2(s.mem, i, two)
            e == [ok |-> TRUE, done |-> i, pos |-> IF i < n THEN m.end + 1 ELSE m.end, mem |-> p]
<1>14. /\ p \in Seq(Byte) /\ Len(p) = L /\ p[2 * i - 1] = two[1] /\ p[2 * i] = two[2]
       /\ \A j \in 1 .. L : j # 2 * i - 1 /\ j # 2 * i => p[j] = s.mem[j]
  <2>1. 2 * i <= Len(s.mem)
    BY <1>0, <1>6, <1>7
  <2>2. /\ Put2(s.mem, i, two) \in Seq(Byte) /\ Len(Put2(s.mem, i, two)) = Len(s.mem)
        /\ Put2(s.mem, i, two)[2 * i - 1] = two[1] /\ Put2(s.mem, i, two)[2 * i] = two[2]
        /\ \A j \in 1 .. Len(s.mem) :
               j # 2 * i - 1 /\ j # 2 * i => Put2(s.mem, i, two)[j] = s.mem[j]
    <3>1. s.mem \in Seq(Byte) /\ i \in Nat \ {0} /\ two[1] \in Byte /\ two[2] \in Byte
      BY <1>0, <1>7, <1>13
    <3>2. PICK mem \in Seq(Byte) : mem = s.mem
      BY <3>1
    <3>3. /\ Put2(mem, i, two) \in Seq(Byte) /\ Len(Put2(mem, i, two)) = Len(mem)
          /\ Put2(mem, i, two)[2 * i - 1] = two[1] /\ Put2(mem, i, two)[2 * i] = two[2]
          /\ \A j \in 1 .. Len(mem) :
                 j # 2 * i - 1 /\ j # 2 * i => Put2(mem, i, two)[j] = mem[j]
      BY <2>1, <3>1, <3>2, Put2Facts
    <3>. QED BY <3>2, <3>3
  <2>. HIDE DEF p
  <2>3. p = Put2(s.mem, i, two)
    BY DEF p
  <2>. QED BY <1>7, <2>2, <2>3
<1>. HIDE DEF p
<1>15. IntListStep(n)[s] = e
  <2>. DEFINE good == /\ s.ok /\ m.end # s.pos /\ m.value \in Int16s
                      /\ i < n => At(s.mem, m.end) = Comma
               q == [s.mem EXCEPT ![2 * i - 1] = Int16Bytes(m.value)[1],
                                 ![2 * i] = Int16Bytes(m.value)[2]]
  <2>1. IntListStep(n)[s]
          = IF good THEN [ok |-> TRUE, done |-> i,
                          pos |-> IF i < n THEN m.end + 1 ELSE m.end, mem |-> q]
            ELSE [s EXCEPT !.ok = FALSE]
    <3>1. s.done + 1 = i
      BY <1>0, <1>1
    <3>. QED BY <1>1, <3>1 DEF IntListStep, ListReading, m
  <2>2. q = p
    BY <1>12 DEF p, Put2, two
  <2>3. good
    <3>1. m.end # s.pos
      BY <1>1, <1>5, <1>12
    <3>. QED BY <1>0, <1>1, <1>10, <1>12, <3>1
  <2>. HIDE DEF good, q
  <2>. QED BY <2>1, <2>2, <2>3
<1>16. e \in ListReading /\ e.ok = TRUE /\ e.done = i /\ e.mem = p
       /\ e.pos = IF i < n THEN next ELSE next - 1
  <2>1. m.end \in Nat /\ m.end + 1 = next /\ m.end = next - 1 /\ m.end + 1 \in Nat
    BY <1>6, <1>12
  <2>. QED BY <1>0, <1>14, <2>1 DEF ListReading
<1>. HIDE DEF e
<1>17. \A j \in 2 * i + 1 .. L : p[j] = T[j]
  <2>. TAKE j \in 2 * i + 1 .. L
  <2>1. j \in 1 .. L /\ j # 2 * i - 1 /\ j # 2 * i /\ j \in 2 * i - 1 .. L
    BY <1>0
  <2>. QED BY <1>8, <1>14, <2>1
<1>18. ASSUME NEW k \in 1 .. i
       PROVE  p[2 * k - 1] = Int16Bytes(list[k])[1] /\ p[2 * k] = Int16Bytes(list[k])[2]
  <2>1. CASE k = i
    BY <1>14, <2>1 DEF two
  <2>2. CASE k # i
    <3>1. k \in 1 .. i - 1
      BY <1>0, <2>2
    <3>2. /\ 2 * k - 1 \in 1 .. L /\ 2 * k - 1 # 2 * i - 1 /\ 2 * k - 1 # 2 * i
          /\ 2 * k \in 1 .. L /\ 2 * k # 2 * i - 1 /\ 2 * k # 2 * i
      BY <1>0, <1>6, <3>1
    <3>3. p[2 * k - 1] = s.mem[2 * k - 1] /\ p[2 * k] = s.mem[2 * k]
      BY <1>14, <3>2
    <3>. QED BY <1>1, <3>1, <3>3
  <2>. QED BY <2>1, <2>2
<1>19. Len(e.mem) = Len(T) /\ \A j \in 2 * i + 1 .. Len(e.mem) : e.mem[j] = T[j]
  BY <1>5, <1>14, <1>16, <1>17
<1>20. ListSoFar(list, i, e)
  BY <1>16, <1>18, <1>19 DEF ListSoFar, T, n, next
<1>. QED BY <1>15, <1>20 DEF n

LEMMA ListRead ==
    ASSUME NEW list, ListOfInt16(list), list # <<>>
    PROVE  StringToIntList(IntListText(list)) = [kind |-> "l", list |-> list]
<1>. DEFINE T == IntListText(list)  n == Len(list)
            begin == [ok |-> TRUE, done |-> 0, pos |-> 2, mem |-> T]
            L == Loop(IntListStep(n), begin, n)
            S == {i \in Nat : ListSoFar(list, i, L[i])}
            count == 1 + Cardinality({j \in 2 .. Len(T) - 1 : T[j] = Comma})
<1>1. n \in Nat \ {0} /\ DOMAIN list = 1 .. n
  <2>1. list \in Seq(Int16s)
    BY DecimalsFacts
  <2>. QED BY <2>1
<1>2. /\ T \in Seq(Byte) /\ Len(T) \in Nat /\ T[1] = Open /\ T[Len(T)] = Close
      /\ NumberStart(list, 1) = 2 /\ NumberStart(list, n + 1) = Len(T) + 1
  <2>1. 1 \in 1 .. n
    BY <1>1
  <2>. QED BY <2>1, ListTextFacts, ListFacts
<1>3. count = n
  <2>1. Cardinality({j \in 2 .. Len(T) - 1 : T[j] = Comma}) = n - 1
    BY CommasCounted
  <2>. HIDE DEF T, n
  <2>. QED BY <1>1, <2>1
<1>4. At(T, 1) = Open /\ At(T, 2) # Close /\ ~(Len(T) < 3)
  <2>. DEFINE w == Decimal(list[1])
  <2>1. Len(w) \in Nat \ {0} /\ \A j \in 1 .. Len(w) : w[j] = Minus \/ w[j] \in Zero .. Zero + 9
    <3>1. list[1] \in Int16s
      <4>1. 1 \in 1 .. n
        BY <1>1
      <4>. QED BY <4>1, DecimalsFacts
    <3>. QED BY <3>1, Int16Written
  <2>2. /\ NumberStart(list, 1 + 1) = 2 + Len(w) + 1 /\ NumberStart(list, 1 + 1) <= Len(T) + 1
        /\ Stands(T, 2, w)
    <3>1. InList(list, 1)
      <4>1. 1 \in 1 .. n
        BY <1>1
      <4>. QED BY <4>1, ListFacts
    <3>. QED BY <1>2, <3>1 DEF InList
  <2>. HIDE DEF w, T
  <2>3. Len(T) >= 3
    <3>1. PICK l \in Nat \ {0}, m \in Nat : l = Len(w) /\ m = Len(T)
      BY <1>2, <2>1
    <3>. QED BY <2>2, <3>1
  <2>4. T[2] = w[1]
    BY <2>1, <2>2, FirstStands
  <2>5. w[1] # Close
    <3>1. 1 \in 1 .. Len(w) /\ Close # Minus /\ Close \notin Zero .. Zero + 9
      BY <2>1 DEF Close, Minus, Zero
    <3>. QED BY <2>1, <3>1
  <2>6. At(T, 1) = T[1] /\ At(T, 2) = T[2]
    <3>1. 1 \in 1 .. Len(T) /\ 2 \in 1 .. Len(T)
      BY <1>2, <2>3
    <3>. QED BY <1>2, <3>1, AtInside
  <2>. QED BY <1>2, <2>3, <2>4, <2>5, <2>6
<1>. HIDE DEF T, n
<1>5. L[0] = begin /\ \A i \in 1 .. n : L[i] = IntListStep(n)[L[i - 1]]
  <2>. DEFINE step == IntListStep(n)
  <2>1. L = Loop(step, begin, n) /\ n \in Nat
    BY <1>1
  <2>. HIDE DEF L, step, begin
  <2>2. L[0] = begin /\ \A i \in 1 .. n : L[i] = step[L[i - 1]]
    BY <2>1, LoopUnfolds
  <2>. QED BY <2>2 DEF step
<1>. HIDE DEF L
<1>6. 0 \in S
  <2>1. begin \in ListReading
    BY <1>2 DEF ListReading
  <2>2. 0 < n /\ 0 + 1 = 1 /\ 2 * 0 + 1 = 1 /\ 1 .. 0 = {}
    BY <1>1
  <2>3. ListSoFar(list, 0, begin)
    BY <1>2, <2>1, <2>2 DEF ListSoFar, T, n
  <2>. QED BY <1>5, <2>3
<1>7. ASSUME NEW i \in 1 .. n, i - 1 \in S PROVE i \in S
  <2>1. i \in 1 .. Len(list) /\ ListSoFar(list, i - 1, L[i - 1]) /\ i \in Nat
    BY <1>1, <1>7 DEF n
  <2>2. ListSoFar(list, i, IntListStep(n)[L[i - 1]])
    BY <2>1, ListStep DEF n
  <2>. QED BY <1>5, <2>1, <2>2
<1>8. ListSoFar(list, n, L[n])
  <2>1. n \in Nat /\ n \in 0 .. n
    BY <1>1
  <2>2. \A i \in 0 .. n : i \in S
    <3>. HIDE DEF S
    <3>. QED BY <1>6, <1>7, <2>1, Induction
  <2>. QED BY <2>1, <2>2
<1>. DEFINE end == L[n]
<1>9. /\ end \in ListReading /\ end.ok = TRUE /\ end.pos = NumberStart(list, n + 1) - 1
      /\ Len(end.mem) = Len(T)
      /\ \A j \in 2 * n + 1 .. Len(end.mem) : end.mem[j] = T[j]
      /\ \A k \in 1 .. n : /\ end.mem[2 * k - 1] = Int16Bytes(list[k])[1]
                           /\ end.mem[2 * k] = Int16Bytes(list[k])[2]
  <2>1. ~(n < n)
    BY <1>1
  <2>. QED BY <1>8, <2>1 DEF ListSoFar, T, n
<1>. HIDE DEF end
<1>10. At(end.mem, end.pos) = Close
  <2>1. end.pos = Len(T)
    BY <1>2, <1>9
  <2>2. Len(T) >= 2 * n + 1
    <3>1. /\ NumberStart(list, n) \in Nat /\ NumberStart(list, n) >= 2 * n
          /\ NumberStart(list, n + 1) >= NumberStart(list, n) + 2
      <4>1. n \in 1 .. Len(list)
        BY <1>1 DEF n
      <4>. QED BY <4>1, NumbersApart
    <3>. QED BY <1>1, <1>2, <3>1
  <2>3. /\ Len(T) \in 2 * n + 1 .. Len(end.mem) /\ Len(T) \in 1 .. Len(end.mem)
        /\ end.mem \in Seq(Byte)
    BY <1>1, <1>2, <1>9, <2>2 DEF ListReading
  <2>4. end.mem[Len(T)] = Close
    BY <1>2, <1>9, <2>3
  <2>5. At(end.mem, Len(T)) = end.mem[Len(T)]
    BY <2>3, AtInside
  <2>. QED BY <2>1, <2>4, <2>5
<1>11. [i \in 1 .. n |-> Int16(end.mem[2 * i - 1], end.mem[2 * i])] = list
  <2>. DEFINE f == [i \in 1 .. n |-> Int16(end.mem[2 * i - 1], end.mem[2 * i])]
  <2>1. ASSUME NEW i \in 1 .. n PROVE Int16(end.mem[2 * i - 1], end.mem[2 * i]) = list[i]
    <3>1. list[i] \in Int16s
      BY DecimalsFacts DEF n
    <3>2. Int16(Int16Bytes(list[i])[1], Int16Bytes(list[i])[2]) = list[i]
      BY <3>1, Int16Undone
    <3>. QED BY <1>9, <3>2
  <2>2. list \in Seq(Int16s)
    BY DecimalsFacts
  <2>3. list = [i \in 1 .. n |-> list[i]]
    BY <1>1, <2>2
  <2>. QED BY <2>1, <2>3
<1>12. StringToIntList(T) = [kind |-> "l", list |-> list]
  <2>. DEFINE last(c) == Loop(IntListStep(c), [ok |-> TRUE, done |-> 0, pos |-> 2, mem |-> T], c)[c]
              read(c) == [kind |-> "l", list |-> [i \in 1 .. c |->
                             Int16(last(c).mem[2 * i - 1], last(c).mem[2 * i])]]
              good(c) == Len(T) >= 3 /\ At(T, 1) = Open /\ last(c).ok
                           /\ At(last(c).mem, last(c).pos) = Close
  <2>1. StringToIntList(T)
          = IF At(T, 1) = Open /\ At(T, 2) = Close THEN [kind |-> "l", list |-> <<>>]
            ELSE IF good(count) THEN read(count) ELSE Bad
    BY Zenon DEF StringToIntList
  <2>. HIDE DEF read, good, count
  <2>2. StringToIntList(T) = IF good(n) THEN read(n) ELSE Bad
    BY <1>3, <1>4, <2>1
  <2>3. last(n) = end
    BY Zenon DEF end, L
  <2>. HIDE DEF last
  <2>4. read(n) = [kind |-> "l", list |-> list]
    BY <1>11, <2>3 DEF read
  <2>5. good(n)
    <3>1. Len(T) >= 3
      BY <1>2, <1>4
    <3>. QED BY <1>4, <1>9, <1>10, <2>3, <3>1 DEF good
  <2>. QED BY <2>2, <2>4, <2>5
<1>. QED BY <1>12 DEF T

LEMMA ListReadsBack ==
    ASSUME NEW list, ListOfInt16(list)
    PROVE  /\ ReadsBack([kind |-> "l", list |-> list])
           /\ WriteArg([kind |-> "l", list |-> list]) = IntListText(list)
<1>. DEFINE v == [kind |-> "l", list |-> list]  p == IntListText(list)
<1>1. v.kind = "l" /\ v.list = list /\ v \in Value
  <2>1. v \in ListValues
    <3>1. Int16s \subseteq Int
      BY Int16Undone
    <3>2. list \in Seq(Int)
      BY <3>1, DecimalsFacts, InLargerSet
    <3>. QED BY <3>2 DEF ListValues
  <2>2. v.kind = "l" /\ v.list = list
    OBVIOUS
  <2>. HIDE DEF v
  <2>. QED BY <2>1, <2>2, ValueKinds
<1>. HIDE DEF v
<1>2. p \in Seq(Byte) /\ OneParam(p)
  BY ListTextFacts
<1>3. WriteArg(v) = p
  BY <1>1 DEF WriteArg
<1>4. StringToIntList(p) = [kind |-> "l", list |-> list]
  <2>1. CASE list # <<>>
    BY <2>1, ListRead
  <2>2. CASE list = <<>>
    <3>. DEFINE u == Between(Decimals(list), Comma)
    <3>1. u = <<>>
      <4>1. Decimals(list) = <<>>
        BY <2>2 DEF Decimals
      <4>2. Between(<<>>, Comma) = <<>>
        <5>1. [i \in DOMAIN <<>> |-> (IF i > 1 THEN <<Comma>> ELSE <<>>) \o <<>>[i]] = <<>>
          OBVIOUS
        <5>2. <<>> \in Seq(Seq(Byte)) /\ Len(<<>>) = 0
          OBVIOUS
        <5>3. Joined(<<>>)[0] = <<>>
          BY <5>2, JoinedParts
        <5>. QED BY <5>1, <5>2, <5>3 DEF Between
      <4>. QED BY <4>1, <4>2
    <3>2. u \in Seq(Byte) /\ Len(u) = 0
      BY <3>1
    <3>. HIDE DEF u
    <3>3. /\ Bracketed(u) \in Seq(Byte) /\ Len(Bracketed(u)) = 0 + 2
          /\ Bracketed(u)[1] = Open /\ Bracketed(u)[0 + 2] = Close
      BY <3>2, BracketedFacts
    <3>4. p = Bracketed(u)
      BY ListTextFacts DEF u
    <3>5. 0 + 2 = 2
      OBVIOUS
    <3>6. At(p, 1) = Open /\ At(p, 2) = Close
      <4>1. 1 \in 1 .. Len(p) /\ 2 \in 1 .. Len(p)
        BY <3>3, <3>4, <3>5
      <4>. QED BY <1>2, <3>3, <3>4, <3>5, <4>1, AtInside
    <3>. HIDE DEF p
    <3>7. StringToIntList(p) = [kind |-> "l", list |-> <<>>]
      BY <3>6 DEF StringToIntList
    <3>. QED BY <2>2, <3>7
  <2>. QED BY <2>1, <2>2
<1>5. ParseParam("l", p) = v
  BY <1>4 DEF ParseParam, v
<1>. QED BY <1>1, <1>2, <1>3, <1>5 DEF ReadsBack, v, p

-----------------------------------------------------------------------------
(* Every argument is written in bytes that print. *)

LEMMA InSeq ==
    ASSUME NEW A, NEW B, NEW t \in Seq(A), \A i \in 1 .. Len(t) : t[i] \in B
    PROVE  t \in Seq(B)
<1>1. t \in [1 .. Len(t) -> B] /\ Len(t) \in Nat
  OBVIOUS
<1>2. \E n \in Nat : t \in [1 .. n -> B]
  BY <1>1
<1>. QED BY <1>2

LEMMA BytesPrint ==
    /\ Printing = 32 .. 126
    /\ Zero .. Zero + 9 \subseteq Printing /\ HexDigits \subseteq Printing
    /\ {Minus, Comma, Dot, Colon, Open, Close, Quote, Backslash, LowerX, LowerR, LowerP}
         \subseteq Printing
    /\ {LowerR, LowerN, LowerT, LowerB, Zero, Quote, Backslash} \subseteq Printing
    /\ \A c : IsPrint(c) => c \in Printing
BY DEF Printing, HexDigits, Zero, UpperA, Minus, Comma, Dot, Colon, Open, Close, Quote, Backslash,
       LowerX, LowerR, LowerP, LowerN, LowerT, LowerB, IsPrint

LEMMA BetweenPrints ==
    ASSUME NEW parts \in Seq(Seq(Printing)), NEW separator \in Printing
    PROVE  Between(parts, separator) \in Seq(Printing)
BY SeparatedFacts

LEMMA EnclosedPrints ==
    ASSUME NEW t \in Seq(Printing)
    PROVE  Bracketed(t) \in Seq(Printing) /\ Quoted(t) \in Seq(Printing)
<1>1. <<Open>> \in Seq(Printing) /\ <<Close>> \in Seq(Printing) /\ <<Quote>> \in Seq(Printing)
  BY BytesPrint
<1>2. <<Open>> \o t \in Seq(Printing) /\ <<Quote>> \o t \in Seq(Printing)
  BY <1>1, ConcatProperties
<1>3. <<Open>> \o t \o <<Close>> \in Seq(Printing) /\ <<Quote>> \o t \o <<Quote>> \in Seq(Printing)
  BY <1>1, <1>2, ConcatProperties
<1>. QED BY <1>3 DEF Bracketed, Quoted

\* A function on an interval that starts at one, as a sequence
LEMMA ListIsSeq ==
    ASSUME NEW A, NEW n \in Nat, NEW f \in [1 .. n -> A]
    PROVE  f \in Seq(A) /\ Len(f) = n /\ DOMAIN f = 1 .. n
<1>1. \E k \in Nat : f \in [1 .. k -> A]
  OBVIOUS
<1>2. f \in Seq(A)
  BY <1>1
<1>. QED BY <1>2, LenProperties

LEMMA EscapePrints ==
    ASSUME NEW t \in Seq(Byte)
    PROVE  Escape(t) \in Seq(Printing)
<1>. DEFINE n == Len(t)  P == [i \in 1 .. n |-> EscapeCharacter(t[i])]
<1>1. n \in Nat /\ \A i \in 1 .. n : t[i] \in Byte
  OBVIOUS
<1>2. ASSUME NEW c \in Byte PROVE EscapeCharacter(c) \in Seq(Printing)
  <2>. DEFINE w == EscapeCharacter(c)
  <2>0. w \in Seq(Byte) /\ Len(w) \in 1 .. 4
    BY EscapeCases
  <2>1. CASE c \in DOMAIN Escaped /\ w = <<Backslash, Escaped[c]>>
    <3>1. Escaped[c] \in Printing /\ Backslash \in Printing
      BY <2>1, EscapedFacts, BytesPrint
    <3>. QED BY <2>1, <3>1
  <2>2. CASE Plainly(c) /\ w = <<c>>
    <3>1. c \in Printing
      BY <2>2, BytesPrint DEF Plainly
    <3>. QED BY <2>2, <3>1
  <2>3. CASE /\ Len(w) = 4 /\ w[1] = Backslash /\ w[2] = LowerX
             /\ w[3] = ByteToHex(c)[1] /\ w[4] = ByteToHex(c)[2]
    <3>1. ByteToHex(c)[1] \in Printing /\ ByteToHex(c)[2] \in Printing
          /\ Backslash \in Printing /\ LowerX \in Printing
      BY HexFacts, BytesPrint
    <3>. HIDE DEF w
    <3>2. \A i \in 1 .. Len(w) : w[i] \in Printing
      <4>1. \A i \in 1 .. 4 : i = 1 \/ i = 2 \/ i = 3 \/ i = 4
        OBVIOUS
      <4>. QED BY <2>3, <3>1, <4>1
    <3>. QED BY <2>0, <3>2, InSeq DEF w
  <2>. QED BY <2>1, <2>2, <2>3, EscapeCases
<1>3. P \in [1 .. n -> Seq(Printing)]
  BY <1>1, <1>2
<1>. HIDE DEF P, n
<1>4. P \in Seq(Seq(Printing)) /\ Len(P) = n
  BY <1>1, <1>3, ListIsSeq
<1>5. Joined(P)[n] \in Seq(Printing)
  <2>1. n \in 0 .. Len(P)
    BY <1>1, <1>4
  <2>. QED BY <1>4, <2>1, JoinedType
<1>. QED BY <1>5 DEF Escape, P, n

LEMMA HexTextPrints ==
    ASSUME NEW data \in Seq(Byte)
    PROVE  HexText(data) \in Seq(Printing)
<1>1. HexText(data) \in Seq(Byte)
  BY HexTextFacts
<1>2. \A i \in 1 .. Len(HexText(data)) : HexText(data)[i] \in Printing
  BY HexTextOrdinary, BytesPrint
<1>. QED BY <1>1, <1>2, InSeq

LEMMA DecimalPrints ==
    ASSUME NEW n \in Number
    PROVE  Decimal(n) \in Seq(Printing)
<1>1. Decimal(n) \in Seq(Byte)
  BY DecimalFacts
<1>2. \A i \in 1 .. Len(Decimal(n)) : Decimal(n)[i] \in Printing
  BY DecimalOrdinary, BytesPrint
<1>. QED BY <1>1, <1>2, InSeq

LEMMA OctetTextPrints ==
    ASSUME NEW a, FourBytes(a)
    PROVE  OctetText(a) \in Seq(Printing)
<1>1. a \in Seq(Byte) /\ Len(a) = 4 /\ \A i \in 1 .. 4 : a[i] \in Byte
  BY FourFacts
<1>2. \A i \in 1 .. 4 : Decimal(a[i]) \in Seq(Printing)
  BY <1>1, OctetWritten, DecimalPrints
<1>3. Octets(a) \in [1 .. 4 -> Seq(Printing)]
  <2>1. DOMAIN a = 1 .. 4
    BY <1>1
  <2>. QED BY <1>2, <2>1 DEF Octets
<1>4. Octets(a) \in Seq(Seq(Printing))
  BY <1>3, ListIsSeq
<1>5. Dot \in Printing
  BY BytesPrint
<1>. QED BY <1>4, <1>5, BetweenPrints DEF OctetText

LEMMA GroupsTextPrints ==
    ASSUME NEW a, EightGroups(a)
    PROVE  GroupsText(a) \in Seq(Printing)
<1>1. a \in Seq(UInt16) /\ Len(a) = 8 /\ \A i \in 1 .. 8 : a[i] \in UInt16
  BY EightFacts
<1>2. ASSUME NEW g \in UInt16 PROVE GroupText(g) \in Seq(Printing)
  <2>. DEFINE w == GroupText(g)
  <2>1. w \in Seq(Byte) /\ Len(w) = 4 /\ \A i \in 1 .. 4 : w[i] \in 48 .. 57 \cup 97 .. 102
    BY GroupFacts
  <2>. HIDE DEF w
  <2>0. 48 .. 57 \subseteq Printing /\ 97 .. 102 \subseteq Printing
    BY DEF Printing
  <2>2. \A i \in 1 .. Len(w) : w[i] \in Printing
    BY <2>0, <2>1
  <2>. QED BY <2>1, <2>2, InSeq DEF w
<1>3. Groups(a) \in [1 .. 8 -> Seq(Printing)]
  <2>1. DOMAIN a = 1 .. 8
    BY <1>1
  <2>. QED BY <1>1, <1>2, <2>1 DEF Groups
<1>4. Groups(a) \in Seq(Seq(Printing))
  BY <1>3, ListIsSeq
<1>5. Between(Groups(a), Colon) \in Seq(Printing)
  BY <1>4, BytesPrint, BetweenPrints
<1>. QED BY <1>5, EnclosedPrints DEF GroupsText

LEMMA IntListTextPrints ==
    ASSUME NEW list, ListOfInt16(list)
    PROVE  IntListText(list) \in Seq(Printing)
<1>. DEFINE u == Between(Decimals(list), Comma)
<1>1. u \in Seq(Byte) /\ \A j \in 1 .. Len(u) : u[j] \in InListText
  BY DecimalsFacts
<1>2. IntListText(list) = Bracketed(u)
  BY ListTextFacts
<1>. HIDE DEF u
<1>3. InListText \subseteq Printing
  BY BytesPrint DEF InListText, Minus, Comma
<1>4. u \in Seq(Printing)
  BY <1>1, <1>3, InSeq
<1>. QED BY <1>2, <1>4, EnclosedPrints

-----------------------------------------------------------------------------
(* Every argument arrives. *)

\* The text of an argument prints, and is read as the argument.
Arrives(v) == ReadsBack(v) /\ WriteArg(v) \in Seq(Printing)

LEMMA Int32Fits ==
    ASSUME NEW n \in Int32s
    PROVE  n \in Number
<1>1. PICK s \in Nat : s = UInt16Size /\ s = 256 * 256 /\ UInt16Size \div 2 = 128 * 256
  BY DEF UInt16Size
<1>2. MaxInt32 = (128 * 256 - 1) * s + (s - 1)
  BY <1>1 DEF MaxInt32
<1>3. PICK m \in Nat : m = MaxInt32 /\ m + 1 <= 1000 * 1000 * 1000 * 3
  BY <1>1, <1>2
<1>4. PICK p \in Nat : p = Power(4) /\ p >= 1000
  <2>1. 4 \in 4 .. 10 /\ 4 \in 1 .. 10
    OBVIOUS
  <2>. QED BY <2>1, PowerFacts
<1>5. Power(10) = 10 * (10 * (10 * (10 * (10 * (10 * p)))))
  <2>1. /\ 4 + 1 = 5 /\ 5 + 1 = 6 /\ 6 + 1 = 7 /\ 7 + 1 = 8 /\ 8 + 1 = 9 /\ 9 + 1 = 10
        /\ 4 \in 1 .. 9 /\ 5 \in 1 .. 9 /\ 6 \in 1 .. 9
        /\ 7 \in 1 .. 9 /\ 8 \in 1 .. 9 /\ 9 \in 1 .. 9
    OBVIOUS
  <2>2. Power(5) = 10 * Power(4) /\ Power(6) = 10 * Power(5) /\ Power(7) = 10 * Power(6)
    BY <2>1, PowerFacts
  <2>3. Power(8) = 10 * Power(7) /\ Power(9) = 10 * Power(8) /\ Power(10) = 10 * Power(9)
    BY <2>1, PowerFacts
  <2>. QED BY <1>4, <2>2, <2>3
<1>6. PICK q \in Nat : q = MostNumber /\ q = 10 * (10 * (10 * (10 * (10 * (10 * (10 * p)))))) - 1
  BY <1>4, <1>5 DEF MostNumber
<1>7. m + 1 <= q
  BY <1>3, <1>4, <1>6
<1>8. n \in -m - 1 .. m
  BY <1>3 DEF Int32s
<1>9. n \in -q .. q
  BY <1>7, <1>8
<1>. QED BY <1>6, <1>9 DEF Number

\* A text without a zero is a C string.
LEMMA WithoutZero ==
    ASSUME NEW t \in Seq(Byte \ {0})
    PROVE  t \in Seq(Byte) /\ CString(t) = t
<1>. DEFINE m == Len(t)
<1>1. t \in Seq(Byte) /\ m \in Nat /\ \A i \in 1 .. m : t[i] # 0
  <2>1. t \in Seq(Byte)
    BY InLargerSet
  <2>. QED BY <2>1
<1>. DEFINE IsEnd(i) == At(t, i) = 0 /\ \A j \in 1 .. i - 1 : t[j] # 0
            n == CHOOSE i \in 1 .. m + 1 : IsEnd(i)
<1>2. IsEnd(m + 1)
  BY <1>1 DEF At
<1>3. \A i \in 1 .. m : ~IsEnd(i)
  BY <1>1, AtInside
<1>. HIDE DEF IsEnd
<1>4. n = m + 1
  <2>1. m + 1 \in 1 .. m + 1 /\ \A i \in 1 .. m + 1 : i \in 1 .. m \/ i = m + 1
    BY <1>1
  <2>2. n \in 1 .. m + 1 /\ IsEnd(n)
    BY <1>2, <2>1
  <2>. HIDE DEF n
  <2>. QED BY <1>3, <2>1, <2>2
<1>5. CString(t) = SubSeq(t, 1, n - 1)
  BY DEF CString, IsEnd
<1>. HIDE DEF n
<1>6. n - 1 = m
  BY <1>1, <1>4
<1>7. SubSeq(t, 1, m) = t
  BY <1>1, WholeSequence
<1>. QED BY <1>1, <1>5, <1>6, <1>7

\* Sequences of a fixed length
LEMMA FixedLengths ==
    /\ \A a \in [1 .. 4 -> Byte] : FourBytes(a)
    /\ \A a \in [1 .. 8 -> UInt16] : EightGroups(a)
    /\ \A a \in [1 .. 6 -> Byte] : SixBytes(a)
<1>1. ASSUME NEW A, NEW n \in Nat PROVE \A f \in [1 .. n -> A] : f \in Seq(A) /\ Len(f) = n
  BY ListIsSeq
<1>2. 4 \in Nat /\ 8 \in Nat /\ 6 \in Nat
  OBVIOUS
<1>3. \A a \in [1 .. 4 -> Byte] : a \in Seq(Byte) /\ Len(a) = 4
  BY <1>1, <1>2
<1>4. \A a \in [1 .. 8 -> UInt16] : a \in Seq(UInt16) /\ Len(a) = 8
  BY <1>1, <1>2
<1>5. \A a \in [1 .. 6 -> Byte] : a \in Seq(Byte) /\ Len(a) = 6
  BY <1>1, <1>2
<1>. QED BY <1>3, <1>4, <1>5 DEF FourBytes, EightGroups, SixBytes

LEMMA NumberArrives ==
    ASSUME NEW v \in [kind : {"d"}, value : Int32s]
    PROVE  Arrives(v)
<1>1. v = [kind |-> "d", value |-> v.value] /\ v.value \in Int32s
  OBVIOUS
<1>2. v.value \in Number
  BY <1>1, Int32Fits
<1>3. ReadsBack(v) /\ WriteArg(v) = Decimal(v.value)
  BY <1>1, <1>2, NumberReadsBack
<1>. QED BY <1>2, <1>3, DecimalPrints DEF Arrives

LEMMA StringArrives ==
    ASSUME NEW v, KeepsEscapes(v.text),
           v \in [kind : {"s"}, text : Seq(Byte \ {0})] \cup [kind : {"$"}, text : Seq(Byte)]
    PROVE  Arrives(v)
<1>. DEFINE t == v.text
<1>1. /\ v = [kind |-> v.kind, text |-> t] /\ v.kind \in {"s", "$"} /\ t \in Seq(Byte)
      /\ v.kind = "s" => CString(t) = t
  <2>1. CASE v \in [kind : {"s"}, text : Seq(Byte \ {0})]
    <3>1. v = [kind |-> v.kind, text |-> v.text] /\ v.kind = "s" /\ v.text \in Seq(Byte \ {0})
      BY <2>1
    <3>. QED BY <3>1, WithoutZero
  <2>2. CASE v \in [kind : {"$"}, text : Seq(Byte)]
    BY <2>2
  <2>. QED BY <2>1, <2>2
<1>2. ReadsBack(v) /\ WriteArg(v) = Quoted(Escape(t))
  <2>. DEFINE k == v.kind
  <2>. HIDE DEF k, t
  <2>1. /\ ReadsBack([kind |-> k, text |-> t])
        /\ WriteArg([kind |-> k, text |-> t]) = Quoted(Escape(t))
    BY <1>1, StringReadsBack DEF k, t
  <2>. QED BY <1>1, <2>1 DEF k
<1>3. Quoted(Escape(t)) \in Seq(Printing)
  BY <1>1, EscapePrints, EnclosedPrints
<1>. QED BY <1>2, <1>3 DEF Arrives

LEMMA IpArrives ==
    ASSUME NEW v, FormatBufLen >= 42,
           v \in [kind : {"i"}, type : {"v4"}, part : [1 .. 4 -> Byte]]
                   \cup [kind : {"i"}, type : {"v6"}, part : [1 .. 8 -> 0 .. UInt16Size - 1]]
    PROVE  Arrives(v)
<1>. DEFINE a == v.part
<1>0. FormatBufLen >= 16
  BY AtTextAssumption
<1>1. CASE v \in [kind : {"i"}, type : {"v4"}, part : [1 .. 4 -> Byte]]
  <2>1. v = [kind |-> "i", type |-> "v4", part |-> a] /\ a \in [1 .. 4 -> Byte]
    BY <1>1
  <2>. HIDE DEF a
  <2>2. FourBytes(a)
    BY <2>1, FixedLengths
  <2>3. ReadsBack(v) /\ WriteArg(v) = OctetText(a)
    BY <1>0, <2>1, <2>2, IPv4ReadsBack
  <2>. QED BY <2>2, <2>3, OctetTextPrints DEF Arrives
<1>2. CASE v \in [kind : {"i"}, type : {"v6"}, part : [1 .. 8 -> 0 .. UInt16Size - 1]]
  <2>1. v = [kind |-> "i", type |-> "v6", part |-> a] /\ a \in [1 .. 8 -> UInt16]
    BY <1>2 DEF UInt16
  <2>. HIDE DEF a
  <2>2. EightGroups(a)
    BY <2>1, FixedLengths
  <2>3. ReadsBack(v) /\ WriteArg(v) = GroupsText(a)
    BY <2>1, <2>2, IPv6ReadsBack
  <2>. QED BY <2>2, <2>3, GroupsTextPrints DEF Arrives
<1>. QED BY <1>1, <1>2

LEMMA AddressArrives ==
    ASSUME NEW v, FormatBufLen >= 42,
           v \in [kind : {"m"}, address : [1 .. 6 -> Byte]]
                   \cup [kind : {"b"}, type : {"random", "public"}, address : [1 .. 6 -> Byte]]
    PROVE  Arrives(v)
<1>. DEFINE a == v.address  h == HexText(a)
<1>0. FormatBufLen >= 14 /\ FormatBufLen >= 13
  BY AtTextAssumption
<1>1. a \in [1 .. 6 -> Byte]
  OBVIOUS
<1>2. SixBytes(a) /\ a \in Seq(Byte)
  BY <1>1, FixedLengths DEF SixBytes
<1>3. h \in Seq(Printing)
  BY <1>2, HexTextPrints
<1>. HIDE DEF h
<1>4. CASE v \in [kind : {"m"}, address : [1 .. 6 -> Byte]]
  <2>1. v = [kind |-> "m", address |-> a]
    BY <1>4
  <2>. HIDE DEF a
  <2>2. ReadsBack(v) /\ WriteArg(v) = h
    BY <1>0, <1>2, <2>1, MacReadsBack DEF h
  <2>. QED BY <1>3, <2>2 DEF Arrives
<1>5. CASE v \in [kind : {"b"}, type : {"random", "public"}, address : [1 .. 6 -> Byte]]
  <2>. DEFINE type == v.type  q == <<IF type = "random" THEN LowerR ELSE LowerP>>
  <2>1. v = [kind |-> "b", type |-> type, address |-> a] /\ type \in {"random", "public"}
    BY <1>5
  <2>. HIDE DEF a, type
  <2>2. ReadsBack(v) /\ WriteArg(v) = h \o q
    BY <1>0, <1>2, <2>1, BdReadsBack DEF h
  <2>3. q \in Seq(Printing)
    BY BytesPrint
  <2>. HIDE DEF q
  <2>4. h \o q \in Seq(Printing)
    BY <1>3, <2>3, ConcatProperties
  <2>. QED BY <2>2, <2>4 DEF Arrives
<1>. QED BY <1>4, <1>5

LEMMA ListArrives ==
    ASSUME NEW v \in [kind : {"l"}, list : Seq(Int16s)]
    PROVE  Arrives(v)
<1>. DEFINE l == v.list
<1>1. v = [kind |-> "l", list |-> l] /\ ListOfInt16(l)
  BY DEF ListOfInt16
<1>. HIDE DEF l
<1>2. ReadsBack(v) /\ WriteArg(v) = IntListText(l)
  BY <1>1, ListReadsBack
<1>. QED BY <1>1, <1>2, IntListTextPrints DEF Arrives

LEMMA HexArrives ==
    ASSUME NEW v \in [kind : {"h"}, data : Seq(Byte)]
    PROVE  Arrives(v)
<1>. DEFINE d == v.data
<1>1. v = [kind |-> "h", data |-> d] /\ d \in Seq(Byte)
  OBVIOUS
<1>. HIDE DEF d
<1>2. ReadsBack(v) /\ WriteArg(v) = HexText(d)
  BY <1>1, HexReadsBack
<1>. QED BY <1>1, <1>2, HexTextPrints DEF Arrives

LEMMA ArgumentArrives ==
    ASSUME NEW v \in Argument, v.kind \in {"s", "$"} => KeepsEscapes(v.text), FormatBufLen >= 42
    PROVE  Arrives(v)
<1>1. CASE v \in [kind : {"d"}, value : Int32s]
  BY <1>1, NumberArrives
<1>2. CASE v \in [kind : {"s"}, text : Seq(Byte \ {0})] \cup [kind : {"$"}, text : Seq(Byte)]
  <2>1. v.kind \in {"s", "$"}
    BY <1>2
  <2>. QED BY <1>2, <2>1, StringArrives
<1>3. CASE v \in [kind : {"i"}, type : {"v4"}, part : [1 .. 4 -> Byte]]
                   \cup [kind : {"i"}, type : {"v6"}, part : [1 .. 8 -> 0 .. UInt16Size - 1]]
  BY <1>3, IpArrives
<1>4. CASE v \in [kind : {"m"}, address : [1 .. 6 -> Byte]]
                   \cup [kind : {"b"}, type : {"random", "public"}, address : [1 .. 6 -> Byte]]
  BY <1>4, AddressArrives
<1>5. CASE v \in [kind : {"l"}, list : Seq(Int16s)]
  BY <1>5, ListArrives
<1>6. CASE v \in [kind : {"h"}, data : Seq(Byte)]
  BY <1>6, HexArrives
<1>. QED BY <1>1, <1>2, <1>3, <1>4, <1>5, <1>6, Zenon DEF Argument

-----------------------------------------------------------------------------
(* Arguments on the line. *)

LEMMA ArgumentsPrint ==
    ASSUME NEW args \in Seq(Value), \A i \in 1 .. Len(args) : Arrives(args[i])
    PROVE  Arguments(args) \in Seq(Printing)
<1>. DEFINE n == Len(args)  P == ArgumentParts(args)
<1>1. n \in Nat /\ Arguments(args) = Joined(P)[n]
  BY PartsFacts DEF Arrives
<1>2. ASSUME NEW i \in 1 .. n PROVE P[i] \in Seq(Printing)
  <2>. DEFINE w == WriteArg(args[i])
  <2>1. w \in Seq(Printing)
    BY DEF Arrives
  <2>2. <<Comma>> \in Seq(Printing)
    BY BytesPrint
  <2>3. P[i] = IF i > 1 THEN <<Comma>> \o w ELSE w
    BY DEF ArgumentParts
  <2>. HIDE DEF w, P
  <2>4. <<Comma>> \o w \in Seq(Printing)
    BY <2>1, <2>2, ConcatProperties
  <2>. QED BY <2>1, <2>3, <2>4
<1>3. P \in Seq(Seq(Printing)) /\ Len(P) = n
  <2>1. P \in [1 .. n -> Seq(Printing)]
    BY <1>2 DEF ArgumentParts
  <2>. QED BY <1>1, <2>1, ListIsSeq
<1>. HIDE DEF P
<1>4. n \in 0 .. Len(P)
  BY <1>1, <1>3
<1>. QED BY <1>1, <1>3, <1>4, JoinedType

\* Arguments that arrive one by one arrive together.
LEMMA AllArrive ==
    ASSUME NEW args \in Seq(Argument), FormatBufLen >= 42,
           \A i \in 1 .. Len(args) :
               args[i].kind \in {"s", "$"} => KeepsEscapes(args[i].text)
    PROVE  args \in Seq(Value) /\ \A i \in 1 .. Len(args) : ReadsBack(args[i]) /\ Arrives(args[i])
<1>1. \A i \in 1 .. Len(args) : args[i] \in Argument
  OBVIOUS
<1>2. \A i \in 1 .. Len(args) : Arrives(args[i])
  BY <1>1, ArgumentArrives
<1>3. \A i \in 1 .. Len(args) : ReadsBack(args[i]) /\ args[i] \in Value
  BY <1>2 DEF Arrives, ReadsBack
<1>4. args \in Seq(Value)
  BY <1>3, InSeq
<1>. QED BY <1>2, <1>3, <1>4

\* What is written of arguments of every kind, in whatever order and however many, is
\* read as these arguments: the strings with their quotes, commas and escapes, and the
\* lists and hex strings that are converted where they stand.
THEOREM ArgumentsTheorem ==
    ASSUME NEW args \in Seq(Argument), args # <<>>, FormatBufLen >= 42,
           \A i \in 1 .. Len(args) :
               args[i].kind \in {"s", "$"} => KeepsEscapes(args[i].text)
    PROVE  ParseParams(Arguments(args), Formats(args)) = [ret |-> Len(args), vals |-> args]
BY AllArrive, ArgumentsRead

-----------------------------------------------------------------------------
(* What a log holds of a line. *)

\* The parameters are what the line has behind what was expected of it.
Parameters(e) ==
    IF e.kind = "rsp" /\ Answers(e.line, e.expected) THEN Behind(e.line, Len(e.expected))
    ELSE e.line

WithParams == {e \in Entries : e.params = Parameters(e)}

ParamsInv == log \in Seq(WithParams) /\ bin.entry \in WithParams

LEMMA EntryHasParams ==
    ASSUME BufferInv, NEW kind \in Kinds, NEW line \in Texts, NEW room \in Int
    PROVE  Entry(kind, line, room) \in WithParams
<1>. DEFINE e == Entry(kind, line, room)
<1>1. executing \in BOOLEAN /\ expected \in Texts
  BY DEF BufferInv, TypeOK
<1>2. e \in Entries /\ e.kind = kind /\ e.line = line /\ e.expected = expected
  BY <1>1, EntryFacts
<1>3. e.params = IF kind = "rsp" /\ IsExpected(line) THEN Behind(line, Len(expected)) ELSE line
  BY DEF Entry
<1>. HIDE DEF e
<1>4. e \in WithParams
  BY <1>2, <1>3 DEF WithParams, Parameters, IsExpected
<1>. QED BY <1>4 DEF e

LEMMA DataLeaveParams ==
    ASSUME NEW e \in WithParams, NEW d \in Texts
    PROVE  [e EXCEPT !.data = d] \in WithParams
<1>. DEFINE f == [e EXCEPT !.data = d]
<1>1. e \in Entries /\ e.params = Parameters(e)
  BY DEF WithParams
<1>2. /\ f \in Entries /\ f.line = e.line /\ f.kind = e.kind /\ f.params = e.params
      /\ f.expected = e.expected
  BY <1>1 DEF Entries
<1>. HIDE DEF f
<1>3. f \in WithParams
  BY <1>1, <1>2 DEF WithParams, Parameters
<1>. QED BY <1>3 DEF f

LEMMA LogsParams ==
    ASSUME log \in Seq(WithParams), NEW e \in WithParams, log' = Logged(e)
    PROVE  log' \in Seq(WithParams)
BY AppendProperties DEF Logged

LEMMA NoEntryHasParams == NoBinary.entry \in WithParams
<1>. DEFINE e == NoBinary.entry
<1>1. e = [kind |-> "none", line |-> <<>>, data |-> <<>>, room |-> NoRoom,
           executing |-> FALSE, expected |-> <<>>, params |-> <<>>]
  BY DEF NoBinary, Binary
<1>2. <<>> \in Texts /\ NoRoom \in Int
  BY EmptyText DEF NoRoom
<1>. HIDE DEF e
<1>3. e \in Entries
  BY <1>1, <1>2 DEF Entries, Kinds
<1>4. e.params = Parameters(e)
  BY <1>1 DEF Parameters
<1>. QED BY <1>3, <1>4 DEF WithParams, e

\* A transfer that goes on, or is over.
LEMMA EndKeepsParams ==
    ASSUME ParamsInv, NEW b, Field(b), b.entry \in WithParams, EndBinary(b)
    PROVE  ParamsInv'
<1>1. CASE b.remaining > 0
  BY <1>1 DEF EndBinary, ParamsInv
<1>2. CASE ~(b.remaining > 0)
  <2>1. bin' = NoBinary /\ log' = Logged([b.entry EXCEPT !.data = b.buf])
    BY <1>2 DEF EndBinary
  <2>2. b.buf \in Texts
    BY DEF Field
  <2>3. [b.entry EXCEPT !.data = b.buf] \in WithParams
    BY <2>2, DataLeaveParams
  <2>. QED BY <2>1, <2>3, LogsParams, NoEntryHasParams DEF ParamsInv
<1>. QED BY <1>1, <1>2

LEMMA KindOfLine ==
    ASSUME NEW line
    PROVE  Classify(line) \in Kinds
BY DEF Classify, Kinds

LEMMA LengthKeepsParams ==
    ASSUME BufferInv, ParamsInv, ReadLength
    PROVE  ParamsInv'
<1>. DEFINE length == 256 * lengthBuf'[1] + lengthBuf'[2]
<1>1. length \in 0 .. MaxLength
  BY LengthFacts
<1>2. \E room \in RoomFor(rx) : EndBinary(Setup(rx, room, length))
  BY DEF ReadLength
<1>. HIDE DEF length
<1>3. PICK room \in RoomFor(rx) : EndBinary(Setup(rx, room, length))
  BY <1>2
<1>4. rx \in Texts /\ room \in Int /\ rspRoom \in Nat \cup {NoBuffer} /\ Classify(rx) \in Kinds
  BY RoomFacts, KindOfLine DEF BufferInv, TypeOK
<1>5. Setup(rx, room, length).entry \in WithParams
  <2>1. \A kind \in Kinds, n \in Int : Entry(kind, rx, n) \in WithParams
    BY <1>4, EntryHasParams
  <2>2. \A entry, size, n : Binary(entry, size, n).entry = entry
    BY DEF Binary
  <2>3. "rsp" \in Kinds /\ "urc" \in Kinds /\ "dropped" \in Kinds
    BY DEF Kinds
  <2>. DEFINE size == IF rspRoom = NoBuffer THEN 0 ELSE rspRoom
              kind == IF Classify(rx) = "urc" THEN "dropped" ELSE Classify(rx)
  <2>4. size \in Int /\ kind \in Kinds
    BY <1>4, <2>3
  <2>5. \/ Setup(rx, room, length) = Binary(Entry("rsp", rx, size), size, length)
        \/ Setup(rx, room, length) = Binary(Entry("urc", rx, room), room, length)
        \/ Setup(rx, room, length) = Binary(Entry(kind, rx, room), 0, length)
    BY DEF Setup
  <2>. HIDE DEF size, kind
  <2>. QED BY <1>4, <2>1, <2>2, <2>3, <2>4, <2>5
<1>6. Field(Setup(rx, room, length))
  BY <1>1, SetupFields
<1>. QED BY <1>3, <1>5, <1>6, EndKeepsParams

LEMMA ParamsInit == Init => ParamsInv
BY NoEntryHasParams, EmptySeq DEF Init, ParamsInv

LEMMA ParamsStep == BufferInv /\ ParamsInv /\ [Next]_vars => ParamsInv'
<1>. SUFFICES ASSUME BufferInv, ParamsInv, [Next]_vars PROVE ParamsInv'
  OBVIOUS
<1>1. CASE \/ UNCHANGED vars \/ ReadStart \/ ReadChar \/ ReadOther \/ ReadPartOfLength
           \/ CmdBegin \/ CmdGivesUp
           \/ \E e \in Expectations, n \in RspBufferLens \cup {NoBuffer} :
                  CmdGetRspParamLine(e, n)
  <2>1. UNCHANGED <<log, bin>>
    BY <1>1 DEF vars, client, ReadStart, ReadChar, ReadOther, ReadPartOfLength, CmdBegin,
                CmdGivesUp, CmdGetRspParamLine
  <2>. QED BY <2>1 DEF ParamsInv
<1>2. CASE ReadLineEnd
  <2>. DEFINE kind(room) == IF Classify(rx) = "urc" /\ room = NoRoom THEN "dropped"
                            ELSE Classify(rx)
  <2>1. PICK room \in RoomFor(rx) : log' = Logged(Entry(kind(room), rx, room))
    BY <1>2 DEF ReadLineEnd
  <2>2. kind(room) \in Kinds
    BY KindOfLine DEF Kinds
  <2>3. rx \in Texts /\ room \in Int
    BY RoomFacts DEF BufferInv, TypeOK
  <2>. HIDE DEF kind
  <2>4. Entry(kind(room), rx, room) \in WithParams
    BY <2>2, <2>3, EntryHasParams
  <2>5. log' \in Seq(WithParams) /\ bin' = bin
    BY <1>2, <2>1, <2>4, LogsParams DEF ParamsInv, ReadLineEnd
  <2>. QED BY <2>5 DEF ParamsInv
<1>3. CASE ReadLength
  BY <1>3, LengthKeepsParams
<1>4. ASSUME NEW n \in 1 .. Len(wire), ReadData(n) \/ FlushData(n)
      PROVE  ParamsInv'
  <2>1. PICK b : Field(b) /\ b.entry = bin.entry /\ EndBinary(b)
    BY <1>4, DataFields
  <2>2. b.entry \in WithParams
    BY <2>1 DEF ParamsInv
  <2>. QED BY <2>1, <2>2, EndKeepsParams
<1>. QED BY <1>1, <1>2, <1>3, <1>4 DEF Next

-----------------------------------------------------------------------------
(* What a message with arguments leaves. *)

\* All of a text that prints is kept if the buffer is larger.
LEMMA AllIsKept ==
    ASSUME NEW t \in Seq(Printing), Len(t) < RxBufferLen
    PROVE  Kept(Chosen(t, Printing)[Len(t)]) = t
<1>. DEFINE C == Chosen(t, Printing)  n == Len(t)
<1>1. n \in Nat /\ \A i \in 1 .. n : t[i] \in Printing
  OBVIOUS
<1>2. /\ C[0] = <<>> /\ \A i \in 0 .. n : C[i] \in Seq(Printing)
      /\ \A i \in 1 .. n : C[i] = IF t[i] \in Printing THEN Append(C[i - 1], t[i]) ELSE C[i - 1]
  BY ChosenFacts
<1>. HIDE DEF C
<1>. DEFINE Same(i) == Len(C[i]) = i /\ \A j \in 1 .. i : C[i][j] = t[j]
            S == {i \in Nat : Same(i)}
<1>3. 0 \in S
  BY <1>2
<1>4. ASSUME NEW i \in 1 .. n, i - 1 \in S PROVE i \in S
  <2>. DEFINE c == C[i - 1]
  <2>1. i \in Nat /\ i - 1 \in 0 .. n /\ (i - 1) + 1 = i
    BY <1>1
  <2>2. c \in Seq(Printing) /\ Len(c) = i - 1 /\ \A j \in 1 .. i - 1 : c[j] = t[j]
    BY <1>2, <1>4, <2>1
  <2>3. C[i] = Append(c, t[i])
    BY <1>1, <1>2
  <2>. HIDE DEF c
  <2>4. /\ Len(C[i]) = i /\ C[i][i] = t[i]
        /\ \A j \in 1 .. i - 1 : C[i][j] = c[j]
    BY <1>1, <2>1, <2>2, <2>3, AppendProperties
  <2>5. \A j \in 1 .. i : j \in 1 .. i - 1 \/ j = i
    BY <2>1
  <2>6. Same(i)
    BY <2>2, <2>4, <2>5
  <2>. QED BY <2>1, <2>6
<1>. HIDE DEF S
<1>5. n \in S
  <2>1. S \subseteq Nat /\ n \in 0 .. n
    BY <1>1 DEF S
  <2>2. \A i \in 0 .. n : i \in S
    BY <1>1, <1>3, <1>4, Induction
  <2>. QED BY <2>1, <2>2
<1>6. C[n] = t
  <2>1. Len(C[n]) = n /\ \A j \in 1 .. n : C[n][j] = t[j]
    BY <1>5 DEF S
  <2>2. C[n] \in Seq(Printing)
    BY <1>1, <1>2
  <2>. QED BY <2>1, <2>2, SeqEqual
<1>7. Kept(t) = t
  <2>1. n % RxBufferLen = n
    <3>1. RxBufferLen \in Nat \ {0} /\ n \in 0 .. RxBufferLen - 1 /\ 0 \in Nat
      BY <1>1, AtParserAssumption
    <3>2. ((RxBufferLen * 0) + n) % RxBufferLen = n
      BY <3>1, DivisionIsUnique
    <3>3. (RxBufferLen * 0) + n = n
      BY <1>1, <3>1
    <3>. QED BY <3>2, <3>3
  <2>2. n - n = 0 /\ 0 + 1 = 1
    BY <1>1
  <2>3. Kept(t) = SubSeq(t, 1, n)
    BY <2>1, <2>2 DEF Kept, Behind
  <2>. QED BY <2>3, WholeSequence
<1>. QED BY <1>6, <1>7 DEF C

\* Behind the beginning of two texts is the second one.
LEMMA BehindFirst ==
    ASSUME NEW s \in Texts, NEW t \in Texts
    PROVE  Behind(s \o t, Len(s)) = t
<1>1. s \o t \in Texts /\ Len(s \o t) = Len(s) + Len(t) /\ Len(s) \in Nat /\ Len(t) \in Nat
  BY BothFacts DEF Texts
<1>2. \A i \in 1 .. Len(t) : (s \o t)[Len(s) + i] = t[i]
  BY <1>1 DEF Texts
<1>3. Len(s) \in 0 .. Len(s \o t) /\ Len(s \o t) - Len(s) = Len(t)
  BY <1>1
<1>4. /\ Behind(s \o t, Len(s)) \in Texts /\ Len(Behind(s \o t, Len(s))) = Len(t)
      /\ \A i \in 1 .. Len(t) : Behind(s \o t, Len(s))[i] = (s \o t)[Len(s) + i]
  BY <1>1, <1>3, BehindItems
<1>. QED BY <1>2, <1>4, SameText

LEMMA LogHasArguments ==
    ASSUME ParserInv, ParamsInv, MessagesArrive
    PROVE  ArgumentsArrive
<1>. SUFFICES ASSUME NEW i \in DOMAIN log, Lines[i].args # <<>>, log[i].kind = "rsp",
                     log[i].expected = Prefix
              PROVE  ParseParams(log[i].params, Formats(Lines[i].args))
                         = [ret |-> Len(Lines[i].args), vals |-> Lines[i].args]
  BY DEF ArgumentsArrive
<1>. DEFINE m == Lines[i]  e == log[i]
<1>1. m \in Messages
  <2>1. stream \in Seq(Messages) /\ Len(stream) \in Nat /\ log \in Seq(Entries)
    BY ParserFacts DEF ParserInv
  <2>2. Lines \in Seq(Messages)
    BY <2>1, ChosenFacts DEF Lines
  <2>3. i \in 1 .. Len(Lines)
    BY <2>1, <2>2 DEF MessagesArrive
  <2>. QED BY <2>2, <2>3
<1>2. e.line = Line[m]
  BY DEF MessagesArrive
<1>3. e \in WithParams
  BY DEF ParamsInv
<1>. HIDE DEF m, e
<1>. DEFINE args == m.args
<1>4. /\ args # <<>> /\ args \in Seq(Argument) /\ FormatBufLen >= 42
      /\ \A j \in 1 .. Len(args) : args[j].kind \in {"s", "$"} => KeepsEscapes(args[j].text)
      /\ m.text = Prefix \o Arguments(args) /\ Len(m.text) < RxBufferLen
      /\ Prefix \in Seq(Printing)
  BY <1>1, ArgumentsAssumption DEF m
<1>. HIDE DEF args
<1>5. Arguments(args) \in Seq(Printing)
  BY <1>4, AllArrive, ArgumentsPrint
<1>6. m.text \in Seq(Printing)
  BY <1>4, <1>5, ConcatProperties
<1>7. Line[m] = m.text
  BY <1>1, <1>4, <1>6, AllIsKept DEF Line
<1>8. Prefix \in Texts /\ Arguments(args) \in Texts
  <2>1. Printing \subseteq Byte
    BY DEF Printing, Byte, MaxByte
  <2>. QED BY <1>4, <1>5, <2>1, InLargerSet DEF Texts
<1>9. Behind(m.text, Len(Prefix)) = Arguments(args)
  BY <1>4, <1>8, BehindFirst
<1>10. e.params = Arguments(args)
  <2>1. e.line = m.text /\ e.kind = "rsp" /\ e.expected = Prefix /\ e.params = Parameters(e)
    BY <1>2, <1>3, <1>7 DEF WithParams, e
  <2>2. CASE Prefix # <<>>
    <3>1. SubSeq(m.text, 1, Len(Prefix)) = Prefix /\ Len(Prefix) <= Len(m.text)
      <4>1. /\ Len(Prefix) \in Nat /\ Len(Arguments(args)) \in Nat
            /\ Len(m.text) = Len(Prefix) + Len(Arguments(args)) /\ m.text \in Texts
            /\ \A j \in 1 .. Len(Prefix) : m.text[j] = Prefix[j]
        BY <1>4, <1>8, BothFacts, ConcatProperties DEF Texts
      <4>2. Len(Prefix) <= Len(m.text)
        BY <4>1
      <4>3. /\ FirstOf(m.text, Len(Prefix)) \in Texts
            /\ Len(FirstOf(m.text, Len(Prefix))) = Len(Prefix)
            /\ \A j \in 1 .. Len(Prefix) : FirstOf(m.text, Len(Prefix))[j] = m.text[j]
        BY <4>1, <4>2, FirstOfFacts
      <4>4. FirstOf(m.text, Len(Prefix)) = Prefix
        BY <1>8, <4>1, <4>3, SameText
      <4>5. FirstOf(m.text, Len(Prefix)) = SubSeq(m.text, 1, Len(Prefix))
        BY <4>1, <4>2 DEF FirstOf
      <4>. QED BY <4>2, <4>4, <4>5
    <3>2. Answers(e.line, e.expected)
      BY <2>1, <2>2, <3>1 DEF Answers, StartsWith
    <3>. QED BY <1>9, <2>1, <3>2 DEF Parameters
  <2>3. CASE Prefix = <<>>
    <3>1. ~Answers(e.line, e.expected)
      BY <2>1, <2>3 DEF Answers
    <3>2. m.text = Arguments(args)
      BY <1>4, <1>5, <2>3
    <3>. QED BY <2>1, <3>1, <3>2 DEF Parameters
  <2>. QED BY <2>2, <2>3
<1>11. ParseParams(Arguments(args), Formats(args)) = [ret |-> Len(args), vals |-> args]
  BY <1>4, ArgumentsTheorem
<1>. QED BY <1>10, <1>11 DEF args, m, e

\* A command that expects the response reads from its line the arguments that the
\* module wrote, all of them and each as it went in: for every list of arguments of
\* every kind, whatever came before it on the line and however reads have cut it up.
THEOREM ArgumentsArriveTheorem == Spec => []ArgumentsArrive
<1>. DEFINE Inv == ParserInv /\ ParamsInv
<1>1. Init => Inv
  BY ParserInit, ParamsInit
<1>2. Inv /\ [Next]_vars => Inv'
  BY ParserStep, ParamsStep DEF ParserInv
<1>3. Inv => ArgumentsArrive
  BY LogFits, LogHasArguments
<1>. HIDE DEF Inv
<1>. QED BY <1>1, <1>2, <1>3, PTL DEF Spec
=============================================================================
