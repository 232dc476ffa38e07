--------------------------- MODULE AtParserProofs ---------------------------
(***************************************************************************)
(* Two theorems about AtParser, for every length of the receive buffer,    *)
(* every buffer of a command and room in the URC queue, and for every      *)
(* stream of messages, cut into reads in whatever way.                     *)
(*                                                                         *)
(* The parser keeps within its buffers. Each reader takes bytes off the    *)
(* wire and may append to one buffer. What has to be looked at are the     *)
(* lengths: of what a read is asked for (no more than there is room for),  *)
(* of the header (two bytes, of which one may have been read) and of the   *)
(* data that remain, which a header gives as 16 bits.                      *)
(*                                                                         *)
(* The parser finds the messages that were sent. Its state never says      *)
(* where in the stream it is; the invariant does, by a message k and a     *)
(* number p of bytes of it that have been read, and says what the parser   *)
(* must hold there: in a text what the buffer keeps of the bytes that      *)
(* print, in a length its first byte, in data the first bytes of these,    *)
(* and always a log of what the messages before were. That p bytes are     *)
(* read and not p - 1 is what the steps have to agree on with the frames.  *)
(*                                                                         *)
(* What is sent, what is kept of a text and the lines there should be are  *)
(* accumulated along a sequence by one recursive function, Joined. What it *)
(* yields is proved by induction, as the claim that no number is the       *)
(* smallest to break it.                                                   *)
(***************************************************************************)
EXTENDS AtParser, SequenceTheorems, WellFoundedInduction, TLAPS

-----------------------------------------------------------------------------
(* Induction over numbers, by the least one that breaks a claim. *)

LEMMA Smallest ==
    ASSUME NEW S, S \subseteq Nat, S # {}
    PROVE  \E n \in S : \A k \in S : n <= k
<1>. DEFINE R == OpToRel(<, Nat)
<1>1. IsWellFoundedOn(R, Nat)
  BY NatLessThanWellFounded
<1>2. \A x, y \in Nat : y < x => <<y, x>> \in R
  BY DEF OpToRel
<1>. HIDE DEF R
<1>3. PICK n \in S : \A k \in S : ~ (<<k, n>> \in R)
  BY <1>1, WFMin
<1>4. ASSUME NEW k \in S PROVE n <= k
  <2>1. n \in Nat /\ k \in Nat
    OBVIOUS
  <2>2. ~(k < n)
    BY <1>2, <1>3, <2>1
  <2>. QED BY <2>1, <2>2
<1>. QED BY <1>4

\* What holds of 0, and of a number if it holds of the one before it, holds of all:
\* with the set of the numbers it holds of for the claim.
LEMMA Induction ==
    ASSUME NEW n \in Nat, NEW S, 0 \in S, \A i \in 1 .. n : i - 1 \in S => i \in S
    PROVE  \A i \in 0 .. n : i \in S
<1>. SUFFICES ASSUME ~(\A i \in 0 .. n : i \in S) PROVE FALSE
  OBVIOUS
<1>. DEFINE B == {i \in 0 .. n : i \notin S}
<1>1. B \subseteq Nat /\ B # {}
  OBVIOUS
<1>. HIDE DEF B
<1>2. PICK i \in B : \A k \in B : i <= k
  BY <1>1, Smallest
<1>3. i \in 1 .. n /\ i \notin S
  BY DEF B
<1>4. i - 1 \in 0 .. n /\ ~(i <= i - 1)
  BY <1>3
<1>5. i - 1 \in S
  BY <1>2, <1>4 DEF B
<1>. QED BY <1>3, <1>5

-----------------------------------------------------------------------------
(* Parts one behind the other. *)

LEMMA JoinedExists ==
    ASSUME NEW X, NEW parts \in Seq(X)
    PROVE  \E f : f = [i \in 0 .. Len(parts) |->
                           IF i = 0 THEN <<>> ELSE f[i - 1] \o parts[i]]
<1>. DEFINE Ends(n) == \E f : f = [i \in 0 .. n |->
                                       IF i = 0 THEN <<>> ELSE f[i - 1] \o parts[i]]
            S == {n \in Nat : Ends(n)}
<1>1. Len(parts) \in Nat
  OBVIOUS
<1>2. Ends(0)
  <2>. DEFINE f == [i \in 0 .. 0 |-> <<>>]
  <2>1. f = [i \in 0 .. 0 |-> IF i = 0 THEN <<>> ELSE f[i - 1] \o parts[i]]
    OBVIOUS
  <2>. HIDE DEF f
  <2>. QED BY <2>1
<1>3. ASSUME NEW n \in 1 .. Len(parts), Ends(n - 1)
      PROVE  Ends(n)
  <2>1. PICK g : g = [i \in 0 .. n - 1 |-> IF i = 0 THEN <<>> ELSE g[i - 1] \o parts[i]]
    BY <1>3
  <2>. DEFINE f == [i \in 0 .. n |-> IF i = n THEN g[n - 1] \o parts[n] ELSE g[i]]
  <2>2. \A i \in 0 .. n - 1 : f[i] = g[i]
    OBVIOUS
  <2>3. \A i \in 0 .. n : f[i] = IF i = 0 THEN <<>> ELSE f[i - 1] \o parts[i]
    <3>. TAKE i \in 0 .. n
    <3>1. CASE i = n
      <4>1. n \in 0 .. n /\ n - 1 \in 0 .. n - 1 /\ n # 0
        BY <1>1
      <4>3. f[n] = g[n - 1] \o parts[n]
        BY <4>1
      <4>2. f[n - 1] = g[n - 1]
        BY <2>2, <4>1
      <4>. HIDE DEF f
      <4>. QED BY <3>1, <4>1, <4>2, <4>3
    <3>2. CASE i # n /\ i = 0
      <4>1. 0 \in 0 .. n - 1
        OBVIOUS
      <4>2. g[0] = <<>>
        BY <2>1, <4>1
      <4>. HIDE DEF f
      <4>. QED BY <2>2, <3>2, <4>1, <4>2
    <3>3. CASE i # n /\ i # 0
      <4>1. i \in 0 .. n - 1 /\ i - 1 \in 0 .. n - 1
        BY <3>3
      <4>2. g[i] = g[i - 1] \o parts[i]
        BY <2>1, <3>3, <4>1
      <4>3. f[i] = g[i] /\ f[i - 1] = g[i - 1]
        BY <2>2, <4>1
      <4>. HIDE DEF f
      <4>. QED BY <3>3, <4>2, <4>3
    <3>. QED BY <3>1, <3>2, <3>3
  <2>4. f = [i \in 0 .. n |-> f[i]]
    OBVIOUS
  <2>. HIDE DEF f
  <2>5. f = [i \in 0 .. n |-> IF i = 0 THEN <<>> ELSE f[i - 1] \o parts[i]]
    BY <2>3, <2>4
  <2>. QED BY <2>5
<1>. HIDE DEF Ends
<1>4. 0 \in S /\ \A i \in 1 .. Len(parts) : i - 1 \in S => i \in S
  BY <1>1, <1>2, <1>3
<1>5. \A i \in 0 .. Len(parts) : i \in S
  BY <1>1, <1>4, Induction
<1>6. Ends(Len(parts))
  BY <1>1, <1>5
<1>. QED BY <1>6 DEF Ends

LEMMA JoinedUnfolds ==
    ASSUME NEW X, NEW parts \in Seq(X)
    PROVE  /\ Joined(parts)[0] = <<>>
           /\ \A i \in 1 .. Len(parts) :
                  Joined(parts)[i] = Joined(parts)[i - 1] \o parts[i]
<1>1. Joined(parts) = [i \in 0 .. Len(parts) |->
                          IF i = 0 THEN <<>> ELSE Joined(parts)[i - 1] \o parts[i]]
  <2>. DEFINE J == CHOOSE f : f = [i \in 0 .. Len(parts) |->
                                      IF i = 0 THEN <<>> ELSE f[i - 1] \o parts[i]]
  <2>1. J = [i \in 0 .. Len(parts) |-> IF i = 0 THEN <<>> ELSE J[i - 1] \o parts[i]]
    BY JoinedExists
  <2>2. Joined(parts) = J
    BY DEF Joined
  <2>. HIDE DEF J
  <2>. QED BY <2>1, <2>2
<1>2. Len(parts) \in Nat /\ 0 \in 0 .. Len(parts)
  OBVIOUS
<1>. DEFINE J == Joined(parts)
<1>3. J = [i \in 0 .. Len(parts) |-> IF i = 0 THEN <<>> ELSE J[i - 1] \o parts[i]]
  BY <1>1
<1>. HIDE DEF J
<1>4. J[0] = <<>>
  BY <1>2, <1>3, Zenon
<1>5. ASSUME NEW i \in 1 .. Len(parts) PROVE J[i] = J[i - 1] \o parts[i]
  <2>1. i \in 0 .. Len(parts) /\ i # 0
    BY <1>2
  <2>. QED BY <1>3, <2>1, Zenon
<1>. QED BY <1>4, <1>5 DEF J

\* What is joined after i parts.
LEMMA JoinedType ==
    ASSUME NEW S, NEW parts \in Seq(Seq(S)), NEW k \in 0 .. Len(parts)
    PROVE  Joined(parts)[k] \in Seq(S)
<1>. DEFINE T == {i \in Nat : Joined(parts)[i] \in Seq(S)}
<1>1. Len(parts) \in Nat
  OBVIOUS
<1>2. 0 \in T
  BY JoinedUnfolds, EmptySeq
<1>3. ASSUME NEW i \in 1 .. Len(parts), i - 1 \in T PROVE i \in T
  <2>1. Joined(parts)[i - 1] \in Seq(S) /\ parts[i] \in Seq(S) /\ i \in Nat
    BY <1>3, ElementOfSeq
  <2>2. Joined(parts)[i] = Joined(parts)[i - 1] \o parts[i]
    BY JoinedUnfolds
  <2>. QED BY <2>1, <2>2, ConcatProperties
<1>. HIDE DEF T
<1>4. k \in T
  BY <1>1, <1>2, <1>3, Induction
<1>. QED BY <1>4 DEF T

\* Later parts change nothing of what is joined before them.
LEMMA JoinedGrows ==
    ASSUME NEW S, NEW parts \in Seq(Seq(S)), NEW k \in 0 .. Len(parts),
           NEW n \in 0 .. Len(parts), k <= n
    PROVE  /\ Len(Joined(parts)[k]) <= Len(Joined(parts)[n])
           /\ \A i \in 1 .. Len(Joined(parts)[k]) : Joined(parts)[n][i] = Joined(parts)[k][i]
<1>. DEFINE J == Joined(parts)
            Has(n0) == /\ Len(J[k]) <= Len(J[n0])
                       /\ \A i \in 1 .. Len(J[k]) : J[n0][i] = J[k][i]
            T == {d \in Nat : k + d <= n => Has(k + d)}
<1>1. n - k \in Nat /\ k + (n - k) = n
  OBVIOUS
<1>2. \A i \in 0 .. Len(parts) : J[i] \in Seq(S) /\ Len(J[i]) \in Nat
  BY JoinedType
<1>3. \A i \in 1 .. Len(parts) : J[i] = J[i - 1] \o parts[i]
  BY JoinedUnfolds
<1>. HIDE DEF J
<1>4. 0 \in T
  BY <1>2
<1>5. ASSUME NEW d \in 1 .. n - k, d - 1 \in T PROVE d \in T
  <2>. DEFINE e == k + d - 1
  <2>1. d \in Nat /\ e \in 0 .. Len(parts) /\ e + 1 \in 1 .. Len(parts) /\ e <= n
        /\ k + (d - 1) = e /\ k + d = e + 1 /\ (e + 1) - 1 = e
    OBVIOUS
  <2>. HIDE DEF e
  <2>2. Has(e)
    BY <1>5, <2>1
  <2>3. J[e + 1] = J[e] \o parts[e + 1]
    BY <1>3, <2>1
  <2>4. parts[e + 1] \in Seq(S) /\ J[e] \in Seq(S) /\ J[k] \in Seq(S)
    BY <1>2, <2>1, ElementOfSeq
  <2>. DEFINE u == J[e + 1]  s == J[e]  t == parts[e + 1]  v == J[k]
  <2>5. u = s \o t /\ s \in Seq(S) /\ t \in Seq(S) /\ v \in Seq(S)
        /\ Len(v) <= Len(s) /\ \A i \in 1 .. Len(v) : s[i] = v[i]
    BY <2>2, <2>3, <2>4
  <2>. HIDE DEF u, s, t, v
  <2>6. /\ Len(u) = Len(s) + Len(t)
        /\ \A i \in 1 .. Len(s) + Len(t) : u[i] = IF i <= Len(s) THEN s[i] ELSE t[i - Len(s)]
    BY <2>5, ConcatProperties
  <2>7. Len(v) \in Nat /\ Len(s) \in Nat /\ Len(t) \in Nat
    BY <2>5
  <2>8. Len(v) <= Len(u)
    BY <2>5, <2>6, <2>7
  <2>9. ASSUME NEW i \in 1 .. Len(v) PROVE u[i] = v[i]
    <3>1. i \in 1 .. Len(s) + Len(t) /\ i <= Len(s)
      BY <2>5, <2>7
    <3>2. u[i] = s[i]
      BY <2>6, <3>1
    <3>. QED BY <2>5, <3>2
  <2>10. Has(e + 1)
    BY <2>8, <2>9 DEF u, v
  <2>. QED BY <2>1, <2>10
<1>. HIDE DEF T
<1>6. n - k \in T
  <2>1. \A i \in 0 .. n - k : i \in T
    BY <1>1, <1>4, <1>5, Induction
  <2>2. n - k \in 0 .. n - k
    BY <1>1
  <2>. QED BY <2>1, <2>2, Zenon
<1>7. Has(n)
  BY <1>1, <1>6 DEF T
<1>. QED BY <1>7 DEF J

-----------------------------------------------------------------------------
(* Items of pieces. *)

LEMMA BehindItems ==
    ASSUME NEW t \in Texts, NEW n \in 0 .. Len(t)
    PROVE  /\ Behind(t, n) \in Texts /\ Len(Behind(t, n)) = Len(t) - n
           /\ \A i \in 1 .. Len(t) - n : Behind(t, n)[i] = t[n + i]
<1>1. n + 1 \in Int /\ Len(t) \in Int /\ n <= Len(t) /\ \A i \in n + 1 .. Len(t) : t[i] \in Byte
  BY DEF Texts
<1>2. /\ SubSeq(t, n + 1, Len(t)) \in Seq(Byte)
      /\ Len(SubSeq(t, n + 1, Len(t)))
             = IF n + 1 <= Len(t) THEN Len(t) - (n + 1) + 1 ELSE 0
      /\ \A i \in 1 .. Len(t) - (n + 1) + 1 :
             SubSeq(t, n + 1, Len(t))[i] = t[(n + 1) + i - 1]
  BY <1>1, SubSeqProperties
<1>3. Len(SubSeq(t, n + 1, Len(t))) = Len(t) - n
  BY <1>1, <1>2
<1>4. ASSUME NEW i \in 1 .. Len(t) - n PROVE SubSeq(t, n + 1, Len(t))[i] = t[n + i]
  <2>1. i \in 1 .. Len(t) - (n + 1) + 1 /\ (n + 1) + i - 1 = n + i
    BY <1>1
  <2>2. SubSeq(t, n + 1, Len(t))[i] = t[(n + 1) + i - 1]
    BY <1>2, <2>1
  <2>. QED BY <2>1, <2>2
<1>. QED BY <1>2, <1>3, <1>4 DEF Behind, Texts

LEMMA SameText ==
    ASSUME NEW s \in Texts, NEW t \in Texts, Len(s) = Len(t), \A i \in 1 .. Len(s) : s[i] = t[i]
    PROVE  s = t
BY SeqEqual DEF Texts

LEMMA BehindBehind ==
    ASSUME NEW t \in Texts, NEW a \in 0 .. Len(t), NEW b \in 0 .. Len(t) - a
    PROVE  Behind(Behind(t, a), b) = Behind(t, a + b)
<1>1. Len(t) \in Nat
  BY DEF Texts
<1>2. /\ Behind(t, a) \in Texts /\ Len(Behind(t, a)) = Len(t) - a
      /\ \A i \in 1 .. Len(t) - a : Behind(t, a)[i] = t[a + i]
  BY BehindItems
<1>3. b \in 0 .. Len(Behind(t, a)) /\ a + b \in 0 .. Len(t)
  BY <1>1, <1>2
<1>. DEFINE u == Behind(t, a)  v == Behind(u, b)  w == Behind(t, a + b)  n == Len(t) - (a + b)
<1>4. v \in Texts /\ Len(v) = Len(u) - b /\ \A i \in 1 .. Len(u) - b : v[i] = u[b + i]
  BY <1>2, <1>3, BehindItems
<1>5. w \in Texts /\ Len(w) = n /\ \A i \in 1 .. n : w[i] = t[(a + b) + i]
  BY <1>3, BehindItems
<1>. HIDE DEF u, v, w
<1>6. Len(u) - b = n
  BY <1>1, <1>2 DEF u
<1>7. ASSUME NEW i \in 1 .. n PROVE v[i] = w[i]
  <2>1. b + i \in 1 .. Len(t) - a /\ a + (b + i) = (a + b) + i
    BY <1>1
  <2>2. u[b + i] = t[(a + b) + i]
    BY <1>2, <2>1 DEF u
  <2>. QED BY <1>4, <1>5, <1>6, <2>2
<1>. QED BY <1>4, <1>5, <1>6, <1>7, SameText DEF u, v, w

\* Bytes of a text that is appended to.
LEMMA AppendText ==
    ASSUME NEW t \in Texts, NEW c \in Byte
    PROVE  /\ Append(t, c) \in Texts /\ Len(Append(t, c)) = Len(t) + 1
           /\ \A i \in 1 .. Len(t) : Append(t, c)[i] = t[i]
           /\ Append(t, c)[Len(t) + 1] = c
BY AppendProperties DEF Texts

LEMMA FirstOfFacts ==
    ASSUME NEW t \in Texts, NEW n \in Nat
    PROVE  /\ FirstOf(t, n) \in Texts
           /\ Len(FirstOf(t, n)) = IF n < Len(t) THEN n ELSE Len(t)
           /\ \A i \in 1 .. Len(FirstOf(t, n)) : FirstOf(t, n)[i] = t[i]
<1>. DEFINE k == IF n < Len(t) THEN n ELSE Len(t)
<1>1. Len(t) \in Nat /\ k \in Nat /\ k <= Len(t)
  BY DEF Texts
<1>2. 1 \in Int /\ k \in Int /\ \A i \in 1 .. k : t[i] \in Byte
  BY <1>1 DEF Texts
<1>3. FirstOf(t, n) = SubSeq(t, 1, k)
  BY DEF FirstOf
<1>. HIDE DEF k
<1>4. /\ SubSeq(t, 1, k) \in Seq(Byte)
      /\ Len(SubSeq(t, 1, k)) = IF 1 <= k THEN k - 1 + 1 ELSE 0
      /\ \A i \in 1 .. k - 1 + 1 : SubSeq(t, 1, k)[i] = t[1 + i - 1]
  BY <1>2, SubSeqProperties
<1>5. Len(SubSeq(t, 1, k)) = k
  BY <1>1, <1>4
<1>6. \A i \in 1 .. k : SubSeq(t, 1, k)[i] = t[i]
  BY <1>1, <1>4
<1>. QED BY <1>3, <1>4, <1>5, <1>6 DEF Texts, k

\* Bytes behind other bytes.
LEMMA BothFacts ==
    ASSUME NEW s \in Texts, NEW t \in Texts
    PROVE  s \o t \in Texts /\ Len(s \o t) = Len(s) + Len(t)
BY ConcatProperties DEF Texts

-----------------------------------------------------------------------------
(* A buffer that starts over when it is full. *)

LEMMA Division ==
    ASSUME NEW b \in Nat \ {0}, NEW m \in Nat
    PROVE  /\ m \div b \in Nat /\ m % b \in 0 .. b - 1
           /\ m = (b * (m \div b)) + (m % b)
OBVIOUS

LEMMA SmallMultiple ==
    ASSUME NEW b \in Nat \ {0}, NEW q \in Nat, NEW p \in Nat,
           (b * q) - (b * p) < b, (b * p) - (b * q) < b
    PROVE  q = p
<1>1. CASE q >= p + 1
  <2>1. b * q >= b * (p + 1) /\ b * (p + 1) = (b * p) + b
    BY <1>1
  <2>2. (b * q) \in Nat /\ (b * p) \in Nat
    OBVIOUS
  <2>. QED BY <2>1, <2>2
<1>2. CASE p >= q + 1
  <2>1. b * p >= b * (q + 1) /\ b * (q + 1) = (b * q) + b
    BY <1>2
  <2>2. (b * q) \in Nat /\ (b * p) \in Nat
    OBVIOUS
  <2>. QED BY <2>1, <2>2
<1>. QED BY <1>1, <1>2

\* Quotient and remainder are the ones that add up.
LEMMA DivisionIsUnique ==
    ASSUME NEW b \in Nat \ {0}, NEW q \in Nat, NEW r \in 0 .. b - 1
    PROVE  ((b * q) + r) \div b = q /\ ((b * q) + r) % b = r
<1>. DEFINE m == (b * q) + r
            p == m \div b
            s == m % b
<1>1. m \in Nat /\ (b * q) \in Nat
  OBVIOUS
<1>. HIDE DEF m
<1>2. p \in Nat /\ s \in 0 .. b - 1 /\ m = (b * p) + s
  BY <1>1, Division
<1>. HIDE DEF p, s
<1>3. (b * p) \in Nat
  BY <1>2
<1>4. (b * q) - (b * p) < b /\ (b * p) - (b * q) < b
  BY <1>1, <1>2, <1>3 DEF m
<1>5. q = p
  BY <1>2, <1>4, SmallMultiple
<1>6. s = r
  BY <1>1, <1>2, <1>3, <1>5 DEF m
<1>. QED BY <1>5, <1>6 DEF p, s, m

LEMMA OneMore ==
    ASSUME NEW n \in Nat, NEW b \in Nat \ {0}
    PROVE  /\ n % b \in 0 .. b - 1 /\ n - (n % b) \in 0 .. n
           /\ (n + 1) % b = IF (n % b) + 1 = b THEN 0 ELSE (n % b) + 1
<1>. DEFINE q == n \div b
            r == n % b
<1>1. q \in Nat /\ r \in 0 .. b - 1 /\ n = (b * q) + r
  BY Division
<1>2. (b * q) \in Nat
  BY <1>1
<1>. HIDE DEF q, r
<1>3. n - r \in 0 .. n
  BY <1>1, <1>2
<1>4. CASE r + 1 = b
  <2>1. q + 1 \in Nat /\ (b * (q + 1)) = (b * q) + b /\ 0 \in 0 .. b - 1
    BY <1>1
  <2>2. n + 1 = (b * (q + 1)) + 0
    BY <1>1, <1>2, <1>4, <2>1
  <2>3. ((b * (q + 1)) + 0) % b = 0
    BY <2>1, DivisionIsUnique
  <2>. QED BY <1>1, <1>3, <1>4, <2>2, <2>3 DEF r
<1>5. CASE r + 1 # b
  <2>1. r + 1 \in 0 .. b - 1 /\ n + 1 = (b * q) + (r + 1)
    BY <1>1, <1>2, <1>5
  <2>2. ((b * q) + (r + 1)) % b = r + 1
    BY <1>1, <2>1, DivisionIsUnique
  <2>. QED BY <1>1, <1>3, <1>5, <2>1, <2>2 DEF r
<1>. QED BY <1>4, <1>5

LEMMA KeptFacts ==
    ASSUME NEW t \in Texts, NEW c \in Byte
    PROVE  /\ Kept(t) \in Texts /\ Len(Kept(t)) = Len(t) % RxBufferLen
           /\ Kept(Append(t, c)) = IF Len(Kept(t)) + 1 = RxBufferLen THEN <<>>
                                   ELSE Append(Kept(t), c)
<1>. DEFINE n == Len(t)  r == n % RxBufferLen  q == n - r  u == Append(t, c)
<1>1. n \in Nat /\ RxBufferLen \in Nat \ {0}
  BY AtParserAssumption DEF Texts
<1>2. /\ r \in 0 .. RxBufferLen - 1 /\ q \in 0 .. n
      /\ (n + 1) % RxBufferLen = IF r + 1 = RxBufferLen THEN 0 ELSE r + 1
  BY <1>1, OneMore
<1>3. Kept(t) = Behind(t, q)
  BY DEF Kept
<1>4. u \in Texts /\ Len(u) = n + 1 /\ (\A i \in 1 .. n : u[i] = t[i]) /\ u[n + 1] = c
  BY AppendText
<1>5. Kept(u) = Behind(u, (n + 1) - ((n + 1) % RxBufferLen))
  BY <1>4 DEF Kept
<1>6. r = n - q /\ r \in Nat /\ q \in Nat
  BY <1>1, <1>2
<1>. HIDE DEF r, q, u
<1>7. Behind(t, q) \in Texts /\ Len(Behind(t, q)) = n - q
      /\ \A i \in 1 .. n - q : Behind(t, q)[i] = t[q + i]
  BY <1>2, BehindItems
<1>8. Kept(u) = IF r + 1 = RxBufferLen THEN <<>> ELSE Append(Kept(t), c)
  <2>1. CASE r + 1 = RxBufferLen
    <3>1. Kept(u) = Behind(u, n + 1)
      BY <1>1, <1>2, <1>5, <2>1
    <3>2. Len(Behind(u, n + 1)) = 0 /\ Behind(u, n + 1) \in Texts
      BY <1>1, <1>4, BehindItems
    <3>. QED BY <2>1, <3>1, <3>2, EmptySeq DEF Texts
  <2>2. CASE r + 1 # RxBufferLen
    <3>1. (n + 1) - (r + 1) = q /\ q \in 0 .. Len(u) /\ Len(u) - q = r + 1
      BY <1>1, <1>2, <1>4, <1>6
    <3>2. Kept(u) = Behind(u, q)
      BY <1>2, <1>5, <2>2, <3>1
    <3>. DEFINE v == Behind(u, q)  w == Append(Behind(t, q), c)
    <3>3. v \in Texts /\ Len(v) = r + 1 /\ \A i \in 1 .. r + 1 : v[i] = u[q + i]
      BY <1>4, <3>1, BehindItems
    <3>4. /\ w \in Texts /\ Len(w) = r + 1 /\ w[r + 1] = c
          /\ \A i \in 1 .. r : w[i] = Behind(t, q)[i]
      BY <1>6, <1>7, AppendText
    <3>. HIDE DEF v, w
    <3>5. ASSUME NEW i \in 1 .. r + 1 PROVE v[i] = w[i]
      <4>1. CASE i = r + 1
        <5>1. q + i = n + 1
          BY <1>1, <1>6, <4>1
        <5>. QED BY <1>4, <3>3, <3>4, <4>1, <5>1
      <4>2. CASE i # r + 1
        <5>1. i \in 1 .. r /\ i \in 1 .. n - q /\ q + i \in 1 .. n
          BY <1>1, <1>2, <1>6, <4>2
        <5>2. v[i] = t[q + i]
          BY <1>4, <3>3, <5>1
        <5>3. w[i] = t[q + i]
          BY <1>7, <3>4, <5>1
        <5>. QED BY <5>2, <5>3
      <4>. QED BY <4>1, <4>2
    <3>6. v = w
      BY <3>3, <3>4, <3>5, SameText
    <3>. QED BY <1>3, <2>2, <3>2, <3>6 DEF v, w
  <2>. QED BY <2>1, <2>2
<1>9. Len(Kept(t)) = r
  BY <1>3, <1>6, <1>7
<1>. QED BY <1>3, <1>7, <1>8, <1>9 DEF r, u

-----------------------------------------------------------------------------
(* The members of a set among the items of a sequence. *)

LEMMA ChosenParts ==
    ASSUME NEW A, NEW s \in Seq(A), NEW set
    PROVE  LET parts == [i \in 1 .. Len(s) |-> IF s[i] \in set THEN <<s[i]>> ELSE <<>>]
           IN  parts \in Seq(Seq(A)) /\ Len(parts) = Len(s)
<1>. DEFINE parts == [i \in 1 .. Len(s) |-> IF s[i] \in set THEN <<s[i]>> ELSE <<>>]
<1>1. Len(s) \in Nat /\ \A i \in 1 .. Len(s) : s[i] \in A
  BY ElementOfSeq
<1>2. \A x \in A : <<x>> \in Seq(A)
  OBVIOUS
<1>3. <<>> \in Seq(A)
  BY EmptySeq
<1>4. ASSUME NEW i \in 1 .. Len(s) PROVE parts[i] \in Seq(A)
  BY <1>1, <1>2, <1>3
<1>5. parts \in [1 .. Len(s) -> Seq(A)]
  BY <1>4
<1>. SUFFICES parts \in Seq(Seq(A)) /\ Len(parts) = Len(s)
  OBVIOUS
<1>. HIDE DEF parts
<1>. QED BY <1>1, <1>5

LEMMA ChosenFacts ==
    ASSUME NEW A, NEW s \in Seq(A), NEW set
    PROVE  /\ Chosen(s, set)[0] = <<>>
           /\ \A i \in 0 .. Len(s) : Chosen(s, set)[i] \in Seq(A)
           /\ \A i \in 1 .. Len(s) :
                  Chosen(s, set)[i] = IF s[i] \in set THEN Append(Chosen(s, set)[i - 1], s[i])
                                      ELSE Chosen(s, set)[i - 1]
<1>. DEFINE parts == [i \in 1 .. Len(s) |-> IF s[i] \in set THEN <<s[i]>> ELSE <<>>]
            J == Joined(parts)
<1>1. Len(s) \in Nat /\ \A i \in 1 .. Len(s) : s[i] \in A
  BY ElementOfSeq
<1>2. parts \in Seq(Seq(A)) /\ Len(parts) = Len(s)
  BY ChosenParts
<1>3. \A i \in 1 .. Len(s) : parts[i] = IF s[i] \in set THEN <<s[i]>> ELSE <<>>
  OBVIOUS
<1>4. Chosen(s, set) = J
  BY DEF Chosen
<1>. HIDE DEF parts
<1>5. J[0] = <<>> /\ \A i \in 1 .. Len(s) : J[i] = J[i - 1] \o parts[i]
  BY <1>2, JoinedUnfolds
<1>6. \A i \in 0 .. Len(s) : J[i] \in Seq(A)
  BY <1>2, JoinedType
<1>. HIDE DEF J
<1>7. ASSUME NEW i \in 1 .. Len(s)
      PROVE  J[i] = IF s[i] \in set THEN Append(J[i - 1], s[i]) ELSE J[i - 1]
  <2>1. i - 1 \in 0 .. Len(s)
    BY <1>1
  <2>2. J[i - 1] \in Seq(A) /\ s[i] \in A
    BY <1>1, <1>6, <2>1
  <2>3. CASE s[i] \in set
    BY <1>3, <1>5, <2>2, <2>3, AppendIsConcat
  <2>4. CASE s[i] \notin set
    BY <1>3, <1>5, <2>2, <2>4, ConcatEmptySeq
  <2>. QED BY <2>3, <2>4
<1>. QED BY <1>4, <1>5, <1>6, <1>7

\* One sequence is the beginning of another.
Begins(t, u) == Len(t) <= Len(u) /\ \A i \in 1 .. Len(t) : u[i] = t[i]

\* What is chosen among more items begins with what is chosen among fewer.
LEMMA ChosenGrows ==
    ASSUME NEW A, NEW s \in Seq(A), NEW set, NEW k \in 0 .. Len(s), NEW n \in 0 .. Len(s), k <= n
    PROVE  Begins(Chosen(s, set)[k], Chosen(s, set)[n])
<1>. DEFINE parts == [i \in 1 .. Len(s) |-> IF s[i] \in set THEN <<s[i]>> ELSE <<>>]
            J == Joined(parts)
<1>1. parts \in Seq(Seq(A)) /\ Len(parts) = Len(s)
  BY ChosenParts
<1>2. Chosen(s, set) = J
  BY DEF Chosen
<1>. HIDE DEF parts
<1>3. k \in 0 .. Len(parts) /\ n \in 0 .. Len(parts)
  BY <1>1
<1>4. Len(J[k]) <= Len(J[n]) /\ \A i \in 1 .. Len(J[k]) : J[n][i] = J[k][i]
  BY <1>1, <1>3, JoinedGrows
<1>. HIDE DEF J
<1>. QED BY <1>2, <1>4 DEF Begins

-----------------------------------------------------------------------------
(* Messages. *)

LEMMA MessageFacts ==
    ASSUME NEW m \in Messages
    PROVE  /\ m.text \in Texts /\ m.data \in Texts /\ m.binary \in BOOLEAN
           /\ Len(m.text) \in Nat /\ Len(m.data) \in 0 .. MaxLength
           /\ \A i \in 1 .. Len(m.text) : m.text[i] \in Byte \ {SOH, CR, LF}
<1>1. /\ m.text \in Seq(Byte \ {SOH, CR, LF})
      /\ m.data \in Seq(Byte) /\ Len(m.data) <= MaxLength /\ m.binary \in BOOLEAN
  BY MessagesAssumption
<1>2. m.text \in Seq(Byte)
  BY <1>1, SeqMonotonic
<1>3. Len(m.data) \in 0 .. MaxLength
  <2>1. MaxLength \in Nat /\ Len(m.data) \in Nat
    BY <1>1 DEF MaxLength
  <2>. QED BY <1>1, <2>1
<1>4. \A i \in 1 .. Len(m.text) : m.text[i] \in Byte \ {SOH, CR, LF}
  BY <1>1, ElementOfSeq
<1>. QED BY <1>1, <1>2, <1>3, <1>4 DEF Texts

\* What has been kept of a text after p bytes of it.
KeptOf(text, p) == Kept(Chosen(text, Printing)[p])

LEMMA LineFacts ==
    ASSUME NEW m \in Messages
    PROVE  /\ Line[m] = KeptOf(m.text, Len(m.text)) /\ KeptOf(m.text, 0) = <<>>
           /\ \A p \in 0 .. Len(m.text) :
                  KeptOf(m.text, p) \in Texts /\ Len(KeptOf(m.text, p)) < RxBufferLen
           /\ \A p \in 1 .. Len(m.text) :
                  KeptOf(m.text, p)
                      = IF m.text[p] \in Printing
                        THEN IF Len(KeptOf(m.text, p - 1)) + 1 = RxBufferLen THEN <<>>
                             ELSE Append(KeptOf(m.text, p - 1), m.text[p])
                        ELSE KeptOf(m.text, p - 1)
<1>. DEFINE t == m.text  C == Chosen(t, Printing)
<1>1. t \in Seq(Byte) /\ Len(t) \in Nat /\ \A i \in 1 .. Len(t) : t[i] \in Byte
  BY MessageFacts DEF Texts
<1>2. Line[m] = KeptOf(t, Len(t))
  BY DEF Line, KeptOf
<1>3. /\ C[0] = <<>>
      /\ \A i \in 0 .. Len(t) : C[i] \in Seq(Byte)
      /\ \A i \in 1 .. Len(t) :
             C[i] = IF t[i] \in Printing THEN Append(C[i - 1], t[i]) ELSE C[i - 1]
  BY <1>1, ChosenFacts
<1>. HIDE DEF C, t
<1>4. \A p \in 0 .. Len(t) : KeptOf(t, p) = Kept(C[p])
  BY DEF KeptOf, C
<1>5. \A x \in Texts : Kept(x) \in Texts /\ Len(Kept(x)) = Len(x) % RxBufferLen
  <2>1. 0 \in Byte
    BY DEF Byte, MaxByte
  <2>. QED BY <2>1, KeptFacts
<1>6. \A n \in Nat : n % RxBufferLen < RxBufferLen
  BY AtParserAssumption
<1>7. ASSUME NEW p \in 0 .. Len(t)
      PROVE  KeptOf(t, p) \in Texts /\ Len(KeptOf(t, p)) < RxBufferLen
  <2>1. C[p] \in Texts /\ Len(C[p]) \in Nat
    BY <1>3 DEF Texts
  <2>. QED BY <1>4, <1>5, <1>6, <2>1
<1>8. KeptOf(t, 0) = <<>>
  <2>1. 0 \in 0 .. Len(t) /\ <<>> \in Texts /\ Len(<<>>) = 0
    BY <1>1, EmptySeq DEF Texts
  <2>2. KeptOf(t, 0) = Kept(<<>>)
    BY <1>3, <1>4, <2>1
  <2>3. 0 % RxBufferLen = 0
    BY AtParserAssumption
  <2>4. Kept(<<>>) \in Texts /\ Len(Kept(<<>>)) = 0
    BY <1>5, <2>1, <2>3
  <2>. QED BY <2>2, <2>4, EmptySeq DEF Texts
<1>9. ASSUME NEW p \in 1 .. Len(t)
      PROVE  KeptOf(t, p)
                 = IF t[p] \in Printing
                   THEN IF Len(KeptOf(t, p - 1)) + 1 = RxBufferLen THEN <<>>
                        ELSE Append(KeptOf(t, p - 1), t[p])
                   ELSE KeptOf(t, p - 1)
  <2>1. p \in 0 .. Len(t) /\ p - 1 \in 0 .. Len(t)
    BY <1>1
  <2>2. C[p - 1] \in Texts /\ t[p] \in Byte
    BY <1>1, <1>3, <2>1 DEF Texts
  <2>3. KeptOf(t, p) = Kept(C[p]) /\ KeptOf(t, p - 1) = Kept(C[p - 1])
    BY <1>4, <2>1
  <2>4. Kept(Append(C[p - 1], t[p]))
            = IF Len(Kept(C[p - 1])) + 1 = RxBufferLen THEN <<>>
              ELSE Append(Kept(C[p - 1]), t[p])
    BY <2>2, KeptFacts
  <2>5. C[p] = IF t[p] \in Printing THEN Append(C[p - 1], t[p]) ELSE C[p - 1]
    BY <1>3
  <2>. QED BY <2>3, <2>4, <2>5
<1>. QED BY <1>2, <1>7, <1>8, <1>9 DEF t

\* A length in two bytes.
LEMMA LengthBytes ==
    ASSUME NEW n \in 0 .. MaxLength
    PROVE  n \div 256 \in Byte /\ n % 256 \in Byte /\ n = 256 * (n \div 256) + (n % 256)
<1>1. n \in Nat /\ n <= 65535
  <2>1. MaxLength = 65535
    BY DEF MaxLength
  <2>. QED BY <2>1
<1>. DEFINE hi == n \div 256
            lo == n % 256
<1>2. hi \in Nat /\ lo \in 0 .. 255 /\ n = (256 * hi) + lo
  BY <1>1, Division
<1>. HIDE DEF hi, lo
<1>3. hi <= 255
  BY <1>1, <1>2
<1>4. hi \in Byte /\ lo \in Byte
  BY <1>2, <1>3 DEF Byte, MaxByte
<1>. QED BY <1>2, <1>4 DEF hi, lo

LEMMA FrameFacts ==
    ASSUME NEW m \in Messages
    PROVE  /\ Frame(m) \in Texts
           /\ \A i \in 1 .. Len(m.text) : Frame(m)[i] = m.text[i]
           /\ ~m.binary => /\ Len(Frame(m)) = Len(m.text) + 2
                           /\ Frame(m)[Len(m.text) + 1] = CR
                           /\ Frame(m)[Len(m.text) + 2] = LF
           /\ m.binary => /\ Len(Frame(m)) = Len(m.text) + 3 + Len(m.data)
                          /\ Frame(m)[Len(m.text) + 1] = SOH
                          /\ Frame(m)[Len(m.text) + 2] = Len(m.data) \div 256
                          /\ Frame(m)[Len(m.text) + 3] = Len(m.data) % 256
                          /\ \A i \in 1 .. Len(m.data) :
                                 Frame(m)[Len(m.text) + 3 + i] = m.data[i]
<1>. DEFINE t == m.text  d == m.data  n == Len(d)  hi == n \div 256  lo == n % 256
<1>1. t \in Texts /\ d \in Texts /\ Len(t) \in Nat /\ n \in 0 .. MaxLength /\ m.binary \in BOOLEAN
  BY MessageFacts
<1>2. hi \in Byte /\ lo \in Byte
  BY <1>1, LengthBytes
<1>. HIDE DEF t, d, n, hi, lo
<1>3. SOH \in Byte /\ CR \in Byte /\ LF \in Byte
  BY DEF SOH, CR, LF, Byte, MaxByte
<1>4. ASSUME NEW u \in Texts
      PROVE  /\ t \o u \in Texts /\ Len(t \o u) = Len(t) + Len(u)
             /\ \A i \in 1 .. Len(t) : (t \o u)[i] = t[i]
             /\ \A i \in 1 .. Len(u) : (t \o u)[Len(t) + i] = u[i]
  <2>1. Len(u) \in Nat
    BY DEF Texts
  <2>2. /\ t \o u \in Texts /\ Len(t \o u) = Len(t) + Len(u)
        /\ \A i \in 1 .. Len(t) + Len(u) :
               (t \o u)[i] = IF i <= Len(t) THEN t[i] ELSE u[i - Len(t)]
    BY <1>1, ConcatProperties DEF Texts
  <2>3. ASSUME NEW i \in 1 .. Len(u) PROVE (t \o u)[Len(t) + i] = u[i]
    <3>1. Len(t) + i \in 1 .. Len(t) + Len(u) /\ ~(Len(t) + i <= Len(t))
          /\ (Len(t) + i) - Len(t) = i
      BY <1>1, <2>1
    <3>. QED BY <2>2, <3>1
  <2>4. ASSUME NEW i \in 1 .. Len(t) PROVE (t \o u)[i] = t[i]
    BY <1>1, <2>1, <2>2
  <2>. QED BY <2>2, <2>3, <2>4
<1>5. CASE ~m.binary
  <2>. DEFINE u == <<CR, LF>>
  <2>1. u \in Texts /\ Len(u) = 2 /\ u[1] = CR /\ u[2] = LF /\ 1 \in 1 .. 2 /\ 2 \in 1 .. 2
    BY <1>3 DEF Texts
  <2>2. Frame(m) = t \o u
    BY <1>5 DEF Frame, t
  <2>. HIDE DEF u
  <2>. DEFINE F == Frame(m)  L == Len(t)
  <2>3. /\ F \in Texts /\ Len(F) = L + Len(u)
        /\ \A i \in 1 .. L : F[i] = t[i]
        /\ \A i \in 1 .. Len(u) : F[L + i] = u[i]
    <3>1. /\ t \o u \in Texts /\ Len(t \o u) = L + Len(u)
          /\ \A i \in 1 .. L : (t \o u)[i] = t[i]
          /\ \A i \in 1 .. Len(u) : (t \o u)[L + i] = u[i]
      BY <1>4, <2>1
    <3>2. F = t \o u
      BY <2>2
    <3>. HIDE DEF F
    <3>. QED BY <3>1, <3>2
  <2>. HIDE DEF F
  <2>4. Len(F) = L + 2 /\ F[L + 1] = CR /\ F[L + 2] = LF
    BY <2>1, <2>3
  <2>. QED BY <1>5, <2>3, <2>4 DEF F, t
<1>6. CASE m.binary
  <2>. DEFINE h == <<SOH, hi, lo>>  u == h \o d
  <2>1. h \in Texts /\ Len(h) = 3 /\ h[1] = SOH /\ h[2] = hi /\ h[3] = lo
    BY <1>2, <1>3 DEF Texts
  <2>2. Frame(m) = t \o u
    BY <1>6 DEF Frame, t, d, n, hi, lo
  <2>. HIDE DEF h
  <2>3. Len(d) = n /\ n \in Nat
    BY <1>1 DEF n
  <2>4. /\ u \in Texts /\ Len(u) = 3 + n
        /\ \A i \in 1 .. 3 + n : u[i] = IF i <= 3 THEN h[i] ELSE d[i - 3]
    <3>1. h \in Seq(Byte) /\ d \in Seq(Byte)
      BY <1>1, <2>1 DEF Texts
    <3>2. /\ u \in Seq(Byte) /\ Len(u) = Len(h) + Len(d)
          /\ \A i \in 1 .. Len(h) + Len(d) : u[i] = IF i <= Len(h) THEN h[i] ELSE d[i - Len(h)]
      BY <3>1, ConcatProperties
    <3>. QED BY <2>1, <2>3, <3>2, Zenon DEF Texts
  <2>. HIDE DEF u
  <2>5. u[1] = SOH /\ u[2] = hi /\ u[3] = lo
    BY <2>1, <2>3, <2>4
  <2>6. ASSUME NEW i \in 1 .. n PROVE u[3 + i] = d[i]
    <3>1. 3 + i \in 1 .. 3 + n /\ ~(3 + i <= 3) /\ (3 + i) - 3 = i
      BY <2>3
    <3>. QED BY <2>4, <3>1
  <2>. DEFINE F == Frame(m)  L == Len(t)
  <2>7. /\ F \in Texts /\ Len(F) = L + (3 + n)
        /\ \A i \in 1 .. L : F[i] = t[i]
        /\ \A i \in 1 .. 3 + n : F[L + i] = u[i]
    <3>1. /\ t \o u \in Texts /\ Len(t \o u) = L + Len(u)
          /\ \A i \in 1 .. L : (t \o u)[i] = t[i]
          /\ \A i \in 1 .. Len(u) : (t \o u)[L + i] = u[i]
      BY <1>4, <2>4
    <3>2. F = t \o u
      BY <2>2
    <3>. HIDE DEF F
    <3>. QED BY <2>4, <3>1, <3>2
  <2>. HIDE DEF F
  <2>8. F[L + 1] = SOH /\ F[L + 2] = hi /\ F[L + 3] = lo /\ Len(F) = L + 3 + n
    BY <1>1, <2>3, <2>5, <2>7
  <2>9. ASSUME NEW i \in 1 .. n PROVE F[L + 3 + i] = d[i]
    <3>1. 3 + i \in 1 .. 3 + n /\ L + (3 + i) = L + 3 + i
      BY <1>1, <2>3
    <3>. QED BY <2>6, <2>7, <3>1
  <2>10. /\ \A i \in 1 .. Len(m.text) : F[i] = m.text[i]
         /\ Len(F) = Len(m.text) + 3 + Len(m.data)
         /\ F[Len(m.text) + 1] = SOH
         /\ F[Len(m.text) + 2] = Len(m.data) \div 256
         /\ F[Len(m.text) + 3] = Len(m.data) % 256
         /\ \A i \in 1 .. Len(m.data) : F[Len(m.text) + 3 + i] = m.data[i]
    BY <2>7, <2>8, <2>9 DEF t, d, n, hi, lo
  <2>. QED BY <1>6, <2>7, <2>10 DEF F
<1>. QED BY <1>1, <1>5, <1>6

-----------------------------------------------------------------------------
(* Streams. *)

\* Where a message begins.
Before(s, k) == Len(SentUpTo(s)[k - 1])

LEMMA StreamFacts ==
    ASSUME NEW s \in Seq(Messages)
    PROVE  /\ Sent(s) \in Texts /\ Len(s) \in Nat
           /\ Before(s, 1) = 0 /\ Before(s, Len(s) + 1) = Len(Sent(s))
           /\ \A k \in 1 .. Len(s) :
                  /\ s[k] \in Messages /\ Before(s, k) \in Nat
                  /\ Before(s, k + 1) = Before(s, k) + Len(Frame(s[k]))
                  /\ Before(s, k + 1) <= Len(Sent(s))
                  /\ \A i \in 1 .. Len(Frame(s[k])) :
                         Sent(s)[Before(s, k) + i] = Frame(s[k])[i]
<1>. DEFINE parts == [i \in 1 .. Len(s) |-> Frame(s[i])]
            J == Joined(parts)
<1>1. Len(s) \in Nat /\ \A i \in 1 .. Len(s) : s[i] \in Messages
  BY ElementOfSeq
<1>2. parts \in Seq(Seq(Byte)) /\ Len(parts) = Len(s)
  <2>1. \A i \in 1 .. Len(s) : Frame(s[i]) \in Seq(Byte)
    BY <1>1, FrameFacts DEF Texts
  <2>2. parts \in [1 .. Len(s) -> Seq(Byte)]
    BY <2>1
  <2>. HIDE DEF parts
  <2>. QED BY <1>1, <2>2
<1>3. \A i \in 1 .. Len(s) : parts[i] = Frame(s[i])
  OBVIOUS
<1>4. Sent(s) = J[Len(s)] /\ \A k : Before(s, k) = Len(J[k - 1])
  BY DEF Sent, SentUpTo, Before
<1>. HIDE DEF parts
<1>5. J[0] = <<>> /\ \A i \in 1 .. Len(s) : J[i] = J[i - 1] \o parts[i]
  BY <1>2, JoinedUnfolds
<1>6. \A i \in 0 .. Len(s) : J[i] \in Seq(Byte)
  BY <1>2, JoinedType
<1>7. \A k, n \in 0 .. Len(s) :
          k <= n => /\ Len(J[k]) <= Len(J[n])
                    /\ \A i \in 1 .. Len(J[k]) : J[n][i] = J[k][i]
  <2>1. ASSUME NEW k \in 0 .. Len(s), NEW n \in 0 .. Len(s), k <= n
        PROVE  /\ Len(J[k]) <= Len(J[n])
               /\ \A i \in 1 .. Len(J[k]) : J[n][i] = J[k][i]
    <3>1. k \in 0 .. Len(parts) /\ n \in 0 .. Len(parts)
      BY <1>2
    <3>. QED BY <1>2, <2>1, <3>1, JoinedGrows
  <2>. QED BY <2>1
<1>. HIDE DEF J
<1>8. Before(s, 1) = 0 /\ Before(s, Len(s) + 1) = Len(Sent(s)) /\ Sent(s) \in Texts
  <2>1. 1 - 1 = 0 /\ (Len(s) + 1) - 1 = Len(s) /\ Len(s) \in 0 .. Len(s) /\ Len(<<>>) = 0
    BY <1>1
  <2>. QED BY <1>4, <1>5, <1>6, <2>1 DEF Texts
<1>9. ASSUME NEW k \in 1 .. Len(s)
      PROVE  /\ s[k] \in Messages /\ Before(s, k) \in Nat
             /\ Before(s, k + 1) = Before(s, k) + Len(Frame(s[k]))
             /\ Before(s, k + 1) <= Len(Sent(s))
             /\ \A i \in 1 .. Len(Frame(s[k])) : Sent(s)[Before(s, k) + i] = Frame(s[k])[i]
  <2>1. k \in 0 .. Len(s) /\ k - 1 \in 0 .. Len(s) /\ (k + 1) - 1 = k
        /\ Len(s) \in 0 .. Len(s) /\ k <= Len(s)
    BY <1>1
  <2>. DEFINE u == J[k - 1]  f == Frame(s[k])  v == J[k]  w == J[Len(s)]
  <2>2. u \in Seq(Byte) /\ v = u \o f /\ s[k] \in Messages
    BY <1>1, <1>3, <1>5, <1>6, <2>1
  <2>3. f \in Seq(Byte)
    BY <2>2, FrameFacts DEF Texts
  <2>4. Len(v) <= Len(w) /\ \A i \in 1 .. Len(v) : w[i] = v[i]
    BY <1>7, <2>1
  <2>5. Before(s, k) = Len(u) /\ Before(s, k + 1) = Len(v) /\ Sent(s) = w
    BY <1>4, <2>1
  <2>. HIDE DEF u, f, v, w
  <2>6. /\ Len(v) = Len(u) + Len(f)
        /\ \A i \in 1 .. Len(u) + Len(f) : v[i] = IF i <= Len(u) THEN u[i] ELSE f[i - Len(u)]
    BY <2>2, <2>3, ConcatProperties
  <2>7. Len(u) \in Nat /\ Len(f) \in Nat
    BY <2>2, <2>3
  <2>8. ASSUME NEW i \in 1 .. Len(f) PROVE w[Len(u) + i] = f[i]
    <3>1. Len(u) + i \in 1 .. Len(u) + Len(f) /\ ~(Len(u) + i <= Len(u))
          /\ (Len(u) + i) - Len(u) = i
      BY <2>7
    <3>2. v[Len(u) + i] = f[i]
      BY <2>6, <3>1
    <3>3. w[Len(u) + i] = v[Len(u) + i]
      BY <2>4, <2>6, <3>1
    <3>. QED BY <3>2, <3>3
  <2>. QED BY <2>2, <2>4, <2>5, <2>6, <2>7, <2>8 DEF f
<1>. QED BY <1>1, <1>8, <1>9

-----------------------------------------------------------------------------
(* Within the buffers: what holds of the lengths. *)

\* The fields of binaryRx
Field(b) ==
    /\ b = [entry |-> b.entry, buf |-> b.buf, size |-> b.size, remaining |-> b.remaining]
    /\ b.buf \in Texts /\ b.size \in Nat /\ Len(b.buf) <= b.size
    /\ b.remaining \in 0 .. MaxLength

BufferInv == TypeOK /\ Field(bin)

LEMMA TakeFacts ==
    ASSUME wire \in Texts, NEW n \in 0 .. Len(wire), Take(n)
    PROVE  wire' \in Texts
BY BehindItems DEF Take

-----------------------------------------------------------------------------
(* Lengths in a text. *)

\* The steps that do not touch the state of a binary transfer.
LEMMA TextKeepsBuffers ==
    ASSUME BufferInv, wire' \in Texts, rx' \in Texts, Len(rx') < RxBufferLen,
           executing' \in BOOLEAN, UNCHANGED <<rxHeaderCount, lengthBuf, bin, expected, rspRoom>>,
           isBinaryRx' \in BOOLEAN, isBinaryRx => isBinaryRx'
    PROVE  BufferInv'
BY DEF BufferInv, TypeOK, Field, Texts

LEMMA EmptyText == <<>> \in Texts /\ Len(<<>>) = 0 /\ Len(<<>>) < RxBufferLen
<1>1. <<>> \in Texts /\ Len(<<>>) = 0
  BY EmptySeq DEF Texts
<1>. QED BY <1>1, AtParserAssumption

LEMMA OneByte ==
    ASSUME wire \in Texts, wire # <<>>
    PROVE  wire[1] \in Byte /\ Len(wire) \in Nat \ {0} /\ 1 \in 0 .. Len(wire)
<1>1. Len(wire) \in Nat \ {0}
  BY EmptySeq DEF Texts
<1>. QED BY <1>1, ElementOfSeq DEF Texts

LEMMA LineKeepsBuffers ==
    ASSUME BufferInv, ReadStart \/ ReadLineEnd \/ ReadChar \/ ReadOther
    PROVE  BufferInv'
<1>. USE DEF client, command
<1>1. wire \in Texts /\ wire # <<>> /\ isBinaryRx = FALSE
  BY DEF BufferInv, TypeOK, ReadStart, ReadLineEnd, ReadChar, ReadOther, NotBinary
<1>2. wire[1] \in Byte /\ 1 \in 0 .. Len(wire)
  BY <1>1, OneByte
<1>3. wire' \in Texts
  BY <1>1, <1>2, TakeFacts DEF ReadStart, ReadLineEnd, ReadChar, ReadOther
<1>4. rx \in Texts /\ Len(rx) < RxBufferLen /\ executing \in BOOLEAN
  BY DEF BufferInv, TypeOK
<1>5. CASE ReadStart
  BY <1>1, <1>3, <1>4, <1>5, TextKeepsBuffers DEF ReadStart
<1>6. CASE ReadLineEnd
  <2>1. executing' \in BOOLEAN
    BY <1>6 DEF ReadLineEnd, StatusEnds
  <2>2. rx' = <<>> /\ UNCHANGED <<isBinaryRx, rxHeaderCount, lengthBuf, bin, expected, rspRoom>>
    BY <1>6 DEF ReadLineEnd
  <2>. QED BY <1>1, <1>3, <2>1, <2>2, EmptyText, TextKeepsBuffers
<1>7. CASE ReadChar
  <2>1. rx' = IF Len(rx) + 1 = RxBufferLen THEN <<>> ELSE Append(rx, wire[1])
    BY <1>7 DEF ReadChar
  <2>2. CASE Len(rx) + 1 = RxBufferLen
    BY <1>1, <1>3, <1>4, <1>7, <2>1, <2>2, EmptyText, TextKeepsBuffers DEF ReadChar
  <2>3. CASE Len(rx) + 1 # RxBufferLen
    <3>1. Append(rx, wire[1]) \in Texts /\ Len(Append(rx, wire[1])) = Len(rx) + 1
      BY <1>2, <1>4 DEF Texts
    <3>2. Len(rx) \in Nat
      BY <1>4 DEF Texts
    <3>3. rx' \in Texts /\ Len(rx') < RxBufferLen
      BY <1>4, <2>1, <2>3, <3>1, <3>2, AtParserAssumption
    <3>. QED BY <1>1, <1>3, <1>4, <1>7, <3>3, TextKeepsBuffers DEF ReadChar
  <2>. QED BY <2>2, <2>3
<1>8. CASE ReadOther
  BY <1>1, <1>3, <1>4, <1>8, TextKeepsBuffers DEF ReadOther
<1>. QED BY <1>5, <1>6, <1>7, <1>8

-----------------------------------------------------------------------------
(* Lengths in binary data. *)

LEMMA NoBinaryFields == Field(NoBinary)
BY EmptyText DEF NoBinary, Binary, Field, MaxLength

LEMMA BinaryFields ==
    ASSUME NEW entry, NEW size \in Nat, NEW length \in 0 .. MaxLength
    PROVE  Field(Binary(entry, size, length))
BY EmptyText DEF Binary, Field

\* A transfer that goes on, or is over.
LEMMA EndKeepsBuffers ==
    ASSUME BufferInv, isBinaryRx, wire' \in Texts, rx' \in Texts, Len(rx') < RxBufferLen,
           lengthBuf' \in Byte \X Byte, executing' \in BOOLEAN, UNCHANGED expected,
           rspRoom' \in Nat \cup {NoBuffer}, NEW b, Field(b), EndBinary(b)
    PROVE  BufferInv'
<1>1. expected' \in Texts
  BY DEF BufferInv, TypeOK
<1>2. b.remaining \in Nat
  BY DEF Field
<1>3. CASE b.remaining > 0
  <2>1. bin' = b /\ rxHeaderCount' = 2 /\ isBinaryRx' = TRUE
    BY <1>3 DEF EndBinary, BufferInv, TypeOK
  <2>2. Field(bin)' /\ bin'.remaining > 0
    BY <1>3, <2>1 DEF Field
  <2>3. bin'.size \in Nat /\ bin'.buf \in Texts /\ Len(bin'.buf) <= bin'.size
        /\ bin'.remaining \in 0 .. MaxLength
    BY <2>2 DEF Field
  <2>4. isBinaryRx' \in BOOLEAN /\ rxHeaderCount' \in 0 .. 2
        /\ (rxHeaderCount' > 0 => isBinaryRx') /\ (bin'.remaining > 0 => rxHeaderCount' = 2)
    BY <2>1
  <2>5. TypeOK'
    BY <1>1, <2>3, <2>4 DEF TypeOK
  <2>. QED BY <2>2, <2>5 DEF BufferInv
<1>4. CASE ~(b.remaining > 0)
  <2>1. bin' = NoBinary /\ rxHeaderCount' = 0 /\ isBinaryRx' = FALSE
    BY <1>4 DEF EndBinary
  <2>2. Field(NoBinary) /\ NoBinary.remaining = 0
    BY NoBinaryFields DEF NoBinary, Binary
  <2>3. Field(bin)' /\ bin'.remaining = 0
    BY <2>1, <2>2 DEF Field
  <2>4. bin'.size \in Nat /\ bin'.buf \in Texts /\ Len(bin'.buf) <= bin'.size
        /\ bin'.remaining \in 0 .. MaxLength
    BY <2>3 DEF Field
  <2>5. isBinaryRx' \in BOOLEAN /\ rxHeaderCount' \in 0 .. 2
        /\ (rxHeaderCount' > 0 => isBinaryRx') /\ (bin'.remaining > 0 => rxHeaderCount' = 2)
    <3>1. ~(0 > 0) /\ 0 \in 0 .. 2
      OBVIOUS
    <3>. QED BY <2>1, <2>3, <3>1, Zenon
  <2>6. TypeOK'
    BY <1>1, <2>4, <2>5 DEF TypeOK
  <2>. QED BY <2>3, <2>6 DEF BufferInv
<1>. QED BY <1>3, <1>4

LEMMA PartKeepsBuffers ==
    ASSUME BufferInv, ReadPartOfLength
    PROVE  BufferInv'
<1>. USE DEF command
<1>1. wire \in Texts /\ wire # <<>> /\ lengthBuf \in Byte \X Byte /\ rxHeaderCount = 0
      /\ bin.remaining \in Nat /\ isBinaryRx
  BY DEF BufferInv, TypeOK, Field, ReadPartOfLength
<1>2. wire[1] \in Byte /\ 1 \in 0 .. Len(wire)
  BY <1>1, OneByte
<1>3. wire' \in Texts
  BY <1>1, <1>2, TakeFacts DEF ReadPartOfLength
<1>4. lengthBuf' \in Byte \X Byte
  BY <1>1, <1>2 DEF ReadPartOfLength
<1>5. bin.remaining = 0
  BY <1>1 DEF BufferInv, TypeOK
<1>6. rxHeaderCount' = 1 /\ UNCHANGED <<rx, isBinaryRx, bin, executing, expected, rspRoom>>
  BY DEF ReadPartOfLength
<1>. QED BY <1>1, <1>3, <1>4, <1>5, <1>6 DEF BufferInv, TypeOK, Field, Texts

\* Two bytes make a length.
LEMMA TwoBytes ==
    ASSUME NEW x \in Byte, NEW y \in Byte
    PROVE  256 * x + y \in 0 .. MaxLength
<1>. DEFINE n == 256 * x + y
<1>1. x \in Nat /\ y \in Nat /\ x <= 255 /\ y <= 255
  BY DEF Byte, MaxByte
<1>2. n \in Nat /\ n <= MaxLength
  BY <1>1 DEF MaxLength
<1>3. MaxLength \in Nat
  BY DEF MaxLength
<1>. HIDE DEF n
<1>4. n \in 0 .. MaxLength
  BY <1>2, <1>3
<1>. QED BY <1>4 DEF n

\* The length that the two bytes make, whether they were read at once or not.
LEMMA LengthFacts ==
    ASSUME BufferInv, ReadLength
    PROVE  /\ wire' \in Texts /\ lengthBuf' \in Byte \X Byte
           /\ 256 * lengthBuf'[1] + lengthBuf'[2] \in 0 .. MaxLength
<1>1. /\ wire \in Texts /\ lengthBuf \in Byte \X Byte /\ rxHeaderCount \in {0, 1}
      /\ Len(wire) \in Nat
  BY DEF BufferInv, TypeOK, ReadLength, Texts
<1>. DEFINE missing == 2 - rxHeaderCount
<1>2. /\ missing \in {1, 2} /\ missing <= Len(wire) /\ Take(missing)
      /\ lengthBuf' = FirstOf(lengthBuf, rxHeaderCount) \o FirstOf(wire, missing)
  BY <1>1 DEF ReadLength
<1>3. wire' \in Texts
  BY <1>1, <1>2, TakeFacts
<1>4. lengthBuf \in Texts /\ Len(lengthBuf) = 2
  <2>1. PICK x \in Byte, y \in Byte : lengthBuf = <<x, y>>
    BY <1>1
  <2>2. <<x, y>> \in Seq(Byte) /\ Len(<<x, y>>) = 2
    OBVIOUS
  <2>. QED BY <2>1, <2>2 DEF Texts
<1>. HIDE DEF missing
<1>5. /\ FirstOf(lengthBuf, rxHeaderCount) \in Texts
      /\ Len(FirstOf(lengthBuf, rxHeaderCount)) = rxHeaderCount
  BY <1>1, <1>4, FirstOfFacts
<1>6. /\ FirstOf(wire, missing) \in Texts
      /\ Len(FirstOf(wire, missing)) = missing
  BY <1>1, <1>2, FirstOfFacts
<1>7. lengthBuf' \in Texts /\ Len(lengthBuf') = 2
  <2>1. rxHeaderCount + missing = 2
    BY <1>1 DEF missing
  <2>. QED BY <1>2, <1>5, <1>6, <2>1, BothFacts
<1>8. \A t \in Texts : Len(t) = 2 => t = <<t[1], t[2]>> /\ t[1] \in Byte /\ t[2] \in Byte
  BY DEF Texts
<1>9. lengthBuf'[1] \in Byte /\ lengthBuf'[2] \in Byte /\ lengthBuf' \in Byte \X Byte
  BY <1>7, <1>8
<1>10. \A x, y \in Byte : 256 * x + y \in 0 .. MaxLength
  BY TwoBytes
<1>. QED BY <1>3, <1>9, <1>10

\* A line is given a buffer: the command's, or the room that there is for a URC.
LEMMA SetupFields ==
    ASSUME BufferInv, NEW line, NEW room \in RoomFor(line), NEW length \in 0 .. MaxLength
    PROVE  Field(Setup(line, room, length))
<1>1. rspRoom \in Nat \cup {NoBuffer} /\ length \in Nat /\ 0 \in Nat
  BY DEF BufferInv, TypeOK
<1>2. room \in Rooms \cup {NoRoom}
  BY DEF RoomFor
<1>3. room \in Nat \/ room = NoRoom
  BY <1>2, AtParserAssumption
<1>4. CASE Classify(line) = "rsp"
  <2>. DEFINE size == IF rspRoom = NoBuffer THEN 0 ELSE rspRoom
  <2>1. size \in Nat
    BY <1>1
  <2>2. Setup(line, room, length) = Binary(Entry("rsp", line, size), size, length)
    BY <1>4 DEF Setup
  <2>. HIDE DEF size
  <2>. QED BY <2>1, <2>2, BinaryFields
<1>5. CASE Classify(line) # "rsp" /\ Classify(line) = "urc" /\ room > length
  <2>1. room \in Nat
    BY <1>1, <1>3, <1>5 DEF NoRoom
  <2>2. Setup(line, room, length) = Binary(Entry("urc", line, room), room, length)
    BY <1>5 DEF Setup
  <2>. QED BY <2>1, <2>2, BinaryFields
<1>6. CASE Classify(line) # "rsp" /\ ~(Classify(line) = "urc" /\ room > length)
  <2>. DEFINE kind == IF Classify(line) = "urc" THEN "dropped" ELSE Classify(line)
  <2>1. Setup(line, room, length) = Binary(Entry(kind, line, room), 0, length)
    BY <1>6 DEF Setup
  <2>. HIDE DEF kind
  <2>. QED BY <1>1, <2>1, BinaryFields
<1>. QED BY <1>4, <1>5, <1>6

LEMMA LengthKeepsBuffers ==
    ASSUME BufferInv, ReadLength
    PROVE  BufferInv'
<1>. DEFINE length == 256 * lengthBuf'[1] + lengthBuf'[2]
<1>1. wire' \in Texts /\ lengthBuf' \in Byte \X Byte /\ length \in 0 .. MaxLength
  BY LengthFacts
<1>2. /\ isBinaryRx /\ rx' = <<>> /\ UNCHANGED expected
      /\ \E room \in RoomFor(rx) : EndBinary(Setup(rx, room, length))
  BY DEF ReadLength
<1>3. executing' \in BOOLEAN
  BY DEF ReadLength, StatusEnds
<1>4. rspRoom' \in Nat \cup {NoBuffer}
  BY DEF ReadLength, RspLength, BufferInv, TypeOK
<1>. HIDE DEF length
<1>5. PICK room \in RoomFor(rx) : EndBinary(Setup(rx, room, length))
  BY <1>2
<1>6. Field(Setup(rx, room, length))
  BY <1>1, SetupFields
<1>. QED BY <1>1, <1>2, <1>3, <1>4, <1>5, <1>6, EmptyText, EndKeepsBuffers

LEMMA TwoFields ==
    ASSUME NEW e, NEW t, NEW k, NEW n, NEW u, NEW m
    PROVE  [[entry |-> e, buf |-> t, size |-> k, remaining |-> n]
                EXCEPT !.buf = u, !.remaining = m]
               = [entry |-> e, buf |-> u, size |-> k, remaining |-> m]
<1>1. [[entry |-> e, buf |-> t, size |-> k, remaining |-> n] EXCEPT !.buf = u]
          = [entry |-> e, buf |-> u, size |-> k, remaining |-> n]
  OBVIOUS
<1>2. [[entry |-> e, buf |-> u, size |-> k, remaining |-> n] EXCEPT !.remaining = m]
          = [entry |-> e, buf |-> u, size |-> k, remaining |-> m]
  OBVIOUS
<1>. QED BY <1>1, <1>2

\* A read of data is for no more bytes than there is room for and than remain.
LEMMA DataFields ==
    ASSUME BufferInv, NEW n \in 1 .. Len(wire), ReadData(n) \/ FlushData(n)
    PROVE  \E b : Field(b) /\ b.entry = bin.entry /\ EndBinary(b) /\ ReportLength(b)
<1>1. wire \in Texts /\ Field(bin) /\ FlushChunk \in Nat
  BY AtParserAssumption DEF BufferInv, TypeOK
<1>2. n \in Nat /\ n \in 0 .. Len(wire)
  BY <1>1 DEF Texts
<1>3. /\ FirstOf(wire, n) \in Texts /\ Len(FirstOf(wire, n)) = n
  <2>1. Len(wire) \in Nat
    BY <1>1 DEF Texts
  <2>. QED BY <1>1, <1>2, <2>1, FirstOfFacts
<1>4. bin.buf \in Texts /\ bin.size \in Nat /\ bin.remaining \in 0 .. MaxLength
      /\ Len(bin.buf) \in Nat /\ Len(bin.buf) <= bin.size
  BY <1>1 DEF Field, Texts
<1>5. MaxLength \in Nat
  BY DEF MaxLength
<1>6. CASE ReadData(n)
  <2>. DEFINE b == [bin EXCEPT !.buf = @ \o FirstOf(wire, n), !.remaining = @ - n]
  <2>1. b = [entry |-> bin.entry, buf |-> bin.buf \o FirstOf(wire, n), size |-> bin.size,
             remaining |-> bin.remaining - n]
    <3>1. bin = [entry |-> bin.entry, buf |-> bin.buf, size |-> bin.size,
                 remaining |-> bin.remaining]
      BY <1>1 DEF Field
    <3>. DEFINE e == bin.entry  t == bin.buf  k == bin.size  r == bin.remaining
                u == bin.buf \o FirstOf(wire, n)  m == bin.remaining - n
    <3>2. b = [bin EXCEPT !.buf = u, !.remaining = m]
      OBVIOUS
    <3>. HIDE DEF e, t, k, r, u, m, b
    <3>3. bin = [entry |-> e, buf |-> t, size |-> k, remaining |-> r]
      BY <3>1 DEF e, t, k, r
    <3>4. b = [entry |-> e, buf |-> u, size |-> k, remaining |-> m]
      BY <3>2, <3>3, TwoFields
    <3>. QED BY <3>4 DEF e, k, u, m
  <2>2. n <= bin.size - Len(bin.buf) /\ n <= bin.remaining
    BY <1>2, <1>4, <1>6 DEF ReadData, Smaller
  <2>3. /\ bin.buf \o FirstOf(wire, n) \in Texts
        /\ Len(bin.buf \o FirstOf(wire, n)) = Len(bin.buf) + n
    BY <1>3, <1>4, BothFacts
  <2>4. Len(bin.buf \o FirstOf(wire, n)) <= bin.size
    BY <1>2, <1>4, <2>2, <2>3
  <2>5. bin.remaining - n \in 0 .. MaxLength
    BY <1>2, <1>4, <1>5, <2>2
  <2>6. Field(b)
    BY <1>4, <2>1, <2>3, <2>4, <2>5 DEF Field
  <2>7. b.entry = bin.entry
    BY <2>1
  <2>. QED BY <1>6, <2>6, <2>7 DEF ReadData
<1>7. CASE FlushData(n)
  <2>. DEFINE b == [bin EXCEPT !.remaining = @ - n]
  <2>1. b = [entry |-> bin.entry, buf |-> bin.buf, size |-> bin.size,
             remaining |-> bin.remaining - n]
    BY <1>1 DEF Field
  <2>2. n <= bin.remaining
    BY <1>1, <1>2, <1>4, <1>7 DEF FlushData, Smaller
  <2>3. bin.remaining - n \in 0 .. MaxLength
    BY <1>2, <1>4, <1>5, <2>2
  <2>4. Field(b)
    BY <1>4, <2>1, <2>3 DEF Field
  <2>5. b.entry = bin.entry
    BY <2>1
  <2>. QED BY <1>7, <2>4, <2>5 DEF FlushData
<1>. QED BY <1>6, <1>7

LEMMA DataKeepsBuffers ==
    ASSUME BufferInv, NEW n \in 1 .. Len(wire), ReadData(n) \/ FlushData(n)
    PROVE  BufferInv'
<1>1. /\ wire \in Texts /\ rx \in Texts /\ Len(rx) < RxBufferLen /\ isBinaryRx
      /\ lengthBuf \in Byte \X Byte /\ executing \in BOOLEAN
      /\ rspRoom \in Nat \cup {NoBuffer}
      /\ UNCHANGED <<rx, lengthBuf, executing, expected>> /\ Take(n)
  BY DEF BufferInv, TypeOK, ReadData, FlushData, ReadingData
<1>2. n \in 0 .. Len(wire)
  BY <1>1 DEF Texts
<1>3. wire' \in Texts
  BY <1>1, <1>2, TakeFacts
<1>4. PICK b : Field(b) /\ EndBinary(b) /\ ReportLength(b)
  BY DataFields
<1>5. rspRoom' \in Nat \cup {NoBuffer}
  BY <1>1, <1>4 DEF ReportLength, RspLength, Field, Texts
<1>6. rx' \in Texts /\ Len(rx') < RxBufferLen /\ lengthBuf' \in Byte \X Byte
      /\ executing' \in BOOLEAN /\ UNCHANGED expected
  BY <1>1
<1>. QED BY <1>1, <1>3, <1>4, <1>5, <1>6, EndKeepsBuffers

-----------------------------------------------------------------------------
(* Nothing is written behind the end of a buffer. *)

LEMMA CommandsKeepBuffers ==
    ASSUME BufferInv,
           \/ CmdBegin \/ CmdGivesUp
           \/ \E e \in Expectations, n \in RspBufferLens \cup {NoBuffer} : CmdGetRspParamLine(e, n)
    PROVE  BufferInv'
<1>. USE DEF client
<1>1. UNCHANGED <<wire, rx, isBinaryRx, rxHeaderCount, lengthBuf, bin>>
  BY DEF CmdBegin, CmdGivesUp, CmdGetRspParamLine
<1>2. executing' \in BOOLEAN
  BY DEF CmdBegin, CmdGivesUp, CmdGetRspParamLine, BufferInv, TypeOK
<1>3. expected' \in Texts /\ rspRoom' \in Nat \cup {NoBuffer}
  BY AtParserAssumption DEF CmdBegin, CmdGivesUp, CmdGetRspParamLine, BufferInv, TypeOK, Texts
<1>. QED BY <1>1, <1>2, <1>3 DEF BufferInv, TypeOK, Field, Texts

LEMMA BufferInit == Init => BufferInv
<1>. SUFFICES ASSUME Init PROVE BufferInv
  OBVIOUS
<1>1. wire \in Texts
  <2>1. stream \in Seq(Messages)
    BY AtParserAssumption DEF Init
  <2>. QED BY <2>1, StreamFacts DEF Init
<1>2. 0 \in Byte /\ NoBinary.remaining = 0
  BY DEF Byte, MaxByte, NoBinary, Binary
<1>3. Field(bin)
  BY NoBinaryFields DEF Init
<1>4. bin.size \in Nat /\ bin.buf \in Texts /\ Len(bin.buf) <= bin.size
      /\ bin.remaining \in 0 .. MaxLength
  BY <1>3 DEF Field
<1>5. rx \in Texts /\ Len(rx) < RxBufferLen /\ expected \in Texts
  BY EmptyText DEF Init
<1>6. lengthBuf \in Byte \X Byte
  BY <1>2 DEF Init
<1>7. /\ isBinaryRx \in BOOLEAN /\ executing \in BOOLEAN /\ rxHeaderCount \in 0 .. 2
      /\ (rxHeaderCount > 0 => isBinaryRx) /\ rspRoom \in Nat \cup {NoBuffer}
      /\ (bin.remaining > 0 => rxHeaderCount = 2)
  <2>1. bin.remaining = 0
    BY <1>2 DEF Init
  <2>2. isBinaryRx = FALSE /\ executing = FALSE /\ rxHeaderCount = 0 /\ rspRoom = NoBuffer
    BY DEF Init
  <2>3. ~(0 > 0) /\ 0 \in 0 .. 2
    OBVIOUS
  <2>. QED BY <2>1, <2>2, <2>3, Zenon
<1>8. TypeOK
  BY <1>1, <1>4, <1>5, <1>6, <1>7 DEF TypeOK
<1>. QED BY <1>3, <1>8 DEF BufferInv

LEMMA BufferStep == BufferInv /\ [Next]_vars => BufferInv'
<1>. SUFFICES ASSUME BufferInv, [Next]_vars PROVE BufferInv'
  OBVIOUS
<1>1. CASE UNCHANGED vars
  BY <1>1 DEF vars, client, command, BufferInv, TypeOK, Field, Texts
<1>2. CASE ReadStart \/ ReadLineEnd \/ ReadChar \/ ReadOther
  BY <1>2, LineKeepsBuffers
<1>3. CASE ReadPartOfLength
  BY <1>3, PartKeepsBuffers
<1>4. CASE ReadLength
  BY <1>4, LengthKeepsBuffers
<1>5. ASSUME NEW n \in 1 .. Len(wire), ReadData(n) \/ FlushData(n)
      PROVE  BufferInv'
  BY <1>5, DataKeepsBuffers
<1>6. CASE \/ CmdBegin \/ CmdGivesUp
           \/ \E e \in Expectations, n \in RspBufferLens \cup {NoBuffer} :
                  CmdGetRspParamLine(e, n)
  BY <1>6, CommandsKeepBuffers
<1>. QED BY <1>1, <1>2, <1>3, <1>4, <1>5, <1>6 DEF Next

\* Nothing is written behind the end of the receive buffer, of the two bytes of the
\* length, of a command's buffer or of the room that a URC has in its queue: for every
\* size of these, and whatever the module sends and however it is read.
THEOREM StaysInBuffers == Spec => []TypeOK
<1>1. BufferInv => TypeOK
  BY DEF BufferInv
<1>. QED BY BufferInit, BufferStep, <1>1, PTL DEF Spec

-----------------------------------------------------------------------------
(* Where the parser is in what is sent. *)

\* p bytes of message k and all of those before it have been read.
ReadUpTo(k, p) == wire = Behind(Sent(stream), Before(stream, k) + p)

\* What the log holds for each message that leaves a line.
Fits(m, e) ==
    /\ e.line = Line[m]
    /\ e.kind = Meaning(m, e)
    /\ e.data = Arrived(m, e.kind, e.room)

LogIs(k) ==
    LET lines == Chosen(stream, WithLine)[k]
    IN  Len(log) = Len(lines) /\ \A i \in 1 .. Len(log) : Fits(lines[i], log[i])

Kinds == {"none", "rsp", "status", "urc", "dropped", "noise"}
Entries == [kind : Kinds, line : Texts, data : Texts, room : Int,
            executing : BOOLEAN, expected : Texts, params : Texts]

\* A transfer of the data of m after c bytes of them
Transfers(b, m, c) ==
    /\ b.entry \in Entries /\ b.entry.line = Line[m] /\ b.entry.data = <<>>
    /\ b.entry.kind = IF Line[m] = <<>> THEN "none" ELSE Meaning(m, b.entry)
    /\ b.entry.kind \in {"rsp", "urc"} => b.size = b.entry.room
    /\ b.entry.kind = "urc" => b.size > Len(m.data)
    /\ b.entry.kind \notin {"rsp", "urc"} => b.size = 0
    /\ b.remaining = Len(m.data) - c
    /\ b.buf = FirstOf(m.data, Smaller(c, b.size))

\* Where the parser can be: between two messages, in the text of a line, between
\* CR and LF, and behind SOH in the length or in the data.
BeforeMessage(k) ==
    /\ k \in 1 .. Len(stream) + 1
    /\ ReadUpTo(k, 0)
    /\ ~isBinaryRx /\ rx = <<>> /\ LogIs(k - 1)

InText(k, p) ==
    /\ k \in 1 .. Len(stream) /\ p \in 0 .. Len(stream[k].text)
    /\ ReadUpTo(k, p)
    /\ ~isBinaryRx /\ rx = KeptOf(stream[k].text, p) /\ LogIs(k - 1)

InLineEnd(k) ==
    /\ k \in 1 .. Len(stream) /\ ~stream[k].binary
    /\ ReadUpTo(k, Len(stream[k].text) + 1)
    /\ ~isBinaryRx /\ rx = <<>> /\ LogIs(k)

InLength(k) ==
    /\ k \in 1 .. Len(stream) /\ stream[k].binary
    /\ rxHeaderCount \in {0, 1} /\ ReadUpTo(k, Len(stream[k].text) + 1 + rxHeaderCount)
    /\ rxHeaderCount = 1 => lengthBuf[1] = Len(stream[k].data) \div 256
    /\ isBinaryRx /\ rx = Line[stream[k]] /\ LogIs(k - 1)

InData(k, c) ==
    /\ k \in 1 .. Len(stream) /\ stream[k].binary /\ c \in 0 .. Len(stream[k].data) - 1
    /\ ReadUpTo(k, Len(stream[k].text) + 3 + c)
    /\ isBinaryRx /\ rxHeaderCount = 2 /\ rx = <<>> /\ Transfers(bin, stream[k], c)
    /\ LogIs(k - 1)

Somewhere ==
    \E k \in 1 .. Len(stream) + 1 :
        \/ BeforeMessage(k) \/ InLineEnd(k) \/ InLength(k)
        \/ \E p \in 0 .. Len(stream[k].text) : InText(k, p)
        \/ \E c \in 0 .. Len(stream[k].data) : InData(k, c)

ParserInv ==
    /\ BufferInv
    /\ stream \in Streams /\ log \in Seq(Entries)
    /\ expected \in Expectations \cup {<<>>}
    /\ Somewhere

LEMMA StreamIs ==
    ASSUME stream \in Streams
    PROVE  stream \in Seq(Messages)
BY AtParserAssumption

\* The next bytes are the message's.
LEMMA NextBytes ==
    ASSUME stream \in Streams, NEW k \in 1 .. Len(stream),
           NEW p \in 0 .. Len(Frame(stream[k])), ReadUpTo(k, p)
    PROVE  /\ wire \in Texts /\ Len(Frame(stream[k])) - p <= Len(wire)
           /\ \A i \in 1 .. Len(Frame(stream[k])) - p : wire[i] = Frame(stream[k])[p + i]
           /\ \A n \in 0 .. Len(Frame(stream[k])) - p :
                  Behind(wire, n) = Behind(Sent(stream), Before(stream, k) + (p + n))
<1>. DEFINE W == Sent(stream)  f == Frame(stream[k])  b == Before(stream, k)
<1>1. /\ W \in Texts /\ b \in Nat /\ b + Len(f) <= Len(W) /\ stream[k] \in Messages
      /\ \A i \in 1 .. Len(f) : W[b + i] = f[i]
  BY StreamIs, StreamFacts
<1>2. Len(f) \in Nat /\ Len(W) \in Nat
  BY <1>1, FrameFacts DEF Texts
<1>3. wire = Behind(W, b + p)
  BY DEF ReadUpTo
<1>. HIDE DEF W, f, b
<1>4. b + p \in 0 .. Len(W) /\ p \in Nat /\ p <= Len(f)
  BY <1>1, <1>2 DEF f
<1>5. /\ wire \in Texts /\ Len(wire) = Len(W) - (b + p)
      /\ \A i \in 1 .. Len(W) - (b + p) : wire[i] = W[(b + p) + i]
  BY <1>1, <1>3, <1>4, BehindItems
<1>6. Len(f) - p <= Len(wire)
  BY <1>1, <1>2, <1>4, <1>5
<1>7. ASSUME NEW i \in 1 .. Len(f) - p PROVE wire[i] = f[p + i]
  <2>1. i \in 1 .. Len(W) - (b + p) /\ (b + p) + i = b + (p + i) /\ p + i \in 1 .. Len(f)
    BY <1>1, <1>2, <1>4
  <2>2. wire[i] = W[b + (p + i)]
    BY <1>5, <2>1
  <2>. QED BY <1>1, <2>1, <2>2
<1>8. ASSUME NEW n \in 0 .. Len(f) - p PROVE Behind(wire, n) = Behind(W, b + (p + n))
  <2>1. n \in 0 .. Len(W) - (b + p) /\ (b + p) + n = b + (p + n)
    BY <1>1, <1>2, <1>4
  <2>. QED BY <1>1, <1>3, <1>4, <2>1, BehindBehind
<1>. QED BY <1>5, <1>6, <1>7, <1>8 DEF f, W, b

\* Bytes that are taken bring the parser as much further, at the end of a message to
\* the next one.
LEMMA TakesBytes ==
    ASSUME stream \in Streams, NEW k \in 1 .. Len(stream),
           NEW p \in 0 .. Len(Frame(stream[k])), ReadUpTo(k, p),
           NEW n \in 0 .. Len(Frame(stream[k])) - p, Take(n), UNCHANGED stream
    PROVE  /\ ReadUpTo(k, p + n)'
           /\ p + n = Len(Frame(stream[k])) => ReadUpTo(k + 1, 0)'
<1>. DEFINE f == Frame(stream[k])
<1>1. wire' = Behind(Sent(stream), Before(stream, k) + (p + n))
  BY NextBytes DEF Take
<1>2. ReadUpTo(k, p + n)'
  BY <1>1 DEF ReadUpTo
<1>3. Before(stream, k + 1) = Before(stream, k) + Len(f) /\ Before(stream, k) \in Nat
      /\ stream[k] \in Messages
  BY StreamIs, StreamFacts
<1>4. ASSUME p + n = Len(f) PROVE ReadUpTo(k + 1, 0)'
  <2>1. Len(f) \in Nat
    BY <1>3, FrameFacts DEF Texts
  <2>. HIDE DEF f
  <2>2. Before(stream, k) + (p + n) = Before(stream, k + 1) + 0
    BY <1>3, <1>4, <2>1
  <2>. QED BY <1>1, <2>2 DEF ReadUpTo
<1>. QED BY <1>2, <1>4

-----------------------------------------------------------------------------
(* What the log holds. *)

LEMMA LogStays ==
    ASSUME UNCHANGED <<stream, log>>, NEW k, LogIs(k)
    PROVE  LogIs(k)'
BY DEF LogIs

LEMMA LogGrows ==
    ASSUME stream \in Streams, UNCHANGED stream, log \in Seq(Entries),
           NEW k \in 1 .. Len(stream), LogIs(k - 1), NEW e \in Entries, log' = Logged(e),
           IF Line[stream[k]] = <<>> THEN e.kind = "none"
           ELSE e.kind # "none" /\ Fits(stream[k], e)
    PROVE  LogIs(k)' /\ log' \in Seq(Entries)
<1>. DEFINE C == Chosen(stream, WithLine)  m == stream[k]  old == C[k - 1]  new == C[k]
<1>1. stream \in Seq(Messages) /\ m \in Messages /\ Len(stream) \in Nat
  BY StreamIs, StreamFacts
<1>2. k - 1 \in 0 .. Len(stream) /\ k \in 0 .. Len(stream)
  BY <1>1
<1>3. /\ old \in Seq(Messages) /\ Len(old) \in Nat
      /\ new = IF m \in WithLine THEN Append(old, m) ELSE old
  <2>1. /\ \A i \in 0 .. Len(stream) : C[i] \in Seq(Messages)
        /\ \A i \in 1 .. Len(stream) :
               C[i] = IF stream[i] \in WithLine THEN Append(C[i - 1], stream[i]) ELSE C[i - 1]
    BY <1>1, ChosenFacts
  <2>. HIDE DEF C
  <2>2. C[k - 1] \in Seq(Messages)
    BY <1>2, <2>1
  <2>3. C[k] = IF m \in WithLine THEN Append(C[k - 1], m) ELSE C[k - 1]
    BY <2>1
  <2>. QED BY <2>2, <2>3
<1>4. Len(log) = Len(old) /\ \A i \in 1 .. Len(log) : Fits(old[i], log[i])
  BY DEF LogIs
<1>5. m \in WithLine <=> Line[m] # <<>>
  BY <1>1 DEF WithLine
<1>6. SUFFICES /\ log' \in Seq(Entries) /\ Len(log') = Len(new)
               /\ \A i \in 1 .. Len(log') : Fits(new[i], log'[i])
  BY DEF LogIs, Fits, Meaning, Arrived
<1>. HIDE DEF C, m, old, new
<1>7. CASE Line[m] = <<>>
  <2>1. log' = log /\ new = old
    BY <1>3, <1>5, <1>7 DEF Logged, m
  <2>. QED BY <1>4, <2>1
<1>8. CASE Line[m] # <<>>
  <2>1. log' = Append(log, e) /\ new = Append(old, m) /\ Fits(m, e)
    BY <1>3, <1>5, <1>8 DEF Logged, m
  <2>2. /\ log' \in Seq(Entries) /\ Len(log') = Len(log) + 1 /\ Len(log) \in Nat
        /\ (\A i \in 1 .. Len(log) : log'[i] = log[i]) /\ log'[Len(log) + 1] = e
    BY <2>1, AppendProperties
  <2>3. /\ Len(new) = Len(old) + 1
        /\ (\A i \in 1 .. Len(old) : new[i] = old[i]) /\ new[Len(old) + 1] = m
    BY <1>1, <1>3, <2>1, AppendProperties
  <2>4. ASSUME NEW i \in 1 .. Len(log') PROVE Fits(new[i], log'[i])
    <3>1. i \in 1 .. Len(log) \/ i = Len(log) + 1
      BY <2>2
    <3>2. CASE i = Len(log) + 1
      BY <1>4, <2>1, <2>2, <2>3, <3>2
    <3>3. CASE i \in 1 .. Len(log)
      BY <1>4, <2>2, <2>3, <3>3
    <3>. QED BY <3>1, <3>2, <3>3
  <2>. QED BY <1>4, <2>2, <2>3, <2>4
<1>. QED BY <1>7, <1>8

-----------------------------------------------------------------------------
(* What a line is taken for. *)

LEMMA Classifies ==
    ASSUME NEW m \in Messages, expected \in Expectations \cup {<<>>}, executing \in BOOLEAN
    PROVE  Classify(Line[m])
               = IF Line[m] = <<>> THEN "none"
                 ELSE IF /\ executing
                         /\ (m.kind = "plain" \/ (m.kind = "answer" /\ Answers(Line[m], expected)))
                      THEN "rsp"
                 ELSE IF executing /\ m.kind = "status" THEN "status"
                 ELSE IF m.kind \in {"answer", "event"} THEN "urc"
                 ELSE "noise"
<1>. DEFINE line == Line[m]
<1>1. m.kind \in {"status", "plain", "answer", "event", "noise"}
  BY MessagesAssumption
<1>2. CASE line = <<>>
  BY <1>2 DEF Classify
<1>3. CASE line # <<>>
  <2>1. KindIsTrue(m)
    BY <1>3, MessagesAssumption DEF WithLine
  <2>. DEFINE answered == {e \in Expectations : Answers(line, e)}
  <2>2. IsExpected(line) <=> expected \in answered
    BY DEF IsExpected, Answers
  <2>. HIDE DEF answered, line
  <2>3. CASE m.kind = "status"
    <3>1. answered = {} /\ IsStatus(line) /\ ~IsUrc(line)
      BY <2>1, <2>3 DEF KindIsTrue, answered, line
    <3>. QED BY <1>3, <2>2, <2>3, <3>1 DEF Classify, line
  <2>4. CASE m.kind = "plain"
    <3>1. ~IsUrc(line) /\ ~StartsWith(line, ErrorText) /\ ~StartsWith(line, EchoText)
          /\ ~IsStatus(line)
      BY <2>1, <2>4 DEF KindIsTrue, line
    <3>. QED BY <1>3, <2>4, <3>1 DEF Classify, line
  <2>5. CASE m.kind = "answer"
    <3>1. IsUrc(line) /\ ~IsStatus(line)
      BY <2>1, <2>5 DEF KindIsTrue, line
    <3>. QED BY <1>3, <2>5, <3>1 DEF Classify, IsExpected, line
  <2>6. CASE m.kind = "event"
    <3>1. IsUrc(line) /\ answered = {} /\ ~IsStatus(line)
      BY <2>1, <2>6 DEF KindIsTrue, answered, line
    <3>. QED BY <1>3, <2>2, <2>6, <3>1 DEF Classify, line
  <2>7. CASE m.kind = "noise"
    <3>1. /\ answered = {} /\ ~IsUrc(line) /\ ~IsStatus(line)
          /\ (StartsWith(line, ErrorText) \/ StartsWith(line, EchoText))
      BY <2>1, <2>7 DEF KindIsTrue, answered, line
    <3>. QED BY <1>3, <2>2, <2>7, <3>1 DEF Classify, line
  <2>. QED BY <1>1, <2>3, <2>4, <2>5, <2>6, <2>7
<1>. QED BY <1>2, <1>3

LEMMA EntryFacts ==
    ASSUME NEW kind \in Kinds, NEW line \in Texts, NEW room \in Int,
           executing \in BOOLEAN, expected \in Texts
    PROVE  /\ Entry(kind, line, room) \in Entries
           /\ Entry(kind, line, room).kind = kind /\ Entry(kind, line, room).line = line
           /\ Entry(kind, line, room).data = <<>> /\ Entry(kind, line, room).room = room
           /\ Entry(kind, line, room).executing = executing
           /\ Entry(kind, line, room).expected = expected
<1>. DEFINE params == IF kind = "rsp" /\ IsExpected(line) THEN Behind(line, Len(expected))
                      ELSE line
<1>1. params \in Texts
  <2>1. CASE IsExpected(line)
    <3>1. Len(expected) <= Len(line)
      BY <2>1 DEF IsExpected, Answers, StartsWith
    <3>2. Len(expected) \in 0 .. Len(line)
      BY <3>1 DEF Texts
    <3>. QED BY <3>2, BehindItems
  <2>2. CASE ~IsExpected(line)
    BY <2>2
  <2>. QED BY <2>1, <2>2
<1>2. Entry(kind, line, room)
          = [kind |-> kind, line |-> line, data |-> <<>>, room |-> room,
             executing |-> executing, expected |-> expected, params |-> params]
  BY DEF Entry
<1>3. <<>> \in Texts
  BY EmptySeq DEF Texts
<1>. HIDE DEF params
<1>. QED BY <1>1, <1>2, <1>3 DEF Entries

\* Data in an entry change nothing else of it.
LEMMA DataInEntry ==
    ASSUME NEW e \in Entries, NEW d \in Texts
    PROVE  /\ [e EXCEPT !.data = d] \in Entries /\ [e EXCEPT !.data = d].data = d
           /\ [e EXCEPT !.data = d].line = e.line /\ [e EXCEPT !.data = d].kind = e.kind
           /\ [e EXCEPT !.data = d].room = e.room
           /\ \A m : Meaning(m, [e EXCEPT !.data = d]) = Meaning(m, e)
<1>. DEFINE f == [e EXCEPT !.data = d]
<1>1. /\ f \in Entries /\ f.data = d /\ f.line = e.line /\ f.kind = e.kind /\ f.room = e.room
      /\ f.executing = e.executing /\ f.expected = e.expected
  BY DEF Entries
<1>. HIDE DEF f
<1>2. \A m : Meaning(m, f) = Meaning(m, e)
  BY <1>1 DEF Meaning
<1>. QED BY <1>1, <1>2 DEF f

-----------------------------------------------------------------------------
(* The steps in a text. *)

\* What a step starts from, wherever the parser is.
LEMMA ParserFacts ==
    ASSUME ParserInv
    PROVE  /\ stream \in Streams /\ stream \in Seq(Messages) /\ Len(stream) \in Nat
           /\ log \in Seq(Entries) /\ executing \in BOOLEAN
           /\ expected \in Texts /\ expected \in Expectations \cup {<<>>}
           /\ rspRoom \in Nat \cup {NoBuffer} /\ rxHeaderCount \in 0 .. 2
           /\ (~isBinaryRx => rxHeaderCount = 0) /\ lengthBuf \in Byte \X Byte /\ Field(bin)
BY StreamIs DEF ParserInv, BufferInv, TypeOK

LEMMA AllIsRead ==
    ASSUME stream \in Streams, ReadUpTo(Len(stream) + 1, 0)
    PROVE  wire = <<>>
<1>. DEFINE W == Sent(stream)
<1>1. W \in Texts /\ Before(stream, Len(stream) + 1) = Len(W)
  BY StreamIs, StreamFacts
<1>2. wire = Behind(W, Len(W) + 0)
  BY <1>1 DEF ReadUpTo
<1>. HIDE DEF W
<1>3. Len(W) \in Nat /\ Len(W) + 0 = Len(W)
  BY <1>1 DEF Texts
<1>4. wire \in Texts /\ Len(wire) = 0
  BY <1>1, <1>2, <1>3, BehindItems
<1>. QED BY <1>4, EmptySeq DEF Texts

\* Outside of binary data, with something to read, it is in a text or behind it.
LEMMA WhereText ==
    ASSUME ParserInv, NotBinary
    PROVE  \E k \in 1 .. Len(stream) :
               InLineEnd(k) \/ \E p \in 0 .. Len(stream[k].text) : InText(k, p)
<1>1. stream \in Streams /\ stream \in Seq(Messages) /\ Len(stream) \in Nat
  BY ParserFacts
<1>2. PICK k \in 1 .. Len(stream) + 1 :
          \/ BeforeMessage(k) \/ InLineEnd(k) \/ InLength(k)
          \/ \E p \in 0 .. Len(stream[k].text) : InText(k, p)
          \/ \E c \in 0 .. Len(stream[k].data) : InData(k, c)
  BY DEF ParserInv, Somewhere
<1>3. CASE BeforeMessage(k)
  <2>1. k # Len(stream) + 1
    BY <1>1, <1>3, AllIsRead DEF BeforeMessage, NotBinary
  <2>2. k \in 1 .. Len(stream)
    BY <1>1, <2>1
  <2>3. stream[k] \in Messages
    BY <1>1, <2>2, ElementOfSeq
  <2>4. KeptOf(stream[k].text, 0) = <<>> /\ 0 \in 0 .. Len(stream[k].text)
    BY <2>3, LineFacts, MessageFacts
  <2>5. InText(k, 0)
    BY <1>3, <2>2, <2>4 DEF BeforeMessage, InText
  <2>. QED BY <2>2, <2>4, <2>5
<1>4. CASE InLineEnd(k)
  BY <1>4 DEF InLineEnd
<1>5. CASE InLength(k)
  BY <1>5 DEF InLength, NotBinary
<1>6. CASE \E p \in 0 .. Len(stream[k].text) : InText(k, p)
  BY <1>6 DEF InText
<1>7. CASE \E c \in 0 .. Len(stream[k].data) : InData(k, c)
  BY <1>7 DEF InData, NotBinary
<1>. QED BY <1>2, <1>3, <1>4, <1>5, <1>6, <1>7

LEMMA ByteOfText ==
    ASSUME ParserInv, NEW k \in 1 .. Len(stream), NEW p \in 0 .. Len(stream[k].text) - 1,
           InText(k, p), ReadStart \/ ReadLineEnd \/ ReadChar \/ ReadOther
    PROVE  InText(k, p + 1)' /\ log' \in Seq(Entries)
<1>. DEFINE m == stream[k]  t == m.text  f == Frame(m)
<1>1. stream \in Streams /\ m \in Messages /\ log \in Seq(Entries)
  BY ParserFacts, ElementOfSeq
<1>2. /\ Len(t) \in Nat /\ Len(f) \in Nat /\ Len(t) <= Len(f) /\ f[p + 1] = t[p + 1]
      /\ t[p + 1] \in Byte \ {SOH, CR, LF} /\ p + 1 \in 1 .. Len(t)
  <2>1. /\ Len(t) \in Nat /\ m.binary \in BOOLEAN /\ Len(m.data) \in Nat
        /\ \A i \in 1 .. Len(t) : t[i] \in Byte \ {SOH, CR, LF}
    BY <1>1, MessageFacts
  <2>2. /\ \A i \in 1 .. Len(t) : f[i] = t[i]
        /\ (~m.binary => Len(f) = Len(t) + 2)
        /\ (m.binary => Len(f) = Len(t) + 3 + Len(m.data))
    BY <1>1, FrameFacts
  <2>3. p + 1 \in 1 .. Len(t)
    BY <2>1
  <2>4. Len(f) \in Nat /\ Len(t) <= Len(f)
    <3>. DEFINE a == Len(t)  b == Len(f)  c == Len(m.data)
    <3>1. a \in Nat /\ c \in Nat /\ (b = a + 2 \/ b = a + 3 + c)
      BY <2>1, <2>2
    <3>. HIDE DEF a, b, c
    <3>2. b \in Nat /\ a <= b
      BY <3>1
    <3>. QED BY <3>2 DEF a, b
  <2>5. f[p + 1] = t[p + 1] /\ t[p + 1] \in Byte \ {SOH, CR, LF}
    BY <2>1, <2>2, <2>3
  <2>. QED BY <2>1, <2>3, <2>4, <2>5
<1>3. p \in 0 .. Len(f) /\ 1 \in 1 .. Len(f) - p /\ 1 \in 0 .. Len(f) - p /\ (p + 1) - 1 = p
  BY <1>2
<1>4. wire[1] = t[p + 1]
  <2>1. ReadUpTo(k, p)
    BY DEF InText
  <2>. QED BY <1>1, <1>2, <1>3, <2>1, NextBytes
<1>5. ReadChar \/ ReadOther
  BY <1>2, <1>4 DEF ReadStart, ReadLineEnd
<1>6. Take(1) /\ UNCHANGED <<stream, log, isBinaryRx>>
  BY <1>5 DEF ReadChar, ReadOther, client
<1>7. ReadUpTo(k, p + 1)'
  BY <1>1, <1>3, <1>6, TakesBytes DEF InText
<1>8. rx = KeptOf(t, p) /\ LogIs(k - 1) /\ ~isBinaryRx
  BY DEF InText
<1>9. KeptOf(t, p + 1)
          = IF t[p + 1] \in Printing
            THEN IF Len(KeptOf(t, p)) + 1 = RxBufferLen THEN <<>> ELSE Append(KeptOf(t, p), t[p + 1])
            ELSE KeptOf(t, p)
  BY <1>1, <1>2, <1>3, LineFacts
<1>10. rx' = KeptOf(t, p + 1)
  <2>1. CASE ReadChar
    BY <1>4, <1>8, <1>9, <2>1 DEF ReadChar, IsPrint, Printing
  <2>2. CASE ReadOther
    BY <1>4, <1>8, <1>9, <2>2 DEF ReadOther, IsPrint, Printing, client
  <2>. QED BY <1>5, <2>1, <2>2
<1>11. LogIs(k - 1)'
  BY <1>6, <1>8, LogStays
<1>12. p + 1 \in 0 .. Len(t)
  BY <1>2
<1>. QED BY <1>1, <1>6, <1>7, <1>8, <1>10, <1>11, <1>12 DEF InText

\* The byte behind the text of a binary message
LEMMA StartOfLength ==
    ASSUME ParserInv, NEW k \in 1 .. Len(stream), InText(k, Len(stream[k].text)),
           stream[k].binary, ReadStart \/ ReadLineEnd \/ ReadChar \/ ReadOther
    PROVE  InLength(k)' /\ log' \in Seq(Entries)
<1>. DEFINE m == stream[k]  p == Len(m.text)  f == Frame(m)
<1>1. stream \in Streams /\ m \in Messages /\ log \in Seq(Entries)
  BY ParserFacts, ElementOfSeq
<1>2. /\ p \in Nat /\ Len(f) \in Nat /\ p + 3 <= Len(f) /\ f[p + 1] = SOH
  <2>1. p \in Nat /\ Len(m.data) \in Nat
    BY <1>1, MessageFacts
  <2>. DEFINE n == Len(f)  c == Len(m.data)
  <2>2. n = p + 3 + c /\ f[p + 1] = SOH
    BY <1>1, FrameFacts
  <2>3. c \in Nat
    BY <2>1
  <2>. HIDE DEF n, c, p
  <2>4. p \in Nat
    BY <2>1 DEF p
  <2>5. n \in Nat /\ p + 3 <= n
    BY <2>2, <2>3, <2>4
  <2>. QED BY <2>2, <2>4, <2>5 DEF n
<1>3. p \in 0 .. Len(f) /\ 1 \in 1 .. Len(f) - p /\ 1 \in 0 .. Len(f) - p
  BY <1>2
<1>4. wire[1] = SOH
  <2>1. ReadUpTo(k, p)
    BY DEF InText
  <2>. QED BY <1>1, <1>2, <1>3, <2>1, NextBytes
<1>5. ReadStart
  BY <1>4 DEF ReadLineEnd, ReadChar, ReadOther, IsPrint, SOH, CR, LF
<1>6. Take(1) /\ UNCHANGED <<stream, log, rx, rxHeaderCount>> /\ isBinaryRx' = TRUE
  BY <1>5 DEF ReadStart
<1>7. ReadUpTo(k, p + 1)'
  BY <1>1, <1>3, <1>6, TakesBytes DEF InText
<1>8. rx = Line[m] /\ LogIs(k - 1) /\ rxHeaderCount = 0
  BY <1>1, LineFacts, ParserFacts DEF InText
<1>9. LogIs(k - 1)'
  BY <1>6, <1>8, LogStays
<1>10. p + 1 + rxHeaderCount' = p + 1
  BY <1>2, <1>6, <1>8
<1>. QED BY <1>1, <1>6, <1>7, <1>8, <1>9, <1>10 DEF InLength

\* What a line is taken for, once and for all
LEMMA RoomFacts ==
    ASSUME NEW line, NEW room \in RoomFor(line)
    PROVE  /\ room \in Int /\ room >= NoRoom /\ (room # NoRoom => room \in Nat)
           /\ (Classify(line) # "urc" => room = NoRoom)
BY AtParserAssumption DEF RoomFor, NoRoom

LEMMA LineOfText ==
    ASSUME ParserInv, NEW k \in 1 .. Len(stream), InText(k, Len(stream[k].text)),
           ~stream[k].binary, ReadStart \/ ReadLineEnd \/ ReadChar \/ ReadOther
    PROVE  InLineEnd(k)' /\ log' \in Seq(Entries)
<1>. DEFINE m == stream[k]  p == Len(m.text)  f == Frame(m)
<1>1. stream \in Streams /\ m \in Messages /\ log \in Seq(Entries)
      /\ executing \in BOOLEAN /\ expected \in Texts /\ expected \in Expectations \cup {<<>>}
  BY ParserFacts, ElementOfSeq
<1>2. p \in Nat /\ Len(f) \in Nat /\ p + 2 <= Len(f) /\ f[p + 1] = CR
  <2>1. p \in Nat
    BY <1>1, MessageFacts
  <2>2. Len(f) = p + 2 /\ f[p + 1] = CR
    BY <1>1, FrameFacts
  <2>. QED BY <2>1, <2>2
<1>3. p \in 0 .. Len(f) /\ 1 \in 1 .. Len(f) - p /\ 1 \in 0 .. Len(f) - p
  BY <1>2
<1>4. wire[1] = CR
  <2>1. ReadUpTo(k, p)
    BY DEF InText
  <2>. QED BY <1>1, <1>2, <1>3, <2>1, NextBytes
<1>5. ReadLineEnd
  BY <1>4 DEF ReadStart, ReadChar, ReadOther, IsPrint, SOH, CR, LF
<1>6. Take(1) /\ UNCHANGED <<stream, isBinaryRx>> /\ rx' = <<>>
  BY <1>5 DEF ReadLineEnd
<1>7. ReadUpTo(k, p + 1)'
  BY <1>1, <1>3, <1>6, TakesBytes DEF InText
<1>8. rx = Line[m] /\ LogIs(k - 1) /\ ~isBinaryRx /\ rx \in Texts
  <2>1. p \in 0 .. p
    BY <1>2
  <2>. QED BY <1>1, <2>1, LineFacts DEF InText
<1>9. PICK room \in RoomFor(rx) :
          log' = Logged(Entry(IF Classify(rx) = "urc" /\ room = NoRoom THEN "dropped"
                              ELSE Classify(rx), rx, room))
  BY <1>5 DEF ReadLineEnd
<1>. DEFINE kind == IF Classify(rx) = "urc" /\ room = NoRoom THEN "dropped" ELSE Classify(rx)
            e == Entry(kind, rx, room)
<1>10. room \in Int
  BY <1>9, RoomFacts
<1>11. Classify(rx)
           = IF Line[m] = <<>> THEN "none"
             ELSE IF /\ executing
                     /\ (m.kind = "plain" \/ (m.kind = "answer" /\ Answers(Line[m], expected)))
                  THEN "rsp"
             ELSE IF executing /\ m.kind = "status" THEN "status"
             ELSE IF m.kind \in {"answer", "event"} THEN "urc"
             ELSE "noise"
  BY <1>1, <1>8, Classifies
<1>12. kind \in Kinds
  BY <1>11 DEF Kinds
<1>13. log' = Logged(e)
  BY <1>9
<1>14. e \in Entries /\ e.kind = kind /\ e.line = rx /\ e.data = <<>> /\ e.room = room
       /\ e.executing = executing /\ e.expected = expected
  BY <1>1, <1>8, <1>10, <1>12, EntryFacts
<1>. HIDE DEF e
<1>15. IF Line[m] = <<>> THEN e.kind = "none" ELSE e.kind # "none" /\ Fits(m, e)
  <2>1. CASE Line[m] = <<>>
    BY <1>11, <1>14, <2>1
  <2>2. CASE Line[m] # <<>>
    <3>1. e.kind = Meaning(m, e)
      BY <1>11, <1>14, <2>2 DEF Meaning
    <3>2. e.kind # "none"
      BY <1>11, <1>14, <2>2
    <3>3. e.data = Arrived(m, e.kind, e.room)
      BY <1>14 DEF Arrived
    <3>. QED BY <1>8, <1>14, <2>2, <3>1, <3>2, <3>3 DEF Fits
  <2>. QED BY <2>1, <2>2
<1>16. LogIs(k)' /\ log' \in Seq(Entries)
  BY <1>1, <1>6, <1>8, <1>13, <1>14, <1>15, LogGrows
<1>. QED BY <1>6, <1>7, <1>8, <1>16 DEF InLineEnd

LEMMA EndOfLine ==
    ASSUME ParserInv, NEW k \in 1 .. Len(stream), InLineEnd(k),
           ReadStart \/ ReadLineEnd \/ ReadChar \/ ReadOther
    PROVE  BeforeMessage(k + 1)' /\ log' \in Seq(Entries)
<1>. DEFINE m == stream[k]  p == Len(m.text) + 1  f == Frame(m)
<1>1. stream \in Streams /\ m \in Messages /\ log \in Seq(Entries) /\ Len(stream) \in Nat
  BY ParserFacts, ElementOfSeq
<1>2. ~m.binary /\ ReadUpTo(k, p) /\ LogIs(k) /\ rx = <<>> /\ ~isBinaryRx
  BY DEF InLineEnd
<1>3. p \in Nat /\ Len(f) = p + 1 /\ f[p + 1] = LF
  <2>1. Len(m.text) \in Nat
    BY <1>1, MessageFacts
  <2>2. Len(f) = Len(m.text) + 2 /\ f[Len(m.text) + 2] = LF
    BY <1>1, <1>2, FrameFacts
  <2>. QED BY <2>1, <2>2
<1>4. p \in 0 .. Len(f) /\ 1 \in 1 .. Len(f) - p /\ 1 \in 0 .. Len(f) - p
  BY <1>3
<1>5. wire[1] = LF
  BY <1>1, <1>2, <1>3, <1>4, NextBytes
<1>6. ReadLineEnd
  BY <1>5 DEF ReadStart, ReadChar, ReadOther, IsPrint, SOH, CR, LF
<1>7. Take(1) /\ UNCHANGED <<stream, isBinaryRx>> /\ rx' = <<>>
  BY <1>6 DEF ReadLineEnd
<1>8. ReadUpTo(k + 1, 0)'
  BY <1>1, <1>2, <1>3, <1>4, <1>7, TakesBytes
<1>9. log' = log
  <2>1. Classify(rx) = "none"
    BY <1>2 DEF Classify
  <2>2. \A room : Entry("none", rx, room).kind = "none"
    BY DEF Entry
  <2>. QED BY <1>6, <2>1, <2>2 DEF ReadLineEnd, Logged
<1>10. LogIs(k)' /\ (k + 1) - 1 = k /\ k + 1 \in 1 .. Len(stream) + 1
  BY <1>1, <1>2, <1>7, <1>9, LogStays
<1>. QED BY <1>1, <1>2, <1>7, <1>8, <1>9, <1>10 DEF BeforeMessage

LEMMA TextStep ==
    ASSUME ParserInv, ReadStart \/ ReadLineEnd \/ ReadChar \/ ReadOther
    PROVE  Somewhere' /\ log' \in Seq(Entries) /\ UNCHANGED <<stream, expected>>
<1>. USE DEF client, command
<1>1. NotBinary /\ UNCHANGED <<stream, expected>>
  BY DEF ReadStart, ReadLineEnd, ReadChar, ReadOther
<1>2. PICK k \in 1 .. Len(stream) :
          InLineEnd(k) \/ \E p \in 0 .. Len(stream[k].text) : InText(k, p)
  BY <1>1, WhereText
<1>3. Len(stream) \in Nat /\ stream[k] \in Messages
  BY ParserFacts, ElementOfSeq
<1>4. Len(stream[k].text) \in Nat /\ stream[k].binary \in BOOLEAN
  BY <1>3, MessageFacts
<1>5. CASE InLineEnd(k)
  <2>1. BeforeMessage(k + 1)' /\ log' \in Seq(Entries) /\ k + 1 \in 1 .. Len(stream) + 1
    BY <1>3, <1>5, EndOfLine
  <2>. QED BY <1>1, <2>1 DEF Somewhere
<1>6. ASSUME NEW p \in 0 .. Len(stream[k].text), InText(k, p)
      PROVE  Somewhere' /\ log' \in Seq(Entries)
  <2>1. CASE p # Len(stream[k].text)
    <3>1. p \in 0 .. Len(stream[k].text) - 1 /\ p + 1 \in 0 .. Len(stream[k].text)
      BY <1>4, <2>1
    <3>2. InText(k, p + 1)' /\ log' \in Seq(Entries) /\ k \in 1 .. Len(stream) + 1
      BY <1>3, <1>6, <3>1, ByteOfText
    <3>. QED BY <1>1, <3>1, <3>2 DEF Somewhere
  <2>2. CASE p = Len(stream[k].text) /\ stream[k].binary
    <3>1. InLength(k)' /\ log' \in Seq(Entries) /\ k \in 1 .. Len(stream) + 1
      BY <1>3, <1>6, <2>2, StartOfLength
    <3>. QED BY <1>1, <3>1 DEF Somewhere
  <2>3. CASE p = Len(stream[k].text) /\ ~stream[k].binary
    <3>1. InLineEnd(k)' /\ log' \in Seq(Entries) /\ k \in 1 .. Len(stream) + 1
      BY <1>3, <1>6, <2>3, LineOfText
    <3>. QED BY <1>1, <3>1 DEF Somewhere
  <2>. QED BY <2>1, <2>2, <2>3
<1>. QED BY <1>1, <1>2, <1>5, <1>6

-----------------------------------------------------------------------------
(* The steps in binary data. *)

LEMMA WhereBinary ==
    ASSUME ParserInv, isBinaryRx
    PROVE  \E k \in 1 .. Len(stream) :
               \/ InLength(k)
               \/ \E c \in 0 .. Len(stream[k].data) - 1 : InData(k, c)
<1>1. PICK k \in 1 .. Len(stream) + 1 :
          \/ BeforeMessage(k) \/ InLineEnd(k) \/ InLength(k)
          \/ \E p \in 0 .. Len(stream[k].text) : InText(k, p)
          \/ \E c \in 0 .. Len(stream[k].data) : InData(k, c)
  BY DEF ParserInv, Somewhere
<1>2. CASE InLength(k)
  BY <1>2 DEF InLength
<1>3. CASE \E c \in 0 .. Len(stream[k].data) : InData(k, c)
  BY <1>3 DEF InData
<1>4. CASE ~InLength(k) /\ ~(\E c \in 0 .. Len(stream[k].data) : InData(k, c))
  BY <1>1, <1>4 DEF BeforeMessage, InLineEnd, InText
<1>. QED BY <1>2, <1>3, <1>4

\* The bytes of the frame of a binary message
LEMMA BinaryFrame ==
    ASSUME ParserInv, NEW k \in 1 .. Len(stream), stream[k].binary
    PROVE  /\ stream \in Streams /\ stream[k] \in Messages
           /\ Len(stream[k].text) \in Nat /\ Len(stream[k].data) \in 0 .. MaxLength
           /\ Len(stream[k].data) \in Nat
           /\ stream[k].data \in Texts
           /\ Len(Frame(stream[k])) = Len(stream[k].text) + 3 + Len(stream[k].data)
           /\ Frame(stream[k])[Len(stream[k].text) + 2] = Len(stream[k].data) \div 256
           /\ Frame(stream[k])[Len(stream[k].text) + 3] = Len(stream[k].data) % 256
           /\ \A i \in 1 .. Len(stream[k].data) :
                  Frame(stream[k])[Len(stream[k].text) + 3 + i] = stream[k].data[i]
<1>1. stream \in Streams /\ stream[k] \in Messages
  BY ParserFacts, ElementOfSeq
<1>2. /\ Len(stream[k].text) \in Nat /\ Len(stream[k].data) \in 0 .. MaxLength
      /\ stream[k].data \in Texts
  BY <1>1, MessageFacts
<1>3. Len(stream[k].data) \in Nat
  BY <1>2 DEF Texts
<1>. QED BY <1>1, <1>2, <1>3, FrameFacts

LEMMA HalfOfLength ==
    ASSUME ParserInv, NEW k \in 1 .. Len(stream), InLength(k), ReadPartOfLength
    PROVE  InLength(k)'
<1>. DEFINE m == stream[k]  L == Len(m.text)  f == Frame(m)  n == Len(m.data)
<1>1. m.binary /\ isBinaryRx /\ rx = Line[m] /\ LogIs(k - 1)
      /\ ReadUpTo(k, L + 1 + rxHeaderCount)
  BY DEF InLength
<1>2. /\ rxHeaderCount = 0 /\ rxHeaderCount' = 1 /\ Take(1) /\ UNCHANGED stream
      /\ UNCHANGED <<rx, isBinaryRx, stream, log>> /\ lengthBuf' = <<wire[1], lengthBuf[2]>>
  BY DEF ReadPartOfLength
<1>3. stream \in Streams /\ L \in Nat /\ n \in Nat /\ Len(f) = L + 3 + n /\ f[L + 2] = n \div 256
  <2>1. m.binary
    BY <1>1
  <2>. QED BY <2>1, BinaryFrame
<1>4. PICK p : p = L + 1
  OBVIOUS
<1>5. /\ L + 1 + rxHeaderCount = p /\ p \in 0 .. Len(f) /\ 1 \in 1 .. Len(f) - p
      /\ 1 \in 0 .. Len(f) - p /\ p + 1 = L + 2
  <2>. DEFINE x == Len(f)
  <2>. HIDE DEF L, n, x
  <2>1. x = L + 3 + n
    BY <1>3 DEF x
  <2>2. /\ L + 1 + rxHeaderCount = p /\ p \in 0 .. x /\ 1 \in 1 .. x - p
        /\ 1 \in 0 .. x - p /\ p + 1 = L + 2
    BY <1>2, <1>3, <1>4, <2>1
  <2>. QED BY <2>2 DEF x
<1>6. ReadUpTo(k, p)
  BY <1>1, <1>5
<1>7. wire[1] = f[p + 1]
  BY <1>3, <1>5, <1>6, NextBytes
<1>8. ReadUpTo(k, p + 1)'
  BY <1>2, <1>3, <1>5, <1>6, TakesBytes
<1>9. LogIs(k - 1)'
  BY <1>1, <1>2, LogStays
<1>10. lengthBuf'[1] = n \div 256
  BY <1>2, <1>3, <1>5, <1>7
<1>11. (L + 1 + rxHeaderCount)' = p + 1
  BY <1>2, <1>4
<1>12. ReadUpTo(k, L + 1 + rxHeaderCount)'
  BY <1>8, <1>11 DEF ReadUpTo
<1>. QED BY <1>1, <1>2, <1>9, <1>10, <1>12 DEF InLength

\* Two bytes of which some were read before.
LEMMA LengthInParts ==
    ASSUME NEW t \in Texts, Len(t) = 2, NEW w \in Texts, NEW h \in {0, 1}, NEW d \in {1, 2},
           h + d = 2, d <= Len(w)
    PROVE  /\ h = 0 => /\ (FirstOf(t, h) \o FirstOf(w, d))[1] = w[1]
                       /\ (FirstOf(t, h) \o FirstOf(w, d))[2] = w[2]
           /\ h = 1 => /\ (FirstOf(t, h) \o FirstOf(w, d))[1] = t[1]
                       /\ (FirstOf(t, h) \o FirstOf(w, d))[2] = w[1]
<1>. DEFINE a == FirstOf(t, h)  b == FirstOf(w, d)  u == a \o b
<1>1. Len(w) \in Nat /\ h \in Nat /\ d \in Nat
  BY DEF Texts
<1>2. a \in Texts /\ Len(a) = h /\ \A i \in 1 .. h : a[i] = t[i]
  BY <1>1, FirstOfFacts
<1>3. b \in Texts /\ Len(b) = d /\ \A i \in 1 .. d : b[i] = w[i]
  BY <1>1, FirstOfFacts
<1>. HIDE DEF a, b
<1>4. \A i \in 1 .. Len(a) + Len(b) : u[i] = IF i <= Len(a) THEN a[i] ELSE b[i - Len(a)]
  BY <1>2, <1>3, ConcatProperties DEF Texts
<1>. HIDE DEF u
<1>5. ASSUME h = 0 PROVE u[1] = w[1] /\ u[2] = w[2]
  <2>1. Len(a) = 0 /\ Len(b) = 2
    BY <1>2, <1>3, <1>5
  <2>2. u[1] = b[1] /\ u[2] = b[2]
    BY <1>4, <2>1
  <2>. QED BY <1>3, <1>5, <2>2
<1>6. ASSUME h = 1 PROVE u[1] = t[1] /\ u[2] = w[1]
  <2>1. Len(a) = 1 /\ Len(b) = 1
    BY <1>2, <1>3, <1>6
  <2>2. u[1] = a[1] /\ u[2] = b[1]
    <3>1. 1 \in 1 .. Len(a) + Len(b) /\ 2 \in 1 .. Len(a) + Len(b) /\ 1 <= Len(a)
          /\ ~(2 <= Len(a)) /\ 2 - Len(a) = 1
      BY <2>1
    <3>. QED BY <1>4, <3>1
  <2>3. 1 \in 1 .. h /\ 1 \in 1 .. d
    BY <1>1, <1>6
  <2>. QED BY <1>2, <1>3, <2>2, <2>3
<1>. QED BY <1>5, <1>6 DEF a, b, u

\* A length that is complete, in one read or two, is that of the data.
LEMMA WholeLength ==
    ASSUME ParserInv, NEW k \in 1 .. Len(stream), InLength(k), ReadLength
    PROVE  /\ 256 * lengthBuf'[1] + lengthBuf'[2] = Len(stream[k].data)
           /\ ReadUpTo(k, Len(stream[k].text) + 3)'
           /\ Len(stream[k].data) = 0 => ReadUpTo(k + 1, 0)'
<1>. DEFINE m == stream[k]  f == Frame(m)
<1>1. PICK L, n, h, d, p, x : /\ L = Len(m.text) /\ n = Len(m.data) /\ h = rxHeaderCount
                              /\ d = 2 - h /\ p = L + 1 + h /\ x = Len(f)
  OBVIOUS
<1>2. m.binary /\ h \in {0, 1} /\ (h = 1 => lengthBuf[1] = n \div 256) /\ ReadUpTo(k, p)
  BY <1>1 DEF InLength
<1>3. /\ d <= Len(wire) /\ Take(d) /\ UNCHANGED stream
      /\ lengthBuf' = FirstOf(lengthBuf, h) \o FirstOf(wire, d)
  BY <1>1 DEF ReadLength
<1>4. /\ stream \in Streams /\ L \in Nat /\ n \in 0 .. MaxLength /\ n \in Nat
      /\ x = L + 3 + n /\ f[L + 2] = n \div 256 /\ f[L + 3] = n % 256
  <2>1. m.binary
    BY <1>2
  <2>2. /\ stream \in Streams /\ Len(m.text) \in Nat /\ Len(m.data) \in 0 .. MaxLength
        /\ Len(m.data) \in Nat /\ Len(f) = Len(m.text) + 3 + Len(m.data)
        /\ f[Len(m.text) + 2] = Len(m.data) \div 256
        /\ f[Len(m.text) + 3] = Len(m.data) % 256
    BY <2>1, BinaryFrame
  <2>. HIDE DEF m, f
  <2>. QED BY <1>1, <2>2
<1>5. lengthBuf \in Texts /\ Len(lengthBuf) = 2
  <2>1. lengthBuf \in Byte \X Byte
    BY ParserFacts
  <2>2. PICK a \in Byte, b \in Byte : lengthBuf = <<a, b>>
    BY <2>1
  <2>3. <<a, b>> \in Seq(Byte) /\ Len(<<a, b>>) = 2
    OBVIOUS
  <2>. QED BY <2>2, <2>3 DEF Texts
<1>6. d = 2 - h /\ p = L + 1 + h
  BY <1>1
<1>7. /\ p \in 0 .. x /\ d \in 0 .. x - p /\ p + d = L + 3
      /\ d \in {1, 2} /\ h + d = 2
      /\ 1 \in 1 .. x - p /\ (h = 0 => 2 \in 1 .. x - p)
      /\ (h = 0 => p + 1 = L + 2 /\ p + 2 = L + 3) /\ (h = 1 => p + 1 = L + 3)
  BY <1>2, <1>4, <1>6
<1>8. wire \in Texts /\ \A i \in 1 .. x - p : wire[i] = f[p + i]
  <2>1. p \in 0 .. Len(f)
    BY <1>1, <1>7
  <2>2. wire \in Texts /\ \A i \in 1 .. Len(f) - p : wire[i] = f[p + i]
    BY <1>2, <1>4, <2>1, NextBytes
  <2>. QED BY <1>1, <2>2
<1>9. ReadUpTo(k, L + 3)' /\ (n = 0 => ReadUpTo(k + 1, 0)')
  <2>1. p \in 0 .. Len(f) /\ d \in 0 .. Len(f) - p
    BY <1>1, <1>7
  <2>2. ReadUpTo(k, p + d)' /\ (p + d = Len(f) => ReadUpTo(k + 1, 0)')
    BY <1>2, <1>3, <1>4, <2>1, TakesBytes
  <2>3. n = 0 => p + d = Len(f)
    BY <1>1, <1>4, <1>7
  <2>. QED BY <1>7, <2>2, <2>3
<1>10. lengthBuf'[1] = n \div 256 /\ lengthBuf'[2] = n % 256
  <2>1. /\ h = 0 => lengthBuf'[1] = wire[1] /\ lengthBuf'[2] = wire[2]
        /\ h = 1 => lengthBuf'[1] = lengthBuf[1] /\ lengthBuf'[2] = wire[1]
    <3>. DEFINE u == FirstOf(lengthBuf, h) \o FirstOf(wire, d)
    <3>1. /\ h = 0 => u[1] = wire[1] /\ u[2] = wire[2]
          /\ h = 1 => u[1] = lengthBuf[1] /\ u[2] = wire[1]
      <4>1. wire \in Texts /\ d <= Len(wire) /\ d \in {1, 2} /\ h \in {0, 1} /\ h + d = 2
        BY <1>2, <1>3, <1>7, <1>8
      <4>. QED BY <1>5, <4>1, LengthInParts
    <3>2. lengthBuf' = u
      BY <1>3
    <3>. HIDE DEF u
    <3>. QED BY <3>1, <3>2
  <2>2. CASE h = 0
    <3>1. wire[1] = f[L + 2] /\ wire[2] = f[L + 3]
      BY <1>7, <1>8, <2>2
    <3>. QED BY <1>4, <2>1, <2>2, <3>1
  <2>3. CASE h = 1
    <3>1. wire[1] = f[L + 3]
      BY <1>7, <1>8, <2>3
    <3>. QED BY <1>2, <1>4, <2>1, <2>3, <3>1
  <2>. QED BY <1>2, <2>2, <2>3
<1>11. n = 256 * (n \div 256) + (n % 256)
  BY <1>4, LengthBytes
<1>12. ReadUpTo(k, Len(stream[k].text) + 3)'
  <2>1. Len(stream[k].text)' = L
    BY <1>1, <1>3
  <2>. QED BY <1>9, <2>1 DEF ReadUpTo
<1>. QED BY <1>1, <1>9, <1>10, <1>11, <1>12

LEMMA NothingYet ==
    ASSUME NEW t \in Texts, NEW size \in Nat
    PROVE  FirstOf(t, Smaller(0, size)) = <<>>
<1>1. Smaller(0, size) = 0
  BY DEF Smaller
<1>2. FirstOf(t, 0) \in Texts /\ Len(FirstOf(t, 0)) = 0
  <2>1. Len(t) \in Nat
    BY DEF Texts
  <2>. QED BY <2>1, FirstOfFacts
<1>. QED BY <1>1, <1>2, EmptySeq DEF Texts

\* What setupBinaryTransfer() makes of a line is what the line means.
LEMMA SetupTransfers ==
    ASSUME ParserInv, NEW k \in 1 .. Len(stream), stream[k].binary,
           NEW room \in RoomFor(Line[stream[k]])
    PROVE  LET b == Setup(Line[stream[k]], room, Len(stream[k].data))
           IN  Transfers(b, stream[k], 0) /\ b.size \in Nat
<1>. DEFINE m == stream[k]  line == Line[m]  n == Len(m.data)  b == Setup(line, room, n)
            meant == IF executing
                        /\ (m.kind = "plain" \/ (m.kind = "answer" /\ Answers(Line[m], expected)))
                     THEN "rsp"
                     ELSE IF executing /\ m.kind = "status" THEN "status"
                     ELSE IF m.kind \in {"answer", "event"} THEN "urc"
                     ELSE "noise"
<1>1. /\ m \in Messages /\ n \in Nat /\ m.data \in Texts /\ m.binary
      /\ executing \in BOOLEAN /\ expected \in Texts /\ expected \in Expectations \cup {<<>>}
      /\ rspRoom \in Nat \cup {NoBuffer}
  BY BinaryFrame, ParserFacts
<1>2. Classify(line) = IF line = <<>> THEN "none" ELSE meant
  BY <1>1, Classifies
<1>3. line \in Texts
  <2>1. Len(m.text) \in 0 .. Len(m.text)
    BY <1>1, MessageFacts
  <2>. QED BY <1>1, <2>1, LineFacts
<1>4. room \in Int /\ room >= NoRoom /\ (room # NoRoom => room \in Nat)
  BY RoomFacts
<1>5. \A size \in Nat : FirstOf(m.data, Smaller(0, size)) = <<>>
  BY <1>1, NothingYet
<1>6. meant \in Kinds /\ meant # "none"
  BY DEF Kinds
<1>7. n - 0 = n
  BY <1>1
<1>. DEFINE Ok(kind, r, size) ==
                /\ kind \in Kinds /\ r \in Int /\ size \in Nat
                /\ b = Binary(Entry(kind, line, r), size, n)
                /\ kind = IF line = <<>> THEN "none" ELSE Meaning(m, Entry(kind, line, r))
                /\ kind \in {"rsp", "urc"} => size = r
                /\ kind = "urc" => size > n
                /\ kind \notin {"rsp", "urc"} => size = 0
<1>8. ASSUME NEW kind, NEW r, NEW size, Ok(kind, r, size)
      PROVE  Transfers(b, m, 0) /\ b.size \in Nat
  <2>. DEFINE e == Entry(kind, line, r)
  <2>1. e \in Entries /\ e.kind = kind /\ e.line = line /\ e.data = <<>> /\ e.room = r
    BY <1>1, <1>3, <1>8, EntryFacts
  <2>2. b.entry = e /\ b.buf = <<>> /\ b.size = size /\ b.remaining = n
    BY <1>8 DEF Binary
  <2>. HIDE DEF e, b
  <2>3. b.entry.kind = IF line = <<>> THEN "none" ELSE Meaning(m, b.entry)
    BY <1>8, <2>1, <2>2 DEF e
  <2>. QED BY <1>5, <1>7, <1>8, <2>1, <2>2, <2>3 DEF Transfers
<1>9. \A kind \in Kinds, r \in Int :
          LET e == Entry(kind, line, r)
          IN  e.executing = executing /\ e.expected = expected /\ e.room = r
  BY <1>1, <1>3, EntryFacts
<1>. SUFFICES Transfers(b, m, 0) /\ b.size \in Nat
  OBVIOUS
<1>. HIDE DEF b, Ok
<1>10. CASE Classify(line) = "rsp"
  <2>. DEFINE size == IF rspRoom = NoBuffer THEN 0 ELSE rspRoom
  <2>1. size \in Nat /\ size \in Int
    BY <1>1
  <2>2. b = Binary(Entry("rsp", line, size), size, n)
    BY <1>10 DEF Setup, b
  <2>. HIDE DEF size
  <2>3. line # <<>> /\ "rsp" = meant /\ "rsp" \in Kinds
    BY <1>2, <1>6, <1>10
  <2>4. Meaning(m, Entry("rsp", line, size)) = "rsp"
    BY <1>9, <2>1, <2>3 DEF Meaning
  <2>5. Ok("rsp", size, size)
    BY <2>1, <2>2, <2>3, <2>4 DEF Ok
  <2>. QED BY <1>8, <2>5
<1>11. CASE Classify(line) = "urc" /\ room > n
  <2>1. room \in Nat /\ room # NoRoom
    BY <1>1, <1>4, <1>11 DEF NoRoom
  <2>2. b = Binary(Entry("urc", line, room), room, n)
    BY <1>11 DEF Setup, b
  <2>3. line # <<>> /\ "urc" = meant /\ "urc" \in Kinds
    BY <1>2, <1>6, <1>11
  <2>4. Meaning(m, Entry("urc", line, room)) = "urc"
    BY <1>4, <1>9, <1>11, <2>1, <2>3 DEF Meaning
  <2>5. Ok("urc", room, room)
    BY <1>4, <1>11, <2>1, <2>2, <2>3, <2>4 DEF Ok
  <2>. QED BY <1>8, <2>5
<1>12. CASE Classify(line) = "urc" /\ ~(room > n)
  <2>1. b = Binary(Entry("dropped", line, room), 0, n)
    BY <1>12 DEF Setup, b
  <2>2. line # <<>> /\ "urc" = meant /\ "dropped" \in Kinds
    BY <1>2, <1>12 DEF Kinds
  <2>3. Meaning(m, Entry("dropped", line, room)) = "dropped"
    BY <1>1, <1>4, <1>9, <1>12, <2>2 DEF Meaning
  <2>4. Ok("dropped", room, 0)
    BY <1>4, <2>1, <2>2, <2>3 DEF Ok
  <2>. QED BY <1>8, <2>4
<1>13. CASE Classify(line) \notin {"rsp", "urc"}
  <2>. DEFINE kind == Classify(line)
  <2>1. b = Binary(Entry(kind, line, room), 0, n)
    BY <1>13 DEF Setup, b
  <2>2. kind \in Kinds /\ (line = <<>> => kind = "none") /\ (line # <<>> => kind = meant)
    BY <1>2, <1>6 DEF Kinds
  <2>3. kind \notin {"rsp", "urc"}
    BY <1>13
  <2>. HIDE DEF kind
  <2>4. line # <<>> => Meaning(m, Entry(kind, line, room)) = kind
    BY <1>4, <1>9, <2>2, <2>3 DEF Meaning
  <2>5. Ok(kind, room, 0)
    BY <1>4, <2>1, <2>2, <2>3, <2>4 DEF Ok
  <2>. QED BY <1>8, <2>5
<1>. QED BY <1>10, <1>11, <1>12, <1>13

\* The data that are there when all of them have come.
LEMMA AllData ==
    ASSUME NEW m \in Messages, m.binary, NEW b, b.size \in Nat, Transfers(b, m, Len(m.data))
    PROVE  /\ b.entry \in Entries /\ b.remaining = 0 /\ b.buf \in Texts
           /\ IF Line[m] = <<>> THEN [b.entry EXCEPT !.data = b.buf].kind = "none"
              ELSE /\ [b.entry EXCEPT !.data = b.buf].kind # "none"
                   /\ Fits(m, [b.entry EXCEPT !.data = b.buf])
           /\ [b.entry EXCEPT !.data = b.buf] \in Entries
<1>. DEFINE D == m.data  n == Len(D)  e == b.entry  f == [e EXCEPT !.data = b.buf]
<1>1. D \in Texts /\ n \in Nat
  BY MessageFacts
<1>2. /\ e \in Entries /\ e.line = Line[m]
      /\ e.kind = IF Line[m] = <<>> THEN "none" ELSE Meaning(m, e)
      /\ (e.kind \in {"rsp", "urc"} => b.size = e.room)
      /\ (e.kind = "urc" => b.size > n)
      /\ (e.kind \notin {"rsp", "urc"} => b.size = 0)
      /\ b.remaining = n - n /\ b.buf = FirstOf(D, Smaller(n, b.size))
  BY DEF Transfers
<1>3. Smaller(n, b.size) \in Nat
  BY <1>1 DEF Smaller
<1>4. b.buf \in Texts
  BY <1>1, <1>2, <1>3, FirstOfFacts
<1>5. /\ f \in Entries /\ f.data = b.buf /\ f.line = e.line /\ f.kind = e.kind
      /\ f.room = e.room /\ Meaning(m, f) = Meaning(m, e)
  BY <1>2, <1>4, DataInEntry
<1>6. b.remaining = 0
  BY <1>1, <1>2
<1>. HIDE DEF f
<1>7. ASSUME Line[m] # <<>> PROVE f.kind # "none" /\ Fits(m, f)
  <2>1. e.kind = Meaning(m, e)
    BY <1>2, <1>7
  <2>2. e.kind # "none"
    BY <2>1 DEF Meaning
  <2>3. b.buf = Arrived(m, e.kind, e.room)
    <3>1. CASE e.kind = "rsp"
      <4>1. Arrived(m, e.kind, e.room) = FirstOf(D, b.size)
        BY <1>2, <3>1 DEF Arrived
      <4>2. FirstOf(D, Smaller(n, b.size)) = FirstOf(D, b.size)
        BY <1>1 DEF FirstOf, Smaller
      <4>. QED BY <1>2, <4>1, <4>2
    <3>2. CASE e.kind = "urc"
      <4>1. Arrived(m, e.kind, e.room) = D
        BY <3>2 DEF Arrived
      <4>2. Smaller(n, b.size) = n
        BY <1>1, <1>2, <3>2 DEF Smaller
      <4>3. FirstOf(D, n) = SubSeq(D, 1, n)
        BY DEF FirstOf
      <4>4. SubSeq(D, 1, n) = D
        BY <1>1, SubSeqFull DEF Texts
      <4>. QED BY <1>2, <4>1, <4>2, <4>3, <4>4
    <3>3. CASE e.kind \notin {"rsp", "urc"}
      <4>1. Arrived(m, e.kind, e.room) = <<>>
        BY <3>3 DEF Arrived
      <4>2. Smaller(n, b.size) = 0 /\ Smaller(0, 0) = 0
        BY <1>1, <1>2, <3>3 DEF Smaller
      <4>3. FirstOf(D, Smaller(0, 0)) = <<>>
        BY <1>1, NothingYet
      <4>. QED BY <1>2, <4>1, <4>2, <4>3
    <3>. QED BY <3>1, <3>2, <3>3
  <2>. QED BY <1>2, <1>5, <2>1, <2>2, <2>3 DEF Fits
<1>8. Line[m] = <<>> => f.kind = "none"
  BY <1>2, <1>5
<1>. QED BY <1>2, <1>4, <1>5, <1>6, <1>7, <1>8 DEF f

\* The end of handleBinaryRx(): after c bytes of the data it goes on with them or, if
\* these are all, with the next message.
LEMMA EndOfTransfer ==
    ASSUME ParserInv, isBinaryRx, NEW k \in 1 .. Len(stream), stream[k].binary, LogIs(k - 1),
           NEW b, b.size \in Nat, NEW c \in 0 .. Len(stream[k].data),
           Transfers(b, stream[k], c), EndBinary(b), rx' = <<>>, UNCHANGED stream,
           ReadUpTo(k, Len(stream[k].text) + 3 + c)',
           c = Len(stream[k].data) => ReadUpTo(k + 1, 0)'
    PROVE  Somewhere' /\ log' \in Seq(Entries)
<1>. DEFINE m == stream[k]
<1>1. PICK n : n = Len(m.data)
  OBVIOUS
<1>2. m \in Messages /\ n \in Nat /\ stream \in Streams /\ log \in Seq(Entries)
      /\ Len(stream) \in Nat
  BY <1>1, BinaryFrame, ParserFacts
<1>3. b.remaining = n - c
  BY <1>1 DEF Transfers
<1>4. CASE c < n
  <2>1. bin' = b /\ rxHeaderCount' = 2 /\ UNCHANGED <<isBinaryRx, log>>
    <3>1. b.remaining > 0
      BY <1>1, <1>2, <1>3, <1>4
    <3>. QED BY <3>1 DEF EndBinary
  <2>2. LogIs(k - 1)'
    BY <2>1, LogStays
  <2>3. Transfers(bin, stream[k], c)'
    BY <2>1 DEF Transfers
  <2>4. c \in 0 .. n - 1 /\ c \in 0 .. n /\ k \in 1 .. Len(stream) + 1
    BY <1>1, <1>2, <1>4
  <2>5. InData(k, c)'
    BY <1>1, <2>1, <2>2, <2>3, <2>4 DEF InData
  <2>6. c \in (0 .. Len(stream[k].data))' /\ k \in (1 .. Len(stream) + 1)'
    BY <1>1, <2>4
  <2>. QED BY <1>2, <2>1, <2>5, <2>6 DEF Somewhere
<1>5. CASE ~(c < n)
  <2>1. c = n
    BY <1>1, <1>2, <1>5
  <2>. DEFINE e == [b.entry EXCEPT !.data = b.buf]
  <2>2. /\ b.remaining = 0 /\ e \in Entries
        /\ IF Line[m] = <<>> THEN e.kind = "none" ELSE e.kind # "none" /\ Fits(m, e)
    BY <1>1, <1>2, <2>1, AllData
  <2>3. isBinaryRx' = FALSE /\ log' = Logged(e)
    BY <2>2 DEF EndBinary
  <2>. HIDE DEF e
  <2>4. LogIs(k)' /\ log' \in Seq(Entries)
    BY <1>2, <2>2, <2>3, LogGrows
  <2>5. ReadUpTo(k + 1, 0)' /\ (k + 1) - 1 = k /\ k + 1 \in 1 .. Len(stream) + 1
    BY <1>1, <1>2, <2>1
  <2>6. BeforeMessage(k + 1)'
    BY <2>3, <2>4, <2>5 DEF BeforeMessage
  <2>7. k + 1 \in (1 .. Len(stream) + 1)'
    BY <2>5
  <2>. QED BY <2>4, <2>6, <2>7 DEF Somewhere
<1>. QED BY <1>4, <1>5

LEMMA LengthStep ==
    ASSUME ParserInv, ReadPartOfLength \/ ReadLength
    PROVE  Somewhere' /\ log' \in Seq(Entries) /\ UNCHANGED <<stream, expected>>
<1>1. isBinaryRx /\ rxHeaderCount \in {0, 1} /\ UNCHANGED <<stream, expected>>
  BY ParserFacts DEF ReadPartOfLength, ReadLength, command
<1>2. PICK k \in 1 .. Len(stream) :
          InLength(k) \/ \E c \in 0 .. Len(stream[k].data) - 1 : InData(k, c)
  BY <1>1, WhereBinary
<1>3. InLength(k)
  BY <1>1, <1>2 DEF InData
<1>4. log \in Seq(Entries) /\ Len(stream) \in Nat /\ k \in 1 .. Len(stream) + 1
  BY ParserFacts
<1>5. CASE ReadPartOfLength
  <2>1. InLength(k)' /\ UNCHANGED log
    BY <1>3, <1>5, HalfOfLength DEF ReadPartOfLength
  <2>. QED BY <1>1, <1>4, <2>1 DEF Somewhere
<1>6. CASE ReadLength
  <2>1. stream[k].binary /\ rx = Line[stream[k]] /\ LogIs(k - 1)
    BY <1>3 DEF InLength
  <2>. DEFINE n == 256 * lengthBuf'[1] + lengthBuf'[2]
  <2>2. /\ n = Len(stream[k].data) /\ ReadUpTo(k, Len(stream[k].text) + 3)'
        /\ (Len(stream[k].data) = 0 => ReadUpTo(k + 1, 0)')
    BY <1>3, <1>6, WholeLength
  <2>3. PICK room \in RoomFor(rx) : EndBinary(Setup(rx, room, n))
    BY <1>6 DEF ReadLength
  <2>. HIDE DEF n
  <2>. DEFINE b == Setup(rx, room, n)
  <2>4. Transfers(b, stream[k], 0) /\ b.size \in Nat
    BY <2>1, <2>2, SetupTransfers
  <2>5. EndBinary(b)
    BY <2>3
  <2>. HIDE DEF b
  <2>6. /\ Len(stream[k].data) \in Nat /\ 0 \in 0 .. Len(stream[k].data)
        /\ Len(stream[k].text) \in Nat
    BY <2>1, BinaryFrame
  <2>7. ReadUpTo(k, Len(stream[k].text) + 3 + 0)'
    <3>1. (Len(stream[k].text) + 3 + 0)' = (Len(stream[k].text) + 3)'
      BY <1>1, <2>6
    <3>. QED BY <2>2, <3>1 DEF ReadUpTo
  <2>8. rx' = <<>>
    BY <1>6 DEF ReadLength
  <2>. QED BY <1>1, <2>1, <2>2, <2>4, <2>5, <2>6, <2>7, <2>8, EndOfTransfer
<1>. QED BY <1>5, <1>6

LEMMA FirstOfMore ==
    ASSUME NEW t \in Texts, NEW c \in 0 .. Len(t), NEW n \in 0 .. Len(t) - c,
           NEW u \in Texts, Len(u) = n, \A i \in 1 .. n : u[i] = t[c + i]
    PROVE  FirstOf(t, c) \o u = FirstOf(t, c + n)
<1>. DEFINE a == FirstOf(t, c)  v == a \o u  w == FirstOf(t, c + n)
<1>1. Len(t) \in Nat /\ c \in Nat /\ c + n \in Nat /\ c + n <= Len(t) /\ n \in Nat
  BY DEF Texts
<1>2. a \in Texts /\ Len(a) = c /\ \A i \in 1 .. c : a[i] = t[i]
  <2>1. a \in Texts /\ Len(a) = (IF c < Len(t) THEN c ELSE Len(t))
        /\ \A i \in 1 .. Len(a) : a[i] = t[i]
    BY <1>1, FirstOfFacts
  <2>. HIDE DEF a
  <2>2. Len(a) = c
    BY <1>1, <2>1
  <2>. QED BY <2>1, <2>2
<1>3. w \in Texts /\ Len(w) = c + n /\ \A i \in 1 .. c + n : w[i] = t[i]
  <2>1. w \in Texts /\ Len(w) = (IF c + n < Len(t) THEN c + n ELSE Len(t))
        /\ \A i \in 1 .. Len(w) : w[i] = t[i]
    BY <1>1, FirstOfFacts
  <2>. HIDE DEF w
  <2>2. Len(w) = c + n
    BY <1>1, <2>1
  <2>. QED BY <2>1, <2>2
<1>. HIDE DEF a, w
<1>4. /\ v \in Texts /\ Len(v) = c + n
      /\ \A i \in 1 .. c + n : v[i] = IF i <= c THEN a[i] ELSE u[i - c]
  <2>1. /\ a \o u \in Seq(Byte) /\ Len(a \o u) = Len(a) + Len(u)
        /\ \A i \in 1 .. Len(a) + Len(u) :
               (a \o u)[i] = IF i <= Len(a) THEN a[i] ELSE u[i - Len(a)]
    BY <1>2, ConcatProperties DEF Texts
  <2>. HIDE DEF v
  <2>2. v = a \o u
    BY DEF v
  <2>. QED BY <1>2, <2>1, <2>2 DEF Texts
<1>. HIDE DEF v
<1>5. ASSUME NEW i \in 1 .. c + n PROVE v[i] = w[i]
  <2>1. CASE i <= c
    BY <1>1, <1>2, <1>3, <1>4, <2>1
  <2>2. CASE ~(i <= c)
    <3>1. i - c \in 1 .. n /\ c + (i - c) = i
      BY <1>1, <2>2
    <3>2. u[i - c] = t[i]
      BY <3>1
    <3>. QED BY <1>3, <1>4, <2>2, <3>2
  <2>. QED BY <2>1, <2>2
<1>. QED BY <1>3, <1>4, <1>5, SameText DEF a, v, w

\* n more bytes of the data, which are kept or thrown away.
LEMMA MoreData ==
    ASSUME NEW D \in Texts, NEW size \in Nat, NEW c \in 0 .. Len(D),
           NEW n \in 1 .. Len(D) - c, NEW t \in Texts, Len(t) = n,
           \A i \in 1 .. n : t[i] = D[c + i]
    PROVE  LET buf == FirstOf(D, Smaller(c, size))
           IN  /\ Len(buf) < size /\ n <= size - Len(buf)
                      => buf \o t = FirstOf(D, Smaller(c + n, size))
               /\ Len(buf) >= size => buf = FirstOf(D, Smaller(c + n, size))
<1>. DEFINE buf == FirstOf(D, Smaller(c, size))
<1>1. Len(D) \in Nat /\ c \in Nat /\ n \in Nat /\ c <= Len(D)
  BY DEF Texts
<1>2. Len(buf) = Smaller(c, size)
  <2>. DEFINE s == Smaller(c, size)
  <2>1. s \in Nat /\ s <= Len(D)
    BY <1>1 DEF Smaller
  <2>. HIDE DEF s
  <2>2. Len(FirstOf(D, s)) = IF s < Len(D) THEN s ELSE Len(D)
    BY <2>1, FirstOfFacts
  <2>3. Len(FirstOf(D, s)) = s
    BY <1>1, <2>1, <2>2
  <2>. QED BY <2>3 DEF s
<1>5. buf = FirstOf(D, Smaller(c, size))
  OBVIOUS
<1>. HIDE DEF buf
<1>3. ASSUME Len(buf) < size, n <= size - Len(buf)
      PROVE  buf \o t = FirstOf(D, Smaller(c + n, size))
  <2>1. Smaller(c, size) = c /\ Len(buf) = c
    BY <1>1, <1>2, <1>3 DEF Smaller
  <2>2. c + n <= size
    BY <1>1, <1>3, <2>1
  <2>3. Smaller(c + n, size) = c + n
    BY <1>1, <2>2 DEF Smaller
  <2>4. n \in 0 .. Len(D) - c
    BY <1>1
  <2>5. FirstOf(D, c) \o t = FirstOf(D, c + n)
    BY <2>4, FirstOfMore
  <2>. QED BY <1>5, <2>1, <2>3, <2>5
<1>4. ASSUME Len(buf) >= size PROVE buf = FirstOf(D, Smaller(c + n, size))
  <2>1. c >= size
    BY <1>1, <1>2, <1>4 DEF Smaller
  <2>2. Smaller(c, size) = size /\ Smaller(c + n, size) = size
    BY <1>1, <2>1 DEF Smaller
  <2>. QED BY <1>5, <2>2
<1>. QED BY <1>3, <1>4 DEF buf

LEMMA DataStep ==
    ASSUME ParserInv, NEW n \in 1 .. Len(wire), ReadData(n) \/ FlushData(n)
    PROVE  Somewhere' /\ log' \in Seq(Entries) /\ UNCHANGED <<stream, expected>>
<1>1. /\ isBinaryRx /\ rxHeaderCount = 2 /\ UNCHANGED <<stream, expected, rx>> /\ Take(n)
  BY DEF ReadData, FlushData, ReadingData
<1>2. PICK k \in 1 .. Len(stream) :
          InLength(k) \/ \E c \in 0 .. Len(stream[k].data) - 1 : InData(k, c)
  BY <1>1, WhereBinary
<1>3. PICK c \in 0 .. Len(stream[k].data) - 1 : InData(k, c)
  BY <1>1, <1>2 DEF InLength
<1>. DEFINE m == stream[k]
<1>4. PICK D, L, N, p, f, x :
          D = m.data /\ L = Len(m.text) /\ N = Len(D) /\ p = L + 3 + c /\ f = Frame(m)
          /\ x = Len(f)
  OBVIOUS
<1>5. m.binary /\ ReadUpTo(k, p) /\ rx = <<>> /\ Transfers(bin, m, c) /\ LogIs(k - 1)
      /\ c \in 0 .. N - 1
  BY <1>3, <1>4 DEF InData
<1>6. /\ stream \in Streams /\ m \in Messages /\ D \in Texts /\ L \in Nat /\ N \in Nat
      /\ x = L + 3 + N /\ \A i \in 1 .. N : f[L + 3 + i] = D[i]
  BY <1>4, <1>5, BinaryFrame
<1>7. /\ bin.size \in Nat /\ bin.remaining = N - c
      /\ bin.buf = FirstOf(D, Smaller(c, bin.size)) /\ Len(bin.buf) \in Nat
  BY <1>4, <1>5, ParserFacts DEF Transfers, Field, Texts
<1>22. bin = [entry |-> bin.entry, buf |-> bin.buf, size |-> bin.size,
              remaining |-> bin.remaining]
  BY ParserFacts DEF Field
<1>8. n \in Nat /\ 1 <= n /\ n <= N - c
  <2>1. n \in Nat /\ 1 <= n
    BY DEF Texts
  <2>2. n <= bin.remaining
    <3>1. bin.remaining \in Nat
      BY ParserFacts DEF Field
    <3>2. CASE ReadData(n)
      BY <1>7, <2>1, <3>1, <3>2 DEF ReadData, Smaller
    <3>3. CASE FlushData(n)
      BY <2>1, <3>1, <3>3, AtParserAssumption DEF FlushData, Smaller
    <3>. QED BY <3>2, <3>3
  <2>. QED BY <1>7, <2>1, <2>2
<1>9. p = L + 3 + c
  BY <1>4
<1>10. /\ p \in 0 .. x /\ n \in 0 .. x - p /\ c \in 0 .. N /\ n \in 1 .. N - c
       /\ c + n \in 0 .. N /\ p + n = L + 3 + (c + n) /\ (c + n = N => p + n = x)
       /\ (N - c) - n = N - (c + n)
  <2>1. c \in Nat /\ c <= N - 1 /\ N \in Nat /\ L \in Nat /\ x = L + 3 + N
    BY <1>5, <1>6
  <2>2. p \in 0 .. x /\ x - p = N - c
    BY <1>9, <2>1
  <2>3. n \in 1 .. N - c /\ c + n \in 0 .. N /\ (N - c) - n = N - (c + n)
    BY <1>8, <2>1
  <2>4. p + n = L + 3 + (c + n) /\ (c + n = N => p + n = x)
    BY <1>8, <1>9, <2>1
  <2>. QED BY <2>1, <2>2, <2>3, <2>4
<1>11. wire \in Texts /\ x - p <= Len(wire) /\ \A i \in 1 .. x - p : wire[i] = f[p + i]
  <2>1. p \in 0 .. Len(Frame(m))
    BY <1>4, <1>10
  <2>2. /\ wire \in Texts /\ Len(Frame(m)) - p <= Len(wire)
        /\ \A i \in 1 .. Len(Frame(m)) - p : wire[i] = Frame(m)[p + i]
    BY <1>5, <1>6, <2>1, NextBytes
  <2>. QED BY <1>4, <2>2
<1>12. ReadUpTo(k, p + n)' /\ (c + n = N => ReadUpTo(k + 1, 0)')
  <2>1. p \in 0 .. Len(Frame(m)) /\ n \in 0 .. Len(Frame(m)) - p
    BY <1>4, <1>10
  <2>2. ReadUpTo(k, p + n)' /\ (p + n = Len(Frame(m)) => ReadUpTo(k + 1, 0)')
    BY <1>1, <1>5, <1>6, <2>1, TakesBytes
  <2>. QED BY <1>4, <1>10, <2>2
<1>13. PICK t : t = FirstOf(wire, n)
  OBVIOUS
<1>14. t \in Texts /\ Len(t) = n /\ \A i \in 1 .. n : t[i] = D[c + i]
  <2>1. Len(wire) \in Nat /\ n <= Len(wire)
    BY <1>11 DEF Texts
  <2>2. t \in Texts /\ Len(t) = n /\ \A i \in 1 .. Len(t) : t[i] = wire[i]
    BY <1>8, <1>11, <1>13, <2>1, FirstOfFacts
  <2>3. ASSUME NEW i \in 1 .. n PROVE t[i] = D[c + i]
    <3>1. i \in 1 .. x - p /\ c + i \in 1 .. N /\ p + i = L + 3 + (c + i)
      <4>1. x - p = N - c /\ c \in Nat
        BY <1>5, <1>6, <1>9
      <4>2. i \in 1 .. x - p /\ c + i \in 1 .. N
        BY <1>6, <1>8, <4>1
      <4>. QED BY <1>6, <1>9, <4>1, <4>2
    <3>2. wire[i] = f[L + 3 + (c + i)]
      BY <1>11, <3>1
    <3>3. f[L + 3 + (c + i)] = D[c + i]
      BY <1>6, <3>1
    <3>. QED BY <2>2, <3>2, <3>3
  <2>. QED BY <2>2, <2>3
<1>15. /\ Len(bin.buf) < bin.size /\ n <= bin.size - Len(bin.buf)
             => bin.buf \o t = FirstOf(D, Smaller(c + n, bin.size))
       /\ Len(bin.buf) >= bin.size => bin.buf = FirstOf(D, Smaller(c + n, bin.size))
  <2>1. c \in 0 .. Len(D) /\ n \in 1 .. Len(D) - c
    BY <1>4, <1>10
  <2>. DEFINE size == bin.size  buf == FirstOf(D, Smaller(c, size))
  <2>2. size \in Nat /\ bin.buf = buf
    BY <1>7
  <2>. HIDE DEF size
  <2>3. /\ Len(buf) < size /\ n <= size - Len(buf)
              => buf \o t = FirstOf(D, Smaller(c + n, size))
        /\ Len(buf) >= size => buf = FirstOf(D, Smaller(c + n, size))
    BY <1>6, <1>14, <2>1, <2>2, MoreData
  <2>. HIDE DEF buf
  <2>. QED BY <2>2, <2>3 DEF size
<1>16. \E b : /\ EndBinary(b) /\ b.entry = bin.entry /\ b.size = bin.size
              /\ b.remaining = bin.remaining - n
              /\ b.buf = FirstOf(D, Smaller(c + n, bin.size))
  <2>1. CASE ReadData(n)
    <3>. DEFINE u == bin.buf \o FirstOf(wire, n)  r == bin.remaining - n
                b == [bin EXCEPT !.buf = bin.buf \o FirstOf(wire, n),
                                 !.remaining = bin.remaining - n]
    <3>1. EndBinary(b)
      BY <2>1 DEF ReadData
    <3>2. b = [entry |-> bin.entry, buf |-> u, size |-> bin.size, remaining |-> r]
      <4>. DEFINE e == bin.entry  v == bin.buf  s == bin.size  q == bin.remaining
      <4>1. bin = [entry |-> e, buf |-> v, size |-> s, remaining |-> q]
        BY <1>22
      <4>2. b = [bin EXCEPT !.buf = u, !.remaining = r]
        OBVIOUS
      <4>. HIDE DEF e, v, s, q, u, r, b
      <4>3. b = [entry |-> e, buf |-> u, size |-> s, remaining |-> r]
        BY <4>1, <4>2, TwoFields
      <4>. QED BY <4>3 DEF e, s
    <3>. HIDE DEF b
    <3>3. Len(bin.buf) < bin.size /\ n <= bin.size - Len(bin.buf)
      <4>1. bin.remaining \in Nat
        BY <1>5, <1>6, <1>7
      <4>. QED BY <1>7, <1>8, <2>1, <4>1 DEF ReadData, Smaller
    <3>4. u = FirstOf(D, Smaller(c + n, bin.size))
      BY <1>13, <1>15, <3>3
    <3>5. b.entry = bin.entry /\ b.size = bin.size /\ b.remaining = r /\ b.buf = u
      BY <3>2
    <3>. QED BY <3>1, <3>4, <3>5
  <2>2. CASE FlushData(n)
    <3>. DEFINE b == [bin EXCEPT !.remaining = bin.remaining - n]
    <3>1. EndBinary(b)
      BY <2>2 DEF FlushData
    <3>2. b = [entry |-> bin.entry, buf |-> bin.buf, size |-> bin.size,
               remaining |-> bin.remaining - n]
      BY <1>22
    <3>. HIDE DEF b
    <3>3. bin.buf = FirstOf(D, Smaller(c + n, bin.size))
      BY <1>15, <2>2 DEF FlushData
    <3>. QED BY <3>1, <3>2, <3>3
  <2>. QED BY <2>1, <2>2
<1>17. PICK b : /\ EndBinary(b) /\ b.entry = bin.entry /\ b.size = bin.size
                /\ b.remaining = bin.remaining - n
                /\ b.buf = FirstOf(D, Smaller(c + n, bin.size))
  BY <1>16
<1>18. Transfers(b, m, c + n) /\ b.size \in Nat
  <2>1. b.remaining = Len(m.data) - (c + n)
    BY <1>4, <1>7, <1>10, <1>17
  <2>2. b.buf = FirstOf(m.data, Smaller(c + n, b.size))
    BY <1>4, <1>17
  <2>. QED BY <1>5, <1>7, <1>17, <2>1, <2>2 DEF Transfers
<1>19. /\ c + n \in 0 .. Len(m.data) /\ (c + n = Len(m.data) => ReadUpTo(k + 1, 0)')
       /\ ReadUpTo(k, Len(m.text) + 3 + (c + n))'
  <2>1. (Len(m.text) + 3 + (c + n))' = p + n
    BY <1>1, <1>4, <1>10
  <2>2. ReadUpTo(k, Len(m.text) + 3 + (c + n))'
    BY <1>12, <2>1 DEF ReadUpTo
  <2>. QED BY <1>4, <1>10, <1>12, <2>2
<1>20. rx' = <<>>
  BY <1>1, <1>5
<1>21. Somewhere' /\ log' \in Seq(Entries)
  BY <1>1, <1>5, <1>17, <1>18, <1>19, <1>20, EndOfTransfer
<1>. QED BY <1>1, <1>21

-----------------------------------------------------------------------------
(* The messages arrive. *)

LEMMA CommandStep ==
    ASSUME ParserInv,
           \/ UNCHANGED vars \/ CmdBegin \/ CmdGivesUp
           \/ \E e \in Expectations, n \in RspBufferLens \cup {NoBuffer} : CmdGetRspParamLine(e, n)
    PROVE  Somewhere' /\ log' \in Seq(Entries) /\ UNCHANGED stream
           /\ expected' \in Expectations \cup {<<>>}
<1>1. UNCHANGED <<wire, rx, isBinaryRx, rxHeaderCount, lengthBuf, bin, stream, log>>
  BY DEF vars, client, command, CmdBegin, CmdGivesUp, CmdGetRspParamLine
<1>2. expected' \in Expectations \cup {<<>>}
  BY ParserFacts DEF vars, command, CmdBegin, CmdGivesUp, CmdGetRspParamLine
<1>3. Somewhere /\ log \in Seq(Entries)
  BY DEF ParserInv
<1>4. Somewhere'
  BY <1>1, <1>3 DEF Somewhere, BeforeMessage, InText, InLineEnd, InLength, InData, ReadUpTo,
                    LogIs
<1>. QED BY <1>1, <1>2, <1>3, <1>4

LEMMA ParserInit == Init => ParserInv
<1>. SUFFICES ASSUME Init PROVE ParserInv
  OBVIOUS
<1>1. BufferInv
  BY BufferInit
<1>2. stream \in Streams /\ stream \in Seq(Messages) /\ Len(stream) \in Nat
  BY StreamIs DEF Init
<1>3. <<>> \in Seq(Entries) /\ Len(<<>>) = 0
  BY EmptySeq
<1>4. LogIs(0)
  <2>1. Chosen(stream, WithLine)[0] = <<>>
    BY <1>2, ChosenFacts
  <2>. QED BY <1>3, <2>1 DEF LogIs, Init
<1>5. ReadUpTo(1, 0)
  <2>. DEFINE W == Sent(stream)
  <2>1. W \in Texts /\ Before(stream, 1) = 0
    BY <1>2, StreamFacts
  <2>2. wire = W
    BY DEF Init
  <2>. HIDE DEF W
  <2>3. Len(W) \in Nat /\ 0 + 1 = 1 /\ 0 + 0 = 0
    BY <2>1 DEF Texts
  <2>4. Behind(W, 0) = W
    BY <2>1, <2>3, SubSeqFull DEF Behind, Texts
  <2>. QED BY <2>1, <2>2, <2>3, <2>4 DEF ReadUpTo, W
<1>6. BeforeMessage(1)
  <2>1. 1 \in 1 .. Len(stream) + 1 /\ 1 - 1 = 0
    BY <1>2
  <2>. QED BY <1>4, <1>5, <2>1 DEF BeforeMessage, Init
<1>7. Somewhere
  <2>1. 1 \in 1 .. Len(stream) + 1
    BY <1>2
  <2>. QED BY <1>6, <2>1 DEF Somewhere
<1>. QED BY <1>1, <1>2, <1>3, <1>7 DEF ParserInv, Init

\* What has been logged of a stream is the beginning of what there is to log, and all
\* of it when all is read.
LEMMA LogFits ==
    ASSUME ParserInv
    PROVE  MessagesArrive
<1>1. stream \in Streams /\ stream \in Seq(Messages) /\ Len(stream) \in Nat
  BY ParserFacts
<1>2. PICK k \in 0 .. Len(stream) : LogIs(k)
  <2>1. PICK k \in 1 .. Len(stream) + 1 : LogIs(k - 1) \/ (k \in 1 .. Len(stream) /\ LogIs(k))
    BY DEF ParserInv, Somewhere, BeforeMessage, InText, InLineEnd, InLength, InData
  <2>2. k - 1 \in 0 .. Len(stream) /\ (k \in 1 .. Len(stream) => k \in 0 .. Len(stream))
    BY <1>1
  <2>. QED BY <2>1, <2>2
<1>. DEFINE C == Chosen(stream, WithLine)
<1>3. Len(stream) \in 0 .. Len(stream) /\ k <= Len(stream)
  BY <1>1
<1>4. C[k] \in Seq(Messages) /\ Begins(C[k], C[Len(stream)])
  <2>1. \A i \in 0 .. Len(stream) : C[i] \in Seq(Messages)
    BY <1>1, ChosenFacts
  <2>2. Begins(C[k], C[Len(stream)])
    BY <1>1, <1>3, ChosenGrows
  <2>. HIDE DEF C
  <2>. QED BY <2>1, <2>2
<1>5. Len(log) = Len(C[k]) /\ \A i \in 1 .. Len(log) : Fits(C[k][i], log[i])
  BY <1>2 DEF LogIs
<1>6. DOMAIN log = 1 .. Len(log)
  BY ParserFacts, LenProperties
<1>7. Lines = C[Len(stream)]
  BY DEF Lines
<1>. HIDE DEF C
<1>8. Len(log) <= Len(Lines) /\ \A i \in DOMAIN log : Fits(Lines[i], log[i])
  BY <1>4, <1>5, <1>6, <1>7 DEF Begins
<1>9. ASSUME wire = <<>> PROVE Len(log) = Len(Lines) /\ rx = <<>> /\ ~isBinaryRx
  <2>1. BeforeMessage(Len(stream) + 1)
    <3>1. PICK j \in 1 .. Len(stream) + 1 :
              \/ BeforeMessage(j) \/ InLineEnd(j) \/ InLength(j)
              \/ \E p \in 0 .. Len(stream[j].text) : InText(j, p)
              \/ \E c \in 0 .. Len(stream[j].data) : InData(j, c)
      BY DEF ParserInv, Somewhere
    <3>2. \A p : j \in 1 .. Len(stream) /\ p \in 0 .. Len(Frame(stream[j])) - 1 => ~ReadUpTo(j, p)
      <4>. SUFFICES ASSUME NEW p, j \in 1 .. Len(stream),
                           p \in 0 .. Len(Frame(stream[j])) - 1, ReadUpTo(j, p)
                    PROVE  FALSE
        OBVIOUS
      <4>1. stream[j] \in Messages
        BY <1>1, ElementOfSeq
      <4>2. Len(Frame(stream[j])) \in Nat
        BY <4>1, FrameFacts DEF Texts
      <4>3. p \in 0 .. Len(Frame(stream[j]))
        BY <4>2
      <4>4. Len(Frame(stream[j])) - p <= Len(wire)
        BY <1>1, <4>3, NextBytes
      <4>5. Len(wire) = 0
        BY <1>9, EmptySeq
      <4>. QED BY <4>2, <4>4, <4>5
    <3>3. CASE j \in 1 .. Len(stream)
      <4>. DEFINE m == stream[j]
      <4>1. PICK L, N, x : L = Len(m.text) /\ N = Len(m.data) /\ x = Len(Frame(m))
        OBVIOUS
      <4>2. /\ L \in Nat /\ N \in Nat /\ m.binary \in BOOLEAN
            /\ (~m.binary => x = L + 2) /\ (m.binary => x = L + 3 + N)
        <5>1. m \in Messages
          BY <1>1, <3>3, ElementOfSeq
        <5>2. Len(m.text) \in Nat /\ Len(m.data) \in Nat /\ m.binary \in BOOLEAN
          BY <5>1, MessageFacts
        <5>3. /\ (~m.binary => Len(Frame(m)) = Len(m.text) + 2)
              /\ (m.binary => Len(Frame(m)) = Len(m.text) + 3 + Len(m.data))
          BY <5>1, FrameFacts
        <5>. QED BY <4>1, <5>2, <5>3
      <4>3. \A p \in 0 .. x - 1 : ~ReadUpTo(j, p)
        BY <3>2, <3>3, <4>1
      <4>4. /\ 0 \in 0 .. x - 1 /\ (\A p \in 0 .. L : p \in 0 .. x - 1)
            /\ L + 1 \in 0 .. x - 1
            /\ (m.binary => \A h \in {0, 1} : L + 1 + h \in 0 .. x - 1)
            /\ (m.binary => \A c \in 0 .. N - 1 : L + 3 + c \in 0 .. x - 1)
        BY <4>2
      <4>5. ~BeforeMessage(j)
        BY <4>3, <4>4 DEF BeforeMessage
      <4>6. ~InLineEnd(j)
        BY <4>1, <4>3, <4>4 DEF InLineEnd
      <4>7. ~InLength(j)
        BY <4>1, <4>3, <4>4 DEF InLength
      <4>8. \A p \in 0 .. L : ~InText(j, p)
        BY <4>3, <4>4 DEF InText
      <4>9. \A c : ~InData(j, c)
        BY <4>1, <4>3, <4>4 DEF InData
      <4>. QED BY <3>1, <4>1, <4>5, <4>6, <4>7, <4>8, <4>9
    <3>4. CASE j = Len(stream) + 1
      <4>1. j \notin 1 .. Len(stream)
        BY <1>1, <3>4
      <4>. QED BY <3>1, <3>4, <4>1 DEF InText, InLineEnd, InLength, InData
    <3>. QED BY <1>1, <3>3, <3>4
  <2>2. (Len(stream) + 1) - 1 = Len(stream)
    BY <1>1
  <2>3. LogIs(Len(stream)) /\ rx = <<>> /\ ~isBinaryRx
    BY <2>1, <2>2 DEF BeforeMessage
  <2>4. Len(log) = Len(Lines)
    BY <1>7, <2>3 DEF LogIs, C
  <2>. QED BY <2>3, <2>4
<1>. QED BY <1>8, <1>9 DEF MessagesArrive, Fits

LEMMA ParserStep == ParserInv /\ [Next]_vars => ParserInv'
<1>. SUFFICES ASSUME ParserInv, [Next]_vars PROVE ParserInv'
  OBVIOUS
<1>1. BufferInv' /\ stream \in Streams /\ expected \in Expectations \cup {<<>>}
  BY BufferStep DEF ParserInv
<1>2. SUFFICES Somewhere' /\ log' \in Seq(Entries) /\ UNCHANGED stream
               /\ expected' \in Expectations \cup {<<>>}
  BY <1>1 DEF ParserInv
<1>3. CASE ReadStart \/ ReadLineEnd \/ ReadChar \/ ReadOther
  BY <1>1, <1>3, TextStep
<1>4. CASE ReadPartOfLength \/ ReadLength
  BY <1>1, <1>4, LengthStep
<1>5. ASSUME NEW n \in 1 .. Len(wire), ReadData(n) \/ FlushData(n)
      PROVE  Somewhere' /\ log' \in Seq(Entries) /\ UNCHANGED stream
             /\ expected' \in Expectations \cup {<<>>}
  BY <1>1, <1>5, DataStep
<1>6. CASE \/ UNCHANGED vars \/ CmdBegin \/ CmdGivesUp
           \/ \E e \in Expectations, n \in RspBufferLens \cup {NoBuffer} :
                  CmdGetRspParamLine(e, n)
  BY <1>6, CommandStep
<1>. QED BY <1>3, <1>4, <1>5, <1>6 DEF Next

\* However reads cut up what the module sends, and whenever commands begin, change what
\* they expect and give up: the parser finds the lines and the data that were sent, in
\* their order and each as what it is, and leaves none out. For every stream of messages
\* of every text and length of data, and every length of the buffers.
THEOREM MessagesTheorem == Spec => []MessagesArrive
<1>1. ParserInv => MessagesArrive
  BY LogFits
<1>. QED BY ParserInit, ParserStep, <1>1, PTL DEF Spec
=============================================================================
