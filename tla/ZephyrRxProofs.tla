--------------------------- MODULE ZephyrRxProofs ---------------------------
(***************************************************************************)
(* Theorems about background reception in the Zephyr port, for every size  *)
(* of the FIFO and of the ring and any number of URCs: neither overflows,  *)
(* and no URC is lost, doubled or overtaken, although two threads read the *)
(* ring and deliver, and the interrupt disables itself.                    *)
(*                                                                         *)
(* The invariant says who may do what: cmdMutex belongs to the thread that *)
(* reads (MutexInv), dequeueMutex to the one that is at the first entry of *)
(* the queue, which is there (DequeueInv); an answer is on its way only    *)
(* while the application reads (CountInv), so that the work item never     *)
(* reads one.                                                              *)
(***************************************************************************)
EXTENDS ZephyrRx, SequenceTheorems, TLAPS

-----------------------------------------------------------------------------
(* Sequences of lines. *)

LEMMA AppendTo ==
    ASSUME NEW S, NEW s \in Seq(S), NEW e \in S
    PROVE  /\ Append(s, e) \in Seq(S) /\ Len(s) \in Nat
           /\ Len(Append(s, e)) = Len(s) + 1
           /\ \A i \in 1 .. Len(s) : Append(s, e)[i] = s[i]
           /\ Append(s, e)[Len(s) + 1] = e
BY AppendProperties, LenProperties

LEMMA AppendBehind ==
    ASSUME NEW S, NEW s \in Seq(S), NEW t \in Seq(S), NEW e \in S
    PROVE  s \o Append(t, e) = Append(s \o t, e)
<1>. DEFINE x == s \o Append(t, e)
            y == Append(s \o t, e)
<1>1. /\ s \o t \in Seq(S) /\ Len(s \o t) = Len(s) + Len(t)
      /\ Append(t, e) \in Seq(S) /\ Len(Append(t, e)) = Len(t) + 1
      /\ Len(s) \in Nat /\ Len(t) \in Nat
  BY ConcatProperties, AppendTo, LenProperties
<1>2. /\ x \in Seq(S) /\ y \in Seq(S)
      /\ Len(x) = Len(s) + Len(t) + 1 /\ Len(y) = Len(s) + Len(t) + 1
  BY <1>1, ConcatProperties, AppendTo
<1>3. ASSUME NEW i \in 1 .. Len(x)
      PROVE  x[i] = y[i]
  <2>1. x[i] = IF i <= Len(s) THEN s[i] ELSE Append(t, e)[i - Len(s)]
    <3>. DEFINE z == Append(t, e)
    <3>1. z \in Seq(S) /\ i \in 1 .. Len(s) + Len(z)
      BY <1>1, <1>2
    <3>. HIDE DEF z
    <3>2. (s \o z)[i] = IF i <= Len(s) THEN s[i] ELSE z[i - Len(s)]
      BY <3>1, ConcatProperties
    <3>. QED BY <3>2 DEF z
  <2>2. CASE i = Len(s) + Len(t) + 1
    <3>1. i - Len(s) = Len(t) + 1 /\ ~(i <= Len(s))
      BY <1>1, <2>2
    <3>2. Append(t, e)[Len(t) + 1] = e
      BY AppendTo
    <3>3. y[i] = e
      BY <1>1, <2>2, AppendTo
    <3>. QED BY <2>1, <3>1, <3>2, <3>3
  <2>3. CASE i \in 1 .. Len(s) + Len(t)
    <3>1. y[i] = (s \o t)[i]
      BY <1>1, <2>3, AppendTo
    <3>2. (s \o t)[i] = IF i <= Len(s) THEN s[i] ELSE t[i - Len(s)]
      BY <2>3, ConcatProperties
    <3>3. i > Len(s) => Append(t, e)[i - Len(s)] = t[i - Len(s)]
      BY <1>1, <2>3, AppendTo
    <3>. QED BY <1>1, <2>1, <2>3, <3>1, <3>2, <3>3
  <2>. QED BY <1>1, <1>2, <2>2, <2>3
<1>. QED BY <1>2, <1>3, SeqEqual

LEMMA TailOfConcat ==
    ASSUME NEW S, NEW s \in Seq(S), NEW t \in Seq(S), s # <<>>
    PROVE  s \o t # <<>> /\ Head(s \o t) = Head(s) /\ Tail(s \o t) = Tail(s) \o t
<1>. DEFINE x == Tail(s \o t)
            y == Tail(s) \o t
<1>1. /\ s \o t \in Seq(S) /\ Len(s \o t) = Len(s) + Len(t)
      /\ Len(s) \in Nat /\ Len(s) > 0 /\ Len(t) \in Nat
  BY ConcatProperties, LenProperties, EmptySeq
<1>2. s \o t # <<>>
  BY <1>1, EmptySeq
<1>3. Head(s) = s[1] /\ Head(s \o t) = (s \o t)[1]
  BY <1>2
<1>4. (s \o t)[1] = s[1]
  BY <1>1, ConcatProperties
<1>5. /\ Tail(s) \in Seq(S) /\ Len(Tail(s)) = Len(s) - 1
      /\ x \in Seq(S) /\ Len(x) = Len(s) + Len(t) - 1
  BY <1>1, <1>2, HeadTailProperties
<1>6. y \in Seq(S) /\ Len(y) = Len(s) + Len(t) - 1
  BY <1>1, <1>5, ConcatProperties
<1>7. ASSUME NEW i \in 1 .. Len(x)
      PROVE  x[i] = y[i]
  <2>1. x[i] = (s \o t)[i + 1]
    BY <1>1, <1>2, HeadTailProperties
  <2>2. (s \o t)[i + 1] = IF i + 1 <= Len(s) THEN s[i + 1] ELSE t[i + 1 - Len(s)]
    BY <1>1, <1>5, ConcatProperties
  <2>3. y[i] = IF i <= Len(s) - 1 THEN Tail(s)[i] ELSE t[i - (Len(s) - 1)]
    BY <1>1, <1>5, ConcatProperties
  <2>4. i <= Len(s) - 1 => Tail(s)[i] = s[i + 1]
    BY <1>1, <1>5, HeadTailProperties
  <2>. QED BY <1>1, <1>5, <2>1, <2>2, <2>3, <2>4
<1>8. x = y
  BY <1>5, <1>6, <1>7, SeqEqual
<1>. QED BY <1>2, <1>3, <1>4, <1>8

LEMMA TailOfAppend ==
    ASSUME NEW S, NEW s \in Seq(S), NEW e \in S, s # <<>>
    PROVE  Tail(Append(s, e)) = Append(Tail(s), e)
<1>. DEFINE x == Append(s, e)
            y == Append(Tail(s), e)
<1>1. /\ Len(s) \in Nat /\ Len(s) > 0
      /\ Tail(s) \in Seq(S) /\ Len(Tail(s)) = Len(s) - 1
      /\ \A i \in 1 .. Len(Tail(s)) : Tail(s)[i] = s[i + 1]
  BY HeadTailProperties, LenProperties, EmptySeq
<1>2. /\ x \in Seq(S) /\ Len(x) = Len(s) + 1 /\ x[Len(s) + 1] = e
      /\ \A i \in 1 .. Len(s) : x[i] = s[i]
  BY AppendTo
<1>3. /\ y \in Seq(S) /\ Len(y) = Len(s) /\ y[Len(s)] = e
      /\ \A i \in 1 .. Len(s) - 1 : y[i] = Tail(s)[i]
  BY <1>1, AppendTo
<1>. HIDE DEF x, y
<1>4. x # <<>>
  BY <1>1, <1>2, EmptySeq
<1>5. /\ Tail(x) \in Seq(S) /\ Len(Tail(x)) = Len(s)
      /\ \A i \in 1 .. Len(s) : Tail(x)[i] = x[i + 1]
  BY <1>1, <1>2, <1>4, HeadTailProperties
<1>6. ASSUME NEW i \in 1 .. Len(Tail(x))
      PROVE  Tail(x)[i] = y[i]
  <2>1. CASE i = Len(s)
    <3>1. Tail(x)[i] = x[i + 1] /\ y[i] = e
      BY <1>3, <1>5, <2>1
    <3>. QED BY <1>2, <2>1, <3>1
  <2>2. CASE i \in 1 .. Len(s) - 1
    <3>1. Tail(x)[i] = x[i + 1] /\ i + 1 \in 1 .. Len(s)
      BY <1>1, <1>5, <2>2
    <3>2. x[i + 1] = s[i + 1] /\ y[i] = s[i + 1]
      BY <1>1, <1>2, <1>3, <2>2, <3>1
    <3>. QED BY <3>1, <3>2
  <2>3. i \in 1 .. Len(s) /\ Len(s) \in Nat
    BY <1>1, <1>5
  <2>. QED BY <2>1, <2>2, <2>3
<1>7. Tail(x) = y
  BY <1>3, <1>5, <1>6, SeqEqual
<1>. QED BY <1>7 DEF x, y

\* The first of a queue is appended to what was delivered before.
LEMMA MoveOver ==
    ASSUME NEW S, NEW s \in Seq(S), NEW t \in Seq(S), t # <<>>
    PROVE  Append(s, Head(t)) \o Tail(t) = s \o t
<1>. DEFINE x == Append(s, Head(t)) \o Tail(t)
<1>1. /\ Len(s) \in Nat /\ Len(t) \in Nat /\ Len(t) > 0
      /\ Head(t) = t[1] /\ Head(t) \in S
      /\ Tail(t) \in Seq(S) /\ Len(Tail(t)) = Len(t) - 1
  BY HeadTailProperties, LenProperties, EmptySeq
<1>2. Append(s, Head(t)) \in Seq(S) /\ Len(Append(s, Head(t))) = Len(s) + 1
  BY <1>1, AppendTo
<1>3. x \in Seq(S) /\ Len(x) = Len(s) + Len(t)
  BY <1>1, <1>2, ConcatProperties
<1>4. s \o t \in Seq(S) /\ Len(s \o t) = Len(s) + Len(t)
  BY ConcatProperties
<1>5. ASSUME NEW i \in 1 .. Len(x)
      PROVE  x[i] = (s \o t)[i]
  <2>1. x[i] = IF i <= Len(s) + 1 THEN Append(s, Head(t))[i] ELSE Tail(t)[i - (Len(s) + 1)]
    BY <1>1, <1>2, <1>3, ConcatProperties
  <2>2. (s \o t)[i] = IF i <= Len(s) THEN s[i] ELSE t[i - Len(s)]
    BY <1>3, ConcatProperties
  <2>3. CASE i <= Len(s)
    BY <1>1, <1>3, <2>1, <2>2, <2>3, AppendTo
  <2>4. CASE i = Len(s) + 1
    <3>1. Append(s, Head(t))[i] = Head(t)
      BY <1>1, <2>4, AppendTo
    <3>. QED BY <1>1, <2>1, <2>2, <2>4, <3>1
  <2>5. CASE i > Len(s) + 1
    <3>1. Tail(t)[i - (Len(s) + 1)] = t[i - Len(s)]
      BY <1>1, <1>3, <2>5, HeadTailProperties
    <3>. QED BY <1>1, <2>1, <2>2, <2>5, <3>1
  <2>. QED BY <1>1, <1>3, <2>3, <2>4, <2>5
<1>. QED BY <1>3, <1>4, <1>5, SeqEqual

Joined(s, t) == s \o t

\* What does not fit stays behind what does.
LEMMA MovePart ==
    ASSUME NEW S, NEW s \in Seq(S), NEW t \in Seq(S), NEW n \in 0 .. Len(t)
    PROVE  /\ s \o SubSeq(t, 1, n) \in Seq(S) /\ Len(s \o SubSeq(t, 1, n)) = Len(s) + n
           /\ SubSeq(t, n + 1, Len(t)) \in Seq(S)
           /\ Len(SubSeq(t, n + 1, Len(t))) = Len(t) - n
           /\ Joined(s \o SubSeq(t, 1, n), SubSeq(t, n + 1, Len(t))) = Joined(s, t)
<1>1. t \in [1 .. Len(t) -> S]
  BY LenProperties
<1>2. Len(t) \in Nat /\ Len(s) \in Nat /\ n \in Nat /\ n <= Len(t)
  BY LenProperties
<1>. DEFINE fits == SubSeq(t, 1, n)
            rest == SubSeq(t, n + 1, Len(t))
            r == s \o fits
            x == r \o rest
<1>3. fits \in Seq(S) /\ Len(fits) = IF 1 <= n THEN n - 1 + 1 ELSE 0
  <2>1. \A i \in 1 .. n : t[i] \in S
    BY <1>1, <1>2
  <2>. QED BY <2>1, SubSeqProperties
<1>4. \A i \in 1 .. n - 1 + 1 : fits[i] = t[1 + i - 1]
  <2>1. \A i \in 1 .. n : t[i] \in S
    BY <1>1, <1>2
  <2>. QED BY <2>1, SubSeqProperties
<1>5. /\ rest \in Seq(S)
      /\ Len(rest) = IF n + 1 <= Len(t) THEN Len(t) - (n + 1) + 1 ELSE 0
  <2>1. \A i \in n + 1 .. Len(t) : t[i] \in S
    BY <1>1, <1>2
  <2>. QED BY <1>2, <2>1, SubSeqProperties
<1>6. \A i \in 1 .. Len(t) - (n + 1) + 1 : rest[i] = t[n + 1 + i - 1]
  <2>1. \A i \in n + 1 .. Len(t) : t[i] \in S
    BY <1>1, <1>2
  <2>. QED BY <1>2, <2>1, SubSeqProperties
<1>. HIDE DEF fits, rest
<1>7. Len(fits) = n
  BY <1>2, <1>3
<1>8. Len(rest) = Len(t) - n
  BY <1>2, <1>5
<1>9. /\ r \in Seq(S) /\ Len(r) = Len(s) + n
      /\ \A i \in 1 .. Len(s) + Len(fits) : r[i] = IF i <= Len(s) THEN s[i] ELSE fits[i - Len(s)]
  BY <1>3, <1>7, ConcatProperties
<1>. HIDE DEF r
<1>10. /\ x \in Seq(S) /\ Len(x) = Len(r) + Len(rest)
       /\ \A i \in 1 .. Len(r) + Len(rest) : x[i] = IF i <= Len(r) THEN r[i] ELSE rest[i - Len(r)]
  BY <1>5, <1>9, ConcatProperties
<1>. HIDE DEF x
<1>11. Len(x) = Len(s) + Len(t)
  BY <1>2, <1>8, <1>9, <1>10
<1>12. s \o t \in Seq(S) /\ Len(s \o t) = Len(s) + Len(t)
  BY ConcatProperties
<1>13. ASSUME NEW i \in 1 .. Len(x)
       PROVE  x[i] = (s \o t)[i]
  <2>1. i \in 1 .. Len(s) + Len(t)
    BY <1>11
  <2>2. (s \o t)[i] = IF i <= Len(s) THEN s[i] ELSE t[i - Len(s)]
    BY <2>1, ConcatProperties
  <2>3. x[i] = IF i <= Len(s) + n THEN r[i] ELSE rest[i - (Len(s) + n)]
    BY <1>9, <1>10
  <2>4. CASE i <= Len(s)
    <3>1. r[i] = s[i] /\ i <= Len(s) + n
      BY <1>2, <1>7, <1>9, <2>1, <2>4
    <3>. QED BY <2>2, <2>3, <2>4, <3>1
  <2>5. CASE i > Len(s) /\ i <= Len(s) + n
    <3>1. r[i] = fits[i - Len(s)] /\ ~(i <= Len(s))
      BY <1>2, <1>7, <1>9, <2>1, <2>5
    <3>2. i - Len(s) \in 1 .. n - 1 + 1 /\ 1 + (i - Len(s)) - 1 = i - Len(s)
      BY <1>2, <2>1, <2>5
    <3>3. fits[i - Len(s)] = t[i - Len(s)]
      BY <1>4, <3>2
    <3>. QED BY <2>2, <2>3, <2>5, <3>1, <3>3
  <2>6. CASE i > Len(s) + n
    <3>. DEFINE j == i - (Len(s) + n)
    <3>1. j \in 1 .. Len(t) - (n + 1) + 1 /\ n + 1 + j - 1 = i - Len(s)
      BY <1>2, <2>1, <2>6
    <3>2. rest[j] = t[n + 1 + j - 1]
      BY <1>6, <3>1
    <3>3. ~(i <= Len(s) + n) /\ ~(i <= Len(s))
      BY <1>2, <2>1, <2>6
    <3>. QED BY <2>2, <2>3, <3>1, <3>2, <3>3
  <2>. QED BY <1>2, <2>1, <2>4, <2>5, <2>6
<1>14. x = s \o t
  BY <1>10, <1>11, <1>12, <1>13, SeqEqual
<1>. QED BY <1>5, <1>8, <1>9, <1>14 DEF fits, rest, r, x, Joined

-----------------------------------------------------------------------------
(* Numbered URCs. *)

\* done holds the URCs 1, 2, ..., s those that follow up to n, and at k an answer.
Numbered(done, s, n, k) ==
    /\ \A u \in 1 .. Len(done) : done[u] = u
    /\ k \in 1 .. Len(s) + 1
    /\ \A i \in 1 .. Len(s) :
           s[i] = IF i = k THEN Ok ELSE Len(done) + (IF i < k THEN i ELSE i - 1)
    /\ n = Len(done) + Len(s) - (IF k <= Len(s) THEN 1 ELSE 0)

\* The module sends another URC,
LEMMA UrcSent ==
    ASSUME NEW S, NEW done \in Seq(S), NEW s \in Seq(S), NEW n \in Nat, n + 1 \in S, NEW k,
           Numbered(done, s, n, k)
    PROVE  \E m : /\ Numbered(done, Append(s, n + 1), n + 1, m)
                  /\ m <= Len(Append(s, n + 1)) => k <= Len(s)
<1>. DEFINE e == n + 1
            x == Append(s, e)
            m == IF k <= Len(s) THEN k ELSE k + 1
<1>1. /\ Len(x) = Len(s) + 1 /\ x[Len(s) + 1] = e
      /\ \A i \in 1 .. Len(s) : x[i] = s[i]
  BY AppendTo
<1>2. Len(s) \in Nat /\ Len(done) \in Nat /\ k \in 1 .. Len(s) + 1
  BY LenProperties DEF Numbered
<1>3. /\ \A u \in 1 .. Len(done) : done[u] = u
      /\ \A i \in 1 .. Len(s) :
             s[i] = IF i = k THEN Ok ELSE Len(done) + (IF i < k THEN i ELSE i - 1)
      /\ n = Len(done) + Len(s) - (IF k <= Len(s) THEN 1 ELSE 0)
  BY DEF Numbered
<1>. HIDE DEF x
<1>4. ASSUME NEW i \in 1 .. Len(x)
      PROVE  x[i] = IF i = m THEN Ok ELSE Len(done) + (IF i < m THEN i ELSE i - 1)
  <2>1. CASE i = Len(s) + 1
    <3>1. x[i] = e
      BY <1>1, <2>1
    <3>2. n = Len(done) + Len(s) - (IF k <= Len(s) THEN 1 ELSE 0)
      BY <1>3
    <3>3. CASE k <= Len(s)
      <4>1. i # m /\ ~(i < m) /\ e = Len(done) + (i - 1)
        BY <1>2, <2>1, <3>2, <3>3
      <4>. QED BY <3>1, <4>1
    <3>4. CASE ~(k <= Len(s))
      <4>1. i # m /\ i < m /\ e = Len(done) + i
        BY <1>2, <2>1, <3>2, <3>4
      <4>. QED BY <3>1, <4>1
    <3>. QED BY <3>3, <3>4
  <2>2. CASE i \in 1 .. Len(s)
    BY <1>1, <1>2, <1>3, <2>2
  <2>. QED BY <1>1, <1>2, <2>1, <2>2
<1>5. m \in 1 .. Len(x) + 1 /\ e = Len(done) + Len(x) - (IF m <= Len(x) THEN 1 ELSE 0)
  BY <1>1, <1>2, <1>3
<1>6. m <= Len(x) => k <= Len(s)
  BY <1>1, <1>2
<1>7. Numbered(done, x, e, m)
  BY <1>3, <1>4, <1>5 DEF Numbered
<1>. QED BY <1>6, <1>7 DEF x

\* or the answer,
LEMMA AnswerSent ==
    ASSUME NEW S, NEW done \in Seq(S), NEW s \in Seq(S), Ok \in S, NEW n, NEW k,
           Numbered(done, s, n, k), ~(k <= Len(s))
    PROVE  Numbered(done, Append(s, Ok), n, k)
<1>. DEFINE x == Append(s, Ok)
<1>1. /\ Len(x) = Len(s) + 1 /\ x[Len(s) + 1] = Ok
      /\ \A i \in 1 .. Len(s) : x[i] = s[i]
  BY AppendTo
<1>2. Len(s) \in Nat /\ Len(done) \in Nat /\ k = Len(s) + 1
  BY LenProperties DEF Numbered
<1>3. /\ \A u \in 1 .. Len(done) : done[u] = u
      /\ \A i \in 1 .. Len(s) : s[i] = Len(done) + i
      /\ n = Len(done) + Len(s)
  BY <1>2 DEF Numbered
<1>. HIDE DEF x
<1>4. \A i \in 1 .. Len(x) :
          x[i] = IF i = k THEN Ok ELSE Len(done) + (IF i < k THEN i ELSE i - 1)
  BY <1>1, <1>2, <1>3
<1>5. k \in 1 .. Len(x) + 1 /\ n = Len(done) + Len(x) - (IF k <= Len(x) THEN 1 ELSE 0)
  BY <1>1, <1>2, <1>3
<1>6. Numbered(done, x, n, k)
  BY <1>3, <1>4, <1>5 DEF Numbered
<1>. QED BY <1>6 DEF x

\* and a thread reads the first line: a URC
LEMMA UrcTaken ==
    ASSUME NEW S, NEW done \in Seq(S), NEW s \in Seq(S), s # <<>>, NEW n, NEW k,
           Numbered(done, s, n, k), Head(s) # Ok
    PROVE  /\ Numbered(Append(done, Head(s)), Tail(s), n, k - 1)
           /\ k - 1 <= Len(Tail(s)) => k <= Len(s)
<1>. DEFINE x == Tail(s)
            d == Append(done, Head(s))
<1>1. /\ Len(s) \in Nat /\ Len(s) > 0 /\ Len(done) \in Nat
      /\ Head(s) \in S /\ Head(s) = s[1]
  BY HeadTailProperties, LenProperties, EmptySeq
<1>2. Len(x) = Len(s) - 1 /\ \A i \in 1 .. Len(x) : x[i] = s[i + 1]
  BY HeadTailProperties
<1>3. /\ k \in 1 .. Len(s) + 1
      /\ \A u \in 1 .. Len(done) : done[u] = u
      /\ \A i \in 1 .. Len(s) :
             s[i] = IF i = k THEN Ok ELSE Len(done) + (IF i < k THEN i ELSE i - 1)
      /\ n = Len(done) + Len(s) - (IF k <= Len(s) THEN 1 ELSE 0)
  BY DEF Numbered
<1>4. 1 \in 1 .. Len(s) /\ k > 1 /\ Head(s) = Len(done) + 1
  BY <1>1, <1>3
<1>5. /\ Len(d) = Len(done) + 1 /\ d[Len(done) + 1] = Head(s)
      /\ \A u \in 1 .. Len(done) : d[u] = done[u]
  BY <1>1, AppendTo
<1>. HIDE DEF x, d
<1>6. \A u \in 1 .. Len(d) : d[u] = u
  <2>. SUFFICES ASSUME NEW u \in 1 .. Len(d) PROVE d[u] = u
    OBVIOUS
  <2>1. CASE u = Len(done) + 1
    BY <1>4, <1>5, <2>1
  <2>2. CASE u \in 1 .. Len(done)
    BY <1>3, <1>5, <2>2
  <2>. QED BY <1>1, <1>5, <2>1, <2>2
<1>7. ASSUME NEW i \in 1 .. Len(x)
      PROVE  x[i] = IF i = k - 1 THEN Ok ELSE Len(d) + (IF i < k - 1 THEN i ELSE i - 1)
  <2>1. i + 1 \in 1 .. Len(s) /\ x[i] = s[i + 1]
    BY <1>1, <1>2
  <2>2. s[i + 1] = IF i + 1 = k THEN Ok ELSE Len(done) + (IF i + 1 < k THEN i + 1 ELSE i + 1 - 1)
    BY <1>3, <2>1
  <2>3. Len(d) = Len(done) + 1 /\ Len(done) \in Nat
    BY <1>1, <1>5
  <2>4. i \in Nat /\ k \in Nat
    BY <1>1, <1>2, <1>3
  <2>5. CASE i + 1 = k
    BY <2>1, <2>2, <2>4, <2>5
  <2>6. CASE i + 1 < k
    <3>1. x[i] = Len(done) + i + 1
      BY <2>1, <2>2, <2>3, <2>4, <2>6
    <3>2. Len(d) + i = Len(done) + i + 1 /\ i < k - 1 /\ i # k - 1
      BY <2>3, <2>4, <2>6
    <3>. QED BY <3>1, <3>2
  <2>7. CASE i + 1 > k
    <3>1. x[i] = Len(done) + i
      BY <2>1, <2>2, <2>3, <2>4, <2>7
    <3>2. Len(d) + (i - 1) = Len(done) + i /\ ~(i < k - 1) /\ i # k - 1
      BY <2>3, <2>4, <2>7
    <3>. QED BY <3>1, <3>2
  <2>. QED BY <2>4, <2>5, <2>6, <2>7
<1>8. /\ k - 1 \in 1 .. Len(x) + 1
      /\ n = Len(d) + Len(x) - (IF k - 1 <= Len(x) THEN 1 ELSE 0)
      /\ k - 1 <= Len(x) => k <= Len(s)
  BY <1>1, <1>2, <1>3, <1>4, <1>5
<1>9. Numbered(d, x, n, k - 1)
  BY <1>6, <1>7, <1>8 DEF Numbered
<1>. QED BY <1>8, <1>9 DEF x, d

\* or the answer.
LEMMA AnswerTaken ==
    ASSUME NEW S, NEW done \in Seq(S), NEW s \in Seq(S), s # <<>>, NEW n, NEW k,
           Numbered(done, s, n, k), Head(s) = Ok
    PROVE  /\ k <= Len(s)
           /\ \E m : Numbered(done, Tail(s), n, m) /\ ~(m <= Len(Tail(s)))
<1>. DEFINE x == Tail(s)
<1>1. Len(s) \in Nat /\ Len(s) > 0 /\ Len(done) \in Nat /\ Head(s) = s[1]
  BY LenProperties, EmptySeq
<1>2. Len(x) = Len(s) - 1 /\ \A i \in 1 .. Len(x) : x[i] = s[i + 1]
  BY HeadTailProperties
<1>3. /\ k \in 1 .. Len(s) + 1
      /\ \A u \in 1 .. Len(done) : done[u] = u
      /\ \A i \in 1 .. Len(s) :
             s[i] = IF i = k THEN Ok ELSE Len(done) + (IF i < k THEN i ELSE i - 1)
      /\ n = Len(done) + Len(s) - (IF k <= Len(s) THEN 1 ELSE 0)
  BY DEF Numbered
<1>4. k = 1
  <2>1. 1 \in 1 .. Len(s)
    BY <1>1
  <2>. QED BY <1>1, <1>3, <2>1 DEF Ok
<1>. DEFINE m == Len(x) + 1
<1>. HIDE DEF x
<1>5. ASSUME NEW i \in 1 .. Len(x)
      PROVE  x[i] = IF i = m THEN Ok ELSE Len(done) + (IF i < m THEN i ELSE i - 1)
  <2>1. i + 1 \in 1 .. Len(s) /\ x[i] = s[i + 1] /\ i + 1 # k
    BY <1>1, <1>2, <1>4
  <2>2. s[i + 1] = Len(done) + i
    BY <1>1, <1>2, <1>3, <1>4, <2>1
  <2>3. i < m /\ i # m
    BY <1>1, <1>2
  <2>. QED BY <2>1, <2>2, <2>3
<1>6. m \in 1 .. Len(x) + 1 /\ n = Len(done) + Len(x) - (IF m <= Len(x) THEN 1 ELSE 0)
      /\ ~(m <= Len(x)) /\ k <= Len(s)
  BY <1>1, <1>2, <1>3, <1>4
<1>7. Numbered(done, x, n, m)
  BY <1>3, <1>5, <1>6 DEF Numbered
<1>. QED BY <1>6, <1>7 DEF x

-----------------------------------------------------------------------------
(* Who may do what. *)

Steps == {"idle", "lock", "read", "urcs", "callback", "dequeueEnd", "end"}

\* Where a thread is that owns dequeueMutex.
Dequeuing == {"callback", "dequeueEnd"}

MutexInv == \A t \in Threads : At(t, "read") <=> cmdMutex = t

DequeueInv == /\ \A t \in Threads : pc[t] \in Dequeuing <=> dequeuer = t
              /\ dequeuer # Nobody => urcQueue # <<>>

\* An answer is on its way only while the application waits for it.
CountInv ==
    /\ asked => At("app", "read")
    /\ \E k : /\ Numbered(Taken, Coming, urcs, k)
              /\ k <= Len(Coming) => At("app", "read") /\ ~asked

ZephyrRxInv == TypeOK /\ MutexInv /\ DequeueInv /\ CountInv

\* What happens to a thread that goes on.
LEMMA GotoFacts ==
    ASSUME TypeOK, NEW t \in Threads, NEW l, Goto(t, l)
    PROVE  /\ pc'[t] = l /\ \A u \in Threads \ {t} : pc'[u] = pc[u]
           /\ l \in Steps => pc' \in [Threads -> Steps]
BY DEF TypeOK, Goto, Steps

LEMMA ReadTypes ==
    ASSUME TypeOK, NEW l \in Lines, Read(l), Enqueue(l)
    PROVE  /\ ring' \in Seq(Lines) /\ Len(ring') <= RingSize /\ irqOn' \in BOOLEAN
           /\ urcQueue' \in Seq(1 .. MaxUrcs)
           /\ urcQueue # <<>> => urcQueue' # <<>>
<1>1. ring \in Seq(Lines) /\ ring # <<>> /\ Len(ring) <= RingSize
  BY DEF TypeOK, Read
<1>2. /\ Tail(ring) \in Seq(Lines) /\ Len(Tail(ring)) = Len(ring) - 1 /\ Len(ring) \in Nat
  BY <1>1, HeadTailProperties, LenProperties
<1>3. ring' = Tail(ring) /\ irqOn' \in BOOLEAN
  BY DEF Read
<1>4. urcQueue \in Seq(1 .. MaxUrcs)
  BY DEF TypeOK
<1>5. CASE l = Ok
  BY <1>1, <1>2, <1>3, <1>4, <1>5, ZephyrRxAssumption DEF Enqueue
<1>6. CASE l # Ok
  <2>1. l \in 1 .. MaxUrcs /\ urcQueue' = Append(urcQueue, l)
    BY <1>6, ZephyrRxAssumption DEF Lines, Ok, Enqueue
  <2>2. /\ urcQueue' \in Seq(1 .. MaxUrcs) /\ Len(urcQueue') = Len(urcQueue) + 1
        /\ Len(urcQueue) \in Nat
    BY <1>4, <2>1, AppendTo
  <2>3. urcQueue' # <<>>
    BY <2>2, EmptySeq
  <2>. QED BY <1>1, <1>2, <1>3, <2>2, <2>3, ZephyrRxAssumption
<1>. QED BY <1>5, <1>6

\* How many lines the interrupt handler takes.
LEMMA IsrMoves ==
    ASSUME TypeOK, Isr
    PROVE  \E n \in 0 .. Len(fifo) :
               /\ n <= RingSize - Len(ring)
               /\ ring' = ring \o SubSeq(fifo, 1, n)
               /\ fifo' = SubSeq(fifo, n + 1, Len(fifo))
<1>1. /\ Len(fifo) \in Nat /\ Len(ring) \in Nat /\ Len(ring) <= RingSize
  BY LenProperties DEF TypeOK
<1>. DEFINE space == RingSize - Len(ring)
            n == IF space < Len(fifo) THEN space ELSE Len(fifo)
<1>2. n \in 0 .. Len(fifo) /\ n <= RingSize - Len(ring)
  BY <1>1, ZephyrRxAssumption
<1>3. ring' = ring \o SubSeq(fifo, 1, n) /\ fifo' = SubSeq(fifo, n + 1, Len(fifo))
  BY DEF Isr
<1>. QED BY <1>2, <1>3

LEMMA FifoGrows ==
    ASSUME TypeOK, NEW l \in Lines, Len(fifo) < FifoSize, fifo' = Append(fifo, l)
    PROVE  fifo' \in Seq(Lines) /\ Len(fifo') <= FifoSize
<1>1. fifo \in Seq(Lines)
  BY DEF TypeOK
<1>2. fifo' \in Seq(Lines) /\ Len(fifo') = Len(fifo) + 1 /\ Len(fifo) \in Nat
  BY <1>1, AppendTo
<1>. QED BY <1>2, ZephyrRxAssumption

LEMMA TypeStep == TypeOK /\ DequeueInv /\ [Next]_vars => TypeOK'
<1>. SUFFICES ASSUME TypeOK, DequeueInv, [Next]_vars PROVE TypeOK'
  OBVIOUS
<1>. USE DEF line, uart, urcVars
<1>0. Ok \in Lines /\ \A u \in 1 .. MaxUrcs : u \in Lines
  BY ZephyrRxAssumption DEF Lines, Ok
<1>1. CASE SendUrc
  <2>1. urcs + 1 \in 0 .. MaxUrcs /\ urcs + 1 \in 1 .. MaxUrcs
    BY <1>1, ZephyrRxAssumption DEF SendUrc, TypeOK
  <2>2. fifo' \in Seq(Lines) /\ Len(fifo') <= FifoSize
    BY <1>0, <1>1, <2>1, FifoGrows DEF SendUrc
  <2>. QED BY <1>1, <2>1, <2>2 DEF SendUrc, TypeOK
<1>2. CASE Answer
  <2>1. fifo' \in Seq(Lines) /\ Len(fifo') <= FifoSize
    BY <1>0, <1>2, FifoGrows DEF Answer
  <2>. QED BY <1>2, <2>1 DEF Answer, TypeOK
<1>3. CASE Isr
  <2>1. PICK n \in 0 .. Len(fifo) : /\ n <= RingSize - Len(ring)
                                    /\ ring' = ring \o SubSeq(fifo, 1, n)
                                    /\ fifo' = SubSeq(fifo, n + 1, Len(fifo))
    BY <1>3, IsrMoves
  <2>2. /\ ring \in Seq(Lines) /\ fifo \in Seq(Lines) /\ Len(fifo) <= FifoSize
    BY DEF TypeOK
  <2>3. Len(fifo) \in Nat /\ Len(ring) \in Nat
    BY <2>2, LenProperties
  <2>4. /\ ring' \in Seq(Lines) /\ Len(ring') = Len(ring) + n
        /\ fifo' \in Seq(Lines) /\ Len(fifo') = Len(fifo) - n
    BY <2>1, <2>2, MovePart
  <2>5. Len(ring') <= RingSize /\ Len(fifo') <= FifoSize
    BY <2>1, <2>2, <2>3, <2>4, ZephyrRxAssumption
  <2>6. irqOn' \in BOOLEAN /\ work' \in {"idle", "queued", "running"}
    BY <1>3 DEF Isr, RxSignal, TypeOK
  <2>. QED BY <1>3, <2>4, <2>5, <2>6 DEF Isr, TypeOK
<1>4. CASE Run \/ HandleRx \/ WorkReadsNothing \/ WorkEnds \/ Command \/ AppEnds
  <2>1. \E t \in Threads, l \in Steps : Goto(t, l)
    BY <1>4 DEF Run, HandleRx, WorkReadsNothing, WorkEnds, Command, AppEnds, Steps, Threads
  <2>2. pc' \in [Threads -> Steps]
    BY <2>1, GotoFacts
  <2>3. /\ cmdMutex' \in Threads \cup {Nobody} /\ asked' \in BOOLEAN
        /\ work' \in {"idle", "queued", "running"}
    BY <1>4 DEF Run, HandleRx, WorkReadsNothing, WorkEnds, Command, AppEnds, TypeOK, Threads
  <2>4. UNCHANGED <<urcs, fifo, irqOn, ring, urcQueue, dequeuer, delivered>>
    BY <1>4 DEF Run, HandleRx, WorkReadsNothing, WorkEnds, Command, AppEnds
  <2>. QED BY <2>2, <2>3, <2>4 DEF TypeOK, Steps
<1>5. ASSUME NEW l \in Lines, WorkReads(l)
      PROVE  TypeOK'
  <2>1. Read(l) /\ Enqueue(l) /\ UNCHANGED <<line, work, pc, cmdMutex, dequeuer, delivered, fifo>>
    BY <1>5 DEF WorkReads, Read
  <2>. QED BY <2>1, ReadTypes DEF TypeOK
<1>6. ASSUME NEW l \in Lines, AppReads(l)
      PROVE  TypeOK'
  <2>1. Read(l) /\ Enqueue(l) /\ UNCHANGED <<line, work, dequeuer, delivered, fifo>>
    BY <1>6 DEF AppReads, Read
  <2>2. \/ UNCHANGED <<cmdMutex, pc>>
        \/ cmdMutex' = Nobody /\ Goto("app", "urcs")
    BY <1>6 DEF AppReads
  <2>3. cmdMutex' \in Threads \cup {Nobody} /\ pc' \in [Threads -> Steps]
    BY <2>2, GotoFacts DEF TypeOK, Steps, Threads
  <2>4. /\ ring' \in Seq(Lines) /\ Len(ring') <= RingSize /\ irqOn' \in BOOLEAN
        /\ urcQueue' \in Seq(1 .. MaxUrcs)
    BY <2>1, ReadTypes
  <2>. QED BY <2>1, <2>3, <2>4 DEF TypeOK, Steps
<1>7. ASSUME NEW t \in Threads, DequeueBegin(t) \/ DequeueNone(t)
      PROVE  TypeOK'
  <2>1. Goto(t, "callback") \/ Goto(t, "end")
    BY <1>7 DEF DequeueBegin, DequeueNone
  <2>2. pc' \in [Threads -> Steps]
    BY <2>1, GotoFacts DEF Steps
  <2>3. /\ dequeuer' \in Threads \cup {Nobody}
        /\ UNCHANGED <<line, uart, work, cmdMutex, urcQueue, delivered>>
    BY <1>7 DEF DequeueBegin, DequeueNone, TypeOK
  <2>. QED BY <2>2, <2>3 DEF TypeOK, Steps
<1>8. ASSUME NEW t \in Threads, Callback(t) \/ DequeueEnd(t)
      PROVE  TypeOK'
  <2>1. Goto(t, "dequeueEnd") \/ Goto(t, "urcs")
    BY <1>8 DEF Callback, DequeueEnd
  <2>2. pc' \in [Threads -> Steps]
    BY <2>1, GotoFacts DEF Steps
  <2>3. urcQueue # <<>> /\ urcQueue \in Seq(1 .. MaxUrcs) /\ delivered \in Seq(1 .. MaxUrcs)
    BY <1>8 DEF Callback, DequeueEnd, At, DequeueInv, Dequeuing, TypeOK, Threads, Nobody
  <2>4. Head(urcQueue) \in 1 .. MaxUrcs /\ Tail(urcQueue) \in Seq(1 .. MaxUrcs)
    BY <2>3, HeadTailProperties
  <2>5. Append(delivered, Head(urcQueue)) \in Seq(1 .. MaxUrcs)
    BY <2>3, <2>4, AppendTo
  <2>6. /\ urcQueue' \in Seq(1 .. MaxUrcs) /\ delivered' \in Seq(1 .. MaxUrcs)
        /\ dequeuer' \in Threads \cup {Nobody} /\ UNCHANGED <<line, uart, work, cmdMutex>>
    BY <1>8, <2>3, <2>4, <2>5 DEF Callback, DequeueEnd, TypeOK
  <2>. QED BY <2>2, <2>6 DEF TypeOK, Steps
<1>9. CASE AppReadsNothing \/ UNCHANGED vars
  BY <1>9 DEF AppReadsNothing, vars, TypeOK
<1>. QED BY <1>1, <1>2, <1>3, <1>4, <1>5, <1>6, <1>7, <1>8, <1>9
         DEF Next, Work, App, Threads

LEMMA MutexStep == TypeOK /\ MutexInv /\ [Next]_vars => MutexInv'
<1>. SUFFICES ASSUME TypeOK, MutexInv, [Next]_vars PROVE MutexInv'
  OBVIOUS
<1>. USE DEF MutexInv, At
<1>1. CASE \/ SendUrc \/ Answer \/ Isr \/ AppReadsNothing \/ UNCHANGED vars
           \/ \E l \in Lines : WorkReads(l)
  <2>1. UNCHANGED <<pc, cmdMutex>>
    BY <1>1 DEF SendUrc, Answer, Isr, AppReadsNothing, vars, WorkReads
  <2>. QED BY <2>1
<1>2. ASSUME NEW t \in Threads, NEW l \in Steps \ {"read"}, pc[t] # "read", Goto(t, l),
             UNCHANGED cmdMutex
      PROVE  MutexInv'
  BY <1>2, GotoFacts
<1>3. CASE Run \/ WorkEnds \/ AppEnds
  <2>1. /\ \E t \in Threads, l \in Steps \ {"read"} : pc[t] # "read" /\ Goto(t, l)
        /\ UNCHANGED cmdMutex
    BY <1>3 DEF Run, WorkEnds, AppEnds, Steps, Threads
  <2>. QED BY <1>2, <2>1
<1>4. ASSUME NEW t \in Threads,
             DequeueBegin(t) \/ DequeueNone(t) \/ Callback(t) \/ DequeueEnd(t)
      PROVE  MutexInv'
  <2>1. /\ \E l \in Steps \ {"read"} : pc[t] # "read" /\ Goto(t, l)
        /\ UNCHANGED cmdMutex
    BY <1>4 DEF DequeueBegin, DequeueNone, Callback, DequeueEnd, Steps
  <2>. QED BY <1>2, <2>1
<1>5. CASE HandleRx \/ Command
  <2>1. PICK t \in Threads : Goto(t, "read") /\ cmdMutex = Nobody /\ cmdMutex' = t
    BY <1>5 DEF HandleRx, Command, Threads
  <2>2. pc'[t] = "read" /\ \A u \in Threads \ {t} : pc'[u] = pc[u] /\ pc[u] # "read"
    BY <2>1, GotoFacts DEF Threads, Nobody
  <2>. QED BY <2>1, <2>2
<1>6. ASSUME NEW t \in Threads, pc[t] = "read", Goto(t, "urcs"), cmdMutex' = Nobody
      PROVE  MutexInv'
  <2>1. pc'[t] = "urcs" /\ \A u \in Threads \ {t} : pc'[u] = pc[u] /\ pc[u] # "read"
    BY <1>6, GotoFacts
  <2>. QED BY <1>6, <2>1 DEF Threads, Nobody
<1>7. CASE WorkReadsNothing
  BY <1>6, <1>7 DEF WorkReadsNothing, Threads
<1>8. ASSUME NEW l \in Lines, AppReads(l)
      PROVE  MutexInv'
  BY <1>6, <1>8 DEF AppReads, Threads
<1>. QED BY <1>1, <1>3, <1>4, <1>5, <1>7, <1>8 DEF Next, Work, App, Threads

LEMMA DequeueStep == TypeOK /\ DequeueInv /\ [Next]_vars => DequeueInv'
<1>. SUFFICES ASSUME TypeOK, DequeueInv, [Next]_vars PROVE DequeueInv'
  OBVIOUS
<1>. USE DEF At
<1>0. Nobody \notin Threads
  BY DEF Threads, Nobody
<1>1. CASE SendUrc \/ Answer \/ Isr \/ AppReadsNothing \/ UNCHANGED vars
  <2>1. UNCHANGED <<pc, dequeuer, urcQueue>>
    BY <1>1 DEF SendUrc, Answer, Isr, AppReadsNothing, vars, urcVars
  <2>. QED BY <2>1 DEF DequeueInv
<1>2. ASSUME NEW t \in Threads, NEW l \in Steps \ Dequeuing, pc[t] \notin Dequeuing, Goto(t, l),
             UNCHANGED dequeuer, urcQueue # <<>> => urcQueue' # <<>>
      PROVE  DequeueInv'
  BY <1>2, GotoFacts DEF DequeueInv
<1>3. CASE Run \/ HandleRx \/ WorkReadsNothing \/ WorkEnds \/ Command \/ AppEnds
  <2>1. /\ \E t \in Threads, l \in Steps \ Dequeuing : pc[t] \notin Dequeuing /\ Goto(t, l)
        /\ UNCHANGED <<dequeuer, urcQueue>>
    BY <1>3 DEF Run, HandleRx, WorkReadsNothing, WorkEnds, Command, AppEnds, urcVars,
                Steps, Dequeuing, Threads
  <2>. QED BY <1>2, <2>1
<1>4. ASSUME NEW l \in Lines, WorkReads(l) \/ AppReads(l)
      PROVE  DequeueInv'
  <2>1. urcQueue # <<>> => urcQueue' # <<>>
    BY <1>4, ReadTypes DEF WorkReads, AppReads
  <2>2. CASE UNCHANGED <<pc, dequeuer>>
    BY <2>1, <2>2 DEF DequeueInv
  <2>3. CASE AppReads(l) /\ l = Ok
    BY <1>2, <2>1, <2>3 DEF AppReads, Steps, Dequeuing, Threads
  <2>. QED BY <1>4, <2>2, <2>3 DEF WorkReads, AppReads
<1>5. ASSUME NEW t \in Threads, DequeueBegin(t)
      PROVE  DequeueInv'
  <2>1. /\ Goto(t, "callback") /\ dequeuer = Nobody /\ dequeuer' = t
        /\ urcQueue' # <<>>
    BY <1>5 DEF DequeueBegin
  <2>2. pc'[t] = "callback" /\ \A u \in Threads \ {t} : pc'[u] \notin Dequeuing
    BY <1>0, <2>1, GotoFacts DEF DequeueInv
  <2>. QED BY <2>1, <2>2 DEF DequeueInv, Dequeuing
<1>6. ASSUME NEW t \in Threads, DequeueNone(t)
      PROVE  DequeueInv'
  BY <1>2, <1>6 DEF DequeueNone, urcVars, Steps, Dequeuing
<1>7. ASSUME NEW t \in Threads, Callback(t)
      PROVE  DequeueInv'
  <2>1. pc[t] = "callback" /\ Goto(t, "dequeueEnd") /\ UNCHANGED <<dequeuer, urcQueue>>
    BY <1>7 DEF Callback
  <2>2. pc'[t] = "dequeueEnd" /\ \A u \in Threads \ {t} : pc'[u] = pc[u]
    BY <2>1, GotoFacts
  <2>. QED BY <2>1, <2>2 DEF DequeueInv, Dequeuing
<1>8. ASSUME NEW t \in Threads, DequeueEnd(t)
      PROVE  DequeueInv'
  <2>1. pc[t] = "dequeueEnd" /\ Goto(t, "urcs") /\ dequeuer' = Nobody
    BY <1>8 DEF DequeueEnd
  <2>2. pc'[t] = "urcs" /\ \A u \in Threads \ {t} : pc'[u] = pc[u]
    BY <2>1, GotoFacts
  <2>3. dequeuer = t
    BY <2>1 DEF DequeueInv, Dequeuing
  <2>4. \A u \in Threads : pc'[u] \notin Dequeuing
    BY <2>2, <2>3 DEF DequeueInv, Dequeuing
  <2>. QED BY <1>0, <2>1, <2>4 DEF DequeueInv
<1>. QED BY <1>1, <1>3, <1>4, <1>5, <1>6, <1>7, <1>8 DEF Next, Work, App, Threads

-----------------------------------------------------------------------------
(* What was taken and what is coming. *)

LEMMA TakenTypes ==
    ASSUME TypeOK, DequeueInv
    PROVE  /\ Taken \in Seq(Lines) /\ Coming \in Seq(Lines)
           /\ ring \in Seq(Lines) /\ fifo \in Seq(Lines)
           /\ urcQueue \in Seq(Lines) /\ delivered \in Seq(Lines)
           /\ Called => urcQueue # <<>>
<1>1. 1 .. MaxUrcs \subseteq Lines
  BY ZephyrRxAssumption DEF Lines
<1>2. urcQueue \in Seq(Lines) /\ delivered \in Seq(Lines)
  BY <1>1, SeqMonotonic DEF TypeOK
<1>3. Called => urcQueue # <<>>
  BY DEF Called, At, DequeueInv, Dequeuing, Threads, Nobody
<1>4. (IF Called THEN Tail(urcQueue) ELSE urcQueue) \in Seq(Lines)
  BY <1>2, <1>3, HeadTailProperties
<1>5. Taken \in Seq(Lines)
  BY <1>2, <1>4, ConcatProperties DEF Taken
<1>6. ring \in Seq(Lines) /\ fifo \in Seq(Lines)
  BY DEF TypeOK
<1>7. Coming \in Seq(Lines)
  BY <1>6, ConcatProperties DEF Coming
<1>. QED BY <1>2, <1>3, <1>5, <1>6, <1>7

\* A thread goes on, and is at the end of a callback neither before nor afterwards.
LEMMA NotCalled ==
    ASSUME TypeOK, NEW t \in Threads, NEW l, Goto(t, l),
           pc[t] # "dequeueEnd", l # "dequeueEnd"
    PROVE  Called' <=> Called
BY GotoFacts DEF Called, At

LEMMA CountStays ==
    ASSUME CountInv, Taken' = Taken, Coming' = Coming, UNCHANGED <<urcs, asked>>,
           At("app", "read") => pc'["app"] = "read"
    PROVE  CountInv'
<1>1. PICK k : /\ Numbered(Taken, Coming, urcs, k)
               /\ k <= Len(Coming) => At("app", "read") /\ ~asked
  BY DEF CountInv
<1>2. Numbered(Taken', Coming', urcs', k)
  BY <1>1
<1>3. k <= Len(Coming') => pc'["app"] = "read" /\ ~asked'
  BY <1>1
<1>. QED BY <1>2, <1>3 DEF CountInv, At

\* A thread reads a line.
LEMMA ReadMoves ==
    ASSUME TypeOK, DequeueInv, NEW l \in Lines, Read(l), Enqueue(l), Called' <=> Called,
           UNCHANGED delivered
    PROVE  /\ Coming # <<>> /\ Head(Coming) = l /\ Coming' = Tail(Coming)
           /\ Taken' = IF l = Ok THEN Taken ELSE Append(Taken, l)
<1>1. /\ ring \in Seq(Lines) /\ fifo \in Seq(Lines)
      /\ urcQueue \in Seq(Lines) /\ delivered \in Seq(Lines)
      /\ Called => urcQueue # <<>>
  BY TakenTypes
<1>2. ring # <<>> /\ l = Head(ring) /\ ring' = Tail(ring) /\ fifo' = fifo
  BY DEF Read
<1>3. Coming # <<>> /\ Head(Coming) = l /\ Coming' = Tail(Coming)
  BY <1>1, <1>2, TailOfConcat DEF Coming
<1>4. CASE l = Ok
  BY <1>3, <1>4 DEF Enqueue, Taken
<1>5. CASE l # Ok /\ ~Called
  <2>1. urcQueue' = Append(urcQueue, l)
    BY <1>5 DEF Enqueue
  <2>2. Taken = delivered \o urcQueue /\ Taken' = delivered \o Append(urcQueue, l)
    BY <1>5, <2>1 DEF Taken
  <2>. QED BY <1>1, <1>3, <1>5, <2>2, AppendBehind
<1>6. CASE l # Ok /\ Called
  <2>1. urcQueue' = Append(urcQueue, l) /\ urcQueue # <<>>
    BY <1>1, <1>6 DEF Enqueue
  <2>2. Tail(Append(urcQueue, l)) = Append(Tail(urcQueue), l)
    BY <1>1, <2>1, TailOfAppend
  <2>3. Tail(urcQueue) \in Seq(Lines)
    BY <1>1, <2>1, HeadTailProperties
  <2>4. /\ Taken = delivered \o Tail(urcQueue)
        /\ Taken' = delivered \o Append(Tail(urcQueue), l)
    BY <1>6, <2>1, <2>2 DEF Taken
  <2>. QED BY <1>1, <1>3, <1>6, <2>3, <2>4, AppendBehind
<1>. QED BY <1>4, <1>5, <1>6

\* Neither the interrupt handler nor the steps of a delivery change the order.
LEMMA IsrKeepsComing ==
    ASSUME TypeOK, DequeueInv, Isr
    PROVE  Coming' = Coming
<1>1. PICK n \in 0 .. Len(fifo) : /\ ring' = ring \o SubSeq(fifo, 1, n)
                                  /\ fifo' = SubSeq(fifo, n + 1, Len(fifo))
  BY IsrMoves
<1>2. ring \in Seq(Lines) /\ fifo \in Seq(Lines)
  BY TakenTypes
<1>3. Joined(ring \o SubSeq(fifo, 1, n), SubSeq(fifo, n + 1, Len(fifo))) = Joined(ring, fifo)
  BY <1>2, MovePart
<1>4. Joined(ring', fifo') = Joined(ring, fifo)
  BY <1>1, <1>3, Zenon
<1>. QED BY <1>4 DEF Coming, Joined

LEMMA DeliveryKeepsTaken ==
    ASSUME TypeOK, DequeueInv, NEW t \in Threads, Callback(t) \/ DequeueEnd(t)
    PROVE  Taken' = Taken
<1>1. urcQueue \in Seq(Lines) /\ delivered \in Seq(Lines)
  BY TakenTypes
<1>2. dequeuer = t /\ urcQueue # <<>>
  BY DEF Callback, DequeueEnd, At, DequeueInv, Dequeuing, Threads, Nobody
<1>3. \A u \in Threads \ {t} : pc[u] # "dequeueEnd"
  BY <1>2 DEF DequeueInv, Dequeuing
<1>4. CASE Callback(t)
  <2>1. /\ pc[t] = "callback" /\ Goto(t, "dequeueEnd") /\ urcQueue' = urcQueue
        /\ delivered' = Append(delivered, Head(urcQueue))
    BY <1>4 DEF Callback, At
  <2>2. ~Called /\ Called'
    BY <1>3, <2>1, GotoFacts DEF Called, At
  <2>3. Append(delivered, Head(urcQueue)) \o Tail(urcQueue) = delivered \o urcQueue
    BY <1>1, <1>2, MoveOver
  <2>4. /\ Taken = delivered \o urcQueue
        /\ Taken' = Append(delivered, Head(urcQueue)) \o Tail(urcQueue)
    BY <2>1, <2>2 DEF Taken
  <2>. QED BY <2>3, <2>4, Zenon
<1>5. CASE DequeueEnd(t)
  <2>1. /\ pc[t] = "dequeueEnd" /\ Goto(t, "urcs") /\ urcQueue' = Tail(urcQueue)
        /\ delivered' = delivered
    BY <1>5 DEF DequeueEnd, At
  <2>2. Called /\ ~Called'
    BY <1>3, <2>1, GotoFacts DEF Called, At
  <2>. QED BY <2>1, <2>2 DEF Taken
<1>. QED BY <1>4, <1>5

LEMMA CountStep ==
    TypeOK /\ MutexInv /\ DequeueInv /\ CountInv /\ [Next]_vars => CountInv'
<1>. SUFFICES ASSUME TypeOK, MutexInv, DequeueInv, CountInv, [Next]_vars
              PROVE  CountInv'
  OBVIOUS
<1>. USE DEF line, uart, urcVars
<1>0. /\ Taken \in Seq(Lines) /\ Coming \in Seq(Lines)
      /\ ring \in Seq(Lines) /\ fifo \in Seq(Lines)
  BY TakenTypes
<1>1. PICK k : /\ Numbered(Taken, Coming, urcs, k)
               /\ k <= Len(Coming) => At("app", "read") /\ ~asked
  BY DEF CountInv
<1>2. CASE SendUrc
  <2>1. /\ urcs < MaxUrcs /\ urcs' = urcs + 1 /\ fifo' = Append(fifo, urcs + 1)
        /\ UNCHANGED <<asked, ring, pc, urcQueue, delivered>>
    BY <1>2 DEF SendUrc
  <2>2. urcs \in Nat /\ urcs + 1 \in Lines
    BY <2>1, ZephyrRxAssumption DEF TypeOK, Lines
  <2>3. Coming' = Append(Coming, urcs + 1)
    BY <1>0, <2>1, <2>2, AppendBehind DEF Coming
  <2>4. Taken' = Taken
    BY <2>1 DEF Taken, Called, At
  <2>5. PICK m : /\ Numbered(Taken, Append(Coming, urcs + 1), urcs + 1, m)
                 /\ m <= Len(Append(Coming, urcs + 1)) => k <= Len(Coming)
    BY <1>0, <1>1, <2>2, UrcSent
  <2>6. /\ Numbered(Taken', Coming', urcs', m)
        /\ m <= Len(Coming') => k <= Len(Coming)
    BY <2>1, <2>3, <2>4, <2>5
  <2>7. At("app", "read")' = At("app", "read")
    BY <2>1 DEF At
  <2>. QED BY <1>1, <2>1, <2>6, <2>7 DEF CountInv
<1>3. CASE Answer
  <2>1. /\ asked /\ ~asked' /\ fifo' = Append(fifo, Ok)
        /\ UNCHANGED <<urcs, ring, pc, urcQueue, delivered>>
    BY <1>3 DEF Answer
  <2>2. Ok \in Lines
    BY ZephyrRxAssumption DEF Lines, Ok
  <2>3. Coming' = Append(Coming, Ok)
    BY <1>0, <2>1, <2>2, AppendBehind DEF Coming
  <2>4. Taken' = Taken
    BY <2>1 DEF Taken, Called, At
  <2>5. Numbered(Taken, Append(Coming, Ok), urcs, k)
    BY <1>0, <1>1, <2>1, <2>2, AnswerSent
  <2>6. Numbered(Taken', Coming', urcs', k)
    BY <2>1, <2>3, <2>4, <2>5
  <2>7. At("app", "read")' /\ ~asked'
    BY <2>1 DEF At, CountInv
  <2>. QED BY <2>6, <2>7 DEF CountInv
<1>4. CASE Isr
  <2>1. Coming' = Coming
    BY <1>4, IsrKeepsComing
  <2>2. UNCHANGED <<urcs, asked, pc, urcQueue, delivered>>
    BY <1>4 DEF Isr
  <2>3. Taken' = Taken
    BY <2>2 DEF Taken, Called, At
  <2>. QED BY <2>1, <2>2, <2>3, CountStays DEF At
<1>5. CASE Run \/ HandleRx \/ WorkReadsNothing \/ WorkEnds \/ AppEnds
  <2>1. /\ UNCHANGED <<urcs, asked, fifo, ring, urcQueue, delivered>>
        /\ \E t \in Threads, l \in Steps \ {"dequeueEnd"} :
               /\ Goto(t, l) /\ pc[t] # "dequeueEnd" /\ ~(t = "app" /\ pc[t] = "read")
    BY <1>5 DEF Run, HandleRx, WorkReadsNothing, WorkEnds, AppEnds, At, Steps, Threads
  <2>2. (Called' <=> Called) /\ (At("app", "read") => pc'["app"] = "read")
    BY <2>1, NotCalled, GotoFacts DEF At, Threads
  <2>3. Taken' = Taken /\ Coming' = Coming
    BY <2>1, <2>2 DEF Taken, Coming
  <2>. QED BY <2>1, <2>2, <2>3, CountStays
<1>6. CASE Command
  <2>1. /\ pc["app"] = "idle" /\ Goto("app", "read") /\ asked'
        /\ UNCHANGED <<urcs, fifo, ring, urcQueue, delivered>>
    BY <1>6 DEF Command, At
  <2>2. Called' <=> Called
    BY <2>1, NotCalled DEF Threads
  <2>3. Taken' = Taken /\ Coming' = Coming
    BY <2>1, <2>2 DEF Taken, Coming
  <2>4. Numbered(Taken', Coming', urcs', k) /\ ~(k <= Len(Coming'))
    BY <1>1, <2>1, <2>3 DEF At
  <2>5. At("app", "read")'
    BY <2>1, GotoFacts DEF At, Threads
  <2>. QED BY <2>4, <2>5 DEF CountInv
<1>7. ASSUME NEW l \in Lines, WorkReads(l)
      PROVE  CountInv'
  <2>1. /\ At("work", "read") /\ Read(l) /\ Enqueue(l)
        /\ UNCHANGED <<urcs, asked, pc, delivered>>
    BY <1>7 DEF WorkReads
  <2>2. ~At("app", "read")
    BY <2>1 DEF MutexInv, Threads
  <2>3. /\ Coming # <<>> /\ Head(Coming) = l /\ Coming' = Tail(Coming)
        /\ Taken' = IF l = Ok THEN Taken ELSE Append(Taken, l)
    BY <2>1, ReadMoves DEF Called, At
  <2>4. l # Ok
    BY <1>0, <1>1, <2>2, <2>3, AnswerTaken
  <2>5. /\ Numbered(Append(Taken, l), Tail(Coming), urcs, k - 1)
        /\ k - 1 <= Len(Tail(Coming)) => k <= Len(Coming)
    BY <1>0, <1>1, <2>3, <2>4, UrcTaken
  <2>6. /\ Numbered(Taken', Coming', urcs', k - 1)
        /\ ~(k - 1 <= Len(Coming'))
    BY <1>1, <2>1, <2>2, <2>3, <2>4, <2>5
  <2>7. ~asked'
    BY <2>1, <2>2 DEF CountInv
  <2>. QED BY <2>6, <2>7 DEF CountInv
<1>8. ASSUME NEW l \in Lines, AppReads(l)
      PROVE  CountInv'
  <2>1. /\ At("app", "read") /\ Read(l) /\ Enqueue(l)
        /\ UNCHANGED <<urcs, asked, delivered>>
    BY <1>8 DEF AppReads
  <2>2. IF l = Ok THEN Goto("app", "urcs") ELSE UNCHANGED pc
    BY <1>8 DEF AppReads
  <2>3. Called' <=> Called
    <3>1. CASE l = Ok
      BY <2>1, <2>2, <3>1, NotCalled DEF At, Threads
    <3>2. CASE l # Ok
      BY <2>2, <3>2 DEF Called, At
    <3>. QED BY <3>1, <3>2
  <2>4. /\ Coming # <<>> /\ Head(Coming) = l /\ Coming' = Tail(Coming)
        /\ Taken' = IF l = Ok THEN Taken ELSE Append(Taken, l)
    BY <2>1, <2>3, ReadMoves
  <2>5. CASE l # Ok
    <3>1. /\ Numbered(Append(Taken, l), Tail(Coming), urcs, k - 1)
          /\ k - 1 <= Len(Tail(Coming)) => k <= Len(Coming)
      BY <1>0, <1>1, <2>4, <2>5, UrcTaken
    <3>2. /\ Numbered(Taken', Coming', urcs', k - 1)
          /\ k - 1 <= Len(Coming') => k <= Len(Coming)
      BY <2>1, <2>4, <2>5, <3>1
    <3>3. At("app", "read")'
      BY <2>1, <2>2, <2>5 DEF At
    <3>. QED BY <1>1, <2>1, <3>2, <3>3 DEF CountInv
  <2>6. CASE l = Ok
    <3>1. /\ k <= Len(Coming)
          /\ \E m : Numbered(Taken, Tail(Coming), urcs, m) /\ ~(m <= Len(Tail(Coming)))
      BY <1>0, <1>1, <2>4, <2>6, AnswerTaken
    <3>2. PICK m : Numbered(Taken', Coming', urcs', m) /\ ~(m <= Len(Coming'))
      BY <2>1, <2>4, <2>6, <3>1
    <3>3. ~asked'
      BY <1>1, <2>1, <3>1
    <3>. QED BY <3>2, <3>3 DEF CountInv
  <2>. QED BY <2>5, <2>6
<1>9. ASSUME NEW t \in Threads, DequeueBegin(t) \/ DequeueNone(t)
      PROVE  CountInv'
  <2>1. /\ UNCHANGED <<urcs, asked, fifo, ring, urcQueue, delivered>>
        /\ pc[t] = "urcs" /\ \E l \in {"callback", "end"} : Goto(t, l)
    BY <1>9 DEF DequeueBegin, DequeueNone, At
  <2>2. (Called' <=> Called) /\ (At("app", "read") => pc'["app"] = "read")
    BY <2>1, NotCalled, GotoFacts DEF At, Threads
  <2>3. Taken' = Taken /\ Coming' = Coming
    BY <2>1, <2>2 DEF Taken, Coming
  <2>. QED BY <2>1, <2>2, <2>3, CountStays
<1>10. ASSUME NEW t \in Threads, Callback(t) \/ DequeueEnd(t)
       PROVE  CountInv'
  <2>1. /\ UNCHANGED <<urcs, asked, fifo, ring>> /\ pc[t] \in Dequeuing
        /\ \E l \in {"dequeueEnd", "urcs"} : Goto(t, l)
    BY <1>10 DEF Callback, DequeueEnd, At, Dequeuing
  <2>2. At("app", "read") => pc'["app"] = "read"
    BY <2>1, GotoFacts DEF At, Threads, Dequeuing
  <2>3. Taken' = Taken /\ Coming' = Coming
    BY <1>10, <2>1, DeliveryKeepsTaken DEF Coming
  <2>. QED BY <2>1, <2>2, <2>3, CountStays
<1>11. CASE AppReadsNothing \/ UNCHANGED vars
  <2>1. UNCHANGED <<urcs, asked, fifo, ring, urcQueue, delivered, pc>>
    BY <1>11 DEF AppReadsNothing, vars
  <2>2. Taken' = Taken /\ Coming' = Coming
    BY <2>1 DEF Taken, Coming, Called, At
  <2>. QED BY <2>1, <2>2, CountStays DEF At
<1>. QED BY <1>2, <1>3, <1>4, <1>5, <1>6, <1>7, <1>8, <1>9, <1>10, <1>11
         DEF Next, Work, App, Threads

-----------------------------------------------------------------------------
LEMMA ZephyrRxInit == Init => ZephyrRxInv
<1>. SUFFICES ASSUME Init PROVE ZephyrRxInv
  OBVIOUS
<1>1. /\ fifo = <<>> /\ ring = <<>> /\ urcQueue = <<>> /\ delivered = <<>>
      /\ urcs = 0 /\ asked = FALSE /\ irqOn = TRUE /\ work = "idle"
      /\ pc = [t \in Threads |-> "idle"] /\ cmdMutex = Nobody /\ dequeuer = Nobody
  BY DEF Init
<1>2. /\ fifo \in Seq(Lines) /\ ring \in Seq(Lines) /\ Len(fifo) = 0 /\ Len(ring) = 0
      /\ urcQueue \in Seq(1 .. MaxUrcs) /\ delivered \in Seq(1 .. MaxUrcs)
  BY <1>1, EmptySeq
<1>3. TypeOK
  <2>1. Len(fifo) <= FifoSize /\ Len(ring) <= RingSize /\ urcs \in 0 .. MaxUrcs
    BY <1>1, <1>2, ZephyrRxAssumption
  <2>2. pc \in [Threads -> Steps]
    BY <1>1 DEF Steps
  <2>. QED BY <1>1, <1>2, <2>1, <2>2 DEF TypeOK, Steps
<1>4. MutexInv
  BY <1>1 DEF MutexInv, At, Threads, Nobody
<1>5. DequeueInv
  BY <1>1 DEF DequeueInv, Dequeuing, Threads, Nobody
<1>6. Taken = <<>> /\ Coming = <<>>
  <2>1. ~Called
    BY <1>1 DEF Called, At
  <2>. QED BY <1>1, <1>2, <2>1, ConcatEmptySeq DEF Taken, Coming
<1>7. Numbered(<<>>, <<>>, 0, 1)
  <2>1. Len(<<>>) = 0
    BY <1>1, <1>2
  <2>. QED BY <2>1 DEF Numbered
<1>8. CountInv
  BY <1>1, <1>2, <1>6, <1>7 DEF CountInv
<1>. QED BY <1>3, <1>4, <1>5, <1>8 DEF ZephyrRxInv

LEMMA ZephyrRxStep == ZephyrRxInv /\ [Next]_vars => ZephyrRxInv'
BY TypeStep, MutexStep, DequeueStep, CountStep DEF ZephyrRxInv

\* Neither the FIFO nor the ring buffer of the Zephyr port overflows, whatever their
\* sizes, although the interrupt handler and two readers work on the ring.
THEOREM Types == Spec => []TypeOK
<1>1. ZephyrRxInv => TypeOK
  BY DEF ZephyrRxInv
<1>. QED BY ZephyrRxInit, ZephyrRxStep, <1>1, PTL DEF Spec

\* uartIsr(), the two readers and the two threads that deliver lose no URC, double none
\* and keep their order, for every number of URCs and every size of FIFO and ring.
THEOREM UrcsAreKept == Spec => []NoUrcIsLost
<1>1. ZephyrRxInv => NoUrcIsLost
  BY DEF ZephyrRxInv, CountInv, Numbered, NoUrcIsLost
<1>. QED BY ZephyrRxInit, ZephyrRxStep, <1>1, PTL DEF Spec
=============================================================================
