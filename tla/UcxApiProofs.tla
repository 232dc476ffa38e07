---------------------------- MODULE UcxApiProofs ----------------------------
(***************************************************************************)
(* Theorems about UcxApi, for any number of threads, any functions that    *)
(* are well formed, and whatever the module answers: every command is      *)
(* ended by the thread that has begun it, no result is overwritten while   *)
(* the caller may read it, and the functions that can tell what has become *)
(* of their command do.                                                    *)
(*                                                                         *)
(* The argument, in two invariants. Inv: what a thread has still to do,    *)
(* or, between two calls, how its last one has left the command, says      *)
(* whether it owns the client; and a thread with a result owns the client  *)
(* and reads no line, so that no one reads into the receive buffer.        *)
(* OutcomeInv: a thread is behind the first k calls of its function, for   *)
(* some k, and its return value says what these have brought, except       *)
(* between a line and the question after its form.                         *)
(***************************************************************************)
EXTENDS UcxApi, SequenceTheorems, TLAPS

AllWellFormed == \A f \in Functions : WellFormed(Api[f])

Bodies == {NotCalled, End} \cup {Api[f] : f \in Functions}
Open == {"open", "list"}

Types == /\ body \in [Threads -> Bodies]
         /\ todo \in [Threads -> Seq(Ops)]
         /\ between \in [Threads -> Open \cup {"no"}]
         /\ text \in [Threads -> {"none", "result", "overwritten"}]
         /\ owner \in Threads \cup {Nobody}

\* Thread t has called a function that has still to begin its command.
Called(t) == /\ body[t].ops \in Seq(Ops) /\ body[t].ops # <<>>
             /\ body[t].ops[1] = "begin"
             /\ RestIsSound(body[t], Tail(body[t].ops))
             /\ todo[t] = body[t].ops
             /\ owner # t

\* Thread t is in a function whose command has begun.
Begun(t) == /\ body[t].ops # <<>>
            /\ RestIsSound(body[t], todo[t])
            /\ owner = t <=> ~Ends(body[t]) \/ todo[t] # <<>>
            /\ Does(t, "begin") \/ between[t] # "no"

CallInv(t) ==
    /\ body[t] = NotCalled => /\ todo[t] = <<>>
                              /\ owner = t <=> between[t] # "no"
    /\ body[t] # NotCalled => /\ HeaderIsSound(body[t])
                              /\ Called(t) \/ Begun(t)

\* A result is in the receive buffer: the thread is done but for a choice.
TextInv(t) ==
    text[t] # "none" => /\ text[t] = "result" /\ owner = t
                        /\ \A i \in DOMAIN todo[t] : todo[t][i] = "syntax"

Inv == Types /\ \A t \in Threads : CallInv(t) /\ TextInv(t)

-----------------------------------------------------------------------------
(* Functions *)

LEMMA EndFacts ==
    /\ End.ops = <<"end">> /\ End # NotCalled
    /\ HeaderIsSound(End) /\ Ends(End) /\ RestIsSound(End, End.ops)
<1>0. ("none" \in TextFormats) = FALSE
  BY DEF TextFormats
<1>1. End.ops = <<"end">> /\ End.leaves = "no" /\ End.text = FALSE
  <2>1. End = [ops |-> <<"end">>, returns |-> "int", leaves |-> "no", text |-> FALSE,
               takesEcho |-> FALSE, selector |-> "none"]
    BY <1>0, Zenon DEF End, Function
  <2>. QED BY <2>1
<1>2. NotCalled.ops = <<>>
  BY DEF NotCalled
<1>3. End # NotCalled
  <2>1. <<"end">> # <<>>
    OBVIOUS
  <2>2. End.ops # NotCalled.ops
    BY <1>1, <1>2, <2>1
  <2>. QED BY <2>2, Zenon
<1>4. Ends(End)
  BY <1>1 DEF Ends
<1>5. RestIsSound(End, <<"end">>)
  BY <1>4 DEF RestIsSound, Ops
<1>. QED BY <1>1, <1>3, <1>4, <1>5 DEF HeaderIsSound

LEMMA NotCalledFacts ==
    NotCalled.ops = <<>> /\ \A b : b.ops # <<>> => b # NotCalled
BY DEF NotCalled

LEMMA TailEmpty ==
    ASSUME NEW s \in Seq(Ops), s # <<>>, Tail(s) = <<>>
    PROVE  Len(s) = 1
<1>1. Len(s) \in Nat /\ Len(Tail(s)) = Len(s) - 1
  OBVIOUS
<1>2. Len(Tail(s)) = Len(<<>>)
  BY Zenon
<1>3. Len(<<>>) = 0
  OBVIOUS
<1>. QED BY <1>1, <1>2, <1>3

\* What is left after one more step.
LEMMA RestFacts ==
    ASSUME NEW b, NEW rest, RestIsSound(b, rest), rest # <<>>
    PROVE  /\ RestIsSound(b, Tail(rest))
           /\ Head(rest) = rest[1] /\ Head(rest) # "begin"
           /\ Ends(b) => /\ Head(rest) \in {"params", "end"}
                         /\ Head(rest) = "end" <=> Tail(rest) = <<>>
           /\ ~Ends(b) => /\ Head(rest) # "end"
                          /\ Head(rest) \in {"params", "line"} =>
                               \A i \in DOMAIN Tail(rest) : Tail(rest)[i] = "syntax"
<1>1. /\ rest \in Seq(Ops) /\ Tail(rest) \in Seq(Ops)
      /\ Len(rest) \in Nat \ {0} /\ Len(Tail(rest)) = Len(rest) - 1
      /\ DOMAIN rest = 1 .. Len(rest) /\ DOMAIN Tail(rest) = 1 .. Len(Tail(rest))
      /\ Head(rest) = rest[1]
  BY DEF RestIsSound
<1>2. \A i \in DOMAIN Tail(rest) : i + 1 \in DOMAIN rest /\ Tail(rest)[i] = rest[i + 1]
  BY <1>1
<1>3. 1 \in DOMAIN rest /\ (Tail(rest) = <<>> <=> Len(rest) = 1)
  BY <1>1
<1>4. RestIsSound(b, Tail(rest))
  <2>1. \A i \in DOMAIN Tail(rest) : Tail(rest)[i] # "begin"
    BY <1>2 DEF RestIsSound
  <2>2. ASSUME Ends(b), NEW i \in DOMAIN Tail(rest)
        PROVE  /\ Tail(rest)[i] \in {"params", "end"}
               /\ Tail(rest)[i] = "end" <=> i = Len(Tail(rest))
    BY <1>1, <1>2, <2>2 DEF RestIsSound
  <2>3. ASSUME ~Ends(b), NEW i \in DOMAIN Tail(rest), NEW j \in DOMAIN Tail(rest)
        PROVE  /\ Tail(rest)[i] # "end"
               /\ i < j /\ Tail(rest)[i] \in {"params", "line"} => Tail(rest)[j] = "syntax"
    <3>1. i < j => i + 1 < j + 1
      BY <1>1
    <3>. QED BY <1>2, <2>3, <3>1 DEF RestIsSound
  <2>. QED BY <1>1, <2>1, <2>2, <2>3 DEF RestIsSound
<1>5. ASSUME Ends(b)
      PROVE  Head(rest) \in {"params", "end"} /\ (Head(rest) = "end" <=> Tail(rest) = <<>>)
  BY <1>1, <1>3, <1>5 DEF RestIsSound
<1>6. ASSUME ~Ends(b), Head(rest) \in {"params", "line"}, NEW i \in DOMAIN Tail(rest)
      PROVE  Tail(rest)[i] = "syntax"
  <2>1. 1 < i + 1
    BY <1>1
  <2>. QED BY <1>1, <1>2, <1>3, <1>6, <2>1 DEF RestIsSound
<1>. QED BY <1>1, <1>3, <1>4, <1>5, <1>6 DEF RestIsSound

LEMMA EmptyRest == ASSUME NEW b PROVE RestIsSound(b, <<>>)
BY DEF RestIsSound

-----------------------------------------------------------------------------
(* Threads *)

\* The step of a thread leaves the others where they are.
LEMMA OthersStay ==
    ASSUME NEW u \in Threads, CallInv(u), body'[u] = body[u], todo'[u] = todo[u],
           between'[u] = between[u], owner' = u <=> owner = u
    PROVE  CallInv(u)'
BY DEF CallInv, Called, Begun, Does

\* Only the owner may have a result.
LEMMA ResultIsOwned ==
    ASSUME Inv, NEW u \in Threads, owner # u
    PROVE  text[u] = "none"
BY DEF Inv, TextInv

\* A thread that reads a line has no result, and neither has another one.
LEMMA ReaderIsAlone ==
    ASSUME Inv, NEW t \in Threads, At(t, {"params", "line", "end"}), owner = t
    PROVE  \A u \in Threads : text[u] = "none"
<1>1. todo[t] \in Seq(Ops) /\ todo[t] # <<>> /\ Head(todo[t]) \in {"params", "line", "end"}
  BY DEF Inv, Types, At
<1>2. 1 \in DOMAIN todo[t] /\ todo[t][1] # "syntax"
  BY <1>1
<1>3. text[t] = "none"
  BY <1>2 DEF Inv, TextInv
<1>. QED BY <1>3, ResultIsOwned

\* In a function whose command has begun, and not at its end.
LEMMA AtFacts ==
    ASSUME Inv, NEW t \in Threads, At(t, {"params", "line", "syntax", "end"})
    PROVE  /\ body[t] # NotCalled /\ Begun(t) /\ owner = t
           /\ todo[t] # <<>> /\ todo[t] \in Seq(Ops)
<1>1. todo[t] \in Seq(Ops) /\ todo[t] # <<>> /\ Head(todo[t]) = todo[t][1]
      /\ Head(todo[t]) # "begin"
  BY DEF Inv, Types, At
<1>2. body[t] # NotCalled
  BY <1>1 DEF Inv, CallInv
<1>3. ~Called(t)
  BY <1>1 DEF Called
<1>4. Begun(t)
  BY <1>2, <1>3 DEF Inv, CallInv
<1>. QED BY <1>1, <1>2, <1>4 DEF Begun

-----------------------------------------------------------------------------
(* Steps *)

LEMMA EnterKeeps ==
    ASSUME AllWellFormed, Inv, NEW t \in Threads,
           CallEnd(t) \/ \E f \in Functions : Call(t, f) \/ CallGetNext(t, f)
    PROVE  Inv'
<1>1. PICK b \in Bodies :
        /\ Enter(t, b)
        /\ b # NotCalled /\ b.ops \in Seq(Ops) /\ b.ops # <<>> /\ HeaderIsSound(b)
        /\ \/ between[t] = "no" /\ b.ops[1] = "begin" /\ RestIsSound(b, Tail(b.ops))
           \/ between[t] # "no" /\ RestIsSound(b, b.ops)
  <2>1. CASE CallEnd(t)
    <3>1. End \in Bodies /\ Enter(t, End) /\ between[t] # "no"
      BY <2>1 DEF CallEnd, Bodies
    <3>2. <<"end">> \in Seq(Ops) /\ <<"end">> # <<>>
      BY DEF Ops
    <3>. QED BY <3>1, <3>2, EndFacts
  <2>2. CASE \E f \in Functions : Call(t, f)
    <3>1. PICK f \in Functions : Call(t, f)
      BY <2>2
    <3>2. Api[f] \in Bodies /\ WellFormed(Api[f])
      BY DEF Bodies, AllWellFormed
    <3>3. Enter(t, Api[f]) /\ between[t] = "no" /\ Head(Api[f].ops) = "begin"
      BY <3>1 DEF Call
    <3>4. Api[f].ops \in Seq(Ops) /\ Api[f].ops # <<>> /\ Api[f].ops[1] = "begin"
      BY <3>2, <3>3 DEF WellFormed
    <3>. QED BY <3>2, <3>3, <3>4, NotCalledFacts DEF WellFormed
  <2>3. CASE \E f \in Functions : CallGetNext(t, f)
    <3>1. PICK f \in Functions : CallGetNext(t, f)
      BY <2>3
    <3>2. Api[f] \in Bodies /\ WellFormed(Api[f])
      BY DEF Bodies, AllWellFormed
    <3>3. Enter(t, Api[f]) /\ between[t] # "no" /\ Head(Api[f].ops) = "params"
      BY <3>1 DEF CallGetNext
    <3>4. Api[f].ops \in Seq(Ops) /\ Api[f].ops # <<>> /\ Api[f].ops[1] = "params"
      BY <3>2, <3>3 DEF WellFormed
    <3>. QED BY <3>2, <3>3, <3>4, NotCalledFacts DEF WellFormed
  <2>. QED BY <2>1, <2>2, <2>3
<1>2. /\ body[t] = NotCalled /\ owner' = owner /\ between' = between
      /\ body' = [body EXCEPT ![t] = b] /\ todo' = [todo EXCEPT ![t] = b.ops]
      /\ text' = [text EXCEPT ![t] = "none"]
  BY <1>1 DEF Enter, clientVars
<1>3. Types'
  BY <1>1, <1>2 DEF Inv, Types
<1>4. body'[t] = b /\ todo'[t] = b.ops /\ text'[t] = "none"
      /\ \A u \in Threads \ {t} : body'[u] = body[u] /\ todo'[u] = todo[u] /\ text'[u] = text[u]
  BY <1>2 DEF Inv, Types
<1>5. CallInv(t)'
  <2>1. owner = t <=> between[t] # "no"
    BY <1>2 DEF Inv, CallInv
  <2>2. CASE between[t] = "no" /\ b.ops[1] = "begin" /\ RestIsSound(b, Tail(b.ops))
    <3>1. Called(t)'
      BY <1>1, <1>2, <1>4, <2>1, <2>2 DEF Called
    <3>. QED BY <1>1, <1>4, <3>1 DEF CallInv
  <2>3. CASE between[t] # "no" /\ RestIsSound(b, b.ops)
    <3>1. Begun(t)'
      BY <1>1, <1>2, <1>4, <2>1, <2>3 DEF Begun
    <3>. QED BY <1>1, <1>4, <3>1 DEF CallInv
  <2>. QED BY <1>1, <2>2, <2>3
<1>6. ASSUME NEW u \in Threads \ {t} PROVE CallInv(u)' /\ TextInv(u)'
  BY <1>2, <1>4, OthersStay DEF Inv, TextInv
<1>7. TextInv(t)'
  BY <1>4 DEF TextInv
<1>. QED BY <1>3, <1>5, <1>6, <1>7 DEF Inv

LEMMA BeginKeeps ==
    ASSUME Inv, NEW t \in Threads, Begin(t)
    PROVE  Inv'
<1>1. /\ At(t, {"begin"}) /\ owner = Nobody /\ owner' = t
      /\ todo' = [todo EXCEPT ![t] = Tail(todo[t])]
      /\ body' = body /\ between' = between /\ text' = text
  BY DEF Begin, Goto
<1>2. /\ todo[t] \in Seq(Ops) /\ todo[t] # <<>>
      /\ Head(todo[t]) = todo[t][1] /\ Tail(todo[t]) \in Seq(Ops)
      /\ 1 \in DOMAIN todo[t]
  BY <1>1 DEF Inv, Types, At
<1>3. Types'
  BY <1>1, <1>2 DEF Inv, Types
<1>4. todo'[t] = Tail(todo[t]) /\ \A u \in Threads \ {t} : todo'[u] = todo[u]
  BY <1>1 DEF Inv, Types
<1>5. \A u \in Threads : owner # u
  BY <1>1, ConstantsAssumption
<1>6. ~Begun(t)
  BY <1>1, <1>2 DEF Begun, RestIsSound, At
<1>7. body[t] # NotCalled /\ HeaderIsSound(body[t]) /\ Called(t)
  BY <1>2, <1>6 DEF Inv, CallInv
<1>8. Begun(t)'
  <2>1. Ends(body[t]) => Tail(todo[t]) # <<>>
    <3>1. SUFFICES ASSUME Ends(body[t]), Tail(todo[t]) = <<>> PROVE FALSE
      OBVIOUS
    <3>2. Len(todo[t]) = 1
      BY <1>2, <3>1, TailEmpty
    <3>3. todo[t][1] = "begin"
      BY <1>7 DEF Called
    <3>. QED BY <1>2, <1>7, <3>1, <3>2, <3>3 DEF Ends, Called
  <2>2. Does(t, "begin")'
    BY <1>1, <1>2, <1>7 DEF Called, Does
  <2>. QED BY <1>1, <1>4, <1>7, <2>1, <2>2 DEF Called, Begun
<1>9. CallInv(t)'
  BY <1>1, <1>7, <1>8 DEF CallInv
<1>10. ASSUME NEW u \in Threads \ {t} PROVE CallInv(u)'
  BY <1>1, <1>4, <1>5, OthersStay DEF Inv
<1>11. \A u \in Threads : TextInv(u)'
  BY <1>1, <1>5, ResultIsOwned DEF TextInv
<1>. QED BY <1>3, <1>9, <1>10, <1>11 DEF Inv

\* A step that moves none of what the invariant is about, and overwrites results
\* only when there are none.
LEMMA StayKeeps ==
    ASSUME Inv, UNCHANGED <<body, todo, between, owner>>,
           \/ UNCHANGED text
           \/ text' = Overwrite /\ \A u \in Threads : text[u] = "none"
    PROVE  Inv'
<1>1. \A u \in Threads : text'[u] = text[u]
  BY DEF Overwrite
<1>2. Types'
  BY DEF Inv, Types, Overwrite
<1>3. \A u \in Threads : CallInv(u)'
  BY OthersStay DEF Inv
<1>4. \A u \in Threads : TextInv(u)'
  BY <1>1 DEF Inv, TextInv
<1>. QED BY <1>2, <1>3, <1>4 DEF Inv

\* A step of a function whose command goes on.
LEMMA GoOnKeeps ==
    ASSUME Inv, NEW t \in Threads, At(t, {"params", "line", "syntax"}),
           UNCHANGED <<body, between, owner>>, NEW rest, Goto(t, rest),
           \/ rest = Tail(todo[t])
           \/ rest = <<>> /\ Head(todo[t]) \in {"line", "syntax"},
           \/ UNCHANGED text
           \/ /\ Head(todo[t]) \in {"params", "line"}
              /\ text' = [Overwrite EXCEPT ![t] = IF body[t].text THEN "result" ELSE "none"]
    PROVE  Inv'
<1>1. /\ body[t] # NotCalled /\ Begun(t) /\ owner = t /\ HeaderIsSound(body[t])
      /\ todo[t] # <<>> /\ todo[t] \in Seq(Ops) /\ RestIsSound(body[t], todo[t])
      /\ Head(todo[t]) \in {"params", "line", "syntax"}
  BY AtFacts DEF At, Begun, Inv, CallInv
<1>2. /\ Tail(todo[t]) \in Seq(Ops)
      /\ DOMAIN Tail(todo[t]) \subseteq DOMAIN todo[t] \ {Len(todo[t])}
      /\ \A i \in DOMAIN Tail(todo[t]) : i + 1 \in DOMAIN todo[t]
                                         /\ Tail(todo[t])[i] = todo[t][i + 1]
  BY <1>1
<1>3. RestIsSound(body[t], rest) /\ rest \in Seq(Ops)
  <2>1. CASE rest = Tail(todo[t])
    BY <1>1, <1>2, <2>1, RestFacts
  <2>2. CASE rest = <<>>
    <3>1. <<>> \in Seq(Ops)
      OBVIOUS
    <3>. QED BY <2>2, <3>1, EmptyRest
  <2>. QED BY <2>1, <2>2
<1>4. Ends(body[t]) => rest # <<>>
  BY <1>1, RestFacts
<1>5. todo' = [todo EXCEPT ![t] = rest]
  BY DEF Goto
<1>6. todo'[t] = rest /\ \A u \in Threads \ {t} : todo'[u] = todo[u]
  BY <1>5 DEF Inv, Types
<1>7. \A u \in Threads \ {t} : text'[u] = text[u]
  <2>1. \A u \in Threads \ {t} : text[u] = "none"
    BY <1>1, ResultIsOwned
  <2>. QED BY <2>1 DEF Overwrite
<1>8. Types'
  BY <1>3, <1>5 DEF Inv, Types, Overwrite
<1>9. CallInv(t)'
  <2>1. Begun(t)'
    BY <1>1, <1>3, <1>4, <1>6 DEF Begun, Does
  <2>. QED BY <1>1, <2>1 DEF CallInv
<1>10. ASSUME NEW u \in Threads \ {t} PROVE CallInv(u)' /\ TextInv(u)'
  BY <1>6, <1>7, OthersStay DEF Inv, TextInv
<1>11. TextInv(t)'
  <2>1. CASE UNCHANGED text
    <3>1. ASSUME text[t] # "none", NEW i \in DOMAIN rest PROVE rest[i] = "syntax"
      <4>1. CASE rest = Tail(todo[t])
        BY <1>2, <3>1, <4>1 DEF Inv, TextInv
      <4>2. CASE rest = <<>>
        BY <3>1, <4>2
      <4>. QED BY <4>1, <4>2
    <3>. QED BY <1>6, <2>1, <3>1 DEF Inv, TextInv
  <2>2. CASE /\ Head(todo[t]) \in {"params", "line"}
             /\ text' = [Overwrite EXCEPT ![t] = IF body[t].text THEN "result" ELSE "none"]
    <3>1. text'[t] = IF body[t].text THEN "result" ELSE "none"
      BY <2>2 DEF Overwrite
    <3>2. CASE Ends(body[t])
      BY <1>1, <3>1, <3>2 DEF HeaderIsSound, TextInv
    <3>3. CASE ~Ends(body[t])
      <4>1. \A i \in DOMAIN rest : rest[i] = "syntax"
        <5>1. CASE rest = Tail(todo[t])
          BY <1>1, <2>2, <3>3, <5>1, RestFacts
        <5>2. CASE rest = <<>>
          BY <5>2
        <5>. QED BY <5>1, <5>2
      <4>. QED BY <1>1, <1>6, <3>1, <4>1 DEF TextInv
    <3>. QED BY <3>2, <3>3
  <2>. QED BY <2>1, <2>2
<1>. QED BY <1>8, <1>9, <1>10, <1>11 DEF Inv

LEMMA CmdEndKeeps ==
    ASSUME Inv, NEW t \in Threads, CmdEnd(t)
    PROVE  Inv'
<1>1. /\ At(t, {"end"}) /\ owner' = Nobody
      /\ todo' = [todo EXCEPT ![t] = Tail(todo[t])]
      /\ UNCHANGED <<body, between, text>>
  BY DEF CmdEnd, Goto
<1>2. /\ body[t] # NotCalled /\ Begun(t) /\ owner = t /\ HeaderIsSound(body[t])
      /\ todo[t] # <<>> /\ todo[t] \in Seq(Ops) /\ RestIsSound(body[t], todo[t])
      /\ Head(todo[t]) = "end"
  <2>1. At(t, {"params", "line", "syntax", "end"})
    BY <1>1 DEF At
  <2>. QED BY <1>1, <2>1, AtFacts DEF At, Begun, Inv, CallInv
<1>3. Ends(body[t]) /\ Tail(todo[t]) = <<>> /\ RestIsSound(body[t], Tail(todo[t]))
  BY <1>2, RestFacts
<1>4. todo'[t] = <<>> /\ \A u \in Threads \ {t} : todo'[u] = todo[u]
  BY <1>1, <1>3 DEF Inv, Types
<1>5. Types'
  <2>1. <<>> \in Seq(Ops)
    OBVIOUS
  <2>. QED BY <1>1, <1>3, <2>1 DEF Inv, Types
<1>6. \A u \in Threads : text[u] = "none"
  <2>1. At(t, {"params", "line", "end"})
    BY <1>1 DEF At
  <2>. QED BY <1>2, <2>1, ReaderIsAlone
<1>7. owner' # t /\ \A u \in Threads \ {t} : owner' = u <=> owner = u
  BY <1>1, <1>2, ConstantsAssumption
<1>8. CallInv(t)'
  <2>1. Begun(t)'
    BY <1>1, <1>2, <1>3, <1>4, <1>7 DEF Begun, Does
  <2>. QED BY <1>1, <1>2, <2>1 DEF CallInv
<1>9. ASSUME NEW u \in Threads \ {t} PROVE CallInv(u)'
  BY <1>1, <1>4, <1>7, OthersStay DEF Inv
<1>10. \A u \in Threads : TextInv(u)'
  BY <1>1, <1>6 DEF TextInv
<1>. QED BY <1>5, <1>8, <1>9, <1>10 DEF Inv

LEMMA ReturnKeeps ==
    ASSUME Inv, NEW t \in Threads, Return(t)
    PROVE  Inv'
<1>1. /\ body[t] # NotCalled /\ todo[t] = <<>>
      /\ body' = [body EXCEPT ![t] = NotCalled]
      /\ between' = [between EXCEPT ![t] = LeftOpen(t)]
      /\ text' = [text EXCEPT ![t] = IF HandsOutText(t) THEN @ ELSE "none"]
      /\ UNCHANGED <<todo, owner>>
  BY DEF Return, clientVars
<1>2. HeaderIsSound(body[t]) /\ Begun(t)
  BY <1>1 DEF Inv, CallInv, Called
<1>3. /\ LeftOpen(t) \in Open \cup {"no"}
      /\ LeftOpen(t) # "no" <=> ~Ends(body[t])
  <2>1. CASE body[t].leaves = "same"
    <3>1. between[t] # "no"
      BY <1>2, <2>1 DEF HeaderIsSound, Begun, Does
    <3>2. between[t] \in Open \cup {"no"}
      BY DEF Inv, Types
    <3>. QED BY <1>2, <2>1, <3>1, <3>2 DEF LeftOpen, HeaderIsSound
  <2>2. CASE body[t].leaves # "same"
    BY <1>2, <2>2 DEF LeftOpen, Open, HeaderIsSound
  <2>. QED BY <2>1, <2>2
<1>4. Types'
  <2>1. NotCalled \in Bodies
    BY DEF Bodies
  <2>. QED BY <1>1, <1>3, <2>1 DEF Inv, Types
<1>5. /\ body'[t] = NotCalled /\ between'[t] = LeftOpen(t)
      /\ text'[t] \in {text[t], "none"}
      /\ \A u \in Threads \ {t} : /\ body'[u] = body[u] /\ between'[u] = between[u]
                                  /\ text'[u] = text[u]
  BY <1>1 DEF Inv, Types
<1>6. CallInv(t)'
  BY <1>1, <1>2, <1>3, <1>5 DEF CallInv, Begun
<1>7. ASSUME NEW u \in Threads \ {t} PROVE CallInv(u)'
  BY <1>1, <1>5, OthersStay DEF Inv
<1>8. \A u \in Threads : TextInv(u)'
  BY <1>1, <1>5 DEF Inv, TextInv
<1>. QED BY <1>4, <1>6, <1>7, <1>8 DEF Inv

LEMMA StepKeeps ==
    ASSUME Inv, NEW t \in Threads, Step(t)
    PROVE  Inv'
<1>1. CASE NoRsp(t)
  <2>1. /\ At(t, {"params", "line"}) /\ UNCHANGED <<body, between, text, owner>>
        /\ \/ Head(todo[t]) = "line" /\ Goto(t, <<>>)
           \/ Goto(t, Tail(todo[t]))
    BY <1>1 DEF NoRsp, MissRsp, ReturnFalse, clientVars
  <2>2. At(t, {"params", "line", "syntax"})
    BY <2>1 DEF At
  <2>. QED BY <2>1, <2>2, GoOnKeeps
<1>2. CASE Rsp(t)
  <2>1. /\ At(t, {"params", "line"}) /\ UNCHANGED <<body, between, owner>>
        /\ Goto(t, Tail(todo[t]))
        /\ text' = [Overwrite EXCEPT ![t] = IF body[t].text THEN "result" ELSE "none"]
    BY <1>2 DEF Rsp
  <2>2. At(t, {"params", "line", "syntax"}) /\ Head(todo[t]) \in {"params", "line"}
    BY <2>1 DEF At
  <2>. QED BY <2>1, <2>2, GoOnKeeps
<1>3. CASE Syntax(t)
  <2>1. /\ At(t, {"syntax"}) /\ UNCHANGED <<body, between, text, owner>>
        /\ Goto(t, <<>>) \/ Goto(t, Tail(todo[t]))
    BY <1>3 DEF Syntax, ReturnFalse, clientVars
  <2>2. At(t, {"params", "line", "syntax"}) /\ Head(todo[t]) \in {"line", "syntax"}
    BY <2>1 DEF At
  <2>. QED BY <2>1, <2>2, GoOnKeeps
<1>4. CASE SkipLine(t)
  <2>1. /\ At(t, {"params", "line", "end"}) /\ UNCHANGED <<body, todo, between, owner>>
        /\ text' = Overwrite
    BY <1>4 DEF SkipLine
  <2>2. owner = t
    <3>1. At(t, {"params", "line", "syntax", "end"})
      BY <2>1 DEF At
    <3>. QED BY <3>1, AtFacts
  <2>. QED BY <2>1, <2>2, ReaderIsAlone, StayKeeps
<1>5. CASE Status(t) \/ EndTimeout(t)
  BY <1>5, StayKeeps DEF Status, EndTimeout, threadVars
<1>. QED BY <1>1, <1>2, <1>3, <1>4, <1>5, CmdEndKeeps, ReturnKeeps DEF Step

LEMMA ReadUrcKeeps ==
    ASSUME Inv, ReadUrc
    PROVE  Inv'
<1>1. UNCHANGED <<body, todo, between, owner>> /\ text' = Overwrite
  BY DEF ReadUrc, clientVars
<1>2. \A u \in Threads : text[u] = "none"
  <2>1. CASE owner = Nobody
    BY <2>1, ConstantsAssumption, ResultIsOwned
  <2>2. CASE owner # Nobody
    <3>1. owner \in Threads /\ At(owner, {"params", "line", "end"})
      BY <2>2 DEF ReadUrc, ReadsUrcs, Inv, Types
    <3>. QED BY <3>1, ReaderIsAlone
  <2>. QED BY <2>1, <2>2
<1>. QED BY <1>1, <1>2, StayKeeps

LEMMA InitInv == Init => Inv
<1>. SUFFICES ASSUME Init PROVE Inv
  OBVIOUS
<1>1. Types
  <2>1. <<>> \in Seq(Ops)
    OBVIOUS
  <2>. QED BY <2>1 DEF Init, Types, Bodies
<1>2. ASSUME NEW t \in Threads PROVE CallInv(t) /\ TextInv(t)
  BY ConstantsAssumption DEF Init, CallInv, TextInv
<1>. QED BY <1>1, <1>2 DEF Inv

LEMMA NextInv == ASSUME AllWellFormed, Inv, [Next]_vars PROVE Inv'
<1>1. CASE UNCHANGED vars
  BY <1>1, StayKeeps DEF vars, threadVars, clientVars
<1>2. CASE Next
  BY <1>2, EnterKeeps, BeginKeeps, StepKeeps, ReadUrcKeeps DEF Next
<1>. QED BY <1>1, <1>2

-----------------------------------------------------------------------------
\* The invariant that the theorems rest on.
THEOREM Invariant == ASSUME AllWellFormed PROVE Spec => []Inv
<1>1. Inv /\ [Next]_vars => Inv'
  BY NextInv
<1>. QED BY InitInv, <1>1, PTL DEF Spec

\* A thread owns the client between two calls only after a function that leaves
\* the command to uCxEnd(): the functions of u_cx_*.c call uCxAtClientCmdEnd() as
\* their types promise.
THEOREM CommandsAreEnded == ASSUME AllWellFormed PROVE Spec => []EveryCommandIsEnded
<1>1. Inv => EveryCommandIsEnded
  BY DEF Inv, CallInv, EveryCommandIsEnded
<1>. QED BY Invariant, <1>1, PTL

\* A response is asked for and a command ended by the thread whose command is
\* executing, so that the assertion of cmdEnd() on executingCmd holds.
THEOREM OwnersEnd == ASSUME AllWellFormed PROVE Spec => []OnlyTheOwnerEnds
<1>1. Inv => OnlyTheOwnerEnds
  BY AtFacts DEF OnlyTheOwnerEnds
<1>. QED BY Invariant, <1>1, PTL

\* What a function has given to its caller stays in the receive buffer until the
\* caller calls the next one, whatever other threads and URCs do.
THEOREM ResultsStay == ASSUME AllWellFormed PROVE Spec => []NoDanglingResult
<1>1. Inv => NoDanglingResult
  BY DEF Inv, TextInv, NoDanglingResult
<1>. QED BY Invariant, <1>1, PTL

-----------------------------------------------------------------------------
(* How far a function is. *)

\* What a function has still to do after its first k calls.
Left(ops, k) == SubSeq(ops, k + 1, Len(ops))

LEMMA CountFacts ==
    ASSUME NEW n \in Nat, NEW k \in 0 .. n
    PROVE  k \in Nat /\ k <= n
OBVIOUS

LEMMA LeftFacts ==
    ASSUME NEW ops \in Seq(Ops), NEW k \in 0 .. Len(ops)
    PROVE  /\ Left(ops, 0) = ops /\ Left(ops, Len(ops)) = <<>>
           /\ Left(ops, k) = <<>> => k = Len(ops)
           /\ Left(ops, k) # <<>> => /\ k + 1 \in 1 .. Len(ops)
                                     /\ Head(Left(ops, k)) = ops[k + 1]
                                     /\ Tail(Left(ops, k)) = Left(ops, k + 1)
<1>1. Len(ops) \in Nat /\ DOMAIN ops = 1 .. Len(ops)
  BY LenProperties
<1>2. Left(ops, 0) = ops
  BY SubSeqFull DEF Left
<1>3. Left(ops, Len(ops)) = <<>>
  <2>1. Len(ops) + 1 \in Int /\ Len(ops) \in Int /\ Len(ops) < Len(ops) + 1
    BY <1>1
  <2>. QED BY <2>1, SubSeqEmpty DEF Left
<1>4. CASE k = Len(ops)
  BY <1>2, <1>3, <1>4
<1>5. CASE k # Len(ops)
  <2>. DEFINE n == Len(ops)
  <2>0. n \in Nat /\ k \in Nat /\ k <= n /\ k # n
    BY <1>1, <1>5, CountFacts
  <2>. HIDE DEF n
  <2>1. k + 1 \in 1 .. n /\ n \in k + 1 .. n /\ k + 1 \in Int /\ n \in Int /\ k + 1 <= n
        /\ n - (k + 1) + 1 # 0
    BY <2>0
  <2>2. /\ Head(SubSeq(ops, k + 1, n)) = ops[k + 1]
        /\ Tail(SubSeq(ops, k + 1, n)) = SubSeq(ops, k + 1 + 1, n)
    BY <2>1, HeadTailOfSubSeq DEF n
  <2>3. Left(ops, k) # <<>>
    <3>1. \A i \in k + 1 .. Len(ops) : ops[i] \in Ops
      BY <1>1, ElementOfSeq
    <3>2. Len(Left(ops, k)) = n - (k + 1) + 1
      BY <3>1, <2>1, SubSeqProperties DEF Left, n
    <3>3. Len(Left(ops, k)) # 0
      BY <2>1, <3>2
    <3>. QED BY <3>3, EmptySeq
  <2>. QED BY <1>2, <1>3, <1>5, <2>1, <2>2, <2>3 DEF Left, n
<1>. QED BY <1>4, <1>5

-----------------------------------------------------------------------------
(* What a function knows of the outcome of its command. *)

Telling(b) == WellFormed(b) /\ TellsOutcome(b)

\* Function b has asked for a response with one of its first k calls.
Asked(b, k) == \E i \in 1 .. k : b.ops[i] \in {"params", "line"}

\* Behind a line that was read the form is still open; otherwise the return value r
\* says what has come so far.
Outcome(b, k, r, g) ==
    IF k \in DOMAIN b.ops /\ b.ops[k] = "line"
      THEN g.rsp \in {"good", "bad"}
      ELSE r = "ok" <=> /\ Asked(b, k) => g.rsp = "good"
                        /\ k = Len(b.ops) /\ Ends(b) => g.status = "ok"

LEMMA TellingFacts ==
    ASSUME NEW b, Telling(b)
    PROVE  /\ b.ops \in Seq(Ops) /\ b.ops # <<>> /\ Len(b.ops) \in Nat \ {0}
           /\ DOMAIN b.ops = 1 .. Len(b.ops)
           /\ \A i \in 1 .. Len(b.ops) :
                /\ b.ops[i] = "end" => i = Len(b.ops)
                /\ b.ops[i] = "line" => /\ i + 1 \in 1 .. Len(b.ops) /\ b.ops[i + 1] = "syntax"
                                        /\ b.returns = "bool"
                /\ b.ops[i] = "syntax" => /\ i - 1 \in 1 .. Len(b.ops)
                                          /\ b.ops[i - 1] = "line" /\ b.returns = "bool"
                                          /\ SelectorCount(b.selector) = 1
<1>1. b.ops \in Seq(Ops) /\ b.ops # <<>>
  BY DEF Telling, WellFormed
<1>2. Len(b.ops) \in Nat \ {0} /\ DOMAIN b.ops = 1 .. Len(b.ops)
  BY <1>1, LenProperties, EmptySeq
<1>3. ASSUME NEW i \in 1 .. Len(b.ops), b.ops[i] = "end"
      PROVE  i = Len(b.ops)
  <2>1. Ends(b)
    BY <1>2, <1>3 DEF Ends
  <2>2. b.ops[1] = "begin" /\ RestIsSound(b, Tail(b.ops))
    BY <2>1 DEF Telling, WellFormed
  <2>3. /\ Tail(b.ops) \in Seq(Ops) /\ Len(Tail(b.ops)) = Len(b.ops) - 1
        /\ \A j \in 1 .. Len(Tail(b.ops)) : Tail(b.ops)[j] = b.ops[j + 1]
    BY <1>1, HeadTailProperties
  <2>4. DOMAIN Tail(b.ops) = 1 .. Len(b.ops) - 1
    BY <2>3, LenProperties
  <2>5. i # 1
    BY <1>3, <2>2
  <2>6. i - 1 \in 1 .. Len(b.ops) - 1 /\ i - 1 + 1 = i
    BY <1>2, <2>5
  <2>7. Tail(b.ops)[i - 1] = "end"
    BY <1>3, <2>3, <2>6
  <2>8. i - 1 = Len(Tail(b.ops))
    BY <2>1, <2>2, <2>4, <2>6, <2>7 DEF RestIsSound
  <2>. QED BY <1>2, <2>3, <2>8
<1>4. \A i \in 1 .. Len(b.ops) :
        /\ b.ops[i] = "line" => /\ b.returns = "bool"
                                /\ i + 1 \in 1 .. Len(b.ops) /\ b.ops[i + 1] = "syntax"
        /\ b.ops[i] = "syntax" => /\ i - 1 \in 1 .. Len(b.ops) /\ b.ops[i - 1] = "line"
                                  /\ SelectorCount(b.selector) = 1
  BY <1>2 DEF Telling, TellsOutcome
<1>. QED BY <1>1, <1>2, <1>3, <1>4

\* What the next call adds to those that have asked.
LEMMA AskedFacts ==
    ASSUME NEW b, NEW k \in Nat
    PROVE  /\ ~Asked(b, 0)
           /\ b.ops[k + 1] \in {"params", "line"} => Asked(b, k + 1)
           /\ b.ops[k + 1] \notin {"params", "line"} => (Asked(b, k + 1) <=> Asked(b, k))
<1>1. \A i \in 1 .. k + 1 : i \in 1 .. k \/ i = k + 1
  OBVIOUS
<1>2. 1 .. k \subseteq 1 .. k + 1 /\ k + 1 \in 1 .. k + 1
  OBVIOUS
<1>. QED BY <1>1, <1>2 DEF Asked

LEMMA OutcomeAtEntry ==
    ASSUME NEW b, Telling(b), NEW g
    PROVE  Outcome(b, 0, "ok", g)
<1>1. 0 \notin DOMAIN b.ops /\ 0 # Len(b.ops) /\ ~Asked(b, 0)
  BY TellingFacts, AskedFacts
<1>. QED BY <1>1 DEF Outcome

\* A call that is not the end of the command, and after which it is known, or not
\* yet, what has come.
LEMMA OutcomeGoesOn ==
    ASSUME NEW b, Telling(b), NEW k \in 0 .. Len(b.ops), k + 1 \in 1 .. Len(b.ops),
           NEW r, NEW g, b.ops[k + 1] # "end",
           IF b.ops[k + 1] = "line" THEN g.rsp \in {"good", "bad"}
                                    ELSE r = "ok" <=> (Asked(b, k + 1) => g.rsp = "good")
    PROVE  Outcome(b, k + 1, r, g)
<1>1. DOMAIN b.ops = 1 .. Len(b.ops)
  BY TellingFacts
<1>2. ~(k + 1 = Len(b.ops) /\ Ends(b))
  <2>1. SUFFICES ASSUME k + 1 = Len(b.ops), Ends(b) PROVE FALSE
    OBVIOUS
  <2>2. PICK i \in 1 .. Len(b.ops) : b.ops[i] = "end"
    BY <1>1, <2>1 DEF Ends
  <2>. QED BY <2>1, <2>2, TellingFacts
<1>. QED BY <1>1, <1>2 DEF Outcome

\* Failure: the function returns early, and its response is not good.
LEMMA OutcomeOfEarlyReturn ==
    ASSUME NEW b, Telling(b), NEW k \in 0 .. Len(b.ops), k + 1 \in 1 .. Len(b.ops),
           b.ops[k + 1] \in {"line", "syntax"}, NEW g, g.rsp # "good"
    PROVE  Outcome(b, Len(b.ops), "fail", g)
<1>. DEFINE n == Len(b.ops)
<1>1. n \in Nat \ {0} /\ DOMAIN b.ops = 1 .. n
  BY TellingFacts
<1>2. b.ops[n] # "line"
  <2>1. n \in 1 .. n /\ n + 1 \notin 1 .. n
    BY <1>1
  <2>. QED BY <2>1, TellingFacts
<1>3. Asked(b, n)
  <2>1. CASE b.ops[k + 1] = "line"
    BY <2>1 DEF Asked
  <2>2. CASE b.ops[k + 1] = "syntax"
    <3>1. k + 1 - 1 \in 1 .. n /\ b.ops[k + 1 - 1] = "line"
      BY <2>2, TellingFacts
    <3>. QED BY <3>1 DEF Asked
  <2>. QED BY <2>1, <2>2
<1>. QED BY <1>2, <1>3 DEF Outcome

\* The end of the command, with its status s.
LEMMA OutcomeAtEnd ==
    ASSUME NEW b, Telling(b), NEW k \in 0 .. Len(b.ops), k + 1 \in 1 .. Len(b.ops),
           b.ops[k + 1] = "end", NEW r, NEW r2, NEW g, NEW s, Outcome(b, k, r, g),
           r2 = "ok" <=> r = "ok" /\ s = "ok", g.status = "ok" <=> s = "ok"
    PROVE  Outcome(b, k + 1, r2, g)
<1>1. DOMAIN b.ops = 1 .. Len(b.ops) /\ Len(b.ops) \in Nat \ {0}
  BY TellingFacts
<1>2. k + 1 = Len(b.ops)
  BY TellingFacts
<1>3. Ends(b)
  BY <1>1 DEF Ends
<1>4. ~(k \in DOMAIN b.ops /\ b.ops[k] = "line")
  BY <1>1, TellingFacts
<1>5. k # Len(b.ops)
  BY <1>1, <1>2
<1>6. r = "ok" <=> (Asked(b, k) => g.rsp = "good")
  BY <1>4, <1>5 DEF Outcome
<1>7. Asked(b, k + 1) <=> Asked(b, k)
  BY AskedFacts
<1>8. r2 = "ok" <=> (Asked(b, k + 1) => g.rsp = "good") /\ g.status = "ok"
  BY <1>6, <1>7
<1>. QED BY <1>2, <1>3, <1>8 DEF Outcome

LEMMA FormIsOpen ==
    ASSUME NEW b, Telling(b), NEW k \in 0 .. Len(b.ops), k + 1 \in 1 .. Len(b.ops),
           b.ops[k + 1] = "syntax", NEW r, NEW g, Outcome(b, k, r, g)
    PROVE  /\ g.rsp \in {"good", "bad"} /\ Asked(b, k + 1)
           /\ SelectorCount(b.selector) = 1 /\ b.returns = "bool"
<1>1. /\ k + 1 - 1 \in 1 .. Len(b.ops) /\ b.ops[k + 1 - 1] = "line"
      /\ SelectorCount(b.selector) = 1 /\ b.returns = "bool"
  BY TellingFacts
<1>2. k \in DOMAIN b.ops /\ b.ops[k] = "line" /\ k \in 1 .. k + 1
  BY <1>1, TellingFacts
<1>. QED BY <1>1, <1>2 DEF Outcome, Asked

-----------------------------------------------------------------------------
(* What is known of a thread's command. *)

Answers == {"echo", "good", "bad"}
Statuses == {"none", "ok", "error"}

Data == /\ ret \in [Threads -> {"ok", "fail"}]
        /\ status \in Statuses \cup {"timeout"}
        /\ got \in [Threads -> [rsp : Answers \cup {"none"}, status : Statuses]]
        /\ reply \in Seq(Answers \cup {"ok", "error"})
        /\ Len(reply) <= MaxEntries + 2

\* Thread t has made the first k calls of its function.
PlaceInv(t) ==
    \E k \in 0 .. Len(body[t].ops) :
        /\ todo[t] = Left(body[t].ops, k)
        /\ Telling(body[t]) => Outcome(body[t], k, ret[t], got[t])

StatusInv(t) == /\ owner = t => (got[t].status = "ok" <=> status = "ok")
                /\ At(t, {"begin"}) => got[t] = NothingGot

OutcomeInv == Data /\ \A t \in Threads : PlaceInv(t) /\ StatusInv(t)

LEMMA OpsFacts ==
    ASSUME AllWellFormed, Inv, NEW t \in Threads
    PROVE  body[t].ops \in Seq(Ops)
<1>1. <<>> \in Seq(Ops) /\ <<"end">> \in Seq(Ops)
  BY DEF Ops
<1>2. \A b \in Bodies : b.ops \in Seq(Ops)
  BY <1>1, EndFacts, NotCalledFacts DEF Bodies, AllWellFormed, WellFormed
<1>. QED BY <1>2 DEF Inv, Types

\* The call that a thread is about to make.
LEMMA NextCall ==
    ASSUME AllWellFormed, Inv, OutcomeInv, NEW t \in Threads, todo[t] # <<>>
    PROVE  \E k \in 0 .. Len(body[t].ops) :
             /\ k + 1 \in 1 .. Len(body[t].ops)
             /\ Head(todo[t]) = body[t].ops[k + 1]
             /\ Tail(todo[t]) = Left(body[t].ops, k + 1)
             /\ Telling(body[t]) => Outcome(body[t], k, ret[t], got[t])
<1>1. PICK k \in 0 .. Len(body[t].ops) :
        /\ todo[t] = Left(body[t].ops, k)
        /\ Telling(body[t]) => Outcome(body[t], k, ret[t], got[t])
  BY DEF OutcomeInv, PlaceInv
<1>2. /\ k + 1 \in 1 .. Len(body[t].ops)
      /\ Head(Left(body[t].ops, k)) = body[t].ops[k + 1]
      /\ Tail(Left(body[t].ops, k)) = Left(body[t].ops, k + 1)
  BY <1>1, OpsFacts, LeftFacts
<1>. QED BY <1>1, <1>2

\* The step of a thread leaves the others as they are.
LEMMA OthersKnow ==
    ASSUME OutcomeInv, NEW u \in Threads, body'[u] = body[u], todo'[u] = todo[u],
           ret'[u] = ret[u], got'[u] = got[u],
           owner' = u => owner = u /\ status' = status
    PROVE  PlaceInv(u)' /\ StatusInv(u)'
<1>1. PlaceInv(u)'
  BY DEF OutcomeInv, PlaceInv
<1>2. StatusInv(u)'
  BY DEF OutcomeInv, StatusInv, At
<1>. QED BY <1>1, <1>2

\* After its first call a function begins no command.
LEMMA NoMoreBegin ==
    ASSUME Inv, NEW t \in Threads, At(t, {"params", "line", "syntax", "end"})
    PROVE  Tail(todo[t]) # <<>> => Head(Tail(todo[t])) # "begin"
<1>1. RestIsSound(body[t], todo[t]) /\ todo[t] # <<>>
  BY AtFacts DEF Begun
<1>2. RestIsSound(body[t], Tail(todo[t]))
  BY <1>1, RestFacts
<1>. QED BY <1>2, RestFacts

\* A function whose command has begun makes a call, and goes on or returns.
LEMMA MoveOn ==
    ASSUME AllWellFormed, Inv, OutcomeInv, NEW t \in Threads, Data',
           At(t, {"params", "line", "syntax", "end"}),
           UNCHANGED body, NEW rest, Goto(t, rest), rest \in {Tail(todo[t]), <<>>},
           \A u \in Threads \ {t} : ret'[u] = ret[u] /\ got'[u] = got[u] /\ owner' # u,
           owner' = t => status' = status /\ got'[t].status = got[t].status,
           \A k \in 0 .. Len(body[t].ops) :
               /\ k + 1 \in 1 .. Len(body[t].ops)
               /\ Head(todo[t]) = body[t].ops[k + 1]
               /\ Telling(body[t])
               /\ Outcome(body[t], k, ret[t], got[t])
               => \/ rest = Tail(todo[t]) /\ Outcome(body[t], k + 1, ret'[t], got'[t])
                  \/ rest = <<>> /\ Outcome(body[t], Len(body[t].ops), ret'[t], got'[t])
    PROVE  OutcomeInv'
<1>. DEFINE b == body[t]
<1>1. owner = t /\ todo[t] # <<>>
  BY AtFacts
<1>2. PICK k \in 0 .. Len(b.ops) :
        /\ k + 1 \in 1 .. Len(b.ops)
        /\ Head(todo[t]) = b.ops[k + 1]
        /\ Tail(todo[t]) = Left(b.ops, k + 1)
        /\ Telling(b) => Outcome(b, k, ret[t], got[t])
  BY <1>1, NextCall
<1>3. todo'[t] = rest /\ body'[t] = b /\ \A u \in Threads \ {t} : todo'[u] = todo[u]
  BY DEF Goto, Inv, Types
<1>4. k + 1 \in 0 .. Len(b.ops) /\ Len(b.ops) \in 0 .. Len(b.ops)
      /\ Left(b.ops, Len(b.ops)) = <<>>
  <2>1. b.ops \in Seq(Ops)
    BY OpsFacts
  <2>2. Len(b.ops) \in Nat
    BY <2>1, LenProperties
  <2>3. Len(b.ops) \in 0 .. Len(b.ops)
    BY <2>2
  <2>4. k + 1 \in 0 .. Len(b.ops)
    BY <1>2, <2>2
  <2>. QED BY <2>1, <2>3, <2>4, LeftFacts
<1>5. PlaceInv(t)'
  <2>1. CASE Telling(b)
    BY <1>2, <1>3, <1>4, <2>1 DEF PlaceInv
  <2>2. CASE ~Telling(b)
    BY <1>2, <1>3, <1>4, <2>2 DEF PlaceInv
  <2>. QED BY <2>1, <2>2
<1>6. StatusInv(t)'
  <2>1. ~At(t, {"begin"})'
    BY <1>3, NoMoreBegin DEF At
  <2>2. owner' = t => (got'[t].status = "ok" <=> status' = "ok")
    BY <1>1 DEF OutcomeInv, StatusInv
  <2>. QED BY <2>1, <2>2 DEF StatusInv
<1>7. ASSUME NEW u \in Threads \ {t} PROVE PlaceInv(u)' /\ StatusInv(u)'
  BY <1>3, OthersKnow
<1>. QED BY <1>5, <1>6, <1>7 DEF OutcomeInv

-----------------------------------------------------------------------------
(* Steps *)

Sendable == Answers \cup {"ok", "error"}

LEMMA OneLine == ASSUME NEW S, NEW x \in S PROVE <<x>> \in Seq(S) /\ Len(<<x>>) = 1
OBVIOUS

LEMMA SumFacts ==
    ASSUME NEW m \in Nat, NEW x \in 0 .. 1, NEW y \in 0 .. m, NEW z \in 0 .. 1
    PROVE  x + y + z <= m + 2
OBVIOUS

LEMMA RepliesFacts ==
    ASSUME NEW b, NEW r \in Replies(b)
    PROVE  r \in Seq(Sendable) /\ Len(r) <= MaxEntries + 2
<1>. DEFINE e == IF Echo THEN <<"echo">> ELSE <<>>
<1>1. PICK rsp \in Responses(b), st \in {<<>>, <<"ok">>, <<"error">>} : r = e \o rsp \o st
  BY DEF Replies
<1>. DEFINE er == e \o rsp
<1>0. /\ \A x \in Sendable : <<x>> \in Seq(Sendable) /\ Len(<<x>>) = 1
      /\ <<>> \in Seq(Sendable) /\ Len(<<>>) = 0
      /\ {"echo", "ok", "error"} \subseteq Sendable
  BY OneLine DEF Sendable, Answers
<1>2. e \in Seq(Sendable) /\ Len(e) \in 0 .. 1
  BY <1>0
<1>3. st \in Seq(Sendable) /\ Len(st) \in 0 .. 1
  <2>1. \A s \in {<<>>, <<"ok">>, <<"error">>} : s \in Seq(Sendable) /\ Len(s) \in 0 .. 1
    <3>1. 0 \in 0 .. 1 /\ 1 \in 0 .. 1
      OBVIOUS
    <3>. QED BY <1>0, <3>1, Zenon
  <2>. QED BY <1>1, <2>1, Zenon
<1>4. Lines \subseteq Sendable
  BY ConstantsAssumption DEF Lines, Sendable, Answers
<1>5. rsp \in Seq(Sendable) /\ Len(rsp) \in 0 .. MaxEntries
  <2>1. <<>> \in Seq(Sendable) /\ Len(<<>>) = 0
    OBVIOUS
  <2>2. 0 \in 0 .. MaxEntries /\ 1 \in 0 .. MaxEntries
    BY ConstantsAssumption
  <2>3. ASSUME rsp \in {<<line>> : line \in Lines}
        PROVE  rsp \in Seq(Sendable) /\ Len(rsp) = 1
    BY <1>0, <1>4, <2>3
  <2>4. ASSUME rsp \in SeqOf(Lines, MaxEntries)
        PROVE  rsp \in Seq(Sendable) /\ Len(rsp) \in 0 .. MaxEntries
    <3>1. PICK n \in 0 .. MaxEntries : rsp \in [1 .. n -> Lines]
      BY <2>4 DEF SeqOf
    <3>2. n \in Nat /\ rsp \in [1 .. n -> Sendable]
      BY <1>4, <3>1, ConstantsAssumption
    <3>. QED BY <3>1, <3>2
  <2>5. \/ rsp = <<>>
        \/ rsp \in {<<line>> : line \in Lines}
        \/ rsp \in SeqOf(Lines, MaxEntries)
    BY <1>1 DEF Responses
  <2>. QED BY <2>1, <2>2, <2>3, <2>4, <2>5
<1>6. er \in Seq(Sendable) /\ Len(er) = Len(e) + Len(rsp)
  BY <1>2, <1>5, ConcatProperties
<1>7. r = er \o st
  BY <1>1
<1>. HIDE DEF er, e
<1>8. r \in Seq(Sendable) /\ Len(r) = Len(er) + Len(st)
  BY <1>3, <1>6, <1>7, ConcatProperties
<1>9. Len(e) + Len(rsp) + Len(st) <= MaxEntries + 2
  BY <1>2, <1>3, <1>5, SumFacts, ConstantsAssumption
<1>. QED BY <1>6, <1>8, <1>9, Zenon

LEMMA EnterKnows ==
    ASSUME AllWellFormed, Inv, OutcomeInv, NEW t \in Threads,
           CallEnd(t) \/ \E f \in Functions : Call(t, f) \/ CallGetNext(t, f)
    PROVE  OutcomeInv'
<1>1. PICK b \in Bodies :
        /\ Enter(t, b)
        /\ b.ops \in Seq(Ops)
        /\ \/ Head(b.ops) # "begin" /\ got' = got
           \/ between[t] = "no" /\ got' = [got EXCEPT ![t] = NothingGot]
  <2>1. CASE CallEnd(t)
    <3>1. End \in Bodies /\ Enter(t, End) /\ got' = got
      BY <2>1 DEF CallEnd, Bodies
    <3>2. <<"end">> \in Seq(Ops) /\ Head(<<"end">>) # "begin"
      BY DEF Ops
    <3>. QED BY <3>1, <3>2, EndFacts
  <2>2. CASE \E f \in Functions : Call(t, f)
    BY <2>2 DEF Call, AllWellFormed, WellFormed, Bodies
  <2>3. CASE \E f \in Functions : CallGetNext(t, f)
    BY <2>3 DEF CallGetNext, AllWellFormed, WellFormed, Bodies
  <2>. QED BY <2>1, <2>2, <2>3
<1>2. /\ body[t] = NotCalled /\ UNCHANGED <<owner, status, reply, between>>
      /\ body' = [body EXCEPT ![t] = b] /\ todo' = [todo EXCEPT ![t] = b.ops]
      /\ ret' = [ret EXCEPT ![t] = "ok"]
  BY <1>1 DEF Enter, clientVars
<1>3. /\ body'[t] = b /\ todo'[t] = b.ops /\ ret'[t] = "ok"
      /\ \A u \in Threads \ {t} : /\ body'[u] = body[u] /\ todo'[u] = todo[u]
                                  /\ ret'[u] = ret[u] /\ got'[u] = got[u]
  BY <1>1, <1>2 DEF Inv, Types, OutcomeInv, Data
<1>4. Data'
  BY <1>1, <1>2 DEF OutcomeInv, Data, NothingGot, Answers, Statuses
<1>5. PlaceInv(t)'
  <2>1. Left(b.ops, 0) = b.ops /\ 0 \in 0 .. Len(b.ops)
    <3>1. Len(b.ops) \in Nat
      BY <1>1, LenProperties
    <3>2. 0 \in 0 .. Len(b.ops)
      BY <3>1
    <3>. QED BY <1>1, <3>2, LeftFacts
  <2>2. Telling(b) => Outcome(b, 0, "ok", got'[t])
    BY OutcomeAtEntry
  <2>. QED BY <1>3, <2>1, <2>2 DEF PlaceInv
<1>6. StatusInv(t)'
  <2>1. CASE Head(b.ops) # "begin" /\ got' = got
    BY <1>2, <1>3, <2>1 DEF OutcomeInv, StatusInv, At
  <2>2. CASE between[t] = "no" /\ got' = [got EXCEPT ![t] = NothingGot]
    <3>1. owner # t
      BY <1>2, <2>2 DEF Inv, CallInv
    <3>2. got'[t] = NothingGot
      BY <2>2 DEF OutcomeInv, Data
    <3>. QED BY <1>2, <3>1, <3>2 DEF StatusInv
  <2>. QED BY <1>1, <2>1, <2>2
<1>7. ASSUME NEW u \in Threads \ {t} PROVE PlaceInv(u)' /\ StatusInv(u)'
  BY <1>2, <1>3, OthersKnow
<1>. QED BY <1>4, <1>5, <1>6, <1>7 DEF OutcomeInv

LEMMA BeginKnows ==
    ASSUME AllWellFormed, Inv, OutcomeInv, NEW t \in Threads, Begin(t)
    PROVE  OutcomeInv'
<1>. DEFINE b == body[t]
<1>1. /\ At(t, {"begin"}) /\ owner' = t /\ status' = "none" /\ reply' \in Replies(b)
      /\ todo' = [todo EXCEPT ![t] = Tail(todo[t])] /\ UNCHANGED <<body, ret, got>>
  BY DEF Begin, Goto
<1>2. /\ todo'[t] = Tail(todo[t]) /\ \A u \in Threads \ {t} : todo'[u] = todo[u]
  BY <1>1 DEF Inv, Types
<1>3. Data'
  BY <1>1, RepliesFacts DEF OutcomeInv, Data, Sendable, Statuses
<1>4. todo[t] # <<>> /\ Head(todo[t]) = "begin" /\ got[t] = NothingGot
  BY <1>1 DEF At, OutcomeInv, StatusInv
<1>5. PICK k \in 0 .. Len(b.ops) :
        /\ k + 1 \in 1 .. Len(b.ops)
        /\ b.ops[k + 1] = "begin"
        /\ Tail(todo[t]) = Left(b.ops, k + 1)
        /\ Telling(b) => Outcome(b, k, ret[t], got[t])
  BY <1>4, NextCall
<1>6. Telling(b) => Outcome(b, k + 1, ret[t], got[t])
  <2>1. SUFFICES ASSUME Telling(b) PROVE Outcome(b, k + 1, ret[t], got[t])
    OBVIOUS
  <2>2. ~(k \in DOMAIN b.ops /\ b.ops[k] = "line")
    BY <1>5, <2>1, TellingFacts
  <2>3. k # Len(b.ops)
    BY <1>5
  <2>4. ret[t] = "ok" <=> (Asked(b, k) => got[t].rsp = "good")
    BY <1>5, <2>1, <2>2, <2>3 DEF Outcome
  <2>5. Asked(b, k + 1) <=> Asked(b, k)
    <3>1. k \in Nat
      OBVIOUS
    <3>. QED BY <1>5, <3>1, AskedFacts
  <2>. QED BY <1>5, <2>1, <2>4, <2>5, OutcomeGoesOn
<1>7. PlaceInv(t)'
  <2>1. k + 1 \in 0 .. Len(b.ops)
    BY <1>5
  <2>. QED BY <1>1, <1>2, <1>5, <1>6, <2>1 DEF PlaceInv
<1>8. StatusInv(t)'
  <2>1. RestIsSound(b, Tail(todo[t]))
    <3>1. ~Begun(t)
      BY <1>4, RestFacts DEF Begun
    <3>. QED BY <1>4, <3>1, NotCalledFacts DEF Inv, CallInv, Called
  <2>2. ~At(t, {"begin"})'
    BY <1>2, <2>1, RestFacts DEF At
  <2>. QED BY <1>1, <1>4, <2>2 DEF StatusInv, NothingGot
<1>9. ASSUME NEW u \in Threads \ {t} PROVE PlaceInv(u)' /\ StatusInv(u)'
  BY <1>1, <1>2, OthersKnow
<1>. QED BY <1>3, <1>7, <1>8, <1>9 DEF OutcomeInv

LEMMA TailFacts ==
    ASSUME NEW S, NEW s \in Seq(S), s # <<>>, NEW n \in Nat, Len(s) <= n
    PROVE  Head(s) \in S /\ Tail(s) \in Seq(S) /\ Len(Tail(s)) <= n
OBVIOUS

LEMMA AskedNow ==
    ASSUME NEW b, NEW n \in Nat, NEW k \in 0 .. n, b.ops[k + 1] \in {"params", "line"}
    PROVE  Asked(b, k + 1)
<1>1. k \in Nat
  OBVIOUS
<1>. QED BY <1>1, AskedFacts

LEMMA NoRspKnows ==
    ASSUME AllWellFormed, Inv, OutcomeInv, NEW t \in Threads, NoRsp(t)
    PROVE  OutcomeInv'
<1>. DEFINE b == body[t]
<1>. DEFINE rest == IF Head(todo[t]) = "line" THEN <<>> ELSE Tail(todo[t])
<1>. DEFINE r == IF Head(todo[t]) = "line" THEN FalseAs(b.returns) ELSE "fail"
<1>1. /\ At(t, {"params", "line"}) /\ Goto(t, rest) /\ ret' = [ret EXCEPT ![t] = r]
      /\ got' = [got EXCEPT ![t].rsp = "none"]
      /\ UNCHANGED <<body, owner, status, reply>>
  BY DEF NoRsp, MissRsp, ReturnFalse, clientVars
<1>2. /\ At(t, {"params", "line", "syntax", "end"}) /\ owner = t
      /\ Head(todo[t]) \in {"params", "line"}
  BY <1>1, AtFacts DEF At
<1>3. r \in {"ok", "fail"}
  BY DEF FalseAs
<1>4. Data'
  BY <1>1, <1>3 DEF OutcomeInv, Data
<1>5. /\ ret'[t] = r /\ got'[t].rsp = "none" /\ got'[t].status = got[t].status
      /\ \A u \in Threads \ {t} : ret'[u] = ret[u] /\ got'[u] = got[u] /\ owner' # u
  BY <1>1, <1>2 DEF OutcomeInv, Data
<1>6. ASSUME NEW k \in 0 .. Len(b.ops), k + 1 \in 1 .. Len(b.ops),
             Head(todo[t]) = b.ops[k + 1], Telling(b)
      PROVE  \/ rest = Tail(todo[t]) /\ Outcome(b, k + 1, ret'[t], got'[t])
             \/ rest = <<>> /\ Outcome(b, Len(b.ops), ret'[t], got'[t])
  <2>1. CASE b.ops[k + 1] = "line"
    <3>1. r = "fail" /\ rest = <<>>
      BY <1>6, <2>1, TellingFacts DEF FalseAs
    <3>. QED BY <1>5, <1>6, <2>1, <3>1, OutcomeOfEarlyReturn
  <2>2. CASE b.ops[k + 1] = "params"
    <3>1. r = "fail" /\ rest = Tail(todo[t])
      BY <1>6, <2>2
    <3>2. Asked(b, k + 1)
      BY <2>2, TellingFacts, <1>6, AskedNow
    <3>. QED BY <1>5, <1>6, <2>2, <3>1, <3>2, OutcomeGoesOn
  <2>. QED BY <1>2, <1>6, <2>1, <2>2
<1>7. rest \in {Tail(todo[t]), <<>>}
  OBVIOUS
<1>. HIDE DEF rest, r
<1>. QED BY <1>1, <1>2, <1>4, <1>5, <1>6, <1>7, MoveOn

LEMMA RspKnows ==
    ASSUME AllWellFormed, Inv, OutcomeInv, NEW t \in Threads, Rsp(t)
    PROVE  OutcomeInv'
<1>. DEFINE b == body[t]
<1>. DEFINE line == Head(reply)
<1>. DEFINE good == Head(todo[t]) = "line" \/ Parses(t, line)
<1>1. /\ At(t, {"params", "line"}) /\ Goto(t, Tail(todo[t]))
      /\ status = "none" /\ reply # <<>> /\ IsRsp(t, line) /\ reply' = Tail(reply)
      /\ ret' = [ret EXCEPT ![t] = IF good THEN "ok" ELSE "fail"]
      /\ got' = [got EXCEPT ![t].rsp = line]
      /\ UNCHANGED <<body, owner, status>>
  BY DEF Rsp
<1>2. /\ At(t, {"params", "line", "syntax", "end"}) /\ owner = t
      /\ Head(todo[t]) \in {"params", "line"}
  BY <1>1, AtFacts DEF At
<1>3. line \in Answers /\ (Telling(b) => line \in {"good", "bad"})
  BY <1>1 DEF IsRsp, Answers, Telling, TellsOutcome
<1>4. Data'
  <2>1. /\ Tail(reply) \in Seq(Answers \cup {"ok", "error"})
        /\ Len(Tail(reply)) <= MaxEntries + 2
    <3>1. MaxEntries + 2 \in Nat
      BY ConstantsAssumption
    <3>2. reply \in Seq(Answers \cup {"ok", "error"}) /\ Len(reply) <= MaxEntries + 2
      BY DEF OutcomeInv, Data
    <3>. QED BY <1>1, <3>1, <3>2, TailFacts
  <2>. QED BY <1>1, <1>3, <2>1 DEF OutcomeInv, Data
<1>5. /\ ret'[t] = (IF good THEN "ok" ELSE "fail")
      /\ got'[t].rsp = line /\ got'[t].status = got[t].status
      /\ \A u \in Threads \ {t} : ret'[u] = ret[u] /\ got'[u] = got[u] /\ owner' # u
  BY <1>1, <1>2 DEF OutcomeInv, Data
<1>6. ASSUME NEW k \in 0 .. Len(b.ops), k + 1 \in 1 .. Len(b.ops),
             Head(todo[t]) = b.ops[k + 1], Telling(b)
      PROVE  Outcome(b, k + 1, ret'[t], got'[t])
  <2>1. CASE b.ops[k + 1] = "line"
    BY <1>3, <1>5, <1>6, <2>1, OutcomeGoesOn
  <2>2. CASE b.ops[k + 1] = "params"
    <3>1. ret'[t] = "ok" <=> line = "good"
      BY <1>3, <1>5, <1>6, <2>2 DEF Parses
    <3>2. Asked(b, k + 1)
      BY <2>2, TellingFacts, <1>6, AskedNow
    <3>. QED BY <1>5, <1>6, <2>2, <3>1, <3>2, OutcomeGoesOn
  <2>. QED BY <1>2, <1>6, <2>1, <2>2
<1>. QED BY <1>1, <1>2, <1>4, <1>5, <1>6, MoveOn

LEMMA SyntaxKnows ==
    ASSUME AllWellFormed, Inv, OutcomeInv, NEW t \in Threads, Syntax(t)
    PROVE  OutcomeInv'
<1>. DEFINE b == body[t]
<1>1. PICK r \in {"ok", "fail"}, rest \in {Tail(todo[t]), <<>>} :
        /\ ret' = [ret EXCEPT ![t] = r] /\ Goto(t, rest)
        /\ SelectorCount(b.selector) = 1 =>
             \/ rest = <<>> /\ got[t].rsp = "bad" /\ r = FalseAs(b.returns)
             \/ rest = Tail(todo[t]) /\ r = IF got[t].rsp = "good" THEN "ok" ELSE "fail"
  BY DEF Syntax, ReturnFalse, FalseAs
<1>2. At(t, {"syntax"}) /\ UNCHANGED <<body, owner, status, reply, got>>
  BY DEF Syntax, clientVars
<1>3. At(t, {"params", "line", "syntax", "end"}) /\ owner = t /\ Head(todo[t]) = "syntax"
  BY <1>2, AtFacts DEF At
<1>4. Data'
  BY <1>1, <1>2 DEF OutcomeInv, Data
<1>5. ret'[t] = r /\ \A u \in Threads \ {t} : ret'[u] = ret[u] /\ owner' # u
  BY <1>1, <1>2, <1>3 DEF OutcomeInv, Data
<1>6. ASSUME NEW k \in 0 .. Len(b.ops), k + 1 \in 1 .. Len(b.ops),
             Head(todo[t]) = b.ops[k + 1], Telling(b), Outcome(b, k, ret[t], got[t])
      PROVE  \/ rest = Tail(todo[t]) /\ Outcome(b, k + 1, r, got[t])
             \/ rest = <<>> /\ Outcome(b, Len(b.ops), r, got[t])
  <2>1. /\ got[t].rsp \in {"good", "bad"} /\ Asked(b, k + 1)
        /\ SelectorCount(b.selector) = 1 /\ b.returns = "bool"
    BY <1>3, <1>6, FormIsOpen
  <2>2. CASE rest = <<>> /\ got[t].rsp = "bad" /\ r = FalseAs(b.returns)
    <3>1. r = "fail"
      BY <2>1, <2>2 DEF FalseAs
    <3>. QED BY <1>3, <1>6, <2>2, <3>1, OutcomeOfEarlyReturn
  <2>3. CASE rest = Tail(todo[t]) /\ r = IF got[t].rsp = "good" THEN "ok" ELSE "fail"
    <3>1. r = "ok" <=> got[t].rsp = "good"
      BY <2>3
    <3>. QED BY <1>3, <1>6, <2>1, <2>3, <3>1, OutcomeGoesOn
  <2>. QED BY <1>1, <2>1, <2>2, <2>3
<1>. QED BY <1>1, <1>2, <1>3, <1>4, <1>5, <1>6, MoveOn

LEMMA CmdEndKnows ==
    ASSUME AllWellFormed, Inv, OutcomeInv, NEW t \in Threads, CmdEnd(t)
    PROVE  OutcomeInv'
<1>. DEFINE b == body[t]
<1>1. /\ At(t, {"end"}) /\ owner' = Nobody /\ ret' = [ret EXCEPT ![t] = RetAtEnd(t)]
      /\ Goto(t, Tail(todo[t])) /\ UNCHANGED <<body, status, reply, got>>
  BY DEF CmdEnd
<1>2. At(t, {"params", "line", "syntax", "end"}) /\ owner = t /\ Head(todo[t]) = "end"
  BY <1>1, AtFacts DEF At
<1>3. RetAtEnd(t) \in {"ok", "fail"} /\ (RetAtEnd(t) = "ok" <=> ret[t] = "ok" /\ status = "ok")
  BY DEF RetAtEnd
<1>4. Data'
  BY <1>1, <1>3 DEF OutcomeInv, Data
<1>5. ret'[t] = RetAtEnd(t) /\ \A u \in Threads \ {t} : ret'[u] = ret[u]
  BY <1>1 DEF OutcomeInv, Data
<1>6. \A u \in Threads : owner' # u
  BY <1>1, ConstantsAssumption
<1>7. got[t].status = "ok" <=> status = "ok"
  BY <1>2 DEF OutcomeInv, StatusInv
<1>8. ASSUME NEW k \in 0 .. Len(b.ops), k + 1 \in 1 .. Len(b.ops),
             Head(todo[t]) = b.ops[k + 1], Telling(b), Outcome(b, k, ret[t], got[t])
      PROVE  Outcome(b, k + 1, ret'[t], got[t])
  BY <1>2, <1>3, <1>5, <1>7, <1>8, OutcomeAtEnd
<1>. QED BY <1>1, <1>2, <1>4, <1>5, <1>6, <1>8, MoveOn

\* The status comes before the end of the command, which makes the outcome of it.
LEMMA StatusKnows ==
    ASSUME AllWellFormed, Inv, OutcomeInv, NEW t \in Threads, Status(t)
    PROVE  OutcomeInv'
<1>. DEFINE b == body[t]
<1>1. /\ At(t, {"params", "line", "end"}) /\ reply # <<>>
      /\ Head(reply) \in {"ok", "error"} /\ status' = Head(reply) /\ reply' = Tail(reply)
      /\ got' = [got EXCEPT ![t].status = Head(reply)]
      /\ UNCHANGED <<body, todo, ret, owner>>
  BY DEF Status, threadVars
<1>2. At(t, {"params", "line", "syntax", "end"}) /\ owner = t /\ todo[t] # <<>>
  BY <1>1, AtFacts DEF At
<1>3. Data'
  <2>1. /\ Tail(reply) \in Seq(Answers \cup {"ok", "error"})
        /\ Len(Tail(reply)) <= MaxEntries + 2
    <3>1. MaxEntries + 2 \in Nat
      BY ConstantsAssumption
    <3>2. reply \in Seq(Answers \cup {"ok", "error"}) /\ Len(reply) <= MaxEntries + 2
      BY DEF OutcomeInv, Data
    <3>. QED BY <1>1, <3>1, <3>2, TailFacts
  <2>. QED BY <1>1, <2>1 DEF OutcomeInv, Data, Statuses
<1>4. /\ got'[t].status = status' /\ got'[t].rsp = got[t].rsp
      /\ \A u \in Threads \ {t} : got'[u] = got[u] /\ owner # u
  BY <1>1, <1>2 DEF OutcomeInv, Data
<1>5. PlaceInv(t)'
  <2>1. PICK k \in 0 .. Len(b.ops) :
          /\ todo[t] = Left(b.ops, k)
          /\ Telling(b) => Outcome(b, k, ret[t], got[t])
    BY DEF OutcomeInv, PlaceInv
  <2>2. k # Len(b.ops)
    BY <1>2, <2>1, OpsFacts, LeftFacts
  <2>3. Telling(b) => Outcome(b, k, ret[t], got'[t])
    BY <1>4, <2>1, <2>2 DEF Outcome
  <2>. QED BY <1>1, <2>1, <2>3 DEF PlaceInv
<1>6. StatusInv(t)'
  BY <1>1, <1>2, <1>4 DEF StatusInv, At
<1>7. ASSUME NEW u \in Threads \ {t} PROVE PlaceInv(u)' /\ StatusInv(u)'
  BY <1>1, <1>4, OthersKnow
<1>. QED BY <1>3, <1>5, <1>6, <1>7 DEF OutcomeInv

LEMMA EndTimeoutKnows ==
    ASSUME AllWellFormed, Inv, OutcomeInv, NEW t \in Threads, EndTimeout(t)
    PROVE  OutcomeInv'
<1>1. /\ At(t, {"end"}) /\ status = "none" /\ status' = "timeout"
      /\ UNCHANGED <<body, todo, ret, owner, reply, got>>
  BY DEF EndTimeout, threadVars
<1>2. At(t, {"params", "line", "syntax", "end"}) /\ owner = t
  BY <1>1, AtFacts DEF At
<1>3. Data'
  BY <1>1 DEF OutcomeInv, Data
<1>4. PlaceInv(t)'
  BY <1>1 DEF OutcomeInv, PlaceInv
<1>5. StatusInv(t)'
  BY <1>1, <1>2 DEF OutcomeInv, StatusInv, At
<1>6. ASSUME NEW u \in Threads \ {t} PROVE PlaceInv(u)' /\ StatusInv(u)'
  BY <1>1, <1>2, OthersKnow
<1>. QED BY <1>3, <1>4, <1>5, <1>6 DEF OutcomeInv

\* A step that at most takes a line off the reply.
LEMMA StayKnows ==
    ASSUME OutcomeInv, UNCHANGED <<body, todo, ret, owner, status, got>>,
           reply' = reply \/ (reply # <<>> /\ reply' = Tail(reply))
    PROVE  OutcomeInv'
<1>1. Data'
  <2>1. MaxEntries + 2 \in Nat
    BY ConstantsAssumption
  <2>2. reply \in Seq(Answers \cup {"ok", "error"}) /\ Len(reply) <= MaxEntries + 2
    BY DEF OutcomeInv, Data
  <2>3. /\ reply' \in Seq(Answers \cup {"ok", "error"})
        /\ Len(reply') <= MaxEntries + 2
    BY <2>1, <2>2, TailFacts
  <2>. QED BY <2>3 DEF OutcomeInv, Data
<1>. QED BY <1>1, OthersKnow DEF OutcomeInv

LEMMA ReturnKnows ==
    ASSUME AllWellFormed, Inv, OutcomeInv, NEW t \in Threads, Return(t)
    PROVE  OutcomeInv'
<1>1. /\ todo[t] = <<>> /\ body' = [body EXCEPT ![t] = NotCalled]
      /\ UNCHANGED <<todo, ret, owner, status, reply, got>>
  BY DEF Return, clientVars
<1>2. body'[t] = NotCalled /\ \A u \in Threads \ {t} : body'[u] = body[u]
  BY <1>1 DEF Inv, Types
<1>3. Data'
  BY <1>1 DEF OutcomeInv, Data
<1>4. PlaceInv(t)'
  <2>1. ~Telling(NotCalled)
    BY TellingFacts, NotCalledFacts
  <2>2. 0 \in 0 .. Len(<<>>) /\ Left(<<>>, 0) = <<>>
    <3>1. <<>> \in Seq(Ops) /\ Len(<<>>) = 0 /\ 0 \in 0 .. 0
      OBVIOUS
    <3>. QED BY <3>1, LeftFacts
  <2>. QED BY <1>1, <1>2, <2>1, <2>2, NotCalledFacts DEF PlaceInv
<1>5. StatusInv(t)'
  BY <1>1 DEF OutcomeInv, StatusInv, At
<1>6. ASSUME NEW u \in Threads \ {t} PROVE PlaceInv(u)' /\ StatusInv(u)'
  BY <1>1, <1>2, OthersKnow
<1>. QED BY <1>3, <1>4, <1>5, <1>6 DEF OutcomeInv

LEMMA InitOutcome == Init => OutcomeInv
<1>. SUFFICES ASSUME Init PROVE OutcomeInv
  OBVIOUS
<1>1. <<>> \in Seq(Ops) /\ Len(<<>>) = 0 /\ <<>> \in Seq(Answers \cup {"ok", "error"})
      /\ 0 \in 0 .. 0
  OBVIOUS
<1>2. Data
  BY <1>1, ConstantsAssumption DEF Init, Data, NothingGot, Answers, Statuses
<1>3. ASSUME NEW t \in Threads PROVE PlaceInv(t)
  <2>1. ~Telling(NotCalled)
    BY TellingFacts, NotCalledFacts
  <2>2. 0 \in 0 .. Len(<<>>) /\ Left(<<>>, 0) = <<>>
    BY <1>1, LeftFacts
  <2>. QED BY <2>1, <2>2, NotCalledFacts DEF PlaceInv, Init
<1>4. ASSUME NEW t \in Threads PROVE StatusInv(t)
  BY ConstantsAssumption DEF Init, StatusInv, At
<1>. QED BY <1>2, <1>3, <1>4 DEF OutcomeInv

LEMMA NextOutcome == ASSUME AllWellFormed, Inv, OutcomeInv, [Next]_vars PROVE OutcomeInv'
<1>1. CASE UNCHANGED vars
  <2>1. UNCHANGED <<body, todo, ret, owner, status, got>> /\ reply' = reply
    BY <1>1 DEF vars, threadVars, clientVars
  <2>. QED BY <2>1, StayKnows, Zenon
<1>2. CASE ReadUrc
  <2>1. UNCHANGED <<body, todo, ret, owner, status, got>> /\ reply' = reply
    BY <1>2 DEF ReadUrc, clientVars
  <2>. QED BY <2>1, StayKnows
<1>3. ASSUME NEW t \in Threads, Step(t) PROVE OutcomeInv'
  <2>1. CASE SkipLine(t)
    BY <2>1, StayKnows DEF SkipLine
  <2>. QED BY <1>3, <2>1, NoRspKnows, RspKnows, SyntaxKnows, StatusKnows, EndTimeoutKnows,
              CmdEndKnows, ReturnKnows DEF Step
<1>. QED BY <1>1, <1>2, <1>3, EnterKnows, BeginKnows DEF Next

-----------------------------------------------------------------------------
\* What is known of every thread's command, beside what Inv says of it.
THEOREM OutcomeInvariant == ASSUME AllWellFormed PROVE Spec => [](Inv /\ OutcomeInv)
<1>1. Inv /\ OutcomeInv /\ [Next]_vars => (Inv /\ OutcomeInv)'
  BY NextInv, NextOutcome
<1>2. Init => Inv /\ OutcomeInv
  BY InitInv, InitOutcome
<1>. QED BY <1>1, <1>2, PTL DEF Spec

\* The types: among them, that what a thread has still to do is always the rest of
\* a function of u_cx_*.c.
THEOREM TypesHold == ASSUME AllWellFormed PROVE Spec => []TypeOK
<1>1. Inv /\ OutcomeInv => TypeOK
  BY DEF Inv, Types, Bodies, Open, OutcomeInv, Data, Answers, Statuses, PlaceInv, Left, TypeOK
<1>. QED BY OutcomeInvariant, <1>1, PTL

\* The functions that can tell what has become of their command do: true, or a ret
\* of 0 and more, is returned if, and only if, the response of the command has come
\* and parses and, where the function ends the command, its status is OK.
AllTelling == \A f \in Functions : TellsOutcome(Api[f])

THEOREM OutcomeIsTold ==
    ASSUME AllWellFormed, AllTelling
    PROVE  Spec => []ReturnTellsOutcome
<1>1. ASSUME Inv, OutcomeInv, NEW t \in Threads, Returns(t)
      PROVE  ret[t] = "ok" <=> /\ Asks(t) => got[t].rsp = "good"
                               /\ Does(t, "end") => got[t].status = "ok"
  <2>. DEFINE b == body[t]
  <2>1. Telling(b) /\ todo[t] = <<>>
    BY <1>1 DEF Returns, Inv, Types, Bodies, AllWellFormed, AllTelling, Telling
  <2>2. PICK k \in 0 .. Len(b.ops) : todo[t] = Left(b.ops, k) /\ Outcome(b, k, ret[t], got[t])
    BY <1>1, <2>1 DEF OutcomeInv, PlaceInv
  <2>3. k = Len(b.ops)
    BY <2>1, <2>2, TellingFacts, LeftFacts
  <2>4. Len(b.ops) \in Nat \ {0} /\ DOMAIN b.ops = 1 .. Len(b.ops)
    BY <2>1, TellingFacts
  <2>5. b.ops[k] # "line"
    <3>1. k \in 1 .. Len(b.ops) /\ k + 1 \notin 1 .. Len(b.ops)
      BY <2>3, <2>4
    <3>. QED BY <2>1, <3>1, TellingFacts
  <2>6. /\ Asks(t) <=> Asked(b, k)
        /\ Does(t, "end") <=> Ends(b)
    BY <2>3, <2>4 DEF Asks, Does, Asked, Ends
  <2>. QED BY <2>2, <2>3, <2>5, <2>6 DEF Outcome
<1>2. Inv /\ OutcomeInv => ReturnTellsOutcome
  BY <1>1 DEF ReturnTellsOutcome
<1>. QED BY OutcomeInvariant, <1>2, PTL
=============================================================================
