------------------------------- MODULE UcxApi -------------------------------
(***************************************************************************)
(* Threads that call the ucx API: every function of UcxFunctions, step by  *)
(* step as it calls the AT client, against a module that answers each      *)
(* command with the lines it likes.                                        *)
(*                                                                         *)
(* The AT client is taken by its contract, which AtClient shows of it: one *)
(* command at a time, from CmdBeginF to CmdEnd, and the lines that the     *)
(* module sends for it. A line is the "echo" of the command, a response    *)
(* ("good", or "bad" when a parameter does not parse), or the status "ok"  *)
(* or "error". URCs come in between. All lines are read into one receive   *)
(* buffer, where the results that are pointers lead. (A status is too      *)
(* short to reach the parameters, which come after the prefix.)            *)
(*                                                                         *)
(* A definition with an underscore in its name is the definition after it  *)
(* with a plausible mistake in it. Nothing uses it.                        *)
(***************************************************************************)
EXTENDS UcxFunctions, Naturals, SequencesExt

CONSTANTS Threads,
          Nobody,       \* owner of a client that executes no command
          Functions,    \* the functions that the threads call
          Forms,        \* the responses of the module: "good", "bad", "none"
          Echo,         \* the module echoes the commands
          MaxEntries    \* bound: responses to one command

ASSUME FunctionsAssumption == Functions \subseteq DOMAIN Api

ASSUME ConstantsAssumption == /\ Nobody \notin Threads
                              /\ Forms \subseteq {"good", "bad", "none"}
                              /\ Echo \in BOOLEAN
                              /\ MaxEntries \in Nat \ {0}

VARIABLES body,      \* per thread: the function it is in, or NotCalled
          todo,      \* per thread: what the function has still to do
          ret,       \* per thread: "ok" for true and for ret >= 0, "fail"
          between,   \* per thread, between two calls: "no" command is open, a
                     \* command is "open", or one whose response is a "list"
          text,      \* per thread: what the caller's pointers lead to:
                     \* "none", "result", "overwritten"
          owner,     \* of the client: the thread whose command is executing
          status,    \* of that command
          reply,     \* the lines that the module has still to send for it
          got        \* history, per thread, of its command: [rsp, status]

threadVars == <<body, todo, ret, between, text>>
clientVars == <<owner, status, reply>>
vars == <<threadVars, clientVars, got>>

NotCalled == [ops |-> <<>>, returns |-> "void", leaves |-> "no", text |-> FALSE,
              takesEcho |-> FALSE, selector |-> "none"]
NothingGot == [rsp |-> "none", status |-> "none"]

Init == /\ body = [t \in Threads |-> NotCalled]
        /\ todo = [t \in Threads |-> <<>>]
        /\ ret = [t \in Threads |-> "ok"]
        /\ between = [t \in Threads |-> "no"]
        /\ text = [t \in Threads |-> "none"]
        /\ owner = Nobody
        /\ status = "ok"
        /\ reply = <<>>
        /\ got = [t \in Threads |-> NothingGot]

-----------------------------------------------------------------------------
(* The caller *)

Enter(t, function) ==
    /\ body[t] = NotCalled
    /\ body' = [body EXCEPT ![t] = function]
    /\ todo' = [todo EXCEPT ![t] = function.ops]
    /\ ret' = [ret EXCEPT ![t] = "ok"]
    /\ text' = [text EXCEPT ![t] = "none"]  \* done with what it got before
    /\ UNCHANGED <<between, clientVars>>

\* A command that is open is ended before the next one is begun.
Call(t, f) ==
    /\ between[t] = "no"
    /\ Head(Api[f].ops) = "begin"
    /\ Enter(t, Api[f])
    /\ got' = [got EXCEPT ![t] = NothingGot]

CallGetNext(t, f) ==
    /\ between[t] = "list"
    /\ Head(Api[f].ops) = "params"
    /\ Enter(t, Api[f])
    /\ UNCHANGED got

CallEnd(t) ==
    /\ between[t] # "no"
    /\ Enter(t, End)
    /\ UNCHANGED got

Does(t, op) == \E i \in DOMAIN body[t].ops : body[t].ops[i] = op

\* What the caller has to end after the function, as its header tells him.
LeftOpen(t) == IF body[t].leaves = "same" THEN between[t] ELSE body[t].leaves

HandsOutText(t) == body[t].text /\ ret[t] = "ok"

Return(t) ==
    /\ body[t] # NotCalled
    /\ todo[t] = <<>>
    /\ body' = [body EXCEPT ![t] = NotCalled]
    /\ between' = [between EXCEPT ![t] = LeftOpen(t)]
    /\ text' = [text EXCEPT ![t] = IF HandsOutText(t) THEN @ ELSE "none"]
    /\ UNCHANGED <<todo, ret, clientVars, got>>

-----------------------------------------------------------------------------
(* The functions, one call into the client at a time *)

At(t, ops) == todo[t] # <<>> /\ Head(todo[t]) \in ops

Goto(t, rest) == todo' = [todo EXCEPT ![t] = rest]

\* A line other than a status is read into the receive buffer.
Overwrite == [u \in Threads |-> IF text[u] = "result" THEN "overwritten"
                                ELSE text[u]]

\* What the module may send for a command.
Lines == Forms \ {"none"}

Responses(b) == CASE b.ops = <<"begin", "end">> -> {<<>>}
                  [] b.ops = <<"begin">> -> SeqOf(Lines, MaxEntries)
                  [] OTHER -> {<<line>> : line \in Lines}
                              \cup (IF "none" \in Forms THEN {<<>>} ELSE {})

Replies(b) == {(IF Echo THEN <<"echo">> ELSE <<>>) \o rsp \o st :
                 rsp \in Responses(b), st \in {<<>>, <<"ok">>, <<"error">>}}

Begin_AnyTime(t) ==
    /\ At(t, {"begin"})
    /\ owner' = t
    /\ status' = "none"
    /\ reply' \in Replies(body[t])
    /\ Goto(t, Tail(todo[t]))
    /\ UNCHANGED <<body, ret, between, text, got>>

Begin(t) ==
    /\ At(t, {"begin"})
    /\ owner = Nobody
    /\ owner' = t
    /\ status' = "none"
    /\ reply' \in Replies(body[t])
    /\ Goto(t, Tail(todo[t]))
    /\ UNCHANGED <<body, ret, between, text, got>>

\* "return false": for the functions that return an int that is 0, for success.
FalseAs(returns) == IF returns = "bool" THEN "fail" ELSE "ok"

ReturnFalse(t) == /\ ret' = [ret EXCEPT ![t] = FalseAs(body[t].returns)]
                  /\ Goto(t, <<>>)

\* The line is NULL: GetRspParamLine() has not found one, as there was a status or no line in time.
MissRsp_GoOn(t) == /\ ret' = [ret EXCEPT ![t] = "ok"]
                   /\ Goto(t, Tail(todo[t]))
MissRsp_Returns(t) == ReturnFalse(t)
MissRsp(t) == IF Head(todo[t]) = "line"
                THEN ReturnFalse(t)
                ELSE /\ ret' = [ret EXCEPT ![t] = "fail"]
                     /\ Goto(t, Tail(todo[t]))

NoRsp(t) ==
    /\ At(t, {"params", "line"})
    /\ status # "none" \/ reply = <<>>
    /\ MissRsp(t)
    /\ got' = [got EXCEPT ![t].rsp = "none"]
    /\ UNCHANGED <<body, between, text, clientVars>>

IsRsp(t, line) == \/ line \in {"good", "bad"}
                  \/ line = "echo" /\ body[t].takesEcho

\* An echo is text, and no number.
Parses(t, line) == \/ line = "good"
                   \/ line = "echo" /\ body[t].text

Rsp(t) ==
    /\ At(t, {"params", "line"})
    /\ status = "none"
    /\ reply # <<>>
    /\ IsRsp(t, Head(reply))
    /\ reply' = Tail(reply)
    /\ text' = [Overwrite EXCEPT ![t] = IF body[t].text THEN "result"
                                        ELSE "none"]
    /\ ret' = [ret EXCEPT ![t] = IF Head(todo[t]) = "line"
                                      \/ Parses(t, Head(reply))
                                   THEN "ok" ELSE "fail"]
    /\ Goto(t, Tail(todo[t]))
    /\ got' = [got EXCEPT ![t].rsp = Head(reply)]
    /\ UNCHANGED <<body, between, owner, status>>

\* uCxAtUtilParseParamsF() with the selector counts the parameters that it leaves
\* out; there is at least one more after the value.
SelectorCount(selector) == IF selector = "-d" THEN 2 ELSE 1

\* A bad response has no valid value, one without a case, or does not parse then.
Syntax(t) ==
    /\ At(t, {"syntax"})
    /\ IF SelectorCount(body[t].selector) # 1
         THEN ReturnFalse(t)
         ELSE \/ /\ got[t].rsp = "bad"
                 /\ ReturnFalse(t)
              \/ /\ ret' = [ret EXCEPT ![t] = IF got[t].rsp = "good"
                                                THEN "ok" ELSE "fail"]
                 /\ Goto(t, Tail(todo[t]))
    /\ UNCHANGED <<body, between, text, clientVars, got>>

\* Other lines of the command, on the way to a response or to the status.
SkipLine(t) ==
    /\ At(t, {"params", "line", "end"})
    /\ status = "none"
    /\ reply # <<>>
    /\ \/ Head(reply) = "echo" /\ ~(IsRsp(t, "echo") /\ ~At(t, {"end"}))
       \/ Head(reply) \in {"good", "bad"} /\ At(t, {"end"})
    /\ reply' = Tail(reply)
    /\ text' = Overwrite
    /\ UNCHANGED <<body, todo, ret, between, owner, status, got>>

Status(t) ==
    /\ At(t, {"params", "line", "end"})
    /\ status = "none"
    /\ reply # <<>>
    /\ Head(reply) \in {"ok", "error"}
    /\ status' = Head(reply)
    /\ reply' = Tail(reply)
    /\ got' = [got EXCEPT ![t].status = Head(reply)]
    /\ UNCHANGED <<threadVars, owner>>

EndTimeout_IfAsked(t) ==
    /\ At(t, {"end"}) /\ Does(t, "params")
    /\ status = "none" /\ reply = <<>>
    /\ status' = "timeout"
    /\ UNCHANGED <<threadVars, owner, reply, got>>
EndTimeout(t) ==
    /\ At(t, {"end"})
    /\ status = "none"
    /\ reply = <<>>
    /\ status' = "timeout"
    /\ UNCHANGED <<threadVars, owner, reply, got>>

\* "if (ret >= 0) { ret = endRet; }"
RetAtEnd_AsIs(t) == IF ret[t] = "ok" THEN status ELSE "fail"
RetAtEnd(t) == IF ret[t] = "ok" /\ status = "ok" THEN "ok" ELSE "fail"

CmdEnd(t) ==
    /\ At(t, {"end"})
    /\ status # "none"
    /\ owner' = Nobody
    /\ ret' = [ret EXCEPT ![t] = RetAtEnd(t)]
    /\ Goto(t, Tail(todo[t]))
    /\ UNCHANGED <<body, between, text, status, reply, got>>

\* A URC is read, by the thread whose command is executing or, while there is
\* none, by the RX task.
ReadsUrcs_Always == TRUE
ReadsUrcs == owner # Nobody
               => status = "none" /\ At(owner, {"params", "line", "end"})

ReadUrc ==
    /\ ReadsUrcs
    /\ text' = Overwrite
    /\ UNCHANGED <<body, todo, ret, between, clientVars, got>>

-----------------------------------------------------------------------------
Step(t) == \/ NoRsp(t) \/ Rsp(t) \/ Syntax(t) \/ SkipLine(t) \/ Status(t)
           \/ EndTimeout(t) \/ CmdEnd(t) \/ Return(t)

Next == \/ \E t \in Threads : \/ \E f \in Functions : \/ Call(t, f)
                                                      \/ CallGetNext(t, f)
                              \/ CallEnd(t) \/ Begin(t) \/ Step(t)
        \/ ReadUrc

Spec == Init /\ [][Next]_vars

\* A thread keeps going, gets the client when it is free again and again, and
\* ends the commands that the API leaves open. Nothing is assumed of the module.
FairSpec == /\ Spec
            /\ \A t \in Threads : /\ WF_vars(Step(t))
                                  /\ SF_vars(Begin(t))
                                  /\ SF_vars(CallEnd(t))

-----------------------------------------------------------------------------
(* How a function is made that keeps the rules by itself. *)

Ops == {"begin", "params", "line", "syntax", "end"}

\* A function that ends its command.
Ends(b) == \E i \in DOMAIN b.ops : b.ops[i] = "end"

\* What function b does when its command has begun: if it ends it, that is the
\* last thing it does, and nothing before returns early; if not, it reads one
\* response at most.
RestIsSound(b, rest) ==
    /\ rest \in Seq(Ops)
    /\ \A i \in DOMAIN rest : rest[i] # "begin"
    /\ Ends(b) => \A i \in DOMAIN rest :
                     /\ rest[i] \in {"params", "end"}
                     /\ rest[i] = "end" <=> i = Len(rest)
    /\ ~Ends(b) => \A i, j \in DOMAIN rest :
                     /\ rest[i] # "end"
                     /\ i < j /\ rest[i] \in {"params", "line"} => rest[j] = "syntax"

\* The header says of a function that it "must be terminated by calling uCxEnd()" if
\* and only if the function does not end the command itself; one that does gives
\* nothing back that is in the receive buffer.
HeaderIsSound(b) == /\ b.leaves \in {"no", "open", "list", "same"}
                    /\ b.leaves = "no" <=> Ends(b)
                    /\ b.leaves = "same" => \A i \in DOMAIN b.ops : b.ops[i] # "begin"
                    /\ Ends(b) => b.text = FALSE

WellFormed(b) ==
    /\ b.ops \in Seq(Ops)
    /\ b.ops # <<>>
    /\ \/ b.ops[1] = "begin" /\ RestIsSound(b, Tail(b.ops))
       \/ b.ops[1] = "params" /\ ~Ends(b) /\ RestIsSound(b, b.ops)
    /\ HeaderIsSound(b)

\* A function that can tell what has become of its command: it takes a response by
\* its format, or as a line, of which it then asks for the form; it returns a bool
\* in that case, knows how to ask, and takes no echo for a response.
TellsOutcome(b) ==
    /\ ~b.takesEcho
    /\ \A i \in DOMAIN b.ops :
         /\ b.ops[i] = "line" => /\ b.returns = "bool"
                                 /\ i + 1 \in DOMAIN b.ops /\ b.ops[i + 1] = "syntax"
         /\ b.ops[i] = "syntax" => /\ i - 1 \in DOMAIN b.ops /\ b.ops[i - 1] = "line"
                                   /\ SelectorCount(b.selector) = 1

-----------------------------------------------------------------------------
TypeOK ==
    /\ body \in [Threads -> {NotCalled, End} \cup {Api[f] : f \in Functions}]
    /\ \A t \in Threads :
         \E k \in 0 .. Len(body[t].ops) :
             todo[t] = SubSeq(body[t].ops, k + 1, Len(body[t].ops))
    /\ ret \in [Threads -> {"ok", "fail"}]
    /\ between \in [Threads -> {"no", "open", "list"}]
    /\ text \in [Threads -> {"none", "result", "overwritten"}]
    /\ owner \in Threads \cup {Nobody}
    /\ status \in {"none", "ok", "error", "timeout"}
    /\ Len(reply) <= MaxEntries + 2
    /\ got \in [Threads -> [rsp : {"none", "echo", "good", "bad"},
                            status : {"none", "ok", "error"}]]

\* Between two calls a thread owns the client only after a function that leaves
\* its command open for uCxEnd(). (u_cx_at_client.h: "each call to
\* uCxAtClientCmdBeginF() must always be terminated with a call to
\* uCxAtClientCmdEnd()")
EveryCommandIsEnded ==
    \A t \in Threads : owner = t => body[t] # NotCalled \/ between[t] # "no"

\* Whatever the caller does between Begin and uCxEnd(), responses are asked for
\* and commands ended by the thread whose command is executing: the assertion of
\* cmdEnd() on executingCmd does not fail, nor does another thread's command end.
OnlyTheOwnerEnds ==
    \A t \in Threads : At(t, {"params", "line", "syntax", "end"}) => owner = t

\* A string, list or byte array that the caller has got from a function is still
\* there, until he calls the next one.
NoDanglingResult ==
    \A t \in Threads : body[t] = NotCalled => text[t] # "overwritten"

Asks(t) == Does(t, "params") \/ Does(t, "line")
Returns(t) == body[t] \notin {NotCalled, End} /\ todo[t] = <<>>

\* What a function returns is what has become of its command: success when its own
\* response has come and parses, and, if the function ends the command, the
\* status is OK; and failure otherwise.
ReturnTellsOutcome ==
    \A t \in Threads :
        Returns(t) => (ret[t] = "ok" <=>
                         /\ Asks(t) => got[t].rsp = "good"
                         /\ Does(t, "end") => got[t].status = "ok")

\* Every call returns, although the module need not answer and other threads
\* leave commands open between their calls.
EveryCallReturns ==
    \A t \in Threads : body[t] # NotCalled ~> body[t] = NotCalled
=============================================================================
