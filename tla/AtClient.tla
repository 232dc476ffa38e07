------------------------------ MODULE AtClient ------------------------------
(***************************************************************************)
(* The AT client of src/u_cx_at_client.c: threads execute AT commands      *)
(* (CmdBeginF, GetRspParamLine, CmdEnd) and poll for unsolicited result    *)
(* codes (HandleRx) over one UART, whose input is parsed by whichever      *)
(* thread holds cmdMutex. URCs go through the URC queue, taken here by its *)
(* abstract specification UrcFifo (UrcQueue implements it), and are handed *)
(* to the URC callback by processUrcs(), outside cmdMutex.                 *)
(*                                                                         *)
(* A call <<t, 0>> is a call of thread t into the client; <<t, 1>> is one  *)
(* made inside it: from the URC callback, or between CmdBeginF and CmdEnd. *)
(*                                                                         *)
(* The UART input is a sequence of tokens, each a part of a message of the *)
(* module: a message without binary data is one "line" token, one with     *)
(* binary data is "soh" (the line and the SOH character), "len" (the two   *)
(* length bytes) and "data". A read delivers the next token or, while the  *)
(* token is still on its way, nothing.                                     *)
(*                                                                         *)
(* A definition with an underscore in its name is the definition after it  *)
(* with a plausible mistake in it. Nothing uses it: it is there to show    *)
(* that the properties would notice the mistake.                           *)
(***************************************************************************)
EXTENDS Integers, Sequences

CONSTANTS Callers,      \* threads that execute AT commands
          Pollers,      \* threads that call HandleRx, such as the RX task
          NoCall,       \* owner of a free mutex
          NoUrc,        \* see UrcFifo
          RspKinds,     \* responses of the commands: "none", "line", "binary"
          UrcKinds,     \* URCs of the module: "line", "binary"
          InCallback,   \* what a URC callback calls: "cmd", "poll"
          PollInCmd,    \* HandleRx is called between CmdBeginF and CmdEnd
          Split,        \* messages ("rsp", "urc") that may come in pieces,
                        \* with gaps longer than the read timeout
          Timeouts,     \* commands can time out
          MaxCmds,      \* bound: commands executed
          MaxUrcs,      \* bound: URCs sent by the module
          MaxIoErrors   \* bound: failing reads

Threads == Callers \cup Pollers
Calls == Threads \X {0, 1}
CmdIds == 1 .. MaxCmds

ASSUME CallsAssumption == NoCall \notin Calls

ASSUME KindsAssumption == /\ RspKinds \subseteq {"none", "line", "binary"}
                          /\ UrcKinds \subseteq {"line", "binary"}
                          /\ InCallback \subseteq {"cmd", "poll"}
                          /\ Split \subseteq {"rsp", "urc"}
                          /\ PollInCmd \in BOOLEAN
                          /\ Timeouts \in BOOLEAN

ASSUME BoundsAssumption == /\ MaxCmds \in Nat
                           /\ MaxUrcs \in Nat
                           /\ MaxIoErrors \in Nat

VARIABLES pc,            \* per call: where it is
          cmd,           \* per call: the command it executes, 0 for HandleRx
          cmdMutex,      \* owner
          queueMutex,    \* owner, while an entry is open
          dequeueMutex,  \* owner
          executingCmd,
          status,        \* [code, of]: the status and the command that the
                         \* module gave it for
          expired,       \* cmdTimeout has passed since cmdStartTime
          expecting,     \* pExpectedRsp is set
          pRspParams,    \* the response line last parsed, 0 for NULL
          rspBinaryBuf,  \* the command that gave the binary buffer
          isBinaryRx,
          binaryRx,      \* where the binary data goes: [state, buf]
          fifo, open, taken,   \* the URC queue, see UrcFifo
          wire,          \* tokens sent by the module and not yet read
          pending,       \* commands the module has yet to answer
          cmds,          \* number of commands started
          urcs,          \* number of URCs sent
          ioErrors,      \* number of reads that have failed
          delivered,     \* history: the messages given to the URC callback
          log            \* history: per command, what became of it

clientVars == <<executingCmd, status, expired>>
rspVars == <<expecting, pRspParams, rspBinaryBuf>>
binVars == <<isBinaryRx, binaryRx>>
queueVars == <<fifo, open, taken, queueMutex>>
moduleVars == <<wire, pending, urcs>>
vars == <<pc, cmd, cmdMutex, dequeueMutex, clientVars, rspVars, binVars,
          queueVars, moduleVars, cmds, ioErrors, delivered, log>>

\* A message of the module: a response or a status of command id, or URC id.
Message == [type : {"rsp", "status", "urc"}, id : Nat,
            code : {"ok", "error", "line", "binary"}]

Queue == INSTANCE UrcFifo WITH Lines <- Message, Payloads <- {"none", "data"}

ASSUME NoUrcAssumption == NoUrc \notin Message /\ NoUrc \notin Queue!Entry

Tokens(m) == IF m.code = "binary"
               THEN [i \in 1 .. 3 |-> [part |-> <<"soh", "len", "data">>[i],
                                       msg |-> m]]
               ELSE << [part |-> "line", msg |-> m] >>

Part == Head(wire).part
Msg == Head(wire).msg

NoStatus == [code |-> "none", of |-> 0]
Reading == {"rspRead", "endRead", "rxRead"}
InCommand == {"getRsp", "rspRead", "rspCheck", "begun", "endRead",
              "endCheck", "endDone"}
Locations == Reading \cup InCommand \cup
             {"idle", "cmdLock", "rxLock", "rxUnlock", "drain", "locked",
              "empty", "callback", "ret"}

-----------------------------------------------------------------------------
Init == /\ pc = [c \in Calls |-> "idle"]
        /\ cmd = [c \in Calls |-> 0]
        /\ cmdMutex = NoCall
        /\ dequeueMutex = NoCall
        /\ executingCmd = FALSE
        /\ status = [code |-> "ok", of |-> 0]
        /\ expired = FALSE
        /\ expecting = FALSE
        /\ pRspParams = 0
        /\ rspBinaryBuf = 0
        /\ isBinaryRx = FALSE
        /\ binaryRx = [state |-> "flush", buf |-> 0]
        /\ Queue!Init
        /\ queueMutex = NoCall
        /\ wire = <<>>
        /\ pending = <<>>
        /\ urcs = 0
        /\ cmds = 0
        /\ ioErrors = 0
        /\ delivered = <<>>
        /\ log = [i \in CmdIds |->
                    [answer |-> "none",   \* the status it read for itself
                     decided |-> NoStatus,  \* the status its CmdEnd ended on
                     rsp |-> 0,      \* the response GetRspParamLine gave it
                     data |-> {},    \* whose binary data is in its buffer
                     result |-> "running"]]  \* what CmdEnd returned

Goto(c, loc) == pc' = [pc EXCEPT ![c] = loc]

Inner(c) == <<c[1], 1>>
Outer(c) == <<c[1], 0>>

\* The thread of c is executing c and not a call inside it.
Active(c) == c[2] = 1 \/ pc[Inner(c)] = "idle"

\* Where in an outer call the client is called, what being "cmd" or "poll".
CallsFrom(what) == (IF what \in InCallback THEN {"callback"} ELSE {})
                   \cup (IF what = "poll" /\ PollInCmd THEN {"begun"} ELSE {})

MayCall(c, what) == pc[c] = "idle"
                    /\ (c[2] = 1 => pc[Outer(c)] \in CallsFrom(what))

-----------------------------------------------------------------------------
(* Commands *)

\* A thread enters cmdBeginF() and waits for cmdMutex.
CallCmd(c) ==
    /\ MayCall(c, "cmd")
    /\ c[2] = 1 \/ c[1] \in Callers
    /\ cmds < MaxCmds
    /\ cmds' = cmds + 1
    /\ cmd' = [cmd EXCEPT ![c] = cmds']
    /\ Goto(c, "cmdLock")
    /\ UNCHANGED <<cmdMutex, dequeueMutex, clientVars, rspVars, binVars,
                   queueVars, moduleVars, ioErrors, delivered, log>>

\* uCxAtClientSendCmdVaList(): name and parameters go out as one command, which the
\* module will answer with rsp, apart from the status. The text is abstracted.
SendCmd(c, rsp) == pending' = Append(pending, [cmd |-> cmd[c], rsp |-> rsp])

\* cmdBeginF() gets the mutex and sends a command.
MutexFree_Unchecked == TRUE
MutexFree == cmdMutex = NoCall

CmdBegin(c, rsp) ==
    /\ pc[c] = "cmdLock"
    /\ MutexFree
    /\ cmdMutex' = c
    /\ executingCmd' = TRUE
    /\ status' = NoStatus
    /\ expired' = FALSE
    /\ pRspParams' = 0
    /\ SendCmd(c, rsp)
    /\ Goto(c, IF rsp = "none" THEN "begun" ELSE "getRsp")
    /\ UNCHANGED <<cmd, dequeueMutex, expecting, rspBinaryBuf, binVars,
                   queueVars, wire, urcs, cmds, ioErrors, delivered, log>>

\* GetRspParamLine() up to the first read.
SetRsp_NoPrefix(c) == /\ UNCHANGED expecting
                      /\ rspBinaryBuf' = cmd[c]
SetRsp_FirstBuffer(c) == /\ expecting' = TRUE
                         /\ rspBinaryBuf' = IF rspBinaryBuf = 0 THEN cmd[c]
                                            ELSE rspBinaryBuf
SetRsp(c) == /\ expecting' = TRUE
             /\ rspBinaryBuf' = cmd[c]

GetRsp(c) ==
    /\ pc[c] = "getRsp"
    /\ SetRsp(c)
    /\ pRspParams' = 0
    /\ Goto(c, IF status = NoStatus THEN "rspRead" ELSE "begun")
    /\ UNCHANGED <<cmd, cmdMutex, dequeueMutex, clientVars, binVars,
                   queueVars, moduleVars, cmds, ioErrors, delivered, log>>

\* Its loop after a handleRxData() that brought no response: read on, unless the
\* time is over or a status has come. Then it returns NULL and its caller calls
\* CmdEnd. (UcxApi has the callers that do not.)
MissesRsp(c) == expired \/ status # NoStatus

RspCheck(c) ==
    /\ pc[c] = "rspCheck"
    /\ Goto(c, IF MissesRsp(c) THEN "begun" ELSE "rspRead")
    /\ UNCHANGED <<cmd, cmdMutex, dequeueMutex, clientVars, rspVars, binVars,
                   queueVars, moduleVars, cmds, ioErrors, delivered, log>>

\* cmdEnd() is called: read unless there is a status already.
CmdEnd(c) ==
    /\ pc[c] = "begun"
    /\ Active(c)
    /\ Goto(c, IF status = NoStatus THEN "endRead" ELSE "endDone")
    /\ UNCHANGED <<cmd, cmdMutex, dequeueMutex, clientVars, rspVars, binVars,
                   queueVars, moduleVars, cmds, ioErrors, delivered, log>>

\* Its loop after handleRxData(): the timeout goes before the status.
StatusAfterRead_NoTimeout(c) == status
StatusAfterRead(c) == IF expired THEN [code |-> "timeout", of |-> cmd[c]]
                                 ELSE status

EndCheck(c) ==
    /\ pc[c] = "endCheck"
    /\ status' = StatusAfterRead(c)
    /\ Goto(c, IF status' = NoStatus THEN "endRead" ELSE "endDone")
    /\ UNCHANGED <<cmd, cmdMutex, dequeueMutex, executingCmd, expired, rspVars,
                   binVars, queueVars, moduleVars, cmds, ioErrors, delivered,
                   log>>

\* The end of cmdEnd(): cmdMutex is unlocked, the URCs are processed after it.
UnlockAtEnd_Forgotten(c) == UNCHANGED <<executingCmd, cmdMutex>>
UnlockAtEnd(c) == /\ executingCmd' = FALSE
                  /\ cmdMutex' = NoCall

CmdDone(c) ==
    /\ pc[c] = "endDone"
    /\ UnlockAtEnd(c)
    /\ log' = [log EXCEPT ![cmd[c]].decided = status]
    /\ Goto(c, "drain")
    /\ UNCHANGED <<cmd, dequeueMutex, status, expired, rspVars, binVars,
                   queueVars, moduleVars, cmds, ioErrors, delivered>>

\* The return statement of cmdEnd(), or of HandleRx.
Return(c) ==
    /\ pc[c] = "ret"
    /\ log' = IF cmd[c] = 0 THEN log
              ELSE [log EXCEPT ![cmd[c]].result = status.code]
    /\ cmd' = [cmd EXCEPT ![c] = 0]
    /\ Goto(c, "idle")
    /\ UNCHANGED <<cmdMutex, dequeueMutex, clientVars, rspVars, binVars,
                   queueVars, moduleVars, cmds, ioErrors, delivered>>

-----------------------------------------------------------------------------
(* HandleRx, called by a client that is opened *)

CallHandleRx(c) ==
    /\ MayCall(c, "poll")
    /\ c[2] = 1 \/ c[1] \in Pollers
    /\ Goto(c, "rxLock")
    /\ UNCHANGED <<cmd, cmdMutex, dequeueMutex, clientVars, rspVars, binVars,
                   queueVars, moduleVars, cmds, ioErrors, delivered, log>>

RxLockedAt == IF executingCmd THEN "rxUnlock" ELSE "rxRead"

RxLock(c) ==
    /\ pc[c] = "rxLock"
    /\ cmdMutex = NoCall
    /\ cmdMutex' = c
    /\ Goto(c, RxLockedAt)
    /\ UNCHANGED <<cmd, dequeueMutex, clientVars, rspVars, binVars, queueVars,
                   moduleVars, cmds, ioErrors, delivered, log>>

RxUnlock(c) ==
    /\ pc[c] = "rxUnlock"
    /\ cmdMutex' = NoCall
    /\ Goto(c, "drain")
    /\ UNCHANGED <<cmd, dequeueMutex, clientVars, rspVars, binVars, queueVars,
                   moduleVars, cmds, ioErrors, delivered, log>>

-----------------------------------------------------------------------------
(* handleRxData(), one read at a time *)

\* A read of call c finds the next token, and it is one of these parts.
Reads(c, parts) == /\ pc[c] \in Reading
                   /\ wire # <<>>
                   /\ Part \in parts
                   /\ wire' = Tail(wire)
                   /\ UNCHANGED <<cmd, cmdMutex, dequeueMutex, executingCmd,
                                  expired, expecting, rspBinaryBuf, taken,
                                  pending, urcs, cmds, ioErrors, delivered>>

\* handleRxData() returns to its caller, with a response or without.
ReturnRsp(c) == Goto(c, CASE pc[c] = "rspRead" -> "begun"
                          [] pc[c] = "endRead" -> "endCheck"
                          [] pc[c] = "rxRead" -> "rxUnlock")
ReturnNoRsp(c) == Goto(c, CASE pc[c] = "rspRead" -> "rspCheck"
                            [] pc[c] = "endRead" -> "endCheck"
                            [] pc[c] = "rxRead" -> "rxUnlock")

\* What parseLine() makes of the line of m. All responses have the same
\* prefix, which begins with '+' and is not the prefix of a URC.
Parsed(m) ==
    CASE executingCmd /\ m.type = "rsp" /\ expecting -> "GOT_RSP"
      [] executingCmd /\ m.type = "status" -> "GOT_STATUS"
      [] ~executingCmd /\ m.type = "status" -> "NOP"
      [] OTHER -> "GOT_URC"

ReadRsp(c) ==
    /\ Reads(c, {"line"})
    /\ Parsed(Msg) = "GOT_RSP"
    /\ pRspParams' = Msg.id
    /\ ReturnRsp(c)
    /\ log' = IF pc[c] = "rspRead" THEN [log EXCEPT ![cmd[c]].rsp = Msg.id]
                                   ELSE log
    /\ UNCHANGED <<status, binVars, fifo, open, queueMutex>>

ReadStatus(c) ==
    /\ Reads(c, {"line"})
    /\ Parsed(Msg) = "GOT_STATUS"
    /\ status' = [code |-> Msg.code, of |-> Msg.id]
    /\ log' = IF Msg.id = cmd[c] THEN [log EXCEPT ![cmd[c]].answer = Msg.code]
                                 ELSE log
    /\ ReturnNoRsp(c)
    /\ UNCHANGED <<pRspParams, binVars, fifo, open, queueMutex>>

\* EnqueueBegin() and, in parseIncomingChar(), EnqueueEnd().
ReadUrc(c) ==
    /\ Reads(c, {"line"})
    /\ Parsed(Msg) = "GOT_URC"
    /\ open = NoUrc
    /\ \/ fifo' = Append(fifo, [line |-> Msg, payload |-> "none"])
       \/ UNCHANGED fifo     \* no room: the URC is dropped
    /\ UNCHANGED <<pc, status, pRspParams, binVars, open, queueMutex, log>>

\* A status while no command is executing.
ReadUnexpected(c) ==
    /\ Reads(c, {"line"})
    /\ Parsed(Msg) = "NOP"
    /\ UNCHANGED <<pc, status, pRspParams, binVars, fifo, open, queueMutex,
                   log>>

ReadSoh(c) ==
    /\ Reads(c, {"soh"})
    /\ ~isBinaryRx
    /\ isBinaryRx' = TRUE
    /\ UNCHANGED <<pc, status, pRspParams, binaryRx, fifo, open, queueMutex,
                   log>>

\* The length is complete: the line is parsed and the binary transfer set up.
ReadLengthOfRsp(c) ==
    /\ Reads(c, {"len"})
    /\ Parsed(Msg) = "GOT_RSP"
    /\ pRspParams' = Msg.id
    /\ binaryRx' = [state |-> "rsp", buf |-> rspBinaryBuf]
    /\ UNCHANGED <<pc, status, isBinaryRx, fifo, open, queueMutex, log>>

\* The entry stays open, and queueMutex locked, until the data is complete.
ReadLengthOfUrc(c) ==
    /\ Reads(c, {"len"})
    /\ Parsed(Msg) = "GOT_URC"
    /\ Queue!EnqueueBegin(Msg)
    /\ queueMutex' = c
    /\ binaryRx' = [state |-> "urc", buf |-> 0]
    /\ UNCHANGED <<pc, status, isBinaryRx, pRspParams, log>>

\* There is no room for the line, or not for the data as well.
ReadLengthNoRoom(c) ==
    /\ Reads(c, {"len"})
    /\ Parsed(Msg) = "GOT_URC"
    /\ open = NoUrc
    /\ binaryRx' = [state |-> "flush", buf |-> 0]
    /\ UNCHANGED <<pc, status, isBinaryRx, pRspParams, fifo, open, queueMutex,
                   log>>

BinaryDone == /\ isBinaryRx' = FALSE
              /\ binaryRx' = [binaryRx EXCEPT !.state = "flush"]

ReadDataOfRsp(c) ==
    /\ Reads(c, {"data"})
    /\ binaryRx.state = "rsp"
    /\ BinaryDone
    /\ ReturnRsp(c)
    /\ log' = [i \in CmdIds |->
                 [log[i] EXCEPT
                    !.data = IF i = binaryRx.buf THEN @ \cup {Msg.id} ELSE @,
                    !.rsp = IF pc[c] = "rspRead" /\ i = cmd[c]
                              THEN pRspParams ELSE @]]
    /\ UNCHANGED <<status, pRspParams, fifo, open, queueMutex>>

UnlockQueue_Forgotten == UNCHANGED queueMutex
UnlockQueue == queueMutex' = NoCall

ReadDataOfUrc(c) ==
    /\ Reads(c, {"data"})
    /\ binaryRx.state = "urc"
    /\ BinaryDone
    /\ Queue!EnqueueEnd("data")
    /\ UnlockQueue
    /\ ReturnNoRsp(c)
    /\ UNCHANGED <<status, pRspParams, log>>

ReadDataToFlush(c) ==
    /\ Reads(c, {"data"})
    /\ binaryRx.state = "flush"
    /\ BinaryDone
    /\ ReturnNoRsp(c)
    /\ UNCHANGED <<status, pRspParams, fifo, open, queueMutex, log>>

ReadToken(c) == \/ ReadRsp(c) \/ ReadStatus(c) \/ ReadUrc(c)
                \/ ReadUnexpected(c) \/ ReadSoh(c) \/ ReadLengthOfRsp(c)
                \/ ReadLengthOfUrc(c) \/ ReadLengthNoRoom(c)
                \/ ReadDataOfRsp(c) \/ ReadDataOfUrc(c) \/ ReadDataToFlush(c)

\* The read times out. The rest of a message is there in time unless Split.
ReadNothing(c) ==
    /\ pc[c] \in Reading
    /\ wire # <<>> => Part \in {"line", "soh"} \/ Msg.type \in Split
    /\ ReturnNoRsp(c)
    /\ UNCHANGED <<cmd, cmdMutex, dequeueMutex, clientVars, rspVars, binVars,
                   queueVars, moduleVars, cmds, ioErrors, delivered, log>>

\* The read fails, see CHECK_READ_ERROR.
ReadError(c) ==
    /\ pc[c] \in Reading
    /\ ioErrors < MaxIoErrors
    /\ ioErrors' = ioErrors + 1
    /\ status' = [code |-> "io", of |-> 0]
    /\ ReturnNoRsp(c)
    /\ UNCHANGED <<cmd, cmdMutex, dequeueMutex, executingCmd, expired, rspVars,
                   binVars, queueVars, moduleVars, cmds, delivered, log>>

-----------------------------------------------------------------------------
(* processUrcs() *)

\* DequeueBegin(): TRY_LOCK of dequeueMutex.
QueueFree_Unchecked == TRUE
QueueFree == dequeueMutex = NoCall

TryLock(c) ==
    /\ pc[c] = "drain"
    /\ QueueFree
    /\ dequeueMutex' = c
    /\ Goto(c, "locked")
    /\ UNCHANGED <<cmd, cmdMutex, clientVars, rspVars, binVars, queueVars,
                   moduleVars, cmds, ioErrors, delivered, log>>

TryLockFails(c) ==
    /\ pc[c] = "drain"
    /\ ~QueueFree
    /\ Goto(c, "ret")
    /\ UNCHANGED <<cmd, cmdMutex, dequeueMutex, clientVars, rspVars, binVars,
                   queueVars, moduleVars, cmds, ioErrors, delivered, log>>

\* The rest of DequeueBegin(), which needs queueMutex, and the callback.
DequeueBegin(c) ==
    /\ pc[c] = "locked"
    /\ Queue!DequeueBegin
    /\ delivered' = Append(delivered, Head(fifo).line)
    /\ Goto(c, "callback")
    /\ UNCHANGED <<cmd, cmdMutex, dequeueMutex, queueMutex, clientVars,
                   rspVars, binVars, moduleVars, cmds, ioErrors, log>>

DequeueNone(c) ==
    /\ pc[c] = "locked"
    /\ open = NoUrc
    /\ fifo = <<>>
    /\ Goto(c, "empty")
    /\ UNCHANGED <<cmd, cmdMutex, dequeueMutex, clientVars, rspVars, binVars,
                   queueVars, moduleVars, cmds, ioErrors, delivered, log>>

UnlockEmpty_Forgotten == UNCHANGED dequeueMutex
UnlockEmpty == dequeueMutex' = NoCall

DequeueEmpty(c) ==
    /\ pc[c] = "empty"
    /\ UnlockEmpty
    /\ Goto(c, "ret")
    /\ UNCHANGED <<cmd, cmdMutex, clientVars, rspVars, binVars, queueVars,
                   moduleVars, cmds, ioErrors, delivered, log>>

\* The callback has returned: DequeueEnd().
RemoveEntry_Forgotten == /\ taken' = NoUrc
                         /\ UNCHANGED <<fifo, open>>
RemoveEntry == Queue!DequeueEnd

DequeueEnd(c) ==
    /\ pc[c] = "callback"
    /\ Active(c)
    /\ RemoveEntry
    /\ dequeueMutex' = NoCall
    /\ Goto(c, "drain")
    /\ UNCHANGED <<cmd, cmdMutex, queueMutex, clientVars, rspVars, binVars,
                   moduleVars, cmds, ioErrors, delivered, log>>

-----------------------------------------------------------------------------
(* The module and the clock *)

Send(m) == wire' = wire \o Tokens(m)

ModuleRsp ==
    /\ pending # <<>>
    /\ Head(pending).rsp # "none"
    /\ Send([type |-> "rsp", id |-> Head(pending).cmd,
             code |-> Head(pending).rsp])
    /\ pending' = [pending EXCEPT ![1].rsp = "none"]
    /\ UNCHANGED <<pc, cmd, cmdMutex, dequeueMutex, clientVars, rspVars,
                   binVars, queueVars, urcs, cmds, ioErrors, delivered, log>>

\* OK after the response, ERROR also instead of it.
ModuleStatus(code) ==
    /\ pending # <<>>
    /\ code = "ok" => Head(pending).rsp = "none"
    /\ Send([type |-> "status", id |-> Head(pending).cmd, code |-> code])
    /\ pending' = Tail(pending)
    /\ UNCHANGED <<pc, cmd, cmdMutex, dequeueMutex, clientVars, rspVars,
                   binVars, queueVars, urcs, cmds, ioErrors, delivered, log>>

ModuleUrc(kind) ==
    /\ urcs < MaxUrcs
    /\ urcs' = urcs + 1
    /\ Send([type |-> "urc", id |-> urcs', code |-> kind])
    /\ UNCHANGED <<pc, cmd, cmdMutex, dequeueMutex, clientVars, rspVars,
                   binVars, queueVars, pending, cmds, ioErrors, delivered, log>>

Expire ==
    /\ Timeouts
    /\ executingCmd
    /\ ~expired
    /\ expired' = TRUE
    /\ UNCHANGED <<pc, cmd, cmdMutex, dequeueMutex, executingCmd, status,
                   rspVars, binVars, queueVars, moduleVars, cmds, ioErrors,
                   delivered, log>>

-----------------------------------------------------------------------------
TakeMutex(c) == \/ \E rsp \in RspKinds : CmdBegin(c, rsp)
                \/ RxLock(c)
                \/ DequeueBegin(c)
                \/ DequeueNone(c)

Step(c) == \/ GetRsp(c) \/ RspCheck(c) \/ CmdEnd(c) \/ EndCheck(c)
           \/ CmdDone(c) \/ Return(c)
           \/ RxUnlock(c)
           \/ ReadNothing(c)
           \/ TryLock(c) \/ TryLockFails(c)
           \/ DequeueEmpty(c) \/ DequeueEnd(c)

Module == \/ ModuleRsp
          \/ \E code \in {"ok", "error"} : ModuleStatus(code)
          \/ \E kind \in UrcKinds : ModuleUrc(kind)

Next == \/ \E c \in Calls : \/ CallCmd(c) \/ CallHandleRx(c)
                            \/ TakeMutex(c) \/ Step(c)
                            \/ ReadToken(c) \/ ReadError(c)
        \/ Module
        \/ Expire

Spec == Init /\ [][Next]_vars

\* A thread keeps going and gets a mutex that is free again and again; bytes
\* on their way arrive; pollers poll; time passes. Nothing is assumed of the
\* module, nor of the reads that fail.
FairSpec == /\ Spec
            /\ \A t \in Threads :
                 /\ WF_vars(\E level \in {0, 1} : Step(<<t, level>>))
                 /\ SF_vars(\E level \in {0, 1} : TakeMutex(<<t, level>>))
            /\ SF_vars(\E c \in Calls : ReadToken(c))
            /\ \A t \in Pollers : WF_vars(CallHandleRx(<<t, 0>>))
            /\ WF_vars(Expire)

-----------------------------------------------------------------------------
Entry == [line : Message, payload : {"none", "data"}]
StatusCodes == {"none", "ok", "error", "timeout", "io"}

\* The variables have the values that their declarations in uCxAtClient_t and
\* the mutexes' owners allow; the queue is locked while an entry is open, and the
\* parser is in binary mode just when binary data is due.
TypeOK ==
    /\ pc \in [Calls -> Locations]
    /\ cmd \in [Calls -> 0 .. MaxCmds]
    /\ {cmdMutex, queueMutex, dequeueMutex} \subseteq Calls \cup {NoCall}
    /\ {executingCmd, expired, expecting, isBinaryRx} \subseteq BOOLEAN
    /\ status \in [code : StatusCodes, of : 0 .. MaxCmds]
    /\ pRspParams \in 0 .. MaxCmds
    /\ rspBinaryBuf \in 0 .. MaxCmds
    /\ binaryRx \in [state : {"rsp", "urc", "flush"}, buf : 0 .. MaxCmds]
    /\ fifo \in Seq(Entry)
    /\ open \in Message \cup {NoUrc}
    /\ taken \in Entry \cup {NoUrc}
    /\ queueMutex = NoCall <=> open = NoUrc
    /\ wire # <<>> => (isBinaryRx <=> Part \in {"len", "data"})
    /\ wire \in Seq([part : {"line", "soh", "len", "data"}, msg : Message])
    /\ pending \in Seq([cmd : CmdIds, rsp : {"none", "line", "binary"}])
    /\ cmds \in 0 .. MaxCmds
    /\ urcs \in 0 .. MaxUrcs
    /\ ioErrors \in 0 .. MaxIoErrors
    /\ delivered \in Seq(Message)
    /\ log \in [CmdIds -> [answer : StatusCodes, decided : [code : StatusCodes,
                                                            of : 0 .. MaxCmds],
                            rsp : 0 .. MaxCmds, data : SUBSET CmdIds,
                            result : StatusCodes \cup {"running"}]]

Executes(c) == pc[c] \in InCommand
Parses(c) == Executes(c) \/ pc[c] \in {"rxRead", "rxUnlock"}
Drains(c) == pc[c] \in {"locked", "empty", "callback"}

\* The client state shared by all threads has one user at a time: the call that
\* owns cmdMutex is the only one between cmdBeginF() and the end of cmdEnd(), or
\* in handleRxData(), and executingCmd is true just when that is a command. The
\* assertions of cmdBeginF() and cmdEnd() on executingCmd hold with it.
OneCommandAtATime ==
    /\ \A c \in Calls : Parses(c) <=> cmdMutex = c
    /\ executingCmd <=> \E c \in Calls : Executes(c)

\* One callback at a time, whichever threads drain the queue, and the assertion
\* of DequeueBegin(): a thread that may take an entry finds none handed out.
OneCallbackAtATime ==
    /\ \A c \in Calls : Drains(c) <=> dequeueMutex = c
    /\ \A c \in Calls : pc[c] = "locked" => taken = NoUrc
    /\ taken # NoUrc => \E c \in Calls : pc[c] = "callback"

\* No thread waits for a mutex that it has locked itself, in this call or in
\* the one around it: cmdMutex in cmdBeginF() and HandleRx, queueMutex in
\* DequeueBegin() while the entry of a binary URC is open.
NoThreadWaitsForItself ==
    \A c \in Calls :
        /\ pc[c] \in {"cmdLock", "rxLock"} /\ cmdMutex # NoCall
             => cmdMutex[1] # c[1]
        /\ pc[c] = "locked" /\ queueMutex # NoCall => queueMutex[1] # c[1]

\* The callback sees the URCs in the order in which the module sent them and
\* none of them twice, whether they were read by a command or by HandleRx, with
\* binary data or without, and whoever drains the queue.
UrcsInOrder ==
    \A i, j \in 1 .. Len(delivered) :
        i < j /\ delivered[i].type = "urc" /\ delivered[j].type = "urc"
          => delivered[i].id < delivered[j].id

\* Without timeouts and read errors a command ends on the status that the
\* module gave for it, gets its own response and no one else's, and in its
\* binary buffer its own data; the URC callback never gets a response.
OwnAnswers ==
    /\ \A i \in CmdIds : /\ log[i].decided.of \in {0, i}
                         /\ log[i].decided.code = log[i].answer
                             \/ log[i].decided = NoStatus
                         /\ log[i].rsp \in {0, i}
                         /\ log[i].data \subseteq {i}
    /\ \A i \in 1 .. Len(delivered) : delivered[i].type = "urc"

\* A command that ends with OK has not missed its response: GetRspParamLine()
\* gave it, and the binary data with it, before the status was accepted.
ResponseBeforeStatus ==
    \A c \in Calls : pc[c] = "rspCheck" => status.code # "ok"

\* CmdEnd returns the status on which the command has ended.
\* (u_cx_at_client.h: "0 on status OK, -1 on status ERROR")
ReturnsDecided ==
    \A i \in CmdIds : log[i].result # "running"
                         => log[i].result = log[i].decided.code

\* Every command returns, even when the module does not answer and while other
\* threads poll and execute commands of their own: the timeout sees to it. (There
\* are no more than MaxCmds, so a time comes when none is running.)
EveryCommandReturns ==
    LET Running(i) == cmds >= i /\ log[i].result = "running"
    IN  (\E i \in CmdIds : Running(i)) ~> \A i \in CmdIds : ~Running(i)

\* What the module sends does not stay unread for ever when no one executes a
\* command, and a URC in the queue is given to the callback although processUrcs()
\* gives up when another thread is at the queue: all of it is handled.
InputIsHandled ==
    wire # <<>> \/ fifo # <<>> ~> wire = <<>> /\ fifo = <<>>
=============================================================================
