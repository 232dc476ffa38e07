--------------------------- MODULE AtClientProofs ---------------------------
(***************************************************************************)
(* Theorems about AtClient, for every number of threads, whatever they and *)
(* the URC callback call. First, the parser has one user at a time, the    *)
(* URC callback is called by one thread at a time, and, under the          *)
(* hypotheses of NoSelfDeadlock, no thread waits for a mutex of its own.   *)
(*                                                                         *)
(* The first two come from the same fact about a mutex: the call that owns *)
(* it is the one that stands in the section the mutex protects. A step     *)
(* moves one call; most steps keep it in its section or outside of it and  *)
(* leave the mutex alone, and one lemma covers these. The steps that take  *)
(* or release a mutex are looked at one by one. The third needs besides    *)
(* that calls are nested in the callback only, and that the wire holds     *)
(* whole messages: an entry of the URC queue that is open is closed by the *)
(* read that comes next.                                                   *)
(*                                                                         *)
(* Then what becomes of the messages that the client reads. The URC        *)
(* callback gets the URCs in the order in which the module sent them, and  *)
(* every variable keeps its type: both with time-outs, messages in pieces  *)
(* and failing reads. Without time-outs and failing reads, every command   *)
(* gets its own answers.                                                   *)
(*                                                                         *)
(* The invariant follows the messages on their way: from the module over   *)
(* the wire into the URC queue and to the callback. A read takes the next  *)
(* token off the wire, and the parser knows what kind it is (TrafficInv);  *)
(* the entry that is open in the queue is the message whose data comes     *)
(* next (QueueInv), and no URC overtakes another one (OrderInv).           *)
(*                                                                         *)
(* For the answers it follows the command that is executing: what the      *)
(* module has yet to send for it and what is on the wire are its own, and  *)
(* nothing of it is left when it ends (LineInv); the parser expects its    *)
(* response before that can be read, and its binary data goes to its own   *)
(* buffer (ReadyInv); OK comes behind the response (FirstInv).             *)
(***************************************************************************)
EXTENDS AtClient, SequenceTheorems, TLAPS

-----------------------------------------------------------------------------
(* Steps as moves. *)

\* Call c moves to location l.
Moves(c, l) == pc[c] \in Locations /\ l \in Locations /\ pc' = [pc EXCEPT ![c] = l]

PcOK == pc \in [Calls -> Locations]

\* handleRxData() returns into the loop that it was called from.
LEMMA Returns ==
    ASSUME NEW c \in Calls, PcOK, pc[c] \in Reading, ReturnRsp(c) \/ ReturnNoRsp(c)
    PROVE  \/ pc[c] = "rspRead" /\ (Moves(c, "begun") \/ Moves(c, "rspCheck"))
           \/ pc[c] = "endRead" /\ Moves(c, "endCheck")
           \/ pc[c] = "rxRead" /\ Moves(c, "rxUnlock")
<1>1. CASE pc[c] = "rspRead"
  BY <1>1 DEF ReturnRsp, ReturnNoRsp, Goto, Moves, Locations, Reading, InCommand
<1>2. CASE pc[c] = "endRead"
  BY <1>2 DEF ReturnRsp, ReturnNoRsp, Goto, Moves, Locations, Reading, InCommand
<1>3. CASE pc[c] = "rxRead"
  BY <1>3 DEF ReturnRsp, ReturnNoRsp, Goto, Moves, Locations, Reading, InCommand
<1>. QED BY <1>1, <1>2, <1>3 DEF Reading

\* A read leaves the mutexes alone, and its call where it is or in the loop it reads for.
LEMMA ReadMoves ==
    ASSUME NEW c \in Calls, PcOK, ReadToken(c) \/ ReadNothing(c) \/ ReadError(c)
    PROVE  /\ UNCHANGED <<cmdMutex, dequeueMutex, executingCmd, taken>>
           /\ \/ UNCHANGED pc
              \/ pc[c] = "rspRead" /\ (Moves(c, "begun") \/ Moves(c, "rspCheck"))
              \/ pc[c] = "endRead" /\ Moves(c, "endCheck")
              \/ pc[c] = "rxRead" /\ Moves(c, "rxUnlock")
<1>1. CASE ReadNothing(c)
  BY <1>1, Returns DEF ReadNothing, clientVars, queueVars
<1>2. CASE ReadError(c)
  BY <1>2, Returns DEF ReadError, queueVars
<1>3. CASE ReadToken(c)
  <2>1. /\ \E parts : Reads(c, parts)
        /\ UNCHANGED pc \/ ReturnRsp(c) \/ ReturnNoRsp(c)
    BY <1>3 DEF ReadToken, ReadRsp, ReadStatus, ReadUrc, ReadUnexpected, ReadSoh,
                ReadLengthOfRsp, ReadLengthOfUrc, ReadLengthNoRoom, ReadDataOfRsp,
                ReadDataOfUrc, ReadDataToFlush
  <2>2. pc[c] \in Reading /\ UNCHANGED <<cmdMutex, dequeueMutex, executingCmd, taken>>
    BY <2>1 DEF Reads
  <2>. QED BY <2>1, <2>2, Returns
<1>. QED BY <1>1, <1>2, <1>3

-----------------------------------------------------------------------------
(* One command at a time. *)

CommandInv ==
    /\ PcOK /\ executingCmd \in BOOLEAN /\ cmdMutex \in Calls \cup {NoCall}
    /\ OneCommandAtATime

ParserLocations == InCommand \cup {"rxRead", "rxUnlock"}

\* A move within a command, within HandleRx's section or outside of both.
LEMMA CommandStays ==
    ASSUME CommandInv, NEW c \in Calls, NEW l, Moves(c, l),
           l \in InCommand <=> pc[c] \in InCommand,
           l \in ParserLocations <=> pc[c] \in ParserLocations,
           UNCHANGED <<cmdMutex, executingCmd>>
    PROVE  CommandInv'
<1>1. PcOK'
  BY DEF CommandInv, PcOK, Moves
<1>2. \A d \in Calls : /\ Executes(d)' <=> Executes(d)
                       /\ Parses(d)' <=> Parses(d)
  BY DEF CommandInv, PcOK, Moves, Executes, Parses, ParserLocations
<1>. QED BY <1>1, <1>2 DEF CommandInv, OneCommandAtATime

LEMMA CommandUnmoved ==
    ASSUME CommandInv, UNCHANGED <<pc, cmdMutex, executingCmd>>
    PROVE  CommandInv'
BY DEF CommandInv, PcOK, OneCommandAtATime, Parses, Executes

\* Taking cmdMutex when it is free: no call is in the parser before.
LEMMA TakesParser ==
    ASSUME CommandInv, NEW c \in Calls, NEW l \in ParserLocations, Moves(c, l),
           cmdMutex = NoCall, cmdMutex' = c, executingCmd' = (l \in InCommand)
    PROVE  CommandInv'
<1>1. \A d \in Calls : ~Parses(d) /\ ~Executes(d)
  BY CallsAssumption DEF CommandInv, OneCommandAtATime, Parses
<1>2. /\ PcOK'
      /\ \A d \in Calls \ {c} : pc'[d] = pc[d]
      /\ pc'[c] = l
  BY DEF CommandInv, PcOK, Moves
<1>3. \A d \in Calls \ {c} : ~Parses(d)' /\ ~Executes(d)'
  BY <1>1, <1>2 DEF Parses, Executes
<1>4. Parses(c)' /\ (Executes(c)' <=> l \in InCommand)
  BY <1>2 DEF Parses, Executes, ParserLocations
<1>5. executingCmd' \in BOOLEAN
  OBVIOUS
<1>6. executingCmd' <=> \E d \in Calls : Executes(d)'
  BY <1>3, <1>4
<1>7. \A d \in Calls : Parses(d)' <=> cmdMutex' = d
  BY <1>3, <1>4
<1>. QED BY <1>2, <1>5, <1>6, <1>7 DEF CommandInv, OneCommandAtATime

\* Releasing it: only its owner is in the parser.
LEMMA LeavesParser ==
    ASSUME CommandInv, NEW c \in Calls, NEW l, l \notin ParserLocations, Moves(c, l),
           pc[c] \in ParserLocations, cmdMutex' = NoCall, executingCmd' = FALSE
    PROVE  CommandInv'
<1>1. Parses(c) /\ cmdMutex = c
  BY DEF CommandInv, OneCommandAtATime, Parses, Executes, ParserLocations
<1>2. \A d \in Calls \ {c} : ~Parses(d) /\ ~Executes(d)
  BY <1>1 DEF CommandInv, OneCommandAtATime, Parses
<1>3. /\ PcOK'
      /\ \A d \in Calls \ {c} : pc'[d] = pc[d]
      /\ pc'[c] = l
  BY DEF CommandInv, PcOK, Moves
<1>4. \A d \in Calls : ~Parses(d)' /\ ~Executes(d)'
  BY <1>2, <1>3 DEF Parses, Executes, ParserLocations
<1>. QED BY <1>3, <1>4, CallsAssumption DEF CommandInv, OneCommandAtATime

\* The steps of processUrcs() are outside of the parser.
LEMMA DrainKeepsCommand ==
    ASSUME CommandInv, NEW c \in Calls,
           \/ TryLock(c) \/ TryLockFails(c) \/ DequeueBegin(c) \/ DequeueNone(c)
           \/ DequeueEmpty(c) \/ DequeueEnd(c)
    PROVE  CommandInv'
<1>1. UNCHANGED <<cmdMutex, executingCmd>>
  BY DEF TryLock, TryLockFails, DequeueBegin, DequeueNone, DequeueEmpty, DequeueEnd,
         clientVars
<1>2. \E l \in {"locked", "ret", "callback", "empty", "drain"} :
          pc[c] \in {"drain", "locked", "empty", "callback"} /\ Goto(c, l)
  BY DEF TryLock, TryLockFails, DequeueBegin, DequeueNone, DequeueEmpty, DequeueEnd
<1>3. PICK l \in {"locked", "ret", "callback", "empty", "drain"} :
          pc[c] \in {"drain", "locked", "empty", "callback"} /\ Goto(c, l)
  BY <1>2
<1>4. /\ l \notin ParserLocations /\ pc[c] \notin ParserLocations
      /\ l \notin InCommand /\ pc[c] \notin InCommand
      /\ Moves(c, l)
  BY <1>3 DEF ParserLocations, InCommand, Moves, Locations, Goto
<1>. QED BY <1>1, <1>4, CommandStays

\* The steps of a command between those that take and release cmdMutex.
LEMMA StepsOfCommand ==
    ASSUME CommandInv, NEW c \in Calls,
           GetRsp(c) \/ RspCheck(c) \/ CmdEnd(c) \/ EndCheck(c)
    PROVE  CommandInv'
<1>1. UNCHANGED <<cmdMutex, executingCmd>>
  BY DEF GetRsp, RspCheck, CmdEnd, EndCheck, clientVars
<1>2. \E l \in {"rspRead", "begun", "endRead", "endDone"} :
          pc[c] \in {"getRsp", "rspCheck", "begun", "endCheck"} /\ Goto(c, l)
  BY DEF GetRsp, RspCheck, CmdEnd, EndCheck
<1>3. PICK l \in {"rspRead", "begun", "endRead", "endDone"} :
          pc[c] \in {"getRsp", "rspCheck", "begun", "endCheck"} /\ Goto(c, l)
  BY <1>2
<1>4. /\ l \in ParserLocations /\ pc[c] \in ParserLocations
      /\ l \in InCommand /\ pc[c] \in InCommand
      /\ Moves(c, l)
  BY <1>3 DEF ParserLocations, InCommand, Moves, Locations, Goto
<1>. QED BY <1>1, <1>4, CommandStays

\* Calling and returning happen outside of the parser.
LEMMA CallsKeepCommand ==
    ASSUME CommandInv, NEW c \in Calls, CallCmd(c) \/ CallHandleRx(c) \/ Return(c)
    PROVE  CommandInv'
<1>1. UNCHANGED <<cmdMutex, executingCmd>>
  BY DEF CallCmd, CallHandleRx, Return, clientVars
<1>2. \E l \in {"cmdLock", "rxLock", "idle"} : pc[c] \in {"idle", "ret"} /\ Goto(c, l)
  BY DEF CallCmd, CallHandleRx, Return, MayCall
<1>3. PICK l \in {"cmdLock", "rxLock", "idle"} : pc[c] \in {"idle", "ret"} /\ Goto(c, l)
  BY <1>2
<1>4. /\ l \notin ParserLocations /\ pc[c] \notin ParserLocations
      /\ l \notin InCommand /\ pc[c] \notin InCommand
      /\ Moves(c, l)
  BY <1>3 DEF ParserLocations, InCommand, Moves, Locations, Goto
<1>. QED BY <1>1, <1>4, CommandStays

\* A read stays in the command, or in HandleRx.
LEMMA ReadsKeepCommand ==
    ASSUME CommandInv, NEW c \in Calls, ReadToken(c) \/ ReadNothing(c) \/ ReadError(c)
    PROVE  CommandInv'
<1>1. PcOK
  BY DEF CommandInv
<1>2. /\ UNCHANGED <<cmdMutex, executingCmd>>
      /\ \/ UNCHANGED pc
         \/ pc[c] = "rspRead" /\ (Moves(c, "begun") \/ Moves(c, "rspCheck"))
         \/ pc[c] = "endRead" /\ Moves(c, "endCheck")
         \/ pc[c] = "rxRead" /\ Moves(c, "rxUnlock")
  BY <1>1, ReadMoves
<1>3. CASE UNCHANGED pc
  BY <1>2, <1>3, CommandUnmoved
<1>4. /\ {"rspRead", "begun", "rspCheck", "endRead", "endCheck"} \subseteq InCommand
      /\ "rxRead" \notin InCommand /\ "rxUnlock" \notin InCommand
  BY DEF InCommand
<1>5. CASE pc[c] = "rspRead" /\ Moves(c, "begun")
  BY <1>2, <1>4, <1>5, CommandStays DEF ParserLocations
<1>6. CASE pc[c] = "rspRead" /\ Moves(c, "rspCheck")
  BY <1>2, <1>4, <1>6, CommandStays DEF ParserLocations
<1>7. CASE pc[c] = "endRead" /\ Moves(c, "endCheck")
  BY <1>2, <1>4, <1>7, CommandStays DEF ParserLocations
<1>8. CASE pc[c] = "rxRead" /\ Moves(c, "rxUnlock")
  BY <1>2, <1>4, <1>8, CommandStays DEF ParserLocations
<1>. QED BY <1>2, <1>3, <1>5, <1>6, <1>7, <1>8

LEMMA CommandStep == CommandInv /\ [Next]_vars => CommandInv'
<1>. SUFFICES ASSUME CommandInv, [Next]_vars PROVE CommandInv'
  OBVIOUS
<1>1. CASE UNCHANGED vars
  BY <1>1, CommandUnmoved DEF vars, clientVars
<1>2. CASE Module \/ Expire
  BY <1>2, CommandUnmoved DEF Module, ModuleRsp, ModuleStatus, ModuleUrc, Expire, clientVars
<1>3. ASSUME NEW c \in Calls, CallCmd(c) \/ CallHandleRx(c) \/ Return(c)
      PROVE  CommandInv'
  BY <1>3, CallsKeepCommand
<1>4. ASSUME NEW c \in Calls, NEW rsp \in RspKinds, CmdBegin(c, rsp)
      PROVE  CommandInv'
  <2>1. PICK l \in {"begun", "getRsp"} : Goto(c, l)
    BY <1>4 DEF CmdBegin
  <2>2. l \in ParserLocations /\ l \in InCommand /\ Moves(c, l)
    BY <1>4, <2>1 DEF CmdBegin, Moves, Locations, ParserLocations, InCommand, Goto
  <2>. QED BY <1>4, <2>2, TakesParser DEF CmdBegin, MutexFree
<1>5. ASSUME NEW c \in Calls, RxLock(c)
      PROVE  CommandInv'
  <2>1. ~executingCmd
    BY <1>5, CallsAssumption DEF RxLock, CommandInv, OneCommandAtATime, Parses
  <2>2. /\ Moves(c, "rxRead") /\ "rxRead" \in ParserLocations /\ "rxRead" \notin InCommand
    BY <1>5, <2>1 DEF RxLock, RxLockedAt, Goto, Moves, Locations, ParserLocations, InCommand,
                      Reading
  <2>3. executingCmd' = ("rxRead" \in InCommand)
    <3>1. UNCHANGED executingCmd
      BY <1>5 DEF RxLock, clientVars
    <3>2. executingCmd \in BOOLEAN
      BY DEF CommandInv
    <3>. QED BY <2>1, <2>2, <3>1, <3>2
  <2>. QED BY <1>5, <2>2, <2>3, TakesParser DEF RxLock
<1>6. ASSUME NEW c \in Calls, CmdDone(c)
      PROVE  CommandInv'
  <2>1. /\ Moves(c, "drain") /\ pc[c] \in ParserLocations /\ "drain" \notin ParserLocations
    BY <1>6 DEF CmdDone, Goto, Moves, Locations, ParserLocations, InCommand
  <2>. QED BY <1>6, <2>1, LeavesParser DEF CmdDone, UnlockAtEnd
<1>7. ASSUME NEW c \in Calls, RxUnlock(c)
      PROVE  CommandInv'
  <2>1. /\ Moves(c, "drain") /\ pc[c] \in ParserLocations /\ "drain" \notin ParserLocations
        /\ pc[c] \notin InCommand
    BY <1>7 DEF RxUnlock, Goto, Moves, Locations, ParserLocations, InCommand
  <2>2. ~executingCmd
    BY <2>1 DEF CommandInv, OneCommandAtATime, Parses, Executes, ParserLocations
  <2>3. executingCmd' = FALSE
    BY <1>7, <2>2 DEF RxUnlock, clientVars, CommandInv, OneCommandAtATime
  <2>. QED BY <1>7, <2>1, <2>3, LeavesParser DEF RxUnlock
<1>8. ASSUME NEW c \in Calls, GetRsp(c) \/ RspCheck(c) \/ CmdEnd(c) \/ EndCheck(c)
      PROVE  CommandInv'
  BY <1>8, StepsOfCommand
<1>9. ASSUME NEW c \in Calls, ReadToken(c) \/ ReadNothing(c) \/ ReadError(c)
      PROVE  CommandInv'
  BY <1>9, ReadsKeepCommand
<1>10. ASSUME NEW c \in Calls,
              \/ TryLock(c) \/ TryLockFails(c) \/ DequeueBegin(c) \/ DequeueNone(c)
              \/ DequeueEmpty(c) \/ DequeueEnd(c)
       PROVE  CommandInv'
  BY <1>10, DrainKeepsCommand
<1>. QED BY <1>1, <1>2, <1>3, <1>4, <1>5, <1>6, <1>7, <1>8, <1>9, <1>10
         DEF Next, TakeMutex, Step

\* At the start every call is idle and cmdMutex is free.
LEMMA CommandInit == Init => CommandInv
<1>. SUFFICES ASSUME Init PROVE CommandInv
  OBVIOUS
<1>1. \A c \in Calls : pc[c] = "idle"
  BY DEF Init
<1>2. PcOK
  BY DEF Init, PcOK, Locations
<1>3. \A c \in Calls : ~Parses(c) /\ ~Executes(c)
  BY <1>1 DEF Parses, Executes, InCommand
<1>. QED BY <1>2, <1>3, CallsAssumption DEF Init, CommandInv, OneCommandAtATime

\* The parser, its buffer and the state of the command have one user at a time: the
\* call that owns cmdMutex, from cmdBeginF() to the end of cmdEnd() or in
\* handleRxData(); executingCmd tells which of the two it is.
THEOREM OneCommand == Spec => []OneCommandAtATime
<1>1. CommandInv => OneCommandAtATime
  BY DEF CommandInv
<1>. QED BY CommandInit, CommandStep, <1>1, PTL DEF Spec

-----------------------------------------------------------------------------
(* One callback at a time. *)

DrainLocations == {"locked", "empty", "callback"}

CallbackInv == PcOK /\ OneCallbackAtATime

\* A move within processUrcs()'s section, or outside of it, that hands nothing out.
LEMMA CallbackStays ==
    ASSUME CallbackInv, NEW c \in Calls, NEW l, Moves(c, l), l # "locked",
           l \in DrainLocations <=> pc[c] \in DrainLocations,
           l = "callback" <=> pc[c] = "callback",
           UNCHANGED <<dequeueMutex, taken>>
    PROVE  CallbackInv'
<1>1. /\ PcOK'
      /\ \A d \in Calls \ {c} : pc'[d] = pc[d]
      /\ pc'[c] = l
  BY DEF CallbackInv, PcOK, Moves
<1>2. \A d \in Calls : Drains(d)' <=> Drains(d)
  BY <1>1 DEF Drains, DrainLocations
<1>3. \A d \in Calls : pc'[d] = "locked" => pc[d] = "locked"
  BY <1>1
<1>4. \A d \in Calls : pc[d] = "callback" => pc'[d] = "callback"
  BY <1>1
<1>5. taken' # NoUrc => \E d \in Calls : pc'[d] = "callback"
  BY <1>4 DEF CallbackInv, OneCallbackAtATime
<1>. QED BY <1>1, <1>2, <1>3, <1>5 DEF CallbackInv, OneCallbackAtATime

LEMMA CallbackUnmoved ==
    ASSUME CallbackInv, UNCHANGED <<pc, dequeueMutex, taken>>
    PROVE  CallbackInv'
BY DEF CallbackInv, PcOK, OneCallbackAtATime, Drains

\* A step of the owner of dequeueMutex: it goes on with the mutex or without it, and
\* with an entry handed out only if it goes on to the callback.
LEMMA OwnerMoves ==
    ASSUME CallbackInv, NEW c \in Calls, NEW l, Moves(c, l),
           \A d \in Calls \ {c} : ~Drains(d),
           dequeueMutex' = IF l \in DrainLocations THEN c ELSE NoCall,
           l # "callback" => taken' = NoUrc
    PROVE  CallbackInv'
<1>1. /\ PcOK'
      /\ \A d \in Calls \ {c} : pc'[d] = pc[d]
      /\ pc'[c] = l
  BY DEF CallbackInv, PcOK, Moves
<1>2. \A d \in Calls \ {c} : ~Drains(d)' /\ pc'[d] # "locked"
  BY <1>1 DEF Drains
<1>3. Drains(c)' <=> l \in DrainLocations
  BY <1>1 DEF Drains, DrainLocations
<1>4. \A d \in Calls : Drains(d)' <=> dequeueMutex' = d
  BY <1>2, <1>3, CallsAssumption
<1>5. \A d \in Calls : pc'[d] = "locked" => taken' = NoUrc
  BY <1>1, <1>2
<1>6. taken' # NoUrc => \E d \in Calls : pc'[d] = "callback"
  BY <1>1
<1>. QED BY <1>1, <1>4, <1>5, <1>6 DEF CallbackInv, OneCallbackAtATime

\* What the owner's steps start from: no one else drains.
LEMMA OwnerIsAlone ==
    ASSUME CallbackInv, NEW c \in Calls, Drains(c)
    PROVE  dequeueMutex = c /\ \A d \in Calls \ {c} : ~Drains(d)
BY DEF CallbackInv, OneCallbackAtATime

\* The steps of commands and of HandleRx, up to processUrcs() and behind it.
LEMMA OthersKeepCallback ==
    ASSUME CallbackInv, NEW c \in Calls,
           \/ CallCmd(c) \/ CallHandleRx(c) \/ Return(c)
           \/ \E rsp \in RspKinds : CmdBegin(c, rsp)
           \/ GetRsp(c) \/ RspCheck(c) \/ CmdEnd(c) \/ EndCheck(c) \/ CmdDone(c)
           \/ RxLock(c) \/ RxUnlock(c) \/ TryLockFails(c)
    PROVE  CallbackInv'
<1>. DEFINE From == {"idle", "ret", "cmdLock", "getRsp", "rspCheck", "begun", "endCheck",
                     "endDone", "rxLock", "rxUnlock", "drain"}
            To == {"cmdLock", "rxLock", "idle", "begun", "getRsp", "rspRead", "endRead",
                   "endDone", "drain", "rxRead", "rxUnlock", "ret"}
<1>1. UNCHANGED <<dequeueMutex, taken>>
  BY DEF CallCmd, CallHandleRx, Return, CmdBegin, GetRsp, RspCheck, CmdEnd, EndCheck,
         CmdDone, RxLock, RxUnlock, TryLockFails, queueVars
<1>2. \E l \in To : pc[c] \in From /\ Goto(c, l)
  <2>1. CASE CallCmd(c) \/ CallHandleRx(c) \/ Return(c) \/ TryLockFails(c)
    BY <2>1 DEF CallCmd, CallHandleRx, Return, TryLockFails, MayCall
  <2>2. CASE \E rsp \in RspKinds : CmdBegin(c, rsp)
    BY <2>2 DEF CmdBegin
  <2>3. CASE GetRsp(c) \/ RspCheck(c) \/ CmdEnd(c) \/ EndCheck(c) \/ CmdDone(c)
    BY <2>3 DEF GetRsp, RspCheck, CmdEnd, EndCheck, CmdDone
  <2>4. CASE RxLock(c) \/ RxUnlock(c)
    BY <2>4 DEF RxLock, RxUnlock, RxLockedAt
  <2>. QED BY <2>1, <2>2, <2>3, <2>4
<1>3. PICK l \in To : pc[c] \in From /\ Goto(c, l)
  BY <1>2
<1>4. l \notin DrainLocations /\ pc[c] \notin DrainLocations
  BY <1>3 DEF DrainLocations
<1>5. Moves(c, l)
  BY <1>3 DEF Moves, Goto, Locations, InCommand, Reading
<1>. QED BY <1>1, <1>4, <1>5, CallbackStays DEF DrainLocations

LEMMA ReadsKeepCallback ==
    ASSUME CallbackInv, NEW c \in Calls, ReadToken(c) \/ ReadNothing(c) \/ ReadError(c)
    PROVE  CallbackInv'
<1>. DEFINE To == {"begun", "rspCheck", "endCheck", "rxUnlock"}
<1>1. PcOK
  BY DEF CallbackInv
<1>2. /\ UNCHANGED <<dequeueMutex, taken>>
      /\ \/ UNCHANGED pc
         \/ \E l \in To : pc[c] \in {"rspRead", "endRead", "rxRead"} /\ Moves(c, l)
  BY <1>1, ReadMoves
<1>3. CASE UNCHANGED pc
  BY <1>2, <1>3, CallbackUnmoved
<1>4. ASSUME NEW l \in To, pc[c] \in {"rspRead", "endRead", "rxRead"}, Moves(c, l)
      PROVE  CallbackInv'
  <2>1. l \notin DrainLocations /\ pc[c] \notin DrainLocations
    BY <1>4 DEF DrainLocations
  <2>. QED BY <1>2, <1>4, <2>1, CallbackStays DEF DrainLocations
<1>. QED BY <1>2, <1>3, <1>4

LEMMA CallbackStep == CallbackInv /\ [Next]_vars => CallbackInv'
<1>. SUFFICES ASSUME CallbackInv, [Next]_vars PROVE CallbackInv'
  OBVIOUS
<1>1. CASE UNCHANGED vars
  BY <1>1, CallbackUnmoved DEF vars, queueVars
<1>2. CASE Module \/ Expire
  BY <1>2, CallbackUnmoved DEF Module, ModuleRsp, ModuleStatus, ModuleUrc, Expire, queueVars
<1>3. ASSUME NEW c \in Calls,
             \/ CallCmd(c) \/ CallHandleRx(c) \/ Return(c)
             \/ \E rsp \in RspKinds : CmdBegin(c, rsp)
             \/ GetRsp(c) \/ RspCheck(c) \/ CmdEnd(c) \/ EndCheck(c) \/ CmdDone(c)
             \/ RxLock(c) \/ RxUnlock(c) \/ TryLockFails(c)
      PROVE  CallbackInv'
  BY <1>3, OthersKeepCallback
<1>4. ASSUME NEW c \in Calls, ReadToken(c) \/ ReadNothing(c) \/ ReadError(c)
      PROVE  CallbackInv'
  BY <1>4, ReadsKeepCallback
<1>5. ASSUME NEW c \in Calls, TryLock(c)
      PROVE  CallbackInv'
  <2>1. \A d \in Calls : ~Drains(d)
    BY <1>5, CallsAssumption DEF TryLock, QueueFree, CallbackInv, OneCallbackAtATime
  <2>2. UNCHANGED taken /\ taken = NoUrc
    BY <1>5, <2>1 DEF TryLock, queueVars, CallbackInv, OneCallbackAtATime, Drains
  <2>3. Moves(c, "locked") /\ "locked" \in DrainLocations
    BY <1>5 DEF TryLock, Goto, Moves, Locations, DrainLocations
  <2>. QED BY <1>5, <2>1, <2>2, <2>3, OwnerMoves DEF TryLock
<1>6. ASSUME NEW c \in Calls, DequeueBegin(c)
      PROVE  CallbackInv'
  <2>1. dequeueMutex = c /\ \A d \in Calls \ {c} : ~Drains(d)
    BY <1>6, OwnerIsAlone DEF DequeueBegin, Drains
  <2>2. Moves(c, "callback") /\ "callback" \in DrainLocations
    BY <1>6 DEF DequeueBegin, Goto, Moves, Locations, DrainLocations
  <2>. QED BY <1>6, <2>1, <2>2, OwnerMoves DEF DequeueBegin
<1>7. ASSUME NEW c \in Calls, DequeueNone(c)
      PROVE  CallbackInv'
  <2>1. dequeueMutex = c /\ \A d \in Calls \ {c} : ~Drains(d)
    BY <1>7, OwnerIsAlone DEF DequeueNone, Drains
  <2>2. taken' = NoUrc
    BY <1>7 DEF DequeueNone, queueVars, CallbackInv, OneCallbackAtATime
  <2>3. Moves(c, "empty") /\ "empty" \in DrainLocations
    BY <1>7 DEF DequeueNone, Goto, Moves, Locations, DrainLocations
  <2>. QED BY <1>7, <2>1, <2>2, <2>3, OwnerMoves DEF DequeueNone
<1>8. ASSUME NEW c \in Calls, DequeueEmpty(c)
      PROVE  CallbackInv'
  <2>1. dequeueMutex = c /\ \A d \in Calls \ {c} : ~Drains(d)
    BY <1>8, OwnerIsAlone DEF DequeueEmpty, Drains
  <2>2. taken = NoUrc
    <3>1. \A d \in Calls : pc[d] # "callback"
      BY <1>8, <2>1 DEF DequeueEmpty, Drains
    <3>. QED BY <3>1 DEF CallbackInv, OneCallbackAtATime
  <2>3. Moves(c, "ret") /\ "ret" \notin DrainLocations
    BY <1>8 DEF DequeueEmpty, Goto, Moves, Locations, DrainLocations
  <2>. QED BY <1>8, <2>1, <2>2, <2>3, OwnerMoves DEF DequeueEmpty, UnlockEmpty, queueVars
<1>9. ASSUME NEW c \in Calls, DequeueEnd(c)
      PROVE  CallbackInv'
  <2>1. dequeueMutex = c /\ \A d \in Calls \ {c} : ~Drains(d)
    BY <1>9, OwnerIsAlone DEF DequeueEnd, Drains
  <2>2. taken' = NoUrc
    BY <1>9 DEF DequeueEnd, RemoveEntry, Queue!DequeueEnd
  <2>3. Moves(c, "drain") /\ "drain" \notin DrainLocations
    BY <1>9 DEF DequeueEnd, Goto, Moves, Locations, DrainLocations
  <2>. QED BY <1>9, <2>1, <2>2, <2>3, OwnerMoves DEF DequeueEnd
<1>. QED BY <1>1, <1>2, <1>3, <1>4, <1>5, <1>6, <1>7, <1>8, <1>9 DEF Next, TakeMutex, Step

LEMMA CallbackInit == Init => CallbackInv
<1>. SUFFICES ASSUME Init PROVE CallbackInv
  OBVIOUS
<1>1. PcOK /\ \A c \in Calls : pc[c] = "idle"
  BY DEF Init, PcOK, Locations
<1>2. \A c \in Calls : ~Drains(c)
  BY <1>1 DEF Drains
<1>3. dequeueMutex = NoCall /\ taken = NoUrc
  BY DEF Init, Queue!Init
<1>. QED BY <1>1, <1>2, <1>3, CallsAssumption DEF CallbackInv, OneCallbackAtATime

\* The URC callback is called by one thread at a time, the owner of dequeueMutex, and
\* whoever is about to take an entry finds the last one removed.
THEOREM OneCallback == Spec => []OneCallbackAtATime
<1>1. CallbackInv => OneCallbackAtATime
  BY DEF CallbackInv
<1>. QED BY CallbackInit, CallbackStep, <1>1, PTL DEF Spec

-----------------------------------------------------------------------------
(* No thread waits for a mutex of its own. *)

\* A call inside another one is made by the callback.
NestInv == PcOK /\ \A t \in Threads : pc[<<t, 1>>] # "idle" => pc[<<t, 0>>] = "callback"

LEMMA NestStays ==
    ASSUME NestInv, NEW c \in Calls, NEW l, Moves(c, l), pc[c] # "idle", pc[c] # "callback"
    PROVE  NestInv'
<1>1. PcOK' /\ pc'[c] = l /\ \A d \in Calls \ {c} : pc'[d] = pc[d]
  BY DEF NestInv, PcOK, Moves
<1>2. ASSUME NEW t \in Threads, pc'[<<t, 1>>] # "idle"
      PROVE  pc'[<<t, 0>>] = "callback"
  <2>1. <<t, 0>> \in Calls /\ <<t, 1>> \in Calls /\ <<t, 0>> # <<t, 1>>
    BY DEF Calls
  <2>2. pc[<<t, 1>>] # "idle"
    BY <1>1, <1>2, <2>1
  <2>3. pc[<<t, 0>>] = "callback"
    BY <2>2 DEF NestInv
  <2>. QED BY <1>1, <2>1, <2>3
<1>. QED BY <1>1, <1>2 DEF NestInv

LEMMA NestUnmoved ==
    ASSUME NestInv, UNCHANGED pc
    PROVE  NestInv'
BY DEF NestInv, PcOK

\* A call begins where there is none, and inside another one only in the callback.
LEMMA NestCall ==
    ASSUME NestInv, PollInCmd = FALSE, NEW c \in Calls, CallCmd(c) \/ CallHandleRx(c)
    PROVE  NestInv'
<1>1. /\ pc[c] = "idle"
      /\ c[2] = 1 => pc[<<c[1], 0>>] = "callback"
  BY DEF CallCmd, CallHandleRx, MayCall, CallsFrom, Outer
<1>2. PICK l \in {"cmdLock", "rxLock"} : Goto(c, l)
  BY DEF CallCmd, CallHandleRx
<1>3. PcOK' /\ pc'[c] = l /\ \A d \in Calls \ {c} : pc'[d] = pc[d]
  BY <1>2 DEF Goto, NestInv, PcOK, Locations
<1>4. ASSUME NEW t \in Threads, pc'[<<t, 1>>] # "idle"
      PROVE  pc'[<<t, 0>>] = "callback"
  <2>1. <<t, 0>> \in Calls /\ <<t, 1>> \in Calls /\ <<t, 0>> # <<t, 1>>
    BY DEF Calls
  <2>2. CASE c = <<t, 1>>
    BY <1>1, <1>3, <2>1, <2>2
  <2>3. CASE c # <<t, 1>>
    BY <1>1, <1>3, <1>4, <2>1, <2>3 DEF NestInv
  <2>. QED BY <2>2, <2>3
<1>. QED BY <1>3, <1>4 DEF NestInv

\* The callback returns when the call inside it has.
LEMMA NestReturn ==
    ASSUME NestInv, NEW c \in Calls, DequeueEnd(c)
    PROVE  NestInv'
<1>1. /\ pc[c] = "callback" /\ Active(c)
      /\ pc' = [pc EXCEPT ![c] = "drain"]
  BY DEF DequeueEnd, Goto
<1>2. PcOK' /\ \A d \in Calls \ {c} : pc'[d] = pc[d]
  BY <1>1 DEF NestInv, PcOK, Locations
<1>3. ASSUME NEW t \in Threads, pc'[<<t, 1>>] # "idle"
      PROVE  pc'[<<t, 0>>] = "callback"
  <2>1. <<t, 0>> \in Calls /\ <<t, 1>> \in Calls /\ <<t, 0>> # <<t, 1>>
    BY DEF Calls
  <2>2. pc[<<t, 1>>] # "idle"
    BY <1>1, <1>2, <1>3, <2>1
  <2>3. pc[<<t, 0>>] = "callback"
    BY <2>2 DEF NestInv
  <2>4. c # <<t, 0>>
    BY <1>1, <2>2 DEF Active, Inner
  <2>. QED BY <1>2, <2>1, <2>3, <2>4
<1>. QED BY <1>2, <1>3 DEF NestInv

LEMMA NestStep ==
    ASSUME PollInCmd = FALSE
    PROVE  NestInv /\ [Next]_vars => NestInv'
<1>. SUFFICES ASSUME NestInv, [Next]_vars PROVE NestInv'
  OBVIOUS
<1>1. CASE UNCHANGED vars
  BY <1>1, NestUnmoved DEF vars
<1>2. CASE Module \/ Expire
  BY <1>2, NestUnmoved DEF Module, ModuleRsp, ModuleStatus, ModuleUrc, Expire
<1>3. ASSUME NEW c \in Calls, CallCmd(c) \/ CallHandleRx(c)
      PROVE  NestInv'
  BY <1>3, NestCall
<1>4. ASSUME NEW c \in Calls, DequeueEnd(c)
      PROVE  NestInv'
  BY <1>4, NestReturn
<1>5. ASSUME NEW c \in Calls, ReadToken(c) \/ ReadNothing(c) \/ ReadError(c)
      PROVE  NestInv'
  <2>1. PcOK
    BY DEF NestInv
  <2>2. UNCHANGED pc \/ \E l : Moves(c, l) /\ pc[c] # "idle" /\ pc[c] # "callback"
    BY <1>5, <2>1, ReadMoves
  <2>. QED BY <2>2, NestStays, NestUnmoved
<1>6. ASSUME NEW c \in Calls,
             \/ GetRsp(c) \/ RspCheck(c) \/ CmdEnd(c) \/ EndCheck(c) \/ CmdDone(c)
             \/ Return(c) \/ RxUnlock(c) \/ RxLock(c) \/ \E rsp \in RspKinds : CmdBegin(c, rsp)
      PROVE  NestInv'
  <2>. DEFINE To == {"begun", "getRsp", "rspRead", "endRead", "endDone", "drain", "rxRead",
                     "rxUnlock", "idle"}
  <2>1. \E l \in To : Goto(c, l)
    <3>1. CASE GetRsp(c) \/ RspCheck(c) \/ CmdEnd(c) \/ EndCheck(c) \/ CmdDone(c)
      BY <3>1 DEF GetRsp, RspCheck, CmdEnd, EndCheck, CmdDone
    <3>2. CASE Return(c) \/ RxUnlock(c) \/ RxLock(c)
      BY <3>2 DEF Return, RxUnlock, RxLock, RxLockedAt
    <3>3. CASE \E rsp \in RspKinds : CmdBegin(c, rsp)
      BY <3>3 DEF CmdBegin
    <3>. QED BY <1>6, <3>1, <3>2, <3>3
  <2>2. pc[c] # "idle" /\ pc[c] # "callback"
    BY <1>6 DEF GetRsp, RspCheck, CmdEnd, EndCheck, CmdDone, Return, RxUnlock, RxLock, CmdBegin
  <2>3. PICK l \in To : Goto(c, l)
    BY <2>1
  <2>4. Moves(c, l)
    BY <2>3 DEF NestInv, PcOK, Goto, Moves, Locations, InCommand, Reading
  <2>. QED BY <2>2, <2>4, NestStays
<1>7. ASSUME NEW c \in Calls,
             TryLock(c) \/ TryLockFails(c) \/ DequeueBegin(c) \/ DequeueNone(c) \/ DequeueEmpty(c)
      PROVE  NestInv'
  <2>1. \E l \in {"locked", "ret", "callback", "empty"} : Goto(c, l)
    BY <1>7 DEF TryLock, TryLockFails, DequeueBegin, DequeueNone, DequeueEmpty
  <2>2. pc[c] # "idle" /\ pc[c] # "callback"
    BY <1>7 DEF TryLock, TryLockFails, DequeueBegin, DequeueNone, DequeueEmpty
  <2>3. PICK l \in {"locked", "ret", "callback", "empty"} : Goto(c, l)
    BY <2>1
  <2>4. Moves(c, l)
    BY <2>3 DEF NestInv, PcOK, Goto, Moves, Locations
  <2>. QED BY <2>2, <2>4, NestStays
<1>. QED BY <1>1, <1>2, <1>3, <1>4, <1>5, <1>6, <1>7 DEF Next, TakeMutex, Step

\* Of two calls of a thread, one is in the callback.
LEMMA CallsOfAThread ==
    ASSUME NestInv, NEW c \in Calls, NEW d \in Calls, c # d, c[1] = d[1],
           pc[c] # "idle", pc[d] # "idle"
    PROVE  pc[c] = "callback" \/ pc[d] = "callback"
<1>1. PICK t \in Threads : c[1] = t
  BY DEF Calls
<1>2. \/ c = <<t, 0>> /\ d = <<t, 1>>
      \/ c = <<t, 1>> /\ d = <<t, 0>>
  <2>1. \A e \in Calls : e = <<e[1], 0>> \/ e = <<e[1], 1>>
    BY DEF Calls
  <2>2. c = <<t, 0>> \/ c = <<t, 1>>
    BY <1>1, <2>1
  <2>3. d = <<t, 0>> \/ d = <<t, 1>>
    BY <1>1, <2>1
  <2>. QED BY <2>2, <2>3
<1>3. pc[<<t, 1>>] # "idle"
  BY <1>2
<1>4. pc[<<t, 0>>] = "callback"
  BY <1>3 DEF NestInv
<1>. QED BY <1>2, <1>4

-----------------------------------------------------------------------------
(* What is on the wire: messages, whole. *)

Parts == {"line", "soh", "len", "data"}
Token == [part : Parts, msg : Message]
Order == [cmd : Nat, rsp : {"none", "line", "binary"}]

Whole(s) ==
    /\ \A i \in 1 .. Len(s) :
           /\ s[i].part = "soh" => i + 1 \in 1 .. Len(s) /\ s[i + 1].part = "len"
           /\ s[i].part = "len" => i + 1 \in 1 .. Len(s) /\ s[i + 1].part = "data"
    /\ \A i \in 1 .. Len(s) :
           s[i].part \in {"line", "data"} /\ i + 1 \in 1 .. Len(s)
             => s[i + 1].part \in {"line", "soh"}

LEMMA TokensFacts ==
    ASSUME NEW m \in Message
    PROVE  /\ Tokens(m) \in Seq(Token) /\ Len(Tokens(m)) >= 1
           /\ Whole(Tokens(m)) /\ Tokens(m)[1].part \in {"line", "soh"}
<1>1. CASE m.code # "binary"
  BY <1>1 DEF Tokens, Token, Parts, Whole
<1>2. CASE m.code = "binary"
  <2>1. Tokens(m) = [i \in 1 .. 3 |-> [part |-> <<"soh", "len", "data">>[i], msg |-> m]]
    BY <1>2 DEF Tokens
  <2>2. \A i \in 1 .. 3 : <<"soh", "len", "data">>[i] \in Parts
    BY DEF Parts
  <2>3. Tokens(m) \in [1 .. 3 -> Token]
    BY <2>1, <2>2 DEF Token
  <2>4. Tokens(m) \in Seq(Token) /\ Len(Tokens(m)) = 3
    <3>. DEFINE f == Tokens(m)
    <3>1. \A g \in [1 .. 3 -> Token] : g \in Seq(Token) /\ Len(g) = 3
      <4>. TAKE g \in [1 .. 3 -> Token]
      <4>1. 3 \in Nat
        OBVIOUS
      <4>2. g \in Seq(Token)
        BY <4>1, SeqDef
      <4>. QED BY <4>1, <4>2, LenProperties
    <3>. QED BY <2>3, <3>1
  <2>5. Tokens(m)[1].part = "soh" /\ Tokens(m)[2].part = "len" /\ Tokens(m)[3].part = "data"
    BY <2>1
  <2>. QED BY <2>4, <2>5 DEF Whole
<1>. QED BY <1>1, <1>2

LEMMA QueueFacts ==
    ASSUME NEW S, NEW s \in Seq(S), s # <<>>
    PROVE  /\ Head(s) \in S /\ Head(s) = s[1] /\ 1 \in 1 .. Len(s)
           /\ Tail(s) \in Seq(S)
OBVIOUS

\* A message is sent behind the others.
LEMMA SendFacts ==
    ASSUME NEW s \in Seq(Token), Whole(s), NEW t \in Seq(Token), Whole(t), Len(t) >= 1,
           t[1].part \in {"line", "soh"}
    PROVE  /\ s \o t \in Seq(Token) /\ Whole(s \o t) /\ s \o t # <<>>
           /\ IF s = <<>> THEN Head(s \o t) = t[1] ELSE Head(s \o t) = Head(s)
<1>. DEFINE u == s \o t
<1>1. /\ u \in Seq(Token) /\ Len(u) = Len(s) + Len(t)
      /\ \A i \in 1 .. Len(s) : u[i] = s[i]
      /\ \A i \in 1 .. Len(t) : u[Len(s) + i] = t[i]
  OBVIOUS
<1>2. \A i \in 1 .. Len(u) : i \in 1 .. Len(s) \/ \E j \in 1 .. Len(t) : i = Len(s) + j
  <2>. SUFFICES ASSUME NEW i \in 1 .. Len(u), i \notin 1 .. Len(s)
                PROVE  i - Len(s) \in 1 .. Len(t) /\ i = Len(s) + (i - Len(s))
    OBVIOUS
  <2>. QED BY <1>1
<1>3. ASSUME NEW i \in 1 .. Len(u)
      PROVE  /\ u[i].part = "soh" => i + 1 \in 1 .. Len(u) /\ u[i + 1].part = "len"
             /\ u[i].part = "len" => i + 1 \in 1 .. Len(u) /\ u[i + 1].part = "data"
  <2>1. CASE i \in 1 .. Len(s)
    BY <1>1, <2>1 DEF Whole
  <2>2. ASSUME NEW j \in 1 .. Len(t), i = Len(s) + j
        PROVE  /\ u[i].part = "soh" => i + 1 \in 1 .. Len(u) /\ u[i + 1].part = "len"
               /\ u[i].part = "len" => i + 1 \in 1 .. Len(u) /\ u[i + 1].part = "data"
    <3>1. u[i] = t[j] /\ (j + 1 \in 1 .. Len(t) => u[Len(s) + (j + 1)] = t[j + 1])
      BY <1>1, <2>2
    <3>2. /\ i + 1 = Len(s) + (j + 1)
          /\ j + 1 \in 1 .. Len(t) => i + 1 \in 1 .. Len(u)
      BY <1>1, <2>2
    <3>. QED BY <3>1, <3>2 DEF Whole
  <2>. QED BY <1>2, <2>1, <2>2
<1>4. ASSUME NEW i \in 1 .. Len(u), u[i].part \in {"line", "data"}, i + 1 \in 1 .. Len(u)
      PROVE  u[i + 1].part \in {"line", "soh"}
  <2>1. CASE i \in 1 .. Len(s) /\ i + 1 \in 1 .. Len(s)
    BY <1>1, <1>4, <2>1 DEF Whole
  <2>2. CASE i = Len(s)
    BY <1>1, <2>2
  <2>3. ASSUME NEW j \in 1 .. Len(t), i = Len(s) + j
        PROVE  u[i + 1].part \in {"line", "soh"}
    <3>1. j + 1 \in 1 .. Len(t) /\ i + 1 = Len(s) + (j + 1)
      <4>1. Len(s) \in Nat /\ Len(t) \in Nat /\ Len(u) = Len(s) + Len(t) /\ j \in Nat
        BY <1>1
      <4>2. i + 1 <= Len(u)
        BY <1>4, <4>1
      <4>. HIDE DEF u
      <4>. QED BY <2>3, <4>1, <4>2
    <3>2. u[i] = t[j] /\ u[i + 1] = t[j + 1]
      BY <1>1, <2>3, <3>1
    <3>. QED BY <1>4, <3>1, <3>2 DEF Whole
  <2>4. \/ i \in 1 .. Len(s) /\ i + 1 \in 1 .. Len(s)
        \/ i = Len(s)
        \/ \E j \in 1 .. Len(t) : i = Len(s) + j
    BY <1>2
  <2>. QED BY <2>1, <2>2, <2>3, <2>4
<1>5. Whole(u)
  BY <1>3, <1>4 DEF Whole
<1>6. u # <<>> /\ Head(u) = u[1]
  BY <1>1
<1>7. IF s = <<>> THEN u[1] = t[1] ELSE u[1] = s[1] /\ Head(s) = s[1]
  BY <1>1
<1>. QED BY <1>1, <1>5, <1>6, <1>7

\* A token is read.
LEMMA ReadFacts ==
    ASSUME NEW s \in Seq(Token), Whole(s), s # <<>>
    PROVE  /\ Tail(s) \in Seq(Token) /\ Whole(Tail(s))
           /\ Head(s).part = "soh" => Tail(s) # <<>> /\ Head(Tail(s)).part = "len"
           /\ Head(s).part = "len" => Tail(s) # <<>> /\ Head(Tail(s)).part = "data"
           /\ Head(s).part \in {"line", "data"} =>
                  Tail(s) = <<>> \/ Head(Tail(s)).part \in {"line", "soh"}
<1>. DEFINE t == Tail(s)
<1>1. /\ t \in Seq(Token) /\ Len(s) \in Nat \ {0} /\ Len(t) = Len(s) - 1 /\ Head(s) = s[1]
      /\ \A i \in 1 .. Len(t) : t[i] = s[i + 1]
  OBVIOUS
<1>2. t # <<>> <=> 2 \in 1 .. Len(s)
  <2>1. t # <<>> <=> Len(t) # 0
    BY <1>1, EmptySeq
  <2>. QED BY <1>1, <2>1
<1>3. t # <<>> => Head(t) = s[2]
  BY <1>1
<1>4. Whole(t)
  <2>1. \A i \in 1 .. Len(t) :
           /\ i + 1 \in 1 .. Len(s) /\ t[i] = s[i + 1]
           /\ (i + 1) + 1 \in 1 .. Len(s) <=> i + 1 \in 1 .. Len(t)
           /\ i + 1 \in 1 .. Len(t) => t[i + 1] = s[(i + 1) + 1]
    BY <1>1
  <2>2. ASSUME NEW i \in 1 .. Len(t)
        PROVE  /\ t[i].part = "soh" => i + 1 \in 1 .. Len(t) /\ t[i + 1].part = "len"
               /\ t[i].part = "len" => i + 1 \in 1 .. Len(t) /\ t[i + 1].part = "data"
    BY <2>1 DEF Whole
  <2>3. ASSUME NEW i \in 1 .. Len(t), t[i].part \in {"line", "data"}, i + 1 \in 1 .. Len(t)
        PROVE  t[i + 1].part \in {"line", "soh"}
    BY <2>1, <2>3 DEF Whole
  <2>. QED BY <2>2, <2>3 DEF Whole
<1>5. /\ 1 \in 1 .. Len(s)
      /\ s[1].part = "soh" => 2 \in 1 .. Len(s) /\ s[2].part = "len"
      /\ s[1].part = "len" => 2 \in 1 .. Len(s) /\ s[2].part = "data"
      /\ s[1].part \in {"line", "data"} /\ 2 \in 1 .. Len(s) => s[2].part \in {"line", "soh"}
  <2>1. 1 \in 1 .. Len(s) /\ 1 + 1 = 2
    BY <1>1
  <2>. QED BY <2>1 DEF Whole
<1>. QED BY <1>1, <1>2, <1>3, <1>4, <1>5

\* What is on the wire and what is to be sent.
MessageInv ==
    /\ cmd \in [Calls -> Nat] /\ cmds \in Nat /\ urcs \in Nat /\ ioErrors \in Nat
    /\ pending \in Seq(Order)
    /\ wire \in Seq(Token) /\ Whole(wire)

\* The parser is in the middle of a message just when the rest of it is on the wire.
InMessage ==
    /\ wire # <<>> => (isBinaryRx <=> Part \in {"len", "data"})
    /\ isBinaryRx => wire # <<>>

\* While an entry is open, its data are on the wire, and its thread reads them.
EntryInv ==
    queueMutex # NoCall =>
        /\ queueMutex \in Calls /\ pc[queueMutex] \in Reading
        /\ wire # <<>> /\ Part = "data" /\ binaryRx.state = "urc"

WireInv == MessageInv /\ InMessage /\ EntryInv

LEMMA ModuleMessages ==
    ASSUME MessageInv, InMessage, Module
    PROVE  \E m \in Message : Send(m) /\ MessageInv' /\ InMessage'
<1>1. \E m \in Message : /\ Send(m)
                         /\ pending' \in Seq(Order)
                         /\ urcs' \in Nat
  <2>1. CASE ModuleRsp
    <3>. DEFINE m == [type |-> "rsp", id |-> Head(pending).cmd, code |-> Head(pending).rsp]
    <3>1. pending # <<>> /\ Head(pending) \in Order
          /\ Head(pending) = pending[1] /\ 1 \in 1 .. Len(pending)
      BY <2>1, QueueFacts DEF ModuleRsp, MessageInv
    <3>2. m \in Message /\ Send(m)
      BY <2>1, <3>1 DEF ModuleRsp, Message, Order
    <3>3. [pending[1] EXCEPT !.rsp = "none"] \in Order
      BY <3>1 DEF Order
    <3>4. pending' = [pending EXCEPT ![1] = [pending[1] EXCEPT !.rsp = "none"]]
      BY <2>1 DEF ModuleRsp
    <3>5. pending' \in Seq(Order)
      BY <3>1, <3>3, <3>4, ExceptSeq DEF MessageInv
    <3>. QED BY <2>1, <3>2, <3>5 DEF ModuleRsp, MessageInv
  <2>2. ASSUME NEW code \in {"ok", "error"}, ModuleStatus(code)
        PROVE  \E m \in Message : /\ Send(m)
                         /\ pending' \in Seq(Order)
                         /\ urcs' \in Nat
    <3>. DEFINE m == [type |-> "status", id |-> Head(pending).cmd, code |-> code]
    <3>1. /\ Head(pending) \in Order
          /\ Tail(pending) \in Seq(Order)
      BY <2>2, QueueFacts DEF ModuleStatus, MessageInv
    <3>2. m \in Message /\ Send(m)
      BY <2>2, <3>1 DEF ModuleStatus, Message, Order
    <3>. QED BY <2>2, <3>1, <3>2 DEF ModuleStatus, MessageInv
  <2>3. ASSUME NEW kind \in UrcKinds, ModuleUrc(kind)
        PROVE  \E m \in Message : /\ Send(m)
                         /\ pending' \in Seq(Order)
                         /\ urcs' \in Nat
    <3>. DEFINE m == [type |-> "urc", id |-> urcs', code |-> kind]
    <3>1. kind \in {"line", "binary"} /\ urcs' \in Nat
      BY <2>3, KindsAssumption DEF ModuleUrc, MessageInv
    <3>2. m \in Message /\ Send(m)
      BY <2>3, <3>1 DEF ModuleUrc, Message
    <3>. QED BY <2>3, <3>1, <3>2 DEF ModuleUrc, MessageInv
  <2>. QED BY <2>1, <2>2, <2>3 DEF Module
<1>2. PICK m \in Message : /\ Send(m)
                           /\ pending' \in Seq(Order)
                           /\ urcs' \in Nat
  BY <1>1
<1>3. /\ Tokens(m) \in Seq(Token) /\ Len(Tokens(m)) >= 1
      /\ Whole(Tokens(m)) /\ Tokens(m)[1].part \in {"line", "soh"}
  BY TokensFacts
<1>4. wire \in Seq(Token) /\ Whole(wire) /\ wire' = wire \o Tokens(m)
  BY <1>2 DEF Send, MessageInv
<1>5. /\ wire' \in Seq(Token) /\ Whole(wire') /\ wire' # <<>>
      /\ IF wire = <<>> THEN Head(wire') = Tokens(m)[1] ELSE Head(wire') = Head(wire)
  BY <1>3, <1>4, SendFacts
<1>6. UNCHANGED <<cmd, cmds, ioErrors, isBinaryRx>>
  BY DEF Module, ModuleRsp, ModuleStatus, ModuleUrc, binVars
<1>7. MessageInv'
  <2>1. Whole(wire)'
    BY <1>5 DEF Whole
  <2>. QED BY <1>2, <1>5, <1>6, <2>1 DEF MessageInv
<1>8. InMessage'
  <2>1. CASE wire = <<>>
    <3>1. ~isBinaryRx' /\ Head(wire').part \in {"line", "soh"}
      BY <1>3, <1>5, <1>6, <2>1 DEF InMessage
    <3>. QED BY <1>5, <3>1 DEF InMessage, Part
  <2>2. CASE wire # <<>>
    BY <1>5, <1>6, <2>2 DEF InMessage, Part
  <2>. QED BY <2>1, <2>2
<1>. QED BY <1>2, <1>7, <1>8

LEMMA ModuleKeepsWire ==
    ASSUME WireInv, Module
    PROVE  WireInv'
<1>1. PICK m \in Message : Send(m) /\ MessageInv' /\ InMessage'
  BY ModuleMessages DEF WireInv
<1>2. UNCHANGED <<pc, queueMutex, binaryRx>>
  BY DEF Module, ModuleRsp, ModuleStatus, ModuleUrc, binVars, queueVars
<1>3. wire # <<>> => wire' # <<>> /\ Head(wire') = Head(wire)
  <2>1. /\ Tokens(m) \in Seq(Token) /\ Len(Tokens(m)) >= 1
        /\ Whole(Tokens(m)) /\ Tokens(m)[1].part \in {"line", "soh"}
    BY TokensFacts
  <2>. QED BY <1>1, <2>1, SendFacts DEF Send, WireInv, MessageInv
<1>4. EntryInv'
  BY <1>2, <1>3 DEF WireInv, EntryInv, Part
<1>. QED BY <1>1, <1>4 DEF WireInv

\* Steps that leave the wire and the parser alone, of a call that is not reading.
LEMMA OthersKeepWire ==
    ASSUME WireInv, PcOK, NEW c \in Calls, NEW l, pc' = [pc EXCEPT ![c] = l],
           pc[c] \notin Reading,
           UNCHANGED <<wire, isBinaryRx, binaryRx, queueMutex>>, MessageInv'
    PROVE  WireInv'
<1>1. InMessage'
  BY DEF WireInv, InMessage, Part
<1>2. ASSUME queueMutex' # NoCall
      PROVE  pc'[queueMutex'] \in Reading
  BY <1>2 DEF WireInv, EntryInv, PcOK
<1>3. EntryInv'
  BY <1>2 DEF WireInv, EntryInv, Part
<1>. QED BY <1>1, <1>3 DEF WireInv

\* A token is read: what that makes of the wire, and what is next on it.
LEMMA TokenIsRead ==
    ASSUME MessageInv, InMessage, NEW c \in Calls, NEW parts, Reads(c, parts)
    PROVE  /\ MessageInv' /\ wire' = Tail(wire) /\ Part \in parts
           /\ Part = "soh" => wire' # <<>> /\ Head(wire').part = "len"
           /\ Part = "len" => wire' # <<>> /\ Head(wire').part = "data"
           /\ Part \in {"line", "data"} =>
                  wire' = <<>> \/ Head(wire').part \in {"line", "soh"}
           /\ isBinaryRx <=> Part \in {"len", "data"}
           /\ pc[c] \in Reading
<1>1. /\ wire # <<>> /\ wire' = Tail(wire) /\ Part \in parts /\ pc[c] \in Reading
      /\ UNCHANGED <<cmd, cmds, urcs, ioErrors, pending>>
  BY DEF Reads
<1>2. wire \in Seq(Token) /\ Whole(wire)
  BY DEF MessageInv
<1>3. /\ Tail(wire) \in Seq(Token) /\ Whole(Tail(wire))
      /\ Part = "soh" => Tail(wire) # <<>> /\ Head(Tail(wire)).part = "len"
      /\ Part = "len" => Tail(wire) # <<>> /\ Head(Tail(wire)).part = "data"
      /\ Part \in {"line", "data"} =>
             Tail(wire) = <<>> \/ Head(Tail(wire)).part \in {"line", "soh"}
  BY <1>1, <1>2, ReadFacts DEF Part
<1>4. Whole(wire)'
  BY <1>1, <1>3 DEF Whole
<1>5. MessageInv'
  BY <1>1, <1>3, <1>4 DEF MessageInv
<1>6. isBinaryRx <=> Part \in {"len", "data"}
  BY <1>1 DEF InMessage
<1>. QED BY <1>1, <1>3, <1>5, <1>6

LEMMA LineKeepsWire ==
    ASSUME WireInv, NEW c \in Calls,
           ReadRsp(c) \/ ReadStatus(c) \/ ReadUrc(c) \/ ReadUnexpected(c)
    PROVE  WireInv'
<1>1. Reads(c, {"line"}) /\ UNCHANGED <<isBinaryRx, binaryRx, queueMutex>>
  BY DEF ReadRsp, ReadStatus, ReadUrc, ReadUnexpected, binVars
<1>2. /\ MessageInv' /\ Part = "line" /\ ~isBinaryRx
      /\ wire' = <<>> \/ Head(wire').part \in {"line", "soh"}
  BY <1>1, TokenIsRead DEF WireInv
<1>3. InMessage'
  BY <1>1, <1>2 DEF InMessage, Part
<1>4. queueMutex = NoCall
  BY <1>2 DEF WireInv, EntryInv
<1>. QED BY <1>1, <1>2, <1>3, <1>4 DEF WireInv, EntryInv

LEMMA SohKeepsWire ==
    ASSUME WireInv, NEW c \in Calls, ReadSoh(c)
    PROVE  WireInv'
<1>1. Reads(c, {"soh"}) /\ UNCHANGED queueMutex /\ isBinaryRx'
  BY DEF ReadSoh
<1>2. MessageInv' /\ Part = "soh" /\ wire' # <<>> /\ Head(wire').part = "len"
  BY <1>1, TokenIsRead DEF WireInv
<1>3. InMessage'
  BY <1>1, <1>2 DEF InMessage, Part
<1>4. queueMutex = NoCall
  BY <1>2 DEF WireInv, EntryInv
<1>. QED BY <1>1, <1>2, <1>3, <1>4 DEF WireInv, EntryInv

\* Behind the length there are the data: the entry that is opened will be closed.
LEMMA LengthKeepsWire ==
    ASSUME WireInv, PcOK, NEW c \in Calls,
           ReadLengthOfRsp(c) \/ ReadLengthOfUrc(c) \/ ReadLengthNoRoom(c)
    PROVE  WireInv'
<1>1. Reads(c, {"len"}) /\ UNCHANGED <<pc, isBinaryRx>>
  BY DEF ReadLengthOfRsp, ReadLengthOfUrc, ReadLengthNoRoom
<1>2. /\ MessageInv' /\ Part = "len" /\ isBinaryRx /\ pc[c] \in Reading
      /\ wire' # <<>> /\ Head(wire').part = "data"
  BY <1>1, TokenIsRead DEF WireInv
<1>3. InMessage'
  BY <1>1, <1>2 DEF InMessage, Part
<1>4. queueMutex = NoCall
  BY <1>2 DEF WireInv, EntryInv
<1>5. CASE ReadLengthOfUrc(c)
  <2>1. queueMutex' = c /\ binaryRx'.state = "urc"
    BY <1>5 DEF ReadLengthOfUrc
  <2>2. EntryInv'
    BY <1>1, <1>2, <2>1 DEF EntryInv, Part
  <2>. QED BY <1>2, <1>3, <2>2 DEF WireInv
<1>6. CASE ReadLengthOfRsp(c) \/ ReadLengthNoRoom(c)
  <2>1. queueMutex' = NoCall
    BY <1>4, <1>6 DEF ReadLengthOfRsp, ReadLengthNoRoom
  <2>. QED BY <1>2, <1>3, <2>1 DEF WireInv, EntryInv
<1>. QED BY <1>5, <1>6

LEMMA DataKeepsWire ==
    ASSUME WireInv, NEW c \in Calls,
           ReadDataOfRsp(c) \/ ReadDataOfUrc(c) \/ ReadDataToFlush(c)
    PROVE  WireInv'
<1>1. Reads(c, {"data"}) /\ isBinaryRx' = FALSE
  BY DEF ReadDataOfRsp, ReadDataOfUrc, ReadDataToFlush, BinaryDone
<1>2. MessageInv' /\ (wire' = <<>> \/ Head(wire').part \in {"line", "soh"})
  BY <1>1, TokenIsRead DEF WireInv
<1>3. InMessage'
  BY <1>1, <1>2 DEF InMessage, Part
<1>4. queueMutex' = NoCall
  <2>1. CASE ReadDataOfUrc(c)
    BY <2>1 DEF ReadDataOfUrc, UnlockQueue
  <2>2. CASE ReadDataOfRsp(c) \/ ReadDataToFlush(c)
    BY <2>2 DEF ReadDataOfRsp, ReadDataToFlush, WireInv, EntryInv
  <2>. QED BY <2>1, <2>2
<1>. QED BY <1>2, <1>3, <1>4 DEF WireInv, EntryInv

\* A read that times out finds the parser between two messages.
LEMMA NothingKeepsWire ==
    ASSUME WireInv, Split = {}, NEW c \in Calls, ReadNothing(c)
    PROVE  WireInv'
<1>1. /\ UNCHANGED <<wire, isBinaryRx, binaryRx, queueMutex>>
      /\ UNCHANGED <<cmd, cmds, urcs, ioErrors, pending>>
      /\ wire # <<>> => Part \in {"line", "soh"}
  BY DEF ReadNothing, binVars, queueVars, moduleVars
<1>2. MessageInv' /\ InMessage'
  BY <1>1 DEF WireInv, MessageInv, InMessage, Part, Whole
<1>3. queueMutex' = NoCall
  BY <1>1 DEF WireInv, EntryInv
<1>. QED BY <1>2, <1>3 DEF WireInv, EntryInv

\* Calls, and what they do outside of handleRxData(), keep the counters and orders.
LEMMA CallsKeepMessages ==
    ASSUME MessageInv, InMessage, NEW c \in Calls,
           \/ CallCmd(c) \/ CallHandleRx(c) \/ TakeMutex(c)
           \/ Step(c) /\ ~ReadNothing(c)
    PROVE  MessageInv' /\ UNCHANGED <<wire, isBinaryRx, binaryRx, queueMutex>>
<1>. USE DEF binVars, queueVars, moduleVars
<1>1. CASE CallCmd(c)
  <2>1. UNCHANGED <<wire, isBinaryRx, binaryRx, queueMutex, urcs, ioErrors, pending>>
    BY <1>1 DEF CallCmd
  <2>2. cmds' \in Nat /\ cmd' \in [Calls -> Nat]
    BY <1>1 DEF CallCmd, MessageInv
  <2>. QED BY <2>1, <2>2 DEF MessageInv, Whole
<1>2. CASE \E rsp \in RspKinds : CmdBegin(c, rsp)
  <2>1. PICK rsp \in RspKinds : CmdBegin(c, rsp)
    BY <1>2
  <2>2. UNCHANGED <<wire, isBinaryRx, binaryRx, queueMutex, cmd, cmds, urcs, ioErrors>>
    BY <2>1 DEF CmdBegin
  <2>3. [cmd |-> cmd[c], rsp |-> rsp] \in Order
    BY <2>1, KindsAssumption DEF Order, MessageInv
  <2>4. pending' \in Seq(Order)
    BY <2>1, <2>3 DEF CmdBegin, SendCmd, MessageInv
  <2>. QED BY <2>2, <2>4 DEF MessageInv, Whole
<1>3. CASE Return(c)
  <2>1. UNCHANGED <<wire, isBinaryRx, binaryRx, queueMutex, cmds, urcs, ioErrors, pending>>
    BY <1>3 DEF Return
  <2>2. cmd' \in [Calls -> Nat]
    BY <1>3 DEF Return, MessageInv
  <2>. QED BY <2>1, <2>2 DEF MessageInv, Whole
<1>4. CASE CallHandleRx(c) \/ RxLock(c) \/ RxUnlock(c)
  BY <1>4 DEF CallHandleRx, RxLock, RxUnlock, MessageInv, Whole
<1>5. CASE GetRsp(c) \/ RspCheck(c) \/ CmdEnd(c) \/ EndCheck(c) \/ CmdDone(c)
  BY <1>5 DEF GetRsp, RspCheck, CmdEnd, EndCheck, CmdDone, MessageInv, Whole
<1>6. CASE TryLock(c) \/ TryLockFails(c) \/ DequeueNone(c) \/ DequeueEmpty(c)
  BY <1>6 DEF TryLock, TryLockFails, DequeueNone, DequeueEmpty, MessageInv, Whole
<1>7. CASE DequeueBegin(c) \/ DequeueEnd(c)
  BY <1>7 DEF DequeueBegin, DequeueEnd, MessageInv, Whole
<1>. QED BY <1>1, <1>2, <1>3, <1>4, <1>5, <1>6, <1>7 DEF TakeMutex, Step

\* These are the steps of a call that is not reading.
LEMMA CallsAreNotReading ==
    ASSUME NEW c \in Calls,
           \/ CallCmd(c) \/ CallHandleRx(c) \/ TakeMutex(c)
           \/ Step(c) /\ ~ReadNothing(c)
    PROVE  pc[c] \notin Reading /\ \E l : pc' = [pc EXCEPT ![c] = l]
<1>. USE DEF Reading, Goto
<1>1. CASE CallCmd(c) \/ CallHandleRx(c) \/ Return(c)
  BY <1>1 DEF CallCmd, CallHandleRx, Return, MayCall
<1>2. CASE RxLock(c) \/ RxUnlock(c) \/ \E rsp \in RspKinds : CmdBegin(c, rsp)
  BY <1>2 DEF RxLock, RxUnlock, CmdBegin
<1>3. CASE GetRsp(c) \/ RspCheck(c) \/ CmdEnd(c) \/ EndCheck(c) \/ CmdDone(c)
  BY <1>3 DEF GetRsp, RspCheck, CmdEnd, EndCheck, CmdDone
<1>4. CASE TryLock(c) \/ TryLockFails(c) \/ DequeueNone(c) \/ DequeueEmpty(c)
  BY <1>4 DEF TryLock, TryLockFails, DequeueNone, DequeueEmpty
<1>5. CASE DequeueBegin(c) \/ DequeueEnd(c)
  BY <1>5 DEF DequeueBegin, DequeueEnd
<1>. QED BY <1>1, <1>2, <1>3, <1>4, <1>5 DEF TakeMutex, Step

LEMMA WireStep ==
    ASSUME Split = {}, MaxIoErrors = 0
    PROVE  PcOK /\ WireInv /\ [Next]_vars => WireInv'
<1>. SUFFICES ASSUME PcOK, WireInv, [Next]_vars PROVE WireInv'
  OBVIOUS
<1>1. CASE UNCHANGED vars
  BY <1>1 DEF vars, binVars, queueVars, moduleVars, WireInv, MessageInv, InMessage, EntryInv,
              Part, Whole
<1>2. CASE Module
  BY <1>2, ModuleKeepsWire
<1>3. CASE Expire
  BY <1>3 DEF Expire, binVars, queueVars, moduleVars, WireInv, MessageInv, InMessage, EntryInv,
              Part, Whole
<1>4. ASSUME NEW c \in Calls,
             \/ CallCmd(c) \/ CallHandleRx(c) \/ TakeMutex(c)
             \/ Step(c) /\ ~ReadNothing(c)
      PROVE  WireInv'
  <2>1. MessageInv' /\ UNCHANGED <<wire, isBinaryRx, binaryRx, queueMutex>>
    BY <1>4, CallsKeepMessages DEF WireInv
  <2>2. pc[c] \notin Reading /\ \E l : pc' = [pc EXCEPT ![c] = l]
    BY <1>4, CallsAreNotReading
  <2>. QED BY <2>1, <2>2, OthersKeepWire
<1>5. ASSUME NEW c \in Calls, ReadNothing(c)
      PROVE  WireInv'
  BY <1>5, NothingKeepsWire
<1>6. ASSUME NEW c \in Calls, ReadToken(c)
      PROVE  WireInv'
  BY <1>6, LineKeepsWire, SohKeepsWire, LengthKeepsWire, DataKeepsWire DEF ReadToken
<1>7. ASSUME NEW c \in Calls, ReadError(c)
      PROVE  FALSE
  BY <1>7 DEF ReadError, WireInv, MessageInv
<1>. QED BY <1>1, <1>2, <1>3, <1>4, <1>5, <1>6, <1>7 DEF Next

-----------------------------------------------------------------------------
DeadlockInv == NestInv /\ CommandInv /\ WireInv

LEMMA DeadlockInit == Init => DeadlockInv
<1>. SUFFICES ASSUME Init PROVE DeadlockInv
  OBVIOUS
<1>1. CommandInv
  BY CommandInit
<1>2. NestInv
  <2>1. \A c \in Calls : pc[c] = "idle"
    BY DEF Init
  <2>2. \A t \in Threads : <<t, 1>> \in Calls
    BY DEF Calls
  <2>. QED BY <1>1, <2>1, <2>2 DEF NestInv, CommandInv
<1>3. cmd \in [Calls -> Nat] /\ wire = <<>> /\ pending = <<>> /\ ~isBinaryRx
      /\ queueMutex = NoCall /\ cmds = 0 /\ urcs = 0 /\ ioErrors = 0
  BY DEF Init
<1>4. wire \in Seq(Token) /\ pending \in Seq(Order) /\ Whole(wire)
  BY <1>3, EmptySeq DEF Whole
<1>. QED BY <1>1, <1>2, <1>3, <1>4 DEF DeadlockInv, WireInv, MessageInv, InMessage, EntryInv

\* A call waits for cmdMutex only where it does not own it, and neither does the call
\* around it or inside it: of the two, one is in the callback, outside of the mutex.
LEMMA NotForOwnMutex ==
    ASSUME NestInv, CommandInv, NEW c \in Calls, pc[c] \in {"cmdLock", "rxLock"},
           cmdMutex \in Calls
    PROVE  cmdMutex[1] # c[1]
<1>. SUFFICES ASSUME cmdMutex[1] = c[1] PROVE FALSE
  OBVIOUS
<1>1. Parses(cmdMutex)
  BY DEF CommandInv, OneCommandAtATime
<1>2. pc[cmdMutex] # "idle" /\ pc[cmdMutex] # "callback" /\ pc[cmdMutex] # pc[c]
  BY <1>1 DEF Parses, Executes, InCommand
<1>. QED BY <1>2, CallsOfAThread

\* Without calls between cmdBeginF() and cmdEnd(), and when a message comes without
\* gaps longer than the read time-out and reads do not fail, no thread waits for a
\* mutex that it has locked itself, whatever the URC callback calls.
THEOREM NoSelfDeadlock ==
    ASSUME PollInCmd = FALSE, Split = {}, MaxIoErrors = 0
    PROVE  Spec => []NoThreadWaitsForItself
<1>1. DeadlockInv /\ [Next]_vars => DeadlockInv'
  BY NestStep, CommandStep, WireStep DEF DeadlockInv, NestInv
<1>2. DeadlockInv => NoThreadWaitsForItself
  <2>. SUFFICES ASSUME DeadlockInv, NEW c \in Calls
                PROVE  /\ pc[c] \in {"cmdLock", "rxLock"} /\ cmdMutex # NoCall
                            => cmdMutex[1] # c[1]
                       /\ pc[c] = "locked" /\ queueMutex # NoCall => queueMutex[1] # c[1]
    BY DEF NoThreadWaitsForItself
  <2>1. ASSUME pc[c] \in {"cmdLock", "rxLock"}, cmdMutex # NoCall
        PROVE  cmdMutex[1] # c[1]
    <3>1. cmdMutex \in Calls
      BY <2>1 DEF DeadlockInv, CommandInv
    <3>. QED BY <2>1, <3>1, NotForOwnMutex DEF DeadlockInv
  <2>2. ASSUME pc[c] = "locked", queueMutex # NoCall, queueMutex[1] = c[1]
        PROVE  FALSE
    <3>1. queueMutex \in Calls /\ pc[queueMutex] \in Reading
      BY <2>2 DEF DeadlockInv, WireInv, EntryInv
    <3>2. pc[queueMutex] # "idle" /\ pc[queueMutex] # "callback" /\ queueMutex # c
      BY <2>2, <3>1 DEF Reading
    <3>. QED BY <2>2, <3>1, <3>2, CallsOfAThread DEF DeadlockInv
  <2>. QED BY <2>1, <2>2
<1>. QED BY DeadlockInit, <1>1, <1>2, PTL DEF Spec

-----------------------------------------------------------------------------
(* Sending and reading tokens. *)

\* The last tokens of the messages.
LastParts == {"line", "data"}

\* All tokens of a message carry the message, and they follow each other.
InOneMessage(s) ==
    \A i \in 1 .. Len(s) :
        s[i].part \in {"soh", "len"} => i + 1 \in 1 .. Len(s) /\ s[i + 1].msg = s[i].msg

LEMMA TokensOfMessage ==
    ASSUME NEW m \in Message
    PROVE  /\ InOneMessage(Tokens(m))
           /\ \A i \in 1 .. Len(Tokens(m)) :
                  /\ Tokens(m)[i].msg = m
                  /\ Tokens(m)[i].part \in LastParts => i = Len(Tokens(m))
                  /\ m.code # "binary" => Tokens(m)[i].part = "line"
           /\ Tokens(m)[Len(Tokens(m))].part \in LastParts
<1>1. CASE m.code # "binary"
  BY <1>1 DEF Tokens, InOneMessage, LastParts
<1>2. CASE m.code = "binary"
  <2>. DEFINE f == Tokens(m)
  <2>1. f = [i \in 1 .. 3 |-> [part |-> <<"soh", "len", "data">>[i], msg |-> m]]
    BY <1>2 DEF Tokens
  <2>2. Len(f) = 3
    BY <2>1, TokensFacts, LenProperties
  <2>3. /\ f[1].part = "soh" /\ f[2].part = "len" /\ f[3].part = "data"
        /\ f[1].msg = m /\ f[2].msg = m /\ f[3].msg = m
    BY <2>1
  <2>4. \A i \in 1 .. Len(f) : i = 1 \/ i = 2 \/ i = 3
    BY <2>2
  <2>. HIDE DEF f
  <2>5. 1 \in 1 .. Len(f) /\ 2 \in 1 .. Len(f) /\ 3 \in 1 .. Len(f)
    BY <2>2
  <2>6. InOneMessage(f)
    BY <2>3, <2>4, <2>5 DEF InOneMessage
  <2>7. \A i \in 1 .. Len(f) : /\ f[i].msg = m
                               /\ f[i].part \in LastParts => i = Len(f)
                               /\ m.code # "binary" => f[i].part = "line"
    BY <1>2, <2>2, <2>3, <2>4 DEF LastParts
  <2>8. f[Len(f)].part \in LastParts
    BY <2>2, <2>3 DEF LastParts
  <2>. QED BY <2>6, <2>7, <2>8 DEF f
<1>. QED BY <1>1, <1>2

\* What is sent comes behind what is on the wire.
LEMMA Sent ==
    ASSUME wire \in Seq(Token), NEW m \in Message, Send(m)
    PROVE  /\ Len(wire) \in Nat /\ Len(wire') \in Nat /\ Len(wire) < Len(wire')
           /\ \A i \in 1 .. Len(wire) : i \in 1 .. Len(wire') /\ wire'[i] = wire[i]
           /\ \A i \in 1 .. Len(wire') : i \notin 1 .. Len(wire) =>
                  /\ wire'[i].msg = m
                  /\ wire'[i].part \in LastParts => i = Len(wire')
                  /\ m.code # "binary" => wire'[i].part = "line"
           /\ wire'[Len(wire')].msg = m /\ wire'[Len(wire')].part \in LastParts
           /\ InOneMessage(wire) => InOneMessage(wire')
<1>. DEFINE t == Tokens(m)
<1>1. t \in Seq(Token) /\ Len(t) \in Nat /\ Len(t) >= 1 /\ InOneMessage(t)
  BY TokensFacts, TokensOfMessage
<1>2. \A i \in 1 .. Len(t) : /\ t[i].msg = m
                             /\ t[i].part \in LastParts => i = Len(t)
                             /\ m.code # "binary" => t[i].part = "line"
  BY TokensOfMessage
<1>3. wire' = wire \o t /\ t[Len(t)].part \in LastParts
  BY TokensOfMessage DEF Send
<1>. HIDE DEF t
<1>4. /\ Len(wire) \in Nat /\ Len(wire') = Len(wire) + Len(t)
      /\ \A i \in 1 .. Len(wire) : wire'[i] = wire[i]
      /\ \A j \in 1 .. Len(t) : wire'[Len(wire) + j] = t[j]
  BY <1>1, <1>3
<1>5. \A i \in 1 .. Len(wire') : i \notin 1 .. Len(wire) =>
          i - Len(wire) \in 1 .. Len(t) /\ i = Len(wire) + (i - Len(wire))
  BY <1>1, <1>4
<1>6. \A i \in 1 .. Len(wire) : i \in 1 .. Len(wire')
  BY <1>1, <1>4
<1>7. ASSUME NEW i \in 1 .. Len(wire'), i \notin 1 .. Len(wire)
      PROVE  /\ wire'[i].msg = m
             /\ wire'[i].part \in LastParts => i = Len(wire')
             /\ m.code # "binary" => wire'[i].part = "line"
  <2>1. PICK j \in 1 .. Len(t) : i = Len(wire) + j
    BY <1>5, <1>7
  <2>2. wire'[i] = t[j]
    BY <1>4, <2>1
  <2>3. wire'[i].part \in LastParts => j = Len(t)
    BY <1>2, <2>2
  <2>. QED BY <1>2, <1>4, <2>1, <2>2, <2>3
<1>8. ASSUME InOneMessage(wire), NEW i \in 1 .. Len(wire'), wire'[i].part \in {"soh", "len"}
      PROVE  i + 1 \in 1 .. Len(wire') /\ wire'[i + 1].msg = wire'[i].msg
  <2>1. CASE i \in 1 .. Len(wire)
    BY <1>4, <1>6, <1>8, <2>1 DEF InOneMessage
  <2>2. ASSUME NEW j \in 1 .. Len(t), i = Len(wire) + j
        PROVE  i + 1 \in 1 .. Len(wire') /\ wire'[i + 1].msg = wire'[i].msg
    <3>1. wire'[i] = t[j] /\ j + 1 \in 1 .. Len(t) /\ t[j + 1].msg = t[j].msg
      BY <1>1, <1>4, <1>8, <2>2 DEF InOneMessage
    <3>2. i + 1 = Len(wire) + (j + 1) /\ i + 1 \in 1 .. Len(wire')
      BY <1>1, <1>4, <2>2, <3>1
    <3>. QED BY <1>4, <3>1, <3>2
  <2>. QED BY <1>5, <2>1, <2>2
<1>9. InOneMessage(wire) => InOneMessage(wire')
  BY <1>8 DEF InOneMessage
<1>10. wire'[Len(wire')].msg = m /\ wire'[Len(wire')].part \in LastParts
  <2>1. Len(t) \in 1 .. Len(t)
    BY <1>1
  <2>. QED BY <1>2, <1>3, <1>4, <2>1
<1>. QED BY <1>1, <1>4, <1>6, <1>7, <1>9, <1>10

\* What is read comes off the front.
LEMMA TokenOff ==
    ASSUME wire \in Seq(Token), wire # <<>>, wire' = Tail(wire)
    PROVE  /\ Len(wire) \in Nat /\ Len(wire') \in Nat
           /\ 1 \in 1 .. Len(wire) /\ Head(wire) = wire[1]
           /\ \A i \in 1 .. Len(wire') :
                  i + 1 \in 1 .. Len(wire) /\ i + 1 # 1 /\ wire'[i] = wire[i + 1]
           /\ InOneMessage(wire) => InOneMessage(wire')
<1>1. /\ Len(wire) \in Nat /\ Len(wire') = Len(wire) - 1 /\ Len(wire') \in Nat
      /\ 1 \in 1 .. Len(wire) /\ Head(wire) = wire[1]
      /\ \A i \in 1 .. Len(wire') :
             i + 1 \in 1 .. Len(wire) /\ i + 1 # 1 /\ wire'[i] = wire[i + 1]
  OBVIOUS
<1>2. ASSUME InOneMessage(wire), NEW i \in 1 .. Len(wire'), wire'[i].part \in {"soh", "len"}
      PROVE  i + 1 \in 1 .. Len(wire') /\ wire'[i + 1].msg = wire'[i].msg
  <2>1. (i + 1) + 1 \in 1 .. Len(wire) /\ wire[(i + 1) + 1].msg = wire[i + 1].msg
    BY <1>1, <1>2 DEF InOneMessage
  <2>2. i + 1 \in 1 .. Len(wire')
    BY <1>1, <2>1
  <2>. QED BY <1>1, <2>1, <2>2
<1>3. InOneMessage(wire) => InOneMessage(wire')
  BY <1>2 DEF InOneMessage
<1>. QED BY <1>1, <1>3

-----------------------------------------------------------------------------
(* The steps, by what they do to messages. *)

trafficVars == <<wire, isBinaryRx, binaryRx, fifo, open, taken, queueMutex, delivered, urcs>>

\* Most steps leave the messages alone.
LEMMA TrafficSteps ==
    ASSUME [Next]_vars
    PROVE  \/ UNCHANGED trafficVars
           \/ Module
           \/ \E c \in Calls : ReadToken(c) \/ DequeueBegin(c) \/ DequeueEnd(c)
<1>. USE DEF trafficVars, queueVars, binVars, moduleVars
<1>1. CASE UNCHANGED vars
  BY <1>1 DEF vars
<1>2. CASE Expire
  BY <1>2 DEF Expire
<1>3. ASSUME NEW c \in Calls, CallCmd(c) \/ CallHandleRx(c) \/ ReadError(c)
      PROVE  UNCHANGED trafficVars
  BY <1>3 DEF CallCmd, CallHandleRx, ReadError
<1>4. ASSUME NEW c \in Calls, NEW rsp \in RspKinds, CmdBegin(c, rsp)
      PROVE  UNCHANGED trafficVars
  BY <1>4 DEF CmdBegin
<1>5. ASSUME NEW c \in Calls, RxLock(c) \/ DequeueNone(c)
      PROVE  UNCHANGED trafficVars
  BY <1>5 DEF RxLock, DequeueNone
<1>6. ASSUME NEW c \in Calls,
             \/ GetRsp(c) \/ RspCheck(c) \/ CmdEnd(c) \/ EndCheck(c) \/ CmdDone(c) \/ Return(c)
      PROVE  UNCHANGED trafficVars
  BY <1>6 DEF GetRsp, RspCheck, CmdEnd, EndCheck, CmdDone, Return
<1>7. ASSUME NEW c \in Calls,
             RxUnlock(c) \/ ReadNothing(c) \/ TryLock(c) \/ TryLockFails(c) \/ DequeueEmpty(c)
      PROVE  UNCHANGED trafficVars
  BY <1>7 DEF RxUnlock, ReadNothing, TryLock, TryLockFails, DequeueEmpty
<1>. HIDE DEF trafficVars, queueVars, binVars, moduleVars
<1>. QED BY <1>1, <1>2, <1>3, <1>4, <1>5, <1>6, <1>7 DEF Next, TakeMutex, Step

\* The module sends the response or the status of the command it is at, or a URC.
ResponseOf(order) == [type |-> "rsp", id |-> order.cmd, code |-> order.rsp]
StatusOf(order, code) == [type |-> "status", id |-> order.cmd, code |-> code]
NextUrc(kind) == [type |-> "urc", id |-> urcs + 1, code |-> kind]

LEMMA ModuleSends ==
    ASSUME MessageInv, Module
    PROVE  \E m \in Message :
               /\ Send(m)
               /\ \/ /\ ModuleRsp /\ UNCHANGED urcs
                     /\ m = ResponseOf(Head(pending)) /\ Head(pending).rsp # "none"
                  \/ /\ UNCHANGED urcs
                     /\ \E code \in {"ok", "error"} :
                            ModuleStatus(code) /\ m = StatusOf(Head(pending), code)
                  \/ /\ urcs < MaxUrcs /\ urcs' = urcs + 1 /\ UNCHANGED pending
                     /\ \E kind \in UrcKinds : m = NextUrc(kind)
<1>1. urcs \in Nat /\ pending \in Seq(Order)
  BY DEF MessageInv
<1>2. CASE ModuleRsp
  <2>1. Head(pending) \in Order
    BY <1>1, <1>2, QueueFacts DEF ModuleRsp
  <2>2. ResponseOf(Head(pending)) \in Message /\ Send(ResponseOf(Head(pending)))
    BY <1>2, <2>1 DEF ModuleRsp, ResponseOf, Message, Order
  <2>. QED BY <1>2, <2>2 DEF ModuleRsp
<1>3. ASSUME NEW code \in {"ok", "error"}, ModuleStatus(code)
      PROVE  StatusOf(Head(pending), code) \in Message /\ Send(StatusOf(Head(pending), code))
  <2>1. Head(pending) \in Order
    BY <1>1, <1>3, QueueFacts DEF ModuleStatus
  <2>. QED BY <1>3, <2>1 DEF ModuleStatus, StatusOf, Message, Order
<1>4. ASSUME NEW code \in {"ok", "error"}, ModuleStatus(code)
      PROVE  UNCHANGED urcs
  BY <1>4 DEF ModuleStatus
<1>5. ASSUME NEW kind \in UrcKinds, ModuleUrc(kind)
      PROVE  /\ NextUrc(kind) \in Message /\ Send(NextUrc(kind))
             /\ urcs < MaxUrcs /\ urcs' = urcs + 1 /\ UNCHANGED pending
  BY <1>1, <1>5, KindsAssumption DEF ModuleUrc, NextUrc, Message
<1>. QED BY <1>2, <1>3, <1>4, <1>5 DEF Module

LEMMA ModuleLeaves ==
    ASSUME Module
    PROVE  UNCHANGED <<pc, cmd, executingCmd, status, expired, expecting, pRspParams, rspBinaryBuf,
                       isBinaryRx, binaryRx, fifo, open, taken, queueMutex, cmds, ioErrors,
                       delivered, log>>
BY DEF Module, ModuleRsp, ModuleStatus, ModuleUrc, clientVars, rspVars, binVars, queueVars

LEMMA TokenRead ==
    ASSUME NEW c \in Calls, ReadToken(c)
    PROVE  /\ pc[c] \in Reading /\ wire # <<>> /\ wire' = Tail(wire) /\ \E parts : Reads(c, parts)
           /\ UNCHANGED <<cmd, cmdMutex, dequeueMutex, executingCmd, expired, expecting,
                          rspBinaryBuf, taken, pending, urcs, cmds, ioErrors, delivered>>
<1>1. \E parts : Reads(c, parts)
  BY DEF ReadToken, ReadRsp, ReadStatus, ReadUrc, ReadUnexpected, ReadSoh, ReadLengthOfRsp,
         ReadLengthOfUrc, ReadLengthNoRoom, ReadDataOfRsp, ReadDataOfUrc, ReadDataToFlush
<1>. QED BY <1>1 DEF Reads

\* What the wire holds, and that the parser knows where in a message it is.
TrafficInv == MessageInv /\ InMessage /\ InOneMessage(wire)

LEMMA ReadKeepsTraffic ==
    ASSUME TrafficInv, NEW c \in Calls, ReadToken(c)
    PROVE  TrafficInv'
<1>1. PICK parts : Reads(c, parts)
  BY TokenRead
<1>2. /\ MessageInv' /\ wire' = Tail(wire) /\ wire # <<>> /\ wire \in Seq(Token)
      /\ Part = "soh" => wire' # <<>> /\ Head(wire').part = "len"
      /\ Part = "len" => wire' # <<>> /\ Head(wire').part = "data"
      /\ Part \in {"line", "data"} => wire' = <<>> \/ Head(wire').part \in {"line", "soh"}
      /\ isBinaryRx <=> Part \in {"len", "data"}
  BY <1>1, TokenIsRead DEF TrafficInv, Reads, MessageInv
<1>3. \/ Part = "line" /\ UNCHANGED isBinaryRx
      \/ Part = "soh" /\ isBinaryRx'
      \/ Part = "len" /\ UNCHANGED isBinaryRx
      \/ Part = "data" /\ isBinaryRx' = FALSE
  BY DEF ReadToken, ReadRsp, ReadStatus, ReadUrc, ReadUnexpected, ReadSoh, ReadLengthOfRsp,
         ReadLengthOfUrc, ReadLengthNoRoom, ReadDataOfRsp, ReadDataOfUrc, ReadDataToFlush,
         Reads, BinaryDone, binVars
<1>4. InMessage'
  <2>1. CASE Part = "line"
    BY <1>2, <1>3, <2>1 DEF InMessage, Part
  <2>2. CASE Part = "soh"
    BY <1>2, <1>3, <2>2 DEF InMessage, Part
  <2>3. CASE Part = "len"
    BY <1>2, <1>3, <2>3 DEF InMessage, Part
  <2>4. CASE Part = "data"
    BY <1>2, <1>3, <2>4 DEF InMessage, Part
  <2>. QED BY <1>3, <2>1, <2>2, <2>3, <2>4
<1>5. InOneMessage(wire')
  BY <1>2, TokenOff DEF TrafficInv
<1>6. InOneMessage(wire)'
  BY <1>5 DEF InOneMessage
<1>. QED BY <1>2, <1>4, <1>6 DEF TrafficInv

LEMMA TrafficStep == TrafficInv /\ [Next]_vars => TrafficInv'
<1>. SUFFICES ASSUME TrafficInv, [Next]_vars PROVE TrafficInv'
  OBVIOUS
<1>0. MessageInv /\ InMessage /\ wire \in Seq(Token)
  BY DEF TrafficInv, MessageInv
<1>1. CASE UNCHANGED vars
  BY <1>1 DEF vars, binVars, moduleVars, TrafficInv, MessageInv, InMessage, InOneMessage, Part,
              Whole
<1>2. CASE Expire
  BY <1>2 DEF Expire, binVars, moduleVars, TrafficInv, MessageInv, InMessage, InOneMessage, Part,
              Whole
<1>3. CASE Module
  <2>1. PICK m \in Message : Send(m)
    BY <1>0, <1>3, ModuleMessages
  <2>2. MessageInv' /\ InMessage'
    BY <1>0, <1>3, ModuleMessages
  <2>3. InOneMessage(wire')
    BY <1>0, <2>1, Sent DEF TrafficInv
  <2>4. InOneMessage(wire)'
    BY <2>3 DEF InOneMessage
  <2>. QED BY <2>2, <2>4 DEF TrafficInv
<1>4. ASSUME NEW c \in Calls, ReadToken(c)
      PROVE  TrafficInv'
  BY <1>4, ReadKeepsTraffic
<1>5. ASSUME NEW c \in Calls,
             \/ CallCmd(c) \/ CallHandleRx(c) \/ TakeMutex(c)
             \/ Step(c) /\ ~ReadNothing(c)
      PROVE  TrafficInv'
  <2>1. MessageInv' /\ UNCHANGED <<wire, isBinaryRx>>
    BY <1>0, <1>5, CallsKeepMessages
  <2>. QED BY <2>1 DEF TrafficInv, InMessage, InOneMessage, Part
<1>6. ASSUME NEW c \in Calls, ReadNothing(c) \/ ReadError(c)
      PROVE  TrafficInv'
  <2>1. /\ UNCHANGED <<wire, isBinaryRx, cmd, cmds, urcs, pending>>
        /\ ioErrors' \in Nat
    BY <1>0, <1>6 DEF ReadNothing, ReadError, binVars, moduleVars, MessageInv
  <2>. QED BY <2>1 DEF TrafficInv, MessageInv, InMessage, InOneMessage, Part, Whole
<1>. QED BY <1>1, <1>2, <1>3, <1>4, <1>5, <1>6 DEF Next

-----------------------------------------------------------------------------
(* The URC queue. *)

\* The entry that is handed out is the first one; the one that is open is the message
\* whose data comes next, and that is where the data will go.
QueueInv ==
    /\ fifo \in Seq(Entry) /\ delivered \in Seq(Message)
    /\ taken # NoUrc => fifo # <<>> /\ taken = Head(fifo)
    /\ open # NoUrc => wire # <<>> /\ Part = "data" /\ Msg = open /\ binaryRx.state = "urc"
    /\ queueMutex \in Calls \cup {NoCall}
    /\ queueMutex = NoCall <=> open = NoUrc

LEMMA NextIsToken ==
    ASSUME MessageInv, wire # <<>>
    PROVE  Head(wire) \in Token /\ Part \in Parts /\ Msg \in Message /\ Head(wire) = wire[1]
<1>1. Head(wire) \in Token /\ Head(wire) = wire[1]
  BY QueueFacts DEF MessageInv
<1>. QED BY <1>1 DEF Token, Part, Msg

LEMMA AppendFacts ==
    ASSUME NEW S, NEW s \in Seq(S), NEW e \in S, NEW t, t = Append(s, e)
    PROVE  /\ t \in Seq(S) /\ t # <<>> /\ Len(s) \in Nat /\ Len(t) = Len(s) + 1
           /\ \A i \in 1 .. Len(s) : i \in 1 .. Len(t) /\ t[i] = s[i]
           /\ t[Len(t)] = e /\ Len(t) \in 1 .. Len(t)
           /\ \A i \in 1 .. Len(t) : i \in 1 .. Len(s) \/ i = Len(t)
           /\ s # <<>> => Head(t) = Head(s)
OBVIOUS

LEMMA TailFacts ==
    ASSUME NEW S, NEW s \in Seq(S), s # <<>>, NEW t, t = Tail(s)
    PROVE  /\ t \in Seq(S) /\ Len(s) \in Nat /\ Len(t) \in Nat /\ 1 \in 1 .. Len(s)
           /\ Head(s) = s[1]
           /\ \A i \in 1 .. Len(t) : i + 1 \in 1 .. Len(s) /\ i + 1 # 1 /\ t[i] = s[i + 1]
OBVIOUS

\* What a read does to the queue: nothing, a line enters it, a message is opened in it,
\* or the message that is open enters it.
LEMMA ReadAndQueue ==
    ASSUME TrafficInv, QueueInv, NEW c \in Calls, ReadToken(c)
    PROVE  /\ wire # <<>> /\ wire' = Tail(wire) /\ UNCHANGED <<taken, delivered, urcs>>
           /\ \/ UNCHANGED <<fifo, open, queueMutex>> /\ open = NoUrc
              \/ /\ fifo' = Append(fifo, [line |-> Msg, payload |-> "none"])
                 /\ UNCHANGED <<open, queueMutex>> /\ open = NoUrc /\ Part = "line"
                 /\ Parsed(Msg) = "GOT_URC"
              \/ /\ UNCHANGED fifo /\ open' = Msg /\ queueMutex' = c /\ binaryRx'.state = "urc"
                 /\ open = NoUrc /\ Part = "len" /\ Parsed(Msg) = "GOT_URC"
              \/ /\ fifo' = Append(fifo, [line |-> Msg, payload |-> "data"])
                 /\ open' = NoUrc /\ queueMutex' = NoCall /\ open = Msg /\ Part = "data"
<1>2. wire # <<>> /\ wire' = Tail(wire) /\ UNCHANGED <<taken, delivered, urcs>>
  BY TokenRead
<1>3. CASE ReadRsp(c) \/ ReadStatus(c) \/ ReadUnexpected(c)
  <2>1. UNCHANGED <<fifo, open, queueMutex>> /\ Part = "line"
    BY <1>3 DEF ReadRsp, ReadStatus, ReadUnexpected, Reads
  <2>. QED BY <1>2, <2>1 DEF QueueInv
<1>4. CASE ReadUrc(c)
  <2>1. /\ UNCHANGED <<open, queueMutex>> /\ open = NoUrc /\ Part = "line"
        /\ Parsed(Msg) = "GOT_URC"
        /\ \/ UNCHANGED fifo
           \/ fifo' = Append(fifo, [line |-> Msg, payload |-> "none"])
    BY <1>4 DEF ReadUrc, Reads
  <2>. QED BY <1>2, <2>1
<1>5. CASE ReadSoh(c) \/ ReadLengthOfRsp(c) \/ ReadLengthNoRoom(c)
  <2>1. UNCHANGED <<fifo, open, queueMutex>> /\ Part # "data"
    BY <1>5 DEF ReadSoh, ReadLengthOfRsp, ReadLengthNoRoom, Reads
  <2>. QED BY <1>2, <2>1 DEF QueueInv
<1>6. CASE ReadLengthOfUrc(c)
  <2>1. /\ UNCHANGED fifo /\ open' = Msg /\ queueMutex' = c /\ binaryRx'.state = "urc"
        /\ open = NoUrc /\ Part = "len" /\ Parsed(Msg) = "GOT_URC"
    BY <1>6 DEF ReadLengthOfUrc, Reads, Queue!EnqueueBegin
  <2>. QED BY <1>2, <2>1
<1>7. CASE ReadDataOfRsp(c) \/ ReadDataToFlush(c)
  <2>1. UNCHANGED <<fifo, open, queueMutex>> /\ binaryRx.state # "urc"
    BY <1>7 DEF ReadDataOfRsp, ReadDataToFlush
  <2>. QED BY <1>2, <2>1 DEF QueueInv
<1>8. CASE ReadDataOfUrc(c)
  <2>1. /\ open # NoUrc /\ fifo' = Append(fifo, [line |-> open, payload |-> "data"])
        /\ open' = NoUrc /\ queueMutex' = NoCall
    BY <1>8 DEF ReadDataOfUrc, Queue!EnqueueEnd, UnlockQueue
  <2>2. open = Msg /\ Part = "data"
    BY <2>1 DEF QueueInv
  <2>. QED BY <1>2, <2>1, <2>2
<1>. QED BY <1>3, <1>4, <1>5, <1>6, <1>7, <1>8 DEF ReadToken

LEMMA ReadKeepsQueue ==
    ASSUME TrafficInv, QueueInv, NEW c \in Calls, ReadToken(c)
    PROVE  QueueInv'
<1>1. /\ wire # <<>> /\ wire' = Tail(wire) /\ UNCHANGED <<taken, delivered, urcs>>
      /\ \/ UNCHANGED <<fifo, open, queueMutex>> /\ open = NoUrc
         \/ /\ fifo' = Append(fifo, [line |-> Msg, payload |-> "none"])
            /\ UNCHANGED <<open, queueMutex>> /\ open = NoUrc /\ Part = "line"
         \/ /\ UNCHANGED fifo /\ open' = Msg /\ queueMutex' = c /\ binaryRx'.state = "urc"
            /\ open = NoUrc /\ Part = "len"
         \/ /\ fifo' = Append(fifo, [line |-> Msg, payload |-> "data"])
            /\ open' = NoUrc /\ queueMutex' = NoCall /\ open = Msg /\ Part = "data"
  BY ReadAndQueue
<1>2. Msg \in Message /\ Msg # NoUrc
  BY <1>1, NextIsToken, NoUrcAssumption DEF TrafficInv
<1>3. delivered' \in Seq(Message)
  BY <1>1 DEF QueueInv
<1>4. /\ fifo' \in Seq(Entry)
      /\ taken' # NoUrc => fifo' # <<>> /\ taken' = Head(fifo')
  <2>1. fifo \in Seq(Entry) /\ (taken # NoUrc => fifo # <<>> /\ taken = Head(fifo))
    BY DEF QueueInv
  <2>2. CASE UNCHANGED fifo
    BY <1>1, <2>1, <2>2
  <2>3. ASSUME NEW p \in {"none", "data"}, fifo' = Append(fifo, [line |-> Msg, payload |-> p])
        PROVE  /\ fifo' \in Seq(Entry)
               /\ taken' # NoUrc => fifo' # <<>> /\ taken' = Head(fifo')
    <3>1. [line |-> Msg, payload |-> p] \in Entry
      BY <1>2 DEF Entry
    <3>2. /\ fifo' \in Seq(Entry) /\ fifo' # <<>>
          /\ fifo # <<>> => Head(fifo') = Head(fifo)
      BY <2>1, <2>3, <3>1, AppendFacts
    <3>. QED BY <1>1, <2>1, <3>2
  <2>. QED BY <1>1, <2>2, <2>3
<1>5. /\ queueMutex' \in Calls \cup {NoCall}
      /\ queueMutex' = NoCall <=> open' = NoUrc
  BY <1>1, <1>2, CallsAssumption DEF QueueInv
<1>6. ASSUME open' # NoUrc
      PROVE  wire' # <<>> /\ Head(wire').part = "data" /\ Head(wire').msg = open'
             /\ binaryRx'.state = "urc"
  <2>1. open' = Msg /\ binaryRx'.state = "urc" /\ Part = "len"
    BY <1>1, <1>6
  <2>2. wire \in Seq(Token) /\ Whole(wire) /\ InOneMessage(wire)
    BY DEF TrafficInv, MessageInv
  <2>3. Tail(wire) # <<>> /\ Head(Tail(wire)).part = "data"
    BY <1>1, <2>1, <2>2, ReadFacts DEF Part
  <2>4. wire[1 + 1].msg = wire[1].msg /\ Head(wire) = wire[1]
    BY <1>1, <2>1, <2>2, TokenOff DEF InOneMessage, Part
  <2>5. wire' \in Seq(Token) /\ Head(wire') = wire'[1] /\ 1 \in 1 .. Len(wire')
    BY <1>1, <2>2, <2>3, ReadFacts, QueueFacts
  <2>6. wire'[1] = wire[1 + 1]
    BY <1>1, <2>2, <2>5, TokenOff
  <2>. QED BY <1>1, <2>1, <2>3, <2>4, <2>5, <2>6 DEF Msg
<1>. QED BY <1>3, <1>4, <1>5, <1>6 DEF QueueInv, Part, Msg

LEMMA QueueStep == TrafficInv /\ QueueInv /\ [Next]_vars => QueueInv'
<1>. SUFFICES ASSUME TrafficInv, QueueInv, [Next]_vars PROVE QueueInv'
  OBVIOUS
<1>1. CASE UNCHANGED trafficVars
  BY <1>1 DEF trafficVars, QueueInv, Part, Msg
<1>2. CASE Module
  <2>1. PICK m \in Message : Send(m)
    BY <1>2, ModuleSends DEF TrafficInv
  <2>2. UNCHANGED <<binaryRx, fifo, open, taken, queueMutex, delivered>>
    BY <1>2, ModuleLeaves
  <2>3. wire # <<>> => wire' # <<>> /\ Head(wire') = Head(wire)
    <3>1. /\ Tokens(m) \in Seq(Token) /\ Len(Tokens(m)) >= 1
          /\ Whole(Tokens(m)) /\ Tokens(m)[1].part \in {"line", "soh"}
      BY TokensFacts
    <3>. QED BY <2>1, <3>1, SendFacts DEF Send, TrafficInv, MessageInv
  <2>. QED BY <2>2, <2>3 DEF QueueInv, Part, Msg
<1>3. ASSUME NEW c \in Calls, ReadToken(c)
      PROVE  QueueInv'
  BY <1>3, ReadKeepsQueue
<1>4. ASSUME NEW c \in Calls, DequeueBegin(c)
      PROVE  QueueInv'
  <2>1. /\ fifo # <<>> /\ taken' = Head(fifo) /\ delivered' = Append(delivered, Head(fifo).line)
        /\ UNCHANGED <<wire, binaryRx, fifo, open, queueMutex>>
    BY <1>4 DEF DequeueBegin, Queue!DequeueBegin, binVars, moduleVars
  <2>2. Head(fifo).line \in Message
    <3>1. fifo \in Seq(Entry) /\ fifo # <<>>
      BY <2>1 DEF QueueInv
    <3>2. Head(fifo) \in Entry
      BY <3>1, QueueFacts
    <3>. QED BY <3>2 DEF Entry
  <2>3. delivered' \in Seq(Message)
    BY <2>1, <2>2 DEF QueueInv
  <2>. QED BY <2>1, <2>3 DEF QueueInv, Part, Msg
<1>5. ASSUME NEW c \in Calls, DequeueEnd(c)
      PROVE  QueueInv'
  <2>1. /\ taken # NoUrc /\ taken' = NoUrc /\ fifo' = Tail(fifo)
        /\ UNCHANGED <<wire, binaryRx, open, queueMutex, delivered>>
    BY <1>5 DEF DequeueEnd, RemoveEntry, Queue!DequeueEnd, binVars, moduleVars
  <2>2. fifo \in Seq(Entry) /\ fifo # <<>>
    BY <2>1 DEF QueueInv
  <2>3. fifo' \in Seq(Entry)
    BY <2>1, <2>2, QueueFacts
  <2>. QED BY <2>1, <2>3 DEF QueueInv, Part, Msg
<1>. QED BY <1>1, <1>2, <1>3, <1>4, <1>5, TrafficSteps

-----------------------------------------------------------------------------
(* The order of the URCs. *)

\* If m and n are URCs, then the module sent m before n.
Before(m, n) == m.type = "urc" /\ n.type = "urc" => m.id < n.id

\* If m is a URC, then it is one of the first n.
Within(m, n) == m.type = "urc" => m.id <= n

\* The entries that the callback has yet to get.
Undelivered == {i \in 1 .. Len(fifo) : taken # NoUrc => i # 1}

\* On their way from the wire into the queue and on to the callback URCs do not overtake
\* each other. All tokens of a message but the last are followed by others of it.
OrderInv ==
    /\ \A i, j \in 1 .. Len(delivered) : i < j => Before(delivered[i], delivered[j])
    /\ \A i, j \in 1 .. Len(fifo) : i < j => Before(fifo[i].line, fifo[j].line)
    /\ \A i, j \in 1 .. Len(wire) :
           i < j /\ wire[i].part \in LastParts => Before(wire[i].msg, wire[j].msg)
    /\ \A i \in 1 .. Len(delivered), j \in Undelivered : Before(delivered[i], fifo[j].line)
    /\ \A i \in 1 .. Len(delivered), j \in 1 .. Len(wire) : Before(delivered[i], wire[j].msg)
    /\ \A i \in 1 .. Len(fifo), j \in 1 .. Len(wire) : Before(fifo[i].line, wire[j].msg)
    /\ \A i \in 1 .. Len(delivered) : Within(delivered[i], urcs)
    /\ \A i \in 1 .. Len(fifo) : Within(fifo[i].line, urcs)
    /\ \A i \in 1 .. Len(wire) : Within(wire[i].msg, urcs)

LEMMA OnTheirWay ==
    ASSUME TrafficInv, QueueInv
    PROVE  /\ urcs \in Nat
           /\ \A i \in 1 .. Len(delivered) : delivered[i] \in Message
           /\ \A i \in 1 .. Len(fifo) : fifo[i] \in Entry /\ fifo[i].line \in Message
           /\ \A i \in 1 .. Len(wire) : wire[i] \in Token /\ wire[i].msg \in Message
<1>1. delivered \in Seq(Message) /\ fifo \in Seq(Entry) /\ wire \in Seq(Token)
  BY DEF TrafficInv, QueueInv, MessageInv
<1>2. \A i \in 1 .. Len(delivered) : delivered[i] \in Message
  BY <1>1, ElementOfSeq
<1>3. \A i \in 1 .. Len(fifo) : fifo[i] \in Entry
  BY <1>1, ElementOfSeq
<1>4. \A i \in 1 .. Len(wire) : wire[i] \in Token
  BY <1>1, ElementOfSeq
<1>. QED BY <1>2, <1>3, <1>4 DEF TrafficInv, MessageInv, Entry, Token

\* What is sent is no URC or the next one, behind all the others.
LEMMA SendKeepsOrder ==
    ASSUME TrafficInv, QueueInv, OrderInv, NEW m \in Message, Send(m),
           UNCHANGED <<delivered, fifo, taken>>,
           \/ UNCHANGED urcs /\ m.type # "urc"
           \/ urcs' = urcs + 1 /\ m.id = urcs + 1
    PROVE  OrderInv'
<1>1. /\ urcs \in Nat
      /\ \A i \in 1 .. Len(delivered) : delivered[i] \in Message
      /\ \A i \in 1 .. Len(fifo) : fifo[i] \in Entry /\ fifo[i].line \in Message
      /\ \A i \in 1 .. Len(wire) : wire[i] \in Token /\ wire[i].msg \in Message
  BY OnTheirWay
<1>2. /\ Len(wire) \in Nat /\ Len(wire') \in Nat /\ Len(wire) < Len(wire')
      /\ \A i \in 1 .. Len(wire) : i \in 1 .. Len(wire') /\ wire'[i] = wire[i]
      /\ \A i \in 1 .. Len(wire') : i \notin 1 .. Len(wire) =>
             /\ wire'[i].msg = m
             /\ wire'[i].part \in LastParts => i = Len(wire')
  BY Sent DEF TrafficInv, MessageInv
<1>3. ASSUME NEW n \in Message, Within(n, urcs)
      PROVE  Within(n, urcs') /\ Before(n, m)
  <2>1. n.id \in Nat
    BY DEF Message
  <2>2. n.type = "urc" => n.id <= urcs /\ n.id <= urcs' /\ (m.type = "urc" => n.id < m.id)
    BY <1>1, <1>3, <2>1 DEF Within
  <2>. QED BY <2>2 DEF Within, Before
<1>4. Within(m, urcs')
  BY <1>1 DEF Within
<1>5. ASSUME NEW i \in 1 .. Len(wire')
      PROVE  Within(wire'[i].msg, urcs')
  BY <1>1, <1>2, <1>3, <1>4 DEF OrderInv
<1>6. ASSUME NEW i \in 1 .. Len(wire'), NEW j \in 1 .. Len(wire'), i < j,
             wire'[i].part \in LastParts
      PROVE  Before(wire'[i].msg, wire'[j].msg)
  <2>1. i \in 1 .. Len(wire)
    BY <1>2, <1>6
  <2>2. CASE j \in 1 .. Len(wire)
    BY <1>2, <1>6, <2>1, <2>2 DEF OrderInv
  <2>3. CASE j \notin 1 .. Len(wire)
    <3>1. Before(wire[i].msg, m)
      BY <1>1, <1>3, <2>1 DEF OrderInv
    <3>. QED BY <1>2, <2>1, <2>3, <3>1
  <2>. QED BY <2>2, <2>3
<1>7. ASSUME NEW n \in Message, Within(n, urcs), \A j \in 1 .. Len(wire) : Before(n, wire[j].msg)
      PROVE  \A j \in 1 .. Len(wire') : Before(n, wire'[j].msg)
  <2>1. Before(n, m)
    BY <1>3, <1>7
  <2>. QED BY <1>2, <1>7, <2>1
<1>8. \A i \in 1 .. Len(delivered), j \in 1 .. Len(wire') : Before(delivered[i], wire'[j].msg)
  BY <1>1, <1>7 DEF OrderInv
<1>9. \A i \in 1 .. Len(fifo), j \in 1 .. Len(wire') : Before(fifo[i].line, wire'[j].msg)
  BY <1>1, <1>7 DEF OrderInv
<1>10. /\ \A i \in 1 .. Len(delivered) : Within(delivered[i], urcs')
       /\ \A i \in 1 .. Len(fifo) : Within(fifo[i].line, urcs')
  BY <1>1, <1>3 DEF OrderInv
<1>11. /\ \A i, j \in 1 .. Len(delivered) : i < j => Before(delivered[i], delivered[j])
       /\ \A i, j \in 1 .. Len(fifo) : i < j => Before(fifo[i].line, fifo[j].line)
       /\ \A i \in 1 .. Len(delivered), j \in Undelivered : Before(delivered[i], fifo[j].line)
  BY DEF OrderInv
<1>. QED BY <1>5, <1>6, <1>8, <1>9, <1>10, <1>11 DEF OrderInv, Undelivered

\* A read leaves the others in their order, and its own message is before those behind it.
LEMMA ReadKeepsOrder ==
    ASSUME TrafficInv, QueueInv, OrderInv, NEW c \in Calls, ReadToken(c)
    PROVE  OrderInv'
<1>1. /\ wire # <<>> /\ wire' = Tail(wire) /\ UNCHANGED <<taken, delivered, urcs>>
      /\ \/ UNCHANGED fifo
         \/ /\ Part \in LastParts
            /\ \E p \in {"none", "data"} : fifo' = Append(fifo, [line |-> Msg, payload |-> p])
  BY ReadAndQueue DEF LastParts
<1>2. /\ Len(wire) \in Nat /\ Len(wire') \in Nat
      /\ 1 \in 1 .. Len(wire) /\ Head(wire) = wire[1]
      /\ \A i \in 1 .. Len(wire') :
             i + 1 \in 1 .. Len(wire) /\ i + 1 # 1 /\ wire'[i] = wire[i + 1]
  BY <1>1, TokenOff DEF TrafficInv, MessageInv
<1>3. Msg \in Message /\ Msg = wire[1].msg /\ Part = wire[1].part
  BY <1>1, <1>2, NextIsToken DEF TrafficInv, Msg, Part
<1>4. /\ \A i \in 1 .. Len(delivered) : Before(delivered[i], Msg)
      /\ \A i \in 1 .. Len(fifo) : Before(fifo[i].line, Msg)
      /\ Within(Msg, urcs)
  BY <1>2, <1>3 DEF OrderInv
<1>5. ASSUME NEW i \in 1 .. Len(wire'), NEW j \in 1 .. Len(wire'), i < j,
             wire'[i].part \in LastParts
      PROVE  Before(wire'[i].msg, wire'[j].msg)
  <2>1. /\ i + 1 \in 1 .. Len(wire) /\ wire'[i] = wire[i + 1]
        /\ j + 1 \in 1 .. Len(wire) /\ wire'[j] = wire[j + 1]
    BY <1>2
  <2>2. i + 1 < j + 1
    BY <1>2, <1>5
  <2>3. wire[i + 1].part \in LastParts
    BY <1>5, <2>1
  <2>. QED BY <2>1, <2>2, <2>3 DEF OrderInv
<1>6. /\ \A i \in 1 .. Len(delivered), j \in 1 .. Len(wire') : Before(delivered[i], wire'[j].msg)
      /\ \A i \in 1 .. Len(fifo), j \in 1 .. Len(wire') : Before(fifo[i].line, wire'[j].msg)
      /\ \A i \in 1 .. Len(wire') : Within(wire'[i].msg, urcs)
  BY <1>2 DEF OrderInv
<1>7. ASSUME Part \in LastParts, NEW j \in 1 .. Len(wire')
      PROVE  Before(Msg, wire'[j].msg)
  <2>1. j + 1 \in 1 .. Len(wire) /\ 1 < j + 1 /\ wire'[j] = wire[j + 1]
    BY <1>2
  <2>. QED BY <1>2, <1>3, <1>7, <2>1 DEF OrderInv
<1>8. CASE UNCHANGED fifo
  BY <1>1, <1>5, <1>6, <1>8 DEF OrderInv, Undelivered
<1>9. ASSUME Part \in LastParts, NEW p \in {"none", "data"},
             fifo' = Append(fifo, [line |-> Msg, payload |-> p])
      PROVE  OrderInv'
  <2>1. [line |-> Msg, payload |-> p] \in Entry /\ fifo \in Seq(Entry)
    BY <1>3 DEF Entry, QueueInv
  <2>2. /\ Len(fifo) \in Nat /\ Len(fifo') = Len(fifo) + 1
        /\ \A i \in 1 .. Len(fifo) : i \in 1 .. Len(fifo') /\ fifo'[i] = fifo[i]
        /\ fifo'[Len(fifo')] = [line |-> Msg, payload |-> p]
        /\ \A i \in 1 .. Len(fifo') : i \in 1 .. Len(fifo) \/ i = Len(fifo')
    BY <1>9, <2>1, AppendFacts
  <2>3. fifo'[Len(fifo')].line = Msg
    BY <2>2
  <2>4. ASSUME NEW i \in 1 .. Len(fifo'), NEW j \in 1 .. Len(fifo'), i < j
        PROVE  Before(fifo'[i].line, fifo'[j].line)
    <3>1. i \in 1 .. Len(fifo)
      BY <2>2, <2>4
    <3>2. CASE j \in 1 .. Len(fifo)
      BY <2>2, <2>4, <3>1, <3>2 DEF OrderInv
    <3>3. CASE j = Len(fifo')
      BY <1>4, <2>2, <2>3, <3>1, <3>3
    <3>. QED BY <2>2, <3>2, <3>3
  <2>5. ASSUME NEW i \in 1 .. Len(delivered), NEW j \in Undelivered'
        PROVE  Before(delivered[i], fifo'[j].line)
    <3>1. j \in 1 .. Len(fifo') /\ (taken # NoUrc => j # 1)
      BY <1>1 DEF Undelivered
    <3>2. CASE j \in 1 .. Len(fifo)
      BY <2>2, <3>1, <3>2 DEF OrderInv, Undelivered
    <3>3. CASE j = Len(fifo')
      BY <1>4, <2>3, <3>3
    <3>. QED BY <2>2, <3>1, <3>2, <3>3
  <2>6. ASSUME NEW i \in 1 .. Len(fifo')
        PROVE  /\ \A j \in 1 .. Len(wire') : Before(fifo'[i].line, wire'[j].msg)
               /\ Within(fifo'[i].line, urcs)
    <3>1. CASE i \in 1 .. Len(fifo)
      BY <1>6, <2>2, <3>1 DEF OrderInv
    <3>2. CASE i = Len(fifo')
      BY <1>4, <1>7, <1>9, <2>3, <3>2
    <3>. QED BY <2>2, <3>1, <3>2
  <2>. QED BY <1>1, <1>5, <1>6, <2>4, <2>5, <2>6 DEF OrderInv
<1>. QED BY <1>1, <1>8, <1>9

\* The callback gets the first URC of the queue, which then counts as delivered.
LEMMA DequeueBeginKeepsOrder ==
    ASSUME TrafficInv, QueueInv, OrderInv, NEW c \in Calls, DequeueBegin(c)
    PROVE  OrderInv'
<1>1. /\ fifo # <<>> /\ taken = NoUrc /\ taken' = Head(fifo)
      /\ delivered' = Append(delivered, Head(fifo).line)
      /\ UNCHANGED <<wire, fifo, urcs>>
  BY DEF DequeueBegin, Queue!DequeueBegin, moduleVars
<1>. DEFINE m == Head(fifo).line
<1>2. Head(fifo) = fifo[1] /\ 1 \in 1 .. Len(fifo) /\ Head(fifo) \in Entry
  BY <1>1, QueueFacts DEF QueueInv
<1>3. m \in Message /\ taken' # NoUrc
  BY <1>1, <1>2, NoUrcAssumption DEF Entry, Queue!Entry
<1>4. /\ Len(delivered) \in Nat /\ Len(delivered') = Len(delivered) + 1
      /\ \A i \in 1 .. Len(delivered) : i \in 1 .. Len(delivered') /\ delivered'[i] = delivered[i]
      /\ delivered'[Len(delivered')] = m
      /\ \A i \in 1 .. Len(delivered') : i \in 1 .. Len(delivered) \/ i = Len(delivered')
  BY <1>1, <1>3, AppendFacts DEF QueueInv
<1>5. 1 \in Undelivered /\ \A i \in Undelivered' : i \in Undelivered /\ i # 1 /\ i \in 1 .. Len(fifo)
  BY <1>1, <1>2, <1>3 DEF Undelivered
<1>6. /\ \A i \in 1 .. Len(delivered) : Before(delivered[i], m)
      /\ \A j \in 1 .. Len(wire) : Before(m, wire[j].msg)
      /\ Within(m, urcs)
  BY <1>2, <1>5 DEF OrderInv
<1>7. ASSUME NEW j \in Undelivered'
      PROVE  Before(m, fifo[j].line)
  <2>1. Len(fifo) \in Nat
    BY LenProperties DEF QueueInv
  <2>2. j \in 1 .. Len(fifo) /\ 1 < j
    BY <1>5, <2>1
  <2>. QED BY <1>2, <2>2 DEF OrderInv
<1>. HIDE DEF m
<1>8. ASSUME NEW i \in 1 .. Len(delivered'), NEW j \in 1 .. Len(delivered'), i < j
      PROVE  Before(delivered'[i], delivered'[j])
  <2>1. i \in 1 .. Len(delivered)
    BY <1>4, <1>8
  <2>2. CASE j \in 1 .. Len(delivered)
    BY <1>4, <1>8, <2>1, <2>2 DEF OrderInv
  <2>3. CASE j = Len(delivered')
    BY <1>4, <1>6, <2>1, <2>3
  <2>. QED BY <1>4, <2>2, <2>3
<1>9. ASSUME NEW i \in 1 .. Len(delivered')
      PROVE  /\ \A j \in Undelivered' : Before(delivered'[i], fifo[j].line)
             /\ \A j \in 1 .. Len(wire) : Before(delivered'[i], wire[j].msg)
             /\ Within(delivered'[i], urcs)
  <2>1. CASE i \in 1 .. Len(delivered)
    BY <1>4, <1>5, <2>1 DEF OrderInv
  <2>2. CASE i = Len(delivered')
    BY <1>4, <1>6, <1>7, <2>2
  <2>. QED BY <1>4, <2>1, <2>2
<1>. QED BY <1>1, <1>8, <1>9 DEF OrderInv

\* The entry leaves the queue: the next one is the first.
LEMMA DequeueEndKeepsOrder ==
    ASSUME TrafficInv, QueueInv, OrderInv, NEW c \in Calls, DequeueEnd(c)
    PROVE  OrderInv'
<1>1. /\ taken # NoUrc /\ taken' = NoUrc /\ fifo' = Tail(fifo)
      /\ UNCHANGED <<wire, delivered, urcs>>
  BY DEF DequeueEnd, RemoveEntry, Queue!DequeueEnd, moduleVars
<1>2. /\ Len(fifo) \in Nat /\ Len(fifo') \in Nat
      /\ \A i \in 1 .. Len(fifo') : i + 1 \in 1 .. Len(fifo) /\ i + 1 # 1 /\ fifo'[i] = fifo[i + 1]
  BY <1>1, TailFacts DEF QueueInv
<1>3. \A i \in Undelivered' : i + 1 \in Undelivered /\ fifo'[i] = fifo[i + 1]
  BY <1>2 DEF Undelivered
<1>4. ASSUME NEW i \in 1 .. Len(fifo'), NEW j \in 1 .. Len(fifo'), i < j
      PROVE  Before(fifo'[i].line, fifo'[j].line)
  <2>1. i + 1 \in 1 .. Len(fifo) /\ j + 1 \in 1 .. Len(fifo) /\ i + 1 < j + 1
    BY <1>2, <1>4
  <2>. QED BY <1>2, <2>1 DEF OrderInv
<1>5. /\ \A i \in 1 .. Len(delivered), j \in Undelivered' : Before(delivered[i], fifo'[j].line)
      /\ \A i \in 1 .. Len(fifo'), j \in 1 .. Len(wire) : Before(fifo'[i].line, wire[j].msg)
      /\ \A i \in 1 .. Len(fifo') : Within(fifo'[i].line, urcs)
  BY <1>2, <1>3 DEF OrderInv
<1>. QED BY <1>1, <1>4, <1>5 DEF OrderInv

LEMMA OrderStep == TrafficInv /\ QueueInv /\ OrderInv /\ [Next]_vars => OrderInv'
<1>. SUFFICES ASSUME TrafficInv, QueueInv, OrderInv, [Next]_vars PROVE OrderInv'
  OBVIOUS
<1>1. CASE UNCHANGED trafficVars
  BY <1>1 DEF trafficVars, OrderInv, Undelivered
<1>2. CASE Module
  <2>1. UNCHANGED <<delivered, fifo, taken>>
    BY <1>2, ModuleLeaves
  <2>2. PICK m \in Message :
            /\ Send(m)
            /\ \/ UNCHANGED urcs /\ m.type # "urc"
               \/ urcs' = urcs + 1 /\ m.id = urcs + 1
    BY <1>2, ModuleSends DEF TrafficInv, ResponseOf, StatusOf, NextUrc
  <2>. QED BY <2>1, <2>2, SendKeepsOrder
<1>. QED BY <1>1, <1>2, ReadKeepsOrder, DequeueBeginKeepsOrder, DequeueEndKeepsOrder, TrafficSteps

UrcInv == TrafficInv /\ QueueInv /\ OrderInv

LEMMA UrcInit == Init => UrcInv
<1>. SUFFICES ASSUME Init PROVE UrcInv
  OBVIOUS
<1>1. /\ cmd \in [Calls -> Nat] /\ wire = <<>> /\ pending = <<>> /\ ~isBinaryRx
      /\ fifo = <<>> /\ open = NoUrc /\ taken = NoUrc /\ delivered = <<>>
      /\ queueMutex = NoCall /\ cmds = 0 /\ urcs = 0 /\ ioErrors = 0
  BY DEF Init, Queue!Init
<1>2. /\ wire \in Seq(Token) /\ pending \in Seq(Order) /\ fifo \in Seq(Entry)
      /\ delivered \in Seq(Message)
      /\ Len(wire) = 0 /\ Len(fifo) = 0 /\ Len(delivered) = 0
  BY <1>1, EmptySeq
<1>3. TrafficInv
  BY <1>1, <1>2 DEF TrafficInv, MessageInv, InMessage, InOneMessage, Whole
<1>4. QueueInv
  BY <1>1, <1>2 DEF QueueInv
<1>5. OrderInv
  BY <1>2 DEF OrderInv
<1>. QED BY <1>3, <1>4, <1>5 DEF UrcInv

\* The URC callback gets the URCs in the order in which the module sent them, and none of
\* them twice: whichever thread reads a URC (handleRxData() in a command or in HandleRx)
\* and whichever gives it to the callback (processUrcs()), with calls from the callback and
\* between cmdBeginF() and cmdEnd(), time-outs, failing reads and messages in pieces.
THEOREM UrcsStayInOrder == Spec => []UrcsInOrder
<1>1. UrcInv /\ [Next]_vars => UrcInv'
  BY TrafficStep, QueueStep, OrderStep DEF UrcInv
<1>2. UrcInv => UrcsInOrder
  BY DEF UrcInv, OrderInv, Before, UrcsInOrder
<1>. QED BY UrcInit, <1>1, <1>2, PTL DEF Spec

-----------------------------------------------------------------------------
(* Types. *)

\* The calls that have a command, from the moment they wait for cmdMutex.
Busy == InCommand \cup {"cmdLock"}

CmdTypes ==
    /\ PcOK
    /\ cmd \in [Calls -> 0 .. MaxCmds] /\ cmds \in 0 .. MaxCmds
    /\ \A c \in Calls : pc[c] \in Busy => cmd[c] \in CmdIds
    /\ pending \in Seq([cmd : CmdIds, rsp : {"none", "line", "binary"}])

\* A call that goes from place to place: it has a command afterwards only if it had one.
BusyMoves ==
    /\ PcOK'
    /\ \A c \in Calls : pc'[c] \in Busy => pc[c] \in Busy

LEMMA MovesBusy ==
    ASSUME PcOK, NEW c \in Calls, NEW l \in Locations, pc' = [pc EXCEPT ![c] = l],
           l \in Busy => pc[c] \in Busy
    PROVE  BusyMoves
BY DEF PcOK, BusyMoves

LEMMA BusySteps ==
    ASSUME PcOK, [Next]_vars
    PROVE  \/ UNCHANGED <<cmd, cmds, pending>> /\ BusyMoves
           \/ Module
           \/ \E c \in Calls : CallCmd(c) \/ Return(c) \/ \E rsp \in RspKinds : CmdBegin(c, rsp)
<1>. USE DEF moduleVars
<1>1. CASE UNCHANGED vars \/ Expire
  <2>1. UNCHANGED <<pc, cmd, cmds, pending>>
    BY <1>1 DEF vars, Expire
  <2>. QED BY <2>1 DEF PcOK, BusyMoves
<1>2. ASSUME NEW c \in Calls,
             CallHandleRx(c) \/ RxLock(c) \/ RxUnlock(c) \/ CmdDone(c)
      PROVE  UNCHANGED <<cmd, cmds, pending>> /\ BusyMoves
  <2>1. UNCHANGED <<cmd, cmds, pending>>
    BY <1>2 DEF CallHandleRx, RxLock, RxUnlock, CmdDone
  <2>2. \E l \in {"rxLock", "rxUnlock", "rxRead", "drain"} : pc' = [pc EXCEPT ![c] = l]
    BY <1>2 DEF CallHandleRx, RxLock, RxUnlock, CmdDone, RxLockedAt, Goto
  <2>3. \A l \in {"rxLock", "rxUnlock", "rxRead", "drain"} : l \in Locations /\ l \notin Busy
    BY DEF Locations, Reading, Busy, InCommand
  <2>. QED BY <2>1, <2>2, <2>3, MovesBusy
<1>3. ASSUME NEW c \in Calls, GetRsp(c) \/ RspCheck(c) \/ CmdEnd(c) \/ EndCheck(c)
      PROVE  UNCHANGED <<cmd, cmds, pending>> /\ BusyMoves
  <2>1. UNCHANGED <<cmd, cmds, pending>>
    BY <1>3 DEF GetRsp, RspCheck, CmdEnd, EndCheck
  <2>2. /\ pc[c] \in {"getRsp", "rspCheck", "begun", "endCheck"}
        /\ \E l \in {"rspRead", "begun", "endRead", "endDone"} : pc' = [pc EXCEPT ![c] = l]
    BY <1>3 DEF GetRsp, RspCheck, CmdEnd, EndCheck, Goto
  <2>3. /\ pc[c] \in Busy
        /\ {"rspRead", "begun", "endRead", "endDone"} \subseteq Locations
    BY <2>2 DEF Locations, Busy, InCommand
  <2>. QED BY <2>1, <2>2, <2>3, MovesBusy
<1>4. ASSUME NEW c \in Calls, ReadToken(c) \/ ReadNothing(c) \/ ReadError(c)
      PROVE  UNCHANGED <<cmd, cmds, pending>> /\ BusyMoves
  <2>1. UNCHANGED <<cmd, cmds, pending>>
    <3>1. CASE ReadToken(c)
      BY <3>1, TokenRead
    <3>2. CASE ReadNothing(c) \/ ReadError(c)
      BY <3>2 DEF ReadNothing, ReadError
    <3>. QED BY <1>4, <3>1, <3>2
  <2>2. \/ UNCHANGED pc
        \/ pc[c] = "rspRead" /\ (Moves(c, "begun") \/ Moves(c, "rspCheck"))
        \/ pc[c] = "endRead" /\ Moves(c, "endCheck")
        \/ pc[c] = "rxRead" /\ Moves(c, "rxUnlock")
    BY <1>4, ReadMoves
  <2>3. {"rspRead", "endRead"} \subseteq Busy /\ "rxUnlock" \notin Busy
    BY DEF Busy, InCommand
  <2>4. CASE UNCHANGED pc
    BY <2>1, <2>4 DEF PcOK, BusyMoves
  <2>5. ASSUME NEW l, Moves(c, l), l \in Busy => pc[c] \in Busy
        PROVE  BusyMoves
    BY <2>5, MovesBusy DEF Moves
  <2>. QED BY <2>1, <2>2, <2>3, <2>4, <2>5
<1>5. ASSUME NEW c \in Calls,
             \/ TryLock(c) \/ TryLockFails(c) \/ DequeueBegin(c) \/ DequeueNone(c)
             \/ DequeueEmpty(c) \/ DequeueEnd(c)
      PROVE  UNCHANGED <<cmd, cmds, pending>> /\ BusyMoves
  <2>1. UNCHANGED <<cmd, cmds, pending>>
    BY <1>5 DEF TryLock, TryLockFails, DequeueBegin, DequeueNone, DequeueEmpty, DequeueEnd
  <2>2. \E l \in {"locked", "ret", "callback", "empty", "drain"} : pc' = [pc EXCEPT ![c] = l]
    BY <1>5 DEF TryLock, TryLockFails, DequeueBegin, DequeueNone, DequeueEmpty, DequeueEnd, Goto
  <2>3. \A l \in {"locked", "ret", "callback", "empty", "drain"} : l \in Locations /\ l \notin Busy
    BY DEF Locations, Busy, InCommand
  <2>. QED BY <2>1, <2>2, <2>3, MovesBusy
<1>. QED BY <1>1, <1>2, <1>3, <1>4, <1>5 DEF Next, TakeMutex, Step

LEMMA CmdTypesStep == CmdTypes /\ [Next]_vars => CmdTypes'
<1>. SUFFICES ASSUME CmdTypes, [Next]_vars PROVE CmdTypes'
  OBVIOUS
<1>. DEFINE Orders == [cmd : CmdIds, rsp : {"none", "line", "binary"}]
<1>1. CASE UNCHANGED <<cmd, cmds, pending>> /\ BusyMoves
  BY <1>1 DEF CmdTypes, BusyMoves
<1>2. CASE Module
  <2>1. UNCHANGED <<pc, cmd, cmds>>
    BY <1>2, ModuleLeaves
  <2>2. pending \in Seq(Orders)
    BY DEF CmdTypes
  <2>3. ASSUME ModuleRsp
        PROVE  pending' \in Seq(Orders)
    <3>1. pending # <<>> /\ pending' = [pending EXCEPT ![1].rsp = "none"]
      BY <2>3 DEF ModuleRsp
    <3>2. 1 \in 1 .. Len(pending) /\ pending[1] \in Orders
      <4>. HIDE DEF Orders
      <4>1. 1 \in 1 .. Len(pending)
        BY <2>2, <3>1, QueueFacts
      <4>. QED BY <2>2, <4>1, ElementOfSeq
    <3>3. [pending[1] EXCEPT !.rsp = "none"] \in Orders
      BY <3>2
    <3>4. pending' = [pending EXCEPT ![1] = [pending[1] EXCEPT !.rsp = "none"]]
      BY <3>1
    <3>. QED BY <2>2, <3>2, <3>3, <3>4, ExceptSeq
  <2>4. ASSUME NEW code \in {"ok", "error"}, ModuleStatus(code)
        PROVE  pending' \in Seq(Orders)
    BY <2>2, <2>4, QueueFacts DEF ModuleStatus
  <2>5. ASSUME NEW kind \in UrcKinds, ModuleUrc(kind)
        PROVE  pending' \in Seq(Orders)
    BY <2>2, <2>5 DEF ModuleUrc
  <2>6. pending' \in Seq(Orders)
    BY <1>2, <2>3, <2>4, <2>5 DEF Module
  <2>. QED BY <2>1, <2>6 DEF CmdTypes, PcOK
<1>3. ASSUME NEW c \in Calls, CallCmd(c)
      PROVE  CmdTypes'
  <2>1. /\ cmds < MaxCmds /\ cmds' = cmds + 1 /\ cmd' = [cmd EXCEPT ![c] = cmds']
        /\ pc' = [pc EXCEPT ![c] = "cmdLock"] /\ UNCHANGED pending
    BY <1>3 DEF CallCmd, Goto, moduleVars
  <2>2. cmds' \in CmdIds /\ cmds' \in 0 .. MaxCmds
    BY <2>1, BoundsAssumption DEF CmdTypes, CmdIds
  <2>3. PcOK'
    BY <2>1 DEF CmdTypes, PcOK, Locations
  <2>4. cmd' \in [Calls -> 0 .. MaxCmds]
    BY <2>1, <2>2 DEF CmdTypes
  <2>5. \A d \in Calls : pc'[d] \in Busy => cmd'[d] \in CmdIds
    BY <2>1, <2>2 DEF CmdTypes, PcOK
  <2>. QED BY <2>1, <2>2, <2>3, <2>4, <2>5 DEF CmdTypes
<1>4. ASSUME NEW c \in Calls, Return(c)
      PROVE  CmdTypes'
  <2>1. /\ cmd' = [cmd EXCEPT ![c] = 0] /\ pc' = [pc EXCEPT ![c] = "idle"]
        /\ UNCHANGED <<cmds, pending>>
    BY <1>4 DEF Return, Goto, moduleVars
  <2>2. "idle" \in Locations /\ "idle" \notin Busy /\ 0 \in 0 .. MaxCmds
    BY BoundsAssumption DEF Locations, Busy, InCommand
  <2>. QED BY <2>1, <2>2 DEF CmdTypes, PcOK
<1>5. ASSUME NEW c \in Calls, NEW rsp \in RspKinds, CmdBegin(c, rsp)
      PROVE  CmdTypes'
  <2>1. /\ pc[c] = "cmdLock" /\ pending' = Append(pending, [cmd |-> cmd[c], rsp |-> rsp])
        /\ pc' = [pc EXCEPT ![c] = IF rsp = "none" THEN "begun" ELSE "getRsp"]
        /\ UNCHANGED <<cmd, cmds>>
    BY <1>5 DEF CmdBegin, SendCmd, Goto
  <2>2. "cmdLock" \in Busy /\ {"begun", "getRsp"} \subseteq Locations
    BY DEF Busy, Locations, InCommand
  <2>3. BusyMoves
    BY <2>1, <2>2, MovesBusy DEF CmdTypes
  <2>4. [cmd |-> cmd[c], rsp |-> rsp] \in Orders
    BY <2>1, <2>2, KindsAssumption DEF CmdTypes
  <2>5. pending' \in Seq(Orders)
    BY <2>1, <2>4 DEF CmdTypes
  <2>. QED BY <2>1, <2>3, <2>5 DEF CmdTypes, BusyMoves
<1>. QED BY <1>1, <1>2, <1>3, <1>4, <1>5, BusySteps DEF CmdTypes

-----------------------------------------------------------------------------
(* The responses and statuses, as they are read and kept. *)

resultVars == <<status, expecting, pRspParams, rspBinaryBuf, binaryRx, log>>

\* The steps of a command, and the reads, set the results of commands.
LEMMA ResultSteps ==
    ASSUME [Next]_vars
    PROVE  \/ UNCHANGED resultVars
           \/ \E c \in Calls :
                  \/ \E rsp \in RspKinds : CmdBegin(c, rsp)
                  \/ GetRsp(c) \/ EndCheck(c) \/ CmdDone(c) \/ Return(c)
                  \/ ReadToken(c) \/ ReadError(c)
<1>. USE DEF resultVars, rspVars, binVars, clientVars
<1>1. CASE UNCHANGED vars
  BY <1>1 DEF vars
<1>2. CASE Expire
  BY <1>2 DEF Expire
<1>3. CASE Module
  BY <1>3, ModuleLeaves
<1>4. ASSUME NEW c \in Calls,
             CallCmd(c) \/ CallHandleRx(c) \/ RxLock(c) \/ RxUnlock(c) \/ ReadNothing(c)
      PROVE  UNCHANGED resultVars
  BY <1>4 DEF CallCmd, CallHandleRx, RxLock, RxUnlock, ReadNothing
<1>5. ASSUME NEW c \in Calls,
             RspCheck(c) \/ CmdEnd(c) \/ TryLock(c) \/ TryLockFails(c) \/ DequeueEmpty(c)
      PROVE  UNCHANGED resultVars
  BY <1>5 DEF RspCheck, CmdEnd, TryLock, TryLockFails, DequeueEmpty
<1>6. ASSUME NEW c \in Calls, DequeueBegin(c) \/ DequeueNone(c) \/ DequeueEnd(c)
      PROVE  UNCHANGED resultVars
  BY <1>6 DEF DequeueBegin, DequeueNone, DequeueEnd
<1>. HIDE DEF resultVars, rspVars, binVars, clientVars
<1>. QED BY <1>1, <1>2, <1>3, <1>4, <1>5, <1>6 DEF Next, TakeMutex, Step

BufferTypes ==
    /\ rspBinaryBuf \in 0 .. MaxCmds
    /\ binaryRx \in [state : {"rsp", "urc", "flush"}, buf : 0 .. MaxCmds]

\* What a read makes of binaryRx.
LEMMA ReadAndBinary ==
    ASSUME NEW c \in Calls, ReadToken(c)
    PROVE  /\ UNCHANGED rspBinaryBuf
           /\ \/ UNCHANGED binaryRx /\ Part \in {"line", "soh"}
              \/ /\ Part = "len" /\ Parsed(Msg) = "GOT_RSP"
                 /\ binaryRx' = [state |-> "rsp", buf |-> rspBinaryBuf]
              \/ /\ Part = "len" /\ Parsed(Msg) = "GOT_URC"
                 /\ \E st \in {"urc", "flush"} : binaryRx' = [state |-> st, buf |-> 0]
              \/ Part = "data" /\ binaryRx' = [binaryRx EXCEPT !.state = "flush"]
BY DEF ReadToken, ReadRsp, ReadStatus, ReadUrc, ReadUnexpected, ReadSoh, ReadLengthOfRsp,
       ReadLengthOfUrc, ReadLengthNoRoom, ReadDataOfRsp, ReadDataOfUrc, ReadDataToFlush,
       Reads, BinaryDone, binVars

LEMMA BufferTypesStep == CmdTypes /\ BufferTypes /\ [Next]_vars => BufferTypes'
<1>. SUFFICES ASSUME CmdTypes, BufferTypes, [Next]_vars PROVE BufferTypes'
  OBVIOUS
<1>1. CASE UNCHANGED <<rspBinaryBuf, binaryRx>>
  BY <1>1 DEF BufferTypes
<1>2. ASSUME NEW c \in Calls, GetRsp(c)
      PROVE  BufferTypes'
  <2>1. pc[c] = "getRsp" /\ rspBinaryBuf' = cmd[c] /\ UNCHANGED binaryRx
    BY <1>2 DEF GetRsp, SetRsp, binVars
  <2>2. cmd[c] \in 0 .. MaxCmds
    BY DEF CmdTypes
  <2>. QED BY <2>1, <2>2 DEF BufferTypes
<1>3. ASSUME NEW c \in Calls, ReadToken(c)
      PROVE  BufferTypes'
  <2>1. 0 \in 0 .. MaxCmds
    BY BoundsAssumption
  <2>. QED BY <1>3, <2>1, ReadAndBinary DEF BufferTypes
<1>4. ASSUME NEW c \in Calls,
             \/ \E rsp \in RspKinds : CmdBegin(c, rsp)
             \/ EndCheck(c) \/ CmdDone(c) \/ Return(c) \/ ReadError(c)
      PROVE  UNCHANGED <<rspBinaryBuf, binaryRx>>
  BY <1>4 DEF CmdBegin, EndCheck, CmdDone, Return, ReadError, rspVars, binVars
<1>. QED BY <1>1, <1>2, <1>3, <1>4, ResultSteps DEF resultVars

\* What the module sends: responses and statuses of commands, and URCs.
WellFormed(m) ==
    /\ m.type = "rsp" => m.id \in CmdIds /\ m.code \in {"line", "binary"}
    /\ m.type = "status" => m.id \in CmdIds /\ m.code \in {"ok", "error"}

WireTypes == \A i \in 1 .. Len(wire) : WellFormed(wire[i].msg)

\* The data that go to the buffer of a command are those of a response.
BinRspInv == binaryRx.state = "rsp" => wire # <<>> /\ Part = "data" /\ Msg.type = "rsp"

WireTypesInv == CmdTypes /\ BufferTypes /\ TrafficInv /\ WireTypes /\ BinRspInv

\* Behind the length of a message come its data.
LEMMA DataFollow ==
    ASSUME TrafficInv, NEW c \in Calls, ReadToken(c), Part = "len"
    PROVE  wire' # <<>> /\ Head(wire').part = "data" /\ Head(wire').msg = Msg
<1>1. /\ wire # <<>> /\ wire' = Tail(wire)
      /\ wire \in Seq(Token) /\ Whole(wire) /\ InOneMessage(wire)
  BY TokenRead DEF TrafficInv, MessageInv
<1>2. Tail(wire) # <<>> /\ Head(Tail(wire)).part = "data"
  BY <1>1, ReadFacts DEF Part
<1>3. wire[1 + 1].msg = wire[1].msg /\ Head(wire) = wire[1]
  BY <1>1, TokenOff DEF InOneMessage, Part
<1>4. wire' \in Seq(Token) /\ Head(wire') = wire'[1] /\ 1 \in 1 .. Len(wire')
  BY <1>1, <1>2, ReadFacts, QueueFacts
<1>5. wire'[1] = wire[1 + 1]
  BY <1>1, <1>4, TokenOff
<1>. QED BY <1>1, <1>2, <1>3, <1>4, <1>5 DEF Msg

LEMMA WireTypesStep == WireTypesInv /\ [Next]_vars => WireTypes' /\ BinRspInv'
<1>. SUFFICES ASSUME WireTypesInv, [Next]_vars PROVE WireTypes' /\ BinRspInv'
  OBVIOUS
<1>0. TrafficInv /\ MessageInv /\ wire \in Seq(Token)
  BY DEF WireTypesInv, TrafficInv, MessageInv
<1>1. CASE UNCHANGED trafficVars
  BY <1>1 DEF trafficVars, WireTypesInv, WireTypes, BinRspInv, Part, Msg
<1>2. CASE Module
  <2>1. PICK m \in Message :
            /\ Send(m)
            /\ \/ ModuleRsp /\ m = ResponseOf(Head(pending)) /\ Head(pending).rsp # "none"
               \/ \E code \in {"ok", "error"} :
                      ModuleStatus(code) /\ m = StatusOf(Head(pending), code)
               \/ \E kind \in UrcKinds : m = NextUrc(kind)
    BY <1>0, <1>2, ModuleSends
  <2>2. WellFormed(m)
    <3>1. ASSUME pending # <<>>
          PROVE  Head(pending) \in [cmd : CmdIds, rsp : {"none", "line", "binary"}]
      BY <3>1, QueueFacts DEF WireTypesInv, CmdTypes
    <3>2. CASE ModuleRsp /\ m = ResponseOf(Head(pending)) /\ Head(pending).rsp # "none"
      <4>1. pending # <<>>
        BY <3>2 DEF ModuleRsp
      <4>. QED BY <3>1, <3>2, <4>1 DEF WellFormed, ResponseOf
    <3>3. ASSUME NEW code \in {"ok", "error"}, ModuleStatus(code),
                 m = StatusOf(Head(pending), code)
          PROVE  WellFormed(m)
      <4>1. pending # <<>>
        BY <3>3 DEF ModuleStatus
      <4>. QED BY <3>1, <3>3, <4>1 DEF WellFormed, StatusOf
    <3>4. ASSUME NEW kind \in UrcKinds, m = NextUrc(kind)
          PROVE  WellFormed(m)
      BY <3>4 DEF WellFormed, NextUrc
    <3>. QED BY <2>1, <3>2, <3>3, <3>4
  <2>3. /\ \A i \in 1 .. Len(wire) : i \in 1 .. Len(wire') /\ wire'[i] = wire[i]
        /\ \A i \in 1 .. Len(wire') : i \notin 1 .. Len(wire) => wire'[i].msg = m
    BY <1>0, <2>1, Sent
  <2>4. ASSUME NEW i \in 1 .. Len(wire')
        PROVE  WellFormed(wire'[i].msg)
    BY <2>2, <2>3 DEF WireTypesInv, WireTypes
  <2>5. UNCHANGED binaryRx
    BY <1>2, ModuleLeaves
  <2>6. wire # <<>> => wire' # <<>> /\ Head(wire') = Head(wire)
    <3>1. /\ Tokens(m) \in Seq(Token) /\ Len(Tokens(m)) >= 1
          /\ Whole(Tokens(m)) /\ Tokens(m)[1].part \in {"line", "soh"}
      BY TokensFacts
    <3>. QED BY <1>0, <2>1, <3>1, SendFacts DEF Send, MessageInv
  <2>. QED BY <2>4, <2>5, <2>6 DEF WireTypesInv, WireTypes, WellFormed, BinRspInv, Part, Msg
<1>3. ASSUME NEW c \in Calls, ReadToken(c)
      PROVE  WireTypes' /\ BinRspInv'
  <2>1. wire # <<>> /\ wire' = Tail(wire)
    BY <1>3, TokenRead
  <2>2. \A i \in 1 .. Len(wire') : i + 1 \in 1 .. Len(wire) /\ wire'[i] = wire[i + 1]
    BY <1>0, <2>1, TokenOff
  <2>3. ASSUME NEW i \in 1 .. Len(wire')
        PROVE  WellFormed(wire'[i].msg)
    BY <2>2 DEF WireTypesInv, WireTypes
  <2>4. ASSUME binaryRx'.state = "rsp"
        PROVE  wire' # <<>> /\ Head(wire').part = "data" /\ Head(wire').msg.type = "rsp"
    <3>1. \/ UNCHANGED binaryRx /\ Part \in {"line", "soh"}
          \/ /\ Part = "len" /\ Parsed(Msg) = "GOT_RSP"
             /\ binaryRx' = [state |-> "rsp", buf |-> rspBinaryBuf]
          \/ /\ Part = "len" /\ Parsed(Msg) = "GOT_URC"
             /\ \E st \in {"urc", "flush"} : binaryRx' = [state |-> st, buf |-> 0]
          \/ Part = "data" /\ binaryRx' = [binaryRx EXCEPT !.state = "flush"]
      BY <1>3, ReadAndBinary
    <3>2. Part = "len" /\ Parsed(Msg) = "GOT_RSP"
      BY <2>4, <3>1 DEF WireTypesInv, BinRspInv, BufferTypes
    <3>3. Msg.type = "rsp"
      BY <3>2 DEF Parsed
    <3>. QED BY <1>0, <1>3, <3>2, <3>3, DataFollow
  <2>. QED BY <2>3, <2>4 DEF WireTypes, WellFormed, BinRspInv, Part, Msg
<1>4. ASSUME NEW c \in Calls, DequeueBegin(c) \/ DequeueEnd(c)
      PROVE  WireTypes' /\ BinRspInv'
  <2>1. UNCHANGED <<wire, binaryRx>>
    BY <1>4 DEF DequeueBegin, DequeueEnd, binVars, moduleVars
  <2>. QED BY <2>1 DEF WireTypesInv, WireTypes, BinRspInv, Part, Msg
<1>. QED BY <1>1, <1>2, <1>3, <1>4, TrafficSteps

StatusRange == [code : StatusCodes, of : 0 .. MaxCmds]
LogEntry == [answer : StatusCodes, decided : StatusRange, rsp : 0 .. MaxCmds,
             data : SUBSET CmdIds, result : StatusCodes \cup {"running"}]

ResultTypes ==
    /\ status \in StatusRange
    /\ pRspParams \in 0 .. MaxCmds
    /\ log \in [CmdIds -> LogEntry]

\* An entry of the log changes in one field.
LEMMA LogFacts ==
    ASSUME log \in [CmdIds -> LogEntry], NEW i \in CmdIds
    PROVE  /\ \A v \in StatusCodes : [log EXCEPT ![i].answer = v] \in [CmdIds -> LogEntry]
           /\ \A v \in StatusRange : [log EXCEPT ![i].decided = v] \in [CmdIds -> LogEntry]
           /\ \A v \in 0 .. MaxCmds : [log EXCEPT ![i].rsp = v] \in [CmdIds -> LogEntry]
           /\ \A v \in StatusCodes : [log EXCEPT ![i].result = v] \in [CmdIds -> LogEntry]
<1>1. log[i] \in LogEntry
  OBVIOUS
<1>2. /\ \A v \in StatusCodes : [log[i] EXCEPT !.answer = v] \in LogEntry
      /\ \A v \in StatusRange : [log[i] EXCEPT !.decided = v] \in LogEntry
      /\ \A v \in 0 .. MaxCmds : [log[i] EXCEPT !.rsp = v] \in LogEntry
      /\ \A v \in StatusCodes : [log[i] EXCEPT !.result = v] \in LogEntry
  BY <1>1 DEF LogEntry
<1>3. \A e \in LogEntry : [log EXCEPT ![i] = e] \in [CmdIds -> LogEntry]
  OBVIOUS
<1>. QED BY <1>2, <1>3

LEMMA ReadKeepsResults ==
    ASSUME WireTypesInv, ResultTypes, NEW c \in Calls, ReadToken(c)
    PROVE  ResultTypes'
<1>1. log \in [CmdIds -> LogEntry] /\ status \in StatusRange /\ pRspParams \in 0 .. MaxCmds
  BY DEF ResultTypes
<1>2. wire # <<>>
  BY TokenRead
<1>3. WellFormed(Msg)
  <2>1. Head(wire) = wire[1] /\ 1 \in 1 .. Len(wire)
    BY <1>2, QueueFacts DEF WireTypesInv, TrafficInv, MessageInv
  <2>. QED BY <2>1 DEF WireTypesInv, WireTypes, Msg
<1>4. CmdIds \subseteq 0 .. MaxCmds
  BY DEF CmdIds
<1>5. pc[c] = "rspRead" => cmd[c] \in CmdIds
  BY DEF WireTypesInv, CmdTypes, Busy, InCommand
<1>6. CASE ReadRsp(c)
  <2>1. /\ pRspParams' = Msg.id /\ UNCHANGED status /\ Msg.type = "rsp"
        /\ log' = IF pc[c] = "rspRead" THEN [log EXCEPT ![cmd[c]].rsp = Msg.id] ELSE log
    BY <1>6 DEF ReadRsp, Parsed
  <2>2. Msg.id \in 0 .. MaxCmds
    BY <1>3, <1>4, <2>1 DEF WellFormed
  <2>3. log' \in [CmdIds -> LogEntry]
    BY <1>1, <1>5, <2>1, <2>2, LogFacts
  <2>. QED BY <1>1, <2>1, <2>2, <2>3 DEF ResultTypes
<1>7. CASE ReadStatus(c)
  <2>1. /\ UNCHANGED pRspParams /\ Msg.type = "status"
        /\ status' = [code |-> Msg.code, of |-> Msg.id]
        /\ log' = IF Msg.id = cmd[c] THEN [log EXCEPT ![cmd[c]].answer = Msg.code] ELSE log
    BY <1>7 DEF ReadStatus, Parsed
  <2>2. Msg.id \in CmdIds /\ Msg.id \in 0 .. MaxCmds /\ Msg.code \in StatusCodes
    BY <1>3, <1>4, <2>1 DEF StatusCodes, WellFormed
  <2>3. log' \in [CmdIds -> LogEntry]
    BY <1>1, <2>1, <2>2, LogFacts
  <2>4. status' \in StatusRange
    BY <2>1, <2>2 DEF StatusRange
  <2>. QED BY <1>1, <2>1, <2>3, <2>4 DEF ResultTypes
<1>8. CASE ReadLengthOfRsp(c)
  <2>1. UNCHANGED <<status, log>> /\ pRspParams' = Msg.id /\ Msg.type = "rsp"
    BY <1>8 DEF ReadLengthOfRsp, Parsed
  <2>. QED BY <1>1, <1>3, <1>4, <2>1 DEF ResultTypes, WellFormed
<1>9. CASE ReadDataOfRsp(c)
  <2>1. /\ UNCHANGED <<status, pRspParams>> /\ Msg.type = "rsp"
        /\ log' = [i \in CmdIds |->
                     [log[i] EXCEPT
                        !.data = IF i = binaryRx.buf THEN @ \cup {Msg.id} ELSE @,
                        !.rsp = IF pc[c] = "rspRead" /\ i = cmd[c]
                                  THEN pRspParams ELSE @]]
    BY <1>9 DEF ReadDataOfRsp, WireTypesInv, BinRspInv
  <2>2. ASSUME NEW i \in CmdIds, NEW d \in SUBSET CmdIds, NEW r \in 0 .. MaxCmds
        PROVE  [log[i] EXCEPT !.data = d, !.rsp = r] \in LogEntry
    <3>1. [log[i] EXCEPT !.data = d] \in LogEntry
      BY <1>1 DEF LogEntry
    <3>2. \A e \in LogEntry : [e EXCEPT !.rsp = r] \in LogEntry
      BY DEF LogEntry
    <3>. QED BY <3>1, <3>2
  <2>3. ASSUME NEW i \in CmdIds
        PROVE  log'[i] \in LogEntry
    <3>1. log[i].data \in SUBSET CmdIds /\ log[i].rsp \in 0 .. MaxCmds
      BY <1>1 DEF LogEntry
    <3>2. (IF i = binaryRx.buf THEN log[i].data \cup {Msg.id} ELSE log[i].data) \in SUBSET CmdIds
      BY <1>3, <2>1, <3>1 DEF WellFormed
    <3>3. (IF pc[c] = "rspRead" /\ i = cmd[c] THEN pRspParams ELSE log[i].rsp) \in 0 .. MaxCmds
      BY <1>1, <3>1
    <3>. QED BY <2>1, <2>2, <3>2, <3>3
  <2>4. log' \in [CmdIds -> LogEntry]
    BY <2>1, <2>3
  <2>. QED BY <1>1, <2>1, <2>4 DEF ResultTypes
<1>10. CASE \/ ReadUrc(c) \/ ReadUnexpected(c) \/ ReadSoh(c) \/ ReadLengthOfUrc(c)
            \/ ReadLengthNoRoom(c) \/ ReadDataOfUrc(c) \/ ReadDataToFlush(c)
  <2>1. UNCHANGED <<status, pRspParams, log>>
    BY <1>10 DEF ReadUrc, ReadUnexpected, ReadSoh, ReadLengthOfUrc, ReadLengthNoRoom,
                 ReadDataOfUrc, ReadDataToFlush
  <2>. QED BY <1>1, <2>1 DEF ResultTypes
<1>. QED BY <1>6, <1>7, <1>8, <1>9, <1>10 DEF ReadToken

LEMMA ResultTypesStep == WireTypesInv /\ ResultTypes /\ [Next]_vars => ResultTypes'
<1>. SUFFICES ASSUME WireTypesInv, ResultTypes, [Next]_vars PROVE ResultTypes'
  OBVIOUS
<1>0. /\ log \in [CmdIds -> LogEntry] /\ status \in StatusRange /\ pRspParams \in 0 .. MaxCmds
      /\ 0 \in 0 .. MaxCmds /\ \A c \in Calls : cmd[c] \in 0 .. MaxCmds
      /\ \A c \in Calls : pc[c] \in Busy \/ cmd[c] # 0 => cmd[c] \in CmdIds
  BY BoundsAssumption DEF ResultTypes, WireTypesInv, CmdTypes, CmdIds
<1>1. CASE UNCHANGED resultVars
  BY <1>1 DEF resultVars, ResultTypes
<1>2. ASSUME NEW c \in Calls, NEW rsp \in RspKinds, CmdBegin(c, rsp)
      PROVE  ResultTypes'
  BY <1>0, <1>2 DEF CmdBegin, ResultTypes, NoStatus, StatusRange, StatusCodes
<1>3. ASSUME NEW c \in Calls, GetRsp(c)
      PROVE  ResultTypes'
  BY <1>0, <1>3 DEF GetRsp, ResultTypes, clientVars
<1>4. ASSUME NEW c \in Calls, EndCheck(c)
      PROVE  ResultTypes'
  <2>1. UNCHANGED <<pRspParams, log>> /\ status' = StatusAfterRead(c)
    BY <1>4 DEF EndCheck, rspVars
  <2>2. StatusAfterRead(c) \in StatusRange
    BY <1>0 DEF StatusAfterRead, StatusRange, StatusCodes
  <2>. QED BY <1>0, <2>1, <2>2 DEF ResultTypes
<1>5. ASSUME NEW c \in Calls, CmdDone(c)
      PROVE  ResultTypes'
  <2>1. UNCHANGED <<status, pRspParams>> /\ log' = [log EXCEPT ![cmd[c]].decided = status]
    BY <1>5 DEF CmdDone, rspVars
  <2>2. cmd[c] \in CmdIds
    BY <1>0, <1>5 DEF CmdDone, Busy, InCommand
  <2>3. log' \in [CmdIds -> LogEntry]
    BY <1>0, <2>1, <2>2, LogFacts
  <2>. QED BY <1>0, <2>1, <2>3 DEF ResultTypes
<1>6. ASSUME NEW c \in Calls, Return(c)
      PROVE  ResultTypes'
  <2>1. /\ UNCHANGED <<status, pRspParams>>
        /\ log' = IF cmd[c] = 0 THEN log ELSE [log EXCEPT ![cmd[c]].result = status.code]
    BY <1>6 DEF Return, rspVars, clientVars
  <2>2. status.code \in StatusCodes
    BY <1>0 DEF StatusRange
  <2>3. log' \in [CmdIds -> LogEntry]
    BY <1>0, <2>1, <2>2, LogFacts
  <2>. QED BY <1>0, <2>1, <2>3 DEF ResultTypes
<1>7. ASSUME NEW c \in Calls, ReadError(c)
      PROVE  ResultTypes'
  BY <1>0, <1>7 DEF ReadError, rspVars, ResultTypes, StatusRange, StatusCodes
<1>8. ASSUME NEW c \in Calls, ReadToken(c)
      PROVE  ResultTypes'
  BY <1>8, ReadKeepsResults
<1>. QED BY <1>1, <1>2, <1>3, <1>4, <1>5, <1>6, <1>7, <1>8, ResultSteps

\* What is left: the flags, the counters, the owner of dequeueMutex and the open entry.
RestTypes ==
    /\ dequeueMutex \in Calls \cup {NoCall}
    /\ expired \in BOOLEAN /\ expecting \in BOOLEAN /\ isBinaryRx \in BOOLEAN
    /\ open \in Message \cup {NoUrc}
    /\ urcs \in 0 .. MaxUrcs
    /\ ioErrors \in 0 .. MaxIoErrors

restVars == <<dequeueMutex, expired, expecting, isBinaryRx, open, urcs, ioErrors>>

LEMMA RestTypesStep == TrafficInv /\ QueueInv /\ RestTypes /\ [Next]_vars => RestTypes'
<1>. SUFFICES ASSUME TrafficInv, QueueInv, RestTypes, [Next]_vars PROVE RestTypes'
  OBVIOUS
<1>. USE DEF clientVars, rspVars, binVars, queueVars, moduleVars
<1>1. CASE UNCHANGED restVars
  BY <1>1 DEF RestTypes, restVars
<1>2. CASE UNCHANGED vars
  BY <1>1, <1>2 DEF vars, restVars
<1>3. CASE Expire
  BY <1>3 DEF Expire, RestTypes
<1>4. CASE Module
  <2>1. UNCHANGED <<expired, expecting, isBinaryRx, open, ioErrors>>
    BY <1>4, ModuleLeaves
  <2>2. UNCHANGED dequeueMutex
    BY <1>4 DEF Module, ModuleRsp, ModuleStatus, ModuleUrc
  <2>3. UNCHANGED urcs \/ (urcs < MaxUrcs /\ urcs' = urcs + 1)
    BY <1>4 DEF Module, ModuleRsp, ModuleStatus, ModuleUrc
  <2>4. urcs' \in 0 .. MaxUrcs
    BY <2>3, BoundsAssumption DEF RestTypes
  <2>. QED BY <2>1, <2>2, <2>4 DEF RestTypes
<1>5. ASSUME NEW c \in Calls,
             CallCmd(c) \/ CallHandleRx(c) \/ RxLock(c) \/ RxUnlock(c) \/ ReadNothing(c)
      PROVE  UNCHANGED restVars
  BY <1>5 DEF CallCmd, CallHandleRx, RxLock, RxUnlock, ReadNothing, restVars
<1>6. ASSUME NEW c \in Calls,
             RspCheck(c) \/ CmdEnd(c) \/ EndCheck(c) \/ CmdDone(c) \/ Return(c)
      PROVE  UNCHANGED restVars
  BY <1>6 DEF RspCheck, CmdEnd, EndCheck, CmdDone, Return, restVars
<1>7. ASSUME NEW c \in Calls, TryLockFails(c) \/ DequeueNone(c)
      PROVE  UNCHANGED restVars
  BY <1>7 DEF TryLockFails, DequeueNone, restVars
<1>8. ASSUME NEW c \in Calls, NEW rsp \in RspKinds, CmdBegin(c, rsp)
      PROVE  RestTypes'
  BY <1>8 DEF CmdBegin, RestTypes
<1>9. ASSUME NEW c \in Calls, GetRsp(c)
      PROVE  RestTypes'
  BY <1>9 DEF GetRsp, SetRsp, RestTypes
<1>10. ASSUME NEW c \in Calls, ReadError(c)
       PROVE  RestTypes'
  <2>1. ioErrors' \in 0 .. MaxIoErrors
    BY <1>10, BoundsAssumption DEF ReadError, RestTypes
  <2>. QED BY <1>10, <2>1 DEF ReadError, RestTypes
<1>11. ASSUME NEW c \in Calls, TryLock(c) \/ DequeueEmpty(c)
       PROVE  RestTypes'
  BY <1>11 DEF TryLock, DequeueEmpty, UnlockEmpty, RestTypes
<1>12. ASSUME NEW c \in Calls, DequeueBegin(c)
       PROVE  UNCHANGED restVars
  BY <1>12 DEF DequeueBegin, Queue!DequeueBegin, restVars
<1>13. ASSUME NEW c \in Calls, DequeueEnd(c)
       PROVE  RestTypes'
  BY <1>13 DEF DequeueEnd, RemoveEntry, Queue!DequeueEnd, RestTypes
<1>14. ASSUME NEW c \in Calls, ReadToken(c)
       PROVE  RestTypes'
  <2>1. UNCHANGED <<dequeueMutex, expired, expecting, urcs, ioErrors>>
    BY <1>14, TokenRead
  <2>2. isBinaryRx' \in BOOLEAN
    BY <1>14 DEF ReadToken, ReadRsp, ReadStatus, ReadUrc, ReadUnexpected, ReadSoh,
           ReadLengthOfRsp, ReadLengthOfUrc, ReadLengthNoRoom, ReadDataOfRsp, ReadDataOfUrc,
           ReadDataToFlush, BinaryDone, RestTypes
  <2>3. Msg \in Message
    BY <1>14, TokenRead, NextIsToken DEF TrafficInv
  <2>4. open' \in Message \cup {NoUrc}
    BY <1>14, <2>3, ReadAndQueue DEF RestTypes
  <2>. QED BY <2>1, <2>2, <2>4 DEF RestTypes
<1>. QED BY <1>1, <1>2, <1>3, <1>4, <1>5, <1>6, <1>7, <1>8, <1>9, <1>10, <1>11, <1>12, <1>13,
            <1>14 DEF Next, TakeMutex, Step

TypeInv ==
    /\ CommandInv /\ TrafficInv /\ QueueInv
    /\ CmdTypes /\ BufferTypes /\ WireTypes /\ BinRspInv /\ ResultTypes /\ RestTypes

LEMMA TypeStep == TypeInv /\ [Next]_vars => TypeInv'
BY CommandStep, TrafficStep, QueueStep, CmdTypesStep, BufferTypesStep, WireTypesStep,
   ResultTypesStep, RestTypesStep DEF TypeInv, WireTypesInv

LEMMA TypeInit == Init => TypeInv
<1>. SUFFICES ASSUME Init PROVE TypeInv
  OBVIOUS
<1>1. CommandInv /\ TrafficInv /\ QueueInv
  BY CommandInit, UrcInit DEF UrcInv
<1>2. 0 \in 0 .. MaxCmds /\ 0 \in 0 .. MaxUrcs /\ 0 \in 0 .. MaxIoErrors
  BY BoundsAssumption
<1>3. /\ cmd = [c \in Calls |-> 0] /\ cmds = 0 /\ pc = [c \in Calls |-> "idle"]
      /\ pending = <<>> /\ wire = <<>> /\ rspBinaryBuf = 0 /\ pRspParams = 0
      /\ binaryRx = [state |-> "flush", buf |-> 0] /\ status = [code |-> "ok", of |-> 0]
      /\ dequeueMutex = NoCall /\ ~expired /\ ~expecting /\ ~isBinaryRx /\ open = NoUrc
      /\ expired \in BOOLEAN /\ expecting \in BOOLEAN /\ isBinaryRx \in BOOLEAN
      /\ urcs = 0 /\ ioErrors = 0
      /\ log = [i \in CmdIds |-> [answer |-> "none", decided |-> NoStatus, rsp |-> 0,
                                  data |-> {}, result |-> "running"]]
  BY DEF Init, Queue!Init
<1>4. CmdTypes
  <2>1. "idle" \notin Busy
    BY DEF Busy, InCommand
  <2>2. pending \in Seq([cmd : CmdIds, rsp : {"none", "line", "binary"}])
    BY <1>3, EmptySeq
  <2>. QED BY <1>1, <1>2, <1>3, <2>1, <2>2 DEF CmdTypes, CommandInv
<1>5. BufferTypes /\ BinRspInv
  BY <1>2, <1>3 DEF BufferTypes, BinRspInv
<1>6. WireTypes
  BY <1>3, EmptySeq DEF WireTypes
<1>7. ResultTypes
  <2>1. NoStatus \in StatusRange /\ status \in StatusRange
    BY <1>2, <1>3 DEF NoStatus, StatusRange, StatusCodes
  <2>2. [answer |-> "none", decided |-> NoStatus, rsp |-> 0, data |-> {}, result |-> "running"]
          \in LogEntry
    BY <1>2, <2>1 DEF LogEntry, StatusCodes
  <2>. QED BY <1>2, <1>3, <2>1, <2>2 DEF ResultTypes
<1>8. RestTypes
  BY <1>2, <1>3 DEF RestTypes
<1>. QED BY <1>1, <1>4, <1>5, <1>6, <1>7, <1>8 DEF TypeInv

\* The variables keep their types; the queue is locked while an entry is open in it, and
\* the parser is in binary mode (isBinaryRx) just when binary data is next.
THEOREM Types == Spec => []TypeOK
<1>1. TypeInv => TypeOK
  <2>. SUFFICES ASSUME TypeInv PROVE TypeOK
    OBVIOUS
  <2>1. pc \in [Calls -> Locations] /\ cmd \in [Calls -> 0 .. MaxCmds] /\ cmds \in 0 .. MaxCmds
    BY DEF TypeInv, CmdTypes, PcOK
  <2>2. {cmdMutex, queueMutex, dequeueMutex} \subseteq Calls \cup {NoCall}
    BY DEF TypeInv, CommandInv, QueueInv, RestTypes
  <2>3. {executingCmd, expired, expecting, isBinaryRx} \subseteq BOOLEAN
    BY DEF TypeInv, CommandInv, RestTypes
  <2>4. status \in [code : StatusCodes, of : 0 .. MaxCmds] /\ pRspParams \in 0 .. MaxCmds
    BY DEF TypeInv, ResultTypes, StatusRange
  <2>5. /\ rspBinaryBuf \in 0 .. MaxCmds
        /\ binaryRx \in [state : {"rsp", "urc", "flush"}, buf : 0 .. MaxCmds]
    BY DEF TypeInv, BufferTypes
  <2>6. fifo \in Seq(Entry) /\ delivered \in Seq(Message) /\ (queueMutex = NoCall <=> open = NoUrc)
    BY DEF TypeInv, QueueInv
  <2>7. taken \in Entry \cup {NoUrc}
    <3>1. CASE taken # NoUrc
      <4>1. fifo # <<>> /\ taken = Head(fifo) /\ fifo \in Seq(Entry)
        BY <3>1 DEF TypeInv, QueueInv
      <4>2. Head(fifo) \in Entry
        BY <4>1, QueueFacts
      <4>. QED BY <4>1, <4>2
    <3>. QED BY <3>1
  <2>8. open \in Message \cup {NoUrc} /\ urcs \in 0 .. MaxUrcs /\ ioErrors \in 0 .. MaxIoErrors
    BY DEF TypeInv, RestTypes
  <2>9. wire # <<>> => (isBinaryRx <=> Part \in {"len", "data"})
    BY DEF TypeInv, TrafficInv, InMessage
  <2>10. wire \in Seq([part : {"line", "soh", "len", "data"}, msg : Message])
    BY DEF TypeInv, TrafficInv, MessageInv, Token, Parts
  <2>11. pending \in Seq([cmd : CmdIds, rsp : {"none", "line", "binary"}])
    BY DEF TypeInv, CmdTypes
  <2>12. log \in [CmdIds -> [answer : StatusCodes, decided : [code : StatusCodes,
                                                              of : 0 .. MaxCmds],
                             rsp : 0 .. MaxCmds, data : SUBSET CmdIds,
                             result : StatusCodes \cup {"running"}]]
    BY DEF TypeInv, ResultTypes, LogEntry, StatusRange
  <2>. QED BY <2>1, <2>2, <2>3, <2>4, <2>5, <2>6, <2>7, <2>8, <2>9, <2>10, <2>11, <2>12
           DEF TypeOK
<1>. QED BY TypeInit, TypeStep, <1>1, PTL DEF Spec

-----------------------------------------------------------------------------
(* Every command gets its own answer. *)

\* The command that is executing, and where its call is.
Current == cmd[cmdMutex]
At == pc[cmdMutex]

\* The call that executes a command is the owner of cmdMutex, and it is the one that reads.
LEMMA WhoExecutes ==
    ASSUME CommandInv
    PROVE  /\ executingCmd => cmdMutex \in Calls /\ At \in InCommand
           /\ \A c \in Calls : pc[c] \in InCommand => executingCmd /\ cmdMutex = c
           /\ \A c \in Calls : pc[c] \in Reading => cmdMutex = c
<1>1. ASSUME NEW c \in Calls, pc[c] \in InCommand
      PROVE  executingCmd /\ cmdMutex = c
  BY <1>1 DEF CommandInv, OneCommandAtATime, Parses, Executes
<1>2. ASSUME NEW c \in Calls, pc[c] \in Reading
      PROVE  cmdMutex = c
  BY <1>2 DEF CommandInv, OneCommandAtATime, Parses, Executes, InCommand, Reading
<1>3. ASSUME executingCmd
      PROVE  cmdMutex \in Calls /\ At \in InCommand
  <2>1. PICK c \in Calls : Executes(c)
    BY <1>3 DEF CommandInv, OneCommandAtATime
  <2>. QED BY <1>1, <2>1 DEF Executes, At
<1>. QED BY <1>1, <1>2, <1>3

\* What the answers of commands have to do with.
answerVars == <<executingCmd, status, pending, wire, expecting, pRspParams, rspBinaryBuf, binaryRx>>

\* A step of the command that is executing which only goes from place to place.
AtMoves ==
    /\ At = "getRsp" <=> At' = "getRsp"
    /\ At' \in {"rspRead", "rspCheck"} => At \in {"rspRead", "rspCheck"}
    /\ At' = "endDone" => At = "endDone" \/ status # NoStatus

LogKept ==
    \A i \in CmdIds : /\ log'[i].answer = log[i].answer /\ log'[i].decided = log[i].decided
                      /\ log'[i].rsp = log[i].rsp /\ log'[i].data = log[i].data

SameCommand == UNCHANGED executingCmd /\ (executingCmd => UNCHANGED <<cmdMutex, Current>>)

Quiet == /\ UNCHANGED answerVars /\ LogKept
         /\ SameCommand /\ (executingCmd => AtMoves)

\* A call that has no command, or a step that leaves the place of its call's command.
LEMMA OthersAreQuiet ==
    ASSUME CommandInv, NEW c \in Calls, executingCmd => cmdMutex # c, NEW l,
           pc' = [pc EXCEPT ![c] = l], UNCHANGED answerVars, LogKept,
           \A d \in Calls \ {c} : cmd'[d] = cmd[d],
           executingCmd => UNCHANGED cmdMutex
    PROVE  Quiet
<1>1. UNCHANGED executingCmd
  BY DEF answerVars
<1>2. ASSUME executingCmd
      PROVE  UNCHANGED <<cmdMutex, Current>> /\ AtMoves
  <2>1. cmdMutex \in Calls \ {c} /\ UNCHANGED cmdMutex
    BY <1>2, WhoExecutes
  <2>2. UNCHANGED <<Current, At>>
    BY <2>1 DEF Current, At, CommandInv, PcOK
  <2>. QED BY <2>1, <2>2 DEF AtMoves
<1>. QED BY <1>1, <1>2 DEF Quiet, SameCommand

\* A step of the command that is executing that leaves its answers alone.
LEMMA CommandIsQuiet ==
    ASSUME CommandInv, NEW c \in Calls, pc[c] \in InCommand, NEW l,
           pc' = [pc EXCEPT ![c] = l], UNCHANGED answerVars, UNCHANGED <<cmdMutex, cmd, log>>,
           pc[c] # "getRsp", l # "getRsp",
           l \in {"rspRead", "rspCheck"} => pc[c] \in {"rspRead", "rspCheck"},
           l = "endDone" => status # NoStatus
    PROVE  Quiet
<1>1. executingCmd /\ cmdMutex = c
  BY WhoExecutes
<1>2. At = pc[c] /\ At' = l
  BY <1>1 DEF At, CommandInv, PcOK
<1>3. AtMoves /\ UNCHANGED Current
  BY <1>2 DEF AtMoves, Current
<1>. QED BY <1>3 DEF Quiet, SameCommand, LogKept, answerVars

LEMMA AnswerSteps ==
    ASSUME Timeouts = FALSE, MaxIoErrors = 0, TypeInv, ~expired, [Next]_vars
    PROVE  \/ Quiet
           \/ Module
           \/ \E c \in Calls : \/ \E rsp \in RspKinds : CmdBegin(c, rsp)
                               \/ GetRsp(c) \/ CmdDone(c) \/ ReadToken(c)
<1>. USE DEF answerVars, clientVars, rspVars, binVars, queueVars, moduleVars
<1>0. CommandInv
  BY DEF TypeInv
<1>1. CASE UNCHANGED vars
  <2>1. UNCHANGED <<answerVars, cmdMutex, Current, At, log>>
    BY <1>1 DEF vars, Current, At
  <2>. QED BY <2>1 DEF Quiet, SameCommand, AtMoves, LogKept
<1>2. ASSUME Expire
      PROVE  FALSE
  BY <1>2 DEF Expire
<1>3. ASSUME NEW c \in Calls, ReadError(c)
      PROVE  FALSE
  BY <1>3 DEF ReadError, TypeInv, RestTypes
<1>4. ASSUME NEW c \in Calls, NEW l, pc[c] \notin InCommand, pc' = [pc EXCEPT ![c] = l],
             UNCHANGED answerVars, LogKept, \A d \in Calls \ {c} : cmd'[d] = cmd[d],
             executingCmd => UNCHANGED cmdMutex
      PROVE  Quiet
  <2>1. executingCmd => cmdMutex # c
    BY <1>0, <1>4, WhoExecutes DEF At
  <2>. QED BY <1>0, <1>4, <2>1, OthersAreQuiet
<1>5. ASSUME NEW c \in Calls, CallCmd(c) \/ CallHandleRx(c)
      PROVE  Quiet
  <2>1. /\ pc[c] \notin InCommand /\ UNCHANGED answerVars /\ UNCHANGED <<log, cmdMutex>>
        /\ \E l : pc' = [pc EXCEPT ![c] = l]
    BY <1>5 DEF CallCmd, CallHandleRx, MayCall, InCommand, Goto
  <2>2. \A d \in Calls \ {c} : cmd'[d] = cmd[d]
    BY <1>5 DEF CallCmd, CallHandleRx, TypeInv, CmdTypes
  <2>. QED BY <1>4, <2>1, <2>2 DEF LogKept
<1>6. ASSUME NEW c \in Calls, RxLock(c) \/ RxUnlock(c)
      PROVE  Quiet
  <2>1. /\ pc[c] \notin InCommand /\ UNCHANGED answerVars /\ UNCHANGED <<cmd, log>>
        /\ \E l : pc' = [pc EXCEPT ![c] = l]
    BY <1>6 DEF RxLock, RxUnlock, InCommand, Goto
  <2>2. ~executingCmd
    <3>1. CASE RxLock(c)
      BY <1>0, <3>1, WhoExecutes, CallsAssumption DEF RxLock
    <3>2. CASE RxUnlock(c)
      <4>1. cmdMutex = c
        BY <1>0, <3>2 DEF RxUnlock, CommandInv, OneCommandAtATime, Parses
      <4>. QED BY <1>0, <2>1, <4>1, WhoExecutes DEF At
    <3>. QED BY <1>6, <3>1, <3>2
  <2>. QED BY <1>4, <2>1, <2>2 DEF LogKept
<1>7. ASSUME NEW c \in Calls, Return(c)
      PROVE  Quiet
  <2>1. /\ pc[c] \notin InCommand /\ UNCHANGED answerVars /\ UNCHANGED cmdMutex
        /\ pc' = [pc EXCEPT ![c] = "idle"]
    BY <1>7 DEF Return, InCommand, Goto
  <2>2. \A d \in Calls \ {c} : cmd'[d] = cmd[d]
    BY <1>7 DEF Return, TypeInv, CmdTypes
  <2>3. LogKept
    <3>1. log \in [CmdIds -> LogEntry]
      BY DEF TypeInv, ResultTypes
    <3>2. log' = IF cmd[c] = 0 THEN log ELSE [log EXCEPT ![cmd[c]].result = status.code]
      BY <1>7 DEF Return
    <3>3. ASSUME NEW i \in CmdIds
          PROVE  log'[i] = log[i] \/ log'[i] = [log[i] EXCEPT !.result = status.code]
      BY <3>1, <3>2
    <3>4. ASSUME NEW i \in CmdIds
          PROVE  log[i] \in LogEntry
      BY <3>1
    <3>5. \A e \in LogEntry : LET f == [e EXCEPT !.result = status.code]
                              IN  /\ f.answer = e.answer /\ f.decided = e.decided
                                  /\ f.rsp = e.rsp /\ f.data = e.data
      BY DEF LogEntry
    <3>. QED BY <3>3, <3>4, <3>5 DEF LogKept
  <2>. QED BY <1>4, <2>1, <2>2, <2>3
<1>8. ASSUME NEW c \in Calls,
             \/ TryLock(c) \/ TryLockFails(c) \/ DequeueBegin(c) \/ DequeueNone(c)
             \/ DequeueEmpty(c) \/ DequeueEnd(c)
      PROVE  Quiet
  <2>1. /\ pc[c] \notin InCommand /\ UNCHANGED answerVars /\ UNCHANGED <<cmd, log, cmdMutex>>
        /\ \E l : pc' = [pc EXCEPT ![c] = l]
    BY <1>8 DEF TryLock, TryLockFails, DequeueBegin, DequeueNone, DequeueEmpty, DequeueEnd,
                InCommand, Goto
  <2>. QED BY <1>4, <2>1 DEF LogKept
<1>9. ASSUME NEW c \in Calls, RspCheck(c) \/ CmdEnd(c) \/ EndCheck(c)
      PROVE  Quiet
  <2>1. status' = status /\ UNCHANGED answerVars /\ UNCHANGED <<cmdMutex, cmd, log>>
    BY <1>9 DEF RspCheck, CmdEnd, EndCheck, StatusAfterRead
  <2>2. \/ pc[c] = "rspCheck" /\ \E l \in {"begun", "rspRead"} : pc' = [pc EXCEPT ![c] = l]
        \/ /\ pc[c] \in {"begun", "endCheck"}
           /\ pc' = [pc EXCEPT ![c] = IF status = NoStatus THEN "endRead" ELSE "endDone"]
    BY <1>9, <2>1 DEF RspCheck, CmdEnd, EndCheck, Goto
  <2>3. {"rspCheck", "begun", "endCheck"} \subseteq InCommand
    BY DEF InCommand
  <2>. QED BY <1>0, <2>1, <2>2, <2>3, CommandIsQuiet
<1>10. ASSUME NEW c \in Calls, ReadNothing(c)
       PROVE  Quiet
  <2>1. UNCHANGED answerVars /\ UNCHANGED <<cmdMutex, cmd, log>>
    BY <1>10 DEF ReadNothing
  <2>2. \/ pc[c] = "rspRead" /\ pc' = [pc EXCEPT ![c] = "rspCheck"]
        \/ pc[c] = "endRead" /\ pc' = [pc EXCEPT ![c] = "endCheck"]
        \/ pc[c] = "rxRead" /\ pc' = [pc EXCEPT ![c] = "rxUnlock"]
    BY <1>10 DEF ReadNothing, ReturnNoRsp, Goto, Reading
  <2>3. {"rspRead", "endRead"} \subseteq InCommand /\ "rxRead" \notin InCommand
    BY DEF InCommand
  <2>. QED BY <1>0, <1>4, <2>1, <2>2, <2>3, CommandIsQuiet DEF LogKept
<1>. HIDE DEF answerVars, clientVars, rspVars, binVars, queueVars, moduleVars
<1>. QED BY <1>1, <1>2, <1>3, <1>5, <1>6, <1>7, <1>8, <1>9, <1>10 DEF Next, TakeMutex, Step

\* What begins and ends a command, or reads for it, as it matters to the answers.
LEMMA BeginsCommand ==
    ASSUME TypeInv, NEW c \in Calls, NEW rsp \in RspKinds, CmdBegin(c, rsp)
    PROVE  /\ ~executingCmd /\ executingCmd' /\ cmdMutex' = c
           /\ Current' = cmd[c] /\ At' = (IF rsp = "none" THEN "begun" ELSE "getRsp")
           /\ cmd[c] \in CmdIds /\ pc[c] = "cmdLock"
           /\ status' = NoStatus /\ ~expired' /\ pRspParams' = 0
           /\ pending' = Append(pending, [cmd |-> cmd[c], rsp |-> rsp])
           /\ UNCHANGED <<wire, expecting, rspBinaryBuf, binaryRx, log, fifo, open, delivered>>
<1>1. CommandInv
  BY DEF TypeInv
<1>2. pc[c] = "cmdLock" /\ cmdMutex = NoCall
  BY DEF CmdBegin, MutexFree
<1>3. ~executingCmd
  BY <1>1, <1>2, WhoExecutes, CallsAssumption
<1>4. cmd[c] \in CmdIds
  BY <1>2 DEF TypeInv, CmdTypes, Busy
<1>5. Current' = cmd[c] /\ At' = (IF rsp = "none" THEN "begun" ELSE "getRsp")
  BY <1>1 DEF CmdBegin, Current, At, Goto, CommandInv, PcOK
<1>. QED BY <1>2, <1>3, <1>4, <1>5 DEF CmdBegin, SendCmd, binVars, queueVars

LEMMA BeginsReading ==
    ASSUME TypeInv, NEW c \in Calls, GetRsp(c)
    PROVE  /\ executingCmd /\ c = cmdMutex /\ SameCommand
           /\ At = "getRsp" /\ At' = (IF status = NoStatus THEN "rspRead" ELSE "begun")
           /\ expecting' = TRUE /\ rspBinaryBuf' = Current /\ pRspParams' = 0
           /\ UNCHANGED <<wire, pending, status, expired, binaryRx, log, fifo, open, delivered>>
<1>1. pc[c] \in InCommand /\ CommandInv
  BY DEF GetRsp, InCommand, TypeInv
<1>2. executingCmd /\ c = cmdMutex
  BY <1>1, WhoExecutes
<1>3. /\ pc[c] = "getRsp"
      /\ pc' = [pc EXCEPT ![c] = IF status = NoStatus THEN "rspRead" ELSE "begun"]
      /\ UNCHANGED <<cmd, cmdMutex>> /\ UNCHANGED <<status, executingCmd>>
      /\ rspBinaryBuf' = cmd[c]
  BY DEF GetRsp, SetRsp, Goto, clientVars
<1>4. At = "getRsp" /\ At' = (IF status = NoStatus THEN "rspRead" ELSE "begun")
  BY <1>1, <1>2, <1>3 DEF At, CommandInv, PcOK
<1>5. SameCommand /\ rspBinaryBuf' = Current
  BY <1>2, <1>3 DEF SameCommand, Current
<1>. QED BY <1>2, <1>4, <1>5 DEF GetRsp, SetRsp, clientVars, binVars, queueVars, moduleVars

LEMMA EndsCommand ==
    ASSUME TypeInv, NEW c \in Calls, CmdDone(c)
    PROVE  /\ executingCmd /\ c = cmdMutex /\ At = "endDone" /\ ~executingCmd' /\ Current \in CmdIds
           /\ log' = [log EXCEPT ![Current].decided = status]
           /\ UNCHANGED <<wire, pending, status, expired, binaryRx, fifo, open, delivered>>
<1>1. pc[c] = "endDone" /\ pc[c] \in InCommand /\ CommandInv
  BY DEF CmdDone, InCommand, TypeInv
<1>2. executingCmd /\ c = cmdMutex
  BY <1>1, WhoExecutes
<1>3. cmd[c] \in CmdIds
  BY <1>1 DEF TypeInv, CmdTypes, Busy
<1>. QED BY <1>1, <1>2, <1>3 DEF CmdDone, UnlockAtEnd, At, Current, binVars, queueVars, moduleVars

LEMMA ReadsForCommand ==
    ASSUME TypeInv, NEW c \in Calls, ReadToken(c)
    PROVE  /\ c = cmdMutex /\ SameCommand
           /\ executingCmd => At \in {"rspRead", "endRead"}
           /\ executingCmd => At' = At \/ At' \in {"begun", "rspCheck", "endCheck"}
           /\ executingCmd /\ At = "endRead" => At' # "rspCheck"
           /\ UNCHANGED <<pending, expired, expecting, rspBinaryBuf, delivered>>
<1>1. pc[c] \in Reading /\ CommandInv /\ PcOK
  BY TokenRead DEF TypeInv, CommandInv
<1>2. c = cmdMutex
  BY <1>1, WhoExecutes
<1>3. UNCHANGED <<cmd, cmdMutex, executingCmd, pending, expired, expecting, rspBinaryBuf,
                  delivered>>
  BY TokenRead
<1>4. SameCommand
  BY <1>3 DEF SameCommand, Current
<1>5. \/ UNCHANGED pc
      \/ pc[c] = "rspRead" /\ (Moves(c, "begun") \/ Moves(c, "rspCheck"))
      \/ pc[c] = "endRead" /\ Moves(c, "endCheck")
      \/ pc[c] = "rxRead" /\ Moves(c, "rxUnlock")
  BY <1>1, ReadMoves
<1>6. ASSUME executingCmd
      PROVE  At \in {"rspRead", "endRead"}
  <2>1. At \in InCommand
    BY <1>1, <1>6, WhoExecutes
  <2>. QED BY <1>1, <1>2, <2>1 DEF At, Reading, InCommand
<1>7. ASSUME executingCmd
      PROVE  /\ At' = At \/ At' \in {"begun", "rspCheck", "endCheck"}
             /\ At = "endRead" => At' # "rspCheck"
  BY <1>1, <1>2, <1>3, <1>5, <1>6, <1>7 DEF At, Moves, PcOK
<1>. QED BY <1>2, <1>3, <1>4, <1>6, <1>7

\* No answer of a command is on its way.
NoAnswerDue == pending = <<>> /\ \A i \in 1 .. Len(wire) : wire[i].msg.type = "urc"

\* Answers are on their way only while a command executes that has no status yet, and they
\* are its own. The status is the last of them.
LineInv ==
    /\ ~executingCmd \/ status # NoStatus => NoAnswerDue
    /\ pending # <<>> => Len(pending) = 1
    /\ \A i \in 1 .. Len(wire) : wire[i].msg.type = "status" =>
           /\ pending = <<>> /\ wire[i].part = "line"
           /\ \A j \in 1 .. Len(wire) : i < j => wire[j].msg.type = "urc"
    /\ executingCmd =>
           /\ pending # <<>> => Head(pending).cmd = Current
           /\ \A i \in 1 .. Len(wire) : wire[i].msg.type # "urc" => wire[i].msg.id = Current
           /\ At = "endDone" => status # NoStatus

\* A read takes one token, and keeps the others.
LEMMA OneTokenOff ==
    ASSUME TypeInv, NEW c \in Calls, ReadToken(c)
    PROVE  /\ Len(wire) \in Nat /\ Len(wire') \in Nat
           /\ 1 \in 1 .. Len(wire) /\ Msg = wire[1].msg /\ Part = wire[1].part
           /\ Msg \in Message /\ Part \in Parts
           /\ \A i \in 1 .. Len(wire') :
                  i + 1 \in 1 .. Len(wire) /\ i + 1 # 1 /\ wire'[i] = wire[i + 1]
<1>1. wire \in Seq(Token) /\ wire # <<>> /\ wire' = Tail(wire) /\ MessageInv
  BY TokenRead DEF TypeInv, TrafficInv, MessageInv
<1>. QED BY <1>1, TokenOff, NextIsToken DEF Msg, Part

\* A status is a line, and is read only while a command executes.
LEMMA StatusIsRead ==
    ASSUME TypeInv, LineInv, NEW c \in Calls, ReadToken(c)
    PROVE  /\ Msg.type = "status" => ReadStatus(c)
           /\ UNCHANGED status \/ (Msg.type = "status" /\ ReadStatus(c))
<1>1. /\ 1 \in 1 .. Len(wire) /\ Msg = wire[1].msg /\ Part = wire[1].part
  BY OneTokenOff
<1>2. ASSUME Msg.type = "status"
      PROVE  Part = "line" /\ executingCmd
  BY <1>1, <1>2 DEF LineInv, NoAnswerDue
<1>3. ASSUME Msg.type = "status"
      PROVE  Parsed(Msg) = "GOT_STATUS"
  BY <1>2, <1>3 DEF Parsed
<1>4. ASSUME Msg.type = "status"
      PROVE  ReadStatus(c)
  BY <1>2, <1>3, <1>4 DEF ReadToken, ReadRsp, ReadUrc, ReadUnexpected, ReadSoh, ReadLengthOfRsp,
         ReadLengthOfUrc, ReadLengthNoRoom, ReadDataOfRsp, ReadDataOfUrc, ReadDataToFlush, Reads
<1>5. UNCHANGED status \/ ReadStatus(c)
  BY DEF ReadToken, ReadRsp, ReadUrc, ReadUnexpected, ReadSoh, ReadLengthOfRsp,
         ReadLengthOfUrc, ReadLengthNoRoom, ReadDataOfRsp, ReadDataOfUrc, ReadDataToFlush
<1>6. ReadStatus(c) => Msg.type = "status"
  BY DEF ReadStatus, Parsed
<1>. QED BY <1>4, <1>5, <1>6

LEMMA ReadKeepsLine ==
    ASSUME TypeInv, LineInv, NEW c \in Calls, ReadToken(c)
    PROVE  LineInv'
<1>1. /\ Len(wire) \in Nat /\ Len(wire') \in Nat
      /\ 1 \in 1 .. Len(wire) /\ Msg = wire[1].msg /\ Part = wire[1].part
      /\ \A i \in 1 .. Len(wire') :
             i + 1 \in 1 .. Len(wire) /\ i + 1 # 1 /\ wire'[i] = wire[i + 1]
  BY OneTokenOff
<1>2. /\ SameCommand /\ UNCHANGED pending
      /\ executingCmd => At' # "endDone"
  BY ReadsForCommand
<1>3. UNCHANGED executingCmd /\ (executingCmd => UNCHANGED Current)
  BY <1>2 DEF SameCommand
<1>4. ASSUME ~executingCmd' \/ status' # NoStatus
      PROVE  NoAnswerDue'
  <2>1. CASE NoAnswerDue
    BY <1>1, <1>2, <2>1 DEF NoAnswerDue
  <2>2. CASE Msg.type = "status"
    <3>1. pending = <<>> /\ \A j \in 1 .. Len(wire) : 1 < j => wire[j].msg.type = "urc"
      BY <1>1, <2>2 DEF LineInv
    <3>2. \A i \in 1 .. Len(wire') : 1 < i + 1
      BY <1>1
    <3>3. \A i \in 1 .. Len(wire') : wire'[i].msg.type = "urc"
      BY <1>1, <3>1, <3>2
    <3>. QED BY <1>2, <3>1, <3>3 DEF NoAnswerDue
  <2>. QED BY <1>3, <1>4, <2>1, <2>2, StatusIsRead DEF LineInv
<1>5. ASSUME NEW i \in 1 .. Len(wire'), wire'[i].msg.type = "status"
      PROVE  /\ pending' = <<>> /\ wire'[i].part = "line"
             /\ \A j \in 1 .. Len(wire') : i < j => wire'[j].msg.type = "urc"
  <2>1. i + 1 \in 1 .. Len(wire) /\ wire'[i] = wire[i + 1]
    BY <1>1
  <2>2. /\ pending = <<>> /\ wire[i + 1].part = "line"
        /\ \A j \in 1 .. Len(wire) : i + 1 < j => wire[j].msg.type = "urc"
    BY <1>5, <2>1 DEF LineInv
  <2>3. ASSUME NEW j \in 1 .. Len(wire'), i < j
        PROVE  wire'[j].msg.type = "urc"
    <3>1. j + 1 \in 1 .. Len(wire) /\ wire'[j] = wire[j + 1] /\ i + 1 < j + 1
      BY <1>1, <2>3
    <3>. QED BY <2>2, <3>1
  <2>. QED BY <1>2, <2>1, <2>2, <2>3
<1>6. pending' # <<>> => Len(pending') = 1
  BY <1>2 DEF LineInv
<1>7. ASSUME executingCmd'
      PROVE  /\ pending' # <<>> => Head(pending').cmd = Current'
             /\ \A i \in 1 .. Len(wire') : wire'[i].msg.type # "urc" => wire'[i].msg.id = Current'
             /\ At' # "endDone"
  BY <1>1, <1>2, <1>3, <1>7 DEF LineInv
<1>. QED BY <1>4, <1>5, <1>6, <1>7 DEF LineInv

\* What the module sends: the answer that is due, or a URC.
LEMMA ModuleAnswers ==
    ASSUME TypeInv, Module
    PROVE  /\ UNCHANGED <<executingCmd, cmdMutex, Current, At, status, expired, expecting,
                          pRspParams, rspBinaryBuf, binaryRx, log, fifo, open, delivered>>
           /\ \E m \in Message :
                  /\ Send(m)
                  /\ \/ /\ m.type = "rsp" /\ m.id = Head(pending).cmd
                        /\ pending # <<>> /\ Head(pending).rsp # "none"
                        /\ pending' # <<>> /\ Len(pending') = Len(pending)
                        /\ Head(pending').cmd = Head(pending).cmd
                        /\ Head(pending').rsp = "none"
                     \/ /\ m.type = "status" /\ m.id = Head(pending).cmd /\ m.code # "binary"
                        /\ pending # <<>> /\ pending' = Tail(pending)
                        /\ m.code = "ok" => Head(pending).rsp = "none"
                     \/ m.type = "urc" /\ UNCHANGED pending
<1>1. /\ UNCHANGED <<executingCmd, Current, At, status, expired, expecting, pRspParams,
                     rspBinaryBuf, binaryRx, log, fifo, open, delivered>>
      /\ UNCHANGED cmdMutex
  <2>1. UNCHANGED cmdMutex
    BY DEF Module, ModuleRsp, ModuleStatus, ModuleUrc
  <2>. QED BY <2>1, ModuleLeaves DEF Current, At
<1>2. PICK m \in Message :
          /\ Send(m)
          /\ \/ ModuleRsp /\ m = ResponseOf(Head(pending)) /\ Head(pending).rsp # "none"
             \/ \E code \in {"ok", "error"} :
                    ModuleStatus(code) /\ m = StatusOf(Head(pending), code)
             \/ UNCHANGED pending /\ \E kind \in UrcKinds : m = NextUrc(kind)
  BY ModuleSends DEF TypeInv, TrafficInv
<1>3. CASE ModuleRsp /\ m = ResponseOf(Head(pending)) /\ Head(pending).rsp # "none"
  <2>1. pending # <<>> /\ pending' = [pending EXCEPT ![1].rsp = "none"]
    BY <1>3 DEF ModuleRsp
  <2>2. pending \in Seq(Order)
    BY DEF TypeInv, TrafficInv, MessageInv
  <2>3. 1 \in 1 .. Len(pending) /\ Head(pending) = pending[1] /\ Head(pending) \in Order
    BY <2>1, <2>2, QueueFacts
  <2>4. pending' = [pending EXCEPT ![1] = [Head(pending) EXCEPT !.rsp = "none"]]
    BY <2>1, <2>3
  <2>5. /\ [Head(pending) EXCEPT !.rsp = "none"] \in Order
        /\ [Head(pending) EXCEPT !.rsp = "none"].cmd = Head(pending).cmd
        /\ [Head(pending) EXCEPT !.rsp = "none"].rsp = "none"
    BY <2>3 DEF Order
  <2>6. /\ pending' \in Seq(Order) /\ Len(pending') = Len(pending)
        /\ pending'[1] = [Head(pending) EXCEPT !.rsp = "none"]
    BY <2>2, <2>3, <2>4, <2>5, ExceptSeq
  <2>7. pending' # <<>> /\ Head(pending') = pending'[1]
    BY <2>3, <2>6
  <2>8. m.type = "rsp" /\ m.id = Head(pending).cmd
    BY <1>3 DEF ResponseOf
  <2>. QED BY <1>1, <1>2, <1>3, <2>1, <2>5, <2>6, <2>7, <2>8
<1>4. ASSUME NEW code \in {"ok", "error"}, ModuleStatus(code), m = StatusOf(Head(pending), code)
      PROVE  /\ m.type = "status" /\ m.id = Head(pending).cmd /\ m.code # "binary"
             /\ pending # <<>> /\ pending' = Tail(pending)
             /\ m.code = "ok" => Head(pending).rsp = "none"
  BY <1>4 DEF StatusOf, ModuleStatus
<1>5. ASSUME NEW kind \in UrcKinds, m = NextUrc(kind)
      PROVE  m.type = "urc"
  BY <1>5 DEF NextUrc
<1>. QED BY <1>1, <1>2, <1>3, <1>4, <1>5

LEMMA ModuleKeepsLine ==
    ASSUME TypeInv, LineInv, Module
    PROVE  LineInv'
<1>1. UNCHANGED <<executingCmd, Current, At, status>>
  BY ModuleAnswers
<1>2. PICK m \in Message :
          /\ Send(m)
          /\ \/ /\ m.type = "rsp" /\ m.id = Head(pending).cmd
                /\ pending # <<>>
                /\ pending' # <<>> /\ Len(pending') = Len(pending)
                /\ Head(pending').cmd = Head(pending).cmd
             \/ /\ m.type = "status" /\ m.id = Head(pending).cmd /\ m.code # "binary"
                /\ pending # <<>> /\ pending' = Tail(pending)
             \/ m.type = "urc" /\ UNCHANGED pending
  BY ModuleAnswers
<1>3. /\ Len(wire) \in Nat /\ Len(wire') \in Nat /\ Len(wire) < Len(wire')
      /\ \A i \in 1 .. Len(wire) : i \in 1 .. Len(wire') /\ wire'[i] = wire[i]
      /\ \A i \in 1 .. Len(wire') : i \notin 1 .. Len(wire) =>
             /\ wire'[i].msg = m
             /\ wire'[i].part \in LastParts => i = Len(wire')
             /\ m.code # "binary" => wire'[i].part = "line"
  BY <1>2, Sent DEF TypeInv, TrafficInv, MessageInv
<1>4. CASE m.type = "urc" /\ UNCHANGED pending
  <2>1. NoAnswerDue => NoAnswerDue'
    BY <1>3, <1>4 DEF NoAnswerDue
  <2>2. ASSUME NEW i \in 1 .. Len(wire'), wire'[i].msg.type = "status"
        PROVE  /\ pending' = <<>> /\ wire'[i].part = "line"
               /\ \A j \in 1 .. Len(wire') : i < j => wire'[j].msg.type = "urc"
    <3>1. i \in 1 .. Len(wire) /\ wire[i].msg.type = "status" /\ wire'[i] = wire[i]
      BY <1>3, <1>4, <2>2
    <3>2. /\ pending = <<>> /\ wire[i].part = "line"
          /\ \A j \in 1 .. Len(wire) : i < j => wire[j].msg.type = "urc"
      BY <3>1 DEF LineInv
    <3>3. ASSUME NEW j \in 1 .. Len(wire'), i < j
          PROVE  wire'[j].msg.type = "urc"
      BY <1>3, <1>4, <3>2, <3>3
    <3>. QED BY <1>4, <3>1, <3>2, <3>3
  <2>3. ASSUME executingCmd
        PROVE  \A i \in 1 .. Len(wire') : wire'[i].msg.type # "urc" => wire'[i].msg.id = Current
    BY <1>3, <1>4, <2>3 DEF LineInv
  <2>. QED BY <1>1, <1>4, <2>1, <2>2, <2>3 DEF LineInv
<1>5. CASE /\ m.type \in {"rsp", "status"} /\ m.id = Head(pending).cmd /\ pending # <<>>
           /\ m.type = "rsp" => /\ pending' # <<>> /\ Len(pending') = Len(pending)
                                /\ Head(pending').cmd = Head(pending).cmd
           /\ m.type = "status" => m.code # "binary" /\ pending' = Tail(pending)
  <2>1. executingCmd /\ status = NoStatus /\ m.id = Current
    BY <1>5 DEF LineInv, NoAnswerDue
  <2>2. \A i \in 1 .. Len(wire) : wire[i].msg.type # "status"
    BY <1>5 DEF LineInv
  <2>3. /\ m.type = "rsp" => Len(pending') = 1 /\ Head(pending').cmd = Current
        /\ m.type = "status" => pending' = <<>>
    <3>1. pending \in Seq(Order) /\ Len(pending) = 1
      BY <1>5 DEF LineInv, TypeInv, TrafficInv, MessageInv
    <3>2. Tail(pending) = <<>>
      <4>1. Tail(pending) \in Seq(Order) /\ Len(Tail(pending)) = 0
        BY <1>5, <3>1, HeadTailProperties
      <4>. QED BY <4>1, EmptySeq
    <3>. QED BY <1>5, <2>1, <3>1, <3>2 DEF LineInv
  <2>4. ASSUME NEW i \in 1 .. Len(wire'), wire'[i].msg.type = "status"
        PROVE  /\ pending' = <<>> /\ wire'[i].part = "line"
               /\ \A j \in 1 .. Len(wire') : i < j => wire'[j].msg.type = "urc"
    <3>1. i \notin 1 .. Len(wire)
      BY <1>3, <2>2, <2>4
    <3>2. m.type = "status" /\ wire'[i].part = "line"
      BY <1>3, <1>5, <2>4, <3>1
    <3>3. i = Len(wire')
      BY <1>3, <3>1, <3>2 DEF LastParts
    <3>4. \A j \in 1 .. Len(wire') : ~(i < j)
      BY <1>3, <3>3
    <3>. QED BY <2>3, <3>2, <3>4
  <2>5. \A i \in 1 .. Len(wire') : wire'[i].msg.type # "urc" => wire'[i].msg.id = Current
    BY <1>3, <2>1 DEF LineInv
  <2>. QED BY <1>1, <1>5, <2>1, <2>3, <2>4, <2>5 DEF LineInv
<1>. QED BY <1>2, <1>4, <1>5

LEMMA LineStep ==
    ASSUME Timeouts = FALSE, MaxIoErrors = 0, TypeInv, LineInv, ~expired, [Next]_vars
    PROVE  LineInv'
<1>1. CASE Quiet
  <2>1. UNCHANGED <<executingCmd, status, pending, wire>>
    BY <1>1 DEF Quiet, answerVars
  <2>2. executingCmd => /\ UNCHANGED Current
                        /\ At' = "endDone" => At = "endDone" \/ status # NoStatus
    BY <1>1 DEF Quiet, SameCommand, AtMoves
  <2>. QED BY <2>1, <2>2 DEF LineInv, NoAnswerDue
<1>2. CASE Module
  BY <1>2, ModuleKeepsLine
<1>3. ASSUME NEW c \in Calls, NEW rsp \in RspKinds, CmdBegin(c, rsp)
      PROVE  LineInv'
  <2>1. /\ ~executingCmd /\ executingCmd' /\ status' = NoStatus
        /\ Current' = cmd[c] /\ At' = (IF rsp = "none" THEN "begun" ELSE "getRsp")
        /\ pending' = Append(pending, [cmd |-> cmd[c], rsp |-> rsp]) /\ UNCHANGED wire
    BY <1>3, BeginsCommand
  <2>2. NoAnswerDue
    BY <2>1 DEF LineInv
  <2>3. Len(pending') = 1 /\ Head(pending') = [cmd |-> cmd[c], rsp |-> rsp]
    BY <2>1, <2>2 DEF NoAnswerDue
  <2>4. Head(pending').cmd = cmd[c]
    BY <2>3
  <2>. QED BY <2>1, <2>2, <2>3, <2>4 DEF LineInv, NoAnswerDue
<1>4. ASSUME NEW c \in Calls, GetRsp(c)
      PROVE  LineInv'
  <2>1. /\ UNCHANGED <<executingCmd, Current, status, pending, wire>>
        /\ At' # "endDone"
    BY <1>4, BeginsReading DEF SameCommand
  <2>. QED BY <2>1 DEF LineInv, NoAnswerDue
<1>5. ASSUME NEW c \in Calls, CmdDone(c)
      PROVE  LineInv'
  <2>1. executingCmd /\ At = "endDone" /\ ~executingCmd' /\ UNCHANGED <<wire, pending, status>>
    BY <1>5, EndsCommand
  <2>. QED BY <2>1 DEF LineInv, NoAnswerDue
<1>6. ASSUME NEW c \in Calls, ReadToken(c)
      PROVE  LineInv'
  BY <1>6, ReadKeepsLine
<1>. QED BY <1>1, <1>2, <1>3, <1>4, <1>5, <1>6, AnswerSteps

\* The response of the command is on its way, or will be.
RspDue == \/ pending # <<>> /\ Head(pending).rsp # "none"
          \/ \E i \in 1 .. Len(wire) : wire[i].msg.type = "rsp"

\* The response is expected, and its data will go to the buffer of the command.
Ready == expecting /\ rspBinaryBuf = Current

\* GetRspParamLine() is ready before the response can be read, and the data that come
\* after the line of a response go to the buffer of its command.
ReadyInv ==
    /\ executingCmd => /\ RspDue => At = "getRsp" \/ Ready
                       /\ At \in {"rspRead", "rspCheck"} => Ready
                       /\ binaryRx.state = "rsp" => binaryRx.buf = Current
    /\ wire # <<>> /\ Part = "data" /\ Msg.type = "rsp" => binaryRx.state = "rsp"

\* What is read is taken for what it is.
LEMMA ParsedByType ==
    ASSUME TypeInv, LineInv, ReadyInv, NEW c \in Calls, ReadToken(c)
    PROVE  /\ Msg.type = "urc" => Parsed(Msg) = "GOT_URC"
           /\ Msg.type = "rsp" => Parsed(Msg) = "GOT_RSP" /\ executingCmd /\ Ready
           /\ Msg.type = "status" => Parsed(Msg) = "GOT_STATUS" /\ executingCmd
           /\ Msg.type # "urc" => Msg.id = Current
<1>1. 1 \in 1 .. Len(wire) /\ Msg = wire[1].msg /\ Msg \in Message
  BY OneTokenOff
<1>2. Msg.type # "urc" => executingCmd /\ Msg.id = Current
  BY <1>1 DEF LineInv, NoAnswerDue
<1>3. executingCmd => At # "getRsp"
  BY ReadsForCommand
<1>4. Msg.type = "rsp" => Ready /\ executingCmd
  <2>1. Msg.type = "rsp" => RspDue
    BY <1>1 DEF RspDue
  <2>. QED BY <1>2, <1>3, <2>1 DEF ReadyInv
<1>5. executingCmd \in BOOLEAN
  BY DEF TypeInv, CommandInv
<1>6. CASE Msg.type = "urc"
  BY <1>6 DEF Parsed
<1>7. CASE Msg.type = "rsp"
  BY <1>2, <1>4, <1>7 DEF Parsed, Ready
<1>8. CASE Msg.type = "status"
  BY <1>2, <1>8 DEF Parsed
<1>. QED BY <1>1, <1>6, <1>7, <1>8 DEF Message

LEMMA ReadKeepsReady ==
    ASSUME TypeInv, LineInv, ReadyInv, NEW c \in Calls, ReadToken(c)
    PROVE  ReadyInv'
<1>1. /\ Len(wire) \in Nat /\ Len(wire') \in Nat
      /\ 1 \in 1 .. Len(wire) /\ Msg = wire[1].msg /\ Part \in Parts
      /\ \A i \in 1 .. Len(wire') : i + 1 \in 1 .. Len(wire) /\ wire'[i] = wire[i + 1]
  BY OneTokenOff
<1>2. /\ UNCHANGED executingCmd /\ UNCHANGED <<pending, expecting, rspBinaryBuf>>
      /\ executingCmd => UNCHANGED Current /\ At \in {"rspRead", "endRead"}
      /\ executingCmd => At' = At \/ At' \in {"begun", "rspCheck", "endCheck"}
      /\ executingCmd /\ At = "endRead" => At' # "rspCheck"
  BY ReadsForCommand DEF SameCommand
<1>3. RspDue' => RspDue
  BY <1>1, <1>2 DEF RspDue
<1>4. /\ binaryRx.state \in {"rsp", "urc", "flush"}
      /\ binaryRx \in [state : {"rsp", "urc", "flush"}, buf : 0 .. MaxCmds]
  BY DEF TypeInv, BufferTypes
<1>5. /\ \/ UNCHANGED binaryRx /\ Part \in {"line", "soh"}
         \/ /\ Part = "len" /\ Parsed(Msg) = "GOT_RSP"
            /\ binaryRx' = [state |-> "rsp", buf |-> rspBinaryBuf]
         \/ /\ Part = "len" /\ Parsed(Msg) = "GOT_URC"
            /\ \E st \in {"urc", "flush"} : binaryRx' = [state |-> st, buf |-> 0]
         \/ Part = "data" /\ binaryRx' = [binaryRx EXCEPT !.state = "flush"]
  BY ReadAndBinary
<1>6. ASSUME binaryRx'.state = "rsp", executingCmd
      PROVE  binaryRx'.buf = Current
  <2>1. CASE UNCHANGED binaryRx
    BY <1>6, <2>1 DEF ReadyInv
  <2>2. CASE /\ Part = "len" /\ Parsed(Msg) = "GOT_RSP"
             /\ binaryRx' = [state |-> "rsp", buf |-> rspBinaryBuf]
    <3>1. Msg.type = "rsp"
      BY <2>2 DEF Parsed
    <3>2. Ready
      BY <3>1, ParsedByType
    <3>. QED BY <2>2, <3>2 DEF Ready
  <2>. QED BY <1>4, <1>5, <1>6, <2>1, <2>2
<1>7. ASSUME executingCmd
      PROVE  /\ RspDue' => Ready'
             /\ At' \in {"rspRead", "rspCheck"} => Ready'
  <2>1. Ready' <=> Ready
    BY <1>2, <1>7 DEF Ready
  <2>2. At # "getRsp" /\ (At' \in {"rspRead", "rspCheck"} => At = "rspRead")
    BY <1>2, <1>7
  <2>. QED BY <1>3, <1>7, <2>1, <2>2 DEF ReadyInv
<1>8. ASSUME wire' # <<>>, Head(wire').part = "data", Head(wire').msg.type = "rsp"
      PROVE  binaryRx'.state = "rsp"
  <2>1. MessageInv /\ InMessage /\ TrafficInv
    BY DEF TypeInv, TrafficInv
  <2>2. PICK parts : Reads(c, parts)
    BY TokenRead
  <2>3. Part = "len"
    BY <1>1, <1>8, <2>1, <2>2, TokenIsRead DEF Parts
  <2>4. Msg.type = "rsp"
    BY <1>8, <2>1, <2>3, DataFollow
  <2>5. Parsed(Msg) = "GOT_RSP"
    BY <2>4, ParsedByType
  <2>. QED BY <1>5, <2>3, <2>5
<1>. QED BY <1>2, <1>6, <1>7, <1>8 DEF ReadyInv, Part, Msg

LEMMA ReadyStep ==
    ASSUME Timeouts = FALSE, MaxIoErrors = 0, TypeInv, LineInv, ReadyInv, ~expired, [Next]_vars
    PROVE  ReadyInv'
<1>1. CASE Quiet
  <2>1. UNCHANGED <<executingCmd, pending, wire, expecting, rspBinaryBuf, binaryRx>>
    BY <1>1 DEF Quiet, answerVars
  <2>2. executingCmd => /\ UNCHANGED Current
                        /\ At = "getRsp" <=> At' = "getRsp"
                        /\ At' \in {"rspRead", "rspCheck"} => At \in {"rspRead", "rspCheck"}
    BY <1>1 DEF Quiet, SameCommand, AtMoves
  <2>. QED BY <2>1, <2>2 DEF ReadyInv, RspDue, Ready, Part, Msg
<1>2. CASE Module
  <2>1. UNCHANGED <<executingCmd, Current, At, expecting, rspBinaryBuf, binaryRx>>
    BY <1>2, ModuleAnswers
  <2>2. PICK m \in Message :
          /\ Send(m)
          /\ \/ m.type = "rsp" /\ pending # <<>> /\ Head(pending).rsp # "none"
             \/ m.type = "status" /\ pending # <<>> /\ pending' = Tail(pending)
             \/ m.type = "urc" /\ UNCHANGED pending
    BY <1>2, ModuleAnswers
  <2>3. /\ \A i \in 1 .. Len(wire) : i \in 1 .. Len(wire') /\ wire'[i] = wire[i]
        /\ \A i \in 1 .. Len(wire') : i \notin 1 .. Len(wire) => wire'[i].msg = m
    BY <2>2, Sent DEF TypeInv, TrafficInv, MessageInv
  <2>4. RspDue' => RspDue
    <3>1. CASE m.type = "rsp" /\ pending # <<>> /\ Head(pending).rsp # "none"
      BY <3>1 DEF RspDue
    <3>2. CASE m.type = "status" /\ pending # <<>> /\ pending' = Tail(pending)
      <4>1. pending' = <<>>
        <5>1. pending \in Seq(Order) /\ Len(pending) = 1
          BY <3>2 DEF LineInv, TypeInv, TrafficInv, MessageInv
        <5>2. Tail(pending) \in Seq(Order) /\ Len(Tail(pending)) = 0
          BY <3>2, <5>1, HeadTailProperties
        <5>. QED BY <3>2, <5>2, EmptySeq
      <4>. QED BY <2>3, <3>2, <4>1 DEF RspDue
    <3>3. CASE m.type = "urc" /\ UNCHANGED pending
      BY <2>3, <3>3 DEF RspDue
    <3>. QED BY <2>2, <3>1, <3>2, <3>3
  <2>5. /\ wire # <<>> => wire' # <<>> /\ Head(wire') = Head(wire)
        /\ wire = <<>> => wire' # <<>> /\ Head(wire').part # "data"
    <3>1. /\ Tokens(m) \in Seq(Token) /\ Len(Tokens(m)) >= 1
          /\ Whole(Tokens(m)) /\ Tokens(m)[1].part \in {"line", "soh"}
      BY TokensFacts
    <3>2. wire \in Seq(Token) /\ Whole(wire) /\ wire' = wire \o Tokens(m)
      BY <2>2 DEF Send, TypeInv, TrafficInv, MessageInv
    <3>. QED BY <3>1, <3>2, SendFacts
  <2>. QED BY <2>1, <2>4, <2>5 DEF ReadyInv, Ready, Part, Msg
<1>3. ASSUME NEW c \in Calls, NEW rsp \in RspKinds, CmdBegin(c, rsp)
      PROVE  ReadyInv'
  <2>1. /\ ~executingCmd
        /\ Current' = cmd[c] /\ At' = (IF rsp = "none" THEN "begun" ELSE "getRsp")
        /\ pending' = Append(pending, [cmd |-> cmd[c], rsp |-> rsp])
        /\ UNCHANGED <<wire, binaryRx>>
    BY <1>3, BeginsCommand
  <2>2. NoAnswerDue
    BY <2>1 DEF LineInv
  <2>3. binaryRx.state # "rsp"
    <3>1. wire # <<>> => 1 \in 1 .. Len(wire) /\ Head(wire) = wire[1]
      BY QueueFacts DEF TypeInv, TrafficInv, MessageInv
    <3>. QED BY <2>2, <3>1 DEF TypeInv, BinRspInv, NoAnswerDue, Msg
  <2>4. Head(pending') = [cmd |-> cmd[c], rsp |-> rsp]
    BY <2>1, <2>2 DEF NoAnswerDue
  <2>5. Head(pending').rsp = rsp
    BY <2>4
  <2>6. RspDue' => At' = "getRsp"
    BY <2>1, <2>2, <2>5 DEF RspDue, NoAnswerDue
  <2>7. At' \notin {"rspRead", "rspCheck"}
    BY <2>1
  <2>. QED BY <2>1, <2>3, <2>6, <2>7 DEF ReadyInv, Part, Msg
<1>4. ASSUME NEW c \in Calls, GetRsp(c)
      PROVE  ReadyInv'
  <2>1. /\ UNCHANGED <<executingCmd, Current, pending, wire, binaryRx>>
        /\ expecting' = TRUE /\ rspBinaryBuf' = Current
    BY <1>4, BeginsReading DEF SameCommand
  <2>2. Ready'
    BY <2>1 DEF Ready
  <2>. QED BY <2>1, <2>2 DEF ReadyInv, Part, Msg
<1>5. ASSUME NEW c \in Calls, CmdDone(c)
      PROVE  ReadyInv'
  <2>1. ~executingCmd' /\ UNCHANGED <<wire, binaryRx>>
    BY <1>5, EndsCommand
  <2>. QED BY <2>1 DEF ReadyInv, Part, Msg
<1>6. ASSUME NEW c \in Calls, ReadToken(c)
      PROVE  ReadyInv'
  BY <1>6, ReadKeepsReady
<1>. QED BY <1>1, <1>2, <1>3, <1>4, <1>5, <1>6, AnswerSteps

-----------------------------------------------------------------------------
(* What the steps write down about commands. *)

\* What a read makes of the results.
LEMMA ReadAndLog ==
    ASSUME TypeInv, NEW c \in Calls, ReadToken(c), NEW i \in CmdIds
    PROVE  /\ log'[i].decided = log[i].decided
           /\ \/ log'[i].answer = log[i].answer
              \/ ReadStatus(c) /\ i = cmd[c] /\ Msg.id = cmd[c]
           /\ ReadStatus(c) /\ i = cmd[c] /\ Msg.id = cmd[c] => log'[i].answer = Msg.code
           /\ \/ log'[i].rsp = log[i].rsp
              \/ /\ pc[c] = "rspRead" /\ i = cmd[c]
                 /\ log'[i].rsp = pRspParams \/ (Msg.type = "rsp" /\ log'[i].rsp = Msg.id)
           /\ \/ log'[i].data = log[i].data
              \/ /\ Msg.type = "rsp" /\ binaryRx.state = "rsp" /\ i = binaryRx.buf
                 /\ log'[i].data = log[i].data \cup {Msg.id}
<1>1. log \in [CmdIds -> LogEntry] /\ log[i] \in LogEntry
  BY DEF TypeInv, ResultTypes
<1>2. CASE ReadRsp(c)
  <2>1. \/ log'[i] = log[i]
        \/ /\ pc[c] = "rspRead" /\ i = cmd[c]
           /\ log'[i] = [log[i] EXCEPT !.rsp = Msg.id]
    BY <1>1, <1>2 DEF ReadRsp
  <2>2. Msg.type = "rsp" /\ ~ReadStatus(c)
    BY <1>2 DEF ReadRsp, ReadStatus, Parsed
  <2>3. LET e == [log[i] EXCEPT !.rsp = Msg.id]
        IN  /\ e.rsp = Msg.id /\ e.decided = log[i].decided
            /\ e.answer = log[i].answer /\ e.data = log[i].data
    BY <1>1 DEF LogEntry
  <2>. QED BY <2>1, <2>2, <2>3
<1>3. CASE ReadStatus(c)
  <2>1. /\ \/ log'[i] = log[i]
           \/ /\ i = cmd[c] /\ Msg.id = cmd[c]
              /\ log'[i] = [log[i] EXCEPT !.answer = Msg.code]
        /\ i = cmd[c] /\ Msg.id = cmd[c] => log'[i] = [log[i] EXCEPT !.answer = Msg.code]
    BY <1>1, <1>3 DEF ReadStatus
  <2>2. LET e == [log[i] EXCEPT !.answer = Msg.code]
        IN  /\ e.answer = Msg.code /\ e.decided = log[i].decided
            /\ e.rsp = log[i].rsp /\ e.data = log[i].data
    BY <1>1 DEF LogEntry
  <2>. QED BY <1>3, <2>1, <2>2
<1>4. CASE ReadDataOfRsp(c)
  <2>1. /\ binaryRx.state = "rsp" /\ Msg.type = "rsp" /\ Part = "data"
        /\ log'[i] = [log[i] EXCEPT !.data = IF i = binaryRx.buf THEN log[i].data \cup {Msg.id}
                                                                 ELSE log[i].data,
                                    !.rsp = IF pc[c] = "rspRead" /\ i = cmd[c]
                                              THEN pRspParams ELSE log[i].rsp]
    BY <1>4 DEF ReadDataOfRsp, TypeInv, BinRspInv
  <2>2. ASSUME NEW d, NEW r
        PROVE  LET e == [log[i] EXCEPT !.data = d, !.rsp = r]
               IN  /\ e.data = d /\ e.rsp = r
                   /\ e.decided = log[i].decided /\ e.answer = log[i].answer
    BY <1>1 DEF LogEntry
  <2>3. ~ReadStatus(c)
    BY <2>1 DEF ReadStatus, Reads
  <2>. QED BY <2>1, <2>2, <2>3
<1>5. CASE \/ ReadUrc(c) \/ ReadUnexpected(c) \/ ReadSoh(c) \/ ReadLengthOfRsp(c)
           \/ ReadLengthOfUrc(c) \/ ReadLengthNoRoom(c) \/ ReadDataOfUrc(c) \/ ReadDataToFlush(c)
  <2>1. UNCHANGED log
    BY <1>5 DEF ReadUrc, ReadUnexpected, ReadSoh, ReadLengthOfRsp, ReadLengthOfUrc,
                ReadLengthNoRoom, ReadDataOfUrc, ReadDataToFlush
  <2>2. ReadStatus(c) => Part = "line" /\ Parsed(Msg) = "GOT_STATUS" /\ UNCHANGED isBinaryRx
    BY DEF ReadStatus, Reads, binVars
  <2>3. ~ReadStatus(c) \/ ReadDataOfUrc(c) \/ ReadDataToFlush(c)
    BY <1>5, <2>2 DEF ReadUrc, ReadUnexpected, ReadSoh, ReadLengthOfRsp, ReadLengthOfUrc,
                      ReadLengthNoRoom, Reads
  <2>4. ReadDataOfUrc(c) \/ ReadDataToFlush(c) => Part = "data"
    BY DEF ReadDataOfUrc, ReadDataToFlush, Reads
  <2>. QED BY <2>1, <2>2, <2>3, <2>4
<1>. QED BY <1>2, <1>3, <1>4, <1>5 DEF ReadToken

LEMMA ReturnAndLog ==
    ASSUME TypeInv, NEW c \in Calls, Return(c), NEW i \in CmdIds
    PROVE  log'[i].decided = log[i].decided
<1>1. log \in [CmdIds -> LogEntry] /\ log[i] \in LogEntry
  BY DEF TypeInv, ResultTypes
<1>2. log'[i] = log[i] \/ log'[i] = [log[i] EXCEPT !.result = status.code]
  BY <1>1 DEF Return
<1>3. [log[i] EXCEPT !.result = status.code].decided = log[i].decided
  BY <1>1 DEF LogEntry
<1>. QED BY <1>2, <1>3

\* Only the end of a command decides it.
LEMMA DecidedSteps ==
    ASSUME TypeInv, [Next]_vars
    PROVE  \/ \A i \in CmdIds : log'[i].decided = log[i].decided
           \/ \E c \in Calls : CmdDone(c)
<1>1. CASE UNCHANGED resultVars
  BY <1>1 DEF resultVars
<1>2. ASSUME NEW c \in Calls,
             (\E rsp \in RspKinds : CmdBegin(c, rsp)) \/ GetRsp(c) \/ EndCheck(c) \/ ReadError(c)
      PROVE  UNCHANGED log
  BY <1>2 DEF CmdBegin, GetRsp, EndCheck, ReadError
<1>3. ASSUME NEW c \in Calls, Return(c), NEW i \in CmdIds
      PROVE  log'[i].decided = log[i].decided
  BY <1>3, ReturnAndLog
<1>4. ASSUME NEW c \in Calls, ReadToken(c), NEW i \in CmdIds
      PROVE  log'[i].decided = log[i].decided
  BY <1>4, ReadAndLog
<1>. QED BY <1>1, <1>2, <1>3, <1>4, ResultSteps

\* A call that has a command has it for itself, and the command is not decided.
IdInv ==
    /\ \A c \in Calls : pc[c] \in Busy => cmd[c] <= cmds /\ log[cmd[c]].decided = NoStatus
    /\ \A i \in CmdIds : cmds < i => log[i].decided = NoStatus
    /\ \A c, d \in Calls : pc[c] \in Busy /\ pc[d] \in Busy /\ cmd[c] = cmd[d] => c = d

LEMMA IdStep ==
    ASSUME TypeInv, IdInv, [Next]_vars
    PROVE  IdInv'
<1>0. /\ cmds \in Nat /\ PcOK /\ cmd \in [Calls -> 0 .. MaxCmds] /\ MaxCmds \in Nat
      /\ \A c \in Calls : pc[c] \in Busy => cmd[c] \in CmdIds
  BY BoundsAssumption DEF TypeInv, CmdTypes
<1>. DEFINE Undecided == \A i \in CmdIds : log'[i].decided = log[i].decided
<1>1. ASSUME UNCHANGED <<cmd, cmds>>, \A c \in Calls : pc'[c] \in Busy => pc[c] \in Busy, Undecided
      PROVE  IdInv'
  BY <1>0, <1>1 DEF IdInv
<1>2. ASSUME NEW c \in Calls, CallCmd(c)
      PROVE  IdInv'
  <2>1. /\ cmds' = cmds + 1 /\ cmds < MaxCmds /\ UNCHANGED log
        /\ cmd' = [cmd EXCEPT ![c] = cmds'] /\ pc' = [pc EXCEPT ![c] = "cmdLock"]
    BY <1>2 DEF CallCmd, Goto
  <2>2. cmds' \in CmdIds /\ cmds < cmds' /\ cmds' \in Nat
    BY <1>0, <2>1 DEF CmdIds
  <2>3. /\ cmd'[c] = cmds' /\ \A d \in Calls : d # c => cmd'[d] = cmd[d] /\ pc'[d] = pc[d]
    BY <1>0, <2>1 DEF PcOK
  <2>4. log[cmds'].decided = NoStatus
    BY <2>2 DEF IdInv
  <2>5. ASSUME NEW d \in Calls, pc'[d] \in Busy
        PROVE  /\ cmd'[d] <= cmds' /\ log'[cmd'[d]].decided = NoStatus
               /\ d # c => cmd'[d] < cmds'
    <3>1. CASE d = c
      BY <2>1, <2>2, <2>3, <2>4, <3>1
    <3>2. CASE d # c
      <4>1. pc[d] \in Busy /\ cmd'[d] = cmd[d]
        BY <2>3, <2>5, <3>2
      <4>2. cmd[d] <= cmds /\ log[cmd[d]].decided = NoStatus /\ cmd[d] \in Nat
        BY <1>0, <4>1 DEF IdInv
      <4>. QED BY <1>0, <2>1, <2>2, <4>1, <4>2
    <3>. QED BY <3>1, <3>2
  <2>6. \A i \in CmdIds : cmds' < i => log'[i].decided = NoStatus
    BY <1>0, <2>1, <2>2 DEF IdInv, CmdIds
  <2>7. ASSUME NEW d \in Calls, NEW e \in Calls, pc'[d] \in Busy, pc'[e] \in Busy, cmd'[d] = cmd'[e]
        PROVE  d = e
    <3>1. CASE d # c /\ e # c
      BY <2>3, <2>7, <3>1 DEF IdInv
    <3>2. CASE d = c /\ e # c
      BY <2>2, <2>3, <2>5, <2>7, <3>2
    <3>3. CASE d # c /\ e = c
      BY <2>2, <2>3, <2>5, <2>7, <3>3
    <3>. QED BY <3>1, <3>2, <3>3
  <2>. QED BY <2>5, <2>6, <2>7 DEF IdInv
<1>3. ASSUME NEW c \in Calls, CmdDone(c)
      PROVE  IdInv'
  <2>1. /\ pc[c] \in Busy /\ UNCHANGED <<cmd, cmds>>
        /\ log' = [log EXCEPT ![cmd[c]].decided = status] /\ pc' = [pc EXCEPT ![c] = "drain"]
    BY <1>3 DEF CmdDone, Goto, Busy, InCommand
  <2>2. "drain" \notin Busy
    BY DEF Busy, InCommand
  <2>3. \A d \in Calls : pc'[d] \in Busy => pc[d] \in Busy /\ d # c
    BY <1>0, <2>1, <2>2 DEF PcOK
  <2>4. \A i \in CmdIds : i # cmd[c] => log'[i] = log[i]
    BY <2>1 DEF TypeInv, ResultTypes
  <2>5. cmd[c] <= cmds /\ cmd[c] \in Nat
    BY <1>0, <2>1 DEF IdInv
  <2>6. \A i \in CmdIds : cmds < i => log'[i].decided = NoStatus
    BY <1>0, <2>4, <2>5 DEF IdInv, CmdIds
  <2>7. \A d \in Calls : pc'[d] \in Busy =>
            cmd[d] <= cmds /\ log'[cmd[d]].decided = NoStatus
    BY <1>0, <2>1, <2>3, <2>4 DEF IdInv
  <2>. QED BY <2>1, <2>3, <2>6, <2>7 DEF IdInv
<1>4. CASE Module
  <2>1. UNCHANGED <<pc, cmd, cmds, log>>
    BY <1>4, ModuleLeaves
  <2>. QED BY <2>1 DEF IdInv
<1>5. ASSUME NEW c \in Calls, NEW rsp \in RspKinds, CmdBegin(c, rsp)
      PROVE  IdInv'
  <2>1. UNCHANGED <<cmd, cmds, log>> /\ pc[c] = "cmdLock" /\ \E l : pc' = [pc EXCEPT ![c] = l]
    BY <1>5 DEF CmdBegin, Goto
  <2>2. "cmdLock" \in Busy
    BY DEF Busy
  <2>. QED BY <1>0, <1>1, <2>1, <2>2 DEF PcOK
<1>6. ASSUME NEW c \in Calls, Return(c)
      PROVE  IdInv'
  <2>1. /\ pc[c] = "ret" /\ pc' = [pc EXCEPT ![c] = "idle"] /\ cmd' = [cmd EXCEPT ![c] = 0]
        /\ UNCHANGED cmds
    BY <1>6 DEF Return, Goto
  <2>2. "idle" \notin Busy
    BY DEF Busy, InCommand
  <2>3. \A d \in Calls : pc'[d] \in Busy => pc[d] \in Busy /\ cmd'[d] = cmd[d]
    BY <1>0, <2>1, <2>2 DEF PcOK
  <2>4. Undecided
    BY <1>6, ReturnAndLog
  <2>. QED BY <1>0, <2>1, <2>3, <2>4 DEF IdInv
<1>. QED BY <1>0, <1>1, <1>2, <1>3, <1>4, <1>5, <1>6, BusySteps, DecidedSteps DEF BusyMoves

-----------------------------------------------------------------------------
(* The results of the commands are their own. *)

OwnEntry(e, i) == /\ e.decided.of \in {0, i}
                  /\ e.decided.code = e.answer \/ e.decided = NoStatus
                  /\ e.rsp \in {0, i}
                  /\ e.data \subseteq {i}

ResultInv ==
    /\ executingCmd => /\ status # NoStatus =>
                              status.of = Current /\ status.code = log[Current].answer
                       /\ pRspParams \in {0, Current}
    /\ \A i \in CmdIds : OwnEntry(log[i], i)

AnswersInv == TypeInv /\ IdInv /\ LineInv /\ ReadyInv

\* The command that is executing is not decided.
LEMMA CurrentIsUndecided ==
    ASSUME AnswersInv, executingCmd
    PROVE  Current \in CmdIds /\ log[Current].decided = NoStatus
<1>1. cmdMutex \in Calls /\ At \in InCommand
  BY WhoExecutes DEF AnswersInv, TypeInv
<1>2. pc[cmdMutex] \in Busy
  BY <1>1 DEF At, Busy
<1>. QED BY <1>1, <1>2 DEF AnswersInv, IdInv, TypeInv, CmdTypes, Current

LEMMA ReadKeepsOwn ==
    ASSUME AnswersInv, ResultInv, NEW c \in Calls, ReadToken(c)
    PROVE  ResultInv'
<1>0. TypeInv /\ LineInv /\ ReadyInv
  BY DEF AnswersInv
<1>1. /\ c = cmdMutex /\ UNCHANGED executingCmd /\ (executingCmd => UNCHANGED Current)
  BY <1>0, ReadsForCommand DEF SameCommand
<1>2. /\ Msg.type \in {"rsp", "status", "urc"}
      /\ Msg.type # "urc" => Msg.id = Current
      /\ Msg.type = "status" => executingCmd
      /\ Msg.type = "rsp" => executingCmd
  <2>1. Msg \in Message
    BY <1>0, OneTokenOff
  <2>. QED BY <1>0, <2>1, ParsedByType DEF Message
<1>3. cmd[c] = Current
  BY <1>1 DEF Current
<1>4. UNCHANGED status \/ ReadStatus(c)
  BY <1>0, StatusIsRead
<1>5. UNCHANGED pRspParams \/ (Msg.type = "rsp" /\ pRspParams' = Msg.id)
  BY DEF ReadToken, ReadRsp, ReadStatus, ReadUrc, ReadUnexpected, ReadSoh, ReadLengthOfRsp,
         ReadLengthOfUrc, ReadLengthNoRoom, ReadDataOfRsp, ReadDataOfUrc, ReadDataToFlush, Parsed
<1>6. ReadStatus(c) => status' = [code |-> Msg.code, of |-> Msg.id] /\ Msg.type = "status"
  BY DEF ReadStatus, Parsed
<1>7. executingCmd => Current \in CmdIds /\ log[Current].decided = NoStatus
  BY CurrentIsUndecided
<1>8. ASSUME executingCmd
      PROVE  /\ status' # NoStatus => status'.of = Current /\ status'.code = log'[Current].answer
             /\ pRspParams' \in {0, Current}
  <2>1. pRspParams' \in {0, Current}
    BY <1>2, <1>5, <1>8 DEF ResultInv
  <2>2. CASE ReadStatus(c)
    <3>1. log'[Current].answer = Msg.code
      BY <1>0, <1>2, <1>3, <1>6, <1>7, <1>8, <2>2, ReadAndLog
    <3>2. status'.of = Current /\ status'.code = Msg.code
      BY <1>2, <1>6, <2>2
    <3>. QED BY <2>1, <3>1, <3>2
  <2>3. CASE ~ReadStatus(c)
    <3>1. log'[Current].answer = log[Current].answer /\ UNCHANGED status
      BY <1>0, <1>4, <1>7, <1>8, <2>3, ReadAndLog
    <3>2. status # NoStatus => status.of = Current /\ status.code = log[Current].answer
      BY <1>8 DEF ResultInv
    <3>. QED BY <2>1, <3>1, <3>2
  <2>. QED BY <1>4, <1>6, <2>2, <2>3
<1>9. ASSUME NEW i \in CmdIds
      PROVE  OwnEntry(log'[i], i)
  <2>0. OwnEntry(log[i], i)
    BY DEF ResultInv
  <2>1. log'[i].decided = log[i].decided
    BY <1>0, ReadAndLog
  <2>2. log'[i].decided.code = log'[i].answer \/ log'[i].decided = NoStatus
    <3>1. log'[i].answer = log[i].answer \/ (ReadStatus(c) /\ i = cmd[c])
      BY <1>0, ReadAndLog
    <3>2. ReadStatus(c) /\ i = cmd[c] => log[i].decided = NoStatus
      BY <1>2, <1>3, <1>6, <1>7
    <3>. QED BY <2>0, <2>1, <3>1, <3>2 DEF OwnEntry
  <2>3. log'[i].rsp \in {0, i}
    <3>1. \/ log'[i].rsp = log[i].rsp
          \/ /\ pc[c] = "rspRead" /\ i = cmd[c]
             /\ log'[i].rsp = pRspParams \/ (Msg.type = "rsp" /\ log'[i].rsp = Msg.id)
      BY <1>0, ReadAndLog
    <3>2. pc[c] = "rspRead" => executingCmd
      BY <1>0, WhoExecutes DEF InCommand, TypeInv
    <3>. QED BY <1>2, <1>3, <2>0, <3>1, <3>2 DEF ResultInv, OwnEntry
  <2>4. log'[i].data \subseteq {i}
    <3>1. \/ log'[i].data = log[i].data
          \/ /\ Msg.type = "rsp" /\ binaryRx.state = "rsp" /\ i = binaryRx.buf
             /\ log'[i].data = log[i].data \cup {Msg.id}
      BY <1>0, ReadAndLog
    <3>2. Msg.type = "rsp" /\ binaryRx.state = "rsp" => Msg.id = binaryRx.buf
      BY <1>0, <1>2 DEF ReadyInv
    <3>. QED BY <2>0, <3>1, <3>2 DEF OwnEntry
  <2>. QED BY <2>0, <2>1, <2>2, <2>3, <2>4 DEF OwnEntry
<1>. QED BY <1>1, <1>8, <1>9 DEF ResultInv

LEMMA ResultStep ==
    ASSUME Timeouts = FALSE, MaxIoErrors = 0, AnswersInv, ResultInv, ~expired, [Next]_vars
    PROVE  ResultInv'
<1>0. TypeInv /\ LineInv /\ log \in [CmdIds -> LogEntry]
  BY DEF AnswersInv, TypeInv, ResultTypes
<1>1. CASE Quiet
  <2>1. UNCHANGED <<executingCmd, status, pRspParams>>
    BY <1>1 DEF Quiet, answerVars
  <2>2. executingCmd => UNCHANGED Current /\ Current \in CmdIds
    BY <1>1, CurrentIsUndecided DEF Quiet, SameCommand
  <2>3. LogKept
    BY <1>1 DEF Quiet
  <2>4. \A i \in CmdIds : OwnEntry(log'[i], i)
    BY <2>3 DEF ResultInv, OwnEntry, LogKept
  <2>5. executingCmd => log'[Current].answer = log[Current].answer
    BY <2>2, <2>3 DEF LogKept
  <2>6. executingCmd' => /\ status' # NoStatus =>
                              status'.of = Current' /\ status'.code = log'[Current'].answer
                         /\ pRspParams' \in {0, Current'}
    BY <2>1, <2>2, <2>5 DEF ResultInv
  <2>. QED BY <2>4, <2>6 DEF ResultInv
<1>2. CASE Module
  BY <1>0, <1>2, ModuleAnswers DEF ResultInv
<1>3. ASSUME NEW c \in Calls, NEW rsp \in RspKinds, CmdBegin(c, rsp)
      PROVE  ResultInv'
  BY <1>0, <1>3, BeginsCommand DEF ResultInv
<1>4. ASSUME NEW c \in Calls, GetRsp(c)
      PROVE  ResultInv'
  BY <1>0, <1>4, BeginsReading DEF ResultInv, SameCommand
<1>5. ASSUME NEW c \in Calls, CmdDone(c)
      PROVE  ResultInv'
  <2>1. /\ executingCmd /\ At = "endDone" /\ ~executingCmd' /\ Current \in CmdIds
        /\ log' = [log EXCEPT ![Current].decided = status]
    BY <1>0, <1>5, EndsCommand
  <2>2. status # NoStatus
    BY <1>0, <2>1 DEF LineInv
  <2>3. status.of = Current /\ status.code = log[Current].answer
    BY <2>1, <2>2 DEF ResultInv
  <2>4. ASSUME NEW i \in CmdIds
        PROVE  OwnEntry(log'[i], i)
    <3>1. OwnEntry(log[i], i) /\ log[i] \in LogEntry
      BY <1>0 DEF ResultInv
    <3>2. CASE i # Current
      BY <1>0, <2>1, <3>1, <3>2
    <3>3. CASE i = Current
      <4>1. log'[i] = [log[i] EXCEPT !.decided = status]
        BY <1>0, <2>1, <3>3
      <4>2. LET e == [log[i] EXCEPT !.decided = status]
            IN  /\ e.decided = status /\ e.answer = log[i].answer
                /\ e.rsp = log[i].rsp /\ e.data = log[i].data
        BY <3>1 DEF LogEntry
      <4>. QED BY <2>3, <3>1, <3>3, <4>1, <4>2 DEF OwnEntry
    <3>. QED BY <3>2, <3>3
  <2>. QED BY <2>1, <2>4 DEF ResultInv
<1>6. ASSUME NEW c \in Calls, ReadToken(c)
      PROVE  ResultInv'
  BY <1>6, ReadKeepsOwn
<1>. QED BY <1>0, <1>1, <1>2, <1>3, <1>4, <1>5, <1>6, AnswerSteps

-----------------------------------------------------------------------------
(* OK comes after the response. *)

\* The end of a response.
EndOfRsp(token) == token.msg.type = "rsp" /\ token.part \in LastParts

IsOk(m) == m.type = "status" /\ m.code = "ok"

\* While GetRspParamLine() waits for the response, OK comes behind it.
Awaited == executingCmd /\ At \in {"getRsp", "rspRead", "rspCheck"}

FirstInv ==
    Awaited =>
        /\ status.code # "ok"
        /\ \A i \in 1 .. Len(wire) : IsOk(wire[i].msg) =>
               \E j \in 1 .. Len(wire) : j < i /\ EndOfRsp(wire[j])
        /\ pending # <<>> /\ Head(pending).rsp = "none" =>
               \E j \in 1 .. Len(wire) : EndOfRsp(wire[j])

LEMMA ModuleKeepsFirst ==
    ASSUME TypeInv, LineInv, FirstInv, Module
    PROVE  FirstInv'
<1>1. UNCHANGED <<executingCmd, At, status>> /\ (Awaited' => Awaited)
  BY ModuleAnswers DEF Awaited
<1>2. PICK m \in Message :
          /\ Send(m)
          /\ \/ m.type = "rsp" /\ pending # <<>>
             \/ /\ m.type = "status" /\ pending # <<>> /\ pending' = Tail(pending)
                /\ m.code = "ok" => Head(pending).rsp = "none"
             \/ m.type = "urc" /\ UNCHANGED pending
  BY ModuleAnswers
<1>3. /\ Len(wire) \in Nat /\ Len(wire') \in Nat /\ Len(wire) < Len(wire')
      /\ \A i \in 1 .. Len(wire) : i \in 1 .. Len(wire') /\ wire'[i] = wire[i]
      /\ \A i \in 1 .. Len(wire') : i \notin 1 .. Len(wire) => wire'[i].msg = m
      /\ wire'[Len(wire')].msg = m /\ wire'[Len(wire')].part \in LastParts
  BY <1>2, Sent DEF TypeInv, TrafficInv, MessageInv
<1>4. \A i \in 1 .. Len(wire') : i \notin 1 .. Len(wire) => \A j \in 1 .. Len(wire) : j < i
  BY <1>3
<1>5. ASSUME Awaited, NEW i \in 1 .. Len(wire'), IsOk(wire'[i].msg)
      PROVE  \E j \in 1 .. Len(wire') : j < i /\ EndOfRsp(wire'[j])
  <2>1. CASE i \in 1 .. Len(wire)
    <3>1. PICK j \in 1 .. Len(wire) : j < i /\ EndOfRsp(wire[j])
      BY <1>3, <1>5, <2>1 DEF FirstInv
    <3>. QED BY <1>3, <3>1
  <2>2. CASE i \notin 1 .. Len(wire)
    <3>1. m.type = "status" /\ m.code = "ok"
      BY <1>3, <1>5, <2>2 DEF IsOk
    <3>2. pending # <<>> /\ Head(pending).rsp = "none"
      BY <1>2, <3>1
    <3>3. PICK j \in 1 .. Len(wire) : EndOfRsp(wire[j])
      BY <1>5, <3>2 DEF FirstInv
    <3>. QED BY <1>3, <1>4, <2>2, <3>3
  <2>. QED BY <2>1, <2>2
<1>6. ASSUME Awaited, pending' # <<>>, Head(pending').rsp = "none"
      PROVE  \E j \in 1 .. Len(wire') : EndOfRsp(wire'[j])
  <2>1. CASE m.type = "rsp"
    <3>1. EndOfRsp(wire'[Len(wire')])
      BY <1>3, <2>1 DEF EndOfRsp
    <3>2. Len(wire') \in 1 .. Len(wire')
      BY <1>3
    <3>. QED BY <3>1, <3>2
  <2>2. CASE m.type = "status" /\ pending # <<>> /\ pending' = Tail(pending)
    <3>1. pending \in Seq(Order) /\ Len(pending) = 1
      BY <2>2 DEF LineInv, TypeInv, TrafficInv, MessageInv
    <3>2. Tail(pending) \in Seq(Order) /\ Len(Tail(pending)) = 0
      BY <2>2, <3>1, HeadTailProperties
    <3>. QED BY <1>6, <2>2, <3>2, EmptySeq
  <2>3. CASE UNCHANGED pending
    <3>1. PICK j \in 1 .. Len(wire) : EndOfRsp(wire[j])
      BY <1>6, <2>3 DEF FirstInv
    <3>. QED BY <1>3, <3>1
  <2>. QED BY <1>2, <2>1, <2>2, <2>3
<1>. QED BY <1>1, <1>5, <1>6 DEF FirstInv

LEMMA ReadKeepsFirst ==
    ASSUME TypeInv, LineInv, ReadyInv, FirstInv, NEW c \in Calls, ReadToken(c)
    PROVE  FirstInv'
<1>1. /\ Len(wire) \in Nat /\ Len(wire') \in Nat
      /\ 1 \in 1 .. Len(wire) /\ Msg = wire[1].msg /\ Part = wire[1].part
      /\ \A i \in 1 .. Len(wire') :
             i + 1 \in 1 .. Len(wire) /\ i + 1 # 1 /\ wire'[i] = wire[i + 1]
  BY OneTokenOff
<1>2. /\ c = cmdMutex /\ UNCHANGED <<executingCmd, pending>>
      /\ executingCmd => At \in {"rspRead", "endRead"}
      /\ executingCmd => At' = At \/ At' \in {"begun", "rspCheck", "endCheck"}
      /\ executingCmd /\ At = "endRead" => At' # "rspCheck"
  BY ReadsForCommand DEF SameCommand
<1>. SUFFICES ASSUME Awaited'
              PROVE  /\ status'.code # "ok"
                     /\ \A i \in 1 .. Len(wire') : IsOk(wire'[i].msg) =>
                            \E j \in 1 .. Len(wire') : j < i /\ EndOfRsp(wire'[j])
                     /\ pending' # <<>> /\ Head(pending').rsp = "none" =>
                            \E j \in 1 .. Len(wire') : EndOfRsp(wire'[j])
  BY DEF FirstInv
<1>3. executingCmd /\ At = "rspRead" /\ Awaited /\ pc[c] = "rspRead" /\ At' # "begun"
  BY <1>2 DEF Awaited, At
<1>4. ~EndOfRsp(wire[1])
  <2>1. SUFFICES ASSUME EndOfRsp(wire[1]) PROVE FALSE
    OBVIOUS
  <2>2. /\ Msg.type = "rsp" /\ Part \in {"line", "data"} /\ Parsed(Msg) = "GOT_RSP"
        /\ Part = "data" => binaryRx.state = "rsp"
    <3>1. Msg.type = "rsp" /\ Part \in {"line", "data"}
      BY <1>1, <2>1 DEF EndOfRsp, LastParts
    <3>. QED BY <3>1, ParsedByType, TokenRead DEF ReadyInv
  <2>3. ReadRsp(c) \/ ReadDataOfRsp(c)
    BY <2>2 DEF ReadToken, ReadStatus, ReadUrc, ReadUnexpected, ReadSoh, ReadLengthOfRsp,
           ReadLengthOfUrc, ReadLengthNoRoom, ReadDataOfUrc, ReadDataToFlush, Reads
  <2>4. pc' = [pc EXCEPT ![c] = "begun"] /\ UNCHANGED cmdMutex
    BY <1>3, <2>3 DEF ReadRsp, ReadDataOfRsp, ReturnRsp, Goto, Reads
  <2>5. At' = "begun"
    BY <1>2, <2>4 DEF At, TypeInv, CommandInv, PcOK
  <2>. QED BY <1>3, <2>5
<1>5. \A j \in 1 .. Len(wire) : EndOfRsp(wire[j]) =>
          j - 1 \in 1 .. Len(wire') /\ EndOfRsp(wire'[j - 1])
  <2>1. ASSUME NEW j \in 1 .. Len(wire), EndOfRsp(wire[j])
        PROVE  j - 1 \in 1 .. Len(wire') /\ EndOfRsp(wire'[j - 1])
    <3>1. j # 1
      BY <1>4, <2>1
    <3>2. Len(wire') = Len(wire) - 1
      <4>1. wire \in Seq(Token) /\ wire # <<>> /\ wire' = Tail(wire)
        BY TokenRead DEF TypeInv, TrafficInv, MessageInv
      <4>. QED BY <4>1, HeadTailProperties
    <3>3. j - 1 \in 1 .. Len(wire') /\ (j - 1) + 1 = j
      BY <1>1, <3>1, <3>2
    <3>4. wire'[j - 1] = wire[(j - 1) + 1]
      BY <1>1, <3>3
    <3>. QED BY <2>1, <3>3, <3>4
  <2>. QED BY <2>1
<1>6. ASSUME NEW i \in 1 .. Len(wire), IsOk(wire[i].msg)
      PROVE  \E j \in 1 .. Len(wire) : j < i /\ EndOfRsp(wire[j])
  BY <1>3, <1>6 DEF FirstInv
<1>7. ~IsOk(Msg)
  <2>1. SUFFICES ASSUME IsOk(Msg) PROVE FALSE
    OBVIOUS
  <2>2. PICK j \in 1 .. Len(wire) : j < 1
    BY <1>1, <1>6, <2>1
  <2>. QED BY <1>1, <2>2
<1>8. status'.code # "ok"
  <2>1. CASE UNCHANGED status
    BY <1>3, <2>1 DEF FirstInv
  <2>2. CASE Msg.type = "status" /\ ReadStatus(c)
    <3>1. status'.code = Msg.code
      BY <2>2 DEF ReadStatus
    <3>. QED BY <1>7, <2>2, <3>1 DEF IsOk
  <2>. QED BY <2>1, <2>2, StatusIsRead
<1>9. ASSUME NEW i \in 1 .. Len(wire'), IsOk(wire'[i].msg)
      PROVE  \E j \in 1 .. Len(wire') : j < i /\ EndOfRsp(wire'[j])
  <2>1. i + 1 \in 1 .. Len(wire) /\ wire'[i] = wire[i + 1]
    BY <1>1
  <2>2. PICK j \in 1 .. Len(wire) : j < i + 1 /\ EndOfRsp(wire[j])
    BY <1>6, <1>9, <2>1
  <2>3. j - 1 \in 1 .. Len(wire') /\ EndOfRsp(wire'[j - 1])
    BY <1>5, <2>2
  <2>4. j - 1 < i
    BY <1>1, <2>2
  <2>. QED BY <2>3, <2>4
<1>10. ASSUME pending' # <<>>, Head(pending').rsp = "none"
       PROVE  \E j \in 1 .. Len(wire') : EndOfRsp(wire'[j])
  <2>1. PICK j \in 1 .. Len(wire) : EndOfRsp(wire[j])
    BY <1>2, <1>3, <1>10 DEF FirstInv
  <2>. QED BY <1>5, <2>1
<1>. QED BY <1>8, <1>9, <1>10

LEMMA FirstStep ==
    ASSUME Timeouts = FALSE, MaxIoErrors = 0, AnswersInv, FirstInv, ~expired, [Next]_vars
    PROVE  FirstInv'
<1>0. TypeInv /\ LineInv /\ ReadyInv
  BY DEF AnswersInv
<1>1. ASSUME UNCHANGED <<status, pending, wire>>, Awaited' => Awaited
      PROVE  FirstInv'
  BY <1>1 DEF FirstInv
<1>2. CASE Quiet
  <2>1. UNCHANGED <<executingCmd, status, pending, wire>>
    BY <1>2 DEF Quiet, answerVars
  <2>2. Awaited' => Awaited
    BY <1>2, <2>1 DEF Quiet, AtMoves, Awaited
  <2>. QED BY <1>1, <2>1, <2>2
<1>3. CASE Module
  BY <1>0, <1>3, ModuleKeepsFirst
<1>4. ASSUME NEW c \in Calls, NEW rsp \in RspKinds, CmdBegin(c, rsp)
      PROVE  FirstInv'
  <2>1. /\ ~executingCmd /\ status' = NoStatus /\ UNCHANGED wire
        /\ At' = (IF rsp = "none" THEN "begun" ELSE "getRsp")
        /\ pending' = Append(pending, [cmd |-> cmd[c], rsp |-> rsp])
    BY <1>0, <1>4, BeginsCommand
  <2>2. NoAnswerDue
    BY <1>0, <2>1 DEF LineInv
  <2>3. Head(pending') = [cmd |-> cmd[c], rsp |-> rsp]
    BY <2>1, <2>2 DEF NoAnswerDue
  <2>4. Head(pending').rsp = rsp
    BY <2>3
  <2>5. \A i \in 1 .. Len(wire') : ~IsOk(wire'[i].msg)
    BY <2>1, <2>2 DEF NoAnswerDue, IsOk
  <2>6. status'.code # "ok"
    BY <2>1 DEF NoStatus
  <2>7. Awaited' => rsp # "none"
    BY <2>1 DEF Awaited
  <2>. QED BY <2>4, <2>5, <2>6, <2>7 DEF FirstInv
<1>5. ASSUME NEW c \in Calls, GetRsp(c)
      PROVE  FirstInv'
  <2>1. executingCmd /\ At = "getRsp" /\ UNCHANGED <<status, pending, wire>>
    BY <1>0, <1>5, BeginsReading
  <2>2. Awaited
    BY <2>1 DEF Awaited
  <2>. QED BY <1>1, <2>1, <2>2
<1>6. ASSUME NEW c \in Calls, CmdDone(c)
      PROVE  FirstInv'
  <2>1. ~executingCmd'
    BY <1>0, <1>6, EndsCommand
  <2>. QED BY <2>1 DEF FirstInv, Awaited
<1>7. ASSUME NEW c \in Calls, ReadToken(c)
      PROVE  FirstInv'
  BY <1>0, <1>7, ReadKeepsFirst
<1>. QED BY <1>0, <1>2, <1>3, <1>4, <1>5, <1>6, <1>7, AnswerSteps

-----------------------------------------------------------------------------
(* The callback gets URCs only. *)

UrcOnly ==
    /\ \A i \in 1 .. Len(delivered) : delivered[i].type = "urc"
    /\ \A i \in 1 .. Len(fifo) : fifo[i].line.type = "urc"
    /\ open # NoUrc => open.type = "urc"

LEMMA UrcOnlyStep ==
    ASSUME AnswersInv, UrcOnly, [Next]_vars
    PROVE  UrcOnly'
<1>0. /\ TypeInv /\ LineInv /\ ReadyInv /\ TrafficInv /\ QueueInv
      /\ fifo \in Seq(Entry) /\ delivered \in Seq(Message)
  BY DEF AnswersInv, TypeInv, QueueInv
<1>1. CASE UNCHANGED <<delivered, fifo, open>>
  BY <1>1 DEF UrcOnly
<1>2. ASSUME NEW c \in Calls, ReadToken(c)
      PROVE  UrcOnly'
  <2>1. Parsed(Msg) = "GOT_URC" => Msg.type = "urc"
    <3>1. Msg \in Message
      BY <1>0, <1>2, OneTokenOff
    <3>. QED BY <1>0, <1>2, <3>1, ParsedByType DEF Message
  <2>2. Msg \in Message
    BY <1>0, <1>2, OneTokenOff
  <2>3. ASSUME NEW p, fifo' = Append(fifo, [line |-> Msg, payload |-> p]), Msg.type = "urc"
        PROVE  \A i \in 1 .. Len(fifo') : fifo'[i].line.type = "urc"
    <3>1. \A i \in 1 .. Len(fifo') :
              \/ i \in 1 .. Len(fifo) /\ fifo'[i] = fifo[i]
              \/ fifo'[i] = [line |-> Msg, payload |-> p]
      BY <1>0, <2>3
    <3>. QED BY <2>3, <3>1 DEF UrcOnly
  <2>4. UNCHANGED delivered
    BY <1>2, TokenRead
  <2>5. CASE UNCHANGED <<fifo, open>>
    BY <2>4, <2>5 DEF UrcOnly
  <2>6. CASE /\ fifo' = Append(fifo, [line |-> Msg, payload |-> "none"])
             /\ UNCHANGED open /\ Parsed(Msg) = "GOT_URC"
    BY <2>1, <2>3, <2>4, <2>6 DEF UrcOnly
  <2>7. CASE UNCHANGED fifo /\ open' = Msg /\ Parsed(Msg) = "GOT_URC"
    BY <2>1, <2>4, <2>7 DEF UrcOnly
  <2>8. CASE /\ fifo' = Append(fifo, [line |-> Msg, payload |-> "data"])
             /\ open' = NoUrc /\ open = Msg
    <3>1. Msg.type = "urc"
      BY <2>2, <2>8, NoUrcAssumption DEF UrcOnly
    <3>. QED BY <2>3, <2>4, <2>8, <3>1 DEF UrcOnly
  <2>. QED BY <1>0, <1>2, <2>5, <2>6, <2>7, <2>8, ReadAndQueue
<1>3. ASSUME NEW c \in Calls, DequeueBegin(c)
      PROVE  UrcOnly'
  <2>1. /\ fifo # <<>> /\ UNCHANGED <<fifo, open>>
        /\ delivered' = Append(delivered, Head(fifo).line)
    BY <1>3 DEF DequeueBegin, Queue!DequeueBegin
  <2>2. Head(fifo) \in Entry /\ Head(fifo) = fifo[1] /\ 1 \in 1 .. Len(fifo)
    BY <1>0, <2>1, QueueFacts
  <2>3. Head(fifo).line \in Message /\ Head(fifo).line.type = "urc"
    BY <2>2 DEF Entry, UrcOnly
  <2>4. \A i \in 1 .. Len(delivered') :
            \/ i \in 1 .. Len(delivered) /\ delivered'[i] = delivered[i]
            \/ delivered'[i] = Head(fifo).line
    BY <1>0, <2>1, <2>3
  <2>. QED BY <2>1, <2>3, <2>4 DEF UrcOnly
<1>4. ASSUME NEW c \in Calls, DequeueEnd(c)
      PROVE  UrcOnly'
  <2>1. UNCHANGED <<delivered, open>> /\ fifo' = Tail(fifo) /\ fifo # <<>>
    BY <1>0, <1>4 DEF DequeueEnd, RemoveEntry, Queue!DequeueEnd, QueueInv
  <2>2. \A i \in 1 .. Len(fifo') : i + 1 \in 1 .. Len(fifo) /\ fifo'[i] = fifo[i + 1]
    BY <1>0, <2>1, TailFacts
  <2>. QED BY <2>1, <2>2 DEF UrcOnly
<1>5. CASE Module
  BY <1>1, <1>5, ModuleLeaves
<1>. QED BY <1>1, <1>2, <1>3, <1>4, <1>5, TrafficSteps DEF trafficVars

-----------------------------------------------------------------------------
(* All of it. *)

LEMMA NoTimeout ==
    ASSUME Timeouts = FALSE, ~expired, [Next]_vars
    PROVE  ~expired'
<1>. USE DEF clientVars
<1>1. CASE UNCHANGED vars
  BY <1>1 DEF vars
<1>2. CASE Module
  BY <1>2, ModuleLeaves
<1>3. ASSUME NEW c \in Calls, CallCmd(c) \/ CallHandleRx(c) \/ ReadError(c)
      PROVE  UNCHANGED expired
  BY <1>3 DEF CallCmd, CallHandleRx, ReadError
<1>4. ASSUME NEW c \in Calls, NEW rsp \in RspKinds, CmdBegin(c, rsp)
      PROVE  ~expired'
  BY <1>4 DEF CmdBegin
<1>5. ASSUME NEW c \in Calls, ReadToken(c)
      PROVE  UNCHANGED expired
  BY <1>5, TokenRead
<1>6. ASSUME NEW c \in Calls,
             \/ RxLock(c) \/ DequeueBegin(c) \/ DequeueNone(c) \/ TryLock(c) \/ TryLockFails(c)
             \/ DequeueEmpty(c) \/ DequeueEnd(c)
      PROVE  UNCHANGED expired
  BY <1>6 DEF RxLock, DequeueBegin, DequeueNone, TryLock, TryLockFails, DequeueEmpty, DequeueEnd
<1>7. ASSUME NEW c \in Calls,
             \/ GetRsp(c) \/ RspCheck(c) \/ CmdEnd(c) \/ EndCheck(c) \/ CmdDone(c) \/ Return(c)
             \/ RxUnlock(c) \/ ReadNothing(c)
      PROVE  UNCHANGED expired
  BY <1>7 DEF GetRsp, RspCheck, CmdEnd, EndCheck, CmdDone, Return, RxUnlock, ReadNothing
<1>8. ~Expire
  BY DEF Expire
<1>. QED BY <1>1, <1>2, <1>3, <1>4, <1>5, <1>6, <1>7, <1>8 DEF Next, TakeMutex, Step

OwnInv == AnswersInv /\ ResultInv /\ FirstInv /\ UrcOnly /\ ~expired

LEMMA OwnStep ==
    ASSUME Timeouts = FALSE, MaxIoErrors = 0, OwnInv, [Next]_vars
    PROVE  OwnInv'
<1>1. AnswersInv'
  BY TypeStep, IdStep, LineStep, ReadyStep DEF OwnInv, AnswersInv
<1>. QED BY <1>1, ResultStep, FirstStep, UrcOnlyStep, NoTimeout DEF OwnInv

LEMMA OwnInit == Init => OwnInv
<1>. SUFFICES ASSUME Init PROVE OwnInv
  OBVIOUS
<1>1. TypeInv
  BY TypeInit
<1>2. /\ pc = [c \in Calls |-> "idle"] /\ ~executingCmd /\ ~expired /\ cmds = 0
      /\ wire = <<>> /\ pending = <<>> /\ fifo = <<>> /\ delivered = <<>> /\ open = NoUrc
      /\ log = [i \in CmdIds |-> [answer |-> "none", decided |-> NoStatus, rsp |-> 0,
                                  data |-> {}, result |-> "running"]]
  BY DEF Init, Queue!Init
<1>3. Len(wire) = 0 /\ Len(fifo) = 0 /\ Len(delivered) = 0
  BY <1>2, EmptySeq
<1>4. \A i \in CmdIds : /\ log[i].decided = NoStatus /\ log[i].answer = "none"
                        /\ log[i].rsp = 0 /\ log[i].data = {}
  BY <1>2
<1>5. \A c \in Calls : pc[c] \notin Busy
  BY <1>2 DEF Busy, InCommand
<1>6. IdInv
  BY <1>4, <1>5 DEF IdInv
<1>7. LineInv /\ ReadyInv
  BY <1>2, <1>3 DEF LineInv, ReadyInv, NoAnswerDue
<1>8. ResultInv
  BY <1>2, <1>4 DEF ResultInv, OwnEntry, NoStatus
<1>9. FirstInv /\ UrcOnly
  BY <1>2, <1>3 DEF FirstInv, Awaited, UrcOnly
<1>. QED BY <1>1, <1>2, <1>6, <1>7, <1>8, <1>9 DEF OwnInv, AnswersInv

\* Without time-outs and failing reads, a command ends on the status that the module gave for
\* it (CmdEnd), gets its own response (GetRspParamLine) and its own binary data, although
\* HandleRx of other threads reads the same UART, and URCs come in between, in pieces or not;
\* and no response gets into the URC queue.
THEOREM CommandsGetTheirOwn ==
    ASSUME Timeouts = FALSE, MaxIoErrors = 0
    PROVE  Spec => []OwnAnswers
<1>1. OwnInv /\ [Next]_vars => OwnInv'
  BY OwnStep
<1>2. OwnInv => OwnAnswers
  BY DEF OwnInv, ResultInv, OwnEntry, UrcOnly, OwnAnswers
<1>. QED BY OwnInit, <1>1, <1>2, PTL DEF Spec

\* Nor does GetRspParamLine() find, under the same conditions, that the command has ended
\* with OK without having given the response.
THEOREM ResponseIsFirst ==
    ASSUME Timeouts = FALSE, MaxIoErrors = 0
    PROVE  Spec => []ResponseBeforeStatus
<1>1. OwnInv /\ [Next]_vars => OwnInv'
  BY OwnStep
<1>2. OwnInv => ResponseBeforeStatus
  <2>. SUFFICES ASSUME OwnInv, NEW c \in Calls, pc[c] = "rspCheck"
                PROVE  status.code # "ok"
    BY DEF ResponseBeforeStatus
  <2>1. executingCmd /\ cmdMutex = c
    BY WhoExecutes DEF OwnInv, AnswersInv, TypeInv, InCommand
  <2>. QED BY <2>1 DEF OwnInv, FirstInv, Awaited, At
<1>. QED BY OwnInit, <1>1, <1>2, PTL DEF Spec
=============================================================================
