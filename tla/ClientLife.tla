----------------------------- MODULE ClientLife -----------------------------
(***************************************************************************)
(* The life of an AT client under an application: init, open, close and    *)
(* deinit, the RX task that polls it in the meantime (POSIX port), the     *)
(* binding of the ucx API to it, and the way of a URC from the UART to the *)
(* callback that the application has registered for it.                    *)
(*                                                                         *)
(* A behaviour is about one URC of the ucx API, the watched one: the slots *)
(* of the others are set and called alike, and independently. Commands are *)
(* reduced to what concerns this: they lock cmdMutex, read URCs too, and   *)
(* hand them out when they end. (AtClient has the rest of them.)           *)
(*                                                                         *)
(* A definition with an underscore in its name is the definition after it  *)
(* with a plausible mistake in it. Nothing uses it.                        *)
(***************************************************************************)
EXTENDS UcxUrcs, Naturals, Sequences

CONSTANTS Callbacks,
          NoCallback,
          ReplacesLate,   \* the application replaces and removes callbacks, by
                          \* uCxInit() too, outside of callbacks also once the
                          \* client has been opened
          Urcs,           \* the URCs whose slot is looked at
          MaxUrcs         \* bound: URCs that the module sends

ASSUME ConstantsAssumption == /\ NoCallback \notin Callbacks
                              /\ ReplacesLate \in BOOLEAN
                              /\ Urcs \subseteq DOMAIN Format
                              /\ MaxUrcs \in Nat

\* Each function registers for a URC of its own, and one that can be parsed.
ASSUME RegistersAssumption ==
    /\ \A f \in DOMAIN Registers : Registers[f] \in DOMAIN Format
    /\ \A f, g \in DOMAIN Registers : Registers[f] = Registers[g] => f = g

Threads == {"app", "rx"}
Nobody == "nobody"

VARIABLES watched,     \* the URC that this behaviour is about
          pc,          \* per thread: the step it takes next
          stage,       \* what the application has done: it is after "none",
                       \* "init", "ucx", "open", "close"
          terminate,   \* terminateRxTask
          opened,
          uart,        \* "null", "open", or "freed": uartHandle still leads there
          cmdMutex,    \* the thread that holds it
          urcCallback, \* it is set
          tag,         \* pUrcCallbackTag is set
          slot,        \* callbacks of the uCxHandle_t: the one of the watched URC
          input,       \* the URCs that are still in the UART
          sent,        \* how many the module has sent
          urcs,        \* the URC queue
          dequeuer,    \* the thread that holds dequeueMutex
          local        \* per thread: the pointers it has loaded

taskVars == <<pc, stage, terminate, local>>
clientVars == <<opened, uart, cmdMutex>>
bindVars == <<urcCallback, tag, slot>>
urcVars == <<input, sent, urcs, dequeuer>>
vars == <<watched, taskVars, clientVars, bindVars, urcVars>>

\* A URC as the parsers tell it from others: its name, and of its parameters
\* whether they all parse, some do not, or there are too few of them.
Urc == [name : {"watched", "unknown"}, params : {"good", "bad", "few"}]

NothingLoaded == [handle |-> FALSE, callback |-> NoCallback]

Init == /\ watched \in Urcs
        /\ pc = [t \in Threads |-> IF t = "app" THEN "idle" ELSE "none"]
        /\ stage = "none"
        /\ terminate = FALSE
        /\ opened = FALSE
        /\ uart = "null"
        /\ cmdMutex = Nobody
        /\ urcCallback = FALSE
        /\ tag = FALSE
        /\ slot = NoCallback
        /\ input = <<>>
        /\ sent = 0
        /\ urcs = <<>>
        /\ dequeuer = Nobody
        /\ local = [t \in Threads |-> NothingLoaded]

Goto(t, step) == pc' = [pc EXCEPT ![t] = step]
Moves(t, from, to) == pc[t] = from /\ Goto(t, to)

\* Where a thread goes on after uCxAtClientHandleRx() or a command.
After_Idle(t) == "idle"
After(t) == IF t = "app" THEN "idle" ELSE "loop"

-----------------------------------------------------------------------------
(* The application *)

\* The client is zeroed, except for what the UART holds, and the task started.
ClientInit ==
    /\ stage = "none"
    /\ stage' = "init"
    /\ pc["app"] = "idle"
    /\ Goto("rx", "loop")
    /\ terminate' = FALSE
    /\ opened' = FALSE /\ uart' = "null" /\ cmdMutex' = Nobody
    /\ urcCallback' = FALSE /\ tag' = FALSE
    /\ urcs' = <<>> /\ dequeuer' = Nobody
    /\ UNCHANGED <<watched, slot, input, sent, local>>

\* Before the client is opened or after, and also again, as fw_upgrade_example.c does.
\* It empties the slots.
UcxInit ==
    /\ stage # "none"
    /\ stage \in {"init", "ucx"} \/ ~tag \/ slot = NoCallback \/ ReplacesLate
    /\ Moves("app", "idle", "set callback")
    /\ stage' = IF stage = "init" THEN "ucx" ELSE stage
    /\ slot' = NoCallback
    /\ UNCHANGED <<watched, terminate, local, clientVars, urcCallback, tag,
                   urcVars>>

SetUrcCallback ==
    /\ Moves("app", "set callback", "set tag")
    /\ urcCallback' = TRUE
    /\ UNCHANGED <<watched, stage, terminate, local, clientVars, tag, slot,
                   urcVars>>

SetTag ==
    /\ Moves("app", "set tag", "idle")
    /\ tag' = TRUE
    /\ UNCHANGED <<watched, stage, terminate, local, clientVars, urcCallback,
                   slot, urcVars>>

\* What came while the UART was closed is lost.
OpenUart ==
    /\ stage \in {"init", "ucx", "close"}
    /\ ~opened
    /\ Moves("app", "idle", "opened")
    /\ uart' = "open"
    /\ input' = <<>>
    /\ UNCHANGED <<watched, stage, terminate, local, opened, cmdMutex, bindVars,
                   sent, urcs, dequeuer>>

SetOpened ==
    /\ Moves("app", "opened", "idle")
    /\ opened' = TRUE
    /\ stage' = "open"
    /\ UNCHANGED <<watched, terminate, local, uart, cmdMutex, bindVars, urcVars>>

CloseUart ==
    /\ stage = "open"
    /\ opened
    /\ Moves("app", "idle", "closed")
    /\ uart' = "freed"
    /\ UNCHANGED <<watched, stage, terminate, local, opened, cmdMutex, bindVars,
                   urcVars>>

ForgetUart ==
    /\ Moves("app", "closed", "forgotten")
    /\ uart' = "null"
    /\ UNCHANGED <<watched, stage, terminate, local, opened, cmdMutex, bindVars,
                   urcVars>>

ResetOpened ==
    /\ Moves("app", "forgotten", "idle")
    /\ opened' = FALSE
    /\ stage' = "close"
    /\ UNCHANGED <<watched, terminate, local, uart, cmdMutex, bindVars, urcVars>>

\* One of the functions that Registers has for the watched URC.
Register(callback) ==
    /\ \E f \in DOMAIN Registers : Registers[f] = watched
    /\ slot' = callback
    /\ UNCHANGED <<watched, taskVars, clientVars, urcCallback, tag, urcVars>>

\* The application, outside of a callback: at any time for an empty slot, as the
\* examples do after Open and uCxInit.
RegisterIdle(callback) ==
    /\ tag
    /\ stage = "ucx" \/ slot = NoCallback \/ ReplacesLate
    /\ pc["app"] = "idle"
    /\ Register(callback)

StopTask ==
    /\ stage # "none"
    /\ Moves("app", "idle", "join")
    /\ terminate' = TRUE
    /\ UNCHANGED <<watched, stage, local, clientVars, bindVars, urcVars>>

\* uPortBgRxTaskDestroy() waits for the task. Then the mutexes are deleted.
Joined_AtOnce == TRUE
Joined == pc["rx"] = "ended"

DeleteMutexes ==
    /\ Moves("app", "join", "idle")
    /\ Joined
    /\ stage' = "none"
    /\ UNCHANGED <<watched, terminate, local, clientVars, bindVars, urcVars>>

-----------------------------------------------------------------------------
(* The RX task, uCxAtClientHandleRx() and commands *)

RxLoop_Forever ==
    /\ Moves("rx", "loop", "check")
    /\ UNCHANGED <<watched, stage, terminate, local, clientVars, bindVars,
                   urcVars>>
RxLoop ==
    /\ Moves("rx", "loop", IF terminate THEN "ended" ELSE "check")
    /\ UNCHANGED <<watched, stage, terminate, local, clientVars, bindVars,
                   urcVars>>

CheckOpened ==
    /\ Moves("rx", "check", IF opened THEN "lock" ELSE "loop")
    /\ UNCHANGED <<watched, stage, terminate, local, clientVars, bindVars,
                   urcVars>>

Command ==
    /\ stage = "open"
    /\ Moves("app", "idle", "lock")
    /\ UNCHANGED <<watched, stage, terminate, local, clientVars, bindVars,
                   urcVars>>

Lock(t) ==
    /\ Moves(t, "lock", "read")
    /\ cmdMutex = Nobody
    /\ cmdMutex' = t
    /\ UNCHANGED <<watched, stage, terminate, local, opened, uart, bindVars,
                   urcVars>>

LoadUart(t) ==
    /\ Moves(t, "read", "use")
    /\ local' = [local EXCEPT ![t].handle = uart # "null"]
    /\ UNCHANGED <<watched, stage, terminate, clientVars, bindVars, urcVars>>

\* The read of a UART that has been closed finds nothing here. (It is undefined.)
ReadUart(t) ==
    /\ Moves(t, "use", "read")
    /\ local[t].handle
    /\ uart = "open"
    /\ input # <<>>
    /\ input' = Tail(input)
    /\ urcs' = Append(urcs, Head(input))
    /\ UNCHANGED <<watched, stage, terminate, local, clientVars, bindVars, sent,
                   dequeuer>>

\* There is nothing more, or reading fails.
Unlock(t) ==
    /\ Moves(t, "use", "try")
    /\ ~local[t].handle \/ uart # "open" \/ input = <<>>
    /\ cmdMutex' = Nobody
    /\ local' = [local EXCEPT ![t] = NothingLoaded]
    /\ UNCHANGED <<watched, stage, terminate, opened, uart, bindVars,
                   urcVars>>

-----------------------------------------------------------------------------
(* URCs: processUrcs(), urcCallback() and uCxUrcParse() *)

TryLock(t) ==
    /\ Moves(t, "try", IF dequeuer = Nobody THEN "dequeue" ELSE After(t))
    /\ dequeuer' = IF dequeuer = Nobody THEN t ELSE dequeuer
    /\ UNCHANGED <<watched, stage, terminate, local, clientVars, bindVars, input,
                   sent, urcs>>

DequeueNone(t) ==
    /\ Moves(t, "dequeue", After(t))
    /\ urcs = <<>>
    /\ dequeuer' = Nobody
    /\ UNCHANGED <<watched, stage, terminate, local, clientVars, bindVars, input,
                   sent, urcs>>

\* Without a callback the URC is dropped.
Dequeue(t) ==
    /\ Moves(t, "dequeue", IF urcCallback THEN "load tag" ELSE "remove")
    /\ urcs # <<>>
    /\ UNCHANGED <<watched, stage, terminate, local, clientVars, bindVars,
                   urcVars>>

LoadTag(t) ==
    /\ Moves(t, "load tag", "parse")
    /\ local' = [local EXCEPT ![t].handle = tag]
    /\ UNCHANGED <<watched, stage, terminate, clientVars, bindVars, urcVars>>

\* uCxAtUtilParseParamsF() does not mind that there are too few parameters.
Parses(urc) == urc.params # "bad" \/ Format[watched] = ""

Parse(t) ==
    /\ Moves(t, "parse", IF Head(urcs).name = "watched" /\ Parses(Head(urcs))
                           THEN "check slot" ELSE "remove")
    /\ UNCHANGED <<watched, stage, terminate, local, clientVars, bindVars,
                   urcVars>>

\* Behind a null handle no slot is found here. (It is undefined.)
CheckSlot_Unguarded(t) ==
    /\ Moves(t, "check slot", "call")
    /\ local' = [local EXCEPT ![t].callback = slot]
    /\ UNCHANGED <<watched, stage, terminate, clientVars, bindVars, urcVars>>
CheckSlot(t) ==
    /\ Moves(t, "check slot", IF local[t].handle /\ slot # NoCallback
                                THEN "call" ELSE "remove")
    /\ local' = [local EXCEPT ![t].callback = slot]
    /\ UNCHANGED <<watched, stage, terminate, clientVars, bindVars, urcVars>>

\* The slot is named again in the call: the build may load it again, or not.
CallSlot(t) ==
    /\ Moves(t, "call", "callback")
    /\ \E callback \in {slot, local[t].callback} :
           local' = [local EXCEPT ![t].callback = callback]
    /\ UNCHANGED <<watched, stage, terminate, clientVars, bindVars, urcVars>>

\* What callbacks do that concerns the client's life.
RegisterInCallback(t, callback) ==
    /\ pc[t] = "callback"
    /\ Register(callback)

CallbackReturns(t) ==
    /\ Moves(t, "callback", "remove")
    /\ UNCHANGED <<watched, stage, terminate, local, clientVars, bindVars,
                   urcVars>>

Remove(t) ==
    /\ Moves(t, "remove", "try")
    /\ urcs' = Tail(urcs)
    /\ dequeuer' = Nobody
    /\ local' = [local EXCEPT ![t] = NothingLoaded]
    /\ UNCHANGED <<watched, stage, terminate, clientVars, bindVars, input,
                   sent>>

-----------------------------------------------------------------------------
Send(urc) ==
    /\ uart = "open"
    /\ sent < MaxUrcs
    /\ sent' = sent + 1
    /\ input' = Append(input, urc)
    /\ UNCHANGED <<watched, taskVars, clientVars, bindVars, urcs, dequeuer>>

\* Steps that a thread takes once it is in a function of the client.
Step(t) == \/ LoadUart(t) \/ ReadUart(t) \/ Unlock(t) \/ TryLock(t)
           \/ DequeueNone(t) \/ Dequeue(t) \/ LoadTag(t) \/ Parse(t)
           \/ CheckSlot(t) \/ CallSlot(t) \/ CallbackReturns(t) \/ Remove(t)

AppStep == \/ SetUrcCallback \/ SetTag \/ SetOpened \/ ForgetUart
           \/ ResetOpened \/ DeleteMutexes

AppCall == \/ ClientInit \/ UcxInit \/ OpenUart \/ CloseUart \/ Command
           \/ StopTask
           \/ \E c \in Callbacks \cup {NoCallback} : RegisterIdle(c)

RxStep == RxLoop \/ CheckOpened

Next == \/ AppCall \/ AppStep \/ RxStep
        \/ \E t \in Threads : \/ Lock(t) \/ Step(t)
                              \/ \E c \in Callbacks \cup {NoCallback} :
                                     RegisterInCallback(t, c)
        \/ \E urc \in Urc : Send(urc)

Spec == Init /\ [][Next]_vars

\* Threads keep running and callbacks return; cmdMutex is got when it is free
\* again and again. The application need not call anything.
FairSpec == /\ Spec
            /\ WF_vars(AppStep)
            /\ WF_vars(RxStep)
            /\ \A t \in Threads : WF_vars(Step(t)) /\ SF_vars(Lock(t))

-----------------------------------------------------------------------------
AppSteps == {"idle", "set callback", "set tag", "opened", "closed", "forgotten",
             "join"}
RxSteps == {"none", "loop", "check", "ended"}
ClientSteps == {"lock", "read", "use", "try", "dequeue", "load tag", "parse",
                "check slot", "call", "callback", "remove"}

TypeOK ==
    /\ watched \in Urcs
    /\ pc["app"] \in AppSteps \cup ClientSteps
    /\ pc["rx"] \in RxSteps \cup ClientSteps
    /\ stage \in {"none", "init", "ucx", "open", "close"}
    /\ terminate \in BOOLEAN /\ opened \in BOOLEAN
    /\ uart \in {"null", "open", "freed"}
    /\ cmdMutex \in Threads \cup {Nobody}
    /\ urcCallback \in BOOLEAN /\ tag \in BOOLEAN
    /\ slot \in Callbacks \cup {NoCallback}
    /\ input \in Seq(Urc) /\ urcs \in Seq(Urc)
    /\ sent \in 0 .. MaxUrcs
    /\ dequeuer \in Threads \cup {Nobody}
    /\ local \in [Threads -> [handle : BOOLEAN,
                              callback : Callbacks \cup {NoCallback}]]

\* The callback that gets the URCs of the ucx API is given the handle of uCxInit(),
\* into which it looks for the slots, in whatever order the application calls
\* uCxInit() and uCxAtClientOpen(). (u_cx_at_client.h:165 says of pTag: "a user
\* pointer that will be passed to the callback when called". Does not hold: README.md
\* of the library calls Open first, and the callback is set before its tag.)
CallbackGetsHandle ==
    \A t \in Threads : pc[t] = "parse" => local[t].handle

\* The callback that is called for a URC is one that is registered for it at that
\* moment, although callbacks register and unregister each other and the
\* application registers while URCs are handed out.
RegisteredIsCalled ==
    [][\A t \in Threads : pc[t] = "call" /\ pc'[t] = "callback"
          => local'[t].callback = slot /\ slot # NoCallback]_vars

\* When uCxAtClientDeinit() has deleted the mutexes, and the client may be freed,
\* no thread is in a function of the client or will call one.
QuietAfterDeinit ==
    stage = "none" => /\ pc["app"] = "idle"
                      /\ pc["rx"] \in {"none", "ended"}

\* uCxAtClientDeinit() returns, whatever the RX task is at.
DeinitReturns == pc["app"] = "join" ~> stage = "none"

\* The UART that is read is still open. (Does not hold: uCxAtClientClose() does
\* not take cmdMutex.)
ReadsOpenUart ==
    \A t \in Threads : pc[t] = "use" /\ local[t].handle => uart = "open"
=============================================================================
