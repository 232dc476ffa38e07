-------------------------- MODULE ClientLifeProofs --------------------------
(***************************************************************************)
(* Theorems about ClientLife, for any number of callbacks and of URCs and  *)
(* every table of URCs: nothing runs in a client that was deinitialised;   *)
(* and, whether uCxInit() comes before uCxAtClientOpen() or after it, the  *)
(* callback called is the registered one, if the application replaces none *)
(* once the client was opened. Every variable keeps its type.              *)
(*                                                                         *)
(* The argument is about who looks at a slot when it changes. Before the   *)
(* client has been opened, the RX task does not get past its check of      *)
(* opened; before the ucx API is bound, URCs are dropped; an empty slot is *)
(* not called; and while a callback runs, the thread that holds            *)
(* dequeueMutex is in it.                                                  *)
(***************************************************************************)
EXTENDS ClientLife, SequenceTheorems, TLAPS

Locations == AppSteps \cup RxSteps \cup ClientSteps

PcOK == pc \in [Threads -> Locations]

\* Thread t goes from one location to another one.
Goes(t, from, to) == pc[t] = from /\ pc' = [pc EXCEPT ![t] = to]

LEMMA GoesFacts ==
    ASSUME PcOK, NEW t \in Threads, NEW from, NEW to \in Locations, Goes(t, from, to)
    PROVE  /\ PcOK' /\ pc'[t] = to /\ pc[t] = from
           /\ \A u \in Threads \ {t} : pc'[u] = pc[u]
BY DEF PcOK, Goes

-----------------------------------------------------------------------------
(* What the steps do to pc. *)

ClientStays == UNCHANGED <<watched, stage, opened, tag, slot>>

\* In the client's functions, a thread goes from one of their steps to another one
\* or returns to its loop.
LEMMA StepGoes ==
    ASSUME NEW t \in Threads, Step(t) \/ Lock(t)
    PROVE  /\ \E from \in ClientSteps, to \in ClientSteps \cup {After(t)} : Goes(t, from, to)
           /\ ClientStays
<1>. USE DEF Moves, Goto, Goes, ClientSteps, ClientStays, clientVars, bindVars
<1>1. CASE LoadUart(t) \/ ReadUart(t) \/ Unlock(t) \/ CallbackReturns(t) \/ Remove(t)
  BY <1>1 DEF LoadUart, ReadUart, Unlock, CallbackReturns, Remove
<1>2. CASE TryLock(t)
  BY <1>2 DEF TryLock
<1>3. CASE DequeueNone(t)
  BY <1>3 DEF DequeueNone
<1>4. CASE Dequeue(t) \/ LoadTag(t) \/ Parse(t)
  BY <1>4 DEF Dequeue, LoadTag, Parse
<1>5. CASE CheckSlot(t)
  BY <1>5 DEF CheckSlot
<1>6. CASE CallSlot(t)
  BY <1>6 DEF CallSlot
<1>7. CASE Lock(t)
  BY <1>7 DEF Lock
<1>. QED BY <1>1, <1>2, <1>3, <1>4, <1>5, <1>6, <1>7 DEF Step

LEMMA AfterFacts ==
    ASSUME NEW t \in Threads
    PROVE  /\ After(t) \in Locations /\ After(t) \notin ClientSteps
           /\ t = "app" => After(t) = "idle"
           /\ t = "rx" => After(t) = "loop"
BY DEF After, Threads, Locations, AppSteps, RxSteps, ClientSteps

-----------------------------------------------------------------------------
(* Deinit. *)

QuietInv ==
    /\ PcOK /\ pc["app"] \in AppSteps \cup ClientSteps /\ pc["rx"] \in RxSteps \cup ClientSteps
    /\ QuietAfterDeinit

LEMMA QuietGoes ==
    ASSUME QuietInv, UNCHANGED stage, NEW t \in Threads, NEW from, NEW to, Goes(t, from, to),
           \/ t = "app" /\ from # "idle" /\ to \in AppSteps \cup ClientSteps
           \/ t = "rx" /\ from \notin {"none", "ended"} /\ to \in RxSteps \cup ClientSteps
           \/ stage # "none" /\ t = "app" /\ to \in AppSteps \cup ClientSteps
    PROVE  QuietInv'
<1>1. to \in Locations /\ stage # "none"
  BY DEF QuietInv, QuietAfterDeinit, Goes, Locations
<1>2. /\ PcOK' /\ pc'[t] = to
      /\ \A u \in Threads \ {t} : pc'[u] = pc[u]
  BY <1>1, GoesFacts DEF QuietInv
<1>. QED BY <1>1, <1>2 DEF QuietInv, QuietAfterDeinit, Threads

LEMMA QuietStep == QuietInv /\ [Next]_vars => QuietInv'
<1>. SUFFICES ASSUME QuietInv, [Next]_vars PROVE QuietInv'
  OBVIOUS
<1>0. "app" \in Threads /\ "rx" \in Threads /\ "app" # "rx"
  BY DEF Threads
<1>1. CASE UNCHANGED <<pc, stage>>
  BY <1>1 DEF QuietInv, PcOK, QuietAfterDeinit
<1>2. CASE SetUrcCallback \/ SetTag \/ ForgetUart
  <2>1. UNCHANGED stage /\ \E from \in AppSteps \ {"idle"}, to \in AppSteps : Goes("app", from, to)
    BY <1>2 DEF SetUrcCallback, SetTag, ForgetUart, Moves, Goto, Goes, AppSteps
  <2>. QED BY <1>0, <2>1, QuietGoes
<1>3. CASE SetOpened \/ ResetOpened \/ UcxInit
  <2>1. /\ stage' # "none"
        /\ \E from \in AppSteps, to \in AppSteps : Goes("app", from, to)
    BY <1>3 DEF SetOpened, ResetOpened, UcxInit, Moves, Goto, Goes, AppSteps
  <2>2. AppSteps \subseteq Locations
    BY DEF Locations
  <2>3. PcOK' /\ pc'["rx"] = pc["rx"] /\ pc'["app"] \in AppSteps
    BY <1>0, <2>1, <2>2, GoesFacts DEF QuietInv
  <2>. QED BY <2>1, <2>3 DEF QuietInv, QuietAfterDeinit
<1>4. CASE OpenUart \/ CloseUart \/ Command \/ StopTask
  <2>1. UNCHANGED stage /\ stage # "none"
        /\ \E from, to \in AppSteps \cup ClientSteps : Goes("app", from, to)
    BY <1>4 DEF OpenUart, CloseUart, Command, StopTask, Moves, Goto, Goes, AppSteps, ClientSteps
  <2>. QED BY <1>0, <2>1, QuietGoes
<1>5. CASE ClientInit
  <2>1. stage' = "init" /\ pc' = [pc EXCEPT !["rx"] = "loop"] /\ pc["app"] = "idle"
    BY <1>5 DEF ClientInit, Goto
  <2>2. "loop" \in RxSteps /\ "idle" \in AppSteps /\ "loop" \in Locations
    BY DEF RxSteps, AppSteps, Locations
  <2>3. PcOK' /\ pc'["rx"] = "loop" /\ pc'["app"] = "idle"
    BY <1>0, <2>1, <2>2 DEF QuietInv, PcOK
  <2>. QED BY <2>1, <2>2, <2>3 DEF QuietInv, QuietAfterDeinit
<1>6. CASE DeleteMutexes
  <2>1. pc["rx"] = "ended" /\ pc' = [pc EXCEPT !["app"] = "idle"]
    BY <1>6 DEF DeleteMutexes, Joined, Moves, Goto
  <2>2. "idle" \in AppSteps /\ "idle" \in Locations
    BY DEF AppSteps, Locations
  <2>3. PcOK' /\ pc'["rx"] = "ended" /\ pc'["app"] = "idle"
    BY <1>0, <2>1, <2>2 DEF QuietInv, PcOK
  <2>. QED BY <2>2, <2>3 DEF QuietInv, QuietAfterDeinit, RxSteps
<1>7. CASE RxStep
  <2>1. UNCHANGED stage
        /\ \E from \in {"loop", "check"}, to \in RxSteps \cup ClientSteps : Goes("rx", from, to)
    BY <1>7 DEF RxStep, RxLoop, CheckOpened, Moves, Goto, Goes, RxSteps, ClientSteps
  <2>. QED BY <1>0, <2>1, QuietGoes
<1>8. ASSUME NEW t \in Threads, Step(t) \/ Lock(t)
      PROVE  QuietInv'
  <2>1. PICK from \in ClientSteps, to \in ClientSteps \cup {After(t)} : Goes(t, from, to)
    BY <1>8, StepGoes
  <2>2. UNCHANGED stage
    BY <1>8, StepGoes DEF ClientStays
  <2>3. from \notin {"idle", "none", "ended"}
    BY DEF ClientSteps
  <2>4. \/ t = "app" /\ to \in AppSteps \cup ClientSteps
        \/ t = "rx" /\ to \in RxSteps \cup ClientSteps
    BY AfterFacts DEF Threads, AppSteps, RxSteps
  <2>. QED BY <2>1, <2>2, <2>3, <2>4, QuietGoes
<1>9. ASSUME NEW c \in Callbacks \cup {NoCallback},
             RegisterIdle(c) \/ \E t \in Threads : RegisterInCallback(t, c)
      PROVE  UNCHANGED <<pc, stage>>
  BY <1>9 DEF RegisterIdle, RegisterInCallback, Register, taskVars
<1>10. ASSUME NEW urc \in Urc, Send(urc)
       PROVE  UNCHANGED <<pc, stage>>
  BY <1>10 DEF Send, taskVars
<1>11. CASE UNCHANGED vars
  BY <1>1, <1>11 DEF vars, taskVars
<1>. QED BY <1>1, <1>2, <1>3, <1>4, <1>5, <1>6, <1>7, <1>8, <1>9, <1>10, <1>11
         DEF Next, AppCall, AppStep

LEMMA QuietInit == Init => QuietInv
BY DEF Init, QuietInv, PcOK, QuietAfterDeinit, Locations, AppSteps, RxSteps, Threads

\* uCxAtClientDeinit() returns only when the RX task has ended: then no thread is in a
\* function of the client, whatever the task was at when it was told to stop.
THEOREM NothingRunsAfterDeinit == Spec => []QuietAfterDeinit
<1>1. QuietInv => QuietAfterDeinit
  BY DEF QuietInv
<1>. QED BY QuietInit, QuietStep, <1>1, PTL DEF Spec

-----------------------------------------------------------------------------
(* The phases of the client. *)

PhaseInv ==
    /\ stage \in {"none", "init", "ucx", "open", "close"}
    /\ \A t \in Threads : pc[t] \in ClientSteps => stage \in {"open", "close"}
    /\ opened => stage \in {"none", "open", "close"}

\* The application goes on, outside of the client's functions.
LEMMA AppGoes ==
    ASSUME QuietInv, PhaseInv, NEW from, NEW to \in AppSteps, Goes("app", from, to)
    PROVE  /\ pc'["app"] = to /\ pc["app"] = from /\ pc'["rx"] = pc["rx"]
           /\ \A t \in Threads : pc'[t] \in ClientSteps =>
                  pc[t] \in ClientSteps /\ stage \in {"open", "close"}
<1>1. to \in Locations /\ to \notin ClientSteps
  BY DEF Locations, AppSteps, ClientSteps
<1>2. "app" \in Threads /\ "rx" \in Threads /\ "app" # "rx"
  BY DEF Threads
<1>3. pc'["app"] = to /\ pc["app"] = from /\ pc'["rx"] = pc["rx"]
  BY <1>1, <1>2, GoesFacts DEF QuietInv
<1>. QED BY <1>1, <1>3 DEF PhaseInv, Threads

LEMMA PhaseOfApp ==
    ASSUME QuietInv, PhaseInv, AppStep
    PROVE  PhaseInv'
<1>. USE DEF Moves, Goto, Goes
<1>1. CASE SetUrcCallback
  <2>1. Goes("app", "set callback", "set tag") /\ UNCHANGED <<stage, opened>>
    BY <1>1 DEF SetUrcCallback, clientVars
  <2>. QED BY <2>1, AppGoes DEF PhaseInv, AppSteps
<1>2. CASE SetTag
  <2>1. Goes("app", "set tag", "idle") /\ UNCHANGED <<stage, opened>>
    BY <1>2 DEF SetTag, clientVars
  <2>. QED BY <2>1, AppGoes DEF PhaseInv, AppSteps
<1>3. CASE SetOpened
  <2>1. Goes("app", "opened", "idle") /\ stage' = "open"
    BY <1>3 DEF SetOpened
  <2>. QED BY <2>1, AppGoes DEF PhaseInv, AppSteps
<1>4. CASE ForgetUart
  <2>1. Goes("app", "closed", "forgotten") /\ UNCHANGED <<stage, opened>>
    BY <1>4 DEF ForgetUart
  <2>. QED BY <2>1, AppGoes DEF PhaseInv, AppSteps
<1>5. CASE ResetOpened
  <2>1. Goes("app", "forgotten", "idle") /\ stage' = "close"
    BY <1>5 DEF ResetOpened
  <2>. QED BY <2>1, AppGoes DEF PhaseInv, AppSteps
<1>6. CASE DeleteMutexes
  <2>1. Goes("app", "join", "idle") /\ stage' = "none" /\ UNCHANGED opened
        /\ pc["rx"] = "ended"
    BY <1>6 DEF DeleteMutexes, Joined, clientVars
  <2>2. pc'["app"] = "idle" /\ pc'["rx"] = "ended"
    BY <2>1, AppGoes DEF AppSteps
  <2>. QED BY <2>1, <2>2 DEF PhaseInv, Threads, ClientSteps
<1>. QED BY <1>1, <1>2, <1>3, <1>4, <1>5, <1>6 DEF AppStep

LEMMA PhaseOfCall ==
    ASSUME QuietInv, PhaseInv,
           ClientInit \/ UcxInit \/ OpenUart \/ CloseUart \/ Command \/ StopTask
    PROVE  PhaseInv'
<1>. USE DEF Moves, Goto, Goes
<1>1. CASE ClientInit
  <2>1. /\ stage = "none" /\ stage' = "init" /\ pc' = [pc EXCEPT !["rx"] = "loop"]
        /\ pc["app"] = "idle" /\ opened' = FALSE
    BY <1>1 DEF ClientInit
  <2>2. pc'["app"] = "idle" /\ pc'["rx"] = "loop"
    BY <2>1 DEF QuietInv, PcOK, Threads
  <2>. QED BY <2>1, <2>2 DEF PhaseInv, Threads, ClientSteps
<1>2. CASE UcxInit
  <2>1. /\ Goes("app", "idle", "set callback") /\ UNCHANGED opened
        /\ stage # "none" /\ stage' = IF stage = "init" THEN "ucx" ELSE stage
    BY <1>2 DEF UcxInit, clientVars
  <2>. QED BY <2>1, AppGoes DEF PhaseInv, AppSteps
<1>3. CASE OpenUart
  <2>1. Goes("app", "idle", "opened") /\ stage \in {"init", "ucx", "close"}
        /\ UNCHANGED <<stage, opened>>
    BY <1>3 DEF OpenUart
  <2>. QED BY <2>1, AppGoes DEF PhaseInv, AppSteps
<1>4. CASE CloseUart
  <2>1. Goes("app", "idle", "closed") /\ stage = "open" /\ UNCHANGED <<stage, opened>>
    BY <1>4 DEF CloseUart
  <2>. QED BY <2>1, AppGoes DEF PhaseInv, AppSteps
<1>5. CASE Command
  <2>1. Goes("app", "idle", "lock") /\ stage = "open" /\ UNCHANGED <<stage, opened>>
    BY <1>5 DEF Command, clientVars
  <2>2. "lock" \in Locations /\ "app" \in Threads
    BY DEF Locations, ClientSteps, Threads
  <2>3. pc'["app"] = "lock"
    BY <2>1, <2>2, GoesFacts DEF QuietInv
  <2>. QED BY <2>1, <2>3 DEF PhaseInv
<1>6. CASE StopTask
  <2>1. Goes("app", "idle", "join") /\ UNCHANGED <<stage, opened>>
    BY <1>6 DEF StopTask, clientVars
  <2>. QED BY <2>1, AppGoes DEF PhaseInv, AppSteps
<1>. QED BY <1>1, <1>2, <1>3, <1>4, <1>5, <1>6

\* A thread in the client's functions does not change the phase.
LEMMA PhaseStays ==
    ASSUME QuietInv, PhaseInv, UNCHANGED <<stage, opened>>, NEW t \in Threads,
           NEW from, NEW to \in Locations, Goes(t, from, to),
           to \in ClientSteps => stage \in {"open", "close"}
    PROVE  PhaseInv'
<1>1. /\ pc'[t] = to
      /\ \A u \in Threads \ {t} : pc'[u] = pc[u]
  BY GoesFacts DEF QuietInv
<1>. QED BY <1>1 DEF PhaseInv

LEMMA PhaseStep == QuietInv /\ PhaseInv /\ [Next]_vars => PhaseInv'
<1>. SUFFICES ASSUME QuietInv, PhaseInv, [Next]_vars PROVE PhaseInv'
  OBVIOUS
<1>1. CASE UNCHANGED <<pc, stage, opened>>
  BY <1>1 DEF PhaseInv
<1>2. CASE RxStep
  <2>1. PICK to \in {"ended", "check", "lock", "loop"} : Goes("rx", pc["rx"], to)
    BY <1>2 DEF RxStep, RxLoop, CheckOpened, Moves, Goto, Goes
  <2>2. UNCHANGED <<stage, opened>>
    BY <1>2 DEF RxStep, RxLoop, CheckOpened, clientVars
  <2>3. to \in ClientSteps => stage \in {"open", "close"}
    <3>1. pc' = [pc EXCEPT !["rx"] = to] /\ pc["rx"] \in {"loop", "check"}
      BY <1>2, <2>1 DEF RxStep, RxLoop, CheckOpened, Moves, Goes
    <3>2. pc'["rx"] = to /\ stage # "none"
      BY <3>1 DEF QuietInv, QuietAfterDeinit, PcOK, Threads
    <3>3. to = "lock" => opened
      BY <1>2, <3>1, <3>2 DEF RxStep, RxLoop, CheckOpened, Moves, Goto, QuietInv, PcOK, Threads
    <3>. QED BY <3>2, <3>3 DEF PhaseInv, ClientSteps
  <2>4. to \in Locations /\ "rx" \in Threads
    BY DEF Locations, RxSteps, ClientSteps, Threads
  <2>. QED BY <2>1, <2>2, <2>3, <2>4, PhaseStays
<1>3. ASSUME NEW t \in Threads, Step(t) \/ Lock(t)
      PROVE  PhaseInv'
  <2>1. PICK from \in ClientSteps, to \in ClientSteps \cup {After(t)} : Goes(t, from, to)
    BY <1>3, StepGoes
  <2>2. UNCHANGED <<stage, opened>>
    BY <1>3, StepGoes DEF ClientStays
  <2>3. stage \in {"open", "close"}
    BY <2>1 DEF PhaseInv, Goes
  <2>4. to \in Locations
    BY AfterFacts DEF Locations
  <2>. QED BY <2>1, <2>2, <2>3, <2>4, PhaseStays
<1>4. ASSUME NEW c \in Callbacks \cup {NoCallback},
             RegisterIdle(c) \/ \E t \in Threads : RegisterInCallback(t, c)
      PROVE  UNCHANGED <<pc, stage, opened>>
  BY <1>4 DEF RegisterIdle, RegisterInCallback, Register, taskVars, clientVars
<1>5. ASSUME NEW urc \in Urc, Send(urc)
      PROVE  UNCHANGED <<pc, stage, opened>>
  BY <1>5 DEF Send, taskVars, clientVars
<1>6. CASE UNCHANGED vars
  BY <1>1, <1>6 DEF vars, taskVars, clientVars
<1>. QED BY <1>1, <1>2, <1>3, <1>4, <1>5, <1>6, PhaseOfApp, PhaseOfCall DEF Next, AppCall

-----------------------------------------------------------------------------
(* Handing out URCs. *)

Draining == {"dequeue", "load tag", "parse", "check slot", "call", "callback", "remove"}

Loaded == [handle : BOOLEAN, callback : Callbacks \cup {NoCallback}]

LoadedOK == local \in [Threads -> Loaded] /\ slot \in Callbacks \cup {NoCallback} /\ tag \in BOOLEAN

\* The thread that holds dequeueMutex is the one that hands out a URC.
DrainInv == \A t \in Threads : pc[t] \in Draining <=> dequeuer = t

\* What was loaded from the slot is what is in it until the call.
SlotInv ==
    \A t \in Threads : pc[t] = "call" => local[t].callback = slot /\ slot # NoCallback

\* The steps outside of processUrcs() are of no concern to it.
Outside ==
    /\ UNCHANGED local
    /\ \A t \in Threads : pc'[t] = pc[t] \/ (pc[t] \notin Draining /\ pc'[t] \notin Draining)

LEMMA OutsideGoes ==
    ASSUME QuietInv, UNCHANGED local, NEW t \in Threads, NEW from, NEW to \in Locations,
           Goes(t, from, to), from \notin Draining, to \notin Draining
    PROVE  Outside
BY GoesFacts DEF Outside, QuietInv

LEMMA OutsideSteps ==
    ASSUME QuietInv,
           \/ AppStep \/ RxStep \/ ClientInit \/ UcxInit \/ OpenUart \/ CloseUart
           \/ Command \/ StopTask \/ \E t \in Threads : Lock(t)
    PROVE  Outside
<1>. USE DEF Moves, Goto, Goes, Draining
<1>1. AppSteps \subseteq Locations /\ RxSteps \subseteq Locations /\ ClientSteps \subseteq Locations
  BY DEF Locations
<1>2. "app" \in Threads /\ "rx" \in Threads
  BY DEF Threads
<1>3. CASE AppStep
  <2>1. /\ UNCHANGED local
        /\ \E from, to \in AppSteps : Goes("app", from, to)
    BY <1>3 DEF AppStep, SetUrcCallback, SetTag, SetOpened, ForgetUart, ResetOpened,
                DeleteMutexes, AppSteps
  <2>2. AppSteps \cap Draining = {}
    BY DEF AppSteps
  <2>. QED BY <1>1, <1>2, <2>1, <2>2, OutsideGoes
<1>4. CASE UcxInit \/ OpenUart \/ CloseUart \/ Command \/ StopTask
  <2>1. /\ UNCHANGED local
        /\ \E to \in AppSteps \cup {"lock"} : Goes("app", "idle", to)
    BY <1>4 DEF UcxInit, OpenUart, CloseUart, Command, StopTask, AppSteps
  <2>2. AppSteps \cap Draining = {} /\ "lock" \in ClientSteps
    BY DEF AppSteps, ClientSteps
  <2>. QED BY <1>1, <1>2, <2>1, <2>2, OutsideGoes
<1>5. CASE RxStep
  <2>1. /\ UNCHANGED local
        /\ \E from \in {"loop", "check"}, to \in {"ended", "check", "lock", "loop"} :
               Goes("rx", from, to)
    BY <1>5 DEF RxStep, RxLoop, CheckOpened
  <2>2. {"ended", "check", "lock", "loop"} \subseteq Locations
    BY DEF Locations, RxSteps, ClientSteps
  <2>. QED BY <1>2, <2>1, <2>2, OutsideGoes
<1>6. CASE ClientInit
  <2>1. UNCHANGED local /\ pc' = [pc EXCEPT !["rx"] = "loop"] /\ pc["rx"] \notin Draining
    BY <1>6 DEF ClientInit, QuietInv, QuietAfterDeinit
  <2>. QED BY <2>1 DEF Outside, QuietInv, PcOK
<1>7. ASSUME NEW t \in Threads, Lock(t)
      PROVE  Outside
  <2>1. UNCHANGED local /\ Goes(t, "lock", "read") /\ "read" \in Locations
    BY <1>7 DEF Lock, Locations, ClientSteps
  <2>. QED BY <2>1, OutsideGoes
<1>. QED BY <1>3, <1>4, <1>5, <1>6, <1>7

\* What the pointers are that threads load.
LEMMA LoadedStep == QuietInv /\ LoadedOK /\ [Next]_vars => LoadedOK'
<1>. SUFFICES ASSUME QuietInv, LoadedOK, [Next]_vars PROVE LoadedOK'
  OBVIOUS
<1>1. CASE UNCHANGED <<local, slot, tag>>
  BY <1>1 DEF LoadedOK
<1>2. CASE AppStep
  BY <1>2 DEF AppStep, SetUrcCallback, SetTag, SetOpened, ForgetUart, ResetOpened,
              DeleteMutexes, bindVars, LoadedOK
<1>3. CASE ClientInit \/ UcxInit \/ OpenUart \/ CloseUart \/ Command \/ StopTask
  BY <1>3 DEF ClientInit, UcxInit, OpenUart, CloseUart, Command, StopTask, bindVars, LoadedOK
<1>4. ASSUME NEW c \in Callbacks \cup {NoCallback},
             RegisterIdle(c) \/ \E t \in Threads : RegisterInCallback(t, c)
      PROVE  LoadedOK'
  BY <1>4 DEF RegisterIdle, RegisterInCallback, Register, taskVars, LoadedOK
<1>5. CASE RxStep \/ (\E t \in Threads : Lock(t)) \/ \E urc \in Urc : Send(urc)
  BY <1>1, <1>5 DEF RxStep, RxLoop, CheckOpened, Lock, Send, bindVars, taskVars
<1>6. ASSUME NEW t \in Threads, Step(t)
      PROVE  LoadedOK'
  <2>1. CASE LoadUart(t)
    BY <2>1 DEF LoadUart, LoadedOK, Loaded, bindVars
  <2>2. CASE LoadTag(t)
    BY <2>2 DEF LoadTag, LoadedOK, Loaded, bindVars
  <2>3. CASE CheckSlot(t)
    BY <2>3 DEF CheckSlot, LoadedOK, Loaded, bindVars
  <2>4. CASE CallSlot(t)
    BY <2>4 DEF CallSlot, LoadedOK, Loaded, bindVars
  <2>5. CASE Unlock(t) \/ Remove(t)
    <3>1. NothingLoaded \in Loaded
      BY DEF NothingLoaded, Loaded
    <3>2. local' = [local EXCEPT ![t] = NothingLoaded] /\ UNCHANGED <<slot, tag>>
      BY <2>5 DEF Unlock, Remove, bindVars
    <3>. QED BY <3>1, <3>2 DEF LoadedOK
  <2>6. CASE \/ ReadUart(t) \/ TryLock(t) \/ DequeueNone(t) \/ Dequeue(t)
             \/ Parse(t) \/ CallbackReturns(t)
    BY <1>1, <2>6 DEF ReadUart, TryLock, DequeueNone, Dequeue, Parse, CallbackReturns, bindVars
  <2>. QED BY <1>6, <2>1, <2>2, <2>3, <2>4, <2>5, <2>6 DEF Step
<1>7. CASE UNCHANGED vars
  BY <1>1, <1>7 DEF vars, taskVars, bindVars
<1>. QED BY <1>2, <1>3, <1>4, <1>5, <1>6, <1>7 DEF Next, AppCall

\* A step within processUrcs(), or within the rest, of a thread that keeps its lock.
LEMMA DrainStays ==
    ASSUME QuietInv, DrainInv, UNCHANGED dequeuer, NEW t \in Threads, NEW from,
           NEW to \in Locations, Goes(t, from, to), from \in Draining <=> to \in Draining
    PROVE  DrainInv'
BY GoesFacts DEF DrainInv, QuietInv

LEMMA DrainOfStep ==
    ASSUME QuietInv, DrainInv, NEW t \in Threads, Step(t)
    PROVE  DrainInv'
<1>. USE DEF Moves, Goto, Goes, Draining
<1>1. ClientSteps \subseteq Locations /\ Draining \subseteq ClientSteps
      /\ After(t) \in Locations /\ After(t) \notin ClientSteps
  BY AfterFacts DEF Locations, ClientSteps
<1>2. Nobody \notin Threads
  BY DEF Threads, Nobody
<1>3. CASE LoadUart(t) \/ ReadUart(t) \/ Unlock(t)
  <2>1. UNCHANGED dequeuer
        /\ \E from \in {"read", "use"}, to \in {"use", "read", "try"} : Goes(t, from, to)
    BY <1>3 DEF LoadUart, ReadUart, Unlock, urcVars
  <2>2. {"read", "use", "try"} \subseteq Locations
    BY DEF Locations, ClientSteps
  <2>. QED BY <2>1, <2>2, DrainStays
<1>4. CASE Dequeue(t) \/ LoadTag(t) \/ Parse(t) \/ CheckSlot(t) \/ CallSlot(t) \/ CallbackReturns(t)
  <2>1. UNCHANGED dequeuer
    BY <1>4 DEF Dequeue, LoadTag, Parse, CheckSlot, CallSlot, CallbackReturns, urcVars
  <2>2. \E from, to \in Draining : Goes(t, from, to)
    <3>1. CASE Dequeue(t)
      BY <3>1 DEF Dequeue
    <3>2. CASE LoadTag(t)
      BY <3>2 DEF LoadTag
    <3>3. CASE Parse(t)
      BY <3>3 DEF Parse
    <3>4. CASE CheckSlot(t)
      BY <3>4 DEF CheckSlot
    <3>5. CASE CallSlot(t)
      BY <3>5 DEF CallSlot
    <3>6. CASE CallbackReturns(t)
      BY <3>6 DEF CallbackReturns
    <3>. QED BY <1>4, <3>1, <3>2, <3>3, <3>4, <3>5, <3>6
  <2>. QED BY <1>1, <2>1, <2>2, DrainStays
<1>5. CASE TryLock(t)
  <2>1. CASE dequeuer = Nobody
    <3>1. Goes(t, "try", "dequeue") /\ dequeuer' = t
      BY <1>5, <2>1 DEF TryLock
    <3>2. \A u \in Threads : pc[u] \notin Draining
      BY <1>2, <2>1 DEF DrainInv
    <3>3. /\ pc'[t] = "dequeue" /\ \A u \in Threads \ {t} : pc'[u] = pc[u]
      BY <1>1, <3>1, GoesFacts DEF QuietInv
    <3>. QED BY <3>1, <3>2, <3>3 DEF DrainInv
  <2>2. CASE dequeuer # Nobody
    <3>1. Goes(t, "try", After(t)) /\ UNCHANGED dequeuer
      BY <1>5, <2>2 DEF TryLock
    <3>. QED BY <1>1, <3>1, DrainStays
  <2>. QED BY <2>1, <2>2
<1>6. CASE DequeueNone(t) \/ Remove(t)
  <2>1. dequeuer' = Nobody
        /\ \E from \in Draining, to \in {After(t), "try"} : Goes(t, from, to)
    BY <1>6 DEF DequeueNone, Remove
  <2>2. PICK from \in Draining, to \in {After(t), "try"} : Goes(t, from, to)
    BY <2>1
  <2>3. to \in Locations /\ to \notin Draining
    BY <1>1 DEF ClientSteps
  <2>4. /\ pc'[t] = to /\ pc[t] = from
        /\ \A u \in Threads \ {t} : pc'[u] = pc[u]
    BY <2>2, <2>3, GoesFacts DEF QuietInv
  <2>5. \A u \in Threads \ {t} : pc[u] \notin Draining
    BY <2>2, <2>4 DEF DrainInv
  <2>. QED BY <1>2, <2>1, <2>3, <2>4, <2>5 DEF DrainInv
<1>. QED BY <1>3, <1>4, <1>5, <1>6 DEF Step

LEMMA DrainStep == QuietInv /\ DrainInv /\ [Next]_vars => DrainInv'
<1>. SUFFICES ASSUME QuietInv, DrainInv, [Next]_vars PROVE DrainInv'
  OBVIOUS
<1>1. CASE UNCHANGED <<pc, dequeuer>>
  BY <1>1 DEF DrainInv
<1>2. CASE \/ AppStep \/ RxStep \/ UcxInit \/ OpenUart \/ CloseUart
           \/ Command \/ StopTask \/ \E t \in Threads : Lock(t)
  <2>1. UNCHANGED dequeuer
    BY <1>2 DEF AppStep, SetUrcCallback, SetTag, SetOpened, ForgetUart, ResetOpened,
                DeleteMutexes, RxStep, RxLoop, CheckOpened, UcxInit, OpenUart, CloseUart,
                Command, StopTask, Lock, urcVars
  <2>2. Outside
    BY <1>2, OutsideSteps
  <2>. QED BY <2>1, <2>2 DEF Outside, DrainInv
<1>3. CASE ClientInit
  <2>1. dequeuer' = Nobody /\ \A t \in Threads : pc[t] \notin Draining
    BY <1>3 DEF ClientInit, QuietInv, QuietAfterDeinit, Draining, Threads
  <2>2. Outside
    BY <1>3, OutsideSteps
  <2>. QED BY <2>1, <2>2 DEF Outside, DrainInv, Threads, Nobody
<1>4. ASSUME NEW c \in Callbacks \cup {NoCallback},
             RegisterIdle(c) \/ \E t \in Threads : RegisterInCallback(t, c)
      PROVE  UNCHANGED <<pc, dequeuer>>
  BY <1>4 DEF RegisterIdle, RegisterInCallback, Register, taskVars, urcVars
<1>5. ASSUME NEW urc \in Urc, Send(urc)
      PROVE  UNCHANGED <<pc, dequeuer>>
  BY <1>5 DEF Send, taskVars
<1>6. CASE UNCHANGED vars
  BY <1>1, <1>6 DEF vars, taskVars, urcVars
<1>. QED BY <1>1, <1>2, <1>3, <1>4, <1>5, <1>6, DrainOfStep DEF Next, AppCall

\* A step of a thread touches the pointers of that thread only.
LEMMA StepIsOwn ==
    ASSUME QuietInv, LoadedOK, NEW t \in Threads, Step(t)
    PROVE  \A u \in Threads \ {t} : pc'[u] = pc[u] /\ local'[u] = local[u]
<1>1. \A u \in Threads \ {t} : pc'[u] = pc[u]
  <2>1. PICK from \in ClientSteps, to \in ClientSteps \cup {After(t)} : Goes(t, from, to)
    BY StepGoes
  <2>2. to \in Locations
    BY AfterFacts DEF Locations
  <2>. QED BY <2>1, <2>2, GoesFacts DEF QuietInv
<1>2. \A u \in Threads \ {t} : local'[u] = local[u]
  BY DEF Step, LoadUart, ReadUart, Unlock, TryLock, DequeueNone, Dequeue, LoadTag, Parse,
         CheckSlot, CallSlot, CallbackReturns, Remove, LoadedOK
<1>. QED BY <1>1, <1>2

-----------------------------------------------------------------------------
(* The binding of the ucx API. *)

\* The steps of processUrcs() that a URC takes which is not dropped.
HandedOut == Draining \ {"dequeue", "remove"}

\* While it is not bound, no URC is handed out; once uCxInit() has returned, it is.
BindInv ==
    /\ urcCallback => tag \/ pc["app"] = "set tag"
    /\ \A t \in Threads : pc[t] \in HandedOut => urcCallback

\* Steps outside of processUrcs(), the callback being set or not as before.
LEMMA BindStays ==
    ASSUME BindInv, Outside, UNCHANGED <<urcCallback, tag>>, pc["app"] # "set tag"
    PROVE  BindInv'
BY DEF BindInv, Outside, HandedOut, Draining

LEMMA BindOfStep ==
    ASSUME QuietInv, BindInv, NEW t \in Threads, Step(t)
    PROVE  BindInv'
<1>. USE DEF Moves, Goto
<1>1. PICK from \in ClientSteps, to \in ClientSteps \cup {After(t)} : Goes(t, from, to)
  BY StepGoes
<1>2. to \in Locations
  BY AfterFacts DEF Locations
<1>3. /\ pc'[t] = to /\ pc[t] = from /\ \A u \in Threads \ {t} : pc'[u] = pc[u]
  BY <1>1, <1>2, GoesFacts DEF QuietInv
<1>4. UNCHANGED <<urcCallback, tag>>
  BY DEF Step, LoadUart, ReadUart, Unlock, TryLock, DequeueNone, Dequeue, LoadTag, Parse,
         CheckSlot, CallSlot, CallbackReturns, Remove, bindVars
<1>5. to \in HandedOut => from \in HandedOut \/ urcCallback
  <2>1. CASE Dequeue(t)
    <3>1. Goes(t, "dequeue", IF urcCallback THEN "load tag" ELSE "remove")
      BY <2>1 DEF Dequeue, Goes
    <3>2. pc'[t] = IF urcCallback THEN "load tag" ELSE "remove"
      BY <3>1 DEF Goes, QuietInv, PcOK
    <3>. QED BY <1>3, <3>2 DEF HandedOut
  <2>2. CASE LoadTag(t) \/ Parse(t) \/ CheckSlot(t) \/ CallSlot(t)
    BY <1>3, <2>2 DEF LoadTag, Parse, CheckSlot, CallSlot, HandedOut, Draining
  <2>3. CASE \/ LoadUart(t) \/ ReadUart(t) \/ Unlock(t) \/ TryLock(t) \/ DequeueNone(t)
             \/ CallbackReturns(t) \/ Remove(t)
    <3>1. \E l \in {"use", "read", "try", "dequeue", "remove", After(t)} : pc' = [pc EXCEPT ![t] = l]
      BY <2>3 DEF LoadUart, ReadUart, Unlock, TryLock, DequeueNone, CallbackReturns, Remove
    <3>2. pc'[t] \in {"use", "read", "try", "dequeue", "remove", After(t)}
      BY <3>1 DEF QuietInv, PcOK
    <3>. QED BY <1>3, <3>2, AfterFacts DEF HandedOut, Draining, ClientSteps
  <2>. QED BY <2>1, <2>2, <2>3 DEF Step
<1>6. \A u \in Threads : pc'[u] \in HandedOut => urcCallback
  BY <1>3, <1>5 DEF BindInv
<1>7. pc["app"] = "set tag" => pc'["app"] = "set tag"
  BY <1>3 DEF ClientSteps, Threads
<1>. QED BY <1>4, <1>6, <1>7 DEF BindInv

LEMMA BindStep == QuietInv /\ BindInv /\ [Next]_vars => BindInv'
<1>. SUFFICES ASSUME QuietInv, BindInv, [Next]_vars PROVE BindInv'
  OBVIOUS
<1>. USE DEF Moves, Goto
<1>1. CASE UNCHANGED <<pc, urcCallback, tag>>
  BY <1>1 DEF BindInv
<1>2. CASE \/ SetOpened \/ ForgetUart \/ ResetOpened \/ DeleteMutexes
           \/ UcxInit \/ OpenUart \/ CloseUart \/ Command \/ StopTask
  <2>1. UNCHANGED <<urcCallback, tag>> /\ pc["app"] # "set tag"
    BY <1>2 DEF SetOpened, ForgetUart, ResetOpened, DeleteMutexes, UcxInit, OpenUart,
                CloseUart, Command, StopTask, bindVars
  <2>2. Outside
    BY <1>2, OutsideSteps DEF AppStep
  <2>. QED BY <2>1, <2>2, BindStays
<1>3. CASE SetUrcCallback
  <2>1. urcCallback' /\ pc' = [pc EXCEPT !["app"] = "set tag"]
    BY <1>3 DEF SetUrcCallback
  <2>2. pc'["app"] = "set tag"
    BY <2>1 DEF QuietInv, PcOK, Threads
  <2>. QED BY <2>1, <2>2 DEF BindInv
<1>4. CASE SetTag
  <2>1. tag' /\ UNCHANGED urcCallback
    BY <1>4 DEF SetTag
  <2>2. Outside
    BY <1>4, OutsideSteps DEF AppStep
  <2>. QED BY <2>1, <2>2 DEF BindInv, Outside, HandedOut, Draining
<1>5. CASE ClientInit
  <2>1. ~urcCallback' /\ \A t \in Threads : pc[t] \notin HandedOut
    BY <1>5 DEF ClientInit, QuietInv, QuietAfterDeinit, HandedOut, Draining, Threads
  <2>2. Outside
    BY <1>5, OutsideSteps
  <2>. QED BY <2>1, <2>2 DEF BindInv, Outside, HandedOut
<1>6. ASSUME RxStep \/ \E t \in Threads : Lock(t)
      PROVE  BindInv'
  <2>1. UNCHANGED <<urcCallback, tag>>
    BY <1>6 DEF RxStep, RxLoop, CheckOpened, Lock, bindVars
  <2>2. Outside
    BY <1>6, OutsideSteps
  <2>3. pc'["app"] = pc["app"] \/ pc["app"] = "lock"
    BY <1>6 DEF RxStep, RxLoop, CheckOpened, Lock, QuietInv, PcOK, Threads
  <2>. QED BY <2>1, <2>2, <2>3 DEF BindInv, Outside, HandedOut, Draining
<1>7. ASSUME NEW c \in Callbacks \cup {NoCallback},
             RegisterIdle(c) \/ \E t \in Threads : RegisterInCallback(t, c)
      PROVE  UNCHANGED <<pc, urcCallback, tag>>
  BY <1>7 DEF RegisterIdle, RegisterInCallback, Register, taskVars
<1>8. ASSUME NEW urc \in Urc, Send(urc)
      PROVE  UNCHANGED <<pc, urcCallback, tag>>
  BY <1>8 DEF Send, taskVars, bindVars
<1>9. CASE UNCHANGED vars
  BY <1>1, <1>9 DEF vars, taskVars, bindVars
<1>. QED BY <1>1, <1>2, <1>3, <1>4, <1>5, <1>6, <1>7, <1>8, <1>9, BindOfStep
         DEF Next, AppCall, AppStep

LifeInv == QuietInv /\ PhaseInv /\ LoadedOK /\ DrainInv /\ BindInv

LEMMA LifeInit == Init => LifeInv
<1>. SUFFICES ASSUME Init PROVE LifeInv
  OBVIOUS
<1>1. QuietInv
  BY QuietInit
<1>2. /\ pc["app"] = "idle" /\ pc["rx"] = "none" /\ stage = "none" /\ ~opened
      /\ tag = FALSE /\ slot = NoCallback /\ local = [t \in Threads |-> NothingLoaded]
      /\ urcCallback = FALSE /\ dequeuer = Nobody
  BY DEF Init, Threads
<1>3. PhaseInv
  BY <1>2 DEF PhaseInv, Threads, ClientSteps
<1>4. LoadedOK
  <2>1. NothingLoaded \in Loaded
    BY DEF NothingLoaded, Loaded
  <2>. QED BY <1>2, <2>1 DEF LoadedOK
<1>5. DrainInv
  BY <1>2 DEF DrainInv, Draining, Threads, Nobody
<1>6. BindInv
  BY <1>2 DEF BindInv, HandedOut, Draining, Threads
<1>. QED BY <1>1, <1>3, <1>4, <1>5, <1>6 DEF LifeInv

LEMMA LifeStep == LifeInv /\ [Next]_vars => LifeInv'
BY QuietStep, PhaseStep, LoadedStep, DrainStep, BindStep DEF LifeInv

-----------------------------------------------------------------------------
(* The callback. *)

\* The slot changes while no one is about to call it: before the client has been
\* opened, while the ucx API is not bound, while it is empty, or in the callback of
\* the only thread that hands out a URC.
LEMMA SlotStep ==
    ASSUME ReplacesLate = FALSE
    PROVE  LifeInv /\ SlotInv /\ [Next]_vars => SlotInv'
<1>. SUFFICES ASSUME LifeInv, SlotInv, [Next]_vars PROVE SlotInv'
  OBVIOUS
<1>. USE DEF LifeInv
<1>1. CASE UNCHANGED <<pc, local, slot>>
  BY <1>1 DEF SlotInv
<1>2. CASE \/ AppStep \/ RxStep \/ ClientInit \/ OpenUart \/ CloseUart
           \/ Command \/ StopTask \/ \E t \in Threads : Lock(t)
  <2>1. Outside
    BY <1>2, OutsideSteps
  <2>2. UNCHANGED slot
    BY <1>2 DEF AppStep, SetUrcCallback, SetTag, SetOpened, ForgetUart, ResetOpened,
                DeleteMutexes, RxStep, RxLoop, CheckOpened, ClientInit, OpenUart, CloseUart,
                Command, StopTask, Lock, bindVars
  <2>. QED BY <2>1, <2>2 DEF Outside, SlotInv, Draining
<1>3. ASSUME Outside, \A t \in Threads : pc[t] # "call"
      PROVE  SlotInv'
  BY <1>3 DEF Outside, SlotInv, Draining
<1>4. CASE UcxInit
  <2>1. stage \in {"init", "ucx"} \/ ~urcCallback \/ slot = NoCallback
    BY <1>4 DEF UcxInit, Moves, BindInv
  <2>2. \A t \in Threads : pc[t] # "call"
    BY <2>1 DEF PhaseInv, BindInv, SlotInv, HandedOut, Draining, ClientSteps
  <2>. QED BY <1>3, <1>4, <2>2, OutsideSteps
<1>5. ASSUME NEW c \in Callbacks \cup {NoCallback}, RegisterIdle(c)
      PROVE  SlotInv'
  <2>1. (stage = "ucx" \/ slot = NoCallback) /\ UNCHANGED <<pc, local>>
    BY <1>5 DEF RegisterIdle, Register, taskVars
  <2>2. \A t \in Threads : pc[t] # "call"
    BY <2>1 DEF PhaseInv, SlotInv, ClientSteps
  <2>. QED BY <1>3, <2>1, <2>2 DEF Outside
<1>6. ASSUME NEW t \in Threads, NEW c \in Callbacks \cup {NoCallback}, RegisterInCallback(t, c)
      PROVE  SlotInv'
  <2>1. pc[t] = "callback" /\ UNCHANGED <<pc, local>>
    BY <1>6 DEF RegisterInCallback, Register, taskVars
  <2>2. \A u \in Threads : pc[u] # "call"
    BY <2>1 DEF DrainInv, Draining
  <2>. QED BY <2>1, <2>2 DEF SlotInv
<1>7. ASSUME NEW t \in Threads, Step(t)
      PROVE  SlotInv'
  <2>1. \A u \in Threads \ {t} : pc'[u] = pc[u] /\ local'[u] = local[u]
    BY <1>7, StepIsOwn
  <2>2. UNCHANGED slot
    BY <1>7, StepGoes DEF ClientStays
  <2>3. pc'[t] = "call" => local'[t].callback = slot /\ slot # NoCallback
    <3>1. CASE CheckSlot(t)
      <4>1. /\ local' = [local EXCEPT ![t].callback = slot]
            /\ pc' = [pc EXCEPT ![t] = IF local[t].handle /\ slot # NoCallback
                                         THEN "call" ELSE "remove"]
        BY <3>1 DEF CheckSlot, Moves, Goto
      <4>. QED BY <4>1 DEF LoadedOK, Loaded, QuietInv, PcOK
    <3>2. CASE ~CheckSlot(t)
      <4>1. \E to \in (ClientSteps \cup {After(t)}) \ {"call"} : pc' = [pc EXCEPT ![t] = to]
        BY <1>7, <3>2 DEF Step, LoadUart, ReadUart, Unlock, TryLock, DequeueNone, Dequeue, Parse,
                     LoadTag, CallSlot, CallbackReturns, Remove, Moves, Goto, After, ClientSteps
      <4>. QED BY <4>1 DEF QuietInv, PcOK
    <3>. QED BY <3>1, <3>2
  <2>. QED BY <2>1, <2>2, <2>3 DEF SlotInv
<1>8. ASSUME NEW urc \in Urc, Send(urc)
      PROVE  UNCHANGED <<pc, local, slot>>
  BY <1>8 DEF Send, taskVars, bindVars
<1>9. CASE UNCHANGED vars
  BY <1>1, <1>9 DEF vars, taskVars, bindVars
<1>. QED BY <1>1, <1>2, <1>4, <1>5, <1>6, <1>7, <1>8, <1>9 DEF Next, AppCall

\* A call leads to what is in the slot: it is what was found there.
LEMMA CallIsOfSlot ==
    LifeInv /\ SlotInv /\ [Next]_vars
      => [\A t \in Threads : pc[t] = "call" /\ pc'[t] = "callback"
             => local'[t].callback = slot /\ slot # NoCallback]_vars
<1>. SUFFICES ASSUME LifeInv, SlotInv, [Next]_vars, NEW t \in Threads,
                     pc[t] = "call", pc'[t] = "callback"
              PROVE  local'[t].callback = slot /\ slot # NoCallback
  OBVIOUS
<1>. USE DEF LifeInv
<1>1. CASE CallSlot(t)
  <2>1. PICK callback \in {slot, local[t].callback} :
            local' = [local EXCEPT ![t].callback = callback]
    BY <1>1 DEF CallSlot
  <2>2. local[t].callback = slot /\ slot # NoCallback
    BY DEF SlotInv
  <2>. QED BY <2>1, <2>2 DEF LoadedOK, Loaded
<1>2. CASE ~CallSlot(t) /\ Step(t)
  BY <1>2 DEF Step, LoadUart, ReadUart, Unlock, TryLock, DequeueNone, Dequeue, Parse,
              LoadTag, CheckSlot, CallbackReturns, Remove, Moves
<1>3. ASSUME NEW u \in Threads \ {t}, Step(u)
      PROVE  FALSE
  BY <1>3, StepIsOwn
<1>4. CASE \/ AppStep \/ RxStep \/ ClientInit \/ UcxInit \/ OpenUart \/ CloseUart
           \/ Command \/ StopTask \/ \E u \in Threads : Lock(u)
  BY <1>4, OutsideSteps DEF Outside, Draining
<1>5. CASE UNCHANGED pc
  BY <1>5
<1>6. ASSUME NEW c \in Callbacks \cup {NoCallback},
             RegisterIdle(c) \/ \E u \in Threads : RegisterInCallback(u, c)
      PROVE  UNCHANGED pc
  BY <1>6 DEF RegisterIdle, RegisterInCallback, Register, taskVars
<1>7. ASSUME NEW urc \in Urc, Send(urc)
      PROVE  UNCHANGED pc
  BY <1>7 DEF Send, taskVars
<1>8. CASE UNCHANGED vars
  BY <1>5, <1>8 DEF vars, taskVars
<1>. QED BY <1>1, <1>2, <1>3, <1>4, <1>5, <1>6, <1>7, <1>8 DEF Next, AppCall

\* In whatever order the application calls uCxInit() and uCxAtClientOpen(), and although
\* the slot is looked at twice: the callback that is called is registered at that moment,
\* if the application replaces and removes callbacks before the client is opened or in
\* callbacks. It may fill an empty slot at any time.
THEOREM CalledIsRegistered ==
    ASSUME ReplacesLate = FALSE
    PROVE  Spec => RegisteredIsCalled
<1>1. Init => SlotInv
  BY DEF Init, SlotInv, Threads
<1>. QED BY LifeInit, <1>1, LifeStep, SlotStep, CallIsOfSlot, PTL
         DEF Spec, RegisteredIsCalled

-----------------------------------------------------------------------------
(* Types. *)

TaskTypes ==
    /\ watched \in Urcs
    /\ stage \in {"none", "init", "ucx", "open", "close"}
    /\ terminate \in BOOLEAN /\ opened \in BOOLEAN
    /\ uart \in {"null", "open", "freed"}
    /\ cmdMutex \in Threads \cup {Nobody} /\ dequeuer \in Threads \cup {Nobody}
    /\ urcCallback \in BOOLEAN

LEMMA TaskTypesStep == TaskTypes /\ [Next]_vars => TaskTypes'
<1>. SUFFICES ASSUME TaskTypes, [Next]_vars PROVE TaskTypes'
  OBVIOUS
<1>. USE DEF TaskTypes, taskVars, clientVars, bindVars, urcVars, Threads
<1>1. CASE AppStep
  <2>1. CASE SetUrcCallback
    BY <2>1 DEF SetUrcCallback
  <2>2. CASE SetTag
    BY <2>2 DEF SetTag
  <2>3. CASE SetOpened
    BY <2>3 DEF SetOpened
  <2>4. CASE ForgetUart
    BY <2>4 DEF ForgetUart
  <2>5. CASE ResetOpened
    BY <2>5 DEF ResetOpened
  <2>6. CASE DeleteMutexes
    BY <2>6 DEF DeleteMutexes
  <2>. QED BY <1>1, <2>1, <2>2, <2>3, <2>4, <2>5, <2>6 DEF AppStep
<1>2. CASE ClientInit
  BY <1>2 DEF ClientInit
<1>3. CASE UcxInit
  BY <1>3 DEF UcxInit
<1>4. CASE OpenUart \/ CloseUart \/ Command \/ StopTask
  <2>1. CASE OpenUart
    BY <2>1 DEF OpenUart
  <2>2. CASE CloseUart
    BY <2>2 DEF CloseUart
  <2>3. CASE Command
    BY <2>3 DEF Command
  <2>4. CASE StopTask
    BY <2>4 DEF StopTask
  <2>. QED BY <1>4, <2>1, <2>2, <2>3, <2>4
<1>5. CASE RxStep
  <2>1. CASE RxLoop
    BY <2>1 DEF RxLoop
  <2>2. CASE CheckOpened
    BY <2>2 DEF CheckOpened
  <2>. QED BY <1>5, <2>1, <2>2 DEF RxStep
<1>6. ASSUME NEW c \in Callbacks \cup {NoCallback},
             RegisterIdle(c) \/ \E t \in Threads : RegisterInCallback(t, c)
      PROVE  TaskTypes'
  BY <1>6 DEF RegisterIdle, RegisterInCallback, Register
<1>7. ASSUME NEW t \in Threads, Lock(t) \/ LoadUart(t) \/ ReadUart(t) \/ Unlock(t)
      PROVE  TaskTypes'
  <2>1. CASE Lock(t)
    BY <2>1 DEF Lock
  <2>2. CASE LoadUart(t)
    BY <2>2 DEF LoadUart
  <2>3. CASE ReadUart(t)
    BY <2>3 DEF ReadUart
  <2>4. CASE Unlock(t)
    BY <2>4 DEF Unlock
  <2>. QED BY <1>7, <2>1, <2>2, <2>3, <2>4
<1>8. ASSUME NEW t \in Threads, TryLock(t) \/ DequeueNone(t) \/ Dequeue(t) \/ Remove(t)
      PROVE  TaskTypes'
  <2>1. CASE TryLock(t)
    BY <2>1 DEF TryLock
  <2>2. CASE DequeueNone(t)
    BY <2>2 DEF DequeueNone
  <2>3. CASE Dequeue(t)
    BY <2>3 DEF Dequeue
  <2>4. CASE Remove(t)
    BY <2>4 DEF Remove
  <2>. QED BY <1>8, <2>1, <2>2, <2>3, <2>4
<1>9. ASSUME NEW t \in Threads,
             LoadTag(t) \/ Parse(t) \/ CheckSlot(t) \/ CallSlot(t) \/ CallbackReturns(t)
      PROVE  TaskTypes'
  <2>1. CASE LoadTag(t)
    BY <2>1 DEF LoadTag
  <2>2. CASE Parse(t)
    BY <2>2 DEF Parse
  <2>3. CASE CheckSlot(t)
    BY <2>3 DEF CheckSlot
  <2>4. CASE CallSlot(t)
    BY <2>4 DEF CallSlot
  <2>5. CASE CallbackReturns(t)
    BY <2>5 DEF CallbackReturns
  <2>. QED BY <1>9, <2>1, <2>2, <2>3, <2>4, <2>5
<1>10. ASSUME NEW urc \in Urc, Send(urc)
       PROVE  TaskTypes'
  BY <1>10 DEF Send
<1>11. CASE UNCHANGED vars
  BY <1>11 DEF vars
<1>. QED BY <1>1, <1>2, <1>3, <1>4, <1>5, <1>6, <1>7, <1>8, <1>9, <1>10, <1>11
         DEF Next, AppCall, Step

\* The steps of processUrcs() that are about the first entry of the queue.
Holding == Draining \ {"dequeue"}

QueueTypes ==
    /\ input \in Seq(Urc) /\ urcs \in Seq(Urc) /\ sent \in 0 .. MaxUrcs
    /\ \A t \in Threads : pc[t] \in Holding => urcs # <<>>

\* The queue keeps its entries, and no thread comes to hold one.
LEMMA QueueStays ==
    ASSUME QueueTypes, UNCHANGED <<input, urcs, sent>>,
           \A t \in Threads : pc'[t] \in Holding => pc[t] \in Holding
    PROVE  QueueTypes'
BY DEF QueueTypes

LEMMA QueueOfStep ==
    ASSUME QuietInv, DrainInv, QueueTypes, NEW t \in Threads, Step(t)
    PROVE  QueueTypes'
<1>. USE DEF Moves, Goto, Goes
<1>1. PICK from \in ClientSteps, to \in ClientSteps \cup {After(t)} : Goes(t, from, to)
  BY StepGoes
<1>2. to \in Locations
  BY AfterFacts DEF Locations
<1>3. /\ pc'[t] = to /\ pc[t] = from /\ \A u \in Threads \ {t} : pc'[u] = pc[u]
  BY <1>1, <1>2, GoesFacts DEF QuietInv
<1>4. After(t) \notin Holding
  BY AfterFacts DEF Holding, Draining, ClientSteps
<1>5. CASE LoadUart(t) \/ Unlock(t) \/ DequeueNone(t)
  <2>1. /\ UNCHANGED <<input, urcs, sent>>
        /\ \E l \in {"use", "try", After(t)} : pc' = [pc EXCEPT ![t] = l]
    BY <1>5 DEF LoadUart, Unlock, DequeueNone, urcVars
  <2>2. pc'[t] \in {"use", "try", After(t)}
    BY <2>1 DEF QuietInv, PcOK
  <2>. QED BY <1>3, <1>4, <2>1, <2>2, QueueStays DEF Holding, Draining
<1>6. CASE TryLock(t)
  <2>1. /\ UNCHANGED <<input, urcs, sent>>
        /\ \E l \in {"dequeue", After(t)} : pc' = [pc EXCEPT ![t] = l]
    BY <1>6 DEF TryLock
  <2>2. pc'[t] \in {"dequeue", After(t)}
    BY <2>1 DEF QuietInv, PcOK
  <2>. QED BY <1>3, <1>4, <2>1, <2>2, QueueStays DEF Holding, Draining
<1>7. CASE LoadTag(t) \/ Parse(t) \/ CheckSlot(t) \/ CallSlot(t) \/ CallbackReturns(t)
  <2>1. /\ UNCHANGED <<input, urcs, sent>> /\ pc[t] \in Holding
    BY <1>7 DEF LoadTag, Parse, CheckSlot, CallSlot, CallbackReturns, urcVars, Holding, Draining
  <2>. QED BY <1>3, <2>1, QueueStays
<1>8. CASE Dequeue(t)
  <2>1. UNCHANGED <<input, urcs, sent>> /\ urcs # <<>>
    BY <1>8 DEF Dequeue, urcVars
  <2>. QED BY <2>1 DEF QueueTypes
<1>9. CASE ReadUart(t)
  <2>1. /\ input # <<>> /\ input' = Tail(input)
        /\ urcs' = Append(urcs, Head(input)) /\ UNCHANGED sent
    BY <1>9 DEF ReadUart
  <2>2. input \in Seq(Urc) /\ urcs \in Seq(Urc)
    BY DEF QueueTypes
  <2>3. input' \in Seq(Urc) /\ Head(input) \in Urc
    BY <2>1, <2>2, HeadTailProperties
  <2>4. urcs' \in Seq(Urc) /\ urcs' # <<>>
    BY <2>1, <2>2, <2>3, AppendProperties
  <2>. QED BY <2>1, <2>3, <2>4 DEF QueueTypes
<1>10. CASE Remove(t)
  <2>1. /\ pc[t] = "remove" /\ urcs' = Tail(urcs) /\ UNCHANGED <<input, sent>>
        /\ pc' = [pc EXCEPT ![t] = "try"]
    BY <1>10 DEF Remove
  <2>2. urcs \in Seq(Urc) /\ urcs # <<>>
    BY <2>1 DEF QueueTypes, Holding, Draining
  <2>3. urcs' \in Seq(Urc)
    BY <2>1, <2>2, HeadTailProperties
  <2>4. \A u \in Threads : pc'[u] \notin Holding
    <3>1. dequeuer = t
      BY <2>1 DEF DrainInv, Draining
    <3>2. pc'[t] = "try"
      BY <2>1 DEF QuietInv, PcOK
    <3>. QED BY <1>3, <3>1, <3>2 DEF DrainInv, Holding, Draining
  <2>. QED BY <2>1, <2>3, <2>4 DEF QueueTypes
<1>. QED BY <1>5, <1>6, <1>7, <1>8, <1>9, <1>10 DEF Step

LEMMA QueueTypesStep == QuietInv /\ DrainInv /\ QueueTypes /\ [Next]_vars => QueueTypes'
<1>. SUFFICES ASSUME QuietInv, DrainInv, QueueTypes, [Next]_vars PROVE QueueTypes'
  OBVIOUS
<1>0. Outside => \A t \in Threads : pc'[t] \in Holding => pc[t] \in Holding
  BY DEF Outside, Holding
<1>1. CASE UNCHANGED <<pc, input, urcs, sent>>
  BY <1>1 DEF QueueTypes
<1>2. CASE \/ AppStep \/ RxStep \/ UcxInit \/ CloseUart
           \/ Command \/ StopTask \/ \E t \in Threads : Lock(t)
  <2>1. UNCHANGED <<input, urcs, sent>>
    BY <1>2 DEF AppStep, SetUrcCallback, SetTag, SetOpened, ForgetUart, ResetOpened,
                DeleteMutexes, RxStep, RxLoop, CheckOpened, UcxInit, CloseUart,
                Command, StopTask, Lock, urcVars
  <2>. QED BY <1>0, <1>2, <2>1, OutsideSteps, QueueStays
<1>3. CASE OpenUart
  <2>1. input' = <<>> /\ UNCHANGED <<urcs, sent>>
    BY <1>3 DEF OpenUart
  <2>2. input' \in Seq(Urc)
    BY <2>1, EmptySeq
  <2>. QED BY <1>0, <1>3, <2>1, <2>2, OutsideSteps DEF QueueTypes
<1>4. CASE ClientInit
  <2>1. urcs' = <<>> /\ UNCHANGED <<input, sent>> /\ \A t \in Threads : pc[t] \notin Holding
    BY <1>4 DEF ClientInit, QuietInv, QuietAfterDeinit, Holding, Draining, Threads
  <2>2. urcs' \in Seq(Urc)
    BY <2>1, EmptySeq
  <2>. QED BY <1>0, <1>4, <2>1, <2>2, OutsideSteps DEF QueueTypes
<1>5. ASSUME NEW c \in Callbacks \cup {NoCallback},
             RegisterIdle(c) \/ \E t \in Threads : RegisterInCallback(t, c)
      PROVE  UNCHANGED <<pc, input, urcs, sent>>
  BY <1>5 DEF RegisterIdle, RegisterInCallback, Register, taskVars, urcVars
<1>6. ASSUME NEW urc \in Urc, Send(urc)
      PROVE  QueueTypes'
  <2>1. /\ sent < MaxUrcs /\ sent' = sent + 1 /\ input' = Append(input, urc)
        /\ UNCHANGED <<pc, urcs>>
    BY <1>6 DEF Send, taskVars
  <2>2. sent' \in 0 .. MaxUrcs
    BY <2>1, ConstantsAssumption DEF QueueTypes
  <2>3. input' \in Seq(Urc)
    BY <2>1, AppendProperties DEF QueueTypes
  <2>. QED BY <2>1, <2>2, <2>3 DEF QueueTypes
<1>7. CASE UNCHANGED vars
  BY <1>1, <1>7 DEF vars, taskVars, urcVars
<1>. QED BY <1>1, <1>2, <1>3, <1>4, <1>5, <1>6, <1>7, QueueOfStep DEF Next, AppCall

TypeInv == QuietInv /\ LoadedOK /\ DrainInv /\ TaskTypes /\ QueueTypes

LEMMA TypeInit == Init => TypeInv
<1>. SUFFICES ASSUME Init PROVE TypeInv
  OBVIOUS
<1>1. QuietInv /\ DrainInv /\ LoadedOK
  BY LifeInit DEF LifeInv
<1>3. TaskTypes
  BY DEF Init, TaskTypes
<1>4. /\ input = <<>> /\ urcs = <<>> /\ sent = 0
      /\ pc = [t \in Threads |-> IF t = "app" THEN "idle" ELSE "none"]
  BY DEF Init
<1>5. input \in Seq(Urc) /\ urcs \in Seq(Urc)
  BY <1>4, EmptySeq
<1>6. sent \in 0 .. MaxUrcs
  BY <1>4, ConstantsAssumption
<1>7. QueueTypes
  BY <1>4, <1>5, <1>6 DEF QueueTypes, Holding, Draining
<1>. QED BY <1>1, <1>3, <1>7 DEF TypeInv

\* The variables keep their types. This is more than it seems where the URC queue is
\* concerned: the entry that is removed after a callback is still there, although both
\* threads fill the queue and empty it, and the client is closed and opened meanwhile.
THEOREM Types == Spec => []TypeOK
<1>1. TypeInv /\ [Next]_vars => TypeInv'
  BY QuietStep, LoadedStep, DrainStep, TaskTypesStep, QueueTypesStep DEF TypeInv
<1>2. TypeInv => TypeOK
  BY DEF TypeInv, QuietInv, LoadedOK, Loaded, TaskTypes, QueueTypes, TypeOK
<1>. QED BY TypeInit, <1>1, <1>2, PTL DEF Spec
=============================================================================
