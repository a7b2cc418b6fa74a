------------------------ MODULE ApplicationLock_proof ------------------------
(***************************************************************************)
(* Proofs about ApplicationLock for any number of requests, keys, values   *)
(* and calls.                                                              *)
(***************************************************************************)
EXTENDS ApplicationLock, TLAPS

(***************************************************************************)
(* A request inside an access knows which one.                             *)
(***************************************************************************)
CallKnown ==
    \A s \in Servers : pc[s] \in InAccess \cup {"fallback"} => call[s] \in Calls

(***************************************************************************)
(* A careful request between its call and its map operation still owns the *)
(* lock it held when it asked: nobody else can take it away.               *)
(***************************************************************************)
CarefulHolds ==
    \A s \in Servers \ Careless :
        pc[s] \in InAccess /\ call[s].kind \in Mutators => Holds(s)

(***************************************************************************)
(* The ghost view belongs to the current locked section.                   *)
(***************************************************************************)
ViewOfHolder == \A s \in Servers : ~ Holds(s) => view[s] = NoView

LockInv == TypeOK /\ LockConsistent /\ NoLostWakeup

IInv == LockInv /\ CallKnown /\ CarefulHolds /\ ViewOfHolder /\ Isolation

------------------------------------------------------------------------------
(***************************************************************************)
(* The map operation keeps every cell a value.                             *)
(***************************************************************************)
LEMMA UpdatedType ==
    ASSUME TypeOK, NEW o \in Calls
    PROVE  Updated(o) \in [Cells -> Values]
BY DEF TypeOK, Updated, Calls, Values

(***************************************************************************)
(* Remembering the cells just read or written keeps the view well typed.   *)
(***************************************************************************)
LEMMA NotedType ==
    ASSUME TypeOK, NEW s \in Servers, NEW cs, store' \in [Cells -> Values]
    PROVE  Noted(s, cs) \in [Servers -> [Cells -> Values \cup {Unread}]]
BY DEF TypeOK, Noted

(***************************************************************************)
(* A fresh Application is unlocked and nobody waits.                       *)
(***************************************************************************)
LEMMA InitLockInv == Init => LockInv
<1> SUFFICES ASSUME Init PROVE LockInv
  OBVIOUS
<1>1. view \in [Servers -> [Cells -> Values \cup {Unread}]]
  BY DEF Init, NoView
<1>2. TypeOK
  BY <1>1, ApplicationAssumption DEF Init, TypeOK, Places
<1>3. LockConsistent
  <2>1. (lockCount > 0) = FALSE
    BY DEF Init
  <2>2. locked = FALSE /\ lockOwner = NoServer
    BY Zenon DEF Init
  <2>3. locked = (lockCount > 0)
    BY <2>1, <2>2, Zenon
  <2>4. lockCount > 0 <=> lockOwner # NoServer
    BY <2>1, <2>2, Zenon
  <2> QED BY <2>3, <2>4, Zenon DEF LockConsistent
<1>4. NoLostWakeup
  BY DEF Init, NoLostWakeup, Asleep
<1> QED BY <1>2, <1>3, <1>4 DEF LockInv

(***************************************************************************)
(* A broadcast wakes every sleeper and moves nobody into another call.     *)
(***************************************************************************)
LEMMA BroadcastType ==
    ASSUME TypeOK
    PROVE  /\ Broadcast \in [Servers -> Places]
           /\ \A t \in Servers : Broadcast[t] \notin Asleep
           /\ \A t \in Servers : Broadcast[t] \in InAccess => pc[t] \in InAccess
           /\ \A t \in Servers : Broadcast[t] = "fallback" => pc[t] = "fallback"
BY DEF TypeOK, Broadcast, Places, Asleep, InAccess

------------------------------------------------------------------------------
(***************************************************************************)
(* Typing, the agreement of owner, count and flag, and the absence of lost *)
(* wakeups are preserved by every step; they need CallKnown for the two    *)
(* steps that perform an access.                                           *)
(***************************************************************************)
LEMMA LockInvStep ==
    ASSUME LockInv, CallKnown, [Next]_vars
    PROVE  LockInv'
<1> USE ApplicationAssumption DEF LockInv
<1>1. ASSUME UNCHANGED vars PROVE LockInv'
  BY <1>1 DEF vars, TypeOK, LockConsistent, NoLostWakeup, Blocked
<1>2. ASSUME NEW s \in Servers, CallLock(s) PROVE LockInv'
  BY <1>2 DEF CallLock, lockVars, TypeOK, LockConsistent, NoLostWakeup, Blocked,
     Asleep, InAccess, Places
<1>3. ASSUME NEW s \in Servers, LockSleep(s) PROVE LockInv'
  BY <1>3 DEF LockSleep, lockVars, TypeOK, LockConsistent, NoLostWakeup, Blocked,
     Asleep, InAccess, Places
<1>4. ASSUME NEW s \in Servers, LockTake(s) PROVE LockInv'
  BY <1>4 DEF LockTake, TypeOK, LockConsistent, NoLostWakeup, Blocked,
     Asleep, InAccess, Places
<1>5. ASSUME NEW s \in Servers, Unlock(s) PROVE LockInv'
  <2>1. CASE UnlockIgnored(s)
    BY <1>5, <2>1 DEF Unlock, lockVars, TypeOK, LockConsistent, NoLostWakeup, Blocked
  <2>2. CASE ~ UnlockIgnored(s) /\ lockCount' = 0
    <3>1. TypeOK'
      BY <1>5, <2>2, BroadcastType DEF Unlock, UnlockIgnored, TypeOK, NoView
    <3>2. LockConsistent'
      BY <1>5, <2>2 DEF Unlock, UnlockIgnored, TypeOK, LockConsistent
    <3>3. NoLostWakeup'
      BY <1>5, <2>2, BroadcastType DEF Unlock, UnlockIgnored, NoLostWakeup
    <3> QED BY <3>1, <3>2, <3>3
  <2>3. CASE ~ UnlockIgnored(s) /\ lockCount' # 0
    BY <1>5, <2>3 DEF Unlock, UnlockIgnored, TypeOK, LockConsistent, NoLostWakeup, Blocked
  <2> QED BY <2>1, <2>2, <2>3
<1>6. ASSUME NEW s \in Servers, CallAccess(s) PROVE LockInv'
  BY <1>6 DEF CallAccess, lockVars, TypeOK, LockConsistent, NoLostWakeup, Blocked,
     Asleep, InAccess, Places
<1>7. ASSUME NEW s \in Servers, WaitSleep(s) PROVE LockInv'
  BY <1>7 DEF WaitSleep, lockVars, TypeOK, LockConsistent, NoLostWakeup, Blocked,
     Asleep, InAccess, Places
<1>8. ASSUME NEW s \in Servers, WaitPass(s) PROVE LockInv'
  BY <1>8 DEF WaitPass, lockVars, TypeOK, LockConsistent, NoLostWakeup, Blocked,
     Asleep, InAccess, Places
<1>9. ASSUME NEW s \in Servers, Apply(s) PROVE LockInv'
  <2>1. call[s] \in Calls
    BY <1>9 DEF Apply, CallKnown, InAccess
  <2>2. store' \in [Cells -> Values]
    BY <1>9, <2>1, UpdatedType DEF Apply
  <2>3. view' \in [Servers -> [Cells -> Values \cup {Unread}]]
    BY <1>9, <2>2, NotedType DEF Apply
  <2>4. TypeOK'
    BY <1>9, <2>2, <2>3 DEF Apply, lockVars, TypeOK, Places
  <2>5. LockConsistent' /\ NoLostWakeup'
    BY <1>9 DEF Apply, lockVars, TypeOK, LockConsistent, NoLostWakeup, Blocked, Asleep
  <2> QED BY <2>4, <2>5
<1>10. ASSUME NEW s \in Servers, Fallback(s) PROVE LockInv'
  <2>1. store' \in [Cells -> Values]
    BY <1>10 DEF Fallback, TypeOK
  <2>2. view' \in [Servers -> [Cells -> Values \cup {Unread}]]
    BY <1>10, <2>1, NotedType DEF Fallback
  <2>3. TypeOK'
    BY <1>10, <2>1, <2>2 DEF Fallback, lockVars, TypeOK, Places
  <2>4. LockConsistent' /\ NoLostWakeup'
    BY <1>10 DEF Fallback, lockVars, TypeOK, LockConsistent, NoLostWakeup, Blocked, Asleep
  <2> QED BY <2>3, <2>4
<1>11. ASSUME NEW s \in Servers, EndRequest(s) PROVE LockInv'
  BY <1>11 DEF EndRequest, lockVars, TypeOK, LockConsistent, NoLostWakeup, Blocked,
     Asleep, InAccess, Places
<1> QED
  BY <1>1, <1>2, <1>3, <1>4, <1>5, <1>6, <1>7, <1>8, <1>9, <1>10, <1>11
  DEF Next, Request

(***************************************************************************)
(* A request keeps the description of its access until it is done.         *)
(***************************************************************************)
LEMMA CallKnownStep ==
    ASSUME LockInv, CallKnown, [Next]_vars
    PROVE  CallKnown'
<1> USE DEF LockInv, CallKnown
<1>1. ASSUME NEW s \in Servers, Unlock(s) PROVE CallKnown'
  <2>1. call' = call /\ (pc' = pc \/ pc' = Broadcast)
    BY <1>1 DEF Unlock
  <2> QED BY <2>1, BroadcastType
<1>2. ASSUME NEW s \in Servers, Request(s), ~ Unlock(s) PROVE CallKnown'
  BY <1>2
  DEF Request, CallLock, LockSleep, LockTake, CallAccess, WaitSleep, WaitPass,
      Apply, Fallback, EndRequest, TypeOK, InAccess
<1> QED BY <1>1, <1>2 DEF Next, vars

(***************************************************************************)
(* The Application object is always consistent and never loses a wakeup,   *)
(* whatever the scripts do.                                                *)
(***************************************************************************)
THEOREM LockSafety == Spec => [](TypeOK /\ LockConsistent /\ NoLostWakeup)
<1>1. Init => LockInv /\ CallKnown
  BY InitLockInv DEF Init, CallKnown, InAccess
<1>2. LockInv /\ CallKnown /\ [Next]_vars => (LockInv /\ CallKnown)'
  BY LockInvStep, CallKnownStep
<1> QED BY <1>1, <1>2, PTL DEF Spec, LockInv

(***************************************************************************)
(* No sleeper is ever left without somebody who will wake it.              *)
(***************************************************************************)
THEOREM NeverLostWakeup == Spec => []NoLostWakeup
BY LockSafety, PTL

------------------------------------------------------------------------------
(***************************************************************************)
(* The owner of the lock changes only by its own Unlock, so a careful      *)
(* request keeps the lock from its call to its map operation.              *)
(***************************************************************************)
LEMMA CarefulHoldsStep ==
    ASSUME LockInv, CallKnown, CarefulHolds, [Next]_vars
    PROVE  CarefulHolds'
<1> USE DEF LockInv, CarefulHolds, Holds
<1>1. ASSUME NEW s \in Servers, Unlock(s) PROVE CarefulHolds'
  <2>1. CASE pc' = pc /\ UNCHANGED lockVars
    BY <1>1, <2>1 DEF Unlock, lockVars
  <2>2. CASE lockOwner = s /\ lockCount' = lockCount - 1 /\ lockOwner' = s /\ pc' = pc
    BY <1>1, <2>2 DEF Unlock, TypeOK, InAccess
  <2>3. CASE lockOwner = s /\ pc' = Broadcast
    <3>1. pc'[s] \notin InAccess
      BY <1>1, <2>3, BroadcastType DEF Unlock, InAccess
    <3>2. \A t \in Servers \ {s} : ~ Holds(t)
      BY <2>3
    <3> QED BY <1>1, <2>3, <3>1, <3>2, BroadcastType DEF Unlock
  <2>4. \/ pc' = pc /\ UNCHANGED lockVars
        \/ lockOwner = s /\ lockCount' = lockCount - 1 /\ lockOwner' = s /\ pc' = pc
           /\ lockCount' # 0
        \/ lockOwner = s /\ pc' = Broadcast
    BY <1>1 DEF Unlock, UnlockIgnored, lockVars, LockConsistent, TypeOK
  <2> QED BY <2>1, <2>2, <2>3, <2>4
<1>2. ASSUME NEW s \in Servers, LockTake(s) PROVE CarefulHolds'
  BY <1>2 DEF LockTake, Blocked, TypeOK, InAccess
<1>3. ASSUME NEW s \in Servers, CallAccess(s) PROVE CarefulHolds'
  BY <1>3 DEF CallAccess, MayAsk, lockVars, TypeOK, InAccess
<1>4. ASSUME NEW s \in Servers, Request(s), ~ Unlock(s), ~ LockTake(s), ~ CallAccess(s)
      PROVE CarefulHolds'
  BY <1>4
  DEF Request, CallLock, LockSleep, WaitSleep, WaitPass, Apply, Fallback,
      EndRequest, TypeOK, InAccess, lockVars
<1> QED BY <1>1, <1>2, <1>3, <1>4 DEF Next, vars, lockVars

(***************************************************************************)
(* A step that neither changes the maps nor the lock nor the view keeps    *)
(* what the holder knows.                                                  *)
(***************************************************************************)
LEMMA QuietStep ==
    ASSUME ViewOfHolder, Isolation, UNCHANGED <<lockOwner, lockCount, store, view>>
    PROVE  ViewOfHolder' /\ Isolation'
BY DEF ViewOfHolder, Isolation, Holds

(***************************************************************************)
(* With careful scripts only, every step keeps the locked sections         *)
(* isolated.                                                               *)
(***************************************************************************)
LEMMA IsolationStep ==
    ASSUME Careless = {}, IInv, [Next]_vars
    PROVE  ViewOfHolder' /\ Isolation'
<1> USE DEF IInv, LockInv
<1>1. ASSUME NEW s \in Servers, LockTake(s) PROVE ViewOfHolder' /\ Isolation'
  <2>1. CASE Holds(s)
    BY <1>1, <2>1 DEF LockTake, ViewOfHolder, Isolation, Holds, TypeOK
  <2>2. CASE ~ Holds(s)
    <3>1. lockCount = 0 /\ \A t \in Servers : view[t] = NoView
      BY <1>1, <2>2 DEF LockTake, Blocked, Holds, TypeOK, ViewOfHolder
    <3> QED BY <1>1, <3>1 DEF LockTake, ViewOfHolder, Isolation, NoView
  <2> QED BY <2>1, <2>2
<1>2. ASSUME NEW s \in Servers, Unlock(s) PROVE ViewOfHolder' /\ Isolation'
  <2>1. CASE UnlockIgnored(s)
    BY <1>2, <2>1, QuietStep DEF Unlock, lockVars
  <2>2. CASE ~ UnlockIgnored(s) /\ lockCount' = 0
    <3>1. lockOwner = s
      BY <1>2, <2>2 DEF UnlockIgnored, LockConsistent, TypeOK
    <3>2. view' = [view EXCEPT ![s] = NoView]
      BY <1>2, <2>2 DEF Unlock
    <3>3. \A t \in Servers : view'[t] = NoView
      BY <3>1, <3>2 DEF ViewOfHolder, Holds, TypeOK
    <3> QED BY <2>2, <3>3 DEF ViewOfHolder, Isolation, Holds
  <2>3. CASE ~ UnlockIgnored(s) /\ lockCount' # 0
    BY <1>2, <2>3 DEF Unlock, UnlockIgnored, ViewOfHolder, Isolation, Holds, TypeOK
  <2> QED BY <2>1, <2>2, <2>3
<1>3. ASSUME NEW s \in Servers, Apply(s) PROVE ViewOfHolder' /\ Isolation'
  <2> DEFINE o == call[s]
  <2>1. o \in Calls /\ (o.kind \in Mutators => Holds(s))
    BY <1>3 DEF Apply, CallKnown, CarefulHolds, InAccess
  <2>2. \A c \in Cells : c \notin Touched(o) => Updated(o)[c] = store[c]
    BY <2>1 DEF Updated, Touched, Calls
  <2>3. o.kind \notin Mutators => store' = store
    BY <1>3, <2>1 DEF Apply, Updated, Mutators, TypeOK
  <2>4. UNCHANGED <<lockOwner, lockCount>> /\ store' = Updated(o)
    BY <1>3 DEF Apply, lockVars
  <2>5. CASE Holds(s)
    <3>1. view' = [view EXCEPT ![s] = [c \in Cells |->
                      IF c \in Touched(o) THEN store'[c] ELSE view[s][c]]]
      BY <1>3, <2>5 DEF Apply, Noted, TypeOK
    <3>2. ViewOfHolder'
      BY <2>4, <2>5, <3>1 DEF ViewOfHolder, Holds, TypeOK
    <3>3. Isolation'
      BY <2>2, <2>4, <2>5, <3>1 DEF Isolation, Holds, TypeOK
    <3> QED BY <3>2, <3>3
  <2>6. CASE ~ Holds(s)
    BY <1>3, <2>1, <2>3, <2>4, <2>6, QuietStep DEF Apply, Noted
  <2> QED BY <2>5, <2>6
<1>4. ASSUME NEW s \in Servers, Fallback(s) PROVE ViewOfHolder' /\ Isolation'
  <2>1. CASE Holds(s)
    <3> DEFINE b == <<"static", call[s].cell[2]>>
    <3>1. view' = [view EXCEPT ![s] = [c \in Cells |->
                      IF c \in {b} THEN store'[c] ELSE view[s][c]]]
      BY <1>4, <2>1 DEF Fallback, Noted, TypeOK
    <3> HIDE DEF b
    <3>2. UNCHANGED <<lockOwner, lockCount, store>>
      BY <1>4 DEF Fallback, lockVars
    <3>3. ViewOfHolder'
      BY <2>1, <3>1, <3>2 DEF ViewOfHolder, Holds, TypeOK
    <3>4. Isolation'
      BY <2>1, <3>1, <3>2 DEF Isolation, Holds, TypeOK
    <3> QED BY <3>3, <3>4
  <2>2. CASE ~ Holds(s)
    BY <1>4, <2>2, QuietStep DEF Fallback, Noted, lockVars
  <2> QED BY <2>1, <2>2
<1>5. ASSUME NEW s \in Servers, Request(s),
             ~ LockTake(s), ~ Unlock(s), ~ Apply(s), ~ Fallback(s)
      PROVE ViewOfHolder' /\ Isolation'
  BY <1>5, QuietStep
  DEF Request, CallLock, LockSleep, CallAccess, WaitSleep, WaitPass, EndRequest, lockVars
<1> QED BY <1>1, <1>2, <1>3, <1>4, <1>5, QuietStep DEF Next, vars

(***************************************************************************)
(* If every script writes under Application.Lock, a locked section is      *)
(* isolated: what the holder read stays true until it unlocks.             *)
(***************************************************************************)
THEOREM LockedSectionsIsolated ==
    ASSUME Careless = {}
    PROVE  Spec => []Isolation
<1>1. Init => IInv
  BY InitLockInv
  DEF Init, IInv, CallKnown, CarefulHolds, ViewOfHolder, Isolation, InAccess, Holds
<1>2. IInv /\ [Next]_vars => IInv'
  BY LockInvStep, CallKnownStep, CarefulHoldsStep, IsolationStep DEF IInv
<1>3. IInv => Isolation
  BY DEF IInv
<1> QED BY <1>1, <1>2, <1>3, PTL DEF Spec

------------------------------------------------------------------------------
(***************************************************************************)
(* The initial states of the Application are initial monitors.             *)
(***************************************************************************)
LEMMA InitRefines == Init => Monitor!Init
BY DEF Init, Monitor!Init

(***************************************************************************)
(* With careful scripts only, every step is a step of the monitor or       *)
(* leaves it alone: the map operation of a mutator is a change by the      *)
(* owner, every other access changes nothing.                              *)
(***************************************************************************)
LEMMA StepRefines ==
    ASSUME Careless = {}, IInv, [Next]_vars
    PROVE  [Monitor!Next]_(Monitor!vars)
<1> USE DEF IInv, LockInv, Monitor!vars
<1>1. ASSUME NEW s \in Servers, LockTake(s) PROVE Monitor!Enter(s)
  BY <1>1, ApplicationAssumption
  DEF LockTake, Blocked, Monitor!Enter, TypeOK, LockConsistent
<1>2. ASSUME NEW s \in Servers, Unlock(s)
      PROVE Monitor!Leave(s) \/ UNCHANGED Monitor!vars
  <2>1. CASE UnlockIgnored(s)
    BY <1>2, <2>1 DEF Unlock, lockVars
  <2>2. CASE ~ UnlockIgnored(s)
    BY <1>2, <2>2 DEF Unlock, UnlockIgnored, Monitor!Leave, TypeOK, LockConsistent
  <2> QED BY <2>1, <2>2
<1>3. ASSUME NEW s \in Servers, Apply(s)
      PROVE Monitor!Change(s) \/ UNCHANGED Monitor!vars
  <2>1. call[s] \in Calls /\ (call[s].kind \in Mutators => Holds(s))
    BY <1>3 DEF Apply, CallKnown, CarefulHolds, InAccess
  <2>2. UNCHANGED <<lockOwner, lockCount>> /\ store' = Updated(call[s])
    BY <1>3 DEF Apply, lockVars
  <2>3. CASE call[s].kind \in Mutators
    BY <2>1, <2>2, <2>3, UpdatedType DEF Holds, Monitor!Change
  <2>4. CASE call[s].kind \notin Mutators
    BY <2>1, <2>2, <2>4 DEF Updated, Mutators, TypeOK
  <2> QED BY <2>3, <2>4
<1>4. ASSUME NEW s \in Servers, Request(s), ~ LockTake(s), ~ Unlock(s), ~ Apply(s)
      PROVE UNCHANGED Monitor!vars
  BY <1>4
  DEF Request, CallLock, LockSleep, CallAccess, WaitSleep, WaitPass, Fallback,
      EndRequest, lockVars
<1> QED BY <1>1, <1>2, <1>3, <1>4 DEF Next, vars, Monitor!Next

(***************************************************************************)
(* With careful scripts only, the Application object implements the        *)
(* monitor its manual describes.                                           *)
(***************************************************************************)
THEOREM MonitorRefinement ==
    ASSUME Careless = {}
    PROVE  Spec => ImplementsMonitor
<1>1. Init => IInv
  BY InitLockInv
  DEF Init, IInv, CallKnown, CarefulHolds, ViewOfHolder, Isolation, InAccess, Holds
<1>2. IInv /\ [Next]_vars => IInv'
  BY LockInvStep, CallKnownStep, CarefulHoldsStep, IsolationStep DEF IInv
<1>3. IInv /\ [Next]_vars => [Monitor!Next]_(Monitor!vars)
  BY StepRefines
<1> QED BY <1>1, <1>2, <1>3, InitRefines, PTL DEF Spec, ImplementsMonitor, Monitor!Spec

(***************************************************************************)
(* The lock changes hands only through its owner's own outermost Unlock,   *)
(* whatever the scripts do.                                                *)
(***************************************************************************)
THEOREM LockHandover == Spec => Handover
<1> DEFINE Step == lockOwner' # lockOwner =>
                      \/ lockOwner = NoServer /\ lockCount' = 1
                      \/ /\ lockOwner' = NoServer
                         /\ lockCount = 1
                         /\ budget'[lockOwner] = budget[lockOwner] - 1
<1>1. ASSUME LockInv, [Next]_vars PROVE Step
  <2> USE DEF LockInv
  <2>1. ASSUME NEW s \in Servers, LockTake(s) PROVE Step
    BY <1>1, <2>1 DEF LockTake, Blocked, TypeOK, LockConsistent
  <2>2. ASSUME NEW s \in Servers, Unlock(s) PROVE Step
    BY <1>1, <2>2 DEF Unlock, UnlockIgnored, lockVars, TypeOK, LockConsistent
  <2>3. ASSUME NEW s \in Servers, Request(s), ~ LockTake(s), ~ Unlock(s) PROVE Step
    BY <2>3
    DEF Request, CallLock, LockSleep, CallAccess, WaitSleep, WaitPass, Apply,
        Fallback, EndRequest, lockVars
  <2> QED BY <1>1, <2>1, <2>2, <2>3 DEF Next, vars
<1>2. LockInv /\ [Next]_vars => [Step]_vars
  BY <1>1
<1>3. Spec => []LockInv
  BY LockSafety DEF LockInv
<1> QED BY <1>2, <1>3, PTL DEF Spec, Handover

==============================================================================
