--------------------------- MODULE ApplicationLock ---------------------------
(***************************************************************************)
(* The Application object shared by every request of the server            *)
(* (axonvm/asp/application.go) together with the way the virtual machine   *)
(* dispatches script calls to it (axonvm/vm.go, nativeObjectApplication).  *)
(*                                                                         *)
(* A request is identified by its *asp.Server object.  Application.Lock    *)
(* is a reentrant lock kept by hand: a count, an owner and a condition     *)
(* variable, all protected by stateMu.  The two maps Contents and          *)
(* StaticObjects are protected by a second mutex.  A script access first   *)
(* calls WaitForServer (under stateMu) and then, as a separate critical    *)
(* section, the map operation: the two steps are two actions here.         *)
(***************************************************************************)
EXTENDS Integers

CONSTANTS
    Servers,    \* the requests, each named by its *asp.Server
    NoServer,   \* a nil lockOwner
    Keys,       \* normalised (lower case) keys
    Vals,       \* stored ApplicationValues
    Absent,     \* a key that is not in the map
    NoCall,     \* no access asked for yet
    Unread,     \* ghost: not read in the current locked section
    Careless,   \* the requests whose script writes without Application.Lock
    MaxCalls    \* bound: calls one script makes on the Application object

ASSUME ApplicationAssumption ==
    /\ NoServer \notin Servers
    /\ Absent \notin Vals
    /\ Unread \notin Vals \cup {Absent}
    /\ Careless \subseteq Servers
    /\ MaxCalls \in Nat

Collections == {"contents", "static"}
Cells == Collections \X Keys
Values == Vals \cup {Absent}

VARIABLES
    lockOwner,  \* Application.lockOwner
    lockCount,  \* Application.lockCount
    locked,     \* Application.locked
    store,      \* Application.contents and Application.staticObjects
    pc,         \* where each request stands in its current call
    call,       \* the access each request has asked for
    budget,     \* calls each script may still make
    view        \* ghost: what the holder last read or wrote under its lock

lockVars == <<lockOwner, lockCount, locked>>
vars == <<lockOwner, lockCount, locked, store, pc, call, budget, view>>

Mutators == {"Set", "Remove", "RemoveAll"}
Readers == {"Get", "Lookup", "Copy"}

(***************************************************************************)
(* "Get" is Application(key): Contents first, then StaticObjects.          *)
(* "Lookup" reads one collection only (Contents.Item, StaticObjects.Item,  *)
(* Exists); "Copy" is any call that takes a snapshot of a collection       *)
(* (Count, Key, Keys).                                                     *)
(***************************************************************************)
Calls == [kind : Mutators \cup Readers, cell : Cells, val : Vals]

Asleep == {"lockWait", "accessWait"}
InAccess == {"access", "accessWait", "clear"}
Places == {"run", "lock", "fallback", "ended"} \cup Asleep \cup InAccess

(***************************************************************************)
(* The loop condition of LockForServer and WaitForServer.                  *)
(***************************************************************************)
Blocked(s) == lockCount > 0 /\ lockOwner # s

Holds(s) == lockCount > 0 /\ lockOwner = s

NoView == [c \in Cells |-> Unread]

(***************************************************************************)
(* global.asa has filled StaticObjects before the first request.           *)
(***************************************************************************)
Init ==
    /\ lockOwner = NoServer
    /\ lockCount = 0
    /\ locked = FALSE
    /\ store \in [Cells -> Values]
    /\ \A c \in Cells : c[1] = "contents" => store[c] = Absent
    /\ pc = [s \in Servers |-> "run"]
    /\ call = [s \in Servers |-> NoCall]
    /\ budget = [s \in Servers |-> MaxCalls]
    /\ view = [s \in Servers |-> NoView]

------------------------------------------------------------------------------
(***************************************************************************)
(* Application.Lock.  The script enters LockForServer; the loop either     *)
(* puts the request to sleep on stateCond or takes one more nesting level. *)
(***************************************************************************)
CallLock(s) ==
    /\ pc[s] = "run"
    /\ budget[s] > 0
    /\ budget' = [budget EXCEPT ![s] = @ - 1]
    /\ pc' = [pc EXCEPT ![s] = "lock"]
    /\ UNCHANGED <<lockVars, store, call, view>>

LockSleep(s) ==
    /\ pc[s] = "lock"
    /\ Blocked(s)
    /\ pc' = [pc EXCEPT ![s] = "lockWait"]
    /\ UNCHANGED <<lockVars, store, call, budget, view>>

(***************************************************************************)
(* Faulty variant: the loop condition is not tested.                       *)
(***************************************************************************)
LockTakeUnchecked(s) ==
    /\ pc[s] = "lock"
    /\ lockOwner' = s
    /\ lockCount' = lockCount + 1
    /\ locked' = (lockCount' > 0)
    /\ pc' = [pc EXCEPT ![s] = "run"]
    /\ UNCHANGED <<store, call, budget, view>>

LockTake(s) ==
    /\ pc[s] = "lock"
    /\ ~ Blocked(s)
    /\ lockOwner' = s
    /\ lockCount' = lockCount + 1
    /\ locked' = (lockCount' > 0)
    /\ pc' = [pc EXCEPT ![s] = "run"]
    /\ UNCHANGED <<store, call, budget, view>>

(***************************************************************************)
(* Faulty variant: only the requests inside LockForServer are woken.       *)
(***************************************************************************)
BroadcastToLockers ==
    [t \in Servers |-> IF pc[t] = "lockWait" THEN "lock" ELSE pc[t]]

(***************************************************************************)
(* stateCond.Broadcast: every sleeper goes back to its loop condition.     *)
(***************************************************************************)
Broadcast ==
    [t \in Servers |-> CASE pc[t] = "lockWait" -> "lock"
                         [] pc[t] = "accessWait" -> "access"
                         [] OTHER -> pc[t]]

(***************************************************************************)
(* Application.Unlock: ignored when nothing is locked or when another      *)
(* request owns the lock; the outermost level clears the owner and wakes   *)
(* every sleeper.  The variants drop the owner test and the reset of the   *)
(* owner.                                                                  *)
(***************************************************************************)
UnlockIgnoredCountOnly(s) == lockCount = 0

UnlockIgnored(s) == lockCount = 0 \/ (lockOwner # NoServer /\ lockOwner # s)

UnlockKeepingOwner(s) ==
    /\ pc[s] = "run"
    /\ budget[s] > 0
    /\ budget' = [budget EXCEPT ![s] = @ - 1]
    /\ IF UnlockIgnored(s)
       THEN UNCHANGED <<lockVars, pc, view>>
       ELSE /\ lockCount' = lockCount - 1
            /\ locked' = (lockCount' > 0)
            /\ lockOwner' = lockOwner
            /\ pc' = IF lockCount' = 0 THEN Broadcast ELSE pc
            /\ view' = view
    /\ UNCHANGED <<store, call>>

Unlock(s) ==
    /\ pc[s] = "run"
    /\ budget[s] > 0
    /\ budget' = [budget EXCEPT ![s] = @ - 1]
    /\ IF UnlockIgnored(s)
       THEN UNCHANGED <<lockVars, pc, view>>
       ELSE /\ lockCount' = lockCount - 1
            /\ locked' = (lockCount' > 0)
            /\ IF lockCount' = 0
               THEN /\ lockOwner' = NoServer
                    /\ pc' = Broadcast
                    /\ view' = [view EXCEPT ![s] = NoView]
               ELSE UNCHANGED <<lockOwner, pc, view>>
    /\ UNCHANGED <<store, call>>

------------------------------------------------------------------------------
(***************************************************************************)
(* An access of the script.  A careful script changes the Application only *)
(* between Lock and Unlock; a careless one writes whenever it likes.       *)
(***************************************************************************)
MayAsk(s, o) == o.kind \in Mutators => s \in Careless \/ Holds(s)

CallAccess(s) ==
    /\ pc[s] = "run"
    /\ budget[s] > 0
    /\ \E o \in Calls :
          /\ MayAsk(s, o)
          /\ o.kind \in {"Get", "Remove", "RemoveAll"} => o.cell[1] = "contents"
          /\ call' = [call EXCEPT ![s] = o]
    /\ budget' = [budget EXCEPT ![s] = @ - 1]
    /\ pc' = [pc EXCEPT ![s] = "access"]
    /\ UNCHANGED <<lockVars, store, view>>

(***************************************************************************)
(* WaitForServer: sleep while another request owns the lock, then return,  *)
(* which releases stateMu.                                                 *)
(***************************************************************************)
WaitSleep(s) ==
    /\ pc[s] = "access"
    /\ Blocked(s)
    /\ pc' = [pc EXCEPT ![s] = "accessWait"]
    /\ UNCHANGED <<lockVars, store, call, budget, view>>

WaitPass(s) ==
    /\ pc[s] = "access"
    /\ ~ Blocked(s)
    /\ pc' = [pc EXCEPT ![s] = "clear"]
    /\ UNCHANGED <<lockVars, store, call, budget, view>>

(***************************************************************************)
(* The map operation, in its own critical section under Application.mutex. *)
(***************************************************************************)
Updated(o) ==
    [c \in Cells |->
        CASE o.kind = "Set" /\ c = o.cell -> o.val
          [] o.kind = "Remove" /\ c = o.cell -> Absent
          [] o.kind = "RemoveAll" /\ c[1] = o.cell[1] -> Absent
          [] OTHER -> store[c]]

Touched(o) ==
    IF o.kind \in {"RemoveAll", "Copy"}
    THEN {c \in Cells : c[1] = o.cell[1]}
    ELSE {o.cell}

(***************************************************************************)
(* What the holder knows after it read or wrote the cells cs.              *)
(***************************************************************************)
Noted(s, cs) ==
    IF Holds(s)
    THEN [view EXCEPT ![s] = [c \in Cells |->
                                 IF c \in cs THEN store'[c] ELSE @[c]]]
    ELSE view

Apply(s) ==
    /\ pc[s] = "clear"
    /\ store' = Updated(call[s])
    /\ view' = Noted(s, Touched(call[s]))
    /\ pc' = [pc EXCEPT ![s] =
                 IF call[s].kind = "Get" /\ store[call[s].cell] = Absent
                 THEN "fallback" ELSE "run"]
    /\ call' = IF pc'[s] = "run" THEN [call EXCEPT ![s] = NoCall] ELSE call
    /\ UNCHANGED <<lockVars, budget>>

(***************************************************************************)
(* The second lookup of Application(key), in StaticObjects.                *)
(***************************************************************************)
Fallback(s) ==
    /\ pc[s] = "fallback"
    /\ store' = store
    /\ view' = Noted(s, {<<"static", call[s].cell[2]>>})
    /\ pc' = [pc EXCEPT ![s] = "run"]
    /\ call' = [call EXCEPT ![s] = NoCall]
    /\ UNCHANGED <<lockVars, budget>>

(***************************************************************************)
(* The script ends.  Nothing at the end of a request gives the lock back.  *)
(***************************************************************************)
EndRequest(s) ==
    /\ pc[s] = "run"
    /\ pc' = [pc EXCEPT ![s] = "ended"]
    /\ UNCHANGED <<lockVars, store, call, budget, view>>

Request(s) ==
    \/ CallLock(s) \/ LockSleep(s) \/ LockTake(s)
    \/ Unlock(s)
    \/ CallAccess(s) \/ WaitSleep(s) \/ WaitPass(s)
    \/ Apply(s) \/ Fallback(s)
    \/ EndRequest(s)

Next == \E s \in Servers : Request(s)

Spec == Init /\ [][Next]_vars

(***************************************************************************)
(* A goroutine that can run does run, and a script ends: the VM stops it   *)
(* at its script timeout.                                                  *)
(***************************************************************************)
FairSpec == Spec /\ \A s \in Servers : WF_vars(Request(s))

------------------------------------------------------------------------------
TypeOK ==
    /\ lockOwner \in Servers \cup {NoServer}
    /\ lockCount \in Nat
    /\ locked \in BOOLEAN
    /\ store \in [Cells -> Values]
    /\ pc \in [Servers -> Places]
    /\ call \in [Servers -> Calls \cup {NoCall}]
    /\ budget \in [Servers -> Nat]
    /\ view \in [Servers -> [Cells -> Values \cup {Unread}]]

(***************************************************************************)
(* IsLocked, GetLockCount and the owner pointer tell one story: the flag   *)
(* is set exactly when a level is open, and exactly then there is an owner.*)
(***************************************************************************)
LockConsistent ==
    /\ locked = (lockCount > 0)
    /\ lockCount > 0 <=> lockOwner # NoServer

(***************************************************************************)
(* No lost wakeup: a request sleeps on stateCond only while another        *)
(* request owns the lock.  Neither Unlock nor a nested Lock may leave a    *)
(* sleeper behind with nobody to wake it.                                  *)
(***************************************************************************)
NoLostWakeup == \A s \in Servers : pc[s] \in Asleep => Blocked(s)

(***************************************************************************)
(* Isolation of a locked section: between Lock and Unlock the holder finds *)
(* in Contents and StaticObjects what it last read or wrote there, so that *)
(* read-modify-write under the lock loses no update.                       *)
(***************************************************************************)
Isolation ==
    \A s \in Servers : \A c \in Cells :
        Holds(s) /\ view[s][c] # Unread => store[c] = view[s][c]

(***************************************************************************)
(* When every script writes under its lock, the object is the monitor of   *)
(* ApplicationMonitor: only the owner of the lock changes the maps, the    *)
(* gap between WaitForServer and the map operation notwithstanding.        *)
(***************************************************************************)
Monitor == INSTANCE ApplicationMonitor WITH owner <- lockOwner, depth <- lockCount

ImplementsMonitor == Monitor!Spec

(***************************************************************************)
(* The lock never passes from one request to another in one step: the      *)
(* owner gives it up by its own Unlock, the count going down to zero, and  *)
(* only then another request takes it.                                     *)
(***************************************************************************)
Handover ==
    [][lockOwner' # lockOwner =>
          \/ lockOwner = NoServer /\ lockCount' = 1
          \/ /\ lockOwner' = NoServer
             /\ lockCount = 1
             /\ budget'[lockOwner] = budget[lockOwner] - 1]_vars

(***************************************************************************)
(* A request that ended between Lock and Unlock leaves the lock behind.    *)
(***************************************************************************)
Leaked == lockCount > 0 /\ pc[lockOwner] = "ended"

(***************************************************************************)
(* Progress: a request that asked for the lock gets it, and a request      *)
(* whose access waits gets through, unless some request ended without      *)
(* Unlock.                                                                 *)
(***************************************************************************)
LockServed ==
    \A s \in Servers :
        /\ pc[s] \in {"lock", "lockWait"} ~> (Holds(s) \/ Leaked)
        /\ pc[s] \in {"access", "accessWait"} ~> (pc[s] = "clear" \/ Leaked)

==============================================================================
