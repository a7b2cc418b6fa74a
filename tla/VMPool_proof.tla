---------------------------- MODULE VMPool_proof ----------------------------
(***************************************************************************)
(* Proofs about VMPool for any number of requests, programs, VMs and       *)
(* pools, any nesting depth and every deployment: the limiter counts the   *)
(* VMs in use, a VM has one owner and a running worker, pools are neither  *)
(* orphaned nor overfull, and an abandoned script is silent.               *)
(*                                                                         *)
(* All follow from one invariant.  It ties the fields of a request         *)
(* together (PhaseInv): which of its two threads is where decides whether  *)
(* it acquires, how many VMs it may hold and whether its script can still  *)
(* write.                                                                  *)
(***************************************************************************)
EXTENDS VMPool, FiniteSetTheorems, SequenceTheorems, TLAPS

(***************************************************************************)
(* The script of s writes no more: it has ended, or it has reported before *)
(* releasing its only VM.                                                  *)
(***************************************************************************)
Winding(s) ==
    \/ s.script = "none"
    \/ /\ Host # "server"
       /\ \/ s.script = "put" /\ Len(s.frames) = 1
          \/ s.script = "free" /\ s.frames = <<>>

(***************************************************************************)
(* How the fields of a request s go together.                              *)
(***************************************************************************)
Phases(s) ==
    /\ Len(s.frames) <= MaxDepth
    /\ s.acquire # "no" <=> (s.handler = "acquire" \/ s.script = "execute")
    /\ s.acquire # "no" => s.prog \in Programs /\ Len(s.frames) < MaxDepth
    /\ s.acquire = "get" => s.pool \in Pools
    /\ s.handler \in {"start", "compile", "acquire"} => s.script = "none"
    /\ s.handler = "event" => s.script \in {"execute", "run", "put", "free"}
    /\ s.handler \notin {"watch", "returned"} => s.done = "none"
    /\ s.script = "none" => s.frames = <<>>
    /\ s.script \in {"run", "put"} => s.frames # <<>>
    /\ s.script = "free" => Len(s.frames) < MaxDepth
    /\ s.script = "send" =>
         IF Host = "server" THEN s.frames = <<>> ELSE Len(s.frames) = 1
    /\ s.handler = "returned" => s.canceled \/ Winding(s)
    /\ s.handler = "watch" /\ s.done # "none" => Winding(s)

PhaseInv == \A r \in Requests : Phases(req[r])

(***************************************************************************)
(* A VM that is idle in a pool runs its worker too: it may be handed out.  *)
(***************************************************************************)
WorkerInv == \A v \in VMs : VMReached(v) => worker[v] = "running"

(***************************************************************************)
(* Only Caddy purges; elsewhere the map keeps every pool that a request    *)
(* has found or that a VM came from.                                       *)
(***************************************************************************)
KeepInv ==
    Host # "caddy" =>
      /\ ~purge.active /\ purge.todo = {} /\ purge.pool = None
      /\ \A r \in Requests :
           /\ req[r].pool # None => \E p \in Programs : pools[p] = req[r].pool
           /\ \A i \in 1 .. Len(req[r].frames) :
                \E p \in Programs : pools[p] = req[r].frames[i].from

(***************************************************************************)
(* SlotsAccounted with the queue by index, and no queue without a limiter. *)
(***************************************************************************)
SlotInv ==
    /\ IsFiniteSet(SlotHolders)
    /\ used = IF Limit > 0 THEN Cardinality(SlotHolders) ELSE 0
    /\ Limit > 0 => used <= Limit
    /\ queue # <<>> => Limit > 0 /\ used = Limit
    /\ \A r \in Requests :
         req[r].acquire = "wait" <=> \E i \in 1 .. Len(queue) : queue[i] = r
    /\ \A i, j \in 1 .. Len(queue) : queue[i] = queue[j] => i = j

FitInv ==
    Limit > 0 => \A q \in Pools : /\ IsFiniteSet(Belonging(q))
                                  /\ Cardinality(Belonging(q)) <= Limit

IInv == TypeOK /\ PhaseInv /\ OneOwner /\ WorkerInv /\ KeepInv /\ SlotInv /\ FitInv

\* The slots of a request, as a function of its record.
SlotsOf(s) ==
    Len(s.frames)
      + (IF s.acquire \in {"load", "store", "get"} THEN 1 ELSE 0)
      + (IF s.script = "free" THEN 1 ELSE 0)

-----------------------------------------------------------------------------
\* The records of the requests and their frames are well formed.
LEMMA Records ==
    ASSUME TypeOK, NEW r \in Requests
    PROVE  /\ req[r] \in Request
           /\ req[r].frames \in Seq([vm : VMs, from : Pools])
           /\ Len(req[r].frames) \in Nat
           /\ Len(req[r].frames) = 0 <=> req[r].frames = <<>>
           /\ \A i \in 1 .. Len(req[r].frames) :
                req[r].frames[i] \in [vm : VMs, from : Pools]
           /\ Slots(r) = SlotsOf(req[r])
<1>1. req[r] \in Request BY DEF TypeOK
<1>2. req[r].frames \in Seq([vm : VMs, from : Pools]) BY <1>1 DEF Request
<1>3. Len(req[r].frames) \in Nat BY <1>2
<1>4. \A i \in 1 .. Len(req[r].frames) : req[r].frames[i] \in [vm : VMs, from : Pools]
  BY <1>2, ElementOfSeq
<1>5. Slots(r) = SlotsOf(req[r]) BY DEF Slots, SlotsOf
<1>6. Len(req[r].frames) = 0 <=> req[r].frames = <<>> BY <1>2
<1> QED BY <1>1, <1>2, <1>3, <1>4, <1>5, <1>6

\* A step that moves no VM, and takes no pool from the map, keeps everything
\* about their places.
LEMMA PlacesKept ==
    ASSUME IInv, req' \in [Requests -> Request],
           UNCHANGED <<deploy, items, worker, purge>>,
           \A p \in Programs : pools[p] # None => pools'[p] = pools[p],
           \A s \in Requests :
             /\ req'[s].frames = req[s].frames
             /\ req'[s].pool # None => \/ req'[s].pool = req[s].pool
                                       \/ \E p \in Programs : pools'[p] = req'[s].pool
             /\ Phases(req'[s])
    PROVE  PhaseInv' /\ OneOwner' /\ WorkerInv' /\ KeepInv' /\ FitInv'
<1>1. PhaseInv' BY DEF PhaseInv, Phases, Winding, Host
<1>2. \A s \in Requests : InHand(s)' = InHand(s) BY DEF InHand
<1>3. \A q \in Pools : Idle(q)' = Idle(q) BY DEF Idle
<1>4. OneOwner'
  <2>1. \A s \in Requests : req'[s].frames = req[s].frames OBVIOUS
  <2>2. items' = items OBVIOUS
  <2>3. (\A r \in Requests, s \in Requests :
           \A i \in 1 .. Len(req[r].frames), j \in 1 .. Len(req[s].frames) :
             req[r].frames[i].vm = req[s].frames[j].vm => r = s /\ i = j)'
    BY <2>1 DEF IInv, OneOwner
  <2>4. (\A q \in Pools, p \in Pools :
           \A i \in 1 .. Len(items[q]), j \in 1 .. Len(items[p]) :
             items[q][i] = items[p][j] => q = p /\ i = j)'
    BY <2>2 DEF IInv, OneOwner
  <2>5. (\A r \in Requests, q \in Pools : InHand(r) \cap Idle(q) = {})'
    BY <1>2, <1>3 DEF IInv, OneOwner
  <2> QED BY <2>3, <2>4, <2>5 DEF OneOwner
<1>5. WorkerInv' BY <1>2, <1>3 DEF IInv, WorkerInv, VMReached
<1>6. KeepInv'
  <2> SUFFICES ASSUME Host' # "caddy" PROVE KeepInv' BY DEF KeepInv
  <2>1. Host # "caddy" BY DEF Host
  <2>2. /\ ~purge.active /\ purge.todo = {} /\ purge.pool = None
        /\ \A s \in Requests :
             /\ req[s].pool # None => \E p \in Programs : pools[p] = req[s].pool
             /\ \A i \in 1 .. Len(req[s].frames) :
                  \E p \in Programs : pools[p] = req[s].frames[i].from
    BY <2>1 DEF IInv, KeepInv
  <2>3. \A s \in Requests : \A i \in 1 .. Len(req[s].frames) :
          req[s].frames[i].from # None
    BY Records, PoolAssumption DEF IInv
  <2>4. ASSUME NEW s \in Requests, NEW i \in 1 .. Len(req'[s].frames)
        PROVE  \E p \in Programs : pools'[p] = req'[s].frames[i].from
    BY <2>2, <2>3
  <2>5. ASSUME NEW s \in Requests, req'[s].pool # None
        PROVE  \E p \in Programs : pools'[p] = req'[s].pool
    BY <2>2, <2>5
  <2> QED BY <2>2, <2>4, <2>5 DEF KeepInv
<1>7. \A q \in Pools : Belonging(q)' = Belonging(q) BY <1>3 DEF Belonging
<1>8. FitInv' BY <1>7 DEF IInv, FitInv, Limit
<1> QED BY <1>1, <1>4, <1>5, <1>6, <1>8

\* A step of one request that moves no VM, no pool and no slot.
LEMMA ControlStep ==
    ASSUME IInv, NEW r \in Requests, NEW t \in Request,
           req' = [req EXCEPT ![r] = t],
           UNCHANGED <<deploy, used, queue, pools, items, worker, purge>>,
           t.frames = req[r].frames,
           t.pool # None => \/ t.pool = req[r].pool
                            \/ \E p \in Programs : pools[p] = t.pool,
           Phases(t),
           SlotsOf(t) = SlotsOf(req[r]),
           t.acquire = "wait" <=> req[r].acquire = "wait"
    PROVE  IInv'
<1>1. /\ req \in [Requests -> Request] /\ req'[r] = t
      /\ \A s \in Requests : s # r => req'[s] = req[s]
      /\ req' \in [Requests -> Request]
  BY DEF IInv, TypeOK
<1>2. \A s \in Requests : Phases(req'[s]) /\ req'[s].frames = req[s].frames
  BY <1>1 DEF IInv, PhaseInv
<1>3. PhaseInv' /\ OneOwner' /\ WorkerInv' /\ KeepInv' /\ FitInv'
  <2>1. \A s \in Requests : req'[s].pool # None =>
          \/ req'[s].pool = req[s].pool
          \/ \E p \in Programs : pools[p] = req'[s].pool
    BY <1>1
  <2> QED BY <1>1, <1>2, <2>1, PlacesKept
<1>4. TypeOK' BY <1>1, <1>2 DEF IInv, TypeOK
<1>5. \A s \in Requests : Slots(s)' = Slots(s) BY <1>1 DEF Slots, SlotsOf
<1>6. SlotHolders' = SlotHolders BY <1>5 DEF SlotHolders
<1>7. SlotInv' BY <1>1, <1>6 DEF IInv, SlotInv, Limit
<1> QED BY <1>3, <1>4, <1>7 DEF IInv

\* A new request begins where the last one of its record has ended.
LEMMA ArriveStep ==
    ASSUME IInv, NEW r \in Requests, Arrive(r) PROVE IInv'
<1> DEFINE t == [req[r] EXCEPT !.handler = "start",
                            !.page = "main",
                            !.wire = "nothing",
                            !.canceled = FALSE,
                            !.done = "none",
                            !.result = "none"]
<1>1. /\ req[r] \in Request /\ Len(req[r].frames) \in Nat
      /\ Len(req[r].frames) = 0 <=> req[r].frames = <<>>
  BY Records DEF IInv
<1>2. Phases(req[r]) BY DEF IInv, PhaseInv
<1>3. req[r].handler = "returned" /\ req[r].script = "none"
  BY DEF Arrive
<1>4. t \in Request BY <1>1, <1>3 DEF Request
<1>5. /\ t.handler = "start" /\ t.page = "main" /\ t.wire = "nothing"
      /\ t.canceled = FALSE /\ t.done = "none" /\ t.result = "none"
      /\ t.acquire = req[r].acquire /\ t.prog = req[r].prog
      /\ t.pool = req[r].pool /\ t.script = req[r].script
      /\ t.frames = req[r].frames
  BY <1>1 DEF Request
<1>6. req' = [req EXCEPT ![r] = t]
      /\ UNCHANGED <<deploy, used, queue, pools, items, worker, purge>>
  BY DEF Arrive
<1> HIDE DEF t
<1>7. Phases(t) BY <1>1, <1>2, <1>3, <1>5 DEF Phases, Winding
<1>8. SlotsOf(t) = SlotsOf(req[r]) BY <1>1, <1>2, <1>3, <1>5 DEF SlotsOf, Phases
<1> QED BY <1>1, <1>2, <1>3, <1>4, <1>5, <1>6, <1>7, <1>8, ControlStep DEF Phases

\* The handler goes on with the page.
LEMMA NoSessionEventStep ==
    ASSUME IInv, NEW r \in Requests, NoSessionEvent(r) PROVE IInv'
<1> DEFINE t == [req[r] EXCEPT !.handler = "compile"]
<1>1. /\ req[r] \in Request /\ Len(req[r].frames) \in Nat
      /\ Len(req[r].frames) = 0 <=> req[r].frames = <<>>
  BY Records DEF IInv
<1>2. Phases(req[r]) BY DEF IInv, PhaseInv
<1>3. req[r].handler = "start"
  BY DEF NoSessionEvent
<1>4. t \in Request BY <1>1, <1>3 DEF Request
<1>5. /\ t.handler = "compile" /\ t.page = req[r].page
      /\ t.acquire = req[r].acquire /\ t.prog = req[r].prog
      /\ t.pool = req[r].pool /\ t.script = req[r].script
      /\ t.frames = req[r].frames /\ t.result = req[r].result
      /\ t.done = req[r].done /\ t.canceled = req[r].canceled
      /\ t.wire = req[r].wire
  BY <1>1 DEF Request
<1>6. req' = [req EXCEPT ![r] = t]
      /\ UNCHANGED <<deploy, used, queue, pools, items, worker, purge>>
  BY DEF NoSessionEvent
<1> HIDE DEF t
<1>7. Phases(t) BY <1>1, <1>2, <1>3, <1>5 DEF Phases, Winding
<1>8. SlotsOf(t) = SlotsOf(req[r]) BY <1>1, <1>2, <1>3, <1>5 DEF SlotsOf, Phases
<1> QED BY <1>1, <1>2, <1>3, <1>4, <1>5, <1>6, <1>7, <1>8, ControlStep DEF Phases

\* A script that has reported does not run any more.
LEMMA TakeOkStep ==
    ASSUME IInv, NEW r \in Requests, TakeOk(r) PROVE IInv'
<1> DEFINE t == [req[r] EXCEPT !.handler = "returned",
                            !.wire = "page",
                            !.done = "none"]
<1>1. /\ req[r] \in Request /\ Len(req[r].frames) \in Nat
      /\ Len(req[r].frames) = 0 <=> req[r].frames = <<>>
  BY Records DEF IInv
<1>2. Phases(req[r]) BY DEF IInv, PhaseInv
<1>3. req[r].handler = "watch" /\ req[r].done = "ok"
  BY DEF TakeOk
<1>4. t \in Request BY ZenonT(60), <1>1, <1>3 DEF Request
<1>5. /\ t.handler = "returned" /\ t.wire = "page" /\ t.done = "none"
      /\ t.page = req[r].page /\ t.acquire = req[r].acquire
      /\ t.prog = req[r].prog /\ t.pool = req[r].pool
      /\ t.script = req[r].script /\ t.frames = req[r].frames
      /\ t.result = req[r].result /\ t.canceled = req[r].canceled
  BY <1>1 DEF Request
<1>6. req' = [req EXCEPT ![r] = t]
      /\ UNCHANGED <<deploy, used, queue, pools, items, worker, purge>>
  BY DEF TakeOk
<1> HIDE DEF t
<1>7. Phases(t) BY <1>1, <1>2, <1>3, <1>5 DEF Phases, Winding
<1>8. SlotsOf(t) = SlotsOf(req[r]) BY <1>1, <1>2, <1>3, <1>5 DEF SlotsOf, Phases
<1> QED BY <1>1, <1>2, <1>3, <1>4, <1>5, <1>6, <1>7, <1>8, ControlStep DEF Phases

\* The watchdog cancels the writer.
LEMMA TimesOutStep ==
    ASSUME IInv, NEW r \in Requests, TimesOut(r) PROVE IInv'
<1> DEFINE t == [req[r] EXCEPT !.handler = "returned",
                            !.canceled = TRUE,
                            !.wire = "timeout"]
<1>1. /\ req[r] \in Request /\ Len(req[r].frames) \in Nat
      /\ Len(req[r].frames) = 0 <=> req[r].frames = <<>>
  BY Records DEF IInv
<1>2. Phases(req[r]) BY DEF IInv, PhaseInv
<1>3. req[r].handler = "watch"
  BY DEF TimesOut
<1>4. t \in Request BY ZenonT(60), <1>1, <1>3 DEF Request
<1>5. /\ t.handler = "returned" /\ t.canceled = TRUE /\ t.wire = "timeout"
      /\ t.page = req[r].page /\ t.acquire = req[r].acquire
      /\ t.prog = req[r].prog /\ t.pool = req[r].pool
      /\ t.script = req[r].script /\ t.frames = req[r].frames
      /\ t.result = req[r].result /\ t.done = req[r].done
  BY <1>1 DEF Request
<1>6. req' = [req EXCEPT ![r] = t]
      /\ UNCHANGED <<deploy, used, queue, pools, items, worker, purge>>
  BY DEF TimesOut
<1> HIDE DEF t
<1>7. Phases(t) BY <1>1, <1>2, <1>3, <1>5 DEF Phases, Winding
<1>8. SlotsOf(t) = SlotsOf(req[r]) BY <1>1, <1>2, <1>3, <1>5 DEF SlotsOf, Phases
<1> QED BY <1>1, <1>2, <1>3, <1>4, <1>5, <1>6, <1>7, <1>8, ControlStep DEF Phases

\* Output changes nothing but what the client was sent.
LEMMA ScriptWriteStep ==
    ASSUME IInv, NEW r \in Requests, ScriptWrite(r) PROVE IInv'
<1> DEFINE t == [req[r] EXCEPT !.wire = Written(r)]
<1>1. /\ req[r] \in Request /\ Len(req[r].frames) \in Nat
      /\ Len(req[r].frames) = 0 <=> req[r].frames = <<>>
  BY Records DEF IInv
<1>2. Phases(req[r]) BY DEF IInv, PhaseInv
<1>3. req[r].script = "run" /\ Written(r) \in {"script", req[r].wire}
  BY DEF ScriptWrite, Written
<1>4. t \in Request BY <1>1, <1>3 DEF Request
<1>5. /\ t.wire = Written(r) /\ t.handler = req[r].handler
      /\ t.page = req[r].page /\ t.acquire = req[r].acquire
      /\ t.prog = req[r].prog /\ t.pool = req[r].pool
      /\ t.script = req[r].script /\ t.frames = req[r].frames
      /\ t.result = req[r].result /\ t.done = req[r].done
      /\ t.canceled = req[r].canceled
  BY <1>1 DEF Request
<1>6. req' = [req EXCEPT ![r] = t]
      /\ UNCHANGED <<deploy, used, queue, pools, items, worker, purge>>
  BY DEF ScriptWrite, Written
<1> HIDE DEF t
<1>7. Phases(t) BY <1>1, <1>2, <1>3, <1>5 DEF Phases, Winding
<1>8. SlotsOf(t) = SlotsOf(req[r]) BY <1>1, <1>2, <1>3, <1>5 DEF SlotsOf, Phases
<1> QED BY <1>1, <1>2, <1>3, <1>4, <1>5, <1>6, <1>7, <1>8, ControlStep DEF Phases

\* Session_OnStart is a script of the handler.
LEMMA SessionOnStartStep == ASSUME IInv, NEW r \in Requests, SessionOnStart(r) PROVE IInv'
<1>1. /\ req[r] \in Request /\ Len(req[r].frames) \in Nat
      /\ Len(req[r].frames) = 0 <=> req[r].frames = <<>>
  BY Records DEF IInv
<1>2. Phases(req[r]) BY DEF IInv, PhaseInv
<1>3. /\ req[r].handler = "start"
      /\ UNCHANGED <<deploy, used, queue, pools, items, worker, purge>>
  BY DEF SessionOnStart
<1>4. PICK p \in Programs :
        req' = [req EXCEPT ![r].handler = "event", ![r].script = "execute",
                           ![r].prog = p, ![r].acquire = "slot"]
  BY DEF SessionOnStart
<1> DEFINE t == [req[r] EXCEPT !.handler = "event",
                            !.script = "execute",
                            !.prog = p,
                            !.acquire = "slot"]
<1>5. t \in Request BY ZenonT(60), <1>1, <1>3 DEF Request
<1>6. /\ t.handler = "event" /\ t.script = "execute" /\ t.prog = p
      /\ t.acquire = "slot" /\ t.page = req[r].page /\ t.pool = req[r].pool
      /\ t.frames = req[r].frames /\ t.result = req[r].result
      /\ t.done = req[r].done /\ t.canceled = req[r].canceled
      /\ t.wire = req[r].wire
  BY <1>1 DEF Request
<1>7. req' = [req EXCEPT ![r] = t] BY <1>4
<1> HIDE DEF t
<1>8. Phases(t) BY <1>1, <1>2, <1>3, <1>4, <1>6, PoolAssumption DEF Phases, Winding
<1>9. SlotsOf(t) = SlotsOf(req[r]) BY <1>1, <1>2, <1>3, <1>6 DEF SlotsOf, Phases
<1> QED BY <1>1, <1>2, <1>3, <1>5, <1>6, <1>7, <1>8, <1>9, ControlStep DEF Phases

\* The compiled page needs a VM.
LEMMA CompileOkStep == ASSUME IInv, NEW r \in Requests, CompileOk(r) PROVE IInv'
<1>1. /\ req[r] \in Request /\ Len(req[r].frames) \in Nat
      /\ Len(req[r].frames) = 0 <=> req[r].frames = <<>>
  BY Records DEF IInv
<1>2. Phases(req[r]) BY DEF IInv, PhaseInv
<1>3. /\ req[r].handler = "compile"
      /\ UNCHANGED <<deploy, used, queue, pools, items, worker, purge>>
  BY DEF CompileOk
<1>4. PICK p \in Programs :
        req' = [req EXCEPT ![r].handler = "acquire", ![r].prog = p, ![r].acquire = "slot"]
  BY DEF CompileOk
<1> DEFINE t == [req[r] EXCEPT !.handler = "acquire",
                            !.prog = p,
                            !.acquire = "slot"]
<1>5. t \in Request BY <1>1, <1>3 DEF Request
<1>6. /\ t.handler = "acquire" /\ t.prog = p /\ t.acquire = "slot"
      /\ t.page = req[r].page /\ t.pool = req[r].pool
      /\ t.script = req[r].script /\ t.frames = req[r].frames
      /\ t.result = req[r].result /\ t.done = req[r].done
      /\ t.canceled = req[r].canceled /\ t.wire = req[r].wire
  BY <1>1 DEF Request
<1>7. req' = [req EXCEPT ![r] = t] BY <1>4
<1> HIDE DEF t
<1>8. Phases(t) BY <1>1, <1>2, <1>3, <1>4, <1>6, PoolAssumption DEF Phases, Winding
<1>9. SlotsOf(t) = SlotsOf(req[r]) BY <1>1, <1>2, <1>3, <1>6 DEF SlotsOf, Phases
<1> QED BY <1>1, <1>2, <1>3, <1>5, <1>6, <1>7, <1>8, <1>9, ControlStep DEF Phases

\* Server.Execute: the script waits for its child.
LEMMA ExecuteStep == ASSUME IInv, NEW r \in Requests, Execute(r) PROVE IInv'
<1>1. /\ req[r] \in Request /\ Len(req[r].frames) \in Nat
      /\ Len(req[r].frames) = 0 <=> req[r].frames = <<>>
  BY Records DEF IInv
<1>2. Phases(req[r]) BY DEF IInv, PhaseInv
<1>3. /\ req[r].script = "run" /\ Len(req[r].frames) < MaxDepth
      /\ UNCHANGED <<deploy, used, queue, pools, items, worker, purge>>
  BY DEF Execute
<1>4. PICK p \in Programs :
        req' = [req EXCEPT ![r].script = "execute", ![r].prog = p, ![r].acquire = "slot"]
  BY DEF Execute
<1> DEFINE t == [req[r] EXCEPT !.script = "execute",
                            !.prog = p,
                            !.acquire = "slot"]
<1>5. t \in Request BY <1>1, <1>3 DEF Request
<1>6. /\ t.script = "execute" /\ t.prog = p /\ t.acquire = "slot"
      /\ t.handler = req[r].handler /\ t.page = req[r].page
      /\ t.pool = req[r].pool /\ t.frames = req[r].frames
      /\ t.result = req[r].result /\ t.done = req[r].done
      /\ t.canceled = req[r].canceled /\ t.wire = req[r].wire
  BY <1>1 DEF Request
<1>7. req' = [req EXCEPT ![r] = t] BY <1>4
<1> HIDE DEF t
<1>8. Phases(t) BY <1>1, <1>2, <1>3, <1>4, <1>6, PoolAssumption DEF Phases, Winding
<1>9. SlotsOf(t) = SlotsOf(req[r]) BY <1>1, <1>2, <1>3, <1>6 DEF SlotsOf, Phases
<1> QED BY <1>1, <1>2, <1>3, <1>5, <1>6, <1>7, <1>8, <1>9, ControlStep DEF Phases

\* A script that ends was not reported before.
LEMMA EndRunStep == ASSUME IInv, NEW r \in Requests, EndRun(r) PROVE IInv'
<1>1. /\ req[r] \in Request /\ Len(req[r].frames) \in Nat
      /\ Len(req[r].frames) = 0 <=> req[r].frames = <<>>
  BY Records DEF IInv
<1>2. Phases(req[r]) BY DEF IInv, PhaseInv
<1>3. /\ req[r].script = "run"
      /\ UNCHANGED <<deploy, used, queue, pools, items, worker, purge>>
  BY DEF EndRun
<1>4. PICK o \in {"ok", "error"} :
        req' = [req EXCEPT ![r].script = AfterRun(r), ![r].result = o]
  BY DEF EndRun
<1> DEFINE t == [req[r] EXCEPT !.script = AfterRun(r),
                            !.result = o]
<1>5. t \in Request BY ZenonT(60), <1>1, <1>3 DEF Request, AfterRun, Event
<1>6. /\ t.script = AfterRun(r) /\ t.result = o /\ t.handler = req[r].handler
      /\ t.page = req[r].page /\ t.acquire = req[r].acquire
      /\ t.prog = req[r].prog /\ t.pool = req[r].pool
      /\ t.frames = req[r].frames /\ t.done = req[r].done
      /\ t.canceled = req[r].canceled /\ t.wire = req[r].wire
  BY <1>1 DEF Request
<1>7. req' = [req EXCEPT ![r] = t] BY <1>4
<1> HIDE DEF t
<1>8. Phases(t)
  BY <1>1, <1>2, <1>3, <1>4, <1>6, PoolAssumption DEF Phases, Winding, AfterRun, Event
<1>9. SlotsOf(t) = SlotsOf(req[r])
  BY <1>1, <1>2, <1>3, <1>6 DEF SlotsOf, Phases, AfterRun, Event
<1> QED BY <1>1, <1>2, <1>3, <1>5, <1>6, <1>7, <1>8, <1>9, ControlStep DEF Phases

\* A script that has reported is winding up.
LEMMA SendDoneStep == ASSUME IInv, NEW r \in Requests, SendDone(r) PROVE IInv'
<1> DEFINE sc == IF Host = "server" THEN "none" ELSE "put"
           t == [req[r] EXCEPT !.done = req[r].result, !.script = sc]
<1>1. /\ req[r] \in Request /\ Len(req[r].frames) \in Nat
      /\ Len(req[r].frames) = 0 <=> req[r].frames = <<>>
  BY Records DEF IInv
<1>2. Phases(req[r]) BY DEF IInv, PhaseInv
<1>3. req[r].script = "send" BY DEF SendDone
<1>4. sc \in {"none", "put"} OBVIOUS
<1>5. Host = "server" => sc = "none" OBVIOUS
<1>6. Host # "server" => sc = "put" OBVIOUS
<1>7. req' = [req EXCEPT ![r] = t]
      /\ UNCHANGED <<deploy, used, queue, pools, items, worker, purge>>
  BY DEF SendDone
<1> HIDE DEF sc
<1>8. t \in Request BY <1>1, <1>3, <1>4 DEF Request
<1>9. t.script = sc /\ t.handler = req[r].handler /\ t.acquire = req[r].acquire
      /\ t.prog = req[r].prog /\ t.pool = req[r].pool /\ t.frames = req[r].frames
      /\ t.canceled = req[r].canceled
  BY <1>1 DEF Request
<1> HIDE DEF t
<1>10. req[r].handler \in {"watch", "returned"}
  <2>1. req[r].handler \in {"start", "event", "compile", "acquire", "watch", "returned"}
    BY <1>1 DEF Request
  <2> QED BY <1>2, <1>3, <2>1 DEF Phases
<1>11. Phases(t)
  <2>1. CASE Host = "server"
    BY <1>1, <1>2, <1>3, <1>5, <1>9, <1>10, <2>1 DEF Phases, Winding
  <2>2. CASE Host # "server"
    <3>1. t.script = "put" BY <1>6, <1>9, <2>2
    <3>2. Len(req[r].frames) = 1 BY <1>2, <1>3, <2>2 DEF Phases
    <3>3. req[r].frames # <<>> BY <1>1, <3>2
    <3>4. t.script = "put" /\ Len(t.frames) = 1 /\ t.frames # <<>>
      BY <1>9, <3>1, <3>2, <3>3
    <3>5. Winding(t) BY <2>2, <3>4 DEF Winding
    <3> QED BY <1>2, <1>3, <1>9, <1>10, <3>4, <3>5, PoolAssumption DEF Phases
  <2> QED BY <2>1, <2>2
<1>12. SlotsOf(t) = SlotsOf(req[r]) BY <1>3, <1>4, <1>9 DEF SlotsOf
<1> QED BY <1>7, <1>8, <1>9, <1>11, <1>12, ControlStep

\* What an error makes of a request is one.
LEMMA ErrorTypes ==
    ASSUME NEW s \in Request, s.handler = "compile" \/ s.handler = "watch"
    PROVE  /\ [s EXCEPT !.handler = "returned", !.wire = "error", !.done = "none"] \in Request
           /\ [s EXCEPT !.handler = "start", !.page = "error", !.canceled = FALSE,
                        !.done = "none", !.result = "none"] \in Request
<1>1. [s EXCEPT !.handler = "returned", !.wire = "error", !.done = "none"] \in Request
  <2> DEFINE a == [s EXCEPT !.handler = "returned"]
             b == [a EXCEPT !.wire = "error"]
  <2>1. a \in Request BY DEF Request
  <2> HIDE DEF a
  <2>2. b \in Request BY <2>1 DEF Request
  <2> HIDE DEF b
  <2>3. [b EXCEPT !.done = "none"] \in Request BY <2>2 DEF Request
  <2> QED BY <2>3 DEF a, b
<1>2. [s EXCEPT !.handler = "start", !.page = "error", !.canceled = FALSE,
                !.done = "none", !.result = "none"] \in Request
  BY ZenonT(60) DEF Request
<1> QED BY <1>1, <1>2

\* The answer to an error is given when no script runs.
LEMMA FailedStep ==
    ASSUME IInv, NEW r \in Requests, Failed(r),
           \/ req[r].handler = "compile"
           \/ req[r].handler = "watch" /\ req[r].done # "none",
           req'[r].handler = "start" => req[r].script = "none",
           UNCHANGED <<deploy, used, queue, pools, items, worker, purge>>
    PROVE  IInv'
<1>1. /\ req[r] \in Request /\ Len(req[r].frames) \in Nat
      /\ Len(req[r].frames) = 0 <=> req[r].frames = <<>>
  BY Records DEF IInv
<1>2. Phases(req[r]) BY DEF IInv, PhaseInv
<1>3. CASE req' = AnswerError(r)
  <2> DEFINE t == [req[r] EXCEPT !.handler = "returned", !.wire = "error", !.done = "none"]
  <2>1. t \in Request BY <1>1, ErrorTypes
  <2>2. t.handler = "returned" /\ t.wire = "error" /\ t.done = "none"
        /\ t.page = req[r].page /\ t.acquire = req[r].acquire /\ t.prog = req[r].prog
        /\ t.pool = req[r].pool /\ t.script = req[r].script
        /\ t.frames = req[r].frames /\ t.canceled = req[r].canceled
    BY <1>1 DEF Request
  <2>3. req' = [req EXCEPT ![r] = t] BY <1>3 DEF AnswerError
  <2> HIDE DEF t
  <2>4. Phases(t) BY <1>1, <1>2, <2>2 DEF Phases, Winding
  <2>5. SlotsOf(t) = SlotsOf(req[r]) BY <2>2 DEF SlotsOf
  <2> QED BY <2>1, <2>2, <2>3, <2>4, <2>5, ControlStep
<1>4. CASE req' = ErrorPage(r)
  <2> DEFINE t == [req[r] EXCEPT !.handler = "start", !.page = "error", !.canceled = FALSE,
                                 !.done = "none", !.result = "none"]
  <2>1. t \in Request BY <1>1, ErrorTypes
  <2>2. t.handler = "start" /\ t.done = "none"
        /\ t.acquire = req[r].acquire /\ t.prog = req[r].prog
        /\ t.pool = req[r].pool /\ t.script = req[r].script
        /\ t.frames = req[r].frames /\ t.canceled = FALSE
    BY <1>1 DEF Request
  <2>3. req' = [req EXCEPT ![r] = t] BY <1>4 DEF ErrorPage
  <2>4. req[r].script = "none" BY <2>2, <2>3 DEF IInv, TypeOK
  <2> HIDE DEF t
  <2>5. Phases(t) BY <1>1, <1>2, <2>2, <2>4 DEF Phases, Winding
  <2>6. SlotsOf(t) = SlotsOf(req[r]) BY <2>2 DEF SlotsOf
  <2> QED BY <2>1, <2>2, <2>3, <2>5, <2>6, ControlStep
<1> QED BY <1>3, <1>4 DEF Failed

\* While the page is compiled there is no script.
LEMMA CompileFailsStep == ASSUME IInv, NEW r \in Requests, CompileFails(r) PROVE IInv'
<1>1. req[r].handler = "compile" /\ Failed(r)
      /\ UNCHANGED <<deploy, used, queue, pools, items, worker, purge>>
  BY DEF CompileFails
<1>2. req[r].script = "none" BY <1>1 DEF IInv, PhaseInv, Phases
<1> QED BY <1>1, <1>2, FailedStep

\* The result of a script that failed.
LEMMA TakeErrorStep == ASSUME IInv, NEW r \in Requests, TakeError(r) PROVE IInv'
BY FailedStep DEF TakeError

\* The pool that was found is one of the map.
LEMMA LoadPoolStep == ASSUME IInv, NEW r \in Requests, LoadPool(r) PROVE IInv'
<1> DEFINE q == pools[req[r].prog]
           t == [req[r] EXCEPT !.pool = q,
                               !.acquire = IF q = None THEN "store" ELSE "get"]
<1>1. /\ req[r] \in Request /\ Len(req[r].frames) \in Nat
      /\ Len(req[r].frames) = 0 <=> req[r].frames = <<>>
  BY Records DEF IInv
<1>2. Phases(req[r]) /\ req[r].acquire = "load" BY DEF IInv, PhaseInv, LoadPool
<1>3. req[r].prog \in Programs BY <1>2 DEF Phases
<1>4. q \in Pools \cup {None} BY <1>3 DEF IInv, TypeOK
<1>5. req' = [req EXCEPT ![r] = t]
      /\ UNCHANGED <<deploy, used, queue, pools, items, worker, purge>>
  BY DEF LoadPool
<1>6. q # None => \E p \in Programs : pools[p] = q BY <1>3
<1> HIDE DEF q
<1>7. t \in Request BY <1>1, <1>4 DEF Request
<1>8. t.pool = q /\ t.acquire = (IF q = None THEN "store" ELSE "get")
      /\ t.handler = req[r].handler /\ t.prog = req[r].prog /\ t.script = req[r].script
      /\ t.frames = req[r].frames /\ t.done = req[r].done
      /\ t.canceled = req[r].canceled
  BY <1>1 DEF Request
<1> HIDE DEF t
<1>9. Phases(t) BY <1>1, <1>2, <1>4, <1>8 DEF Phases, Winding
<1>10. SlotsOf(t) = SlotsOf(req[r]) BY <1>1, <1>2, <1>8 DEF SlotsOf
<1> QED BY <1>2, <1>5, <1>6, <1>7, <1>8, <1>9, <1>10, ControlStep

-----------------------------------------------------------------------------
\* The slots of a request by what it does.
LEMMA SlotValues ==
    ASSUME NEW s, Len(s.frames) \in Nat
    PROVE  /\ SlotsOf(s) \in Nat /\ SlotsOf(s) >= Len(s.frames)
           /\ s.script = "free" /\ s.acquire = "no" => SlotsOf(s) = Len(s.frames) + 1
           /\ s.script # "free" /\ s.acquire \in {"load", "store", "get"}
                => SlotsOf(s) = Len(s.frames) + 1
           /\ s.script # "free" /\ s.acquire \notin {"load", "store", "get"}
                => SlotsOf(s) = Len(s.frames)
<1> DEFINE a == IF s.acquire \in {"load", "store", "get"} THEN 1 ELSE 0
           b == IF s.script = "free" THEN 1 ELSE 0
<1>1. a \in {0, 1} /\ b \in {0, 1} OBVIOUS
<1>2. /\ s.acquire \in {"load", "store", "get"} => a = 1
      /\ s.acquire \notin {"load", "store", "get"} => a = 0
      /\ s.script = "free" => b = 1
      /\ s.script # "free" => b = 0
  OBVIOUS
<1>3. SlotsOf(s) = Len(s.frames) + a + b BY DEF SlotsOf
<1>4. s.acquire = "no" => s.acquire \notin {"load", "store", "get"} OBVIOUS
<1> HIDE DEF a, b
<1> QED BY <1>1, <1>2, <1>3, <1>4

\* The slots of a request are within the range SlotHolders counts.
LEMMA SlotRange ==
    ASSUME IInv, NEW r \in Requests
    PROVE  Slots(r) \in 0 .. MaxDepth
<1>1. /\ req[r] \in Request /\ Len(req[r].frames) \in Nat /\ Phases(req[r])
      /\ Slots(r) = SlotsOf(req[r])
  BY Records DEF IInv, PhaseInv
<1>2. req[r].script = "free" => req[r].acquire = "no"
  <2>1. req[r].handler \in {"start", "event", "compile", "acquire", "watch", "returned"}
    BY <1>1 DEF Request
  <2> QED BY <1>1, <2>1 DEF Phases
<1>3. CASE req[r].script = "free"
  <2>1. SlotsOf(req[r]) = Len(req[r].frames) + 1
    <3>1. req[r].acquire \notin {"load", "store", "get"} BY <1>2, <1>3
    <3> QED BY <1>1, <1>3, <3>1 DEF SlotsOf
  <2>2. Len(req[r].frames) < MaxDepth BY <1>1, <1>3 DEF Phases
  <2> QED BY <1>1, <2>1, <2>2, PoolAssumption
<1>4. CASE req[r].script # "free" /\ req[r].acquire \in {"load", "store", "get"}
  <2>1. SlotsOf(req[r]) = Len(req[r].frames) + 1 BY <1>1, <1>4 DEF SlotsOf
  <2>2. Len(req[r].frames) < MaxDepth BY <1>1, <1>4 DEF Phases
  <2> QED BY <1>1, <2>1, <2>2, PoolAssumption
<1>5. CASE req[r].script # "free" /\ req[r].acquire \notin {"load", "store", "get"}
  <2>1. SlotsOf(req[r]) = Len(req[r].frames) BY <1>1, <1>5 DEF SlotsOf
  <2>2. Len(req[r].frames) <= MaxDepth BY <1>1 DEF Phases
  <2> QED BY <1>1, <2>1, <2>2, PoolAssumption
<1> QED BY <1>3, <1>4, <1>5

\* One slot more is one holder more.
LEMMA HolderAdded ==
    ASSUME IInv, NEW r \in Requests,
           \A s \in Requests : s # r => Slots(s)' = Slots(s),
           Slots(r)' = Slots(r) + 1
    PROVE  /\ IsFiniteSet(SlotHolders')
           /\ Cardinality(SlotHolders') = Cardinality(SlotHolders) + 1
<1> DEFINE h == <<r, Slots(r) + 1>>
<1>1. \A s \in Requests : Slots(s) \in 0 .. MaxDepth BY SlotRange
<1>2. MaxDepth \in Nat BY PoolAssumption
<1>3. h \notin SlotHolders BY <1>1, <1>2 DEF SlotHolders
<1>4. SlotHolders' = SlotHolders \cup {h}
  <2>1. ASSUME NEW x \in SlotHolders' PROVE x \in SlotHolders \cup {h}
    BY <1>1, <1>2, <2>1 DEF SlotHolders
  <2>2. ASSUME NEW x \in SlotHolders \cup {h} PROVE x \in SlotHolders'
    BY <1>1, <1>2, <2>2 DEF SlotHolders
  <2> QED BY <2>1, <2>2
<1>5. IsFiniteSet(SlotHolders) BY DEF IInv, SlotInv
<1> HIDE DEF h
<1> QED BY <1>3, <1>4, <1>5, FS_AddElement

\* One slot less is one holder less.
LEMMA HolderRemoved ==
    ASSUME IInv, NEW r \in Requests,
           \A s \in Requests : s # r => Slots(s)' = Slots(s),
           Slots(r) > 0, Slots(r)' = Slots(r) - 1
    PROVE  /\ IsFiniteSet(SlotHolders')
           /\ Cardinality(SlotHolders') = Cardinality(SlotHolders) - 1
           /\ Cardinality(SlotHolders) > 0
<1> DEFINE h == <<r, Slots(r)>>
<1>1. \A s \in Requests : Slots(s) \in 0 .. MaxDepth BY SlotRange
<1>2. MaxDepth \in Nat BY PoolAssumption
<1>3. h \in SlotHolders BY <1>1, <1>2 DEF SlotHolders
<1>4. SlotHolders' = SlotHolders \ {h}
  <2>1. ASSUME NEW x \in SlotHolders' PROVE x \in SlotHolders \ {h}
    BY <1>1, <1>2, <2>1 DEF SlotHolders
  <2>2. ASSUME NEW x \in SlotHolders \ {h} PROVE x \in SlotHolders'
    BY <1>1, <1>2, <2>2 DEF SlotHolders
  <2> QED BY <2>1, <2>2
<1>5. IsFiniteSet(SlotHolders) BY DEF IInv, SlotInv
<1>6. Cardinality(SlotHolders) \in Nat /\ Cardinality(SlotHolders) # 0
  BY <1>3, <1>5, FS_CardinalityType, FS_EmptySet
<1> HIDE DEF h
<1> QED BY <1>3, <1>4, <1>5, <1>6, FS_RemoveElement

\* A step of one request that moves no VM and no pool, but may move a slot.
LEMMA SlotStep ==
    ASSUME IInv, NEW r \in Requests, NEW t \in Request,
           req' = [req EXCEPT ![r] = t],
           UNCHANGED <<deploy, pools, items, worker, purge>>,
           used' \in Nat, queue' \in Seq(Requests),
           t.frames = req[r].frames, t.pool = req[r].pool, Phases(t)
    PROVE  /\ TypeOK' /\ PhaseInv' /\ OneOwner' /\ WorkerInv' /\ KeepInv' /\ FitInv'
           /\ Slots(r)' = SlotsOf(t)
           /\ \A s \in Requests : s # r => Slots(s)' = Slots(s)
           /\ req'[r] = t /\ \A s \in Requests : s # r => req'[s] = req[s]
<1>1. /\ req \in [Requests -> Request] /\ req'[r] = t
      /\ \A s \in Requests : s # r => req'[s] = req[s]
      /\ req' \in [Requests -> Request]
  BY DEF IInv, TypeOK
<1>2. \A s \in Requests : Phases(req'[s]) /\ req'[s].frames = req[s].frames
                         /\ req'[s].pool = req[s].pool
  BY <1>1 DEF IInv, PhaseInv
<1>3. PhaseInv' /\ OneOwner' /\ WorkerInv' /\ KeepInv' /\ FitInv'
  BY <1>1, <1>2, PlacesKept
<1>4. TypeOK' BY <1>1, <1>2 DEF IInv, TypeOK
<1>5. \A s \in Requests : s # r => Slots(s)' = Slots(s) BY <1>1 DEF Slots
<1>6. Slots(r)' = SlotsOf(t) BY <1>1 DEF Slots, SlotsOf
<1> QED BY <1>1, <1>3, <1>4, <1>5, <1>6

\* A slot is taken while there is one, else the request waits for it.
LEMMA AcquireSlotStep ==
    ASSUME IInv, NEW r \in Requests, AcquireSlot(r) PROVE IInv'
<1>1. /\ req[r] \in Request /\ Len(req[r].frames) \in Nat /\ Phases(req[r])
      /\ Slots(r) = SlotsOf(req[r])
  BY Records DEF IInv, PhaseInv
<1>2. req[r].acquire = "slot" /\ UNCHANGED <<deploy, pools, items, worker, purge>>
  BY DEF AcquireSlot
<1>3. used \in Nat /\ queue \in Seq(Requests) /\ Limit \in Int /\ Limit' = Limit
  BY <1>2, PoolAssumption DEF IInv, TypeOK, Limit
<1>4. \A i \in 1 .. Len(queue) : queue[i] # r BY <1>2 DEF IInv, SlotInv
<1>5. CASE Limit <= 0 \/ used < Limit
  <2> DEFINE t == [req[r] EXCEPT !.acquire = "load"]
  <2>1. t \in Request BY <1>1 DEF Request
  <2>2. t.acquire = "load" /\ t.handler = req[r].handler /\ t.prog = req[r].prog
        /\ t.pool = req[r].pool /\ t.script = req[r].script /\ t.frames = req[r].frames
        /\ t.done = req[r].done /\ t.canceled = req[r].canceled
    BY <1>1 DEF Request
  <2>3. /\ req' = [req EXCEPT ![r] = t] /\ queue' = queue
        /\ used' = IF Limit <= 0 THEN used ELSE used + 1
    BY <1>5 DEF AcquireSlot
  <2> HIDE DEF t
  <2>4. Phases(t) BY <1>1, <1>2, <2>2 DEF Phases, Winding
  <2>5. SlotsOf(t) = SlotsOf(req[r]) + 1
    <3>1. CASE req[r].script = "free" BY <1>1, <1>2, <2>2, <3>1 DEF SlotsOf
    <3>2. CASE req[r].script # "free" BY <1>1, <1>2, <2>2, <3>2 DEF SlotsOf
    <3> QED BY <3>1, <3>2
  <2>6. used' \in Nat BY <1>3, <2>3
  <2>7. /\ TypeOK' /\ PhaseInv' /\ OneOwner' /\ WorkerInv' /\ KeepInv' /\ FitInv'
        /\ Slots(r)' = SlotsOf(t)
        /\ \A s \in Requests : s # r => Slots(s)' = Slots(s)
        /\ req'[r] = t /\ \A s \in Requests : s # r => req'[s] = req[s]
    BY <1>2, <1>3, <2>1, <2>2, <2>3, <2>4, <2>6, SlotStep
  <2>8. /\ IsFiniteSet(SlotHolders')
        /\ Cardinality(SlotHolders') = Cardinality(SlotHolders) + 1
    BY <1>1, <2>5, <2>7, HolderAdded
  <2>9. queue = <<>> BY <1>3, <1>5 DEF IInv, SlotInv
  <2>10. SlotInv'
    <3>1. used' = IF Limit' > 0 THEN Cardinality(SlotHolders') ELSE 0
      BY <1>3, <2>3, <2>8 DEF IInv, SlotInv
    <3>2. Limit' > 0 => used' <= Limit' BY <1>3, <1>5, <2>3
    <3>3. \A s \in Requests :
            req'[s].acquire = "wait" <=> \E i \in 1 .. Len(queue) : queue[i] = s
      BY <1>4, <2>2, <2>7 DEF IInv, SlotInv
    <3> QED BY <2>3, <2>8, <2>9, <3>1, <3>2, <3>3 DEF IInv, SlotInv
  <2> QED BY <2>7, <2>10 DEF IInv
<1>6. CASE ~(Limit <= 0 \/ used < Limit)
  <2> DEFINE t == [req[r] EXCEPT !.acquire = "wait"]
  <2>1. t \in Request BY <1>1 DEF Request
  <2>2. t.acquire = "wait" /\ t.handler = req[r].handler /\ t.prog = req[r].prog
        /\ t.pool = req[r].pool /\ t.script = req[r].script /\ t.frames = req[r].frames
        /\ t.done = req[r].done /\ t.canceled = req[r].canceled
    BY <1>1 DEF Request
  <2>3. req' = [req EXCEPT ![r] = t] /\ queue' = Append(queue, r) /\ used' = used
    BY <1>6 DEF AcquireSlot
  <2> HIDE DEF t
  <2>4. Phases(t) BY <1>1, <1>2, <2>2 DEF Phases, Winding
  <2>5. SlotsOf(t) = SlotsOf(req[r]) BY <1>1, <1>2, <2>2 DEF SlotsOf
  <2>6. queue' \in Seq(Requests) BY <1>3, <2>3
  <2>7. /\ TypeOK' /\ PhaseInv' /\ OneOwner' /\ WorkerInv' /\ KeepInv' /\ FitInv'
        /\ Slots(r)' = SlotsOf(t)
        /\ \A s \in Requests : s # r => Slots(s)' = Slots(s)
        /\ req'[r] = t /\ \A s \in Requests : s # r => req'[s] = req[s]
    BY <1>2, <1>3, <2>1, <2>2, <2>3, <2>4, <2>6, SlotStep
  <2>8. SlotHolders' = SlotHolders BY <1>1, <2>5, <2>7 DEF SlotHolders
  <2>9. /\ Len(queue') = Len(queue) + 1 /\ queue'[Len(queue) + 1] = r
        /\ \A i \in 1 .. Len(queue) : queue'[i] = queue[i]
        /\ Len(queue) \in Nat
    BY <1>3, <2>3
  <2>10. SlotInv'
    <3>1. used' = Limit' /\ Limit' > 0 BY <1>3, <1>6, <2>3 DEF IInv, SlotInv
    <3>2. \A s \in Requests :
            req'[s].acquire = "wait" <=> \E i \in 1 .. Len(queue') : queue'[i] = s
      <4> TAKE s \in Requests
      <4>1. CASE s = r
        <5>1. Len(queue) + 1 \in 1 .. Len(queue') BY <2>9
        <5> QED BY <2>2, <2>7, <2>9, <4>1, <5>1
      <4>2. CASE s # r
        <5>1. req'[s].acquire = "wait" <=> \E i \in 1 .. Len(queue) : queue[i] = s
          BY <2>7, <4>2 DEF IInv, SlotInv
        <5>2. \A i \in 1 .. Len(queue) : i \in 1 .. Len(queue') /\ queue'[i] = queue[i]
          BY <2>9
        <5>3. \A i \in 1 .. Len(queue') : i \in 1 .. Len(queue) \/ queue'[i] = r
          BY <2>9
        <5> QED BY <4>2, <5>1, <5>2, <5>3
      <4> QED BY <4>1, <4>2
    <3>3. \A i, j \in 1 .. Len(queue') : queue'[i] = queue'[j] => i = j
      <4> TAKE i, j \in 1 .. Len(queue')
      <4>1. (i \in 1 .. Len(queue) \/ i = Len(queue) + 1)
            /\ (j \in 1 .. Len(queue) \/ j = Len(queue) + 1)
        BY <2>9
      <4> QED BY <1>4, <2>9, <4>1 DEF IInv, SlotInv
    <3> QED BY <1>3, <2>3, <2>8, <3>1, <3>2, <3>3 DEF IInv, SlotInv
  <2> QED BY <2>7, <2>10 DEF IInv
<1> QED BY <1>5, <1>6

\* LoadOrStore: the pool that is stored is new, and one that was stored
\* meanwhile stands.
LEMMA StorePoolStep ==
    ASSUME IInv, NEW r \in Requests, StorePool(r) PROVE IInv'
<1>1. /\ req[r] \in Request /\ Len(req[r].frames) \in Nat
      /\ Len(req[r].frames) = 0 <=> req[r].frames = <<>>
  BY Records DEF IInv
<1>2. /\ Phases(req[r]) /\ req[r].acquire = "store"
      /\ UNCHANGED <<deploy, used, queue, worker, purge>>
  BY DEF IInv, PhaseInv, StorePool
<1>3. req[r].prog \in Programs BY <1>2 DEF Phases
<1>4. ASSUME NEW q \in Pools
      PROVE  LET t == [req[r] EXCEPT !.pool = q, !.acquire = "get"] IN
               /\ t \in Request /\ t.pool = q /\ t.acquire = "get"
               /\ t.frames = req[r].frames /\ Phases(t)
               /\ SlotsOf(t) = SlotsOf(req[r])
  <2> DEFINE t == [req[r] EXCEPT !.pool = q, !.acquire = "get"]
  <2>1. t \in Request BY <1>1 DEF Request
  <2>2. t.pool = q /\ t.acquire = "get"
        /\ t.handler = req[r].handler /\ t.prog = req[r].prog /\ t.script = req[r].script
        /\ t.frames = req[r].frames /\ t.done = req[r].done
        /\ t.canceled = req[r].canceled
    BY <1>1 DEF Request
  <2> HIDE DEF t
  <2>3. Phases(t) BY <1>1, <1>2, <2>2 DEF Phases, Winding
  <2>4. SlotsOf(t) = SlotsOf(req[r]) BY <1>1, <1>2, <2>2 DEF SlotsOf
  <2> QED BY <2>1, <2>2, <2>3, <2>4 DEF t
<1>5. CASE pools[req[r].prog] # None
  <2> DEFINE q == pools[req[r].prog]
             t == [req[r] EXCEPT !.pool = q, !.acquire = "get"]
  <2>1. q \in Pools BY <1>3, <1>5 DEF IInv, TypeOK
  <2>2. req' = [req EXCEPT ![r] = t] /\ UNCHANGED <<pools, items>>
    BY <1>5 DEF StorePool
  <2>3. \E p \in Programs : pools[p] = q BY <1>3
  <2> HIDE DEF q
  <2>4. /\ t \in Request /\ t.pool = q /\ t.acquire = "get"
        /\ t.frames = req[r].frames /\ Phases(t) /\ SlotsOf(t) = SlotsOf(req[r])
    BY <1>4, <2>1
  <2> HIDE DEF t
  <2> QED BY <1>2, <2>2, <2>3, <2>4, ControlStep
<1>6. CASE pools[req[r].prog] = None
  <2>1. PICK q \in Pools :
          /\ ~PoolReached(q) /\ items[q] = <<>>
          /\ pools' = [pools EXCEPT ![req[r].prog] = q]
          /\ items' = [items EXCEPT ![q] = <<>>]
          /\ req' = [req EXCEPT ![r].pool = q, ![r].acquire = "get"]
    BY <1>6 DEF StorePool
  <2> DEFINE t == [req[r] EXCEPT !.pool = q, !.acquire = "get"]
  <2>2. req' = [req EXCEPT ![r] = t] BY <2>1
  <2>3. /\ t \in Request /\ t.pool = q /\ t.acquire = "get"
        /\ t.frames = req[r].frames /\ Phases(t) /\ SlotsOf(t) = SlotsOf(req[r])
    BY <1>4
  <2> HIDE DEF t
  <2>4. items' = items BY <2>1 DEF IInv, TypeOK
  <2>5. /\ pools' \in [Programs -> Pools \cup {None}] /\ pools'[req[r].prog] = q
        /\ \A p \in Programs : pools[p] # None => pools'[p] = pools[p]
    BY <1>3, <1>6, <2>1 DEF IInv, TypeOK
  <2>6. /\ req' \in [Requests -> Request] /\ req'[r] = t
        /\ \A s \in Requests : s # r => req'[s] = req[s]
    BY <2>2, <2>3 DEF IInv, TypeOK
  <2>7. \A s \in Requests :
          /\ req'[s].frames = req[s].frames
          /\ req'[s].pool # None => \/ req'[s].pool = req[s].pool
                                    \/ \E p \in Programs : pools'[p] = req'[s].pool
          /\ Phases(req'[s])
    BY <1>3, <2>3, <2>5, <2>6 DEF IInv, PhaseInv
  <2>8. PhaseInv' /\ OneOwner' /\ WorkerInv' /\ KeepInv' /\ FitInv'
    BY <1>2, <2>4, <2>5, <2>6, <2>7, PlacesKept
  <2>9. TypeOK' BY <1>2, <2>4, <2>5, <2>6, <2>7 DEF IInv, TypeOK
  <2>10. \A s \in Requests : Slots(s)' = Slots(s) BY <2>3, <2>6 DEF Slots, SlotsOf
  <2>11. SlotHolders' = SlotHolders BY <2>10 DEF SlotHolders
  <2>12. SlotInv' BY <1>2, <2>3, <2>6, <2>11 DEF IInv, SlotInv, Limit
  <2> QED BY <2>8, <2>9, <2>12 DEF IInv
<1> QED BY <1>5, <1>6

-----------------------------------------------------------------------------
\* The VMs of a pool by index: idle in it, or in a frame that names it.
LEMMA BelongingByIndex ==
    ASSUME NEW x
    PROVE  \A q \in Pools : x \in Belonging(q) <=>
             \/ x \in Idle(q)
             \/ \E s \in Requests : \E i \in 1 .. Len(req[s].frames) :
                  req[s].frames[i].vm = x /\ req[s].frames[i].from = q
BY DEF Belonging, Elems

\* The same after a step.
LEMMA BelongingByIndexNext ==
    ASSUME NEW x
    PROVE  \A q \in Pools : x \in Belonging(q)' <=>
             \/ x \in Idle(q)'
             \/ \E s \in Requests : \E i \in 1 .. Len(req'[s].frames) :
                  req'[s].frames[i].vm = x /\ req'[s].frames[i].from = q
BY DEF Belonging, Elems

\* What Started makes of the request.
LEMMA StartedRecord ==
    ASSUME IInv, NEW r \in Requests, NEW v \in VMs, req[r].acquire = "get", Started(r, v)
    PROVE  \E t \in Request :
             /\ req' = [req EXCEPT ![r] = t]
             /\ t.frames = Append(req[r].frames, [vm |-> v, from |-> req[r].pool])
             /\ t.acquire = "no" /\ t.pool = None /\ Phases(t)
             /\ SlotsOf(t) = SlotsOf(req[r])
<1> DEFINE s == req[r]
           f == [vm |-> v, from |-> s.pool]
           h == IF s.handler = "acquire" THEN "watch" ELSE s.handler
           a == [s EXCEPT !.acquire = "no"]
           b == [a EXCEPT !.pool = None]
           c == [b EXCEPT !.prog = None]
           d == [c EXCEPT !.script = "run"]
           e == [d EXCEPT !.frames = Append(s.frames, f)]
           t == [e EXCEPT !.handler = h]
<1>1. /\ s \in Request /\ Len(s.frames) \in Nat /\ Phases(s)
      /\ s.frames \in Seq([vm : VMs, from : Pools])
  BY Records DEF IInv, PhaseInv
<1>2. s.pool \in Pools /\ s.acquire = "get" /\ Len(s.frames) < MaxDepth
  BY <1>1 DEF Phases
<1>3. f \in [vm : VMs, from : Pools] BY <1>2
<1>4. req' = [req EXCEPT ![r] = t] BY DEF Started
<1> HIDE DEF s
<1> HIDE DEF f
<1>5. /\ Append(s.frames, f) \in Seq([vm : VMs, from : Pools])
      /\ Len(Append(s.frames, f)) = Len(s.frames) + 1
      /\ Append(s.frames, f) # <<>>
  BY <1>1, <1>3, AppendProperties
<1>6. h \in {"start", "event", "compile", "acquire", "watch", "returned"}
  BY <1>1 DEF Request
<1>7. /\ s.handler = "acquire" => h = "watch"
      /\ s.handler # "acquire" => h = s.handler
  OBVIOUS
<1> HIDE DEF h
<1>8. t.handler = h /\ t.acquire = "no" /\ t.pool = None /\ t.prog = None
       /\ t.script = "run" /\ t.frames = Append(s.frames, f)
       /\ t.done = s.done /\ t.canceled = s.canceled
  BY <1>1 DEF Request
<1>9. a \in Request BY <1>1 DEF Request
<1> HIDE DEF a
<1>10. b \in Request BY <1>9 DEF Request
<1> HIDE DEF b
<1>11. c \in Request BY <1>10 DEF Request
<1> HIDE DEF c
<1>12. d \in Request BY ZenonT(60), <1>11 DEF Request
<1> HIDE DEF d
<1>13. e \in Request BY <1>5, <1>12 DEF Request
<1> HIDE DEF e
<1>14. t \in Request BY <1>6, <1>13 DEF Request
<1>15. t.handler = h /\ t.acquire = "no" /\ t.pool = None /\ t.prog = None
       /\ t.script = "run" /\ t.frames = Append(s.frames, f)
       /\ t.done = s.done /\ t.canceled = s.canceled
  BY <1>8
<1> HIDE DEF t
<1>16. s.handler = "acquire" \/ s.script = "execute" BY <1>1, <1>2 DEF Phases
<1>17. s.handler \in {"start", "event", "compile", "acquire", "watch", "returned"}
  BY <1>1 DEF Request
<1>18. h \in {"event", "watch", "returned"}
  BY <1>1, <1>7, <1>16, <1>17 DEF Phases
<1>19. ~Winding(s) \/ s.script = "none"
  BY <1>1, <1>16, <1>17 DEF Winding, Phases
<1>20. h = "returned" => s.canceled
  BY <1>1, <1>7, <1>16, <1>19 DEF Phases
<1>21. s.done = "none" \/ h = "returned"
  BY <1>1, <1>7, <1>16, <1>17, <1>19 DEF Phases
<1>22. Phases(t)
  <2>1. Len(t.frames) <= MaxDepth /\ t.frames # <<>>
    BY <1>1, <1>2, <1>5, <1>15, PoolAssumption
  <2>2. t.handler = "returned" => t.canceled BY <1>15, <1>20
  <2>3. t.handler \in {"event", "watch", "returned"} BY <1>15, <1>18
  <2>4. t.done = "none" \/ t.handler = "returned" BY <1>15, <1>21
  <2>5. t.acquire = "no" /\ t.script = "run" BY <1>15
  <2> QED BY ONLY <2>1, <2>2, <2>3, <2>4, <2>5 DEF Phases
<1>23. SlotsOf(t) = SlotsOf(s)
  <2>1. s.script # "free" BY <1>1, <1>16 DEF Phases
  <2> QED BY <1>1, <1>2, <1>5, <1>15, <2>1 DEF SlotsOf
<1>24. t.frames = Append(req[r].frames, [vm |-> v, from |-> req[r].pool])
  BY <1>15 DEF s, f
<1> QED BY <1>4, <1>14, <1>15, <1>22, <1>23, <1>24 DEF s

\* A request that gets a VM nobody else has: everything but the size of the
\* pools.
LEMMA HandGains ==
    ASSUME IInv, NEW r \in Requests, NEW v \in VMs, req[r].acquire = "get", Started(r, v),
           UNCHANGED <<deploy, used, queue, pools, purge>>,
           items' \in [Pools -> Seq(VMs)],
           worker' \in [VMs -> {"none", "running", "stopped"}],
           \A s \in Requests : v \notin InHand(s),
           \A q \in Pools : Idle(q)' \subseteq Idle(q) \ {v},
           \A q \in Pools, p \in Pools :
             \A i \in 1 .. Len(items'[q]), j \in 1 .. Len(items'[p]) :
               items'[q][i] = items'[p][j] => q = p /\ i = j,
           worker'[v] = "running", \A u \in VMs : u # v => worker'[u] = worker[u]
    PROVE  /\ TypeOK' /\ PhaseInv' /\ OneOwner' /\ WorkerInv' /\ KeepInv' /\ SlotInv'
           /\ Len(req'[r].frames) = Len(req[r].frames) + 1
           /\ req'[r].frames[Len(req[r].frames) + 1] = [vm |-> v, from |-> req[r].pool]
           /\ \A i \in 1 .. Len(req[r].frames) : req'[r].frames[i] = req[r].frames[i]
           /\ \A s \in Requests : s # r => req'[s] = req[s]
<1>1. PICK t \in Request :
        /\ req' = [req EXCEPT ![r] = t]
        /\ t.frames = Append(req[r].frames, [vm |-> v, from |-> req[r].pool])
        /\ t.acquire = "no" /\ t.pool = None /\ Phases(t)
        /\ SlotsOf(t) = SlotsOf(req[r])
  BY StartedRecord
<1>2. /\ req \in [Requests -> Request] /\ req'[r] = t
      /\ \A s \in Requests : s # r => req'[s] = req[s]
      /\ req' \in [Requests -> Request]
  BY <1>1 DEF IInv, TypeOK
<1>3. /\ Len(req[r].frames) \in Nat /\ req[r].frames \in Seq([vm : VMs, from : Pools])
      /\ \A s \in Requests : Slots(s) = SlotsOf(req[s])
      /\ \A s \in Requests : Len(req[s].frames) \in Nat
  BY Records DEF IInv
<1>4. req[r].pool \in Pools BY DEF IInv, PhaseInv, Phases
<1>5. /\ Len(t.frames) = Len(req[r].frames) + 1
      /\ t.frames[Len(req[r].frames) + 1] = [vm |-> v, from |-> req[r].pool]
      /\ \A i \in 1 .. Len(req[r].frames) : t.frames[i] = req[r].frames[i]
  <2>1. [vm |-> v, from |-> req[r].pool] \in [vm : VMs, from : Pools] BY <1>4
  <2> QED BY <1>1, <1>3, <2>1, AppendProperties
<1>6. \A s \in Requests : \A i \in 1 .. Len(req'[s].frames) :
        \/ i \in 1 .. Len(req[s].frames) /\ req'[s].frames[i] = req[s].frames[i]
        \/ s = r /\ i = Len(req[r].frames) + 1
           /\ req'[s].frames[i] = [vm |-> v, from |-> req[r].pool]
  <2> TAKE s \in Requests
  <2> TAKE i \in 1 .. Len(req'[s].frames)
  <2>1. CASE s = r
    <3>1. i \in 1 .. Len(req[r].frames) \/ i = Len(req[r].frames) + 1
      BY <1>2, <1>3, <1>5, <2>1
    <3> QED BY <1>2, <1>5, <2>1, <3>1
  <2>2. CASE s # r BY <1>2, <2>2
  <2> QED BY <2>1, <2>2
<1>7. \A s \in Requests : Phases(req'[s]) BY <1>1, <1>2 DEF IInv, PhaseInv
<1>8. PhaseInv' BY <1>7 DEF PhaseInv, Phases, Winding, Host
<1>9. TypeOK'
  <2>1. \A s \in Requests : Len(req'[s].frames) <= MaxDepth BY <1>7 DEF Phases
  <2> QED BY <1>2, <2>1 DEF IInv, TypeOK
<1>10. \A s \in Requests : Slots(s)' = Slots(s)
  <2>1. \A s \in Requests : Slots(s)' = SlotsOf(req'[s]) BY DEF Slots, SlotsOf
  <2> QED BY <1>1, <1>2, <1>3, <2>1
<1>11. SlotHolders' = SlotHolders BY <1>10 DEF SlotHolders
<1>12. SlotInv' BY <1>1, <1>2, <1>11 DEF IInv, SlotInv, Limit
<1>13. KeepInv'
  <2> SUFFICES ASSUME Host' # "caddy" PROVE KeepInv' BY DEF KeepInv
  <2>1. Host # "caddy" BY DEF Host
  <2>2. /\ ~purge.active /\ purge.todo = {} /\ purge.pool = None
        /\ \A s \in Requests :
             /\ req[s].pool # None => \E p \in Programs : pools[p] = req[s].pool
             /\ \A i \in 1 .. Len(req[s].frames) :
                  \E p \in Programs : pools[p] = req[s].frames[i].from
    BY <2>1 DEF IInv, KeepInv
  <2>3. req[r].pool # None BY <1>4, PoolAssumption
  <2>4. ASSUME NEW s \in Requests, NEW i \in 1 .. Len(req'[s].frames)
        PROVE  \E p \in Programs : pools'[p] = req'[s].frames[i].from
    BY <1>6, <2>2, <2>3
  <2>5. ASSUME NEW s \in Requests, req'[s].pool # None
        PROVE  \E p \in Programs : pools'[p] = req'[s].pool
    BY <1>1, <1>2, <2>2, <2>5
  <2> QED BY <2>2, <2>4, <2>5 DEF KeepInv
<1>14. \A s \in Requests : InHand(s)' \subseteq InHand(s) \cup {v}
  <2> SUFFICES ASSUME NEW s \in Requests, NEW x \in InHand(s)', x # v
               PROVE  x \in InHand(s)
    OBVIOUS
  <2>1. PICK i \in 1 .. Len(req'[s].frames) : req'[s].frames[i].vm = x
    BY DEF InHand, Elems
  <2>2. i \in 1 .. Len(req[s].frames) /\ req'[s].frames[i] = req[s].frames[i]
    BY <1>6, <2>1
  <2> QED BY <2>1, <2>2 DEF InHand, Elems
<1>15. OneOwner'
  <2>1. \A s \in Requests : \A i \in 1 .. Len(req[s].frames) : req[s].frames[i].vm # v
    BY DEF InHand, Elems
  <2>2. ASSUME NEW r1 \in Requests, NEW s1 \in Requests,
               NEW i \in 1 .. Len(req'[r1].frames), NEW j \in 1 .. Len(req'[s1].frames),
               req'[r1].frames[i].vm = req'[s1].frames[j].vm
        PROVE  r1 = s1 /\ i = j
    <3>1. CASE i \in 1 .. Len(req[r1].frames) /\ req'[r1].frames[i] = req[r1].frames[i]
      <4>1. j \in 1 .. Len(req[s1].frames) /\ req'[s1].frames[j] = req[s1].frames[j]
        BY <1>6, <2>1, <2>2, <3>1
      <4> QED BY <2>2, <3>1, <4>1 DEF IInv, OneOwner
    <3>2. CASE r1 = r /\ i = Len(req[r].frames) + 1
               /\ req'[r1].frames[i] = [vm |-> v, from |-> req[r].pool]
      BY <1>6, <2>1, <2>2, <3>2
    <3> QED BY <1>6, <3>1, <3>2
  <2>3. \A s \in Requests, q \in Pools : InHand(s)' \cap Idle(q)' = {}
    BY <1>14 DEF IInv, OneOwner
  <2> QED BY <2>2, <2>3 DEF OneOwner
<1>16. WorkerInv'
  <2>1. ASSUME NEW u \in VMs, VMReached(u)' PROVE u = v \/ VMReached(u)
    BY <1>14, <2>1 DEF VMReached
  <2> QED BY <2>1 DEF IInv, WorkerInv
<1> QED BY <1>2, <1>5, <1>8, <1>9, <1>12, <1>13, <1>15, <1>16

\* A step after which no pool has a VM it had not before.
LEMMA FitKept ==
    ASSUME IInv, deploy' = deploy,
           \A q \in Pools : Belonging(q)' \subseteq Belonging(q)
    PROVE  FitInv'
<1> SUFFICES ASSUME Limit' > 0, NEW q \in Pools
             PROVE  IsFiniteSet(Belonging(q)') /\ Cardinality(Belonging(q)') <= Limit'
  BY DEF FitInv
<1>1. /\ IsFiniteSet(Belonging(q)) /\ Cardinality(Belonging(q)) <= Limit
      /\ Limit' = Limit /\ Limit \in Int
  BY PoolAssumption DEF IInv, FitInv, Limit, TypeOK
<1>2. /\ IsFiniteSet(Belonging(q)')
      /\ Cardinality(Belonging(q)') <= Cardinality(Belonging(q))
  BY <1>1, FS_Subset
<1>3. Cardinality(Belonging(q)') \in Nat /\ Cardinality(Belonging(q)) \in Nat
  BY <1>1, <1>2, FS_CardinalityType
<1> QED BY <1>1, <1>2, <1>3

\* While a request is between its slot and its VM, the VMs in hand are
\* fewer than the slots taken: each has a slot of its own and this request
\* has one to spare.
LEMMA RoomForOne ==
    ASSUME IInv, Limit > 0, NEW r \in Requests, req[r].acquire = "get",
           NEW q \in Pools, items[q] = <<>>
    PROVE  IsFiniteSet(Belonging(q)) /\ Cardinality(Belonging(q)) + 1 <= Limit
<1> DEFINE spare == <<r, Slots(r)>>
           D == {h \in SlotHolders : h[2] <= Len(req[h[1]].frames)}
           f == [h \in D |-> req[h[1]].frames[h[2]].vm]
           T == {f[h] : h \in D}
<1>1. /\ IsFiniteSet(SlotHolders) /\ used = Cardinality(SlotHolders) /\ used <= Limit
      /\ used \in Nat /\ Limit \in Int
  BY PoolAssumption DEF IInv, SlotInv, TypeOK, Limit
<1>2. /\ \A s \in Requests : /\ Len(req[s].frames) \in Nat
                             /\ Slots(s) \in 0 .. MaxDepth
                             /\ Slots(s) = SlotsOf(req[s])
      /\ MaxDepth \in Nat
  BY Records, SlotRange, PoolAssumption DEF IInv
<1>3. Slots(r) = Len(req[r].frames) + 1
  <2>1. req[r].acquire # "no" /\ Phases(req[r]) BY DEF IInv, PhaseInv
  <2>2. req[r].script # "free" BY <2>1 DEF Phases
  <2> QED BY <1>2, <2>2, SlotValues
<1>4. spare \in SlotHolders /\ spare \notin D
  BY <1>2, <1>3 DEF SlotHolders
<1>5. D \subseteq SlotHolders \ {spare} BY <1>4
<1>6. /\ IsFiniteSet(SlotHolders \ {spare})
      /\ Cardinality(SlotHolders \ {spare}) = Cardinality(SlotHolders) - 1
  BY ZenonT(60), <1>1, <1>4, FS_RemoveElement
<1>7. IsFiniteSet(D) /\ Cardinality(D) <= Cardinality(SlotHolders) - 1
  BY <1>5, <1>6, FS_Subset
<1>8. f \in Surjection(D, T) BY DEF Surjection
<1>9. IsFiniteSet(T) /\ Cardinality(T) <= Cardinality(D)
  BY <1>7, <1>8, FS_Surjection
<1>10. Belonging(q) \subseteq T
  <2> SUFFICES ASSUME NEW x \in Belonging(q) PROVE x \in T OBVIOUS
  <2>1. x \notin Idle(q) BY DEF Idle, Elems
  <2>2. PICK s \in Requests : \E i \in 1 .. Len(req[s].frames) : req[s].frames[i].vm = x
    BY <2>1, BelongingByIndex
  <2>3. PICK i \in 1 .. Len(req[s].frames) : req[s].frames[i].vm = x BY <2>2
  <2>4. Slots(s) >= Len(req[s].frames) BY <1>2, SlotValues
  <2>5. <<s, i>> \in SlotHolders BY <1>2, <2>4 DEF SlotHolders
  <2>6. <<s, i>> \in D /\ f[<<s, i>>] = x BY SMTT(30), <2>3, <2>5
  <2> QED BY <2>6
<1>11. IsFiniteSet(Belonging(q)) /\ Cardinality(Belonging(q)) <= Cardinality(T)
  BY ZenonT(60), <1>9, <1>10, FS_Subset
<1>12. /\ Cardinality(Belonging(q)) \in Nat /\ Cardinality(T) \in Nat
       /\ Cardinality(D) \in Nat
  BY <1>7, <1>9, <1>11, FS_CardinalityType
<1> HIDE DEF D, T
<1> QED BY <1>1, <1>7, <1>9, <1>11, <1>12

\* pool.get: an idle VM changes hands, or a new one is made for which there
\* is room.
LEMMA GetVMStep ==
    ASSUME IInv, NEW r \in Requests, GetVM(r) PROVE IInv'
<1> DEFINE q == req[r].pool
<1>1. req[r].acquire = "get" /\ UNCHANGED <<deploy, used, queue, pools, purge>>
  BY DEF GetVM
<1>2. q \in Pools BY <1>1 DEF IInv, PhaseInv, Phases
<1>3. /\ items \in [Pools -> Seq(VMs)] /\ items[q] \in Seq(VMs)
      /\ worker \in [VMs -> {"none", "running", "stopped"}]
  BY <1>2 DEF IInv, TypeOK
<1>4. CASE items[q] # <<>>
  <2> DEFINE n == Len(items[q])
             v == Last(items[q])
  <2>1. n \in Nat /\ n > 0 BY <1>3, <1>4
  <2>2. v = items[q][n] /\ v \in VMs BY <1>3, <2>1, ElementOfSeq DEF Last
  <2>3. Started(r, v) /\ items' = [items EXCEPT ![q] = Front(@)] /\ worker' = worker
    BY <1>4 DEF GetVM
  <2>4. /\ Front(items[q]) \in Seq(VMs) /\ Len(Front(items[q])) = n - 1
        /\ \A i \in 1 .. n - 1 : Front(items[q])[i] = items[q][i]
    <3>1. \A i \in 1 .. n - 1 : items[q][i] \in VMs BY <1>3, <2>1, ElementOfSeq
    <3> HIDE DEF q
    <3> QED BY <2>1, <3>1, SubSeqProperties DEF Front
  <2>5. /\ items' \in [Pools -> Seq(VMs)] /\ items'[q] = Front(items[q])
        /\ \A p \in Pools : p # q => items'[p] = items[p]
    BY <1>2, <1>3, <2>3, <2>4
  <2> HIDE DEF q, v
  <2>6. \A p \in Pools : \A i \in 1 .. Len(items'[p]) :
          /\ i \in 1 .. Len(items[p]) /\ items'[p][i] = items[p][i]
          /\ p = q => i # n
    <3> TAKE p \in Pools
    <3> TAKE i \in 1 .. Len(items'[p])
    <3>1. CASE p = q BY <2>1, <2>4, <2>5, <3>1
    <3>2. CASE p # q BY <2>5, <3>2
    <3> QED BY <3>1, <3>2
  <2>7. n \in 1 .. Len(items[q]) BY <2>1
  <2>8. v \in Idle(q) BY <2>2, <2>7 DEF Idle, Elems
  <2>9. \A s \in Requests : v \notin InHand(s)
    BY <1>2, <2>8 DEF IInv, OneOwner
  <2>10. \A p \in Pools : Idle(p)' \subseteq Idle(p) \ {v}
    <3> SUFFICES ASSUME NEW p \in Pools, NEW x \in Idle(p)'
                 PROVE  x \in Idle(p) \ {v}
      OBVIOUS
    <3>1. PICK i \in 1 .. Len(items'[p]) : items'[p][i] = x BY DEF Idle, Elems
    <3>2. i \in 1 .. Len(items[p]) /\ items[p][i] = x /\ (p = q => i # n)
      BY <2>6, <3>1
    <3>3. x \in Idle(p) BY <3>2 DEF Idle, Elems
    <3>4. x # v BY <1>2, <2>2, <2>7, <3>2 DEF IInv, OneOwner
    <3> QED BY <3>3, <3>4
  <2>11. \A o \in Pools, p \in Pools :
           \A i \in 1 .. Len(items'[o]), j \in 1 .. Len(items'[p]) :
             items'[o][i] = items'[p][j] => o = p /\ i = j
    <3> TAKE o \in Pools, p \in Pools
    <3> TAKE i \in 1 .. Len(items'[o]), j \in 1 .. Len(items'[p])
    <3>1. /\ i \in 1 .. Len(items[o]) /\ items'[o][i] = items[o][i]
          /\ j \in 1 .. Len(items[p]) /\ items'[p][j] = items[p][j]
      BY <2>6
    <3>2. items[o][i] = items[p][j] => o = p /\ i = j BY <3>1 DEF IInv, OneOwner
    <3> QED BY <3>1, <3>2
  <2>12. worker'[v] = "running"
    BY <1>2, <2>2, <2>3, <2>8 DEF IInv, WorkerInv, VMReached
  <2>13. /\ worker' \in [VMs -> {"none", "running", "stopped"}]
         /\ \A u \in VMs : u # v => worker'[u] = worker[u]
         /\ items' \in [Pools -> Seq(VMs)] /\ Started(r, v) /\ v \in VMs
    BY <1>3, <2>2, <2>3, <2>5
  <2>14. /\ TypeOK' /\ PhaseInv' /\ OneOwner' /\ WorkerInv' /\ KeepInv' /\ SlotInv'
         /\ Len(req'[r].frames) = Len(req[r].frames) + 1
         /\ req'[r].frames[Len(req[r].frames) + 1] = [vm |-> v, from |-> req[r].pool]
         /\ \A i \in 1 .. Len(req[r].frames) : req'[r].frames[i] = req[r].frames[i]
         /\ \A s \in Requests : s # r => req'[s] = req[s]
    BY <1>1, <2>9, <2>10, <2>11, <2>12, <2>13, HandGains
  <2>15. Len(req[r].frames) \in Nat BY Records DEF IInv
  <2>16. \A p \in Pools : Belonging(p)' \subseteq Belonging(p)
    <3> SUFFICES ASSUME NEW p \in Pools, NEW x \in Belonging(p)'
                 PROVE  x \in Belonging(p)
      OBVIOUS
    <3>1. CASE x \in Idle(p)' BY <2>10, <3>1 DEF Belonging
    <3>2. CASE x \notin Idle(p)'
      <4>1. PICK s \in Requests : \E i \in 1 .. Len(req'[s].frames) :
              req'[s].frames[i].vm = x /\ req'[s].frames[i].from = p
        BY <3>2, BelongingByIndexNext
      <4>2. PICK i \in 1 .. Len(req'[s].frames) :
              req'[s].frames[i].vm = x /\ req'[s].frames[i].from = p
        BY <4>1
      <4>3. CASE i \in 1 .. Len(req[s].frames)
        <5>1. req'[s].frames[i] = req[s].frames[i] BY <2>14, <4>3
        <5> QED BY <4>2, <4>3, <5>1, BelongingByIndex
      <4>4. CASE i \notin 1 .. Len(req[s].frames)
        <5>1. s = r /\ i = Len(req[r].frames) + 1 BY <2>14, <2>15, <4>4
        <5>2. x = v /\ p = q BY <2>14, <4>2, <5>1 DEF q
        <5> QED BY <2>8, <5>2 DEF Belonging
      <4> QED BY <4>3, <4>4
    <3> QED BY <3>1, <3>2
  <2>17. FitInv' BY <1>1, <2>16, FitKept
  <2> QED BY <2>14, <2>17 DEF IInv
<1>5. CASE items[q] = <<>>
  <2>1. PICK v \in VMs :
          /\ worker[v] = "none" /\ ~VMReached(v)
          /\ worker' = [worker EXCEPT ![v] = "running"]
          /\ Started(r, v)
    BY <1>5 DEF GetVM
  <2>2. items' = items BY <1>5 DEF GetVM
  <2>3. \A p \in Pools : Idle(p)' = Idle(p) BY <2>2 DEF Idle
  <2>4. /\ \A s \in Requests : v \notin InHand(s)
        /\ \A p \in Pools : v \notin Idle(p)
    BY <2>1 DEF VMReached
  <2>5. \A o \in Pools, p \in Pools :
          \A i \in 1 .. Len(items'[o]), j \in 1 .. Len(items'[p]) :
            items'[o][i] = items'[p][j] => o = p /\ i = j
    BY <2>2 DEF IInv, OneOwner
  <2>6. /\ worker' \in [VMs -> {"none", "running", "stopped"}]
        /\ worker'[v] = "running" /\ \A u \in VMs : u # v => worker'[u] = worker[u]
    BY <1>3, <2>1
  <2>7. \A p \in Pools : Idle(p)' \subseteq Idle(p) \ {v} BY <2>3, <2>4
  <2>8. items' \in [Pools -> Seq(VMs)] BY <1>3, <2>2
  <2>9. /\ TypeOK' /\ PhaseInv' /\ OneOwner' /\ WorkerInv' /\ KeepInv' /\ SlotInv'
        /\ Len(req'[r].frames) = Len(req[r].frames) + 1
        /\ req'[r].frames[Len(req[r].frames) + 1] = [vm |-> v, from |-> req[r].pool]
        /\ \A i \in 1 .. Len(req[r].frames) : req'[r].frames[i] = req[r].frames[i]
        /\ \A s \in Requests : s # r => req'[s] = req[s]
    BY <1>1, <2>1, <2>4, <2>5, <2>6, <2>7, <2>8, HandGains
  <2>10. Len(req[r].frames) \in Nat BY Records DEF IInv
  <2>11. \A p \in Pools : \A x \in Belonging(p)' :
           x \in Belonging(p) \/ (p = q /\ x = v)
    <3> SUFFICES ASSUME NEW p \in Pools, NEW x \in Belonging(p)'
                 PROVE  x \in Belonging(p) \/ (p = q /\ x = v)
      OBVIOUS
    <3>1. CASE x \in Idle(p)' BY <2>3, <3>1 DEF Belonging
    <3>2. CASE x \notin Idle(p)'
      <4>1. PICK s \in Requests : \E i \in 1 .. Len(req'[s].frames) :
              req'[s].frames[i].vm = x /\ req'[s].frames[i].from = p
        BY <3>2, BelongingByIndexNext
      <4>2. PICK i \in 1 .. Len(req'[s].frames) :
              req'[s].frames[i].vm = x /\ req'[s].frames[i].from = p
        BY <4>1
      <4>3. CASE i \in 1 .. Len(req[s].frames)
        <5>1. req'[s].frames[i] = req[s].frames[i] BY <2>9, <4>3
        <5> QED BY <4>2, <4>3, <5>1, BelongingByIndex
      <4>4. CASE i \notin 1 .. Len(req[s].frames)
        <5>1. s = r /\ i = Len(req[r].frames) + 1 BY <2>9, <2>10, <4>4
        <5> QED BY <2>9, <4>2, <5>1
      <4> QED BY <4>3, <4>4
    <3> QED BY <3>1, <3>2
  <2>12. FitInv'
    <3> SUFFICES ASSUME Limit' > 0, NEW p \in Pools
                 PROVE  /\ IsFiniteSet(Belonging(p)')
                        /\ Cardinality(Belonging(p)') <= Limit'
      BY DEF FitInv
    <3>1. Limit' = Limit /\ Limit \in Int
      BY <1>1, PoolAssumption DEF IInv, Limit, TypeOK
    <3>2. /\ IsFiniteSet(Belonging(p)) /\ Cardinality(Belonging(p)) <= Limit
          /\ p = q => Cardinality(Belonging(p)) + 1 <= Limit
      BY <1>1, <1>5, <3>1, RoomForOne DEF IInv, FitInv
    <3>3. CASE p = q
      <4>1. Belonging(p)' \subseteq Belonging(p) \cup {v} BY <2>11
      <4>2. /\ IsFiniteSet(Belonging(p) \cup {v})
            /\ Cardinality(Belonging(p) \cup {v}) =
                 IF v \in Belonging(p) THEN Cardinality(Belonging(p))
                 ELSE Cardinality(Belonging(p)) + 1
        BY <3>2, FS_AddElement
      <4>3. /\ IsFiniteSet(Belonging(p)')
            /\ Cardinality(Belonging(p)') <= Cardinality(Belonging(p) \cup {v})
        BY <4>1, <4>2, FS_Subset
      <4>4. /\ Cardinality(Belonging(p)') \in Nat /\ Cardinality(Belonging(p)) \in Nat
            /\ Cardinality(Belonging(p) \cup {v}) \in Nat
        BY <3>2, <4>2, <4>3, FS_CardinalityType
      <4> QED BY <3>1, <3>2, <3>3, <4>2, <4>3, <4>4
    <3>4. CASE p # q
      <4>1. Belonging(p)' \subseteq Belonging(p) BY <2>11, <3>4
      <4>2. /\ IsFiniteSet(Belonging(p)')
            /\ Cardinality(Belonging(p)') <= Cardinality(Belonging(p))
        BY <3>2, <4>1, FS_Subset
      <4>3. /\ Cardinality(Belonging(p)') \in Nat /\ Cardinality(Belonging(p)) \in Nat
        BY <3>2, <4>2, FS_CardinalityType
      <4> QED BY <3>1, <3>2, <4>2, <4>3
    <3> QED BY <3>3, <3>4
  <2> QED BY <2>9, <2>12 DEF IInv
<1> QED BY <1>4, <1>5

\* What PutVM makes of the request.
LEMMA PutRecord ==
    ASSUME IInv, NEW r \in Requests, req[r].script = "put",
           req' = [req EXCEPT ![r].script = "free", ![r].frames = Front(@)]
    PROVE  LET n == Len(req[r].frames) IN
             /\ n \in Nat /\ n > 0
             /\ req'[r] \in Request /\ req' \in [Requests -> Request]
             /\ \A s \in Requests : s # r => req'[s] = req[s]
             /\ Len(req'[r].frames) = n - 1
             /\ \A i \in 1 .. n - 1 : req'[r].frames[i] = req[r].frames[i]
             /\ req'[r].acquire = req[r].acquire /\ req'[r].pool = req[r].pool
             /\ Phases(req'[r]) /\ SlotsOf(req'[r]) = SlotsOf(req[r])
<1> DEFINE n == Len(req[r].frames)
           g == Front(req[r].frames)
           a == [req[r] EXCEPT !.script = "free"]
           t == [a EXCEPT !.frames = g]
<1>1. /\ req[r] \in Request /\ Len(req[r].frames) \in Nat /\ Phases(req[r])
      /\ req[r].frames \in Seq([vm : VMs, from : Pools])
      /\ Len(req[r].frames) = 0 <=> req[r].frames = <<>>
      /\ \A i \in 1 .. Len(req[r].frames) : req[r].frames[i] \in [vm : VMs, from : Pools]
  BY Records DEF IInv, PhaseInv
<1>2. n \in Nat /\ n > 0 /\ n <= MaxDepth BY <1>1 DEF Phases
<1>3. /\ g \in Seq([vm : VMs, from : Pools]) /\ Len(g) = n - 1
      /\ \A i \in 1 .. n - 1 : g[i] = req[r].frames[i]
  <2>1. \A i \in 1 .. n - 1 : req[r].frames[i] \in [vm : VMs, from : Pools]
    BY <1>1, <1>2
  <2> QED BY <1>2, <2>1, SubSeqProperties DEF Front
<1>4. n = 1 => g = <<>> BY <1>3
<1>5. req'= [req EXCEPT ![r] = t] BY DEF IInv, TypeOK
<1> HIDE DEF g
<1>6. t.frames = g /\ t.script = "free" /\ t.handler = req[r].handler
      /\ t.acquire = req[r].acquire /\ t.pool = req[r].pool /\ t.prog = req[r].prog
      /\ t.done = req[r].done /\ t.canceled = req[r].canceled
  BY <1>1 DEF Request
<1>7. a \in Request BY <1>1 DEF Request
<1> HIDE DEF a
<1>8. t \in Request BY <1>3, <1>7 DEF Request
<1> HIDE DEF t
<1>9. req[r].acquire = "no" /\ req[r].handler \in {"event", "watch", "returned"}
  <2>1. req[r].handler \in {"start", "event", "compile", "acquire", "watch", "returned"}
    BY <1>1 DEF Request
  <2> QED BY <1>1, <2>1 DEF Phases
<1>10. Winding(req[r]) => Winding(t)
  BY <1>1, <1>2, <1>4, <1>6 DEF Winding
<1>11. Phases(t)
  <2>1. Len(t.frames) < MaxDepth BY <1>2, <1>3, <1>6, PoolAssumption
  <2>2. t.handler = "returned" => t.canceled \/ Winding(t)
    BY <1>1, <1>6, <1>10 DEF Phases
  <2>3. t.handler = "watch" /\ t.done # "none" => Winding(t)
    BY <1>1, <1>6, <1>10 DEF Phases
  <2>4. t.handler \notin {"watch", "returned"} => t.done = "none"
    BY <1>1, <1>6 DEF Phases
  <2>5. t.acquire = "no" /\ t.script = "free" /\ t.handler \in {"event", "watch", "returned"}
    BY <1>6, <1>9
  <2>6. Len(t.frames) <= MaxDepth BY <1>2, <1>3, <1>6, PoolAssumption
  <2> QED BY ONLY <2>1, <2>2, <2>3, <2>4, <2>5, <2>6 DEF Phases
<1>12. SlotsOf(t) = SlotsOf(req[r])
  <2>1. Len(t.frames) \in Nat /\ Len(t.frames) + 1 = n BY <1>2, <1>3, <1>6
  <2>2. SlotsOf(t) = Len(t.frames) + 1 BY <1>6, <1>9, <2>1, SlotValues
  <2>3. SlotsOf(req[r]) = n BY <1>1, <1>9, SlotValues
  <2> QED BY <2>1, <2>2, <2>3
<1>13. /\ req'[r] = t /\ req' \in [Requests -> Request]
       /\ \A s \in Requests : s # r => req'[s] = req[s]
  <2>1. req \in [Requests -> Request] BY DEF IInv, TypeOK
  <2>2. req' = [req EXCEPT ![r] = t] BY <1>5
  <2> QED BY ONLY <1>8, <2>1, <2>2, r \in Requests
<1> QED BY <1>2, <1>3, <1>6, <1>8, <1>11, <1>12, <1>13

\* pool.put: the VM goes back to the pool it came from, or nowhere.
LEMMA PutVMStep ==
    ASSUME IInv, NEW r \in Requests, PutVM(r) PROVE IInv'
<1> DEFINE n == Len(req[r].frames)
           f == req[r].frames[n]
           k == Len(items[f.from])
<1>1. /\ req[r].script = "put" /\ UNCHANGED <<deploy, used, queue, pools, worker, purge>>
      /\ req' = [req EXCEPT ![r].script = "free", ![r].frames = Front(@)]
      /\ items' = IF k >= Retained THEN items
                  ELSE [items EXCEPT ![f.from] = Append(@, f.vm)]
  BY DEF PutVM, Last
<1>2. /\ n \in Nat /\ n > 0
      /\ req'[r] \in Request /\ req' \in [Requests -> Request]
      /\ \A s \in Requests : s # r => req'[s] = req[s]
      /\ Len(req'[r].frames) = n - 1
      /\ \A i \in 1 .. n - 1 : req'[r].frames[i] = req[r].frames[i]
      /\ req'[r].acquire = req[r].acquire /\ req'[r].pool = req[r].pool
      /\ Phases(req'[r]) /\ SlotsOf(req'[r]) = SlotsOf(req[r])
  BY <1>1, PutRecord
<1>3. n \in 1 .. Len(req[r].frames) BY <1>2
<1>4. f.vm \in VMs /\ f.from \in Pools
  <2>1. f \in [vm : VMs, from : Pools] BY <1>3, Records DEF IInv
  <2> QED BY <2>1
<1>5. items \in [Pools -> Seq(VMs)] /\ k \in Nat BY <1>4 DEF IInv, TypeOK
<1> HIDE DEF f
<1>6. \A s \in Requests : \A i \in 1 .. Len(req'[s].frames) :
        /\ i \in 1 .. Len(req[s].frames) /\ req'[s].frames[i] = req[s].frames[i]
        /\ s = r => i # n
  <2> TAKE s \in Requests
  <2> TAKE i \in 1 .. Len(req'[s].frames)
  <2>1. CASE s = r BY <1>2, <2>1
  <2>2. CASE s # r BY <1>2, <2>2
  <2> QED BY <2>1, <2>2
<1>7. /\ items' \in [Pools -> Seq(VMs)]
      /\ \A q \in Pools : \A i \in 1 .. Len(items'[q]) :
           \/ i \in 1 .. Len(items[q]) /\ items'[q][i] = items[q][i]
           \/ q = f.from /\ i = k + 1 /\ items'[q][i] = f.vm
  <2>1. CASE k >= Retained BY <1>1, <1>5, <2>1
  <2>2. CASE ~(k >= Retained)
    <3>1. items' = [items EXCEPT ![f.from] = Append(@, f.vm)] BY <1>1, <2>2
    <3>2. /\ Append(items[f.from], f.vm) \in Seq(VMs)
          /\ Len(Append(items[f.from], f.vm)) = k + 1
          /\ \A i \in 1 .. k : Append(items[f.from], f.vm)[i] = items[f.from][i]
          /\ Append(items[f.from], f.vm)[k + 1] = f.vm
      BY <1>4, <1>5, AppendProperties
    <3>3. /\ items' \in [Pools -> Seq(VMs)]
          /\ items'[f.from] = Append(items[f.from], f.vm)
          /\ \A q \in Pools : q # f.from => items'[q] = items[q]
      BY <1>4, <1>5, <3>1, <3>2
    <3>4. ASSUME NEW q \in Pools, NEW i \in 1 .. Len(items'[q])
          PROVE  \/ i \in 1 .. Len(items[q]) /\ items'[q][i] = items[q][i]
                 \/ q = f.from /\ i = k + 1 /\ items'[q][i] = f.vm
      <4>1. CASE q = f.from
        <5>1. i \in 1 .. k \/ i = k + 1 BY <1>5, <3>2, <3>3, <4>1
        <5> QED BY <3>2, <3>3, <4>1, <5>1
      <4>2. CASE q # f.from BY <3>3, <4>2
      <4> QED BY <4>1, <4>2
    <3> QED BY <3>3, <3>4
  <2> QED BY <2>1, <2>2
<1>8. \A s \in Requests : InHand(s)' \subseteq InHand(s) \ {f.vm}
  <2> SUFFICES ASSUME NEW s \in Requests, NEW x \in InHand(s)'
               PROVE  x \in InHand(s) \ {f.vm}
    OBVIOUS
  <2>1. PICK i \in 1 .. Len(req'[s].frames) : req'[s].frames[i].vm = x
    BY DEF InHand, Elems
  <2>2. /\ i \in 1 .. Len(req[s].frames) /\ req[s].frames[i].vm = x
        /\ s = r => i # n
    BY <1>6, <2>1
  <2>3. x \in InHand(s) BY <2>2 DEF InHand, Elems
  <2>4. x # f.vm BY SMTT(30), <1>3, <2>2 DEF IInv, OneOwner, f
  <2> QED BY <2>3, <2>4
<1>9. f.vm \in InHand(r) BY <1>3 DEF InHand, Elems, f
<1>10. \A q \in Pools : f.vm \notin Idle(q) BY <1>9 DEF IInv, OneOwner
<1>11. \A q \in Pools : \A x \in Idle(q)' : x \in Idle(q) \/ (q = f.from /\ x = f.vm)
  <2> SUFFICES ASSUME NEW q \in Pools, NEW x \in Idle(q)'
               PROVE  x \in Idle(q) \/ (q = f.from /\ x = f.vm)
    OBVIOUS
  <2>1. PICK i \in 1 .. Len(items'[q]) : items'[q][i] = x BY DEF Idle, Elems
  <2>2. CASE i \in 1 .. Len(items[q]) /\ items'[q][i] = items[q][i]
    BY <2>1, <2>2 DEF Idle, Elems
  <2>3. CASE q = f.from /\ i = k + 1 /\ items'[q][i] = f.vm
    BY <2>1, <2>3
  <2> QED BY <1>7, <2>2, <2>3
<1>12. OneOwner'
  <2>1. ASSUME NEW r1 \in Requests, NEW s1 \in Requests,
               NEW i \in 1 .. Len(req'[r1].frames), NEW j \in 1 .. Len(req'[s1].frames),
               req'[r1].frames[i].vm = req'[s1].frames[j].vm
        PROVE  r1 = s1 /\ i = j
    <3>1. /\ i \in 1 .. Len(req[r1].frames) /\ req'[r1].frames[i] = req[r1].frames[i]
          /\ j \in 1 .. Len(req[s1].frames) /\ req'[s1].frames[j] = req[s1].frames[j]
      BY <1>6
    <3> QED BY <2>1, <3>1 DEF IInv, OneOwner
  <2>2. ASSUME NEW q \in Pools, NEW p \in Pools,
               NEW i \in 1 .. Len(items'[q]), NEW j \in 1 .. Len(items'[p]),
               items'[q][i] = items'[p][j]
        PROVE  q = p /\ i = j
    <3>1. \A o \in Pools : \A l \in 1 .. Len(items[o]) : items[o][l] # f.vm
      BY <1>10 DEF Idle, Elems
    <3>2. CASE i \in 1 .. Len(items[q]) /\ items'[q][i] = items[q][i]
      <4>1. j \in 1 .. Len(items[p]) /\ items'[p][j] = items[p][j]
        BY <1>7, <2>2, <3>1, <3>2
      <4>2. items[q][i] = items[p][j] BY <2>2, <3>2, <4>1
      <4> QED BY <3>2, <4>1, <4>2 DEF IInv, OneOwner
    <3>3. CASE q = f.from /\ i = k + 1 /\ items'[q][i] = f.vm
      BY <1>7, <2>2, <3>1, <3>3
    <3> QED BY <1>7, <3>2, <3>3
  <2>3. \A s \in Requests, q \in Pools : InHand(s)' \cap Idle(q)' = {}
    BY <1>8, <1>11 DEF IInv, OneOwner
  <2> QED BY <2>1, <2>2, <2>3 DEF OneOwner
<1>13. WorkerInv'
  <2>1. ASSUME NEW u \in VMs, VMReached(u)' PROVE VMReached(u)
    BY <1>8, <1>9, <1>11, <2>1 DEF VMReached
  <2> QED BY <1>1, <2>1 DEF IInv, WorkerInv
<1>14. \A q \in Pools : Belonging(q)' \subseteq Belonging(q)
  <2> SUFFICES ASSUME NEW q \in Pools, NEW x \in Belonging(q)'
               PROVE  x \in Belonging(q)
    OBVIOUS
  <2>1. CASE x \in Idle(q)'
    <3>1. CASE x \in Idle(q) BY <3>1 DEF Belonging
    <3>2. CASE q = f.from /\ x = f.vm
      BY <1>3, <3>2, BelongingByIndex DEF f
    <3> QED BY <1>11, <2>1, <3>1, <3>2
  <2>2. CASE x \notin Idle(q)'
    <3>1. PICK s \in Requests : \E i \in 1 .. Len(req'[s].frames) :
            req'[s].frames[i].vm = x /\ req'[s].frames[i].from = q
      BY <2>2, BelongingByIndexNext
    <3>2. \E i \in 1 .. Len(req[s].frames) :
            req[s].frames[i].vm = x /\ req[s].frames[i].from = q
      BY <1>6, <3>1
    <3> QED BY <3>2, BelongingByIndex
  <2> QED BY <2>1, <2>2
<1>15. FitInv' BY <1>1, <1>14, FitKept
<1>16. \A s \in Requests : Phases(req'[s]) BY <1>2 DEF IInv, PhaseInv
<1>17. PhaseInv' BY ZenonT(60), <1>1, <1>16 DEF PhaseInv, Phases, Winding, Host
<1>18. TypeOK'
  <2>1. \A s \in Requests : Len(req'[s].frames) <= MaxDepth BY <1>16 DEF Phases
  <2> QED BY <1>1, <1>2, <1>7, <2>1 DEF IInv, TypeOK
<1>19. \A s \in Requests : Slots(s)' = Slots(s)
  <2>1. \A s \in Requests : Slots(s)' = SlotsOf(req'[s]) /\ Slots(s) = SlotsOf(req[s])
    BY DEF Slots, SlotsOf
  <2> QED BY <1>2, <2>1
<1>20. SlotHolders' = SlotHolders BY <1>19 DEF SlotHolders
<1>21. SlotInv' BY <1>1, <1>2, <1>20 DEF IInv, SlotInv, Limit
<1>22. KeepInv'
  <2> SUFFICES ASSUME Host' # "caddy" PROVE KeepInv' BY DEF KeepInv
  <2>1. Host # "caddy" BY <1>1 DEF Host
  <2>2. /\ ~purge.active /\ purge.todo = {} /\ purge.pool = None
        /\ \A s \in Requests :
             /\ req[s].pool # None => \E p \in Programs : pools[p] = req[s].pool
             /\ \A i \in 1 .. Len(req[s].frames) :
                  \E p \in Programs : pools[p] = req[s].frames[i].from
    BY <2>1 DEF IInv, KeepInv
  <2>3. ASSUME NEW s \in Requests, NEW i \in 1 .. Len(req'[s].frames)
        PROVE  \E p \in Programs : pools'[p] = req'[s].frames[i].from
    <3>1. pools' = pools BY <1>1
    <3>2. i \in 1 .. Len(req[s].frames) /\ req'[s].frames[i] = req[s].frames[i] BY <1>6
    <3> QED BY <2>2, <3>1, <3>2
  <2>4. ASSUME NEW s \in Requests, req'[s].pool # None
        PROVE  \E p \in Programs : pools'[p] = req'[s].pool
    BY <1>1, <1>2, <2>2, <2>4
  <2> QED BY <1>1, <2>2, <2>3, <2>4 DEF KeepInv
<1> QED BY <1>12, <1>13, <1>15, <1>17, <1>18, <1>21, <1>22 DEF IInv

\* A slot that passes from one request to another.
LEMMA HolderMoved ==
    ASSUME IInv, NEW r \in Requests, NEW h \in Requests, h # r,
           \A s \in Requests : s # r /\ s # h => Slots(s)' = Slots(s),
           Slots(r) > 0, Slots(r)' = Slots(r) - 1, Slots(h)' = Slots(h) + 1
    PROVE  /\ IsFiniteSet(SlotHolders')
           /\ Cardinality(SlotHolders') = Cardinality(SlotHolders)
<1> DEFINE x == <<r, Slots(r)>>
           y == <<h, Slots(h) + 1>>
           M == SlotHolders \ {x}
<1>1. \A s \in Requests : Slots(s) \in 0 .. MaxDepth BY SlotRange
<1>2. MaxDepth \in Nat BY PoolAssumption
<1>3. x \in SlotHolders /\ y \notin SlotHolders BY <1>1, <1>2 DEF SlotHolders
<1>4. SlotHolders' = M \cup {y}
  <2>1. ASSUME NEW z \in SlotHolders' PROVE z \in M \cup {y}
    <3>1. z \in Requests \X (1 .. MaxDepth + 1) /\ z[2] <= Slots(z[1])'
      BY DEF SlotHolders
    <3>2. PICK s \in Requests, i \in 1 .. MaxDepth + 1 : z = <<s, i>> BY <3>1
    <3>3. CASE s = r BY <1>1, <1>2, <3>1, <3>2, <3>3 DEF SlotHolders
    <3>4. CASE s = h BY <1>1, <1>2, <3>1, <3>2, <3>4 DEF SlotHolders
    <3>5. CASE s # r /\ s # h BY <1>1, <1>2, <3>1, <3>2, <3>5 DEF SlotHolders
    <3> QED BY <3>3, <3>4, <3>5
  <2>2. ASSUME NEW z \in M \cup {y} PROVE z \in SlotHolders'
    <3>1. CASE z = y BY <1>1, <1>2, <3>1 DEF SlotHolders
    <3>2. CASE z \in M
      <4>1. z \in Requests \X (1 .. MaxDepth + 1) /\ z[2] <= Slots(z[1]) /\ z # x
        BY <3>2 DEF SlotHolders
      <4>2. PICK s \in Requests, i \in 1 .. MaxDepth + 1 : z = <<s, i>> BY <4>1
      <4>3. i <= Slots(s)'
        <5>1. CASE s = r BY <1>1, <1>2, <4>1, <4>2, <5>1
        <5>2. CASE s = h BY <1>1, <1>2, <4>1, <4>2, <5>2
        <5>3. CASE s # r /\ s # h BY <4>1, <4>2, <5>3
        <5> QED BY <5>1, <5>2, <5>3
      <4> QED BY <4>2, <4>3 DEF SlotHolders
    <3> QED BY <2>2, <3>1, <3>2
  <2> QED BY <2>1, <2>2
<1>5. IsFiniteSet(SlotHolders) BY DEF IInv, SlotInv
<1>6. y \notin M BY <1>3
<1> HIDE DEF x, y
<1>7. IsFiniteSet(M) /\ Cardinality(M) = Cardinality(SlotHolders) - 1
  BY <1>3, <1>5, FS_RemoveElement
<1> HIDE DEF M
<1>8. IsFiniteSet(M \cup {y}) /\ Cardinality(M \cup {y}) = Cardinality(M) + 1
  BY <1>6, <1>7, FS_AddElement
<1>9. Cardinality(SlotHolders) \in Nat BY <1>5, FS_CardinalityType
<1> QED BY <1>4, <1>7, <1>8, <1>9

\* What releasing makes of the request: its thread goes on with the parent
\* script, reports, or has ended.
LEMMA ReleasedRecord ==
    ASSUME IInv, NEW r \in Requests, req[r].script = "free"
    PROVE  \E t \in Request :
             /\ Released(r) = [req EXCEPT ![r] = t]
             /\ t.frames = req[r].frames /\ t.pool = req[r].pool
             /\ t.acquire = "no" /\ req[r].acquire = "no"
             /\ Phases(t) /\ SlotsOf(t) = SlotsOf(req[r]) - 1
             /\ SlotsOf(req[r]) > 0
<1> DEFINE sc == AfterRelease(r)
           hd == IF Event(r) /\ req[r].frames = <<>> THEN "compile" ELSE req[r].handler
           a == [req[r] EXCEPT !.script = sc]
           t == [a EXCEPT !.handler = hd]
<1>1. /\ req[r] \in Request /\ Len(req[r].frames) \in Nat /\ Phases(req[r])
      /\ Len(req[r].frames) = 0 <=> req[r].frames = <<>>
  BY Records DEF IInv, PhaseInv
<1>2. Released(r) = [req EXCEPT ![r] = t] BY DEF Released, IInv, TypeOK
<1>3. req[r].handler \in {"start", "event", "compile", "acquire", "watch", "returned"}
  BY <1>1 DEF Request
<1>4. req[r].acquire = "no" /\ req[r].handler \in {"event", "watch", "returned"}
  BY <1>1, <1>3 DEF Phases
<1>5. hd \in {"start", "event", "compile", "acquire", "watch", "returned"} BY <1>3
<1>6. /\ req[r].handler = "event" /\ req[r].frames = <<>> => hd = "compile"
      /\ req[r].handler # "event" \/ req[r].frames # <<>> => hd = req[r].handler
  BY DEF Event
<1>7. /\ req[r].frames # <<>> => sc = "run"
      /\ req[r].frames = <<>> /\ req[r].handler = "event" => sc = "none"
      /\ req[r].frames = <<>> /\ Host # "server" => sc = "none"
      /\ req[r].frames = <<>> /\ Host = "server" /\ req[r].handler # "event" => sc = "send"
      /\ sc \in {"run", "none", "send"}
  BY DEF AfterRelease, Event
<1> HIDE DEF sc, hd
<1>8. t.frames = req[r].frames /\ t.script = sc /\ t.handler = hd
      /\ t.acquire = req[r].acquire /\ t.pool = req[r].pool /\ t.prog = req[r].prog
      /\ t.done = req[r].done /\ t.canceled = req[r].canceled
  BY <1>1 DEF Request
<1>9. a \in Request BY <1>1, <1>7 DEF Request
<1> HIDE DEF a
<1>10. t \in Request BY <1>5, <1>9 DEF Request
<1> HIDE DEF t
<1>11. SlotsOf(t) = SlotsOf(req[r]) - 1 /\ SlotsOf(req[r]) > 0
  <2>1. t.script # "free" /\ t.acquire \notin {"load", "store", "get"}
    BY <1>4, <1>7, <1>8
  <2>2. SlotsOf(t) = Len(t.frames) BY <1>1, <1>8, <2>1, SlotValues
  <2>3. SlotsOf(req[r]) = Len(req[r].frames) + 1 BY <1>1, <1>4, SlotValues
  <2> QED BY <1>1, <1>8, <2>2, <2>3
<1>12. Phases(t)
  <2>1. CASE req[r].frames # <<>>
    <3>1. ~Winding(req[r]) BY <2>1 DEF Winding
    <3> QED BY <1>1, <1>4, <1>6, <1>7, <1>8, <2>1, <3>1 DEF Phases
  <2>2. CASE req[r].frames = <<>> /\ req[r].handler = "event"
    BY <1>1, <1>4, <1>6, <1>7, <1>8, <2>2 DEF Phases, Winding
  <2>3. CASE req[r].frames = <<>> /\ req[r].handler # "event" /\ Host # "server"
    BY <1>1, <1>4, <1>6, <1>7, <1>8, <2>3 DEF Phases, Winding
  <2>4. CASE req[r].frames = <<>> /\ req[r].handler # "event" /\ Host = "server"
    <3>1. ~Winding(req[r]) BY <2>4 DEF Winding
    <3> QED BY <1>1, <1>4, <1>6, <1>7, <1>8, <2>4, <3>1 DEF Phases
  <2> QED BY <2>1, <2>2, <2>3, <2>4
<1> QED BY <1>2, <1>4, <1>8, <1>10, <1>11, <1>12

\* releaseVMPoolSlot: the slot goes to the request that has waited longest,
\* or back to the limiter.
LEMMA FreeSlotStep ==
    ASSUME IInv, NEW r \in Requests, FreeSlot(r) PROVE IInv'
<1>1. req[r].script = "free" /\ UNCHANGED <<deploy, pools, items, worker, purge>>
  BY DEF FreeSlot
<1>2. PICK t \in Request :
        /\ Released(r) = [req EXCEPT ![r] = t]
        /\ t.frames = req[r].frames /\ t.pool = req[r].pool
        /\ t.acquire = "no" /\ req[r].acquire = "no"
        /\ Phases(t) /\ SlotsOf(t) = SlotsOf(req[r]) - 1
        /\ SlotsOf(req[r]) > 0
  BY <1>1, ReleasedRecord
<1>3. used \in Nat /\ queue \in Seq(Requests) /\ Limit \in Int /\ Limit' = Limit
  BY <1>1, PoolAssumption DEF IInv, TypeOK, Limit
<1>4. Slots(r) = SlotsOf(req[r]) BY Records DEF IInv
<1>5. req \in [Requests -> Request] BY DEF IInv, TypeOK
<1>6. CASE ~(Limit > 0 /\ queue # <<>>)
  <2>1. /\ req' = [req EXCEPT ![r] = t] /\ queue' = queue
        /\ used' = IF Limit > 0 /\ used > 0 THEN used - 1 ELSE used
    BY <1>2, <1>6 DEF FreeSlot
  <2>2. used' \in Nat BY <1>3, <2>1
  <2>3. /\ TypeOK' /\ PhaseInv' /\ OneOwner' /\ WorkerInv' /\ KeepInv' /\ FitInv'
        /\ Slots(r)' = SlotsOf(t)
        /\ \A s \in Requests : s # r => Slots(s)' = Slots(s)
        /\ req'[r] = t /\ \A s \in Requests : s # r => req'[s] = req[s]
    BY <1>1, <1>2, <1>3, <2>1, <2>2, SlotStep
  <2>4. /\ IsFiniteSet(SlotHolders')
        /\ Cardinality(SlotHolders') = Cardinality(SlotHolders) - 1
        /\ Cardinality(SlotHolders) > 0
    BY <1>2, <1>4, <2>3, HolderRemoved
  <2>5. SlotInv'
    <3>1. queue = <<>> BY <1>6 DEF IInv, SlotInv
    <3>2. used' = IF Limit' > 0 THEN Cardinality(SlotHolders') ELSE 0
      BY <1>3, <2>1, <2>4 DEF IInv, SlotInv
    <3>3. Limit' > 0 => used' <= Limit' BY <1>3, <2>1 DEF IInv, SlotInv
    <3>4. \A s \in Requests :
            req'[s].acquire = "wait" <=> \E i \in 1 .. Len(queue) : queue[i] = s
      BY <1>2, <2>3 DEF IInv, SlotInv
    <3> QED BY <2>1, <2>4, <3>1, <3>2, <3>3, <3>4 DEF IInv, SlotInv
  <2> QED BY <2>3, <2>5 DEF IInv
<1>7. CASE Limit > 0 /\ queue # <<>>
  <2>1. PICK h \in Requests : /\ h = Head(queue) /\ h = queue[1]
                              /\ Len(queue) \in Nat /\ Len(queue) > 0
    BY <1>3, <1>7, HeadTailProperties
  <2> DEFINE u == [req[h] EXCEPT !.acquire = "load"]
  <2>2. 1 \in 1 .. Len(queue) BY <2>1
  <2>3. req[h].acquire = "wait" /\ h # r BY <1>2, <2>1, <2>2 DEF IInv, SlotInv
  <2>4. req' = [[req EXCEPT ![r] = t] EXCEPT ![h].acquire = "load"]
        /\ queue' = Tail(queue) /\ used' = used
    BY <1>2, <1>7, <2>1 DEF FreeSlot
  <2>5. /\ req[h] \in Request /\ Len(req[h].frames) \in Nat /\ Phases(req[h])
        /\ Slots(h) = SlotsOf(req[h])
    BY <2>1, Records DEF IInv, PhaseInv
  <2>6. u \in Request BY <2>5 DEF Request
  <2>7. u.acquire = "load" /\ u.handler = req[h].handler /\ u.prog = req[h].prog
        /\ u.pool = req[h].pool /\ u.script = req[h].script /\ u.frames = req[h].frames
        /\ u.done = req[h].done /\ u.canceled = req[h].canceled
    BY <2>5 DEF Request
  <2>8. /\ req' \in [Requests -> Request] /\ req'[r] = t /\ req'[h] = u
        /\ \A s \in Requests : s # r /\ s # h => req'[s] = req[s]
    BY <1>5, <2>1, <2>3, <2>4, <2>6
  <2> HIDE DEF u
  <2>9. Phases(u) BY <2>3, <2>5, <2>7 DEF Phases, Winding
  <2>10. SlotsOf(u) = SlotsOf(req[h]) + 1
    <3>1. req[h].script # "free" BY <2>3, <2>5 DEF Phases
    <3>2. SlotsOf(u) = Len(u.frames) + 1 BY <2>5, <2>7, <3>1, SlotValues
    <3>3. SlotsOf(req[h]) = Len(req[h].frames) BY <2>3, <2>5, <3>1, SlotValues
    <3> QED BY <2>7, <3>2, <3>3
  <2>11. \A s \in Requests : /\ Phases(req'[s]) /\ req'[s].frames = req[s].frames
                             /\ req'[s].pool = req[s].pool
    BY <1>2, <2>7, <2>8, <2>9 DEF IInv, PhaseInv
  <2>12. PhaseInv' /\ OneOwner' /\ WorkerInv' /\ KeepInv' /\ FitInv'
    BY <1>1, <2>8, <2>11, PlacesKept
  <2>13. /\ Tail(queue) \in Seq(Requests) /\ Len(Tail(queue)) = Len(queue) - 1
         /\ \A i \in 1 .. Len(Tail(queue)) : Tail(queue)[i] = queue[i + 1]
    BY <1>3, <1>7, HeadTailProperties
  <2>14. TypeOK' BY <1>1, <1>3, <2>4, <2>8, <2>11, <2>13 DEF IInv, TypeOK
  <2>15. /\ \A s \in Requests : s # r /\ s # h => Slots(s)' = Slots(s)
         /\ Slots(r)' = SlotsOf(t) /\ Slots(h)' = SlotsOf(u)
    <3>1. \A s \in Requests : Slots(s)' = SlotsOf(req'[s]) /\ Slots(s) = SlotsOf(req[s])
      BY DEF Slots, SlotsOf
    <3> QED BY <2>1, <2>8, <3>1
  <2>16. /\ IsFiniteSet(SlotHolders')
         /\ Cardinality(SlotHolders') = Cardinality(SlotHolders)
    <3>1. Slots(r)' = Slots(r) - 1 /\ Slots(r) > 0 BY <1>2, <1>4, <2>15
    <3>2. Slots(h)' = Slots(h) + 1 BY <2>5, <2>10, <2>15
    <3>3. h \in Requests /\ h # r BY <2>1, <2>3
    <3>4. \A s \in Requests : s # r /\ s # h => Slots(s)' = Slots(s) BY <2>15
    <3> QED BY <3>1, <3>2, <3>3, <3>4, HolderMoved
  <2>17. SlotInv'
    <3>1. \A i \in 1 .. Len(queue') : i + 1 \in 1 .. Len(queue) /\ queue'[i] = queue[i + 1]
      BY <2>1, <2>4, <2>13
    <3>2. \A i, j \in 1 .. Len(queue) : queue[i] = queue[j] => i = j
      BY DEF IInv, SlotInv
    <3>3. \A i \in 1 .. Len(queue) : i # 1 => i - 1 \in 1 .. Len(queue')
                                             /\ queue'[i - 1] = queue[i]
      BY <2>1, <2>4, <2>13
    <3>4. \A s \in Requests :
            req'[s].acquire = "wait" <=> \E i \in 1 .. Len(queue') : queue'[i] = s
      <4> TAKE s \in Requests
      <4>1. req[s].acquire = "wait" <=> \E i \in 1 .. Len(queue) : queue[i] = s
        BY DEF IInv, SlotInv
      <4>2. CASE s = h
        <5>1. ~(\E i \in 1 .. Len(queue') : queue'[i] = s)
          <6> SUFFICES ASSUME NEW i \in 1 .. Len(queue'), queue'[i] = s PROVE FALSE
            OBVIOUS
          <6>1. i + 1 \in 1 .. Len(queue) /\ queue[i + 1] = queue[1]
            BY <2>1, <3>1, <4>2
          <6>2. i + 1 = 1 BY <2>2, <3>2, <6>1
          <6> QED BY <6>2
        <5> QED BY <2>7, <2>8, <4>2, <5>1
      <4>3. CASE s = r
        <5>1. ~(\E i \in 1 .. Len(queue) : queue[i] = s) BY <1>2, <4>1, <4>3
        <5>2. ~(\E i \in 1 .. Len(queue') : queue'[i] = s) BY <3>1, <5>1
        <5> QED BY <1>2, <2>8, <4>3, <5>2
      <4>4. CASE s # h /\ s # r
        <5>1. (\E i \in 1 .. Len(queue) : queue[i] = s)
                <=> \E i \in 1 .. Len(queue') : queue'[i] = s
          BY <2>1, <3>1, <3>3, <4>4
        <5> QED BY <2>8, <4>1, <4>4, <5>1
      <4> QED BY <4>2, <4>3, <4>4
    <3>5. \A i, j \in 1 .. Len(queue') : queue'[i] = queue'[j] => i = j
      <4> TAKE i, j \in 1 .. Len(queue')
      <4>1. queue'[i] = queue'[j] => i + 1 = j + 1 BY <3>1, <3>2
      <4> QED BY <4>1
    <3>6. used = Limit /\ used = Cardinality(SlotHolders) BY <1>7 DEF IInv, SlotInv
    <3>7. used' = Limit' /\ used' = Cardinality(SlotHolders') /\ Limit' > 0
      BY <1>3, <1>7, <2>4, <2>16, <3>6
    <3>8. used' <= Limit' BY <1>3, <3>7
    <3> QED BY <2>16, <3>4, <3>5, <3>7, <3>8 DEF SlotInv
  <2> QED BY <2>12, <2>14, <2>17 DEF IInv
<1> QED BY <1>6, <1>7

-----------------------------------------------------------------------------
\* A step of the purge or of the garbage collector: it may empty pools, and
\* stop workers of VMs that are no longer reached.
LEMMA OutsideStep ==
    ASSUME IInv, UNCHANGED <<deploy, used, queue, req>>,
           pools' \in [Programs -> Pools \cup {None}],
           items' \in [Pools -> Seq(VMs)],
           worker' \in [VMs -> {"none", "running", "stopped"}],
           purge' \in [active : BOOLEAN, todo : SUBSET Programs, pool : Pools \cup {None}],
           Host = "caddy" \/ UNCHANGED <<pools, purge>>,
           \A q \in Pools : items'[q] = items[q] \/ items'[q] = <<>>,
           \A v \in VMs : VMReached(v)' => worker'[v] = worker[v]
    PROVE  IInv'
<1>1. TypeOK' BY DEF IInv, TypeOK
<1>2. PhaseInv' BY DEF IInv, PhaseInv, Phases, Winding, Host
<1>3. \A s \in Requests : InHand(s)' = InHand(s) BY DEF InHand
<1>4. \A q \in Pools : Idle(q)' \subseteq Idle(q)
  <2> TAKE q \in Pools
  <2>1. CASE items'[q] = items[q] BY <2>1 DEF Idle
  <2>2. CASE items'[q] = <<>> BY <2>2 DEF Idle, Elems
  <2> QED BY <2>1, <2>2
<1>5. OneOwner'
  <2>1. (\A r \in Requests, s \in Requests :
           \A i \in 1 .. Len(req[r].frames), j \in 1 .. Len(req[s].frames) :
             req[r].frames[i].vm = req[s].frames[j].vm => r = s /\ i = j)'
    BY DEF IInv, OneOwner
  <2>2. ASSUME NEW q \in Pools, NEW p \in Pools,
               NEW i \in 1 .. Len(items'[q]), NEW j \in 1 .. Len(items'[p]),
               items'[q][i] = items'[p][j]
        PROVE  q = p /\ i = j
    <3>1. items'[q] = items[q] /\ items'[p] = items[p] OBVIOUS
    <3>2. /\ i \in 1 .. Len(items[q]) /\ j \in 1 .. Len(items[p])
          /\ items[q][i] = items[p][j]
      BY <2>2, <3>1
    <3> QED BY <3>2 DEF IInv, OneOwner
  <2>3. (\A r \in Requests, q \in Pools : InHand(r) \cap Idle(q) = {})'
    BY <1>3, <1>4 DEF IInv, OneOwner
  <2> QED BY <2>1, <2>2, <2>3 DEF OneOwner
<1>6. WorkerInv'
  <2>1. \A v \in VMs : VMReached(v)' => VMReached(v) BY <1>3, <1>4 DEF VMReached
  <2> QED BY <2>1 DEF IInv, WorkerInv
<1>7. KeepInv' BY DEF IInv, KeepInv, Host
<1>8. \A s \in Requests : Slots(s)' = Slots(s) BY DEF Slots
<1>9. SlotHolders' = SlotHolders BY <1>8 DEF SlotHolders
<1>10. SlotInv' BY <1>9 DEF IInv, SlotInv, Limit
<1>11. \A q \in Pools : Belonging(q)' \subseteq Belonging(q)
  BY <1>4 DEF Belonging
<1>12. FitInv' BY <1>11, FitKept
<1> QED BY <1>1, <1>2, <1>5, <1>6, <1>7, <1>10, <1>12 DEF IInv

\* The purge begins, goes on to the next entry and ends.
LEMMA PurgeSteps ==
    ASSUME IInv, PurgeStart \/ PurgeEnd \/ (\E p \in Programs : PurgeDelete(p))
    PROVE  IInv'
<1>1. /\ pools \in [Programs -> Pools \cup {None}] /\ items \in [Pools -> Seq(VMs)]
      /\ worker \in [VMs -> {"none", "running", "stopped"}]
      /\ purge \in [active : BOOLEAN, todo : SUBSET Programs, pool : Pools \cup {None}]
  BY DEF IInv, TypeOK
<1>2. CASE PurgeStart
  <2>1. /\ Host = "caddy" /\ UNCHANGED <<deploy, used, queue, pools, items, worker, req>>
        /\ purge' \in [active : BOOLEAN, todo : SUBSET Programs, pool : Pools \cup {None}]
    BY <1>1, <1>2 DEF PurgeStart
  <2> QED BY <1>1, <2>1, OutsideStep
<1>3. CASE PurgeEnd
  <2>1. /\ purge.active /\ UNCHANGED <<deploy, used, queue, pools, items, worker, req>>
        /\ purge' \in [active : BOOLEAN, todo : SUBSET Programs, pool : Pools \cup {None}]
    BY <1>1, <1>3 DEF PurgeEnd
  <2>2. Host = "caddy" BY <2>1 DEF IInv, KeepInv
  <2> QED BY <1>1, <2>1, <2>2, OutsideStep
<1>4. ASSUME NEW p \in Programs, PurgeDelete(p) PROVE IInv'
  <2>1. /\ p \in purge.todo /\ UNCHANGED <<deploy, used, queue, items, worker, req>>
        /\ purge' \in [active : BOOLEAN, todo : SUBSET Programs, pool : Pools \cup {None}]
        /\ pools' \in [Programs -> Pools \cup {None}]
    BY <1>1, <1>4 DEF PurgeDelete
  <2>2. Host = "caddy" BY <2>1 DEF IInv, KeepInv
  <2> QED BY <1>1, <2>1, <2>2, OutsideStep
<1> QED BY <1>2, <1>3, <1>4

\* The purge empties a pool and stops the workers of what was in it: VMs that
\* were there and nowhere else.
LEMMA PurgeDrainStep == ASSUME IInv, PurgeDrain PROVE IInv'
<1>1. /\ pools \in [Programs -> Pools \cup {None}] /\ items \in [Pools -> Seq(VMs)]
      /\ worker \in [VMs -> {"none", "running", "stopped"}]
      /\ purge \in [active : BOOLEAN, todo : SUBSET Programs, pool : Pools \cup {None}]
  BY DEF IInv, TypeOK
<1>2. /\ purge.pool # None /\ UNCHANGED <<deploy, used, queue, pools, req>>
      /\ items' = [items EXCEPT ![purge.pool] = <<>>]
      /\ worker' = [v \in VMs |-> IF v \in Idle(purge.pool) THEN "stopped" ELSE worker[v]]
      /\ purge' = [purge EXCEPT !.pool = None]
  BY DEF PurgeDrain
<1>3. PICK o \in Pools : o = purge.pool BY <1>1, <1>2
<1>4. Host = "caddy" BY <1>2 DEF IInv, KeepInv
<1>5. /\ items' \in [Pools -> Seq(VMs)] /\ items'[o] = <<>>
      /\ \A q \in Pools : q # o => items'[q] = items[q]
      /\ worker' \in [VMs -> {"none", "running", "stopped"}]
      /\ purge' \in [active : BOOLEAN, todo : SUBSET Programs, pool : Pools \cup {None}]
  <2>1. purge' \in [active : BOOLEAN, todo : SUBSET Programs, pool : Pools \cup {None}]
    BY <1>1, <1>2
  <2>2. worker' \in [VMs -> {"none", "running", "stopped"}] BY <1>1, <1>2
  <2>3. items' = [items EXCEPT ![o] = <<>>] BY <1>2, <1>3
  <2> QED BY <1>1, <2>1, <2>2, <2>3
<1>6. ASSUME NEW v \in VMs, VMReached(v)' PROVE worker'[v] = worker[v]
  <2> SUFFICES ASSUME v \in Idle(o) PROVE FALSE BY <1>2, <1>3
  <2>1. PICK i \in 1 .. Len(items[o]) : items[o][i] = v BY DEF Idle, Elems
  <2>2. CASE \E s \in Requests : v \in InHand(s)'
    <3>1. PICK s \in Requests : v \in InHand(s)' BY <2>2
    <3>2. v \in InHand(s) BY <1>2, <3>1 DEF InHand
    <3> QED BY <3>2 DEF IInv, OneOwner
  <2>3. CASE \E q \in Pools : v \in Idle(q)'
    <3>1. PICK q \in Pools : v \in Idle(q)' BY <2>3
    <3>2. PICK j \in 1 .. Len(items'[q]) : items'[q][j] = v BY <3>1 DEF Idle, Elems
    <3>3. q # o BY <1>5, <3>2
    <3>4. j \in 1 .. Len(items[q]) /\ items[q][j] = v BY <1>5, <3>2, <3>3
    <3> QED BY <2>1, <3>3, <3>4 DEF IInv, OneOwner
  <2> QED BY <1>6, <2>2, <2>3 DEF VMReached
<1>7. \A q \in Pools : items'[q] = items[q] \/ items'[q] = <<>> BY <1>5
<1>8. pools' \in [Programs -> Pools \cup {None}] BY <1>1, <1>2
<1> QED BY <1>2, <1>4, <1>5, <1>6, <1>7, <1>8, OutsideStep

\* The collector takes what nobody reaches.
LEMMA CollectSteps ==
    ASSUME IInv, (\E q \in Pools : CollectPool(q)) \/ (\E v \in VMs : CollectVM(v))
    PROVE  IInv'
<1>1. /\ pools \in [Programs -> Pools \cup {None}] /\ items \in [Pools -> Seq(VMs)]
      /\ worker \in [VMs -> {"none", "running", "stopped"}]
      /\ purge \in [active : BOOLEAN, todo : SUBSET Programs, pool : Pools \cup {None}]
  BY DEF IInv, TypeOK
<1>2. ASSUME NEW q \in Pools, CollectPool(q) PROVE IInv'
  <2>1. UNCHANGED <<deploy, used, queue, pools, worker, req, purge>>
        /\ items' = [items EXCEPT ![q] = <<>>]
    BY <1>2 DEF CollectPool
  <2>2. /\ items' \in [Pools -> Seq(VMs)]
        /\ \A o \in Pools : items'[o] = items[o] \/ items'[o] = <<>>
    BY <1>1, <2>1
  <2> QED BY <1>1, <2>1, <2>2, OutsideStep
<1>3. ASSUME NEW v \in VMs, CollectVM(v) PROVE IInv'
  <2>1. /\ UNCHANGED <<deploy, used, queue, pools, items, req, purge>>
        /\ worker' = [worker EXCEPT ![v] = "none"] /\ ~VMReached(v)
    BY <1>3 DEF CollectVM
  <2>2. /\ worker' \in [VMs -> {"none", "running", "stopped"}]
        /\ \A u \in VMs : u # v => worker'[u] = worker[u]
    BY <1>1, <2>1
  <2>3. \A u \in VMs : VMReached(u)' => VMReached(u)
    BY <2>1 DEF VMReached, InHand, Idle
  <2>4. \A u \in VMs : VMReached(u)' => worker'[u] = worker[u] BY <2>1, <2>2, <2>3
  <2> QED BY <1>1, <2>1, <2>2, <2>4, OutsideStep
<1> QED BY <1>2, <1>3

-----------------------------------------------------------------------------
\* A process begins with no request, no VM and an empty limiter.
LEMMA InitInv == Init => IInv
<1> SUFFICES ASSUME Init PROVE IInv OBVIOUS
<1> DEFINE z == [handler |-> "returned", page |-> "main", acquire |-> "no",
                 prog |-> None, pool |-> None, script |-> "none",
                 frames |-> <<>>, result |-> "none", done |-> "none",
                 canceled |-> FALSE, wire |-> "nothing"]
<1>1. z \in Request BY DEF Request
<1>2. \A r \in Requests : req[r] = z BY DEF Init
<1>3. z.handler = "returned" /\ z.acquire = "no" /\ z.script = "none" /\ z.pool = None
      /\ z.frames = <<>> /\ z.done = "none"
  OBVIOUS
<1>4. req = [r \in Requests |-> z] BY DEF Init
<1> HIDE DEF z
<1>5. TypeOK
  <2>1. req \in [Requests -> Request] BY <1>1, <1>4
  <2>2. \A r \in Requests : Len(req[r].frames) <= MaxDepth
    BY <1>2, <1>3, PoolAssumption
  <2>3. purge \in [active : BOOLEAN, todo : SUBSET Programs, pool : Pools \cup {None}]
    BY DEF Init
  <2>4. pools \in [Programs -> Pools \cup {None}] BY DEF Init
  <2>5. items \in [Pools -> Seq(VMs)] BY DEF Init
  <2>6. /\ worker \in [VMs -> {"none", "running", "stopped"}]
        /\ deploy \in Deployments /\ used \in Nat /\ queue \in Seq(Requests)
    BY DEF Init
  <2> QED BY <2>1, <2>2, <2>3, <2>4, <2>5, <2>6 DEF TypeOK
<1>6. PhaseInv BY <1>2, <1>3, PoolAssumption DEF PhaseInv, Phases, Winding
<1>7. \A r \in Requests : InHand(r) = {} BY <1>2, <1>3 DEF InHand, Elems
<1>8. \A q \in Pools : Idle(q) = {} /\ items[q] = <<>> BY DEF Init, Idle, Elems
<1>9. OneOwner BY <1>2, <1>3, <1>7, <1>8 DEF OneOwner
<1>10. WorkerInv BY <1>7, <1>8 DEF WorkerInv, VMReached
<1>11. KeepInv BY <1>2, <1>3 DEF KeepInv, Init
<1>12. SlotInv
  <2>1. \A r \in Requests : Slots(r) = 0
    <3>1. Len(z.frames) = 0 BY <1>3
    <3>2. SlotsOf(z) = 0 BY <1>3, <3>1, SlotValues
    <3> QED BY <1>2, <3>2 DEF Slots, SlotsOf
  <2>2. MaxDepth \in Nat BY PoolAssumption
  <2>3. SlotHolders = {} BY <2>1, <2>2 DEF SlotHolders
  <2>4. IsFiniteSet(SlotHolders) /\ Cardinality(SlotHolders) = 0 BY <2>3, FS_EmptySet
  <2>5. used = 0 /\ queue = <<>> /\ Limit \in Int BY <1>5, PoolAssumption DEF Init, TypeOK, Limit
  <2> QED BY <1>2, <1>3, <2>4, <2>5 DEF SlotInv
<1>13. FitInv
  <2>1. \A q \in Pools : Belonging(q) = {} BY <1>2, <1>3, <1>8 DEF Belonging, Elems
  <2>2. Limit \in Int BY <1>5, PoolAssumption DEF TypeOK, Limit
  <2> QED BY <2>1, <2>2, FS_EmptySet DEF FitInv
<1> QED BY <1>5, <1>6, <1>9, <1>10, <1>11, <1>12, <1>13 DEF IInv

\* Every step keeps the invariant.
LEMMA NextInv == IInv /\ [Next]_vars => IInv'
<1> SUFFICES ASSUME IInv, [Next]_vars PROVE IInv' OBVIOUS
<1>1. ASSUME NEW r \in Requests,
             \/ Arrive(r) \/ Handling(r) \/ Acquiring(r)
             \/ Execute(r) \/ ScriptWrite(r) \/ EndRun(r) \/ Releasing(r)
      PROVE  IInv'
  <2>1. CASE Arrive(r) BY <2>1, ArriveStep
  <2>2. CASE Handling(r)
    BY <2>2, SessionOnStartStep, NoSessionEventStep, CompileOkStep, CompileFailsStep,
       TakeOkStep, TakeErrorStep, TimesOutStep
       DEF Handling
  <2>3. CASE Acquiring(r)
    BY <2>3, AcquireSlotStep, LoadPoolStep, StorePoolStep, GetVMStep DEF Acquiring
  <2>4. CASE Execute(r) \/ ScriptWrite(r) \/ EndRun(r)
    BY <2>4, ExecuteStep, ScriptWriteStep, EndRunStep
  <2>5. CASE Releasing(r)
    BY <2>5, PutVMStep, FreeSlotStep, SendDoneStep DEF Releasing
  <2> QED BY <1>1, <2>1, <2>2, <2>3, <2>4, <2>5
<1>2. CASE PurgeStart \/ PurgeEnd \/ (\E p \in Programs : PurgeDelete(p))
  BY <1>2, PurgeSteps
<1>3. CASE PurgeDrain BY <1>3, PurgeDrainStep
<1>4. CASE (\E q \in Pools : CollectPool(q)) \/ (\E v \in VMs : CollectVM(v))
  BY <1>4, CollectSteps
<1>5. CASE UNCHANGED vars
  <2>1. UNCHANGED <<deploy, used, queue, pools, items, worker, req, purge>>
    BY <1>5 DEF vars
  <2>2. /\ pools \in [Programs -> Pools \cup {None}] /\ items \in [Pools -> Seq(VMs)]
        /\ worker \in [VMs -> {"none", "running", "stopped"}]
        /\ purge \in [active : BOOLEAN, todo : SUBSET Programs, pool : Pools \cup {None}]
    BY DEF IInv, TypeOK
  <2> QED BY <2>1, <2>2, OutsideStep
<1> QED BY <1>1, <1>2, <1>3, <1>4, <1>5 DEF Next

-----------------------------------------------------------------------------
\* The invariant holds throughout, for any number of requests, programs, VMs
\* and pools and every deployment.
THEOREM Invariance == Spec => []IInv
<1>1. Init => IInv BY InitInv
<1>2. IInv /\ [Next]_vars => IInv' BY NextInv
<1> QED BY <1>1, <1>2, PTL DEF Spec

\* get and put never give one VM to two requests, or keep it in two places.
THEOREM VMsHaveOneOwner == Spec => []OneOwner
<1>1. IInv => OneOwner BY DEF IInv
<1> QED BY <1>1, Invariance, PTL

\* Neither the purge nor a finalizer stops the worker of a VM in hand.
THEOREM WorkersRun == Spec => []WorkerInHand
<1>1. IInv => WorkerInHand
  <2> SUFFICES ASSUME IInv, NEW r \in Requests, NEW v \in InHand(r)
               PROVE  worker[v] = "running"
    BY DEF WorkerInHand
  <2>1. PICK i \in 1 .. Len(req[r].frames) : req[r].frames[i].vm = v BY DEF InHand, Elems
  <2>2. req[r].frames[i] \in [vm : VMs, from : Pools] BY Records DEF IInv
  <2>3. v \in VMs BY <2>1, <2>2
  <2> QED BY <2>3 DEF IInv, WorkerInv, VMReached
<1> QED BY <1>1, Invariance, PTL

\* Without a purge no VM goes back to a pool the map has lost.
THEOREM NoPoolIsOrphaned == Spec => []NoOrphanPool
<1>1. IInv => NoOrphanPool
  BY DEF IInv, KeepInv, NoOrphanPool, Elems
<1> QED BY <1>1, Invariance, PTL

\* The limiter counts the VMs checked out or on their way in or out.
THEOREM SlotsAreAccounted == Spec => []SlotsAccounted
<1>1. IInv => SlotsAccounted
  <2> SUFFICES ASSUME IInv PROVE SlotsAccounted OBVIOUS
  <2>1. queue \in Seq(Requests) /\ Len(queue) \in Nat BY DEF IInv, TypeOK
  <2>2. \A i \in 1 .. Len(queue) : queue[i] \in Requests BY <2>1, ElementOfSeq
  <2>3. Elems(queue) = {r \in Requests : req[r].acquire = "wait"}
    BY <2>2 DEF IInv, SlotInv, Elems
  <2>4. Cardinality(Elems(queue)) = Len(queue)
    <3> DEFINE f == [i \in 1 .. Len(queue) |-> queue[i]]
    <3>1. f \in Bijection(1 .. Len(queue), Elems(queue))
      <4>1. f \in Surjection(1 .. Len(queue), Elems(queue)) BY DEF Surjection, Elems
      <4>2. \A i, j \in 1 .. Len(queue) : f[i] = f[j] => i = j BY DEF IInv, SlotInv
      <4> QED BY <4>1, <4>2 DEF Bijection, Injection, IsInjective, Surjection
    <3>2. ExistsBijection(1 .. Len(queue), Elems(queue)) BY <3>1 DEF ExistsBijection
    <3> QED BY <2>1, <3>2, FS_CountingElements
  <2> QED BY <2>3, <2>4 DEF IInv, SlotInv, SlotsAccounted
<1> QED BY <1>1, Invariance, PTL

\* Under a limiter a pool never has more VMs than there are slots.
THEOREM PoolsFit == Spec => []PoolFits
<1>1. IInv => PoolFits BY DEF IInv, FitInv, PoolFits
<1> QED BY <1>1, Invariance, PTL

\* A script that is left behind finds its writer cancelled.
THEOREM SilentAfterReturn == Spec => NothingAfterReturn
<1> DEFINE Silent == \A r \in Requests :
             req[r].handler = "returned" /\ req'[r].handler = "returned"
               => req'[r].wire = req[r].wire
<1>1. IInv /\ [Next]_vars => [Silent]_vars
  <2> SUFFICES ASSUME IInv, Next, NEW r \in Requests,
                      req[r].handler = "returned", req'[r].handler = "returned"
               PROVE  req'[r].wire = req[r].wire
    BY DEF vars
  <2>1. /\ req \in [Requests -> Request] /\ req[r] \in Request
        /\ req[r].canceled \/ Winding(req[r])
    BY SMTT(30) DEF IInv, TypeOK, PhaseInv, Phases
  <2>2. ASSUME NEW s \in Requests, Arrive(s) \/ Handling(s) PROVE req'[r].wire = req[r].wire
    <3>1. ASSUME Arrive(s) PROVE s # r
      BY <2>1, <3>1 DEF Arrive, Request
    <3>2. ASSUME Handling(s) PROVE s # r
      <4>1. req[s].handler \in {"start", "compile", "watch"}
        BY <3>2 DEF Handling, SessionOnStart, NoSessionEvent, CompileOk, CompileFails,
                    TakeOk, TakeError, TimesOut
      <4> QED BY <4>1
    <3> QED
      BY <2>1, <2>2, <3>1, <3>2 DEF Arrive, Handling, SessionOnStart, NoSessionEvent, CompileOk,
        CompileFails, TakeOk, TakeError, TimesOut, Failed, AnswerError, ErrorPage
  <2>3. ASSUME NEW s \in Requests, ScriptWrite(s) PROVE req'[r].wire = req[r].wire
    <3>1. CASE s = r
      <4>1. req[r].canceled BY <2>1, <2>3, <3>1 DEF ScriptWrite, Winding
      <4> QED BY <2>1, <2>3, <3>1, <4>1 DEF ScriptWrite, Written
    <3>2. CASE s # r BY <2>1, <2>3, <3>2 DEF ScriptWrite
    <3> QED BY <3>1, <3>2
  <2>4. ASSUME NEW s \in Requests, Execute(s) \/ EndRun(s) \/ Acquiring(s) \/ Releasing(s)
        PROVE  req'[r].wire = req[r].wire
    <3>1. CASE Execute(s)
      <4>1. CASE s = r BY <2>1, <3>1, <4>1 DEF Execute, Request
      <4>2. CASE s # r BY <2>1, <3>1, <4>2 DEF Execute, Request
      <4> QED BY <4>1, <4>2
    <3>2. CASE EndRun(s)
      <4>1. CASE s = r BY <2>1, <3>2, <4>1 DEF EndRun, Request
      <4>2. CASE s # r BY <2>1, <3>2, <4>2 DEF EndRun, Request
      <4> QED BY <4>1, <4>2
    <3>3. CASE AcquireSlot(s)
      <4>1. CASE s = r BY <2>1, <3>3, <4>1 DEF AcquireSlot, Request
      <4>2. CASE s # r BY <2>1, <3>3, <4>2 DEF AcquireSlot, Request
      <4> QED BY <4>1, <4>2
    <3>4. CASE LoadPool(s)
      <4>1. CASE s = r BY <2>1, <3>4, <4>1 DEF LoadPool, Request
      <4>2. CASE s # r BY <2>1, <3>4, <4>2 DEF LoadPool, Request
      <4> QED BY <4>1, <4>2
    <3>5. CASE StorePool(s)
      <4>1. \E q : req' = [req EXCEPT ![s].pool = q, ![s].acquire = "get"]
        BY <3>5 DEF StorePool
      <4> QED BY <2>1, <4>1 DEF Request
    <3>6. CASE GetVM(s)
      <4>1. PICK v : Started(s, v) BY <3>6 DEF GetVM
      <4> QED BY <2>1, <4>1 DEF Started, Request
    <3>7. CASE PutVM(s)
      <4>1. CASE s = r BY <2>1, <3>7, <4>1 DEF PutVM, Request
      <4>2. CASE s # r BY <2>1, <3>7, <4>2 DEF PutVM, Request
      <4> QED BY <4>1, <4>2
    <3>8. CASE FreeSlot(s)
      <4>1. Released(s) \in [Requests -> Request] /\ Released(s)[r].wire = req[r].wire
        <5>1. PICK t \in Request : Released(s) = [req EXCEPT ![s] = t]
          BY <3>8, ReleasedRecord DEF FreeSlot
        <5>2. Released(s)[r].wire = req[r].wire BY <2>1 DEF Released, Request
        <5> QED BY <2>1, <5>1, <5>2
      <4>2. req' = Released(s) \/ req' = [Released(s) EXCEPT ![Head(queue)].acquire = "load"]
        BY <3>8 DEF FreeSlot
      <4> DEFINE R == Released(s)
      <4> HIDE DEF R
      <4>3. R \in [Requests -> Request] /\ R[r].wire = req[r].wire /\ R[r] \in Request
        BY <4>1 DEF R
      <4>4. CASE req' = R BY <4>3, <4>4
      <4>5. CASE req' = [R EXCEPT ![Head(queue)].acquire = "load"]
        <5>1. req'[r] = R[r] \/ req'[r] = [R[r] EXCEPT !.acquire = "load"]
          BY <4>3, <4>5
        <5> QED BY <4>3, <5>1 DEF Request
      <4> QED BY <4>2, <4>4, <4>5 DEF R
    <3>9. CASE SendDone(s)
      <4>1. CASE s = r BY <2>1, <3>9, <4>1 DEF SendDone, Request
      <4>2. CASE s # r BY <2>1, <3>9, <4>2 DEF SendDone, Request
      <4> QED BY <4>1, <4>2
    <3> QED BY <2>4, <3>1, <3>2, <3>3, <3>4, <3>5, <3>6, <3>7, <3>8, <3>9 DEF Acquiring, Releasing
  <2>5. CASE req' = req BY <2>5
  <2> QED
    BY <2>2, <2>3, <2>4, <2>5
       DEF Next, PurgeStart, PurgeDrain, PurgeEnd, PurgeDelete, CollectPool, CollectVM
<1> QED BY <1>1, Invariance, PTL DEF Spec, NothingAfterReturn

=============================================================================
