------------------------------- MODULE VMPool -------------------------------
(***************************************************************************)
(* The interpreter pool (axonvm/vm_pool.go) and the request execution that *)
(* drives it (executeASPWithStatus of the HTTP and FastCGI servers,        *)
(* executeASPFile of the Caddy module, ExecuteASPFile of Server.Execute,   *)
(* executeHandler of global.asa).                                          *)
(*                                                                         *)
(* A request is two threads.  The handler builds the host, possibly runs   *)
(* Session_OnStart itself, takes a VM, starts the script goroutine and     *)
(* watches it: it answers when the goroutine reports on the done channel   *)
(* or when the script timeout fires, and in the second case the goroutine  *)
(* is left behind with its VMs and its slots.  The two threads never use   *)
(* the pool at the same moment, so one set of fields per request serves    *)
(* both.  Programs, VMs and pool objects are atoms; an atom of the last    *)
(* two is used again once the garbage collector may have freed it.         *)
(***************************************************************************)
EXTENDS Integers, Sequences, FiniteSets

CONSTANTS
    Requests,         \* requests that may be in progress at once
    Programs,         \* compiled programs (pooledProgramKey)
    VMs,              \* addresses of VM objects
    Pools,            \* addresses of vmProgramPool objects
    None,             \* nil
    DefaultRetained,  \* vmProgramPoolDefaultRetained
    MaxDepth,         \* BOUND: nesting of Server.Execute / Transfer
    Deployments       \* the servers and pool sizes to consider

ASSUME PoolAssumption ==
    /\ Deployments \subseteq
         [host : {"server", "fastcgi", "caddy"}, limit : Int]
    /\ DefaultRetained \in Nat \ {0}
    /\ MaxDepth \in Nat \ {0}
    /\ None \notin VMs \cup Pools \cup Programs

VARIABLES
    deploy,  \* the process this is: its server and its vm_pool_size
    used,    \* len(vmPoolLimiter)
    queue,   \* requests blocked on sending into vmPoolLimiter, oldest first
    pools,   \* cachedProgramPools
    items,   \* vmProgramPool.items
    worker,  \* the STA worker of a VM; "none": no VM at this address
    req,     \* the requests
    purge    \* the progress of PurgeVMProgramPools

vars == <<deploy, used, queue, pools, items, worker, req, purge>>

Host == deploy.host
Limit == deploy.limit   \* SetVMPoolSizeLimit; 0 or less: no limiter

(***************************************************************************)
(* handler   where the handler is; "returned": it answered (or no request  *)
(*           has used this record yet)                                     *)
(* page      is it the requested page or the page for its error            *)
(* acquire   where AcquireVMFromCachedProgram is                           *)
(* prog,pool the program being acquired and the pool found for it          *)
(* script    where the script thread is                                    *)
(* frames    the VMs it runs, the child of Server.Execute last, each with  *)
(*           its pooledFrom                                                *)
(* result    what vm.Run returned, done: the done channel                  *)
(* canceled  cancellableWriter.canceled                                    *)
(* wire      what the client was last sent                                 *)
(***************************************************************************)
Request ==
    [ handler  : {"start", "event", "compile", "acquire", "watch", "returned"},
      page     : {"main", "error"},
      acquire  : {"no", "slot", "wait", "load", "store", "get"},
      prog     : Programs \cup {None},
      pool     : Pools \cup {None},
      script   : {"none", "run", "execute", "put", "free", "send"},
      frames   : Seq([vm : VMs, from : Pools]),
      result   : {"none", "ok", "error"},
      done     : {"none", "ok", "error"},
      canceled : BOOLEAN,
      wire     : {"nothing", "script", "page", "error", "timeout"} ]

TypeOK ==
    /\ deploy \in Deployments
    /\ used \in Nat
    /\ queue \in Seq(Requests)
    /\ pools \in [Programs -> Pools \cup {None}]
    /\ items \in [Pools -> Seq(VMs)]
    /\ worker \in [VMs -> {"none", "running", "stopped"}]
    /\ req \in [Requests -> Request]
    /\ \A r \in Requests : Len(req[r].frames) <= MaxDepth
    /\ purge \in [ active : BOOLEAN, todo : SUBSET Programs,
                   pool : Pools \cup {None} ]

Init ==
    /\ deploy \in Deployments
    /\ used = 0
    /\ queue = <<>>
    /\ pools = [p \in Programs |-> None]
    /\ items = [q \in Pools |-> <<>>]
    /\ worker = [v \in VMs |-> "none"]
    /\ req = [r \in Requests |->
                [handler |-> "returned", page |-> "main", acquire |-> "no",
                 prog |-> None, pool |-> None, script |-> "none",
                 frames |-> <<>>, result |-> "none", done |-> "none",
                 canceled |-> FALSE, wire |-> "nothing"]]
    /\ purge = [active |-> FALSE, todo |-> {}, pool |-> None]

Elems(s) == {s[i] : i \in 1 .. Len(s)}
Last(s) == s[Len(s)]
Front(s) == SubSeq(s, 1, Len(s) - 1)

InHand(r) == {f.vm : f \in Elems(req[r].frames)}
Idle(q) == Elems(items[q])

(***************************************************************************)
(* What the garbage collector still reaches.  A pool is held by the map,   *)
(* by a request that has loaded it or runs one of its VMs, and by the      *)
(* purge that is about to empty it.                                        *)
(***************************************************************************)
PoolReached(q) ==
    \/ \E p \in Programs : pools[p] = q
    \/ purge.pool = q
    \/ \E r \in Requests : \/ req[r].pool = q
                           \/ \E f \in Elems(req[r].frames) : f.from = q
VMReached(v) ==
    \/ \E r \in Requests : v \in InHand(r)
    \/ \E q \in Pools : v \in Idle(q)

-----------------------------------------------------------------------------
(***************************************************************************)
(* The request handler up to the acquisition of its VM.                    *)
(***************************************************************************)

\* A new request; executeASPWithStatus makes its writer and its channel.
Arrive(r) ==
    /\ req[r].handler = "returned" /\ req[r].script = "none"
    /\ req' = [req EXCEPT ![r].handler = "start", ![r].page = "main",
                          ![r].wire = "nothing", ![r].canceled = FALSE,
                          ![r].done = "none", ![r].result = "none"]
    /\ UNCHANGED <<deploy, used, queue, pools, items, worker, purge>>

\* NewWebHost: a new session runs Session_OnStart on the handler's thread,
\* before there is a watchdog.
SessionOnStart(r) ==
    /\ req[r].handler = "start"
    /\ \E p \in Programs :
         req' = [req EXCEPT ![r].handler = "event", ![r].script = "execute",
                            ![r].prog = p, ![r].acquire = "slot"]
    /\ UNCHANGED <<deploy, used, queue, pools, items, worker, purge>>

NoSessionEvent(r) ==
    /\ req[r].handler = "start"
    /\ req' = [req EXCEPT ![r].handler = "compile"]
    /\ UNCHANGED <<deploy, used, queue, pools, items, worker, purge>>

CompileOk(r) ==
    /\ req[r].handler = "compile"
    /\ \E p \in Programs :
         req' = [req EXCEPT ![r].handler = "acquire", ![r].prog = p,
                            ![r].acquire = "slot"]
    /\ UNCHANGED <<deploy, used, queue, pools, items, worker, purge>>

\* An error is answered with text, or by executing the page for the error
\* on the same writer; the page for an error has no page for its own.
AnswerError(r) == [req EXCEPT ![r].handler = "returned", ![r].wire = "error",
                              ![r].done = "none"]
ErrorPage(r) == [req EXCEPT ![r].handler = "start", ![r].page = "error",
                            ![r].canceled = FALSE, ![r].done = "none",
                            ![r].result = "none"]
Failed(r) ==
    \/ req' = AnswerError(r)
    \/ Host # "caddy" /\ req[r].page = "main" /\ req' = ErrorPage(r)

CompileFails(r) ==
    /\ req[r].handler = "compile"
    /\ Failed(r)
    /\ UNCHANGED <<deploy, used, queue, pools, items, worker, purge>>

-----------------------------------------------------------------------------
(***************************************************************************)
(* AcquireVMFromCachedProgram, by the handler or by Server.Execute.        *)
(***************************************************************************)

\* Slip: the channel is one slot too large.
AcquireSlotOneMore(r) ==
    /\ req[r].acquire = "slot"
    /\ IF Limit <= 0 \/ used <= Limit
       THEN /\ req' = [req EXCEPT ![r].acquire = "load"]
            /\ used' = IF Limit <= 0 THEN used ELSE used + 1
            /\ UNCHANGED queue
       ELSE /\ req' = [req EXCEPT ![r].acquire = "wait"]
            /\ queue' = Append(queue, r)
            /\ UNCHANGED used
    /\ UNCHANGED <<deploy, pools, items, worker, purge>>

\* acquireVMPoolSlot: without a limiter nothing is taken; a full channel
\* blocks the sender, and the runtime serves blocked senders in order.
AcquireSlot(r) ==
    /\ req[r].acquire = "slot"
    /\ IF Limit <= 0 \/ used < Limit
       THEN /\ req' = [req EXCEPT ![r].acquire = "load"]
            /\ used' = IF Limit <= 0 THEN used ELSE used + 1
            /\ UNCHANGED queue
       ELSE /\ req' = [req EXCEPT ![r].acquire = "wait"]
            /\ queue' = Append(queue, r)
            /\ UNCHANGED used
    /\ UNCHANGED <<deploy, pools, items, worker, purge>>

\* getProgramPool, first half: Load.
LoadPool(r) ==
    /\ req[r].acquire = "load"
    /\ LET q == pools[req[r].prog] IN
         req' = [req EXCEPT ![r].pool = q,
                            ![r].acquire = IF q = None THEN "store" ELSE "get"]
    /\ UNCHANGED <<deploy, used, queue, pools, items, worker, purge>>

\* Slip: Store in place of LoadOrStore.
StorePoolOverwriting(r) ==
    /\ req[r].acquire = "store"
    /\ \E q \in Pools :
         /\ ~PoolReached(q) /\ items[q] = <<>>
         /\ pools' = [pools EXCEPT ![req[r].prog] = q]
         /\ req' = [req EXCEPT ![r].pool = q, ![r].acquire = "get"]
    /\ UNCHANGED <<deploy, used, queue, items, worker, purge>>

\* Second half: a new entry, unless LoadOrStore finds that somebody else
\* stored one meanwhile.
StorePool(r) ==
    /\ req[r].acquire = "store"
    /\ \/ /\ pools[req[r].prog] # None
          /\ req' = [req EXCEPT ![r].pool = pools[req[r].prog],
                                ![r].acquire = "get"]
          /\ UNCHANGED <<pools, items>>
       \/ /\ pools[req[r].prog] = None
          /\ \E q \in Pools :
               /\ ~PoolReached(q) /\ items[q] = <<>>
               /\ pools' = [pools EXCEPT ![req[r].prog] = q]
               /\ items' = [items EXCEPT ![q] = <<>>]
               /\ req' = [req EXCEPT ![r].pool = q, ![r].acquire = "get"]
    /\ UNCHANGED <<deploy, used, queue, worker, purge>>

\* The caller has its VM: the handler starts the goroutine and the watchdog.
Started(r, v) ==
    req' = [req EXCEPT
              ![r].acquire = "no", ![r].pool = None, ![r].prog = None,
              ![r].script = "run",
              ![r].frames = Append(@, [vm |-> v, from |-> req[r].pool]),
              ![r].handler = IF @ = "acquire" THEN "watch" ELSE @]

\* Slip: get returns the last item and leaves it in the list.
GetVMKeeping(r) ==
    /\ req[r].acquire = "get"
    /\ LET q == req[r].pool IN
         \/ /\ items[q] # <<>>
            /\ Started(r, Last(items[q]))
            /\ UNCHANGED worker
         \/ /\ items[q] = <<>>
            /\ \E v \in VMs :
                 /\ worker[v] = "none" /\ ~VMReached(v)
                 /\ worker' = [worker EXCEPT ![v] = "running"]
                 /\ Started(r, v)
    /\ UNCHANGED <<deploy, used, queue, pools, items, purge>>

\* Slip: the pool is not asked first.
GetVMAlwaysNew(r) ==
    /\ req[r].acquire = "get"
    /\ \E v \in VMs :
         /\ worker[v] = "none" /\ ~VMReached(v)
         /\ worker' = [worker EXCEPT ![v] = "running"]
         /\ Started(r, v)
    /\ UNCHANGED <<deploy, used, queue, pools, items, purge>>

\* pool.get: the VM put back last, else newPooledVMFromCachedProgram.
GetVM(r) ==
    /\ req[r].acquire = "get"
    /\ LET q == req[r].pool IN
         \/ /\ items[q] # <<>>
            /\ Started(r, Last(items[q]))
            /\ items' = [items EXCEPT ![q] = Front(@)]
            /\ UNCHANGED worker
         \/ /\ items[q] = <<>>
            /\ \E v \in VMs :
                 /\ worker[v] = "none" /\ ~VMReached(v)
                 /\ worker' = [worker EXCEPT ![v] = "running"]
                 /\ Started(r, v)
            /\ UNCHANGED items
    /\ UNCHANGED <<deploy, used, queue, pools, purge>>

-----------------------------------------------------------------------------
(***************************************************************************)
(* The script.                                                             *)
(***************************************************************************)

\* The script thread belongs to the handler while global.asa runs.
Event(r) == req[r].handler = "event"

\* Server.Execute, Server.Transfer: the child needs a slot of its own.
Execute(r) ==
    /\ req[r].script = "run" /\ Len(req[r].frames) < MaxDepth
    /\ \E p \in Programs :
         req' = [req EXCEPT ![r].script = "execute", ![r].prog = p,
                            ![r].acquire = "slot"]
    /\ UNCHANGED <<deploy, used, queue, pools, items, worker, purge>>

\* Slip: the writer does not look at canceled.
WrittenUnchecked(r) == "script"

\* cancellableWriter.Write
Written(r) == IF req[r].canceled THEN req[r].wire ELSE "script"

\* Response.Flush, or a full buffer.  Output of global.asa is suppressed.
ScriptWrite(r) ==
    /\ req[r].script = "run" /\ ~Event(r)
    /\ req' = [req EXCEPT ![r].wire = Written(r)]
    /\ UNCHANGED <<deploy, used, queue, pools, items, worker, purge>>

\* What follows vm.Run: the HTTP server releases the VM, then reports; the
\* FastCGI server and Caddy report first and release in a defer.
AfterRun(r) ==
    IF Len(req[r].frames) = 1 /\ ~Event(r) /\ Host # "server"
    THEN "send" ELSE "put"

\* vm.Run returns: at its end, by an error, by a recovered panic, or because
\* the instruction loop found the script's own deadline passed.
EndRun(r) ==
    /\ req[r].script = "run"
    /\ \E o \in {"ok", "error"} :
         req' = [req EXCEPT ![r].script = AfterRun(r), ![r].result = o]
    /\ UNCHANGED <<deploy, used, queue, pools, items, worker, purge>>

Retained == IF Limit > 0 THEN Limit ELSE DefaultRetained

\* Release, first half: CleanupRequestResources, resetForReuse, pool.put.
\* A full pool drops the VM, its worker still running.
PutVM(r) ==
    /\ req[r].script = "put"
    /\ LET f == Last(req[r].frames) IN
         items' = IF Len(items[f.from]) >= Retained THEN items
                  ELSE [items EXCEPT ![f.from] = Append(@, f.vm)]
    /\ req' = [req EXCEPT ![r].script = "free", ![r].frames = Front(@)]
    /\ UNCHANGED <<deploy, used, queue, pools, worker, purge>>

\* Where the thread goes on when a Release has ended.
AfterRelease(r) ==
    IF req[r].frames # <<>> THEN "run"
    ELSE IF Event(r) \/ Host # "server" THEN "none" ELSE "send"

Released(r) ==
    [req EXCEPT ![r].script = AfterRelease(r),
                ![r].handler = IF Event(r) /\ req[r].frames = <<>>
                               THEN "compile" ELSE @]

\* Slip: the slot is not given back.
FreeSlotForgotten(r) ==
    /\ req[r].script = "free"
    /\ req' = Released(r)
    /\ UNCHANGED <<deploy, used, queue, pools, items, worker, purge>>

\* Release, second half: releaseVMPoolSlot.  Receiving from a full channel
\* lets the oldest blocked sender in.
FreeSlot(r) ==
    /\ req[r].script = "free"
    /\ IF Limit > 0 /\ queue # <<>>
       THEN /\ req' = [Released(r) EXCEPT ![Head(queue)].acquire = "load"]
            /\ queue' = Tail(queue)
            /\ UNCHANGED used
       ELSE /\ req' = Released(r)
            /\ used' = IF Limit > 0 /\ used > 0 THEN used - 1 ELSE used
            /\ UNCHANGED queue
    /\ UNCHANGED <<deploy, pools, items, worker, purge>>

\* Slip: a done channel without a buffer.
SendDoneUnbuffered(r) ==
    /\ req[r].script = "send" /\ req[r].handler = "watch"
    /\ req' = [req EXCEPT ![r].done = req[r].result,
                          ![r].script = IF Host = "server" THEN "none"
                                        ELSE "put"]
    /\ UNCHANGED <<deploy, used, queue, pools, items, worker, purge>>

\* done <- vmResult: the channel has room for the one result.
SendDone(r) ==
    /\ req[r].script = "send"
    /\ req' = [req EXCEPT ![r].done = req[r].result,
                          ![r].script = IF Host = "server" THEN "none"
                                        ELSE "put"]
    /\ UNCHANGED <<deploy, used, queue, pools, items, worker, purge>>

-----------------------------------------------------------------------------
(***************************************************************************)
(* The handler's watchdog loop.                                            *)
(***************************************************************************)

\* PersistSession, Flush, ReleaseBuffer.
TakeOk(r) ==
    /\ req[r].handler = "watch" /\ req[r].done = "ok"
    /\ req' = [req EXCEPT ![r].handler = "returned", ![r].wire = "page",
                          ![r].done = "none"]
    /\ UNCHANGED <<deploy, used, queue, pools, items, worker, purge>>

\* FastCGI may start the page for the error while the VM of the failed page
\* is still being released: a request of its own as far as the pool goes, so
\* that release is waited for here.
TakeError(r) ==
    /\ req[r].handler = "watch" /\ req[r].done = "error"
    /\ Failed(r)
    /\ req'[r].handler = "start" => req[r].script = "none"
    /\ UNCHANGED <<deploy, used, queue, pools, items, worker, purge>>

TimesOut(r) ==
    /\ req[r].handler = "watch"
    /\ req' = [req EXCEPT ![r].handler = "returned", ![r].canceled = TRUE,
                          ![r].wire = "timeout"]
    /\ UNCHANGED <<deploy, used, queue, pools, items, worker, purge>>

-----------------------------------------------------------------------------
(***************************************************************************)
(* PurgeVMProgramPools, called by Caddy's Cleanup while requests of the    *)
(* old configuration are in progress.                                      *)
(***************************************************************************)

PurgeStart ==
    /\ Host = "caddy" /\ ~purge.active
    /\ purge' = [purge EXCEPT !.active = TRUE,
                              !.todo = {p \in Programs : pools[p] # None}]
    /\ UNCHANGED <<deploy, used, queue, pools, items, worker, req>>

\* Range hands over the next entry and Delete removes it.
PurgeDelete(p) ==
    /\ purge.pool = None /\ p \in purge.todo
    /\ purge' = [purge EXCEPT !.todo = @ \ {p}, !.pool = pools[p]]
    /\ pools' = [pools EXCEPT ![p] = None]
    /\ UNCHANGED <<deploy, used, queue, items, worker, req>>

\* Slip: the workers are stopped and the VMs left in the pool.
PurgeDrainKeeping ==
    /\ purge.pool # None
    /\ worker' = [v \in VMs |-> IF v \in Idle(purge.pool) THEN "stopped"
                                ELSE worker[v]]
    /\ purge' = [purge EXCEPT !.pool = None]
    /\ UNCHANGED <<deploy, used, queue, pools, items, req>>

\* The idle VMs are taken under the pool's lock and their workers stopped.
PurgeDrain ==
    /\ purge.pool # None
    /\ items' = [items EXCEPT ![purge.pool] = <<>>]
    /\ worker' = [v \in VMs |-> IF v \in Idle(purge.pool) THEN "stopped"
                                ELSE worker[v]]
    /\ purge' = [purge EXCEPT !.pool = None]
    /\ UNCHANGED <<deploy, used, queue, pools, req>>

PurgeEnd ==
    /\ purge.active /\ purge.pool = None /\ purge.todo = {}
    /\ purge' = [purge EXCEPT !.active = FALSE]
    /\ UNCHANGED <<deploy, used, queue, pools, items, worker, req>>

-----------------------------------------------------------------------------
(***************************************************************************)
(* The garbage collector: an unreachable pool goes with its items, an      *)
(* unreachable VM has its finalizer stop the worker.                       *)
(***************************************************************************)

CollectPool(q) ==
    /\ ~PoolReached(q) /\ items[q] # <<>>
    /\ items' = [items EXCEPT ![q] = <<>>]
    /\ UNCHANGED <<deploy, used, queue, pools, worker, req, purge>>

CollectVM(v) ==
    /\ ~VMReached(v) /\ worker[v] # "none"
    /\ worker' = [worker EXCEPT ![v] = "none"]
    /\ UNCHANGED <<deploy, used, queue, pools, items, req, purge>>

-----------------------------------------------------------------------------
Acquiring(r) == AcquireSlot(r) \/ LoadPool(r) \/ StorePool(r) \/ GetVM(r)
Releasing(r) == PutVM(r) \/ FreeSlot(r) \/ SendDone(r)
Handling(r) == \/ SessionOnStart(r) \/ NoSessionEvent(r)
               \/ CompileOk(r) \/ CompileFails(r)
               \/ TakeOk(r) \/ TakeError(r) \/ TimesOut(r)

Next ==
    \/ \E r \in Requests : \/ Arrive(r) \/ Handling(r) \/ Acquiring(r)
                           \/ Execute(r) \/ ScriptWrite(r) \/ EndRun(r)
                           \/ Releasing(r)
    \/ PurgeStart \/ PurgeDrain \/ PurgeEnd
    \/ \E p \in Programs : PurgeDelete(p)
    \/ \E q \in Pools : CollectPool(q)
    \/ \E v \in VMs : CollectVM(v)

Spec == Init /\ [][Next]_vars

(***************************************************************************)
(* Threads that can run do run and the collector comes round.              *)
(***************************************************************************)
ThreadsRun ==
    /\ \A r \in Requests : /\ WF_vars(Acquiring(r))
                           /\ WF_vars(Releasing(r))
                           /\ WF_vars(Handling(r))
    /\ \A q \in Pools : WF_vars(CollectPool(q))
    /\ \A v \in VMs : WF_vars(CollectVM(v))

(***************************************************************************)
(* A script that keeps getting control ends: the instruction loop looks at *)
(* the deadline every 1024 instructions.                                   *)
(***************************************************************************)
ScriptsEnd == \A r \in Requests : SF_vars(EndRun(r))

FairSpec == Spec /\ ThreadsRun /\ ScriptsEnd

-----------------------------------------------------------------------------
(***************************************************************************)
(* Properties                                                              *)
(***************************************************************************)

\* Slots a request has taken: one per VM in hand, one between the send and
\* the VM, one between pool.put and the receive.
Slots(r) ==
    Len(req[r].frames)
      + (IF req[r].acquire \in {"load", "store", "get"} THEN 1 ELSE 0)
      + (IF req[r].script = "free" THEN 1 ELSE 0)

SlotHolders == {h \in Requests \X (1 .. MaxDepth + 1) : h[2] <= Slots(h[1])}

\* vm_pool.go:47, SetVMPoolSizeLimit: the limiter counts exactly the VMs
\* checked out or on their way in or out, never more than the limit, and a
\* request is blocked on it only while it is full.
SlotsAccounted ==
    /\ used = IF Limit > 0 THEN Cardinality(SlotHolders) ELSE 0
    /\ Limit > 0 => used <= Limit
    /\ queue # <<>> => used = Limit
    /\ Elems(queue) = {r \in Requests : req[r].acquire = "wait"}
    /\ Cardinality(Elems(queue)) = Len(queue)

\* get and put: a VM is in one place only, the hand of one request once, or
\* one pool once.
OneOwner ==
    /\ \A r \in Requests, s \in Requests :
         \A i \in 1 .. Len(req[r].frames), j \in 1 .. Len(req[s].frames) :
           req[r].frames[i].vm = req[s].frames[j].vm => r = s /\ i = j
    /\ \A q \in Pools, p \in Pools :
         \A i \in 1 .. Len(items[q]), j \in 1 .. Len(items[p]) :
           items[q][i] = items[p][j] => q = p /\ i = j
    /\ \A r \in Requests, q \in Pools : InHand(r) \cap Idle(q) = {}

\* The VMs made for a pool and not dropped.
Belonging(q) ==
    Idle(q) \cup UNION {{f.vm : f \in {g \in Elems(req[r].frames) : g.from = q}}
                          : r \in Requests}

\* Release gives the VM back before the slot, so under a limiter a pool
\* never has more VMs than slots exist and put never has to drop one.
PoolFits == Limit > 0 => \A q \in Pools : Cardinality(Belonging(q)) <= Limit

\* getProgramPool: unless pools are purged, two requests that miss at the
\* same time settle on one pool, so no VM goes back to a pool the map has
\* lost.
NoOrphanPool ==
    Host # "caddy" =>
      \A r \in Requests : \A f \in Elems(req[r].frames) :
        \E p \in Programs : pools[p] = f.from

\* PurgeVMProgramPools and the finalizer stop the workers of VMs nobody can
\* run: a VM in hand has its STA worker.
WorkerInHand ==
    \A r \in Requests : \A v \in InHand(r) : worker[v] = "running"

\* cancellableWriter: once the handler has returned nothing more is written
\* to the client, whatever a detached script still does.
NothingAfterReturn ==
    [][\A r \in Requests :
         req[r].handler = "returned" /\ req'[r].handler = "returned"
           => req'[r].wire = req[r].wire]_vars

\* server/main.go:808-810, "a blocking CGO/COM call ... cannot hold the HTTP
\* handler indefinitely": every request is answered.
EveryRequestAnswered ==
    \A r \in Requests : req[r].handler = "start" ~> req[r].handler = "returned"

\* A goroutine the handler gave up on gives its VM and its slot back.
DetachedScriptEnds ==
    \A r \in Requests :
      req[r].script # "none" /\ req[r].canceled ~> Slots(r) = 0

=============================================================================
