---------------------------- MODULE JSEventLoop ----------------------------
(***************************************************************************)
(* The event loop of the JScript runtime: process.nextTick, promise        *)
(* reactions, setImmediate, setTimeout, setInterval and fs.readFile of one *)
(* page, the three places that run their callbacks (the pump between       *)
(* instructions, await, and the drain at OpHalt), async functions on a     *)
(* clone of the VM, and the reset of the VM for the next request           *)
(* (axonvm/jscript_nodejs_timers.go, jscript_nodejs_io.go,                 *)
(* vm_jscript_promise.go, vm.go).                                          *)
(*                                                                         *)
(* The loop has no thread of its own: it runs on the Go stack of the page, *)
(* and a callback it calls may enter it again.  `stack' is that Go stack.  *)
(* Only timers and file reads run beside it.  Callbacks and promises are   *)
(* numbers, drawn from one counter as in the code; the promise that then   *)
(* returns has the number of its callback.  Left out is other code that    *)
(* runs on a clone: eval, Function, Execute, ExecuteGlobal, require,       *)
(* imports and generators (vm.go:1592-1754).                               *)
(***************************************************************************)
EXTENDS Naturals, Sequences, FiniteSets, SequencesExt

CONSTANTS
  MaxIds,       \* callbacks and promises a page creates, at most
  MaxLater,     \* the same after a call of an async function, and for later pages
  MaxVMs,       \* 1 + the number of calls of async functions, at most
  MaxSync,      \* callbacks of built-ins that are active at the same time, at most
  MaxRequests,  \* pages the VM serves, one after the other
  TimerQueue,   \* capacity of jsTimerResultQueue
  ReadQueue,    \* capacity of jsAsyncFSReadResults
  Prompt        \* code takes no time and timeouts are short, next to a drain

ASSUME JSAssumption ==
  /\ MaxIds \in Nat /\ MaxLater \in 0..MaxIds /\ MaxVMs \in Nat \ {0} /\ MaxSync \in Nat
  /\ MaxRequests \in Nat /\ TimerQueue \in Nat /\ ReadQueue \in Nat \ {0}
  /\ Prompt \in BOOLEAN

Ids == 1..MaxIds
VMs == 1..MaxVMs
CodeFrames == {"main", "sync", "job", "async"}
LoopFrames == {"pump", "micro", "drain", "await"}
Callbacks == {"tick", "immediate", "timeout", "interval", "reaction", "read"}
Promises == {"deferred", "async"}

VARIABLES
  stack,      \* the frames of the page's goroutine, the innermost last
  q,          \* the queues and guards of each VM
  kind,       \* what each number was given out for
  pr,         \* the state of each promise
  reactions,  \* the callbacks waiting for each promise
  items,      \* jsTimerItems: "none", "ref" or "unref"
  armed,      \* the Go timers and tickers that run
  fired,      \* jsTimerResultQueue
  reading,    \* goroutines of fs.readFile
  readDone,   \* jsAsyncFSReadResults
  vms,        \* VMs created so far
  request     \* which page the VM serves

VARIABLES
  runs,       \* history: how often each callback was started (2 is "more")
  outside,    \* history: callbacks created by code that is not in a job
  spoiled,    \* history: an async function was called, or a read of an
              \*          earlier page was under way when this one began
  awaited,    \* history: the page has waited in await
  gaveUp,     \* history: the drain at the end of the page ran into its deadline
  aborted     \* history: the page ended by an exception or Response.End

loop == <<stack, q>>
promises == <<kind, pr, reactions>>
goroutines == <<items, armed, fired, reading, readDone>>
history == <<runs, outside, spoiled, awaited, gaveUp, aborted>>
vars == <<loop, promises, goroutines, vms, request, history>>

Frame(k, v, id, ph) == [k |-> k, vm |-> v, id |-> id, ph |-> ph, late |-> FALSE]
Job(v, c) == [vm |-> v, id |-> c]

Fresh == [micro |-> <<>>, tick |-> <<>>, imm |-> <<>>,
          pumping |-> FALSE, processing |-> FALSE, leftover |-> FALSE]

TypeOK ==
  /\ stack \in Seq([k : CodeFrames \cup LoopFrames, vm : VMs, id : 0..MaxIds,
                    ph : {"code", "post", "done", "pump", "check", "micro", "imm", "loop"},
                    late : BOOLEAN])
  /\ q \in [VMs -> [micro : Seq([vm : VMs, id : Ids]), tick : Seq(Ids), imm : Seq(Ids),
                    pumping : BOOLEAN, processing : BOOLEAN, leftover : BOOLEAN]]
  /\ kind \in [Ids -> Callbacks \cup Promises \cup {"none"}]
  /\ pr \in [Ids -> {"none", "pending", "fulfilled", "rejected"}]
  /\ reactions \in [Ids -> Seq(Ids)]
  /\ items \in [Ids -> {"none", "ref", "unref"}]
  /\ armed \subseteq Ids /\ fired \in Seq(Ids)
  /\ reading \subseteq (1..MaxRequests) \X Ids
  /\ readDone \in Seq((1..MaxRequests) \X Ids)
  /\ vms \in VMs /\ request \in 1..MaxRequests
  /\ runs \in [Ids -> 0..2] /\ outside \subseteq Ids
  /\ spoiled \in BOOLEAN /\ awaited \in BOOLEAN /\ gaveUp \in BOOLEAN /\ aborted \in BOOLEAN

Init ==
  /\ stack = <<Frame("main", 1, 0, "code")>>
  /\ q = [v \in VMs |-> Fresh]
  /\ kind = [c \in Ids |-> "none"]
  /\ pr = [c \in Ids |-> "none"]
  /\ reactions = [c \in Ids |-> <<>>]
  /\ items = [c \in Ids |-> "none"]
  /\ armed = {} /\ fired = <<>> /\ reading = {} /\ readDone = <<>>
  /\ vms = 1 /\ request = 1
  /\ runs = [c \in Ids |-> 0] /\ outside = {}
  /\ spoiled = FALSE /\ awaited = FALSE /\ gaveUp = FALSE /\ aborted = FALSE

(***************************************************************************)
(* The innermost frame, and what is done to it.                            *)
(***************************************************************************)
Depth == Len(stack)
Top == stack[Depth]
Ended == stack = <<>>
In(k) == ~Ended /\ Top.k = k
InCode == ~Ended /\ Top.k \in CodeFrames /\ Top.ph = "code"
VM == Top.vm
Below == Front(stack)
At(ph) == [stack EXCEPT ![Depth].ph = ph]
InJob == \E i \in 1..Depth : stack[i].k = "micro"

\* jsHasPendingRefedOneShotTimer and the three queues.
Pending(v) ==
  \/ \E c \in Ids : kind[c] = "timeout" /\ items[c] = "ref"
  \/ q[v].tick # <<>> \/ q[v].micro # <<>> \/ q[v].imm # <<>>

(***************************************************************************)
(* Promises.  A settled promise queues its reactions on the VM that        *)
(* settled it; one that is settled already stays as it is.                 *)
(***************************************************************************)
Jobs(v, ids) == [i \in DOMAIN ids |-> Job(v, ids[i])]

Settle(queues, v, p, outcome) ==
  IF pr[p] # "pending"
  THEN q' = queues /\ UNCHANGED <<pr, reactions>>
  ELSE /\ pr' = [pr EXCEPT ![p] = outcome]
       /\ reactions' = [reactions EXCEPT ![p] = <<>>]
       /\ q' = [queues EXCEPT ![v].micro = @ \o Jobs(v, reactions[p])]

(***************************************************************************)
(* What the code of a page does.  Each call takes the next number.         *)
(***************************************************************************)
Used == Cardinality({c \in Ids : kind[c] # "none"})
New == Used + 1
Room == Used < IF vms = 1 /\ request = 1 THEN MaxIds ELSE MaxLater

Create(k) ==
  /\ InCode /\ Room
  /\ kind' = [kind EXCEPT ![New] = k]
  /\ outside' = IF InJob THEN outside ELSE outside \cup {New}
  /\ UNCHANGED <<stack, request, vms, runs, spoiled, awaited, gaveUp, aborted>>

SetTimer(k) ==
  /\ k \in {"timeout", "interval"}
  /\ Create(k)
  /\ items' = [items EXCEPT ![New] = "ref"]
  /\ armed' = armed \cup {New}
  /\ UNCHANGED <<q, pr, reactions, fired, reading, readDone>>

SetImmediate ==
  /\ Create("immediate")
  /\ q' = [q EXCEPT ![VM].imm = Append(@, New)]
  /\ UNCHANGED <<pr, reactions, goroutines>>

NextTick ==
  /\ Create("tick")
  /\ q' = [q EXCEPT ![VM].tick = Append(@, New)]
  /\ UNCHANGED <<pr, reactions, goroutines>>

NewPromise ==
  /\ Create("deferred")
  /\ pr' = [pr EXCEPT ![New] = "pending"]
  /\ UNCHANGED <<q, reactions, goroutines>>

\* Slip: the reaction is left with the promise even if that is settled.
ThenAlwaysWaits(p) ==
  /\ p # 0 => pr[p] # "none"
  /\ Create("reaction")
  /\ pr' = [pr EXCEPT ![New] = "pending"]
  /\ IF p # 0
     THEN reactions' = [reactions EXCEPT ![p] = Append(@, New)] /\ UNCHANGED q
     ELSE q' = [q EXCEPT ![VM].micro = Append(@, Job(VM, New))] /\ UNCHANGED reactions
  /\ UNCHANGED goroutines

\* 0 is a promise that Promise.resolve has just made.
Then(p) ==
  /\ p # 0 => pr[p] # "none"
  /\ Create("reaction")
  /\ pr' = [pr EXCEPT ![New] = "pending"]
  /\ IF p # 0 /\ pr[p] = "pending"
     THEN reactions' = [reactions EXCEPT ![p] = Append(@, New)] /\ UNCHANGED q
     ELSE q' = [q EXCEPT ![VM].micro = Append(@, Job(VM, New))] /\ UNCHANGED reactions
  /\ UNCHANGED goroutines

\* fs.readFile; with the channel all but full the callback gets an error.
ReadFile ==
  /\ Create("read")
  /\ IF Len(readDone) >= ReadQueue - 1
     THEN q' = [q EXCEPT ![VM].micro = Append(@, Job(VM, New))] /\ UNCHANGED reading
     ELSE reading' = reading \cup {<<request, New>>} /\ UNCHANGED q
  /\ UNCHANGED <<pr, reactions, items, armed, fired, readDone>>

Resolve(p, outcome) ==
  /\ InCode
  /\ kind[p] = "deferred" /\ pr[p] = "pending"
  /\ Settle(q, VM, p, outcome)
  /\ UNCHANGED <<stack, kind, goroutines, vms, request, history>>

ClearTimer(c) ==
  /\ InCode /\ items[c] # "none"
  /\ items' = [items EXCEPT ![c] = "none"]
  /\ armed' = armed \ {c}
  /\ UNCHANGED <<loop, promises, fired, reading, readDone, vms, request, history>>

SetRef(c, r) ==
  /\ InCode /\ items[c] # "none" /\ r \in {"ref", "unref"}
  /\ items' = [items EXCEPT ![c] = r]
  /\ UNCHANGED <<loop, promises, armed, fired, reading, readDone, vms, request, history>>

\* refresh() restarts the Go timer of a timeout that has not been handled yet.
Refresh(c) ==
  /\ InCode /\ items[c] # "none" /\ kind[c] = "timeout"
  /\ armed' = armed \cup {c}
  /\ UNCHANGED <<loop, promises, items, fired, reading, readDone, vms, request, history>>

\* The last immediate takes the place of the one that is cleared.
ClearImmediate(c) ==
  /\ InCode
  /\ LET imm == q[VM].imm IN
     \E i \in DOMAIN imm :
       /\ imm[i] = c
       /\ q' = [q EXCEPT ![VM].imm = Front([imm EXCEPT ![i] = Last(imm)])]
  /\ UNCHANGED <<stack, promises, goroutines, vms, request, history>>

\* A callback that a built-in calls at once (forEach, sort, replace, ...).
SyncCall ==
  /\ InCode
  /\ Cardinality({i \in 1..Depth : stack[i].k = "sync"}) < MaxSync
  /\ stack' = Append(stack, Frame("sync", VM, 0, "code"))
  /\ UNCHANGED <<q, promises, goroutines, vms, request, history>>

(***************************************************************************)
(* An async function runs on a clone of the VM that has copies of the      *)
(* queues and of the guards; timers, promises and the channels are shared. *)
(***************************************************************************)
AsyncCall ==
  /\ InCode /\ vms < MaxVMs /\ Room
  /\ kind' = [kind EXCEPT ![New] = "async"]
  /\ pr' = [pr EXCEPT ![New] = "pending"]
  /\ vms' = vms + 1
  /\ q' = [q EXCEPT ![vms + 1] = q[VM]]
  /\ stack' = Append(stack, Frame("async", vms + 1, New, "code"))
  /\ spoiled' = TRUE
  /\ UNCHANGED <<reactions, goroutines, request, runs, outside, awaited, gaveUp, aborted>>

\* OpJSAwait, in an async function or in the page's own code, of a promise that
\* is still pending.
Await(p) ==
  /\ InCode /\ Top.k \in {"main", "async"} /\ pr[p] = "pending"
  /\ stack' = Append(stack, Frame("await", VM, p, "loop"))
  /\ awaited' = TRUE
  /\ UNCHANGED <<q, promises, goroutines, vms, request, runs, outside, spoiled, gaveUp, aborted>>

(***************************************************************************)
(* The pump, between two instructions of any code (every 64th).  Results   *)
(* of reads and timers are queued as jobs, ticks go before all of them,    *)
(* the queue is run, and immediates are queued for the next round.         *)
(***************************************************************************)
ReadJobs(v) == [i \in DOMAIN readDone |-> Job(v, readDone[i][2])]
\* The first result of a timeout removes it from the items, later ones find none.
Handled ==
  LET done[n \in 0..Len(fired)] ==
        IF n = 0 THEN <<>>
        ELSE IF \/ items[fired[n]] = "none"
                \/ kind[fired[n]] = "timeout" /\ fired[n] \in ToSet(done[n - 1])
             THEN done[n - 1]
             ELSE Append(done[n - 1], fired[n])
  IN done[Len(fired)]
TimerJobs(v) == Jobs(v, Handled)
ItemsLeft ==
  [c \in Ids |-> IF kind[c] = "timeout" /\ c \in ToSet(fired) THEN "none" ELSE items[c]]

\* jsPumpAsyncFSReadResults and jsPumpTimerResults.
Collect == items' = ItemsLeft /\ fired' = <<>> /\ readDone' = <<>>

\* Slip: the tick queue is not emptied.
BeginPumpTicksKept(v, callers) ==
  /\ ~q[v].pumping
  /\ Collect
  /\ q' = [q EXCEPT ![v].pumping = TRUE,
                    ![v].micro = Jobs(v, q[v].tick) \o @ \o ReadJobs(v) \o TimerJobs(v)]
  /\ stack' = Append(callers, Frame("pump", v, 0, "micro"))

\* Slip: ticks are queued behind the promise callbacks.
BeginPumpTicksLast(v, callers) ==
  /\ ~q[v].pumping
  /\ Collect
  /\ q' = [q EXCEPT ![v].pumping = TRUE,
                    ![v].tick = <<>>,
                    ![v].micro = @ \o ReadJobs(v) \o TimerJobs(v) \o Jobs(v, q[v].tick)]
  /\ stack' = Append(callers, Frame("pump", v, 0, "micro"))

BeginPump(v, callers) ==
  /\ ~q[v].pumping
  /\ Collect
  /\ q' = [q EXCEPT ![v].pumping = TRUE,
                    ![v].tick = <<>>,
                    ![v].micro = Jobs(v, q[v].tick) \o @ \o ReadJobs(v) \o TimerJobs(v)]
  /\ stack' = Append(callers, Frame("pump", v, 0, "micro"))

\* A pump that finds nothing is not a step.
Pump ==
  /\ InCode
  /\ \/ fired # <<>> \/ readDone # <<>>
     \/ q[VM].tick # <<>> \/ q[VM].micro # <<>> \/ q[VM].imm # <<>>
  /\ BeginPump(VM, stack)
  /\ UNCHANGED <<promises, armed, reading, vms, request, history>>

\* Slip: the guard jsProcessingMicrotasks is not looked at.
BeginMicroAgain(v, callers) ==
  /\ Collect
  /\ q' = [q EXCEPT ![v].processing = TRUE, ![v].micro = @ \o ReadJobs(v) \o TimerJobs(v)]
  /\ stack' = Append(callers, Frame("micro", v, 0, "loop"))

\* jsProcessMicrotasks: entered unless it is active on this VM.
BeginMicro(v, callers) ==
  /\ ~q[v].processing
  /\ Collect
  /\ q' = [q EXCEPT ![v].processing = TRUE, ![v].micro = @ \o ReadJobs(v) \o TimerJobs(v)]
  /\ stack' = Append(callers, Frame("micro", v, 0, "loop"))

PumpMicro ==
  /\ In("pump") /\ Top.ph = "micro" /\ q[VM].micro # <<>>
  /\ BeginMicro(VM, At("imm"))
  /\ UNCHANGED <<promises, armed, reading, vms, request, history>>

PumpEnd ==
  /\ In("pump")
  /\ Top.ph = "imm" \/ q[VM].micro = <<>> \/ q[VM].processing
  /\ q' = [q EXCEPT ![VM].micro = @ \o Jobs(VM, q[VM].imm), ![VM].imm = <<>>,
                    ![VM].pumping = FALSE]
  /\ stack' = Below
  /\ UNCHANGED <<promises, goroutines, vms, request, history>>

(***************************************************************************)
(* The jobs.  A job runs on the VM that queued it, whichever VM's queue it *)
(* is taken from.                                                          *)
(***************************************************************************)
StartJob ==
  /\ In("micro") /\ q[VM].micro # <<>>
  /\ q' = [q EXCEPT ![VM].micro = Tail(@)]
  /\ LET job == Head(q[VM].micro) IN
     IF kind[job.id] \in Callbacks
     THEN /\ stack' = Append(stack, Frame("job", job.vm, job.id, "code"))
          /\ runs' = [runs EXCEPT ![job.id] = IF @ = 2 THEN 2 ELSE @ + 1]
     ELSE UNCHANGED <<stack, runs>>   \* a number that is no function here
  /\ UNCHANGED <<promises, goroutines, vms, request, outside, spoiled, awaited, gaveUp, aborted>>

EndMicro ==
  /\ In("micro") /\ q[VM].micro = <<>>
  /\ q' = [q EXCEPT ![VM].processing = FALSE]
  /\ stack' = Below
  /\ UNCHANGED <<promises, goroutines, vms, request, history>>

(***************************************************************************)
(* The end of a piece of code.  A callback returns to an OpHalt, so that   *)
(* its end drains like the end of the page; an async function returns      *)
(* behind the program, where an OpHalt may have been added meanwhile.      *)
(***************************************************************************)
EndCode ==
  /\ InCode
  /\ \/ /\ Pending(VM)
        /\ stack' = Append(At("post"), Frame("drain", VM, 0, "pump"))
     \/ /\ Top.k = "async" \/ ~Pending(VM)
        /\ stack' = At("post")
  /\ UNCHANGED <<q, promises, goroutines, vms, request, history>>

DrainPump ==
  /\ In("drain") /\ Top.ph = "pump"
  /\ BeginPump(VM, At("check"))
  /\ UNCHANGED <<promises, armed, reading, vms, request, history>>

DrainAgain ==
  /\ In("drain") /\ Top.ph = "check"
  /\ Pending(VM) /\ ~Top.late
  /\ stack' = At("pump")
  /\ UNCHANGED <<q, promises, goroutines, vms, request, history>>

\* Slip: the drain has no deadline.
DrainEndsWhenDone ==
  /\ In("drain")
  /\ Top.ph = "check" \/ q[VM].pumping
  /\ ~Pending(VM)
  /\ stack' = Below
  /\ UNCHANGED <<q, promises, goroutines, vms, request, history>>

\* While a pump of this VM is active, the drain's own pump does nothing.
DrainEnd ==
  /\ In("drain")
  /\ Top.ph = "check" \/ q[VM].pumping
  /\ ~Pending(VM) \/ Top.late
  /\ stack' = Below
  /\ gaveUp' = (gaveUp \/ (Pending(VM) /\ Last(Below).k = "main"))
  /\ UNCHANGED <<q, promises, goroutines, vms, request, runs, outside, spoiled, awaited, aborted>>

\* A drain whose pump has nothing to do, or does nothing.
Waiting ==
  /\ In("drain")
  /\ q[VM].pumping \/ (fired = <<>> /\ readDone = <<>> /\ q[VM].tick = <<>>
                        /\ q[VM].micro = <<>> /\ q[VM].imm = <<>>)

\* The five seconds of a drain, which are over for the outer drain first.
DeadlinePasses(i) ==
  /\ stack[i].k = "drain" /\ ~stack[i].late
  /\ Prompt => Waiting /\ \A c \in armed : kind[c] # "timeout"
  /\ \A j \in 1..(i - 1) : stack[j].k = "drain" => stack[j].late
  /\ stack' = [stack EXCEPT ![i].late = TRUE]
  /\ UNCHANGED <<q, promises, goroutines, vms, request, history>>

\* Jobs left over are run if no function of the page is active.
PostMicro ==
  /\ ~Ended /\ Top.k \in CodeFrames /\ Top.ph = "post"
  /\ q[VM].micro # <<>> /\ ~q[VM].leftover
  /\ BeginMicro(VM, At("done"))
  /\ UNCHANGED <<promises, armed, reading, vms, request, history>>

\* syncExecuteGlobalState: the caller goes on with the clone's queues.
Sync(queues, v, w) ==
  [queues EXCEPT ![v].micro = queues[w].micro, ![v].tick = queues[w].tick,
                 ![v].imm = queues[w].imm]

\* frameStays: the call stack of the VM keeps the frame of the callback.
Leave(outcome, frameStays) ==
  LET queues == [q EXCEPT ![VM].leftover = @ \/ frameStays] IN
  /\ stack' = Below
  /\ CASE Top.k = "async" ->
            /\ pr' = [pr EXCEPT ![Top.id] = outcome]
            /\ q' = Sync(q, Last(Below).vm, VM)
            /\ UNCHANGED reactions
       [] Top.k = "job" /\ kind[Top.id] = "reaction" -> Settle(queues, VM, Top.id, outcome)
       [] OTHER -> q' = queues /\ UNCHANGED <<pr, reactions>>

Return ==
  /\ ~Ended /\ Top.k \in CodeFrames
  /\ \/ Top.ph = "done"
     \/ /\ Top.ph = "post"
        /\ \/ q[VM].micro = <<>> \/ q[VM].processing \/ q[VM].leftover
           \/ Top.k # "main"        \* called from within a function
  /\ Leave("fulfilled", FALSE)
  /\ UNCHANGED <<kind, goroutines, vms, request, history>>

(***************************************************************************)
(* Code that stops before its end: an exception, or the script timeout,    *)
(* which a callback or an async function turns into an exception.  Neither *)
(* a drain nor the jobs left over come after it.  The caller of a built-in *)
(* may catch the exception, which takes the frame off the call stack.      *)
(***************************************************************************)
Abort ==
  /\ stack' = <<>>
  /\ aborted' = TRUE
  /\ UNCHANGED <<q, pr, reactions, runs, outside, spoiled, awaited, gaveUp>>

Throw ==
  /\ InCode
  /\ \/ Top.k = "main" /\ Abort
     \/ Top.k = "sync" /\ (\E stays \in BOOLEAN : Leave("rejected", stays)) /\ UNCHANGED history
     \/ Top.k = "job" /\ Leave("rejected", TRUE) /\ UNCHANGED history
     \/ Top.k = "async" /\ Leave("rejected", FALSE) /\ UNCHANGED history
  /\ UNCHANGED <<kind, goroutines, vms, request>>

\* Response.End ends the page in its own code only; a callback returns from it,
\* and in an async function it is one more exception.
ResponseEnd ==
  /\ InCode
  /\ \/ Top.k = "main" /\ Abort
     \/ Top.k \in {"sync", "job"} /\ Leave("fulfilled", TRUE) /\ UNCHANGED history
     \/ Top.k = "async" /\ Leave("rejected", FALSE) /\ UNCHANGED history
  /\ UNCHANGED <<kind, goroutines, vms, request>>

(***************************************************************************)
(* await: runs the queue until the promise is settled.  If the clone took  *)
(* over a guard that is set, there is nothing it can run.                  *)
(***************************************************************************)
AwaitMicro ==
  /\ In("await") /\ pr[Top.id] = "pending"
  /\ q[VM].micro # <<>> \/ fired # <<>> \/ readDone # <<>>
  /\ BeginMicro(VM, stack)
  /\ UNCHANGED <<promises, armed, reading, vms, request, history>>

AwaitEnd ==
  /\ In("await") /\ pr[Top.id] # "pending"
  /\ stack' = Below
  /\ UNCHANGED <<q, promises, goroutines, vms, request, history>>

(***************************************************************************)
(* The goroutines beside the page, and the reset of the VM.                *)
(***************************************************************************)
\* Bound: an interval does not tick again while its callback is queued.
Queued(c) == c \in ToSet(fired) \/ \E v \in VMs : \E j \in ToSet(q[v].micro) : j.id = c

Fire(c) ==
  /\ c \in armed
  /\ kind[c] = "interval" => ~Queued(c)
  /\ armed' = IF kind[c] = "interval" THEN armed ELSE armed \ {c}
  /\ fired' = IF Len(fired) < TimerQueue THEN Append(fired, c) ELSE fired
  /\ UNCHANGED <<loop, promises, items, reading, readDone, vms, request, history>>

ReadEnds(r) ==
  /\ r \in reading /\ Len(readDone) < ReadQueue
  /\ reading' = reading \ {r}
  /\ readDone' = Append(readDone, r)
  /\ UNCHANGED <<loop, promises, items, armed, fired, vms, request, history>>

\* The VM is reset and serves the next page; reads under way are not stopped.
\* Bound: without one the next page would begin as the first did.
NextPage ==
  /\ Ended /\ request < MaxRequests /\ reading # {}
  /\ request' = request + 1
  /\ stack' = <<Frame("main", 1, 0, "code")>>
  /\ q' = [v \in VMs |-> Fresh]
  /\ kind' = [c \in Ids |-> "none"]
  /\ pr' = [c \in Ids |-> "none"]
  /\ reactions' = [c \in Ids |-> <<>>]
  /\ items' = [c \in Ids |-> "none"]
  /\ armed' = {} /\ fired' = <<>> /\ readDone' = <<>>
  /\ UNCHANGED reading
  /\ vms' = 1
  /\ runs' = [c \in Ids |-> 0] /\ outside' = {}
  /\ spoiled' = TRUE /\ awaited' = FALSE /\ gaveUp' = FALSE /\ aborted' = FALSE

Call ==
  \/ \E k \in {"timeout", "interval"} : SetTimer(k)
  \/ SetImmediate \/ NextTick \/ NewPromise \/ ReadFile
  \/ \E p \in {0} \cup Ids : Then(p)
  \/ \E c \in Ids :
       \/ ClearTimer(c) \/ Refresh(c) \/ ClearImmediate(c) \/ Await(c)
       \/ \E r \in {"ref", "unref"} : SetRef(c, r)
       \/ \E outcome \in {"fulfilled", "rejected"} : Resolve(c, outcome)
  \/ SyncCall \/ AsyncCall

Loop ==
  \/ PumpMicro \/ PumpEnd \/ StartJob \/ EndMicro
  \/ DrainPump \/ DrainAgain \/ DrainEnd \/ PostMicro \/ Return
  \/ AwaitMicro \/ AwaitEnd

Beside ==
  \/ \E c \in Ids : Fire(c)
  \/ \E r \in reading : ReadEnds(r)
  \/ \E i \in 1..Depth : DeadlinePasses(i)

Next == Call \/ Pump \/ EndCode \/ Throw \/ ResponseEnd \/ Loop \/ Beside \/ NextPage

Spec == Init /\ [][Next]_vars

(***************************************************************************)
(* The page's goroutine runs, deadlines pass, and code that goes on and on *)
(* comes to its end or to the script timeout.                              *)
(***************************************************************************)
EndCodeOf(k) == EndCode /\ Top.k = k
Fairness ==
  /\ WF_vars(Loop)
  /\ WF_vars(\E i \in 1..Depth : DeadlinePasses(i))
  /\ SF_vars(EndCodeOf("main"))
  /\ SF_vars(EndCodeOf("sync")) /\ SF_vars(EndCodeOf("job"))
LiveSpec == Spec /\ Fairness

----------------------------------------------------------------------------
\* A callback that was given once is started once: nobody takes it from a
\* queue that still holds it, and no two rounds of the loop queue it
\* (jsProcessNextTickQueue, jsProcessImmediateQueue, jsHandleTimerFired).
RunsOnce ==
  ~spoiled => \A c \in Ids : kind[c] # "interval" => runs[c] <= 1

\* A job runs to its end before the next one starts, however the loop is
\* entered from within it (the guards jsPumpingNodeTasks and
\* jsProcessingMicrotasks).
OneJobAtATime ==
  ~spoiled => Cardinality({i \in 1..Depth : stack[i].k = "job"}) <= 1

\* process.nextTick called by the page itself runs before every promise
\* callback that was given later (jsProcessNextTickQueue).
TicksFirst ==
  (~spoiled /\ ~awaited) =>
    \A t \in outside, c \in Ids :
      (kind[t] = "tick" /\ kind[c] = "reaction" /\ t < c /\ runs[c] > 0) => runs[t] > 0

\* A page that ends by itself has run every promise callback whose promise is
\* settled, even if its last drain gave up.
ReactionsRun ==
  (Ended /\ ~aborted /\ ~spoiled) =>
    \A c \in Ids : kind[c] = "reaction" /\ runs[c] = 0 =>
      \E p \in Ids : pr[p] = "pending" /\ c \in ToSet(reactions[p])

\* A page without await, async functions and intervals ends, whatever timeouts, reads
\* and promises it leaves waiting and wherever its callbacks enter the loop
\* again (the deadline of jsDrainNodeAsyncOnExit).
PageEnds ==
  (~Ended) ~> (Ended \/ spoiled \/ awaited \/ \E c \in Ids : kind[c] = "interval")

\* The drain is there "so short-lived setTimeout callbacks can run": a page that
\* ends by itself leaves no timeout behind that would have fired meanwhile.
ShortTimersRun ==
  (Ended /\ ~aborted) => \A c \in Ids : kind[c] = "timeout" => items[c] # "ref"

\* A result belongs to the page that asked for it.
OwnResults == \A i \in DOMAIN readDone : readDone[i][1] = request

\* Full ES6 promises: a callback runs once, also around async functions.
CallbacksRunOnce == \A c \in Ids : kind[c] = "reaction" => runs[c] <= 1

\* A page ends, await or not, at the latest by the script timeout.
EveryPageEnds == (~Ended) ~> Ended
=============================================================================
