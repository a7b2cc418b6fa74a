# AxonASP in TLA+

AxonASP runs Classic ASP pages (VBScript and JScript) on a bytecode VM written in
Go, behind its own HTTP server, a FastCGI server or a Caddy module. Three things
are hard to get right and are modelled here. What the pages of one process
share: the `Application` object, the session store, the pool of virtual machines
and the cache of compiled pages. What happens around one page: the `Response`
against the handler that may give up on it, the event loop of a JScript page, and
the manager of the FastCGI worker processes. And what a page means: that the
optimizer's passes over its bytecode do not change it. All are checked with TLC
on small instances, and their safety is proved for every size with TLAPS, but for the
meaning of the pages themselves.

Paths such as `axonvm/asp/session.go:547` are relative to the repository.

## 1. Inventory

| Component | State it keeps | Operations | What is hard |
|---|---|---|---|
| Application object (`axonvm/asp/application.go`, dispatch in `axonvm/vm.go`) | `lockOwner`, `lockCount`, `locked`, a condition variable; `contents`, `staticObjects` | `Lock`, `Unlock`, `WaitForServer`, map reads and writes | a reentrant lock by hand, two mutexes, check and use in two critical sections |
| Session store (`axonvm/asp/session.go`, `server/web_host.go`) | `Session` objects with `version`, `dirty`, `lastSavedVersion`; `sessionRegistry`; `.g3ses` files; `sessionWriteQueue` | `GetOrCreateSession`, `LoadSession`, `Save`, `Delete`, `Abandon`, `PersistSession`, `FlushRegisteredSessions` | several savers of one session, saves that outlive a delete, non-atomic `WriteFile`, a lossy queue, expiry, stop and crash |
| VM pool and request execution (`axonvm/vm_pool.go`, `server/main.go`, `server/web_host.go`, `fastcgi/main.go`, `caddy/axonasp_caddy.go`, `axonvm/global_asa.go`) | `vmPoolLimiter`, `cachedProgramPools`, the items of each pool, a VM's STA worker, the `done` channel, `cancellableWriter.canceled` | acquire, release, purge; handler, watchdog, script goroutine, `Server.Execute` | detached goroutines, a pool at its limit, nested acquisition, purge against use |
| Script cache (`axonvm/script_cache.go`) | memory tier with FIFO order and byte count, `dependencyMap` and its inverse, `.aspb` files, singleflight calls, `watchDebounce` | `LoadOrCompile…`, `putByCacheKey`, `loadDiskProgram`, `storeDiskProgram`, `Invalidate`, watcher | edits while compiling, times in whole seconds, three structures that must agree, eviction |
| Response (`axonvm/asp/response.go`, writers and handler in `server/main.go`) | buffer and its segments, headers, status, flags for ended and flushed; the header map of the connection, `canceled` | `Write`, `BinaryWrite`, `CodePage`, `Flush`, `End`, `Clear`, `Redirect`; the handler's own answer | a flush is many calls on a writer that the handler may take away between any two of them |
| Request, Server, ASPError (`axonvm/asp/`) | per request | parsing, `MapPath`, encoders, `ScriptTimeout` | nothing shared |
| global.asa (`axonvm/global_asa.go`) | compiled handlers, `isLoaded`, one instance per process | `Application_OnStart/OnEnd`, `Session_OnStart/OnEnd` | once-only start, events that must run; `Session_OnEnd` is compiled and has no caller |
| Dynamic execution caches (`axonvm/`) | bounded maps of `Execute`/`Eval` programs | get, put, evict | limits |
| VM core, compiler, optimizer (`axonvm/`) | bytecode, constants, operand stack, globals | compilation of statements, passes over the bytecode in rounds, interpretation | every pass must keep the meaning of code the others have changed |
| Parsers (`vbscript/`, `jscript/`) | per compilation | lexing, parsing | size, not concurrency |
| JScript runtime (`axonvm/jscript_nodejs_timers.go`, `jscript_nodejs_io.go`, `vm_jscript_promise.go`) | queues of ticks, jobs and immediates, two re-entrancy guards, timers, channels of results, promises | `nextTick`, `then`, `setTimeout`, ..., `await`, async functions, pump, drain | the loop runs on the page's own stack and is entered again from its callbacks |
| FPM manager (`fpm/main.go`) | `activePools` with the revision of each pool file, supervisors, worker processes, restart counts, a signal channel of one | scan, reload, start, restart, stop | reload and stop against restart, files that change between scan and use, signals that are dropped or fail |
| Service wrapper (`service/`) | one child process | start, stop | stop before the start has happened |
| HTTP server outside pages, CLI, test runner, AxonHTA, admin console, MCP server, WebAssembly host, configuration | little | routing, I/O | – |
| G3AxonLive | component state with a sweeper | call, expire | like the session store |
| ADODB, FileSystemObject, MSXML, MSWC, RegExp, Dictionary, G3 libraries | per VM | I/O, data structures | COM threads (the STA worker) |

How they meet: a request handler asks the session store for its session, runs
`Session_OnStart` if the session is new, asks the script cache for the page's
program, takes a VM for that program from the pool, and starts the script in a
goroutine that it watches. The script reaches the `Application` object and its
session through the VM's dispatch, and the cache and the pool again through
`Server.Execute`. At the end the VM goes back, the session is queued for a
writer worker, and the flusher goroutine saves, expires and sweeps in the
background.

What makes each modelled part correct:

* **Application**: owner, count and flag agree; no sleeper is forgotten; a
  locked section sees no foreign write; the lock passes only through its
  owner's own `Unlock`; whoever waits gets through.
* **Sessions**: the dirty flag never hides a change; one object per identifier;
  a full queue only delays; expired sessions are collected; discarded records
  stay discarded; a stop leaves complete files.
* **VM pool**: slots are counted exactly; a VM has one owner; a pool is not
  lost or overfilled; a purge does not touch a VM in use; a detached script
  cannot write and gives everything back; every request is answered.
* **Script cache**: the byte count and the dependency maps balance; an edit
  reaches every page in memory; the disk tier never revives an old program.
* **Response**: the client gets what was written and not cleared, in order and in
  the code page of the moment; nothing follows the handler's own answer; a
  redirect replaces everything; the buffer keeps its limit.
* **FPM**: at most one worker per pool; a worker runs the file that was last
  recorded; a reload touches only modified pools; a stop leaves no worker;
  reload, stop and restart happen.
* **Optimizer**: after every pass a page writes, assigns and fails as its
  statements say; the stack is empty at the end; the rounds end.
* **Event loop**: a callback runs once, to its end, in the promised order; no
  settled promise is forgotten; the page ends.

## 2. Modules

| Module | Models |
|---|---|
| `ApplicationLock` | the Application object and the VM's dispatch to it |
| `ApplicationMonitor` | the abstract monitor a script is promised |
| `ApplicationLock_proof` | theorems about `ApplicationLock` |
| `SessionStore`, `SessionStore_proof` | sessions, files, writers, flusher, requests; theorems |
| `VMPool`, `VMPool_proof` | the limiter, the pools and the two threads of a request; theorems |
| `ScriptCache`, `ScriptCache_proof` | memory and disk tiers, dependency maps, flights, watcher; theorems |
| `Response`, `Response_proof` | one request as its client sees it: the Response object, the writers, the handler; theorems |
| `FPM`, `FPM_proof` | the process manager: main thread, supervisors, watchers, workers, signals, time; theorems |
| `Values`, `Bytecode` | values and operators of the VM; the instructions and their interpreter |
| `VBScript` | the meaning of the statements, as a reference (no code is behind it) |
| `Compiler` | statements to bytecode |
| `Optimizer`, `Optimizer_proof` | the passes of `optimizePeephole` as actions, on any bytecode with one height of the stack at every instruction; theorems |
| `PageCompilation` | compiler and optimizer together, and what a page means |
| `JSEventLoop`, `JSEventLoop_proof` | the event loop of one JScript page and the reset for the next; theorems |
| `MCApplication`, `MCSession`, `MCVMPool`, `MCScriptCache`, `MCResponse`, `MCFPM`, `MCOptimizer`, `MCJSEventLoop` | values of the constants for TLC |

Definitions whose comment begins with "Faulty variant" or "Slip" are not part of
a specification. Each is a mistake one could make in the code it stands next to
and serves to show that a property notices it.

### ApplicationLock

`lockOwner`, `lockCount`, `locked` are the fields of the struct and `store` is
both maps. `pc` says where each request is: `LockForServer` is `CallLock`, then
`LockSleep` (the wait on `stateCond`) or `LockTake`; an access is `CallAccess`,
`WaitSleep` or `WaitPass` for `WaitForServer`, and then `Apply`, the map
operation under the other mutex. `WaitPass` and `Apply` are two actions because
`WaitForServer` returns, and releases `stateMu`, before the map is locked
(`vm.go:7378`). `Application(key)` looks into Contents and then, in a second
critical section (`Fallback`), into StaticObjects. `EndRequest` does not unlock:
nothing in the code does. `view` is history: what the holder has read or written
in its locked section. `Careless` are the requests whose script writes without
`Application.Lock`; `MaxCalls` bounds the calls of a script. Values are atoms.

### SessionStore

`obj` are the `Session` objects, `registry` the map, `file` the storage
directory (`NoFile`, `Torn` for a file that `WriteFile` has truncated and not
filled, or a record), `queue` the channel. `Session.Save` is four actions,
because the code holds the session's mutex for the first and the last only:
`Begun` (version, times and the *reference* to the map are read),
`Serialise`, `OpenFile`/`WriteFile`, `MarkClean`. A saver whose session replaces
its map (`RemoveAll`, `Abandon`) goes on with the old one (`Detached`), and a
saver whose file is removed under it writes to a file without a name
(`Unlinked`). `FlushRegisteredSessions` is a snapshot, one visit per session,
and the sweep of the directory; deletion is a decision, the removal of the file
and the removal from the registry, in three critical sections. One script
variable stands for the contents. `written` and `gone` are history. The random
identifiers of `newSessionID` are drawn from those nobody uses. Settings a page
changes (`Timeout`, `LCID`, `CodePage`) all go through `markDirtyLocked` and are
the same as any other change here.

Operations of the file system may fail, `MaxFailures` times: `Save` then ends with the
object still dirty and, if it got as far as writing, with a torn file (`SaveFails`; an
error that only closing the file reports is left out), and its callers ignore the
error; a `Delete` that cannot remove the file does not unregister either
(`FlushDeleteFails`, `PersistRemoveFails`, `LoadExpiredKept`), and `PersistSession`
renews the session all the same; the sweep leaves files behind (`SweepFails`). A file
that cannot be read makes `loadOrCreateSession` fall back to `asp.NewSession()`
(`LoadFails`): a session whose identifier is empty (`NoId`), which is not registered, so
that no other request finds it and no flush repeats a save of it that the full queue
drops. All such sessions share one file, which nothing reads but the sweep.

### VMPool

A request is one record for two threads, because the handler and the script
goroutine never use the pool at the same moment. `deploy` is chosen at the start
among `Deployments`: the HTTP server releases the VM before it reports on
`done`, FastCGI and Caddy report first (`AfterRun`); Caddy never sets a limit and
is the only one that purges. A full limiter channel blocks its senders, and the
Go runtime lets them in first come first served: `queue`. `frames` are the VMs a
script holds, one per level of `Server.Execute`, each with its `pooledFrom`.
`getProgramPool` is `LoadPool` and `StorePool` (`sync.Map` `Load` and
`LoadOrStore`). `Session_OnStart` runs on the handler's thread, before there is
a watchdog. An error page runs through the whole path once more on the same
writer. `CollectPool` and `CollectVM` are the garbage collector with the
finalizer that stops an STA worker. FastCGI can begin an error page while the
failed page is still releasing its VM; the model waits for that release, which
affects another request's slots in no other way.

### ScriptCache

A file is a version and a modification time; a program is the versions of the
files it was compiled from, so that "stale" can be said without modelling a
compiler. `SizeOf` is the number of bytes of a set of programs, counted one by one,
and `Without` and `Register` are the loops of `filterOutFold` and
`registerDependenciesNoLock`. Every map of the cache is keyed by the exact path
(in lower case on Windows, `normalizeScriptCacheKey`), while `filterOutFold` and
`containsFold` search the lists in them with `strings.EqualFold`: `Fold` is a name as
`EqualFold` sees it, `Alike` the names it does not tell apart, and `NamesApart` says
that no two files differ in case only. It is always so on Windows; the limit and the
dependency maps are right under this condition and wrong without it (section 5). The clock ticks in parts of a second, since `loadDiskProgram` compares
some times exactly and others as Unix seconds. A flight is the singleflight call
of a page, with a step for each access to the file system. `settled` (the page's
last edit was in an earlier second than the compilation) and the field `out` of
`deps` (files that the limit of `dependencyMap` pushed out) are history. `Edit` is external: somebody saves a file.

### Response

`res` is the Response object, `out` the two writers the server puts between it
and the connection, `want` the history of what was written and not cleared. A
unit of output is what was written together with the code page it is encoded
with, so that a segment with the wrong range or code page shows. Every method is
one action, since it holds the Response's mutex; `flushInternal` is a step per
call it makes on the writer (`GetHeader`, `PutHeader`, `PutStatus`, `PutSegment`),
because the handler does not take that mutex and may cancel the writer and answer
by itself between any two. Headers are a set, because the loop over the Go map puts
them in any order. `Session_OnStart` runs before the page, on the same
Response (`OnStartEnds`). The setters of further headers all look like `SetStatus`.

### FPM

The main thread, one supervisor per pool and revision, and the watcher of each
worker. A supervisor reads the pool file itself, after the scan that recorded its
revision; both are actions, and the administrator may write or delete the file in
between. Time passes in ticks: a step the program can take at once is taken
before the next tick, and the three delays (restart 2 s, SIGTERM to SIGKILL 10 s,
the manager's patience 15 s) are counted in ticks that keep their order. Signals
to the manager go through a channel of one and are dropped when it is full;
signals to workers may fail, and a worker may ignore SIGTERM.

### Values, Bytecode, Optimizer, VBScript, Compiler, PageCompilation

`Values` has the VM's operators on integers, text, Booleans, Null and Empty with
their errors. An Integer is an int64: `Wrapped` is what is left of a sum that overflows,
and `OpAdd` goes through a float64 and back (`Float64`, `Truncated`;
`vm_value_ops.go:169-179`), whereas the folder and `OpIAdd` add int64 values, each with
arithmetic of its own in the model as in the code. `Bytecode` runs a sequence of instructions, and looks at the clock
(`HasTimedOut`) every `Interval` turns, `Slices` times at most. `Optimizer` has one
action per pass; `NextRound` is the loop of `optimizePeephole`. It starts from the
code `Emitted` for any of the `Programs` and asks of that code what `EmittedAssumption`
says: the height of the stack at an instruction is the same on every way there, large
enough for the operands, and zero at the end. Instructions are units, not bytes: where
the walk of a pass over the bytes gets out of step (constants whose index looks like an
opcode) the pass may miss a fold, which is the choice of `missed` in `Peephole`. It may
also fold wrongly, which is left out: after a constant that does not fold the walk goes on
in its operand (`compiler_optimizer.go:783-786`), where a byte 1 is taken for `OpConstant`
(`opcode.go:29`), and a pattern that begins there straddles instructions and is overwritten
(`:816-829`). The two bytes behind must be the index of a constant: a page needs more than
256 constants, or operand bytes 1 and 0 in a row (as of a jump to 256). Every
walk is a `Repeat` with a step of its own (`FoldStep`, `InferStep`, `DeadStep`, `FuseAt`,
`PoolAt`), so that no recursive operator stands in the way of a proof.

`VBScript` says what a statement means, independently of the compiler, as a recursion
over its syntax, and `Compiler` what is emitted for it; only a statement's own `OpLine`
is kept. `PageCompilation` puts `Compile` in the place of `Emitted` and compares what the
code does with what the page means. These three have recursive operators and are for TLC
only. Passes that leave such code as it is are left out. Doubles, dates, objects,
procedures and locals, `And`/`Or` on numbers, `On Error Resume Next` and `Option
Compare Text` are not modelled.

### JSEventLoop

`stack` is the Go stack of the page's goroutine: code (the page, a callback of a
built-in, a job, an async function on its clone of the VM) and loops (the pump
that runs every 64 instructions, `jsProcessMicrotasks`, the drain at `OpHalt`,
`await`). `q` has the queues and the two guards of each VM; a clone starts with
copies and hands its queues back (`syncExecuteGlobalState`). Timers and file reads
are the only other threads. A callback returns to an `OpHalt` and so ends with a
drain of its own (`EndCode`). `leftover` is a frame that an exception or
`Response.End` leaves on the call stack, which keeps `PostMicro` from running.
An id stands for a callback and the promise that `then` returns. Left out: the
limits of one pump (32, 64, 256 results; all are collected), thenables,
combinators and `finally`, a `catch` of the page around a pump, the race of
`Stop` with a timer that is just firing, a second tick of an interval whose
callback is still queued, generators, and the other clones: `eval` and `Function`
(`cloneForExecuteLocalSharedRuntime`), `ExecuteGlobal`, `require` and module imports
(`cloneForExecuteGlobal`), `Execute` and VBScript's `Eval` (`cloneForExecuteLocal`). Such a
clone starts with copies of the queues and of the two guards, the page waits while it
runs, and the queues, but not the guards, are handed back when it ends. So the theorems
and runs are about pages without them. Node compatibility is on, as by default. `Handled` is the
loop that takes the results of timers from the channel one by one, so that a second
result of a timeout finds its item gone.

## 3. Runs

| Run | Checks | Shows |
|---|---|---|
| `application_careful` | `NoLostWakeup` `Isolation` `Handover` `ImplementsMonitor` `LockServed` | with scripts that write under the lock, the object is a monitor, no wakeup is lost and, unless a request ends without `Unlock`, everybody is served |
| `session_safety` | `CleanMeansWritten` `OneRecordPerCookie` | two requests, a worker and the flusher on two sessions, with expiry, `Abandon` and a crash or stop |
| `session_live` | `EventuallySaved` `ExpiredCollected` | a save that failed, or was dropped because the queue holds another session, is made up for by the flusher; expired files go |
| `vm_pool` | `SlotsAccounted` `OneOwner` `PoolFits` `NoOrphanPool` `WorkerInHand` `NothingAfterReturn` | HTTP server with two slots and Caddy without a limiter, nesting, timeouts, errors, purge |
| `vm_pool_live` | `EveryRequestAnswered` `DetachedScriptEnds` | one slot, no nesting: everybody is answered and everything comes back; also free of deadlock |
| `vm_pool_nested` | `EveryRequestAnswered` is violated | with `Server.Execute`, requests that hold all slots wait for slots |
| `script_cache` | `MemoryAccounted` `DependenciesAgree` `CachedIsRegistered` `DiskHitCurrent` | two pages sharing an include file, an edit, a restart, both limits reached |
| `script_cache_stale` | `EditsPickedUp` is violated | an edit during a compilation, or a second edit within the debounce window, is missed |
| `fpm` | `OneWorkerPerPool` `ConfigCurrent` `UnmodifiedUntouched` `NoOrphans` `StopTaken` `ReloadApplied` `CrashRecovered` | a pool file written twice, deleted, broken or with a restart limit; workers that end or ignore SIGTERM; signals that fail |
| `response` | `BodyFaithful` `ErrorLast` `RedirectStands` `BufferBounded` | six calls of a page, after a `Session_OnStart`, against a handler that may time out inside a flush |
| `optimizer` | `MeaningKept` `StackBalanced` `Terminates` | some two thousand pages, pass by pass, against the meaning of their statements |
| `js_loop` | `RunsOnce` `OneJobAtATime` `TicksFirst` `ReactionsRun` `PageEnds` | two callbacks of any kind, an async function, await, exceptions, timers, reads, a second page on the same VM |

Every property of a passing run is broken by at least one variant of the code
(`mutants` in `PROJECT.json`).

### Bounds

* *Application*: two requests are enough for every pairwise interleaving on one
  lock; four calls each allow Lock, two accesses and Unlock, or a nested Lock.
  One key with one value besides `Absent` in both maps makes every operation's
  effect visible.
* *Sessions*: `session_safety` has two identifiers, two objects, two requests,
  one worker and the flusher (two savers), a queue of one, one tick (a timeout of
  0 ticks makes one tick an expiry), three arrivals (create, then two loads after
  the restart) and one exit. A created session has version 2, so with
  `MaxVersion = 2` it is loaded sessions that change during a save there;
  no operation of the file system fails there, since that and a restart
  together take too long. `session_live` has one request at a time, two
  identifiers and two objects, a queue of one that either session can fill,
  and one failure. The proofs below, which hold for any number of failures, remove
  all bounds on the safety properties.
* *VM pool*: two requests, each up to two VMs deep, on two slots and three VM
  addresses reach the full limiter, a queue, a new pool lost to `LoadOrStore`,
  a purge in each phase, and reuse of addresses after collection. `vm_pool_nested`
  needs three requests, one of which is stuck behind the two that block each other.
* *Script cache*: `MaxBytes` fits either page `b` or page `a`; `DepLimit = 1`
  makes page `b`, which includes `y` and then `x`, push out its own entry and also a
  file of its own that is still to be registered; two ticks per second
  with four instants reach both sides of the comparison in seconds; one edit and
  one restart. Names are apart, so that the conditions on `NamesApart` are met.
  The violation run takes one page and two edits.
* *Response*: six calls allow a write, a change of code page, a second write, a
  flush and a redirect with one to spare; a limit of two units is reached by
  three writes; the session cookie, a header
  of the page and Location let a flush be cut off between headers.
* *FPM*: one pool, since pools share only the main thread, with two revisions
  (a running pool and its reload), one signal per tick and delays of 1, 2 and 4
  ticks in the order of the code's.
* *Optimizer*: the pages (`MCPages`) are one or two statements over the
  operators, literals and shapes that a pass looks for, nested to the depth at
  which a pass can see across a boundary; 14 slices of 15 turns are more than the longest
  needs. Before a run TLC evaluates `EmittedAssumption` for each of its pages.
  They leave out the shapes listed at the head of `MCOptimizer`, on which the
  optimizer is wrong (section 5). `IntLimit` = 2^24 and `FloatLimit` = 2^20 stand for 2^63
  and 2^53, since TLC's own integers have 32 bits; `Saturates` = FALSE is the conversion of a
  float64 out of range on amd64 (arm64 saturates). No number of a page is beyond
  `FloatLimit`, where folding a sum may change it; the pages of `OptimizerWide.cfg` are.
* *Event loop*: two callbacks or promises, one async call (`MaxLater` bounds what
  a page creates after it, and what the second page creates), one callback of a
  built-in active, one place in the timer channel so that results are dropped, and two
  in the channel of reads. The four invariants were also checked with three
  callbacks on one VM (14.6 million states, too long to repeat every time).

Symmetry is used for safety only. `CHECK_DEADLOCK FALSE` stands where the
system may really stop: the requests, edits or ticks the bounds allow are used up,
a request waits for a lock that was never given back, or (VM pool) nested
executions block each other.

### Fairness

* `ApplicationLock`: weak fairness of each request. Goroutines that can run do
  run, and a script that could loop for ever is ended by its timeout; every
  script here makes finitely many calls.
* `SessionStore`: weak fairness of each worker (it loops over the queue) and of
  the flusher (it loops over its ticker). Requests owe nothing.
* `VMPool`: weak fairness of the handler, of acquiring and of releasing; strong
  fairness of `EndRun`, because a script may keep calling `Server.Execute` or
  writing and the instruction loop still finds its deadline passed
  (`vm.go:2085`). A native call that blocks for ever is not covered: then the
  goroutine keeps its slot and, with one slot, the next request waits before it
  has a watchdog. The fair order of slots is the channel's.
* `FPM`: weak fairness of the main thread, of each supervisor and watcher; strong
  fairness of `Tick`, which signals and writes of files may delay but not stop.
  Nothing is assumed of workers and administrator.
* `Optimizer`: weak fairness of its next step; it is a loop of one thread.
* `JSEventLoop`: weak fairness of the loop's own steps and of deadlines; strong
  fairness of the end of the page's code, of built-ins' callbacks and of jobs: a
  piece of code that goes on and on is interrupted by pumps, and comes to its end
  or to the script timeout. An async function that awaits owes nothing.

## 4. Proofs

TLAPS proves the following for every number of requests, keys, values, sessions,
workers, pools, VMs, pages, calls and bounds; assumptions are only those the models
name. In `ApplicationAssumption`, `SessionAssumption`, `PoolAssumption`,
`ResponseAssumption` and `CacheAssumption` the markers are not values of the
sets they are added to, bounds are natural numbers, limits are positive where the code
replaces others (`DepLimit` is the constant 1000 there), and tables have values of their
type. `EmittedAssumption` says of the emitted code what section 2 says of it; the code
of a statement list leaves the stack as it found it, and `Compile` satisfies it for all
pages of the three configurations. `BoundsAssumption` has natural numbers. `JSAssumption` has bounds that are natural numbers and a channel of reads that
holds one at least. `FPMAssumption` has positive bounds and delays, the restart delay and the
grace after SIGTERM together shorter than the wait of a reload, as 2 s, 10 s and
15 s are in the code.

**ApplicationLock_proof**

* `LockSafety`: `TypeOK`, `LockConsistent`, `NoLostWakeup`. The invariant adds
  `CallKnown`, that a request inside an access knows which. The point is
  `Unlock`: the outermost one leaves nobody asleep because it wakes both kinds of
  sleepers, and `LockTake` by the owner makes nobody else runnable.
* `LockedSectionsIsolated` (when no script is careless): needs `CarefulHolds`,
  that a writer between its call and the map operation still holds the lock, and
  `ViewOfHolder`, that the history belongs to the current section. The gap
  between `WaitForServer` and the map operation is harmless exactly because of
  `CarefulHolds`.
* `MonitorRefinement` (when no script is careless): every step is a step of
  `ApplicationMonitor` or a stutter.
* `LockHandover`: the action property, for all scripts.

**SessionStore_proof**

* `SessionTypes`, `NoChangeForgotten`: `CleanMeansWritten` is not inductive by
  itself. `IInv` adds that everything a request, saver, the queue, the flusher
  or the registry holds is an allocated object (`TableRefs`, `RequestRefs`,
  `SaverRefs`) and that a saver about to mark a session clean has seen a version
  no higher than what is written out. `AllocateInv` is the delicate step: an
  object is reused only when nobody refers to it, so no saver carries a version
  of its former life over.
* `OneObjectPerCookie`: `NameInv` adds that the registry files objects under
  their own identifier, that a loaded object carries its request's cookie, and
  that a running script works on the registered object unless the identifier is
  `gone`. `registerSession` keeping the first object is what it rests on. The
  sessions of the fallback have no identifier and no cookie can name them.

**FPM_proof**

* `OneGeneration` (`OneWorkerPerPool`), `RunsRecorded` (`ConfigCurrent`),
  `ReloadSelective` (`UnmodifiedUntouched`) and `CleanExit` (`NoOrphans`), all from
  `Invariance`. A reload goes on after 15 s whether the old supervisor has ended or
  not, so that two generations do not overlap is a matter of time. `IInv` states
  when a supervisor is `Retired` (it will start no worker again, and its worker has
  ended or cannot be signalled) and adds: one that is not retired is that of its
  pool's handle, or one the shutdown still waits for (`GenerationInv`); while the
  manager waits, what a cancelled supervisor can still need (`Left`: the rest of its
  restart delay plus the grace, or the rest of the grace) is less than what is left
  of the wait (`WaitInv`), which `Tick` keeps because it lowers both; a worker runs
  only while its supervisor waits for it (`LifeInv`); the scan's lists hold one entry
  per pool and stay true while they are worked off (`ListInv`); and revisions only
  grow (`RevisionInv`). The invariant is where the order of the three delays is used.

**VMPool_proof**

* `VMsHaveOneOwner` (`OneOwner`), `WorkersRun` (`WorkerInHand`), `NoPoolIsOrphaned`
  (`NoOrphanPool`), `SlotsAreAccounted` (`SlotsAccounted`), `PoolsFit` (`PoolFits`) and
  the action property `SilentAfterReturn` (`NothingAfterReturn`), for the three
  servers, every limit and every depth of `Server.Execute`. `IInv` was checked by TLC
  first. `PhaseInv` says which of a request's two threads is where, and from that how
  many VMs it may hold, whether it acquires one and whether its script can still
  write. `WorkerInv` extends `WorkerInHand` to VMs idle in a pool, since `GetVM` hands
  them out without looking; `KeepInv` says that only Caddy purges, so that elsewhere
  the map keeps every pool that a request has found; `SlotInv` puts the slots in
  relation to the phases and to the queue of the limiter. `FitInv` follows from
  counting: each VM in hand has a slot of its own and the request that creates one
  has a slot to spare (`RoomForOne`).

**Response_proof**

* `BodyIsFaithful` (`BodyFaithful`), `AnswerIsLast` (`ErrorLast`), `RedirectsStand`
  (`RedirectStands`) and `BufferIsBounded` (`BufferBounded`). Concatenation is replaced
  by positions: the segments partition the buffer (`SegInv`), the buffer is the tail of
  what is wanted (`TailInv`), and what was sent is a beginning of it that ends where
  the flush stands (`BodyInv`); the lemma `PendingIs` leads from there back to the
  concatenated segments. `ErrorInv` says that once the handler has answered either the
  writer is cancelled or the script has failed, so nobody writes any more;
  `RedirectInv` follows a redirect through the steps of its flush.

**ScriptCache_proof**

* `DiskHitsAreCurrent` (`DiskHitCurrent`), from `DInv`: a settled `.aspb` entry was
  made in a later second than the page's last edit, and it holds the present version of
  every file that does not look newer than it; `ReadInv` and `StatInv` say the same of
  a flight between its accesses to the file system, where edits may come in between.
* `MemoryIsAccounted`, `MapsAgree`, `CachedPagesAreRegistered` (`MemoryAccounted`,
  `DependenciesAgree`, `CachedIsRegistered`), from `Books`. Each helper (`Without`,
  `MakeRoom`, `Insert`, `ForgetScripts`, `DropOldest`, `AddDependent`, `Register`) has
  a lemma that says what it keeps. That `totalBytes` is the size of what is in memory
  holds for any names; the rest takes `NamesApart` as a hypothesis, which is part of the
  properties. The delicate one is `Register`: between two files the
  maps do not agree, because `scriptDependencies` has all files of the page at once
  and `dependencyMap` gets one after the other; what holds then is that a file the page
  still has is either registered or waiting. `DependenciesAgree` used to say that the
  two maps are inverse to each other, which TLC did not refute; the step of `Register`
  could not be proved, and a page whose includes are in the other order is the
  counterexample (section 5).

**JSEventLoop_proof**

* `CallbacksStartOnce` (`RunsOnce`), `JobsDoNotNest` (`OneJobAtATime`), `TicksRunFirst`
  (`TicksFirst`) and `SettledReactionsRun` (`ReactionsRun`), from `LoopInvariance`.
  Like the properties, the invariant claims nothing of a page once it has called an
  async function, whose clone takes copies of the queues, or of a page a late read
  may reach: `IInv` is `~spoiled => Page`. `await` in the page's own code,
  callbacks of built-ins, exceptions and deadlines are in it. The parts of `Page`
  were checked by TLC first:
  * `Shape` says which frame may stand on which, and in which phase the caller is
    then; `Guards` that `pumping` and `processing` are set exactly while a pump or
    `jsProcessMicrotasks` is on the stack, and that there is one of each at most. A
    job stands on `jsProcessMicrotasks`, hence one job at a time.
  * `Data` says where a callback can be: it is a job, a tick, an immediate, a
    reaction of a pending promise, a timer's item or a read, in one of these once,
    and in none when it has run. Each hand-over from one place to another is a
    lemma (`TicksMove`, `ImmediatesMove`, `ReadsMove`, `TimersMove`,
    `ReactionsMove`, `JobStarts`), as is each place a new number is put into.
    `HandledIs` shows by induction over the channel that of two results of one
    timeout only the first is a job.
  * `EndOK` follows the end of the page backwards: no promise callback is among the
    jobs when it has ended, in its phases after the code, behind the first pump of
    its drain, and when that pump is about to queue the immediates. This is why a
    deadline does not matter to `ReactionsRun`.
  * `TicksOK` says of a tick of the page's own code that has not run: none of the
    later promise callbacks has, and it is a job with none of them before it, or it
    is in the tick queue and the page's own code, or a drain about to pump, is
    innermost. `jsProcessMicrotasks` does not look at the tick queue, so it must not
    begin in the second case; `await` does, which is why the property stops there.

**Optimizer_proof**, for any code with heights, of any length, any constants and any number
of rounds

* `OptimizerTypes` (`TypeOK`) and `OptimizerStackBalanced` (`StackBalanced`). That no run
  of the code panics is not inductive: it says nothing of the ways the run does not
  take, which the next pass may open. `IInv` says instead that the code has heights
  (`Level`). The lemma `RewriteHeight` is what the passes have in common: one instruction
  takes the place of a few, the rest becomes padding, and if no jump leads into the
  padding and the new instruction takes and leaves what the old ones did together, there
  are heights again. Each pass collects the jump targets once, before its walk, so the
  walk carries along that the jumps of the changed code lead to no other places
  (`Balanced`). The integer pass needs that an entry of its stack that says "constant"
  still points at one (`Tracks`), for it rewrites the divisor there. `BalancedRun` goes
  from heights to runs: by induction over the turns, the stack has the height of the
  instruction (`OnTrack`, `TurnOnTrack`).
* `ConstantPassesKeepOutcome` (`ConstantsKeepOutcome`): folding and pooling change nothing
  of how a run ends, its line, its output and its variables. The run of the new code goes
  beside the run of the old turn by turn, padding included, so even a timeout stops both
  at the same place: outside the rewritten stretch the two states are equal, inside
  it they differ in what has been pushed so far (`Window`, `Lockstep`), and no jump
  leads into it. This is said of a pass whose folds are exact (`ExactPeephole`): every
  constant it computes is the one the VM would have computed (`FoldIsExact`), which is not
  so of every sum beyond 2^53 (section 5). `FoldNotRaise` says for all operands that where the
  pass folds the VM raises no error, and `FoldAgrees` which folds are exact: `Mod` of
  operands, and additions of operands with a sum, that a float64 holds (`Exact`, the integers up to
  2^53), and every fold of the other operators.
* `DeadBranchRemovalKeepsOutcome` (`DeadBranchesKeepOutcome`): so does the removal of dead
  branches, of code in which no jump leads between the False and the JumpIfFalse that tests it, or
  to the latter (`TestIsShared`). Then whoever arrives at the JumpIfFalse has the False on
  the stack (`Outside`), and what is blanked is never run. The walk must not make such a
  test itself: before what it blanks there is always a JumpIfFalse, never a constant. The
  hypothesis is the very case the pass does not look at. Every page of the run
  `optimizer` satisfies it at every pass; the pages of `OptimizerAndAlso.cfg` (section 5) do
  not, and there TLC finds the outcome changed.
* `FusedBranchDecides` and `IntegerFormAgrees`: an instruction put in the place of others
  by the other two passes does on its operands what they did; for `<` and `>` on text, and for the
  addition of integers that a float64 does not hold, it does not (section 5), and the
  theorems say so in their hypotheses.

`ConstantsKeepOutcome` and `DeadBranchesKeepOutcome` were checked by TLC on the pages of
the run `optimizer` before they were proved, and `ConstantsKeepOutcome` also on those of
`OptimizerWide.cfg`.

The proofs that need induction over the natural numbers begin with it as a fact about
sets (`SetInduction`), from well-foundedness of inclusion of finite sets, and two of
them with the existence of the table of values of a loop of any length (`LoopsRun`); the
library's induction theorems take an operator and cannot be used here.

Checked by TLC only: liveness (`LockServed`, `EventuallySaved`,
`ExpiredCollected`, `EveryRequestAnswered`, `DetachedScriptEnds`, `StopTaken`,
`ReloadApplied`, `CrashRecovered`, `Terminates`, `PageEnds`), since the prover
handles neither fairness nor `ENABLED`; and `MeaningKept`, since what a page means and
what it compiles to are recursive operators over its syntax. Of the steps
that lead to `MeaningKept`, two more are left to TLC: a fused branch takes fewer turns than
what it replaces, so that the runs are not in step and a timeout may stop them at
different places; and what the integer pass infers is wrong of some code (a variable that is
incremented while it holds Null), so that no theorem like the above holds of it.

## 5. Where code and documentation disagree

The first two are runs; `PROJECT.json` quotes the lines.

1. `vm_pool_nested`: the script goroutine exists so that the HTTP handler cannot
   be held indefinitely (`server/main.go:808-810`). `Server.Execute` takes a second
   slot while holding the first, and with all slots so engaged nobody proceeds.
2. `script_cache_stale`: `script-caching.md:18` says page edits are picked up
   immediately. An edit during the compilation of the page, or a second one within
   the debounce window, leaves the old program in memory until the next edit.

The others are kept as configurations that end in a counterexample:

| Configuration (module) | Property | What the code does |
|---|---|---|
| `ApplicationCareless.cfg` (`MCApplication`) | `Isolation` | `application.md:19` says Lock prevents other clients from modifying the object; a request past `WaitForServer` still writes |
| `SessionStale.cfg` (`MCSession`) | `CleanIsDurable` | of two overlapping saves the older snapshot is written last, and `IsDirty` reports nothing pending |
| `SessionAbandon.cfg` | `DiscardedStaysGone` | `session.md:189` says an abandoned record is discarded; a save in flight writes its file again |
| `SessionStop.cfg` | `ShutdownFlushed` | `axonasp.toml:83` promises a safe flush on shutdown; writer workers are not waited for |
| `FPMStop.cfg` (`MCFPM`) | `StopObeyed` | `axonasp-fpm.md:37` has SIGTERM stop the manager; one that arrives behind a pending signal is dropped |
| `ScriptCacheCase.cfg` (`MCScriptCache`) | `Registered` | `script-caching.md:82` says an edited include file invalidates the pages that include it; of two pages that differ in case only on a case-sensitive file system, `containsFold` (`script_cache.go:1272`) leaves the second out of `dependencyMap` |
| `ScriptCacheCaseLimit.cfg` | `WithinLimit` | `script-caching.md:72` names the maximum size of the cache; of two such pages, storing the second takes the first out of `programOrder` only (`script_cache.go:1317`), so it is never evicted |
| `ResponseDetached.cfg` (`MCResponse`) | `DetachedSafely` | `cancellableWriter.Header` returns the live map, which a flush and `http.Error` then write at the same time; the comment at `server/main.go:741-744` has the writer drop everything once it is cancelled |
| `ResponseClear.cfg` | `ClearAsDocumented` | `response.md:152` says Clear "only works when buffering is enabled" and "has no effect after `Response.Flush`"; `Response.Clear` (`response.go:466-476`) empties the buffer in either case, and `BodyFaithful` is about what it does |
| `OptimizerAndAlso.cfg` (`MCOptimizer`) | `MeaningKept` | `If x > 0 AndAlso True Then`: the False that ends the short circuit is taken for the condition and the branch removed, although `compiler_optimizer_deadjump_test.go:278` asserts that the pass changes no behaviour |
| `OptimizerForLimit.cfg` | `MeaningKept` | `For i = 1 To "3"` runs once: `OpForNextFastGlobalInt` reads text as 0 |
| `OptimizerWide.cfg` | `MeaningKept` | `100000*100000*100000*1000+1` writes another number when it is folded: `OpAdd` adds two Integers as float64 (`vm_value_ops.go:169-179`), the folder (`compiler_optimizer.go:912-915`) and `OpIAdd` (`vm.go:2780`) as int64 |
| `JSLoopTimers.cfg` (`MCJSEventLoop`) | `ShortTimersRun` | `jscript_nodejs_timers.go:457-458` drains "so short-lived setTimeout callbacks can run"; a job that ends while a timeout is pending waits in a drain of its own whose pump does nothing, and by its deadline the page's drain gives up too |
| `JSLoopAsync.cfg` | `CallbacksRunOnce` | a promise callback that is queued when an async function awaits runs from the clone's queue and again from the page's |
| `JSLoopAwait.cfg` | `EveryPageEnds` | `await` of a promise that nobody settles, or that only a tick or an immediate would settle, never ends: the loop does not look at the script timeout |
| `JSLoopReads.cfg` | `OwnResults` | a read that is under way when the VM is reset delivers to the next page, whose functions have the same numbers |

Observed while modelling, without a configuration:

* VM pool and sessions: a purge misses VMs that are out, whose workers live until
  the finalizer (`vm_pool.go:138`); a script blocked in a native call keeps its
  slot; `Session_OnEnd` is documented (`www/manual/md/asp/global-asa.md:22`) and
  compiled but never executed; session files store `Timeout` as a signed and
  `LCID` as an unsigned 16-bit number. A page whose session file cannot be read works
  on a session with an empty identifier and replaces the visitor's cookie by an empty
  one (`web_host.go:282`, `:305`), so the stored session is not found again when the
  file can be read.
* Script cache: a full `dependencyMap` whose oldest file is one that the registering
  page is still to be entered under (page `b` includes `y` and `x`, `x` is there for
  another page, the map is full) drops that file from the page's `scriptDependencies`
  (`script_cache.go:1263-1268`) and then enters the page under it after all. Nothing
  removes the page from that entry again (`script_cache.go:1289` goes by
  `scriptDependencies`) except the limit: edits of the file invalidate the page, which is harmless,
  also when it no longer includes the file.
* Response: a Redirect in `Session_OnStart` leaves its status and Location on the
  page; a Redirect after an empty Flush is lost; Clear after an empty Flush sends
  headers twice; output written with `Buffer = False` in `Session_OnStart` is not
  limited; a page with a body is flushed before `PersistSession`, so the cookie of the
  session that follows an `Abandon` is lost.
* Optimizer: fused branches compare text as numbers; `x \ 4` of a known negative
  integer becomes a shift, which rounds down; pooled constants are invisible to
  the inference of integers; `OpIncGlobalInt` marks its variable as an integer
  even if it holds Null or a Double; what is known of globals survives a call of a
  function without arguments; a walk that is out of step may fold across instructions
  (section 2).
* Event loop: `clearImmediate` reorders the queue; jobs run in the middle of the
  page's code, though `promises.md:20` says at script end or await; `Response.End`
  in a callback only ends the callback, and in an async function is a rejection; an
  interval that keeps queueing jobs can keep a page whose drain has given up; a
  `require` or import that fails returns without handing the queues back
  (`vm_jscript.go:350-355`, `jscript_nodejs_io.go:153-158`), so that callbacks of the page
  that ran in the module are still in the page's own queues.

## 6. Not modelled

* Most of the language: lexers, parsers, procedures, classes, arrays, dates,
  error handling, the JScript compiler and object model. Sequential and far too
  large for a model checker; only the code that the optimizer rewrites is here.
* Byte formats: `.g3ses`, `.aspb`, HTTP, FastCGI records.
* The Go memory model. A map that is iterated in `Save` while a script writes it
  is a data race the runtime may turn into an abort; the model reads the map
  in one step.
* Object libraries, I/O and external services; configuration and logging.
* The service wrapper: a stop between the creation of the command and its start
  leaves a child behind (`service/main.go:124`); one process, three steps.
* `Request`, `Server`, cookies of the Response, the caches of dynamic execution:
  per request, or maps behind one mutex.
* Code that runs on a clone of the VM other than an async function (`eval`, `Function`,
  `Execute`, `ExecuteGlobal`, `require`, imports, generators), with its copies of the
  queues and guards of the event loop.
* The walk of a peephole pass that is out of step and folds what straddles instructions.
* In the script cache: the check against the server binary's own time, watching
  of directories, and the setters used before the server listens.

## 7. Plan

Done: `ApplicationLock` with its monitor, `SessionStore`, `FPM`, `VMPool`,
`ScriptCache`, `Response`, `JSEventLoop` and `Optimizer`, each with proofs; the compiler
and the meaning of pages (`PageCompilation`), checked by TLC.

Models worth adding:

1. **Application lock with the VM pool**: a request that holds the lock and is
   detached by the watchdog keeps every later request waiting.
2. **G3AxonLive** and the bounded caches of dynamic execution.
3. **Resume Next** in `Bytecode` and `VBScript`: a fold or a fused branch must not
   change which statement an error skips to.

Proofs worth adding: that a fused branch keeps the outcome of a run that is not
stopped by the timeout, which needs a simulation in which one side waits; that what the runs with counterexamples show is all that goes wrong,
for instance that a promise callback runs twice only after an async function was called
while it was queued, which `JSEventLoop_proof` leaves open.
