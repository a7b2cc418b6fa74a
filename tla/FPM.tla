-------------------------------- MODULE FPM --------------------------------
(***************************************************************************)
(* The FastCGI process manager (fpm/main.go).                              *)
(*                                                                         *)
(* The manager's main thread scans the directory of pool files, keeps one  *)
(* handle per file in activePools and obeys signals.  Every handle belongs *)
(* to a supervisor goroutine (superviseWorker), which reads the file       *)
(* itself, starts the worker process, waits for it and starts it again;    *)
(* every worker has a watcher goroutine that stops it when the context of  *)
(* its supervisor is cancelled: SIGTERM, a grace period, then SIGKILL.     *)
(*                                                                         *)
(* A supervisor is named by its pool and by the revision of the file that  *)
(* the scan recorded in its handle: a pool is only started again for a     *)
(* revision that differs from the recorded one and revisions only grow.    *)
(*                                                                         *)
(* Time passes in ticks.  A step the program can take at once is taken     *)
(* before the next tick; the three delays of the code are counted in       *)
(* ticks.  Workers, the administrator and the senders of signals move      *)
(* whenever they like.                                                     *)
(***************************************************************************)
EXTENDS Integers, Sequences, FiniteSets

CONSTANTS
    Pools,         \* the pool files
    MaxRev,        \* BOUND: how often a pool file is written
    Contents,      \* what may be written into a pool file
    Deletable,     \* the pool files that may be deleted
    MaxBurst,      \* BOUND: signals sent between two ticks
    RestartDelay,  \* ticks slept before a restart (2 s)
    TermGrace,     \* ticks between SIGTERM and SIGKILL (10 s)
    StopWait       \* ticks the manager waits for a supervisor (15 s)

ASSUME FPMAssumption ==
    /\ MaxRev \in Nat \ {0}
    /\ Contents \subseteq [usable : BOOLEAN, max : Nat]
    /\ Deletable \subseteq Pools
    /\ MaxBurst \in Nat \ {0}
    /\ RestartDelay \in Nat \ {0}
    /\ TermGrace \in Nat \ {0}
    /\ StopWait \in Nat \ {0}
    /\ RestartDelay + TermGrace < StopWait

VARIABLES
    conf,     \* the pool files: how often written, whether there, contents
    active,   \* activePools: revision of the handle, 0 for no entry
    sup,      \* the supervisors and their worker and watcher
    mgr,      \* the main thread
    sigs,     \* sigChan, a channel of capacity one
    burst,    \* signals sent since the last tick
    stopSent  \* somebody sent SIGTERM or SIGINT to the running manager

vars == <<conf, active, sup, mgr, sigs, burst, stopSent>>

Revs == 1..MaxRev
Ids == Pools \X Revs

(***************************************************************************)
(* rev     how often the file was written: its modification time and size  *)
(* usable  superviseWorker gets as far as starting a worker from it        *)
(* max     max_restarts; 0: no limit                                       *)
(***************************************************************************)
File == [rev : 0..MaxRev, exists : BOOLEAN, usable : BOOLEAN, max : Nat]

(***************************************************************************)
(* st        where superviseWorker is; "done": the done channel is closed  *)
(* cancelled its context                                                   *)
(* loaded    the revision of the file it read, 0 before                    *)
(* max       max_restarts of that file                                     *)
(* restarts  the counter; its value matters up to max only                 *)
(* sleep     ticks left of time.Sleep                                      *)
(* worker    the worker process; "termed": it was sent SIGTERM             *)
(* watcher   "failed": it could not signal the worker and gave up          *)
(* grace     ticks left before SIGKILL                                     *)
(***************************************************************************)
Supervisor ==
    [st : {"none", "loading", "starting", "running", "check", "sleeping",
           "done"},
     cancelled : BOOLEAN,
     loaded : 0..MaxRev,
     max : Nat,
     restarts : Nat,
     sleep : 0..RestartDelay,
     worker : {"none", "up", "termed", "dead"},
     watcher : {"none", "watching", "grace", "failed"},
     grace : 0..TermGrace]

NoSupervisor ==
    [st |-> "none", cancelled |-> FALSE, loaded |-> 0, max |-> 0,
     restarts |-> 0, sleep |-> 0, worker |-> "none", watcher |-> "none",
     grace |-> 0]

(***************************************************************************)
(* pc       "scan": entering scanAndLoadConfigs; "work": going through the *)
(*          lists; "wait": in waitForPoolShutdown; "exited": main          *)
(*          returned; "dead": killed by a signal before signal.Notify, or  *)
(*          by log.Fatalf                                                  *)
(* ready    signal.Notify was called                                       *)
(* restarts the supervisors to wait for, with the revision to start then,  *)
(*          0 in shutdownAllPools                                          *)
(* starts   the supervisors of new pools to start                          *)
(* timer    ticks left of the wait for the supervisor cur                  *)
(***************************************************************************)
Restart == [id : Ids, rev : 0..MaxRev]
Manager ==
    [pc : {"scan", "work", "wait", "idle", "exited", "dead"},
     ready : BOOLEAN,
     stopping : BOOLEAN,
     restarts : SUBSET Restart,
     starts : SUBSET Ids,
     cur : {<<>>} \cup Restart,
     timer : 0..StopWait]

Running == mgr.pc \notin {"exited", "dead"}
Alive(i) == sup[i].worker \in {"up", "termed"}
Set(i, s) == sup' = [sup EXCEPT ![i] = s]

-----------------------------------------------------------------------------
(***************************************************************************)
(* The environment.                                                        *)
(***************************************************************************)
\* The administrator creates or rewrites a pool file, or deletes it.
Edit(p, c) ==
    /\ Running
    /\ conf[p].rev < MaxRev
    /\ conf' = [conf EXCEPT ![p] = [rev |-> @.rev + 1, exists |-> TRUE,
                                    usable |-> c.usable, max |-> c.max]]
    /\ UNCHANGED <<active, sup, mgr, sigs, burst, stopSent>>

Delete(p) ==
    /\ Running
    /\ conf[p].exists
    /\ conf' = [conf EXCEPT ![p].exists = FALSE]
    /\ UNCHANGED <<active, sup, mgr, sigs, burst, stopSent>>

(***************************************************************************)
(* A signal for the manager.  signal.Notify never blocks: with the channel *)
(* full the signal is dropped.  Before signal.Notify each of them has its  *)
(* default action, which is to end the process.                            *)
(***************************************************************************)
Signal(sig) ==
    /\ Running
    /\ burst < MaxBurst
    /\ burst' = burst + 1
    /\ IF mgr.ready
         THEN /\ sigs' = IF sigs = <<>> THEN <<sig>> ELSE sigs
              /\ stopSent' = (stopSent \/ sig = "stop")
              /\ UNCHANGED mgr
         ELSE /\ mgr' = [mgr EXCEPT !.pc = "dead"]
              /\ UNCHANGED <<sigs, stopSent>>
    /\ UNCHANGED <<conf, active, sup>>

\* A worker ends, by itself or because of SIGTERM.
WorkerExits(i) ==
    /\ Alive(i)
    /\ Set(i, [sup[i] EXCEPT !.worker = "dead"])
    /\ UNCHANGED <<conf, active, mgr, sigs, burst, stopSent>>

-----------------------------------------------------------------------------
\* Slip: every pool is reloaded.
ChangedAlways(p) == TRUE

(***************************************************************************)
(* The main thread.                                                        *)
(***************************************************************************)
\* poolRevisionChanged
Changed(p) == conf[p].rev # active[p]

\* Slip: new files are only taken up by the first scan.
ScanKnownOnly ==
    /\ mgr.pc = "scan"
    /\ mgr' = [mgr EXCEPT
         !.pc = "work",
         !.starts = IF mgr.ready THEN {} ELSE
                      {<<p, 1>> : p \in {q \in Pools : conf[q].rev = 1}},
         !.restarts = {[id |-> <<p, active[p]>>, rev |-> conf[p].rev] :
                         p \in {q \in Pools : active[q] # 0 /\ Changed(q)}}]
    /\ UNCHANGED <<conf, active, sup, sigs, burst, stopSent>>

(***************************************************************************)
(* The first half of scanAndLoadConfigs.  Files are looked at one by one,  *)
(* but what happens to one file does not concern another.                  *)
(***************************************************************************)
Scan ==
    /\ mgr.pc = "scan"
    /\ LET present == {p \in Pools : conf[p].exists}
       IN mgr' = [mgr EXCEPT
            !.pc = "work",
            !.starts = {<<p, conf[p].rev>> :
                          p \in {q \in present : active[q] = 0}},
            !.restarts = {[id |-> <<p, active[p]>>, rev |-> conf[p].rev] :
                          p \in {q \in present : /\ active[q] # 0
                                                 /\ Changed(q)}}]
    /\ UNCHANGED <<conf, active, sup, sigs, burst, stopSent>>

\* os.ReadDir fails: log.Fatalf.
ScanFails ==
    /\ mgr.pc = "scan"
    /\ mgr' = [mgr EXCEPT !.pc = "dead"]
    /\ UNCHANGED <<conf, active, sup, sigs, burst, stopSent>>

Cancelled(s) == [s EXCEPT !.cancelled = TRUE]

\* Slip: the old supervisor is waited for but never cancelled.
CancelForgotten(a) ==
    /\ mgr.pc = "work"
    /\ a \in mgr.restarts
    /\ mgr' = [mgr EXCEPT !.pc = "wait", !.cur = a, !.timer = StopWait]
    /\ UNCHANGED <<conf, active, sup, sigs, burst, stopSent>>

\* The next entry of restarts: cancel (in shutdownAllPools that was done for
\* all of them before) and enter waitForPoolShutdown.
CancelAndWait(a) ==
    /\ mgr.pc = "work"
    /\ a \in mgr.restarts
    /\ mgr' = [mgr EXCEPT !.pc = "wait", !.cur = a, !.timer = StopWait]
    /\ Set(a.id, Cancelled(sup[a.id]))
    /\ UNCHANGED <<conf, active, sigs, burst, stopSent>>

\* startPoolSupervisor
StartPool(i) ==
    /\ active' = [active EXCEPT ![i[1]] = i[2]]
    /\ Set(i, [NoSupervisor EXCEPT !.st = "loading"])

\* Slip: the wait has no timeout.
WaitOverPatient ==
    /\ mgr.pc = "wait"
    /\ sup[mgr.cur.id].st = "done"
    /\ IF mgr.stopping
         THEN UNCHANGED <<active, sup>>
         ELSE StartPool(<<mgr.cur.id[1], mgr.cur.rev>>)
    /\ mgr' = [mgr EXCEPT !.pc = "work", !.restarts = @ \ {mgr.cur},
                          !.cur = <<>>, !.timer = 0]
    /\ UNCHANGED <<conf, sigs, burst, stopSent>>

(***************************************************************************)
(* waitForPoolShutdown returns, because the done channel is closed or      *)
(* because of its timeout; a reload starts the pool again in both cases.   *)
(***************************************************************************)
WaitOver ==
    /\ mgr.pc = "wait"
    /\ sup[mgr.cur.id].st = "done" \/ mgr.timer = 0
    /\ IF mgr.stopping
         THEN UNCHANGED <<active, sup>>
         ELSE StartPool(<<mgr.cur.id[1], mgr.cur.rev>>)
    /\ mgr' = [mgr EXCEPT !.pc = "work", !.restarts = @ \ {mgr.cur},
                          !.cur = <<>>, !.timer = 0]
    /\ UNCHANGED <<conf, sigs, burst, stopSent>>

StartNew(i) ==
    /\ mgr.pc = "work" /\ mgr.restarts = {}
    /\ i \in mgr.starts
    /\ StartPool(i)
    /\ mgr' = [mgr EXCEPT !.starts = @ \ {i}]
    /\ UNCHANGED <<conf, sigs, burst, stopSent>>

\* Back in main, which calls signal.Notify after the first scan and returns
\* after shutdownAllPools.
WorkDone ==
    /\ mgr.pc = "work" /\ mgr.restarts = {} /\ mgr.starts = {}
    /\ mgr' = [mgr EXCEPT !.pc = IF mgr.stopping THEN "exited" ELSE "idle",
                          !.ready = TRUE]
    /\ UNCHANGED <<conf, active, sup, sigs, burst, stopSent>>

\* handleManagerSignal: SIGHUP and SIGUSR2
TakeReload ==
    /\ mgr.pc = "idle" /\ sigs = <<"reload">>
    /\ mgr' = [mgr EXCEPT !.pc = "scan"]
    /\ sigs' = <<>>
    /\ UNCHANGED <<conf, active, sup, burst, stopSent>>

\* Slip: cancel without waiting.
TakeStopAtOnce ==
    /\ mgr.pc = "idle" /\ sigs = <<"stop">>
    /\ sup' = [i \in Ids |-> Cancelled(sup[i])]
    /\ mgr' = [mgr EXCEPT !.pc = "work", !.stopping = TRUE]
    /\ active' = [p \in Pools |-> 0]
    /\ sigs' = <<>>
    /\ UNCHANGED <<conf, burst, stopSent>>

\* handleManagerSignal: SIGINT and SIGTERM; shutdownAllPools
TakeStop ==
    /\ mgr.pc = "idle" /\ sigs = <<"stop">>
    /\ LET ids == {<<p, active[p]>> : p \in {q \in Pools : active[q] # 0}}
       IN /\ sup' = [i \in Ids |-> IF i \in ids THEN Cancelled(sup[i])
                                   ELSE sup[i]]
          /\ mgr' = [mgr EXCEPT !.pc = "work", !.stopping = TRUE,
                       !.restarts = {[id |-> i, rev |-> 0] : i \in ids}]
    /\ active' = [p \in Pools |-> 0]
    /\ sigs' = <<>>
    /\ UNCHANGED <<conf, burst, stopSent>>

-----------------------------------------------------------------------------
\* Slip: a configuration that was read once is kept.
LoadCached(i) ==
    /\ Running /\ sup[i].st = "loading"
    /\ LET old == {j \in Ids : j[1] = i[1] /\ sup[j].loaded # 0}
           r == IF old = {} THEN conf[i[1]].rev
                ELSE sup[CHOOSE j \in old : TRUE].loaded
       IN Set(i, [sup[i] EXCEPT !.st = "starting", !.loaded = r])
    /\ UNCHANGED <<conf, active, mgr, sigs, burst, stopSent>>

(***************************************************************************)
(* superviseWorker.                                                        *)
(***************************************************************************)
\* The file is read, checked and its directories are made.
Load(i) ==
    /\ Running /\ sup[i].st = "loading"
    /\ LET f == conf[i[1]]
       IN IF f.exists /\ f.usable
            THEN Set(i, [sup[i] EXCEPT !.st = "starting", !.loaded = f.rev,
                                       !.max = f.max])
            ELSE Set(i, [sup[i] EXCEPT !.st = "done"])
    /\ UNCHANGED <<conf, active, mgr, sigs, burst, stopSent>>

\* cmd.Start succeeds and the watcher goroutine is started
StartWorker(i) ==
    /\ Running /\ sup[i].st = "starting"
    /\ Set(i, [sup[i] EXCEPT !.st = "running", !.worker = "up",
                             !.watcher = "watching"])
    /\ UNCHANGED <<conf, active, mgr, sigs, burst, stopSent>>

StartFails(i) ==
    /\ Running /\ sup[i].st = "starting"
    /\ Set(i, [sup[i] EXCEPT !.st = "check", !.worker = "none"])
    /\ UNCHANGED <<conf, active, mgr, sigs, burst, stopSent>>

\* cmd.Wait returns and processExited is closed, which ends the watcher
Reap(i) ==
    /\ Running /\ sup[i].st = "running" /\ sup[i].worker = "dead"
    /\ Set(i, [sup[i] EXCEPT !.st = "check", !.watcher = "none",
                             !.grace = 0])
    /\ UNCHANGED <<conf, active, mgr, sigs, burst, stopSent>>

\* Slip: 0 is a limit like any other.
CheckZeroLimit(i) ==
    /\ Running /\ sup[i].st = "check"
    /\ LET s == sup[i]
       IN IF s.cancelled \/ s.restarts >= s.max
            THEN Set(i, [s EXCEPT !.st = "done"])
            ELSE Set(i, [s EXCEPT !.st = "sleeping", !.restarts = @ + 1,
                                  !.sleep = RestartDelay])
    /\ UNCHANGED <<conf, active, mgr, sigs, burst, stopSent>>

\* What comes after a worker: the context, the limit, the delay.
Check(i) ==
    /\ Running /\ sup[i].st = "check"
    /\ LET s == sup[i]
       IN IF s.cancelled \/ (s.max # 0 /\ s.restarts >= s.max)
            THEN Set(i, [s EXCEPT !.st = "done"])
            ELSE Set(i, [s EXCEPT !.st = "sleeping",
                           !.restarts = IF s.max = 0 THEN 0 ELSE @ + 1,
                           !.sleep = RestartDelay])
    /\ UNCHANGED <<conf, active, mgr, sigs, burst, stopSent>>

\* time.Sleep is over; the context is not looked at before the next start.
Wake(i) ==
    /\ Running /\ sup[i].st = "sleeping" /\ sup[i].sleep = 0
    /\ Set(i, [sup[i] EXCEPT !.st = "starting"])
    /\ UNCHANGED <<conf, active, mgr, sigs, burst, stopSent>>

-----------------------------------------------------------------------------
(***************************************************************************)
(* The watcher goroutine.                                                  *)
(***************************************************************************)
\* ctx.Done: SIGTERM; of a process that has ended already it is no error.
SendTerm(i) ==
    /\ Running /\ sup[i].watcher = "watching" /\ sup[i].cancelled
    /\ Set(i, [sup[i] EXCEPT !.watcher = "grace", !.grace = TermGrace,
                             !.worker = IF @ = "up" THEN "termed" ELSE @])
    /\ UNCHANGED <<conf, active, mgr, sigs, burst, stopSent>>

\* The signal cannot be sent: the watcher logs it and returns.
SendTermFails(i) ==
    /\ Running /\ sup[i].watcher = "watching" /\ sup[i].cancelled
    /\ sup[i].worker = "up"
    /\ Set(i, [sup[i] EXCEPT !.watcher = "failed"])
    /\ UNCHANGED <<conf, active, mgr, sigs, burst, stopSent>>

\* The grace period is over: SIGKILL.
Kill(i) ==
    /\ Running /\ sup[i].watcher = "grace" /\ sup[i].grace = 0
    /\ Set(i, [sup[i] EXCEPT !.watcher = "none", !.worker = "dead"])
    /\ UNCHANGED <<conf, active, mgr, sigs, burst, stopSent>>

KillFails(i) ==
    /\ Running /\ sup[i].watcher = "grace" /\ sup[i].grace = 0
    /\ sup[i].worker = "termed"
    /\ Set(i, [sup[i] EXCEPT !.watcher = "failed"])
    /\ UNCHANGED <<conf, active, mgr, sigs, burst, stopSent>>

-----------------------------------------------------------------------------
(***************************************************************************)
(* Time.  A supervisor is idle while it sleeps and while its worker runs   *)
(* and need not be signalled; the manager while it waits.                  *)
(***************************************************************************)
SupervisorIdle(s) ==
    \/ s.st \in {"none", "done"}
    \/ s.st = "sleeping" /\ s.sleep > 0
    \/ /\ s.st = "running" /\ s.worker # "dead"
       /\ ~ (s.watcher = "watching" /\ s.cancelled)
       /\ ~ (s.watcher = "grace" /\ s.grace = 0)

ManagerIdle ==
    \/ mgr.pc = "idle" /\ sigs = <<>>
    \/ mgr.pc = "wait" /\ mgr.timer > 0 /\ sup[mgr.cur.id].st # "done"

Less(n) == IF n > 0 THEN n - 1 ELSE 0

Tick ==
    /\ ManagerIdle
    /\ \A i \in Ids : SupervisorIdle(sup[i])
    /\ sup' = [i \in Ids |-> [sup[i] EXCEPT !.sleep = Less(@),
                                            !.grace = Less(@)]]
    /\ mgr' = [mgr EXCEPT !.timer = Less(@)]
    /\ burst' = 0
    /\ UNCHANGED <<conf, active, sigs, stopSent>>

-----------------------------------------------------------------------------
Init ==
    /\ conf = [p \in Pools |-> [rev |-> 0, exists |-> FALSE,
                                 usable |-> FALSE, max |-> 0]]
    /\ active = [p \in Pools |-> 0]
    /\ sup = [i \in Ids |-> NoSupervisor]
    /\ mgr = [pc |-> "scan", ready |-> FALSE, stopping |-> FALSE,
              restarts |-> {}, starts |-> {}, cur |-> <<>>, timer |-> 0]
    /\ sigs = <<>>
    /\ burst = 0
    /\ stopSent = FALSE

Main ==
    \/ Scan \/ ScanFails \/ WaitOver \/ WorkDone \/ TakeReload \/ TakeStop
    \/ \E a \in Restart : CancelAndWait(a)
    \/ \E i \in Ids : StartNew(i)

Supervise(i) ==
    \/ Load(i) \/ StartWorker(i) \/ StartFails(i) \/ Reap(i) \/ Check(i)
    \/ Wake(i)

Watch(i) == SendTerm(i) \/ SendTermFails(i) \/ Kill(i) \/ KillFails(i)

Environment ==
    \/ \E p \in Pools, c \in Contents : Edit(p, c)
    \/ \E p \in Deletable : Delete(p)
    \/ \E sig \in {"reload", "stop"} : Signal(sig)
    \/ \E i \in Ids : WorkerExits(i)

Next ==
    \/ Main
    \/ \E i \in Ids : Supervise(i) \/ Watch(i)
    \/ Tick
    \/ Environment

Spec == Init /\ [][Next]_vars

(***************************************************************************)
(* Goroutines that can go on do so, and time passes.  Nothing is assumed   *)
(* of the workers and of the administrator, nor of who sends signals but   *)
(* that there are finitely many of them between two ticks.                 *)
(***************************************************************************)
Fairness ==
    /\ WF_vars(Main)
    /\ \A i \in Ids : WF_vars(Supervise(i)) /\ WF_vars(Watch(i))
    /\ SF_vars(Tick)

LiveSpec == Spec /\ Fairness
-----------------------------------------------------------------------------
(***************************************************************************)
(* Properties.                                                             *)
(***************************************************************************)
\* Every variable has its type.
TypeOK ==
    /\ conf \in [Pools -> File]
    /\ active \in [Pools -> 0..MaxRev]
    /\ sup \in [Ids -> Supervisor]
    /\ mgr \in Manager
    /\ sigs \in {<<>>, <<"reload">>, <<"stop">>}
    /\ burst \in 0..MaxBurst
    /\ stopSent \in BOOLEAN

(***************************************************************************)
(* Two generations of a pool never have a worker each, which would fight   *)
(* for one socket, although a reload goes on after its timeout and a       *)
(* supervisor that was cancelled in its restart delay still starts a       *)
(* worker: the delay and the grace period together are shorter than the    *)
(* wait.  Only a worker that could not be signalled survives a reload.     *)
(***************************************************************************)
OneWorkerPerPool ==
    \A i, j \in Ids :
        i # j /\ i[1] = j[1] /\ Alive(i) /\ Alive(j)
          => sup[i].watcher = "failed" \/ sup[j].watcher = "failed"

(***************************************************************************)
(* superviseWorker reads the file after scanAndLoadConfigs recorded its    *)
(* revision.  A pool never runs an older file than the recorded one, so    *)
(* that what the next scan takes for unchanged is what is running.         *)
(***************************************************************************)
ConfigCurrent ==
    \A i \in Ids :
        /\ sup[i].loaded # 0 => sup[i].loaded >= i[2]
        /\ sup[i].loaded # 0 /\ conf[i[1]].rev = i[2] => sup[i].loaded = i[2]

(***************************************************************************)
(* A pool is only stopped when its file was written after the scan that    *)
(* started it, or when the manager is told to stop.                        *)
(***************************************************************************)
UnmodifiedUntouched ==
    \A i \in Ids : sup[i].cancelled => mgr.stopping \/ conf[i[1]].rev > i[2]

(***************************************************************************)
(* When main has returned no worker is left behind, although it waits for  *)
(* each supervisor for a limited time only.                                *)
(***************************************************************************)
NoOrphans ==
    mgr.pc = "exited" => \A i \in Ids : Alive(i) => sup[i].watcher = "failed"

(***************************************************************************)
(* A stop signal in the channel ends the manager, whatever workers and     *)
(* watchers do.                                                            *)
(***************************************************************************)
StopTaken == sigs = <<"stop">> ~> ~Running

\* A stop signal sent to the manager ends it.
StopObeyed == stopSent ~> ~Running

(***************************************************************************)
(* A reload signal in the channel brings every pool to the revision its    *)
(* file had, new pools too, or to a later one.                             *)
(***************************************************************************)
ReloadApplied ==
    \A p \in Pools, r \in Revs :
        sigs = <<"reload">> /\ conf[p].exists /\ conf[p].rev = r
          ~> active[p] >= r \/ ~conf[p].exists \/ ~Running

(***************************************************************************)
(* With no restart limit a worker that ended is started again, unless the  *)
(* pool is stopped meanwhile.                                              *)
(***************************************************************************)
CrashRecovered ==
    \A i \in Ids :
        sup[i].st = "check" /\ sup[i].max = 0
          ~> sup[i].st = "starting" \/ sup[i].cancelled \/ ~Running
=============================================================================
