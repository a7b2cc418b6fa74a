----------------------------- MODULE FPM_proof -----------------------------
(***************************************************************************)
(* The safety properties of the process manager, for every number of pool  *)
(* files and revisions and all delays that keep the order of the code's.   *)
(*                                                                         *)
(* That two generations of a pool never run side by side is a matter of    *)
(* time: a reload goes on after StopWait ticks whether the old supervisor  *)
(* has ended or not.  The invariant bounds how long a cancelled supervisor *)
(* can still need (Left) by what is left of the manager's patience.        *)
(***************************************************************************)
EXTENDS FPM, TLAPS

(***************************************************************************)
(* A worker runs only while its supervisor waits for it, and so does its   *)
(* watcher, until it has sent SIGKILL.                                     *)
(***************************************************************************)
LifeOK(s) ==
    /\ s.st # "running" => s.watcher = "none" /\ s.worker \in {"none", "dead"}
    /\ s.st = "running" => s.worker # "none" /\ (s.watcher = "none" => s.worker = "dead")

\* A supervisor that will never start a worker again and whose worker has
\* ended, or could not be signalled.
Retired(s) ==
    \/ s.st \in {"none", "done"}
    \/ s.cancelled /\ s.st = "check"
    \/ s.cancelled /\ s.st = "running" /\ (s.watcher = "failed" \/ s.worker = "dead")

\* Ticks that may pass before a cancelled supervisor is retired.
Left(s) ==
    CASE s.st = "sleeping" -> s.sleep + TermGrace
      [] s.st = "running" /\ s.watcher = "grace" -> s.grace
      [] OTHER -> TermGrace

\* The supervisor of a pool that is not retired: the one of its handle, or,
\* once the handles are gone, one that shutdownAllPools still waits for.
Current(i) ==
    IF mgr.stopping THEN \E a \in mgr.restarts : a.id = i ELSE active[i[1]] = i[2]

LifeInv == \A i \in Ids : LifeOK(sup[i])

GenerationInv == \A i \in Ids : Retired(sup[i]) \/ Current(i)

WaitInv ==
    mgr.pc = "wait" =>
        /\ mgr.cur \in mgr.restarts
        /\ sup[mgr.cur.id].cancelled
        /\ Retired(sup[mgr.cur.id]) \/ mgr.timer > Left(sup[mgr.cur.id])

\* The lists of scanAndLoadConfigs have one entry per pool, about a pool that
\* is as it was when they were made.
ListInv ==
    /\ mgr.pc = "idle" => mgr.restarts = {} /\ mgr.starts = {}
    /\ mgr.pc = "exited" => mgr.restarts = {} /\ mgr.stopping
    /\ mgr.stopping => mgr.pc \notin {"scan", "idle"} /\ mgr.starts = {}
    /\ \A a, b \in mgr.restarts : a.id[1] = b.id[1] => a = b
    /\ \A i, j \in mgr.starts : i[1] = j[1] => i = j
    /\ ~mgr.stopping =>
         \A a \in mgr.restarts :
            /\ active[a.id[1]] = a.id[2]
            /\ a.id[2] < a.rev /\ a.rev <= conf[a.id[1]].rev
    /\ \A i \in mgr.starts : active[i[1]] = 0 /\ i[2] <= conf[i[1]].rev

RevisionInv ==
    /\ \A p \in Pools : active[p] <= conf[p].rev /\ (conf[p].exists => conf[p].rev > 0)
    /\ \A i \in Ids :
         /\ sup[i].st # "none" => i[2] <= conf[i[1]].rev
         /\ sup[i].loaded # 0 => i[2] <= sup[i].loaded /\ sup[i].loaded <= conf[i[1]].rev
         /\ sup[i].cancelled => mgr.stopping \/ conf[i[1]].rev > i[2]

IInv == TypeOK /\ LifeInv /\ GenerationInv /\ WaitInv /\ ListInv /\ RevisionInv

-----------------------------------------------------------------------------
(***************************************************************************)
(* What a step of one supervisor, of its watcher or of its worker does to  *)
(* the record of the supervisor: it stays alive in the sense of LifeOK, it *)
(* does not come back from retirement, its context stays as it is, and it  *)
(* does not gain time.                                                     *)
(***************************************************************************)
Proceeds(s, t) ==
    /\ LifeOK(t)
    /\ s.st # "none"
    /\ t.cancelled = s.cancelled
    /\ Retired(s) => Retired(t)
    /\ t.cancelled => Retired(t) \/ Left(t) <= Left(s)

\* Such a step keeps the invariant, if what it loaded is the file as it is.
LEMMA SupervisorStep ==
    ASSUME IInv, NEW i \in Ids, NEW t \in Supervisor,
           Proceeds(sup[i], t),
           t.loaded = sup[i].loaded \/ t.loaded = conf[i[1]].rev,
           sup' = [sup EXCEPT ![i] = t],
           UNCHANGED <<conf, active, mgr, sigs, burst, stopSent>>
    PROVE  IInv'
<1>1. TypeOK' BY DEF IInv, TypeOK
<1>2. /\ sup'[i] = t
      /\ \A j \in Ids : j # i => sup'[j] = sup[j]
      /\ sup \in [Ids -> Supervisor]
  BY DEF IInv, TypeOK
<1>3. LifeInv' BY <1>2 DEF IInv, LifeInv, Proceeds
<1>4. GenerationInv' BY <1>2, Zenon DEF IInv, GenerationInv, Current, Proceeds
<1>5. WaitInv'
  <2> SUFFICES ASSUME mgr.pc = "wait"
               PROVE  /\ mgr.cur \in mgr.restarts
                      /\ sup'[mgr.cur.id].cancelled
                      /\ Retired(sup'[mgr.cur.id]) \/ mgr.timer > Left(sup'[mgr.cur.id])
    BY DEF WaitInv
  <2>1. /\ mgr.cur \in mgr.restarts /\ sup[mgr.cur.id].cancelled
        /\ Retired(sup[mgr.cur.id]) \/ mgr.timer > Left(sup[mgr.cur.id])
    BY DEF IInv, WaitInv
  <2>2. mgr.cur.id \in Ids /\ mgr.timer \in Int
    BY <2>1 DEF IInv, TypeOK, Manager, Restart
  <2>3. CASE mgr.cur.id # i BY <1>2, <2>1, <2>2, <2>3
  <2>4. CASE mgr.cur.id = i
    <3>1. t.cancelled BY <1>2, <2>1, <2>4 DEF Proceeds
    <3>2. Left(sup[i]) \in Int /\ Left(t) \in Int
      BY <1>2, FPMAssumption DEF Left, Supervisor
    <3>3. Retired(t) \/ mgr.timer > Left(t)
      BY <2>1, <2>2, <2>4, <3>1, <3>2 DEF Proceeds
    <3> QED BY <1>2, <2>1, <2>4, <3>1, <3>3
  <2> QED BY <2>3, <2>4
<1>6. ListInv' BY DEF IInv, ListInv
<1>7. RevisionInv'
  <2>1. conf[i[1]].rev \in 0..MaxRev /\ i[2] \in Nat
    BY DEF IInv, TypeOK, File, Ids, Revs
  <2>2. i[2] <= conf[i[1]].rev BY DEF IInv, RevisionInv, Proceeds
  <2> QED BY <1>2, <2>1, <2>2 DEF IInv, RevisionInv, Proceeds
<1> QED BY <1>1, <1>3, <1>4, <1>5, <1>6, <1>7 DEF IInv

\* What the proofs use of the delays.
LEMMA Delays ==
    /\ 0 \in 0..TermGrace /\ TermGrace \in 0..TermGrace
    /\ 0 \in 0..RestartDelay /\ RestartDelay \in 0..RestartDelay
    /\ 0 \in 0..StopWait /\ StopWait \in 0..StopWait
    /\ 0 \in 0..MaxRev
    /\ TermGrace \in Nat /\ RestartDelay \in Nat /\ StopWait \in Nat
    /\ RestartDelay + TermGrace < StopWait
BY FPMAssumption

\* The file is read after the scan that started the supervisor, so it is not
\* older than the revision that scan recorded (Load).
LEMMA LoadStep ==
    ASSUME IInv, NEW i \in Ids, Load(i) PROVE IInv'
<1>0. sup[i] \in Supervisor /\ LifeOK(sup[i]) /\ conf[i[1]] \in File
  BY DEF IInv, TypeOK, LifeInv, Ids
<1>1. CASE conf[i[1]].exists /\ conf[i[1]].usable
  <2> DEFINE t == [sup[i] EXCEPT !.st = "starting", !.loaded = conf[i[1]].rev,
                                 !.max = conf[i[1]].max]
  <2>1. t \in Supervisor BY <1>0 DEF Supervisor, File
  <2>2. /\ t.st = "starting" /\ t.worker = sup[i].worker /\ t.watcher = sup[i].watcher
        /\ t.cancelled = sup[i].cancelled /\ t.loaded = conf[i[1]].rev
    BY <1>0 DEF Supervisor
  <2>3. sup[i].st = "loading" /\ sup' = [sup EXCEPT ![i] = t]
        /\ UNCHANGED <<conf, active, mgr, sigs, burst, stopSent>>
    BY <1>1 DEF Load, Set
  <2> HIDE DEF t
  <2>4. Proceeds(sup[i], t)
    BY <1>0, <2>1, <2>2, <2>3, Delays DEF Proceeds, LifeOK, Retired, Left
  <2> QED BY <2>1, <2>2, <2>3, <2>4, SupervisorStep
<1>2. CASE ~(conf[i[1]].exists /\ conf[i[1]].usable)
  <2> DEFINE t == [sup[i] EXCEPT !.st = "done"]
  <2>1. t \in Supervisor BY <1>0, Delays DEF Supervisor
  <2>2. /\ t.st = "done" /\ t.worker = sup[i].worker /\ t.watcher = sup[i].watcher
        /\ t.cancelled = sup[i].cancelled /\ t.loaded = sup[i].loaded
    BY <1>0 DEF Supervisor
  <2>3. sup[i].st = "loading" /\ sup' = [sup EXCEPT ![i] = t]
        /\ UNCHANGED <<conf, active, mgr, sigs, burst, stopSent>>
    BY <1>2 DEF Load, Set
  <2> HIDE DEF t
  <2>4. Proceeds(sup[i], t)
    BY <1>0, <2>1, <2>2, <2>3, Delays DEF Proceeds, LifeOK, Retired, Left
  <2> QED BY <2>1, <2>2, <2>3, <2>4, SupervisorStep
<1> QED BY <1>1, <1>2

\* A new worker of a cancelled supervisor is signalled before time passes.
LEMMA StartWorkerStep ==
    ASSUME IInv, NEW i \in Ids, StartWorker(i) PROVE IInv'
<1> DEFINE t == [sup[i] EXCEPT !.st = "running", !.worker = "up",
                               !.watcher = "watching"]
<1>0. sup[i] \in Supervisor /\ LifeOK(sup[i])
  BY DEF IInv, TypeOK, LifeInv
<1>1. t \in Supervisor BY <1>0, Delays DEF Supervisor
<1>2. /\ t.st = "running" /\ t.worker = "up"
        /\ t.watcher = "watching" /\ t.grace = sup[i].grace
        /\ t.cancelled = sup[i].cancelled /\ t.loaded = sup[i].loaded
  BY <1>0 DEF Supervisor
<1>3. /\ sup[i].st = "starting"
      /\ sup' = [sup EXCEPT ![i] = t]
      /\ UNCHANGED <<conf, active, mgr, sigs, burst, stopSent>>
  BY DEF StartWorker, Set
<1> HIDE DEF t
<1>4. Proceeds(sup[i], t)
  BY <1>0, <1>1, <1>2, <1>3, Delays DEF Supervisor, Proceeds, LifeOK, Retired, Left
<1> QED BY <1>1, <1>2, <1>3, <1>4, SupervisorStep

\* No worker: the supervisor goes on to look at its context.
LEMMA StartFailsStep ==
    ASSUME IInv, NEW i \in Ids, StartFails(i) PROVE IInv'
<1> DEFINE t == [sup[i] EXCEPT !.st = "check", !.worker = "none"]
<1>0. sup[i] \in Supervisor /\ LifeOK(sup[i])
  BY DEF IInv, TypeOK, LifeInv
<1>1. t \in Supervisor BY <1>0, Delays DEF Supervisor
<1>2. /\ t.st = "check" /\ t.worker = "none"
        /\ t.watcher = sup[i].watcher /\ t.grace = sup[i].grace
        /\ t.cancelled = sup[i].cancelled /\ t.loaded = sup[i].loaded
  BY <1>0 DEF Supervisor
<1>3. /\ sup[i].st = "starting"
      /\ sup' = [sup EXCEPT ![i] = t]
      /\ UNCHANGED <<conf, active, mgr, sigs, burst, stopSent>>
  BY DEF StartFails, Set
<1> HIDE DEF t
<1>4. Proceeds(sup[i], t)
  BY <1>0, <1>1, <1>2, <1>3, Delays DEF Supervisor, Proceeds, LifeOK, Retired, Left
<1> QED BY <1>1, <1>2, <1>3, <1>4, SupervisorStep

\* The worker has ended, and the watcher with it.
LEMMA ReapStep ==
    ASSUME IInv, NEW i \in Ids, Reap(i) PROVE IInv'
<1> DEFINE t == [sup[i] EXCEPT !.st = "check", !.watcher = "none", !.grace = 0]
<1>0. sup[i] \in Supervisor /\ LifeOK(sup[i])
  BY DEF IInv, TypeOK, LifeInv
<1>1. t \in Supervisor BY <1>0, Delays DEF Supervisor
<1>2. /\ t.st = "check" /\ t.watcher = "none"
        /\ t.grace = 0 /\ t.worker = sup[i].worker
        /\ t.cancelled = sup[i].cancelled /\ t.loaded = sup[i].loaded
  BY <1>0 DEF Supervisor
<1>3. /\ sup[i].st = "running" /\ sup[i].worker = "dead"
      /\ sup' = [sup EXCEPT ![i] = t]
      /\ UNCHANGED <<conf, active, mgr, sigs, burst, stopSent>>
  BY DEF Reap, Set
<1> HIDE DEF t
<1>4. Proceeds(sup[i], t)
  BY <1>0, <1>1, <1>2, <1>3, Delays DEF Supervisor, Proceeds, LifeOK, Retired, Left
<1> QED BY <1>1, <1>2, <1>3, <1>4, SupervisorStep

\* After the restart delay the context is not looked at again (fpm/main.go:375).
LEMMA WakeStep ==
    ASSUME IInv, NEW i \in Ids, Wake(i) PROVE IInv'
<1> DEFINE t == [sup[i] EXCEPT !.st = "starting"]
<1>0. sup[i] \in Supervisor /\ LifeOK(sup[i])
  BY DEF IInv, TypeOK, LifeInv
<1>1. t \in Supervisor BY <1>0, Delays DEF Supervisor
<1>2. /\ t.st = "starting" /\ t.worker = sup[i].worker
        /\ t.watcher = sup[i].watcher /\ t.grace = sup[i].grace
        /\ t.cancelled = sup[i].cancelled /\ t.loaded = sup[i].loaded
  BY <1>0 DEF Supervisor
<1>3. /\ sup[i].st = "sleeping" /\ sup[i].sleep = 0
      /\ sup' = [sup EXCEPT ![i] = t]
      /\ UNCHANGED <<conf, active, mgr, sigs, burst, stopSent>>
  BY DEF Wake, Set
<1> HIDE DEF t
<1>4. Proceeds(sup[i], t)
  BY <1>0, <1>1, <1>2, <1>3, Delays DEF Supervisor, Proceeds, LifeOK, Retired, Left
<1> QED BY <1>1, <1>2, <1>3, <1>4, SupervisorStep

\* SIGTERM begins the grace period.
LEMMA SendTermStep ==
    ASSUME IInv, NEW i \in Ids, SendTerm(i) PROVE IInv'
<1> DEFINE t == [sup[i] EXCEPT !.watcher = "grace", !.grace = TermGrace,
                               !.worker = IF @ = "up" THEN "termed" ELSE @]
<1>0. sup[i] \in Supervisor /\ LifeOK(sup[i])
  BY DEF IInv, TypeOK, LifeInv
<1>1. t \in Supervisor BY <1>0, Delays DEF Supervisor
<1>2. /\ t.watcher = "grace" /\ t.grace = TermGrace
        /\ t.worker = (IF sup[i].worker = "up" THEN "termed" ELSE sup[i].worker) /\ t.st = sup[i].st
        /\ t.cancelled = sup[i].cancelled /\ t.loaded = sup[i].loaded
  BY <1>0 DEF Supervisor
<1>3. /\ sup[i].watcher = "watching" /\ sup[i].cancelled
      /\ sup' = [sup EXCEPT ![i] = t]
      /\ UNCHANGED <<conf, active, mgr, sigs, burst, stopSent>>
  BY DEF SendTerm, Set
<1> HIDE DEF t
<1>4. Proceeds(sup[i], t)
  BY <1>0, <1>1, <1>2, <1>3, Delays DEF Supervisor, Proceeds, LifeOK, Retired, Left
<1> QED BY <1>1, <1>2, <1>3, <1>4, SupervisorStep

\* A worker that cannot be signalled is given up.
LEMMA SendTermFailsStep ==
    ASSUME IInv, NEW i \in Ids, SendTermFails(i) PROVE IInv'
<1> DEFINE t == [sup[i] EXCEPT !.watcher = "failed"]
<1>0. sup[i] \in Supervisor /\ LifeOK(sup[i])
  BY DEF IInv, TypeOK, LifeInv
<1>1. t \in Supervisor BY <1>0, Delays DEF Supervisor
<1>2. /\ t.watcher = "failed" /\ t.st = sup[i].st
        /\ t.worker = sup[i].worker /\ t.grace = sup[i].grace
        /\ t.cancelled = sup[i].cancelled /\ t.loaded = sup[i].loaded
  BY <1>0 DEF Supervisor
<1>3. /\ sup[i].watcher = "watching" /\ sup[i].cancelled
      /\ sup' = [sup EXCEPT ![i] = t]
      /\ UNCHANGED <<conf, active, mgr, sigs, burst, stopSent>>
  BY DEF SendTermFails, Set
<1> HIDE DEF t
<1>4. Proceeds(sup[i], t)
  BY <1>0, <1>1, <1>2, <1>3, Delays DEF Supervisor, Proceeds, LifeOK, Retired, Left
<1> QED BY <1>1, <1>2, <1>3, <1>4, SupervisorStep

\* SIGKILL ends the worker.
LEMMA KillStep ==
    ASSUME IInv, NEW i \in Ids, Kill(i) PROVE IInv'
<1> DEFINE t == [sup[i] EXCEPT !.watcher = "none", !.worker = "dead"]
<1>0. sup[i] \in Supervisor /\ LifeOK(sup[i])
  BY DEF IInv, TypeOK, LifeInv
<1>1. t \in Supervisor BY <1>0, Delays DEF Supervisor
<1>2. /\ t.watcher = "none" /\ t.worker = "dead"
        /\ t.st = sup[i].st /\ t.grace = sup[i].grace
        /\ t.cancelled = sup[i].cancelled /\ t.loaded = sup[i].loaded
  BY <1>0 DEF Supervisor
<1>3. /\ sup[i].watcher = "grace"
      /\ sup' = [sup EXCEPT ![i] = t]
      /\ UNCHANGED <<conf, active, mgr, sigs, burst, stopSent>>
  BY DEF Kill, Set
<1> HIDE DEF t
<1>4. Proceeds(sup[i], t)
  BY <1>0, <1>1, <1>2, <1>3, Delays DEF Supervisor, Proceeds, LifeOK, Retired, Left
<1> QED BY <1>1, <1>2, <1>3, <1>4, SupervisorStep

\* A worker that cannot be killed is given up.
LEMMA KillFailsStep ==
    ASSUME IInv, NEW i \in Ids, KillFails(i) PROVE IInv'
<1> DEFINE t == [sup[i] EXCEPT !.watcher = "failed"]
<1>0. sup[i] \in Supervisor /\ LifeOK(sup[i])
  BY DEF IInv, TypeOK, LifeInv
<1>1. t \in Supervisor BY <1>0, Delays DEF Supervisor
<1>2. /\ t.watcher = "failed" /\ t.st = sup[i].st
        /\ t.worker = sup[i].worker /\ t.grace = sup[i].grace
        /\ t.cancelled = sup[i].cancelled /\ t.loaded = sup[i].loaded
  BY <1>0 DEF Supervisor
<1>3. /\ sup[i].watcher = "grace"
      /\ sup' = [sup EXCEPT ![i] = t]
      /\ UNCHANGED <<conf, active, mgr, sigs, burst, stopSent>>
  BY DEF KillFails, Set
<1> HIDE DEF t
<1>4. Proceeds(sup[i], t)
  BY <1>0, <1>1, <1>2, <1>3, Delays DEF Supervisor, Proceeds, LifeOK, Retired, Left
<1> QED BY <1>1, <1>2, <1>3, <1>4, SupervisorStep

\* A worker ends whenever it likes.
LEMMA WorkerExitsStep ==
    ASSUME IInv, NEW i \in Ids, WorkerExits(i) PROVE IInv'
<1> DEFINE t == [sup[i] EXCEPT !.worker = "dead"]
<1>0. sup[i] \in Supervisor /\ LifeOK(sup[i])
  BY DEF IInv, TypeOK, LifeInv
<1>1. t \in Supervisor BY <1>0, Delays DEF Supervisor
<1>2. /\ t.worker = "dead" /\ t.st = sup[i].st
        /\ t.watcher = sup[i].watcher /\ t.grace = sup[i].grace
        /\ t.cancelled = sup[i].cancelled /\ t.loaded = sup[i].loaded
  BY <1>0 DEF Supervisor
<1>3. /\ sup[i].worker \in {"up", "termed"}
      /\ sup' = [sup EXCEPT ![i] = t]
      /\ UNCHANGED <<conf, active, mgr, sigs, burst, stopSent>>
  BY DEF WorkerExits, Set, Alive
<1> HIDE DEF t
<1>4. Proceeds(sup[i], t)
  BY <1>0, <1>1, <1>2, <1>3, Delays DEF Supervisor, Proceeds, LifeOK, Retired, Left
<1> QED BY <1>1, <1>2, <1>3, <1>4, SupervisorStep

\* A cancelled supervisor does not go to sleep again.
LEMMA CheckStep ==
    ASSUME IInv, NEW i \in Ids, Check(i) PROVE IInv'
<1>0. sup[i] \in Supervisor /\ LifeOK(sup[i])
  BY DEF IInv, TypeOK, LifeInv
<1>1. CASE sup[i].cancelled \/ (sup[i].max # 0 /\ sup[i].restarts >= sup[i].max)
  <2> DEFINE t == [sup[i] EXCEPT !.st = "done"]
  <2>1. t \in Supervisor BY <1>0, Delays DEF Supervisor
  <2>2. /\ t.st = "done" /\ t.worker = sup[i].worker /\ t.watcher = sup[i].watcher
        /\ t.cancelled = sup[i].cancelled /\ t.loaded = sup[i].loaded
    BY <1>0 DEF Supervisor
  <2>3. sup[i].st = "check" /\ sup' = [sup EXCEPT ![i] = t]
        /\ UNCHANGED <<conf, active, mgr, sigs, burst, stopSent>>
    BY <1>1 DEF Check, Set
  <2> HIDE DEF t
  <2>4. Proceeds(sup[i], t)
    BY <1>0, <2>1, <2>2, <2>3, Delays DEF Proceeds, LifeOK, Retired, Left
  <2> QED BY <2>1, <2>2, <2>3, <2>4, SupervisorStep
<1>2. CASE ~(sup[i].cancelled \/ (sup[i].max # 0 /\ sup[i].restarts >= sup[i].max))
  <2> DEFINE n == IF sup[i].max = 0 THEN 0 ELSE sup[i].restarts + 1
  <2> DEFINE t == [sup[i] EXCEPT !.st = "sleeping", !.restarts = n,
                                 !.sleep = RestartDelay]
  <2>0. n \in Nat BY <1>0 DEF Supervisor
  <2>1. t \in Supervisor
    <3> HIDE DEF n
    <3> QED BY <1>0, <2>0, Delays DEF Supervisor
  <2>2. /\ t.st = "sleeping" /\ t.worker = sup[i].worker /\ t.watcher = sup[i].watcher
        /\ t.cancelled = sup[i].cancelled /\ t.loaded = sup[i].loaded
    BY <1>0 DEF Supervisor
  <2>3. sup[i].st = "check" /\ sup' = [sup EXCEPT ![i] = t]
        /\ UNCHANGED <<conf, active, mgr, sigs, burst, stopSent>>
    BY <1>2 DEF Check, Set
  <2> HIDE DEF t
  <2>4. Proceeds(sup[i], t)
    BY <1>0, <1>2, <2>1, <2>2, <2>3 DEF Proceeds, LifeOK, Retired, Left
  <2> QED BY <2>1, <2>2, <2>3, <2>4, SupervisorStep
<1> QED BY <1>1, <1>2

-----------------------------------------------------------------------------
\* What the type invariant says of revisions and lists.
LEMMA Numbers ==
    ASSUME IInv
    PROVE  /\ \A p \in Pools : conf[p].rev \in 0..MaxRev /\ active[p] \in 0..MaxRev
           /\ \A i \in Ids : i[1] \in Pools /\ i[2] \in 1..MaxRev /\ i = <<i[1], i[2]>>
           /\ \A i \in Ids : sup[i] \in Supervisor /\ sup[i].loaded \in 0..MaxRev
           /\ \A a \in mgr.restarts : a \in Restart /\ a.id \in Ids /\ a.rev \in 0..MaxRev
           /\ \A i \in mgr.starts : i \in Ids
<1>1. \A p \in Pools : conf[p].rev \in 0..MaxRev /\ active[p] \in 0..MaxRev
  BY DEF IInv, TypeOK, File
<1>2. \A i \in Ids : i[1] \in Pools /\ i[2] \in 1..MaxRev /\ i = <<i[1], i[2]>> BY DEF Ids, Revs
<1>3. \A i \in Ids : sup[i] \in Supervisor /\ sup[i].loaded \in 0..MaxRev
  BY DEF IInv, TypeOK, Supervisor
<1>4. /\ \A a \in mgr.restarts : a \in Restart /\ a.id \in Ids /\ a.rev \in 0..MaxRev
      /\ \A i \in mgr.starts : i \in Ids
  BY DEF IInv, TypeOK, Manager, Restart
<1> QED BY <1>1, <1>2, <1>3, <1>4

\* A file that is written again is newer than anything recorded of it.
LEMMA FilesGrow ==
    ASSUME IInv, conf' \in [Pools -> File],
           \A p \in Pools : conf[p].rev <= conf'[p].rev /\ (conf'[p].exists => conf'[p].rev > 0),
           UNCHANGED <<active, sup, mgr, sigs, burst, stopSent>>
    PROVE  IInv'
<1>0. /\ \A p \in Pools : conf[p].rev \in Int /\ conf'[p].rev \in Int /\ active[p] \in Int
      /\ \A i \in Ids : i[1] \in Pools /\ i[2] \in Int /\ sup[i].loaded \in Int
      /\ \A a \in mgr.restarts : a.id \in Ids /\ a.rev \in Int
      /\ \A i \in mgr.starts : i \in Ids
  <2>1. \A p \in Pools : conf'[p].rev \in Int BY DEF File
  <2> QED BY <2>1, Numbers
<1>1. TypeOK' BY DEF IInv, TypeOK
<1>2. LifeInv' /\ GenerationInv' /\ WaitInv'
  BY DEF IInv, LifeInv, GenerationInv, Current, WaitInv
<1>3. ListInv'
  <2>1. \A i \in mgr.starts : active[i[1]] = 0 /\ i[2] <= conf'[i[1]].rev
    BY <1>0 DEF IInv, ListInv
  <2>2. ~mgr.stopping => \A a \in mgr.restarts :
            /\ active[a.id[1]] = a.id[2]
            /\ a.id[2] < a.rev /\ a.rev <= conf'[a.id[1]].rev
    BY <1>0 DEF IInv, ListInv
  <2> QED BY <2>1, <2>2 DEF IInv, ListInv
<1>4. RevisionInv'
  <2>1. \A p \in Pools : active[p] <= conf'[p].rev /\ (conf'[p].exists => conf'[p].rev > 0)
    BY <1>0 DEF IInv, RevisionInv
  <2>2. ASSUME NEW i \in Ids
        PROVE  /\ sup[i].st # "none" => i[2] <= conf'[i[1]].rev
               /\ sup[i].loaded # 0 => i[2] <= sup[i].loaded /\ sup[i].loaded <= conf'[i[1]].rev
               /\ sup[i].cancelled => mgr.stopping \/ conf'[i[1]].rev > i[2]
    BY <1>0 DEF IInv, RevisionInv
  <2> QED BY <2>1, <2>2 DEF RevisionInv
<1> QED BY <1>1, <1>2, <1>3, <1>4 DEF IInv

\* The administrator writes a pool file.
LEMMA EditStep ==
    ASSUME IInv, NEW p \in Pools, NEW c \in Contents, Edit(p, c) PROVE IInv'
<1> DEFINE f == [rev |-> conf[p].rev + 1, exists |-> TRUE,
                 usable |-> c.usable, max |-> c.max]
<1>1. conf \in [Pools -> File] /\ conf[p].rev \in 0..MaxRev /\ conf[p].rev < MaxRev
      /\ MaxRev \in Nat
  BY FPMAssumption DEF IInv, TypeOK, File, Edit
<1>2. c.usable \in BOOLEAN /\ c.max \in Nat BY FPMAssumption
<1>3. conf[p].rev + 1 \in 0..MaxRev BY <1>1
<1>4. f \in File BY <1>2, <1>3 DEF File
<1>5. f.rev = conf[p].rev + 1 OBVIOUS
<1>6. conf' = [conf EXCEPT ![p] = f] /\ UNCHANGED <<active, sup, mgr, sigs, burst, stopSent>>
  BY DEF Edit
<1> HIDE DEF f
<1>7. conf' \in [Pools -> File] BY <1>1, <1>4, <1>6
<1>8. \A r \in Pools : conf[r].rev <= conf'[r].rev /\ (conf'[r].exists => conf'[r].rev > 0)
  BY <1>1, <1>5, <1>6 DEF File, IInv, RevisionInv
<1> QED BY <1>6, <1>7, <1>8, FilesGrow

\* ... or deletes it.
LEMMA DeleteStep ==
    ASSUME IInv, NEW p \in Pools, Delete(p) PROVE IInv'
<1> DEFINE f == [conf[p] EXCEPT !.exists = FALSE]
<1>1. conf \in [Pools -> File] BY DEF IInv, TypeOK
<1>2. f \in File /\ f.rev = conf[p].rev /\ ~f.exists BY <1>1 DEF File
<1>3. conf' = [conf EXCEPT ![p] = f] /\ UNCHANGED <<active, sup, mgr, sigs, burst, stopSent>>
  BY DEF Delete
<1> HIDE DEF f
<1>4. conf' \in [Pools -> File] BY <1>1, <1>2, <1>3
<1>5. \A r \in Pools : conf[r].rev <= conf'[r].rev /\ (conf'[r].exists => conf'[r].rev > 0)
  BY <1>1, <1>2, <1>3 DEF File, IInv, RevisionInv
<1> QED BY <1>3, <1>4, <1>5, FilesGrow

(***************************************************************************)
(* A step of the main thread that leaves the pools and what it still has   *)
(* to do as they are.                                                      *)
(***************************************************************************)
LEMMA ManagerMoves ==
    ASSUME IInv, mgr' \in Manager,
           mgr'.restarts = mgr.restarts, mgr'.starts = mgr.starts,
           mgr'.stopping = mgr.stopping,
           mgr'.pc # "wait",
           mgr'.pc = "idle" => mgr.restarts = {} /\ mgr.starts = {},
           mgr'.pc = "exited" => mgr.restarts = {} /\ mgr.stopping,
           mgr'.pc \in {"scan", "idle"} => ~mgr.stopping,
           sigs' \in {<<>>, <<"reload">>, <<"stop">>},
           burst' \in 0..MaxBurst, stopSent' \in BOOLEAN,
           UNCHANGED <<conf, active, sup>>
    PROVE  IInv'
<1>1. TypeOK' BY DEF IInv, TypeOK
<1>2. LifeInv' BY DEF IInv, LifeInv
<1>3. GenerationInv' BY DEF IInv, GenerationInv, Current
<1>4. WaitInv' BY DEF WaitInv
<1>5. ListInv' BY DEF IInv, ListInv
<1>6. RevisionInv' BY DEF IInv, RevisionInv
<1> QED BY <1>1, <1>2, <1>3, <1>4, <1>5, <1>6 DEF IInv

\* log.Fatalf: nothing goes on.
LEMMA ScanFailsStep == ASSUME IInv, ScanFails PROVE IInv'
<1>1. mgr \in Manager /\ sigs \in {<<>>, <<"reload">>, <<"stop">>}
      /\ burst \in 0..MaxBurst /\ stopSent \in BOOLEAN
  BY DEF IInv, TypeOK
<1>2. mgr' = [mgr EXCEPT !.pc = "dead"] /\ UNCHANGED <<conf, active, sup, sigs, burst, stopSent>>
  BY DEF ScanFails
<1>3. mgr' \in Manager /\ mgr'.pc = "dead" /\ mgr'.restarts = mgr.restarts
      /\ mgr'.starts = mgr.starts /\ mgr'.stopping = mgr.stopping
  BY <1>1, <1>2 DEF Manager
<1> QED BY <1>1, <1>2, <1>3, ManagerMoves

\* Back in main: the lists are empty, or the manager is stopping and exits.
LEMMA WorkDoneStep == ASSUME IInv, WorkDone PROVE IInv'
<1>1. mgr \in Manager /\ sigs \in {<<>>, <<"reload">>, <<"stop">>}
      /\ burst \in 0..MaxBurst /\ stopSent \in BOOLEAN
  BY DEF IInv, TypeOK
<1> DEFINE there == IF mgr.stopping THEN "exited" ELSE "idle"
<1>2. /\ mgr' = [mgr EXCEPT !.pc = there, !.ready = TRUE]
      /\ mgr.restarts = {} /\ mgr.starts = {}
      /\ UNCHANGED <<conf, active, sup, sigs, burst, stopSent>>
  BY DEF WorkDone
<1>3. there \in {"exited", "idle"} /\ (there = "idle" => ~mgr.stopping)
      /\ (there = "exited" => mgr.stopping)
  OBVIOUS
<1> HIDE DEF there
<1>4. mgr' \in Manager /\ mgr'.pc = there /\ mgr'.restarts = mgr.restarts
      /\ mgr'.starts = mgr.starts /\ mgr'.stopping = mgr.stopping
  BY <1>1, <1>2, <1>3 DEF Manager
<1> QED BY <1>1, <1>2, <1>3, <1>4, ManagerMoves

\* A reload begins with both lists empty.
LEMMA TakeReloadStep == ASSUME IInv, TakeReload PROVE IInv'
<1>1. mgr \in Manager /\ burst \in 0..MaxBurst /\ stopSent \in BOOLEAN
  BY DEF IInv, TypeOK
<1>2. mgr' = [mgr EXCEPT !.pc = "scan"] /\ sigs' = <<>> /\ mgr.pc = "idle"
      /\ UNCHANGED <<conf, active, sup, burst, stopSent>>
  BY DEF TakeReload
<1>3. mgr' \in Manager /\ mgr'.pc = "scan" /\ mgr'.restarts = mgr.restarts
      /\ mgr'.starts = mgr.starts /\ mgr'.stopping = mgr.stopping
  BY <1>1, <1>2 DEF Manager
<1>4. ~mgr.stopping BY <1>2 DEF IInv, ListInv
<1> QED BY <1>1, <1>2, <1>3, <1>4, ManagerMoves

\* A signal is queued or dropped, or it ends a manager that is not ready.
LEMMA SignalStep ==
    ASSUME IInv, NEW sig \in {"reload", "stop"}, Signal(sig) PROVE IInv'
<1>1. mgr \in Manager /\ sigs \in {<<>>, <<"reload">>, <<"stop">>}
      /\ burst \in 0..MaxBurst /\ stopSent \in BOOLEAN /\ MaxBurst \in Nat
  BY FPMAssumption DEF IInv, TypeOK
<1>2. burst' \in 0..MaxBurst /\ UNCHANGED <<conf, active, sup>>
  BY <1>1 DEF Signal
<1>3. CASE mgr.ready
  <2>1. /\ UNCHANGED mgr
        /\ sigs' = IF sigs = <<>> THEN <<sig>> ELSE sigs
        /\ stopSent' = (stopSent \/ sig = "stop")
    BY <1>3 DEF Signal
  <2>2. sigs' \in {<<>>, <<"reload">>, <<"stop">>} BY <1>1, <2>1
  <2>3. stopSent' \in BOOLEAN BY <2>1, Zenon
  <2>4. TypeOK' BY <1>2, <2>1, <2>2, <2>3 DEF IInv, TypeOK
  <2>5. LifeInv' /\ GenerationInv' /\ WaitInv' /\ ListInv' /\ RevisionInv'
    BY <1>2, <2>1 DEF IInv, LifeInv, GenerationInv, Current, WaitInv, ListInv, RevisionInv
  <2> QED BY <2>4, <2>5 DEF IInv
<1>4. CASE ~mgr.ready
  <2>1. mgr' = [mgr EXCEPT !.pc = "dead"] /\ UNCHANGED <<sigs, stopSent>>
    BY <1>4 DEF Signal
  <2>2. mgr' \in Manager /\ mgr'.pc = "dead" /\ mgr'.restarts = mgr.restarts
        /\ mgr'.starts = mgr.starts /\ mgr'.stopping = mgr.stopping
    BY <1>1, <2>1 DEF Manager
  <2> QED BY <1>1, <1>2, <2>1, <2>2, ManagerMoves
<1> QED BY <1>3, <1>4

-----------------------------------------------------------------------------
\* The scan: what it lists is about pools as they are, one entry for each.
LEMMA ScanStep == ASSUME IInv, Scan PROVE IInv'
<1> DEFINE present == {p \in Pools : conf[p].exists}
           fresh == {<<p, conf[p].rev>> : p \in {q \in present : active[q] = 0}}
           stale == {[id |-> <<p, active[p]>>, rev |-> conf[p].rev] :
                        p \in {q \in present : active[q] # 0 /\ Changed(q)}}
<1>1. mgr \in Manager /\ mgr.pc = "scan" /\ UNCHANGED <<conf, active, sup, sigs, burst, stopSent>>
      /\ mgr' = [mgr EXCEPT !.pc = "work", !.starts = fresh, !.restarts = stale]
  BY DEF IInv, TypeOK, Scan
<1>2. ~mgr.stopping BY <1>1 DEF IInv, ListInv
<1>3. \A i \in fresh : i \in Ids /\ active[i[1]] = 0 /\ i[2] = conf[i[1]].rev
  <2> SUFFICES ASSUME NEW p \in Pools, conf[p].exists, active[p] = 0
               PROVE  <<p, conf[p].rev>> \in Ids
    OBVIOUS
  <2> QED BY Numbers DEF IInv, RevisionInv, Ids, Revs
<1>4. \A a \in stale : /\ a \in Restart
                       /\ active[a.id[1]] = a.id[2] /\ a.rev = conf[a.id[1]].rev
                       /\ a.id[2] < a.rev
                       /\ a = [id |-> <<a.id[1], active[a.id[1]]>>, rev |-> conf[a.id[1]].rev]
  <2> SUFFICES ASSUME NEW p \in Pools, active[p] # 0, active[p] # conf[p].rev
               PROVE  /\ <<p, active[p]>> \in Ids
                      /\ conf[p].rev \in 0..MaxRev /\ active[p] < conf[p].rev
    BY DEF Restart, Changed
  <2> QED BY Numbers DEF IInv, RevisionInv, Ids, Revs
<1>5. \A i, j \in fresh : i[1] = j[1] => i = j OBVIOUS
<1>6. \A a, b \in stale : a.id[1] = b.id[1] => a = b BY <1>4
<1> HIDE DEF fresh, stale
<1>7. mgr' \in Manager BY <1>1, <1>3, <1>4 DEF Manager
<1>8. mgr'.pc = "work" /\ mgr'.starts = fresh /\ mgr'.restarts = stale
      /\ mgr'.stopping = mgr.stopping
  BY <1>1 DEF Manager
<1>9. TypeOK' BY <1>1, <1>7 DEF IInv, TypeOK
<1>10. LifeInv' BY <1>1 DEF IInv, LifeInv
<1>11. GenerationInv' BY <1>1, <1>2, <1>8 DEF IInv, GenerationInv, Current
<1>12. WaitInv' BY <1>8 DEF WaitInv
<1>13. ListInv'
  <2>1. \A i \in fresh : active[i[1]] = 0 /\ i[2] <= conf[i[1]].rev
    BY <1>3, Numbers
  <2>2. \A a \in stale : /\ active[a.id[1]] = a.id[2]
                         /\ a.id[2] < a.rev /\ a.rev <= conf[a.id[1]].rev
    BY <1>4, Numbers DEF Restart
  <2> QED BY <1>1, <1>2, <1>5, <1>6, <1>8, <2>1, <2>2 DEF ListInv
<1>14. RevisionInv' BY <1>1, <1>8 DEF IInv, RevisionInv
<1> QED BY <1>9, <1>10, <1>11, <1>12, <1>13, <1>14 DEF IInv

\* Cancelling keeps a supervisor what it is.
LEMMA CancelFacts ==
    ASSUME NEW s \in Supervisor
    PROVE  /\ Cancelled(s) \in Supervisor /\ Cancelled(s).cancelled
           /\ LifeOK(s) => LifeOK(Cancelled(s))
           /\ Retired(s) => Retired(Cancelled(s))
           /\ Cancelled(s).st = s.st /\ Cancelled(s).loaded = s.loaded
           /\ Left(Cancelled(s)) = Left(s) /\ Left(s) \in 0..(RestartDelay + TermGrace)
<1> DEFINE t == Cancelled(s)
<1>1. t \in Supervisor /\ t.cancelled = TRUE /\ t.st = s.st /\ t.loaded = s.loaded
      /\ t.worker = s.worker /\ t.watcher = s.watcher /\ t.sleep = s.sleep /\ t.grace = s.grace
  BY DEF Supervisor, Cancelled
<1>2. s.sleep \in 0..RestartDelay /\ s.grace \in 0..TermGrace BY DEF Supervisor
<1> HIDE DEF t
<1>3. /\ LifeOK(s) => LifeOK(t)
      /\ Retired(s) => Retired(t)
      /\ Left(t) = Left(s)
  BY <1>1 DEF LifeOK, Retired, Left
<1>4. Left(s) \in 0..(RestartDelay + TermGrace) BY <1>2, Delays DEF Left
<1> QED BY <1>1, <1>3, <1>4 DEF t

\* The manager cancels a supervisor and has the patience to see it end.
LEMMA CancelAndWaitStep ==
    ASSUME IInv, NEW a \in Restart, CancelAndWait(a) PROVE IInv'
<1> DEFINE t == Cancelled(sup[a.id])
<1>1. /\ mgr \in Manager /\ a \in mgr.restarts /\ a.id \in Ids
      /\ sup \in [Ids -> Supervisor] /\ sup[a.id] \in Supervisor
      /\ mgr' = [mgr EXCEPT !.pc = "wait", !.cur = a, !.timer = StopWait]
      /\ sup' = [sup EXCEPT ![a.id] = t]
      /\ mgr.pc = "work"
      /\ UNCHANGED <<conf, active, sigs, burst, stopSent>>
  BY DEF IInv, TypeOK, CancelAndWait, Set, Restart
<1>2. /\ mgr' \in Manager /\ mgr'.pc = "wait" /\ mgr'.cur = a /\ mgr'.timer = StopWait
      /\ mgr'.restarts = mgr.restarts /\ mgr'.starts = mgr.starts /\ mgr'.stopping = mgr.stopping
  BY <1>1, Delays DEF Manager
<1>3. /\ t \in Supervisor /\ t.cancelled
      /\ LifeOK(sup[a.id]) => LifeOK(t)
      /\ Retired(sup[a.id]) => Retired(t)
      /\ t.st = sup[a.id].st /\ t.loaded = sup[a.id].loaded
      /\ Left(t) \in 0..(RestartDelay + TermGrace)
  BY <1>1, CancelFacts
<1> HIDE DEF t
<1>4. sup'[a.id] = t /\ \A j \in Ids : j # a.id => sup'[j] = sup[j] BY <1>1
<1>5. TypeOK' BY <1>1, <1>2, <1>3 DEF IInv, TypeOK
<1>6. LifeInv' BY <1>3, <1>4 DEF IInv, LifeInv
<1>7. GenerationInv' BY <1>1, <1>2, <1>3, <1>4 DEF IInv, GenerationInv, Current
<1>8. WaitInv' BY <1>1, <1>2, <1>3, <1>4, Delays DEF WaitInv
<1>9. ListInv' BY <1>1, <1>2 DEF IInv, ListInv
<1>10. RevisionInv'
  <2>1. mgr.stopping \/ conf[a.id[1]].rev > a.id[2]
    BY <1>1, Numbers DEF IInv, ListInv
  <2> QED BY <1>1, <1>2, <1>3, <1>4, <2>1 DEF IInv, RevisionInv
<1> QED BY <1>5, <1>6, <1>7, <1>8, <1>9, <1>10 DEF IInv

\* startPoolSupervisor: a new handle and a supervisor that has not begun.
LEMMA StartPoolFacts ==
    ASSUME IInv, NEW i \in Ids, StartPool(i), i[2] <= conf[i[1]].rev,
           UNCHANGED conf, mgr'.stopping = mgr.stopping
    PROVE  /\ active' \in [Pools -> 0..MaxRev] /\ sup' \in [Ids -> Supervisor]
           /\ active'[i[1]] = i[2] /\ \A p \in Pools : p # i[1] => active'[p] = active[p]
           /\ \A j \in Ids : j # i => sup'[j] = sup[j]
           /\ LifeInv' /\ RevisionInv'
<1> DEFINE t == [NoSupervisor EXCEPT !.st = "loading"]
<1>1. t \in Supervisor /\ t.st = "loading" /\ t.cancelled = FALSE /\ t.loaded = 0
      /\ t.worker = "none" /\ t.watcher = "none"
  BY Delays DEF NoSupervisor, Supervisor
<1>2. /\ active \in [Pools -> 0..MaxRev] /\ sup \in [Ids -> Supervisor]
      /\ active' = [active EXCEPT ![i[1]] = i[2]] /\ sup' = [sup EXCEPT ![i] = t]
  BY DEF IInv, TypeOK, StartPool, Set
<1> HIDE DEF t
<1>3. i[1] \in Pools /\ i[2] \in 0..MaxRev BY Numbers
<1>4. active' \in [Pools -> 0..MaxRev] /\ sup' \in [Ids -> Supervisor] BY <1>1, <1>2, <1>3
<1>5. active'[i[1]] = i[2] /\ \A p \in Pools : p # i[1] => active'[p] = active[p]
  BY <1>2, <1>3
<1>6. sup'[i] = t /\ \A j \in Ids : j # i => sup'[j] = sup[j] BY <1>2
<1>7. LifeInv' BY <1>1, <1>6 DEF IInv, LifeInv, LifeOK
<1>8. RevisionInv' BY <1>1, <1>5, <1>6 DEF IInv, RevisionInv
<1> QED BY <1>4, <1>5, <1>6, <1>7, <1>8

\* The wait ends: by then the supervisor is retired, in time or by the clock.
LEMMA WaitOverStep == ASSUME IInv, WaitOver PROVE IInv'
<1> DEFINE a == mgr.cur
<1>1. /\ mgr \in Manager /\ a \in mgr.restarts /\ a \in Restart /\ a.id \in Ids
      /\ mgr.pc = "wait" /\ mgr.timer \in 0..StopWait /\ sup[a.id] \in Supervisor
  BY Numbers DEF IInv, TypeOK, WaitOver, WaitInv, Manager
<1>2. Retired(sup[a.id])
  <2>1. sup[a.id].st = "done" \/ mgr.timer = 0 BY DEF WaitOver
  <2>2. Retired(sup[a.id]) \/ mgr.timer > Left(sup[a.id]) BY <1>1 DEF IInv, WaitInv
  <2>3. Left(sup[a.id]) \in Nat BY <1>1, CancelFacts, Delays
  <2>4. CASE sup[a.id].st = "done" BY <2>4 DEF Retired
  <2>5. CASE mgr.timer = 0 BY <2>2, <2>3, <2>5
  <2> QED BY <2>1, <2>4, <2>5
<1>3. /\ mgr' = [mgr EXCEPT !.pc = "work", !.restarts = mgr.restarts \ {a},
                            !.cur = <<>>, !.timer = 0]
      /\ UNCHANGED <<conf, sigs, burst, stopSent>>
  BY DEF WaitOver
<1>4. /\ mgr' \in Manager /\ mgr'.pc = "work" /\ mgr'.restarts = mgr.restarts \ {a}
      /\ mgr'.starts = mgr.starts /\ mgr'.stopping = mgr.stopping
  BY <1>1, <1>3, Delays DEF Manager
<1> HIDE DEF a
<1>5. WaitInv' BY <1>4 DEF WaitInv
<1>6. CASE mgr.stopping
  <2>1. UNCHANGED <<active, sup>> BY <1>6 DEF WaitOver
  <2>2. TypeOK' BY <1>3, <1>4, <2>1 DEF IInv, TypeOK
  <2>3. LifeInv' /\ RevisionInv' BY <1>3, <1>4, <2>1 DEF IInv, LifeInv, RevisionInv
  <2>4. GenerationInv'
    <3> SUFFICES ASSUME NEW i \in Ids, ~Retired(sup[i])
                 PROVE  \E b \in mgr'.restarts : b.id = i
      BY <1>4, <1>6, <2>1 DEF GenerationInv, Current
    <3>1. PICK b \in mgr.restarts : b.id = i BY <1>6 DEF IInv, GenerationInv, Current
    <3>2. b # a BY <1>2, <3>1
    <3> QED BY <1>4, <3>1, <3>2
  <2>5. ListInv' BY <1>3, <1>4, <1>6, <2>1 DEF IInv, ListInv
  <2> QED BY <1>5, <2>2, <2>3, <2>4, <2>5 DEF IInv
<1>7. CASE ~mgr.stopping
  <2> DEFINE i == <<a.id[1], a.rev>>
  <2>1. /\ active[a.id[1]] = a.id[2] /\ a.id[2] < a.rev /\ a.rev <= conf[a.id[1]].rev
        /\ a.id[1] \in Pools /\ a.id[2] \in 1..MaxRev /\ a.rev \in 0..MaxRev
        /\ a.id = <<a.id[1], a.id[2]>>
    BY <1>1, <1>7, Numbers DEF IInv, ListInv
  <2>2. i \in Ids /\ i[1] = a.id[1] /\ i[2] = a.rev BY <2>1 DEF Ids, Revs
  <2>3. StartPool(i) BY <1>7 DEF WaitOver, a
  <2> HIDE DEF i
  <2>4. /\ active' \in [Pools -> 0..MaxRev] /\ sup' \in [Ids -> Supervisor]
        /\ active'[a.id[1]] = a.rev /\ \A p \in Pools : p # a.id[1] => active'[p] = active[p]
        /\ \A j \in Ids : j # i => sup'[j] = sup[j]
        /\ LifeInv' /\ RevisionInv'
    BY <1>3, <1>4, <2>1, <2>2, <2>3, StartPoolFacts
  <2>5. TypeOK' BY <1>3, <1>4, <2>4 DEF IInv, TypeOK
  <2>6. GenerationInv'
    <3> SUFFICES ASSUME NEW j \in Ids, ~Retired(sup'[j])
                 PROVE  active'[j[1]] = j[2]
      BY <1>4, <1>7 DEF GenerationInv, Current
    <3>1. CASE j = i BY <2>2, <2>4, <3>1
    <3>2. CASE j # i
      <4>1. ~Retired(sup[j]) BY <2>4, <3>2
      <4>2. active[j[1]] = j[2] BY <1>7, <4>1 DEF IInv, GenerationInv, Current
      <4>3. j[1] # a.id[1] BY <1>2, <2>1, <4>1, <4>2, Numbers
      <4> QED BY <2>4, <4>2, <4>3, Numbers
    <3> QED BY <3>1, <3>2
  <2>7. ListInv'
    <3>1. \A b \in mgr'.restarts : b.id[1] # a.id[1] /\ b.id[1] \in Pools
      BY <1>1, <1>4, Numbers DEF IInv, ListInv
    <3>2. \A j \in mgr.starts : j[1] # a.id[1] /\ j[1] \in Pools
      BY <2>1, Numbers DEF IInv, ListInv
    <3>3. \A b \in mgr'.restarts :
            /\ active'[b.id[1]] = b.id[2]
            /\ b.id[2] < b.rev /\ b.rev <= conf'[b.id[1]].rev
      BY <1>3, <1>4, <1>7, <2>4, <3>1 DEF IInv, ListInv
    <3>4. \A j \in mgr'.starts : active'[j[1]] = 0 /\ j[2] <= conf'[j[1]].rev
      BY <1>3, <1>4, <2>4, <3>2 DEF IInv, ListInv
    <3> QED BY <1>4, <1>7, <3>3, <3>4 DEF IInv, ListInv
  <2> QED BY <1>5, <2>4, <2>5, <2>6, <2>7 DEF IInv
<1> QED BY <1>6, <1>7

\* A pool without a handle has no supervisor that is not retired.
LEMMA StartNewStep == ASSUME IInv, NEW i \in Ids, StartNew(i) PROVE IInv'
<1>1. /\ mgr \in Manager /\ i \in mgr.starts /\ mgr.pc = "work" /\ mgr.restarts = {}
      /\ mgr' = [mgr EXCEPT !.starts = mgr.starts \ {i}] /\ StartPool(i)
      /\ UNCHANGED <<conf, sigs, burst, stopSent>>
  BY DEF IInv, TypeOK, StartNew
<1>2. /\ mgr' \in Manager /\ mgr'.pc = "work" /\ mgr'.restarts = {}
      /\ mgr'.starts = mgr.starts \ {i} /\ mgr'.stopping = mgr.stopping
  BY <1>1 DEF Manager
<1>3. ~mgr.stopping /\ active[i[1]] = 0 /\ i[2] <= conf[i[1]].rev
  BY <1>1 DEF IInv, ListInv
<1>4. /\ active' \in [Pools -> 0..MaxRev] /\ sup' \in [Ids -> Supervisor]
      /\ active'[i[1]] = i[2] /\ \A p \in Pools : p # i[1] => active'[p] = active[p]
      /\ \A j \in Ids : j # i => sup'[j] = sup[j]
      /\ LifeInv' /\ RevisionInv'
  BY <1>1, <1>2, <1>3, StartPoolFacts
<1>5. TypeOK' BY <1>1, <1>2, <1>4 DEF IInv, TypeOK
<1>6. GenerationInv'
  <2> SUFFICES ASSUME NEW j \in Ids, ~Retired(sup'[j])
               PROVE  active'[j[1]] = j[2]
    BY <1>2, <1>3 DEF GenerationInv, Current
  <2>1. CASE j = i BY <1>4, <2>1
  <2>2. CASE j # i
    <3>1. active[j[1]] = j[2] BY <1>3, <1>4, <2>2 DEF IInv, GenerationInv, Current
    <3>2. j[1] # i[1] BY <1>3, <3>1, Numbers
    <3> QED BY <1>4, <3>1, <3>2, Numbers
  <2> QED BY <2>1, <2>2
<1>7. WaitInv' BY <1>2 DEF WaitInv
<1>8. ListInv'
  <2>1. \A j \in mgr'.starts : j[1] # i[1] /\ j[1] \in Pools
    BY <1>1, <1>2, Numbers DEF IInv, ListInv
  <2>2. \A j \in mgr'.starts : active'[j[1]] = 0 /\ j[2] <= conf'[j[1]].rev
    BY <1>1, <1>2, <1>4, <2>1 DEF IInv, ListInv
  <2> QED BY <1>2, <1>3, <2>2 DEF IInv, ListInv
<1> QED BY <1>4, <1>5, <1>6, <1>7, <1>8 DEF IInv

\* shutdownAllPools takes over every handle.
LEMMA TakeStopStep == ASSUME IInv, TakeStop PROVE IInv'
<1> DEFINE ids == {<<p, active[p]>> : p \in {q \in Pools : active[q] # 0}}
           all == {[id |-> i, rev |-> 0] : i \in ids}
<1>1. /\ mgr \in Manager /\ mgr.pc = "idle" /\ sup \in [Ids -> Supervisor]
      /\ sup' = [i \in Ids |-> IF i \in ids THEN Cancelled(sup[i]) ELSE sup[i]]
      /\ mgr' = [mgr EXCEPT !.pc = "work", !.stopping = TRUE, !.restarts = all]
      /\ active' = [p \in Pools |-> 0] /\ sigs' = <<>>
      /\ UNCHANGED <<conf, burst, stopSent>>
  BY DEF IInv, TypeOK, TakeStop
<1>2. ids \subseteq Ids
  <2> SUFFICES ASSUME NEW p \in Pools, active[p] # 0 PROVE <<p, active[p]>> \in Ids
    OBVIOUS
  <2> QED BY Numbers DEF Ids, Revs
<1>3. all \subseteq Restart BY <1>2, Delays DEF Restart
<1>4. \A b, c \in all : b.id[1] = c.id[1] => b = c OBVIOUS
<1>5. \A i \in Ids : active[i[1]] = i[2] => \E b \in all : b.id = i
  <2> TAKE i \in Ids
  <2> HAVE active[i[1]] = i[2]
  <2>1. i \in ids BY Numbers
  <2>2. [id |-> i, rev |-> 0] \in all BY <2>1
  <2> QED BY <2>2
<1> HIDE DEF ids, all
<1>6. /\ mgr' \in Manager /\ mgr'.pc = "work" /\ mgr'.restarts = all
      /\ mgr'.starts = mgr.starts /\ mgr'.stopping = TRUE
  BY <1>1, <1>3 DEF Manager
<1>7. ~mgr.stopping /\ mgr.starts = {} BY <1>1 DEF IInv, ListInv
<1>8. \A i \in Ids : /\ sup'[i] \in Supervisor
                     /\ LifeOK(sup[i]) => LifeOK(sup'[i])
                     /\ Retired(sup[i]) => Retired(sup'[i])
                     /\ sup'[i].st = sup[i].st /\ sup'[i].loaded = sup[i].loaded
  BY <1>1, CancelFacts
<1>9. TypeOK'
  <2>1. sup' \in [Ids -> Supervisor] BY <1>1, <1>8
  <2>2. active' \in [Pools -> 0..MaxRev] BY <1>1, Delays
  <2> QED BY <1>1, <1>6, <2>1, <2>2 DEF IInv, TypeOK
<1>10. LifeInv' BY <1>8 DEF IInv, LifeInv
<1>11. GenerationInv' BY <1>5, <1>6, <1>7, <1>8 DEF IInv, GenerationInv, Current
<1>12. WaitInv' BY <1>6 DEF WaitInv
<1>13. ListInv' BY <1>4, <1>6, <1>7 DEF ListInv
<1>14. RevisionInv'
  <2>1. \A p \in Pools : active'[p] <= conf[p].rev BY <1>1, Numbers
  <2> QED BY <1>1, <1>6, <1>8, <2>1 DEF IInv, RevisionInv
<1> QED BY <1>9, <1>10, <1>11, <1>12, <1>13, <1>14 DEF IInv

\* A tick brings a supervisor that was cancelled nearer to its end, unless it
\* is retired: whatever it need not wait for is done before the tick.
LEMMA TickFacts ==
    ASSUME NEW s \in Supervisor, NEW t, LifeOK(s), SupervisorIdle(s),
           t = [s EXCEPT !.sleep = Less(@), !.grace = Less(@)]
    PROVE  /\ t \in Supervisor /\ LifeOK(t)
           /\ Retired(s) => Retired(t)
           /\ t.st = s.st /\ t.loaded = s.loaded /\ t.cancelled = s.cancelled
           /\ s.cancelled => Retired(s) \/ Left(t) = Left(s) - 1
<1>1. s.sleep \in 0..RestartDelay /\ s.grace \in 0..TermGrace BY DEF Supervisor
<1>2. /\ Less(s.sleep) \in 0..RestartDelay /\ Less(s.grace) \in 0..TermGrace
      /\ s.sleep > 0 => Less(s.sleep) = s.sleep - 1
      /\ s.grace > 0 => Less(s.grace) = s.grace - 1
  BY <1>1, Delays DEF Less
<1>3. /\ t \in Supervisor /\ t.sleep = Less(s.sleep) /\ t.grace = Less(s.grace)
      /\ t.st = s.st /\ t.loaded = s.loaded /\ t.cancelled = s.cancelled
      /\ t.worker = s.worker /\ t.watcher = s.watcher
  BY <1>2 DEF Supervisor
<1>4. LifeOK(t) /\ (Retired(s) => Retired(t)) BY <1>3 DEF LifeOK, Retired
<1>5. ASSUME s.cancelled, ~Retired(s) PROVE Left(t) = Left(s) - 1
  <2>1. CASE s.st = "sleeping"
    BY <1>1, <1>2, <1>3, <2>1, Delays DEF SupervisorIdle, Left
  <2>2. CASE s.st = "running"
    <3>1. s.worker # "dead" /\ s.watcher # "failed" /\ s.watcher # "watching"
      BY <1>5, <2>2 DEF SupervisorIdle, Retired
    <3>2. s.watcher = "grace"
      BY <2>2, <3>1 DEF Supervisor, LifeOK
    <3>3. s.grace > 0 BY <1>1, <2>2, <3>2 DEF SupervisorIdle
    <3> QED BY <1>1, <1>2, <1>3, <2>2, <3>2, <3>3 DEF Left
  <2> QED BY <1>5, <2>1, <2>2 DEF SupervisorIdle, Retired
<1> QED BY <1>3, <1>4, <1>5

\* Time passes for the manager and for the supervisors alike.
LEMMA TickStep == ASSUME IInv, Tick PROVE IInv'
<1>1. /\ mgr \in Manager /\ mgr.timer \in 0..StopWait /\ sup \in [Ids -> Supervisor]
      /\ mgr' = [mgr EXCEPT !.timer = Less(mgr.timer)]
      /\ UNCHANGED <<conf, active, sigs, stopSent>> /\ burst' = 0
  BY DEF IInv, TypeOK, Tick, Manager
<1>2. /\ Less(mgr.timer) \in 0..StopWait
      /\ mgr.timer > 0 => Less(mgr.timer) = mgr.timer - 1
  BY <1>1, Delays DEF Less
<1>3. /\ mgr' \in Manager /\ mgr'.pc = mgr.pc /\ mgr'.restarts = mgr.restarts
      /\ mgr'.starts = mgr.starts /\ mgr'.stopping = mgr.stopping
      /\ mgr'.cur = mgr.cur /\ mgr'.timer = Less(mgr.timer)
  BY <1>1, <1>2 DEF Manager
<1>4. \A i \in Ids :
        /\ sup'[i] \in Supervisor /\ LifeOK(sup'[i])
        /\ Retired(sup[i]) => Retired(sup'[i])
        /\ sup'[i].st = sup[i].st /\ sup'[i].loaded = sup[i].loaded
        /\ sup'[i].cancelled = sup[i].cancelled
        /\ sup[i].cancelled => Retired(sup[i]) \/ Left(sup'[i]) = Left(sup[i]) - 1
  <2> TAKE i \in Ids
  <2>1. sup'[i] = [sup[i] EXCEPT !.sleep = Less(@), !.grace = Less(@)] BY DEF Tick
  <2>2. sup[i] \in Supervisor /\ LifeOK(sup[i]) /\ SupervisorIdle(sup[i])
    BY <1>1 DEF IInv, LifeInv, Tick
  <2> QED BY <2>1, <2>2, TickFacts
<1>5. TypeOK'
  <2>1. sup' \in [Ids -> Supervisor] BY <1>4 DEF Tick
  <2>2. burst' \in 0..MaxBurst BY <1>1, FPMAssumption
  <2> QED BY <1>1, <1>3, <2>1, <2>2 DEF IInv, TypeOK
<1>6. LifeInv' BY <1>4 DEF LifeInv
<1>7. GenerationInv' BY <1>1, <1>3, <1>4 DEF IInv, GenerationInv, Current
<1>8. WaitInv'
  <2> SUFFICES ASSUME mgr.pc = "wait"
               PROVE  /\ mgr.cur \in mgr.restarts
                      /\ sup'[mgr.cur.id].cancelled
                      /\ Retired(sup'[mgr.cur.id]) \/ Less(mgr.timer) > Left(sup'[mgr.cur.id])
    BY <1>3 DEF WaitInv
  <2>1. /\ mgr.cur \in mgr.restarts /\ sup[mgr.cur.id].cancelled /\ mgr.cur.id \in Ids
        /\ Retired(sup[mgr.cur.id]) \/ mgr.timer > Left(sup[mgr.cur.id])
    BY Numbers DEF IInv, WaitInv
  <2>2. mgr.timer > 0 BY DEF Tick, ManagerIdle
  <2>3. Left(sup[mgr.cur.id]) \in Int BY <1>1, <2>1, CancelFacts
  <2> QED BY <1>1, <1>2, <1>4, <2>1, <2>2, <2>3
<1>9. ListInv' BY <1>1, <1>3 DEF IInv, ListInv
<1>10. RevisionInv' BY <1>1, <1>3, <1>4 DEF IInv, RevisionInv
<1> QED BY <1>5, <1>6, <1>7, <1>8, <1>9, <1>10 DEF IInv

-----------------------------------------------------------------------------
\* The manager starts with no pool and no work.
LEMMA InitInv == ASSUME Init PROVE IInv
<1>1. /\ NoSupervisor \in Supervisor /\ NoSupervisor.st = "none" /\ NoSupervisor.loaded = 0
      /\ NoSupervisor.cancelled = FALSE
      /\ NoSupervisor.worker = "none" /\ NoSupervisor.watcher = "none"
  BY Delays DEF NoSupervisor, Supervisor
<1>2. \A i \in Ids : sup[i] = NoSupervisor BY DEF Init
<1>3. TypeOK
  <2>1. conf \in [Pools -> File] BY Delays DEF Init, File
  <2>2. mgr \in Manager BY Delays DEF Init, Manager
  <2>3. sup \in [Ids -> Supervisor] BY <1>1 DEF Init
  <2>4. active \in [Pools -> 0..MaxRev] /\ burst \in 0..MaxBurst
    BY FPMAssumption DEF Init
  <2> QED BY <2>1, <2>2, <2>3, <2>4 DEF Init, TypeOK
<1>4. LifeInv /\ GenerationInv
  BY <1>1, <1>2 DEF LifeInv, LifeOK, GenerationInv, Retired
<1>5. WaitInv /\ ListInv BY DEF Init, WaitInv, ListInv
<1>6. RevisionInv BY <1>1, <1>2 DEF Init, RevisionInv
<1> QED BY <1>3, <1>4, <1>5, <1>6 DEF IInv

\* Every step of the manager, its supervisors, the clock and the environment
\* keeps the invariant.
LEMMA NextInv == ASSUME IInv, [Next]_vars PROVE IInv'
<1>1. CASE UNCHANGED vars
  BY <1>1 DEF vars, IInv, TypeOK, LifeInv, GenerationInv, Current, WaitInv, ListInv, RevisionInv
<1>2. CASE Main
  BY <1>2, ScanStep, ScanFailsStep, WaitOverStep, WorkDoneStep, TakeReloadStep, TakeStopStep,
     CancelAndWaitStep, StartNewStep DEF Main
<1>3. ASSUME NEW i \in Ids, Supervise(i) PROVE IInv'
  BY <1>3, LoadStep, StartWorkerStep, StartFailsStep, ReapStep, CheckStep, WakeStep DEF Supervise
<1>4. ASSUME NEW i \in Ids, Watch(i) PROVE IInv'
  BY <1>4, SendTermStep, SendTermFailsStep, KillStep, KillFailsStep DEF Watch
<1>5. CASE Tick BY <1>5, TickStep
<1>6. CASE Environment
  <2>1. \A p \in Deletable : p \in Pools BY FPMAssumption
  <2> QED BY <1>6, <2>1, EditStep, DeleteStep, SignalStep, WorkerExitsStep DEF Environment
<1> QED BY <1>1, <1>2, <1>3, <1>4, <1>5, <1>6 DEF Next

\* The invariant holds in every reachable state.
THEOREM Invariance == Spec => []IInv
BY InitInv, NextInv, PTL DEF Spec

\* A reload never runs two generations of a pool side by side, however its
\* supervisors sleep, start, fail and are signalled, unless a worker could not
\* be signalled at all (superviseWorker, waitForPoolShutdown).
THEOREM OneGeneration == Spec => []OneWorkerPerPool
<1>1. ASSUME IInv PROVE OneWorkerPerPool
  <2> SUFFICES ASSUME NEW i \in Ids, NEW j \in Ids, i[1] = j[1], Alive(i), Alive(j),
                      sup[i].watcher # "failed", sup[j].watcher # "failed"
               PROVE  i = j
    BY DEF OneWorkerPerPool
  <2>1. ASSUME NEW k \in Ids, Alive(k), sup[k].watcher # "failed" PROVE Current(k)
    BY <1>1, <2>1 DEF IInv, LifeInv, LifeOK, GenerationInv, Retired, Alive
  <2>2. Current(i) /\ Current(j) BY <2>1
  <2>3. CASE mgr.stopping BY <1>1, <2>2, <2>3 DEF Current, IInv, ListInv
  <2>4. CASE ~mgr.stopping BY <1>1, <2>2, <2>4, Numbers DEF Current
  <2> QED BY <2>3, <2>4
<1> QED BY <1>1, Invariance, PTL

\* What a pool runs is not older than what the scan recorded of its file, even
\* though the supervisor reads the file later (superviseWorker).
THEOREM RunsRecorded == Spec => []ConfigCurrent
<1>1. ASSUME IInv PROVE ConfigCurrent
  BY <1>1, Numbers DEF IInv, RevisionInv, ConfigCurrent
<1> QED BY <1>1, Invariance, PTL

\* A reload stops a pool only if its file has been written since
\* (poolRevisionChanged).
THEOREM ReloadSelective == Spec => []UnmodifiedUntouched
<1>1. ASSUME IInv PROVE UnmodifiedUntouched
  BY <1>1 DEF IInv, RevisionInv, UnmodifiedUntouched
<1> QED BY <1>1, Invariance, PTL

\* A manager that has returned from main leaves only workers behind that could
\* not be signalled (shutdownAllPools).
THEOREM CleanExit == Spec => []NoOrphans
<1>1. ASSUME IInv PROVE NoOrphans
  <2> SUFFICES ASSUME mgr.pc = "exited", NEW i \in Ids, Alive(i)
               PROVE  sup[i].watcher = "failed"
    BY DEF NoOrphans
  <2>1. ~Current(i) BY <1>1 DEF IInv, ListInv, Current
  <2>2. Retired(sup[i]) BY <1>1, <2>1 DEF IInv, GenerationInv
  <2> QED BY <1>1, <2>2 DEF IInv, LifeInv, LifeOK, Retired, Alive
<1> QED BY <1>1, Invariance, PTL
=============================================================================
