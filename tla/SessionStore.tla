---------------------------- MODULE SessionStore ----------------------------
(***************************************************************************)
(* Session state of the server: the in-memory Session objects and their    *)
(* registry, the files they are persisted to, the write-behind queue with  *)
(* its writer workers, the auto flusher, and the requests that load,       *)
(* change, abandon and persist sessions (axonvm/asp/session.go and         *)
(* PersistSession of server/web_host.go).                                  *)
(*                                                                         *)
(* One script variable stands for the contents of a session: the field     *)
(* data is the value stored under it, or Empty.  Times are ticks of an     *)
(* abstract clock; every session has the same Timeout.                     *)
(***************************************************************************)
EXTENDS Integers, Sequences

CONSTANTS
    Ids,         \* session identifiers (the ASPSESSIONID cookie)
    Objs,        \* the *Session objects the process may allocate
    NoId,        \* the empty identifier of a session that could not be loaded
    None,        \* nil, or no cookie
    Requests,    \* HTTP requests
    Workers,     \* sessionWriterWorker goroutines
    Flusher,     \* the auto flush goroutine
    AutoFlush,   \* StartSessionAutoFlush was called
    Vals,        \* values scripts store
    Empty,       \* an empty contents map
    NoFile,      \* no .g3ses file
    Torn,        \* a truncated or half written .g3ses file
    Live,        \* a saver still refers to the map the session uses
    Timeout,     \* Session.Timeout in ticks
    QueueSize,   \* capacity of sessionWriteQueue
    MaxTime,     \* bound: ticks of the clock
    MaxVersion,  \* bound: changes of one Session object
    MaxArrivals, \* bound: requests served
    MaxExits,    \* bound: crashes and stops of the process
    MaxFailures  \* bound: operations of the file system that fail

Savers == Workers \cup {Flusher}
Names == Ids \cup {NoId}
Contents == Vals \cup {Empty}

ASSUME SessionAssumption ==
    /\ None \notin Objs \cup Names
    /\ NoId \notin Ids
    /\ Flusher \notin Workers
    /\ Empty \notin Vals
    /\ Live \notin Contents
    /\ AutoFlush \in BOOLEAN
    /\ Timeout \in Nat /\ QueueSize \in Nat
    /\ MaxTime \in Nat /\ MaxVersion \in Nat /\ MaxArrivals \in Nat /\ MaxExits \in Nat
    /\ MaxFailures \in Nat

VARIABLES
    now,        \* the clock
    mode,       \* the process: "up", "stopping" or "stopped"
    obj,        \* the Session objects
    registry,   \* sessionRegistry
    file,       \* the files of sessionStorageDir
    queue,      \* sessionWriteQueue
    req,        \* each request: where it stands, its session, its cookie
    saver,      \* each call of Session.Save in progress
    todo,       \* flusher: sessions of the snapshot still to visit
    known,      \* flusher: registeredIDs
    since,      \* flusher: its time.Now()
    left,       \* arrivals, exits and failures left
    written,    \* ghost: the highest version of each object ever written out
    gone        \* ghost: identifiers whose record a Delete has discarded

flushVars == <<todo, known, since>>
vars == <<now, mode, obj, registry, file, queue, req, saver, todo, known, since,
          left, written, gone>>

(***************************************************************************)
(* The fields of a Session.  saved is lastSavedVersion.                    *)
(***************************************************************************)
Session == [id : Names \cup {None}, data : Contents, version : Nat, dirty : BOOLEAN,
            saved : Nat, abandoned : BOOLEAN, accessed : Nat]

NoSession == [id |-> None, data |-> Empty, version |-> 0, dirty |-> FALSE,
              saved |-> 0, abandoned |-> FALSE, accessed |-> 0]

(***************************************************************************)
(* A .g3ses file: what later reads of it depend on.                        *)
(***************************************************************************)
Record == [data : Contents, accessed : Nat]

Places == {"idle", "load", "loadUnregister", "register", "create", "script",
           "unregister", "renew"}

Request == [pc : Places, cur : Objs \cup {None}, cookie : Ids \cup {None}]

NoRequest == [pc |-> "idle", cur |-> None, cookie |-> None]

(***************************************************************************)
(* A saver: its step, its session, the version and LastAccessed read under *)
(* the lock, the map it captured (Live, or the contents of a map that the  *)
(* session has replaced since), the bytes to write, and whether the file   *)
(* it has open still has its name.                                         *)
(***************************************************************************)
Steps == {"idle", "pack", "open", "write", "mark", "scan", "delete", "unregister"}

Saver == [step : Steps, job : Objs \cup {None}, seen : Nat, at : Nat,
          map : Contents \cup {Live}, out : Contents, linked : BOOLEAN]

NoSaver == [step |-> "idle", job |-> None, seen |-> 0, at |-> 0,
            map |-> Empty, out |-> Empty, linked |-> FALSE]

Expired(at, t) == t - at > Timeout

(***************************************************************************)
(* The objects something still refers to, and unused identifiers:          *)
(* newSessionID draws 24 random letters.                                   *)
(***************************************************************************)
Reachable ==
    ({registry[i] : i \in Ids} \cup {req[r].cur : r \in Requests}
       \cup {saver[w].job : w \in Savers} \cup todo
       \cup {queue[k] : k \in 1 .. Len(queue)}) \ {None}

Fresh == Objs \ Reachable

FreshIds ==
    {i \in Ids : /\ file[i] = NoFile
                 /\ registry[i] = None
                 /\ i \notin gone
                 /\ \A o \in Reachable : obj[o].id # i
                 /\ \A r \in Requests : req[r].cookie # i}

Init ==
    /\ now = 0
    /\ mode = "up"
    /\ obj = [o \in Objs |-> NoSession]
    /\ registry = [i \in Ids |-> None]
    /\ file = [i \in Names |-> NoFile]
    /\ queue = <<>>
    /\ req = [r \in Requests |-> NoRequest]
    /\ saver = [w \in Savers |-> NoSaver]
    /\ todo = {} /\ known = {} /\ since = 0
    /\ left = [arrivals |-> MaxArrivals, exits |-> MaxExits, failures |-> MaxFailures]
    /\ written = [o \in Objs |-> 0]
    /\ gone = {}

------------------------------------------------------------------------------
(***************************************************************************)
(* A page's script works on its session, under the session's mutex.  Each  *)
(* change goes through markDirtyLocked: LastAccessed, dirty, version.      *)
(***************************************************************************)
MarkDirty(s) ==
    [s EXCEPT !.accessed = now, !.dirty = TRUE, !.version = @ + 1]

Change(r, s) ==
    /\ req[r].pc = "script"
    /\ obj[req[r].cur].version < MaxVersion
    /\ obj' = [obj EXCEPT ![req[r].cur] = MarkDirty(s)]
    /\ UNCHANGED <<now, mode, registry, file, queue, req, flushVars, left, written, gone>>

(***************************************************************************)
(* A saver that captured the map of session o before o replaced it goes on *)
(* reading the old one.                                                    *)
(***************************************************************************)
Detached(o) ==
    [w \in Savers |->
        IF saver[w].job = o /\ saver[w].map = Live
        THEN [saver[w] EXCEPT !.map = obj[o].data] ELSE saver[w]]

Set(r, v) ==
    /\ Change(r, [obj[req[r].cur] EXCEPT !.data = v])
    /\ UNCHANGED saver

(***************************************************************************)
(* Remove deletes in place, and only a key that is there.                  *)
(***************************************************************************)
Remove(r) ==
    /\ Change(r, [obj[req[r].cur] EXCEPT !.data = Empty])
    /\ obj[req[r].cur].data # Empty
    /\ UNCHANGED saver

(***************************************************************************)
(* RemoveAll and Abandon install a new map when the old one is not empty.  *)
(***************************************************************************)
RemoveAll(r) ==
    /\ Change(r, [obj[req[r].cur] EXCEPT !.data = Empty])
    /\ obj[req[r].cur].data # Empty
    /\ saver' = Detached(req[r].cur)

Abandon(r) ==
    /\ Change(r, [obj[req[r].cur] EXCEPT !.data = Empty, !.abandoned = TRUE])
    /\ saver' = IF obj[req[r].cur].data # Empty THEN Detached(req[r].cur) ELSE saver

------------------------------------------------------------------------------
(***************************************************************************)
(* os.Remove of the files of ids: a saver that has one of them open goes   *)
(* on writing to a file without a name.                                    *)
(***************************************************************************)
Unlinked(w, ids) ==
    [saver[w] EXCEPT !.linked = @ /\ ~ (saver[w].job # None /\ obj[saver[w].job].id \in ids)]

RemoveFiles(ids) == file' = [i \in Names |-> IF i \in ids THEN NoFile ELSE file[i]]

(***************************************************************************)
(* The second half of Delete: unregisterSession.                           *)
(***************************************************************************)
Unregister(i) ==
    /\ registry' = [j \in Ids |-> IF j = i THEN None ELSE registry[j]]
    /\ gone' = gone \cup ({i} \cap Ids)

(***************************************************************************)
(* An operation of the file system that fails.  A Delete whose os.Remove   *)
(* failed returns without unregistering.                                   *)
(***************************************************************************)
Fail ==
    /\ left.failures > 0
    /\ left' = [left EXCEPT !.failures = @ - 1]

(***************************************************************************)
(* NewSessionWithID, with the fields its callers overwrite.                *)
(***************************************************************************)
Allocate(o, i, d, v) ==
    /\ obj' = [obj EXCEPT ![o] = [NoSession EXCEPT !.id = i, !.data = d, !.version = v,
                                                   !.dirty = v > 0, !.accessed = now]]
    /\ written' = [written EXCEPT ![o] = 0]

(***************************************************************************)
(* CreateSession: version 1 and dirty, marked dirty once more, registered. *)
(***************************************************************************)
CreateSession(o, i) ==
    /\ o \in Fresh
    /\ i \in FreshIds
    /\ Allocate(o, i, Empty, 2)
    /\ registry' = [registry EXCEPT ![i] = o]

(***************************************************************************)
(* GetOrCreateSession at the start of a request.  A registered session is  *)
(* touched and used as it is; otherwise the file is tried.                 *)
(***************************************************************************)
Arrive(r, i) ==
    /\ req[r].pc = "idle"
    /\ mode = "up"
    /\ left.arrivals > 0
    /\ left' = [left EXCEPT !.arrivals = @ - 1]
    /\ IF i # None /\ registry[i] # None
       THEN /\ obj' = [obj EXCEPT ![registry[i]].accessed = now]
            /\ req' = [req EXCEPT ![r] = [pc |-> "script", cur |-> registry[i], cookie |-> i]]
       ELSE /\ req' = [req EXCEPT ![r] = [pc |-> IF i = None THEN "create" ELSE "load",
                                          cur |-> None, cookie |-> i]]
            /\ UNCHANGED obj
    /\ UNCHANGED <<now, mode, registry, file, queue, saver, flushVars, written, gone>>

(***************************************************************************)
(* LoadSession.  A torn file is too short to be a session, or its header   *)
(* is there: then it may say expired, or the part of the contents that     *)
(* could be read is used.                                                  *)
(***************************************************************************)
LoadMiss(r) ==
    /\ req[r].pc = "load"
    /\ file[req[r].cookie] \in {NoFile, Torn}
    /\ req' = [req EXCEPT ![r].pc = "create"]
    /\ UNCHANGED <<now, mode, obj, registry, file, queue, saver, flushVars, left,
                   written, gone>>

LoadExpired(r) ==
    /\ req[r].pc = "load"
    /\ file[req[r].cookie] # NoFile
    /\ file[req[r].cookie] # Torn => Expired(file[req[r].cookie].accessed, now)
    /\ RemoveFiles({req[r].cookie})
    /\ saver' = [w \in Savers |-> Unlinked(w, {req[r].cookie})]
    /\ req' = [req EXCEPT ![r].pc = "loadUnregister"]
    /\ UNCHANGED <<now, mode, obj, registry, queue, flushVars, left, written, gone>>

LoadUnregister(r) ==
    /\ req[r].pc = "loadUnregister"
    /\ Unregister(req[r].cookie)
    /\ req' = [req EXCEPT ![r].pc = "create"]
    /\ UNCHANGED <<now, mode, obj, file, queue, saver, flushVars, left, written>>

LoadExpiredKept(r) ==
    /\ req[r].pc = "load"
    /\ file[req[r].cookie] # NoFile
    /\ file[req[r].cookie] # Torn => Expired(file[req[r].cookie].accessed, now)
    /\ Fail
    /\ req' = [req EXCEPT ![r].pc = "create"]
    /\ UNCHANGED <<now, mode, obj, registry, file, queue, saver, flushVars, written, gone>>

(***************************************************************************)
(* A file that cannot be read: loadOrCreateSession falls back to a session *)
(* without identifier, which nothing registers.                            *)
(***************************************************************************)
LoadFails(r, o) ==
    /\ req[r].pc = "load"
    /\ o \in Fresh
    /\ Fail
    /\ Allocate(o, NoId, Empty, 1)
    /\ req' = [req EXCEPT ![r].pc = "script", ![r].cur = o]
    /\ UNCHANGED <<now, mode, registry, file, queue, saver, flushVars, gone>>

LoadHit(r, o) ==
    /\ req[r].pc = "load"
    /\ file[req[r].cookie] # NoFile
    /\ file[req[r].cookie] # Torn => ~ Expired(file[req[r].cookie].accessed, now)
    /\ o \in Fresh
    /\ Allocate(o, req[r].cookie,
                IF file[req[r].cookie] = Torn THEN Empty ELSE file[req[r].cookie].data, 0)
    /\ req' = [req EXCEPT ![r].pc = "register", ![r].cur = o]
    /\ UNCHANGED <<now, mode, registry, file, queue, saver, flushVars, left, gone>>

(***************************************************************************)
(* registerSession: the first object registered under an identifier wins   *)
(* (in the faulty variant, the last).                                      *)
(***************************************************************************)
RegisterLastWins(r) ==
    /\ req[r].pc = "register"
    /\ registry' = [registry EXCEPT ![req[r].cookie] = req[r].cur]
    /\ req' = [req EXCEPT ![r].pc = "script"]
    /\ UNCHANGED <<now, mode, obj, file, queue, saver, flushVars, left, written, gone>>

Register(r) ==
    /\ req[r].pc = "register"
    /\ LET first == registry[req[r].cookie]
       IN  /\ registry' = IF first = None
                          THEN [registry EXCEPT ![req[r].cookie] = req[r].cur]
                          ELSE registry
           /\ req' = [req EXCEPT ![r].pc = "script", ![r].cur = IF first = None THEN @ ELSE first]
    /\ UNCHANGED <<now, mode, obj, file, queue, saver, flushVars, left, written, gone>>

Create(r, o, i) ==
    /\ req[r].pc = "create"
    /\ CreateSession(o, i)
    /\ req' = [req EXCEPT ![r].pc = "script", ![r].cur = o]
    /\ UNCHANGED <<now, mode, file, queue, saver, flushVars, left, gone>>

------------------------------------------------------------------------------
(***************************************************************************)
(* The end of a request.  After a script error, after the watchdog has     *)
(* detached the script, or with session state disabled, nothing is saved.  *)
(***************************************************************************)
EndUnsaved(r) ==
    /\ req[r].pc = "script"
    /\ req' = [req EXCEPT ![r] = NoRequest]
    /\ UNCHANGED <<now, mode, obj, registry, file, queue, saver, flushVars, left,
                   written, gone>>

(***************************************************************************)
(* The test of QueueSaveIfDirty and SaveIfDirty.                           *)
(***************************************************************************)
NeedsSave(o) == obj[o].dirty /\ obj[o].version > obj[o].saved

(***************************************************************************)
(* PersistSession queues the session; a full queue drops it.  The faulty   *)
(* variant takes it for saved either way.                                  *)
(***************************************************************************)
PersistForgetful(r) ==
    /\ req[r].pc = "script"
    /\ ~ obj[req[r].cur].abandoned
    /\ queue' = IF NeedsSave(req[r].cur) /\ Len(queue) < QueueSize
                THEN Append(queue, req[r].cur) ELSE queue
    /\ obj' = [obj EXCEPT ![req[r].cur].dirty = FALSE]
    /\ req' = [req EXCEPT ![r] = NoRequest]
    /\ UNCHANGED <<now, mode, registry, file, saver, flushVars, left, written, gone>>

Persist(r) ==
    /\ req[r].pc = "script"
    /\ ~ obj[req[r].cur].abandoned
    /\ queue' = IF NeedsSave(req[r].cur) /\ Len(queue) < QueueSize
                THEN Append(queue, req[r].cur) ELSE queue
    /\ req' = [req EXCEPT ![r] = NoRequest]
    /\ UNCHANGED <<now, mode, obj, registry, file, saver, flushVars, left, written, gone>>

(***************************************************************************)
(* PersistSession of an abandoned session: Delete removes the file, then   *)
(* whatever is registered under the identifier; a new session replaces it, *)
(* also when the Delete failed.                                            *)
(***************************************************************************)
PersistRemove(r) ==
    /\ req[r].pc = "script"
    /\ obj[req[r].cur].abandoned
    /\ RemoveFiles({obj[req[r].cur].id})
    /\ saver' = [w \in Savers |-> Unlinked(w, {obj[req[r].cur].id})]
    /\ req' = [req EXCEPT ![r].pc = "unregister"]
    /\ UNCHANGED <<now, mode, obj, registry, queue, flushVars, left, written, gone>>

PersistRemoveFails(r) ==
    /\ req[r].pc = "script"
    /\ obj[req[r].cur].abandoned
    /\ Fail
    /\ req' = [req EXCEPT ![r].pc = "renew"]
    /\ UNCHANGED <<now, mode, obj, registry, file, queue, saver, flushVars, written, gone>>

PersistUnregister(r) ==
    /\ req[r].pc = "unregister"
    /\ Unregister(obj[req[r].cur].id)
    /\ req' = [req EXCEPT ![r].pc = "renew"]
    /\ UNCHANGED <<now, mode, obj, file, queue, saver, flushVars, left, written>>

PersistRenew(r, o, i) ==
    /\ req[r].pc = "renew"
    /\ CreateSession(o, i)
    /\ req' = [req EXCEPT ![r] = NoRequest]
    /\ UNCHANGED <<now, mode, file, queue, saver, flushVars, left, gone>>

------------------------------------------------------------------------------
(***************************************************************************)
(* Session.Save, by a worker or by the flusher.  Fields and the map        *)
(* reference are read under the lock; the map is serialised after it was   *)
(* released; WriteFile truncates and then fills the file; the object is    *)
(* marked clean if it did not change meanwhile.                            *)
(***************************************************************************)
Begun(o) ==
    [NoSaver EXCEPT !.step = "pack", !.job = o, !.seen = obj[o].version,
                    !.at = obj[o].accessed, !.map = Live]

(***************************************************************************)
(* sessionWriterWorker saves what it receives, in whatever state it is.    *)
(***************************************************************************)
TakeJob(w) ==
    /\ saver[w].step = "idle"
    /\ queue # <<>>
    /\ saver' = [saver EXCEPT ![w] = Begun(Head(queue))]
    /\ queue' = Tail(queue)
    /\ UNCHANGED <<now, mode, obj, registry, file, req, flushVars, left, written, gone>>

Serialise(w) ==
    /\ saver[w].step = "pack"
    /\ saver' = [saver EXCEPT ![w].out = IF saver[w].map = Live
                                         THEN obj[saver[w].job].data ELSE saver[w].map,
                              ![w].map = Empty,
                              ![w].step = "open"]
    /\ UNCHANGED <<now, mode, obj, registry, file, queue, req, flushVars, left, written,
                   gone>>

OpenFile(w) ==
    /\ saver[w].step = "open"
    /\ file' = [file EXCEPT ![obj[saver[w].job].id] = Torn]
    /\ saver' = [saver EXCEPT ![w].linked = TRUE, ![w].step = "write"]
    /\ UNCHANGED <<now, mode, obj, registry, queue, req, flushVars, left, written, gone>>

WriteFile(w) ==
    /\ saver[w].step = "write"
    /\ file' = IF saver[w].linked
               THEN [file EXCEPT ![obj[saver[w].job].id] =
                        [data |-> saver[w].out, accessed |-> saver[w].at]]
               ELSE file
    /\ written' = IF written[saver[w].job] < saver[w].seen
                  THEN [written EXCEPT ![saver[w].job] = saver[w].seen] ELSE written
    /\ saver' = [saver EXCEPT ![w].linked = FALSE, ![w].step = "mark"]
    /\ UNCHANGED <<now, mode, obj, registry, queue, req, flushVars, left, gone>>

(***************************************************************************)
(* The end of a Save: a worker waits for the next job, the flusher visits  *)
(* the next session.                                                       *)
(***************************************************************************)
SaveDone(w) ==
    saver' = [saver EXCEPT ![w] = IF w = Flusher THEN [NoSaver EXCEPT !.step = "scan"]
                                  ELSE NoSaver]

(***************************************************************************)
(* MkdirAll fails, the file cannot be opened, or it cannot be written to   *)
(* its end and stays torn.  The object stays dirty; no caller retries.     *)
(***************************************************************************)
SaveFails(w) ==
    /\ saver[w].step \in {"pack", "open", "write"}
    /\ Fail
    /\ SaveDone(w)
    /\ UNCHANGED <<now, mode, obj, registry, file, queue, req, flushVars, written, gone>>

(***************************************************************************)
(* Faulty variant: the version is not compared.                            *)
(***************************************************************************)
MarkCleanUnchecked(w) ==
    /\ saver[w].step = "mark"
    /\ obj' = [obj EXCEPT ![saver[w].job].dirty = FALSE,
                          ![saver[w].job].saved = saver[w].seen]
    /\ SaveDone(w)
    /\ UNCHANGED <<now, mode, registry, file, queue, req, flushVars, left, written, gone>>

MarkClean(w) ==
    /\ saver[w].step = "mark"
    /\ obj' = IF obj[saver[w].job].version = saver[w].seen
              THEN [obj EXCEPT ![saver[w].job].dirty = FALSE,
                               ![saver[w].job].saved = saver[w].seen]
              ELSE obj
    /\ SaveDone(w)
    /\ UNCHANGED <<now, mode, registry, file, queue, req, flushVars, left, written, gone>>

------------------------------------------------------------------------------
(***************************************************************************)
(* FlushRegisteredSessions: a snapshot of the registry, a visit to each    *)
(* session in it, then the sweep of the storage directory.  The last flush *)
(* of a stopping process is forced.                                        *)
(***************************************************************************)
FlushSnapshot ==
    /\ AutoFlush
    /\ mode # "stopped"
    /\ saver[Flusher].step = "idle"
    /\ todo' = {registry[i] : i \in Ids} \ {None}
    /\ known' = {i \in Ids : registry[i] # None}
    /\ since' = now
    /\ saver' = [saver EXCEPT ![Flusher].step = "scan"]
    /\ UNCHANGED <<now, mode, obj, registry, file, queue, req, left, written, gone>>

DiscardAbandonedOnly(o) == obj[o].abandoned

Discard(o) == obj[o].abandoned \/ Expired(obj[o].accessed, since)

(***************************************************************************)
(* The decision to delete, and the two steps of Delete, are three critical *)
(* sections.                                                               *)
(***************************************************************************)
FlushDecide(o) ==
    /\ saver[Flusher].step = "scan"
    /\ o \in todo
    /\ Discard(o)
    /\ saver' = [saver EXCEPT ![Flusher].step = "delete", ![Flusher].job = o]
    /\ todo' = todo \ {o}
    /\ UNCHANGED <<now, mode, obj, registry, file, queue, req, known, since, left,
                   written, gone>>

FlushDelete ==
    /\ saver[Flusher].step = "delete"
    /\ RemoveFiles({obj[saver[Flusher].job].id})
    /\ saver' = [w \in Savers |->
                    IF w = Flusher THEN [saver[w] EXCEPT !.step = "unregister"]
                    ELSE Unlinked(w, {obj[saver[Flusher].job].id})]
    /\ UNCHANGED <<now, mode, obj, registry, queue, req, flushVars, left, written, gone>>

FlushDeleteFails ==
    /\ saver[Flusher].step = "delete"
    /\ Fail
    /\ SaveDone(Flusher)
    /\ UNCHANGED <<now, mode, obj, registry, file, queue, req, flushVars, written, gone>>

FlushUnregister ==
    /\ saver[Flusher].step = "unregister"
    /\ Unregister(obj[saver[Flusher].job].id)
    /\ SaveDone(Flusher)
    /\ UNCHANGED <<now, mode, obj, file, queue, req, flushVars, left, written>>

FlushSave(o) ==
    /\ saver[Flusher].step = "scan"
    /\ o \in todo
    /\ ~ Discard(o)
    /\ todo' = todo \ {o}
    /\ saver' = IF mode = "stopping" \/ NeedsSave(o)
                THEN [saver EXCEPT ![Flusher] = Begun(o)] ELSE saver
    /\ UNCHANGED <<now, mode, obj, registry, file, queue, req, known, since, left,
                   written, gone>>

(***************************************************************************)
(* cleanupExpiredSessionFilesOnDisk: the file of a session that was not    *)
(* registered goes when its header says expired or cannot be read (a torn  *)
(* file may have a header).                                                *)
(***************************************************************************)
OldFiles ==
    {i \in Names \ known :
        file[i] # NoFile /\ (file[i] # Torn => Expired(file[i].accessed, since))}

Swept(ids) ==
    /\ saver[Flusher].step = "scan"
    /\ todo = {}
    /\ RemoveFiles(ids)
    /\ saver' = [w \in Savers |-> IF w = Flusher THEN NoSaver ELSE Unlinked(w, ids)]
    /\ known' = {} /\ since' = 0
    /\ mode' = IF mode = "stopping" THEN "stopped" ELSE mode
    /\ UNCHANGED <<now, obj, registry, queue, req, todo, written, gone>>

Sweep ==
    \E ids \in SUBSET OldFiles :
        /\ \A i \in OldFiles \ ids : file[i] = Torn
        /\ Swept(ids)
        /\ UNCHANGED left

(***************************************************************************)
(* Files that cannot be listed, read or removed stay for the next sweep.   *)
(***************************************************************************)
SweepFails == \E ids \in SUBSET OldFiles : Swept(ids) /\ Fail

------------------------------------------------------------------------------
Tick ==
    /\ now < MaxTime
    /\ now' = now + 1
    /\ UNCHANGED <<mode, obj, registry, file, queue, req, saver, flushVars, left, written,
                   gone>>

(***************************************************************************)
(* A graceful stop: the HTTP server has drained its requests, then         *)
(* StopSessionAutoFlush asks the flusher for its last flush and waits.     *)
(***************************************************************************)
Stop ==
    /\ mode = "up"
    /\ left.exits > 0
    /\ \A r \in Requests : req[r].pc = "idle"
    /\ saver[Flusher].step = "idle"
    /\ mode' = IF AutoFlush THEN "stopping" ELSE "stopped"
    /\ UNCHANGED <<now, obj, registry, file, queue, req, saver, flushVars, left, written,
                   gone>>

(***************************************************************************)
(* The process ends, by a crash or after the stop, and starts again: only  *)
(* the files survive (clean_sessions_on_startup = false).                  *)
(***************************************************************************)
Restart ==
    /\ left.exits > 0
    /\ left' = [left EXCEPT !.exits = @ - 1]
    /\ mode' = "up"
    /\ obj' = [o \in Objs |-> NoSession]
    /\ registry' = [i \in Ids |-> None]
    /\ queue' = <<>>
    /\ req' = [r \in Requests |-> NoRequest]
    /\ saver' = [w \in Savers |-> NoSaver]
    /\ todo' = {} /\ known' = {} /\ since' = 0
    /\ written' = [o \in Objs |-> 0]
    /\ UNCHANGED <<now, file, gone>>

Serve(r) ==
    \/ \E i \in Ids \cup {None} : Arrive(r, i)
    \/ LoadMiss(r) \/ LoadExpired(r) \/ LoadUnregister(r) \/ Register(r)
    \/ LoadExpiredKept(r)
    \/ \E o \in Objs : LoadHit(r, o) \/ LoadFails(r, o)
    \/ \E o \in Objs, i \in Ids : Create(r, o, i) \/ PersistRenew(r, o, i)
    \/ \E v \in Vals : Set(r, v)
    \/ Remove(r) \/ RemoveAll(r) \/ Abandon(r)
    \/ EndUnsaved(r) \/ Persist(r)
    \/ PersistRemove(r) \/ PersistRemoveFails(r) \/ PersistUnregister(r)

Save(w) == Serialise(w) \/ OpenFile(w) \/ WriteFile(w) \/ MarkClean(w) \/ SaveFails(w)

Flush ==
    \/ FlushSnapshot \/ FlushDelete \/ FlushDeleteFails \/ FlushUnregister
    \/ Sweep \/ SweepFails
    \/ \E o \in Objs : FlushDecide(o) \/ FlushSave(o)
    \/ Save(Flusher)

Next ==
    \/ \E r \in Requests : Serve(r)
    \/ \E w \in Workers : TakeJob(w) \/ Save(w)
    \/ Flush
    \/ Tick \/ Stop \/ Restart

Spec == Init /\ [][Next]_vars

(***************************************************************************)
(* Goroutines that can run do run: the workers loop over the queue and the *)
(* flusher over its ticker.  Requests owe nothing.                         *)
(***************************************************************************)
FairSpec ==
    /\ Spec
    /\ WF_vars(Flush)
    /\ \A w \in Workers : WF_vars(TakeJob(w) \/ Save(w))

------------------------------------------------------------------------------
TypeOK ==
    /\ now \in Nat
    /\ mode \in {"up", "stopping", "stopped"}
    /\ obj \in [Objs -> Session]
    /\ registry \in [Ids -> Objs \cup {None}]
    /\ file \in [Names -> Record \cup {NoFile, Torn}]
    /\ queue \in Seq(Objs) /\ Len(queue) <= QueueSize
    /\ req \in [Requests -> Request]
    /\ saver \in [Savers -> Saver]
    /\ todo \subseteq Objs
    /\ known \subseteq Ids
    /\ since \in Nat
    /\ left \in [arrivals : Nat, exits : Nat, failures : Nat]
    /\ written \in [Objs -> Nat]
    /\ gone \subseteq Ids

(***************************************************************************)
(* A session that is not dirty has no change that never left memory: some  *)
(* completed WriteFile carried its present version, whatever changes,      *)
(* saves and flushes overlapped.                                           *)
(***************************************************************************)
CleanMeansWritten ==
    \A o \in Objs : ~ obj[o].dirty => written[o] >= obj[o].version

(***************************************************************************)
(* IsDirty "reports whether session state has pending durable changes":    *)
(* once nobody is saving it any more, a clean registered session is what   *)
(* its file says.                                                          *)
(***************************************************************************)
Quiet(o) ==
    /\ \A w \in Savers : saver[w].job # o
    /\ \A k \in 1 .. Len(queue) : queue[k] # o

CleanIsDurable ==
    \A i \in Ids :
        LET o == registry[i]
        IN  /\ o # None
            /\ ~ obj[o].abandoned
            /\ obj[o].version > 0
            /\ ~ obj[o].dirty
            /\ Quiet(o)
            => file[i] \notin {NoFile, Torn} /\ file[i].data = obj[o].data

(***************************************************************************)
(* "When you call Session.Abandon, the current record is discarded.  A     *)
(* later request can create a new session with a different ID": no request *)
(* starts its script on an identifier that was discarded.                  *)
(***************************************************************************)
DiscardedStaysGone ==
    [][\A r \in Requests :
          req[r].pc # "script" /\ req'[r].pc = "script"
             => obj'[req'[r].cur].id \notin gone]_vars

(***************************************************************************)
(* "AxonASP associates one ASPSESSIONID cookie with one server-side        *)
(* session record": two requests that run on the same identifier share one *)
(* object, also when both loaded the file at the same time, unless the     *)
(* record was discarded under one of them.                                 *)
(***************************************************************************)
OneRecordPerCookie ==
    \A r, q \in Requests :
        LET i == obj[req[r].cur].id
        IN  /\ req[r].pc = "script" /\ req[q].pc = "script"
            /\ obj[req[q].cur].id = i
            /\ i \in Ids \ gone
            => req[r].cur = req[q].cur

(***************************************************************************)
(* "Still guaranteeing a safe flush on process shutdown": when             *)
(* StopSessionAutoFlush has returned, the file of every registered session *)
(* holds its contents.                                                     *)
(***************************************************************************)
ShutdownFlushed ==
    mode = "stopped" /\ AutoFlush =>
        \A i \in Ids : registry[i] # None =>
            file[i] \notin {NoFile, Torn} /\ file[i].data = obj[registry[i]].data

(***************************************************************************)
(* A full write queue, or a write that failed, only delays persistence     *)
(* ("Persistence delayed for session"): the present state of a registered  *)
(* session reaches a file, or the session leaves the registry.             *)
(***************************************************************************)
Behind(o) == written[o] < obj[o].version

EventuallySaved ==
    \A i \in Ids, o \in Objs :
        (registry[i] = o /\ Behind(o) /\ mode = "up")
          ~> (registry[i] # o \/ ~ Behind(o) \/ mode # "up")

(***************************************************************************)
(* Expired sessions do not pile up in the storage directory.               *)
(***************************************************************************)
Overdue(i) ==
    /\ file[i] \notin {NoFile, Torn}
    /\ Expired(file[i].accessed, now)
    /\ registry[i] = None \/ Expired(obj[registry[i]].accessed, now)

ExpiredCollected == \A i \in Ids : Overdue(i) ~> (~ Overdue(i) \/ mode # "up")

=============================================================================
