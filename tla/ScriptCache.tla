----------------------------- MODULE ScriptCache -----------------------------
(***************************************************************************)
(* The bytecode cache (axonvm/script_cache.go): compiled pages in memory   *)
(* and on disk, the dependency maps that tie a page to the files it        *)
(* includes, the compilation shared by concurrent requests (singleflight), *)
(* and the file watcher that invalidates what was edited.                  *)
(*                                                                         *)
(* A file is its version and its modification time.  A compiled program is *)
(* the version of each file that went into it.  The clock counts parts of  *)
(* a second: the code compares some times exactly and others in seconds.   *)
(*                                                                         *)
(* The maps are keyed by the spelling of a path, while the lists in them   *)
(* are searched with strings.EqualFold.  The two agree where no two files  *)
(* differ in case only (NamesApart), as on Windows, where                  *)
(* normalizeScriptCacheKey makes every key lower case.                     *)
(***************************************************************************)
EXTENDS Integers, Sequences, FiniteSets, SequencesExt, FiniteSetsExt

CONSTANTS
    Pages,      \* pages that are requested
    Includes,   \* files that are only included
    Uses,       \* the include files of a page, in the order they are met
    Fold,       \* a name as strings.EqualFold sees it
    Size,       \* estimateProgramSizeBytes
    Watched,    \* files with an extension the watcher looks at
    Requests,
    None,
    MaxBytes,   \* ScriptCache.maxBytes
    DepLimit,   \* scriptCacheDependencyMapLimit
    Window,     \* scriptCacheDebounceWindow, in ticks
    Second,     \* ticks per second
    MaxTime,    \* BOUND: the last tick
    MaxEdits,   \* BOUND: edits
    MaxRestarts \* BOUND: restarts of the process

Files == Pages \cup Includes

ASSUME CacheAssumption ==
    /\ Uses \in [Pages -> Seq(Files)]
    /\ Fold \in [Files -> Files]
    /\ Size \in [Pages -> Nat \ {0}]
    /\ MaxBytes \in Nat /\ DepLimit \in Nat \ {0}
    /\ Window \in Nat /\ Second \in Nat \ {0}
    /\ MaxTime \in Nat /\ MaxEdits \in Nat /\ MaxRestarts \in Nat
    /\ Watched \subseteq Files
    /\ \A S \in SUBSET Files : None \notin [S -> Nat]

VARIABLES
    now,
    src,      \* the web root: version and modification time of every file
    mem,      \* programs, programOrder, totalBytes
    deps,     \* dependencyMap (map), scriptDependencies (of), dependencyOrder;
              \* history: files the limit of dependencyMap pushed out (out)
    disk,     \* the .aspb file of a page
    flight,   \* the singleflight call of a page
    req,      \* the page a request waits for
    events,   \* fsnotify events not yet handled
    heard,    \* watchDebounce
    left      \* what the bounds leave

vars == <<now, src, mem, deps, disk, flight, req, events, heard, left>>

-----------------------------------------------------------------------------
(***************************************************************************)
(* Programs and files                                                      *)
(***************************************************************************)

Sources(k) == {k} \cup ToSet(Uses[k])
Current(k) == [f \in Sources(k) |-> src[f].ver]
Programs(k) == [Sources(k) -> 0 .. MaxEdits]
Unix(t) == t \div Second

\* The files that strings.EqualFold does not tell from one of S.
Alike(S) == {f \in Files : \E g \in S : Fold[f] = Fold[g]}

\* No two files differ in case only.
NamesApart == \A f, g \in Files : Fold[f] = Fold[g] => f = g

NoFlight == [pc |-> "none", stat |-> None, prog |-> None]

Init ==
    /\ now = 0
    /\ src = [f \in Files |-> [ver |-> 0, mtime |-> 0]]
    /\ mem = [prog |-> [k \in Pages |-> None], order |-> <<>>, total |-> 0]
    /\ deps = [map |-> [f \in Files |-> {}], of |-> [k \in Pages |-> {}],
               order |-> <<>>, out |-> {}]
    /\ disk = [k \in Pages |-> None]
    /\ flight = [k \in Pages |-> NoFlight]
    /\ req = [r \in Requests |-> None]
    /\ events = <<>>
    /\ heard = [f \in Files |-> None]
    /\ left = [edits |-> MaxEdits, restarts |-> MaxRestarts]

-----------------------------------------------------------------------------
(***************************************************************************)
(* The memory tier: removeProgramNoLock and the eviction of putByCacheKey. *)
(***************************************************************************)

\* What filterOutFold leaves of s: S is everything alike the name it is given.
Without(s, S) ==
    LET kept[i \in 0 .. Len(s)] ==
          IF i = 0 THEN <<>>
          ELSE IF s[i] \in S THEN kept[i - 1] ELSE Append(kept[i - 1], s[i])
    IN  kept[Len(s)]

\* The bytes of the programs of S, one by one.
SizeOf(S) == Cardinality(UNION {{k} \X (1 .. Size[k]) : k \in S})
Held(m) == {k \in Pages : m.prog[k] # None}

RemovePrograms(m, S) ==
    LET bytes == SizeOf(S \cap Held(m))
    IN  [prog  |-> [k \in Pages |-> IF k \in S THEN None ELSE m.prog[k]],
         order |-> Without(m.order, Alike(S)),
         total |-> IF bytes <= m.total THEN m.total - bytes ELSE 0]

\* The n oldest at once: programOrder never holds two names that are alike
\* (MemoryAccounted), so taking the first n times takes these.
Oldest(m, n) == RemovePrograms(m, ToSet(SubSeq(m.order, 1, n)))

\* Slip: room is made for what is there, not for what is added.
MakeRoomLate(m, size) ==
    Oldest(m, Min({n \in 0 .. Len(m.order) :
                     n = Len(m.order) \/ Oldest(m, n).total <= MaxBytes}))

\* The oldest entries go until the new program fits.
MakeRoom(m, size) ==
    Oldest(m, Min({n \in 0 .. Len(m.order) :
                     n = Len(m.order) \/ Oldest(m, n).total + size <= MaxBytes}))

Insert(m, k, p) ==
    LET room == MakeRoom(RemovePrograms(m, {k}), Size[k])
    IN  [prog |-> [room.prog EXCEPT ![k] = p], order |-> Append(room.order, k),
         total |-> room.total + Size[k]]

-----------------------------------------------------------------------------
(***************************************************************************)
(* The dependency maps.  A file without dependents has no entry.           *)
(***************************************************************************)

Keys(d) == {f \in Files : d.map[f] # {}}

\* Slip: the order keeps a file whose entry is deleted.
ForgetScriptsKeepingOrder(d, S) ==
    [d EXCEPT !.map = [f \in Files |-> d.map[f] \ Alike({k \in S : f \in d.of[k]})],
              !.of  = [k \in Pages |-> IF k \in S THEN {} ELSE d.of[k]]]

\* removeScriptDependenciesNoLock, for every page of S.
ForgetScripts(d, S) ==
    LET map == [f \in Files |-> d.map[f] \ Alike({k \in S : f \in d.of[k]})]
    IN  [map   |-> map,
         of    |-> [k \in Pages |-> IF k \in S THEN {} ELSE d.of[k]],
         order |-> Without(d.order, Alike({f \in Keys(d) : map[f] = {}})),
         out   |-> d.out]

\* The oldest entry of a full dependencyMap goes, and every page forgets it.
DropOldest(d) ==
    IF Cardinality(Keys(d)) < DepLimit THEN d
    ELSE [map   |-> [d.map EXCEPT ![Head(d.order)] = {}],
          of    |-> [k \in Pages |-> d.of[k] \ Alike({Head(d.order)})],
          order |-> Tail(d.order),
          out   |-> d.out \cup {Head(d.order)}]

\* A page is not added to a file that has one alike already.
AddDependent(d, f, k) ==
    IF d.map[f] \cap Alike({k}) # {} THEN d
    ELSE IF d.map[f] # {} THEN [d EXCEPT !.map[f] = @ \cup {k}]
    ELSE LET room == DropOldest(d)
         IN  [room EXCEPT !.map[f] = {k}, !.order = Append(@, f)]

\* registerDependenciesNoLock; the files of a page are told apart before.
Register(d, k) ==
    LET done[n \in 0 .. Len(Uses[k])] ==
          IF n = 0 THEN [ForgetScripts(d, {k}) EXCEPT !.of[k] = ToSet(Uses[k])]
          ELSE AddDependent(done[n - 1], Uses[k][n], k)
    IN  done[Len(Uses[k])]

\* putByCacheKey
Put(k, p) ==
    IF Size[k] > MaxBytes
    THEN /\ mem' = RemovePrograms(mem, {k})
         /\ deps' = ForgetScripts(deps, {k})
    ELSE /\ mem' = Insert(mem, k, p)
         /\ deps' = Register(deps, k)

\* Slip: the pages that include the file lose their registration only.
InvalidateHalf(f) ==
    /\ mem' = RemovePrograms(mem, {f} \cap Held(mem))
    /\ deps' = ForgetScripts(deps, ({f} \cap Pages) \cup deps.map[f])

\* Invalidate: the file and the pages that include it.
Invalidate(f) ==
    LET hit == ({f} \cap Pages) \cup deps.map[f] IN
      /\ mem' = RemovePrograms(mem, hit \cap Held(mem))
      /\ deps' = ForgetScripts(deps, hit)

-----------------------------------------------------------------------------
(***************************************************************************)
(* LoadOrCompileWithModeAndOptions                                         *)
(***************************************************************************)

\* A page in memory is served at once.  A miss joins the flight of the page
\* or starts it; the first thing a flight does is look into memory again.
Miss(r, k) ==
    /\ req[r] = None /\ mem.prog[k] = None
    /\ req' = [req EXCEPT ![r] = k]
    /\ flight' = IF flight[k].pc # "none" THEN flight
                 ELSE [flight EXCEPT ![k].pc = "check"]
    /\ UNCHANGED <<now, src, mem, deps, disk, events, heard, left>>

\* The flight of k ends and everybody who waits for it goes on.
Landed(k) ==
    /\ flight' = [flight EXCEPT ![k] = NoFlight]
    /\ req' = [r \in Requests |-> IF req[r] = k THEN None ELSE req[r]]

Recheck(k) ==
    /\ flight[k].pc = "check"
    /\ \/ mem.prog[k] # None /\ Landed(k)
       \/ /\ mem.prog[k] = None
          /\ flight' = [flight EXCEPT ![k].pc = "stat"]
          /\ UNCHANGED req
    /\ UNCHANGED <<now, src, mem, deps, disk, events, heard, left>>

StatSource(k) ==
    /\ flight[k].pc = "stat"
    /\ flight' = [flight EXCEPT ![k].pc = "disk",
                                ![k].stat = [ver |-> src[k].ver,
                                              mtime |-> src[k].mtime,
                                              at |-> now]]
    /\ UNCHANGED <<now, src, mem, deps, disk, req, events, heard, left>>

\* Slip: the include files are not looked at.
DiskFreshPageOnly(k) ==
    LET e == disk[k] IN
      /\ e # None
      /\ e.written >= flight[k].stat.mtime
      /\ e.modTime >= Unix(flight[k].stat.mtime)

\* loadDiskProgram: the cache file is not older than the page, neither by
\* its own time nor by the time recorded in it, and no include file is newer
\* than the recorded time.
DiskFresh(k) ==
    LET e == disk[k] IN
      /\ e # None
      /\ e.written >= flight[k].stat.mtime
      /\ e.modTime >= Unix(flight[k].stat.mtime)
      /\ \A f \in ToSet(Uses[k]) : Unix(src[f].mtime) <= e.modTime

LoadDisk(k) ==
    /\ flight[k].pc = "disk"
    /\ \/ /\ DiskFresh(k)
          /\ Put(k, disk[k].prog)
          /\ Landed(k)
       \/ /\ ~DiskFresh(k)
          /\ flight' = [flight EXCEPT ![k].pc = "read"]
          /\ UNCHANGED <<mem, deps, req>>
    /\ UNCHANGED <<now, src, disk, events, heard, left>>

\* os.ReadFile of the page, then the compiler reads the include files.
ReadPage(k) ==
    /\ flight[k].pc = "read"
    /\ flight' = [flight EXCEPT ![k].pc = "compile", ![k].prog = Current(k)]
    /\ UNCHANGED <<now, src, mem, deps, disk, req, events, heard, left>>

Compile(k) ==
    /\ flight[k].pc = "compile"
    /\ flight' = [flight EXCEPT
                    ![k].pc = "store",
                    ![k].prog = [Current(k) EXCEPT ![k] = flight[k].prog[k]]]
    /\ UNCHANGED <<now, src, mem, deps, disk, req, events, heard, left>>

\* A stat, read or compile error goes to every request of the flight.
FlightFails(k) ==
    /\ flight[k].pc \in {"stat", "read", "compile"}
    /\ Landed(k)
    /\ UNCHANGED <<now, src, mem, deps, disk, events, heard, left>>

\* What storeDiskProgram renames into place.  settled is history: when the
\* page was looked at, the second of its last edit was over.
Entry(k) ==
    [modTime |-> Unix(flight[k].stat.mtime), written |-> now,
     prog |-> flight[k].prog,
     settled |-> Unix(flight[k].stat.at) > Unix(flight[k].stat.mtime)]

\* A failure to store is logged and nothing else.
StoreDisk(k) ==
    /\ flight[k].pc = "store"
    /\ \/ disk' = [disk EXCEPT ![k] = Entry(k)]
       \/ UNCHANGED disk
    /\ flight' = [flight EXCEPT ![k].pc = "put"]
    /\ UNCHANGED <<now, src, mem, deps, req, events, heard, left>>

PutCompiled(k) ==
    /\ flight[k].pc = "put"
    /\ Put(k, flight[k].prog)
    /\ Landed(k)
    /\ UNCHANGED <<now, src, disk, events, heard, left>>

-----------------------------------------------------------------------------
(***************************************************************************)
(* The web root and the watcher                                            *)
(***************************************************************************)

Edit(f) ==
    /\ left.edits > 0
    /\ left' = [left EXCEPT !.edits = @ - 1]
    /\ src' = [src EXCEPT ![f] = [ver |-> @.ver + 1, mtime |-> now]]
    /\ events' = IF f \in Watched THEN Append(events, f) ELSE events
    /\ UNCHANGED <<now, mem, deps, disk, flight, req, heard>>

\* shouldProcessWatchEvent
Debounced(f) == heard[f] # None /\ now - heard[f] < Window

\* handleWatchEvent
HandleEvent ==
    /\ events # <<>>
    /\ events' = Tail(events)
    /\ LET f == Head(events) IN
         IF Debounced(f) THEN UNCHANGED <<mem, deps, heard>>
         ELSE Invalidate(f) /\ heard' = [heard EXCEPT ![f] = now]
    /\ UNCHANGED <<now, src, disk, flight, req, left>>

Tick ==
    /\ now < MaxTime
    /\ now' = now + 1
    /\ UNCHANGED <<src, mem, deps, disk, flight, req, events, heard, left>>

\* The process ends and starts again; the cache directory stays.
Restart ==
    /\ left.restarts > 0
    /\ left' = [left EXCEPT !.restarts = @ - 1]
    /\ mem' = [prog |-> [k \in Pages |-> None], order |-> <<>>, total |-> 0]
    /\ deps' = [map |-> [f \in Files |-> {}], of |-> [k \in Pages |-> {}],
                order |-> <<>>, out |-> {}]
    /\ flight' = [k \in Pages |-> NoFlight]
    /\ req' = [r \in Requests |-> None]
    /\ events' = <<>>
    /\ heard' = [f \in Files |-> None]
    /\ UNCHANGED <<now, src, disk>>

Flying(k) ==
    \/ Recheck(k) \/ StatSource(k) \/ LoadDisk(k) \/ ReadPage(k)
    \/ Compile(k) \/ FlightFails(k) \/ StoreDisk(k) \/ PutCompiled(k)

Next ==
    \/ \E r \in Requests, k \in Pages : Miss(r, k)
    \/ \E k \in Pages : Flying(k)
    \/ \E f \in Files : Edit(f)
    \/ HandleEvent \/ Tick \/ Restart

Spec == Init /\ [][Next]_vars

-----------------------------------------------------------------------------
(***************************************************************************)
(* Properties                                                              *)
(***************************************************************************)

Stamp == 0 .. MaxTime

TypeOK ==
    /\ now \in Stamp
    /\ src \in [Files -> [ver : 0 .. MaxEdits, mtime : Stamp]]
    /\ \A k \in Pages : mem.prog[k] = None \/ mem.prog[k] \in Programs(k)
    /\ mem.order \in Seq(Pages) /\ mem.total \in Nat
    /\ deps \in [map : [Files -> SUBSET Pages], of : [Pages -> SUBSET Files],
                 order : Seq(Files), out : SUBSET Files]
    /\ \A k \in Pages : disk[k] = None \/
         disk[k] \in [modTime : Stamp, written : Stamp, prog : Programs(k),
                      settled : BOOLEAN]
    /\ \A k \in Pages :
         flight[k] \in
           [pc : {"none", "check", "stat", "disk", "read", "compile", "store",
                  "put"},
            stat : [ver : 0 .. MaxEdits, mtime : Stamp, at : Stamp] \cup {None},
            prog : Programs(k) \cup {None}]
    /\ req \in [Requests -> Pages \cup {None}]
    /\ events \in Seq(Files)
    /\ heard \in [Files -> Stamp \cup {None}]

\* script-caching.md:72, cache_max_size_mb is the "maximum size of the in-memory
\* script cache".
WithinLimit == mem.total <= MaxBytes

\* putByCacheKey, removeProgramNoLock: totalBytes is the size of what is in
\* memory, and programOrder, from which the victims of an eviction are taken,
\* lists programs in memory, each once and in one spelling; where names are
\* apart it lists them all and the total is within the limit.
MemoryAccounted ==
    /\ ToSet(mem.order) \subseteq Held(mem) /\ IsInjective(mem.order)
    /\ \A j, k \in ToSet(mem.order) : Fold[j] = Fold[k] => j = k
    /\ mem.total = SizeOf(Held(mem))
    /\ NamesApart => Held(mem) \subseteq ToSet(mem.order) /\ WithinLimit

\* An edit of a file in scriptDependencies reaches the page, and dependencyOrder
\* lists the keys of dependencyMap: line 1264 takes its first element without
\* a test.  (A page may stay under a file it has lost, see the README.)
DependenciesAgree ==
    NamesApart =>
      /\ \A k \in Pages : \A f \in deps.of[k] : k \in deps.map[f]
      /\ ToSet(deps.order) = Keys(deps) /\ IsInjective(deps.order)
      /\ Len(deps.order) <= DepLimit

\* What Invalidate looks up (script-caching.md:82, "the cache entry for the
\* parent page is also invalidated"): a page in memory is under each of its
\* include files, unless the limit of dependencyMap pushed that file out.
Registered ==
    \A k \in Held(mem) : \A f \in ToSet(Uses[k]) \ deps.out : k \in deps.map[f]

\* An edit of an include file reaches every page in memory that was built from
\* it, where names are apart.
CachedIsRegistered == NamesApart => Registered

\* loadDiskProgram: a program taken from disk is the one the compiler would
\* make now of the page as stat saw it and of its include files, if the
\* second of the page's last edit was over when the entry was compiled.
DiskHitCurrent ==
    \A k \in Pages :
      flight[k].pc = "disk" /\ DiskFresh(k) /\ disk[k].settled
        => disk[k].prog = [Current(k) EXCEPT ![k] = flight[k].stat.ver]

\* script-caching.md:18, "page edits are picked up immediately without
\* restarting the server": when the watcher has handled every event and no
\* page is being compiled, what is in memory is what is on the web root.
EditsPickedUp ==
    events = <<>> /\ (\A k \in Pages : flight[k].pc = "none") =>
      \A k \in Pages : mem.prog[k] # None => mem.prog[k] = Current(k)

=============================================================================
