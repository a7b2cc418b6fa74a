------------------------- MODULE SessionStore_proof -------------------------
(***************************************************************************)
(* Proofs about SessionStore for any number of requests, workers,          *)
(* sessions and changes: typing, and that the dirty flag never hides a     *)
(* change that was not written out.                                        *)
(***************************************************************************)
EXTENDS SessionStore, TLAPS

(***************************************************************************)
(* The objects that have been allocated: everything that refers to an      *)
(* object refers to one of these.                                          *)
(***************************************************************************)
Named == {o \in Objs : obj[o].id \in Names}

TableRefs ==
    /\ \A i \in Ids : registry[i] \in Named \cup {None}
    /\ todo \subseteq Named
    /\ \A k \in 1 .. Len(queue) : queue[k] \in Named

(***************************************************************************)
(* A request that runs its script has a session, one that loads a session  *)
(* has a cookie.                                                           *)
(***************************************************************************)
WithSession == {"register", "script", "unregister", "renew"}
WithCookie == {"load", "loadUnregister", "register"}

RequestRefs ==
    \A r \in Requests :
        /\ req[r].cur \in Named \cup {None}
        /\ req[r].pc \in WithSession => req[r].cur # None
        /\ req[r].pc \in WithCookie => req[r].cookie \in Ids

(***************************************************************************)
(* A saver at work has a session, and one that is about to mark it clean   *)
(* has written the version it saw.                                         *)
(***************************************************************************)
SaverRefs ==
    \A w \in Savers :
        /\ saver[w].job \in Named \cup {None}
        /\ saver[w].step \notin {"idle", "scan"} => saver[w].job # None
        /\ saver[w].step = "mark" => saver[w].seen <= written[saver[w].job]

IInv == TypeOK /\ TableRefs /\ RequestRefs /\ SaverRefs /\ CleanMeansWritten

------------------------------------------------------------------------------
(***************************************************************************)
(* A process that has just started refers to no session.                   *)
(***************************************************************************)
LEMMA InitInv == Init => IInv
<1> SUFFICES ASSUME Init PROVE IInv
  OBVIOUS
<1> USE SessionAssumption DEF Init
<1>1. NoSession \in Session /\ NoRequest \in Request /\ NoSaver \in Saver
  BY DEF NoSession, Session, Contents, NoRequest, Request, Places, NoSaver, Saver, Steps
<1>2. TypeOK
  BY <1>1 DEF TypeOK
<1>3. TableRefs /\ RequestRefs /\ SaverRefs
  BY DEF TableRefs, RequestRefs, SaverRefs, NoRequest, NoSaver, WithSession, WithCookie
<1>4. CleanMeansWritten
  BY DEF CleanMeansWritten, NoSession
<1> QED BY <1>2, <1>3, <1>4 DEF IInv

------------------------------------------------------------------------------
(***************************************************************************)
(* How the fields of requests, savers and sessions change.                 *)
(***************************************************************************)

(***************************************************************************)
(* Request r goes to p with session c and cookie k; the others stay.       *)
(***************************************************************************)
Moved(r, p, c, k) ==
    /\ req' \in [Requests -> Request]
    /\ req'[r].pc = p /\ req'[r].cur = c /\ req'[r].cookie = k
    /\ \A s \in Requests \ {r} : req'[s] = req[s]

(***************************************************************************)
(* A request that changes its place only.                                  *)
(***************************************************************************)
LEMMA MovePlace ==
    ASSUME TypeOK, NEW r \in Requests, NEW p \in Places,
           req' = [req EXCEPT ![r].pc = p]
    PROVE  Moved(r, p, req[r].cur, req[r].cookie)
BY DEF TypeOK, Request, Moved

(***************************************************************************)
(* A request that changes its place and its session.                       *)
(***************************************************************************)
LEMMA MoveSession ==
    ASSUME TypeOK, NEW r \in Requests, NEW p \in Places, NEW c \in Objs \cup {None},
           req' = [req EXCEPT ![r].pc = p, ![r].cur = c]
    PROVE  Moved(r, p, c, req[r].cookie)
BY DEF TypeOK, Request, Moved

(***************************************************************************)
(* A request that starts or ends.                                          *)
(***************************************************************************)
LEMMA MoveWhole ==
    ASSUME TypeOK, NEW r \in Requests, NEW q \in Request, req' = [req EXCEPT ![r] = q]
    PROVE  Moved(r, q.pc, q.cur, q.cookie)
BY DEF TypeOK, Moved

(***************************************************************************)
(* A move to a place that fits keeps what is known of requests.            *)
(***************************************************************************)
LEMMA MovedRefs ==
    ASSUME RequestRefs, NEW r \in Requests, NEW p, NEW c, NEW k, Moved(r, p, c, k),
           Named \subseteq Named', c \in Named' \cup {None},
           p \in WithSession => c # None, p \in WithCookie => k \in Ids
    PROVE  RequestRefs'
BY DEF RequestRefs, Moved

(***************************************************************************)
(* Requests, savers and tables that stay as they are.                      *)
(***************************************************************************)
LEMMA KeptRefs ==
    ASSUME Named \subseteq Named'
    PROVE  /\ RequestRefs /\ UNCHANGED req => RequestRefs'
           /\ TableRefs /\ UNCHANGED <<registry, todo, queue>> => TableRefs'
           /\ SaverRefs /\ UNCHANGED <<saver, written>> => SaverRefs'
BY DEF RequestRefs, TableRefs, SaverRefs

(***************************************************************************)
(* Savers whose open files or captured map changed, and nothing else.      *)
(***************************************************************************)
SameSavers ==
    /\ saver' \in [Savers -> Saver]
    /\ \A w \in Savers : /\ saver'[w].step = saver[w].step
                         /\ saver'[w].job = saver[w].job
                         /\ saver'[w].seen = saver[w].seen

(***************************************************************************)
(* Such savers keep what is known of them.                                 *)
(***************************************************************************)
LEMMA SameSaverRefs ==
    ASSUME SaverRefs, SameSavers, Named \subseteq Named', UNCHANGED written
    PROVE  SaverRefs'
BY DEF SaverRefs, SameSavers

(***************************************************************************)
(* RemoveAll and Abandon replace the map; savers keep the one they         *)
(* captured.                                                               *)
(***************************************************************************)
LEMMA DetachedSavers ==
    ASSUME TypeOK, NEW o \in Objs, saver' = saver \/ saver' = Detached(o)
    PROVE  SameSavers
<1>1. SUFFICES ASSUME NEW w \in Savers, saver' = Detached(o)
               PROVE  /\ saver'[w] \in Saver
                      /\ saver'[w].step = saver[w].step
                      /\ saver'[w].job = saver[w].job
                      /\ saver'[w].seen = saver[w].seen
  BY DEF SameSavers, TypeOK, Detached
<1>2. saver[w] \in Saver /\ obj[o].data \in Contents
  BY DEF TypeOK, Session
<1>3. saver'[w] \in {[saver[w] EXCEPT !.map = obj[o].data], saver[w]}
  BY <1>1 DEF Detached
<1> QED BY <1>2, <1>3 DEF Saver

(***************************************************************************)
(* os.Remove takes the name of an open file away and changes nothing else. *)
(***************************************************************************)
LEMMA UnlinkedSaver ==
    ASSUME TypeOK, NEW w \in Savers, NEW ids
    PROVE  /\ Unlinked(w, ids) \in Saver
           /\ Unlinked(w, ids).step = saver[w].step
           /\ Unlinked(w, ids).job = saver[w].job
           /\ Unlinked(w, ids).seen = saver[w].seen
<1>1. saver[w] \in Saver
  BY DEF TypeOK
<1>2. PICK b \in BOOLEAN : Unlinked(w, ids) = [saver[w] EXCEPT !.linked = b]
  BY <1>1, Zenon DEF Unlinked, Saver
<1>3. [saver[w] EXCEPT !.linked = b] \in Saver
  BY <1>1, Zenon DEF Saver
<1> QED BY <1>1, <1>2, <1>3 DEF Saver

(***************************************************************************)
(* The same for all savers at once.                                        *)
(***************************************************************************)
LEMMA UnlinkedSavers ==
    ASSUME TypeOK, NEW ids, saver' = [w \in Savers |-> Unlinked(w, ids)]
    PROVE  SameSavers
BY UnlinkedSaver DEF SameSavers

(***************************************************************************)
(* Removing files leaves records and markers.                              *)
(***************************************************************************)
LEMMA RemoveFilesType ==
    ASSUME TypeOK, NEW ids, RemoveFiles(ids)
    PROVE  file' \in [Names -> Record \cup {NoFile, Torn}]
BY DEF TypeOK, RemoveFiles

(***************************************************************************)
(* A failure takes one from those left.                                    *)
(***************************************************************************)
LEMMA FailType ==
    ASSUME TypeOK, Fail
    PROVE  left' \in [arrivals : Nat, exits : Nat, failures : Nat]
<1>1. left \in [arrivals : Nat, exits : Nat, failures : Nat] /\ left.failures > 0
  BY DEF TypeOK, Fail
<1>2. left' = [left EXCEPT !.failures = left.failures - 1]
  BY DEF Fail
<1> QED BY <1>1, <1>2

(***************************************************************************)
(* unregisterSession keeps the tables in order.                            *)
(***************************************************************************)
LEMMA UnregisterRefs ==
    ASSUME IInv, NEW i, Unregister(i), Named' = Named, UNCHANGED <<todo, queue>>
    PROVE  /\ TableRefs'
           /\ registry' \in [Ids -> Objs \cup {None}]
           /\ gone' \subseteq Ids
BY DEF IInv, TypeOK, TableRefs, Unregister

(***************************************************************************)
(* markDirtyLocked keeps the identity and leaves the session dirty.        *)
(***************************************************************************)
LEMMA MarkDirtyType ==
    ASSUME TypeOK, NEW s \in Session
    PROVE  /\ MarkDirty(s) \in Session
           /\ MarkDirty(s).id = s.id
           /\ MarkDirty(s).dirty
<1> DEFINE a == [s EXCEPT !.accessed = now]
           b == [a EXCEPT !.dirty = TRUE]
<1>1. a \in Session
  BY DEF TypeOK, Session
<1>2. b \in Session
  <2> HIDE DEF a
  <2> QED BY <1>1, Zenon DEF Session
<1>3. [b EXCEPT !.version = b.version + 1] \in Session
  <2> HIDE DEF b
  <2> QED BY <1>2 DEF Session
<1>4. MarkDirty(s) = [b EXCEPT !.version = b.version + 1]
  BY Zenon DEF MarkDirty
<1>5. MarkDirty(s).id = s.id /\ MarkDirty(s).dirty
  BY DEF MarkDirty, Session
<1> QED BY <1>3, <1>4, <1>5

(***************************************************************************)
(* A new session object: nothing referred to it, so no saver can hold an   *)
(* older version of it.                                                    *)
(***************************************************************************)
LEMMA AllocatedType ==
    ASSUME NEW i \in Names, NEW d \in Contents, NEW v \in Nat, NEW b \in BOOLEAN, NEW t \in Nat
    PROVE  [NoSession EXCEPT !.id = i, !.data = d, !.version = v, !.dirty = b,
                             !.accessed = t] \in Session
<1> DEFINE n1 == [NoSession EXCEPT !.id = i]
           n2 == [n1 EXCEPT !.data = d]
           n3 == [n2 EXCEPT !.version = v]
           n4 == [n3 EXCEPT !.dirty = b]
<1>1. NoSession \in Session
  BY DEF NoSession, Session, Contents
<1>2. n1 \in Session
  BY <1>1 DEF Session
<1>3. n2 \in Session
  <2> HIDE DEF n1
  <2> QED BY <1>2 DEF Session
<1>4. n3 \in Session
  <2> HIDE DEF n2
  <2> QED BY <1>3 DEF Session
<1>5. n4 \in Session
  <2> HIDE DEF n3
  <2> QED BY <1>4, Zenon DEF Session
<1>6. [n4 EXCEPT !.accessed = t] \in Session
  <2> HIDE DEF n4
  <2> QED BY <1>5 DEF Session
<1> QED BY <1>6, Zenon

(***************************************************************************)
(* NewSessionWithID: the new object is clean only at version 0, and the    *)
(* objects in use keep what was written of them.                           *)
(***************************************************************************)
LEMMA AllocateInv ==
    ASSUME IInv, NEW o \in Fresh, NEW i \in Names, NEW d \in Contents, NEW v \in Nat,
           Allocate(o, i, d, v)
    PROVE  /\ obj' \in [Objs -> Session]
           /\ written' \in [Objs -> Nat]
           /\ Named \subseteq Named' /\ o \in Named'
           /\ CleanMeansWritten'
           /\ UNCHANGED saver => SaverRefs'
<1> DEFINE new == [NoSession EXCEPT !.id = i, !.data = d, !.version = v, !.dirty = v > 0,
                                    !.accessed = now]
<1>1. o \in Objs /\ o # None /\ \A w \in Savers : saver[w].job # o
  <2>1. o \in Objs /\ o \notin Reachable
    BY Zenon DEF Fresh
  <2>2. o # None
    BY <2>1, SessionAssumption
  <2> QED BY <2>1, <2>2, Zenon DEF Reachable
<1>2. obj' = [obj EXCEPT ![o] = new] /\ written' = [written EXCEPT ![o] = 0]
  BY Zenon DEF Allocate
<1>3. new \in Session
  <2>1. (v > 0) \in BOOLEAN
    OBVIOUS
  <2>2. now \in Nat
    BY DEF IInv, TypeOK
  <2> QED BY <2>1, <2>2, AllocatedType, Zenon
<1>4. new.id = i /\ new.version = v /\ (new.dirty <=> v > 0)
  BY Zenon DEF NoSession
<1> HIDE DEF new
<1>5. obj' \in [Objs -> Session] /\ written' \in [Objs -> Nat]
  BY <1>2, <1>3 DEF IInv, TypeOK
<1>6. Named \subseteq Named' /\ o \in Named'
  BY <1>1, <1>2, <1>4 DEF Named, IInv, TypeOK
<1>7. CleanMeansWritten'
  BY <1>1, <1>2, <1>4 DEF CleanMeansWritten, IInv, TypeOK
<1>8. UNCHANGED saver => SaverRefs'
  BY <1>1, <1>2, <1>6 DEF SaverRefs, IInv, TypeOK
<1> QED BY <1>5, <1>6, <1>7, <1>8

------------------------------------------------------------------------------
(***************************************************************************)
(* A change by a script raises the version and sets the dirty flag.        *)
(***************************************************************************)
LEMMA ChangeInv ==
    ASSUME IInv, NEW r \in Requests, NEW s \in Session, s.id = obj[req[r].cur].id,
           Change(r, s), saver' = saver \/ saver' = Detached(req[r].cur)
    PROVE  IInv'
<1>1. req[r].cur \in Objs
  BY DEF IInv, RequestRefs, Named, Change, WithSession
<1>2. /\ MarkDirty(s) \in Session
      /\ MarkDirty(s).id = s.id
      /\ MarkDirty(s).dirty
  BY MarkDirtyType DEF IInv
<1>3. SameSavers
  BY <1>1, DetachedSavers DEF IInv
<1>4. TypeOK'
  <2>1. obj' \in [Objs -> Session]
    BY <1>1, <1>2 DEF Change, IInv, TypeOK
  <2> QED BY <1>3, <2>1 DEF Change, IInv, TypeOK, flushVars, SameSavers
<1>5. Named' = Named
  BY <1>1, <1>2 DEF Change, IInv, TypeOK, Named
<1>6. TableRefs' /\ RequestRefs' /\ SaverRefs'
  BY <1>3, <1>5, KeptRefs, SameSaverRefs DEF Change, IInv, flushVars
<1>7. CleanMeansWritten'
  BY <1>1, <1>2 DEF Change, IInv, CleanMeansWritten, TypeOK
<1> QED BY <1>4, <1>6, <1>7 DEF IInv

(***************************************************************************)
(* Session assignments, Remove, RemoveAll and Abandon.                     *)
(***************************************************************************)
LEMMA ScriptStep ==
    ASSUME IInv, NEW r \in Requests,
           \/ \E v \in Vals : Set(r, v)
           \/ Remove(r) \/ RemoveAll(r) \/ Abandon(r)
    PROVE  IInv'
<1> DEFINE s == obj[req[r].cur]
<1>1. req[r].pc = "script"
  BY DEF Set, Remove, RemoveAll, Abandon, Change
<1>2. s \in Session
  BY <1>1 DEF IInv, RequestRefs, Named, TypeOK, WithSession
<1>3. \A d \in Contents : LET t == [s EXCEPT !.data = d] IN t \in Session /\ t.id = s.id
  BY <1>2 DEF Session
<1>4. CASE \E v \in Vals : Set(r, v)
  BY <1>3, <1>4, ChangeInv DEF Set, Contents
<1>5. CASE Remove(r)
  BY <1>3, <1>5, ChangeInv DEF Remove, Contents
<1>6. CASE RemoveAll(r)
  BY <1>3, <1>6, ChangeInv DEF RemoveAll, Contents
<1>7. CASE Abandon(r)
  <2> DEFINE t == [s EXCEPT !.data = Empty]
             u == [t EXCEPT !.abandoned = TRUE]
  <2>1. t \in Session /\ t.id = s.id
    BY <1>3 DEF Contents
  <2>2. u \in Session
    <3> HIDE DEF t
    <3> QED BY <2>1, Zenon DEF Session
  <2>3. u.id = s.id
    BY <1>2 DEF Session
  <2>4. Change(r, u) /\ (saver' = saver \/ saver' = Detached(req[r].cur))
    BY <1>7, Zenon DEF Abandon
  <2> QED
    <3> HIDE DEF u
    <3> QED BY <2>2, <2>3, <2>4, ChangeInv
<1> QED BY <1>4, <1>5, <1>6, <1>7

------------------------------------------------------------------------------
(***************************************************************************)
(* A request that moves without touching an object.                        *)
(***************************************************************************)
LEMMA MoveInv ==
    ASSUME IInv, NEW r \in Requests, NEW p, NEW c \in Named \cup {None}, NEW k,
           Moved(r, p, c, k),
           p \in WithSession => c # None, p \in WithCookie => k \in Ids,
           UNCHANGED <<obj, written>>
    PROVE  /\ Named' = Named
           /\ RequestRefs'
           /\ CleanMeansWritten'
<1>1. Named' = Named
  BY DEF Named
<1>2. RequestRefs'
  BY <1>1, MovedRefs DEF IInv
<1>3. CleanMeansWritten'
  BY DEF CleanMeansWritten, IInv
<1> QED BY <1>1, <1>2, <1>3

(***************************************************************************)
(* Serving a registered session only touches its time of last access.      *)
(***************************************************************************)
LEMMA TouchType ==
    ASSUME TypeOK, NEW o \in Objs, obj' = [obj EXCEPT ![o].accessed = now]
    PROVE  /\ obj' \in [Objs -> Session]
           /\ \A x \in Objs : /\ obj'[x].id = obj[x].id
                              /\ obj'[x].dirty = obj[x].dirty
                              /\ obj'[x].version = obj[x].version
<1> DEFINE s == [obj[o] EXCEPT !.accessed = now]
<1>1. obj[o] \in Session /\ now \in Nat
  BY DEF TypeOK
<1>2. s \in Session
  BY <1>1 DEF Session
<1>3. s.id = obj[o].id /\ s.version = obj[o].version
  BY <1>1 DEF Session
<1>4. s.dirty = obj[o].dirty
  BY <1>1, Zenon DEF Session
<1>5. obj' = [obj EXCEPT ![o] = s]
  OBVIOUS
<1> HIDE DEF s
<1> QED BY <1>2, <1>3, <1>4, <1>5 DEF TypeOK

(***************************************************************************)
(* GetOrCreateSession finds the session in the registry, or goes on.       *)
(***************************************************************************)
LEMMA ArriveInv ==
    ASSUME IInv, NEW r \in Requests, NEW i \in Ids \cup {None}, Arrive(r, i)
    PROVE  IInv'
<1> USE DEF flushVars
<1>1. left' \in [arrivals : Nat, exits : Nat, failures : Nat]
  <2>1. left \in [arrivals : Nat, exits : Nat, failures : Nat] /\ left.arrivals > 0
    BY DEF Arrive, IInv, TypeOK
  <2>2. left' = [left EXCEPT !.arrivals = left.arrivals - 1]
    BY DEF Arrive
  <2> QED BY <2>1, <2>2
<1>2. CASE i # None /\ registry[i] # None
  <2> DEFINE o == registry[i]
  <2>1. o \in Named /\ o \in Objs /\ i \in Ids
    BY <1>2 DEF IInv, TableRefs, Named
  <2>2. /\ obj' = [obj EXCEPT ![o].accessed = now]
        /\ req' = [req EXCEPT ![r] = [pc |-> "script", cur |-> o, cookie |-> i]]
    BY <1>2 DEF Arrive
  <2>3. /\ obj' \in [Objs -> Session]
        /\ \A x \in Objs : /\ obj'[x].id = obj[x].id
                           /\ obj'[x].dirty = obj[x].dirty
                           /\ obj'[x].version = obj[x].version
    BY <2>1, <2>2, TouchType DEF IInv
  <2>4. Moved(r, "script", o, i)
    <3> DEFINE q == [pc |-> "script", cur |-> o, cookie |-> i]
    <3>1. q \in Request /\ q.pc = "script" /\ q.cur = o /\ q.cookie = i
      BY <2>1 DEF Request, Places
    <3>2. req' = [req EXCEPT ![r] = q]
      BY <2>2
    <3> HIDE DEF q
    <3> QED BY <3>1, <3>2, MoveWhole DEF IInv
  <2>5. TypeOK'
    BY <1>1, <2>3, <2>4 DEF Arrive, IInv, TypeOK, Moved
  <2>6. Named' = Named
    BY <2>3 DEF Named
  <2>7. RequestRefs'
    BY <2>1, <2>4, <2>6, MovedRefs, SessionAssumption DEF IInv, WithCookie
  <2>8. TableRefs' /\ SaverRefs'
    BY <2>6, KeptRefs DEF Arrive, IInv
  <2>9. CleanMeansWritten'
    BY <2>3 DEF Arrive, CleanMeansWritten, IInv
  <2> QED BY <2>5, <2>7, <2>8, <2>9 DEF IInv
<1>3. CASE ~ (i # None /\ registry[i] # None)
  <2> DEFINE p == IF i = None THEN "create" ELSE "load"
             q == [pc |-> p, cur |-> None, cookie |-> i]
  <2>1. req' = [req EXCEPT ![r] = q] /\ UNCHANGED <<obj, written>>
    BY <1>3 DEF Arrive
  <2>2. q \in Request /\ q.pc = p /\ q.cur = None /\ q.cookie = i
    BY DEF Request, Places
  <2>3. Moved(r, p, None, i)
    <3> HIDE DEF p, q
    <3> QED BY <2>1, <2>2, MoveWhole DEF IInv
  <2>4. p \notin WithSession /\ (p \in WithCookie => i \in Ids)
    BY DEF WithSession, WithCookie
  <2> HIDE DEF p, q
  <2>5. Named' = Named /\ RequestRefs' /\ CleanMeansWritten'
    BY <2>1, <2>3, <2>4, MoveInv
  <2>6. TableRefs' /\ SaverRefs'
    BY <2>5, KeptRefs DEF Arrive, IInv
  <2>7. TypeOK'
    BY <1>1, <2>1, <2>3 DEF Arrive, IInv, TypeOK, Moved
  <2> QED BY <2>5, <2>6, <2>7 DEF IInv
<1> QED BY <1>2, <1>3

(***************************************************************************)
(* LoadSession without a session to load, and registerSession.             *)
(***************************************************************************)
LEMMA LoadStep ==
    ASSUME IInv, NEW r \in Requests,
           \/ LoadMiss(r) \/ LoadExpired(r) \/ LoadExpiredKept(r)
           \/ LoadUnregister(r) \/ Register(r)
    PROVE  IInv'
<1> USE DEF flushVars
<1>a. req[r].cur \in Named \cup {None}
  BY DEF IInv, RequestRefs
<1>1. CASE LoadMiss(r)
  <2>1. Moved(r, "create", req[r].cur, req[r].cookie)
    BY <1>1, MovePlace DEF IInv, LoadMiss, Places
  <2>2. Named' = Named /\ RequestRefs' /\ CleanMeansWritten'
    BY <1>1, <1>a, <2>1, MoveInv DEF LoadMiss, WithSession, WithCookie
  <2>3. TableRefs' /\ SaverRefs'
    BY <1>1, <2>2, KeptRefs DEF LoadMiss, IInv
  <2>4. TypeOK'
    BY <1>1, <2>1 DEF LoadMiss, IInv, TypeOK, Moved
  <2> QED BY <2>2, <2>3, <2>4 DEF IInv
<1>2. CASE LoadExpired(r)
  <2>1. Moved(r, "loadUnregister", req[r].cur, req[r].cookie)
    BY <1>2, MovePlace DEF IInv, LoadExpired, Places
  <2>2. req[r].cookie \in Ids
    BY <1>2 DEF LoadExpired, IInv, RequestRefs, WithCookie
  <2>3. Named' = Named /\ RequestRefs' /\ CleanMeansWritten'
    BY <1>2, <1>a, <2>1, <2>2, MoveInv DEF LoadExpired, WithSession
  <2>4. SameSavers
    BY <1>2, UnlinkedSavers DEF LoadExpired, IInv
  <2>5. TableRefs' /\ SaverRefs'
    BY <1>2, <2>3, <2>4, KeptRefs, SameSaverRefs DEF LoadExpired, IInv
  <2>6. file' \in [Names -> Record \cup {NoFile, Torn}]
    BY <1>2, RemoveFilesType DEF LoadExpired, IInv
  <2>7. TypeOK'
    BY <1>2, <2>1, <2>4, <2>6 DEF LoadExpired, IInv, TypeOK, Moved, SameSavers
  <2> QED BY <2>3, <2>5, <2>7 DEF IInv
<1>3. CASE LoadUnregister(r)
  <2>1. Moved(r, "create", req[r].cur, req[r].cookie)
    BY <1>3, MovePlace DEF IInv, LoadUnregister, Places
  <2>2. req[r].cookie \in Ids
    BY <1>3 DEF LoadUnregister, IInv, RequestRefs, WithCookie
  <2>3. Named' = Named /\ RequestRefs' /\ CleanMeansWritten'
    BY <1>3, <1>a, <2>1, MoveInv DEF LoadUnregister, WithSession, WithCookie
  <2>4. SaverRefs'
    BY <1>3, <2>3, KeptRefs DEF LoadUnregister, IInv
  <2>5. /\ TableRefs'
        /\ registry' \in [Ids -> Objs \cup {None}]
        /\ gone' \subseteq Ids
    BY <1>3, <2>3, UnregisterRefs DEF LoadUnregister
  <2>6. TypeOK'
    BY <1>3, <2>1, <2>5 DEF LoadUnregister, IInv, TypeOK, Moved
  <2> QED BY <2>3, <2>4, <2>5, <2>6 DEF IInv
<1>4. CASE Register(r)
  <2> DEFINE first == registry[req[r].cookie]
             c == IF first = None THEN req[r].cur ELSE first
  <2>1. req[r].cookie \in Ids /\ req[r].cur \in Named
    BY <1>4 DEF Register, IInv, RequestRefs, WithSession, WithCookie
  <2>2. c \in Named /\ c \in Objs /\ c # None
    BY <2>1, SessionAssumption DEF IInv, TableRefs, Named
  <2>3. /\ req' = [req EXCEPT ![r].pc = "script", ![r].cur = c]
        /\ registry' = [registry EXCEPT ![req[r].cookie] = c]
    BY <1>4, <2>1 DEF Register, IInv, TypeOK
  <2> HIDE DEF c
  <2>4. Moved(r, "script", c, req[r].cookie)
    <3>1. "script" \in Places /\ c \in Objs \cup {None} /\ TypeOK
      BY <2>2 DEF Places, IInv
    <3> QED BY <2>3, <3>1, MoveSession
  <2>5. Named' = Named /\ RequestRefs' /\ CleanMeansWritten'
    <3>1. UNCHANGED <<obj, written>> /\ "script" \notin WithCookie
      BY <1>4 DEF Register, WithCookie
    <3> QED BY <2>2, <2>4, <3>1, MoveInv
  <2>6. SaverRefs'
    BY <1>4, <2>5, KeptRefs DEF Register, IInv
  <2>7. TableRefs'
    BY <1>4, <2>1, <2>2, <2>3, <2>5 DEF Register, IInv, TableRefs, TypeOK
  <2>8. TypeOK'
    BY <1>4, <2>2, <2>3, <2>4 DEF Register, IInv, TypeOK, Moved
  <2> QED BY <2>5, <2>6, <2>7, <2>8 DEF IInv
<1>5. CASE LoadExpiredKept(r)
  <2>1. Moved(r, "create", req[r].cur, req[r].cookie)
    BY <1>5, MovePlace DEF IInv, LoadExpiredKept, Places
  <2>2. Named' = Named /\ RequestRefs' /\ CleanMeansWritten'
    BY <1>5, <1>a, <2>1, MoveInv DEF LoadExpiredKept, WithSession, WithCookie
  <2>3. TableRefs' /\ SaverRefs'
    BY <1>5, <2>2, KeptRefs DEF LoadExpiredKept, IInv
  <2>4. left' \in [arrivals : Nat, exits : Nat, failures : Nat]
    BY <1>5, FailType DEF LoadExpiredKept, IInv
  <2>5. TypeOK'
    BY <1>5, <2>1, <2>4 DEF LoadExpiredKept, IInv, TypeOK, Moved
  <2> QED BY <2>2, <2>3, <2>5 DEF IInv
<1> QED BY <1>1, <1>2, <1>3, <1>4, <1>5

------------------------------------------------------------------------------
(***************************************************************************)
(* The actions that allocate an object: LoadSession and CreateSession.     *)
(***************************************************************************)
LEMMA LoadHitInv ==
    ASSUME IInv, NEW r \in Requests, NEW o \in Objs, LoadHit(r, o)
    PROVE  IInv'
<1> USE DEF flushVars
<1> DEFINE k == req[r].cookie
           d == IF file[k] = Torn THEN Empty ELSE file[k].data
<1>1. k \in Ids /\ k \in Names
  BY DEF LoadHit, IInv, RequestRefs, WithCookie, Names
<1>2. d \in Contents
  BY <1>1 DEF LoadHit, IInv, TypeOK, Record, Contents
<1>3. o \in Fresh /\ Allocate(o, k, d, 0) /\ UNCHANGED saver
  BY DEF LoadHit
<1> HIDE DEF d
<1>4. /\ obj' \in [Objs -> Session]
      /\ written' \in [Objs -> Nat]
      /\ Named \subseteq Named' /\ o \in Named'
      /\ CleanMeansWritten' /\ SaverRefs'
  BY <1>1, <1>2, <1>3, AllocateInv
<1>5. Moved(r, "register", o, k)
  <2>1. "register" \in Places /\ o \in Objs \cup {None} /\ TypeOK
    BY DEF Places, IInv
  <2> QED BY <2>1, MoveSession DEF LoadHit
<1>6. RequestRefs'
  BY <1>1, <1>4, <1>5, MovedRefs, SessionAssumption DEF IInv
<1>7. TableRefs'
  BY <1>4, KeptRefs DEF LoadHit, IInv
<1>8. TypeOK'
  BY <1>4, <1>5 DEF LoadHit, IInv, TypeOK, Moved
<1> QED BY <1>4, <1>6, <1>7, <1>8 DEF IInv

(***************************************************************************)
(* The fallback to a session without identifier.                           *)
(***************************************************************************)
LEMMA LoadFailsInv ==
    ASSUME IInv, NEW r \in Requests, NEW o \in Objs, LoadFails(r, o)
    PROVE  IInv'
<1> USE DEF flushVars
<1>1. /\ o \in Fresh /\ Allocate(o, NoId, Empty, 1) /\ UNCHANGED saver
      /\ NoId \in Names /\ Empty \in Contents
  BY DEF LoadFails, Names, Contents
<1>2. /\ obj' \in [Objs -> Session]
      /\ written' \in [Objs -> Nat]
      /\ Named \subseteq Named' /\ o \in Named'
      /\ CleanMeansWritten' /\ SaverRefs'
  BY <1>1, AllocateInv
<1>3. Moved(r, "script", o, req[r].cookie)
  <2>1. "script" \in Places /\ o \in Objs \cup {None} /\ TypeOK
    BY DEF Places, IInv
  <2> QED BY <2>1, MoveSession DEF LoadFails
<1>4. RequestRefs'
  BY <1>2, <1>3, MovedRefs, SessionAssumption DEF IInv, WithCookie
<1>5. TableRefs'
  BY <1>2, KeptRefs DEF LoadFails, IInv
<1>6. left' \in [arrivals : Nat, exits : Nat, failures : Nat]
  BY FailType DEF LoadFails, IInv
<1>7. TypeOK'
  BY <1>2, <1>3, <1>6 DEF LoadFails, IInv, TypeOK, Moved
<1> QED BY <1>2, <1>4, <1>5, <1>7 DEF IInv

(***************************************************************************)
(* CreateSession, for a request without a session and after Abandon.       *)
(***************************************************************************)
LEMMA CreateFacts ==
    ASSUME IInv, NEW o \in Objs, NEW i \in Ids, CreateSession(o, i),
           UNCHANGED <<saver, todo, queue>>
    PROVE  /\ obj' \in [Objs -> Session]
           /\ written' \in [Objs -> Nat]
           /\ registry' \in [Ids -> Objs \cup {None}]
           /\ Named \subseteq Named' /\ o \in Named'
           /\ CleanMeansWritten' /\ SaverRefs' /\ TableRefs'
<1>1. o \in Fresh /\ Allocate(o, i, Empty, 2) /\ Empty \in Contents /\ i \in Names
  BY DEF CreateSession, Contents, Names
<1>2. /\ obj' \in [Objs -> Session]
      /\ written' \in [Objs -> Nat]
      /\ Named \subseteq Named' /\ o \in Named'
      /\ CleanMeansWritten' /\ SaverRefs'
  BY <1>1, AllocateInv
<1>3. registry' = [registry EXCEPT ![i] = o]
  BY DEF CreateSession
<1>4. registry' \in [Ids -> Objs \cup {None}]
  BY <1>3 DEF IInv, TypeOK
<1>5. TableRefs'
  BY <1>2, <1>3 DEF IInv, TypeOK, TableRefs
<1> QED BY <1>2, <1>4, <1>5

(***************************************************************************)
(* Create and PersistRenew.                                                *)
(***************************************************************************)
LEMMA CreateStep ==
    ASSUME IInv, NEW r \in Requests, NEW o \in Objs, NEW i \in Ids,
           Create(r, o, i) \/ PersistRenew(r, o, i)
    PROVE  IInv'
<1> USE DEF flushVars
<1>1. /\ CreateSession(o, i)
      /\ UNCHANGED <<now, mode, file, queue, saver, todo, known, since, left, gone>>
  BY DEF Create, PersistRenew
<1>2. /\ obj' \in [Objs -> Session]
      /\ written' \in [Objs -> Nat]
      /\ registry' \in [Ids -> Objs \cup {None}]
      /\ Named \subseteq Named' /\ o \in Named'
      /\ CleanMeansWritten' /\ SaverRefs' /\ TableRefs'
  BY <1>1, CreateFacts
<1>3. RequestRefs' /\ req' \in [Requests -> Request]
  <2>1. CASE Create(r, o, i)
    <3>1. "script" \in Places /\ "script" \notin WithCookie /\ o \in Objs \cup {None} /\ TypeOK
      BY DEF Places, WithCookie, IInv
    <3>2. Moved(r, "script", o, req[r].cookie)
      BY <2>1, <3>1, MoveSession DEF Create
    <3> QED BY <1>2, <3>1, <3>2, MovedRefs, SessionAssumption DEF IInv, Moved
  <2>2. CASE PersistRenew(r, o, i)
    <3>1. NoRequest \in Request /\ NoRequest.pc = "idle" /\ NoRequest.cur = None
      BY DEF NoRequest, Request, Places
    <3>2. Moved(r, "idle", None, NoRequest.cookie)
      BY <2>2, <3>1, MoveWhole DEF PersistRenew, IInv
    <3>3. "idle" \notin WithSession \cup WithCookie
      BY DEF WithSession, WithCookie
    <3> QED BY <1>2, <3>2, <3>3, MovedRefs DEF IInv, Moved
  <2> QED BY <2>1, <2>2
<1>4. TypeOK'
  BY <1>1, <1>2, <1>3 DEF IInv, TypeOK
<1> QED BY <1>2, <1>3, <1>4 DEF IInv

------------------------------------------------------------------------------
(***************************************************************************)
(* PersistSession at the end of a request.                                 *)
(***************************************************************************)
LEMMA EndMove ==
    ASSUME IInv, NEW r \in Requests, req' = [req EXCEPT ![r] = NoRequest],
           UNCHANGED <<obj, written>>
    PROVE  /\ req' \in [Requests -> Request]
           /\ Named' = Named
           /\ RequestRefs' /\ CleanMeansWritten'
<1>1. NoRequest \in Request /\ NoRequest.pc = "idle" /\ NoRequest.cur = None
  BY DEF NoRequest, Request, Places
<1>2. Moved(r, "idle", None, NoRequest.cookie)
  BY <1>1, MoveWhole DEF IInv
<1>3. "idle" \notin WithSession \cup WithCookie
  BY DEF WithSession, WithCookie
<1> QED BY <1>2, <1>3, MoveInv DEF Moved

(***************************************************************************)
(* A request ends without saving, queues its session, or deletes an        *)
(* abandoned one.                                                          *)
(***************************************************************************)
LEMMA EndStep ==
    ASSUME IInv, NEW r \in Requests,
           \/ EndUnsaved(r) \/ Persist(r) \/ PersistRemove(r)
           \/ PersistRemoveFails(r) \/ PersistUnregister(r)
    PROVE  IInv'
<1> USE DEF flushVars
<1>a. req[r].pc \in WithSession /\ req[r].cur \in Named
  BY DEF EndUnsaved, Persist, PersistRemove, PersistRemoveFails, PersistUnregister,
         WithSession, IInv, RequestRefs
<1>1. CASE EndUnsaved(r)
  <2>1. req' \in [Requests -> Request] /\ Named' = Named /\ RequestRefs' /\ CleanMeansWritten'
    BY <1>1, EndMove DEF EndUnsaved
  <2>2. TableRefs' /\ SaverRefs'
    BY <1>1, <2>1, KeptRefs DEF EndUnsaved, IInv
  <2>3. TypeOK'
    BY <1>1, <2>1 DEF EndUnsaved, IInv, TypeOK
  <2> QED BY <2>1, <2>2, <2>3 DEF IInv
<1>2. CASE Persist(r)
  <2>1. req' \in [Requests -> Request] /\ Named' = Named /\ RequestRefs' /\ CleanMeansWritten'
    BY <1>2, EndMove DEF Persist
  <2>2. SaverRefs'
    BY <1>2, <2>1, KeptRefs DEF Persist, IInv
  <2>3. \/ UNCHANGED queue
        \/ queue' = Append(queue, req[r].cur) /\ Len(queue) < QueueSize
    BY <1>2 DEF Persist
  <2>4. req[r].cur \in Objs
    BY <1>a DEF Named
  <2>5. TableRefs'
    <3>1. \A k \in 1 .. Len(queue') : queue'[k] \in Named
      <4>1. CASE UNCHANGED queue
        BY <4>1 DEF IInv, TableRefs
      <4>2. CASE queue' = Append(queue, req[r].cur)
        BY <1>a, <2>4, <4>2 DEF IInv, TypeOK, TableRefs
      <4> QED BY <2>3, <4>1, <4>2
    <3> QED BY <1>2, <2>1, <3>1 DEF Persist, IInv, TableRefs
  <2>6. queue' \in Seq(Objs) /\ Len(queue') <= QueueSize
    <3>1. queue \in Seq(Objs) /\ Len(queue) <= QueueSize /\ Len(queue) \in Nat
      BY DEF IInv, TypeOK
    <3>2. CASE UNCHANGED queue
      BY <3>1, <3>2
    <3>3. CASE queue' = Append(queue, req[r].cur) /\ Len(queue) < QueueSize
      <4>1. queue' \in Seq(Objs) /\ Len(queue') = Len(queue) + 1
        BY <2>4, <3>1, <3>3
      <4> QED BY <3>1, <3>3, <4>1, SessionAssumption
    <3> QED BY <2>3, <3>2, <3>3
  <2>7. TypeOK'
    BY <1>2, <2>1, <2>6 DEF Persist, IInv, TypeOK
  <2> QED BY <2>1, <2>2, <2>5, <2>7 DEF IInv
<1>3. CASE PersistRemove(r)
  <2>1. Moved(r, "unregister", req[r].cur, req[r].cookie)
    BY <1>3, MovePlace DEF IInv, PersistRemove, Places
  <2>2. req[r].cur # None /\ "unregister" \notin WithCookie
    BY <1>a, SessionAssumption DEF Named, WithCookie
  <2>3. Named' = Named /\ RequestRefs' /\ CleanMeansWritten'
    BY <1>3, <1>a, <2>1, <2>2, MoveInv DEF PersistRemove
  <2>4. SameSavers
    BY <1>3, UnlinkedSavers DEF PersistRemove, IInv
  <2>5. TableRefs' /\ SaverRefs'
    BY <1>3, <2>3, <2>4, KeptRefs, SameSaverRefs DEF PersistRemove, IInv
  <2>6. file' \in [Names -> Record \cup {NoFile, Torn}]
    BY <1>3, RemoveFilesType DEF PersistRemove, IInv
  <2>7. TypeOK'
    BY <1>3, <2>1, <2>4, <2>6 DEF PersistRemove, IInv, TypeOK, Moved, SameSavers
  <2> QED BY <2>3, <2>5, <2>7 DEF IInv
<1>4. CASE PersistUnregister(r)
  <2>1. Moved(r, "renew", req[r].cur, req[r].cookie)
    BY <1>4, MovePlace DEF IInv, PersistUnregister, Places
  <2>2. req[r].cur # None /\ "renew" \notin WithCookie
    BY <1>a, SessionAssumption DEF Named, WithCookie
  <2>3. Named' = Named /\ RequestRefs' /\ CleanMeansWritten'
    BY <1>4, <1>a, <2>1, <2>2, MoveInv DEF PersistUnregister
  <2>4. SaverRefs'
    BY <1>4, <2>3, KeptRefs DEF PersistUnregister, IInv
  <2>5. /\ TableRefs'
        /\ registry' \in [Ids -> Objs \cup {None}]
        /\ gone' \subseteq Ids
    BY <1>4, <2>3, UnregisterRefs DEF PersistUnregister
  <2>6. TypeOK'
    BY <1>4, <2>1, <2>5 DEF PersistUnregister, IInv, TypeOK, Moved
  <2> QED BY <2>3, <2>4, <2>5, <2>6 DEF IInv
<1>5. CASE PersistRemoveFails(r)
  <2>1. Moved(r, "renew", req[r].cur, req[r].cookie)
    BY <1>5, MovePlace DEF IInv, PersistRemoveFails, Places
  <2>2. req[r].cur # None /\ "renew" \notin WithCookie
    BY <1>a, SessionAssumption DEF Named, WithCookie
  <2>3. Named' = Named /\ RequestRefs' /\ CleanMeansWritten'
    BY <1>5, <1>a, <2>1, <2>2, MoveInv DEF PersistRemoveFails
  <2>4. TableRefs' /\ SaverRefs'
    BY <1>5, <2>3, KeptRefs DEF PersistRemoveFails, IInv
  <2>5. left' \in [arrivals : Nat, exits : Nat, failures : Nat]
    BY <1>5, FailType DEF PersistRemoveFails, IInv
  <2>6. TypeOK'
    BY <1>5, <2>1, <2>5 DEF PersistRemoveFails, IInv, TypeOK, Moved
  <2> QED BY <2>3, <2>4, <2>6 DEF IInv
<1> QED BY <1>1, <1>2, <1>3, <1>4, <1>5

------------------------------------------------------------------------------
(***************************************************************************)
(* Saver w goes to step p with session o and version n; the others stay.   *)
(***************************************************************************)
Turned(w, p, o, n) ==
    /\ saver' \in [Savers -> Saver]
    /\ saver'[w].step = p /\ saver'[w].job = o /\ saver'[w].seen = n
    /\ \A x \in Savers \ {w} : saver'[x] = saver[x]

(***************************************************************************)
(* A saver that begins or ends a job.                                      *)
(***************************************************************************)
LEMMA TurnWhole ==
    ASSUME TypeOK, NEW w \in Savers, NEW s \in Saver, saver' = [saver EXCEPT ![w] = s]
    PROVE  Turned(w, s.step, s.job, s.seen)
BY DEF TypeOK, Turned

(***************************************************************************)
(* A turn that fits, while no object changes its identity and no version   *)
(* written out is forgotten, keeps what is known of savers.                *)
(***************************************************************************)
LEMMA TurnedRefs ==
    ASSUME IInv, NEW w \in Savers, NEW p, NEW o \in Named \cup {None}, NEW n,
           Turned(w, p, o, n), Named' = Named,
           p \notin {"idle", "scan"} => o # None,
           p = "mark" => n <= written'[o],
           \A x \in Objs : written'[x] \in Nat /\ written[x] <= written'[x]
    PROVE  SaverRefs'
<1> SUFFICES ASSUME NEW x \in Savers
             PROVE  /\ saver'[x].job \in Named \cup {None}
                    /\ saver'[x].step \notin {"idle", "scan"} => saver'[x].job # None
                    /\ saver'[x].step = "mark" => saver'[x].seen <= written'[saver'[x].job]
  BY DEF SaverRefs
<1>1. CASE x = w
  BY <1>1 DEF Turned
<1>2. CASE x # w
  <2>1. saver'[x] = saver[x]
    BY <1>2 DEF Turned
  <2>2. /\ saver[x].job \in Named \cup {None}
        /\ saver[x].step \notin {"idle", "scan"} => saver[x].job # None
        /\ saver[x].step = "mark" => saver[x].seen <= written[saver[x].job]
    BY DEF IInv, SaverRefs
  <2>3. saver[x].seen \in Nat /\ \A y \in Objs : written[y] \in Nat
    BY DEF IInv, TypeOK, Saver
  <2>4. saver[x].step = "mark" => saver[x].seen <= written'[saver[x].job]
    BY <2>2, <2>3 DEF Named
  <2> QED BY <2>1, <2>2, <2>4
<1> QED BY <1>1, <1>2

(***************************************************************************)
(* Session.Save begins with the present version.                           *)
(***************************************************************************)
LEMMA BegunType ==
    ASSUME TypeOK, NEW o \in Objs
    PROVE  /\ Begun(o) \in Saver
           /\ Begun(o).step = "pack" /\ Begun(o).job = o
<1>1. obj[o].version \in Nat /\ obj[o].accessed \in Nat
  BY DEF TypeOK, Session
<1> QED BY <1>1 DEF Begun, NoSaver, Saver, Steps, Contents

(***************************************************************************)
(* sessionWriterWorker receives a session.                                 *)
(***************************************************************************)
LEMMA TakeJobInv ==
    ASSUME IInv, NEW w \in Workers, TakeJob(w)
    PROVE  IInv'
<1> USE DEF flushVars
<1> DEFINE o == Head(queue)
<1>1. /\ o \in Named /\ o \in Objs
      /\ \A k \in 1 .. Len(queue') : queue'[k] \in Named
      /\ queue' \in Seq(Objs) /\ Len(queue') <= QueueSize
  BY SessionAssumption DEF TakeJob, IInv, TypeOK, TableRefs, Named
<1>2. Begun(o) \in Saver /\ Begun(o).step = "pack" /\ Begun(o).job = o
  BY <1>1, BegunType DEF IInv
<1>3. Named' = Named /\ CleanMeansWritten'
  BY DEF TakeJob, Named, CleanMeansWritten, IInv
<1>4. Turned(w, "pack", o, Begun(o).seen)
  BY <1>2, TurnWhole DEF TakeJob, IInv, Savers
<1>5. SaverRefs'
  <2>1. \A x \in Objs : written'[x] \in Nat /\ written[x] <= written'[x]
    BY DEF TakeJob, IInv, TypeOK
  <2>2. o # None /\ w \in Savers
    BY <1>1, SessionAssumption DEF Savers
  <2> QED BY <1>1, <1>3, <1>4, <2>1, <2>2, TurnedRefs
<1>6. RequestRefs' /\ TableRefs'
  BY <1>1, <1>3, KeptRefs DEF TakeJob, IInv, TableRefs
<1>7. TypeOK'
  BY <1>1, <1>4 DEF TakeJob, IInv, TypeOK, Turned
<1> QED BY <1>3, <1>5, <1>6, <1>7 DEF IInv

(***************************************************************************)
(* Session.Save: serialise, truncate, write, mark clean.  Marking clean is *)
(* right because the version it compares with was written out before.      *)
(***************************************************************************)
LEMMA SerialiseInv ==
    ASSUME IInv, NEW w \in Savers, Serialise(w)
    PROVE  IInv'
<1> USE DEF flushVars
<1> DEFINE o == saver[w].job
           d == IF saver[w].map = Live THEN obj[o].data ELSE saver[w].map
<1>1. saver[w] \in Saver /\ o \in Named /\ o \in Objs
  BY DEF Serialise, IInv, TypeOK, SaverRefs, Named
<1>2. d \in Contents
  BY <1>1 DEF IInv, TypeOK, Saver, Session
<1>3. saver' = [saver EXCEPT ![w].out = d, ![w].map = Empty, ![w].step = "open"]
  BY DEF Serialise
<1> HIDE DEF d
<1>4. Turned(w, "open", o, saver[w].seen)
  BY <1>1, <1>2, <1>3 DEF IInv, TypeOK, Saver, Steps, Contents, Turned
<1>5. Named' = Named /\ CleanMeansWritten'
  BY DEF Serialise, Named, CleanMeansWritten, IInv
<1>6. SaverRefs'
  <2>1. \A x \in Objs : written'[x] \in Nat /\ written[x] <= written'[x]
    BY DEF Serialise, IInv, TypeOK
  <2>2. o # None
    BY <1>1, SessionAssumption
  <2> QED BY <1>1, <1>4, <1>5, <2>1, <2>2, TurnedRefs
<1>7. RequestRefs' /\ TableRefs'
  BY <1>5, KeptRefs DEF Serialise, IInv
<1>8. TypeOK'
  BY <1>4 DEF Serialise, IInv, TypeOK, Turned
<1> QED BY <1>5, <1>6, <1>7, <1>8 DEF IInv

(***************************************************************************)
(* The file is truncated.                                                  *)
(***************************************************************************)
LEMMA OpenFileInv ==
    ASSUME IInv, NEW w \in Savers, OpenFile(w)
    PROVE  IInv'
<1> USE DEF flushVars
<1> DEFINE o == saver[w].job
           s == [saver[w] EXCEPT !.linked = TRUE]
<1>1. saver[w] \in Saver /\ o \in Named /\ o \in Objs
  BY DEF OpenFile, IInv, TypeOK, SaverRefs, Named
<1>2. s \in Saver /\ s.job = o /\ s.seen = saver[w].seen
  BY <1>1, Zenon DEF Saver
<1>3. saver' = [saver EXCEPT ![w] = [s EXCEPT !.step = "write"]]
  BY <1>1 DEF OpenFile, IInv, TypeOK
<1> HIDE DEF s
<1>4. Turned(w, "write", o, saver[w].seen)
  <2> DEFINE t == [s EXCEPT !.step = "write"]
  <2>1. t \in Saver /\ t.step = "write" /\ t.job = o /\ t.seen = saver[w].seen
    BY <1>2 DEF Saver, Steps
  <2>2. saver' = [saver EXCEPT ![w] = t]
    BY <1>3
  <2> HIDE DEF t
  <2> QED BY <2>1, <2>2, TurnWhole DEF IInv
<1>5. Named' = Named /\ CleanMeansWritten'
  BY DEF OpenFile, Named, CleanMeansWritten, IInv
<1>6. SaverRefs'
  <2>1. \A x \in Objs : written'[x] \in Nat /\ written[x] <= written'[x]
    BY DEF OpenFile, IInv, TypeOK
  <2>2. o # None
    BY <1>1, SessionAssumption
  <2> QED BY <1>1, <1>4, <1>5, <2>1, <2>2, TurnedRefs
<1>7. RequestRefs' /\ TableRefs'
  BY <1>5, KeptRefs DEF OpenFile, IInv
<1>8. TypeOK'
  BY <1>4 DEF OpenFile, IInv, TypeOK, Turned
<1> QED BY <1>5, <1>6, <1>7, <1>8 DEF IInv

(***************************************************************************)
(* The version seen is written out and stays so.                           *)
(***************************************************************************)
LEMMA WriteFileInv ==
    ASSUME IInv, NEW w \in Savers, WriteFile(w)
    PROVE  IInv'
<1> USE DEF flushVars
<1> DEFINE o == saver[w].job
           s == [saver[w] EXCEPT !.linked = FALSE]
<1>1. saver[w] \in Saver /\ o \in Named /\ o \in Objs
  BY DEF WriteFile, IInv, TypeOK, SaverRefs, Named
<1>2. s \in Saver /\ s.job = o /\ s.seen = saver[w].seen
  BY <1>1, Zenon DEF Saver
<1>3. saver' = [saver EXCEPT ![w] = [s EXCEPT !.step = "mark"]]
  BY <1>1 DEF WriteFile, IInv, TypeOK
<1> HIDE DEF s
<1>4. Turned(w, "mark", o, saver[w].seen)
  <2> DEFINE t == [s EXCEPT !.step = "mark"]
  <2>1. t \in Saver /\ t.step = "mark" /\ t.job = o /\ t.seen = saver[w].seen
    BY <1>2 DEF Saver, Steps
  <2>2. saver' = [saver EXCEPT ![w] = t]
    BY <1>3
  <2> HIDE DEF t
  <2> QED BY <2>1, <2>2, TurnWhole DEF IInv
<1>5. /\ written' \in [Objs -> Nat]
      /\ saver[w].seen <= written'[o]
      /\ \A x \in Objs : written[x] <= written'[x]
  <2>1. saver[w].seen \in Nat /\ written \in [Objs -> Nat]
    BY <1>1 DEF Saver, IInv, TypeOK
  <2>2. written' = IF written[o] < saver[w].seen
                   THEN [written EXCEPT ![o] = saver[w].seen] ELSE written
    BY DEF WriteFile
  <2> QED BY <1>1, <2>1, <2>2
<1>6. Named' = Named
  BY DEF WriteFile, Named
<1>7. CleanMeansWritten'
  <2> SUFFICES ASSUME NEW x \in Objs, ~ obj[x].dirty
               PROVE  written'[x] >= obj[x].version
    BY DEF CleanMeansWritten, WriteFile
  <2>1. written[x] >= obj[x].version
    BY DEF CleanMeansWritten, IInv
  <2>2. written[x] \in Nat /\ written'[x] \in Nat /\ obj[x].version \in Nat
    BY <1>5 DEF IInv, TypeOK, Session
  <2> QED BY <1>5, <2>1, <2>2
<1>8. SaverRefs'
  <2>1. o # None
    BY <1>1, SessionAssumption
  <2> QED BY <1>1, <1>4, <1>5, <1>6, <2>1, TurnedRefs
<1>9. RequestRefs' /\ TableRefs'
  BY <1>6, KeptRefs DEF WriteFile, IInv
<1>10. TypeOK'
  <2>1. [data |-> saver[w].out, accessed |-> saver[w].at] \in Record
    BY <1>1 DEF Record, Saver
  <2>2. file' \in [Names -> Record \cup {NoFile, Torn}]
    BY <2>1 DEF WriteFile, IInv, TypeOK
  <2> QED BY <1>4, <1>5, <2>2 DEF WriteFile, IInv, TypeOK, Turned
<1> QED BY <1>7, <1>8, <1>9, <1>10 DEF IInv

(***************************************************************************)
(* The flag goes only if the version is still the one written out.         *)
(***************************************************************************)
LEMMA MarkCleanInv ==
    ASSUME IInv, NEW w \in Savers, MarkClean(w)
    PROVE  IInv'
<1> USE DEF flushVars
<1> DEFINE o == saver[w].job
           n == saver[w].seen
           t == IF w = Flusher THEN [NoSaver EXCEPT !.step = "scan"] ELSE NoSaver
<1>1. /\ saver[w] \in Saver /\ n \in Nat /\ o \in Named /\ o \in Objs
      /\ n <= written[o] /\ obj[o] \in Session
  BY DEF MarkClean, IInv, TypeOK, SaverRefs, Named, Saver
<1>2. t \in Saver /\ t.step \in {"idle", "scan"} /\ t.job = None
  BY DEF NoSaver, Saver, Steps, Contents
<1>3. saver' = [saver EXCEPT ![w] = t]
  BY DEF MarkClean, SaveDone
<1> HIDE DEF t
<1>4. Turned(w, t.step, None, t.seen)
  BY <1>2, <1>3, TurnWhole DEF IInv
<1>5. /\ obj' \in [Objs -> Session]
      /\ Named' = Named
      /\ CleanMeansWritten'
  <2>1. CASE obj[o].version = n
    <3> DEFINE c == [obj[o] EXCEPT !.dirty = FALSE]
               s == [c EXCEPT !.saved = n]
    <3>1. c \in Session /\ c.id = obj[o].id /\ c.version = obj[o].version
      BY <1>1, Zenon DEF Session
    <3>2. obj' = [obj EXCEPT ![o] = s]
      BY <1>1, <2>1 DEF MarkClean, IInv, TypeOK
    <3>3. s \in Session /\ s.id = obj[o].id /\ s.version = obj[o].version
      <4> HIDE DEF c
      <4> QED BY <1>1, <3>1 DEF Session
    <3> HIDE DEF s
    <3>4. obj' \in [Objs -> Session] /\ Named' = Named
      BY <1>1, <3>2, <3>3 DEF IInv, TypeOK, Named
    <3>5. CleanMeansWritten'
      <4> SUFFICES ASSUME NEW x \in Objs, ~ obj'[x].dirty
                   PROVE  written[x] >= obj'[x].version
        BY DEF CleanMeansWritten, MarkClean
      <4>1. CASE x = o
        BY <1>1, <2>1, <3>2, <3>3, <4>1 DEF IInv, TypeOK
      <4>2. CASE x # o
        BY <3>2, <4>2 DEF IInv, TypeOK, CleanMeansWritten
      <4> QED BY <4>1, <4>2
    <3> QED BY <3>4, <3>5
  <2>2. CASE obj[o].version # n
    BY <2>2 DEF MarkClean, IInv, TypeOK, Named, CleanMeansWritten
  <2> QED BY <2>1, <2>2
<1>6. SaverRefs'
  <2>1. \A x \in Objs : written'[x] \in Nat /\ written[x] <= written'[x]
    BY DEF MarkClean, IInv, TypeOK
  <2> QED BY <1>2, <1>4, <1>5, <2>1, TurnedRefs
<1>7. RequestRefs' /\ TableRefs'
  BY <1>5, KeptRefs DEF MarkClean, IInv
<1>8. TypeOK'
  BY <1>4, <1>5 DEF MarkClean, IInv, TypeOK, Turned
<1> QED BY <1>5, <1>6, <1>7, <1>8 DEF IInv

(***************************************************************************)
(* A Save that fails, and a Delete of the flusher that does, leave every   *)
(* object as it was.                                                       *)
(***************************************************************************)
LEMMA SaverFailsInv ==
    ASSUME IInv, NEW w \in Savers, SaveFails(w) \/ (w = Flusher /\ FlushDeleteFails)
    PROVE  IInv'
<1> USE DEF flushVars
<1> DEFINE t == IF w = Flusher THEN [NoSaver EXCEPT !.step = "scan"] ELSE NoSaver
<1>1. /\ Fail
      /\ UNCHANGED <<now, mode, obj, registry, file, queue, req, todo, known, since,
                     written, gone>>
  BY DEF SaveFails, FlushDeleteFails
<1>2. t \in Saver /\ t.step \in {"idle", "scan"} /\ t.job = None
  BY DEF NoSaver, Saver, Steps, Contents
<1>3. saver' = [saver EXCEPT ![w] = t]
  BY DEF SaveFails, FlushDeleteFails, SaveDone
<1> HIDE DEF t
<1>4. Turned(w, t.step, None, t.seen)
  BY <1>2, <1>3, TurnWhole DEF IInv
<1>5. Named' = Named /\ CleanMeansWritten'
  BY <1>1 DEF Named, CleanMeansWritten, IInv
<1>6. SaverRefs'
  <2>1. \A x \in Objs : written'[x] \in Nat /\ written[x] <= written'[x]
    BY <1>1 DEF IInv, TypeOK
  <2> QED BY <1>2, <1>4, <1>5, <2>1, TurnedRefs
<1>7. RequestRefs' /\ TableRefs'
  BY <1>1, <1>5, KeptRefs DEF IInv
<1>8. left' \in [arrivals : Nat, exits : Nat, failures : Nat]
  BY <1>1, FailType DEF IInv
<1>9. TypeOK'
  BY <1>1, <1>4, <1>8 DEF IInv, TypeOK, Turned
<1> QED BY <1>5, <1>6, <1>7, <1>9 DEF IInv

------------------------------------------------------------------------------
(***************************************************************************)
(* A step of the flusher that leaves the objects alone.                    *)
(***************************************************************************)
LEMMA FlusherTurn ==
    ASSUME IInv, NEW p, NEW o \in Named \cup {None}, NEW n, Turned(Flusher, p, o, n),
           p \notin {"idle", "scan"} => o # None, p # "mark",
           UNCHANGED <<obj, written, req>>
    PROVE  Named' = Named /\ SaverRefs' /\ RequestRefs' /\ CleanMeansWritten'
<1>1. Named' = Named /\ CleanMeansWritten'
  BY DEF Named, CleanMeansWritten, IInv
<1>2. \A x \in Objs : written'[x] \in Nat /\ written[x] <= written'[x]
  BY DEF IInv, TypeOK
<1>3. Flusher \in Savers
  BY DEF Savers
<1> QED BY <1>1, <1>2, <1>3, TurnedRefs, KeptRefs DEF IInv

(***************************************************************************)
(* FlushRegisteredSessions.                                                *)
(***************************************************************************)
LEMMA FlushStep ==
    ASSUME IInv,
           \/ FlushSnapshot \/ FlushUnregister
           \/ \E o \in Objs : FlushDecide(o) \/ FlushSave(o)
    PROVE  IInv'
<1> USE DEF flushVars
<1>a. Flusher \in Savers /\ saver[Flusher] \in Saver
  BY DEF Savers, IInv, TypeOK
<1>b. saver[Flusher].job \in Named \cup {None}
  BY <1>a DEF IInv, SaverRefs
<1>1. CASE FlushSnapshot
  <2>1. Turned(Flusher, "scan", saver[Flusher].job, saver[Flusher].seen)
    BY <1>1, <1>a DEF FlushSnapshot, IInv, TypeOK, Saver, Steps, Turned
  <2>2. Named' = Named /\ SaverRefs' /\ RequestRefs' /\ CleanMeansWritten'
    BY <1>1, <1>b, <2>1, FlusherTurn DEF FlushSnapshot
  <2>3. todo' \subseteq Named /\ todo' \subseteq Objs
    BY <1>1 DEF FlushSnapshot, IInv, TableRefs, Named
  <2>4. TableRefs'
    BY <1>1, <2>2, <2>3 DEF FlushSnapshot, IInv, TableRefs
  <2>5. TypeOK'
    BY <1>1, <2>1, <2>3 DEF FlushSnapshot, IInv, TypeOK, Turned
  <2> QED BY <2>2, <2>4, <2>5 DEF IInv
<1>2. CASE FlushUnregister
  <2> DEFINE t == [NoSaver EXCEPT !.step = "scan"]
             o == saver[Flusher].job
  <2>1. t \in Saver /\ t.step = "scan" /\ t.job = None
    BY DEF NoSaver, Saver, Steps, Contents
  <2>2. saver' = [saver EXCEPT ![Flusher] = t]
    BY <1>2 DEF FlushUnregister, SaveDone
  <2> HIDE DEF t
  <2>3. Turned(Flusher, "scan", None, t.seen)
    BY <1>a, <2>1, <2>2, TurnWhole DEF IInv
  <2>4. Named' = Named /\ SaverRefs' /\ RequestRefs' /\ CleanMeansWritten'
    BY <1>2, <2>3, FlusherTurn DEF FlushUnregister
  <2>5. /\ TableRefs'
        /\ registry' \in [Ids -> Objs \cup {None}]
        /\ gone' \subseteq Ids
    BY <1>2, <2>4, UnregisterRefs DEF FlushUnregister
  <2>6. TypeOK'
    BY <1>2, <2>3, <2>5 DEF FlushUnregister, IInv, TypeOK, Turned
  <2> QED BY <2>4, <2>5, <2>6 DEF IInv
<1>3. ASSUME NEW o \in Objs, FlushDecide(o)
      PROVE  IInv'
  <2>1. o \in Named /\ o # None /\ todo' \subseteq todo
    BY <1>3, SessionAssumption DEF FlushDecide, IInv, TableRefs
  <2>2. Turned(Flusher, "delete", o, saver[Flusher].seen)
    BY <1>3, <1>a DEF FlushDecide, IInv, TypeOK, Saver, Steps, Turned
  <2>3. Named' = Named /\ SaverRefs' /\ RequestRefs' /\ CleanMeansWritten'
    BY <1>3, <2>1, <2>2, FlusherTurn DEF FlushDecide
  <2>4. TableRefs'
    BY <1>3, <2>1, <2>3 DEF FlushDecide, IInv, TableRefs
  <2>5. TypeOK'
    BY <1>3, <2>1, <2>2 DEF FlushDecide, IInv, TypeOK, Turned
  <2> QED BY <2>3, <2>4, <2>5 DEF IInv
<1>4. ASSUME NEW o \in Objs, FlushSave(o)
      PROVE  IInv'
  <2>1. o \in Named /\ o # None /\ todo' \subseteq todo
    BY <1>4, SessionAssumption DEF FlushSave, IInv, TableRefs
  <2>2. Begun(o) \in Saver /\ Begun(o).step = "pack" /\ Begun(o).job = o
    BY BegunType DEF IInv
  <2>3. saver' = saver \/ saver' = [saver EXCEPT ![Flusher] = Begun(o)]
    BY <1>4 DEF FlushSave
  <2>4. /\ saver' \in [Savers -> Saver]
        /\ Named' = Named /\ SaverRefs' /\ RequestRefs' /\ CleanMeansWritten'
    <3>1. CASE saver' = saver
      BY <1>4, <3>1, KeptRefs DEF FlushSave, Named, CleanMeansWritten, IInv, TypeOK
    <3>2. CASE saver' = [saver EXCEPT ![Flusher] = Begun(o)]
      <4>1. Turned(Flusher, "pack", o, Begun(o).seen)
        BY <1>a, <2>2, <3>2, TurnWhole DEF IInv
      <4> QED BY <1>4, <2>1, <4>1, FlusherTurn DEF FlushSave, Turned
    <3> QED BY <2>3, <3>1, <3>2
  <2>5. TableRefs'
    BY <1>4, <2>1, <2>4 DEF FlushSave, IInv, TableRefs
  <2>6. TypeOK'
    BY <1>4, <2>1, <2>4 DEF FlushSave, IInv, TypeOK
  <2> QED BY <2>4, <2>5, <2>6 DEF IInv
<1> QED BY <1>1, <1>2, <1>3, <1>4

(***************************************************************************)
(* The flusher removes files while other savers have them open.            *)
(***************************************************************************)
LEMMA RemoveStep ==
    ASSUME IInv, FlushDelete \/ Sweep \/ SweepFails
    PROVE  IInv'
<1> USE DEF flushVars
<1>a. Flusher \in Savers /\ saver[Flusher] \in Saver
  BY DEF Savers, IInv, TypeOK
<1>b. Named' = Named /\ RequestRefs' /\ CleanMeansWritten'
  BY KeptRefs DEF FlushDelete, Sweep, SweepFails, Swept, Named, CleanMeansWritten, IInv
<1>1. CASE FlushDelete
  <2> DEFINE ids == {obj[saver[Flusher].job].id}
             t == [saver[Flusher] EXCEPT !.step = "unregister"]
  <2>1. t \in Saver /\ t.step = "unregister" /\ t.job = saver[Flusher].job
    BY <1>a DEF Saver, Steps
  <2>2. \A w \in Savers : saver'[w] = IF w = Flusher THEN t ELSE Unlinked(w, ids)
    BY <1>1 DEF FlushDelete
  <2> HIDE DEF t, ids
  <2>3. saver' \in [Savers -> Saver]
    BY <1>1, <2>1, <2>2, UnlinkedSaver DEF FlushDelete, IInv, t, ids
  <2>4. SaverRefs'
    <3> SUFFICES ASSUME NEW w \in Savers
                 PROVE  /\ saver'[w].job \in Named \cup {None}
                        /\ saver'[w].step \notin {"idle", "scan"} => saver'[w].job # None
                        /\ saver'[w].step = "mark" => saver'[w].seen <= written[saver'[w].job]
      BY <1>1, <1>b DEF SaverRefs, FlushDelete
    <3>1. CASE w = Flusher
      BY <1>1, <2>1, <2>2, <3>1 DEF FlushDelete, IInv, SaverRefs
    <3>2. CASE w # Flusher
      BY <2>2, <3>2, UnlinkedSaver DEF IInv, SaverRefs
    <3> QED BY <3>1, <3>2
  <2>5. TableRefs'
    BY <1>1, <1>b, KeptRefs DEF FlushDelete, IInv
  <2>6. file' \in [Names -> Record \cup {NoFile, Torn}]
    BY <1>1, RemoveFilesType DEF FlushDelete, IInv
  <2>7. TypeOK'
    BY <1>1, <2>3, <2>6 DEF FlushDelete, IInv, TypeOK
  <2> QED BY <1>b, <2>4, <2>5, <2>7 DEF IInv
<1>2. CASE Sweep \/ SweepFails
  <2>1. PICK old : Swept(old) /\ (UNCHANGED left \/ Fail)
    BY <1>2, Zenon DEF Sweep, SweepFails
  <2>a. /\ RemoveFiles(old)
        /\ saver' = [w \in Savers |-> IF w = Flusher THEN NoSaver ELSE Unlinked(w, old)]
        /\ UNCHANGED <<registry, todo, queue, written>>
    BY <2>1 DEF Swept
  <2>b. left' \in [arrivals : Nat, exits : Nat, failures : Nat]
    BY <2>1, FailType DEF IInv, TypeOK
  <2>2. NoSaver \in Saver /\ NoSaver.step = "idle" /\ NoSaver.job = None
    BY DEF NoSaver, Saver, Steps, Contents
  <2>3. saver' \in [Savers -> Saver]
    BY <2>a, <2>2, UnlinkedSaver DEF IInv
  <2>4. SaverRefs'
    <3> SUFFICES ASSUME NEW w \in Savers
                 PROVE  /\ saver'[w].job \in Named \cup {None}
                        /\ saver'[w].step \notin {"idle", "scan"} => saver'[w].job # None
                        /\ saver'[w].step = "mark" => saver'[w].seen <= written[saver'[w].job]
      BY <2>a, <1>b DEF SaverRefs
    <3>1. CASE w = Flusher
      BY <2>a, <2>2, <3>1
    <3>2. CASE w # Flusher
      BY <2>a, <3>2, UnlinkedSaver DEF IInv, SaverRefs
    <3> QED BY <3>1, <3>2
  <2>5. TableRefs'
    BY <2>a, <1>b, KeptRefs DEF IInv
  <2>6. file' \in [Names -> Record \cup {NoFile, Torn}]
    BY <2>a, RemoveFilesType DEF IInv
  <2>7. TypeOK'
    BY <2>1, <2>b, <2>3, <2>6 DEF Swept, IInv, TypeOK
  <2> QED BY <1>b, <2>4, <2>5, <2>7 DEF IInv
<1> QED BY <1>1, <1>2

------------------------------------------------------------------------------
(***************************************************************************)
(* Time passes, the process stops, and starts again.                       *)
(***************************************************************************)
LEMMA ExitsType ==
    ASSUME NEW l \in [arrivals : Nat, exits : Nat, failures : Nat], l.exits > 0
    PROVE  [l EXCEPT !.exits = l.exits - 1] \in [arrivals : Nat, exits : Nat, failures : Nat]
OBVIOUS

(***************************************************************************)
(* The clock, the stop and the restart keep the invariant.                 *)
(***************************************************************************)
LEMMA ProcessStep ==
    ASSUME IInv, Tick \/ Stop \/ Restart
    PROVE  IInv'
<1> USE DEF flushVars
<1>1. CASE Tick \/ Stop
  <2>1. TypeOK'
    BY <1>1 DEF Tick, Stop, IInv, TypeOK
  <2>2. Named' = Named /\ CleanMeansWritten'
    BY <1>1 DEF Tick, Stop, IInv, Named, CleanMeansWritten
  <2>3. TableRefs' /\ RequestRefs' /\ SaverRefs'
    BY <1>1, <2>2, KeptRefs DEF Tick, Stop, IInv
  <2> QED BY <2>1, <2>2, <2>3 DEF IInv
<1>2. CASE Restart
  <2> USE <1>2 DEF Restart
  <2>1. NoSession \in Session /\ NoRequest \in Request /\ NoSaver \in Saver
    BY DEF NoSession, Session, Contents, NoRequest, Request, Places, NoSaver, Saver, Steps
  <2>2. left' \in [arrivals : Nat, exits : Nat, failures : Nat]
    BY ExitsType DEF IInv, TypeOK
  <2>3. TypeOK'
    BY SMTT(30), <2>1, <2>2, SessionAssumption DEF IInv, TypeOK
  <2>4. TableRefs' /\ RequestRefs' /\ SaverRefs'
    <3>1. TableRefs'
      BY DEF TableRefs
    <3>2. RequestRefs'
      BY DEF RequestRefs, NoRequest, WithSession, WithCookie
    <3>3. SaverRefs'
      BY DEF SaverRefs, NoSaver
    <3> QED BY <3>1, <3>2, <3>3
  <2>5. CleanMeansWritten'
    BY DEF CleanMeansWritten, NoSession
  <2> QED BY <2>3, <2>4, <2>5 DEF IInv
<1> QED BY <1>1, <1>2

(***************************************************************************)
(* Every step of Session.Save keeps the invariant.                         *)
(***************************************************************************)
LEMMA SaveStep ==
    ASSUME IInv, NEW w \in Savers, Save(w)
    PROVE  IInv'
BY SerialiseInv, OpenFileInv, WriteFileInv, MarkCleanInv, SaverFailsInv DEF Save

(***************************************************************************)
(* Every step of the system keeps the invariant.                           *)
(***************************************************************************)
LEMMA IInvStep ==
    ASSUME IInv, [Next]_vars
    PROVE  IInv'
<1>1. ASSUME NEW r \in Requests, Serve(r)
      PROVE  IInv'
  BY <1>1, ArriveInv, LoadStep, LoadHitInv, LoadFailsInv, CreateStep, ScriptStep, EndStep
     DEF Serve
<1>2. ASSUME NEW w \in Workers, TakeJob(w) \/ Save(w)
      PROVE  IInv'
  BY <1>2, TakeJobInv, SaveStep DEF Savers
<1>3. CASE Flush
  BY <1>3, FlushStep, RemoveStep, SaveStep, SaverFailsInv DEF Flush, Savers
<1>4. CASE Tick \/ Stop \/ Restart
  BY <1>4, ProcessStep
<1>5. CASE UNCHANGED vars
  BY <1>5 DEF vars, IInv, TypeOK, TableRefs, RequestRefs, SaverRefs, CleanMeansWritten, Named
<1> QED BY <1>1, <1>2, <1>3, <1>4, <1>5 DEF Next

------------------------------------------------------------------------------
(***************************************************************************)
(* The state is well typed; in particular the write queue never holds more *)
(* than its capacity and whatever a request, a saver, the queue or the     *)
(* flusher holds is a Session object.                                      *)
(***************************************************************************)
THEOREM SessionTypes == Spec => []TypeOK
<1>1. IInv => TypeOK
  BY DEF IInv
<1> QED BY <1>1, InitInv, IInvStep, PTL DEF Spec

(***************************************************************************)
(* A session that is not dirty has no change that never left memory,       *)
(* however many requests change it and however many workers and flushes    *)
(* save it at the same time.                                               *)
(***************************************************************************)
THEOREM NoChangeForgotten == Spec => []CleanMeansWritten
<1>1. IInv => CleanMeansWritten
  BY DEF IInv
<1> QED BY <1>1, InitInv, IInvStep, PTL DEF Spec

------------------------------------------------------------------------------
(***************************************************************************)
(* One record per cookie.  The registry files an object under its own      *)
(* identifier, a loaded object carries the identifier of the cookie, and a *)
(* running script works on the registered object unless the record was     *)
(* discarded.                                                              *)
(***************************************************************************)
RegistryNames == \A i \in Ids : registry[i] # None => obj[registry[i]].id = i

LoadedNames ==
    \A r \in Requests : req[r].pc = "register" => obj[req[r].cur].id = req[r].cookie

ServedFromRegistry ==
    \A r \in Requests :
        req[r].pc = "script" /\ obj[req[r].cur].id \in Ids \ gone
          => registry[obj[req[r].cur].id] = req[r].cur

NameInv == RegistryNames /\ LoadedNames /\ ServedFromRegistry

SameIds == \A o \in Objs : obj'[o].id = obj[o].id

(***************************************************************************)
(* The objects of the registry and of the requests are Session objects.    *)
(***************************************************************************)
LEMMA HeldObjects ==
    ASSUME IInv
    PROVE  /\ \A i \in Ids : registry[i] # None => registry[i] \in Objs
           /\ \A r \in Requests :
                 req[r].pc \in WithSession =>
                    req[r].cur \in Objs /\ req[r].cur # None /\ obj[req[r].cur].id \in Names
BY DEF IInv, TableRefs, RequestRefs, Named

(***************************************************************************)
(* A step that leaves registry and requests alone and renames nothing.     *)
(***************************************************************************)
LEMMA NamesKept ==
    ASSUME IInv, NameInv, SameIds, UNCHANGED <<registry, req, gone>>
    PROVE  NameInv'
<1>1. RegistryNames'
  BY HeldObjects DEF NameInv, RegistryNames, SameIds
<1>2. LoadedNames'
  BY HeldObjects DEF NameInv, LoadedNames, SameIds, WithSession
<1>3. ServedFromRegistry'
  BY HeldObjects DEF NameInv, ServedFromRegistry, SameIds, WithSession
<1> QED BY <1>1, <1>2, <1>3 DEF NameInv

(***************************************************************************)
(* A request that goes anywhere but to its script or to the registry.      *)
(***************************************************************************)
LEMMA NamesMoved ==
    ASSUME IInv, NameInv, NEW r \in Requests, NEW p, NEW c, NEW k, Moved(r, p, c, k),
           p \notin {"script", "register"}, UNCHANGED <<obj, registry, gone>>
    PROVE  NameInv'
<1>1. RegistryNames'
  BY DEF NameInv, RegistryNames
<1>2. LoadedNames'
  BY DEF NameInv, LoadedNames, Moved
<1>3. ServedFromRegistry'
  BY DEF NameInv, ServedFromRegistry, Moved
<1> QED BY <1>1, <1>2, <1>3 DEF NameInv

(***************************************************************************)
(* Delete takes the registration of an identifier away and marks it gone.  *)
(***************************************************************************)
LEMMA NamesDropped ==
    ASSUME IInv, NameInv, NEW i \in Names, Unregister(i), UNCHANGED obj,
           \A r \in Requests : \/ req'[r] = req[r]
                               \/ req'[r].pc \notin {"script", "register"}
    PROVE  NameInv'
<1>1. RegistryNames'
  BY DEF NameInv, RegistryNames, Unregister, IInv, TypeOK
<1>2. LoadedNames'
  BY DEF NameInv, LoadedNames
<1>3. ServedFromRegistry'
  <2> SUFFICES ASSUME NEW r \in Requests, req'[r].pc = "script",
                      obj[req'[r].cur].id \in Ids \ gone'
               PROVE  registry'[obj[req'[r].cur].id] = req'[r].cur
    BY DEF ServedFromRegistry
  <2>1. req'[r] = req[r]
    OBVIOUS
  <2>2. obj[req[r].cur].id \in Ids \ gone /\ obj[req[r].cur].id # i
    BY <2>1 DEF Unregister
  <2>3. registry[obj[req[r].cur].id] = req[r].cur
    BY <2>1, <2>2 DEF NameInv, ServedFromRegistry
  <2> QED BY <2>1, <2>2, <2>3 DEF Unregister, IInv, TypeOK
<1> QED BY <1>1, <1>2, <1>3 DEF NameInv

(***************************************************************************)
(* A session just created carries an identifier nobody else uses.          *)
(***************************************************************************)
LEMMA NamesCreated ==
    ASSUME IInv, NameInv, NEW o \in Objs, NEW i \in Ids, CreateSession(o, i),
           UNCHANGED gone,
           \A r \in Requests : \/ req'[r] = req[r]
                               \/ req'[r].pc = "script" /\ req'[r].cur = o
                               \/ req'[r].pc = "idle"
    PROVE  NameInv'
<1>1. o \notin Reachable
  BY Zenon DEF CreateSession, Fresh
<1>2. /\ \A j \in Ids : registry[j] # o
      /\ \A r \in Requests : req[r].cur # o
  <2>1. o # None
    BY SessionAssumption
  <2> QED BY <1>1, <2>1, Zenon DEF Reachable
<1>3. \A r \in Requests : req[r].cur # None => obj[req[r].cur].id # i
  <2>1. \A x \in Reachable : obj[x].id # i
    BY Zenon DEF CreateSession, FreshIds
  <2>2. \A r \in Requests : req[r].cur # None => req[r].cur \in Reachable
    BY Zenon DEF Reachable
  <2> QED BY <2>1, <2>2
<1>4. \A x \in Objs : x # o => obj'[x] = obj[x]
  BY DEF CreateSession, Allocate, IInv, TypeOK
<1>5. obj'[o].id = i
  <2> DEFINE new == [NoSession EXCEPT !.id = i, !.data = Empty, !.version = 2,
                                      !.dirty = 2 > 0, !.accessed = now]
  <2>1. new.id = i
    BY Zenon DEF NoSession
  <2>2. obj' = [obj EXCEPT ![o] = new]
    BY Zenon DEF CreateSession, Allocate
  <2> HIDE DEF new
  <2> QED BY <2>1, <2>2 DEF IInv, TypeOK
<1>6. registry' = [registry EXCEPT ![i] = o] /\ registry \in [Ids -> Objs \cup {None}]
  BY DEF CreateSession, IInv, TypeOK
<1>7. RegistryNames'
  BY <1>2, <1>4, <1>5, <1>6 DEF NameInv, RegistryNames
<1>8. LoadedNames'
  BY <1>2, <1>4, HeldObjects DEF NameInv, LoadedNames, WithSession
<1>9. ServedFromRegistry'
  <2> SUFFICES ASSUME NEW r \in Requests, req'[r].pc = "script",
                      obj'[req'[r].cur].id \in Ids \ gone
               PROVE  registry'[obj'[req'[r].cur].id] = req'[r].cur
    BY DEF ServedFromRegistry
  <2>1. CASE req'[r] = req[r]
    <3>1. /\ req[r].cur \in Objs /\ req[r].cur # o
          /\ obj[req[r].cur].id \in Ids \ gone /\ obj[req[r].cur].id # i
      BY <1>2, <1>3, <1>4, <2>1, HeldObjects DEF WithSession
    <3>2. registry[obj[req[r].cur].id] = req[r].cur
      BY <1>4, <2>1, <3>1 DEF NameInv, ServedFromRegistry
    <3> QED BY <1>4, <1>6, <2>1, <3>1, <3>2
  <2>2. CASE req'[r].cur = o
    BY <1>5, <1>6, <2>2
  <2> QED BY <2>1, <2>2
<1> QED BY <1>7, <1>8, <1>9 DEF NameInv

(***************************************************************************)
(* GetOrCreateSession, LoadSession and registerSession.                    *)
(***************************************************************************)
LEMMA NamesLoaded ==
    ASSUME IInv, NameInv, NEW r \in Requests, NEW o \in Objs, LoadHit(r, o)
    PROVE  NameInv'
<1> DEFINE k == req[r].cookie
<1>1. o \notin Reachable
  BY Zenon DEF LoadHit, Fresh
<1>2. /\ \A j \in Ids : registry[j] # o
      /\ \A q \in Requests : req[q].cur # o
  <2>1. o # None
    BY SessionAssumption
  <2> QED BY <1>1, <2>1, Zenon DEF Reachable
<1>3. Moved(r, "register", o, k) /\ UNCHANGED <<registry, gone>>
  <2>1. "register" \in Places /\ o \in Objs \cup {None} /\ TypeOK
    BY DEF Places, IInv
  <2> QED BY <2>1, MoveSession DEF LoadHit
<1>4. \A x \in Objs : x # o => obj'[x] = obj[x]
  BY DEF LoadHit, Allocate, IInv, TypeOK
<1>5. obj'[o].id = k
  <2> DEFINE d == IF file[k] = Torn THEN Empty ELSE file[k].data
             new == [NoSession EXCEPT !.id = k, !.data = d, !.version = 0,
                                      !.dirty = 0 > 0, !.accessed = now]
  <2>1. new.id = k
    BY Zenon DEF NoSession
  <2>2. obj' = [obj EXCEPT ![o] = new]
    BY Zenon DEF LoadHit, Allocate
  <2> HIDE DEF new
  <2> QED BY <2>1, <2>2 DEF IInv, TypeOK
<1>6. RegistryNames'
  BY <1>2, <1>3, <1>4, HeldObjects DEF NameInv, RegistryNames
<1>7. LoadedNames'
  BY <1>2, <1>3, <1>4, <1>5, HeldObjects DEF NameInv, LoadedNames, Moved, WithSession
<1>8. ServedFromRegistry'
  BY <1>2, <1>3, <1>4, HeldObjects DEF NameInv, ServedFromRegistry, Moved, WithSession
<1> QED BY <1>6, <1>7, <1>8 DEF NameInv

(***************************************************************************)
(* The fallback has no identifier: no cookie can name it.                  *)
(***************************************************************************)
LEMMA NamesFallback ==
    ASSUME IInv, NameInv, NEW r \in Requests, NEW o \in Objs, LoadFails(r, o)
    PROVE  NameInv'
<1>1. /\ \A j \in Ids : registry[j] # o
      /\ \A q \in Requests : req[q].cur # o
  <2>1. o # None /\ o \notin Reachable
    BY SessionAssumption, Zenon DEF LoadFails, Fresh
  <2> QED BY <2>1, Zenon DEF Reachable
<1>2. Moved(r, "script", o, req[r].cookie) /\ UNCHANGED <<registry, gone>>
  <2>1. "script" \in Places /\ o \in Objs \cup {None} /\ TypeOK
    BY DEF Places, IInv
  <2> QED BY <2>1, MoveSession DEF LoadFails
<1>3. \A x \in Objs : x # o => obj'[x] = obj[x]
  BY DEF LoadFails, Allocate, IInv, TypeOK
<1>4. obj'[o].id = NoId
  <2> DEFINE new == [NoSession EXCEPT !.id = NoId, !.data = Empty, !.version = 1,
                                      !.dirty = 1 > 0, !.accessed = now]
  <2>1. new.id = NoId
    BY Zenon DEF NoSession
  <2>2. obj' = [obj EXCEPT ![o] = new]
    BY Zenon DEF LoadFails, Allocate
  <2> HIDE DEF new
  <2> QED BY <2>1, <2>2 DEF IInv, TypeOK
<1>5. RegistryNames'
  BY <1>1, <1>2, <1>3, HeldObjects DEF NameInv, RegistryNames
<1>6. LoadedNames'
  BY <1>1, <1>2, <1>3, HeldObjects DEF NameInv, LoadedNames, Moved, WithSession
<1>7. ServedFromRegistry'
  BY <1>1, <1>2, <1>3, <1>4, HeldObjects, SessionAssumption
     DEF NameInv, ServedFromRegistry, Moved, WithSession
<1> QED BY <1>5, <1>6, <1>7 DEF NameInv

(***************************************************************************)
(* A request that starts its script on the registered object.              *)
(***************************************************************************)
LEMMA NamesServed ==
    ASSUME IInv, NameInv, SameIds, NEW r \in Requests, NEW c \in Objs, NEW i \in Ids,
           Moved(r, "script", c, i), obj[c].id = i,
           registry' = [registry EXCEPT ![i] = c], registry[i] \in {None, c},
           UNCHANGED gone
    PROVE  NameInv'
<1>1. RegistryNames'
  BY HeldObjects DEF NameInv, RegistryNames, SameIds, IInv, TypeOK
<1>2. LoadedNames'
  BY HeldObjects DEF NameInv, LoadedNames, SameIds, Moved, WithSession
<1>3. ServedFromRegistry'
  <2> SUFFICES ASSUME NEW q \in Requests, req'[q].pc = "script",
                      obj'[req'[q].cur].id \in Ids \ gone
               PROVE  registry'[obj'[req'[q].cur].id] = req'[q].cur
    BY DEF ServedFromRegistry
  <2>1. CASE q = r
    BY <2>1 DEF Moved, SameIds, IInv, TypeOK
  <2>2. CASE q # r
    <3>1. req'[q] = req[q]
      BY <2>2 DEF Moved
    <3>2. req[q].cur \in Objs /\ obj[req[q].cur].id \in Ids \ gone /\ req[q].cur # None
      BY <3>1, HeldObjects DEF WithSession, SameIds
    <3>3. registry[obj[req[q].cur].id] = req[q].cur
      BY <3>1, <3>2 DEF NameInv, ServedFromRegistry, SameIds
    <3> QED BY <3>1, <3>2, <3>3 DEF SameIds, IInv, TypeOK
  <2> QED BY <2>1, <2>2
<1> QED BY <1>1, <1>2, <1>3 DEF NameInv

(***************************************************************************)
(* Changes by a script and saves rename nothing.                           *)
(***************************************************************************)
LEMMA ScriptIds ==
    ASSUME IInv, NEW r \in Requests,
           \/ \E v \in Vals : Set(r, v)
           \/ Remove(r) \/ RemoveAll(r) \/ Abandon(r)
    PROVE  SameIds /\ UNCHANGED <<registry, req, gone>>
<1> DEFINE c == req[r].cur
<1>1. req[r].pc = "script" /\ UNCHANGED <<registry, req, gone>>
  BY DEF Set, Remove, RemoveAll, Abandon, Change
<1>2. c \in Objs /\ obj[c] \in Session
  BY <1>1, HeldObjects DEF WithSession, IInv, TypeOK
<1>3. PICK s : s \in Session /\ s.id = obj[c].id /\ obj' = [obj EXCEPT ![c] = MarkDirty(s)]
  <2>1. \A d \in Contents : LET t == [obj[c] EXCEPT !.data = d]
                            IN  t \in Session /\ t.id = obj[c].id
    BY <1>2 DEF Session
  <2>2. CASE \E v \in Vals : Set(r, v)
    BY <2>1, <2>2 DEF Set, Change, Contents
  <2>3. CASE Remove(r) \/ RemoveAll(r)
    BY <2>1, <2>3 DEF Remove, RemoveAll, Change, Contents
  <2>4. CASE Abandon(r)
    <3> DEFINE t == [obj[c] EXCEPT !.data = Empty]
               u == [t EXCEPT !.abandoned = TRUE]
    <3>1. t \in Session
      BY <2>1 DEF Contents
    <3>2. u \in Session
      <4> HIDE DEF t
      <4> QED BY <3>1, Zenon DEF Session
    <3>3. u.id = obj[c].id
      BY <1>2 DEF Session
    <3>4. obj' = [obj EXCEPT ![c] = MarkDirty(u)]
      BY <2>4, Zenon DEF Abandon, Change
    <3> HIDE DEF u
    <3> QED BY <3>2, <3>3, <3>4
  <2> QED BY <2>2, <2>3, <2>4
<1>4. MarkDirty(s).id = obj[c].id
  BY <1>3, MarkDirtyType DEF IInv
<1>5. SameIds
  BY <1>2, <1>3, <1>4 DEF SameIds, IInv, TypeOK
<1> QED BY <1>1, <1>5

(***************************************************************************)
(* Saving a session renames nothing.                                       *)
(***************************************************************************)
LEMMA SaveIds ==
    ASSUME IInv, NEW w \in Savers, Save(w)
    PROVE  SameIds /\ UNCHANGED <<registry, req, gone>>
<1>1. CASE MarkClean(w)
  <2> DEFINE o == saver[w].job
             c == [obj[o] EXCEPT !.dirty = FALSE]
             s == [c EXCEPT !.saved = saver[w].seen]
  <2>1. o \in Objs /\ obj[o] \in Session
    BY <1>1 DEF MarkClean, IInv, TypeOK, SaverRefs, Named
  <2>2. s.id = obj[o].id
    BY <2>1 DEF Session
  <2>3. obj' = obj \/ obj' = [obj EXCEPT ![o] = s]
    BY <1>1, <2>1 DEF MarkClean, IInv, TypeOK
  <2> HIDE DEF s
  <2>4. SameIds
    BY <2>1, <2>2, <2>3 DEF SameIds, IInv, TypeOK
  <2> QED BY <1>1, <2>4 DEF MarkClean
<1>2. CASE Serialise(w) \/ OpenFile(w) \/ WriteFile(w) \/ SaveFails(w)
  BY <1>2 DEF Serialise, OpenFile, WriteFile, SaveFails, SameIds
<1> QED BY <1>1, <1>2 DEF Save

(***************************************************************************)
(* A request looks its cookie up in the registry.                          *)
(***************************************************************************)
LEMMA NamesArrive ==
    ASSUME IInv, NameInv, NEW r \in Requests, NEW i \in Ids \cup {None}, Arrive(r, i)
    PROVE  NameInv'
<1>1. CASE i # None /\ registry[i] # None
  <2> DEFINE o == registry[i]
             q == [pc |-> "script", cur |-> o, cookie |-> i]
  <2>1. i \in Ids /\ o \in Objs /\ obj[o].id = i
    BY <1>1, HeldObjects DEF NameInv, RegistryNames
  <2>2. /\ obj' = [obj EXCEPT ![o].accessed = now]
        /\ req' = [req EXCEPT ![r] = q]
        /\ UNCHANGED <<registry, gone>>
    BY <1>1 DEF Arrive
  <2>3. q \in Request /\ q.pc = "script" /\ q.cur = o /\ q.cookie = i
    BY <2>1 DEF Request, Places
  <2>4. SameIds
    BY <2>1, <2>2, TouchType DEF SameIds, IInv
  <2>5. Moved(r, "script", o, i)
    <3> HIDE DEF q
    <3> QED BY <2>2, <2>3, MoveWhole DEF IInv
  <2>6. registry' = [registry EXCEPT ![i] = o]
    BY <2>1, <2>2 DEF IInv, TypeOK
  <2> QED BY <2>1, <2>2, <2>4, <2>5, <2>6, NamesServed
<1>2. CASE ~ (i # None /\ registry[i] # None)
  <2> DEFINE p == IF i = None THEN "create" ELSE "load"
             q == [pc |-> p, cur |-> None, cookie |-> i]
  <2>1. req' = [req EXCEPT ![r] = q] /\ UNCHANGED <<obj, registry, gone>>
    BY <1>2 DEF Arrive
  <2>2. q \in Request /\ q.pc = p /\ p \notin {"script", "register"}
    BY DEF Request, Places
  <2> HIDE DEF p, q
  <2> QED BY <2>1, <2>2, MoveWhole, NamesMoved DEF IInv
<1> QED BY <1>1, <1>2

(***************************************************************************)
(* registerSession: the object that was first wins.                        *)
(***************************************************************************)
LEMMA NamesRegister ==
    ASSUME IInv, NameInv, NEW r \in Requests, Register(r)
    PROVE  NameInv'
<1> DEFINE k == req[r].cookie
           first == registry[k]
           c == IF first = None THEN req[r].cur ELSE first
<1>1. k \in Ids /\ req[r].cur \in Objs /\ obj[req[r].cur].id = k
  BY HeldObjects DEF Register, IInv, RequestRefs, WithSession, WithCookie, NameInv, LoadedNames
<1>2. c \in Objs /\ obj[c].id = k /\ first \in {None, c}
  BY <1>1, HeldObjects DEF NameInv, RegistryNames
<1>3. /\ req' = [req EXCEPT ![r].pc = "script", ![r].cur = c]
      /\ registry' = [registry EXCEPT ![k] = c]
      /\ UNCHANGED <<obj, gone>>
  BY <1>1 DEF Register, IInv, TypeOK
<1> HIDE DEF c
<1>4. Moved(r, "script", c, k)
  <2>1. "script" \in Places /\ c \in Objs \cup {None} /\ TypeOK
    BY <1>2 DEF Places, IInv
  <2> QED BY <1>3, <2>1, MoveSession
<1>5. SameIds
  BY <1>3 DEF SameIds
<1> QED BY <1>1, <1>2, <1>3, <1>4, <1>5, NamesServed

(***************************************************************************)
(* Every step of a request keeps registry and scripts in agreement.        *)
(***************************************************************************)
LEMMA NamesServe ==
    ASSUME IInv, NameInv, NEW r \in Requests, Serve(r)
    PROVE  NameInv'
<1>1. CASE \E i \in Ids \cup {None} : Arrive(r, i)
  BY <1>1, NamesArrive
<1>2. CASE \/ LoadMiss(r) \/ LoadExpired(r) \/ LoadExpiredKept(r)
           \/ PersistRemove(r) \/ PersistRemoveFails(r)
  <2>1. PICK p \in {"create", "loadUnregister", "unregister", "renew"} :
           req' = [req EXCEPT ![r].pc = p]
    BY <1>2 DEF LoadMiss, LoadExpired, LoadExpiredKept, PersistRemove, PersistRemoveFails
  <2>2. p \in Places /\ p \notin {"script", "register"} /\ UNCHANGED <<obj, registry, gone>>
    BY <1>2 DEF Places, LoadMiss, LoadExpired, LoadExpiredKept, PersistRemove,
                PersistRemoveFails
  <2> QED BY <2>1, <2>2, MovePlace, NamesMoved DEF IInv
<1>3. CASE LoadUnregister(r)
  <2>1. Moved(r, "create", req[r].cur, req[r].cookie)
    BY <1>3, MovePlace DEF IInv, LoadUnregister, Places
  <2>2. req[r].cookie \in Names
    BY <1>3 DEF LoadUnregister, IInv, RequestRefs, WithCookie, Names
  <2> QED BY <1>3, <2>1, <2>2, NamesDropped DEF LoadUnregister, Moved
<1>4. CASE Register(r)
  BY <1>4, NamesRegister
<1>5. CASE \E o \in Objs : LoadHit(r, o) \/ LoadFails(r, o)
  BY <1>5, NamesLoaded, NamesFallback
<1>6. ASSUME NEW o \in Objs, NEW i \in Ids, Create(r, o, i) \/ PersistRenew(r, o, i)
      PROVE  NameInv'
  <2>1. CASE Create(r, o, i)
    <3>1. "script" \in Places /\ o \in Objs \cup {None} /\ TypeOK
      BY DEF Places, IInv
    <3>2. Moved(r, "script", o, req[r].cookie)
      BY <2>1, <3>1, MoveSession DEF Create
    <3> QED BY <2>1, <3>2, NamesCreated DEF Create, Moved
  <2>2. CASE PersistRenew(r, o, i)
    <3>1. NoRequest \in Request /\ NoRequest.pc = "idle"
      BY DEF NoRequest, Request, Places
    <3>2. Moved(r, "idle", NoRequest.cur, NoRequest.cookie)
      BY <2>2, <3>1, MoveWhole DEF PersistRenew, IInv
    <3> QED BY <2>2, <3>2, NamesCreated DEF PersistRenew, Moved
  <2> QED BY <1>6, <2>1, <2>2
<1>7. CASE (\E v \in Vals : Set(r, v)) \/ Remove(r) \/ RemoveAll(r) \/ Abandon(r)
  BY <1>7, ScriptIds, NamesKept
<1>8. CASE EndUnsaved(r) \/ Persist(r)
  <2>1. NoRequest \in Request /\ NoRequest.pc = "idle"
    BY DEF NoRequest, Request, Places
  <2>2. Moved(r, "idle", NoRequest.cur, NoRequest.cookie)
    BY <1>8, <2>1, MoveWhole DEF EndUnsaved, Persist, IInv
  <2> QED BY <1>8, <2>2, NamesMoved DEF EndUnsaved, Persist
<1>9. CASE PersistUnregister(r)
  <2>1. Moved(r, "renew", req[r].cur, req[r].cookie)
    BY <1>9, MovePlace DEF IInv, PersistUnregister, Places
  <2>2. obj[req[r].cur].id \in Names
    BY <1>9, HeldObjects DEF PersistUnregister, WithSession
  <2> QED BY <1>9, <2>1, <2>2, NamesDropped DEF PersistUnregister, Moved
<1> QED BY <1>1, <1>2, <1>3, <1>4, <1>5, <1>6, <1>7, <1>8, <1>9 DEF Serve

(***************************************************************************)
(* Every step of the system does.                                          *)
(***************************************************************************)
LEMMA NameInvStep ==
    ASSUME IInv, NameInv, [Next]_vars
    PROVE  NameInv'
<1> USE DEF flushVars
<1>1. ASSUME NEW r \in Requests, Serve(r)
      PROVE  NameInv'
  BY <1>1, NamesServe
<1>2. ASSUME NEW w \in Savers, TakeJob(w) \/ Save(w)
      PROVE  NameInv'
  <2>1. CASE TakeJob(w)
    BY <2>1, NamesKept DEF TakeJob, SameIds
  <2>2. CASE Save(w)
    BY <2>2, SaveIds, NamesKept
  <2> QED BY <1>2, <2>1, <2>2
<1>3. CASE FlushUnregister
  <2>1. obj[saver[Flusher].job].id \in Names
    BY <1>3 DEF FlushUnregister, IInv, SaverRefs, Named, Savers
  <2> QED BY <1>3, <2>1, NamesDropped DEF FlushUnregister
<1>4. CASE \/ FlushSnapshot \/ FlushDelete \/ FlushDeleteFails \/ Sweep \/ SweepFails
           \/ \E o \in Objs : FlushDecide(o) \/ FlushSave(o)
           \/ Tick \/ Stop
  <2>1. UNCHANGED <<obj, registry, req, gone>>
    BY <1>4 DEF FlushSnapshot, FlushDelete, FlushDeleteFails, Sweep, SweepFails, Swept,
                FlushDecide, FlushSave, Tick, Stop
  <2> QED BY <2>1, NamesKept DEF SameIds
<1>5. CASE Restart
  <2>1. RegistryNames'
    BY <1>5 DEF Restart, RegistryNames
  <2>2. LoadedNames' /\ ServedFromRegistry'
    BY <1>5 DEF Restart, NoRequest, LoadedNames, ServedFromRegistry
  <2> QED BY <2>1, <2>2 DEF NameInv
<1>6. CASE UNCHANGED vars
  BY <1>6, NamesKept DEF vars, SameIds
<1> QED BY <1>1, <1>2, <1>3, <1>4, <1>5, <1>6 DEF Next, Flush, Savers

(***************************************************************************)
(* Two requests whose scripts run on one identifier share one Session      *)
(* object, although both may have loaded its file at the same time, unless *)
(* the record was discarded under one of them.                             *)
(***************************************************************************)
THEOREM OneObjectPerCookie == Spec => []OneRecordPerCookie
<1>1. Init => NameInv
  BY DEF Init, NameInv, RegistryNames, LoadedNames, ServedFromRegistry, NoRequest
<1>2. IInv /\ NameInv /\ [Next]_vars => (IInv /\ NameInv)'
  BY IInvStep, NameInvStep
<1>3. NameInv => OneRecordPerCookie
  BY DEF NameInv, ServedFromRegistry, OneRecordPerCookie
<1> QED BY <1>1, <1>2, <1>3, InitInv, PTL DEF Spec

==============================================================================
