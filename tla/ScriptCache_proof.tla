--------------------------- MODULE ScriptCache_proof ---------------------------
(***************************************************************************)
(* Proofs about ScriptCache for any pages, includes, limits and clocks: a  *)
(* disk hit is never older than the files, the bytes of the memory tier    *)
(* are those of the programs in it, and, where no two files differ in case *)
(* only, the tier keeps its limit, the dependency maps stay in step and a  *)
(* cached page stays registered under its include files.                   *)
(*                                                                         *)
(* The first follows from DInv, what flights and disk entries know of the  *)
(* files; the others from Books, which takes the type of a flight's        *)
(* program from DInv.                                                      *)
(***************************************************************************)
EXTENDS ScriptCache, FiniteSets, FiniteSetTheorems, WellFoundedInduction, SequenceTheorems, TLAPS

(***************************************************************************)
(* Induction over the natural numbers in a form the provers can use: over  *)
(* a set instead of a formula. It follows from the library's theorems that *)
(* proper inclusion of finite sets is well founded and that every nonempty *)
(* set has a minimal element for such an order.                            *)
(***************************************************************************)
\* Every nonempty set of natural numbers has a least element.
LEMMA LeastElement ==
    ASSUME NEW T \in SUBSET Nat, T # {}
    PROVE  \E n \in T : \A m \in T : n <= m
<1> DEFINE C == {1 .. n : n \in T}
           R == StrictSubsetOrdering(Nat)
<1>1. C \subseteq FiniteSubsetsOf(Nat)
  <2> SUFFICES ASSUME NEW n \in T PROVE (1 .. n) \in FiniteSubsetsOf(Nat) OBVIOUS
  <2>1. IsFiniteSet(1 .. n) BY FS_Interval
  <2> QED BY <2>1 DEF FiniteSubsetsOf
<1>2. C # {} OBVIOUS
<1>3. IsWellFoundedOn(R, FiniteSubsetsOf(Nat)) BY FS_StrictSubsetOrderingWellFounded
<1> HIDE DEF R
<1>4. PICK x \in C : \A y \in C : ~(<<y, x>> \in R)
  <2> HIDE DEF C
  <2> QED BY <1>1, <1>2, <1>3, WFMin
<1>5. PICK n \in T : x = 1 .. n OBVIOUS
<1>6. ASSUME NEW m \in T, ~(n <= m) PROVE FALSE
  <2>1. (1 .. m) \in C OBVIOUS
  <2>2. (1 .. m) \subseteq (1 .. n) /\ (1 .. m) # (1 .. n)
    <3>1. n \in 1 .. n /\ n \notin 1 .. m BY <1>6
    <3>2. (1 .. m) \subseteq (1 .. n) BY <1>6
    <3> QED BY <3>1, <3>2
  <2>3. <<1 .. m, 1 .. n>> \in R
    <3>1. (1 .. m) \in SUBSET Nat /\ (1 .. n) \in SUBSET Nat OBVIOUS
    <3> QED BY <2>2, <3>1 DEF R, StrictSubsetOrdering
  <2> QED BY <1>4, <1>5, <2>1, <2>3
<1> QED BY <1>6

\* Induction over a set: what contains 0 and each successor is Nat.
LEMMA SetInduction ==
    ASSUME NEW T \in SUBSET Nat, 0 \in T, \A n \in T : n + 1 \in T
    PROVE  T = Nat
<1> SUFFICES ASSUME Nat \ T # {} PROVE FALSE OBVIOUS
<1>1. PICK n \in Nat \ T : \A m \in Nat \ T : n <= m BY LeastElement
<1>2. n # 0 OBVIOUS
<1>3. n - 1 \in Nat /\ ~(n <= n - 1) BY <1>2
<1>4. n - 1 \in T BY <1>1, <1>3
<1>5. (n - 1) + 1 = n OBVIOUS
<1> QED BY <1>4, <1>5

\* g is the table of the loop that starts with a and makes step i by G.
LoopTable(g, n, S, a, G) ==
    /\ g \in [0 .. n -> S] /\ g[0] = a
    /\ \A i \in 1 .. n : g[i] = G[<<i, g[i - 1]>>]

\* Every such loop has its table, whatever its length.
LEMMA LoopsRun ==
    ASSUME NEW S, NEW a \in S, NEW G \in [Nat \X S -> S], NEW N \in Nat
    PROVE  \E g : LoopTable(g, N, S, a, G)
<1> DEFINE T == {n \in Nat : \E g : LoopTable(g, n, S, a, G)}
<1>1. 0 \in T
  <2> DEFINE g == [i \in 0 .. 0 |-> a]
  <2>1. LoopTable(g, 0, S, a, G) BY DEF LoopTable
  <2> QED BY <2>1
<1>2. ASSUME NEW n \in T PROVE n + 1 \in T
  <2>1. PICK g : LoopTable(g, n, S, a, G) OBVIOUS
  <2> DEFINE h == [i \in 0 .. n + 1 |-> IF i = n + 1 THEN G[<<n + 1, g[n]>>] ELSE g[i]]
  <2>2. g \in [0 .. n -> S] /\ g[n] \in S BY <2>1 DEF LoopTable
  <2>3. G[<<n + 1, g[n]>>] \in S BY <2>2
  <2>4. h \in [0 .. n + 1 -> S] BY <2>2, <2>3
  <2>5. h[0] = a BY <2>1 DEF LoopTable
  <2>6. h[n + 1] = G[<<n + 1, g[n]>>] /\ \A i \in 0 .. n : h[i] = g[i] OBVIOUS
  <2> HIDE DEF h
  <2>7. ASSUME NEW i \in 1 .. n + 1 PROVE h[i] = G[<<i, h[i - 1]>>]
    <3>1. i - 1 \in 0 .. n OBVIOUS
    <3>2. h[i - 1] = g[i - 1] BY <2>6, <3>1
    <3>3. CASE i = n + 1
      <4>1. i - 1 = n BY <3>3
      <4> QED BY <2>6, <3>2, <3>3, <4>1
    <3>4. CASE i # n + 1
      <4>1. i \in 1 .. n /\ i \in 0 .. n BY <3>4
      <4>2. g[i] = G[<<i, g[i - 1]>>] BY <2>1, <4>1 DEF LoopTable
      <4>3. h[i] = g[i] BY <2>6, <4>1
      <4> QED BY <3>2, <4>2, <4>3
    <3> QED BY <3>3, <3>4
  <2>8. LoopTable(h, n + 1, S, a, G) BY <2>4, <2>5, <2>7 DEF LoopTable
  <2> QED BY <2>8
<1>3. T = Nat
  <2> HIDE DEF T
  <2>1. T \in SUBSET Nat BY DEF T
  <2> QED BY <1>1, <1>2, <2>1, SetInduction
<1> QED BY <1>3


Progs(k) == [Sources(k) -> Nat]

Stats == [ver : Nat, mtime : Nat, at : Nat]

\* A flight has read the page.
PagesCompiled == {"compile", "store", "put"}

FlightType(k) ==
    [pc : {"none", "check", "stat", "disk", "read", "compile", "store", "put"},
     stat : Stats \cup {None}, prog : Progs(k) \cup {None}]

\* A flight of k at time t knows what its step needs, and no stat is from the
\* future.
FlightOK(k, f, t) ==
    /\ f \in FlightType(k)
    /\ f.pc \in {"disk", "read"} \cup PagesCompiled => f.stat \in Stats /\ f.stat.at <= t
    /\ f.pc \in PagesCompiled => f.prog \in Progs(k)

Entries(k) == [modTime : Nat, written : Nat, prog : Progs(k), settled : BOOLEAN]

\* The web root, the entries on disk and the flights have their types.
FileTypes ==
    /\ now \in Nat
    /\ src \in [Files -> [ver : Nat, mtime : Nat]]
    /\ \A f \in Files : src[f].mtime <= now
    /\ disk = [k \in Pages |-> disk[k]]
    /\ \A k \in Pages : disk[k] # None => disk[k] \in Entries(k)
    /\ flight = [k \in Pages |-> flight[k]]
    /\ \A k \in Pages : FlightOK(k, flight[k], now)

\* A settled entry is from an earlier second, and has the present version of
\* every file that does not look newer.
EntryInv(k) ==
    disk[k] # None /\ disk[k].settled =>
      /\ disk[k].modTime < Unix(now)
      /\ \A f \in Sources(k) :
           Unix(src[f].mtime) <= disk[k].modTime => disk[k].prog[f] = src[f].ver

\* What was read of a file that has not changed since the second of the stat
\* is its present version.
ReadInv(k) ==
    flight[k].pc \in PagesCompiled =>
      \A f \in IF flight[k].pc = "compile" THEN {k} ELSE Sources(k) :
        Unix(src[f].mtime) < Unix(flight[k].stat.at)
          => flight[k].prog[f] = src[f].ver

\* The page as stat saw it is the one of the entry, unless it looks newer.
StatInv(k) ==
    flight[k].pc = "disk" /\ disk[k] # None /\ disk[k].settled
      /\ Unix(flight[k].stat.mtime) <= disk[k].modTime
        => disk[k].prog[k] = flight[k].stat.ver

DInv ==
    /\ FileTypes
    /\ \A k \in Pages : EntryInv(k) /\ ReadInv(k) /\ StatInv(k)


-----------------------------------------------------------------------------
\* Division by a positive number.
LEMMA DivNat ==
    ASSUME NEW d \in Nat \ {0}, NEW a \in Nat
    PROVE  a \div d \in Nat
OBVIOUS

\* A later time lies in the same or in a later second.
LEMMA DivGrows ==
    ASSUME NEW d \in Nat \ {0}, NEW a \in Nat, NEW b \in Nat, a <= b
    PROVE  a \div d <= b \div d
OBVIOUS

USE CacheAssumption

\* Whole seconds grow with time.
LEMMA UnixGrows ==
    ASSUME NEW a \in Nat, NEW b \in Nat
    PROVE  /\ Unix(a) \in Nat
           /\ a <= b => Unix(a) <= Unix(b)
<1>1. PICK d \in Nat \ {0} : d = Second OBVIOUS
<1>2. a \div d \in Nat BY ONLY <1>1, a \in Nat, DivNat
<1>3. a <= b => a \div d <= b \div d BY ONLY <1>1, a \in Nat, b \in Nat, DivGrows
<1> QED BY <1>1, <1>2, <1>3 DEF Unix

\* The files of a page are files.
LEMMA SourcesAreFiles ==
    ASSUME NEW k \in Pages
    PROVE  /\ Sources(k) \subseteq Files /\ k \in Sources(k)
           /\ ToSet(Uses[k]) \subseteq Sources(k)
<1>1. Uses[k] \in Seq(Files) OBVIOUS
<1>2. \A i \in DOMAIN Uses[k] : Uses[k][i] \in Files BY <1>1
<1>3. ToSet(Uses[k]) \subseteq Files BY <1>2 DEF ToSet
<1> QED BY <1>3 DEF Sources, Files

\* What the compiler reads now.
LEMMA CurrentType ==
    ASSUME FileTypes, NEW k \in Pages
    PROVE  /\ Current(k) \in Progs(k)
           /\ \A f \in Sources(k) : Current(k)[f] = src[f].ver
<1>1. \A f \in Sources(k) : src[f].ver \in Nat BY SourcesAreFiles DEF FileTypes
<1> QED BY <1>1 DEF Current, Progs

\* NewScriptCache over an empty cache directory.
LEMMA InitDInv == Init => DInv
<1> SUFFICES ASSUME Init PROVE DInv OBVIOUS
<1>1. ASSUME NEW k \in Pages
      PROVE  disk[k] = None /\ flight[k] = NoFlight
  BY DEF Init
<1>2. FileTypes
  <2>1. disk = [k \in Pages |-> disk[k]] /\ flight = [k \in Pages |-> flight[k]]
    BY DEF Init
  <2>2. NoFlight.pc = "none" /\ \A k \in Pages : NoFlight \in FlightType(k)
    BY DEF NoFlight, FlightType
  <2>3. src \in [Files -> [ver : Nat, mtime : Nat]] /\ \A f \in Files : src[f].mtime <= now
    BY DEF Init
  <2> QED BY <1>1, <2>1, <2>2, <2>3 DEF Init, FileTypes, FlightType, PagesCompiled, FlightOK
<1>3. ASSUME NEW k \in Pages PROVE EntryInv(k) /\ ReadInv(k) /\ StatInv(k)
  BY <1>1 DEF EntryInv, ReadInv, StatInv, NoFlight, PagesCompiled
<1> QED BY <1>2, <1>3 DEF DInv

\* A step of the flight of k that changes neither the files nor the disk.
LEMMA FlightStep ==
    ASSUME DInv, UNCHANGED <<now, src, disk>>, NEW k \in Pages, NEW g,
           flight' = [flight EXCEPT ![k] = g],
           FlightOK(k, g, now),
           g.pc \in PagesCompiled =>
             \A f \in IF g.pc = "compile" THEN {k} ELSE Sources(k) :
               Unix(src[f].mtime) < Unix(g.stat.at) => g.prog[f] = src[f].ver,
           g.pc = "disk" /\ disk[k] # None /\ disk[k].settled
             /\ Unix(g.stat.mtime) <= disk[k].modTime => disk[k].prog[k] = g.stat.ver
    PROVE  DInv'
<1>1. flight'[k] = g /\ \A j \in Pages \ {k} : flight'[j] = flight[j]
  BY DEF DInv, FileTypes
<1>2. flight' = [j \in Pages |-> flight'[j]] BY DEF DInv, FileTypes
<1>3. FileTypes'
  BY <1>1, <1>2 DEF DInv, FileTypes
<1>4. ASSUME NEW j \in Pages PROVE EntryInv(j)' /\ ReadInv(j)' /\ StatInv(j)'
  <2>1. EntryInv(j)' BY DEF DInv, EntryInv
  <2>2. CASE j = k BY ZenonT(60), <1>1, <2>1, <2>2 DEF ReadInv, StatInv
  <2>3. CASE j # k
    <3>1. flight'[j] = flight[j] /\ ReadInv(j) /\ StatInv(j) BY <1>1, <2>3 DEF DInv
    <3>2. ReadInv(j)' BY <3>1 DEF ReadInv
    <3>3. StatInv(j)' BY <3>1 DEF StatInv
    <3> QED BY <2>1, <3>2, <3>3
  <2> QED BY <2>2, <2>3
<1> QED BY <1>3, <1>4 DEF DInv

\* A flight that ends leaves the cache files as they are.
LEMMA LandedStep ==
    ASSUME DInv, UNCHANGED <<now, src, disk>>, NEW k \in Pages, Landed(k)
    PROVE  DInv'
<1>1. FlightOK(k, NoFlight, now) BY DEF FlightOK, FlightType, NoFlight, PagesCompiled
<1>2. NoFlight.pc = "none" BY DEF NoFlight
<1> QED BY <1>1, <1>2, FlightStep DEF Landed, PagesCompiled

\* A step that changes neither the files, nor the disk, nor a flight.
LEMMA Elsewhere ==
    ASSUME DInv, UNCHANGED <<now, src, disk, flight>>
    PROVE  DInv'
BY DEF DInv, FileTypes, EntryInv, ReadInv, StatInv

\* The flight of k goes on to pc, with the rest of its record as it is.
LEMMA MoveOn ==
    ASSUME DInv, NEW k \in Pages, NEW pc \in {"check", "stat", "read", "put"},
           pc = "read" => flight[k].pc = "disk",
           pc = "put" => flight[k].pc = "store",
           UNCHANGED <<now, src, disk>>,
           flight' = [flight EXCEPT ![k].pc = pc]
    PROVE  DInv'
<1>1. PICK f : f = flight[k] OBVIOUS
<1>2. PICK g : g = [f EXCEPT !.pc = pc] OBVIOUS
<1>3. flight' = [flight EXCEPT ![k] = g] BY <1>1, <1>2
<1>4. FlightOK(k, f, now) BY <1>1 DEF DInv, FileTypes
<1>5. g.pc = pc /\ g.stat = f.stat /\ g.prog = f.prog
      /\ g = [pc |-> pc, stat |-> f.stat, prog |-> f.prog]
  BY <1>2, <1>4 DEF FlightOK, FlightType
<1>6. FlightOK(k, g, now) BY <1>1, <1>4, <1>5 DEF FlightOK, FlightType, PagesCompiled
<1>7. g.pc \in PagesCompiled =>
        \A x \in IF g.pc = "compile" THEN {k} ELSE Sources(k) :
          Unix(src[x].mtime) < Unix(g.stat.at) => g.prog[x] = src[x].ver
  BY <1>1, <1>5 DEF DInv, ReadInv, PagesCompiled
<1>8. g.pc # "disk" BY <1>5
<1> QED BY <1>3, <1>6, <1>7, <1>8, FlightStep

\* StatSource: what the stat sees is what the entry is compared with.
LEMMA StatSourceInv ==
    ASSUME DInv, NEW k \in Pages, StatSource(k)
    PROVE  DInv'
<1>1. PICK f : f = flight[k] OBVIOUS
<1>2. PICK s : s = [ver |-> src[k].ver, mtime |-> src[k].mtime, at |-> now] OBVIOUS
<1>3. PICK g : g = [pc |-> "disk", stat |-> s, prog |-> f.prog] OBVIOUS
<1>4. f \in FlightType(k) BY <1>1 DEF DInv, FileTypes, FlightOK
<1>5. g = [f EXCEPT !.pc = "disk", !.stat = s]
  <2>1. PICK h : h = [f EXCEPT !.pc = "disk"] OBVIOUS
  <2>2. h = [pc |-> "disk", stat |-> f.stat, prog |-> f.prog] BY <2>1, <1>4 DEF FlightType
  <2>3. g = [h EXCEPT !.stat = s] BY ONLY <2>2, <1>3
  <2> QED BY <2>1, <2>3
<1>6. flight' = [flight EXCEPT ![k] = g] /\ UNCHANGED <<now, src, disk>>
  BY <1>1, <1>2, <1>5 DEF StatSource
<1>7. s \in Stats /\ s.at = now
      /\ s.ver = src[k].ver /\ s.mtime = src[k].mtime /\ now \in Nat
  BY <1>2, SourcesAreFiles DEF DInv, FileTypes, Stats
<1>8. g.pc = "disk" /\ g.stat = s BY <1>3
<1>9. FlightOK(k, g, now) BY <1>3, <1>4, <1>7 DEF FlightOK, FlightType, PagesCompiled, Stats
<1>10. disk[k] # None /\ disk[k].settled /\ Unix(s.mtime) <= disk[k].modTime
         => disk[k].prog[k] = s.ver
  BY <1>7, SourcesAreFiles DEF DInv, EntryInv
<1> QED BY <1>6, <1>8, <1>9, <1>10, FlightStep DEF PagesCompiled

\* ReadPage: what is read now is the present version.
LEMMA ReadPageInv ==
    ASSUME DInv, NEW k \in Pages, ReadPage(k)
    PROVE  DInv'
<1>1. PICK f : f = flight[k] OBVIOUS
<1>2. PICK p : p = Current(k) OBVIOUS
<1>3. PICK g : g = [pc |-> "compile", stat |-> f.stat, prog |-> p] OBVIOUS
<1>4. f \in FlightType(k) /\ f.pc = "read" /\ f.stat \in Stats
      /\ f.stat.at <= now
  BY <1>1 DEF DInv, FileTypes, ReadPage, FlightOK
<1>5. g = [f EXCEPT !.pc = "compile", !.prog = p]
  <2>1. PICK h : h = [f EXCEPT !.pc = "compile"] OBVIOUS
  <2>2. h = [pc |-> "compile", stat |-> f.stat, prog |-> f.prog] BY <2>1, <1>4 DEF FlightType
  <2>3. g = [h EXCEPT !.prog = p] BY ONLY <2>2, <1>3
  <2> QED BY <2>1, <2>3
<1>6. flight' = [flight EXCEPT ![k] = g] /\ UNCHANGED <<now, src, disk>>
  BY <1>1, <1>2, <1>5 DEF ReadPage
<1>7. p \in Progs(k) /\ \A x \in Sources(k) : p[x] = src[x].ver
  BY <1>2, CurrentType DEF DInv
<1>8. g.pc = "compile" /\ g.stat = f.stat /\ g.prog = p BY <1>3
<1>9. FlightOK(k, g, now) BY <1>3, <1>4, <1>7 DEF FlightOK, FlightType, PagesCompiled
<1> QED BY <1>6, <1>7, <1>8, <1>9, SourcesAreFiles, FlightStep

\* Compile: the include files are read now, the page has been read before.
LEMMA CompileInv ==
    ASSUME DInv, NEW k \in Pages, Compile(k)
    PROVE  DInv'
<1>1. PICK f : f = flight[k] OBVIOUS
<1>2. PICK c : c = Current(k) OBVIOUS
<1>3. PICK p : p = [c EXCEPT ![k] = f.prog[k]] OBVIOUS
<1>4. PICK g : g = [pc |-> "store", stat |-> f.stat, prog |-> p] OBVIOUS
<1>5. f \in FlightType(k) /\ f.pc = "compile" /\ f.stat \in Stats
      /\ f.stat.at <= now /\ f.prog \in Progs(k)
  BY <1>1 DEF DInv, FileTypes, Compile, PagesCompiled, FlightOK
<1>6. g = [f EXCEPT !.pc = "store", !.prog = p]
  <2>1. PICK h : h = [f EXCEPT !.pc = "store"] OBVIOUS
  <2>2. h = [pc |-> "store", stat |-> f.stat, prog |-> f.prog] BY <2>1, <1>5 DEF FlightType
  <2>3. g = [h EXCEPT !.prog = p] BY ONLY <2>2, <1>4
  <2> QED BY <2>1, <2>3
<1>7. flight' = [flight EXCEPT ![k] = g] /\ UNCHANGED <<now, src, disk>>
  BY <1>1, <1>2, <1>3, <1>6 DEF Compile
<1>8. c \in Progs(k) /\ \A x \in Sources(k) : c[x] = src[x].ver
  BY <1>2, CurrentType DEF DInv
<1>9. f.prog[k] \in Nat BY <1>5, SourcesAreFiles DEF Progs
<1>10. p \in Progs(k) /\ p[k] = f.prog[k] /\ \A x \in Sources(k) \ {k} : p[x] = src[x].ver
  BY <1>3, <1>8, <1>9, SourcesAreFiles DEF Progs
<1>11. Unix(src[k].mtime) < Unix(f.stat.at) => f.prog[k] = src[k].ver
  BY <1>1, <1>5 DEF DInv, ReadInv, PagesCompiled
<1>12. g.pc = "store" /\ g.stat = f.stat /\ g.prog = p BY <1>4
<1>13. FlightOK(k, g, now) BY <1>4, <1>5, <1>10 DEF FlightOK, FlightType, PagesCompiled
<1>14. \A x \in Sources(k) : Unix(src[x].mtime) < Unix(f.stat.at) => p[x] = src[x].ver
  BY <1>10, <1>11
<1> QED BY <1>7, <1>12, <1>13, <1>14, FlightStep

\* StoreDisk: an entry of a settled page is made of present versions, except
\* of files that look newer than it.
LEMMA StoreDiskInv ==
    ASSUME DInv, NEW k \in Pages, StoreDisk(k)
    PROVE  DInv'
<1>1. CASE UNCHANGED disk BY <1>1, MoveOn DEF StoreDisk
<1>2. CASE disk' = [disk EXCEPT ![k] = Entry(k)]
  <2>1. PICK f : f = flight[k] OBVIOUS
  <2>2. f.pc = "store" /\ f.stat \in Stats
        /\ f.stat.at <= now /\ f.prog \in Progs(k) /\ now \in Nat
    BY <2>1 DEF DInv, FileTypes, StoreDisk, PagesCompiled, FlightOK
  <2>3. PICK e : e = Entry(k) OBVIOUS
  <2>4. e.modTime = Unix(f.stat.mtime) /\ e.prog = f.prog
        /\ (e.settled <=> Unix(f.stat.at) > Unix(f.stat.mtime))
    BY <2>1, <2>3 DEF Entry
  <2>5. /\ Unix(f.stat.mtime) \in Nat /\ Unix(f.stat.at) \in Nat /\ Unix(now) \in Nat
        /\ Unix(f.stat.at) <= Unix(now)
    BY <2>2, UnixGrows DEF Stats
  <2>6. e \in Entries(k)
    BY <2>1, <2>2, <2>3, <2>5 DEF Entry, Entries
  <2>7. disk'[k] = e /\ \A j \in Pages \ {k} : disk'[j] = disk[j]
    BY <1>2, <2>3 DEF DInv, FileTypes, Entries
  <2>8. disk' = [j \in Pages |-> disk'[j]] BY <1>2 DEF DInv, FileTypes, Entries
  <2>9. PICK g : g = [f EXCEPT !.pc = "put"] OBVIOUS
  <2>10. FlightOK(k, f, now) BY <2>1 DEF DInv, FileTypes
  <2>11. g.pc = "put" /\ g.stat = f.stat /\ g.prog = f.prog
         /\ g = [pc |-> "put", stat |-> f.stat, prog |-> f.prog]
    BY <2>9, <2>10 DEF FlightOK, FlightType
  <2>12. FlightOK(k, g, now) BY <2>2, <2>10, <2>11 DEF FlightOK, FlightType, PagesCompiled
  <2>13. flight' = [flight EXCEPT ![k] = g] /\ UNCHANGED <<now, src>>
    BY <2>1, <2>9 DEF StoreDisk
  <2>14. flight'[k] = g /\ \A j \in Pages \ {k} : flight'[j] = flight[j]
    BY <2>13 DEF DInv, FileTypes
  <2>15. flight' = [j \in Pages |-> flight'[j]] BY <2>13 DEF DInv, FileTypes
  <2>16. FileTypes'
    <3>1. \A j \in Pages : FlightOK(j, flight'[j], now)
      BY <2>12, <2>14 DEF DInv, FileTypes, FlightType
    <3>2. \A j \in Pages : disk'[j] # None =>
            disk'[j] \in Entries(j)
      BY <2>6, <2>7 DEF DInv, FileTypes, FlightType
    <3> QED BY <2>8, <2>13, <2>15, <3>1, <3>2 DEF DInv, FileTypes
  <2>17. \A x \in Sources(k) :
           /\ Unix(src[x].mtime) < Unix(f.stat.at) => f.prog[x] = src[x].ver
           /\ Unix(src[x].mtime) \in Nat
    BY <2>1, <2>2, UnixGrows, SourcesAreFiles DEF DInv, FileTypes, ReadInv, PagesCompiled
  <2>18. EntryInv(k)'
    <3> SUFFICES ASSUME e.settled
                 PROVE  /\ e.modTime < Unix(now)
                        /\ \A x \in Sources(k) : Unix(src[x].mtime) <= e.modTime
                             => e.prog[x] = src[x].ver
      BY <2>7, <2>13 DEF EntryInv
    <3>1. e.modTime < Unix(now) BY <2>4, <2>5
    <3>2. ASSUME NEW x \in Sources(k), Unix(src[x].mtime) <= e.modTime
          PROVE  e.prog[x] = src[x].ver
      <4>1. Unix(src[x].mtime) < Unix(f.stat.at) BY <2>4, <2>5, <2>17, <3>2
      <4> QED BY <2>4, <2>17, <4>1
    <3> QED BY <3>1, <3>2
  <2>19. ReadInv(k)' /\ StatInv(k)'
    BY ZenonT(60), <2>11, <2>13, <2>14, <2>17 DEF ReadInv, StatInv
  <2>20. ASSUME NEW j \in Pages \ {k} PROVE EntryInv(j)' /\ ReadInv(j)' /\ StatInv(j)'
    <3>1. disk'[j] = disk[j] /\ flight'[j] = flight[j] /\ now' = now /\ src' = src
      BY <2>7, <2>13, <2>14
    <3>2. EntryInv(j) /\ ReadInv(j) /\ StatInv(j) BY DEF DInv
    <3>3. EntryInv(j)' BY <3>1, <3>2 DEF EntryInv
    <3>4. ReadInv(j)' /\ StatInv(j)' BY <3>1, <3>2 DEF ReadInv, StatInv
    <3> QED BY <3>3, <3>4
  <2> QED BY <2>16, <2>18, <2>19, <2>20 DEF DInv
<1> QED BY <1>1, <1>2 DEF StoreDisk

\* Edit: the file now looks newer than any settled entry and than any stat.
LEMMA EditInv ==
    ASSUME DInv, NEW f \in Files, Edit(f)
    PROVE  DInv'
<1>1. PICK s : s = [ver |-> src[f].ver + 1, mtime |-> now] OBVIOUS
<1>2. src' = [src EXCEPT ![f] = s] /\ UNCHANGED <<now, disk, flight>> BY <1>1 DEF Edit
<1>3. now \in Nat /\ src[f] \in [ver : Nat, mtime : Nat] BY DEF DInv, FileTypes
<1>4. s \in [ver : Nat, mtime : Nat] /\ s.mtime = now BY <1>1, <1>3
<1>5. src'[f] = s /\ \A x \in Files \ {f} : src'[x] = src[x] BY <1>2 DEF DInv, FileTypes
<1>6. FileTypes'
  <2>1. src' \in [Files -> [ver : Nat, mtime : Nat]] BY <1>2, <1>4 DEF DInv, FileTypes
  <2>2. ASSUME NEW x \in Files PROVE src'[x].mtime <= now
    <3>1. CASE x = f BY <1>3, <1>4, <1>5, <3>1
    <3>2. CASE x # f BY <1>5, <3>2 DEF DInv, FileTypes
    <3> QED BY <3>1, <3>2
  <2> QED BY <1>2, <2>1, <2>2 DEF DInv, FileTypes
<1>7. ASSUME NEW k \in Pages PROVE EntryInv(k)' /\ ReadInv(k)' /\ StatInv(k)'
  <2>1. EntryInv(k)'
    <3> SUFFICES ASSUME disk[k] # None, disk[k].settled
                 PROVE  /\ disk[k].modTime < Unix(now)
                        /\ \A x \in Sources(k) : Unix(src'[x].mtime) <= disk[k].modTime
                             => disk[k].prog[x] = src'[x].ver
      BY <1>2 DEF EntryInv
    <3>1. disk[k].modTime < Unix(now) /\ disk[k].modTime \in Nat
      BY DEF DInv, FileTypes, EntryInv, Entries
    <3>2. Unix(now) \in Nat BY <1>3, UnixGrows
    <3>3. ~(Unix(src'[f].mtime) <= disk[k].modTime) BY <1>4, <1>5, <3>1, <3>2
    <3>4. \A x \in Sources(k) \ {f} : Unix(src'[x].mtime) <= disk[k].modTime
            => disk[k].prog[x] = src'[x].ver
      BY <1>5, SourcesAreFiles DEF DInv, EntryInv
    <3> QED BY <3>1, <3>3, <3>4
  <2>2. ReadInv(k)'
    <3> SUFFICES ASSUME flight[k].pc \in PagesCompiled,
                        NEW x \in IF flight[k].pc = "compile" THEN {k} ELSE Sources(k),
                        Unix(src'[x].mtime) < Unix(flight[k].stat.at)
                 PROVE  flight[k].prog[x] = src'[x].ver
      BY <1>2 DEF ReadInv
    <3>1. flight[k].stat.at \in Nat /\ flight[k].stat.at <= now BY DEF DInv, FileTypes, FlightOK, Stats
    <3>2. /\ Unix(flight[k].stat.at) \in Nat /\ Unix(now) \in Nat
          /\ Unix(flight[k].stat.at) <= Unix(now)
      BY <1>3, <3>1, UnixGrows
    <3>3. x # f BY <1>4, <1>5, <3>2
    <3>4. src'[x] = src[x] BY <1>5, <3>3, SourcesAreFiles
    <3> QED BY <3>4 DEF DInv, ReadInv
  <2>3. StatInv(k)' BY <1>2 DEF DInv, StatInv
  <2> QED BY <2>1, <2>2, <2>3
<1> QED BY <1>6, <1>7 DEF DInv

\* Tick: time passes.
LEMMA TickInv == ASSUME DInv, Tick PROVE DInv'
<1>1. now \in Nat /\ now' = now + 1 /\ UNCHANGED <<src, disk, flight>>
  BY DEF DInv, FileTypes, Tick
<1>2. PICK n \in Nat : n = now + 1 BY <1>1
<1>3. now' = n /\ now <= n BY <1>1, <1>2
<1>4. Unix(now) \in Nat /\ Unix(n) \in Nat /\ Unix(now) <= Unix(n) BY <1>1, <1>3, UnixGrows
<1>5. FileTypes'
  <2>1. \A x \in Files : src[x].mtime <= n BY <1>1, <1>3 DEF DInv, FileTypes
  <2>2. ASSUME NEW k \in Pages, flight[k].pc \in {"disk", "read"} \cup PagesCompiled
        PROVE  flight[k].stat.at <= n
    BY SMTT(30), <1>1, <1>3, <2>2 DEF DInv, FileTypes, FlightOK, Stats
  <2> QED BY <1>1, <1>3, <2>1, <2>2 DEF DInv, FileTypes, FlightOK, Stats
<1>6. ASSUME NEW k \in Pages PROVE EntryInv(k)' /\ ReadInv(k)' /\ StatInv(k)'
  <2>1. disk[k] # None => disk[k].modTime \in Nat BY DEF DInv, FileTypes, Entries
  <2>2. EntryInv(k)' BY <1>1, <1>3, <1>4, <2>1 DEF DInv, EntryInv
  <2>3. ReadInv(k)' /\ StatInv(k)' BY <1>1 DEF DInv, ReadInv, StatInv
  <2> QED BY <2>2, <2>3
<1> QED BY <1>5, <1>6 DEF DInv

\* Restart: the entries on disk stay and no flight is left.
LEMMA RestartInv == ASSUME DInv, Restart PROVE DInv'
<1>1. UNCHANGED <<now, src, disk>> /\ flight' = [k \in Pages |-> NoFlight] BY DEF Restart
<1>2. \A k \in Pages : flight'[k] = NoFlight BY <1>1
<1>3. flight' = [k \in Pages |-> flight'[k]] BY <1>1
<1>4. \A k \in Pages : FlightOK(k, NoFlight, now)
  BY DEF FlightOK, FlightType, NoFlight, PagesCompiled
<1>5. FileTypes' BY <1>1, <1>2, <1>3, <1>4 DEF DInv, FileTypes, FlightOK, FlightType
<1>6. ASSUME NEW k \in Pages PROVE EntryInv(k)' /\ ReadInv(k)' /\ StatInv(k)'
  BY <1>1, <1>2 DEF DInv, EntryInv, ReadInv, StatInv, NoFlight, PagesCompiled
<1> QED BY <1>5, <1>6 DEF DInv

\* Every step keeps the invariant.
LEMMA NextDInv == DInv /\ [Next]_vars => DInv'
<1> SUFFICES ASSUME DInv, [Next]_vars PROVE DInv' OBVIOUS
<1>1. ASSUME NEW r \in Requests, NEW k \in Pages, Miss(r, k) PROVE DInv'
  BY <1>1, Elsewhere, MoveOn DEF Miss
<1>2. ASSUME NEW k \in Pages, Flying(k) PROVE DInv'
  <2>1. CASE Recheck(k) BY <2>1, LandedStep, MoveOn DEF Recheck
  <2>2. CASE StatSource(k) BY <2>2, StatSourceInv
  <2>3. CASE LoadDisk(k) BY <2>3, LandedStep, MoveOn DEF LoadDisk
  <2>4. CASE ReadPage(k) BY <2>4, ReadPageInv
  <2>5. CASE Compile(k) BY <2>5, CompileInv
  <2>6. CASE FlightFails(k) BY <2>6, LandedStep DEF FlightFails
  <2>7. CASE StoreDisk(k) BY <2>7, StoreDiskInv
  <2>8. CASE PutCompiled(k) BY <2>8, LandedStep DEF PutCompiled
  <2> QED BY <1>2, <2>1, <2>2, <2>3, <2>4, <2>5, <2>6, <2>7, <2>8 DEF Flying
<1>3. ASSUME NEW f \in Files, Edit(f) PROVE DInv' BY <1>3, EditInv
<1>4. CASE HandleEvent BY <1>4, Elsewhere DEF HandleEvent
<1>5. CASE Tick BY <1>5, TickInv
<1>6. CASE Restart BY <1>6, RestartInv
<1>7. CASE UNCHANGED vars BY <1>7, Elsewhere DEF vars
<1> QED BY <1>1, <1>2, <1>3, <1>4, <1>5, <1>6, <1>7 DEF Next

\* The invariant gives the property.
LEMMA FreshIsCurrent == DInv => DiskHitCurrent
<1> SUFFICES ASSUME DInv, NEW k \in Pages, flight[k].pc = "disk", DiskFresh(k),
                    disk[k].settled
             PROVE  disk[k].prog = [Current(k) EXCEPT ![k] = flight[k].stat.ver]
  BY DEF DiskHitCurrent
<1>1. PICK p : p = disk[k].prog OBVIOUS
<1>2. PICK c : c = Current(k) OBVIOUS
<1>3. disk[k] # None /\ p \in Progs(k) BY <1>1 DEF DInv, FileTypes, DiskFresh, Entries
<1>4. c \in Progs(k) /\ \A x \in Sources(k) : c[x] = src[x].ver
  BY <1>2, CurrentType DEF DInv
<1>5. disk[k].modTime \in Nat /\ flight[k].stat.mtime \in Nat
  BY <1>3 DEF DInv, FileTypes, FlightOK, Stats, Entries
<1>6. Unix(flight[k].stat.mtime) \in Nat BY <1>5, UnixGrows
<1>7. Unix(flight[k].stat.mtime) <= disk[k].modTime BY <1>5, <1>6 DEF DiskFresh
<1>8. p[k] = flight[k].stat.ver BY <1>1, <1>3, <1>7 DEF DInv, StatInv
<1>9. \A x \in Sources(k) \ {k} : p[x] = c[x]
  BY <1>1, <1>3, <1>4 DEF DInv, EntryInv, DiskFresh, Sources
<1>10. PICK v : v = flight[k].stat.ver OBVIOUS
<1>11. p = [c EXCEPT ![k] = v]
  BY <1>3, <1>4, <1>8, <1>9, <1>10, SourcesAreFiles DEF Progs
<1> QED BY <1>1, <1>2, <1>10, <1>11

\* loadDiskProgram serves a page from disk only if compiling it now would
\* make the same program: an edit after the entry was written makes the page
\* or an include file look newer than the entry, provided the entry was made
\* of a page whose last edit was at least a second old.
THEOREM DiskHitsAreCurrent == Spec => []DiskHitCurrent
<1>1. Spec => []DInv BY InitDInv, NextDInv, PTL DEF Spec
<1> QED BY <1>1, FreshIsCurrent, PTL

-----------------------------------------------------------------------------
(***************************************************************************)
(* Sequences without repetitions.                                          *)
(***************************************************************************)

\* Appending to a sequence.
LEMMA AppendedSet ==
    ASSUME NEW T, NEW s \in Seq(T), NEW x \in T
    PROVE  /\ Append(s, x) \in Seq(T) /\ Len(Append(s, x)) = Len(s) + 1
           /\ ToSet(Append(s, x)) = ToSet(s) \cup {x}
           /\ IsInjective(s) /\ x \notin ToSet(s) => IsInjective(Append(s, x))
<1>1. PICK N \in Nat : N = Len(s) OBVIOUS
<1>2. PICK t \in Seq(T) : t = Append(s, x) BY AppendProperties
<1>3. Len(t) = N + 1 /\ t[N + 1] = x /\ \A i \in 1 .. N : t[i] = s[i] BY <1>1, <1>2
<1>4. DOMAIN s = 1 .. N /\ DOMAIN t = 1 .. N + 1 BY <1>1, <1>3
<1>5. ToSet(t) = ToSet(s) \cup {x}
  <2>1. ASSUME NEW i \in 1 .. N + 1 PROVE t[i] \in ToSet(s) \cup {x}
    <3>1. CASE i = N + 1 BY <1>3, <3>1
    <3>2. CASE i # N + 1
      <4>1. i \in 1 .. N BY <3>2
      <4> QED BY <1>3, <1>4, <4>1 DEF ToSet
    <3> QED BY <3>1, <3>2
  <2>2. ASSUME NEW i \in 1 .. N PROVE s[i] \in ToSet(t)
    <3>1. i \in 1 .. N + 1 OBVIOUS
    <3> QED BY <1>3, <1>4, <3>1 DEF ToSet
  <2>3. x \in ToSet(t)
    <3>1. N + 1 \in 1 .. N + 1 OBVIOUS
    <3> QED BY <1>3, <1>4, <3>1 DEF ToSet
  <2> QED BY <1>4, <2>1, <2>2, <2>3 DEF ToSet
<1>6. ASSUME IsInjective(s), x \notin ToSet(s) PROVE IsInjective(t)
  <2> SUFFICES ASSUME NEW i \in 1 .. N + 1, NEW j \in 1 .. N + 1, t[i] = t[j] PROVE i = j
    BY <1>4 DEF IsInjective
  <2>1. \A n \in 1 .. N : t[n] # x BY <1>3, <1>4, <1>6 DEF ToSet
  <2>2. CASE i = N + 1 BY <1>3, <2>1, <2>2
  <2>3. CASE j = N + 1 BY <1>3, <2>1, <2>3
  <2>4. CASE i \in 1 .. N /\ j \in 1 .. N BY <1>3, <1>4, <1>6, <2>4 DEF IsInjective
  <2> QED BY <2>2, <2>3, <2>4
<1> QED BY <1>1, <1>2, <1>3, <1>5, <1>6

\* A sequence has finitely many elements, as many as its length if none is
\* repeated.
LEMMA CountedSet ==
    ASSUME NEW T, NEW s \in Seq(T)
    PROVE  /\ ToSet(s) \subseteq T /\ IsFiniteSet(ToSet(s))
           /\ IsInjective(s) => Cardinality(ToSet(s)) = Len(s)
<1>1. PICK N \in Nat : N = Len(s) OBVIOUS
<1>2. DOMAIN s = 1 .. N /\ \A i \in 1 .. N : s[i] \in T BY <1>1
<1>3. PICK f : f = [i \in 1 .. N |-> s[i]] OBVIOUS
<1>4. f \in Surjection(1 .. N, ToSet(s)) BY <1>2, <1>3 DEF Surjection, ToSet
<1>5. IsFiniteSet(1 .. N) /\ Cardinality(1 .. N) = N BY FS_Interval
<1>6. IsFiniteSet(ToSet(s)) BY <1>4, <1>5, FS_Surjection
<1>7. ASSUME IsInjective(s) PROVE Cardinality(ToSet(s)) = N
  <2>1. f \in Injection(1 .. N, ToSet(s))
    BY <1>2, <1>3, <1>4, <1>7 DEF Injection, Surjection, IsInjective
  <2> QED BY <1>4, <1>5, <2>1, FS_Surjection
<1> QED BY <1>1, <1>2, <1>6, <1>7 DEF ToSet

\* The loop of filterOutFold.
LEMMA WithoutTable ==
    ASSUME NEW T, NEW s \in Seq(T), NEW S
    PROVE  \E h : /\ Without(s, S) = h[Len(s)] /\ h[0] = <<>>
                  /\ \A i \in 1 .. Len(s) :
                       h[i] = IF s[i] \in S THEN h[i - 1] ELSE Append(h[i - 1], s[i])
<1> DEFINE Eq(h) == h = [i \in 0 .. Len(s) |->
                           IF i = 0 THEN <<>>
                           ELSE IF s[i] \in S THEN h[i - 1] ELSE Append(h[i - 1], s[i])]
           h1 == CHOOSE h : Eq(h)
           G == [p \in Nat \X Seq(T) |->
                   IF p[1] \in 1 .. Len(s)
                   THEN IF s[p[1]] \in S THEN p[2] ELSE Append(p[2], s[p[1]])
                   ELSE p[2]]
<1>1. Len(s) \in Nat /\ \A i \in 1 .. Len(s) : s[i] \in T OBVIOUS
<1>2. G \in [Nat \X Seq(T) -> Seq(T)] BY <1>1
<1>3. <<>> \in Seq(T) OBVIOUS
<1>4. PICK g : LoopTable(g, Len(s), Seq(T), <<>>, G)
  <2> HIDE DEF G
  <2> QED BY <1>1, <1>2, <1>3, LoopsRun
<1>5. g \in [0 .. Len(s) -> Seq(T)] /\ g[0] = <<>> BY <1>4 DEF LoopTable
<1>6. ASSUME NEW i \in 1 .. Len(s)
      PROVE  g[i] = IF s[i] \in S THEN g[i - 1] ELSE Append(g[i - 1], s[i])
  <2>1. i \in Nat /\ i - 1 \in 0 .. Len(s) BY <1>1
  <2>2. g[i - 1] \in Seq(T) BY <1>5, <2>1
  <2>3. g[i] = G[<<i, g[i - 1]>>] BY <1>4 DEF LoopTable
  <2> QED BY <2>1, <2>2, <2>3
<1>7. Eq(g)
  <2>1. ASSUME NEW i \in 0 .. Len(s)
        PROVE  g[i] = IF i = 0 THEN <<>>
                      ELSE IF s[i] \in S THEN g[i - 1] ELSE Append(g[i - 1], s[i])
    <3>1. CASE i = 0 BY <1>5, <3>1
    <3>2. CASE i \in 1 .. Len(s) BY SMTT(30), <1>6, <3>2
    <3> QED BY <1>1, <3>1, <3>2
  <2> QED BY <1>5, <2>1
<1>8. Eq(h1) BY <1>7
<1>9. Without(s, S) = h1[Len(s)] BY DEF Without
<1> HIDE DEF h1
<1>10. h1[0] = <<>> BY <1>1, <1>8
<1>11. ASSUME NEW i \in 1 .. Len(s)
       PROVE  h1[i] = IF s[i] \in S THEN h1[i - 1] ELSE Append(h1[i - 1], s[i])
  <2>1. i \in 0 .. Len(s) /\ i # 0 BY <1>1
  <2> QED BY <1>8, <2>1
<1> QED BY <1>9, <1>10, <1>11

\* filterOutFold takes out what it should and nothing else.
LEMMA WithoutIs ==
    ASSUME NEW T, NEW s \in Seq(T), IsInjective(s), NEW S
    PROVE  /\ Without(s, S) \in Seq(T) /\ IsInjective(Without(s, S))
           /\ ToSet(Without(s, S)) = ToSet(s) \ S
<1>1. PICK N \in Nat : N = Len(s) OBVIOUS
<1>2. DOMAIN s = 1 .. N /\ \A i \in 1 .. N : s[i] \in T BY <1>1
<1>3. PICK h : /\ Without(s, S) = h[N] /\ h[0] = <<>>
               /\ \A i \in 1 .. N :
                    h[i] = IF s[i] \in S THEN h[i - 1] ELSE Append(h[i - 1], s[i])
  <2>1. PICK h : /\ Without(s, S) = h[Len(s)] /\ h[0] = <<>>
                 /\ \A i \in 1 .. Len(s) :
                      h[i] = IF s[i] \in S THEN h[i - 1] ELSE Append(h[i - 1], s[i])
    BY WithoutTable
  <2> QED BY <1>1, <2>1
<1> DEFINE Good(i) == /\ h[i] \in Seq(T) /\ IsInjective(h[i])
                      /\ ToSet(h[i]) = {s[j] : j \in 1 .. i} \ S
           A == {i \in Nat : i <= N => Good(i)}
<1>4. 0 \in A
  <2>1. h[0] \in Seq(T) /\ IsInjective(h[0]) /\ ToSet(h[0]) = {}
    BY <1>3 DEF IsInjective, ToSet
  <2>2. {s[j] : j \in 1 .. 0} = {} OBVIOUS
  <2> QED BY <2>1, <2>2
<1>5. ASSUME NEW i \in A PROVE i + 1 \in A
  <2> SUFFICES ASSUME i + 1 <= N PROVE Good(i + 1) OBVIOUS
  <2>1. PICK n \in 1 .. N : n = i + 1 OBVIOUS
  <2>2. i \in 0 .. N /\ n - 1 = i /\ Good(i) BY <2>1
  <2>3. PICK x \in T : x = s[n] BY <1>2
  <2>4. {s[j] : j \in 1 .. n} = {s[j] : j \in 1 .. i} \cup {x} BY <2>1, <2>3
  <2>5. h[n] = IF x \in S THEN h[i] ELSE Append(h[i], x) BY <1>3, <2>2, <2>3
  <2>6. CASE x \in S
    <3>1. h[n] = h[i] BY <2>5, <2>6
    <3>2. {s[j] : j \in 1 .. n} \ S = {s[j] : j \in 1 .. i} \ S BY <2>4, <2>6
    <3> QED BY <2>1, <2>2, <3>1, <3>2
  <2>7. CASE x \notin S
    <3>1. PICK a \in Seq(T) : a = h[i] BY <2>2
    <3>2. h[n] = Append(a, x) BY <2>5, <2>7, <3>1
    <3>3. x \notin ToSet(a)
      <4>1. ASSUME NEW j \in 1 .. i, s[j] = x PROVE FALSE
        <5>1. j \in 1 .. N /\ j # n BY <2>1, <2>2
        <5> QED BY <1>2, <2>3, <4>1, <5>1 DEF IsInjective
      <4> QED BY <2>2, <3>1, <4>1
    <3>4. h[n] \in Seq(T) /\ IsInjective(h[n]) /\ ToSet(h[n]) = ToSet(a) \cup {x}
      BY <2>2, <3>1, <3>2, <3>3, AppendedSet
    <3>5. ToSet(h[n]) = {s[j] : j \in 1 .. n} \ S BY <2>2, <2>4, <2>7, <3>1, <3>4
    <3> QED BY <2>1, <3>4, <3>5
  <2> QED BY <2>6, <2>7
<1>6. A = Nat
  <2>1. A \in SUBSET Nat OBVIOUS
  <2> HIDE DEF A
  <2> QED BY <1>4, <1>5, <2>1, SetInduction
<1>7. Good(N)
  <2>1. N \in A
    <3> HIDE DEF A
    <3> QED BY <1>6
  <2> QED BY <2>1
<1>8. {s[j] : j \in 1 .. N} = ToSet(s) BY <1>2 DEF ToSet
<1> QED BY <1>3, <1>7, <1>8

(***************************************************************************)
(* The memory tier.                                                        *)
(***************************************************************************)

\* Sizes are added: what is taken away and what is left.
LEMMA SizesAdd ==
    ASSUME NEW A, A \subseteq Pages, IsFiniteSet(A), NEW B, B \subseteq A
    PROVE  /\ SizeOf(A) \in Nat /\ SizeOf(B) \in Nat
           /\ SizeOf(A \ B) = SizeOf(A) - SizeOf(B)
           /\ SizeOf(B) <= SizeOf(A)
<1> DEFINE P(S) == UNION {{k} \X (1 .. Size[k]) : k \in S}
<1>1. ASSUME NEW S, S \subseteq A PROVE IsFiniteSet(P(S))
  <2> DEFINE parts == {{k} \X (1 .. Size[k]) : k \in S}
             f == [k \in S |-> {k} \X (1 .. Size[k])]
  <2>1. IsFiniteSet(S) BY <1>1, FS_Subset
  <2>2. f \in Surjection(S, parts) BY DEF Surjection
  <2>3. IsFiniteSet(parts)
    <3> HIDE DEF f, parts
    <3> QED BY <2>1, <2>2, FS_Surjection
  <2>4. ASSUME NEW k \in S PROVE IsFiniteSet({k} \X (1 .. Size[k]))
    <3>1. Size[k] \in Nat BY <1>1
    <3>2. IsFiniteSet(1 .. Size[k]) BY <3>1, FS_Interval
    <3>3. IsFiniteSet({k}) BY FS_Singleton
    <3> QED BY <3>2, <3>3, FS_Product
  <2>5. \A p \in parts : IsFiniteSet(p) BY <2>4
  <2> HIDE DEF parts
  <2>6. IsFiniteSet(UNION parts) BY <2>3, <2>5, FS_UNION
  <2> QED BY <2>6 DEF parts
<1>2. P(A \ B) = P(A) \ P(B)
  <2>1. ASSUME NEW x \in P(A \ B) PROVE x \in P(A) \ P(B)
    <3>1. PICK k \in A \ B : x \in {k} \X (1 .. Size[k]) OBVIOUS
    <3>2. x[1] = k BY <3>1
    <3> QED BY <3>1, <3>2
  <2>2. P(A) \ P(B) \subseteq P(A \ B) OBVIOUS
  <2> QED BY <2>1, <2>2
<1>3. P(A) \cap P(B) = P(B) OBVIOUS
<1>4. SizeOf(A) = Cardinality(P(A)) /\ SizeOf(B) = Cardinality(P(B))
      /\ SizeOf(A \ B) = Cardinality(P(A \ B))
  BY DEF SizeOf
<1>5. IsFiniteSet(P(A)) /\ IsFiniteSet(P(B)) BY <1>1
<1>6. P(B) \subseteq P(A) OBVIOUS
<1> HIDE DEF P
<1>7. Cardinality(P(A)) \in Nat /\ Cardinality(P(B)) \in Nat BY <1>5, FS_CardinalityType
<1>8. Cardinality(P(A) \ P(B)) = Cardinality(P(A)) - Cardinality(P(A) \cap P(B))
  BY <1>5, FS_Difference
<1>9. Cardinality(P(B)) <= Cardinality(P(A)) BY <1>5, <1>6, FS_Subset
<1> QED BY <1>2, <1>3, <1>4, <1>7, <1>8, <1>9

\* The size of one program.
LEMMA SizeOfOne == ASSUME NEW k \in Pages PROVE SizeOf({k}) = Size[k]
<1>1. PICK n \in Nat : n = Size[k] OBVIOUS
<1>2. UNION {{j} \X (1 .. Size[j]) : j \in {k}} = {k} \X (1 .. n) BY <1>1
<1>3. IsFiniteSet(1 .. n) /\ Cardinality(1 .. n) = n BY ONLY n \in Nat, FS_Interval
<1>4. IsFiniteSet({k}) /\ Cardinality({k}) = 1 BY FS_Singleton
<1>5. Cardinality({k} \X (1 .. n)) = 1 * n BY ZenonT(60), <1>3, <1>4, FS_Product
<1>6. 1 * n = n OBVIOUS
<1> QED BY <1>1, <1>2, <1>5, <1>6 DEF SizeOf

AllProgs == UNION {Progs(k) : k \in Pages}
Tiers == [prog : [Pages -> AllProgs \cup {None}], order : Seq(Pages), total : Nat]

\* One spelling of each name.
Spelled(S) == \A f, g \in S : Fold[f] = Fold[g] => f = g

\* The books of the memory tier balance.
Accounted(m) ==
    /\ m \in Tiers /\ IsFiniteSet(Held(m))
    /\ ToSet(m.order) \subseteq Held(m) /\ IsInjective(m.order)
    /\ Spelled(ToSet(m.order))
    /\ m.total = SizeOf(Held(m))
    /\ NamesApart => Held(m) \subseteq ToSet(m.order)

\* A name is alike itself, and nothing else where names are apart.
LEMMA AlikeIs ==
    ASSUME NEW S
    PROVE  /\ S \cap Files \subseteq Alike(S)
           /\ NamesApart /\ S \subseteq Files => Alike(S) = S
BY DEF Alike, NamesApart

\* A program is not None.
LEMMA ProgramsAreSomething == None \notin AllProgs
<1>1. ASSUME NEW k \in Pages PROVE None \notin Progs(k)
  <2>1. Sources(k) \in SUBSET Files BY SourcesAreFiles
  <2> QED BY <2>1 DEF Progs
<1> QED BY <1>1 DEF AllProgs

\* removeProgramNoLock
LEMMA RemoveAccounted ==
    ASSUME NEW m, Accounted(m), NEW S, S \subseteq Pages
    PROVE  /\ Accounted(RemovePrograms(m, S))
           /\ Held(RemovePrograms(m, S)) = Held(m) \ S
           /\ ToSet(RemovePrograms(m, S).order) = ToSet(m.order) \ Alike(S)
           /\ RemovePrograms(m, S).total <= m.total
<1>1. m \in Tiers /\ m.order \in Seq(Pages) /\ m.total \in Nat BY DEF Accounted, Tiers
<1>2. PICK n : n = RemovePrograms(m, S) OBVIOUS
<1>3. PICK o : o = Without(m.order, Alike(S)) OBVIOUS
<1>4. PICK B : B = S \cap Held(m) OBVIOUS
<1>5. PICK p : p = [k \in Pages |-> IF k \in S THEN None ELSE m.prog[k]] OBVIOUS
<1>6. o \in Seq(Pages) /\ IsInjective(o) /\ ToSet(o) = ToSet(m.order) \ Alike(S)
  BY <1>1, <1>3, WithoutIs DEF Accounted
<1>7. Held(m) \subseteq Pages /\ IsFiniteSet(Held(m))
  BY DEF Accounted, Held
<1>8. /\ SizeOf(Held(m)) \in Nat /\ SizeOf(B) \in Nat /\ SizeOf(B) <= SizeOf(Held(m))
      /\ SizeOf(Held(m) \ B) = SizeOf(Held(m)) - SizeOf(B)
  <2>1. PICK A : A = Held(m) OBVIOUS
  <2>2. B \subseteq A BY <1>4, <2>1
  <2> QED BY <1>7, <2>1, <2>2, SizesAdd
<1>9. Held(m) \ B = Held(m) \ S BY <1>4
<1>10. n = [prog |-> p, order |-> o, total |-> m.total - SizeOf(B)]
  BY <1>2, <1>3, <1>4, <1>5, <1>8 DEF RemovePrograms, Accounted
<1>11. n.prog = p /\ n.order = o /\ n.total = m.total - SizeOf(B) BY <1>10
<1>12. Held(n) = Held(m) \ S BY <1>5, <1>11 DEF Held
<1>13. n.total = SizeOf(Held(n)) /\ n.total \in Nat /\ n.total <= m.total
  <2>1. PICK t \in Nat : t = m.total BY <1>1
  <2>2. PICK b \in Nat : b = SizeOf(B) BY <1>8
  <2>3. b <= t /\ SizeOf(Held(m) \ S) = t - b BY <1>8, <1>9, <2>1, <2>2 DEF Accounted
  <2>4. n.total = t - b BY <1>11, <2>1, <2>2
  <2> QED BY <1>12, <2>1, <2>3, <2>4
<1>14. p \in [Pages -> AllProgs \cup {None}] BY <1>1, <1>5 DEF Tiers
<1>15. n \in Tiers BY <1>6, <1>10, <1>11, <1>13, <1>14 DEF Tiers
<1>16. ToSet(o) \subseteq Held(n)
  <2>1. ToSet(m.order) \subseteq Held(m) BY DEF Accounted
  <2>2. S \cap Files \subseteq Alike(S) BY AlikeIs
  <2>3. Held(m) \subseteq Files BY <1>7 DEF Files
  <2> QED BY <1>6, <1>12, <2>1, <2>2, <2>3
<1>17. Spelled(ToSet(o)) BY <1>6 DEF Accounted, Spelled
<1>18. ASSUME NamesApart PROVE Held(n) \subseteq ToSet(o)
  <2>1. Held(m) \subseteq ToSet(m.order) BY <1>18 DEF Accounted
  <2> SUFFICES ASSUME NEW k \in Held(n), k \in Alike(S) PROVE FALSE BY <1>6, <1>12, <2>1
  <2>2. k \notin S BY <1>12
  <2>3. S \subseteq Files BY DEF Files
  <2> QED BY <1>18, <2>2, <2>3, AlikeIs
<1>19. IsFiniteSet(Held(n)) BY <1>7, <1>12, FS_Subset
<1> QED BY <1>2, <1>6, <1>11, <1>12, <1>13, <1>15, <1>16, <1>17, <1>18, <1>19 DEF Accounted

\* putByCacheKey: the eviction ends with room for the new program, where names
\* are apart.
LEMMA RoomIsMade ==
    ASSUME NEW m, Accounted(m), NEW size \in Nat, size <= MaxBytes
    PROVE  /\ Accounted(MakeRoom(m, size))
           /\ Held(MakeRoom(m, size)) \subseteq Held(m)
           /\ ToSet(MakeRoom(m, size).order) \subseteq ToSet(m.order)
           /\ NamesApart => MakeRoom(m, size).total + size <= MaxBytes
<1>1. m.order \in Seq(Pages) BY DEF Accounted, Tiers
<1>2. PICK N \in Nat : N = Len(m.order) BY <1>1
<1> DEFINE C == {n \in 0 .. N : n = N \/ Oldest(m, n).total + size <= MaxBytes}
<1>3. N \in C OBVIOUS
<1>4. C \in SUBSET Nat OBVIOUS
<1>5. PICK n : n = Min(C) OBVIOUS
<1>6. n \in C
  <2> HIDE DEF C
  <2>1. \E i \in C : \A j \in C : i <= j BY <1>3, <1>4, LeastElement
  <2> QED BY <1>5, <2>1 DEF Min
<1>7. MakeRoom(m, size) = Oldest(m, n) BY <1>2, <1>5 DEF MakeRoom
<1>8. PICK V : V = ToSet(SubSeq(m.order, 1, n)) OBVIOUS
<1>9. PICK r : r = RemovePrograms(m, V) OBVIOUS
<1>10. Oldest(m, n) = r BY <1>8, <1>9 DEF Oldest
<1>11. Accounted(r) /\ Held(r) = Held(m) \ V /\ ToSet(r.order) \subseteq ToSet(m.order)
  <2>1. PICK q : q = SubSeq(m.order, 1, n) OBVIOUS
  <2>2. n \in 0 .. N BY <1>6
  <2>3. q \in Seq(Pages) BY <1>1, <1>2, <2>1, <2>2
  <2>4. V \subseteq Pages BY <1>8, <2>1, <2>3, CountedSet
  <2> QED BY ZenonT(60), <1>9, <2>4, RemoveAccounted
<1>12. ASSUME NamesApart PROVE r.total + size <= MaxBytes
  <2>1. CASE n # N BY <1>6, <1>10, <2>1
  <2>2. CASE n = N
    <3>1. SubSeq(m.order, 1, n) = m.order BY <1>1, <1>2, <2>2
    <3>2. V = Held(m) BY <1>8, <1>12, <3>1 DEF Accounted
    <3>3. Held(r) = {} BY <1>11, <3>2
    <3>4. SizeOf({}) = 0
      <4>1. UNION {{k} \X (1 .. Size[k]) : k \in {}} = {} OBVIOUS
      <4> QED BY <4>1, FS_EmptySet DEF SizeOf
    <3>5. r.total = 0 BY <1>11, <3>3, <3>4 DEF Accounted
    <3> QED BY <3>5
  <2> QED BY <2>1, <2>2
<1> QED BY <1>7, <1>10, <1>11, <1>12

\* putByCacheKey: the new program is the newest.
LEMMA InsertAccounted ==
    ASSUME NEW m, Accounted(m), NEW k \in Pages, Size[k] <= MaxBytes, NEW p \in AllProgs
    PROVE  /\ Accounted(Insert(m, k, p))
           /\ NamesApart => Insert(m, k, p).total <= MaxBytes
           /\ Held(Insert(m, k, p)) \subseteq Held(m) \cup {k}
<1>1. PICK u : u = RemovePrograms(m, {k}) OBVIOUS
<1>2. Accounted(u) /\ Held(u) = Held(m) \ {k} /\ ToSet(u.order) = ToSet(m.order) \ Alike({k})
  BY <1>1, RemoveAccounted
<1>3. PICK size \in Nat : size = Size[k] OBVIOUS
<1>4. PICK r : r = MakeRoom(u, size) OBVIOUS
<1>5. /\ Accounted(r) /\ Held(r) \subseteq Held(u)
      /\ ToSet(r.order) \subseteq ToSet(u.order)
      /\ NamesApart => r.total + size <= MaxBytes
  BY <1>2, <1>3, <1>4, RoomIsMade
<1>6. r \in Tiers /\ r.order \in Seq(Pages) /\ r.total \in Nat BY <1>5 DEF Accounted, Tiers
<1>7. PICK n : n = Insert(m, k, p) OBVIOUS
<1>8. PICK o : o = Append(r.order, k) OBVIOUS
<1>9. PICK q : q = [r.prog EXCEPT ![k] = p] OBVIOUS
<1>10. n = [prog |-> q, order |-> o, total |-> r.total + size]
  BY <1>1, <1>3, <1>4, <1>7, <1>8, <1>9 DEF Insert
<1>11. n.prog = q /\ n.order = o /\ n.total = r.total + size BY <1>10
<1>12. /\ q \in [Pages -> AllProgs \cup {None}] /\ q[k] = p
       /\ \A j \in Pages \ {k} : q[j] = r.prog[j]
  BY <1>6, <1>9 DEF Tiers
<1>13. k \notin ToSet(r.order) BY <1>2, <1>5 DEF Accounted
<1>14. o \in Seq(Pages) /\ IsInjective(o) /\ ToSet(o) = ToSet(r.order) \cup {k}
  BY <1>5, <1>6, <1>8, <1>13, AppendedSet DEF Accounted
<1>15. Held(n) = Held(r) \cup {k} BY <1>11, <1>12, ProgramsAreSomething DEF Held
<1>16. SizeOf(Held(n)) = r.total + size
  <2>1. PICK A : A = Held(n) OBVIOUS
  <2>2. A \subseteq Pages /\ IsFiniteSet(A)
    <3>1. IsFiniteSet(Held(r)) /\ Held(r) \subseteq Pages BY <1>5 DEF Accounted, Held
    <3>2. IsFiniteSet(Held(r) \cup {k}) BY <3>1, FS_AddElement
    <3> QED BY <1>15, <2>1, <3>1, <3>2
  <2>3. PICK B : B = {k} OBVIOUS
  <2>4. B \subseteq A /\ A \ B = Held(r) BY <1>2, <1>5, <1>15, <2>1, <2>3
  <2>5. SizeOf(A) \in Nat /\ SizeOf(A \ B) = SizeOf(A) - SizeOf(B)
    BY <2>2, <2>4, SizesAdd
  <2>6. SizeOf(B) = size BY <1>3, <2>3, SizeOfOne
  <2>7. r.total = SizeOf(Held(r)) BY <1>5 DEF Accounted
  <2>8. PICK a \in Nat : a = SizeOf(A) BY <2>5
  <2>9. PICK t \in Nat : t = r.total BY <1>6
  <2>10. t = a - size BY <2>4, <2>5, <2>6, <2>7, <2>8, <2>9
  <2> QED BY <2>1, <2>8, <2>9, <2>10
<1>17. n \in Tiers BY <1>6, <1>10, <1>12, <1>14 DEF Tiers
<1>18. Spelled(ToSet(o))
  <2> SUFFICES ASSUME NEW j \in ToSet(r.order) PROVE Fold[j] # Fold[k]
    BY <1>5, <1>14 DEF Accounted, Spelled
  <2>1. j \notin Alike({k}) BY <1>2, <1>5
  <2>2. j \in Files BY <1>6, CountedSet DEF Files
  <2> QED BY <2>1, <2>2 DEF Alike
<1>19. IsFiniteSet(Held(n))
  <2>1. PICK H : H = Held(r) OBVIOUS
  <2>2. IsFiniteSet(H) BY <1>5, <2>1 DEF Accounted
  <2>3. IsFiniteSet(H \cup {k}) BY <2>2, FS_AddElement
  <2> QED BY <1>15, <2>1, <2>3
<1>20. ToSet(o) \subseteq Held(n) /\ (NamesApart => Held(n) \subseteq ToSet(o))
  BY <1>5, <1>14, <1>15 DEF Accounted
<1>21. Accounted(n) BY <1>11, <1>14, <1>16, <1>17, <1>18, <1>19, <1>20 DEF Accounted
<1> QED BY <1>2, <1>5, <1>7, <1>11, <1>15, <1>21

(***************************************************************************)
(* The dependency maps.                                                    *)
(***************************************************************************)

DepStates == [map : [Files -> SUBSET Pages], of : [Pages -> SUBSET Files],
              order : Seq(Files), out : SUBSET Files]

\* dependencyOrder lists the keys of dependencyMap.
Listed(d) ==
    /\ d \in DepStates
    /\ ToSet(d.order) = Keys(d) /\ IsInjective(d.order)

Ordered(d) == Listed(d) /\ Len(d.order) <= DepLimit

\* What a page is said to use knows the page.
Agree(d) == \A k \in Pages : \A f \in d.of[k] : k \in d.map[f]

\* removeScriptDependenciesNoLock
LEMMA ForgetIs ==
    ASSUME NamesApart, NEW d, Ordered(d), Agree(d), NEW S, S \subseteq Pages,
           NEW n, n = ForgetScripts(d, S)
    PROVE  /\ Ordered(n) /\ Agree(n) /\ n.out = d.out
           /\ \A k \in Pages : n.of[k] = IF k \in S THEN {} ELSE d.of[k]
<1>1. /\ d \in DepStates /\ d.order \in Seq(Files) /\ d.out \in SUBSET Files
      /\ d.map \in [Files -> SUBSET Pages] /\ d.of \in [Pages -> SUBSET Files]
  BY DEF Ordered, Listed, DepStates
<1>2. PICK map : map = [f \in Files |-> d.map[f] \ {k \in S : f \in d.of[k]}] OBVIOUS
<1>2a. map = [f \in Files |-> d.map[f] \ Alike({k \in S : f \in d.of[k]})]
  <2>1. ASSUME NEW f \in Files
        PROVE  Alike({k \in S : f \in d.of[k]}) = {k \in S : f \in d.of[k]}
    <3>1. {k \in S : f \in d.of[k]} \subseteq Files BY DEF Files
    <3> QED BY <3>1, AlikeIs
  <2> QED BY <1>2, <2>1
<1>3. PICK of : of = [k \in Pages |-> IF k \in S THEN {} ELSE d.of[k]] OBVIOUS
<1>4. PICK E : E = {f \in Keys(d) : map[f] = {}} OBVIOUS
<1>4a. Alike(E) = E
  <2>1. E \subseteq Files BY <1>4 DEF Keys
  <2> QED BY <2>1, AlikeIs
<1>5. PICK o : o = Without(d.order, E) OBVIOUS
<1>6. n = [map |-> map, of |-> of, order |-> o, out |-> d.out]
  BY <1>2a, <1>3, <1>4, <1>4a, <1>5 DEF ForgetScripts
<1>7. n.map = map /\ n.of = of /\ n.order = o /\ n.out = d.out BY <1>6
<1>8. o \in Seq(Files) /\ IsInjective(o) /\ ToSet(o) = ToSet(d.order) \ E
  BY <1>1, <1>5, WithoutIs DEF Ordered, Listed
<1>9. map \in [Files -> SUBSET Pages] /\ of \in [Pages -> SUBSET Files]
  BY <1>1, <1>2, <1>3
<1>10. n \in DepStates BY <1>1, <1>6, <1>8, <1>9 DEF DepStates
<1>11. ToSet(o) = Keys(n)
  <2>1. \A f \in Files : map[f] \subseteq d.map[f] BY <1>2
  <2>2. ToSet(d.order) = {f \in Files : d.map[f] # {}} BY DEF Ordered, Listed, Keys
  <2>3. Keys(n) = {f \in Files : map[f] # {}} BY <1>7 DEF Keys
  <2>4. E = {f \in Files : d.map[f] # {} /\ map[f] = {}} BY <1>4 DEF Keys
  <2> QED BY <1>8, <2>1, <2>2, <2>3, <2>4
<1>12. Len(o) <= DepLimit
  <2>1. IsFiniteSet(ToSet(d.order)) /\ Cardinality(ToSet(d.order)) = Len(d.order)
    BY <1>1, CountedSet DEF Ordered, Listed
  <2>2. Cardinality(ToSet(o)) = Len(o) BY <1>8, CountedSet
  <2>3. ToSet(o) \in SUBSET ToSet(d.order) BY <1>8
  <2>4. Cardinality(ToSet(o)) <= Cardinality(ToSet(d.order)) BY <2>1, <2>3, FS_Subset
  <2>5. Len(d.order) <= DepLimit /\ Len(d.order) \in Nat /\ Len(o) \in Nat
    BY <1>1, <1>8 DEF Ordered
  <2> QED BY <2>1, <2>2, <2>4, <2>5
<1>13. Ordered(n) BY <1>7, <1>8, <1>10, <1>11, <1>12 DEF Ordered, Listed
<1>14. Agree(n)
  <2> SUFFICES ASSUME NEW k \in Pages, NEW f \in of[k] PROVE k \in map[f]
    BY <1>7 DEF Agree
  <2>1. k \notin S /\ f \in d.of[k] BY <1>3
  <2>2. f \in Files /\ k \in d.map[f] BY <1>1, <2>1 DEF Agree
  <2> QED BY <1>2, <2>1, <2>2
<1> QED BY <1>3, <1>7, <1>13, <1>14

\* What registerDependenciesNoLock may do to the maps on the way: it only
\* forgets what it counts as pushed out.
Keeps(d, n) ==
    \A j \in Pages : /\ n.of[j] \subseteq d.of[j]
                     /\ d.of[j] \cup d.out \subseteq n.of[j] \cup n.out

\* Line 1264: where names are apart there is an oldest entry, and without it there is room.
LEMMA DropIs ==
    ASSUME NamesApart, NEW d, Ordered(d), NEW f \in Files, d.map[f] = {},
           NEW r, r = DropOldest(d)
    PROVE  /\ Listed(r) /\ Len(r.order) + 1 <= DepLimit /\ r.map[f] = {} /\ Keeps(d, r)
           /\ \A j \in Pages : \A g \in r.of[j] : r.map[g] = d.map[g]
<1>1. /\ d \in DepStates /\ d.order \in Seq(Files) /\ d.out \in SUBSET Files
      /\ d.map \in [Files -> SUBSET Pages] /\ d.of \in [Pages -> SUBSET Files]
  BY DEF Ordered, Listed, DepStates
<1>2. PICK N \in Nat : N = Len(d.order) BY <1>1
<1>3. Cardinality(Keys(d)) = N /\ N <= DepLimit
  BY <1>1, <1>2, CountedSet DEF Ordered, Listed
<1>4. CASE N < DepLimit
  <2>1. r = d BY <1>3, <1>4 DEF DropOldest
  <2>2. N + 1 <= DepLimit BY <1>4
  <2> QED BY <1>2, <2>1, <2>2 DEF Ordered, Keeps
<1>5. CASE ~(N < DepLimit)
  <2>1. N = DepLimit /\ N # 0 BY <1>3, <1>5
  <2>2. d.order # <<>> BY <1>2, <2>1
  <2>3. PICK h : h = Head(d.order) OBVIOUS
  <2>4. PICK o : o = Tail(d.order) OBVIOUS
  <2>5. DOMAIN d.order = 1 .. N /\ h = d.order[1] /\ 1 \in 1 .. N
    <3>1. DOMAIN d.order = 1 .. N BY <1>1, <1>2
    <3>2. h = d.order[1] BY <1>1, <2>2, <2>3
    <3>3. 1 \in 1 .. N BY <2>1
    <3> QED BY <3>1, <3>2, <3>3
  <2>6. o \in Seq(Files) /\ Len(o) = N - 1 /\ \A i \in 1 .. N - 1 : o[i] = d.order[i + 1]
    BY <1>1, <1>2, <2>2, <2>4
  <2>7. h \in Files /\ h \in Keys(d) BY <1>1, <2>5 DEF Ordered, Listed, ToSet, Keys
  <2>8. PICK map : map = [d.map EXCEPT ![h] = {}] OBVIOUS
  <2>9. PICK of : of = [k \in Pages |-> d.of[k] \ {h}] OBVIOUS
  <2>9a. Alike({h}) = {h} BY <2>7, AlikeIs
  <2>10. r = [map |-> map, of |-> of, order |-> o, out |-> d.out \cup {h}]
    BY <1>3, <1>5, <2>3, <2>4, <2>8, <2>9, <2>9a DEF DropOldest
  <2>11. r.map = map /\ r.of = of /\ r.order = o /\ r.out = d.out \cup {h} BY <2>10
  <2>12. /\ map \in [Files -> SUBSET Pages] /\ of \in [Pages -> SUBSET Files]
         /\ map[h] = {} /\ \A g \in Files \ {h} : map[g] = d.map[g]
    BY <1>1, <2>7, <2>8, <2>9
  <2>13. r \in DepStates BY <1>1, <2>6, <2>7, <2>10, <2>12 DEF DepStates
  <2>14. DOMAIN o = 1 .. N - 1 BY <2>1, <2>6
  <2>15. IsInjective(o)
    <3> SUFFICES ASSUME NEW i \in 1 .. N - 1, NEW j \in 1 .. N - 1, o[i] = o[j] PROVE i = j
      BY <2>14 DEF IsInjective
    <3>1. i + 1 \in 1 .. N /\ j + 1 \in 1 .. N OBVIOUS
    <3>2. d.order[i + 1] = d.order[j + 1] BY <2>6
    <3>3. i + 1 = j + 1 BY <2>5, <3>1, <3>2 DEF Ordered, Listed, IsInjective
    <3> QED BY <3>3
  <2>16. ToSet(o) = ToSet(d.order) \ {h}
    <3>1. ASSUME NEW i \in 1 .. N - 1 PROVE o[i] \in ToSet(d.order) \ {h}
      <4>1. i + 1 \in 1 .. N /\ i + 1 # 1 OBVIOUS
      <4>2. d.order[i + 1] # d.order[1]
        BY <2>5, <4>1 DEF Ordered, Listed, IsInjective
      <4> QED BY <2>5, <2>6, <4>1, <4>2 DEF ToSet
    <3>2. ASSUME NEW i \in 1 .. N, d.order[i] # h PROVE d.order[i] \in ToSet(o)
      <4>1. i # 1 BY <2>5, <3>2
      <4>2. i - 1 \in 1 .. N - 1 /\ (i - 1) + 1 = i BY <4>1
      <4>3. o[i - 1] = d.order[i] BY <2>6, <4>2
      <4> QED BY <2>14, <4>2, <4>3 DEF ToSet
    <3>3. ToSet(o) = {o[i] : i \in 1 .. N - 1} BY <2>14 DEF ToSet
    <3>4. ToSet(d.order) = {d.order[i] : i \in 1 .. N} BY <2>5 DEF ToSet
    <3> QED BY ZenonT(60), <3>1, <3>2, <3>3, <3>4
  <2>17. Keys(r) = Keys(d) \ {h} BY <2>11, <2>12 DEF Keys
  <2>18. Listed(r) BY <2>11, <2>13, <2>15, <2>16, <2>17 DEF Ordered, Listed
  <2>19. Len(r.order) + 1 <= DepLimit BY <2>1, <2>6, <2>11
  <2>20. r.map[f] = {} BY <2>11, <2>12
  <2>21. Keeps(d, r) BY <2>9, <2>11 DEF Keeps
  <2>22. ASSUME NEW j \in Pages, NEW g \in r.of[j] PROVE r.map[g] = d.map[g]
    <3>1. g # h /\ g \in Files BY <1>1, <2>9, <2>11
    <3> QED BY <2>11, <2>12, <3>1
  <2> QED BY <2>18, <2>19, <2>20, <2>21, <2>22
<1> QED BY <1>4, <1>5

\* One file of registerDependenciesNoLock.
LEMMA AddIs ==
    ASSUME NamesApart, NEW d, Ordered(d), NEW f \in Files, NEW k \in Pages,
           NEW n, n = AddDependent(d, f, k)
    PROVE  /\ Ordered(n) /\ Keeps(d, n) /\ d.map[f] \cup {k} \subseteq n.map[f]
           /\ \A j \in Pages : \A g \in n.of[j] \ {f} : n.map[g] = d.map[g]
<1>1. /\ d \in DepStates /\ d.order \in Seq(Files) /\ d.out \in SUBSET Files
      /\ d.map \in [Files -> SUBSET Pages] /\ d.of \in [Pages -> SUBSET Files]
  BY DEF Ordered, Listed, DepStates
<1>1a. Alike({k}) = {k}
  <2>1. PICK S : S = {k} OBVIOUS
  <2>2. S \subseteq Files BY <2>1 DEF Files
  <2>3. Alike(S) = S BY ONLY NamesApart, <2>2, AlikeIs
  <2> QED BY <2>1, <2>3
<1>1b. CASE k \in d.map[f]
  <2>1. n = d BY <1>1a, <1>1b DEF AddDependent
  <2> QED BY <1>1b, <2>1 DEF Keeps
<1>1c. ASSUME k \notin d.map[f] PROVE d.map[f] \cap Alike({k}) = {} BY <1>1a, <1>1c
<1>2. CASE k \notin d.map[f] /\ d.map[f] # {}
  <2>1. PICK map : map = [d.map EXCEPT ![f] = @ \cup {k}] OBVIOUS
  <2>2. n = [d EXCEPT !.map = map] BY <1>2, <1>1c, <2>1 DEF AddDependent
  <2>3. n.map = map /\ n.of = d.of /\ n.order = d.order /\ n.out = d.out /\
        n = [map |-> map, of |-> d.of, order |-> d.order, out |-> d.out]
    BY <1>1, <2>2 DEF DepStates
  <2>4. /\ map \in [Files -> SUBSET Pages] /\ map[f] = d.map[f] \cup {k}
        /\ \A g \in Files \ {f} : map[g] = d.map[g]
    BY <1>1, <2>1
  <2>5. n \in DepStates BY <1>1, <2>3, <2>4 DEF DepStates
  <2>6. Keys(n) = Keys(d) BY <1>2, <2>3, <2>4 DEF Keys
  <2>7. Ordered(n) BY <2>3, <2>5, <2>6 DEF Ordered, Listed
  <2>8. Keeps(d, n) BY <2>3 DEF Keeps
  <2>9. ASSUME NEW j \in Pages, NEW g \in n.of[j] \ {f} PROVE n.map[g] = d.map[g]
    BY <1>1, <2>3, <2>4
  <2> QED BY <2>3, <2>4, <2>7, <2>8, <2>9
<1>3. CASE d.map[f] = {}
  <2>1. PICK r : r = DropOldest(d) OBVIOUS
  <2>2. /\ Listed(r) /\ Len(r.order) + 1 <= DepLimit /\ r.map[f] = {} /\ Keeps(d, r)
        /\ \A j \in Pages : \A g \in r.of[j] : r.map[g] = d.map[g]
    BY ONLY NamesApart, Ordered(d), f \in Files, <1>3, <2>1, DropIs
  <2>3. /\ r \in DepStates /\ r.order \in Seq(Files) /\ r.out \in SUBSET Files
        /\ r.map \in [Files -> SUBSET Pages] /\ r.of \in [Pages -> SUBSET Files]
    BY <2>2 DEF Listed, DepStates
  <2>4. PICK map : map = [r.map EXCEPT ![f] = {k}] OBVIOUS
  <2>5. PICK o : o = Append(r.order, f) OBVIOUS
  <2>6. PICK e : e = [r EXCEPT !.map = map] OBVIOUS
  <2>7. e = [map |-> map, of |-> r.of, order |-> r.order, out |-> r.out]
    BY <2>3, <2>6 DEF DepStates
  <2>8. n = [e EXCEPT !.order = o]
    BY <1>3, <1>1c, <2>1, <2>4, <2>5, <2>6 DEF AddDependent
  <2>9. n = [map |-> map, of |-> r.of, order |-> o, out |-> r.out] BY ONLY <2>7, <2>8
  <2>10. n.map = map /\ n.of = r.of /\ n.order = o /\ n.out = r.out BY <2>9
  <2>11. /\ map \in [Files -> SUBSET Pages] /\ map[f] = {k}
         /\ \A g \in Files \ {f} : map[g] = r.map[g]
    BY <2>3, <2>4
  <2>12. f \notin ToSet(r.order) BY <2>2 DEF Listed, Keys
  <2>13. /\ o \in Seq(Files) /\ IsInjective(o) /\ ToSet(o) = ToSet(r.order) \cup {f}
         /\ Len(o) = Len(r.order) + 1
    BY <2>2, <2>3, <2>5, <2>12, AppendedSet DEF Listed
  <2>14. n \in DepStates BY <2>3, <2>9, <2>11, <2>13 DEF DepStates
  <2>15. Keys(n) = Keys(r) \cup {f} BY <2>10, <2>11 DEF Keys
  <2>16. Ordered(n) BY <2>2, <2>10, <2>13, <2>14, <2>15 DEF Ordered, Listed
  <2>17. Keeps(d, n) BY <2>2, <2>10 DEF Keeps
  <2>18. ASSUME NEW j \in Pages, NEW g \in n.of[j] \ {f} PROVE n.map[g] = d.map[g]
    <3>1. g \in r.of[j] /\ g \in Files \ {f} BY <2>3, <2>10
    <3>2. map[g] = r.map[g] BY <2>11, <3>1
    <3> QED BY <2>2, <2>10, <3>1, <3>2
  <2> QED BY <1>3, <2>10, <2>11, <2>16, <2>17, <2>18
<1> QED BY <1>1b, <1>2, <1>3

\* The maps before the first file is registered.
RegisterStart(d, k) == [ForgetScripts(d, {k}) EXCEPT !.of[k] = ToSet(Uses[k])]

\* The page is registered nowhere and nobody else has lost anything.
LEMMA StartIs ==
    ASSUME NamesApart, NEW d, Ordered(d), Agree(d), NEW k \in Pages, NEW n, n = RegisterStart(d, k)
    PROVE  /\ Ordered(n) /\ n.out = d.out /\ n.of[k] = ToSet(Uses[k])
           /\ \A j \in Pages \ {k} : n.of[j] = d.of[j]
           /\ \A j \in Pages \ {k} : \A f \in n.of[j] : j \in n.map[f]
<1>1. PICK e : e = ForgetScripts(d, {k}) OBVIOUS
<1>2. /\ Ordered(e) /\ Agree(e) /\ e.out = d.out
      /\ \A j \in Pages : e.of[j] = IF j \in {k} THEN {} ELSE d.of[j]
  <2>1. PICK S : S = {k} OBVIOUS
  <2>2. S \subseteq Pages BY <2>1
  <2>3. e = ForgetScripts(d, S) BY <1>1, <2>1
  <2>4. /\ Ordered(e) /\ Agree(e) /\ e.out = d.out
        /\ \A j \in Pages : e.of[j] = IF j \in S THEN {} ELSE d.of[j]
    BY <2>2, <2>3, ForgetIs
  <2> QED BY <2>1, <2>4
<1>3. /\ e \in DepStates /\ e.order \in Seq(Files) /\ e.out \in SUBSET Files
      /\ e.map \in [Files -> SUBSET Pages] /\ e.of \in [Pages -> SUBSET Files]
  BY <1>2 DEF Ordered, Listed, DepStates
<1>4. PICK of : of = [e.of EXCEPT ![k] = ToSet(Uses[k])] OBVIOUS
<1>5. n = [e EXCEPT !.of = of] BY <1>1, <1>4 DEF RegisterStart
<1>6. n.map = e.map /\ n.of = of /\ n.order = e.order /\ n.out = e.out /\
      n = [map |-> e.map, of |-> of, order |-> e.order, out |-> e.out]
  BY <1>3, <1>5 DEF DepStates
<1>7. ToSet(Uses[k]) \subseteq Files BY SourcesAreFiles
<1>8. /\ of \in [Pages -> SUBSET Files] /\ of[k] = ToSet(Uses[k])
      /\ \A j \in Pages \ {k} : of[j] = e.of[j]
  BY <1>3, <1>4, <1>7
<1>9. n \in DepStates BY <1>3, <1>6, <1>8 DEF DepStates
<1>10. Keys(n) = Keys(e) BY <1>6 DEF Keys
<1>11. Ordered(n) BY <1>2, <1>6, <1>9, <1>10 DEF Ordered, Listed
<1>12. \A j \in Pages \ {k} : of[j] = d.of[j] BY <1>2, <1>8
<1>13. \A j \in Pages \ {k} : \A f \in of[j] : j \in e.map[f] BY <1>2, <1>8 DEF Agree
<1> QED BY <1>2, <1>6, <1>8, <1>11, <1>12, <1>13

\* The loop of registerDependenciesNoLock.
LEMMA RegisterTable ==
    ASSUME NamesApart, NEW d, Ordered(d), Agree(d), NEW k \in Pages
    PROVE  \E h : /\ Register(d, k) = h[Len(Uses[k])] /\ h[0] = RegisterStart(d, k)
                  /\ \A i \in 1 .. Len(Uses[k]) : h[i] = AddDependent(h[i - 1], Uses[k][i], k)
<1>1. PICK u \in Seq(Files) : u = Uses[k] OBVIOUS
<1>2. PICK a : a = RegisterStart(d, k) OBVIOUS
<1> DEFINE OD == {e \in DepStates : Ordered(e)}
           Eq(h) == h = [i \in 0 .. Len(u) |->
                           IF i = 0 THEN a ELSE AddDependent(h[i - 1], u[i], k)]
           h1 == CHOOSE h : Eq(h)
           G == [p \in Nat \X OD |->
                   IF p[1] \in 1 .. Len(u) THEN AddDependent(p[2], u[p[1]], k) ELSE p[2]]
<1>3. Len(u) \in Nat /\ \A i \in 1 .. Len(u) : u[i] \in Files OBVIOUS
<1>4. a \in OD BY <1>2, StartIs DEF Ordered, Listed
<1>5. ASSUME NEW e \in OD, NEW f \in Files PROVE AddDependent(e, f, k) \in OD
  <2>1. PICK n : n = AddDependent(e, f, k) OBVIOUS
  <2>2. Ordered(n) BY <2>1, AddIs
  <2> QED BY <2>1, <2>2 DEF Ordered, Listed
<1> HIDE DEF OD
<1>6. G \in [Nat \X OD -> OD] BY <1>3, <1>5
<1>7. PICK g : LoopTable(g, Len(u), OD, a, G)
  <2> HIDE DEF G
  <2> QED BY <1>3, <1>4, <1>6, LoopsRun
<1>8. g \in [0 .. Len(u) -> OD] /\ g[0] = a BY <1>7 DEF LoopTable
<1>9. ASSUME NEW i \in 1 .. Len(u) PROVE g[i] = AddDependent(g[i - 1], u[i], k)
  <2>1. i \in Nat /\ i - 1 \in 0 .. Len(u) BY <1>3
  <2>2. g[i - 1] \in OD BY <1>8, <2>1
  <2>3. g[i] = G[<<i, g[i - 1]>>] BY <1>7 DEF LoopTable
  <2> QED BY <2>1, <2>2, <2>3
<1>10. Eq(g)
  <2>1. ASSUME NEW i \in 0 .. Len(u)
        PROVE  g[i] = IF i = 0 THEN a ELSE AddDependent(g[i - 1], u[i], k)
    <3>1. CASE i = 0 BY <1>8, <3>1
    <3>2. CASE i \in 1 .. Len(u) BY <1>9, <3>2
    <3> QED BY <1>3, <3>1, <3>2
  <2> QED BY <1>8, <2>1
<1>11. Eq(h1) BY <1>10
<1>12. Register(d, k) = h1[Len(u)] BY <1>1, <1>2 DEF Register, RegisterStart
<1> HIDE DEF h1
<1>13. h1[0] = a BY <1>3, <1>11
<1>14. ASSUME NEW i \in 1 .. Len(u) PROVE h1[i] = AddDependent(h1[i - 1], u[i], k)
  <2>1. i \in 0 .. Len(u) /\ i # 0 BY <1>3
  <2> QED BY <1>11, <2>1
<1> QED BY <1>1, <1>2, <1>12, <1>13, <1>14

\* registerDependenciesNoLock keeps the maps in step: a file that waits for its
\* turn is in scriptDependencies already, and is put into dependencyMap, or
\* has been pushed out of both.
LEMMA RegisterIs ==
    ASSUME NamesApart, NEW d, Ordered(d), Agree(d), NEW k \in Pages, NEW n, n = Register(d, k)
    PROVE  /\ Ordered(n) /\ Agree(n)
           /\ ToSet(Uses[k]) \subseteq n.of[k] \cup n.out
           /\ \A j \in Pages \ {k} : d.of[j] \cup d.out \subseteq n.of[j] \cup n.out
<1>1. PICK u \in Seq(Files) : u = Uses[k] OBVIOUS
<1>2. PICK N \in Nat : N = Len(u) OBVIOUS
<1>3. PICK a : a = RegisterStart(d, k) OBVIOUS
<1>4. PICK h : /\ n = h[N] /\ h[0] = a
               /\ \A i \in 1 .. N : h[i] = AddDependent(h[i - 1], u[i], k)
  <2>1. PICK h : /\ Register(d, k) = h[Len(Uses[k])] /\ h[0] = RegisterStart(d, k)
                 /\ \A i \in 1 .. Len(Uses[k]) : h[i] = AddDependent(h[i - 1], Uses[k][i], k)
    BY RegisterTable
  <2> QED BY <1>1, <1>2, <1>3, <2>1
<1>5. /\ Ordered(a) /\ a.out = d.out /\ a.of[k] = ToSet(Uses[k])
      /\ \A j \in Pages \ {k} : a.of[j] = d.of[j]
      /\ \A j \in Pages \ {k} : \A f \in a.of[j] : j \in a.map[f]
  BY <1>3, StartIs
<1>6. DOMAIN u = 1 .. N /\ \A i \in 1 .. N : u[i] \in Files BY <1>2
<1> DEFINE Waits(i, f) == \E l \in i + 1 .. N : u[l] = f
           Good(i) == /\ Ordered(h[i]) /\ Keeps(a, h[i])
                      /\ \A j \in Pages : \A f \in h[i].of[j] :
                           j \in h[i].map[f] \/ (j = k /\ Waits(i, f))
           A == {i \in Nat : i <= N => Good(i)}
<1>7. 0 \in A
  <2>1. Keeps(a, a) BY DEF Keeps
  <2>2. ASSUME NEW f \in a.of[k] PROVE Waits(0, f)
    <3>1. PICK l \in 1 .. N : u[l] = f BY <1>1, <1>5, <1>6 DEF ToSet
    <3> QED BY <3>1
  <2>3. \A j \in Pages : \A f \in a.of[j] : j \in a.map[f] \/ (j = k /\ Waits(0, f))
    BY <1>5, <2>2
  <2> QED BY <1>4, <1>5, <2>1, <2>3
<1>8. ASSUME NEW i \in A PROVE i + 1 \in A
  <2> SUFFICES ASSUME i + 1 <= N PROVE Good(i + 1) OBVIOUS
  <2>1. PICK m \in 1 .. N : m = i + 1 OBVIOUS
  <2>2. m - 1 = i /\ Good(i) BY <2>1
  <2>3. PICK e : e = h[i] OBVIOUS
  <2>4. PICK x \in Files : x = u[m] BY <1>6
  <2>5. PICK b : b = AddDependent(e, x, k) OBVIOUS
  <2>6. h[m] = b BY <1>4, <2>2, <2>3, <2>4, <2>5
  <2>7. Ordered(e) /\ Keeps(a, e) BY <2>2, <2>3
  <2>8. /\ Ordered(b) /\ Keeps(e, b) /\ e.map[x] \cup {k} \subseteq b.map[x]
        /\ \A j \in Pages : \A g \in b.of[j] \ {x} : b.map[g] = e.map[g]
    BY <2>5, <2>7, AddIs
  <2>9. Keeps(a, b) BY <2>7, <2>8 DEF Keeps
  <2>10. ASSUME NEW j \in Pages, NEW f \in b.of[j]
         PROVE  j \in b.map[f] \/ (j = k /\ Waits(m, f))
    <3>1. f \in e.of[j] BY <2>8 DEF Keeps
    <3>2. j \in e.map[f] \/ (j = k /\ Waits(i, f)) BY <2>2, <2>3, <3>1
    <3>3. CASE f = x
      <4>1. CASE j = k BY <2>8, <3>3, <4>1
      <4>2. CASE j # k BY <2>8, <3>2, <3>3, <4>2
      <4> QED BY <4>1, <4>2
    <3>4. CASE f # x
      <4>1. b.map[f] = e.map[f] BY <2>8, <3>4
      <4>2. Waits(i, f) => Waits(m, f)
        <5> SUFFICES ASSUME NEW l \in i + 1 .. N, u[l] = f PROVE Waits(m, f) OBVIOUS
        <5>1. l # m BY <2>4, <3>4
        <5>2. l \in m + 1 .. N BY <2>1, <5>1
        <5> QED BY <5>2
      <4> QED BY <3>2, <4>1, <4>2
    <3> QED BY <3>3, <3>4
  <2> HIDE DEF Waits
  <2>11. Good(m) BY <2>6, <2>8, <2>9, <2>10
  <2> QED BY <2>1, <2>11
<1>9. A = Nat
  <2>1. A \in SUBSET Nat OBVIOUS
  <2> HIDE DEF A
  <2> QED BY <1>7, <1>8, <2>1, SetInduction
<1>10. Good(N)
  <2>1. N \in A
    <3> HIDE DEF A
    <3> QED BY <1>9
  <2> QED BY <2>1
<1>11. \A f : ~Waits(N, f) OBVIOUS
<1>12. Ordered(n) /\ Agree(n) /\ Keeps(a, n)
  <2> HIDE DEF Waits
  <2> QED BY <1>4, <1>10, <1>11 DEF Agree
<1>13. ToSet(Uses[k]) \subseteq n.of[k] \cup n.out BY <1>5, <1>12 DEF Keeps
<1>14. \A j \in Pages \ {k} : d.of[j] \cup d.out \subseteq n.of[j] \cup n.out
  BY <1>5, <1>12 DEF Keeps
<1> QED BY <1>12, <1>13, <1>14

(***************************************************************************)
(* The books, as an invariant.                                             *)
(***************************************************************************)

\* scriptDependencies has the files of every page in memory.
Filed == \A k \in Held(mem) : ToSet(Uses[k]) \subseteq deps.of[k] \cup deps.out

Books ==
    /\ Accounted(mem)
    /\ NamesApart => mem.total <= MaxBytes /\ Ordered(deps) /\ Agree(deps) /\ Filed

\* At the start there is nothing to account for.
LEMMA EmptyBooks ==
    ASSUME NEW m, m = [prog |-> [k \in Pages |-> None], order |-> <<>>, total |-> 0],
           NEW d, d = [map |-> [f \in Files |-> {}], of |-> [k \in Pages |-> {}],
                       order |-> <<>>, out |-> {}]
    PROVE  /\ Accounted(m) /\ m.total <= MaxBytes /\ Held(m) = {}
           /\ Ordered(d) /\ Agree(d)
<1>1. Held(m) = {} BY DEF Held
<1>2. SizeOf({}) = 0
  <2>1. UNION {{k} \X (1 .. Size[k]) : k \in {}} = {} OBVIOUS
  <2> QED BY <2>1, FS_EmptySet DEF SizeOf
<1>3. <<>> \in Seq(Pages) /\ <<>> \in Seq(Files) /\ Len(<<>>) = 0
      /\ ToSet(<<>>) = {} /\ IsInjective(<<>>)
  BY DEF ToSet, IsInjective
<1>4. m \in Tiers BY <1>3 DEF Tiers
<1>5. m.order = <<>> /\ m.total = 0 OBVIOUS
<1>6. Accounted(m)
  <2>1. IsFiniteSet(Held(m)) BY <1>1, FS_EmptySet
  <2> QED BY <1>1, <1>2, <1>3, <1>4, <1>5, <2>1 DEF Accounted, Spelled
<1>7. d \in DepStates BY <1>3 DEF DepStates
<1>8. d.order = <<>> /\ (\A f \in Files : d.map[f] = {}) /\ (\A k \in Pages : d.of[k] = {})
  OBVIOUS
<1>9. Keys(d) = {} BY <1>8 DEF Keys
<1>10. Ordered(d)
  <2>1. ToSet(d.order) = Keys(d) /\ IsInjective(d.order) BY <1>3, <1>8, <1>9
  <2>2. Len(d.order) = 0 BY <1>3, <1>8
  <2>3. 0 <= DepLimit OBVIOUS
  <2> QED BY <1>7, <2>1, <2>2, <2>3 DEF Ordered, Listed
<1>11. Agree(d) BY <1>8 DEF Agree
<1>12. m.total <= MaxBytes BY <1>5
<1> QED BY <1>1, <1>6, <1>10, <1>11, <1>12

\* Taking pages out of both tables; what is not in memory stays in the order.
LEMMA TakeOut ==
    ASSUME Books, NEW S, NamesApart => S \subseteq Pages,
           NEW R, R \subseteq Pages, S \cap Held(mem) \subseteq R,
           mem' = RemovePrograms(mem, R), deps' = ForgetScripts(deps, S)
    PROVE  Books'
<1>1. PICK m : m = mem OBVIOUS
<1>2. PICK d : d = deps OBVIOUS
<1>3. PICK n : n = RemovePrograms(m, R) OBVIOUS
<1>4. PICK e : e = ForgetScripts(d, S) OBVIOUS
<1>5. Accounted(m) /\ m.total \in Nat BY <1>1 DEF Books, Accounted, Tiers
<1>6. Accounted(n) /\ Held(n) = Held(m) \ R /\ n.total <= m.total
  BY <1>3, <1>5, RemoveAccounted
<1>7. n.total \in Nat BY <1>6 DEF Accounted, Tiers
<1>8. mem' = n /\ deps' = e BY <1>1, <1>2, <1>3, <1>4
<1>9. ASSUME NamesApart
      PROVE  /\ n.total <= MaxBytes /\ Ordered(e) /\ Agree(e)
             /\ \A k \in Held(n) : ToSet(Uses[k]) \subseteq e.of[k] \cup e.out
  <2>1. m.total <= MaxBytes /\ Ordered(d) /\ Agree(d) /\ Filed
    BY <1>1, <1>2, <1>9 DEF Books
  <2>2. /\ Ordered(e) /\ Agree(e) /\ e.out = d.out
        /\ \A k \in Pages : e.of[k] = IF k \in S THEN {} ELSE d.of[k]
    BY <1>4, <1>9, <2>1, ForgetIs
  <2>3. n.total <= MaxBytes BY <1>5, <1>6, <1>7, <2>1
  <2>4. ASSUME NEW k \in Held(n) PROVE ToSet(Uses[k]) \subseteq e.of[k] \cup e.out
    <3>1. k \in Pages /\ k \in Held(m) /\ k \notin S BY <1>1, <1>6 DEF Held
    <3>2. ToSet(Uses[k]) \subseteq d.of[k] \cup d.out BY <1>1, <1>2, <2>1, <3>1 DEF Filed
    <3> QED BY <2>2, <3>1, <3>2
  <2> QED BY <2>2, <2>3, <2>4
<1>10. NamesApart => Filed' BY <1>8, <1>9 DEF Filed
<1>11. NamesApart' <=> NamesApart BY DEF NamesApart
<1> QED BY <1>6, <1>8, <1>9, <1>10, <1>11 DEF Books

\* putByCacheKey
LEMMA PutBooks ==
    ASSUME Books, NEW k \in Pages, NEW p \in AllProgs, Put(k, p)
    PROVE  Books'
<1>1. CASE Size[k] > MaxBytes
  <2>1. PICK S : S = {k} OBVIOUS
  <2>2. S \subseteq Pages /\ S \cap Held(mem) \subseteq S BY <2>1
  <2>3. mem' = RemovePrograms(mem, S) /\ deps' = ForgetScripts(deps, S) BY <1>1, <2>1 DEF Put
  <2> QED BY <2>2, <2>3, TakeOut
<1>2. CASE ~(Size[k] > MaxBytes)
  <2>1. Size[k] <= MaxBytes BY <1>2
  <2>2. PICK m : m = mem OBVIOUS
  <2>3. PICK d : d = deps OBVIOUS
  <2>4. PICK n : n = Insert(m, k, p) OBVIOUS
  <2>5. PICK e : e = Register(d, k) OBVIOUS
  <2>6. Accounted(m) BY <2>2 DEF Books
  <2>7. /\ Accounted(n) /\ Held(n) \subseteq Held(m) \cup {k}
        /\ NamesApart => n.total <= MaxBytes
    BY <2>1, <2>4, <2>6, InsertAccounted
  <2>8. mem' = n /\ deps' = e BY <1>2, <2>2, <2>3, <2>4, <2>5 DEF Put
  <2>9. ASSUME NamesApart
        PROVE  /\ Ordered(e) /\ Agree(e)
               /\ \A j \in Held(n) : ToSet(Uses[j]) \subseteq e.of[j] \cup e.out
    <3>1. Ordered(d) /\ Agree(d) /\ Filed BY <2>3, <2>9 DEF Books
    <3>2. /\ Ordered(e) /\ Agree(e)
          /\ ToSet(Uses[k]) \subseteq e.of[k] \cup e.out
          /\ \A j \in Pages \ {k} : d.of[j] \cup d.out \subseteq e.of[j] \cup e.out
      BY <2>5, <2>9, <3>1, RegisterIs
    <3>3. ASSUME NEW j \in Held(n) PROVE ToSet(Uses[j]) \subseteq e.of[j] \cup e.out
      <4>1. CASE j = k BY <3>2, <4>1
      <4>2. CASE j # k
        <5>1. j \in Pages /\ j \in Held(m) BY <2>7, <4>2 DEF Held
        <5>2. ToSet(Uses[j]) \subseteq d.of[j] \cup d.out BY <2>2, <2>3, <3>1, <5>1 DEF Filed
        <5> QED BY <3>2, <4>2, <5>1, <5>2
      <4> QED BY <4>1, <4>2
    <3> QED BY <3>2, <3>3
  <2>10. NamesApart => Filed' BY <2>8, <2>9 DEF Filed
  <2>11. NamesApart' <=> NamesApart BY DEF NamesApart
  <2> QED BY <2>7, <2>8, <2>9, <2>10, <2>11 DEF Books
<1> QED BY <1>1, <1>2

\* Invalidate
LEMMA InvalidateBooks ==
    ASSUME Books, NEW f \in Files, Invalidate(f)
    PROVE  Books'
<1>1. PICK S : S = ({f} \cap Pages) \cup deps.map[f] OBVIOUS
<1>2. PICK R : R = S \cap Held(mem) OBVIOUS
<1>3. mem' = RemovePrograms(mem, R) /\ deps' = ForgetScripts(deps, S)
  BY <1>1, <1>2 DEF Invalidate
<1>4. NamesApart => S \subseteq Pages
  <2>1. NamesApart => deps.map \in [Files -> SUBSET Pages]
    BY DEF Books, Ordered, Listed, DepStates
  <2> QED BY <1>1, <2>1
<1>5. R \subseteq Pages BY <1>2 DEF Held
<1> QED BY <1>2, <1>3, <1>4, <1>5, TakeOut

\* A step that touches neither table.
LEMMA BooksStay == ASSUME Books, UNCHANGED <<mem, deps>> PROVE Books'
BY DEF Books, Filed, NamesApart

\* The events are of files.
EventTypes == events \in Seq(Files)

\* Every event is appended by an edit.
LEMMA EventsTyped == (Init => EventTypes) /\ (EventTypes /\ [Next]_vars => EventTypes')
<1>1. Init => EventTypes BY DEF Init, EventTypes
<1>2. ASSUME EventTypes, [Next]_vars PROVE EventTypes'
  <2>1. ASSUME NEW r \in Requests, NEW k \in Pages, Miss(r, k) PROVE EventTypes'
    BY <1>2, <2>1 DEF Miss, EventTypes
  <2>2. ASSUME NEW k \in Pages, Flying(k) PROVE EventTypes'
    <3>1. UNCHANGED events
      BY <2>2 DEF Flying, Recheck, StatSource, LoadDisk, ReadPage, Compile,
         FlightFails, StoreDisk, PutCompiled
    <3> QED BY <1>2, <3>1 DEF EventTypes
  <2>3. ASSUME NEW f \in Files, Edit(f) PROVE EventTypes'
    BY <1>2, <2>3 DEF Edit, EventTypes
  <2>4. CASE HandleEvent BY <1>2, <2>4 DEF HandleEvent, EventTypes
  <2>5. CASE Tick BY <1>2, <2>5 DEF Tick, EventTypes
  <2>6. CASE Restart BY <2>6 DEF Restart, EventTypes
  <2>7. CASE UNCHANGED vars BY <1>2, <2>7 DEF vars, EventTypes
  <2> QED BY <1>2, <2>1, <2>2, <2>3, <2>4, <2>5, <2>6, <2>7 DEF Next
<1> QED BY <1>1, <1>2

\* NewScriptCache makes empty books.
LEMMA InitBooks == Init => Books
<1> SUFFICES ASSUME Init PROVE Books OBVIOUS
<1>1. PICK m : m = mem OBVIOUS
<1>2. PICK d : d = deps OBVIOUS
<1>3. /\ Accounted(m) /\ m.total <= MaxBytes /\ Held(m) = {}
      /\ Ordered(d) /\ Agree(d)
  BY <1>1, <1>2, EmptyBooks DEF Init
<1> QED BY <1>1, <1>2, <1>3 DEF Books, Filed

\* Every step of a request, a flight, the watcher, the clock and the server.
LEMMA NextBooks == DInv /\ EventTypes /\ Books /\ [Next]_vars => Books'
<1> SUFFICES ASSUME DInv, EventTypes, Books, [Next]_vars PROVE Books' OBVIOUS
<1>1. ASSUME NEW r \in Requests, NEW k \in Pages, Miss(r, k) PROVE Books'
  BY <1>1, BooksStay DEF Miss
<1>2. ASSUME NEW k \in Pages, Flying(k) PROVE Books'
  <2>1. CASE Recheck(k) BY <2>1, BooksStay DEF Recheck
  <2>2. CASE StatSource(k) BY <2>2, BooksStay DEF StatSource
  <2>3. CASE LoadDisk(k)
    <3>1. CASE DiskFresh(k)
      <4>1. disk[k].prog \in AllProgs BY <3>1 DEF DInv, FileTypes, Entries, DiskFresh, AllProgs
      <4>2. Put(k, disk[k].prog) BY <2>3, <3>1 DEF LoadDisk
      <4> QED BY <4>1, <4>2, PutBooks
    <3>2. CASE ~DiskFresh(k) BY <2>3, <3>2, BooksStay DEF LoadDisk
    <3> QED BY <3>1, <3>2
  <2>4. CASE ReadPage(k) BY <2>4, BooksStay DEF ReadPage
  <2>5. CASE Compile(k) BY <2>5, BooksStay DEF Compile
  <2>6. CASE FlightFails(k) BY <2>6, BooksStay DEF FlightFails
  <2>7. CASE StoreDisk(k) BY <2>7, BooksStay DEF StoreDisk
  <2>8. CASE PutCompiled(k)
    <3>1. flight[k].prog \in AllProgs
      BY <2>8 DEF PutCompiled, DInv, FileTypes, FlightOK, PagesCompiled, AllProgs
    <3>2. Put(k, flight[k].prog) BY <2>8 DEF PutCompiled
    <3> QED BY <3>1, <3>2, PutBooks
  <2> QED BY <1>2, <2>1, <2>2, <2>3, <2>4, <2>5, <2>6, <2>7, <2>8 DEF Flying
<1>3. ASSUME NEW f \in Files, Edit(f) PROVE Books' BY <1>3, BooksStay DEF Edit
<1>4. CASE HandleEvent
  <2>1. PICK f : f = Head(events) OBVIOUS
  <2>2. CASE Debounced(f) BY <1>4, <2>1, <2>2, BooksStay DEF HandleEvent
  <2>3. CASE ~Debounced(f)
    <3>1. Invalidate(f) BY <1>4, <2>1, <2>3 DEF HandleEvent
    <3>2. f \in Files BY <1>4, <2>1 DEF EventTypes, HandleEvent
    <3> QED BY <3>1, <3>2, InvalidateBooks
  <2> QED BY <2>2, <2>3
<1>5. CASE Tick BY <1>5, BooksStay DEF Tick
<1>6. CASE Restart
  <2>1. PICK m : m = mem' OBVIOUS
  <2>2. PICK d : d = deps' OBVIOUS
  <2>3. /\ Accounted(m) /\ m.total <= MaxBytes /\ Held(m) = {}
        /\ Ordered(d) /\ Agree(d)
    BY <1>6, <2>1, <2>2, EmptyBooks DEF Restart
  <2>4. NamesApart' <=> NamesApart BY DEF NamesApart
  <2> QED BY <2>1, <2>2, <2>3, <2>4 DEF Books, Filed
<1>7. CASE UNCHANGED vars BY <1>7, BooksStay DEF vars
<1> QED BY <1>1, <1>2, <1>3, <1>4, <1>5, <1>6, <1>7 DEF Next

\* The books balance at every moment.
LEMMA BooksBalance == Spec => []Books
<1>1. Spec => []DInv BY InitDInv, NextDInv, PTL DEF Spec
<1>2. Spec => []EventTypes BY EventsTyped, PTL DEF Spec
<1> QED BY <1>1, <1>2, InitBooks, NextBooks, PTL DEF Spec

\* putByCacheKey, removeProgramNoLock: whatever is stored, evicted, invalidated
\* and restarted, totalBytes is the size of what is in memory and programOrder
\* lists programs in memory, each once and in one spelling; it lists them all
\* and the total is within the limit where no two files differ in case only.
THEOREM MemoryIsAccounted == Spec => []MemoryAccounted
<1>1. Books => MemoryAccounted
  BY DEF Books, Accounted, Spelled, MemoryAccounted, WithinLimit
<1> QED BY <1>1, BooksBalance, PTL

\* registerDependenciesNoLock, removeScriptDependenciesNoLock: where no two
\* files differ in case only, the maps and the order list stay in step at every
\* limit, so that a full dependencyMap always has an oldest entry and an edited
\* file knows every page it is recorded for.
THEOREM MapsAgree == Spec => []DependenciesAgree
<1>1. Books => DependenciesAgree
  BY DEF Books, Ordered, Listed, Agree, DependenciesAgree
<1> QED BY <1>1, BooksBalance, PTL

\* Invalidate: where no two files differ in case only, a page in memory is found
\* under each of its include files unless the limit pushed that file out.
THEOREM CachedPagesAreRegistered == Spec => []CachedIsRegistered
<1>1. ASSUME Books PROVE CachedIsRegistered
  <2> SUFFICES ASSUME NamesApart, NEW k \in Held(mem), NEW f \in ToSet(Uses[k]) \ deps.out
               PROVE  k \in deps.map[f]
    BY DEF CachedIsRegistered, Registered
  <2>1. Agree(deps) /\ Filed BY <1>1 DEF Books
  <2>2. f \in deps.of[k] /\ k \in Pages BY <2>1 DEF Filed, Held
  <2> QED BY <2>1, <2>2 DEF Agree
<1> QED BY <1>1, BooksBalance, PTL

=============================================================================
